\* Clones compete for full edges while readers may stop, drain or drop.
SPECIFICATION LiveSpec
CONSTANTS
  w1 = w1  w2 = w2  w3 = w3  r1 = r1  r2 = r2  e1 = e1  e2 = e2  e3 = e3
  Writers = {w1, w2, w3}
  Readers = {r1}
  Edges = {e1, e2}
  Fanout <- ClonesFanout
  Fanin <- ClonesFanin
  Capacity <- UnitCapacity
  MaxPackets = 1
INVARIANTS
  TypeOK
  CapacityRespected
  PermitsAccounted
  AtomicFanout
PROPERTIES
  CancelReleasesSenders
  ReserveEnds
CHECK_DEADLOCK FALSE
