\* Fan-out and fan-in with exclusive edges.
SPECIFICATION Spec
CONSTANTS
  w1 = w1  w2 = w2  w3 = w3  r1 = r1  r2 = r2  e1 = e1  e2 = e2  e3 = e3
  Writers = {w1, w2}
  Readers = {r1, r2}
  Edges = {e1, e2, e3}
  Fanout <- MeshFanout
  Fanin <- MeshFanin
  Capacity <- MeshCapacity
  MaxPackets = 2
INVARIANTS
  PerWriterOrder
  ClosedMeansDrained
  EnqueuedBeforeDequeued
PROPERTIES
  ImplementsBus
CHECK_DEADLOCK FALSE
