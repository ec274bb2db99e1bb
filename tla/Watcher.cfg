SPECIFICATION FairSpec
CONSTANTS
  Debounce = 2
  Capacity = 1
  SeqFits = 3
  MaxPaths = 2
  MaxEvents = 3
  MaxClock = 4
CHECK_DEADLOCK FALSE
INVARIANT QuietEventReported
PROPERTY StopRequestEnds
