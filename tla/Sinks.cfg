SPECIFICATION Spec
CONSTANTS
  Threads = {t1, t2}
  Facts <- MCFacts
  Records <- MCRecords
  Policies <- MCPolicies
  UsizeMax = 3
  BufSize = 2
  MaxCalls = 4
  MaxFlushes = 1
  MaxFaults = 2
SYMMETRY Symmetry
CHECK_DEADLOCK FALSE
INVARIANTS
  SampleExact
  TornOnlyAfterFailure
  FlushedSurvives
  LogDeterminesRecord
