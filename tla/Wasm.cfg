\* Two invocations of one engine, each with its own token.
SPECIFICATION FairSpec
CONSTANTS
  Calls = {"c1", "c2"}
  Engines = {"e"}
  Tokens = {"t1", "t2"}
  EngineOf <- MCEngineOf
  TokenOf <- MCTokenOf
  Scenarios <- MCScenarios
  NoInput <- Absent
  Replies <- MCReplies
  Decode <- MCDecode
  EpochDeadline = 1
  Fuel = 2
  HeapBase = 3
  PageSize = 8
  MaxPages = 2
  Requests <- MCRequests
INVARIANTS
  BumpReachesGuest
  VerdictMatchesInterruption
  BlocksDisjoint
  GuestAnswersIntact
PROPERTY
  InvocationEnds
CHECK_DEADLOCK FALSE
