\* Two rule nodes in a row, with every strategy over small rule sets.
SPECIFICATION Spec
CONSTANTS
  Hosts = {"h1", "h2"}
  WasmHosts = {"h2"}
  Source = "src"
  Sinks = {"sink"}
  Edges <- MCEdges
  Outputs <- MCOutputs
  Candidates <- MCCandidates
  Holds <- EvalCondition
  Parts <- Subconditions
  Payloads <- MCPayloads
  Workflow = "wf"
  Cap = 1
  MaxPackets = 2
INVARIANTS
  DecisionIsBest
  ViolationsForetellRun
  NothingLost
  AuditTrail
  GuestAgrees
  GlobMeansWildcards
CHECK_DEADLOCK FALSE
