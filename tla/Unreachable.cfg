\* Rules that introspection calls unreachable, at work.
SPECIFICATION Spec
CONSTANTS
  Hosts = {"h1", "h2"}
  WasmHosts = {"h2"}
  Source = "src"
  Sinks = {"sink"}
  Edges <- MCEdges
  Outputs <- MCOutputs
  Candidates <- ShadowCandidates
  Holds <- EvalCondition
  Parts <- Subconditions
  Payloads <- MCPayloads
  Workflow = "wf"
  Cap = 1
  MaxPackets = 1
INVARIANTS
  UnreachableNeverFires
CHECK_DEADLOCK FALSE
