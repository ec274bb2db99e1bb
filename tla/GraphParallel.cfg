\* Two edges between the same pair of nodes.
SPECIFICATION Spec
CONSTANTS
  N = 2
  Workflows <- Parallel
  InPorts <- MCInPorts
  OutPorts <- MCOutPorts
INVARIANTS
  CycleErrorMeansCycle
CHECK_DEADLOCK FALSE
