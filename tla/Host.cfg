\* Every simple directed graph over three nodes and malformed workflows, read
\* from documents; sessions of up to three commands over flawed files.
SPECIFICATION FairHostSpec
CONSTANTS
  N = 3
  Workflows <- SimpleAndFaulty
  InPorts <- MCInPorts
  OutPorts <- MCOutPorts
  Sessions <- MCSessions
INVARIANTS
  AcceptedIsWellFormed
  OrderIsTopological
  ReportedCycleIsReal
  CommandsAgree
  ManifestForetellsRun
  IntrospectionSound
  EvidenceKept
PROPERTIES
  CommandEnds
CHECK_DEADLOCK FALSE
