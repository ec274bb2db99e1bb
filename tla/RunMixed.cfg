CONSTANTS
  src = src
  rule = rule
  gen = gen
  sink = sink
  back = back
  Nodes = {src, rule, gen, sink}
  Kind <- KindOf
  Inputs <- MixedInputs
  Outputs <- MixedOutputs
  Wire <- MixedWire
  MaxOut = 2
  Setups <- MixedSetups
SPECIFICATION FairSpec
INVARIANTS
  FirstErrorCancels
  SummaryAccounts
  CompletedMeansDelivered
  NoMissedWake
PROPERTIES
  RunEnds
CHECK_DEADLOCK FALSE
