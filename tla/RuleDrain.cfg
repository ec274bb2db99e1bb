CONSTANTS
  src = src
  rule = rule
  gen = gen
  sink = sink
  back = back
  Nodes = {src, rule, gen, sink}
  Kind <- KindOf
  Inputs <- MixedInputs
  Outputs <- MixedOutputs
  Wire <- MixedWire
  MaxOut = 2
  Setups <- CheckedSetups
SPECIFICATION Spec
INVARIANTS
  DrainGuarantee
CHECK_DEADLOCK FALSE
