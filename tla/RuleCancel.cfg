CONSTANTS
  src = src
  rule = rule
  gen = gen
  sink = sink
  back = back
  Nodes = {src, rule, back, gen}
  Kind <- FeedbackKind
  Inputs <- FeedbackInputs
  Outputs <- FeedbackOutputs
  Wire <- FeedbackWire
  MaxOut = 2
  Setups <- FeedbackSetups
SPECIFICATION FairSpec
PROPERTIES
  WaitingRuleNodeCancels
CHECK_DEADLOCK FALSE
