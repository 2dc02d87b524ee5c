SPECIFICATION Spec
CONSTANTS
  NaN = NaN
  Inf = Inf
  NegInf = NegInf
  Garbled = Garbled
  None = None
  FrequencyTable <- ShippedTable
  ReasoningReplies <- FewReasoning
  FalsifierReplies <- FewFalsifier
  PredictionReplies <- FewPrediction
  ENABLE_AUTONOMOUS_LOW_RISK = FALSE
  Triggers <- TwoTriggers
  MaxInvocations = 3
CHECK_DEADLOCK FALSE
INVARIANTS
  TrailFollowsPipeline
  ReturnedStateIsCoherent
PROPERTIES
  ImplementsGate
