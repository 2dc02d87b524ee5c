SPECIFICATION Spec
CONSTANTS
  NaN = NaN
  Inf = Inf
  NegInf = NegInf
  Garbled = Garbled
  None = None
  FrequencyTable <- ShippedTable
  ReasoningReplies <- AllReasoning
  FalsifierReplies <- AllFalsifier
  PredictionReplies <- AllPrediction
  ENABLE_AUTONOMOUS_LOW_RISK = FALSE
  Triggers <- AllTriggers
  MaxInvocations = 1
CHECK_DEADLOCK FALSE
INVARIANT PredictionConcernsRecommendation
