SPECIFICATION Spec
CONSTANTS
  NaN = NaN
  Inf = Inf
  NegInf = NegInf
  Garbled = Garbled
  None = None
  FrequencyTable <- ShippedTable
  ReasoningReplies <- CannedReasoningReplies
  FalsifierReplies <- CannedFalsifierReplies
  PredictionReplies <- CannedPredictionReplies
  ENABLE_AUTONOMOUS_LOW_RISK = FALSE
  Scenarios <- AllKinds
  MaxLimit = 1
CHECK_DEADLOCK FALSE
INVARIANT ConfirmedMeansCorrect
