SPECIFICATION ExampleSpec
CONSTANTS
  NaN = NaN
  Inf = Inf
  NegInf = NegInf
  Garbled = Garbled
  None = None
  FrequencyTable <- ShippedTable
  ReasoningReplies <- CannedReasoningReplies
  FalsifierReplies <- CannedFalsifierReplies
  PredictionReplies <- CannedPredictionReplies
  ENABLE_AUTONOMOUS_LOW_RISK = FALSE
  Triggers <- ManyAlerts
  MaxInvocations = 1
  Script = "synthetic"
CHECK_DEADLOCK FALSE
INVARIANT ReportShowsAll
