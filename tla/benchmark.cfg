SPECIFICATION Spec
CONSTANTS
  NaN = NaN
  Inf = Inf
  NegInf = NegInf
  Garbled = Garbled
  None = None
  FrequencyTable <- ShippedTable
  ReasoningReplies <- CannedReasoningReplies
  FalsifierReplies <- CannedFalsifierReplies
  PredictionReplies <- CannedPredictionReplies
  ENABLE_AUTONOMOUS_LOW_RISK = FALSE
  Scenarios <- AllKinds
  MaxLimit = 2
CHECK_DEADLOCK FALSE
INVARIANTS
  CalibrationCoherent
  CannedClaimsCited
  PredictionConcernsAction
  ScenariosIsolated
PROPERTIES
  BenchmarkReports
