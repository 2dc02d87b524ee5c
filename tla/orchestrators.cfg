SPECIFICATION BothSpec
CONSTANTS
  NaN = NaN
  Inf = Inf
  NegInf = NegInf
  Garbled = Garbled
  None = None
  FrequencyTable <- SkewedTable
  ReasoningReplies <- SureReasoning
  FalsifierReplies <- SureFalsifier
  PredictionReplies <- SurePrediction
  ENABLE_AUTONOMOUS_LOW_RISK = TRUE
  Triggers <- OneTrigger
  MaxInvocations = 2
CHECK_DEADLOCK FALSE
INVARIANTS
  SameResult
  HeldIsWhole
  AutonomyJustified
  UnattendedOnTrail
PROPERTIES
  BothEnd
