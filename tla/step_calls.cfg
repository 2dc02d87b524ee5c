SPECIFICATION Spec
CONSTANTS
  NaN = NaN
  Inf = Inf
  NegInf = NegInf
  Garbled = Garbled
  None = None
  FrequencyTable <- ShippedTable
  ReasoningReplies <- FewReasoning
  FalsifierReplies <- FewFalsifier
  PredictionReplies <- FewPrediction
  ENABLE_AUTONOMOUS_LOW_RISK = FALSE
  Triggers <- TwoTriggers
  MaxTrail = 8
CHECK_DEADLOCK FALSE
INVARIANTS
  TypeOK
  ClaimsGrounded
  ConfidenceConsistent
  TrailExplainsActions
  ExtensionsOnTrail
PROPERTIES
  EvidenceKept
