SPECIFICATION Spec
CONSTANTS
  NaN = NaN
  Inf = Inf
  NegInf = NegInf
  Garbled = Garbled
  None = None
  FrequencyTable <- NearShippedTable
  ReasoningReplies <- AllReasoning
  FalsifierReplies <- AllFalsifier
  PredictionReplies <- AllPrediction
  ENABLE_AUTONOMOUS_LOW_RISK = TRUE
  Triggers <- AllTriggers
  MaxInvocations = 1
CHECK_DEADLOCK FALSE
INVARIANTS
  InvestigationTypeOK
  HypothesisGrounded
  HumanAlwaysAsked
