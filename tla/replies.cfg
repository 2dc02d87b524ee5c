SPECIFICATION Spec
CONSTANTS
  NaN = NaN
  Inf = Inf
  NegInf = NegInf
  Garbled = Garbled
  None = None
  Blank = Blank
  FrequencyTable <- ShippedTable
  ReasoningReplies <- OneReply
  FalsifierReplies = {}
  PredictionReplies = {}
  ENABLE_AUTONOMOUS_LOW_RISK = FALSE
  Phrases <- TwoPhrases
  SupportLists <- Cited
  Numbers <- SomeNumbers
  FindingNumbers <- SomeFindings
  DeltaParts <- SomeParts
  Triggers <- OneTrigger
  MaxLines = 3
CHECK_DEADLOCK FALSE
INVARIANTS
  ClaimsParsed
  FlatParseAgrees
  FalsificationParsed
  PredictionParsed
