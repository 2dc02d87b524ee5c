SPECIFICATION Spec
CONSTANTS
  Empty = Empty
  Records <- FiveLines
INVARIANTS
  PriorCacheTypeOK
  PriorsAreShares
  CacheIsOfAPrefix
PROPERTY LoadEnds
