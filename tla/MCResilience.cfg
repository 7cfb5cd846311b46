\* Two calls of one operation, two attempts each, a threshold of two.
CONSTANTS
  Calls = {c1, c2}
  Ops = {payment}
  Breakers = {1, 2, 3}
  NoBreaker = NoBreaker
  FailureThreshold = 2
  RecoveryTimeout = 2
  MaxAttempts = 2
  BaseDelay = 1
  BackoffMultiplier = 2
  MaxDelay = 2
  Lifetime = 3
  CacheSize = 1000
SPECIFICATION FairSpec
INVARIANTS TypeOK FailuresPerWindow RefusalIsReported
PROPERTIES OnlyTimeLifts OnlyFailuresProlong CallsEnd
