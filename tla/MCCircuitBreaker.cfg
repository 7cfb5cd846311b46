\* Four callers, a threshold of three failures, a clock of two ticks.
CONSTANTS
  Callers = {c1, c2, c3, c4}
  FailureThreshold = 3
  RecoveryTimeout = 2
SPECIFICATION FairSpec
INVARIANTS TypeOK ClosedBelowThreshold ArmedUntilSpared
PROPERTIES FailedProbeReopens ClosesThroughHalfOpen
           RecoversForGood KeepsTripping KeepsProbing
