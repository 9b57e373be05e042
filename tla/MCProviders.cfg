SPECIFICATION Spec
CONSTANTS
  N = 2
  Healths <- MCHealths
INVARIANTS
  FlushBeforeStop
  FailureStrandsNobody
  LossIsReported
  FailedSetupCleansUp
PROPERTY
  ShutdownReturns
