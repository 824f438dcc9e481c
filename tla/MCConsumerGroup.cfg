SPECIFICATION Spec
CONSTANTS
  Ids = {1, 2, 3}
  Nil = Nil
  Configs <- MCConfigs
  RetryDelay <- MCRetryDelay
  HasLimiter = TRUE
  RateMax = 2
  RateWindow = 1
  MaxTime = 2
  MaxDeficit = 1
  MaxHoles = 1
INVARIANTS OnePlace Conservation DrainCoversPending
PROPERTIES ParallelismRespected  NoEarlyRetry DispatchOrder ImplementsLifecycle
