SPECIFICATION MixedSpec
CONSTANTS
  Events = {e1, e2, e3}
  Poison = {e3}
  Writers = {w1, w2}
  Drainers = {d1, d2}
  None = None
  MaxPending = 1
  DrainBatch = 2
  MaxAttempts = 2
  MaxFaults = 1
  MaxReplays = 1
  FailureThreshold = 2
  SuccessThreshold = 2
  InitialBackoff = 1
  MaxBackoff = 1
SYMMETRY BrokerSymmetry
INVARIANTS OvershootBounded NothingVanishes OkMeansStored OneCopyPerFault
PROPERTY DeadOnlyAfterTries
CHECK_DEADLOCK FALSE
