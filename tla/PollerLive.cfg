SPECIFICATION LiveSpec
CONSTANTS
  Runners = {r1, r2}
  Tasks = {t1, t2}
  Admins = {a1}
  None = None
  LeaseTtl = 1
  Items = 0
  MaxEvents = 1
  PausedOnBoot = FALSE
  FailureThreshold = 1
  SuccessThreshold = 1
  InitialBackoff = 1
  MaxBackoff = 1
PROPERTIES CancelledTaskEnds JobKeepsTicking
