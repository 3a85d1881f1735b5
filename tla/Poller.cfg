SPECIFICATION Spec
CONSTANTS
  Runners = {r1, r2}
  Tasks = {t1, t2}
  Admins = {a1, a2}
  None = None
  LeaseTtl = 1
  Items = 1
  MaxEvents = 2
  PausedOnBoot = FALSE
  FailureThreshold = 1
  SuccessThreshold = 1
  InitialBackoff = 1
  MaxBackoff = 1
SYMMETRY PollerSymmetry
INVARIANTS LeaseExcludes NothingSkipped  PauseStops EscapeNeedsOverlap
CONSTRAINT MCBound
