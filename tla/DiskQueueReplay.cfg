SPECIFICATION Spec
CONSTANTS
  Events = {e1, e2, e3}
  Poison = {e3}
  Writers = {w1, w2}
  Drainers = {d1, d2}
  None = None
  MaxPending = 1
  DrainBatch = 2
  MaxAttempts = 2
  MaxFaults = 0
  MaxReplays = 1
INVARIANT DeadLettersAreKept
CHECK_DEADLOCK FALSE
