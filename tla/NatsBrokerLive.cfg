SPECIFICATION BrokerLiveSpec
CONSTANTS
  Events = {e1, e2}
  Poison = {}
  Writers = {w1, w2}
  Drainers = {d1}
  None = None
  MaxPending = 1
  DrainBatch = 1
  MaxAttempts = 2
  MaxFaults = 1
  MaxReplays = 0
  FailureThreshold = 2
  SuccessThreshold = 2
  InitialBackoff = 1
  MaxBackoff = 1
PROPERTIES EnqueueReturns ReconnectsDrain
