SPECIFICATION MCSpec
CONSTANTS
    Flows = {f1}
    Clients = {c1}
    Engine = engine
    Bridge = bridge
    Keys = {k1}
    Attempts = 2
    MaxTime = 2
    MaxRev = 4
    MaxAborts = 1
    MaxTurns = 2
    NewMaxTurns = {3}
    MaxErrors = 2
    Max413 = 2
    MaxFresh = 1
    MinGap = 1
    MaxCompactFailures = 1
    MaxCalls = 3
    Callers = {b1, b2, b3}
    FailureThreshold = 2
    SuccessThreshold = 2
    InitialBackoff = 1
    MaxBackoff = 3
    MaxTrips = 2
PROPERTIES
    CancelHappens
    DueTimerFires
    GoalEnds
    ProbeEventuallyAllowed
    OpensOnlyOnFailureRun
    ClosesOnlyOnSuccessRun
    WindowHolds
CHECK_DEADLOCK FALSE
