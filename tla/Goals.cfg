SPECIFICATION Spec
CONSTANTS
    Goals = {g1, g2, g3}
    NoGoal = NoGoal
    InitCap = 1
    Caps = {2}
    MaxOps = 3
    MaxCrashes = 1
    MaxAsks = 1
    MaxFaults = 1
    ReleaseCalled = TRUE
INVARIANTS
    CapHolds
    StoreFollowsMemory
    TimerRespectsAnswer
    RestartKeepsIntent
SYMMETRY Symmetry
CHECK_DEADLOCK FALSE
