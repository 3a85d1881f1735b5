CONSTANTS
    Goals = {g1}
    NoGoal = NoGoal
    InitCap = 1
    Caps = {1}
    MaxOps = 3
    MaxCrashes = 0
    MaxAsks = 0
    MaxFaults = 0
    ReleaseCalled = FALSE
SPECIFICATION Spec
INVARIANT MirroredToDisk
CHECK_DEADLOCK FALSE
