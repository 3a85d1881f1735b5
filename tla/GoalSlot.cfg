CONSTANTS
    Goals = {g1, g2}
    NoGoal = NoGoal
    InitCap = 1
    Caps = {2}
    MaxOps = 2
    MaxCrashes = 0
    MaxAsks = 0
    MaxFaults = 0
    ReleaseCalled = FALSE
SPECIFICATION FairSpec
PROPERTY CompletionFreesSlot
CHECK_DEADLOCK FALSE
