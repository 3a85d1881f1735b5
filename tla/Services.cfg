SPECIFICATION MCSpec
CONSTANTS
    MaxTurns = 2
    NewMaxTurns = {3}
    MaxErrors = 2
    Max413 = 2
    MaxFresh = 1
    MinGap = 1
    MaxCompactFailures = 1
    MaxCalls = 3
    h1 = h1
    h2 = h2
    Hooks = {h1, h2}
    On <- MCOn
    MaxHookOps = 2
    MaxHookFaults = 2
    MaxProgress = 1
    SessionIds = {i1, i2, i3}
    Users = {u1, u2}
    MaxSessions = 1
    Ttl = 1
    MaxTick = 2
    MaxSessionCalls = 5
    Runs = {r1, r2}
    Pids = {p1, p2}
    MinHours = 1
    HolderStale = 2
    MaxClock = 3
    MaxRuns = 3
    Patches = {a, b}
    Keys = {k1, k2}
    Applies = {c1, c2}
    MaxParks = 3
    MaxTroubles = 1
    OneShots = {o1}
    Recurring = {e1}
    MaxRetries = 1
    CronClock = 4
    MaxCronFaults = 2
    MaxCronOps = 2
INVARIANTS
    PauseHolds
    RetriesBounded
    HookFiresOnce
    ClaimMeansFired
    SessionsBounded
    CloseIsAnnounced
    SoundHolderExcludes
    YamlFollowsDecisions
    FiresBounded
CHECK_DEADLOCK FALSE
