CONSTANTS
    Flows = {f1}
    Clients = {c1, c2}
    Engine = engine
    Bridge = bridge
    Keys = {k1}
    Attempts = 2
    MaxTime = 1
    MaxRev = 3
    MaxAborts = 1
SPECIFICATION FlowSpec
INVARIANTS RevisionIdentifiesContent NoLostUpdate JournalExplainsRow
PROPERTIES CancelIsSticky TerminalIsFinal ImplementsLifecycle
CHECK_DEADLOCK FALSE
SYMMETRY ClientSymmetry
