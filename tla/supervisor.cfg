SPECIFICATION FairSpec
CONSTANTS
    Workers = 3
    MaxSaves = 2
    MaxSignals = 2
INVARIANTS
    NoProcessLeft
PROPERTIES
    SignalEnds
    ChangeReloads
CHECK_DEADLOCK FALSE
