SPECIFICATION Spec
CONSTANTS
    Conns = {c1, c2}
    MaxTasks = 2
    Limit = 2
    MaxTotal = 3
    SlowAccept = TRUE
SYMMETRY Symmetry
CONSTRAINT NoneLate
INVARIANTS
    TypeOK
    ServesOnlyStarted
    WorkDoneBeforeLifespan
    ToldBeforeExit
    ShutdownReachesAll
    NothingLeftBehind
CHECK_DEADLOCK FALSE
