SPECIFICATION FairSpec
CONSTANTS
    Conns = {c1}
    MaxTasks = 2
    Limit = 1
    MaxTotal = 2
    SlowAccept = FALSE
PROPERTIES
    ShutdownEnds
    LimitEndsServer
    StartupReturnsAlways
CHECK_DEADLOCK FALSE
