SPECIFICATION Spec
CONSTANTS
    Conns = {c1}
    MaxTasks = 1
    Limit = 1
    MaxTotal = 2
    SlowAccept = FALSE
PROPERTY CtrlCForces
CHECK_DEADLOCK FALSE
