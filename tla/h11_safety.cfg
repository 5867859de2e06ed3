SPECIFICATION Spec
CONSTANTS
    MaxRequests = 2
    HighWater = 0
INVARIANTS
    TypeOK
    CycleTurns
    NoSilentEnd
    ShutdownPending
PROPERTY ServiceSpec
CHECK_DEADLOCK FALSE
