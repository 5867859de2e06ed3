SPECIFICATION Spec
CONSTANTS
    MaxRequests = 3
    HighWater = 1
    WsAvailable = TRUE
CONSTRAINT ThirdPipelined
INVARIANTS
    TypeOK
    ServedInOrder
    QueueHasRunner
    PausedHasResumer
    BodyCanArrive
    EventMeansNews
    NoSilentEnd
    ShutdownPending
    DrainHasCause
PROPERTY ServiceSpec
CHECK_DEADLOCK FALSE
