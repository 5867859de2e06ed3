SPECIFICATION FairSpec
CONSTANTS
    MaxMessages = 2
INVARIANTS
    TypeOK
    NoSilentEnd
    PausedHasUnread
PROPERTIES
    NotOpenedAfterShutdown
    LossIsHeard
    ServiceSpec
CHECK_DEADLOCK FALSE
