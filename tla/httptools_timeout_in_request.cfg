SPECIFICATION Spec
CONSTANTS
    MaxRequests = 2
    HighWater = 0
    WsAvailable = FALSE
PROPERTY TimeoutOnlyBetweenRequests
CHECK_DEADLOCK FALSE
