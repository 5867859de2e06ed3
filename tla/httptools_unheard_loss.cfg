SPECIFICATION FairSpec
CONSTANTS
    MaxRequests = 2
    HighWater = 0
    WsAvailable = FALSE
CONSTRAINT PipelineOnly
PROPERTY ReceiverHearsOfLoss
CHECK_DEADLOCK FALSE
