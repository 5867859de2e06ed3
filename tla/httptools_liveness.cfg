SPECIFICATION AnsweringSpec
CONSTANTS
    MaxRequests = 2
    HighWater = 0
    WsAvailable = FALSE
CONSTRAINT PipelineOnly
PROPERTIES
    LatestHearsOfLoss
    EveryRequestAnswered
    ShutdownCloses
    ReadingResumes
CHECK_DEADLOCK FALSE
