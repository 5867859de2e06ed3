SPECIFICATION FairSpec
CONSTANTS
    MaxParts = 1
    MaxMessages = 3
INVARIANTS
    WaitingIsWoken
    AllSent
PROPERTY ResponderReturns
CHECK_DEADLOCK FALSE
