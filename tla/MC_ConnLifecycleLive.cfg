SPECIFICATION FairSpec
CONSTANTS
    Lossy = FALSE
    MaxCommands = 0
    MaxCalls = 1
    MaxNews = 2
    MaxQueue = 1
    MaxMessages = 1
CHECK_DEADLOCK FALSE
PROPERTIES
    NeverGivesUp
