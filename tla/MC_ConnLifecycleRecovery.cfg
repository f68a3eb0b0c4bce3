SPECIFICATION FairSpec
CONSTANTS
    Lossy = FALSE
    MaxCommands = 0
    MaxCalls = 1
    MaxNews = 1
    MaxQueue = 1
    MaxMessages = 2
CHECK_DEADLOCK FALSE
PROPERTIES
    RecoveryLeftAlone
