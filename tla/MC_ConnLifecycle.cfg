SPECIFICATION Spec
CONSTANTS
    Lossy = TRUE
    MaxCommands = 1
    MaxCalls = 1
    MaxNews = 1
    MaxQueue = 1
    MaxMessages = 2
CHECK_DEADLOCK FALSE
INVARIANTS
    TypeOK
    InCharge
    StackUp
