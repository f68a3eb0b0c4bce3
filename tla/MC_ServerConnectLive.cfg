SPECIFICATION FairSpec
CONSTANTS
    Limit <- SourceLimit
    MaxEvents = 0
    Reinit = FALSE
PROPERTY EveryWaitEnds
