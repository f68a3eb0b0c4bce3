SPECIFICATION Spec
CONSTANTS
    Limit <- ShortLimit
    MaxEvents = 1
    Reinit = TRUE
INVARIANTS
    TypeOK
    WindowOwned
    WaitFits
PROPERTIES
    AttemptSpec
