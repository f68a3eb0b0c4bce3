CONSTANTS
    Scripts = {0, 1, 2, 3, 4}
    Table <- SomeTable
    QueueSize = 2
    Faulty = FALSE
    MaxCommands = 3
SPECIFICATION Spec
INVARIANTS DeferHonoured
CHECK_DEADLOCK FALSE
