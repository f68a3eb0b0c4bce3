CONSTANTS
    Scripts = {0, 1, 2, 3, 4}
    Table <- SomeTable
    QueueSize = 2
    Faulty = TRUE
    MaxCommands = 3
SPECIFICATION FairSpec
INVARIANTS TypeOK MutexIsReturned RowsAreAsked AnswersAreCounted
PROPERTIES ReloadGetsIn
CHECK_DEADLOCK FALSE
