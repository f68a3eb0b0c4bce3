CONSTANTS
    Rows = 2
    IndexRange = 2
    Day = 2
    LastOrder = 2
    SunOf <- SunsetAt
    Schedules <- SomeSchedules
    Warps = {0, 2, 3}
    MaxMinute = 3
    MaxCommands = 2
SPECIFICATION Spec
INVARIANTS TypeOK  OncePerMinute SimulationIsMarked RoundIsRight
PROPERTIES EveryMinuteRuns
CHECK_DEADLOCK FALSE
