CONSTANTS
    Grace = 2
    DiscTimeout = 5
    ActTimeout = 2
    Interval = 2
    MaxTime = 12
SPECIFICATION Spec
INVARIANTS TypeOK NoEarlyReboot OutageBounded
