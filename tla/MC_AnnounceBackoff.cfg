SPECIFICATION Spec
CONSTANTS
    Start = 1
    Restart = 2
    Cap = 12
    UserMax = 16
    Wrap = 14
    Tick = 3
    Calm = 7
INVARIANTS
    TypeOK
    CountdownIsTrue
    CountdownStops
