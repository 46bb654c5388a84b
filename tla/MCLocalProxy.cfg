CONSTANTS
    c1 = c1
    c2 = c2
    c3 = c3
    Conns <- ThreeConns
    MaxWorkers = 1
    MaxPerSec = 2
    Second = 2
    MaxTime = 2
    KillSwitch = FALSE
    MaxTries = 2
SPECIFICATION LiveSpec
\* The clients may all have gone and stop() be done.
CHECK_DEADLOCK FALSE
INVARIANTS TypeOK RateBound OneVerdict
PROPERTIES ServerSpec RequestResolves BacklogServed
