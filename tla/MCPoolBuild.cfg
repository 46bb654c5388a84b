CONSTANTS
    p1 = p1
    p2 = p2
    p3 = p3
    None = None
    Proxies <- TwoProxies
    MaxCheck = 2
    MinHttp = 2
    MaxCopies = 2
    MaxRuns = 2
SPECIFICATION LiveSpec
CHECK_DEADLOCK FALSE
INVARIANTS
    TypeOK
    OnlyPassed
    TwiceOnlyIfLate
    ActiveIfFound
PROPERTIES
    RefreshEnds
