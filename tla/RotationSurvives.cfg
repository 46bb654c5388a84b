CONSTANTS
    p1 = p1
    p2 = p2
    c1 = c1
    c2 = c2
    None = None
    Conns <- TwoConns
    KillSwitch = FALSE
    MaxTries = 5
    Proxies <- TwoProxies
    EvictThreshold = 3
    SampleSize = 2
    MaxListed = 2
SPECIFICATION Spec
CHECK_DEADLOCK FALSE
INVARIANTS
    RotationSurvives
