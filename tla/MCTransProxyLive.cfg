CONSTANTS
    p1 = p1
    p2 = p2
    c1 = c1
    c2 = c2
    None = None
    Conns <- TwoConns
    KillSwitch = TRUE
    MaxTries = 2
    Proxies <- TwoProxies
    EvictThreshold = 1
    SampleSize = 1
    MaxListed = 2
SPECIFICATION LiveSpec
CHECK_DEADLOCK FALSE
PROPERTIES
    ConnResolves
    StopQuiesces
