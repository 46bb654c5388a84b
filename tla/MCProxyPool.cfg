CONSTANTS
    p1 = p1
    p2 = p2
    p3 = p3
    c1 = c1
    c2 = c2
    None = None
    Proxies <- SomeProxies
    Callers <- SomeCallers
    EvictThreshold = 2
    SampleSize = 1
    MaxListed = 3
SYMMETRY Symmetry
SPECIFICATION Spec
INVARIANTS
    TypeOK
    EvictionComplete
    NoProxyOnlyIfEmpty
    HealthSurvives
PROPERTIES
    NoNewDuplicates
    KeepsMembership
