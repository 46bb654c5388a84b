CONSTANTS
    k1 = k1
    k2 = k2
    Keys <- OneKey
    MaxConns = 2
SPECIFICATION LiveSpec
CHECK_DEADLOCK FALSE
INVARIANTS
    TypeOK
    ClosedLeavesTable
PROPERTIES
    SegmentOfItsOwn
    RelayFollowsConnection
    RouteRestored
