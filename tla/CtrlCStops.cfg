CONSTANTS
    k1 = k1
    k2 = k2
    Keys <- TwoKeys
    MaxConns = 2
SPECIFICATION LiveSpec
CHECK_DEADLOCK FALSE
PROPERTIES
    CtrlCStops
