SPECIFICATION DnsSpec
CONSTANTS
    MaxSignals = 2
    MaxSessions = 2
    MaxDepth = 2
INVARIANTS TypeOK DnsTypeOK SetupFailureUndone CleanEnd MarkedTrafficBypasses
PROPERTIES EndsAfterCtrlC EveryQueryEnds
\* The program may have ended.
CHECK_DEADLOCK FALSE
