SPECIFICATION DnsSpec
CONSTANTS
    MaxSignals = 1
    MaxSessions = 1
    MaxDepth = 2
INVARIANT FallbackIsDirect
\* The program may have ended.
CHECK_DEADLOCK FALSE
