CONSTANTS
    Addrs <- MCAddrs
    ServiceBits <- MCServiceBits
    MaxWall = 3
    MaxInstant = 2
    ReconnectionDelay = 1
    ActiveForGossip = 2
    TruncationSecs = 2
    NoMetaAddr = NoMetaAddr

SPECIFICATION Spec

INVARIANT LocalTimesConverge

\* Both books stop once they have applied the two changes.
CHECK_DEADLOCK FALSE
