CONSTANTS
    Addrs <- MCAddrs
    ServiceBits <- MCServiceBits
    MaxWall = 3
    MaxInstant = 2
    ReconnectionDelay = 1
    ActiveForGossip = 2
    TruncationSecs = 2
    NoMetaAddr = NoMetaAddr

SPECIFICATION Spec

PROPERTY NeverAttemptedOrderStable
