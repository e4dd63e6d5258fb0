CONSTANTS
    Addrs <- OrderAddrs
    ServiceBits <- OrderServiceBits
    MaxWall = 0
    MaxInstant = 0
    ReconnectionDelay = 1
    ActiveForGossip = 1
    TruncationSecs = 1
    NoMetaAddr = NoMetaAddr
SPECIFICATION Spec
INVARIANT CmpMatchesReference
