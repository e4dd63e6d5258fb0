CONSTANTS
    Addrs <- DialAddrs
    ServiceBits <- DialServiceBits
    MaxWall = 6
    MaxInstant = 5
    ReconnectionDelay = 2
    HandshakeTimeout = 1
    ActiveForGossip = 2
    TruncationSecs = 2
    NoMetaAddr = NoMetaAddr

SPECIFICATION SpecWithClockSteps

INVARIANT InFlightNeverReady

