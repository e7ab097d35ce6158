SPECIFICATION IdleSpec
CONSTANTS
    PingInterval = 3
    IdleTimeout = 9
    PongDelay = 2
    MaxAge = 20
INVARIANT LiveStaysOpen
CHECK_DEADLOCK FALSE
