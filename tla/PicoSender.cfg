SPECIFICATION Spec
CONSTANTS
    Interfaces <- MCInterfaces
    ServerOf <- MCServerOf
    Threads <- MCThreads
    from_ends <- MCFromEnds
    badges <- MCBadges
    None = None
    Asking = {"gpio", "clock", "fs", "bpmp", "pico_control"}
    BadIds = {2}
    Levels = {1, 2}
    MaxPin = 0
    desired_pins <- NothingAssigned
    Features = {"i2c"}
    NCLOCKS = 1
    Freqs = {1}
    Fds = {3, 4}
    FileLen = 2
    BufSize = 1
    Counts = {2}
    SocketFds = {1}
    Scopes <- MCPicoOnly
INVARIANT CallersOwnSockets
