SPECIFICATION Spec
CONSTANTS
    Clients = {0, 1}
    Addresses = {"s1", "s2"}
    EventBits = {"CONN", "RD", "WR"}
    MaxFd = 3
    MaxMsgs = 3
    MsgLen = 2
    Uses <- MCNotify
INVARIANT EventsAnnounced
CHECK_DEADLOCK FALSE
