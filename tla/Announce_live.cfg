SPECIFICATION FairSpec
CONSTANTS
    p1 = p1
    p2 = p2
    a1 = a1
    a2 = a2
    Phones = {p1, p2}
    Fds = {1, 2}
    Addrs = {a1, a2}
    AddrOf <- Apart
    NoFd = 0
    AnyAddr = AnyAddr
    Silence = 0
    Grace = 1
    Limit = 2
    MaxLag = 0
    MaxTries = 2
    MaxSeq = 1
    MaxFlight = 1
INVARIANTS OwnerOpen
PROPERTIES WatchdogsRight AlwaysEnds
CHECK_DEADLOCK FALSE
