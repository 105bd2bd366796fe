SPECIFICATION FairSpec
CONSTANTS
    c1 = c1
    Clients = {c1}
    PoolSize = 4
    QueueDepth = 2
    MaxAge = 2
    MaxStall = 2
    MaxChunk = 5
    MaxTime = 8
    MaxSession = 2
INVARIANTS CheckInv FewStale
PROPERTIES IsLiveStream QueuesDrain
CHECK_DEADLOCK FALSE
