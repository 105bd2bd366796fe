SPECIFICATION FairSpec
CONSTANTS
    Slots = {s1}
    Fds = {f1, f2}
    Ids = {a}
    NoFd = NoFd
    NoId = NoId
    Writers = {"task", "sender", "push"}
    MaxConn = 2
    MaxDead = 1
INVARIANTS TypeOK DescriptorsOwned WritesExclusive
PROPERTIES HandshakeFirst SilentReaped
CHECK_DEADLOCK FALSE
