SPECIFICATION Spec
CONSTANTS
    Slots = {s1, s2}
    Fds = {f1, f2, f3}
    Ids = {a}
    NoFd = NoFd
    NoId = NoId
    Writers = {"task"}
    MaxConn = 3
    MaxDead = 0
SYMMETRY Symmetry
INVARIANTS DuplicateDoomed
CHECK_DEADLOCK FALSE
