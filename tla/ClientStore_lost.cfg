SPECIFICATION Spec
CONSTANTS
    a = a
    b = b
    c = c
    k1 = k1
    k2 = k2
    k3 = k3
    Ids <- ThreeIds
    Keys <- ThreeKeys
    Key <- ThreeKey
    Capacity = 2
    EraseRoom = 2
    HasTask = TRUE
    Flushers = {store}
    Resets = FALSE
    MaxPut = 5
    MaxCrash = 0
INVARIANTS Settled
CHECK_DEADLOCK FALSE
