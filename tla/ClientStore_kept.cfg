SPECIFICATION FairSpec
CONSTANTS
    a = a
    b = b
    c = c
    k1 = k1
    k2 = k2
    k3 = k3
    Ids <- ThreeIds
    Keys <- ThreeKeys
    Key <- ThreeKey
    Capacity = 2
    EraseRoom = 5
    HasTask = TRUE
    Flushers = {store}
    Resets = TRUE
    MaxPut = 3
    MaxCrash = 1
INVARIANTS TypeOK InSync RemembersLatest NoOrphan
PROPERTIES NeverBack ReachesFlash
CHECK_DEADLOCK FALSE
