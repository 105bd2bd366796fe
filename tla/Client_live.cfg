SPECIFICATION FairSpec
CONSTANTS
    Attempts = 2
    Stall = 2
    MaxTrouble = 2
    MinFit = 2
    Window = 3
    MaxRtt = 1
    Jump = 0
    MinSkew = 5
    Skews = {6}
    MaxAsks = 2
INVARIANTS TypeOK NoLostWakeUp ClockSettles
PROPERTIES Recovers Rejoins
CHECK_DEADLOCK FALSE
