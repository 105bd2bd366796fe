SPECIFICATION FairSpec
CONSTANTS
    Attempts = 2
    Stall = 2
    MaxTrouble = 1
    MinFit = 2
    Window = 3
    MaxRtt = 1
    Jump = 0
    MinSkew = 5
    Skews = {6}
    MaxAsks = 1
PROPERTIES WatchdogEnds
CHECK_DEADLOCK FALSE
