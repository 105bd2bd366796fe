SPECIFICATION SinkSpec
CONSTANTS
    Frame = 3
    Chunk = 2
    Capacity = 5
    Prebuffer = 3
    Discont = 1
    Restart = 3
    Hard = 2
    Soft = 1
    SoftFrames = 2
    Gaps <- SomeGaps
    Arrivals = {3}
    Steps <- SomeSteps
    MaxLead = 3
    MaxLate = 2
    MaxSlow = 1
    MaxConn = 1
INVARIANTS SinkTypeOK LabelExact EchoBrief
CHECK_DEADLOCK FALSE
