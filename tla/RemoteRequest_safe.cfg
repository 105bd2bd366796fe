SPECIFICATION Spec
CONSTANTS
    Callers = {r1, r2}
    Slots = {s1}
    Ours = {a, b}
    Foreign = {x}
    NoSlot = NoSlot
    LastId = 9
    MaxAsk = 3
    MaxConn = 3
SYMMETRY Symmetry
INVARIANTS RightAnswer EmptyBetween
CHECK_DEADLOCK FALSE
