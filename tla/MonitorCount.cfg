SPECIFICATION Spec
CONSTANTS
    Children = {c1, c2}
    None = none
    MaxOp = 1
    StallLimit = 0
    EndTime = 0
    MaxBlock = 1
    Faults = {"late"}

INVARIANT NbCountsEnabled
CHECK_DEADLOCK FALSE
