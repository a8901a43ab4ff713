SPECIFICATION Spec
CONSTANTS
    Children = {c1, c2}
    None = none
    MaxOp = 1
    StallLimit = 0
    EndTime = 0
    MaxBlock = 1
    Faults = {"late", "intr", "stop", "race"}
SYMMETRY ChildSymmetry
INVARIANTS TypeOK NoLostWakeup
CHECK_DEADLOCK FALSE
