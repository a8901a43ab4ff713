SPECIFICATION Spec
CONSTANTS
    Children = {c1, c2}
    None = none
    MaxOp = 2
    StallLimit = 1
    EndTime = 1
    MaxBlock = 1
    Faults = {"kill", "stop", "race"}
SYMMETRY ChildSymmetry
INVARIANTS SemMutex NbCountsEnabled OwnSlot CountdownInUse
CHECK_DEADLOCK FALSE
