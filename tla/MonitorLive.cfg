SPECIFICATION ViewSpec
CONSTANTS
    Children = {c1, c2}
    None = none
    MaxOp = 1
    StallLimit = 0
    EndTime = 0
    MaxBlock = 1
    Faults = {}
PROPERTIES SlotReleased ChildServed SuccessHonest
CHECK_DEADLOCK FALSE
