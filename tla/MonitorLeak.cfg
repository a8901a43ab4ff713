SPECIFICATION FairSpec
CONSTANTS
    Children = {c1}
    None = none
    MaxOp = 1
    StallLimit = 0
    EndTime = 0
    MaxBlock = 1
    Faults = {"race"}
PROPERTY SlotReleased
CHECK_DEADLOCK FALSE
