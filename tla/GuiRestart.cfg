SPECIFICATION Spec
CONSTANTS
    NbGuis = 3
    Children = {c1, c2}
    None = none
    Modes = {"plain", "force"}
    Overlap = FALSE
    Faults = {"crash", "fail"}
INVARIANTS AllocationKept PairMatches RunningReachable
CHECK_DEADLOCK FALSE
