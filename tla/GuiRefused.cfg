SPECIFICATION Spec
CONSTANTS
    NbGuis = 2
    Children = {c1}
    None = none
    Modes = {"plain"}
    Overlap = TRUE
    Faults = {}
INVARIANT RunningReachable
CHECK_DEADLOCK FALSE
