SPECIFICATION FairSpec
CONSTANTS
    Chunks = 11
    BlockMod = 5
    Rollover = 1
    Tries = 3
    MaxLag = 2
INVARIANTS BoundedAttempts ResentIntact NumbersInStep
PROPERTIES ImplementsTransfer TerminatesUnlessOackUndone
CHECK_DEADLOCK FALSE
