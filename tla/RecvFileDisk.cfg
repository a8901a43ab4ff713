SPECIFICATION Spec
CONSTANTS
    Chunks = 8
    BlockMod = 5
    Rollover = 0
    Tries = 3
    MaxLag = 2
    Stray = 1
    DiskFull = TRUE

INVARIANT DoneOnDisk
CHECK_DEADLOCK FALSE
