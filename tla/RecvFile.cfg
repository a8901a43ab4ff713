SPECIFICATION FairSpec
CONSTANTS
    Chunks = 11
    BlockMod = 5
    Rollover = 0
    Tries = 3
    MaxLag = 2
    Stray = 1
    DiskFull = FALSE
INVARIANTS DoneOnDisk WaitFlushed OackOnlyFirst
PROPERTIES ImplementsTransfer TerminatesUnlessAsked
CHECK_DEADLOCK FALSE
