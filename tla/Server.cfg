SPECIFICATION Spec
CONSTANTS
    PortNumbers = {0, 65535, 65536}
    Seekers = {s1, s2}
    Ranges <- MCRanges
    Nobody = nobody
    Stranger = stranger
    FileNames = {"a", "b", "c"}
    Lines <- MCLines
    MaxLines = 3
    DEADMAN_MAX_STEPS = 3
    Kids = {k1, k2, k3}
    Files = {f1}
    Old = old
    CanCreate = TRUE
    UnixPerms = FALSE
    MaxSize = 2
    MaxBlksize = 65464
    Second = 1000
    FileSize = 1200
    Values = {0, 7, 8, 10, 255, 256, 1500, 65464, 65536, 255001}
    MaxOpts = 3
    AckRoom = 2
    MaxBytes = 5
    SegSizes = {2, 3}
INVARIANTS ListensAsAsked PathsKept AnswersFromAsked SearchExhaustive FailureMeansLoop
    NoMixedUpload ReadStable TypeOK OackInForce TriesKept SentIsEncoded WrittenIsDecoded
PROPERTIES SearchEnds RewriteEnds
CHECK_DEADLOCK FALSE
