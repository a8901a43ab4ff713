SPECIFICATION FairSpec
CONSTANTS
    Requests = {r1, r2, r3}
    None = none
    MaxEdits = 1
    Faults = {"fork", "child", "checksum", "map", "io", "family"}
INVARIANTS StaleRulesOnce
PROPERTIES NoRequestLost RequestsServed ExitOnTraffic
CHECK_DEADLOCK FALSE
