SPECIFICATION Spec
CONSTANTS
    MaxClock = 7
    MaxRequests = 4
    Layout = 1
    Actions <- Writes
    KeepCommits = 1
    Reads <- SnapshotReads
    AsOf <- SomeAsOf
    Windows <- NoWindows
INVARIANTS
    SnapshotExact
    GateExact
CHECK_DEADLOCK FALSE
