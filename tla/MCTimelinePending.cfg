SPECIFICATION Spec
CONSTANTS
    MaxClock = 5
    MaxRequests = 3
    Layout = 2
    Actions <- WithCompaction
    KeepCommits = 1
    Reads <- SnapshotReads
    AsOf <- NoAsOf
    Windows <- NoWindows
INVARIANTS
    PendingNeverRead
CHECK_DEADLOCK FALSE
