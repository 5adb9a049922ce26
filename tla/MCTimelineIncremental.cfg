SPECIFICATION PollingSpec
CONSTANTS
    MaxClock = 6
    MaxRequests = 3
    Layout = 2
    Actions <- Writes
    KeepCommits = 1
    Reads <- IncrementalReads
    AsOf <- NoAsOf
    Windows <- SomeWindows
INVARIANTS
    WindowExact
    NoCommitTwice
    NothingBehindCheckpoint
PROPERTIES
    EventuallyDelivered
CHECK_DEADLOCK FALSE
