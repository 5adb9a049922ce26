CONSTANTS
    k1 = k1
    k2 = k2
    b1 = b1
    b2 = b2
    b3 = b3
    Keys = {k1, k2}
    Batches = {b1, b2, b3}
    NoBatch = NoBatch
    Schemas = {"full", "partial"}
    BlockSizes = {1, 3}
    RowBytes = 2
    EntryBytes = 1
    MergeMaxSize = 10
    Reserved = 1
    HasCap = TRUE
    PeakCap = 8
    SpillBatchRows = 2
    SpillBatchCache = 1
    SpillFeature = TRUE
    DiskMayFail = TRUE
    MaxClock = 4
SPECIFICATION LiveSpec
PROPERTIES
    IsRecordMap
    ReadReturns
