CONSTANTS
    k1 = k1
    k2 = k2
    k3 = k3
    b1 = b1
    b2 = b2
    b3 = b3
    b4 = b4
    Keys = {k1, k2, k3}
    Batches = {b1, b2, b3, b4}
    NoBatch = NoBatch
    Schemas = {"full"}
    BlockSizes = {2, 3}
    RowBytes = 3
    EntryBytes = 2
    MergeMaxSize = 13
    Reserved = 4
    HasCap = TRUE
    PeakCap = 12
    SpillBatchRows = 2
    SpillBatchCache = 1
    SpillFeature = TRUE
    DiskMayFail = TRUE
    MaxClock = 5
SPECIFICATION Spec
SYMMETRY Symmetry
INVARIANTS
    LookupExact
    AccountingExact
    LimitsKept
    CapErrorIrreducible
    DrainExact
