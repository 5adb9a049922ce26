SPECIFICATION Spec
CONSTANTS
    k1 = k1
    k2 = k2
    Columns = {"a", "b"}
    Hole = Hole
    Null = Null
    Keys = {k1, k2}
    Reads <- MCReads
    Narrow = {{"a"}}
    Holes = {{"b"}}
    Orders <- MCOrders
    BatchRows = 2
    ChunkRows = 1
    MaxLog = 3
    Faults = TRUE
INVARIANTS
    MergeExact
    PlaceholdersFilled
    PathsAgree
    RekeyExact
PROPERTY
    Terminates
