CONSTANTS
    p1 = p1
    p2 = p2
    g1 = g1
    g2 = g2
    g3 = g3
    Readers = {r1, r2}
    Partitions = {p1, p2}
    Groups = {g1, g2, g3}
    PartitionOf <- MCPartitionOf
    LogBytes <- MCLogBytes
    Requests <- MCRequests
    HasBudget = TRUE
    Budget = 10
    Ceiling = 3
    WorkingSet = 1
    LogExpansion = 2
    Faults = TRUE
    Cancels = TRUE
SPECIFICATION Spec
INVARIANTS
    SlicesAsAsked
    WithinBudget
    AllOrNothing
PROPERTY
    ReadsEnd
