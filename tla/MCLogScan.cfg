CONSTANTS
    MaxInstant = 5
    NumFiles = 2
    Budget = 2
    MaxBlocks = 3
    Inputs <- MCInputs
SPECIFICATION Spec
INVARIANTS
    Pass1Exact
    ListMatchesMap
    QueuedOnce
    MergedOnlySurvivors
    RepresentedOnce
    OldestFirst
    NothingLeftOut
    ResidencyBound
PROPERTIES
    ScanReturns
