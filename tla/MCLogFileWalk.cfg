SPECIFICATION Spec
CONSTANTS
    MaxSpans = 3
    Inputs <- MCInputs
    WindowSize = 24
    ScanBuffer = 5
    Budget = 8
    Faults = TRUE
INVARIANTS
    WalkExact
    DamageSeen
    FailsOnlyTorn
    ContentLocated
    WithinLimits
    ScannerExact
PROPERTY
    WalkEnds
