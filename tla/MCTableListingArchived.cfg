CONSTANTS
    MaxTime = 6
    MaxInstants = 4
SPECIFICATION Spec
INVARIANTS
    EachWriteOnceArchived
CHECK_DEADLOCK FALSE
