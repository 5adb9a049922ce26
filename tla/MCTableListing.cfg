CONSTANTS
    MaxTime = 6
    MaxInstants = 4
SPECIFICATION Spec
INVARIANTS
    EachWriteOnce
    ListingsAgree
CHECK_DEADLOCK FALSE
