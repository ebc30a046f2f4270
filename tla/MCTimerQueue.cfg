SPECIFICATION Spec
CONSTANTS
    Addr = {a1, a2}
    MaxSeq = 3
    MaxTime = 4
    Delays = {0, 1, 2}
    Intervals = {0, 1}
SYMMETRY Symmetric
INVARIANTS
    SetsAgree
    OwnedOnce
    CancelledStaysOut
    NoStallWithoutCancel
PROPERTY DeletedWhenDone
\* the clock stops at its bound
CHECK_DEADLOCK FALSE
