SPECIFICATION Spec
CONSTANTS
    Addr = {a1, a2}
    MaxSeq = 2
    MaxTime = 4
    Delays = {0, 1, 3}
    Intervals = {0, 1}
INVARIANT ArmedForEarliest
CHECK_DEADLOCK FALSE
