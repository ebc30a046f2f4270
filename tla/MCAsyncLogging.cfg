SPECIFICATION FairSpec
CONSTANTS
    Lengths = {1, 3}
    BufferSize = 3
    MaxBatch = 2
    DropLength = 2
    rollSize_ = 3
    flushInterval_ = 0
    checkEveryN_ = 2
    Day = 2
    StdioBuffer = 1
    MaxLines = 4
    MaxTime = 3
INVARIANTS
    SparesAtHand
    FlushedIsOnDisk
PROPERTIES
    StreamInOrder
    LineComesOut
\* when the back end has ended nothing more need happen
CHECK_DEADLOCK FALSE
