SPECIFICATION Spec
CONSTANTS
    Byte = {0, 1}
    Data <- ShortStrings
    kCheapPrepend = 2
    initialSize = 1
    ExtraBuf = 2
    MaxSize = 7
    Widths = {1, 2}
INVARIANTS
    IndexOrder
    IntsTravel
PROPERTIES
    EachCallExact
    GrowsOnlyWhenFull
