SPECIFICATION Spec
CONSTANTS
    NBuf = 2
    NIn = 2
    MaxInputs = 4
    MaxFmt = 2
    MaxRefs = 1
    MaxSeeks = 1
    NIds = 4
    AnyId = FALSE
    Shrinks = FALSE
    Mixed = FALSE
INVARIANTS
    FreeIsUnheld
    BufferInOnePlace
    OutputIsMapped
    PoolKnowsSurface
    IdleHasReason
    SeekForgets
PROPERTIES
    InOrder
CHECK_DEADLOCK FALSE
