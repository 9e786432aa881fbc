SPECIFICATION Spec
CONSTANTS
    NBuf = 2
    NIn = 1
    MaxInputs = 2
    MaxFmt = 2
    MaxRefs = 0
    MaxSeeks = 0
    NIds = 4
    AnyId = FALSE
    Shrinks = TRUE
    Mixed = FALSE
INVARIANTS
    PoolKnowsSurface
CHECK_DEADLOCK FALSE
