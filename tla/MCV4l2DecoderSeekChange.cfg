SPECIFICATION Spec
CONSTANTS
    NBuf = 2
    NIn = 1
    MaxInputs = 3
    MaxFmt = 2
    MaxRefs = 0
    MaxSeeks = 1
    NIds = 4
    AnyId = FALSE
    Shrinks = FALSE
    Mixed = TRUE
INVARIANTS
    OutputIsMapped
CHECK_DEADLOCK FALSE
