SPECIFICATION FairSpec
CONSTANTS
    NBuf = 2
    NIn = 1
    MaxInputs = 3
    MaxFmt = 2
    MaxRefs = 0
    MaxSeeks = 0
    NIds = 4
    AnyId = FALSE
    Shrinks = FALSE
    Mixed = FALSE
PROPERTIES
    InputConsumed
    FrameDelivered
CHECK_DEADLOCK FALSE
