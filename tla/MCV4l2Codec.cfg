SPECIFICATION FairSpec
CONSTANTS
    NBuf = 2
    MaxOut = 1
    MaxFrames = 2
    MaxOffs = 2
    Counts = {}
    MaxReqs = 0
    EarlyOff = FALSE
    MayFail = TRUE
INVARIANTS
    BufferInOnePlace
    FrameInOnePlace
    CloseJoins
PROPERTIES
    StreamOffReturns
    InOrder
    StreamOffClears
CHECK_DEADLOCK FALSE
