SPECIFICATION Spec
CONSTANTS
    NBuf = 2
    MaxOut = 2
    MaxFrames = 3
    MaxOffs = 0
    Counts = {}
    MaxReqs = 0
    EarlyOff = FALSE
    MayFail = FALSE
INVARIANTS
    OutputWaitsForFrame
CHECK_DEADLOCK FALSE
