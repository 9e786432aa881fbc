SPECIFICATION Spec
CONSTANTS
    NBuf = 1
    MaxOut = 2
    MaxFrames = 2
    MaxOffs = 1
    Counts = {0, 1}
    MaxReqs = 2
    EarlyOff = TRUE
    MayFail = FALSE
INVARIANTS
    IndexIsQueued
CHECK_DEADLOCK FALSE
