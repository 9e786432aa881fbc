SPECIFICATION Spec
CONSTANTS
    DecoderMimes = {}
    EncoderMimes = {"h264"}
    Parts = {}
    KeptA = 3
    KeptB = 3
    KeptC = 3
    Hard = {}
INVARIANTS
    SameReferences
CHECK_DEADLOCK FALSE
