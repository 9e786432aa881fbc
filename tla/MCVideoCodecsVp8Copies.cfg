SPECIFICATION Spec
CONSTANTS
    DecoderMimes = {}
    EncoderMimes = {"vp8"}
    Parts = {}
    KeptA = 1
    KeptB = 1
    KeptC = 1
    Hard = {"copies of the normal encoder"}
INVARIANTS
    SameReferences
CHECK_DEADLOCK FALSE
