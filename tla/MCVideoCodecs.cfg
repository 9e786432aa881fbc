SPECIFICATION Spec
CONSTANTS
    DecoderMimes = {"h264", "h265", "mpeg2", "vc1", "vp9"}
    EncoderMimes = {"h264", "h265", "vp8", "vp9"}
    Parts = {"BitStream", "Vp8BoolDecoder", "Vp8Parser", "Vp9Parser", "H264Parser", "H265Parser", "H265RefPicSet",
             "JpegDecoder"}
    KeptA = 1
    KeptB = 2
    KeptC = 4
    Hard = {}
INVARIANTS
    OutputInOrder
    NoPictureLost
    ReferencesAreTrue
    MarkingIsStandard
    SizeWasTold
    SameReferences
    EncodedInOrder
    ListsAreUsable
    FieldsAreExact
    HeadersAreTrue
CHECK_DEADLOCK FALSE
