--------------------------- MODULE VideoDecoders ---------------------------
(***************************************************************************)
(* The decoders that decoder/vaapidecoder_host.cpp creates, each on small  *)
(* streams: createVideoDecoder() picks one by the MIME type, and only that *)
(* one takes steps.  Variables are shared by the decoders that have one of *)
(* that name; those of the other decoders keep the value Unused.           *)
(***************************************************************************)
EXTENDS Integers, Sequences

CONSTANT Mimes      \* the MIME types asked for

VARIABLES
    mime,
    dpb, prev, contextChanged,                                      \* H264Decoder
    limits, pics, endOfSequence, irapNoRasl, prevMsb, prevLsb, refused,  \* H265Decoder
    firstField,                                                     \* Mpeg2Decoder
    pred,                                                           \* Vc1Decoder
    dec, client, hist,                                              \* Vp9Decoder
    refs, shown, cur, newStream, stream, accepted, mayDrop, lost, special

avcVars   == <<dpb, prev, contextChanged>>
hevcVars  == <<limits, pics, endOfSequence, irapNoRasl, prevMsb, prevLsb, refused>>
vp9Vars   == <<dec, client, hist>>

PocStepsValue == {-4, -2, 2, 6}
LimitsValue == {[reorder |-> 2, latency |-> 0, size |-> 3],
                [reorder |-> 1, latency |-> 1, size |-> 3]}

Avc   == INSTANCE H264Decoder WITH MaxFrameNum <- 16, MaxPocLsb <- 16, NumRefFrames <- 2,
             MaxDecFrameBuffering <- 2, PocTypes <- 0..2, OffsetForRefFrame <- <<4>>,
             OffsetForNonRef <- -2, LowLatency <- BOOLEAN, PocSteps <- PocStepsValue,
             Gaps <- {1, 14}, LongIdx <- 0..1, Hard <- {}, MaxPeriods <- 2, MaxEvents <- 5
Hevc  == INSTANCE H265Decoder WITH MaxPocLsb <- 16, Limits <- LimitsValue, PocSteps <- {-4, -2, 6},
             Hard <- {}, MaxCvs <- 2, MaxSpecial <- 1, MaxPictures <- 4
Mpeg2 == INSTANCE Mpeg2Decoder WITH Hard <- {}, MaxFrames <- 5, MaxSpecial <- 2
Vc1   == INSTANCE Vc1Decoder WITH Hard <- {}, MaxFrames <- 6, MaxSpecial <- 2
Vp9   == INSTANCE Vp9Decoder WITH Slots <- 1..2, PoolSize <- 3, Sizes <- 1..2, Hard <- {},
             MaxFrames <- 4, MaxSpecial <- 1

Unused == <<>>
AvcIdle  == dpb = Unused /\ prev = Unused /\ contextChanged = Unused
HevcIdle == /\ limits = Unused /\ pics = Unused /\ endOfSequence = Unused /\ irapNoRasl = Unused
            /\ prevMsb = Unused /\ prevLsb = Unused /\ refused = Unused
Vp9Idle  == dec = Unused /\ client = Unused /\ hist = Unused
DpbIdle  == cur = Unused /\ newStream = Unused /\ accepted = Unused /\ mayDrop = Unused
ListIdle == refs = Unused /\ shown = Unused

InitAvc   == /\ mime = "h264" /\ Avc!Init
             /\ HevcIdle /\ Vp9Idle /\ ListIdle /\ firstField = Unused /\ pred = Unused
InitHevc  == /\ mime = "h265" /\ Hevc!Init
             /\ AvcIdle /\ Vp9Idle /\ firstField = Unused /\ pred = Unused /\ lost = Unused
InitMpeg2 == /\ mime = "mpeg2" /\ Mpeg2!Init
             /\ AvcIdle /\ HevcIdle /\ Vp9Idle /\ pred = Unused
             /\ newStream = Unused /\ accepted = Unused /\ mayDrop = Unused
InitVc1   == /\ mime = "vc1" /\ Vc1!Init
             /\ AvcIdle /\ HevcIdle /\ Vp9Idle /\ DpbIdle /\ firstField = Unused
InitVp9   == /\ mime = "vp9" /\ Vp9!Init
             /\ AvcIdle /\ HevcIdle /\ DpbIdle /\ ListIdle
             /\ firstField = Unused /\ pred = Unused /\ lost = Unused /\ special = Unused

Init == mime \in Mimes /\ (InitAvc \/ InitHevc \/ InitMpeg2 \/ InitVc1 \/ InitVp9)

NextAvc   == /\ mime = "h264" /\ Avc!Next
             /\ UNCHANGED <<mime, hevcVars, vp9Vars, firstField, pred, refs, shown>>
NextHevc  == /\ mime = "h265" /\ Hevc!Next
             /\ UNCHANGED <<mime, avcVars, vp9Vars, firstField, pred, lost>>
NextMpeg2 == /\ mime = "mpeg2" /\ Mpeg2!Next
             /\ UNCHANGED <<mime, avcVars, hevcVars, vp9Vars, pred, newStream, accepted, mayDrop>>
NextVc1   == /\ mime = "vc1" /\ Vc1!Next
             /\ UNCHANGED <<mime, avcVars, hevcVars, vp9Vars, firstField, cur, newStream, accepted, mayDrop>>
NextVp9   == /\ mime = "vp9" /\ Vp9!Next
             /\ UNCHANGED <<mime, avcVars, hevcVars, firstField, pred, refs, shown, cur, newStream,
                            accepted, mayDrop, lost, special>>

Next == NextAvc \/ NextHevc \/ NextMpeg2 \/ NextVc1 \/ NextVp9

vars == <<mime, avcVars, hevcVars, vp9Vars, firstField, pred, refs, shown, cur, newStream, stream,
          accepted, mayDrop, lost, special>>

Spec == Init /\ [][Next]_vars

-----------------------------------------------------------------------------
(* Properties *)

\* Pictures leave each decoder in the order in which the standard shows them, however
\* the stream reorders them: bump(), flush(), addNewFrame(), outputPicture().
OutputInOrder ==
    /\ mime = "h264"  => Avc!OutputInOrder
    /\ mime = "h265"  => Hevc!OutputInOrder
    /\ mime = "mpeg2" => Mpeg2!OutputInOrder
    /\ mime = "vc1"   => Vc1!OutputInOrder

\* No picture that was decoded is dropped by a DPB, or shown twice, other than where
\* the stream asks for it.
NoPictureLost ==
    /\ mime = "h264"  => Avc!NoPictureLost
    /\ mime = "h265"  => Hevc!NoPictureLost
    /\ mime = "mpeg2" => Mpeg2!NoPictureLost
    /\ mime = "vc1"   => Vc1!NoPictureLost

\* What the driver is given as references of a picture is what the stream means: the
\* lists of H.264 after reordering commands, the reference picture set of H.265, two
\* pictures in MPEG-2 and VC-1, the slots of VP9 and nothing from before a key frame.
ReferencesAreTrue ==
    /\ mime = "h264"  => Avc!ListsAreStandard
    /\ mime = "h265"  => Hevc!ReferencesAreRps
    /\ mime = "mpeg2" => Mpeg2!ReferencesAreTrue
    /\ mime = "vc1"   => Vc1!ReferencesAreTrue
    /\ mime = "vp9"   => Vp9!SlotsAreTrue /\ Vp9!NothingAcrossKey

\* H.264: sliding window and commands mark what clause 8.2.5 says, and order counts
\* of the three types follow the stream, over gaps and wraps of frame_num and over
\* field pairs.
MarkingIsStandard == mime = "h264" => Avc!MarkingIsStandard /\ Avc!PocIsTrue

\* VP9: a frame is decoded into surfaces of the size that the client was told.
SizeWasTold == mime = "vp9" => Vp9!SizeWasTold
=============================================================================
