----------------------------- MODULE EncoderGop -----------------------------
(***************************************************************************)
(* What encoder/vaapiencoder_h264.cpp and encoder/vaapiencoder_hevc.cpp    *)
(* have in common: the order in which frames are encoded, and the lists    *)
(* of reference pictures.  A frame is [id, type, poc, fn, tid]; ids follow *)
(* the order of input.                                                     *)
(***************************************************************************)
EXTENDS Integers, SequencesExt

IsIdr(p) == p.type = "I" /\ p.fn = 0
Ids(list) == [i \in DOMAIN list |-> list[i].id]

\* changeLastBFrameToPFrame(): the last frame before a key frame or the end.
ChangeLastBFrameToPFrame(list) ==
    IF list = <<>> \/ Last(list).type # "B" THEN list
    ELSE <<[Last(list) EXCEPT !.type = "P"]>> \o Front(list)

\* The type of the frame with m_frameIndex index, of a group that has numB B frames
\* before each P frame.
TypeOf(index, isIdr, intraPeriod, numB) ==
    IF isIdr \/ index % intraPeriod = 0 THEN "I" ELSE IF index % (numB + 1) # 0 THEN "B" ELSE "P"

\* referenceListUpdate(): newest first.
ReferenceListUpdate(refs, p, max) ==
    IF p.type = "B" THEN refs
    ELSE <<p>> \o (IF IsIdr(p) THEN <<>> ELSE IF Len(refs) >= max THEN Front(refs) ELSE refs)

\* Fault: a frame refers to lower temporal layers only.
LowerLayersOnly(refs, p, max0, max1) ==
    LET before == SelectSeq(refs, LAMBDA r : p.tid > r.tid /\ p.poc > r.poc)
    IN  IF p.type = "I" THEN <<<<>>, <<>>>> ELSE <<SubSeq(before, 1, Min({max0, Len(before)})), <<>>>>

\* pictureReferenceListSet(): m_refList0 and m_refList1.
PictureReferenceListSet(refs, p, max0, max1) ==
    LET usable == SelectSeq(refs, LAMBDA r : p.tid >= r.tid)
        before == SelectSeq(usable, LAMBDA r : p.poc > r.poc)
        after  == Reverse(SelectSeq(usable, LAMBDA r : p.poc <= r.poc))
        Resize(list, max) == IF Len(list) > max THEN SubSeq(list, 1, max) ELSE list
    IN  IF p.type = "I" THEN <<<<>>, <<>>>> ELSE <<Resize(before, max0), Resize(after, max1)>>
=============================================================================
