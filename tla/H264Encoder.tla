---------------------------- MODULE H264Encoder ----------------------------
(***************************************************************************)
(* encoder/vaapiencoder_h264.cpp: frames are reordered, get a frame number *)
(* and an order count, and are encoded with two lists of references.  What *)
(* is written reaches the DPB of decoder/vaapidecoder_h264.cpp, unless a   *)
(* network passes the lower temporal layers only.                          *)
(***************************************************************************)
EXTENDS H264Dpb

CONSTANTS
    Configs,        \* [intra: intraPeriod, idr: idrInterval + 1, numB: m_numBFrames, refs: numRefFrames,
                    \*  ids: temporal ids, keep: highest layer that reaches the decoder]
    Hard,           \* what the encoder gets wrong: subset of HardKinds
    MaxFrames,      \* bound: frames given to the encoder
    MaxSpecial      \* bound: forced key frames, refusals, flushes

HardKinds == {"frame refused"}

VARIABLES
    cfg,    \* the member of Configs
    gop,    \* [index: m_frameIndex, num: m_curFrameNum, given: frames given]
    list,   \* m_reorderFrameList
    dump,   \* m_reorderState = VAAPI_ENC_REORD_DUMP_FRAMES
    refs,   \* m_refList
    dec,    \* [d: the DPB of the decoder, prev: its previous picture, ok]
    coded,  \* history: what the last step encoded: [id, type, lists, got: the decoder's lists]
    done,   \* history: the frames encoded or refused so far, in that order
    special \* history: number of special events

vars == <<cfg, gop, list, dump, refs, dec, coded, done, special>>

Gop == INSTANCE EncoderGop

MaxOf(a, b) == IF a > b THEN a ELSE b

-----------------------------------------------------------------------------
(* resetParams() *)

KeyPeriod == cfg.intra * cfg.idr
MaxRefList1Count == IF cfg.numB > 0 THEN 1 ELSE 0
Layered(c) == Len(c.ids) > 1

\* calculateMiniRefNum(): frames since a frame of layer 0, it included.
MiniRefFrameNum(ids) ==
    Max({k \in 1..Len(ids) : \E i \in 1..(Len(ids) - k + 1) : \A j \in (i + 1)..(i + k - 1) : ids[j] # 0})

MaxRefFrames(c) ==
    LET sum == c.refs + (IF c.numB > 0 THEN 1 ELSE 0)
        layers == Max(Range(c.ids)) + 1
    IN  MaxOf(IF Layered(c) THEN MaxOf(sum, MiniRefFrameNum(c.ids)) ELSE sum, 2 ^ (layers - 1))

Init ==
    /\ cfg \in {c \in Configs : MaxRefFrames(c) = NumRefFrames}
    /\ gop = [index |-> 0, num |-> 0, given |-> 0]
    /\ list = <<>> /\ dump = FALSE /\ refs = <<>>
    /\ dec = [d |-> [pics |-> <<>>, shown |-> <<>>, short |-> <<>>, long |-> <<>>, noOutput |-> FALSE,
                     marking |-> [adaptive |-> FALSE, ops |-> <<>>, noOutput |-> FALSE],
                     lowLatency |-> FALSE, pocType |-> 0],
              prev |-> NewPicture(0), ok |-> TRUE]
    /\ coded = <<>> /\ done = <<>> /\ special = 0

-----------------------------------------------------------------------------
(* What the decoder makes of a picture *)

\* addPackedSliceHeader(): commands for m_refList0, when a number is not the next.
Commands(p, l0) ==
    LET diff(i) == p.fn - l0[i].fn
    IN  IF p.type = "P" /\ \E i \in DOMAIN l0 : diff(i) # 1
        THEN [i \in DOMAIN l0 |-> [idc |-> 0, val |-> diff(i)]] ELSE <<>>

\* decodeSlice() and decodeCurrent() for a picture that fills one access unit.
Picture(p) == [NewPicture(p.id) EXCEPT !.idr = Gop!IsIdr(p), !.fn = p.fn, !.lsb = p.poc % MaxPocLsb,
                                       !.ref = p.type # "B", !.short = p.type # "B"]
Begin(d, cur) ==
    IF cur.idr THEN [d |-> [d EXCEPT !.short = <<>>, !.long = <<>>], cur |-> cur]
    ELSE [d |-> CalcPicNum(d, cur), cur |-> Numbered(cur)]
AfterGaps(g, new) == Begin(g.d, CalcPoc(0, new, g.prev, 0))
DecodedLists(b, p, lists) ==
    LET active == <<Len(lists[1]), IF p.type = "B" THEN MaxOf(Len(lists[2]), 1) ELSE 0>>
    IN  IF p.type = "I" THEN <<<<>>, <<>>>>
        ELSE RefLists(b.cur, b.d.short, b.d.long, p.type, <<Commands(p, lists[1]), <<>>>>, active)
Added(e, a) == [d |-> a.d, prev |-> a.cur, ok |-> e.ok /\ a.ok]
Finish(e, b, p, lists) ==
    LET got == DecodedLists(b, p, lists)
    IN  [dec |-> Added(e, Add(b.d, b.cur)), got |-> [i \in 1..2 |-> Ids(got[i])]]
Decode(e, p, lists) ==
    Finish(e, AfterGaps(ProcessFrameNumWithGaps(e.d, IF Gop!IsIdr(p) THEN Picture(p) ELSE e.prev, Picture(p)),
                        Picture(p)), p, lists)

-----------------------------------------------------------------------------
(* The encoder *)

\* encodePicture() of one frame, on e = [refs, dec, coded].
Encoded(e, p, ids, r) ==
    [refs  |-> Gop!ReferenceListUpdate(e.refs, p, NumRefFrames),
     dec   |-> r.dec,
     coded |-> Append(e.coded, [id |-> p.id, type |-> p.type, lists |-> ids, got |-> r.got])]
EncodePicture(e, p) ==
    LET lists == Gop!PictureReferenceListSet(e.refs, p, cfg.refs, MaxRefList1Count)
        ids   == <<Gop!Ids(lists[1]), Gop!Ids(lists[2])>>
    IN  Encoded(e, p, ids, IF p.tid > cfg.keep THEN [dec |-> e.dec, got |-> ids] ELSE Decode(e.dec, p, lists))

\* encodeAllFrames(): all of them, or the first n and then one that is refused.
EncodeAllFrames(frames, n) ==
    \E e \in {FoldLeft(EncodePicture, [refs |-> refs, dec |-> dec, coded |-> <<>>], SubSeq(frames, 1, n))} :
        /\ refs' = e.refs /\ dec' = e.dec /\ coded' = e.coded
        /\ done' = done \o Gop!Ids(SubSeq(frames, 1, IF n < Len(frames) THEN n + 1 ELSE n))
        /\ list' = SubSeq(frames, n + 2, Len(frames))
        /\ dump' = (list' # <<>>)

\* Fault: a B frame is encoded before the frame that it waits for.
ReorderInOrder(p) == Append(IF Gop!IsIdr(p) THEN Gop!ChangeLastBFrameToPFrame(list) ELSE list, p)

Reorder(p) ==
    CASE Gop!IsIdr(p)  -> Append(Gop!ChangeLastBFrameToPFrame(list), p)
      [] p.type = "B"  -> Append(list, p)
      [] OTHER         -> <<p>> \o list

\* doEncode()
DoEncode ==
    \E forced \in BOOLEAN :
        LET isIdr == gop.index = 0 \/ gop.index >= KeyPeriod \/ forced
            index == IF isIdr THEN 0 ELSE gop.index
            num   == IF isIdr THEN 0 ELSE gop.num
            type  == Gop!TypeOf(index, isIdr, cfg.intra, cfg.numB)
            p     == [id |-> gop.given + 1, type |-> type, poc |-> 2 * index, fn |-> num % MaxFrameNum,
                      tid |-> IF Layered(cfg) THEN cfg.ids[(index % Len(cfg.ids)) + 1] ELSE 0]
            frames == Reorder(p)
            encodes == dump \/ type # "B"
        IN  \E n \in IF ~encodes THEN {0} ELSE IF "frame refused" \in Hard THEN 0..Len(frames) ELSE {Len(frames)} :
              /\ gop.given < MaxFrames
              /\ special' = special + (IF forced THEN 1 ELSE 0) + (IF encodes /\ n < Len(frames) THEN 1 ELSE 0)
              /\ special' <= MaxSpecial
              /\ gop' = [index |-> index + 1, num |-> num + (IF type = "B" THEN 0 ELSE 1), given |-> p.id]
              /\ IF encodes THEN EncodeAllFrames(frames, n)
                 ELSE list' = frames /\ coded' = <<>> /\ UNCHANGED <<dump, refs, dec, done>>
              /\ UNCHANGED cfg

\* Fault: the last B frame stays one.
FlushAsItIs(frames) == frames

LastFrames(frames) == Gop!ChangeLastBFrameToPFrame(frames)

\* flush(), which stop() calls too.
Flush ==
    /\ gop.index > 0
    /\ special < MaxSpecial /\ special' = special + 1
    /\ \E e \in {FoldLeft(EncodePicture, [refs |-> refs, dec |-> dec, coded |-> <<>>], LastFrames(list))} :
          dec' = e.dec /\ coded' = e.coded
    /\ done' = done \o Gop!Ids(LastFrames(list))
    /\ refs' = <<>> /\ list' = <<>> /\ dump' = FALSE
    /\ gop' = [gop EXCEPT !.index = 0, !.num = 0]
    /\ UNCHANGED cfg

Next == DoEncode \/ Flush

Spec == Init /\ [][Next]_vars

-----------------------------------------------------------------------------
(* Properties *)

\* The decoder of the library, given the lower layers or all of them, rebuilds from
\* frame numbers and order counts the lists that a frame was encoded with.
SameReferences == \A i \in DOMAIN coded : coded[i].got = coded[i].lists

\* What the assertions of pictureReferenceListSet() and addSliceHeaders() say.
ListsAreUsable ==
    \A i \in DOMAIN coded :
        /\ coded[i].type # "I" => coded[i].lists[1] # <<>>
        /\ coded[i].type = "P" => coded[i].lists[2] = <<>>

\* Every frame is encoded once, and the decoder shows them in the order of input.
OutputInOrder ==
    /\ dec.ok
    /\ IsInjective(done) /\ Range(done) \union Range(Gop!Ids(list)) = 1..gop.given
    /\ \A i \in 1..(Len(dec.d.shown) - 1) : dec.d.shown[i] < dec.d.shown[i + 1]
=============================================================================
