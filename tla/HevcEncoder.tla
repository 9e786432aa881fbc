---------------------------- MODULE HevcEncoder ----------------------------
(***************************************************************************)
(* encoder/vaapiencoder_hevc.cpp: as the H.264 encoder, but a picture says *)
(* which references it needs by a reference picture set.  What is written  *)
(* reaches the DPB of decoder/vaapidecoder_h265.cpp.                       *)
(***************************************************************************)
EXTENDS EncoderGop

CONSTANTS
    Configs,        \* [intra: intraPeriod > 1, idr: idrInterval + 1, numB: m_numBFrames, refs: numRefFrames]
    Hard,           \* what the encoder gets wrong: subset of HardKinds
    MaxFrames,      \* bound: frames given to the encoder
    MaxSpecial      \* bound: forced key frames, refusals, flushes

HardKinds == {"two references", "I frame after B frames", "frame refused"}

VARIABLES
    cfg,    \* the member of Configs
    gop,    \* [index: m_frameIndex, given: frames given]
    list,   \* m_reorderFrameList
    dump,   \* m_reorderState = VAAPI_ENC_REORD_DUMP_FRAMES
    refs,   \* [list: m_refList, rfs: the differences of order counts in m_shortRFS]
    dec,    \* [d: the DPB of the decoder, new: m_newStream, ok: no picture failed]
    coded,  \* history: what the last step encoded: [id, type, lists, got: the decoder's lists]
    done,   \* history: the frames encoded or refused so far, in that order
    special \* history: number of special events

vars == <<cfg, gop, list, dump, refs, dec, coded, done, special>>

\* fill() of the sequence: num_reorder_pics, latency and max_dec_pic_buffering.
Dpb == INSTANCE H265Dpb WITH limits <- [reorder |-> cfg.numB, latency |-> 0, size |-> 6]

KeyPeriod == cfg.intra * cfg.idr
MaxRefList1Count == IF cfg.numB > 0 THEN 1 ELSE 0
MaxRefFrames == cfg.refs + MaxRefList1Count

\* What a flush() leaves pending B frames to, or a key frame, an I frame does not.
Easy(c) ==
    /\ c.refs > 1 => "two references" \in Hard
    /\ (\E i \in 1..(c.idr - 1) : (i * c.intra - 1) % (c.numB + 1) # 0) => "I frame after B frames" \in Hard

Init ==
    /\ cfg \in {c \in Configs : Easy(c)}
    /\ gop = [index |-> 0, given |-> 0]
    /\ list = <<>> /\ dump = FALSE
    /\ refs = [list |-> <<>>, rfs |-> {-1} \union (IF cfg.numB > 0 THEN {1} ELSE {})]
    /\ dec = [d |-> [pics |-> <<>>, shown |-> <<>>], new |-> TRUE, ok |-> TRUE]
    /\ coded = <<>> /\ done = <<>> /\ special = 0

-----------------------------------------------------------------------------
(* What the decoder makes of a picture *)

\* getRefPicList(): the two halves of the set, over and over.
GetRefPicList(first, second, active) ==
    LET all == first \o second
    IN  IF all = <<>> THEN <<>> ELSE [i \in 1..active |-> all[((i - 1) % Len(all)) + 1]]

\* decodeSlice() and decodeCurrent() for a picture that fills one access unit.
Added(e, i, p) ==
    [d |-> Dpb!Add([pics |-> i.pics, shown |-> i.shown],
                   [id |-> p.id, poc |-> p.poc, lsb |-> p.poc, out |-> TRUE, ref |-> FALSE,
                    unused |-> FALSE, latency |-> 0]),
     new |-> FALSE, ok |-> e.ok /\ i.ok]
DecodedLists(used, p, lists) ==
    LET before == Ids(SelectSeq(used, LAMBDA q : q.poc < p.poc))
        after  == Ids(SelectSeq(used, LAMBDA q : q.poc > p.poc))
        Active(l) == IF Len(l) > 0 THEN Len(l) ELSE 1
    IN  <<IF p.type = "I" THEN <<>> ELSE GetRefPicList(before, after, Active(lists[1])),
          IF p.type = "B" THEN GetRefPicList(after, before, Active(lists[2])) ELSE <<>>>>
Finish(e, i, p, lists) ==
    [dec |-> Added(e, i, p), got |-> DecodedLists(SelectSeq(i.pics, LAMBDA q : ~q.unused), p, lists)]
Decode(e, p, rfs, lists) ==
    LET idr == IsIdr(p)
    IN  Finish(e, Dpb!InitDpb(e.d, [kind |-> IF idr THEN "IDR" ELSE "TRAIL", noOutput |-> FALSE,
                                    rps |-> {[poc |-> p.poc + diff, msb |-> TRUE] : diff \in rfs}], idr, e.new),
               p, lists)

-----------------------------------------------------------------------------
(* The encoder *)

\* The difference to the first of a list.
First(l, p) == IF l = <<>> THEN {} ELSE {l[1].poc - p.poc}

\* Fault: a B frame names the reference before it only.
ForwardOnly(p, rfs, lists) == IF p.type = "I" THEN rfs ELSE First(lists[1], p)

\* shortRfsUpdate(), which pictureReferenceListSet() does not reach for I frames.
ShortRfsUpdate(p, rfs, lists) ==
    IF p.type = "I" THEN rfs
    ELSE First(lists[1], p) \union (IF lists[1] # <<>> THEN First(lists[2], p) ELSE {})

\* encodePicture() of one frame, on e = [refs, dec, coded].
Sent(e, p, rfs, lists, r) ==
    [refs  |-> [list |-> ReferenceListUpdate(e.refs.list, p, MaxRefFrames), rfs |-> rfs],
     dec   |-> r.dec,
     coded |-> Append(e.coded, [id |-> p.id, type |-> p.type, lists |-> <<Ids(lists[1]), Ids(lists[2])>>,
                                got |-> r.got])]
EncodePicture(e, p) ==
    LET lists == PictureReferenceListSet(e.refs.list, p, cfg.refs, MaxRefList1Count)
        rfs == ShortRfsUpdate(p, e.refs.rfs, lists)
    IN  Sent(e, p, rfs, lists, Decode(e.dec, p, rfs, lists))

Encoded(frames) == FoldLeft(EncodePicture, [refs |-> refs, dec |-> dec, coded |-> <<>>], frames)

\* encodeAllFrames(): all of them, or the first n and then one that is refused.
EncodeAllFrames(frames, n) ==
    \E e \in {Encoded(SubSeq(frames, 1, n))} :
        /\ refs' = e.refs /\ dec' = e.dec /\ coded' = e.coded
        /\ done' = done \o Ids(SubSeq(frames, 1, IF n < Len(frames) THEN n + 1 ELSE n))
        /\ list' = SubSeq(frames, n + 2, Len(frames))
        /\ dump' = (list' # <<>>)

\* reorder(): B and I frames go to the back.
Reorder(p) ==
    CASE IsIdr(p)      -> Append(ChangeLastBFrameToPFrame(list), p)
      [] p.type = "P"  -> <<p>> \o list
      [] OTHER         -> Append(list, p)

\* The frames that the driver may refuse: without B frames all but a key frame.
MayRefuse(p) == "frame refused" \in Hard \/ (cfg.numB = 0 /\ ~IsIdr(p))

\* doEncode()
DoEncode ==
    \E forced \in BOOLEAN :
        LET isIdr == gop.index = 0 \/ gop.index >= KeyPeriod \/ forced
            index == IF isIdr THEN 0 ELSE gop.index
            type  == TypeOf(index, isIdr, cfg.intra, cfg.numB)
            p     == [id |-> gop.given + 1, type |-> type, poc |-> index, fn |-> index, tid |-> 0]
            frames == Reorder(p)
            encodes == dump \/ type # "B"
        IN  \E n \in {k \in 0..Len(frames) : k = Len(frames) \/ (encodes /\ MayRefuse(frames[k + 1]))} :
              /\ gop.given < MaxFrames
              /\ special' = special + (IF forced THEN 1 ELSE 0) + (IF n < Len(frames) THEN 1 ELSE 0)
              /\ special' <= MaxSpecial
              /\ gop' = [index |-> index + 1, given |-> p.id]
              /\ IF encodes THEN EncodeAllFrames(frames, n)
                 ELSE list' = frames /\ coded' = <<>> /\ UNCHANGED <<dump, refs, dec, done>>
              /\ UNCHANGED cfg

\* flush(), which stop() calls too.
Flush ==
    /\ gop.index > 0
    /\ special < MaxSpecial /\ special' = special + 1
    /\ \E e \in {Encoded(ChangeLastBFrameToPFrame(list))} :
          /\ dec' = e.dec /\ coded' = e.coded
          /\ refs' = [list |-> <<>>, rfs |-> e.refs.rfs]
    /\ done' = done \o Ids(ChangeLastBFrameToPFrame(list))
    /\ list' = <<>> /\ dump' = FALSE /\ gop' = [gop EXCEPT !.index = 0]
    /\ UNCHANGED cfg

Next == DoEncode \/ Flush

Spec == Init /\ [][Next]_vars

-----------------------------------------------------------------------------
(* Properties *)

\* The decoder of the library rebuilds from reference picture sets the lists that a
\* frame was encoded with, over I frames, forced key frames and frames refused.
SameReferences == \A i \in DOMAIN coded : coded[i].got = coded[i].lists

\* What the assertion of addSliceHeaders() says.
ListsAreUsable ==
    \A i \in DOMAIN coded :
        /\ coded[i].type # "I" => coded[i].lists[1] # <<>>
        /\ coded[i].type = "P" => coded[i].lists[2] = <<>>

\* Every frame is encoded once, and the decoder shows them in the order of input.
OutputInOrder ==
    /\ dec.ok
    /\ IsInjective(done) /\ Range(done) \union Range(Ids(list)) = 1..gop.given
    /\ \A i \in 1..(Len(dec.d.shown) - 1) : dec.d.shown[i] < dec.d.shown[i + 1]
=============================================================================
