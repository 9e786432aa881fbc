------------------------------ MODULE Vp8Codec ------------------------------
(***************************************************************************)
(* encoder/vaapiencoder_vp8.cpp with encoder/vaapilayerid.cpp, a network   *)
(* that may drop the frames of the higher temporal layers, and             *)
(* decoder/vaapidecoder_vp8.cpp: both keep a last, a golden and an         *)
(* alternate picture, each by code of its own.  A frame's number stands    *)
(* for its surface; number 0 is no surface.                                *)
(***************************************************************************)
EXTENDS Integers, Sequences

CONSTANTS
    Configs,        \* [ids: m_ids, svct, target: temporalLayer of the decoder, dropped: layers
                    \*  the network may drop]
    KeyPeriod,      \* keyFramePeriod()
    Hard,           \* what the code gets wrong: subset of HardKinds
    MaxFrames,      \* bound: frames given to the encoder
    MaxSpecial      \* bound: forced key frames, refusals, losses and flushes

HardKinds == {"copies of the normal encoder", "key frame refused", "key frame dropped"}

VARIABLES
    cfg,    \* the member of Configs
    enc,    \* [count: m_frameCount, n: frames given, bufs: m_last, m_golden, m_alt,
            \*  fresh: m_goldenRefreshed]
    net,    \* the frames between the encoder and the decoder
    dec,    \* [bufs: m_lastPicture, m_goldenRefPicture, m_altRefPicture, gotKey: m_gotKeyFrame]
    seen,   \* history: the last frame decoded, and what it was predicted from
    special \* history: number of forced key frames, refusals, drops and flushes

vars == <<cfg, enc, net, dec, seen, special>>

Buffers == {"last", "golden", "alt"}
All(n)  == [b \in Buffers |-> n]
Nothing == [frame |-> [refs |-> {}], from |-> {}]

Init ==
    /\ cfg \in Configs
    /\ enc = [count |-> 0, n |-> 0, bufs |-> All(0), fresh |-> FALSE]
    /\ dec = [bufs |-> All(0), gotKey |-> FALSE]
    /\ net = <<>> /\ seen = Nothing /\ special = 0

-----------------------------------------------------------------------------
(* The encoder *)

TemporalLayer(count) == cfg.ids[((count % KeyPeriod) % Len(cfg.ids)) + 1]

\* Flags: the buffers that a frame refreshes, those it may not refer to, and the
\* copies (0: none, 1: of last, 2: of the other buffer).
KeyFlags    == [refresh |-> Buffers, noRef |-> Buffers, golden |-> 0, alt |-> 0]
NormalFlags == [refresh |-> {"last"}, noRef |-> {}, golden |-> 1, alt |-> 2]

\* Fault: the third layer keeps its frames in the golden buffer.
SvctFlagsGolden(layer, fresh) ==
    [refresh |-> IF layer = 0 THEN {"last"} ELSE {"golden"},
     noRef |-> {"alt"} \union (IF layer = 0 \/ (layer = 2 /\ ~fresh) THEN {"golden"} ELSE {}),
     golden |-> 0, alt |-> 0]

\* Vp8EncoderSvct::getRefFlags()
SvctFlags(layer, fresh) ==
    [refresh |-> CASE layer = 0 -> {"last"} [] layer = 1 -> {"golden"} [] layer = 2 -> {"alt"},
     noRef |-> {"alt"} \union (IF layer = 0 \/ ~fresh THEN {"golden"} ELSE {}),
     golden |-> 0, alt |-> 0]

GetRefFlags(layer) == IF cfg.svct THEN SvctFlags(layer, enc.fresh) ELSE NormalFlags

\* referenceUpdate() and referenceListUpdate(): golden first, then alt from the new
\* golden.
ReferenceUpdate(bufs, b, other, refresh, copy, recon) ==
    IF refresh THEN recon ELSE CASE copy = 0 -> bufs[b] [] copy = 1 -> bufs["last"] [] copy = 2 -> bufs[other]

ReferenceListUpdate(bufs, flags, recon) ==
    LET g == [bufs EXCEPT !["golden"] = ReferenceUpdate(bufs, "golden", "alt", "golden" \in flags.refresh,
                                                        flags.golden, recon)]
        a == [g EXCEPT !["alt"] = ReferenceUpdate(g, "alt", "golden", "alt" \in flags.refresh, flags.alt, recon)]
    IN  IF "last" \in flags.refresh THEN [a EXCEPT !["last"] = recon] ELSE a

References(bufs, flags) == {<<b, bufs[b]>> : b \in Buffers \ flags.noRef}

-----------------------------------------------------------------------------
(* The decoder *)

\* Fault: for the base layer, a frame is taken when it refreshes last or alt.
TargetNotGolden(f) ==
    CASE cfg.target = 1 -> f.key \/ "golden" \notin f.flags.refresh
      [] cfg.target = 2 -> f.key \/ "alt" \in f.flags.refresh \/ "last" \in f.flags.refresh
      [] OTHER -> TRUE

TargetTemporalFrame(f) ==
    CASE cfg.target = 1 -> f.key \/ "last" \in f.flags.refresh
      [] cfg.target = 2 -> f.key \/ {"last", "golden"} \intersect f.flags.refresh # {}
      [] OTHER -> TRUE

\* updateReferencePictures(): alt first, then golden from the new alt.
UpdateReferencePictures(bufs, f) ==
    LET a == CASE "alt" \in f.flags.refresh -> f.id
               [] f.flags.alt = 1 -> bufs["last"] [] f.flags.alt = 2 -> bufs["golden"] [] OTHER -> bufs["alt"]
        g == CASE "golden" \in f.flags.refresh -> f.id
               [] f.flags.golden = 1 -> bufs["last"] [] f.flags.golden = 2 -> a [] OTHER -> bufs["golden"]
    IN  IF f.key THEN All(f.id)
        ELSE [last |-> IF "last" \in f.flags.refresh THEN f.id ELSE bufs["last"], golden |-> g, alt |-> a]

\* decode(): a frame of a layer that is not wanted is passed over before anything else.
Decode(f) ==
    LET takes == TargetTemporalFrame(f) /\ (f.key \/ dec.gotKey)
    IN  /\ dec' = IF takes THEN [bufs |-> UpdateReferencePictures(dec.bufs, f), gotKey |-> TRUE] ELSE dec
        /\ seen' = IF takes THEN [frame |-> f, from |-> References(dec.bufs, f.flags)] ELSE Nothing

-----------------------------------------------------------------------------
(* Actions *)

\* doEncode() of one picture, which the driver may refuse.
EncodeFrame ==
    \E forced, refused \in BOOLEAN :
        LET key   == enc.count % KeyPeriod = 0 \/ forced
            layer == TemporalLayer(enc.count)
            flags == IF key THEN KeyFlags ELSE GetRefFlags(layer)
            f     == [id |-> enc.n + 1, key |-> key, layer |-> layer, flags |-> flags,
                      refs |-> References(enc.bufs, flags)]
            cost  == (IF forced THEN 1 ELSE 0) + (IF refused THEN 1 ELSE 0)
        IN  /\ enc.n < MaxFrames /\ special + cost <= MaxSpecial
            /\ ~cfg.svct => "copies of the normal encoder" \in Hard
            /\ key /\ refused => "key frame refused" \in Hard
            /\ enc' = [count |-> enc.count + 1, n |-> f.id,
                       fresh |-> ~key /\ (enc.fresh \/ (cfg.svct /\ layer = 1)),
                       bufs |-> IF refused THEN enc.bufs ELSE IF key THEN All(f.id)
                                ELSE ReferenceListUpdate(enc.bufs, flags, f.id)]
            /\ net' = IF refused THEN net ELSE Append(net, f)
            /\ special' = special + cost
            /\ UNCHANGED <<cfg, dec, seen>>

\* The network delivers a frame, or drops one of a layer that it may drop.
Deliver ==
    /\ net # <<>> /\ net' = Tail(net) /\ Decode(Head(net))
    /\ UNCHANGED <<cfg, enc, special>>

Drop ==
    /\ net # <<>> /\ special < MaxSpecial
    /\ Head(net).layer \in cfg.dropped
    /\ Head(net).key => "key frame dropped" \in Hard
    /\ net' = Tail(net) /\ special' = special + 1
    /\ UNCHANGED <<cfg, enc, dec, seen>>

\* flush() of the encoder, between two streams.
FlushEncoder ==
    /\ special < MaxSpecial /\ enc.n > 0
    /\ enc' = [enc EXCEPT !.count = 0, !.bufs = All(0)]
    /\ special' = special + 1
    /\ UNCHANGED <<cfg, net, dec, seen>>

\* flush() of the decoder, on a seek.
FlushDecoder ==
    /\ special < MaxSpecial /\ dec.gotKey
    /\ dec' = [bufs |-> All(0), gotKey |-> FALSE]
    /\ special' = special + 1
    /\ UNCHANGED <<cfg, enc, net, seen>>

Next == EncodeFrame \/ Deliver \/ Drop \/ FlushEncoder \/ FlushDecoder

Spec == Init /\ [][Next]_vars

-----------------------------------------------------------------------------
(* Properties *)

\* Whatever layers the network drops and the application passes over, wherever a
\* seek lands and whatever the driver refuses: a frame is decoded from the pictures
\* it was encoded from.
SameReferences == seen.from = seen.frame.refs

=============================================================================
