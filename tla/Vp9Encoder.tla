----------------------------- MODULE Vp9Encoder -----------------------------
(***************************************************************************)
(* encoder/vaapiencoder_vp9.cpp: which of three slots a frame refers to    *)
(* and refreshes, in both reference modes, and the slots of                *)
(* decoder/vaapidecoder_vp9.cpp.  A frame's number stands for its surface; *)
(* number 0 is no surface.                                                 *)
(***************************************************************************)
EXTENDS Integers

CONSTANTS
    Configs,        \* [period: keyFramePeriod(), mode: getReferenceMode()]
    Hard,           \* what the encoder gets wrong: subset of HardKinds
    MaxFrames,      \* bound: frames given to the encoder
    MaxSpecial      \* bound: forced key frames, refusals and flushes

HardKinds == {"first key frame refused"}

VARIABLES
    cfg,    \* the member of Configs
    enc,    \* [count: m_frameCount, n: frames given, refs: m_reference, index: m_currentReferenceIndex,
            \*  key: the last key frame, newest: the last frame encoded, gap: a frame was refused after it]
    dec,    \* [ref: m_reference, gotKey: m_gotKeyFrame]
    seen,   \* history: before the last frame decoded, [slots: those it refers to, refs: m_reference,
            \*  got: the slots of the decoder, key, newest, gap]
    special \* history: number of forced key frames, refusals and flushes

vars == <<cfg, enc, dec, seen, special>>

Slots == 0..2
All(n) == [i \in Slots |-> n]

Init ==
    /\ cfg \in Configs
    /\ enc = [count |-> 0, n |-> 0, refs |-> All(0), index |-> 0, key |-> 0, newest |-> 0,
              gap |-> FALSE]
    /\ dec = [ref |-> All(0), gotKey |-> FALSE]
    /\ seen = <<>> /\ special = 0

\* Fault: last refers to the slot that is refreshed.
SlotsOfLate(index) ==
    IF cfg.mode = 0 THEN [refresh |-> 0, last |-> 0, golden |-> 1, alt |-> 2]
    ELSE [refresh |-> index, last |-> index, golden |-> (index + 1) % 3, alt |-> (index + 2) % 3]

\* fill() of a P frame.
SlotsOf(index) ==
    IF cfg.mode = 0 THEN [refresh |-> 0, last |-> 0, golden |-> 1, alt |-> 2]
    ELSE [refresh |-> index, last |-> (index + 2) % 3, golden |-> (index + 1) % 3, alt |-> index]

\* fill() moves the index before the driver has taken the frame; referenceListUpdate()
\* brings it back.
IndexAfter(key, refused, index) == IF cfg.mode = 0 \/ key THEN (IF refused THEN enc.index ELSE 0) ELSE index

\* referenceListUpdate()
ReferenceListUpdate(key, slot, id) == IF key THEN All(id) ELSE [enc.refs EXCEPT ![slot] = id]

\* doEncode() of one frame, which the driver may refuse, and its way through the decoder.
EncodeFrame ==
    \E forced, refused \in BOOLEAN :
        LET key   == enc.count % cfg.period = 0 \/ forced
            index == (enc.index + 1) % 3
            s     == SlotsOf(index)
            id    == enc.n + 1
            takes == ~refused /\ (key \/ dec.gotKey)
        IN  /\ enc.n < MaxFrames
            /\ key /\ refused /\ enc.refs = All(0) => "first key frame refused" \in Hard
            /\ special' = special + (IF forced THEN 1 ELSE 0) + (IF refused THEN 1 ELSE 0)
            /\ special' <= MaxSpecial
            /\ enc' = [count |-> enc.count + 1, n |-> id, index |-> IndexAfter(key, refused, index),
                       refs |-> IF refused THEN enc.refs ELSE ReferenceListUpdate(key, s.refresh, id),
                       key |-> IF key /\ ~refused THEN id ELSE enc.key,
                       newest |-> IF refused THEN enc.newest ELSE id,
                       gap |-> refused /\ (~key \/ enc.gap)]
            /\ dec' = IF ~takes THEN dec
                      ELSE [ref |-> [i \in Slots |-> IF key \/ i = s.refresh THEN id ELSE dec.ref[i]], gotKey |-> TRUE]
            /\ seen' = IF key \/ ~takes THEN <<>>
                       ELSE [slots |-> s, refs |-> enc.refs, got |-> dec.ref, key |-> enc.key,
                            newest |-> enc.newest, gap |-> enc.gap]
            /\ UNCHANGED cfg

\* flush() of the encoder; the index stays.
FlushEncoder ==
    /\ special < MaxSpecial /\ special' = special + 1
    /\ enc.count > 0
    /\ enc' = [enc EXCEPT !.count = 0, !.refs = All(0)]
    /\ seen' = <<>>
    /\ UNCHANGED <<cfg, dec>>

\* flush() of the decoder, on a seek.
FlushDecoder ==
    /\ special < MaxSpecial /\ special' = special + 1
    /\ dec.gotKey
    /\ dec' = [ref |-> All(0), gotKey |-> FALSE]
    /\ seen' = <<>>
    /\ UNCHANGED <<cfg, enc>>

Next == EncodeFrame \/ FlushEncoder \/ FlushDecoder

Spec == Init /\ [][Next]_vars

-----------------------------------------------------------------------------
(* Properties *)

\* The slots a frame refers to hold, in the encoder and in the decoder, the same
\* frame: "golden and alt are last KeyFrame, last is last decoded frame" in mode 0; the
\* newest is last in mode 1, unless a frame was refused after it.
SameReferences ==
    seen # <<>> =>
        LET s == seen.slots
        IN  /\ \A i \in {s.last, s.golden, s.alt} : seen.got[i] = seen.refs[i]
            /\ cfg.mode = 0 => seen.got[s.golden] = seen.key /\ seen.got[s.alt] = seen.key
            /\ cfg.mode = 0 \/ ~seen.gap => seen.got[s.last] = seen.newest
=============================================================================
