----------------------------- MODULE Vp9Decoder -----------------------------
(***************************************************************************)
(* decoder/vaapidecoder_vp9.cpp with the format, the pool and the output   *)
(* queue of decoder/vaapidecoder_base.cpp: super frames, hidden frames,    *)
(* frames shown again, changes of size, and a client that keeps frames and *)
(* sends a buffer again when decode() asks for it.  A frame stands for its *)
(* surface.                                                                *)
(***************************************************************************)
EXTENDS Integers, SequencesExt, FiniteSetsExt

CONSTANTS
    Slots,          \* the reference slots, 1..VP9_REF_FRAMES
    PoolSize,       \* surfaces the allocator gives for VP9_SURFACE_NUM
    Sizes,          \* sizes of frames
    Hard,           \* streams the decoder gets wrong: subset of HardKinds
    MaxFrames,      \* bound: frames sent
    MaxSpecial      \* bound: flushes, and frames the driver refuses

HardKinds == {"no surface in a super frame", "existing frame in a super frame"}

VARIABLES
    dec,    \* the decoder: [ref: m_reference, gotKey: m_gotKeyFrame, size: m_videoFormatInfo,
            \*  config: m_config, old: the last frame of the pool before, out: m_output]
    stream, \* [n: frames sent, key: the last key frame, slots: the frame in each slot, size: of
            \*  the last frame, pending: to be sent again, whole: all decoded since the key frame]
    client, \* [held: frames it keeps, told: the size it was last told]
    hist    \* history: [last: [frame, from] decoded by the last call, special: flushes and refusals]

vars == <<dec, stream, client, hist>>

Empty == [i \in Slots |-> 0]

Init ==
    /\ dec = [ref |-> Empty, gotKey |-> FALSE, size |-> 0, config |-> 0, old |-> 0, out |-> <<>>]
    /\ stream = [n |-> 0, key |-> 0, slots |-> Empty, size |-> 0, pending |-> <<>>, whole |-> FALSE]
    /\ client = [held |-> {}, told |-> -1]
    /\ hist = [last |-> <<>>, special |-> 0]

-----------------------------------------------------------------------------
(* The decoder: on d = [dec, decoded, status] *)

\* Fault: the references are kept when a key frame comes.
KeptReferences(d, f) == d.ref

\* fillReference() before the driver decodes.
ClearedReferences(d, f) == IF f.kind = "key" THEN Empty ELSE d.ref

\* Fault: a frame that is not shown updates no slot.
UpdateShownOnly(d, f) == [i \in Slots |-> IF f.show /\ i \in f.refresh THEN f.id ELSE d.ref[i]]

\* updateReference()
UpdateReference(d, f) == [i \in Slots |-> IF f.kind = "key" \/ i \in f.refresh THEN f.id ELSE d.ref[i]]

\* The frames whose surfaces are of the pool there is now.
InUse(d, held) == {id \in Range(d.ref) \union Range(d.out) \union held : id > d.old}

SizeOf(f) == IF f.kind = "existing" THEN 0 ELSE f.size

\* Fault: only a frame larger than the surfaces is a change of format.
FormatGrows(d, f) == d.size < SizeOf(f)

\* setFormat()
FormatChanges(d, f) == d.size # SizeOf(f)

Fails(d, status) == [dec |-> d, decoded |-> <<>>, status |-> status]

\* decode() of one frame; the driver refuses it when ok is FALSE.  The header of an
\* existing frame is zero but for its slot: a key frame of no size.
ShowExisting(d, f) ==
    [dec |-> IF d.ref[f.slot] = 0 THEN d ELSE [d EXCEPT !.out = Append(@, d.ref[f.slot])],
     decoded |-> <<>>, status |-> "ok"]

\* decode() of the driver, after fillReference() has left d.
DecodePicture(d, f, from, ok) ==
    IF ~ok THEN Fails(d, "fail")
    ELSE [dec |-> [d EXCEPT !.ref = UpdateReference(d, f), !.out = IF f.show THEN Append(@, f.id) ELSE @],
          decoded |-> <<[frame |-> f, from |-> from]>>, status |-> "ok"]

\* With the surfaces there are.
DecodeInPool(d, f, held, ok) ==
    IF Cardinality(InUse(d, held)) >= PoolSize THEN Fails(d, "no surface")
    ELSE IF f.kind = "existing" THEN ShowExisting(d, f)
    ELSE DecodePicture([d EXCEPT !.ref = ClearedReferences(d, f)], f, {d.ref[i] : i \in f.refs},
                       ok /\ (f.kind = "key" \/ 0 \notin Range(d.ref)))

\* With the key frame there was; a larger size takes new surfaces.
DecodeAfterKey(d, f, held, ok) ==
    IF ~d.gotKey THEN Fails(d, "invalid")
    ELSE IF FormatChanges(d, f) THEN Fails([d EXCEPT !.size = SizeOf(f)], "format")
    ELSE DecodeInPool(IF SizeOf(f) > d.config THEN [d EXCEPT !.config = SizeOf(f), !.old = f.id - 1] ELSE d,
                      f, held, ok)

DecodeFrame(d, f, held, ok) ==
    DecodeAfterKey([d EXCEPT !.gotKey = @ \/ f.kind \in {"key", "existing"}], f, held, ok)

\* decode() of a buffer, which holds a frame, or a hidden one and another: it stops at
\* the first that does not succeed.  The driver refuses the frame at index bad.
DecodeBuffer(b, held, bad) ==
    LET first  == DecodeFrame(dec, b[1], held, bad # 1)
        second == DecodeFrame(first.dec, b[2], held, bad # 2)
    IN  IF first.status # "ok" \/ Len(b) = 1 THEN first
        ELSE [second EXCEPT !.decoded = first.decoded \o @]

-----------------------------------------------------------------------------
(* The client *)

\* One call of decode() with buffer b, and what a client does with the answer: it
\* sends the buffer again after a change of format or for want of a surface.
Call(b, strm) ==
    \E bad \in 0..Len(b) : \E r \in {DecodeBuffer(b, client.held, bad)} :
        LET again == r.status \in {"format", "no surface"}
        IN  /\ bad # 0 => hist.special < MaxSpecial /\ Len(r.decoded) = bad - 1
            /\ r.status = "no surface" /\ r.decoded # <<>> => "no surface in a super frame" \in Hard
            /\ dec' = r.dec
            /\ stream' = [strm EXCEPT !.pending = IF again THEN b ELSE <<>>,
                                      !.whole = IF again THEN @ ELSE IF r.status # "ok" THEN FALSE
                                                ELSE @ \/ b[1].kind = "key"]
            /\ client' = [client EXCEPT !.told = IF r.status = "format" THEN r.dec.size ELSE @]
            /\ hist' = [last |-> r.decoded, special |-> hist.special + (IF bad # 0 THEN 1 ELSE 0)]

\* The frames that may come next, as number id, in a stream whose slots hold s, with
\* the last key frame and the last size.
Candidates(s, id, key, last) ==
    LET rec(kind, show, refresh, refs, slot, size) ==
            [id |-> id, kind |-> kind, show |-> show, refresh |-> refresh, refs |-> refs, slot |-> slot,
             size |-> size,
             key |-> IF kind = "key" THEN id ELSE key]
        some == {{i} : i \in Slots} \union {Slots}
    IN  {rec("key", show, Slots, {}, 0, size) : show \in BOOLEAN, size \in Sizes}
        \union (IF 0 \in Range(s) THEN {} ELSE
                {rec("inter", show, refresh, Slots, 0, last) : show \in BOOLEAN, refresh \in some \union {{}}}
                \union {rec("inter", TRUE, {1}, Slots, 0, size) : size \in Sizes}
                \union {rec("intra", FALSE, refresh, {}, 0, size) : refresh \in some, size \in Sizes}
                \union {rec("existing", TRUE, {}, {}, slot, 0) : slot \in Slots})

After(s, f) == [i \in Slots |-> IF f.kind = "key" \/ i \in f.refresh THEN f.id ELSE s[i]]
Number == stream.n + 1
Sent(f, strm) == [strm EXCEPT !.n = f.id, !.key = f.key, !.slots = After(@, f),
                              !.size = IF f.kind = "existing" THEN @ ELSE f.size]

SendFrame ==
    /\ stream.pending = <<>> /\ Number <= MaxFrames
    /\ \E f \in Candidates(stream.slots, Number, stream.key, stream.size) : Call(<<f>>, Sent(f, stream))

\* A hidden frame and one that is shown, in one buffer.
SendSuperFrame ==
    /\ stream.pending = <<>> /\ Number < MaxFrames
    /\ \E f \in {c \in Candidates(stream.slots, Number, stream.key, stream.size) : c.kind \in {"key", "inter"} /\ ~c.show} :
          \E g \in Candidates(After(stream.slots, f), Number + 1, f.key, f.size) :
              /\ g.show /\ g.kind # "key"
              /\ g.kind = "existing" => "existing frame in a super frame" \in Hard
              /\ g.kind = "inter" => g.size = f.size
              /\ Call(<<f, g>>, Sent(g, Sent(f, stream)))

SendAgain == stream.pending # <<>> /\ Call(stream.pending, stream)

\* getOutput(), and the client's release of a frame.
GetOutput ==
    /\ dec.out # <<>>
    /\ dec' = [dec EXCEPT !.out = Tail(@)]
    /\ client' = [client EXCEPT !.held = @ \union {Head(dec.out)}]
    /\ UNCHANGED <<stream, hist>>

Release ==
    /\ \E id \in client.held : client' = [client EXCEPT !.held = @ \ {id}]
    /\ UNCHANGED <<dec, stream, hist>>

\* flush() on a seek, which discards the output, or decode() without data.
Flush ==
    /\ hist.special < MaxSpecial
    /\ \E discard \in BOOLEAN :
          dec' = [dec EXCEPT !.ref = Empty, !.gotKey = FALSE, !.out = IF discard THEN <<>> ELSE @]
    /\ stream' = [stream EXCEPT !.pending = <<>>, !.whole = FALSE]
    /\ hist' = [hist EXCEPT !.special = @ + 1]
    /\ UNCHANGED client

Next == SendFrame \/ SendSuperFrame \/ SendAgain \/ GetOutput \/ Release \/ Flush

Spec == Init /\ [][Next]_vars

-----------------------------------------------------------------------------
(* Properties *)

\* While every frame since the last key frame was decoded, the slots hold what the
\* stream says, through super frames, hidden frames and buffers sent again.
SlotsAreTrue == (stream.whole /\ stream.pending = <<>>) => dec.ref = stream.slots

\* Whatever the driver refuses and wherever a seek lands, no frame is predicted from
\* one that came before the last key frame, nor from itself when it is decoded again.
NothingAcrossKey ==
    \A i \in DOMAIN hist.last : \A j \in hist.last[i].from : hist.last[i].frame.key <= j /\ j < hist.last[i].frame.id

\* A frame is decoded into surfaces of the size the client was told.
SizeWasTold ==
    \A i \in DOMAIN hist.last : i = Len(hist.last) => client.told = hist.last[i].frame.size

\* The client is told of the sizes of the stream, and of no other.
ToldSizes == client.told \in Sizes \union {-1}
=============================================================================
