------------------------------ MODULE VpxProofs ------------------------------
(***************************************************************************)
(* The references of VP8 and VP9, the surfaces of VP9 and the headers of   *)
(* both, for every configuration, stream, pool and client: SameReferences  *)
(* of Vp9Encoder and of Vp8Codec, SlotsAreTrue, NothingAcrossKey and       *)
(* SizeWasTold of Vp9Decoder, HeadersAreTrue of Vp8Parser and Vp9Parser.   *)
(*                                                                         *)
(* Each theorem is of the code as it should be used (Hard is empty): the   *)
(* properties fail for the streams and frames that HardKinds name.         *)
(***************************************************************************)
EXTENDS Integers, Sequences, SequenceTheorems, TLAPS

CONSTANTS
    ConfigsOf8, ConfigsOf9, KeyPeriod,      \* of the encoders
    Slots, PoolSize, Sizes,                 \* of the decoder and the parser of VP9
    Hard, HardStreams,                      \* what is got wrong, and what the decoder of VP9 gets wrong
    MaxFrames8, MaxFrames9, MaxSpecial,     \* bounds of the encoders,
    MaxDecoded, MaxDecodedSpecial,          \* of the decoder of VP9,
    MaxParsed                               \* and of the parsers
VARIABLES
    cfg, enc, net, dec, seen, special, stream, client, hist,
    curr, used, parser, frames, sound

Vp8  == INSTANCE Vp8Codec WITH Configs <- ConfigsOf8, MaxFrames <- MaxFrames8
Vp9  == INSTANCE Vp9Encoder WITH Configs <- ConfigsOf9, MaxFrames <- MaxFrames9
Dec9 == INSTANCE Vp9Decoder WITH Hard <- HardStreams, MaxFrames <- MaxDecoded, MaxSpecial <- MaxDecodedSpecial
Par8 == INSTANCE Vp8Parser WITH MaxFrames <- MaxParsed
Par9 == INSTANCE Vp9Parser WITH MaxFrames <- MaxParsed

-----------------------------------------------------------------------------
(* VP9: the encoder, and the decoder that hears it *)

\* The key frame period is not 0.
ConfigsOfVp9 == \A c \in ConfigsOf9 : c.period \in Nat \ {0} /\ c.mode \in Nat

\* The types of the encoder and of the decoder.
TypeOKOfVp9 ==
    /\ cfg \in ConfigsOf9
    /\ enc \in [count : Nat, n : Nat, refs : [0..2 -> Nat], index : 0..2, key : Nat, newest : Nat, gap : BOOLEAN]
    /\ dec \in [ref : [0..2 -> Nat], gotKey : BOOLEAN]

\* Once a frame was encoded: the slots that the next one is predicted from hold it and
\* the last key frame, or in the other mode it and the one before it.
EncoderSlots ==
    enc.count > 0 =>
        /\ enc.refs[0] # 0
        /\ cfg.mode = 0 => enc.refs[0] = enc.newest /\ enc.refs[1] = enc.key /\ enc.refs[2] = enc.key
        /\ ~(cfg.mode = 0) /\ ~enc.gap => enc.refs[enc.index] = enc.newest

\* A decoder that had a key frame holds what the encoder holds.
DecoderSlots == dec.gotKey /\ enc.count > 0 => dec.ref = enc.refs
\* No frame was encoded yet.
ZeroBefore == enc.count = 0 => enc.refs = [i \in 0..2 |-> 0]

\* The inductive invariant: SameReferences needs to know both ends.
InvOfVp9 == TypeOKOfVp9 /\ EncoderSlots /\ ZeroBefore /\ DecoderSlots /\ Vp9!SameReferences

\* encodePicture(), and flush() at either end, keep it.
LEMMA Vp9EncoderStep ==
  ASSUME ConfigsOfVp9, Hard = {}, InvOfVp9, Vp9!Next
  PROVE  InvOfVp9'
<1> USE DEF InvOfVp9
<1>1. CASE Vp9!EncodeFrame
  <2>1. PICK forced, refused \in BOOLEAN : Vp9!EncodeFrame!(forced, refused)
    BY <1>1 DEF Vp9!EncodeFrame
  <2> DEFINE key   == enc.count % cfg.period = 0 \/ forced
             index == (enc.index + 1) % 3
             s     == Vp9!SlotsOf(index)
             id    == enc.n + 1
             takes == ~refused /\ (key \/ dec.gotKey)
  <2>2. /\ key /\ refused => enc.refs # [i \in 0..2 |-> 0]
        /\ enc' = [count |-> enc.count + 1, n |-> id, index |-> Vp9!IndexAfter(key, refused, index),
                   refs |-> IF refused THEN enc.refs ELSE Vp9!ReferenceListUpdate(key, s.refresh, id),
                   key |-> IF key /\ ~refused THEN id ELSE enc.key,
                   newest |-> IF refused THEN enc.newest ELSE id,
                   gap |-> refused /\ (~key \/ enc.gap)]
        /\ dec' = IF ~takes THEN dec
                  ELSE [ref |-> [i \in 0..2 |-> IF key \/ i = s.refresh THEN id ELSE dec.ref[i]], gotKey |-> TRUE]
        /\ seen' = IF key \/ ~takes THEN <<>>
                   ELSE [slots |-> s, refs |-> enc.refs, got |-> dec.ref, key |-> enc.key,
                        newest |-> enc.newest, gap |-> enc.gap]
        /\ cfg' = cfg
    BY <2>1 DEF Vp9!All, Vp9!Slots
  <2>3. key \in BOOLEAN /\ index \in 0..2 /\ id \in Nat \ {0} /\ takes \in BOOLEAN
    BY DEF TypeOKOfVp9
  <2>4. /\ s.refresh \in 0..2 /\ s.last \in 0..2 /\ s.golden \in 0..2 /\ s.alt \in 0..2
        /\ cfg.mode = 0 => s.refresh = 0 /\ s.last = 0 /\ s.golden = 1 /\ s.alt = 2
        /\ cfg.mode # 0 => s.refresh = index /\ s.last = enc.index
    BY <2>3 DEF Vp9!SlotsOf, TypeOKOfVp9
  <2>5. ~key => enc.count > 0
    BY DEF TypeOKOfVp9, ConfigsOfVp9
  <2> HIDE DEF key, index, s, id, takes
  <2>6. TypeOKOfVp9'
    BY <2>2, <2>3, <2>4 DEF TypeOKOfVp9, Vp9!IndexAfter, Vp9!ReferenceListUpdate, Vp9!All, Vp9!Slots
  <2>7. EncoderSlots' /\ ZeroBefore'
    BY <2>2, <2>3, <2>4, <2>5, <2>6 DEF TypeOKOfVp9, EncoderSlots, ZeroBefore, Vp9!IndexAfter, Vp9!ReferenceListUpdate, Vp9!All, Vp9!Slots
  <2>8. DecoderSlots'
    <3>1. CASE refused
      <4>1. enc.count > 0
        BY <3>1, <2>2, <2>5 DEF TypeOKOfVp9, ZeroBefore
      <4>2. dec' = dec /\ enc'.refs = enc.refs
        BY <3>1, <2>2 DEF takes
      <4> QED BY <4>1, <4>2 DEF DecoderSlots
    <3>2. CASE ~refused /\ key
      BY <3>2, <2>2, <2>3 DEF DecoderSlots, takes, Vp9!ReferenceListUpdate, Vp9!All, Vp9!Slots
    <3>3. CASE ~refused /\ ~key
      <4>1. enc.count > 0 /\ enc'.refs = [enc.refs EXCEPT ![s.refresh] = id]
        BY <3>3, <2>2, <2>5 DEF Vp9!ReferenceListUpdate
      <4>2. dec.gotKey => dec'.ref = [i \in 0..2 |-> IF i = s.refresh THEN id ELSE dec.ref[i]]
        BY <3>3, <2>2 DEF takes
      <4>3. ~dec.gotKey => dec' = dec
        BY <3>3, <2>2 DEF takes
      <4> QED BY <4>1, <4>2, <4>3, <2>4 DEF TypeOKOfVp9, DecoderSlots
    <3> QED BY <3>1, <3>2, <3>3, <2>3
  <2>9. Vp9!SameReferences'
    BY <2>2, <2>3, <2>4, <2>5, <2>6 DEF TypeOKOfVp9, DecoderSlots, EncoderSlots, Vp9!SameReferences, takes
  <2> QED BY <2>6, <2>7, <2>8, <2>9
<1>2. CASE Vp9!FlushEncoder
  BY <1>2 DEF Vp9!FlushEncoder, TypeOKOfVp9, EncoderSlots, ZeroBefore, DecoderSlots, Vp9!SameReferences, Vp9!All, Vp9!Slots
<1>3. CASE Vp9!FlushDecoder
  BY <1>3 DEF Vp9!FlushDecoder, TypeOKOfVp9, EncoderSlots, ZeroBefore, DecoderSlots, Vp9!SameReferences, Vp9!All, Vp9!Slots
<1> QED BY <1>1, <1>2, <1>3 DEF Vp9!Next

\* A VP9 frame is decoded with the references it was encoded with, and referenceListUpdate() keeps
\* in its slots what the modes promise, over forced key frames, frames the driver refuses and
\* flushes at either end.
THEOREM Vp9EncoderSameReferences ==
  ASSUME ConfigsOfVp9, Hard = {}
  PROVE  Vp9!Spec => []Vp9!SameReferences
<1>1. Vp9!Init => InvOfVp9
  BY DEF Vp9!Init, InvOfVp9, TypeOKOfVp9, EncoderSlots, ZeroBefore, DecoderSlots, Vp9!SameReferences, Vp9!All, Vp9!Slots
<1>2. InvOfVp9 /\ [Vp9!Next]_Vp9!vars => InvOfVp9'
  <2>1. CASE UNCHANGED Vp9!vars
    BY <2>1 DEF Vp9!vars, InvOfVp9, TypeOKOfVp9, EncoderSlots, ZeroBefore, DecoderSlots, Vp9!SameReferences
  <2> QED BY <2>1, Vp9EncoderStep
<1>3. InvOfVp9 => Vp9!SameReferences
  BY DEF InvOfVp9
<1> QED BY <1>1, <1>2, <1>3, PTL DEF Vp9!Spec

-----------------------------------------------------------------------------
(* VP8: the encoder of temporal layers, the frames on their way, the decoder *)

\* The reference frames of VP8.
Buffers == {"last", "golden", "alt"}

\* The key frame period is not 0 and m_ids names at least one layer.  Of a decoder of the
\* base layer the network may drop the other layers, and of any other the third, which no
\* frame is predicted from.
ConfigsOfVp8 ==
    /\ KeyPeriod \in Nat \ {0}
    /\ \A c \in ConfigsOf8 :
          /\ c.ids \in Seq(0..2) /\ c.ids # <<>>
          /\ c.target \in Nat
          /\ c.dropped \subseteq (IF c.target = 1 THEN {1, 2} ELSE {2})

\* The buffers that the frames the decoder gets are predicted from.
Tracked == IF cfg.target = 1 THEN {"last"} ELSE {"last", "golden"}

\* The flags of a frame, as the encoder fills them in.
FlagsOf(key, layer, fresh) == IF key THEN Vp8!KeyFlags ELSE Vp8!SvctFlags(layer, fresh)

\* A frame as the encoder makes it, from the buffers w.
FrameOf(id, key, layer, fresh, w) ==
    [id |-> id, key |-> key, layer |-> layer, flags |-> FlagsOf(key, layer, fresh),
     refs |-> Vp8!References(w, FlagsOf(key, layer, fresh))]

\* Frame f is put in buffer b.
Sets(f, b) == f.key \/ b \in f.flags.refresh

\* v is what buffer b holds in decoder d when it has had the frames before the ith.
Holds(sent, d, i, b, v) ==
    /\ \A j \in 1..Len(sent) : j < i /\ Sets(sent[j], b)
            /\ (\A k \in 1..Len(sent) : j < k /\ k < i => ~Sets(sent[k], b)) => v = sent[j].id
    /\ d.gotKey /\ (\A j \in 1..Len(sent) : j < i => ~Sets(sent[j], b)) => v = d.bufs[b]

\* What is on its way.
FramesOfVp8 == [id : Nat, key : BOOLEAN, layer : 0..2,
                flags : {FlagsOf(k, l, f) : k \in BOOLEAN, l \in 0..2, f \in BOOLEAN},
                refs : SUBSET (Buffers \X Nat)]

\* The variables keep their types.
TypeOKOfVp8 ==
    /\ cfg \in ConfigsOf8
    /\ enc \in [count : Nat, n : Nat, bufs : [Buffers -> Nat], fresh : BOOLEAN]
    /\ dec \in [bufs : [Buffers -> Nat], gotKey : BOOLEAN]
    /\ net \in Seq(FramesOfVp8)

\* The ith frame on its way was made from the buffers w, and what it may refer to is what
\* the decoder will hold when the frame comes.
MadeFrom(sent, d, i, fresh, w) ==
    /\ sent[i] = FrameOf(sent[i].id, sent[i].key, sent[i].layer, fresh, w)
    /\ \A b \in Tracked \ sent[i].flags.noRef : Holds(sent, d, i, b, w[b])

\* That is so for all that are on their way.
NetIsTrue ==
    \A i \in 1..Len(net) : \E fresh \in BOOLEAN, w \in [Buffers -> Nat] : MadeFrom(net, dec, i, fresh, w)

\* The encoder holds what the decoder will hold when all of them have come.
EncoderIsAhead == enc.count > 0 => \A b \in Tracked : Holds(net, dec, Len(net) + 1, b, enc.bufs[b])

\* The inductive invariant: what a frame finds in the decoder is settled when it is sent.
InvOfVp8 == TypeOKOfVp8 /\ NetIsTrue /\ EncoderIsAhead /\ Vp8!SameReferences

\* What a frame of the encoder sets and may not refer to, layer by layer.
LEMMA SvctFlagsOfLayers ==
  ASSUME NEW layer \in 0..2, NEW fresh
  PROVE  /\ "alt" \in Vp8!SvctFlags(layer, fresh).noRef
         /\ layer = 0 => /\ Vp8!SvctFlags(layer, fresh).refresh = {"last"}
                         /\ Vp8!SvctFlags(layer, fresh).noRef = {"alt", "golden"}
         /\ layer = 1 => Vp8!SvctFlags(layer, fresh).refresh = {"golden"}
         /\ layer = 2 => Vp8!SvctFlags(layer, fresh).refresh = {"alt"}
         /\ Vp8!SvctFlags(layer, fresh).golden = 0 /\ Vp8!SvctFlags(layer, fresh).alt = 0
<1>1. layer = 0 \/ layer = 1 \/ layer = 2
  OBVIOUS
<1> QED BY <1>1 DEF Vp8!SvctFlags

\* A frame more on the way: nothing changes before it, and after it a buffer holds it
\* or what it held.
LEMMA HoldsAppend ==
  ASSUME NEW S, NEW s \in Seq(S), NEW f, NEW d, NEW b, NEW v
  PROVE  /\ \A i \in 1..(Len(s) + 1) : Holds(s, d, i, b, v) => Holds(Append(s, f), d, i, b, v)
         /\ Holds(s, d, Len(s) + 1, b, v) =>
                Holds(Append(s, f), d, Len(s) + 2, b, IF Sets(f, b) THEN f.id ELSE v)
<1> DEFINE t == Append(s, f)
<1>1. /\ Len(s) \in Nat /\ Len(t) = Len(s) + 1
      /\ \A j \in 1..Len(s) : t[j] = s[j]
      /\ t[Len(s) + 1] = f
  OBVIOUS
<1> HIDE DEF t
<1>2. ASSUME NEW i \in 1..(Len(s) + 1), Holds(s, d, i, b, v)
      PROVE  Holds(t, d, i, b, v)
  <2>1. \A j \in 1..Len(t) : j < i => j \in 1..Len(s) /\ t[j] = s[j]
    BY <1>1
  <2>2. ASSUME NEW j \in 1..Len(t), j < i, Sets(t[j], b),
               \A k \in 1..Len(t) : j < k /\ k < i => ~Sets(t[k], b)
        PROVE  v = t[j].id
    <3>1. \A k \in 1..Len(s) : j < k /\ k < i => ~Sets(s[k], b)
      BY <1>1, <2>1, <2>2
    <3> QED BY <3>1, <2>1, <2>2, <1>2 DEF Holds
  <2>3. ASSUME d.gotKey, \A j \in 1..Len(t) : j < i => ~Sets(t[j], b)
        PROVE  v = d.bufs[b]
    <3>1. \A j \in 1..Len(s) : j < i => ~Sets(s[j], b)
      BY <1>1, <2>3
    <3> QED BY <3>1, <2>3, <1>2 DEF Holds
  <2> QED BY <2>2, <2>3 DEF Holds
<1>3. ASSUME Holds(s, d, Len(s) + 1, b, v)
      PROVE  Holds(t, d, Len(s) + 2, b, IF Sets(f, b) THEN f.id ELSE v)
  <2> DEFINE last == Len(s) + 1
  <2>1. /\ last \in 1..Len(t) /\ t[last] = f
        /\ \A j \in 1..Len(t) : j < last => j \in 1..Len(s) /\ t[j] = s[j]
    BY <1>1
  <2>2. ASSUME NEW j \in 1..Len(t), Sets(t[j], b),
               \A k \in 1..Len(t) : j < k /\ k < Len(s) + 2 => ~Sets(t[k], b)
        PROVE  (IF Sets(f, b) THEN f.id ELSE v) = t[j].id
    <3>1. CASE j = last
      BY <3>1, <2>1, <2>2
    <3>2. CASE j # last
      <4>1. j < last /\ ~Sets(f, b)
        BY <3>2, <2>1, <2>2, <1>1
      <4>2. \A k \in 1..Len(s) : j < k /\ k < last => ~Sets(s[k], b)
        BY <1>1, <2>2
      <4> QED BY <4>1, <4>2, <2>1, <2>2, <1>3 DEF Holds
    <3> QED BY <3>1, <3>2
  <2>3. ASSUME d.gotKey, \A j \in 1..Len(t) : j < Len(s) + 2 => ~Sets(t[j], b)
        PROVE  (IF Sets(f, b) THEN f.id ELSE v) = d.bufs[b]
    <3>1. ~Sets(f, b)
      BY <2>1, <2>3, <1>1
    <3>2. \A j \in 1..Len(s) : j < last => ~Sets(s[j], b)
      BY <1>1, <2>3
    <3> QED BY <3>1, <3>2, <2>3, <1>3 DEF Holds
  <2> QED BY <2>2, <2>3 DEF Holds
<1> QED BY <1>2, <1>3 DEF t

\* The first frame gone, which decoder e has taken if it set the buffer.
LEMMA HoldsTail ==
  ASSUME NEW S, NEW s \in Seq(S), s # <<>>, NEW d, NEW e, NEW b, NEW v,
         NEW i \in 2..(Len(s) + 1), Holds(s, d, i, b, v),
         e.gotKey => IF Sets(s[1], b) THEN e.bufs[b] = s[1].id ELSE d.gotKey /\ e.bufs[b] = d.bufs[b]
  PROVE  Holds(Tail(s), e, i - 1, b, v)
<1> DEFINE t == Tail(s)
<1>1. /\ Len(s) \in Nat \ {0} /\ Len(t) = Len(s) - 1
      /\ \A j \in 1..Len(t) : t[j] = s[j + 1]
  OBVIOUS
<1> HIDE DEF t
<1>2. ASSUME NEW j \in 1..Len(t), j < i - 1, Sets(t[j], b),
             \A k \in 1..Len(t) : j < k /\ k < i - 1 => ~Sets(t[k], b)
      PROVE  v = t[j].id
  <2>1. ASSUME NEW k \in 1..Len(s), j + 1 < k, k < i
        PROVE  ~Sets(s[k], b)
    <3>1. k - 1 \in 1..Len(t) /\ j < k - 1 /\ k - 1 < i - 1 /\ t[k - 1] = s[k]
      BY <1>1, <2>1
    <3> QED BY <3>1, <1>2
  <2>2. j + 1 \in 1..Len(s) /\ j + 1 < i /\ t[j] = s[j + 1]
    BY <1>1, <1>2
  <2> QED BY <2>1, <2>2, <1>2 DEF Holds
<1>3. ASSUME e.gotKey, \A j \in 1..Len(t) : j < i - 1 => ~Sets(t[j], b)
      PROVE  v = e.bufs[b]
  <2>1. ASSUME NEW k \in 1..Len(s), 1 < k, k < i
        PROVE  ~Sets(s[k], b)
    <3>1. k - 1 \in 1..Len(t) /\ k - 1 < i - 1 /\ t[k - 1] = s[k]
      BY <1>1, <2>1
    <3> QED BY <3>1, <1>3
  <2>2. 1 \in 1..Len(s) /\ 1 < i
    BY <1>1
  <2> QED BY <2>1, <2>2, <1>3 DEF Holds
<1> QED BY <1>2, <1>3 DEF Holds, t

\* A frame more: it is made from what the encoder holds, which the decoder will.
LEMMA EncodeFrameVp8 ==
  ASSUME ConfigsOfVp8, Hard = {}, InvOfVp8, Vp8!EncodeFrame
  PROVE  InvOfVp8'
<1> USE DEF InvOfVp8
<1>1. PICK forced, refused \in BOOLEAN : Vp8!EncodeFrame!(forced, refused)
  BY DEF Vp8!EncodeFrame
<1> DEFINE key   == enc.count % KeyPeriod = 0 \/ forced
           layer == Vp8!TemporalLayer(enc.count)
           flags == FlagsOf(key, layer, enc.fresh)
           f     == FrameOf(enc.n + 1, key, layer, enc.fresh, enc.bufs)
<1>2. /\ cfg.svct /\ ~(key /\ refused)
      /\ enc' = [count |-> enc.count + 1, n |-> enc.n + 1,
                 fresh |-> ~key /\ (enc.fresh \/ (cfg.svct /\ layer = 1)),
                 bufs |-> IF refused THEN enc.bufs ELSE IF key THEN Vp8!All(enc.n + 1)
                          ELSE Vp8!ReferenceListUpdate(enc.bufs, flags, enc.n + 1)]
      /\ net' = IF refused THEN net ELSE Append(net, f)
      /\ UNCHANGED <<cfg, dec, seen>>
  BY <1>1 DEF FlagsOf, FrameOf, Vp8!GetRefFlags
<1>3. key \in BOOLEAN /\ layer \in 0..2 /\ enc.fresh \in BOOLEAN /\ enc.n + 1 \in Nat
      /\ enc.bufs \in [Buffers -> Nat] /\ enc.count \in Nat
  BY DEF TypeOKOfVp8, ConfigsOfVp8, Vp8!TemporalLayer
<1>4. ~key => enc.count > 0
  <2>1. 0 % KeyPeriod = 0
    BY DEF ConfigsOfVp8
  <2> QED BY <2>1, <1>3
<1> HIDE DEF key, layer
<1>5. /\ f.id = enc.n + 1 /\ f.key = key /\ f.layer = layer /\ f.flags = flags
      /\ f = FrameOf(f.id, f.key, f.layer, enc.fresh, enc.bufs)
      /\ f \in FramesOfVp8
  <2>1. f.id = enc.n + 1 /\ f.key = key /\ f.layer = layer /\ f.flags = flags
    BY DEF FrameOf
  <2>2. flags \in {FlagsOf(k, l, fr) : k \in BOOLEAN, l \in 0..2, fr \in BOOLEAN}
    BY <1>3
  <2>3. Vp8!References(enc.bufs, flags) \in SUBSET (Buffers \X Nat)
    BY <1>3 DEF Vp8!References, Vp8!Buffers, Buffers
  <2> QED BY <2>1, <2>2, <2>3, <1>3 DEF FrameOf, FramesOfVp8
<1>6. /\ ~refused => \A b \in Buffers : enc'.bufs[b] = IF Sets(f, b) THEN f.id ELSE enc.bufs[b]
      /\ enc'.bufs \in [Buffers -> Nat]
  <2>1. CASE refused
    BY <2>1, <1>2, <1>3
  <2>2. CASE ~refused /\ key
    BY <2>2, <1>2, <1>3, <1>5 DEF Sets, Vp8!All, Vp8!Buffers, Buffers
  <2>3. CASE ~refused /\ ~key
    <3>1. flags = Vp8!SvctFlags(layer, enc.fresh)
      BY <2>3 DEF FlagsOf
    <3>2. flags.golden = 0 /\ flags.alt = 0
      BY <3>1, <1>3, SvctFlagsOfLayers
    <3> QED BY <2>3, <3>2, <1>2, <1>3, <1>5 DEF Sets, Vp8!ReferenceListUpdate, Vp8!ReferenceUpdate, Buffers
  <2> QED BY <2>1, <2>2, <2>3
<1> HIDE DEF f
<1>7. TypeOKOfVp8'
  <2>1. net' \in Seq(FramesOfVp8)
    BY <1>2, <1>5 DEF TypeOKOfVp8
  <2>2. enc' \in [count : Nat, n : Nat, bufs : [Buffers -> Nat], fresh : BOOLEAN]
    BY <1>2, <1>3, <1>6
  <2> QED BY <1>2, <2>1, <2>2 DEF TypeOKOfVp8
<1>8. CASE refused
  <2>1. net' = net /\ dec' = dec /\ cfg' = cfg /\ seen' = seen /\ enc'.bufs = enc.bufs
    BY <1>2, <1>8
  <2>2. NetIsTrue'
    BY <2>1 DEF NetIsTrue, MadeFrom, Tracked
  <2>3. EncoderIsAhead'
    BY <2>1, <1>2, <1>4, <1>8 DEF EncoderIsAhead, Tracked
  <2> QED BY <1>7, <2>1, <2>2, <2>3 DEF Vp8!SameReferences
<1>9. CASE ~refused
  <2>1. net' = Append(net, f) /\ dec' = dec /\ cfg' = cfg /\ seen' = seen
    BY <1>2, <1>9
  <2>2. Len(net) \in Nat /\ Len(net') = Len(net) + 1 /\ net'[Len(net) + 1] = f
        /\ \A j \in 1..Len(net) : net'[j] = net[j]
    BY <2>1 DEF TypeOKOfVp8
  <2>3. \A b, v : \A i \in 1..(Len(net) + 1) : Holds(net, dec, i, b, v) => Holds(net', dec', i, b, v)
    BY <2>1, HoldsAppend DEF TypeOKOfVp8
  <2>4. NetIsTrue'
    <3>1. ASSUME NEW i \in 1..Len(net)
          PROVE  \E fresh \in BOOLEAN, w \in [Buffers -> Nat] : MadeFrom(net', dec', i, fresh, w)
      <4>1. PICK fresh \in BOOLEAN, w \in [Buffers -> Nat] : MadeFrom(net, dec, i, fresh, w)
        BY DEF NetIsTrue
      <4>2. MadeFrom(net', dec', i, fresh, w)
        BY <4>1, <2>1, <2>2, <2>3 DEF MadeFrom
      <4> QED BY <4>2
    <3>2. MadeFrom(net', dec', Len(net) + 1, enc.fresh, enc.bufs)
      <4>1. CASE key
        <5>1. f.flags.noRef = Buffers
          BY <4>1, <1>5 DEF FlagsOf, Vp8!KeyFlags, Vp8!Buffers, Buffers
        <5>2. Tracked \ f.flags.noRef = {}
          BY <5>1 DEF Tracked, Buffers
        <5> QED BY <5>2, <2>2, <1>5 DEF MadeFrom
      <4>2. CASE ~key
        BY <4>2, <1>4, <1>5, <2>2, <2>3 DEF MadeFrom, EncoderIsAhead
      <4> QED BY <4>1, <4>2
    <3>3. \A i \in 1..Len(net') : \E fresh \in BOOLEAN, w \in [Buffers -> Nat] : MadeFrom(net', dec', i, fresh, w)
      BY <3>1, <3>2, <2>2, <1>3
    <3>4. \A i, fresh, w : MadeFrom(net', dec', i, fresh, w) => MadeFrom(net, dec, i, fresh, w)'
      BY <2>1 DEF MadeFrom, Tracked
    <3> QED BY <3>3, <3>4 DEF NetIsTrue
  <2>5. EncoderIsAhead'
    <3> SUFFICES ASSUME NEW b \in Tracked
                 PROVE  Holds(net', dec', Len(net) + 2, b, enc'.bufs[b])
      BY <2>1, <2>2 DEF EncoderIsAhead, Tracked
    <3>1. b \in Buffers
      BY DEF Tracked, Buffers
    <3>2. CASE key
      <4>1. Sets(f, b) /\ enc'.bufs[b] = f.id
        BY <3>1, <3>2, <1>5, <1>6, <1>9 DEF Sets
      <4> QED BY <4>1, <2>2 DEF Holds
    <3>3. CASE ~key
      <4>1. Holds(net, dec, Len(net) + 1, b, enc.bufs[b])
        BY <3>3, <1>4 DEF EncoderIsAhead
      <4>2. Holds(net', dec', Len(net) + 2, b, IF Sets(f, b) THEN f.id ELSE enc.bufs[b])
        BY <4>1, <2>1, HoldsAppend DEF TypeOKOfVp8
      <4> QED BY <4>2, <3>1, <1>6, <1>9
    <3> QED BY <3>2, <3>3
  <2> QED BY <1>7, <2>1, <2>4, <2>5 DEF Vp8!SameReferences
<1> QED BY <1>8, <1>9

\* The first frame gone, and the decoder has what it sets: what was to be is still to be.
LEMMA NetTail ==
  ASSUME TypeOKOfVp8, NetIsTrue, EncoderIsAhead, net # <<>>, net' = Tail(net), UNCHANGED <<cfg, enc>>,
         \A b \in Tracked : dec'.gotKey => IF Sets(net[1], b) THEN dec'.bufs[b] = net[1].id
                                           ELSE dec.gotKey /\ dec'.bufs[b] = dec.bufs[b]
  PROVE  NetIsTrue' /\ EncoderIsAhead'
<1>1. net \in Seq(FramesOfVp8) /\ Len(net) \in Nat \ {0} /\ Len(net') = Len(net) - 1
      /\ \A j \in 1..Len(net') : net'[j] = net[j + 1]
  BY DEF TypeOKOfVp8
<1>2. \A v : \A i \in 2..(Len(net) + 1), b \in Tracked : Holds(net, dec, i, b, v) => Holds(net', dec', i - 1, b, v)
  BY <1>1, HoldsTail
<1>3. \A i, fresh, w : MadeFrom(net', dec', i, fresh, w) => MadeFrom(net, dec, i, fresh, w)'
  BY DEF MadeFrom, Tracked
<1>4. ASSUME NEW i \in 1..Len(net')
      PROVE  \E fresh \in BOOLEAN, w \in [Buffers -> Nat] : MadeFrom(net', dec', i, fresh, w)
  <2>1. i + 1 \in 1..Len(net) /\ i + 1 \in 2..(Len(net) + 1) /\ net'[i] = net[i + 1] /\ (i + 1) - 1 = i
    BY <1>1
  <2>2. PICK fresh \in BOOLEAN, w \in [Buffers -> Nat] : MadeFrom(net, dec, i + 1, fresh, w)
    BY <2>1 DEF NetIsTrue
  <2>3. \A v : \A b \in Tracked : Holds(net, dec, i + 1, b, v) => Holds(net', dec', i, b, v)
    BY <1>2, <2>1
  <2>4. MadeFrom(net', dec', i, fresh, w)
    BY <2>1, <2>2, <2>3 DEF MadeFrom
  <2> QED BY <2>4
<1>5. NetIsTrue'
  BY <1>3, <1>4 DEF NetIsTrue
<1>6. EncoderIsAhead'
  <2>1. Len(net) + 1 \in 2..(Len(net) + 1) /\ (Len(net) + 1) - 1 = Len(net') + 1
    BY <1>1
  <2>2. enc.count > 0 => \A b \in Tracked : Holds(net', dec', Len(net') + 1, b, enc.bufs[b])
    BY <1>2, <2>1 DEF EncoderIsAhead
  <2> QED BY <2>2 DEF EncoderIsAhead, Tracked
<1> QED BY <1>5, <1>6

\* decode() of the first frame, which finds what it was made from.
LEMMA DeliverVp8 ==
  ASSUME ConfigsOfVp8, InvOfVp8, Vp8!Deliver
  PROVE  InvOfVp8'
<1> USE DEF InvOfVp8
<1> DEFINE f     == net[1]
           takes == Vp8!TargetTemporalFrame(f) /\ (f.key \/ dec.gotKey)
<1>1. /\ net # <<>> /\ net' = Tail(net) /\ f \in FramesOfVp8 /\ UNCHANGED <<cfg, enc>>
      /\ dec' = IF takes THEN [bufs |-> Vp8!UpdateReferencePictures(dec.bufs, f), gotKey |-> TRUE] ELSE dec
      /\ seen' = IF takes THEN [frame |-> f, from |-> Vp8!References(dec.bufs, f.flags)] ELSE Vp8!Nothing
      /\ net' \in Seq(FramesOfVp8)
  BY DEF Vp8!Deliver, Vp8!Decode, TypeOKOfVp8
<1>2. PICK fresh \in BOOLEAN, w \in [Buffers -> Nat] : MadeFrom(net, dec, 1, fresh, w)
  BY <1>1 DEF NetIsTrue, TypeOKOfVp8
<1>3. f = FrameOf(f.id, f.key, f.layer, fresh, w)
  BY <1>2 DEF MadeFrom
<1> HIDE DEF f
<1>4. f.id \in Nat /\ f.layer \in 0..2 /\ f.key \in BOOLEAN /\ f.flags = FlagsOf(f.key, f.layer, fresh)
      /\ f.refs = Vp8!References(w, f.flags)
  BY <1>1, <1>3 DEF FrameOf, FramesOfVp8
<1>5. f.key => f.flags.refresh = Buffers /\ f.flags.noRef = Buffers /\ \A b \in Buffers : Sets(f, b)
  BY <1>4 DEF FlagsOf, Vp8!KeyFlags, Vp8!Buffers, Buffers, Sets
<1>6. ~f.key => f.flags = Vp8!SvctFlags(f.layer, fresh) /\ f.flags.golden = 0 /\ f.flags.alt = 0
  BY <1>4, SvctFlagsOfLayers DEF FlagsOf
<1>7. CASE takes
  <2>1. Vp8!UpdateReferencePictures(dec.bufs, f) = [b \in Buffers |-> IF Sets(f, b) THEN f.id ELSE dec.bufs[b]]
    <3>1. CASE f.key
      BY <3>1, <1>5 DEF Vp8!UpdateReferencePictures, Vp8!All, Vp8!Buffers, Buffers
    <3>2. CASE ~f.key
      BY <3>2, <1>6 DEF Vp8!UpdateReferencePictures, Sets, Buffers
    <3> QED BY <3>1, <3>2
  <2>2. dec'.gotKey /\ dec' \in [bufs : [Buffers -> Nat], gotKey : BOOLEAN]
        /\ \A b \in Buffers : dec'.bufs[b] = IF Sets(f, b) THEN f.id ELSE dec.bufs[b]
    BY <1>1, <1>4, <1>7, <2>1 DEF TypeOKOfVp8
  <2>3. NetIsTrue' /\ EncoderIsAhead'
    BY <1>1, <1>5, <1>7, <2>2, NetTail DEF f, Tracked, Buffers, Sets
  <2>4. Vp8!References(dec.bufs, f.flags) = f.refs
    <3>1. CASE f.key
      BY <3>1, <1>4, <1>5 DEF Vp8!References, Vp8!Buffers, Buffers
    <3>2. CASE ~f.key
      <4>1. \A b \in Buffers \ f.flags.noRef : b \in Tracked
        <5>1. "alt" \in f.flags.noRef
          BY <3>2, <1>4, <1>6, SvctFlagsOfLayers
        <5>2. CASE cfg.target = 1
          <6>1. "last" \in f.flags.refresh
            BY <5>2, <3>2, <1>7 DEF Vp8!TargetTemporalFrame
          <6>2. f.layer = 0
            BY <6>1, <3>2, <1>4, <1>6, SvctFlagsOfLayers
          <6>3. f.flags.noRef = {"alt", "golden"}
            BY <6>2, <3>2, <1>4, <1>6, SvctFlagsOfLayers
          <6> QED BY <6>3, <5>2 DEF Buffers, Tracked
        <5>3. CASE cfg.target # 1
          BY <5>1, <5>3 DEF Buffers, Tracked
        <5> QED BY <5>2, <5>3
      <4>2. \A b \in Buffers \ f.flags.noRef : w[b] = dec.bufs[b]
        <5>1. \A b \in Buffers \ f.flags.noRef : Holds(net, dec, 1, b, w[b])
          BY <4>1, <1>2 DEF MadeFrom, f
        <5> QED BY <5>1, <3>2, <1>7 DEF Holds
      <4> QED BY <4>2, <1>4 DEF Vp8!References, Vp8!Buffers, Buffers
    <3> QED BY <3>1, <3>2
  <2>5. TypeOKOfVp8'
    BY <1>1, <2>2 DEF TypeOKOfVp8
  <2> QED BY <2>3, <2>4, <2>5, <1>1, <1>7 DEF Vp8!SameReferences
<1>8. CASE ~takes
  <2>1. dec' = dec /\ seen' = Vp8!Nothing
    BY <1>1, <1>8
  <2>2. \A b \in Tracked : dec.gotKey => ~Sets(f, b)
    <3>1. CASE dec.gotKey
      <4>1. ~Vp8!TargetTemporalFrame(f)
        BY <3>1, <1>8
      <4> QED BY <4>1 DEF Vp8!TargetTemporalFrame, Sets, Tracked
    <3> QED BY <3>1
  <2>3. NetIsTrue' /\ EncoderIsAhead'
    BY <1>1, <2>1, <2>2, NetTail DEF f
  <2> QED BY <2>1, <2>3, <1>1 DEF TypeOKOfVp8, Vp8!SameReferences, Vp8!Nothing
<1> QED BY <1>7, <1>8

\* A dropped frame sets no buffer that the decoder needs.
LEMMA DropVp8 ==
  ASSUME ConfigsOfVp8, Hard = {}, InvOfVp8, Vp8!Drop
  PROVE  InvOfVp8'
<1> USE DEF InvOfVp8
<1>1. /\ net # <<>> /\ net' = Tail(net) /\ net[1] \in FramesOfVp8 /\ UNCHANGED <<cfg, enc, dec, seen>>
      /\ net[1].layer \in cfg.dropped /\ ~net[1].key /\ net' \in Seq(FramesOfVp8)
  BY DEF Vp8!Drop, TypeOKOfVp8
<1>2. PICK fresh \in BOOLEAN, w \in [Buffers -> Nat] : MadeFrom(net, dec, 1, fresh, w)
  BY <1>1 DEF NetIsTrue, TypeOKOfVp8
<1>3. net[1].layer \in 0..2 /\ net[1].flags = Vp8!SvctFlags(net[1].layer, fresh)
  BY <1>1, <1>2 DEF MadeFrom, FrameOf, FlagsOf, FramesOfVp8
<1>4. \A b \in Tracked : ~Sets(net[1], b)
  <2>1. cfg.dropped \subseteq (IF cfg.target = 1 THEN {1, 2} ELSE {2})
    BY DEF ConfigsOfVp8, TypeOKOfVp8
  <2> QED BY <2>1, <1>1, <1>3, SvctFlagsOfLayers DEF Tracked, Sets
<1>5. NetIsTrue' /\ EncoderIsAhead'
  BY <1>1, <1>4, NetTail
<1> QED BY <1>1, <1>5 DEF TypeOKOfVp8, Vp8!SameReferences

\* The encoder starts again with a key frame, and the decoder waits for one.
LEMMA FlushesVp8 ==
  ASSUME InvOfVp8, Vp8!FlushEncoder \/ Vp8!FlushDecoder
  PROVE  InvOfVp8'
<1> USE DEF InvOfVp8
<1>1. CASE Vp8!FlushEncoder
  <2>1. enc' = [enc EXCEPT !.count = 0, !.bufs = Vp8!All(0)] /\ UNCHANGED <<cfg, net, dec, seen>>
    BY <1>1 DEF Vp8!FlushEncoder
  <2>2. TypeOKOfVp8'
    BY <2>1 DEF TypeOKOfVp8, Vp8!All, Vp8!Buffers, Buffers
  <2>3. NetIsTrue'
    BY <2>1 DEF NetIsTrue, MadeFrom, Tracked
  <2>4. EncoderIsAhead'
    BY <2>1 DEF EncoderIsAhead, TypeOKOfVp8
  <2> QED BY <2>1, <2>2, <2>3, <2>4 DEF Vp8!SameReferences
<1>2. CASE Vp8!FlushDecoder
  <2>1. dec' = [bufs |-> Vp8!All(0), gotKey |-> FALSE] /\ UNCHANGED <<cfg, enc, net, seen>>
    BY <1>2 DEF Vp8!FlushDecoder
  <2>2. \A i, b, v : Holds(net, dec, i, b, v) => Holds(net', dec', i, b, v)
    BY <2>1 DEF Holds
  <2>3. TypeOKOfVp8'
    BY <2>1 DEF TypeOKOfVp8, Vp8!All, Vp8!Buffers, Buffers
  <2>4. \A i, fresh, w : MadeFrom(net, dec, i, fresh, w) => MadeFrom(net, dec, i, fresh, w)'
    BY <2>1, <2>2 DEF MadeFrom, Tracked
  <2>5. NetIsTrue'
    BY <2>1, <2>4 DEF NetIsTrue
  <2>6. EncoderIsAhead'
    BY <2>1, <2>2 DEF EncoderIsAhead, Tracked
  <2> QED BY <2>1, <2>3, <2>5, <2>6 DEF Vp8!SameReferences
<1> QED BY <1>1, <1>2

\* A VP8 frame is decoded with the references it was encoded with, over temporal layers that a client
\* drops, key frames, and flushes at either end while frames are on their way.
THEOREM Vp8SameReferences ==
  ASSUME ConfigsOfVp8, Hard = {}
  PROVE  Vp8!Spec => []Vp8!SameReferences
<1>1. Vp8!Init => InvOfVp8
  BY DEF Vp8!Init, InvOfVp8, TypeOKOfVp8, NetIsTrue, EncoderIsAhead, Vp8!SameReferences, Vp8!Nothing,
         Vp8!All, Vp8!Buffers, Buffers
<1>2. InvOfVp8 /\ [Vp8!Next]_Vp8!vars => InvOfVp8'
  <2> SUFFICES ASSUME InvOfVp8, [Vp8!Next]_Vp8!vars
               PROVE  InvOfVp8'
    OBVIOUS
  <2>1. CASE UNCHANGED Vp8!vars
    BY <2>1 DEF Vp8!vars, InvOfVp8, TypeOKOfVp8, NetIsTrue, MadeFrom, EncoderIsAhead, Tracked, Vp8!SameReferences
  <2> QED BY <2>1, EncodeFrameVp8, DeliverVp8, DropVp8, FlushesVp8 DEF Vp8!Next
<1>3. InvOfVp8 => Vp8!SameReferences
  BY DEF InvOfVp8
<1> QED BY <1>1, <1>2, <1>3, PTL DEF Vp8!Spec

-----------------------------------------------------------------------------
(* VP9: the decoder, on a buffer that a stream may go on with *)

\* A frame has a size, and there are slots (8 in the code).
SizesOfVp9 == Sizes \subseteq Nat \ {0} /\ Slots # {}

\* The kinds of frame of the stream of Vp9Decoder.
Kinds == {"key", "inter", "intra", "existing"}

\* A frame of the stream; what the decoder, the stream and the last step hold.
FrameType == [id : Nat \ {0}, kind : Kinds, show : BOOLEAN, refresh : SUBSET (Slots \union {1}),
              refs : SUBSET Slots, slot : Slots \union {0}, size : Nat, key : Nat]
DecoderType == [ref : [Slots -> Nat], gotKey : BOOLEAN, size : Nat, config : Nat, old : Nat, out : Seq(Nat)]
StreamType == [n : Nat, key : Nat, slots : [Slots -> Nat], size : Nat, pending : Seq(FrameType), whole : BOOLEAN]
DecodedType == [frame : FrameType, from : SUBSET Nat]

\* The variables keep their types.
TypeOKOfDec9 ==
    /\ dec \in DecoderType
    /\ stream \in StreamType
    /\ client \in [held : SUBSET Nat, told : Int]
    /\ hist \in [last : Seq(DecodedType), special : Nat]

\* A frame of a stream: its own key frame, and only the fields that its kind has.
FrameOK(f) ==
    /\ f \in FrameType /\ f.key <= f.id
    /\ f.kind = "key" => f.key = f.id
    /\ f.kind \in {"key", "intra"} => f.refs = {}
    /\ f.kind = "existing" => f.refresh = {} /\ f.slot \in Slots
    /\ f.kind # "existing" => f.size # 0

\* A frame or, in a super frame, two of one size of which the second is no key frame.
BufferOK(b) ==
    /\ b \in Seq(FrameType) /\ Len(b) \in {1, 2} /\ FrameOK(b[1])
    /\ Len(b) = 2 => /\ FrameOK(b[2]) /\ b[1].kind \in {"key", "inter"} /\ b[2].kind = "inter"
                     /\ b[2].size = b[1].size /\ b[2].key = b[1].key /\ b[1].id < b[2].id

\* The slots s after the frames of buffer b.
AfterBuffer(s, b) == IF Len(b) = 1 THEN Dec9!After(s, b[1]) ELSE Dec9!After(Dec9!After(s, b[1]), b[2])

\* The references are of the stream since its last key frame.
Recent(ref, key, last) == \A i \in Slots : ref[i] = 0 \/ (key <= ref[i] /\ ref[i] <= last)

\* What buffer b of stream strm finds in decoder d.
Ready(d, b, strm) ==
    /\ BufferOK(b) /\ strm.key = b[1].key /\ b[Len(b)].id <= strm.n
    /\ b[1].kind = "key" \/ Recent(d.ref, b[1].key, b[1].id - 1)
    /\ strm.whole \/ b[1].kind = "key" => AfterBuffer(d.ref, b) = strm.slots

\* What decode() of one frame f answers to decoder d.
Decoded(d, f, r) ==
    /\ r.dec \in DecoderType /\ DOMAIN r = {"dec", "decoded", "status"}
    /\ r.status \in {"ok", "fail", "invalid", "format", "no surface"}
    /\ r.status # "ok" => r.decoded = <<>>
    /\ r.status # "format" => r.dec.size = d.size
    /\ r.status \in {"invalid", "format", "no surface"} => r.dec.ref = d.ref
    /\ r.status = "fail" => r.dec.ref = IF f.kind = "key" THEN [i \in Slots |-> 0] ELSE d.ref
    /\ r.status = "invalid" => f.kind # "key" /\ ~d.gotKey
    /\ r.status = "format" => d.size # Dec9!SizeOf(f)
    /\ r.status = "ok" => r.dec.ref = Dec9!After(d.ref, f) /\ r.dec.gotKey
    /\ r.status = "ok" /\ f.kind = "existing" => r.decoded = <<>>
    /\ r.status = "ok" /\ f.kind # "existing" =>
           /\ f.size = d.size
           /\ \E from \in SUBSET Nat :
                  /\ r.decoded = <<[frame |-> f, from |-> from]>>
                  /\ \A j \in from : f.kind = "inter" /\ j # 0 /\ \E i \in Slots : j = d.ref[i]

\* decode() of a frame answers that, on each way out.
LEMMA DecodeFrameVp9 ==
  ASSUME NEW d \in DecoderType, NEW f, FrameOK(f), NEW held, NEW ok \in BOOLEAN
  PROVE  Decoded(d, f, Dec9!DecodeFrame(d, f, held, ok))
<1> DEFINE r == Dec9!DecodeFrame(d, f, held, ok)
<1> DEFINE d1 == [d EXCEPT !.gotKey = @ \/ f.kind \in {"key", "existing"}]
           d2 == IF Dec9!SizeOf(f) > d1.config THEN [d1 EXCEPT !.config = Dec9!SizeOf(f), !.old = f.id - 1] ELSE d1
<1>1. d1 \in DecoderType /\ d1.ref = d.ref /\ d1.size = d.size /\ (d1.gotKey <=> d.gotKey \/ f.kind \in {"key", "existing"})
  BY DEF DecoderType
<1>2. Dec9!SizeOf(f) \in Nat /\ (f.kind # "existing" => Dec9!SizeOf(f) = f.size) /\ f.id - 1 \in Nat
  BY DEF Dec9!SizeOf, FrameOK, FrameType
<1>3. d2 \in DecoderType /\ d2.ref = d.ref /\ d2.size = d.size /\ d2.gotKey = d1.gotKey
  BY <1>1, <1>2 DEF DecoderType
<1> HIDE DEF d1, d2
<1>4. r = Dec9!DecodeAfterKey(d1, f, held, ok)
  BY DEF Dec9!DecodeFrame, d1
<1> SUFFICES Decoded(d, f, r)
  OBVIOUS
<1> HIDE DEF r
<1>5. CASE ~d1.gotKey
  <2>1. r = [dec |-> d1, decoded |-> <<>>, status |-> "invalid"]
    BY <1>4, <1>5 DEF Dec9!DecodeAfterKey, Dec9!Fails
  <2> QED BY <2>1, <1>1, <1>5 DEF Decoded
<1>6. CASE d1.gotKey /\ Dec9!FormatChanges(d1, f)
  <2>1. r = [dec |-> [d1 EXCEPT !.size = Dec9!SizeOf(f)], decoded |-> <<>>, status |-> "format"]
    BY <1>4, <1>6 DEF Dec9!DecodeAfterKey, Dec9!Fails
  <2>2. [d1 EXCEPT !.size = Dec9!SizeOf(f)] \in DecoderType /\ [d1 EXCEPT !.size = Dec9!SizeOf(f)].ref = d.ref
        /\ d.size # Dec9!SizeOf(f)
    BY <1>1, <1>2, <1>6 DEF DecoderType, Dec9!FormatChanges
  <2> QED BY <2>1, <2>2 DEF Decoded
<1>7. CASE d1.gotKey /\ ~Dec9!FormatChanges(d1, f)
  <2>1. r = Dec9!DecodeInPool(d2, f, held, ok) /\ Dec9!SizeOf(f) = d.size
    BY <1>1, <1>4, <1>7 DEF Dec9!DecodeAfterKey, Dec9!FormatChanges, d2
  <2> DEFINE c    == [d2 EXCEPT !.ref = Dec9!ClearedReferences(d2, f)]
             from == {d2.ref[i] : i \in f.refs}
             good == ok /\ (f.kind = "key" \/ 0 \notin Dec9!Range(d2.ref))
  <2>2. CASE r = Dec9!Fails(d2, "no surface")
    <3>1. r = [dec |-> d2, decoded |-> <<>>, status |-> "no surface"]
      BY <2>2 DEF Dec9!Fails
    <3> QED BY <3>1, <1>3 DEF Decoded
  <2>3. CASE f.kind = "existing" /\ r = Dec9!ShowExisting(d2, f)
    <3>1. Dec9!After(d.ref, f) = d.ref
      BY <2>3 DEF Dec9!After, FrameOK, DecoderType
    <3>2. d2.ref[f.slot] \in Nat /\ d2.out \in Seq(Nat) /\ Append(d2.out, d2.ref[f.slot]) \in Seq(Nat)
      BY <1>3, <2>3 DEF DecoderType, FrameOK
    <3> DEFINE e == IF d2.ref[f.slot] = 0 THEN d2 ELSE [d2 EXCEPT !.out = Append(@, d2.ref[f.slot])]
    <3>3. e \in DecoderType /\ e.ref = d.ref /\ e.size = d.size /\ e.gotKey
      BY <1>3, <1>7, <3>2 DEF DecoderType
    <3>4. r = [dec |-> e, decoded |-> <<>>, status |-> "ok"]
      BY <2>3 DEF Dec9!ShowExisting
    <3> HIDE DEF e
    <3> QED BY <2>3, <3>1, <3>3, <3>4 DEF Decoded
  <2>4. CASE f.kind # "existing" /\ r = Dec9!DecodePicture(c, f, from, good)
    <3>1. Dec9!ClearedReferences(d2, f) = (IF f.kind = "key" THEN [i \in Slots |-> 0] ELSE d.ref)
      BY <1>3 DEF Dec9!ClearedReferences, Dec9!Empty
    <3> DEFINE x == Dec9!ClearedReferences(d2, f)
    <3>5. x \in [Slots -> Nat]
      BY <3>1 DEF DecoderType
    <3> HIDE DEF x
    <3>6. c = [d2 EXCEPT !.ref = x]
      BY DEF x
    <3>7. c \in DecoderType /\ c.ref = x /\ c.size = d.size /\ c.gotKey
      BY <3>5, <3>6, <1>3, <1>7 DEF DecoderType
    <3>2. c \in DecoderType /\ c.ref = (IF f.kind = "key" THEN [i \in Slots |-> 0] ELSE d.ref)
          /\ c.size = d.size /\ c.gotKey
      BY <3>1, <3>7 DEF x
    <3> HIDE DEF c
    <3>3. CASE ~good
      <4>1. r = [dec |-> c, decoded |-> <<>>, status |-> "fail"]
        BY <2>4, <3>3 DEF Dec9!DecodePicture, Dec9!Fails
      <4> HIDE DEF good, from
      <4> QED BY <4>1, <3>2 DEF Decoded
    <3>4. CASE good
      <4> DEFINE out == IF f.show THEN Append(c.out, f.id) ELSE c.out
                 e   == [c EXCEPT !.ref = Dec9!UpdateReference(c, f), !.out = out]
      <4>1. r = [dec |-> e, decoded |-> <<[frame |-> f, from |-> from]>>, status |-> "ok"]
        BY <2>4, <3>4 DEF Dec9!DecodePicture
      <4>2. Dec9!UpdateReference(c, f) = Dec9!After(d.ref, f) /\ Dec9!UpdateReference(c, f) \in [Slots -> Nat]
        BY <3>2 DEF Dec9!UpdateReference, Dec9!After, FrameOK, FrameType, DecoderType
      <4>3. out \in Seq(Nat)
        BY <3>2 DEF DecoderType, FrameOK, FrameType
      <4>4. e \in DecoderType /\ e.ref = Dec9!After(d.ref, f) /\ e.size = d.size /\ e.gotKey
        BY <3>2, <4>2, <4>3 DEF DecoderType
      <4>5. f.size = d.size
        BY <2>1, <2>4 DEF Dec9!SizeOf
      <4>6. from \in SUBSET Nat
        BY <1>3 DEF DecoderType, FrameOK, FrameType
      <4>7. ASSUME NEW j \in from
            PROVE  f.kind = "inter" /\ j # 0 /\ \E i \in Slots : j = d.ref[i]
        <5>1. PICK i \in f.refs : j = d2.ref[i]
          BY <4>7
        <5>2. f.kind = "inter" /\ i \in Slots
          BY <2>4 DEF FrameOK, FrameType, Kinds
        <5>3. d2.ref = d.ref /\ 0 \notin Dec9!Range(d.ref)
          BY <1>3, <3>4, <5>2
        <5> QED BY <5>1, <5>2, <5>3 DEF Dec9!Range, DecoderType
      <4> HIDE DEF e, from
      <4>8. \E fr \in SUBSET Nat : /\ r.decoded = <<[frame |-> f, from |-> fr]>>
                                   /\ \A j \in fr : f.kind = "inter" /\ j # 0 /\ \E i \in Slots : j = d.ref[i]
        BY <4>1, <4>6, <4>7
      <4>9. DOMAIN r = {"dec", "decoded", "status"} /\ r.dec = e /\ r.status = "ok"
        BY <4>1
      <4> QED BY <2>4, <4>4, <4>5, <4>8, <4>9 DEF Decoded
    <3> HIDE DEF good, from
    <3> QED BY <3>3, <3>4
  <2>5. Dec9!DecodeInPool(d2, f, held, ok) =
            IF Dec9!Cardinality(Dec9!InUse(d2, held)) >= PoolSize THEN Dec9!Fails(d2, "no surface")
            ELSE IF f.kind = "existing" THEN Dec9!ShowExisting(d2, f)
            ELSE Dec9!DecodePicture(c, f, from, good)
    BY Zenon DEF Dec9!DecodeInPool
  <2> HIDE DEF c, from, good
  <2> QED BY <2>1, <2>2, <2>3, <2>4, <2>5
<1> QED BY <1>5, <1>6, <1>7 DEF r

\* A frame leaves the slots recent, if they were or it is a key frame.
LEMMA RecentAfter ==
  ASSUME NEW f, FrameOK(f), NEW ref \in [Slots -> Nat], f.kind = "key" \/ Recent(ref, f.key, f.id - 1)
  PROVE  Dec9!After(ref, f) \in [Slots -> Nat] /\ Recent(Dec9!After(ref, f), f.key, f.id)
BY DEF Dec9!After, FrameOK, FrameType, Recent

\* They stay recent while the stream goes on to its next key frame.
LEMMA RecentLonger ==
  ASSUME NEW ref \in [Slots -> Nat], NEW key \in Nat, NEW last \in Int, NEW longer \in Int, last <= longer,
         Recent(ref, key, last)
  PROVE  Recent(ref, key, longer)
BY DEF Recent

\* The record of a frame that was decoded: of the size d had, from recent pictures.
LEMMA OneDecoded ==
  ASSUME NEW d \in DecoderType, NEW f, FrameOK(f), NEW r, Decoded(d, f, r), r.status = "ok",
         f.kind = "key" \/ Recent(d.ref, f.key, f.id - 1)
  PROVE  /\ r.decoded \in Seq(DecodedType)
         /\ f.kind # "existing" => Len(r.decoded) = 1
         /\ f.kind = "existing" => r.decoded = <<>>
         /\ \A i \in DOMAIN r.decoded :
                /\ r.decoded[i].frame = f /\ f.size = d.size /\ d.size # 0
                /\ \A j \in r.decoded[i].from : f.key <= j /\ j < f.id
<1>1. CASE f.kind = "existing"
  <2>1. r.decoded = <<>>
    BY <1>1 DEF Decoded
  <2> QED BY <1>1, <2>1
<1>2. CASE f.kind # "existing"
  <2>1. PICK from \in SUBSET Nat :
            /\ r.decoded = <<[frame |-> f, from |-> from]>>
            /\ \A j \in from : f.kind = "inter" /\ j # 0 /\ \E i \in Slots : j = d.ref[i]
    BY <1>2 DEF Decoded
  <2>2. [frame |-> f, from |-> from] \in DecodedType
    BY DEF DecodedType, FrameOK
  <2>3. f.size = d.size /\ d.size # 0
    BY <1>2 DEF Decoded, FrameOK
  <2>4. ASSUME NEW j \in from
        PROVE  f.key <= j /\ j < f.id
    <3>1. PICK i \in Slots : j = d.ref[i] /\ j # 0 /\ f.kind = "inter"
      BY <2>1, <2>4
    <3>2. f.key <= j /\ j <= f.id - 1 /\ j \in Nat /\ f.id \in Nat
      BY <3>1 DEF Recent, DecoderType, FrameOK, FrameType
    <3> QED BY <3>2
  <2>5. r.decoded \in Seq(DecodedType) /\ Len(r.decoded) = 1 /\ DOMAIN r.decoded = {1}
        /\ r.decoded[1].frame = f /\ r.decoded[1].from = from
    BY <2>1, <2>2
  <2> QED BY <1>2, <2>3, <2>4, <2>5
<1> QED BY <1>1, <1>2

\* What decode() answers to a buffer that is ready.
Answered(d, b, strm, r) ==
    /\ r.dec \in DecoderType /\ r.decoded \in Seq(DecodedType)
    /\ r.status # "format" => r.dec.size = d.size
    /\ IF r.status \in {"format", "no surface"} THEN r.decoded = <<>> /\ r.dec.ref = d.ref
       ELSE Recent(r.dec.ref, strm.key, strm.n)
    /\ r.status = "ok" /\ (strm.whole \/ b[1].kind = "key") => r.dec.ref = strm.slots
    /\ \A i \in DOMAIN r.decoded :
           /\ r.decoded[i].frame.size = d.size /\ d.size # 0
           /\ \A j \in r.decoded[i].from : r.decoded[i].frame.key <= j /\ j < r.decoded[i].frame.id

\* A sequence with one element before it.
LEMMA OneBefore ==
  ASSUME NEW S, NEW s \in Seq(S), NEW t \in Seq(S), Len(s) = 1
  PROVE  /\ s \o t \in Seq(S) /\ Len(t) \in Nat
         /\ DOMAIN (s \o t) = 1..(1 + Len(t)) /\ DOMAIN t = 1..Len(t)
         /\ (s \o t)[1] = s[1]
         /\ \A i \in 2..(1 + Len(t)) : (s \o t)[i] = t[i - 1]
<1>1. /\ s \o t \in Seq(S) /\ Len(s \o t) = Len(s) + Len(t)
      /\ \A i \in 1 .. Len(s) + Len(t) : (s \o t)[i] = IF i <= Len(s) THEN s[i] ELSE t[i - Len(s)]
  BY ConcatProperties
<1>2. Len(t) \in Nat
  OBVIOUS
<1> DEFINE st == s \o t
<1> HIDE DEF st
<1>3. /\ st \in Seq(S) /\ Len(st) = 1 + Len(t)
      /\ \A i \in 1 .. 1 + Len(t) : st[i] = IF i <= 1 THEN s[i] ELSE t[i - 1]
  BY <1>1 DEF st
<1> QED BY <1>2, <1>3 DEF st

\* The answers of decode() to the frames of b, as one.
Joined(b, first, second) ==
    IF first.status # "ok" \/ Len(b) = 1 THEN first ELSE [second EXCEPT !.decoded = first.decoded \o @]

\* r is that for a buffer that is ready.
BufferDecoded(d, b, strm, first, second, r) ==
    /\ d \in DecoderType /\ strm.key \in Nat /\ strm.n \in Nat /\ Ready(d, b, strm)
    /\ Decoded(d, b[1], first)
    /\ first.status = "ok" /\ Len(b) = 2 => Decoded(first.dec, b[2], second)
    /\ r = Joined(b, first, second)
    /\ ~(r.status = "no surface" /\ r.decoded # <<>>)

\* decode() answers so to a buffer of one frame or two, wherever it stops.
LEMMA DecodeBufferVp9 ==
  ASSUME NEW d, NEW b, NEW strm, NEW first, NEW second, NEW r, BufferDecoded(d, b, strm, first, second, r)
  PROVE  Answered(d, b, strm, r)
<1> DEFINE id == b[1].id
           key == b[1].key
           n == strm.n
<1>1. /\ d \in DecoderType /\ d.ref \in [Slots -> Nat] /\ Decoded(d, b[1], first) /\ r = Joined(b, first, second)
      /\ FrameOK(b[1]) /\ Len(b) \in {1, 2} /\ strm.key = key /\ n \in Nat
      /\ b[Len(b)].id <= n
      /\ key \in Nat
      /\ b[1].kind = "key" \/ Recent(d.ref, key, id - 1)
  BY DEF BufferDecoded, Ready, BufferOK, DecoderType
<1>2. Len(b) = 2 => /\ FrameOK(b[2]) /\ b[2].kind = "inter" /\ b[2].size = b[1].size /\ b[2].key = key
                    /\ id < b[2].id /\ b[2].id \in Nat /\ b[1].kind # "existing"
  BY DEF BufferDecoded, Ready, BufferOK, FrameOK, FrameType
<1>3. id \in Nat /\ key \in Nat
  BY <1>1 DEF FrameOK, FrameType
<1>4. id <= n
  <2>1. Len(b) = 1 \/ Len(b) = 2
    BY <1>1
  <2>2. CASE Len(b) = 1
    BY <2>2, <1>1
  <2>3. CASE Len(b) = 2
    <3> DEFINE id2 == b[2].id
    <3>1. id2 \in Nat /\ id < id2 /\ id2 <= n
      BY <2>3, <1>1, <1>2
    <3> HIDE DEF id, n, id2
    <3> QED BY <3>1, <1>1, <1>3
  <2> QED BY <2>1, <2>2, <2>3
<1>6. first.status = "ok" => /\ Recent(first.dec.ref, key, id) /\ first.dec \in DecoderType
                             /\ first.dec.ref = Dec9!After(d.ref, b[1]) /\ first.dec.size = d.size
                             /\ first.dec.ref \in [Slots -> Nat]
  <2>1. Recent(Dec9!After(d.ref, b[1]), key, id) /\ Dec9!After(d.ref, b[1]) \in [Slots -> Nat]
    BY <1>1, RecentAfter
  <2> QED BY <2>1, <1>1 DEF Decoded
<1>7. Recent(d.ref, key, id - 1) => Recent(d.ref, key, n)
  <2> HIDE DEF id, key, n
  <2>1. id - 1 \in Int /\ id - 1 <= n /\ n \in Int
    BY <1>1, <1>3, <1>4
  <2> QED BY <2>1, <1>1, <1>3, RecentLonger
<1> HIDE DEF id, key, n
<1>5. CASE first.status # "ok"
  <2>1. r = first
    BY <1>1, <1>5 DEF Joined
  <2>2. r.status \notin {"format", "no surface"} => Recent(r.dec.ref, strm.key, strm.n)
    <3>1. CASE b[1].kind = "key"
      <4>1. r.status \notin {"format", "no surface"} => r.dec.ref = [i \in Slots |-> 0]
        BY <3>1, <2>1, <1>1, <1>5 DEF Decoded
      <4> QED BY <4>1 DEF Recent
    <3>2. CASE b[1].kind # "key"
      <4>1. r.dec.ref = d.ref
        BY <3>2, <2>1, <1>1, <1>5 DEF Decoded
      <4> QED BY <4>1, <3>2, <1>1, <1>7 DEF n
    <3> QED BY <3>1, <3>2
  <2>3. r.decoded = <<>> /\ r.decoded \in Seq(DecodedType) /\ DOMAIN r.decoded = {}
    <3>1. r.decoded = <<>>
      BY <1>1, <1>5, <2>1 DEF Decoded
    <3> QED BY <3>1
  <2>4. /\ r.dec \in DecoderType /\ (r.status # "format" => r.dec.size = d.size)
        /\ r.status \in {"format", "no surface"} => r.dec.ref = d.ref
    BY <1>1, <2>1 DEF Decoded
  <2> QED BY <1>5, <2>1, <2>2, <2>3, <2>4 DEF Answered
<1>8. CASE first.status = "ok" /\ Len(b) = 1
  <2>1. r = first
    BY <1>1, <1>8 DEF Joined
  <2>2. Recent(r.dec.ref, strm.key, strm.n)
    <3>1. Recent(r.dec.ref, key, n)
      BY <1>1, <1>3, <1>4, <1>6, <1>8, <2>1, RecentLonger
    <3> QED BY <3>1, <1>1 DEF n
  <2>3. strm.whole \/ b[1].kind = "key" => r.dec.ref = strm.slots
    BY <1>6, <1>8, <2>1 DEF BufferDecoded, Ready, AfterBuffer
  <2>4. /\ r.decoded \in Seq(DecodedType)
        /\ \A i \in DOMAIN r.decoded :
               /\ r.decoded[i].frame = b[1] /\ b[1].size = d.size /\ d.size # 0
               /\ \A j \in r.decoded[i].from : b[1].key <= j /\ j < b[1].id
    BY <1>1, <1>8, <2>1, OneDecoded DEF id, key
  <2>5. r.dec \in DecoderType /\ r.dec.size = d.size /\ r.status = "ok"
    BY <1>6, <1>8, <2>1
  <2> QED BY <2>2, <2>3, <2>4, <2>5 DEF Answered
<1>9. CASE first.status = "ok" /\ Len(b) = 2
  <2>1. Decoded(first.dec, b[2], second) /\ ~(r.status = "no surface" /\ r.decoded # <<>>)
    BY <1>9 DEF BufferDecoded
  <2>2. r = [second EXCEPT !.decoded = first.decoded \o @]
    BY <1>1, <1>9 DEF Joined
  <2>3. /\ r.dec = second.dec /\ r.status = second.status /\ r.decoded = first.decoded \o second.decoded
    <3>1. DOMAIN second = {"dec", "decoded", "status"}
      BY <2>1 DEF Decoded
    <3> QED BY <2>2, <3>1
  <2>4. /\ first.decoded \in Seq(DecodedType) /\ Len(first.decoded) = 1 /\ DOMAIN first.decoded = {1}
        /\ b[1].size = d.size /\ d.size # 0
        /\ first.decoded[1].frame = b[1]
        /\ \A j \in first.decoded[1].from : b[1].key <= j /\ j < b[1].id
    <3>1. /\ first.decoded \in Seq(DecodedType) /\ Len(first.decoded) = 1
          /\ \A i \in DOMAIN first.decoded :
                /\ first.decoded[i].frame = b[1] /\ b[1].size = d.size /\ d.size # 0
                /\ \A j \in first.decoded[i].from : b[1].key <= j /\ j < b[1].id
      BY <1>1, <1>2, <1>9, OneDecoded DEF id, key
    <3>2. DOMAIN first.decoded = {1}
      BY <3>1
    <3> QED BY <3>1, <3>2
  <2>5. FrameOK(b[2]) /\ b[2].kind = "inter" /\ b[2].size = first.dec.size /\ first.dec \in DecoderType
        /\ first.dec.gotKey /\ first.dec.size = d.size
    BY <1>1, <1>2, <1>6, <1>9, <2>4 DEF Decoded
  <2>6. second.status \in {"ok", "fail"}
    <3>1. second.status # "format"
      BY <2>1, <2>5 DEF Decoded, Dec9!SizeOf
    <3>2. second.status # "invalid"
      BY <2>1, <2>5 DEF Decoded
    <3>3. second.decoded = <<>> => r.decoded # <<>>
      BY <2>3, <2>4
    <3>4. second.status # "no surface"
      BY <2>1, <2>3, <3>3 DEF Decoded
    <3> QED BY <2>1, <3>1, <3>2, <3>4 DEF Decoded
  <2> DEFINE id2 == b[2].id
  <2>7. id2 \in Nat /\ id <= id2 - 1 /\ id2 - 1 \in Nat /\ id2 <= n /\ b[2].key = key
    <3>1. id2 \in Nat /\ id < id2 /\ b[2].key = key
      BY <1>2, <1>9 DEF id
    <3>2. id2 <= n
      BY <1>1, <1>9 DEF n
    <3> HIDE DEF id2
    <3> QED BY <3>1, <3>2, <1>3
  <2>8. Recent(first.dec.ref, b[2].key, b[2].id - 1)
    <3>1. Recent(first.dec.ref, key, id2 - 1)
      <4> HIDE DEF id2
      <4> QED BY <1>3, <1>6, <1>9, <2>7, RecentLonger
    <3> QED BY <3>1, <2>7
  <2>9. Recent(r.dec.ref, key, n)
    <3>1. CASE second.status = "ok"
      <4>1. r.dec.ref = Dec9!After(first.dec.ref, b[2])
        BY <2>1, <2>3, <3>1 DEF Decoded
      <4>2. Recent(r.dec.ref, key, id2) /\ r.dec.ref \in [Slots -> Nat]
        BY <4>1, <2>5, <2>7, <2>8, <1>6, <1>9, RecentAfter
      <4> HIDE DEF id2
      <4> QED BY <4>2, <1>1, <1>3, <2>7, RecentLonger
    <3>2. CASE second.status = "fail"
      <4>1. r.dec.ref = first.dec.ref
        BY <2>1, <2>3, <2>5, <3>2 DEF Decoded
      <4> QED BY <4>1, <1>1, <1>3, <1>4, <1>6, <1>9, RecentLonger
    <3> QED BY <2>6, <3>1, <3>2
  <2>10. r.status = "ok" /\ (strm.whole \/ b[1].kind = "key") => r.dec.ref = strm.slots
    <3>1. second.status = "ok" => second.dec.ref = Dec9!After(Dec9!After(d.ref, b[1]), b[2])
      BY <2>1, <1>6, <1>9 DEF Decoded
    <3>2. strm.whole \/ b[1].kind = "key" => Dec9!After(Dec9!After(d.ref, b[1]), b[2]) = strm.slots
      <4>1. AfterBuffer(d.ref, b) = Dec9!After(Dec9!After(d.ref, b[1]), b[2])
        BY <1>9 DEF AfterBuffer
      <4> QED BY <4>1 DEF BufferDecoded, Ready
    <3> QED BY <2>3, <3>1, <3>2
  <2>11. /\ second.decoded \in Seq(DecodedType)
         /\ \A i \in DOMAIN second.decoded :
               /\ second.decoded[i].frame = b[2]
               /\ \A j \in second.decoded[i].from : b[2].key <= j /\ j < b[2].id
    <3>1. CASE second.status = "ok"
      <4>1. /\ first.dec \in DecoderType /\ FrameOK(b[2]) /\ Decoded(first.dec, b[2], second) /\ second.status = "ok"
            /\ Recent(first.dec.ref, b[2].key, b[2].id - 1)
        BY <3>1, <2>1, <2>5, <2>8
      <4>2. /\ second.decoded \in Seq(DecodedType)
            /\ \A i \in DOMAIN second.decoded :
                  /\ second.decoded[i].frame = b[2] /\ b[2].size = first.dec.size /\ first.dec.size # 0
                  /\ \A j \in second.decoded[i].from : b[2].key <= j /\ j < b[2].id
        BY <4>1, OneDecoded, Zenon
      <4> QED BY <4>2, Zenon
    <3>2. CASE second.status = "fail"
      <4>1. second.decoded = <<>>
        BY <2>1, <3>2 DEF Decoded
      <4>2. <<>> \in Seq(DecodedType) /\ DOMAIN <<>> = {}
        OBVIOUS
      <4>3. second.decoded \in Seq(DecodedType) /\ DOMAIN second.decoded = {}
        BY <4>1, <4>2, Zenon
      <4> QED BY <4>3, Zenon
    <3> QED BY <2>6, <3>1, <3>2
  <2>12. /\ r.decoded \in Seq(DecodedType)
         /\ \A i \in DOMAIN r.decoded : r.decoded[i] = first.decoded[1]
                                        \/ \E k \in DOMAIN second.decoded : r.decoded[i] = second.decoded[k]
    <3>1. /\ r.decoded \in Seq(DecodedType) /\ Len(second.decoded) \in Nat
          /\ DOMAIN r.decoded = 1..(1 + Len(second.decoded)) /\ DOMAIN second.decoded = 1..Len(second.decoded)
          /\ r.decoded[1] = first.decoded[1]
          /\ \A i \in 2..(1 + Len(second.decoded)) : r.decoded[i] = second.decoded[i - 1]
      <4>1. first.decoded \in Seq(DecodedType) /\ second.decoded \in Seq(DecodedType) /\ Len(first.decoded) = 1
        BY <2>4, <2>11
      <4> DEFINE t == second.decoded
                 st == first.decoded \o t
      <4>2. /\ st \in Seq(DecodedType) /\ Len(t) \in Nat
            /\ DOMAIN st = 1..(1 + Len(t)) /\ DOMAIN t = 1..Len(t)
            /\ st[1] = first.decoded[1]
            /\ \A i \in 2..(1 + Len(t)) : st[i] = t[i - 1]
        <5>1. t \in Seq(DecodedType) /\ first.decoded \in Seq(DecodedType) /\ Len(first.decoded) = 1
          BY <4>1
        <5> HIDE DEF t
        <5> QED BY <5>1, OneBefore
      <4> QED BY <4>2, <2>3, Zenon
    <3>2. ASSUME NEW i \in DOMAIN r.decoded
          PROVE  r.decoded[i] = first.decoded[1] \/ \E k \in DOMAIN second.decoded : r.decoded[i] = second.decoded[k]
      <4>1. CASE i = 1
        BY <4>1, <3>1
      <4>2. CASE i # 1
        <5>1. i \in 2..(1 + Len(second.decoded)) /\ i - 1 \in 1..Len(second.decoded)
          BY <4>2, <3>1
        <5> QED BY <5>1, <3>1
      <4> QED BY <4>1, <4>2
    <3> QED BY <3>1, <3>2
  <2>13. \A i \in DOMAIN r.decoded :
             /\ r.decoded[i].frame.size = d.size /\ d.size # 0
             /\ \A j \in r.decoded[i].from : r.decoded[i].frame.key <= j /\ j < r.decoded[i].frame.id
    BY <2>4, <2>5, <2>11, <2>12
  <2>14. second.dec \in DecoderType /\ second.dec.size = d.size
    BY <2>1, <2>5, <2>6 DEF Decoded
  <2> QED BY <1>1, <2>3, <2>6, <2>9, <2>10, <2>12, <2>13, <2>14 DEF Answered, n
<1> QED BY <1>1, <1>5, <1>8, <1>9

-----------------------------------------------------------------------------
(* VP9: the decoder and its client *)

\* The slots are filled by frames that had a size.
StreamOK(strm) == strm.key <= strm.n /\ \A i \in Slots : strm.slots[i] # 0 => strm.size # 0

\* The client knows the size that the decoder goes by.
SizeIsTold == dec.size # 0 => client.told = dec.size

\* Between two buffers, and while one waits to be sent again.
IdleIsTrue ==
    stream.pending = <<>> => /\ Recent(dec.ref, stream.key, stream.n)
                             /\ stream.whole => dec.ref = stream.slots

\* A buffer that waits finds what it found the first time.
WaitingIsReady == stream.pending # <<>> => Ready(dec, stream.pending, stream)

\* The inductive invariant.
InvOfDec9 ==
    /\ TypeOKOfDec9 /\ StreamOK(stream) /\ SizeIsTold /\ IdleIsTrue /\ WaitingIsReady
    /\ Dec9!NothingAcrossKey /\ Dec9!SizeWasTold

\* What a call of decode() that answers r makes of the variables.
Made(b, strm, bad, r) ==
    /\ r.status = "no surface" /\ r.decoded # <<>> => "no surface in a super frame" \in HardStreams
    /\ dec' = r.dec
    /\ stream' = [strm EXCEPT !.pending = IF r.status \in {"format", "no surface"} THEN b ELSE <<>>,
                              !.whole = IF r.status \in {"format", "no surface"} THEN @
                                        ELSE IF r.status # "ok" THEN FALSE ELSE @ \/ b[1].kind = "key"]
    /\ client' = [client EXCEPT !.told = IF r.status = "format" THEN r.dec.size ELSE @]
    /\ hist' = [last |-> r.decoded, special |-> hist.special + (IF bad # 0 THEN 1 ELSE 0)]

\* A call of decode() with a buffer that is ready makes it true again.
LEMMA CallVp9 ==
  ASSUME TypeOKOfDec9, SizeIsTold, HardStreams = {}, NEW b, NEW strm \in StreamType, StreamOK(strm), Ready(dec, b, strm),
         Dec9!Call(b, strm)
  PROVE  InvOfDec9'
<1>0. PICK bad \in 0..Len(b) : \E r : r = Dec9!DecodeBuffer(b, client.held, bad) /\ Made(b, strm, bad, r)
  BY DEF Dec9!Call, Made
<1>1. PICK r : r = Dec9!DecodeBuffer(b, client.held, bad) /\ Made(b, strm, bad, r)
  BY <1>0
<1>2. b \in Seq(FrameType) /\ Len(b) \in {1, 2} /\ FrameOK(b[1]) /\ (Len(b) = 2 => FrameOK(b[2])) /\ b # <<>>
  BY DEF Ready, BufferOK
<1>3. \E first, second : BufferDecoded(dec, b, strm, first, second, r)
  <2> DEFINE first  == Dec9!DecodeFrame(dec, b[1], client.held, bad # 1)
             second == Dec9!DecodeFrame(first.dec, b[2], client.held, bad # 2)
  <2>1. r = Joined(b, first, second)
    BY <1>1 DEF Dec9!DecodeBuffer, Joined
  <2>2. Decoded(dec, b[1], first)
    BY <1>2, DecodeFrameVp9 DEF TypeOKOfDec9
  <2> HIDE DEF first
  <2>3. first.status = "ok" /\ Len(b) = 2 => Decoded(first.dec, b[2], second)
    <3>1. first.dec \in DecoderType
      BY <2>2 DEF Decoded
    <3> QED BY <3>1, <1>2, DecodeFrameVp9
  <2> HIDE DEF second
  <2>4. dec \in DecoderType /\ strm.key \in Nat /\ strm.n \in Nat
    BY DEF TypeOKOfDec9, StreamType
  <2> QED BY <1>1, <2>1, <2>2, <2>3, <2>4 DEF BufferDecoded, Made
<1>4. Answered(dec, b, strm, r)
  BY <1>3, DecodeBufferVp9
<1> DEFINE again   == r.status \in {"format", "no surface"}
           pending == IF again THEN b ELSE <<>>
           whole   == IF again THEN strm.whole ELSE IF r.status # "ok" THEN FALSE ELSE strm.whole \/ b[1].kind = "key"
           told    == IF r.status = "format" THEN r.dec.size ELSE client.told
           spent   == hist.special + (IF bad # 0 THEN 1 ELSE 0)
<1>13. /\ dec' = r.dec /\ stream' = [strm EXCEPT !.pending = pending, !.whole = whole]
       /\ client' = [client EXCEPT !.told = told] /\ hist' = [last |-> r.decoded, special |-> spent]
  BY <1>1 DEF Made
<1>14. pending \in Seq(FrameType) /\ (again => pending = b) /\ (~again => pending = <<>>)
  <2>1. <<>> \in Seq(FrameType)
    OBVIOUS
  <2> QED BY <2>1, <1>2, Zenon
<1>15. whole \in BOOLEAN /\ (again => whole = strm.whole)
       /\ (~again /\ whole => r.status = "ok" /\ (strm.whole \/ b[1].kind = "key"))
  BY DEF StreamType
<1>16. told \in Int /\ spent \in Nat
  <2>1. r.dec.size \in Nat
    BY <1>4 DEF Answered, DecoderType
  <2>2. client.told \in Int /\ hist.special \in Nat
    BY DEF TypeOKOfDec9
  <2> QED BY <2>1, <2>2
<1> HIDE DEF pending, whole, told, spent
<1>5. /\ stream' \in StreamType /\ stream'.key = strm.key /\ stream'.n = strm.n /\ stream'.slots = strm.slots
      /\ stream'.size = strm.size /\ stream'.pending = pending /\ stream'.whole = whole
  BY <1>13, <1>14, <1>15 DEF StreamType
<1>17. /\ client' \in [held : SUBSET Nat, told : Int] /\ client'.told = told
       /\ hist' \in [last : Seq(DecodedType), special : Nat] /\ hist'.last = r.decoded
  <2>1. r.decoded \in Seq(DecodedType)
    BY <1>4 DEF Answered
  <2> QED BY <2>1, <1>13, <1>16 DEF TypeOKOfDec9
<1>6. TypeOKOfDec9'
  BY <1>4, <1>5, <1>13, <1>17 DEF TypeOKOfDec9, Answered
<1>7. StreamOK(stream)'
  BY <1>5 DEF StreamOK
<1>8. SizeIsTold'
  BY <1>4, <1>13, <1>17 DEF SizeIsTold, Answered, told
<1>9. IdleIsTrue'
  <2>1. ~again => /\ Recent(dec'.ref, stream'.key, stream'.n)
                  /\ stream'.whole => dec'.ref = stream'.slots
    BY <1>4, <1>5, <1>13, <1>15 DEF Answered
  <2>2. stream'.pending = <<>> => ~again
    BY <1>2, <1>5, <1>14
  <2> QED BY <2>1, <2>2 DEF IdleIsTrue
<1>10. WaitingIsReady'
  <2>1. again => dec'.ref = dec.ref
    BY <1>13, <1>4 DEF Answered
  <2>2. again => Ready(dec', b, stream')
    BY <2>1, <1>5, <1>15 DEF Ready
  <2> QED BY <2>2, <1>5, <1>14 DEF WaitingIsReady
<1>11. Dec9!NothingAcrossKey'
  BY <1>17, <1>4 DEF Dec9!NothingAcrossKey, Answered
<1>12. Dec9!SizeWasTold'
  <2>1. \A i \in DOMAIN r.decoded : r.decoded[i].frame.size = client'.told
    <3>1. \A i \in DOMAIN r.decoded : r.decoded[i].frame.size = dec.size /\ dec.size # 0
      BY <1>4 DEF Answered
    <3>2. r.status = "format" => DOMAIN r.decoded = {}
      BY <1>4 DEF Answered
    <3>3. r.status # "format" => client'.told = client.told
      BY <1>17 DEF told
    <3> QED BY <3>1, <3>2, <3>3 DEF SizeIsTold
  <2> QED BY <2>1, <1>17 DEF Dec9!SizeWasTold
<1> QED BY <1>6, <1>7, <1>8, <1>9, <1>10, <1>11, <1>12 DEF InvOfDec9

\* The frames that a stream may go on with.
Comes(f, id, key) ==
    /\ FrameOK(f) /\ f.id = id /\ f.key = IF f.kind = "key" THEN id ELSE key
    /\ f.kind # "existing" => f.size # 0
    /\ f.kind = "intra" => ~f.show

\* Those of the model are such frames.
LEMMA CandidatesOK ==
  ASSUME SizesOfVp9, NEW s \in [Slots -> Nat], NEW id \in Nat \ {0}, NEW key \in Nat, key <= id,
         NEW last \in Nat, (\A i \in Slots : s[i] # 0) => last # 0,
         NEW f \in Dec9!Candidates(s, id, key, last)
  PROVE  Comes(f, id, key)
<1> DEFINE rec(kind, show, refresh, refs, slot, size) ==
              [id |-> id, kind |-> kind, show |-> show, refresh |-> refresh, refs |-> refs, slot |-> slot,
               size |-> size, key |-> IF kind = "key" THEN id ELSE key]
           some == {{i} : i \in Slots} \union {Slots}
<1>1. \/ \E show \in BOOLEAN, size \in Sizes : f = rec("key", show, Slots, {}, 0, size)
      \/ /\ 0 \notin Dec9!Range(s)
         /\ \/ \E show \in BOOLEAN, refresh \in some \union {{}} : f = rec("inter", show, refresh, Slots, 0, last)
            \/ \E size \in Sizes : f = rec("inter", TRUE, {1}, Slots, 0, size)
            \/ \E refresh \in some, size \in Sizes : f = rec("intra", FALSE, refresh, {}, 0, size)
            \/ \E slot \in Slots : f = rec("existing", TRUE, {}, {}, slot, 0)
  BY DEF Dec9!Candidates
<1>2. 0 \notin Dec9!Range(s) => last # 0
  BY DEF Dec9!Range, SizesOfVp9
<1>3. \A x \in some \union {{}} : x \in SUBSET (Slots \union {1})
  OBVIOUS
<1>4. \A size \in Sizes : size \in Nat /\ size # 0
  BY DEF SizesOfVp9
<1>5. \A show \in BOOLEAN, size \in Sizes : f = rec("key", show, Slots, {}, 0, size) =>
         Comes(f, id, key)
  BY <1>4 DEF Comes, FrameOK, FrameType, Kinds
<1>6. ASSUME NEW show \in BOOLEAN, NEW refresh \in some \union {{}}, NEW size \in Nat \ {0}, NEW refs \in {{}, Slots},
             NEW kind \in {"inter", "intra"}, kind = "intra" => refs = {} /\ ~show,
             f = rec(kind, show, refresh, refs, 0, size)
      PROVE  Comes(f, id, key)
  BY <1>3, <1>6 DEF Comes, FrameOK, FrameType, Kinds
<1>7. ASSUME NEW size \in Sizes, f = rec("inter", TRUE, {1}, Slots, 0, size)
      PROVE  Comes(f, id, key)
  BY <1>4, <1>7 DEF Comes, FrameOK, FrameType, Kinds
<1>8. ASSUME NEW slot \in Slots, f = rec("existing", TRUE, {}, {}, slot, 0)
      PROVE  Comes(f, id, key)
  BY <1>8 DEF Comes, FrameOK, FrameType, Kinds
<1>9. ASSUME NEW show \in BOOLEAN, NEW refresh \in some \union {{}}, last # 0,
             f = rec("inter", show, refresh, Slots, 0, last)
      PROVE  Comes(f, id, key)
  <2>1. last \in Nat \ {0}
    BY <1>9
  <2> QED BY <2>1, <1>6, <1>9
<1>10. ASSUME NEW refresh \in some, NEW size \in Sizes, f = rec("intra", FALSE, refresh, {}, 0, size)
       PROVE  Comes(f, id, key)
  <2>1. size \in Nat \ {0} /\ refresh \in some \union {{}}
    BY <1>4
  <2> HIDE DEF some
  <2> QED BY <2>1, <1>6, <1>10
<1> HIDE DEF rec, some
<1> QED BY <1>1, <1>2, <1>5, <1>7, <1>8, <1>9, <1>10

\* The stream with a frame more.
LEMMA SentOK ==
  ASSUME NEW strm \in StreamType, StreamOK(strm), NEW f, FrameOK(f), f.id = strm.n + 1,
         f.key = IF f.kind = "key" THEN f.id ELSE strm.key, f.kind # "existing" => f.size # 0
  PROVE  /\ Dec9!Sent(f, strm) \in StreamType /\ StreamOK(Dec9!Sent(f, strm))
         /\ Dec9!Sent(f, strm).n = f.id /\ Dec9!Sent(f, strm).key = f.key
         /\ Dec9!Sent(f, strm).slots = Dec9!After(strm.slots, f)
         /\ Dec9!Sent(f, strm).whole = strm.whole
         /\ Dec9!Sent(f, strm).size = IF f.kind = "existing" THEN strm.size ELSE f.size
<1> DEFINE t     == Dec9!Sent(f, strm)
           size  == IF f.kind = "existing" THEN strm.size ELSE f.size
           slots == Dec9!After(strm.slots, f)
<1>1. slots \in [Slots -> Nat]
  BY DEF Dec9!After, FrameOK, FrameType, StreamType
<1>2. size \in Nat
  BY DEF FrameOK, FrameType, StreamType
<1>3. t = [strm EXCEPT !.n = f.id, !.key = f.key, !.slots = slots, !.size = size]
  BY DEF Dec9!Sent
<1>4. \A i \in Slots : slots[i] # 0 => size # 0
  <2>1. CASE f.kind = "existing"
    BY <2>1 DEF Dec9!After, FrameOK, StreamOK
  <2>2. CASE f.kind # "existing"
    BY <2>2
  <2> QED BY <2>1, <2>2
<1> HIDE DEF t, size, slots
<1>5. t \in StreamType /\ t.n = f.id /\ t.key = f.key /\ t.slots = slots /\ t.whole = strm.whole /\ t.size = size
  BY <1>1, <1>2, <1>3 DEF StreamType, FrameOK, FrameType
<1>6. StreamOK(t)
  BY <1>4, <1>5 DEF StreamOK, FrameOK
<1> QED BY <1>5, <1>6 DEF t, size, slots

\* Between two buffers the stream may go on.
LEMMA BeforeSend ==
  ASSUME SizesOfVp9, InvOfDec9, stream.pending = <<>>
  PROVE  /\ stream \in StreamType /\ stream.slots \in [Slots -> Nat] /\ stream.n \in Nat /\ stream.key \in Nat
         /\ stream.size \in Nat /\ stream.key <= stream.n /\ StreamOK(stream)
         /\ (\A i \in Slots : stream.slots[i] # 0) => stream.size # 0
         /\ stream.n + 1 \in Nat \ {0} /\ stream.key <= stream.n + 1 /\ (stream.n + 1) - 1 = stream.n
         /\ Recent(dec.ref, stream.key, stream.n) /\ (stream.whole => dec.ref = stream.slots)
         /\ dec.ref \in [Slots -> Nat] /\ TypeOKOfDec9 /\ SizeIsTold
<1>1. /\ stream \in StreamType /\ StreamOK(stream) /\ Recent(dec.ref, stream.key, stream.n)
      /\ (stream.whole => dec.ref = stream.slots) /\ dec.ref \in [Slots -> Nat] /\ TypeOKOfDec9 /\ SizeIsTold
  BY DEF InvOfDec9, TypeOKOfDec9, IdleIsTrue, DecoderType
<1>2. stream.slots \in [Slots -> Nat] /\ stream.n \in Nat /\ stream.key \in Nat /\ stream.size \in Nat
  BY <1>1 DEF StreamType
<1>3. stream.key <= stream.n /\ ((\A i \in Slots : stream.slots[i] # 0) => stream.size # 0)
  BY <1>1 DEF StreamOK, SizesOfVp9
<1> DEFINE n == stream.n
           key == stream.key
<1>4. n \in Nat /\ key \in Nat /\ key <= n
  BY <1>2, <1>3
<1> HIDE DEF n, key
<1>5. n + 1 \in Nat \ {0} /\ key <= n + 1 /\ (n + 1) - 1 = n
  BY <1>4
<1> QED BY <1>1, <1>2, <1>3, <1>5 DEF n, key

\* A buffer with a frame is ready.
LEMMA SendFrameVp9 ==
  ASSUME SizesOfVp9, HardStreams = {}, InvOfDec9, Dec9!SendFrame
  PROVE  InvOfDec9'
<1>1. PICK f \in Dec9!Candidates(stream.slots, stream.n + 1, stream.key, stream.size) :
          Dec9!Call(<<f>>, Dec9!Sent(f, stream))
  BY DEF Dec9!SendFrame, Dec9!Number
<1>2. stream.pending = <<>>
  BY DEF Dec9!SendFrame
<1>3. /\ stream \in StreamType /\ StreamOK(stream) /\ stream.n \in Nat
      /\ Recent(dec.ref, stream.key, stream.n) /\ (stream.whole => dec.ref = stream.slots)
      /\ (stream.n + 1) - 1 = stream.n /\ TypeOKOfDec9 /\ SizeIsTold
  BY <1>2, BeforeSend
<1>4. FrameOK(f) /\ f.id = stream.n + 1 /\ f.key = (IF f.kind = "key" THEN f.id ELSE stream.key)
      /\ (f.kind # "existing" => f.size # 0)
  <2>1. Comes(f, stream.n + 1, stream.key)
    BY <1>1, <1>2, BeforeSend, CandidatesOK
  <2> QED BY <2>1 DEF Comes
<1> DEFINE t == Dec9!Sent(f, stream)
           b == <<f>>
<1>5. /\ t \in StreamType /\ StreamOK(t) /\ t.n = f.id /\ t.key = f.key
      /\ t.slots = Dec9!After(stream.slots, f) /\ t.whole = stream.whole
  BY <1>3, <1>4, SentOK
<1>6. BufferOK(b) /\ b[1] = f /\ Len(b) = 1
  BY <1>4 DEF BufferOK, FrameOK
<1>7. f.kind = "key" \/ Recent(dec.ref, f.key, f.id - 1)
  BY <1>3, <1>4
<1>8. stream.whole \/ f.kind = "key" => Dec9!After(dec.ref, f) = Dec9!After(stream.slots, f)
  <2>1. CASE f.kind = "key"
    BY <2>1 DEF Dec9!After
  <2>2. CASE stream.whole
    BY <2>2, <1>3
  <2> QED BY <2>1, <2>2
<1> HIDE DEF t, b
<1>9. Ready(dec, b, t)
  <2>1. AfterBuffer(dec.ref, b) = Dec9!After(dec.ref, f)
    BY <1>6 DEF AfterBuffer
  <2>2. f.id <= t.n
    BY <1>4, <1>5 DEF FrameOK, FrameType
  <2> QED BY <2>1, <2>2, <1>5, <1>6, <1>7, <1>8 DEF Ready
<1> QED BY <1>1, <1>3, <1>5, <1>9, CallVp9 DEF t, b

\* A super frame, whose second frame goes on from the first, is ready.
LEMMA SendSuperFrameVp9 ==
  ASSUME SizesOfVp9, HardStreams = {}, InvOfDec9, Dec9!SendSuperFrame
  PROVE  InvOfDec9'
<1>1. PICK f \in Dec9!Candidates(stream.slots, stream.n + 1, stream.key, stream.size) :
          /\ f.kind \in {"key", "inter"}
          /\ \E g \in Dec9!Candidates(Dec9!After(stream.slots, f), stream.n + 1 + 1, f.key, f.size) :
                /\ g.show /\ g.kind # "key" /\ g.kind # "existing"
                /\ g.kind = "inter" => g.size = f.size
                /\ Dec9!Call(<<f, g>>, Dec9!Sent(g, Dec9!Sent(f, stream)))
  BY DEF Dec9!SendSuperFrame, Dec9!Number
<1>2. stream.pending = <<>>
  BY DEF Dec9!SendSuperFrame
<1>3. /\ stream \in StreamType /\ StreamOK(stream) /\ stream.n \in Nat /\ stream.slots \in [Slots -> Nat]
      /\ Recent(dec.ref, stream.key, stream.n) /\ (stream.whole => dec.ref = stream.slots)
      /\ (stream.n + 1) - 1 = stream.n /\ TypeOKOfDec9 /\ SizeIsTold
  BY <1>2, BeforeSend
<1>4. Comes(f, stream.n + 1, stream.key)
  BY <1>1, <1>2, BeforeSend, CandidatesOK
<1>5. FrameOK(f) /\ f.id = stream.n + 1 /\ f.key = (IF f.kind = "key" THEN f.id ELSE stream.key) /\ f.size # 0
      /\ f.key \in Nat /\ f.key <= f.id /\ f.id \in Nat \ {0} /\ f.size \in Nat
  BY <1>1, <1>4 DEF Comes, FrameOK, FrameType
<1> DEFINE t == Dec9!Sent(f, stream)
<1>6. /\ t \in StreamType /\ StreamOK(t) /\ t.n = f.id /\ t.key = f.key
      /\ t.slots = Dec9!After(stream.slots, f) /\ t.whole = stream.whole
  BY <1>3, <1>5, SentOK
<1>7. PICK g \in Dec9!Candidates(t.slots, f.id + 1, f.key, f.size) :
          /\ g.show /\ g.kind # "key" /\ g.kind # "existing"
          /\ g.kind = "inter" => g.size = f.size
          /\ Dec9!Call(<<f, g>>, Dec9!Sent(g, t))
  BY <1>1, <1>5, <1>6
<1> HIDE DEF t
<1>8. Comes(g, f.id + 1, f.key)
  <2>1. t.slots \in [Slots -> Nat]
    BY <1>6 DEF StreamType
  <2> DEFINE id == f.id
             key == f.key
  <2>2. id \in Nat /\ key \in Nat /\ key <= id
    BY <1>5
  <2> HIDE DEF id, key
  <2>3. id + 1 \in Nat \ {0} /\ key <= id + 1
    BY <2>2
  <2> QED BY <1>5, <1>7, <2>1, <2>3, CandidatesOK DEF id, key
<1>9. FrameOK(g) /\ g.id = f.id + 1 /\ g.key = f.key /\ g.kind = "inter" /\ g.size = f.size /\ g.id \in Nat
  <2>1. g.kind \in Kinds /\ g.kind # "key" /\ g.kind # "existing" /\ g.kind # "intra"
    BY <1>7, <1>8 DEF Comes, FrameOK, FrameType
  <2>2. g.kind = "inter"
    BY <2>1 DEF Kinds
  <2> QED BY <2>2, <1>7, <1>8, <1>5 DEF Comes
<1> DEFINE u == Dec9!Sent(g, t)
           b == <<f, g>>
<1>10. /\ u \in StreamType /\ StreamOK(u) /\ u.n = g.id /\ u.key = f.key
       /\ u.slots = Dec9!After(Dec9!After(stream.slots, f), g) /\ u.whole = stream.whole
  <2>1. g.id = t.n + 1 /\ g.key = (IF g.kind = "key" THEN g.id ELSE t.key) /\ (g.kind # "existing" => g.size # 0)
    BY <1>5, <1>6, <1>9
  <2> QED BY <2>1, <1>6, <1>9, SentOK
<1> HIDE DEF u
<1>11. BufferOK(b) /\ b[1] = f /\ b[2] = g /\ Len(b) = 2
  <2>1. f \in FrameType /\ g \in FrameType
    BY <1>5, <1>9 DEF FrameOK
  <2>2. b \in Seq(FrameType) /\ b[1] = f /\ b[2] = g /\ Len(b) = 2
    BY <2>1
  <2>3. f.id < g.id
    BY <1>5, <1>9
  <2> QED BY <1>1, <1>5, <1>9, <2>2, <2>3 DEF BufferOK
<1>12. f.kind = "key" \/ Recent(dec.ref, f.key, f.id - 1)
  BY <1>3, <1>5
<1>13. stream.whole \/ f.kind = "key" => Dec9!After(dec.ref, f) = Dec9!After(stream.slots, f)
  <2>1. CASE f.kind = "key"
    BY <2>1 DEF Dec9!After
  <2>2. CASE stream.whole
    BY <2>2, <1>3
  <2> QED BY <2>1, <2>2
<1> HIDE DEF b
<1>14. Ready(dec, b, u)
  <2>1. AfterBuffer(dec.ref, b) = Dec9!After(Dec9!After(dec.ref, f), g)
    BY <1>11 DEF AfterBuffer
  <2>2. b[Len(b)].id <= u.n
    BY <1>9, <1>10, <1>11
  <2> QED BY <2>1, <2>2, <1>10, <1>11, <1>12, <1>13 DEF Ready
<1> QED BY <1>3, <1>7, <1>10, <1>14, CallVp9 DEF u, b

\* A buffer sent again, output, release, flush and steps of nothing.
LEMMA OtherStepsVp9 ==
  ASSUME HardStreams = {}, InvOfDec9,
         Dec9!SendAgain \/ Dec9!GetOutput \/ Dec9!Release \/ Dec9!Flush \/ UNCHANGED Dec9!vars
  PROVE  InvOfDec9'
<1>1. TypeOKOfDec9 /\ StreamOK(stream) /\ SizeIsTold /\ IdleIsTrue /\ WaitingIsReady
      /\ Dec9!NothingAcrossKey /\ Dec9!SizeWasTold
  BY DEF InvOfDec9
<1>2. dec \in DecoderType /\ stream \in StreamType /\ client \in [held : SUBSET Nat, told : Int]
      /\ hist \in [last : Seq(DecodedType), special : Nat]
  BY <1>1 DEF TypeOKOfDec9
\* A step that decodes nothing and keeps the references and the size.
<1>3. ASSUME dec' \in DecoderType, dec'.ref = dec.ref, dec'.size = dec.size, stream' = stream,
             client' \in [held : SUBSET Nat, told : Int], client'.told = client.told, hist' = hist
      PROVE  InvOfDec9'
  <2>1. TypeOKOfDec9' /\ StreamOK(stream)' /\ SizeIsTold' /\ IdleIsTrue'
    BY <1>1, <1>3 DEF TypeOKOfDec9, SizeIsTold, IdleIsTrue
  <2>2. WaitingIsReady'
    BY <1>1, <1>3 DEF WaitingIsReady, Ready
  <2>3. Dec9!NothingAcrossKey' /\ Dec9!SizeWasTold'
    BY <1>1, <1>3 DEF Dec9!NothingAcrossKey, Dec9!SizeWasTold
  <2> QED BY <2>1, <2>2, <2>3 DEF InvOfDec9
<1>4. CASE Dec9!SendAgain
  <2>1. stream.pending # <<>> /\ Dec9!Call(stream.pending, stream)
    BY <1>4 DEF Dec9!SendAgain
  <2>2. Ready(dec, stream.pending, stream)
    BY <1>1, <2>1 DEF WaitingIsReady
  <2> QED BY <1>1, <1>2, <2>1, <2>2, CallVp9
<1>5. CASE Dec9!GetOutput
  <2>1. /\ dec.out # <<>> /\ dec' = [dec EXCEPT !.out = Tail(@)]
        /\ client' = [client EXCEPT !.held = @ \union {Head(dec.out)}] /\ stream' = stream /\ hist' = hist
    BY <1>5 DEF Dec9!GetOutput
  <2>2. dec.out \in Seq(Nat) /\ Tail(dec.out) \in Seq(Nat) /\ Head(dec.out) \in Nat
    BY <1>2, <2>1 DEF DecoderType
  <2>3. dec' \in DecoderType /\ dec'.ref = dec.ref /\ dec'.size = dec.size
    BY <1>2, <2>1, <2>2 DEF DecoderType
  <2>4. client' \in [held : SUBSET Nat, told : Int] /\ client'.told = client.told
    BY <1>2, <2>1, <2>2
  <2> QED BY <1>3, <2>1, <2>3, <2>4
<1>6. CASE Dec9!Release
  <2>1. PICK id \in client.held : client' = [client EXCEPT !.held = @ \ {id}]
    BY <1>6 DEF Dec9!Release
  <2>2. dec' = dec /\ stream' = stream /\ hist' = hist
    BY <1>6 DEF Dec9!Release
  <2>3. client' \in [held : SUBSET Nat, told : Int] /\ client'.told = client.told
    BY <1>2, <2>1
  <2> QED BY <1>2, <1>3, <2>2, <2>3
<1>7. CASE Dec9!Flush
  <2>1. PICK out \in {dec.out, <<>>} : dec' = [dec EXCEPT !.ref = Dec9!Empty, !.gotKey = FALSE, !.out = out]
    BY <1>7 DEF Dec9!Flush
  <2>2. /\ stream' = [stream EXCEPT !.pending = <<>>, !.whole = FALSE]
        /\ hist' = [hist EXCEPT !.special = @ + 1] /\ client' = client
    BY <1>7 DEF Dec9!Flush
  <2>3. out \in Seq(Nat) /\ Dec9!Empty \in [Slots -> Nat] /\ (\A i \in Slots : Dec9!Empty[i] = 0)
    <3>1. <<>> \in Seq(Nat) /\ dec.out \in Seq(Nat)
      BY <1>2 DEF DecoderType
    <3> QED BY <3>1, <2>1 DEF Dec9!Empty
  <2> HIDE DEF Dec9!Empty
  <2>4. dec' \in DecoderType /\ dec'.ref = Dec9!Empty /\ dec'.size = dec.size
    BY <1>2, <2>1, <2>3 DEF DecoderType
  <2>5. <<>> \in Seq(FrameType)
    OBVIOUS
  <2>6. /\ stream' \in StreamType /\ stream'.pending = <<>> /\ ~stream'.whole /\ stream'.n = stream.n
        /\ stream'.key = stream.key /\ stream'.slots = stream.slots /\ stream'.size = stream.size
    BY <1>2, <2>2, <2>5 DEF StreamType
  <2>7. hist' \in [last : Seq(DecodedType), special : Nat] /\ hist'.last = hist.last
    BY <1>2, <2>2
  <2>8. TypeOKOfDec9' /\ StreamOK(stream)' /\ SizeIsTold'
    BY <1>1, <1>2, <2>2, <2>4, <2>6, <2>7 DEF TypeOKOfDec9, StreamOK, SizeIsTold
  <2>9. IdleIsTrue' /\ WaitingIsReady'
    BY <2>3, <2>4, <2>6 DEF IdleIsTrue, WaitingIsReady, Recent
  <2>10. Dec9!NothingAcrossKey' /\ Dec9!SizeWasTold'
    BY <1>1, <2>2, <2>7 DEF Dec9!NothingAcrossKey, Dec9!SizeWasTold
  <2> QED BY <2>8, <2>9, <2>10 DEF InvOfDec9
<1>8. CASE UNCHANGED Dec9!vars
  BY <1>2, <1>3, <1>8 DEF Dec9!vars
<1> QED BY <1>4, <1>5, <1>6, <1>7, <1>8

\* The decoder and the stream at first.
LEMMA InitVp9 ==
  ASSUME Dec9!Init
  PROVE  InvOfDec9
<1>1. dec = [ref |-> Dec9!Empty, gotKey |-> FALSE, size |-> 0, config |-> 0, old |-> 0, out |-> <<>>]
      /\ stream = [n |-> 0, key |-> 0, slots |-> Dec9!Empty, size |-> 0, pending |-> <<>>, whole |-> FALSE]
      /\ client = [held |-> {}, told |-> -1] /\ hist = [last |-> <<>>, special |-> 0]
  BY DEF Dec9!Init
<1>2. Dec9!Empty \in [Slots -> Nat] /\ (\A i \in Slots : Dec9!Empty[i] = 0)
  BY DEF Dec9!Empty
<1>3. <<>> \in Seq(Nat) /\ <<>> \in Seq(FrameType) /\ <<>> \in Seq(DecodedType)
  OBVIOUS
<1>4. TypeOKOfDec9
  BY <1>1, <1>2, <1>3 DEF TypeOKOfDec9, DecoderType, StreamType
<1>5. StreamOK(stream) /\ SizeIsTold /\ IdleIsTrue /\ WaitingIsReady
  BY <1>1, <1>2 DEF StreamOK, SizeIsTold, IdleIsTrue, WaitingIsReady, Recent
<1>6. Dec9!NothingAcrossKey /\ Dec9!SizeWasTold
  BY <1>1 DEF Dec9!NothingAcrossKey, Dec9!SizeWasTold
<1> QED BY <1>4, <1>5, <1>6 DEF InvOfDec9

\* The invariant holds of the decoder, whatever the client sends, keeps and releases and the driver
\* refuses.
THEOREM Vp9DecoderInvariant ==
  ASSUME SizesOfVp9, HardStreams = {}
  PROVE  Dec9!Spec => []InvOfDec9
<1>1. InvOfDec9 /\ [Dec9!Next]_Dec9!vars => InvOfDec9'
  BY SendFrameVp9, SendSuperFrameVp9, OtherStepsVp9 DEF Dec9!Next
<1> QED BY <1>1, InitVp9, PTL DEF Dec9!Spec

\* A frame is decoded into surfaces of the size that setFormat() told the client, for every pool and
\* every order of sizes.
THEOREM Vp9SizeWasTold ==
  ASSUME SizesOfVp9, HardStreams = {}
  PROVE  Dec9!Spec => []Dec9!SizeWasTold
<1>1. InvOfDec9 => Dec9!SizeWasTold
  BY DEF InvOfDec9
<1> QED BY <1>1, Vp9DecoderInvariant, PTL

\* The slots hold what the stream says and nothing is predicted across a key frame, through super
\* frames, hidden frames, refused frames, seeks and buffers that are sent again.
THEOREM Vp9ReferencesAreTrue ==
  ASSUME SizesOfVp9, HardStreams = {}
  PROVE  Dec9!Spec => [](Dec9!SlotsAreTrue /\ Dec9!NothingAcrossKey)
<1>1. InvOfDec9 => Dec9!SlotsAreTrue /\ Dec9!NothingAcrossKey
  BY DEF InvOfDec9, IdleIsTrue, Dec9!SlotsAreTrue
<1> QED BY <1>1, Vp9DecoderInvariant, PTL

-----------------------------------------------------------------------------
(* VP8: what the headers say, read forwards by the parser and backwards by the property *)

\* m is the last of a set of positions, 0 if there is none.
Latest(m, A) == m \in A \union {0} /\ A \subseteq Nat /\ \A x \in A : x <= m

\* LastOf() finds it: that there is one is part of the invariants.
LEMMA LatestIsLast ==
  ASSUME NEW A, NEW m, Latest(m, A)
  PROVE  Par8!LastOf(A) = m
<1>1. m \in A \union {0} /\ \A y \in A \union {0} : m >= y
  BY DEF Latest
<1>2. \A x \in A \union {0} : (\A y \in A \union {0} : x >= y) => x = m
  BY <1>1 DEF Latest
<1>3. (CHOOSE x \in A \union {0} : \A y \in A \union {0} : x >= y) = m
  BY <1>1, <1>2
<1> QED BY <1>3 DEF Par8!LastOf, Par8!Max

\* What a frame gives: values of the segments, a map, deltas of the loop filter, probabilities.
ValuesOf8(f) == f.values = <<>> \/ (f.values = <<f.values[1]>> /\ \A i \in DOMAIN f.values[1] : f.values[1][i] \in Int)
FrameOf8(f) ==
    /\ f = [key |-> f.key, enabled |-> f.enabled, values |-> f.values, abs |-> f.abs, map |-> f.map, level |-> f.level,
            adjust |-> f.adjust, deltas |-> f.deltas, probs |-> f.probs, refresh |-> f.refresh]
    /\ f.key \in BOOLEAN /\ f.enabled \in BOOLEAN /\ f.abs \in BOOLEAN /\ f.adjust \in BOOLEAN /\ f.refresh \in BOOLEAN
    /\ f.level \in Nat
    /\ ValuesOf8(f) /\ (f.map = <<>> \/ (f.map = <<f.map[1]>> /\ f.map[1] \in Nat))
    /\ DOMAIN f.deltas \subseteq Par8!Deltas /\ DOMAIN f.probs \subseteq Par8!Tables

\* The frames of the stream are such frames.
LEMMA OwnFrames ==
  ASSUME NEW key \in BOOLEAN, NEW f \in Par8!Own(key)
  PROVE  FrameOf8(f) /\ f.key = key
<1> DEFINE p == Par8!Plain(key)
<1>1. p = [key |-> key, enabled |-> FALSE, values |-> <<>>, abs |-> FALSE, map |-> <<>>, level |-> 20,
           adjust |-> FALSE, deltas |-> <<>>, probs |-> <<>>, refresh |-> TRUE]
  BY DEF Par8!Plain
<1>2. \/ f \in {p, [p EXCEPT !.enabled = TRUE, !.level = 50], [p EXCEPT !.enabled = TRUE, !.map = <<255>>],
              [p EXCEPT !.enabled = TRUE, !.map = <<7>>], [p EXCEPT !.adjust = TRUE]}
      \/ \E v \in Par8!One(Par8!Segments, 30), abs \in BOOLEAN : f = [p EXCEPT !.enabled = TRUE, !.values = <<v>>, !.abs = abs]
      \/ \E d \in Par8!One(Par8!Deltas, 5) : f = [p EXCEPT !.adjust = TRUE, !.deltas = d]
      \/ \E t \in Par8!One(IF key THEN {"coeff"} ELSE Par8!Tables, "new"), keep \in BOOLEAN :
            f = [p EXCEPT !.probs = t, !.refresh = keep]
  <2> DEFINE A == {p, [p EXCEPT !.enabled = TRUE, !.level = 50], [p EXCEPT !.enabled = TRUE, !.map = <<255>>],
                   [p EXCEPT !.enabled = TRUE, !.map = <<7>>], [p EXCEPT !.adjust = TRUE]}
             B == {[p EXCEPT !.enabled = TRUE, !.values = <<x[1]>>, !.abs = x[2]] : x \in Par8!One(Par8!Segments, 30) \X BOOLEAN}
             C == {[p EXCEPT !.adjust = TRUE, !.deltas = d] : d \in Par8!One(Par8!Deltas, 5)}
             D == {[p EXCEPT !.probs = x[1], !.refresh = x[2]] :
                      x \in Par8!One(IF key THEN {"coeff"} ELSE Par8!Tables, "new") \X BOOLEAN}
  <2>1. Par8!Own(key) = A \union B \union C \union D
    BY DEF Par8!Own
  <2>2. f \in B => \E v \in Par8!One(Par8!Segments, 30), abs \in BOOLEAN : f = [p EXCEPT !.enabled = TRUE, !.values = <<v>>, !.abs = abs]
    OBVIOUS
  <2>3. f \in C => \E d \in Par8!One(Par8!Deltas, 5) : f = [p EXCEPT !.adjust = TRUE, !.deltas = d]
    OBVIOUS
  <2>4. f \in D => \E t \in Par8!One(IF key THEN {"coeff"} ELSE Par8!Tables, "new"), keep \in BOOLEAN :
                       f = [p EXCEPT !.probs = t, !.refresh = keep]
    OBVIOUS
  <2> HIDE DEF A, B, C, D, p
  <2>5. f \in A \/ f \in B \/ f \in C \/ f \in D
    BY <2>1
  <2> QED BY <2>2, <2>3, <2>4, <2>5 DEF A
<1> HIDE DEF p
<1>3. DOMAIN <<>> = {} /\ \A x : <<>> # <<x>> /\ <<x>>[1] = x
  OBVIOUS
<1>4. CASE f \in {p, [p EXCEPT !.enabled = TRUE, !.level = 50], [p EXCEPT !.enabled = TRUE, !.map = <<255>>],
                  [p EXCEPT !.enabled = TRUE, !.map = <<7>>], [p EXCEPT !.adjust = TRUE]}
  <2>1. CASE f = p
    BY <1>1, <1>3, <2>1 DEF FrameOf8, ValuesOf8
  <2>2. CASE f = [p EXCEPT !.enabled = TRUE, !.level = 50]
    BY <1>1, <1>3, <2>2 DEF FrameOf8, ValuesOf8
  <2>3. CASE f = [p EXCEPT !.enabled = TRUE, !.map = <<255>>]
    <3>1. f = [key |-> key, enabled |-> TRUE, values |-> <<>>, abs |-> FALSE, map |-> <<255>>, level |-> 20,
               adjust |-> FALSE, deltas |-> <<>>, probs |-> <<>>, refresh |-> TRUE]
      BY <1>1, <2>3
    <3> QED BY <3>1, <1>3 DEF FrameOf8, ValuesOf8
  <2>4. CASE f = [p EXCEPT !.enabled = TRUE, !.map = <<7>>]
    BY <1>1, <1>3, <2>4 DEF FrameOf8, ValuesOf8
  <2>5. CASE f = [p EXCEPT !.adjust = TRUE]
    <3>1. f = [key |-> key, enabled |-> FALSE, values |-> <<>>, abs |-> FALSE, map |-> <<>>, level |-> 20,
               adjust |-> TRUE, deltas |-> <<>>, probs |-> <<>>, refresh |-> TRUE]
      BY <1>1, <2>5
    <3> QED BY <3>1, <1>3 DEF FrameOf8, ValuesOf8
  <2> QED BY <1>4, <2>1, <2>2, <2>3, <2>4, <2>5
<1>5. ASSUME NEW v \in Par8!One(Par8!Segments, 30), NEW abs \in BOOLEAN,
             f = [p EXCEPT !.enabled = TRUE, !.values = <<v>>, !.abs = abs]
      PROVE  FrameOf8(f) /\ f.key = key
  <2>1. PICK k \in Par8!Segments : v \in [{k} -> {30}]
    BY DEF Par8!One
  <2>2. \A x \in DOMAIN v : v[x] \in Int
    BY <2>1
  <2> QED BY <1>1, <1>5, <2>2, <1>3 DEF FrameOf8, ValuesOf8
<1>6. ASSUME NEW d \in Par8!One(Par8!Deltas, 5), f = [p EXCEPT !.adjust = TRUE, !.deltas = d]
      PROVE  FrameOf8(f) /\ f.key = key
  <2>1. DOMAIN d \subseteq Par8!Deltas
    BY DEF Par8!One
  <2> QED BY <1>1, <1>6, <2>1, <1>3 DEF FrameOf8, ValuesOf8
<1>7. ASSUME NEW t \in Par8!One(IF key THEN {"coeff"} ELSE Par8!Tables, "new"), NEW keep \in BOOLEAN,
             f = [p EXCEPT !.probs = t, !.refresh = keep]
      PROVE  FrameOf8(f) /\ f.key = key
  <2>1. DOMAIN t \subseteq Par8!Tables
    BY DEF Par8!One, Par8!Tables
  <2> QED BY <1>1, <1>7, <2>1, <1>3 DEF FrameOf8, ValuesOf8
<1> QED BY <1>2, <1>4, <1>5, <1>6, <1>7

\* What the headers keep, before a key frame or of a new parser.
TypedOf8(c) ==
    /\ c = [seg |-> c.seg, deltas |-> c.deltas, probs |-> c.probs]
    /\ c.seg = [enabled |-> c.seg.enabled, values |-> c.seg.values, abs |-> c.seg.abs, prob |-> c.seg.prob]

\* Of the first n frames F: those that gave values, a map, a delta, a probability that lasts.
Valued(F, n)     == {i \in 1..n : F[i].enabled /\ F[i].values # <<>>}
Mapped(F, n)     == {i \in 1..n : F[i].enabled /\ F[i].map # <<>>}
Given(F, n, k)   == {i \in 1..n : F[i].adjust /\ k \in DOMAIN F[i].deltas}
Lasting(F, n, t) == {i \in 1..n : t \in DOMAIN F[i].probs /\ F[i].refresh}

\* What frames F say last of each value.
ValueAt(F, v, i) == IF v # 0 /\ i \in DOMAIN F[v].values[1] THEN F[v].values[1][i] ELSE 0
DeltaAt(F, g, k) == IF g = 0 THEN 0 ELSE F[g].deltas[k]
ProbAt(F, p, t)  == IF p = 0 THEN "default" ELSE F[p].probs[t]

SegSaid(seg, F, n) ==
    /\ \E v \in 0..n : /\ Latest(v, Valued(F, n)) /\ seg.abs = (v # 0 /\ F[v].abs)
                       /\ seg.values = [i \in Par8!Segments |-> ValueAt(F, v, i)]
    /\ \E m \in 0..n : Latest(m, Mapped(F, n)) /\ seg.prob = IF m = 0 THEN 0 ELSE F[m].map[1]
DeltasSaid(deltas, F, n) ==
    \E g \in [Par8!Deltas -> 0..n] : /\ \A k \in Par8!Deltas : Latest(g[k], Given(F, n, k))
                                     /\ deltas = [k \in Par8!Deltas |-> DeltaAt(F, g[k], k)]
ProbsSaid(probs, F, n) ==
    \E p \in [Par8!Tables -> 0..n] : /\ \A t \in Par8!Tables : Latest(p[t], Lasting(F, n, t))
                                     /\ probs = [t \in Par8!Tables |-> ProbAt(F, p[t], t)]

\* What is kept after the first n frames.
Said(c, F, n) == TypedOf8(c) /\ SegSaid(c.seg, F, n) /\ DeltasSaid(c.deltas, F, n) /\ ProbsSaid(c.probs, F, n)

\* A position that joins a set is its last.
LEMMA LatestTop ==
  ASSUME NEW n \in Nat, NEW A, A \subseteq 1..n, n \in A
  PROVE  Latest(n, A)
BY DEF Latest

\* Of no frames nothing is said.
LEMMA NothingSaid ==
  ASSUME NEW F
  PROVE  /\ SegSaid(Par8!NoSegmentation, F, 0) /\ DeltasSaid(Par8!NoDeltas, F, 0) /\ ProbsSaid(Par8!DefaultProbs, F, 0)
<1>1. Latest(0, {}) /\ 1..0 = {} /\ 0 \in 0..0
  BY DEF Latest
<1>2. SegSaid(Par8!NoSegmentation, F, 0)
  <2>1. Valued(F, 0) = {} /\ Mapped(F, 0) = {}
    BY <1>1 DEF Valued, Mapped
  <2>2. Par8!NoSegmentation.values = [i \in Par8!Segments |-> ValueAt(F, 0, i)]
    BY DEF Par8!NoSegmentation, ValueAt
  <2> QED BY <1>1, <2>1, <2>2 DEF SegSaid, Par8!NoSegmentation
<1>3. DeltasSaid(Par8!NoDeltas, F, 0)
  <2> DEFINE g == [k \in Par8!Deltas |-> 0]
  <2>1. g \in [Par8!Deltas -> 0..0] /\ \A k \in Par8!Deltas : Latest(g[k], Given(F, 0, k))
    BY <1>1 DEF Given
  <2>2. Par8!NoDeltas = [k \in Par8!Deltas |-> DeltaAt(F, g[k], k)]
    BY DEF Par8!NoDeltas, DeltaAt
  <2> HIDE DEF g
  <2> QED BY <2>1, <2>2 DEF DeltasSaid
<1>4. ProbsSaid(Par8!DefaultProbs, F, 0)
  <2> DEFINE p == [t \in Par8!Tables |-> 0]
  <2>1. p \in [Par8!Tables -> 0..0] /\ \A t \in Par8!Tables : Latest(p[t], Lasting(F, 0, t))
    BY <1>1 DEF Lasting
  <2>2. Par8!DefaultProbs = [t \in Par8!Tables |-> ProbAt(F, p[t], t)]
    BY DEF Par8!DefaultProbs, ProbAt
  <2> HIDE DEF p
  <2> QED BY <2>1, <2>2 DEF ProbsSaid
<1> QED BY <1>2, <1>3, <1>4

\* The segmentation header of frame n, from what was said before it or with it.
LEMMA SegSays ==
  ASSUME NEW F, NEW n \in Nat \ {0}, NEW k, k = n \/ k = n - 1, FrameOf8(F[n]), NEW old, SegSaid(old, F, k),
         NEW new,
         /\ new.values = IF F[n].enabled /\ F[n].values # <<>>
                         THEN [i \in Par8!Segments |-> IF i \in DOMAIN F[n].values[1] THEN F[n].values[1][i] ELSE 0]
                         ELSE old.values
         /\ new.abs = IF F[n].enabled /\ F[n].values # <<>> THEN F[n].abs ELSE old.abs
         /\ new.prob = IF F[n].enabled /\ F[n].map # <<>> THEN F[n].map[1] ELSE old.prob
  PROVE  SegSaid(new, F, n)
<1>1. PICK v \in 0..k : /\ Latest(v, Valued(F, k)) /\ old.abs = (v # 0 /\ F[v].abs)
                        /\ old.values = [i \in Par8!Segments |-> ValueAt(F, v, i)]
  BY DEF SegSaid
<1>2. PICK m \in 0..k : Latest(m, Mapped(F, k)) /\ old.prob = IF m = 0 THEN 0 ELSE F[m].map[1]
  BY DEF SegSaid
<1>3. \E w \in 0..n : /\ Latest(w, Valued(F, n)) /\ new.abs = (w # 0 /\ F[w].abs)
                      /\ new.values = [i \in Par8!Segments |-> ValueAt(F, w, i)]
  <2>1. CASE F[n].enabled /\ F[n].values # <<>>
    <3>1. Latest(n, Valued(F, n))
      BY <2>1, LatestTop DEF Valued
    <3>2. new.values = [i \in Par8!Segments |-> ValueAt(F, n, i)]
      BY <2>1 DEF ValueAt
    <3>3. new.abs = (n # 0 /\ F[n].abs) /\ n \in 0..n
      BY <2>1 DEF FrameOf8
    <3> QED BY <3>1, <3>2, <3>3
  <2>2. CASE ~(F[n].enabled /\ F[n].values # <<>>)
    <3>1. Valued(F, n) = Valued(F, k)
      BY <2>2 DEF Valued
    <3>2. new.values = old.values /\ new.abs = old.abs /\ v \in 0..n
      BY <2>2
    <3> QED BY <3>1, <3>2, <1>1
  <2> QED BY <2>1, <2>2
<1>4. \E w \in 0..n : Latest(w, Mapped(F, n)) /\ new.prob = IF w = 0 THEN 0 ELSE F[w].map[1]
  <2>1. CASE F[n].enabled /\ F[n].map # <<>>
    <3>1. Latest(n, Mapped(F, n))
      BY <2>1, LatestTop DEF Mapped
    <3> QED BY <2>1, <3>1
  <2>2. CASE ~(F[n].enabled /\ F[n].map # <<>>)
    <3>1. Mapped(F, n) = Mapped(F, k) /\ m \in 0..n
      BY <2>2 DEF Mapped
    <3> QED BY <2>2, <3>1, <1>2
  <2> QED BY <2>1, <2>2
<1> QED BY <1>3, <1>4 DEF SegSaid

\* The same of the deltas.
LEMMA DeltasSay ==
  ASSUME NEW F, NEW n \in Nat \ {0}, NEW k, k = n \/ k = n - 1, FrameOf8(F[n]), NEW old, DeltasSaid(old, F, k),
         NEW new, new = [d \in Par8!Deltas |-> IF F[n].adjust /\ d \in DOMAIN F[n].deltas THEN F[n].deltas[d] ELSE old[d]]
  PROVE  DeltasSaid(new, F, n)
<1>1. PICK g \in [Par8!Deltas -> 0..k] : /\ \A d \in Par8!Deltas : Latest(g[d], Given(F, k, d))
                                         /\ old = [d \in Par8!Deltas |-> DeltaAt(F, g[d], d)]
  BY DEF DeltasSaid
<1> DEFINE gives(d) == F[n].adjust /\ d \in DOMAIN F[n].deltas
           h == [d \in Par8!Deltas |-> IF gives(d) THEN n ELSE g[d]]
<1>2. h \in [Par8!Deltas -> 0..n]
  OBVIOUS
<1>3. ASSUME NEW d \in Par8!Deltas
      PROVE  Latest(h[d], Given(F, n, d)) /\ new[d] = DeltaAt(F, h[d], d)
  <2>1. CASE gives(d)
    <3>1. Latest(n, Given(F, n, d))
      BY <2>1, LatestTop DEF Given
    <3> QED BY <2>1, <3>1 DEF DeltaAt
  <2>2. CASE ~gives(d)
    <3>1. Given(F, n, d) = Given(F, k, d)
      BY <2>2 DEF Given
    <3> QED BY <2>2, <3>1, <1>1
  <2> QED BY <2>1, <2>2
<1>4. new = [d \in Par8!Deltas |-> DeltaAt(F, h[d], d)]
  BY <1>3
<1> HIDE DEF h
<1> QED BY <1>2, <1>3, <1>4 DEF DeltasSaid

\* The same of the probabilities that last.
LEMMA ProbsSay ==
  ASSUME NEW F, NEW n \in Nat \ {0}, NEW k, k = n \/ k = n - 1, FrameOf8(F[n]), NEW old, ProbsSaid(old, F, k),
         NEW new, new = [t \in Par8!Tables |-> IF F[n].refresh /\ t \in DOMAIN F[n].probs THEN F[n].probs[t] ELSE old[t]]
  PROVE  ProbsSaid(new, F, n)
<1>1. PICK g \in [Par8!Tables -> 0..k] : /\ \A t \in Par8!Tables : Latest(g[t], Lasting(F, k, t))
                                         /\ old = [t \in Par8!Tables |-> ProbAt(F, g[t], t)]
  BY DEF ProbsSaid
<1> DEFINE gives(t) == F[n].refresh /\ t \in DOMAIN F[n].probs
           h == [t \in Par8!Tables |-> IF gives(t) THEN n ELSE g[t]]
<1>2. h \in [Par8!Tables -> 0..n]
  OBVIOUS
<1>3. ASSUME NEW t \in Par8!Tables
      PROVE  Latest(h[t], Lasting(F, n, t)) /\ new[t] = ProbAt(F, h[t], t)
  <2>1. CASE gives(t)
    <3>1. Latest(n, Lasting(F, n, t))
      BY <2>1, LatestTop DEF Lasting
    <3> QED BY <2>1, <3>1 DEF ProbAt
  <2>2. CASE ~gives(t)
    <3>1. Lasting(F, n, t) = Lasting(F, k, t)
      BY <2>2 DEF Lasting
    <3> QED BY <2>2, <3>1, <1>1
  <2> QED BY <2>1, <2>2
<1>4. new = [t \in Par8!Tables |-> ProbAt(F, h[t], t)]
  BY <1>3
<1> HIDE DEF h
<1> QED BY <1>2, <1>3, <1>4 DEF ProbsSaid

\* What the headers make of what is kept has its shape.
LEMMA HeadersTyped ==
  ASSUME NEW c, TypedOf8(c), NEW f, FrameOf8(f)
  PROVE  /\ TypedOf8(Par8!ParseSegmentationHeader(c, f)) /\ TypedOf8(Par8!Headers(c, f))
         /\ TypedOf8(Par8!ParseLoopFilterHeader(Par8!ParseSegmentationHeader(c, f), f))
         /\ TypedOf8(Par8!ProbsKept(Par8!Headers(c, f), f))
<1> DEFINE a == Par8!ParseSegmentationHeader(c, f)
           b == Par8!ParseLoopFilterHeader(a, f)
           h == Par8!Headers(c, f)
<1>1. TypedOf8(a)
  <2> DEFINE old == IF f.key THEN Par8!NoSegmentation ELSE c.seg
  <2>1. old = [enabled |-> old.enabled, values |-> old.values, abs |-> old.abs, prob |-> old.prob]
    BY DEF TypedOf8, Par8!NoSegmentation
  <2>2. a = [c EXCEPT !.seg =
            IF ~f.enabled THEN [old EXCEPT !.enabled = FALSE]
            ELSE [enabled |-> TRUE,
                  values |-> IF f.values = <<>> THEN old.values
                             ELSE [i \in Par8!Segments |-> IF i \in DOMAIN f.values[1] THEN f.values[1][i] ELSE 0],
                  abs |-> IF f.values = <<>> THEN old.abs ELSE f.abs,
                  prob |-> IF f.map = <<>> THEN old.prob ELSE f.map[1]]]
    BY Zenon DEF Par8!ParseSegmentationHeader
  <2> HIDE DEF a, old
  <2>3. CASE ~f.enabled
    <3>1. a = [c EXCEPT !.seg = [old EXCEPT !.enabled = FALSE]]
      BY <2>2, <2>3
    <3> QED BY <3>1, <2>1 DEF TypedOf8
  <2>4. CASE f.enabled
    <3> DEFINE values == IF f.values = <<>> THEN old.values
                         ELSE [i \in Par8!Segments |-> IF i \in DOMAIN f.values[1] THEN f.values[1][i] ELSE 0]
               abs == IF f.values = <<>> THEN old.abs ELSE f.abs
               prob == IF f.map = <<>> THEN old.prob ELSE f.map[1]
    <3>1. a = [c EXCEPT !.seg = [enabled |-> TRUE, values |-> values, abs |-> abs, prob |-> prob]]
      BY <2>2, <2>4
    <3> HIDE DEF values, abs, prob
    <3> QED BY <3>1 DEF TypedOf8
  <2> QED BY <2>3, <2>4 DEF FrameOf8
<1> HIDE DEF a
<1>2. TypedOf8(b)
  <2> DEFINE deltas == b.deltas
  <2>1. b = [a EXCEPT !.deltas = deltas]
    BY <1>1 DEF Par8!ParseLoopFilterHeader, TypedOf8
  <2> HIDE DEF b, deltas
  <2> QED BY <1>1, <2>1 DEF TypedOf8
<1> HIDE DEF b
<1>3. TypedOf8(h) /\ h = Par8!ResetProbs(b, f)
  <2>1. h = Par8!ResetProbs(b, f)
    BY DEF Par8!Headers, b, a
  <2>2. h = b \/ h = [b EXCEPT !.probs = Par8!DefaultProbs]
    BY <2>1 DEF Par8!ResetProbs
  <2> HIDE DEF h
  <2> QED BY <1>2, <2>1, <2>2 DEF TypedOf8
<1> HIDE DEF h
<1>4. TypedOf8(Par8!ProbsKept(h, f))
  <2> DEFINE d == Par8!ProbsKept(h, f)
             probs == [t \in Par8!Tables |-> IF f.refresh /\ t \in DOMAIN f.probs THEN f.probs[t] ELSE h.probs[t]]
  <2>1. d = [h EXCEPT !.probs = probs]
    BY DEF Par8!ProbsKept
  <2> HIDE DEF d, probs
  <2>2. TypedOf8(d)
    BY <1>3, <2>1 DEF TypedOf8
  <2> QED BY <2>2 DEF d
<1> QED BY <1>1, <1>2, <1>3, <1>4 DEF a, b, h

\* The probabilities of the last frame are its own, or the last that were to stay.
Owned(F, n, t) == {i \in 1..n : t \in DOMAIN F[i].probs /\ (i = n \/ F[i].refresh)}
ProbsUsed(probs, F, n) ==
    \A t \in Par8!Tables : \E p \in 0..n :
        /\ Latest(p, Owned(F, n, t))
        /\ probs[t] = IF F[n].key /\ t \in {"y_mode", "uv_mode"} THEN "key frame" ELSE ProbAt(F, p, t)

\* What the last frame is decoded with.
HeaderSaid(h, F, n) ==
    /\ SegSaid(h.seg, F, n) /\ h.seg.enabled = F[n].enabled
    /\ DeltasSaid(h.deltas, F, n) /\ ProbsUsed(h.probs, F, n)

\* The last frame, a key frame or one after what is kept says it, whether it was parsed before or not.
LEMMA FrameSays ==
  ASSUME NEW c, TypedOf8(c), NEW F, NEW n \in Nat \ {0}, FrameOf8(F[n]), NEW k, k = n \/ k = n - 1,
         F[n].key => n = 1, ~F[n].key => Said(c, F, k)
  PROVE  /\ HeaderSaid(Par8!Header(Par8!Headers(c, F[n]), F[n]), F, n)
         /\ Said(Par8!ProbsKept(Par8!Headers(c, F[n]), F[n]), F, n)
<1> DEFINE f == F[n]
           j == IF f.key THEN 0 ELSE k
           seg == IF f.key THEN Par8!NoSegmentation ELSE c.seg
           deltas == IF f.key THEN Par8!NoDeltas ELSE c.deltas
           probs == IF f.key THEN Par8!DefaultProbs ELSE c.probs
           h == Par8!Headers(c, f)
           new == Par8!ProbsKept(h, f)
<1>1. (j = n \/ j = n - 1) /\ SegSaid(seg, F, j) /\ DeltasSaid(deltas, F, j) /\ ProbsSaid(probs, F, j)
  <2>1. CASE f.key
    <3>1. n = 1 /\ j = 0 /\ seg = Par8!NoSegmentation /\ deltas = Par8!NoDeltas /\ probs = Par8!DefaultProbs
      BY <2>1
    <3> QED BY <3>1, NothingSaid
  <2>2. CASE ~f.key
    BY <2>2 DEF Said
  <2> QED BY <2>1, <2>2
<1>2. seg = [enabled |-> seg.enabled, values |-> seg.values, abs |-> seg.abs, prob |-> seg.prob]
  BY DEF TypedOf8, Par8!NoSegmentation
<1> DEFINE own == [d \in Par8!Deltas |-> IF f.adjust /\ d \in DOMAIN f.deltas THEN f.deltas[d] ELSE deltas[d]]
           kept == [t \in Par8!Tables |-> IF f.refresh /\ t \in DOMAIN f.probs THEN f.probs[t] ELSE probs[t]]
           first == Par8!ParseSegmentationHeader(c, f)
<1>3. h.seg = first.seg /\ h.deltas = own /\ h.probs = probs /\ first.deltas = c.deltas /\ first.probs = c.probs
  <2>1. TypedOf8(first) /\ first.deltas = c.deltas /\ first.probs = c.probs
    <3>1. TypedOf8(first)
      BY HeadersTyped
    <3>2. \A x : [c EXCEPT !.seg = x].deltas = c.deltas /\ [c EXCEPT !.seg = x].probs = c.probs
      BY DEF TypedOf8
    <3>3. \E x : first = [c EXCEPT !.seg = x]
      BY Zenon DEF Par8!ParseSegmentationHeader
    <3> HIDE DEF first
    <3> QED BY <3>1, <3>2, <3>3
  <2> DEFINE second == Par8!ParseLoopFilterHeader(first, f)
  <2> HIDE DEF first
  <2>2. second = [first EXCEPT !.deltas = own]
    BY <2>1 DEF Par8!ParseLoopFilterHeader
  <2> HIDE DEF second, own
  <2>3. second.seg = first.seg /\ second.deltas = own /\ second.probs = c.probs
        /\ second = [seg |-> second.seg, deltas |-> second.deltas, probs |-> second.probs]
    BY <2>1, <2>2 DEF TypedOf8
  <2>4. h = Par8!ResetProbs(second, f)
    BY DEF Par8!Headers, second, first
  <2>5. h.seg = second.seg /\ h.deltas = second.deltas /\ h.probs = probs
    BY <2>3, <2>4 DEF Par8!ResetProbs
  <2> QED BY <2>1, <2>3, <2>5
<1>4. new.seg = h.seg /\ new.deltas = h.deltas /\ new.probs = kept /\ TypedOf8(new)
  <2>1. TypedOf8(h) /\ TypedOf8(new)
    BY HeadersTyped
  <2> HIDE DEF h
  <2>2. new = [h EXCEPT !.probs = [t \in Par8!Tables |-> IF f.refresh /\ t \in DOMAIN f.probs THEN f.probs[t] ELSE h.probs[t]]]
    BY DEF Par8!ProbsKept
  <2>3. new = [h EXCEPT !.probs = kept]
    BY <2>2, <1>3
  <2> HIDE DEF new, kept
  <2> QED BY <2>1, <2>3 DEF TypedOf8
<1>5. first.seg.enabled = f.enabled /\ SegSaid(first.seg, F, n)
  <2> DEFINE s == first.seg
  <2>1. s = IF ~f.enabled THEN [seg EXCEPT !.enabled = FALSE]
            ELSE [enabled |-> TRUE,
                  values |-> IF f.values = <<>> THEN seg.values
                             ELSE [i \in Par8!Segments |-> IF i \in DOMAIN f.values[1] THEN f.values[1][i] ELSE 0],
                  abs |-> IF f.values = <<>> THEN seg.abs ELSE f.abs,
                  prob |-> IF f.map = <<>> THEN seg.prob ELSE f.map[1]]
    BY DEF Par8!ParseSegmentationHeader, TypedOf8
  <2>2. f.enabled \in BOOLEAN
    BY DEF FrameOf8
  <2> HIDE DEF s, seg
  <2>3. /\ s.values = IF f.enabled /\ f.values # <<>>
                      THEN [i \in Par8!Segments |-> IF i \in DOMAIN f.values[1] THEN f.values[1][i] ELSE 0]
                      ELSE seg.values
        /\ s.abs = IF f.enabled /\ f.values # <<>> THEN f.abs ELSE seg.abs
        /\ s.prob = IF f.enabled /\ f.map # <<>> THEN f.map[1] ELSE seg.prob
        /\ s.enabled = f.enabled
    <3>1. CASE ~f.enabled
      <4>1. s = [seg EXCEPT !.enabled = FALSE]
        BY <3>1, <2>1
      <4>2. s.values = seg.values /\ s.abs = seg.abs /\ s.prob = seg.prob /\ s.enabled = FALSE
        BY <4>1, <1>2
      <4>3. f.enabled = FALSE
        BY <3>1, <2>2
      <4> QED BY <4>2, <4>3
    <3>2. CASE f.enabled
      <4>1. /\ s.values = IF f.values = <<>> THEN seg.values
                          ELSE [i \in Par8!Segments |-> IF i \in DOMAIN f.values[1] THEN f.values[1][i] ELSE 0]
            /\ s.abs = IF f.values = <<>> THEN seg.abs ELSE f.abs
            /\ s.prob = IF f.map = <<>> THEN seg.prob ELSE f.map[1]
            /\ s.enabled = TRUE
        BY <3>2, <2>1
      <4> QED BY <3>2, <4>1, <2>2
    <3> QED BY <3>1, <3>2, <2>2
  <2>4. SegSaid(s, F, n)
    BY <2>3, <1>1, SegSays
  <2> QED BY <2>3, <2>4 DEF s
<1> HIDE DEF first, h, new, seg
<1>6. DeltasSaid(own, F, n)
  BY <1>1, DeltasSay
<1>7. ProbsSaid(kept, F, n)
  BY <1>1, ProbsSay
<1>8. Said(new, F, n)
  BY <1>3, <1>4, <1>5, <1>6, <1>7 DEF Said
<1>9. ProbsUsed(Par8!Probs(h, f), F, n)
  <2> SUFFICES ASSUME NEW t \in Par8!Tables
               PROVE  \E p \in 0..n : /\ Latest(p, Owned(F, n, t))
                                      /\ Par8!Probs(h, f)[t] = IF f.key /\ t \in {"y_mode", "uv_mode"} THEN "key frame"
                                                               ELSE ProbAt(F, p, t)
    BY DEF ProbsUsed
  <2>1. Par8!Probs(h, f)[t] = IF f.key /\ t \in {"y_mode", "uv_mode"} THEN "key frame"
                              ELSE IF t \in DOMAIN f.probs THEN f.probs[t] ELSE probs[t]
    BY <1>3 DEF Par8!Probs
  <2>2. CASE t \in DOMAIN f.probs
    <3>1. Latest(n, Owned(F, n, t))
      BY <2>2, LatestTop DEF Owned
    <3>2. ProbAt(F, n, t) = f.probs[t] /\ n \in 0..n
      BY DEF ProbAt
    <3>3. Par8!Probs(h, f)[t] = IF f.key /\ t \in {"y_mode", "uv_mode"} THEN "key frame" ELSE ProbAt(F, n, t)
      BY <2>1, <2>2, <3>2
    <3> QED BY <3>1, <3>2, <3>3
  <2>3. CASE t \notin DOMAIN f.probs
    <3>1. PICK g \in [Par8!Tables -> 0..j] : /\ \A u \in Par8!Tables : Latest(g[u], Lasting(F, j, u))
                                             /\ probs = [u \in Par8!Tables |-> ProbAt(F, g[u], u)]
      BY <1>1 DEF ProbsSaid
    <3>2. Owned(F, n, t) = Lasting(F, j, t)
      BY <1>1, <2>3 DEF Owned, Lasting
    <3>3. g[t] \in 0..n /\ Latest(g[t], Owned(F, n, t)) /\ probs[t] = ProbAt(F, g[t], t)
      BY <1>1, <3>1, <3>2
    <3> QED BY <2>1, <2>3, <3>3
  <2> QED BY <2>2, <2>3
<1>10. HeaderSaid(Par8!Header(h, f), F, n)
  BY <1>3, <1>5, <1>6, <1>9 DEF HeaderSaid, Par8!Header
<1> QED BY <1>8, <1>10 DEF h, new

\* Every frame since the last key frame says what the headers keep.
Frames8 == Par8!Own(TRUE) \union Par8!Own(FALSE)
InvOfPar8 ==
    /\ TypedOf8(curr) /\ frames \in Seq(Frames8) /\ sound \in BOOLEAN
    /\ \A i \in 1..Len(frames) : i > 1 => ~frames[i].key
    /\ sound => frames # <<>> /\ Said(curr, frames, Len(frames))
    /\ sound /\ used # <<>> => HeaderSaid(used, frames, Len(frames))

\* A frame of the stream.
LEMMA FramesAre8 ==
  ASSUME NEW f \in Frames8
  PROVE  FrameOf8(f)
BY OwnFrames DEF Frames8

\* What a sequence says is what it said before more frames came.
LEMMA SaidMore ==
  ASSUME NEW F \in Seq(Frames8), NEW f \in Frames8, NEW c, Said(c, F, Len(F))
  PROVE  Said(c, Append(F, f), Len(F))
<1> DEFINE T == Append(F, f)
           n == Len(F)
<1>1. n \in Nat /\ \A i \in 1..n : T[i] = F[i]
  OBVIOUS
<1> HIDE DEF T, n
<1>2. Valued(T, n) = Valued(F, n) /\ Mapped(T, n) = Mapped(F, n)
      /\ \A k : Given(T, n, k) = Given(F, n, k) /\ Lasting(T, n, k) = Lasting(F, n, k)
  BY <1>1 DEF Valued, Mapped, Given, Lasting
<1>3. \A m \in 0..n : m # 0 => T[m] = F[m]
  BY <1>1
<1>4. \A m \in 0..n : \A k : ValueAt(T, m, k) = ValueAt(F, m, k) /\ DeltaAt(T, m, k) = DeltaAt(F, m, k) /\ ProbAt(T, m, k) = ProbAt(F, m, k)
  BY <1>3 DEF ValueAt, DeltaAt, ProbAt
<1>5. TypedOf8(c) /\ SegSaid(c.seg, F, n) /\ DeltasSaid(c.deltas, F, n) /\ ProbsSaid(c.probs, F, n)
  BY DEF Said, n
<1>6. SegSaid(c.seg, T, n)
  <2>1. PICK v \in 0..n : /\ Latest(v, Valued(F, n)) /\ c.seg.abs = (v # 0 /\ F[v].abs)
                          /\ c.seg.values = [i \in Par8!Segments |-> ValueAt(F, v, i)]
    BY <1>5 DEF SegSaid
  <2>2. PICK m \in 0..n : Latest(m, Mapped(F, n)) /\ c.seg.prob = IF m = 0 THEN 0 ELSE F[m].map[1]
    BY <1>5 DEF SegSaid
  <2>3. Latest(v, Valued(T, n)) /\ c.seg.abs = (v # 0 /\ T[v].abs) /\ c.seg.values = [i \in Par8!Segments |-> ValueAt(T, v, i)]
    BY <2>1, <1>2, <1>3, <1>4
  <2>4. Latest(m, Mapped(T, n)) /\ c.seg.prob = IF m = 0 THEN 0 ELSE T[m].map[1]
    BY <2>2, <1>2, <1>3
  <2> QED BY <2>3, <2>4 DEF SegSaid
<1>7. DeltasSaid(c.deltas, T, n)
  <2>1. PICK g \in [Par8!Deltas -> 0..n] : /\ \A k \in Par8!Deltas : Latest(g[k], Given(F, n, k))
                                           /\ c.deltas = [k \in Par8!Deltas |-> DeltaAt(F, g[k], k)]
    BY <1>5 DEF DeltasSaid
  <2>2. \A k \in Par8!Deltas : Latest(g[k], Given(T, n, k)) /\ DeltaAt(T, g[k], k) = DeltaAt(F, g[k], k)
    BY <2>1, <1>2, <1>4
  <2> QED BY <2>1, <2>2 DEF DeltasSaid
<1>8. ProbsSaid(c.probs, T, n)
  <2>1. PICK g \in [Par8!Tables -> 0..n] : /\ \A k \in Par8!Tables : Latest(g[k], Lasting(F, n, k))
                                           /\ c.probs = [k \in Par8!Tables |-> ProbAt(F, g[k], k)]
    BY <1>5 DEF ProbsSaid
  <2>2. \A k \in Par8!Tables : Latest(g[k], Lasting(T, n, k)) /\ ProbAt(T, g[k], k) = ProbAt(F, g[k], k)
    BY <2>1, <1>2, <1>4
  <2> QED BY <2>1, <2>2 DEF ProbsSaid
<1> QED BY <1>5, <1>6, <1>7, <1>8 DEF Said, T, n

\* ParseFrame() to the end keeps it.
LEMMA ParseSays8 ==
  ASSUME InvOfPar8, Par8!Parse
  PROVE  InvOfPar8'
<1>1. PICK f \in Par8!Own(TRUE) \union (IF sound THEN Par8!Own(FALSE) ELSE {Par8!Plain(FALSE)}) :
          /\ used' = Par8!Header(Par8!Headers(curr, f), f)
          /\ curr' = Par8!ProbsKept(Par8!Headers(curr, f), f)
          /\ frames' = IF f.key THEN <<f>> ELSE Append(frames, f)
          /\ sound' = (sound \/ f.key)
  BY DEF Par8!Parse
<1>2. f \in Frames8 /\ FrameOf8(f)
  <2>1. Par8!Plain(FALSE) \in Par8!Own(FALSE)
    BY DEF Par8!Own
  <2> QED BY <2>1, FramesAre8 DEF Frames8
<1>3. TypedOf8(curr') /\ sound' \in BOOLEAN
  BY <1>1, <1>2, HeadersTyped DEF InvOfPar8, FrameOf8
<1> DEFINE T == frames'
           n == Len(T)
<1>4. /\ T \in Seq(Frames8) /\ n \in Nat \ {0} /\ T[n] = f /\ (f.key => n = 1) /\ T # <<>>
      /\ \A i \in 1..n : i > 1 => ~T[i].key
  <2>1. CASE f.key
    <3>1. T = <<f>>
      BY <1>1, <2>1
    <3> QED BY <3>1, <1>2, <2>1
  <2>2. CASE ~f.key
    <3>1. T = Append(frames, f) /\ frames \in Seq(Frames8) /\ \A i \in 1..Len(frames) : i > 1 => ~frames[i].key
      BY <1>1, <2>2 DEF InvOfPar8
    <3> QED BY <3>1, <1>2, <2>2
  <2> QED BY <2>1, <2>2
<1>5. sound' => HeaderSaid(used', T, n) /\ Said(curr', T, n)
  <2> SUFFICES ASSUME sound'
               PROVE  HeaderSaid(used', T, n) /\ Said(curr', T, n)
    OBVIOUS
  <2>1. ~f.key => Said(curr, T, n - 1)
    <3> SUFFICES ASSUME ~f.key
                 PROVE  Said(curr, T, n - 1)
      OBVIOUS
    <3>1. T = Append(frames, f) /\ sound
      BY <1>1
    <3>2. frames \in Seq(Frames8) /\ Said(curr, frames, Len(frames)) /\ n - 1 = Len(frames)
      BY <3>1 DEF InvOfPar8
    <3> HIDE DEF T, n
    <3>3. Said(curr, Append(frames, f), Len(frames))
      BY <3>2, <1>2, SaidMore
    <3> QED BY <3>1, <3>2, <3>3
  <2>2. TypedOf8(curr) /\ FrameOf8(T[n])
    BY <1>2, <1>4 DEF InvOfPar8
  <2> HIDE DEF T, n
  <2>3. /\ HeaderSaid(Par8!Header(Par8!Headers(curr, T[n]), T[n]), T, n)
        /\ Said(Par8!ProbsKept(Par8!Headers(curr, T[n]), T[n]), T, n)
    <3>1. n - 1 = n \/ n - 1 = n - 1
      OBVIOUS
    <3> QED BY <2>1, <2>2, <1>4, <3>1, FrameSays
  <2> QED BY <2>3, <1>1, <1>4
<1> QED BY <1>3, <1>4, <1>5 DEF InvOfPar8

\* So do headers that break off, and a frame that is parsed again.
LEMMA OtherStepsSay8 ==
  ASSUME InvOfPar8, Par8!ParseBreaksOff \/ Par8!ParseAgain
  PROVE  InvOfPar8'
<1>1. CASE Par8!ParseBreaksOff
  <2>1. PICK f \in {Par8!Plain(TRUE)} \union Par8!Own(FALSE) :
          curr' \in {curr, Par8!ParseSegmentationHeader(curr, f),
                     Par8!ParseLoopFilterHeader(Par8!ParseSegmentationHeader(curr, f), f), Par8!Headers(curr, f)}
    BY <1>1 DEF Par8!ParseBreaksOff
  <2>2. FrameOf8(f)
    <3>1. Par8!Plain(TRUE) \in Par8!Own(TRUE)
      BY DEF Par8!Own
    <3> QED BY <3>1, OwnFrames
  <2>3. TypedOf8(curr')
    BY <2>1, <2>2, HeadersTyped DEF InvOfPar8
  <2>4. frames' = <<>> /\ sound' = FALSE
    BY <1>1 DEF Par8!ParseBreaksOff
  <2>5. frames' \in Seq(Frames8) /\ 1..Len(frames') = {}
    BY <2>4
  <2> QED BY <2>3, <2>4, <2>5 DEF InvOfPar8
<1>2. CASE Par8!ParseAgain
  <2> DEFINE n == Len(frames)
             f == frames[n]
  <2>1. /\ frames # <<>> /\ frames' = frames /\ sound' = sound
        /\ used' = Par8!Header(Par8!Headers(curr, f), f) /\ curr' = Par8!ProbsKept(Par8!Headers(curr, f), f)
    BY <1>2 DEF Par8!ParseAgain, Par8!Last
  <2>2. n \in Nat \ {0} /\ f \in Frames8 /\ FrameOf8(f) /\ (f.key => n = 1)
    <3>1. frames \in Seq(Frames8) /\ \A i \in 1..n : i > 1 => ~frames[i].key
      BY DEF InvOfPar8
    <3>2. n \in Nat \ {0} /\ n \in 1..n /\ frames[n] \in Frames8
      BY <3>1, <2>1
    <3>3. FrameOf8(f)
      BY <3>2, FramesAre8
    <3> HIDE DEF n
    <3>4. f.key => n = 1
      BY <3>1, <3>2
    <3> QED BY <3>2, <3>3, <3>4
  <2>3. TypedOf8(curr) /\ TypedOf8(curr')
    BY <2>1, <2>2, HeadersTyped DEF InvOfPar8
  <2>4. sound => HeaderSaid(used', frames, n) /\ Said(curr', frames, n)
    <3>1. sound => Said(curr, frames, n)
      BY DEF InvOfPar8
    <3> HIDE DEF n
    <3> QED BY <3>1, <2>1, <2>2, <2>3, FrameSays
  <2> QED BY <2>1, <2>3, <2>4 DEF InvOfPar8
<1> QED BY <1>1, <1>2

\* A new parser has been told nothing.
LEMMA InitSays8 ==
  ASSUME Par8!Init
  PROVE  InvOfPar8
<1>1. TypedOf8(curr)
  BY DEF Par8!Init, TypedOf8, Par8!NoSegmentation
<1>2. used = <<>> /\ frames = <<>> /\ sound = FALSE
  BY DEF Par8!Init
<1>3. frames \in Seq(Frames8) /\ 1..Len(frames) = {}
  BY <1>2
<1> QED BY <1>1, <1>2, <1>3 DEF InvOfPar8

\* What the header says is what the property reads backwards.
LEMMA SaidIsTrue8 ==
  ASSUME InvOfPar8
  PROVE  Par8!HeadersAreTrue
<1> DEFINE n == Len(frames)
           f == frames[n]
<1>1. SUFFICES ASSUME sound, used # <<>>
      PROVE  LET valued   == Par8!LastOf({i \in 1..n : frames[i].enabled /\ frames[i].values # <<>>})
                 mapped   == Par8!LastOf({i \in 1..n : frames[i].enabled /\ frames[i].map # <<>>})
                 given(k) == Par8!LastOf({i \in 1..n : frames[i].adjust /\ k \in DOMAIN frames[i].deltas})
                 prob(t)  == Par8!LastOf({i \in 1..n : t \in DOMAIN frames[i].probs /\ (i = n \/ frames[i].refresh)})
                 value(i) == IF valued # 0 /\ i \in DOMAIN frames[valued].values[1] THEN frames[valued].values[1][i] ELSE 0
             IN  /\ used.seg.prob = IF mapped = 0 THEN 0 ELSE frames[mapped].map[1]
                 /\ \A k \in Par8!Deltas : used.deltas[k] = IF given(k) = 0 THEN 0 ELSE frames[given(k)].deltas[k]
                 /\ \A t \in Par8!Tables : used.probs[t] =
                        IF f.key /\ t \in {"y_mode", "uv_mode"} THEN "key frame"
                        ELSE IF prob(t) = 0 THEN "default" ELSE frames[prob(t)].probs[t]
                 /\ \A i \in Par8!Segments : Par8!LoopFilterLevel(used, f.level)[i] =
                        Par8!Clamp(IF ~f.enabled THEN f.level
                                   ELSE IF valued # 0 /\ frames[valued].abs THEN value(i) ELSE f.level + value(i))
  BY Zenon DEF Par8!HeadersAreTrue
<1>2. HeaderSaid(used, frames, n) /\ n \in Nat \ {0} /\ FrameOf8(f) /\ \A i \in 1..n : FrameOf8(frames[i])
  <2>1. frames \in Seq(Frames8) /\ frames # <<>> /\ HeaderSaid(used, frames, n)
    BY <1>1 DEF InvOfPar8
  <2>2. n \in Nat \ {0} /\ \A i \in 1..n : frames[i] \in Frames8
    BY <2>1
  <2> QED BY <2>1, <2>2, FramesAre8
<1> HIDE DEF n
<1>3. PICK v \in 0..n : /\ Latest(v, Valued(frames, n)) /\ used.seg.abs = (v # 0 /\ frames[v].abs)
                        /\ used.seg.values = [i \in Par8!Segments |-> ValueAt(frames, v, i)]
  BY <1>2 DEF HeaderSaid, SegSaid
<1>4. PICK m \in 0..n : Latest(m, Mapped(frames, n)) /\ used.seg.prob = IF m = 0 THEN 0 ELSE frames[m].map[1]
  BY <1>2 DEF HeaderSaid, SegSaid
<1>5. PICK g \in [Par8!Deltas -> 0..n] : /\ \A k \in Par8!Deltas : Latest(g[k], Given(frames, n, k))
                                         /\ used.deltas = [k \in Par8!Deltas |-> DeltaAt(frames, g[k], k)]
  BY <1>2 DEF HeaderSaid, DeltasSaid
<1>6. Par8!LastOf({i \in 1..n : frames[i].enabled /\ frames[i].values # <<>>}) = v
  BY <1>3, LatestIsLast DEF Valued
<1>7. Par8!LastOf({i \in 1..n : frames[i].enabled /\ frames[i].map # <<>>}) = m
  BY <1>4, LatestIsLast DEF Mapped
<1>8. ASSUME NEW k \in Par8!Deltas
      PROVE  used.deltas[k] = IF Par8!LastOf({i \in 1..n : frames[i].adjust /\ k \in DOMAIN frames[i].deltas}) = 0 THEN 0
                              ELSE frames[Par8!LastOf({i \in 1..n : frames[i].adjust /\ k \in DOMAIN frames[i].deltas})].deltas[k]
  <2>1. Par8!LastOf(Given(frames, n, k)) = g[k]
    BY <1>5, LatestIsLast
  <2>2. Given(frames, n, k) = {i \in 1..n : frames[i].adjust /\ k \in DOMAIN frames[i].deltas}
    BY DEF Given
  <2>3. used.deltas[k] = IF g[k] = 0 THEN 0 ELSE frames[g[k]].deltas[k]
    BY <1>5 DEF DeltaAt
  <2> QED BY <2>1, <2>2, <2>3
<1>9. ASSUME NEW t \in Par8!Tables
      PROVE  used.probs[t] =
                IF f.key /\ t \in {"y_mode", "uv_mode"} THEN "key frame"
                ELSE IF Par8!LastOf({i \in 1..n : t \in DOMAIN frames[i].probs /\ (i = n \/ frames[i].refresh)}) = 0 THEN "default"
                ELSE frames[Par8!LastOf({i \in 1..n : t \in DOMAIN frames[i].probs /\ (i = n \/ frames[i].refresh)})].probs[t]
  <2>1. PICK p \in 0..n : /\ Latest(p, Owned(frames, n, t))
                          /\ used.probs[t] = IF f.key /\ t \in {"y_mode", "uv_mode"} THEN "key frame" ELSE ProbAt(frames, p, t)
    BY <1>2 DEF HeaderSaid, ProbsUsed
  <2>2. Par8!LastOf(Owned(frames, n, t)) = p
    BY <2>1, LatestIsLast
  <2>3. Owned(frames, n, t) = {i \in 1..n : t \in DOMAIN frames[i].probs /\ (i = n \/ frames[i].refresh)}
    BY DEF Owned
  <2> QED BY <2>1, <2>2, <2>3 DEF ProbAt
<1>10. ASSUME NEW i \in Par8!Segments
       PROVE  Par8!LoopFilterLevel(used, f.level)[i] =
                 Par8!Clamp(IF ~f.enabled THEN f.level
                            ELSE IF v # 0 /\ frames[v].abs THEN ValueAt(frames, v, i) ELSE f.level + ValueAt(frames, v, i))
  <2>1. used.seg.values[i] = ValueAt(frames, v, i) /\ used.seg.enabled = f.enabled /\ used.seg.abs = (v # 0 /\ frames[v].abs)
    BY <1>2, <1>3 DEF HeaderSaid
  <2>2. ValueAt(frames, v, i) \in Int /\ f.level \in Nat
    <3>1. v # 0 => FrameOf8(frames[v]) /\ frames[v].values # <<>>
      BY <1>2, <1>3 DEF Latest, Valued
    <3> QED BY <3>1, <1>2 DEF ValueAt, FrameOf8, ValuesOf8
  <2>3. ValueAt(frames, v, i) + f.level = f.level + ValueAt(frames, v, i)
    BY <2>2
  <2>4. Par8!LoopFilterLevel(used, f.level)[i] =
           Par8!Clamp(IF ~used.seg.enabled THEN f.level
                      ELSE IF used.seg.abs THEN used.seg.values[i] ELSE used.seg.values[i] + f.level)
    BY Zenon DEF Par8!LoopFilterLevel
  <2> HIDE DEF f
  <2> QED BY <2>1, <2>3, <2>4
<1> QED BY <1>4, <1>6, <1>7, <1>8, <1>9, <1>10 DEF ValueAt

\* A frame of VP8 is decoded with what the frames since the last key frame said.
THEOREM Vp8HeadersAreTrue == Par8!Spec => []Par8!HeadersAreTrue
<1>1. Par8!Init => InvOfPar8
  BY InitSays8
<1>2. InvOfPar8 /\ [Par8!Next]_Par8!vars => InvOfPar8'
  <2>1. InvOfPar8 /\ UNCHANGED Par8!vars => InvOfPar8'
    BY DEF InvOfPar8, Par8!vars
  <2> QED BY <2>1, ParseSays8, OtherStepsSay8 DEF Par8!Next
<1>3. InvOfPar8 => Par8!HeadersAreTrue
  BY SaidIsTrue8
<1> QED BY <1>1, <1>2, <1>3, PTL DEF Par8!Spec

-----------------------------------------------------------------------------
(* VP9: what the headers say *)

\* LastOf() of this parser.
LEMMA LatestIsLast9 ==
  ASSUME NEW A, NEW m, Latest(m, A)
  PROVE  Par9!LastOf(A) = m
<1>1. m \in A \union {0} /\ \A y \in A \union {0} : m >= y
  BY DEF Latest
<1>2. \A x \in A \union {0} : (\A y \in A \union {0} : x >= y) => x = m
  BY <1>1 DEF Latest
<1>3. (CHOOSE x \in A \union {0} : \A y \in A \union {0} : x >= y) = m
  BY <1>1, <1>2
<1> QED BY <1>3 DEF Par9!LastOf, Par9!Max

\* What frames give.
Kinds9       == {"key", "intra", "inter"}
Depths9      == {8, 10}
Refreshes9   == SUBSET (Slots \union {1})
Slots9       == Slots \union {0}
Sizes9       == Sizes \union {1, 2}
DeltaSets9   == UNION {[keys -> Int] : keys \in SUBSET Par9!Deltas}
Bases9       == 0..255
Levels9      == 0..63
FeatureSets9 == {<<>>} \union {<<x>> : x \in [abs : BOOLEAN, q : Int, lf : Int, ref : Nat]}
Frames9 ==
    [kind : Kinds9, resilient : BOOLEAN, depth : Depths9, refresh : Refreshes9, fromSlot : Slots9, size : Sizes9,
     deltaEnabled : BOOLEAN, deltas : DeltaSets9, baseQ : Bases9, deltaQ : Int, level : Levels9, enabled : BOOLEAN,
     map : Nat, features : FeatureSets9]

\* The frames of the stream are such frames.
LEMMA PlainIs9 ==
  ASSUME NEW kind \in {"key", "intra", "inter"}
  PROVE  Par9!Plain(kind) \in Frames9
<1>1. <<>> \in DeltaSets9
  <2>1. <<>> \in [{} -> Int] /\ {} \in SUBSET Par9!Deltas
    OBVIOUS
  <2> QED BY <2>1 DEF DeltaSets9
<1>2. kind \in Kinds9 /\ 8 \in Depths9 /\ {} \in Refreshes9 /\ 0 \in Slots9 /\ 1 \in Sizes9 /\ 0 \in Bases9
      /\ 20 \in Levels9 /\ <<>> \in FeatureSets9 /\ 0 \in Int /\ 0 \in Nat
  BY DEF Kinds9, Depths9, Refreshes9, Slots9, Sizes9, Bases9, Levels9, FeatureSets9
<1> QED BY <1>1, <1>2 DEF Par9!Plain, Frames9

LEMMA SpecialIs9 ==
  ASSUME NEW p \in Frames9, NEW f \in Par9!Special(p)
  PROVE  f \in Frames9 /\ f.kind = p.kind /\ f.fromSlot = p.fromSlot
<1> DEFINE A == {[p EXCEPT !.deltas = d, !.level = 40] : d \in Par9!One(Par9!Deltas, 5)}
           B == {[p EXCEPT !.deltas = d] : d \in Par9!One({"golden"}, -9)}
           C == {[p EXCEPT !.deltaQ = 2], [p EXCEPT !.level = 0], [p EXCEPT !.deltaEnabled = FALSE],
                 [p EXCEPT !.enabled = TRUE, !.baseQ = 200], [p EXCEPT !.enabled = TRUE, !.map = 7]}
           D == {[p EXCEPT !.enabled = TRUE, !.features = <<x>>, !.baseQ = 200] : x \in Par9!Features}
<1>1. f \in A \union B \union C \union D
  BY DEF Par9!Special
<1>2. Par9!One(Par9!Deltas, 5) \subseteq DeltaSets9 /\ Par9!One({"golden"}, -9) \subseteq DeltaSets9
  <2>1. ASSUME NEW k \in Par9!Deltas, NEW v \in Int
        PROVE  [{k} -> {v}] \subseteq DeltaSets9
    <3>1. [{k} -> {v}] \subseteq [{k} -> Int] /\ {k} \in SUBSET Par9!Deltas
      OBVIOUS
    <3> QED BY <3>1 DEF DeltaSets9
  <2>2. "golden" \in Par9!Deltas /\ 5 \in Int /\ -9 \in Int
    BY DEF Par9!Deltas
  <2> QED BY <2>1, <2>2 DEF Par9!One
<1>3. 0 \in Levels9 /\ 40 \in Levels9 /\ 200 \in Bases9 /\ 2 \in Int /\ 7 \in Nat /\ TRUE \in BOOLEAN /\ FALSE \in BOOLEAN
  BY DEF Levels9, Bases9
<1>4. CASE f \in A
  <2>1. PICK d \in DeltaSets9 : f = [p EXCEPT !.deltas = d, !.level = 40]
    BY <1>2, <1>4
  <2> QED BY <1>3, <2>1 DEF Frames9
<1>5. CASE f \in B
  <2>1. PICK d \in DeltaSets9 : f = [p EXCEPT !.deltas = d]
    BY <1>2, <1>5
  <2> QED BY <2>1 DEF Frames9
<1>6. CASE f \in C
  <2>1. CASE f = [p EXCEPT !.deltaQ = 2] \/ f = [p EXCEPT !.level = 0] \/ f = [p EXCEPT !.deltaEnabled = FALSE]
    BY <1>3, <2>1 DEF Frames9
  <2>2. CASE f = [p EXCEPT !.enabled = TRUE, !.baseQ = 200]
    BY <1>3, <2>2 DEF Frames9
  <2>3. CASE f = [p EXCEPT !.enabled = TRUE, !.map = 7]
    BY <1>3, <2>3 DEF Frames9
  <2> QED BY <1>6, <2>1, <2>2, <2>3
<1>7. CASE f \in D
  <2>1. PICK x \in Par9!Features : f = [p EXCEPT !.enabled = TRUE, !.features = <<x>>, !.baseQ = 200]
    BY <1>7
  <2>2. <<x>> \in FeatureSets9
    <3>1. -1 \in Int /\ 100 \in Int /\ 30 \in Int /\ 0 \in Nat /\ 2 \in Nat
      OBVIOUS
    <3>2. x \in [abs : BOOLEAN, q : Int, lf : Int, ref : Nat]
      <4>1. CASE x = [abs |-> TRUE, q |-> -1, lf |-> 30, ref |-> 0]
        BY <3>1, <4>1
      <4>2. CASE x = [abs |-> FALSE, q |-> 100, lf |-> 30, ref |-> 2]
        BY <3>1, <4>2
      <4> QED BY <4>1, <4>2 DEF Par9!Features
    <3> QED BY <3>2 DEF FeatureSets9
  <2> QED BY <1>3, <2>1, <2>2 DEF Frames9
<1> HIDE DEF A, B, C, D
<1> QED BY <1>1, <1>4, <1>5, <1>6, <1>7

LEMMA OwnFrames9 ==
  /\ Par9!KeyVariants \subseteq Frames9 /\ \A f \in Par9!KeyVariants : f.kind = "key" /\ f.fromSlot = 0
  /\ Par9!InterVariants \subseteq Frames9 /\ \A f \in Par9!InterVariants : f.kind # "key"
<1>1. ASSUME NEW f \in Par9!KeyFrames
      PROVE  f \in Frames9 /\ f.kind = "key" /\ f.fromSlot = 0
  <2> DEFINE p == Par9!Plain("key")
  <2>1. PICK x \in {8, 10} \X Sizes : f = [p EXCEPT !.depth = x[1], !.size = x[2]]
    BY DEF Par9!KeyFrames
  <2>2. p \in Frames9 /\ p.kind = "key" /\ p.fromSlot = 0
    BY PlainIs9 DEF Par9!Plain
  <2>3. x[1] \in Depths9 /\ x[2] \in Sizes9
    BY DEF Depths9, Sizes9
  <2> HIDE DEF p
  <2> QED BY <2>1, <2>2, <2>3 DEF Frames9
<1>2. ASSUME NEW f \in Par9!IntraFrames
      PROVE  f \in Frames9 /\ f.kind # "key"
  <2> DEFINE p == Par9!Plain("intra")
  <2>1. PICK depth \in {8, 10} : f = [p EXCEPT !.depth = depth, !.refresh = {1}, !.size = 2]
    BY DEF Par9!IntraFrames
  <2>2. p \in Frames9 /\ p.kind = "intra"
    BY PlainIs9 DEF Par9!Plain
  <2>3. depth \in Depths9 /\ {1} \in Refreshes9 /\ 2 \in Sizes9
    BY DEF Depths9, Refreshes9, Sizes9
  <2> HIDE DEF p
  <2> QED BY <2>1, <2>2, <2>3 DEF Frames9
<1>3. ASSUME NEW f \in Par9!InterFrames
      PROVE  f \in Frames9 /\ f.kind # "key"
  <2> DEFINE p == Par9!Plain("inter")
  <2>1. PICK x \in {{}, {1}, Slots} \X (Slots \union {0}) : f = [p EXCEPT !.refresh = x[1], !.fromSlot = x[2], !.size = 2]
    BY DEF Par9!InterFrames
  <2>2. p \in Frames9 /\ p.kind = "inter"
    BY PlainIs9 DEF Par9!Plain
  <2>3. x[1] \in Refreshes9 /\ x[2] \in Slots9 /\ 2 \in Sizes9
    BY DEF Refreshes9, Slots9, Sizes9
  <2> HIDE DEF p
  <2> QED BY <2>1, <2>2, <2>3 DEF Frames9
<1>4. ASSUME NEW f \in Par9!Special(Par9!Plain("inter"))
      PROVE  f \in Frames9 /\ f.kind # "key"
             /\ [f EXCEPT !.resilient = TRUE] \in Frames9 /\ [f EXCEPT !.resilient = TRUE].kind # "key"
  <2>1. f \in Frames9 /\ f.kind = "inter"
    BY PlainIs9, SpecialIs9 DEF Par9!Plain
  <2> QED BY <2>1 DEF Frames9
<1>5. ASSUME NEW f \in Par9!Special(Par9!Plain("key"))
      PROVE  f \in Frames9 /\ f.kind = "key" /\ f.fromSlot = 0
  BY PlainIs9, SpecialIs9 DEF Par9!Plain
<1> QED BY <1>1, <1>2, <1>3, <1>4, <1>5 DEF Par9!KeyVariants, Par9!InterVariants

\* What the parser keeps.
TypedOf9(p) ==
    p = [depth |-> p.depth, color |-> p.color, deltas |-> p.deltas, deltaQ |-> p.deltaQ, dequant |-> p.dequant,
         lossless |-> p.lossless, features |-> p.features, map |-> p.map, size |-> p.size, seg |-> p.seg,
         frameSize |-> p.frameSize]

Resets9(f) == Par9!KeyOrIntraOnly(f) \/ f.resilient

\* The deltas and the features that a frame begins with, and those it makes of them.
DeltaOf9(p, f, k) == IF k \in DOMAIN f.deltas THEN f.deltas[k] ELSE IF Resets9(f) THEN Par9!DefaultDeltas[k] ELSE p.deltas[k]
FeaturesAfter9(p, f) ==
    IF f.enabled /\ f.features # <<>> THEN f.features[1] ELSE IF Resets9(f) THEN Par9!NoFeatures ELSE p.features
SizeAfter9(p, f) == IF f.fromSlot = 0 THEN f.size ELSE p.size[f.fromSlot]

\* What a segment of frame f is decoded with, by parser u after it.
SegmentOf9(u, f) ==
    [q |-> Par9!OfSegment(f.baseQ, u.features.q, u, f, 255), dequant |-> u.dequant,
     levels |-> IF f.level = 0 THEN <<>>
                ELSE Par9!FilterLevels(Par9!OfSegment(f.level, u.features.lf, u, f, 63), u, f),
     ref |-> u.features.ref]

\* The tables are those of the depth and the delta.
TablesOf9(p) == p.dequant = [depth |-> p.depth, delta |-> p.deltaQ]

\* What a header resets before it is read to the end.
LEMMA BeginOf9 ==
  ASSUME NEW p, TypedOf9(p), NEW f \in Frames9, f.kind # "key" => TablesOf9(p)
  PROVE  LET b == Par9!Begin(p, f)
         IN  /\ TypedOf9(b) /\ TablesOf9(b)
             /\ b.depth = IF Par9!KeyOrIntraOnly(f) THEN f.depth ELSE p.depth
             /\ f.kind # "key" => /\ b.deltas = p.deltas /\ b.features = p.features /\ b.map = p.map /\ b.color = p.color
                                  /\ b.size = p.size /\ b.seg = p.seg /\ b.frameSize = p.frameSize
             /\ f.kind = "key" => b.map = 0
<1> DEFINE b == Par9!Begin(p, f)
<1>1. CASE f.kind = "key"
  <2>1. b = Par9!Cleared(f.depth)
    BY <1>1 DEF Par9!Begin
  <2> QED BY <1>1, <2>1 DEF Par9!Cleared, TypedOf9, TablesOf9, Par9!KeyOrIntraOnly
<1>2. CASE f.kind = "intra" /\ f.depth # p.depth
  <2>1. b = [p EXCEPT !.depth = f.depth, !.dequant = [depth |-> f.depth, delta |-> p.deltaQ]]
    BY <1>2 DEF Par9!Begin
  <2> QED BY <1>2, <2>1 DEF TypedOf9, TablesOf9, Par9!KeyOrIntraOnly
<1>3. CASE f.kind # "key" /\ ~(f.kind = "intra" /\ f.depth # p.depth)
  <2>1. b = p
    BY <1>3 DEF Par9!Begin
  <2>2. f.kind = "intra" => f.depth = p.depth
    BY <1>3
  <2> QED BY <1>3, <2>1, <2>2 DEF TablesOf9, Par9!KeyOrIntraOnly
<1> QED BY <1>1, <1>2, <1>3

\* What a frame leaves.
LEMMA UpdateOf9 ==
  ASSUME NEW b, TypedOf9(b), TablesOf9(b), NEW f \in Frames9
  PROVE  LET u == Par9!Update(b, f)
             size == SizeAfter9(b, f)
         IN  /\ TypedOf9(u) /\ TablesOf9(u) /\ u.deltaQ = f.deltaQ /\ u.depth = b.depth
             /\ u.color = IF Par9!KeyOrIntraOnly(f) THEN f.depth ELSE b.color
             /\ \A k \in Par9!Deltas : u.deltas[k] = DeltaOf9(b, f, k)
             /\ u.lossless = (f.baseQ = 0 /\ f.deltaQ = 0)
             /\ u.features = FeaturesAfter9(b, f)
             /\ u.map = IF f.enabled /\ f.map # 0 THEN f.map ELSE b.map
             /\ \A s \in Slots : u.size[s] = IF f.kind = "key" \/ s \in f.refresh THEN size ELSE b.size[s]
             /\ u.frameSize = size /\ u.seg = SegmentOf9(u, f)
<1> DEFINE s1 == Par9!SetupPastIndependence(b, f)
           s2 == Par9!ColorConfigUpdate(s1, f)
           s3 == Par9!LoopFilterUpdate(s2, f)
           s4 == Par9!QuantizationUpdate(s3, f)
           s5 == Par9!SegmentationSave(s4, f)
           s6 == Par9!SegmentationUpdate(s5, f)
           size == SizeAfter9(b, f)
           u == Par9!ReferenceUpdate(s6, f, size)
<1>0. Par9!Update(b, f) = u
  BY DEF Par9!Update, Par9!SizeOf, SizeAfter9
<1> DEFINE d1 == IF Resets9(f) THEN Par9!DefaultDeltas ELSE b.deltas
           f1 == IF Resets9(f) THEN Par9!NoFeatures ELSE b.features
<1>1. s1 = [b EXCEPT !.deltas = d1, !.features = f1]
  <2>1. CASE Resets9(f)
    BY <2>1 DEF Par9!SetupPastIndependence, Resets9
  <2>2. CASE ~Resets9(f)
    <3>1. s1 = b
      BY <2>2 DEF Par9!SetupPastIndependence, Resets9
    <3>2. d1 = b.deltas /\ f1 = b.features
      BY <2>2
    <3> HIDE DEF s1, d1, f1
    <3> QED BY <3>1, <3>2 DEF TypedOf9
  <2> QED BY <2>1, <2>2
<1> DEFINE color == IF Par9!KeyOrIntraOnly(f) THEN f.depth ELSE b.color
           d3 == [k \in Par9!Deltas |-> DeltaOf9(b, f, k)]
           f5 == FeaturesAfter9(b, f)
           m5 == IF f.enabled /\ f.map # 0 THEN f.map ELSE b.map
           q4 == [depth |-> b.depth, delta |-> f.deltaQ]
           l4 == f.baseQ = 0 /\ f.deltaQ = 0
<1>2. s2 = [depth |-> b.depth, color |-> color, deltas |-> d1, deltaQ |-> b.deltaQ, dequant |-> b.dequant,
            lossless |-> b.lossless, features |-> f1, map |-> b.map, size |-> b.size, seg |-> b.seg, frameSize |-> b.frameSize]
  <2> HIDE DEF s1, d1, f1
  <2>1. s1 = [depth |-> b.depth, color |-> b.color, deltas |-> d1, deltaQ |-> b.deltaQ, dequant |-> b.dequant,
              lossless |-> b.lossless, features |-> f1, map |-> b.map, size |-> b.size, seg |-> b.seg, frameSize |-> b.frameSize]
    BY <1>1 DEF TypedOf9
  <2> QED BY <2>1 DEF Par9!ColorConfigUpdate
<1> HIDE DEF s1, s2
<1>3. s3 = [depth |-> b.depth, color |-> color, deltas |-> d3, deltaQ |-> b.deltaQ, dequant |-> b.dequant,
            lossless |-> b.lossless, features |-> f1, map |-> b.map, size |-> b.size, seg |-> b.seg, frameSize |-> b.frameSize]
  <2>1. s3 = [s2 EXCEPT !.deltas = [k \in Par9!Deltas |-> IF k \in DOMAIN f.deltas THEN f.deltas[k] ELSE s2.deltas[k]]]
    BY DEF Par9!LoopFilterUpdate
  <2>2. s2.deltas = d1
    BY <1>2
  <2>3. [k \in Par9!Deltas |-> IF k \in DOMAIN f.deltas THEN f.deltas[k] ELSE s2.deltas[k]] = d3
    BY <2>2 DEF DeltaOf9
  <2> HIDE DEF s3, d3, d1, f1, color
  <2> QED BY <1>2, <2>1, <2>3
<1> HIDE DEF s3, d3, d1, color
<1>4. s4 = [depth |-> b.depth, color |-> color, deltas |-> d3, deltaQ |-> f.deltaQ, dequant |-> q4,
            lossless |-> l4, features |-> f1, map |-> b.map, size |-> b.size, seg |-> b.seg, frameSize |-> b.frameSize]
  <2>1. (IF f.deltaQ = s3.deltaQ THEN s3.dequant ELSE [depth |-> s3.depth, delta |-> f.deltaQ]) = q4
    BY <1>3 DEF TablesOf9
  <2>2. s4 = [s3 EXCEPT !.deltaQ = f.deltaQ,
                        !.dequant = IF f.deltaQ = s3.deltaQ THEN s3.dequant ELSE [depth |-> s3.depth, delta |-> f.deltaQ],
                        !.lossless = l4]
    BY <1>3 DEF Par9!QuantizationUpdate
  <2>3. s4 = [s3 EXCEPT !.deltaQ = f.deltaQ, !.dequant = q4, !.lossless = l4]
    BY <2>1, <2>2
  <2> HIDE DEF s4, q4, l4, f1
  <2> QED BY <1>3, <2>3
<1> HIDE DEF s4, q4, l4
<1>5. s5 = [depth |-> b.depth, color |-> color, deltas |-> d3, deltaQ |-> f.deltaQ, dequant |-> q4,
            lossless |-> l4, features |-> f5, map |-> m5, size |-> b.size, seg |-> b.seg, frameSize |-> b.frameSize]
  <2>1. s4.map = b.map /\ s4.features = f1
    BY <1>4
  <2>2. s5 = [s4 EXCEPT !.map = IF f.enabled /\ f.map # 0 THEN f.map ELSE s4.map,
                        !.features = IF f.enabled /\ f.features # <<>> THEN f.features[1] ELSE s4.features]
    BY <1>4 DEF Par9!SegmentationSave
  <2>3. (IF f.enabled /\ f.features # <<>> THEN f.features[1] ELSE s4.features) = f5
    BY <2>1 DEF FeaturesAfter9
  <2>4. (IF f.enabled /\ f.map # 0 THEN f.map ELSE s4.map) = m5
    BY <2>1
  <2> HIDE DEF s5, f5, m5, f1
  <2>5. s5 = [s4 EXCEPT !.map = m5, !.features = f5]
    BY <2>2, <2>3, <2>4
  <2> QED BY <1>4, <2>5
<1> HIDE DEF s5, f5, m5, f1
<1> DEFINE seg == SegmentOf9(s5, f)
<1>6. s6 = [depth |-> b.depth, color |-> color, deltas |-> d3, deltaQ |-> f.deltaQ, dequant |-> q4,
            lossless |-> l4, features |-> f5, map |-> m5, size |-> b.size, seg |-> seg, frameSize |-> b.frameSize]
  <2>1. s6 = [s5 EXCEPT !.seg = seg]
    BY DEF Par9!SegmentationUpdate, SegmentOf9
  <2> HIDE DEF s6, seg
  <2> QED BY <1>5, <2>1
<1> HIDE DEF s6, seg
<1> DEFINE z == [s \in Slots |-> IF f.kind = "key" \/ s \in f.refresh THEN size ELSE b.size[s]]
<1>7. u = [depth |-> b.depth, color |-> color, deltas |-> d3, deltaQ |-> f.deltaQ, dequant |-> q4,
           lossless |-> l4, features |-> f5, map |-> m5, size |-> z, seg |-> seg, frameSize |-> size]
  <2>1. u = [s6 EXCEPT !.size = [s \in Slots |-> IF f.kind = "key" \/ s \in f.refresh THEN size ELSE s6.size[s]],
                       !.frameSize = size]
    BY <1>6 DEF Par9!ReferenceUpdate
  <2>2. s6.size = b.size
    BY <1>6
  <2>3. u = [s6 EXCEPT !.size = z, !.frameSize = size]
    BY <2>1, <2>2
  <2> HIDE DEF u, z, size
  <2> QED BY <1>6, <2>3
<1> HIDE DEF u, size
<1>8. seg = SegmentOf9(u, f)
  <2>1. u.features = s5.features /\ u.deltas = s5.deltas /\ u.dequant = s5.dequant
    BY <1>5, <1>7
  <2> QED BY <2>1 DEF seg, SegmentOf9, Par9!OfSegment, Par9!FilterLevels
<1>9. TypedOf9(u) /\ TablesOf9(u) /\ u.deltaQ = f.deltaQ /\ u.depth = b.depth /\ u.color = color
      /\ u.deltas = d3 /\ u.lossless = l4 /\ u.features = f5 /\ u.map = m5 /\ u.size = z /\ u.frameSize = size /\ u.seg = seg
  BY <1>7 DEF TypedOf9, TablesOf9, q4
<1> QED BY <1>0, <1>8, <1>9 DEF color, d3, l4, f5, m5, size

\* Of the frames r to n of F: those that begin anew, that reset, that give a delta, features, a map; that write a slot.
Intras9(F, n)      == {i \in 1..n : Par9!KeyOrIntraOnly(F[i])}
Resetting9(F, n)   == {i \in 1..n : Resets9(F[i])}
Given9(F, r, n, k) == {i \in r..n : k \in DOMAIN F[i].deltas}
Saved9(F, r, n)    == {i \in r..n : F[i].enabled /\ F[i].features # <<>>}
Mapped9(F, n)      == {i \in 1..n : F[i].enabled /\ F[i].map # 0}
Writers9(F, n, s)  == {i \in 1..n : F[i].kind = "key" \/ s \in F[i].refresh}

\* What they say last of each.
DepthSaid9(p, F, n) == \E d \in 1..n : Latest(d, Intras9(F, n)) /\ p.depth = F[d].depth /\ p.color = F[d].depth
DeltasSaid9(p, F, r, n) ==
    \A k \in Par9!Deltas : \E g \in 0..n :
        /\ Latest(g, Given9(F, r, n, k))
        /\ p.deltas[k] = IF g = 0 THEN Par9!DefaultDeltas[k] ELSE F[g].deltas[k]
FeaturesSaid9(p, F, r, n) ==
    \E g \in 0..n : Latest(g, Saved9(F, r, n)) /\ p.features = IF g = 0 THEN Par9!NoFeatures ELSE F[g].features[1]
MapSaid9(p, F, n)  == \E m \in 0..n : Latest(m, Mapped9(F, n)) /\ p.map = IF m = 0 THEN 0 ELSE F[m].map
SlotSaid9(p, F, n, s) == \E w \in 1..n : Latest(w, Writers9(F, n, s)) /\ p.size[s] = F[w].size

Said9(p, F, n) ==
    /\ TypedOf9(p) /\ TablesOf9(p) /\ DepthSaid9(p, F, n) /\ MapSaid9(p, F, n)
    /\ \E r \in 1..n : Latest(r, Resetting9(F, n)) /\ DeltasSaid9(p, F, r, n) /\ FeaturesSaid9(p, F, r, n)
    /\ \A s \in Slots : SlotSaid9(p, F, n, s)

\* What the last frame is decoded with, and the size that it took from a slot.
DecodedWith9(p, f) ==
    /\ p.frameSize = f.size /\ p.lossless = (f.baseQ = 0 /\ f.deltaQ = 0) /\ p.deltaQ = f.deltaQ
    /\ p.seg = SegmentOf9(p, f)
SizedAfter9(F, n) ==
    F[n].fromSlot # 0 => \E w \in 1..n - 1 : Latest(w, Writers9(F, n - 1, F[n].fromSlot)) /\ F[n].size = F[w].size

\* A set of positions has one last.
LEMMA LatestIsOne ==
  ASSUME NEW A, NEW a, NEW b, Latest(a, A), Latest(b, A)
  PROVE  a = b
BY DEF Latest

\* After a parser that says what the first k frames say, whether frame n was among them or not.
LEMMA DepthSays9 ==
  ASSUME NEW F, NEW n \in Nat \ {0}, NEW k, k = n \/ k = n - 1, NEW p, NEW u,
         Par9!KeyOrIntraOnly(F[n]) \/ DepthSaid9(p, F, k),
         u.depth = IF Par9!KeyOrIntraOnly(F[n]) THEN F[n].depth ELSE p.depth,
         u.color = IF Par9!KeyOrIntraOnly(F[n]) THEN F[n].depth ELSE p.color
  PROVE  DepthSaid9(u, F, n)
<1>1. CASE Par9!KeyOrIntraOnly(F[n])
  <2>1. Latest(n, Intras9(F, n))
    BY <1>1, LatestTop DEF Intras9
  <2> QED BY <1>1, <2>1 DEF DepthSaid9
<1>2. CASE ~Par9!KeyOrIntraOnly(F[n])
  <2>1. Intras9(F, n) = Intras9(F, k)
    BY <1>2 DEF Intras9
  <2>2. PICK d \in 1..k : Latest(d, Intras9(F, k)) /\ p.depth = F[d].depth /\ p.color = F[d].depth
    BY <1>2 DEF DepthSaid9
  <2>3. d \in 1..n
    OBVIOUS
  <2> QED BY <1>2, <2>1, <2>2, <2>3 DEF DepthSaid9
<1> QED BY <1>1, <1>2

LEMMA MapSays9 ==
  ASSUME NEW F, NEW n \in Nat \ {0}, NEW k, k = n \/ k = n - 1, NEW p, NEW u, F[n] \in Frames9, MapSaid9(p, F, k),
         u.map = IF F[n].enabled /\ F[n].map # 0 THEN F[n].map ELSE p.map
  PROVE  MapSaid9(u, F, n)
<1>1. CASE F[n].enabled /\ F[n].map # 0
  <2>1. Latest(n, Mapped9(F, n))
    BY <1>1, LatestTop DEF Mapped9
  <2> QED BY <1>1, <2>1 DEF MapSaid9
<1>2. CASE ~(F[n].enabled /\ F[n].map # 0)
  <2>1. Mapped9(F, n) = Mapped9(F, k)
    BY <1>2 DEF Mapped9
  <2>2. PICK m \in 0..k : Latest(m, Mapped9(F, k)) /\ p.map = IF m = 0 THEN 0 ELSE F[m].map
    BY DEF MapSaid9
  <2>3. m \in 0..n /\ u.map = p.map
    BY <1>2
  <2> QED BY <2>1, <2>2, <2>3 DEF MapSaid9
<1> QED BY <1>1, <1>2

\* Since the last frame that resets, which frame n itself may be.
LEMMA SinceReset9 ==
  ASSUME NEW F, NEW n \in Nat \ {0}, NEW k, k = n \/ k = n - 1, NEW p, NEW u, F[n] \in Frames9,
         Resets9(F[n]) \/ \E r \in 1..k : Latest(r, Resetting9(F, k)) /\ DeltasSaid9(p, F, r, k) /\ FeaturesSaid9(p, F, r, k),
         \A d \in Par9!Deltas : u.deltas[d] = DeltaOf9(p, F[n], d),
         u.features = FeaturesAfter9(p, F[n])
  PROVE  \E r \in 1..n : Latest(r, Resetting9(F, n)) /\ DeltasSaid9(u, F, r, n) /\ FeaturesSaid9(u, F, r, n)
<1>0. n \in 1..n /\ n \in n..n /\ n \in 0..n /\ 0 \in 0..n /\ n # 0 /\ Latest(0, {})
  BY DEF Latest
<1>1. CASE Resets9(F[n])
  <2>1. Latest(n, Resetting9(F, n))
    BY <1>1, LatestTop DEF Resetting9
  <2>2. DeltasSaid9(u, F, n, n)
    <3> SUFFICES ASSUME NEW d \in Par9!Deltas
                 PROVE  \E g \in 0..n : /\ Latest(g, Given9(F, n, n, d))
                                        /\ u.deltas[d] = IF g = 0 THEN Par9!DefaultDeltas[d] ELSE F[g].deltas[d]
      BY DEF DeltasSaid9
    <3>1. CASE d \in DOMAIN F[n].deltas
      <4>1. Latest(n, Given9(F, n, n, d))
        BY <3>1, LatestTop DEF Given9
      <4>2. u.deltas[d] = F[n].deltas[d]
        BY <3>1 DEF DeltaOf9
      <4> QED BY <4>1, <4>2, <1>0
    <3>2. CASE d \notin DOMAIN F[n].deltas
      <4>1. Given9(F, n, n, d) = {}
        BY <3>2 DEF Given9
      <4>2. u.deltas[d] = Par9!DefaultDeltas[d]
        BY <3>2, <1>1 DEF DeltaOf9
      <4> QED BY <4>1, <4>2, <1>0
    <3> QED BY <3>1, <3>2
  <2>3. FeaturesSaid9(u, F, n, n)
    <3>1. CASE F[n].enabled /\ F[n].features # <<>>
      <4>1. Latest(n, Saved9(F, n, n))
        <5>1. n \in Saved9(F, n, n) /\ Saved9(F, n, n) \subseteq 1..n
          BY <3>1, <1>0 DEF Saved9
        <5> QED BY <5>1, LatestTop
      <4>2. u.features = F[n].features[1]
        BY <3>1 DEF FeaturesAfter9
      <4> QED BY <4>1, <4>2, <1>0 DEF FeaturesSaid9
    <3>2. CASE ~(F[n].enabled /\ F[n].features # <<>>)
      <4>1. Saved9(F, n, n) = {}
        BY <3>2 DEF Saved9
      <4>2. u.features = Par9!NoFeatures
        BY <3>2, <1>1 DEF FeaturesAfter9
      <4> QED BY <4>1, <4>2, <1>0 DEF FeaturesSaid9
    <3> QED BY <3>1, <3>2
  <2> QED BY <2>1, <2>2, <2>3, <1>0
<1>2. CASE ~Resets9(F[n])
  <2>1. PICK r \in 1..k : Latest(r, Resetting9(F, k)) /\ DeltasSaid9(p, F, r, k) /\ FeaturesSaid9(p, F, r, k)
    BY <1>2
  <2>2. Resetting9(F, n) = Resetting9(F, k) /\ r \in 1..n /\ r \in Nat /\ 0..k \subseteq 0..n
    BY <1>2 DEF Resetting9
  <2>3. DeltasSaid9(u, F, r, n)
    <3> SUFFICES ASSUME NEW d \in Par9!Deltas
                 PROVE  \E g \in 0..n : /\ Latest(g, Given9(F, r, n, d))
                                        /\ u.deltas[d] = IF g = 0 THEN Par9!DefaultDeltas[d] ELSE F[g].deltas[d]
      BY DEF DeltasSaid9
    <3>1. CASE d \in DOMAIN F[n].deltas
      <4>1. Latest(n, Given9(F, r, n, d))
        BY <3>1, <2>2, LatestTop DEF Given9
      <4>2. u.deltas[d] = F[n].deltas[d]
        BY <3>1 DEF DeltaOf9
      <4> QED BY <4>1, <4>2, <1>0
    <3>2. CASE d \notin DOMAIN F[n].deltas
      <4>1. Given9(F, r, n, d) = Given9(F, r, k, d)
        BY <3>2, <2>2 DEF Given9
      <4>2. u.deltas[d] = p.deltas[d]
        BY <3>2, <1>2 DEF DeltaOf9
      <4>3. PICK g \in 0..k : /\ Latest(g, Given9(F, r, k, d))
                              /\ p.deltas[d] = IF g = 0 THEN Par9!DefaultDeltas[d] ELSE F[g].deltas[d]
        BY <2>1 DEF DeltasSaid9
      <4> QED BY <4>1, <4>2, <4>3, <2>2
    <3> QED BY <3>1, <3>2
  <2>4. FeaturesSaid9(u, F, r, n)
    <3>1. CASE F[n].enabled /\ F[n].features # <<>>
      <4>1. Latest(n, Saved9(F, r, n))
        BY <3>1, <2>2, LatestTop DEF Saved9
      <4>2. u.features = F[n].features[1]
        BY <3>1 DEF FeaturesAfter9
      <4> QED BY <4>1, <4>2, <1>0 DEF FeaturesSaid9
    <3>2. CASE ~(F[n].enabled /\ F[n].features # <<>>)
      <4>1. Saved9(F, r, n) = Saved9(F, r, k)
        BY <3>2, <2>2 DEF Saved9
      <4>2. u.features = p.features
        BY <3>2, <1>2 DEF FeaturesAfter9
      <4>3. PICK g \in 0..k : Latest(g, Saved9(F, r, k)) /\ p.features = IF g = 0 THEN Par9!NoFeatures ELSE F[g].features[1]
        BY <2>1 DEF FeaturesSaid9
      <4> QED BY <4>1, <4>2, <4>3, <2>2 DEF FeaturesSaid9
    <3> QED BY <3>1, <3>2
  <2> QED BY <2>1, <2>2, <2>3, <2>4
<1> QED BY <1>1, <1>2

\* The size of the frame is the one that it says or that of its slot before it.
LEMMA SizeSays9 ==
  ASSUME NEW F, NEW n \in Nat \ {0}, NEW k, k = n \/ k = n - 1, NEW p, F[n] \in Frames9,
         F[n].fromSlot # 0 => \A s \in Slots : SlotSaid9(p, F, k, s), SizedAfter9(F, n)
  PROVE  SizeAfter9(p, F[n]) = F[n].size
<1>1. CASE F[n].fromSlot = 0
  BY <1>1 DEF SizeAfter9
<1>2. CASE F[n].fromSlot # 0
  <2> DEFINE s == F[n].fromSlot
  <2>1. s \in Slots /\ SizeAfter9(p, F[n]) = p.size[s]
    BY <1>2 DEF Frames9, Slots9, SizeAfter9
  <2>2. PICK v \in 1..n - 1 : Latest(v, Writers9(F, n - 1, s)) /\ F[n].size = F[v].size
    BY <1>2 DEF SizedAfter9
  <2>3. PICK w \in 1..k : Latest(w, Writers9(F, k, s)) /\ p.size[s] = F[w].size
    BY <1>2, <2>1 DEF SlotSaid9
  <2>4. CASE n \in Writers9(F, k, s)
    <3>1. w = n
      BY <2>3, <2>4 DEF Latest, Writers9
    <3> QED BY <2>1, <2>3, <3>1
  <2>5. CASE n \notin Writers9(F, k, s)
    <3>1. Writers9(F, k, s) = Writers9(F, n - 1, s)
      BY <2>5 DEF Writers9
    <3>2. v = w
      BY <2>2, <2>3, <3>1, LatestIsOne
    <3> QED BY <2>1, <2>2, <2>3, <3>2
  <2> QED BY <2>4, <2>5
<1> QED BY <1>1, <1>2

LEMMA SlotSays9 ==
  ASSUME NEW F, NEW n \in Nat \ {0}, NEW k, k = n \/ k = n - 1, NEW p, NEW u, NEW s \in Slots,
         F[n].kind = "key" \/ SlotSaid9(p, F, k, s),
         u.size[s] = IF F[n].kind = "key" \/ s \in F[n].refresh THEN F[n].size ELSE p.size[s]
  PROVE  SlotSaid9(u, F, n, s)
<1>1. CASE F[n].kind = "key" \/ s \in F[n].refresh
  <2>1. Latest(n, Writers9(F, n, s))
    BY <1>1, LatestTop DEF Writers9
  <2> QED BY <1>1, <2>1 DEF SlotSaid9
<1>2. CASE ~(F[n].kind = "key" \/ s \in F[n].refresh)
  <2>1. Writers9(F, n, s) = Writers9(F, k, s)
    BY <1>2 DEF Writers9
  <2>2. PICK w \in 1..k : Latest(w, Writers9(F, k, s)) /\ p.size[s] = F[w].size
    BY <1>2 DEF SlotSaid9
  <2>3. w \in 1..n
    OBVIOUS
  <2> QED BY <1>2, <2>1, <2>2, <2>3 DEF SlotSaid9
<1> QED BY <1>1, <1>2

\* The last frame, a key frame or one after what is kept says it, whether it was parsed before or not.
LEMMA FrameSays9 ==
  ASSUME NEW p, TypedOf9(p), NEW F, NEW n \in Nat \ {0}, F[n] \in Frames9, NEW k, k = n \/ k = n - 1,
         F[n].kind = "key" => n = 1, F[n].kind # "key" => Said9(p, F, k), SizedAfter9(F, n)
  PROVE  LET u == Par9!Update(Par9!Begin(p, F[n]), F[n])
         IN  Said9(u, F, n) /\ DecodedWith9(u, F[n])
<1> DEFINE f == F[n]
           b == Par9!Begin(p, f)
           u == Par9!Update(b, f)
<1>1. /\ TypedOf9(b) /\ TablesOf9(b) /\ b.depth = IF Par9!KeyOrIntraOnly(f) THEN f.depth ELSE p.depth
      /\ f.kind # "key" => /\ b.deltas = p.deltas /\ b.features = p.features /\ b.map = p.map /\ b.color = p.color
                           /\ b.size = p.size
      /\ f.kind = "key" => b.map = 0
  <2>1. f.kind # "key" => TablesOf9(p)
    BY DEF Said9
  <2> QED BY <2>1, BeginOf9
<1> HIDE DEF b
<1> DEFINE size == SizeAfter9(b, f)
<1>2. /\ TypedOf9(u) /\ TablesOf9(u) /\ u.deltaQ = f.deltaQ /\ u.depth = b.depth
      /\ u.color = IF Par9!KeyOrIntraOnly(f) THEN f.depth ELSE b.color
      /\ \A d \in Par9!Deltas : u.deltas[d] = DeltaOf9(b, f, d)
      /\ u.lossless = (f.baseQ = 0 /\ f.deltaQ = 0)
      /\ u.features = FeaturesAfter9(b, f)
      /\ u.map = IF f.enabled /\ f.map # 0 THEN f.map ELSE b.map
      /\ \A s \in Slots : u.size[s] = IF f.kind = "key" \/ s \in f.refresh THEN size ELSE b.size[s]
      /\ u.frameSize = size /\ u.seg = SegmentOf9(u, f)
  BY <1>1, UpdateOf9
<1> HIDE DEF u, size
<1> DEFINE j == IF f.kind = "key" THEN n - 1 ELSE k
<1>3. j = n \/ j = n - 1
  OBVIOUS
<1>4. f.kind = "key" => n = 1 /\ j = 0 /\ Par9!KeyOrIntraOnly(f) /\ Resets9(f) /\ f.fromSlot = 0
  <2> SUFFICES ASSUME f.kind = "key"
               PROVE  n = 1 /\ j = 0 /\ Par9!KeyOrIntraOnly(f) /\ Resets9(f) /\ f.fromSlot = 0
    OBVIOUS
  <2>1. n = 1 /\ j = 0 /\ Par9!KeyOrIntraOnly(f) /\ Resets9(f)
    BY DEF Par9!KeyOrIntraOnly, Resets9
  <2>2. 1..n - 1 = {}
    BY <2>1
  <2> QED BY <2>1, <2>2 DEF SizedAfter9
<1>5. f.kind # "key" => Said9(p, F, j)
  OBVIOUS
<1>6. DepthSaid9(u, F, n)
  <2>1. Par9!KeyOrIntraOnly(f) \/ DepthSaid9(b, F, j)
    <3>1. f.kind # "key" /\ ~Par9!KeyOrIntraOnly(f) => DepthSaid9(p, F, j) /\ b.depth = p.depth /\ b.color = p.color
      BY <1>1, <1>5 DEF Said9
    <3> QED BY <1>4, <3>1 DEF DepthSaid9
  <2>2. u.depth = IF Par9!KeyOrIntraOnly(f) THEN f.depth ELSE b.depth
    BY <1>1, <1>2
  <2> HIDE DEF j
  <2> QED BY <1>2, <1>3, <2>1, <2>2, DepthSays9
<1>7. MapSaid9(u, F, n)
  <2>1. MapSaid9(b, F, j)
    <3>1. CASE f.kind = "key"
      <4>1. Mapped9(F, 0) = {} /\ Latest(0, {}) /\ 0 \in 0..0
        BY DEF Mapped9, Latest
      <4> QED BY <1>1, <1>4, <3>1, <4>1 DEF MapSaid9
    <3>2. CASE f.kind # "key"
      BY <1>1, <1>5, <3>2 DEF Said9, MapSaid9
    <3> QED BY <3>1, <3>2
  <2> HIDE DEF j
  <2> QED BY <1>2, <1>3, <2>1, MapSays9
<1>8. \E r \in 1..n : Latest(r, Resetting9(F, n)) /\ DeltasSaid9(u, F, r, n) /\ FeaturesSaid9(u, F, r, n)
  <2>1. Resets9(f) \/ \E r \in 1..j : Latest(r, Resetting9(F, j)) /\ DeltasSaid9(b, F, r, j) /\ FeaturesSaid9(b, F, r, j)
    <3>1. CASE f.kind = "key"
      BY <1>4, <3>1
    <3>2. CASE f.kind # "key"
      BY <1>1, <1>5, <3>2 DEF Said9, DeltasSaid9, FeaturesSaid9
    <3> QED BY <3>1, <3>2
  <2> HIDE DEF j
  <2> QED BY <1>2, <1>3, <2>1, SinceReset9
<1>9. size = f.size
  <2>1. f.fromSlot # 0 => \A s \in Slots : SlotSaid9(b, F, j, s)
    BY <1>1, <1>4, <1>5 DEF Said9, SlotSaid9
  <2> HIDE DEF j
  <2> QED BY <1>3, <2>1, SizeSays9 DEF size
<1>10. ASSUME NEW s \in Slots
       PROVE  SlotSaid9(u, F, n, s)
  <2>1. f.kind = "key" \/ SlotSaid9(b, F, j, s)
    BY <1>1, <1>5 DEF Said9, SlotSaid9
  <2>2. u.size[s] = IF f.kind = "key" \/ s \in f.refresh THEN f.size ELSE b.size[s]
    BY <1>2, <1>9
  <2> HIDE DEF j
  <2> QED BY <1>3, <2>1, <2>2, SlotSays9
<1>11. Said9(u, F, n) /\ DecodedWith9(u, f)
  BY <1>2, <1>6, <1>7, <1>8, <1>9, <1>10 DEF Said9, DecodedWith9
<1> QED BY <1>11 DEF u, b

\* Every frame since the last key frame says what the parser keeps.
InvOfPar9 ==
    /\ TypedOf9(parser) /\ frames \in Seq(Frames9) /\ sound \in BOOLEAN
    /\ sound =>
          /\ frames # <<>> /\ frames[1].kind = "key"
          /\ \A i \in 1..Len(frames) : i > 1 => frames[i].kind # "key"
          /\ Said9(parser, frames, Len(frames)) /\ DecodedWith9(parser, frames[Len(frames)])
          /\ SizedAfter9(frames, Len(frames))

\* What a sequence says is what it said before more frames came.
LEMMA SaidMore9 ==
  ASSUME NEW F \in Seq(Frames9), NEW f, NEW p, Said9(p, F, Len(F))
  PROVE  Said9(p, Append(F, f), Len(F))
<1> DEFINE T == Append(F, f)
           n == Len(F)
<1>1. n \in Nat /\ \A i \in 1..n : T[i] = F[i]
  OBVIOUS
<1>2. Said9(p, F, n)
  OBVIOUS
<1> HIDE DEF T, n
<1>3. Intras9(T, n) = Intras9(F, n) /\ Resetting9(T, n) = Resetting9(F, n) /\ Mapped9(T, n) = Mapped9(F, n)
      /\ \A s : Writers9(T, n, s) = Writers9(F, n, s)
  BY <1>1 DEF Intras9, Resetting9, Mapped9, Writers9
<1>4. \A r \in 1..n : Saved9(T, r, n) = Saved9(F, r, n) /\ \A k : Given9(T, r, n, k) = Given9(F, r, n, k)
  BY <1>1 DEF Saved9, Given9
<1>5. \A m \in 0..n : m # 0 => T[m] = F[m]
  BY <1>1
<1>6. TypedOf9(p) /\ TablesOf9(p) /\ DepthSaid9(p, T, n)
  BY <1>1, <1>2, <1>3 DEF Said9, DepthSaid9
<1>7. MapSaid9(p, T, n)
  <2>1. PICK m \in 0..n : Latest(m, Mapped9(F, n)) /\ p.map = IF m = 0 THEN 0 ELSE F[m].map
    BY <1>2 DEF Said9, MapSaid9
  <2> QED BY <2>1, <1>3, <1>5 DEF MapSaid9
<1>8. \A s \in Slots : SlotSaid9(p, T, n, s)
  BY <1>1, <1>2, <1>3 DEF Said9, SlotSaid9
<1>9. PICK r \in 1..n : Latest(r, Resetting9(F, n)) /\ DeltasSaid9(p, F, r, n) /\ FeaturesSaid9(p, F, r, n)
  BY <1>2 DEF Said9
<1>10. DeltasSaid9(p, T, r, n)
  <2> SUFFICES ASSUME NEW k \in Par9!Deltas
               PROVE  \E g \in 0..n : /\ Latest(g, Given9(T, r, n, k))
                                      /\ p.deltas[k] = IF g = 0 THEN Par9!DefaultDeltas[k] ELSE T[g].deltas[k]
    BY DEF DeltasSaid9
  <2>1. PICK g \in 0..n : /\ Latest(g, Given9(F, r, n, k))
                          /\ p.deltas[k] = IF g = 0 THEN Par9!DefaultDeltas[k] ELSE F[g].deltas[k]
    BY <1>9 DEF DeltasSaid9
  <2> QED BY <2>1, <1>4, <1>5
<1>11. FeaturesSaid9(p, T, r, n)
  <2>1. PICK g \in 0..n : Latest(g, Saved9(F, r, n)) /\ p.features = IF g = 0 THEN Par9!NoFeatures ELSE F[g].features[1]
    BY <1>9 DEF FeaturesSaid9
  <2> QED BY <2>1, <1>4, <1>5 DEF FeaturesSaid9
<1> QED BY <1>3, <1>6, <1>7, <1>8, <1>9, <1>10, <1>11 DEF Said9, T, n

\* The parser has its shape, whatever it parses and wherever it breaks off.
LEMMA ParserTyped9 ==
  ASSUME NEW p, TypedOf9(p), NEW f \in Frames9
  PROVE  TypedOf9(Par9!Begin(p, f)) /\ TypedOf9(Par9!Update(Par9!Begin(p, f), f))
<1> DEFINE b == Par9!Begin(p, f)
           s1 == Par9!SetupPastIndependence(b, f)
           s2 == Par9!ColorConfigUpdate(s1, f)
           s3 == Par9!LoopFilterUpdate(s2, f)
           s4 == Par9!QuantizationUpdate(s3, f)
           s5 == Par9!SegmentationSave(s4, f)
           s6 == Par9!SegmentationUpdate(s5, f)
           u == Par9!ReferenceUpdate(s6, f, Par9!SizeOf(b, f))
<1>1. TypedOf9(b)
  BY DEF Par9!Begin, Par9!Cleared, TypedOf9
<1> HIDE DEF b
<1>2. TypedOf9(s1)
  <2>1. s1 = b \/ \E x, y : s1 = [b EXCEPT !.deltas = x, !.features = y]
    BY DEF Par9!SetupPastIndependence
  <2> HIDE DEF s1
  <2> QED BY <1>1, <2>1 DEF TypedOf9
<1> HIDE DEF s1
<1>3. TypedOf9(s2)
  <2>1. s2 = s1 \/ \E x : s2 = [s1 EXCEPT !.color = x]
    BY DEF Par9!ColorConfigUpdate
  <2> HIDE DEF s2
  <2> QED BY <1>2, <2>1 DEF TypedOf9
<1> HIDE DEF s2
<1>4. TypedOf9(s3)
  <2>1. \E x : s3 = [s2 EXCEPT !.deltas = x]
    BY DEF Par9!LoopFilterUpdate
  <2> HIDE DEF s3
  <2> QED BY <1>3, <2>1 DEF TypedOf9
<1> HIDE DEF s3
<1>5. TypedOf9(s4)
  <2>1. \E x, y, z : s4 = [s3 EXCEPT !.deltaQ = x, !.dequant = y, !.lossless = z]
    BY DEF Par9!QuantizationUpdate
  <2> HIDE DEF s4
  <2> QED BY <1>4, <2>1 DEF TypedOf9
<1> HIDE DEF s4
<1>6. TypedOf9(s5)
  <2>1. \E x, y : s5 = [s4 EXCEPT !.map = x, !.features = y]
    BY DEF Par9!SegmentationSave
  <2> HIDE DEF s5
  <2> QED BY <1>5, <2>1 DEF TypedOf9
<1> HIDE DEF s5
<1>7. TypedOf9(s6)
  <2>1. \E x : s6 = [s5 EXCEPT !.seg = x]
    BY DEF Par9!SegmentationUpdate
  <2> HIDE DEF s6
  <2> QED BY <1>6, <2>1 DEF TypedOf9
<1> HIDE DEF s6
<1>8. TypedOf9(u)
  <2>1. \E x, y : u = [s6 EXCEPT !.size = x, !.frameSize = y]
    BY DEF Par9!ReferenceUpdate
  <2> HIDE DEF u
  <2> QED BY <1>7, <2>1 DEF TypedOf9
<1>9. u = Par9!Update(b, f)
  BY DEF Par9!Update, s1, s2, s3, s4, s5, s6
<1> HIDE DEF u
<1> QED BY <1>1, <1>8, <1>9 DEF b

\* A key frame begins the history.
LEMMA ParseKeySays9 ==
  ASSUME InvOfPar9, Par9!ParseKey
  PROVE  InvOfPar9'
<1>1. PICK f \in Par9!KeyVariants : parser' = Par9!Update(Par9!Begin(parser, f), f) /\ frames' = <<f>>
  BY DEF Par9!ParseKey
<1>2. f \in Frames9 /\ f.kind = "key" /\ f.fromSlot = 0
  BY OwnFrames9
<1>4. TypedOf9(parser) /\ TypedOf9(parser')
  BY <1>1, <1>2, ParserTyped9 DEF InvOfPar9
<1> DEFINE F == <<f>>
<1>5. F[1] = f /\ Len(F) = 1 /\ F \in Seq(Frames9) /\ F # <<>> /\ 1..1 = {1}
  BY <1>2
<1> HIDE DEF F
<1>6. SizedAfter9(F, 1)
  BY <1>2, <1>5 DEF SizedAfter9
<1>7. Said9(parser', F, 1) /\ DecodedWith9(parser', F[1])
  <2>1. F[1] \in Frames9 /\ (F[1].kind = "key" => 1 = 1) /\ (F[1].kind # "key" => Said9(parser, F, 1)) /\ 1 \in Nat \ {0}
    BY <1>2, <1>5
  <2> QED BY <2>1, <1>1, <1>4, <1>5, <1>6, FrameSays9
<1>8. frames' = F /\ sound' = TRUE
  BY <1>1 DEF Par9!ParseKey, F
<1>9. F[1].kind = "key" /\ \A i \in 1..Len(F) : i > 1 => F[i].kind # "key"
  BY <1>2, <1>5
<1>10. Said9(parser', F, Len(F)) /\ DecodedWith9(parser', F[Len(F)]) /\ SizedAfter9(F, Len(F))
  BY <1>5, <1>6, <1>7
<1> QED BY <1>4, <1>5, <1>8, <1>9, <1>10 DEF InvOfPar9

\* Another frame goes on from it.
LEMMA ParseSays9 ==
  ASSUME InvOfPar9, Par9!Parse
  PROVE  InvOfPar9'
<1>1. PICK f \in (IF sound THEN Par9!InterVariants ELSE {Par9!Plain("inter")}) :
          /\ parser' = Par9!Update(Par9!Begin(parser, Par9!Sized(f)), Par9!Sized(f))
          /\ frames' = Append(frames, Par9!Sized(f))
  BY DEF Par9!Parse
<1>2. sound' = sound /\ TypedOf9(parser) /\ frames \in Seq(Frames9)
  BY DEF Par9!Parse, InvOfPar9
<1> DEFINE n == Len(frames)
           g == Par9!Sized(f)
<1>3. f \in Frames9 /\ f.kind # "key" /\ (~sound => f.fromSlot = 0)
  <2>1. CASE sound
    BY <2>1, OwnFrames9
  <2>2. CASE ~sound
    <3>1. f = Par9!Plain("inter")
      BY <2>2
    <3>2. f.kind = "inter" /\ f.fromSlot = 0
      BY <3>1 DEF Par9!Plain
    <3> QED BY <3>1, <3>2, PlainIs9
  <2> QED BY <2>1, <2>2
<1>5. sound => /\ n \in Nat \ {0} /\ frames[1].kind = "key" /\ Said9(parser, frames, n)
               /\ \A i \in 1..n : i > 1 => frames[i].kind # "key"
  BY <1>2 DEF InvOfPar9
\* What a slot holds is what its last writer says.
<1>6. ASSUME sound, f.fromSlot # 0
      PROVE  /\ Par9!Writer(f.fromSlot) \in 1..n /\ frames[Par9!Writer(f.fromSlot)].size \in Sizes9
             /\ Latest(Par9!Writer(f.fromSlot), Writers9(frames, n, f.fromSlot))
  <2> DEFINE s == f.fromSlot
  <2>1. s \in Slots
    BY <1>3, <1>6 DEF Frames9, Slots9
  <2>2. PICK w \in 1..n : Latest(w, Writers9(frames, n, s))
    BY <1>5, <1>6, <2>1 DEF Said9, SlotSaid9
  <2>3. Par9!Writer(s) = w
    BY <2>2, LatestIsLast9 DEF Par9!Writer, Writers9
  <2>4. frames[w] \in Frames9
    BY <1>2, <2>2
  <2> QED BY <2>2, <2>3, <2>4 DEF Frames9
<1>7. g = [f EXCEPT !.size = g.size] /\ g.size \in Sizes9
      /\ (f.fromSlot # 0 => sound /\ g.size = frames[Par9!Writer(f.fromSlot)].size)
  <2>1. f.fromSlot = 0 => g = [f EXCEPT !.size = f.size]
    BY DEF Par9!Sized
  <2>2. f.fromSlot # 0 => g = [f EXCEPT !.size = frames[Par9!Writer(f.fromSlot)].size]
    BY DEF Par9!Sized
  <2>3. f.fromSlot = 0 => f.size \in Sizes9
    BY <1>3 DEF Frames9
  <2>4. f.fromSlot # 0 => sound
    BY <1>3
  <2> HIDE DEF g
  <2>5. \A x : [f EXCEPT !.size = x].size = x
    BY <1>3 DEF Frames9
  <2> QED BY <2>1, <2>2, <2>3, <2>4, <2>5, <1>6
<1> HIDE DEF g
<1>8. g \in Frames9
  BY <1>3, <1>7 DEF Frames9
<1>9. g.kind = f.kind /\ g.fromSlot = f.fromSlot
  BY <1>3, <1>7 DEF Frames9
<1> DEFINE F == Append(frames, g)
           m == n + 1
<1>10. F \in Seq(Frames9) /\ Len(F) = m /\ m \in Nat \ {0} /\ F[m] = g /\ F # <<>> /\ \A i \in 1..n : F[i] = frames[i]
  BY <1>2, <1>8
<1>11. TypedOf9(parser') /\ frames' = F
  BY <1>1, <1>2, <1>8, ParserTyped9 DEF g
<1>12. sound => /\ Said9(parser', F, m) /\ DecodedWith9(parser', F[m]) /\ SizedAfter9(F, m)
                /\ F[1].kind = "key" /\ \A i \in 1..m : i > 1 => F[i].kind # "key"
  <2> SUFFICES ASSUME sound
               PROVE  /\ Said9(parser', F, m) /\ DecodedWith9(parser', F[m]) /\ SizedAfter9(F, m)
                      /\ F[1].kind = "key" /\ \A i \in 1..m : i > 1 => F[i].kind # "key"
    OBVIOUS
  <2>1. Said9(parser, F, n) /\ m - 1 = n /\ n \in Nat \ {0}
    BY <1>2, <1>5, SaidMore9
  <2>2. F[1].kind = "key" /\ \A i \in 1..m : i > 1 => F[i].kind # "key"
    BY <1>3, <1>5, <1>9, <1>10
  <2>3. SizedAfter9(F, m)
    <3> SUFFICES ASSUME F[m].fromSlot # 0
                 PROVE  \E w \in 1..m - 1 : Latest(w, Writers9(F, m - 1, F[m].fromSlot)) /\ F[m].size = F[w].size
      BY DEF SizedAfter9
    <3> DEFINE s == f.fromSlot
               w == Par9!Writer(s)
    <3>1. F[m].fromSlot = s /\ s # 0 /\ F[m].size = frames[w].size
      BY <1>7, <1>9, <1>10
    <3>2. w \in 1..n /\ Latest(w, Writers9(frames, n, s))
      BY <3>1, <1>6
    <3> HIDE DEF w
    <3>3. Writers9(F, n, s) = Writers9(frames, n, s)
      BY <1>10 DEF Writers9
    <3> QED BY <2>1, <3>1, <3>2, <3>3, <1>10
  <2>4. parser' = Par9!Update(Par9!Begin(parser, F[m]), F[m])
    BY <1>1, <1>10 DEF g
  <2>5. F[m] \in Frames9 /\ F[m].kind # "key" /\ TypedOf9(parser) /\ m \in Nat \ {0}
    BY <1>2, <1>3, <1>8, <1>9, <1>10 DEF InvOfPar9
  <2> HIDE DEF F, m
  <2>6. Said9(parser', F, m) /\ DecodedWith9(parser', F[m])
    BY <2>1, <2>3, <2>4, <2>5, FrameSays9
  <2> QED BY <2>2, <2>3, <2>6
<1> HIDE DEF F, m
<1>13. sound' \in BOOLEAN
  BY <1>2 DEF InvOfPar9
<1> QED BY <1>2, <1>10, <1>11, <1>12, <1>13 DEF InvOfPar9

\* A header that fails after it reset what was kept ends the history.
LEMMA ParseFailsSays9 ==
  ASSUME InvOfPar9, Par9!ParseFails
  PROVE  InvOfPar9'
<1>1. PICK f \in {Par9!Plain("inter")} \union Par9!IntraFrames \union Par9!KeyFrames :
          /\ parser' = Par9!Begin(parser, f) /\ sound' = (sound /\ parser' = parser)
          /\ frames' = IF sound' THEN frames ELSE <<>>
  BY DEF Par9!ParseFails
<1>2. f \in Frames9
  BY PlainIs9, OwnFrames9 DEF Par9!KeyVariants, Par9!InterVariants
<1>3. TypedOf9(parser')
  BY <1>1, <1>2, ParserTyped9 DEF InvOfPar9
<1>4. CASE sound'
  <2>1. sound /\ parser' = parser /\ frames' = frames /\ sound' = TRUE
    BY <1>1, <1>4 DEF InvOfPar9
  <2> QED BY <2>1 DEF InvOfPar9
<1>5. CASE ~sound'
  <2>1. frames' = <<>> /\ frames' \in Seq(Frames9) /\ sound' \in BOOLEAN
    BY <1>1, <1>5
  <2> QED BY <1>3, <1>5, <2>1 DEF InvOfPar9
<1> QED BY <1>4, <1>5

\* The last frame may be parsed again.
LEMMA ParseAgainSays9 ==
  ASSUME Hard = {}, InvOfPar9, Par9!ParseAgain
  PROVE  InvOfPar9'
<1> DEFINE n == Len(frames)
<1>1. /\ n \in Nat /\ 1 <= n /\ frames \in Seq(Frames9) /\ sound' = sound
      /\ parser' = Par9!Update(Par9!Begin(parser, frames[n]), frames[n]) /\ frames' = SubSeq(frames, 1, n)
  <2>1. PICK m \in 1..(IF "super frame again" \in Hard THEN 2 ELSE 1) :
          /\ m <= Len(frames)
          /\ parser' = Par9!Update(Par9!Begin(parser, frames[Len(frames) - m + 1]), frames[Len(frames) - m + 1])
          /\ frames' = SubSeq(frames, 1, Len(frames) - m + 1)
    BY DEF Par9!ParseAgain
  <2>2. m = 1
    OBVIOUS
  <2>3. frames \in Seq(Frames9) /\ n \in Nat /\ n - 1 + 1 = n
    BY DEF InvOfPar9
  <2> QED BY <2>1, <2>2, <2>3 DEF Par9!ParseAgain
<1>2. frames' = frames
  BY <1>1
<1>3. frames[n] \in Frames9
  BY <1>1
<1>4. TypedOf9(parser) /\ TypedOf9(parser')
  BY <1>1, <1>3, ParserTyped9 DEF InvOfPar9
<1>5. sound => Said9(parser', frames, n) /\ DecodedWith9(parser', frames[n])
  <2> SUFFICES ASSUME sound
               PROVE  Said9(parser', frames, n) /\ DecodedWith9(parser', frames[n])
    OBVIOUS
  <2>1. Said9(parser, frames, n) /\ SizedAfter9(frames, n) /\ (frames[n].kind = "key" => n = 1) /\ n \in Nat \ {0}
    <3>1. Said9(parser, frames, n) /\ SizedAfter9(frames, n) /\ \A i \in 1..n : i > 1 => frames[i].kind # "key"
      BY <1>1 DEF InvOfPar9
    <3>2. n \in Nat \ {0} /\ n \in 1..n
      BY <1>1
    <3> HIDE DEF n
    <3>3. frames[n].kind = "key" => n = 1
      BY <3>1, <3>2
    <3> QED BY <3>1, <3>2, <3>3
  <2> HIDE DEF n
  <2> QED BY <1>1, <1>3, <1>4, <2>1, FrameSays9
<1> QED BY <1>1, <1>2, <1>4, <1>5 DEF InvOfPar9

\* A new parser, with whatever its memory holds.
LEMMA NewParser9 ==
  ASSUME NEW p \in Par9!Allocated
  PROVE  TypedOf9(p)
<1> DEFINE c == Par9!Cleared(10)
<1>1. TypedOf9(Par9!Cleared(8)) /\ TypedOf9(c)
  BY DEF Par9!Cleared, TypedOf9
<1>2. p = Par9!Cleared(8) \/ \E x, y : p = [c EXCEPT !.deltas = x, !.deltaQ = 1, !.map = 1, !.size = y]
  BY DEF Par9!Allocated
<1> HIDE DEF c
<1>3. (\E x, y : p = [c EXCEPT !.deltas = x, !.deltaQ = 1, !.map = 1, !.size = y]) => TypedOf9(p)
  BY <1>1 DEF TypedOf9
<1> QED BY <1>1, <1>2, <1>3

LEMMA NewSays9 ==
  /\ Par9!Init => InvOfPar9
  /\ Par9!Flush => InvOfPar9'
<1>1. <<>> \in Seq(Frames9) /\ FALSE \in BOOLEAN
  OBVIOUS
<1>2. Par9!Init => InvOfPar9
  BY <1>1, NewParser9 DEF Par9!Init, InvOfPar9
<1>3. Par9!Flush => InvOfPar9'
  BY <1>1, NewParser9 DEF Par9!Flush, InvOfPar9
<1> QED BY <1>2, <1>3

\* What the parser says is what the property reads backwards.
LEMMA SaidIsTrue9 ==
  ASSUME InvOfPar9
  PROVE  Par9!HeadersAreTrue
<1> DEFINE n == Len(frames)
           f == frames[n]
           ds == {i \in 1..n : Par9!KeyOrIntraOnly(frames[i])}
           rs == {i \in 1..n : Par9!KeyOrIntraOnly(frames[i]) \/ frames[i].resilient}
           ms == {i \in 1..n : frames[i].enabled /\ frames[i].map # 0}
<1>1. SUFFICES ASSUME sound, frames # <<>>
      PROVE  LET intra    == Par9!LastOf(ds)
                 reset    == Par9!LastOf(rs)
                 given(k) == Par9!LastOf({i \in reset..n : k \in DOMAIN frames[i].deltas})
                 delta(k) == IF given(k) = 0 THEN Par9!DefaultDeltas[k] ELSE frames[given(k)].deltas[k]
                 saved    == Par9!LastOf({i \in reset..n : frames[i].enabled /\ frames[i].features # <<>>})
                 feature  == IF saved = 0 THEN Par9!NoFeatures ELSE frames[saved].features[1]
                 mapped   == Par9!LastOf(ms)
                 base     == IF f.enabled /\ feature.lf # 0
                             THEN IF feature.abs THEN feature.lf ELSE f.level + feature.lf
                             ELSE f.level
                 scale    == 1 + (f.level \div 32)
             IN  /\ parser.depth = frames[intra].depth /\ parser.color = parser.depth
                 /\ parser.frameSize = f.size /\ \A s \in Slots : parser.size[s] = frames[Par9!Writer(s)].size
                 /\ parser.seg.dequant = [depth |-> frames[intra].depth, delta |-> f.deltaQ]
                 /\ parser.lossless = (f.baseQ = 0 /\ f.deltaQ = 0)
                 /\ parser.map = IF mapped = 0 THEN 0 ELSE frames[mapped].map
                 /\ parser.seg.ref = feature.ref
                 /\ parser.seg.q = IF ~f.enabled \/ feature.q = 0 THEN f.baseQ
                                   ELSE IF feature.abs THEN Par9!Clamp(feature.q, 255)
                                   ELSE Par9!Clamp(f.baseQ + feature.q, 255)
                 /\ f.level # 0 => parser.seg.levels =
                        IF f.deltaEnabled
                        THEN <<Par9!Clamp(Par9!Clamp(base, 63) + delta("intra") * scale, 63),
                               Par9!Clamp(Par9!Clamp(base, 63) + (delta("golden") + delta("mode")) * scale, 63)>>
                        ELSE <<Par9!Clamp(base, 63), Par9!Clamp(base, 63)>>
  BY Zenon DEF Par9!HeadersAreTrue
<1>2. Said9(parser, frames, n) /\ DecodedWith9(parser, f) /\ n \in Nat \ {0} /\ \A i \in 1..n : frames[i] \in Frames9
  BY <1>1 DEF InvOfPar9
<1> HIDE DEF n
<1>3. PICK d \in 1..n : Latest(d, Intras9(frames, n)) /\ parser.depth = frames[d].depth /\ parser.color = frames[d].depth
  BY <1>2 DEF Said9, DepthSaid9
<1>4. PICK r \in 1..n : Latest(r, Resetting9(frames, n)) /\ DeltasSaid9(parser, frames, r, n) /\ FeaturesSaid9(parser, frames, r, n)
  BY <1>2 DEF Said9
<1>5. PICK m \in 0..n : Latest(m, Mapped9(frames, n)) /\ parser.map = IF m = 0 THEN 0 ELSE frames[m].map
  BY <1>2 DEF Said9, MapSaid9
<1>6. PICK v \in 0..n : Latest(v, Saved9(frames, r, n)) /\ parser.features = IF v = 0 THEN Par9!NoFeatures ELSE frames[v].features[1]
  BY <1>4 DEF FeaturesSaid9
<1> DEFINE intra    == Par9!LastOf(ds)
           reset    == Par9!LastOf(rs)
           given(k) == Par9!LastOf({i \in reset..n : k \in DOMAIN frames[i].deltas})
           delta(k) == IF given(k) = 0 THEN Par9!DefaultDeltas[k] ELSE frames[given(k)].deltas[k]
           saved    == Par9!LastOf({i \in reset..n : frames[i].enabled /\ frames[i].features # <<>>})
           feature  == IF saved = 0 THEN Par9!NoFeatures ELSE frames[saved].features[1]
           mapped   == Par9!LastOf(ms)
           base     == IF f.enabled /\ feature.lf # 0
                       THEN IF feature.abs THEN feature.lf ELSE f.level + feature.lf
                       ELSE f.level
           scale    == 1 + (f.level \div 32)
<1>7. intra = d /\ reset = r /\ mapped = m /\ saved = v
  <2>1. ds = Intras9(frames, n) /\ rs = Resetting9(frames, n) /\ ms = Mapped9(frames, n)
    BY DEF Intras9, Resetting9, Mapped9, Resets9
  <2> HIDE DEF ds, rs, ms
  <2>2. intra = d
    BY <1>3, <2>1, LatestIsLast9
  <2>3. reset = r
    BY <1>4, <2>1, LatestIsLast9
  <2>4. mapped = m
    BY <1>5, <2>1, LatestIsLast9
  <2> HIDE DEF reset
  <2>5. {i \in reset..n : frames[i].enabled /\ frames[i].features # <<>>} = Saved9(frames, r, n)
    BY <2>3 DEF Saved9
  <2> QED BY <1>6, <2>2, <2>3, <2>4, <2>5, LatestIsLast9
<1> HIDE DEF ds, rs, ms, intra, reset, saved, mapped
<1>8. parser.features = feature
  BY <1>6, <1>7
<1>9. ASSUME NEW k \in Par9!Deltas
      PROVE  parser.deltas[k] = delta(k)
  <2>1. PICK g \in 0..n : /\ Latest(g, Given9(frames, r, n, k))
                          /\ parser.deltas[k] = IF g = 0 THEN Par9!DefaultDeltas[k] ELSE frames[g].deltas[k]
    BY <1>4 DEF DeltasSaid9
  <2>2. Given9(frames, r, n, k) = {i \in reset..n : k \in DOMAIN frames[i].deltas}
    BY <1>7 DEF Given9
  <2>3. given(k) = g
    BY <2>1, <2>2, LatestIsLast9
  <2> HIDE DEF given
  <2> QED BY <2>1, <2>3
<1>10. ASSUME NEW s \in Slots
       PROVE  parser.size[s] = frames[Par9!Writer(s)].size
  <2>1. PICK w \in 1..n : Latest(w, Writers9(frames, n, s)) /\ parser.size[s] = frames[w].size
    BY <1>2 DEF Said9, SlotSaid9
  <2>2. Par9!Writer(s) = w
    BY <2>1, LatestIsLast9 DEF Par9!Writer, Writers9, n
  <2> QED BY <2>1, <2>2
<1>11. f.level \in 0..63 /\ f.baseQ \in 0..255 /\ feature.abs \in BOOLEAN /\ feature.q \in Int /\ feature.lf \in Int
       /\ f.enabled \in BOOLEAN /\ f.deltaEnabled \in BOOLEAN
  <2>1. n \in 1..n /\ f \in Frames9
    BY <1>2
  <2>2. CASE v = 0
    <3>1. feature = Par9!NoFeatures
      BY <1>7, <2>2
    <3> HIDE DEF feature
    <3>2. feature.abs \in BOOLEAN /\ feature.q \in Int /\ feature.lf \in Int
      BY <3>1 DEF Par9!NoFeatures
    <3> QED BY <2>1, <3>2 DEF Frames9, Levels9, Bases9
  <2>3. CASE v # 0
    <3>1. v \in 1..n /\ frames[v].features # <<>>
      BY <1>6, <2>3 DEF Latest, Saved9
    <3>2. frames[v] \in Frames9 /\ feature = frames[v].features[1]
      BY <1>2, <1>7, <2>3, <3>1
    <3>3. feature.abs \in BOOLEAN /\ feature.q \in Int /\ feature.lf \in Int
      <4>1. frames[v].features \in FeatureSets9
        BY <3>2 DEF Frames9
      <4>2. PICK x \in [abs : BOOLEAN, q : Int, lf : Int, ref : Nat] : frames[v].features = <<x>>
        BY <3>1, <4>1 DEF FeatureSets9
      <4>3. feature = x
        BY <3>2, <4>2
      <4> QED BY <4>3
    <3> QED BY <2>1, <3>3 DEF Frames9, Levels9, Bases9
  <2> QED BY <2>2, <2>3
<1>12. parser.seg.dequant = [depth |-> frames[intra].depth, delta |-> f.deltaQ] /\ parser.seg.ref = feature.ref
       /\ parser.frameSize = f.size /\ parser.lossless = (f.baseQ = 0 /\ f.deltaQ = 0)
       /\ parser.depth = frames[intra].depth /\ parser.color = parser.depth
  BY <1>2, <1>3, <1>7, <1>8 DEF DecodedWith9, SegmentOf9, Said9, TablesOf9
<1> HIDE DEF feature
<1>13. parser.seg.q = IF ~f.enabled \/ feature.q = 0 THEN f.baseQ
                      ELSE IF feature.abs THEN Par9!Clamp(feature.q, 255) ELSE Par9!Clamp(f.baseQ + feature.q, 255)
  <2>1. parser.seg.q = Par9!OfSegment(f.baseQ, feature.q, parser, f, 255)
    BY <1>2, <1>8 DEF DecodedWith9, SegmentOf9
  <2>2. parser.seg.q = Par9!Clamp(IF ~f.enabled \/ feature.q = 0 THEN f.baseQ
                                  ELSE IF feature.abs THEN feature.q ELSE f.baseQ + feature.q, 255)
    BY <1>8, <2>1 DEF Par9!OfSegment
  <2>3. Par9!Clamp(f.baseQ, 255) = f.baseQ
    BY <1>11 DEF Par9!Clamp
  <2> HIDE DEF f
  <2> QED BY <2>2, <2>3
<1>14. f.level # 0 => parser.seg.levels =
           IF f.deltaEnabled
           THEN <<Par9!Clamp(Par9!Clamp(base, 63) + delta("intra") * scale, 63),
                  Par9!Clamp(Par9!Clamp(base, 63) + (delta("golden") + delta("mode")) * scale, 63)>>
           ELSE <<Par9!Clamp(base, 63), Par9!Clamp(base, 63)>>
  <2>1. "intra" \in Par9!Deltas /\ "golden" \in Par9!Deltas /\ "mode" \in Par9!Deltas
    BY DEF Par9!Deltas
  <2>2. parser.deltas["intra"] = delta("intra") /\ parser.deltas["golden"] = delta("golden")
        /\ parser.deltas["mode"] = delta("mode")
    BY <1>9, <2>1
  <2>3. scale = IF f.level >= 32 THEN 2 ELSE 1
    BY <1>11
  <2>4. Par9!OfSegment(f.level, feature.lf, parser, f, 63) = Par9!Clamp(base, 63)
    <3>1. Par9!OfSegment(f.level, feature.lf, parser, f, 63) =
              Par9!Clamp(IF ~f.enabled \/ feature.lf = 0 THEN f.level
                         ELSE IF feature.abs THEN feature.lf ELSE f.level + feature.lf, 63)
      BY <1>8 DEF Par9!OfSegment
    <3>2. (IF ~f.enabled \/ feature.lf = 0 THEN f.level
           ELSE IF feature.abs THEN feature.lf ELSE f.level + feature.lf) = base
      BY <1>11
    <3> QED BY <3>1, <3>2
  <2> HIDE DEF delta, base, scale, f
  <2>5. f.level # 0 => parser.seg.levels = Par9!FilterLevels(Par9!Clamp(base, 63), parser, f)
    BY <1>2, <1>8, <2>4 DEF DecodedWith9, SegmentOf9
  <2> QED BY <2>2, <2>3, <2>5 DEF Par9!FilterLevels
<1>15. parser.map = IF mapped = 0 THEN 0 ELSE frames[mapped].map
  BY <1>5, <1>7
<1> QED BY <1>10, <1>12, <1>13, <1>14, <1>15 DEF intra, reset, saved, mapped, feature

\* A frame of VP9 is decoded with what the frames since the last key frame said.
THEOREM Vp9HeadersAreTrue ==
  ASSUME Hard = {}
  PROVE  Par9!Spec => []Par9!HeadersAreTrue
<1>1. Par9!Init => InvOfPar9
  BY NewSays9
<1>2. InvOfPar9 /\ [Par9!Next]_Par9!vars => InvOfPar9'
  <2>1. InvOfPar9 /\ UNCHANGED Par9!vars => InvOfPar9'
    BY DEF InvOfPar9, Par9!vars
  <2> QED BY <2>1, NewSays9, ParseKeySays9, ParseSays9, ParseFailsSays9, ParseAgainSays9 DEF Par9!Next
<1>3. InvOfPar9 => Par9!HeadersAreTrue
  BY SaidIsTrue9
<1> QED BY <1>1, <1>2, <1>3, PTL DEF Par9!Spec
=============================================================================
