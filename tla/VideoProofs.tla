----------------------------- MODULE VideoProofs -----------------------------
(***************************************************************************)
(* What DisplayProofs and VpxProofs show of a decoder, an encoder or a     *)
(* parser alone holds of the instances that VideoDecoders, VideoEncoders   *)
(* and VideoParsers make of them: a behaviour that starts with a MIME type *)
(* is one of the class that the host creates for that type, and keeps that *)
(* class's promises.                                                       *)
(*                                                                         *)
(* An instance of a module has definitions of its own: Decoders!Vc1!Next   *)
(* and Display!Vc1!Next are the same text over the same constants, which   *)
(* the lemmas named Same... show once per action.                          *)
(***************************************************************************)
EXTENDS MCVideoCodecs, TLAPS

vars == <<side, sharedVars, decoderVars, encoderVars, parserVars>>

\* The proofs, with the constants of VideoDecoders, VideoEncoders and VideoParsers.
Display == INSTANCE DisplayProofs WITH Hard <- {}, MaxFramesOfVc1 <- 6, MaxFramesOfMpeg2 <- 5, MaxSpecial <- 2
Vpx     == INSTANCE VpxProofs WITH ConfigsOf8 <- Encoders!Vp8Configs, ConfigsOf9 <- Encoders!Vp9Configs, KeyPeriod <- 6,
               Slots <- 1..2, PoolSize <- 3, Sizes <- 1..2, HardStreams <- {}, MaxFrames8 <- 9, MaxFrames9 <- 8,
               MaxSpecial <- 3, MaxDecoded <- 4, MaxDecodedSpecial <- 1, MaxParsed <- 3

\* What a behaviour is one of.
Is(what, type) == side = what /\ mime = type

\* It stays that: createVideoDecoder() and createVideoEncoder() look at the MIME type once.
LEMMA StaysItself ==
  ASSUME NEW what, NEW type, [Next]_vars
  PROVE  Is(what, type)' = Is(what, type)
<1>1. Decoders!Next => mime' = mime
  BY DEF Decoders!Next, Decoders!NextAvc, Decoders!NextHevc, Decoders!NextMpeg2, Decoders!NextVc1, Decoders!NextVp9
<1>2. Encoders!Next => mime' = mime
  BY DEF Encoders!Next
<1>3. side' = side /\ mime' = mime
  BY <1>1, <1>2 DEF Next, Decode, Encode, Parse, vars, sharedVars
<1> QED BY <1>3 DEF Is

-----------------------------------------------------------------------------
(* VC-1 *)

\* A step of a behaviour of this MIME type is one of the class.
LEMMA StepsOfDecodedVc1 ==
  ASSUME Is("decoder", "vc1"), [Next]_vars
  PROVE  [Decoders!Vc1!Next]_Decoders!Vc1!vars
<1>1. CASE UNCHANGED vars
  BY <1>1 DEF vars, sharedVars, decoderVars, Decoders!Vc1!vars
<1>2. CASE Next
  BY <1>2 DEF Is, Next, Decode, Encode, Parse, Decoders!Next, Decoders!NextAvc, Decoders!NextHevc,
              Decoders!NextMpeg2, Decoders!NextVc1, Decoders!NextVp9
<1> QED BY <1>1, <1>2

\* The two instances of the class have the same initial states, steps and properties.
LEMMA SameDecodedVc1 ==
  /\ Decoders!Vc1!Init => Display!Vc1!Init
  /\ [Decoders!Vc1!Next]_Decoders!Vc1!vars => [Display!Vc1!Next]_Display!Vc1!vars
  /\ Display!Vc1!OutputInOrder => Decoders!Vc1!OutputInOrder
  /\ Display!Vc1!NoPictureLost => Decoders!Vc1!NoPictureLost
  /\ Display!Vc1!ReferencesAreTrue => Decoders!Vc1!ReferencesAreTrue
<1>1. Decoders!Vc1!SendFrame => Display!Vc1!SendFrame
  BY Zenon DEF Decoders!Vc1!SendFrame, Display!Vc1!SendFrame, Decoders!Vc1!OutputPicture,
               Display!Vc1!OutputPicture, Decoders!Vc1!NextId, Display!Vc1!NextId,
               Decoders!Vc1!MaySend, Display!Vc1!MaySend, Decoders!Vc1!References,
               Display!Vc1!References, Decoders!Vc1!HasReferences, Display!Vc1!HasReferences,
               Decoders!Vc1!ReferencesOf, Display!Vc1!ReferencesOf, Decoders!Vc1!Store,
               Display!Vc1!Store, Decoders!Vc1!IsB, Display!Vc1!IsB, Decoders!Vc1!Last,
               Display!Vc1!Last
<1>2. Decoders!Vc1!BumpAll => Display!Vc1!BumpAll
  BY Zenon DEF Decoders!Vc1!BumpAll, Display!Vc1!BumpAll, Decoders!Vc1!OutputPicture,
               Display!Vc1!OutputPicture
<1>3. [Decoders!Vc1!Next]_Decoders!Vc1!vars => [Display!Vc1!Next]_Display!Vc1!vars
  BY <1>1, <1>2 DEF Decoders!Vc1!Next, Display!Vc1!Next, Decoders!Vc1!vars, Display!Vc1!vars
<1>4. Decoders!Vc1!Init => Display!Vc1!Init
  BY Zenon DEF Decoders!Vc1!Init, Display!Vc1!Init
<1>5. Display!Vc1!OutputInOrder => Decoders!Vc1!OutputInOrder
  BY Zenon DEF Decoders!Vc1!OutputInOrder, Display!Vc1!OutputInOrder, Decoders!Vc1!IsB,
               Display!Vc1!IsB, Decoders!Vc1!References, Display!Vc1!References, Decoders!Vc1!Newest,
               Display!Vc1!Newest, Decoders!Vc1!NewestTwo, Display!Vc1!NewestTwo,
               Decoders!Vc1!Wanted, Display!Vc1!Wanted, Decoders!Vc1!Precedes, Display!Vc1!Precedes,
               Decoders!Vc1!HasPlace, Display!Vc1!HasPlace, Decoders!Vc1!Displays,
               Display!Vc1!Displays
<1>6. Display!Vc1!NoPictureLost => Decoders!Vc1!NoPictureLost
  BY Zenon DEF Decoders!Vc1!NoPictureLost, Display!Vc1!NoPictureLost, Decoders!Vc1!Range,
               Display!Vc1!Range
<1>7. Display!Vc1!ReferencesAreTrue => Decoders!Vc1!ReferencesAreTrue
  BY Zenon DEF Decoders!Vc1!ReferencesAreTrue, Display!Vc1!ReferencesAreTrue, Decoders!Vc1!IsB,
               Display!Vc1!IsB, Decoders!Vc1!References, Display!Vc1!References, Decoders!Vc1!Newest,
               Display!Vc1!Newest, Decoders!Vc1!NewestTwo, Display!Vc1!NewestTwo,
               Decoders!Vc1!Wanted, Display!Vc1!Wanted, Decoders!Vc1!Range, Display!Vc1!Range
<1> QED BY <1>3, <1>4, <1>5, <1>6, <1>7

\* Frames of VC-1 leave in order, none is lost, and each has its references.
LEMMA Vc1Kept ==
  Spec => [](Is("decoder", "vc1") =>
                Decoders!Vc1!OutputInOrder /\ Decoders!Vc1!NoPictureLost /\ Decoders!Vc1!ReferencesAreTrue)
<1>1. Init /\ Is("decoder", "vc1") => Display!Vc1!Init
  BY SameDecodedVc1 DEF Is, Init, Decoders!Init, Decoders!InitAvc, Decoders!InitHevc, Decoders!InitMpeg2, Decoders!InitVc1,
     Decoders!InitVp9
<1>2. Is("decoder", "vc1") /\ [Next]_vars => [Display!Vc1!Next]_Display!Vc1!vars /\ Is("decoder", "vc1")'
  BY SameDecodedVc1, StepsOfDecodedVc1, StaysItself
<1>3. ~Is("decoder", "vc1") /\ [Next]_vars => ~Is("decoder", "vc1")'
  BY StaysItself
<1>4. Display!Vc1!Spec => [](Display!Vc1!OutputInOrder /\ Display!Vc1!NoPictureLost /\ Display!Vc1!ReferencesAreTrue)
  BY Display!Vc1Correct
<1>5. Display!Vc1!OutputInOrder /\ Display!Vc1!NoPictureLost /\ Display!Vc1!ReferencesAreTrue
      => Decoders!Vc1!OutputInOrder /\ Decoders!Vc1!NoPictureLost /\ Decoders!Vc1!ReferencesAreTrue
  BY SameDecodedVc1
<1> QED BY <1>1, <1>2, <1>3, <1>4, <1>5, PTL DEF Spec, vars, Display!Vc1!Spec

-----------------------------------------------------------------------------
(* MPEG-2 *)

\* A step of a behaviour of this MIME type is one of the class.
LEMMA StepsOfDecodedMpeg2 ==
  ASSUME Is("decoder", "mpeg2"), [Next]_vars
  PROVE  [Decoders!Mpeg2!Next]_Decoders!Mpeg2!vars
<1>1. CASE UNCHANGED vars
  BY <1>1 DEF vars, sharedVars, decoderVars, Decoders!Mpeg2!vars
<1>2. CASE Next
  BY <1>2 DEF Is, Next, Decode, Encode, Parse, Decoders!Next, Decoders!NextAvc, Decoders!NextHevc,
              Decoders!NextMpeg2, Decoders!NextVc1, Decoders!NextVp9
<1> QED BY <1>1, <1>2

\* The two instances of the class have the same initial states, steps and properties.
LEMMA SameDecodedMpeg2 ==
  /\ Decoders!Mpeg2!Init => Display!Mpeg2!Init
  /\ [Decoders!Mpeg2!Next]_Decoders!Mpeg2!vars => [Display!Mpeg2!Next]_Display!Mpeg2!vars
  /\ Display!Mpeg2!OutputInOrder => Decoders!Mpeg2!OutputInOrder
  /\ Display!Mpeg2!NoPictureLost => Decoders!Mpeg2!NoPictureLost
  /\ Display!Mpeg2!ReferencesAreTrue => Decoders!Mpeg2!ReferencesAreTrue
<1>1. Decoders!Mpeg2!SendFrame => Display!Mpeg2!SendFrame
  BY Zenon DEF Decoders!Mpeg2!SendFrame, Display!Mpeg2!SendFrame, Decoders!Mpeg2!None,
               Display!Mpeg2!None, Decoders!Mpeg2!Dpb, Display!Mpeg2!Dpb,
               Decoders!Mpeg2!ShowLast, Display!Mpeg2!ShowLast, Decoders!Mpeg2!AddNewFrame,
               Display!Mpeg2!AddNewFrame, Decoders!Mpeg2!Add, Display!Mpeg2!Add,
               Decoders!Mpeg2!DecodeCurrent, Display!Mpeg2!DecodeCurrent, Decoders!Mpeg2!IsB,
               Display!Mpeg2!IsB, Decoders!Mpeg2!Last, Display!Mpeg2!Last, Decoders!Mpeg2!SetDpb,
               Display!Mpeg2!SetDpb, Decoders!Mpeg2!GetReferences, Display!Mpeg2!GetReferences,
               Decoders!Mpeg2!BeginPicture, Display!Mpeg2!BeginPicture, Decoders!Mpeg2!RefusePicture,
               Display!Mpeg2!RefusePicture, Decoders!Mpeg2!NextId, Display!Mpeg2!NextId,
               Decoders!Mpeg2!MaySend, Display!Mpeg2!MaySend, Decoders!Mpeg2!References,
               Display!Mpeg2!References, Decoders!Mpeg2!WholeFrame, Display!Mpeg2!WholeFrame
<1>2. Decoders!Mpeg2!SendSecondField => Display!Mpeg2!SendSecondField
  BY Zenon DEF Decoders!Mpeg2!SendSecondField, Display!Mpeg2!SendSecondField, Decoders!Mpeg2!None,
               Display!Mpeg2!None, Decoders!Mpeg2!Dpb, Display!Mpeg2!Dpb,
               Decoders!Mpeg2!ShowLast, Display!Mpeg2!ShowLast, Decoders!Mpeg2!AddNewFrame,
               Display!Mpeg2!AddNewFrame, Decoders!Mpeg2!Add, Display!Mpeg2!Add,
               Decoders!Mpeg2!DecodeCurrent, Display!Mpeg2!DecodeCurrent, Decoders!Mpeg2!IsB,
               Display!Mpeg2!IsB, Decoders!Mpeg2!Last, Display!Mpeg2!Last, Decoders!Mpeg2!SetDpb,
               Display!Mpeg2!SetDpb, Decoders!Mpeg2!GetReferences, Display!Mpeg2!GetReferences,
               Decoders!Mpeg2!BeginPicture, Display!Mpeg2!BeginPicture, Decoders!Mpeg2!RefusePicture,
               Display!Mpeg2!RefusePicture, Decoders!Mpeg2!WholeFrame, Display!Mpeg2!WholeFrame
<1>3. Decoders!Mpeg2!OtherUnit => Display!Mpeg2!OtherUnit
  BY Zenon DEF Decoders!Mpeg2!OtherUnit, Display!Mpeg2!OtherUnit, Decoders!Mpeg2!None,
               Display!Mpeg2!None, Decoders!Mpeg2!Dpb, Display!Mpeg2!Dpb,
               Decoders!Mpeg2!ShowLast, Display!Mpeg2!ShowLast, Decoders!Mpeg2!AddNewFrame,
               Display!Mpeg2!AddNewFrame, Decoders!Mpeg2!Add, Display!Mpeg2!Add,
               Decoders!Mpeg2!DecodeCurrent, Display!Mpeg2!DecodeCurrent, Decoders!Mpeg2!IsB,
               Display!Mpeg2!IsB, Decoders!Mpeg2!Last, Display!Mpeg2!Last, Decoders!Mpeg2!SetDpb,
               Display!Mpeg2!SetDpb, Decoders!Mpeg2!WholeFrame, Display!Mpeg2!WholeFrame
<1>4. Decoders!Mpeg2!BreakLink => Display!Mpeg2!BreakLink
  BY Zenon DEF Decoders!Mpeg2!BreakLink, Display!Mpeg2!BreakLink, Decoders!Mpeg2!None,
               Display!Mpeg2!None, Decoders!Mpeg2!Dpb, Display!Mpeg2!Dpb,
               Decoders!Mpeg2!ShowLast, Display!Mpeg2!ShowLast, Decoders!Mpeg2!AddNewFrame,
               Display!Mpeg2!AddNewFrame, Decoders!Mpeg2!Add, Display!Mpeg2!Add,
               Decoders!Mpeg2!DecodeCurrent, Display!Mpeg2!DecodeCurrent, Decoders!Mpeg2!IsB,
               Display!Mpeg2!IsB, Decoders!Mpeg2!Last, Display!Mpeg2!Last, Decoders!Mpeg2!SetDpb,
               Display!Mpeg2!SetDpb, Decoders!Mpeg2!FlushDpb, Display!Mpeg2!FlushDpb,
               Decoders!Mpeg2!WholeFrame, Display!Mpeg2!WholeFrame, Decoders!Mpeg2!NewPart,
               Display!Mpeg2!NewPart
<1>5. Decoders!Mpeg2!Flush => Display!Mpeg2!Flush
  BY Zenon DEF Decoders!Mpeg2!Flush, Display!Mpeg2!Flush, Decoders!Mpeg2!None,
               Display!Mpeg2!None, Decoders!Mpeg2!Dpb, Display!Mpeg2!Dpb,
               Decoders!Mpeg2!ShowLast, Display!Mpeg2!ShowLast, Decoders!Mpeg2!AddNewFrame,
               Display!Mpeg2!AddNewFrame, Decoders!Mpeg2!Add, Display!Mpeg2!Add,
               Decoders!Mpeg2!DecodeCurrent, Display!Mpeg2!DecodeCurrent, Decoders!Mpeg2!IsB,
               Display!Mpeg2!IsB, Decoders!Mpeg2!Last, Display!Mpeg2!Last, Decoders!Mpeg2!SetDpb,
               Display!Mpeg2!SetDpb, Decoders!Mpeg2!FlushDpb, Display!Mpeg2!FlushDpb,
               Decoders!Mpeg2!WholeFrame, Display!Mpeg2!WholeFrame, Decoders!Mpeg2!NewPart,
               Display!Mpeg2!NewPart
<1>6. [Decoders!Mpeg2!Next]_Decoders!Mpeg2!vars => [Display!Mpeg2!Next]_Display!Mpeg2!vars
  BY <1>1, <1>2, <1>3, <1>4, <1>5 DEF Decoders!Mpeg2!Next, Display!Mpeg2!Next, Decoders!Mpeg2!vars, Display!Mpeg2!vars
<1>7. Decoders!Mpeg2!Init => Display!Mpeg2!Init
  BY Zenon DEF Decoders!Mpeg2!Init, Display!Mpeg2!Init, Decoders!Mpeg2!None, Display!Mpeg2!None
<1>8. Display!Mpeg2!OutputInOrder => Decoders!Mpeg2!OutputInOrder
  BY Zenon DEF Decoders!Mpeg2!OutputInOrder, Display!Mpeg2!OutputInOrder, Decoders!Mpeg2!IsB,
               Display!Mpeg2!IsB, Decoders!Mpeg2!References, Display!Mpeg2!References,
               Decoders!Mpeg2!Newest, Display!Mpeg2!Newest, Decoders!Mpeg2!NewestTwo,
               Display!Mpeg2!NewestTwo, Decoders!Mpeg2!Wanted, Display!Mpeg2!Wanted,
               Decoders!Mpeg2!Precedes, Display!Mpeg2!Precedes, Decoders!Mpeg2!HasPlace,
               Display!Mpeg2!HasPlace, Decoders!Mpeg2!Displays, Display!Mpeg2!Displays
<1>9. Display!Mpeg2!NoPictureLost => Decoders!Mpeg2!NoPictureLost
  BY Zenon DEF Decoders!Mpeg2!NoPictureLost, Display!Mpeg2!NoPictureLost, Decoders!Mpeg2!Range,
               Display!Mpeg2!Range, Decoders!Mpeg2!Last, Display!Mpeg2!Last
<1>10. Display!Mpeg2!ReferencesAreTrue => Decoders!Mpeg2!ReferencesAreTrue
  BY Zenon DEF Decoders!Mpeg2!ReferencesAreTrue, Display!Mpeg2!ReferencesAreTrue, Decoders!Mpeg2!IsB,
               Display!Mpeg2!IsB, Decoders!Mpeg2!References, Display!Mpeg2!References,
               Decoders!Mpeg2!Newest, Display!Mpeg2!Newest, Decoders!Mpeg2!NewestTwo,
               Display!Mpeg2!NewestTwo, Decoders!Mpeg2!Wanted, Display!Mpeg2!Wanted,
               Decoders!Mpeg2!Range, Display!Mpeg2!Range, Decoders!Mpeg2!None, Display!Mpeg2!None
<1> QED BY <1>6, <1>7, <1>8, <1>9, <1>10

\* The same of MPEG-2.
LEMMA Mpeg2Kept ==
  Spec => [](Is("decoder", "mpeg2") =>
                Decoders!Mpeg2!OutputInOrder /\ Decoders!Mpeg2!NoPictureLost /\ Decoders!Mpeg2!ReferencesAreTrue)
<1>1. Init /\ Is("decoder", "mpeg2") => Display!Mpeg2!Init
  BY SameDecodedMpeg2 DEF Is, Init, Decoders!Init, Decoders!InitAvc, Decoders!InitHevc, Decoders!InitMpeg2, Decoders!InitVc1,
     Decoders!InitVp9
<1>2. Is("decoder", "mpeg2") /\ [Next]_vars => [Display!Mpeg2!Next]_Display!Mpeg2!vars /\ Is("decoder", "mpeg2")'
  BY SameDecodedMpeg2, StepsOfDecodedMpeg2, StaysItself
<1>3. ~Is("decoder", "mpeg2") /\ [Next]_vars => ~Is("decoder", "mpeg2")'
  BY StaysItself
<1>4. Display!Mpeg2!Spec => [](Display!Mpeg2!OutputInOrder /\ Display!Mpeg2!NoPictureLost /\ Display!Mpeg2!ReferencesAreTrue)
  BY Display!Mpeg2Correct
<1>5. Display!Mpeg2!OutputInOrder /\ Display!Mpeg2!NoPictureLost /\ Display!Mpeg2!ReferencesAreTrue
      => Decoders!Mpeg2!OutputInOrder /\ Decoders!Mpeg2!NoPictureLost /\ Decoders!Mpeg2!ReferencesAreTrue
  BY SameDecodedMpeg2
<1> QED BY <1>1, <1>2, <1>3, <1>4, <1>5, PTL DEF Spec, vars, Display!Mpeg2!Spec

-----------------------------------------------------------------------------
(* VP9, the decoder *)

\* The operators on the decoder and on a frame.
LEMMA SameVp9Operators ==
  /\ \A r : Decoders!Vp9!Range(r) = Vpx!Dec9!Range(r)
  /\ \A S : Decoders!Vp9!Cardinality(S) = Vpx!Dec9!Cardinality(S)
  /\ \A d, s : Decoders!Vp9!Fails(d, s) = Vpx!Dec9!Fails(d, s)
  /\ \A d, f : Decoders!Vp9!ClearedReferences(d, f) = Vpx!Dec9!ClearedReferences(d, f)
  /\ \A d, held : Decoders!Vp9!InUse(d, held) = Vpx!Dec9!InUse(d, held)
  /\ \A d, f : Decoders!Vp9!ShowExisting(d, f) = Vpx!Dec9!ShowExisting(d, f)
  /\ \A d, f, from, ok : Decoders!Vp9!DecodePicture(d, f, from, ok) = Vpx!Dec9!DecodePicture(d, f, from, ok)
<1>1. \A r : Decoders!Vp9!Range(r) = Vpx!Dec9!Range(r)
  BY Zenon DEF Decoders!Vp9!Range, Vpx!Dec9!Range
<1>2. \A S : Decoders!Vp9!Cardinality(S) = Vpx!Dec9!Cardinality(S)
  BY Zenon DEF Decoders!Vp9!Cardinality, Vpx!Dec9!Cardinality
<1>3. \A d, s : Decoders!Vp9!Fails(d, s) = Vpx!Dec9!Fails(d, s)
  BY Zenon DEF Decoders!Vp9!Fails, Vpx!Dec9!Fails
<1>4. \A d, f : Decoders!Vp9!ClearedReferences(d, f) = Vpx!Dec9!ClearedReferences(d, f)
  BY DEF Decoders!Vp9!ClearedReferences, Vpx!Dec9!ClearedReferences, Decoders!Vp9!Empty, Vpx!Dec9!Empty
<1>5. \A d, held : Decoders!Vp9!InUse(d, held) = Vpx!Dec9!InUse(d, held)
  BY Zenon DEF Decoders!Vp9!InUse, Vpx!Dec9!InUse, Decoders!Vp9!Range, Vpx!Dec9!Range
<1>6. \A d, f : Decoders!Vp9!ShowExisting(d, f) = Vpx!Dec9!ShowExisting(d, f)
  BY Zenon DEF Decoders!Vp9!ShowExisting, Vpx!Dec9!ShowExisting
<1>7. \A d, f : Decoders!Vp9!UpdateReference(d, f) = Vpx!Dec9!UpdateReference(d, f)
  BY DEF Decoders!Vp9!UpdateReference, Vpx!Dec9!UpdateReference
<1>8. \A d, f, from, ok : Decoders!Vp9!DecodePicture(d, f, from, ok) = Vpx!Dec9!DecodePicture(d, f, from, ok)
  BY Zenon, <1>3, <1>7 DEF Decoders!Vp9!DecodePicture, Vpx!Dec9!DecodePicture
<1> QED BY <1>1, <1>2, <1>3, <1>4, <1>5, <1>6, <1>8

\* decode() of a frame, once it has surfaces.
LEMMA SameVp9InPool ==
  ASSUME NEW d, NEW f, NEW held, NEW ok
  PROVE  Decoders!Vp9!DecodeInPool(d, f, held, ok) = Vpx!Dec9!DecodeInPool(d, f, held, ok)
<1> DEFINE e   == [d EXCEPT !.ref = Decoders!Vp9!ClearedReferences(d, f)]
           e2  == [d EXCEPT !.ref = Vpx!Dec9!ClearedReferences(d, f)]
           can  == ok /\ (f.kind = "key" \/ 0 \notin Decoders!Vp9!Range(d.ref))
           can2 == ok /\ (f.kind = "key" \/ 0 \notin Vpx!Dec9!Range(d.ref))
           from == {d.ref[i] : i \in f.refs}
<1>1. e = e2 /\ can = can2
  BY Zenon, SameVp9Operators
<1>2. Decoders!Vp9!DecodePicture(e, f, from, can) = Vpx!Dec9!DecodePicture(e2, f, from, can2)
  BY Zenon, <1>1, SameVp9Operators
<1>3. /\ Decoders!Vp9!InUse(d, held) = Vpx!Dec9!InUse(d, held)
      /\ Decoders!Vp9!ShowExisting(d, f) = Vpx!Dec9!ShowExisting(d, f)
      /\ Decoders!Vp9!Fails(d, "no surface") = Vpx!Dec9!Fails(d, "no surface")
      /\ \A S : Decoders!Vp9!Cardinality(S) = Vpx!Dec9!Cardinality(S)
  BY Zenon, SameVp9Operators
<1> QED BY <1>2, <1>3, Zenon DEF Decoders!Vp9!DecodeInPool, Vpx!Dec9!DecodeInPool

\* decode() of a buffer.
LEMMA SameVp9Buffer ==
  ASSUME NEW b, NEW held, NEW bad
  PROVE  Decoders!Vp9!DecodeBuffer(b, held, bad) = Vpx!Dec9!DecodeBuffer(b, held, bad)
<1>1. \A d, f, h, ok : Decoders!Vp9!DecodeInPool(d, f, h, ok) = Vpx!Dec9!DecodeInPool(d, f, h, ok)
  BY SameVp9InPool
<1>2. \A d, f, h, ok : Decoders!Vp9!DecodeAfterKey(d, f, h, ok) = Vpx!Dec9!DecodeAfterKey(d, f, h, ok)
  BY <1>1 DEF Decoders!Vp9!DecodeAfterKey, Vpx!Dec9!DecodeAfterKey, Decoders!Vp9!FormatChanges,
     Vpx!Dec9!FormatChanges, Decoders!Vp9!Fails, Vpx!Dec9!Fails, Decoders!Vp9!SizeOf, Vpx!Dec9!SizeOf
<1>3. \A d, f, h, ok : Decoders!Vp9!DecodeFrame(d, f, h, ok) = Vpx!Dec9!DecodeFrame(d, f, h, ok)
  BY <1>2 DEF Decoders!Vp9!DecodeFrame, Vpx!Dec9!DecodeFrame
<1> DEFINE one  == Decoders!Vp9!DecodeFrame(dec, b[1], held, bad # 1)
           one2 == Vpx!Dec9!DecodeFrame(dec, b[1], held, bad # 1)
<1>4. one = one2
  BY Zenon, <1>3
<1>5. Decoders!Vp9!DecodeFrame(one.dec, b[2], held, bad # 2) = Vpx!Dec9!DecodeFrame(one2.dec, b[2], held, bad # 2)
  BY Zenon, <1>3, <1>4
<1> QED BY <1>4, <1>5, Zenon DEF Decoders!Vp9!DecodeBuffer, Vpx!Dec9!DecodeBuffer

\* A call of decode(), and the frames it may be given.
LEMMA SameVp9Calls ==
  /\ \A b, s : Decoders!Vp9!Call(b, s) <=> Vpx!Dec9!Call(b, s)
  /\ \A s, id, key, last : Decoders!Vp9!Candidates(s, id, key, last) = Vpx!Dec9!Candidates(s, id, key, last)
  /\ \A s, f : Decoders!Vp9!After(s, f) = Vpx!Dec9!After(s, f)
  /\ \A f, s : Decoders!Vp9!Sent(f, s) = Vpx!Dec9!Sent(f, s)
<1>1. \A b, held, bad : Decoders!Vp9!DecodeBuffer(b, held, bad) = Vpx!Dec9!DecodeBuffer(b, held, bad)
  BY SameVp9Buffer
<1>2. \A b, s : Decoders!Vp9!Call(b, s) <=> Vpx!Dec9!Call(b, s)
  BY Zenon, <1>1 DEF Decoders!Vp9!Call, Vpx!Dec9!Call
<1>3. \A s, id, key, last : Decoders!Vp9!Candidates(s, id, key, last) = Vpx!Dec9!Candidates(s, id, key, last)
  BY DEF Decoders!Vp9!Candidates, Vpx!Dec9!Candidates, Decoders!Vp9!Range, Vpx!Dec9!Range
<1>4. \A s, f : Decoders!Vp9!After(s, f) = Vpx!Dec9!After(s, f)
  BY DEF Decoders!Vp9!After, Vpx!Dec9!After
<1>5. \A f, s : Decoders!Vp9!Sent(f, s) = Vpx!Dec9!Sent(f, s)
  BY Zenon, <1>4 DEF Decoders!Vp9!Sent, Vpx!Dec9!Sent
<1> QED BY <1>2, <1>3, <1>4, <1>5


\* A step of a behaviour of this MIME type is one of the class.
LEMMA StepsOfDecodedVp9 ==
  ASSUME Is("decoder", "vp9"), [Next]_vars
  PROVE  [Decoders!Vp9!Next]_Decoders!Vp9!vars
<1>1. CASE UNCHANGED vars
  BY <1>1 DEF vars, sharedVars, decoderVars, Decoders!Vp9!vars
<1>2. CASE Next
  BY <1>2 DEF Is, Next, Decode, Encode, Parse, Decoders!Next, Decoders!NextAvc, Decoders!NextHevc,
              Decoders!NextMpeg2, Decoders!NextVc1, Decoders!NextVp9
<1> QED BY <1>1, <1>2

\* The two instances of the class have the same initial states, steps and properties.
LEMMA SameDecodedVp9 ==
  /\ Decoders!Vp9!Init => Vpx!Dec9!Init
  /\ [Decoders!Vp9!Next]_Decoders!Vp9!vars => [Vpx!Dec9!Next]_Vpx!Dec9!vars
  /\ Vpx!Dec9!SlotsAreTrue => Decoders!Vp9!SlotsAreTrue
  /\ Vpx!Dec9!NothingAcrossKey => Decoders!Vp9!NothingAcrossKey
  /\ Vpx!Dec9!SizeWasTold => Decoders!Vp9!SizeWasTold
<1>1. Decoders!Vp9!SendFrame => Vpx!Dec9!SendFrame
  BY Zenon, SameVp9Calls DEF Decoders!Vp9!SendFrame, Vpx!Dec9!SendFrame, Decoders!Vp9!Number,
                             Vpx!Dec9!Number
<1>2. Decoders!Vp9!SendSuperFrame => Vpx!Dec9!SendSuperFrame
  BY Zenon, SameVp9Calls DEF Decoders!Vp9!SendSuperFrame, Vpx!Dec9!SendSuperFrame, Decoders!Vp9!Number,
                             Vpx!Dec9!Number
<1>3. Decoders!Vp9!SendAgain => Vpx!Dec9!SendAgain
  BY Zenon, SameVp9Calls DEF Decoders!Vp9!SendAgain, Vpx!Dec9!SendAgain
<1>4. Decoders!Vp9!GetOutput => Vpx!Dec9!GetOutput
  BY Zenon DEF Decoders!Vp9!GetOutput, Vpx!Dec9!GetOutput
<1>5. Decoders!Vp9!Release => Vpx!Dec9!Release
  BY Zenon DEF Decoders!Vp9!Release, Vpx!Dec9!Release
<1>6. Decoders!Vp9!Flush => Vpx!Dec9!Flush
  BY Zenon DEF Decoders!Vp9!Flush, Vpx!Dec9!Flush, Decoders!Vp9!Empty, Vpx!Dec9!Empty
<1>7. [Decoders!Vp9!Next]_Decoders!Vp9!vars => [Vpx!Dec9!Next]_Vpx!Dec9!vars
  BY <1>1, <1>2, <1>3, <1>4, <1>5, <1>6 DEF Decoders!Vp9!Next, Vpx!Dec9!Next, Decoders!Vp9!vars, Vpx!Dec9!vars
<1>8. Decoders!Vp9!Init => Vpx!Dec9!Init
  BY Zenon DEF Decoders!Vp9!Init, Vpx!Dec9!Init, Decoders!Vp9!Empty, Vpx!Dec9!Empty
<1>9. Vpx!Dec9!SlotsAreTrue => Decoders!Vp9!SlotsAreTrue
  BY Zenon DEF Decoders!Vp9!SlotsAreTrue, Vpx!Dec9!SlotsAreTrue
<1>10. Vpx!Dec9!NothingAcrossKey => Decoders!Vp9!NothingAcrossKey
  BY Zenon DEF Decoders!Vp9!NothingAcrossKey, Vpx!Dec9!NothingAcrossKey
<1>11. Vpx!Dec9!SizeWasTold => Decoders!Vp9!SizeWasTold
  BY Zenon DEF Decoders!Vp9!SizeWasTold, Vpx!Dec9!SizeWasTold
<1> QED BY <1>7, <1>8, <1>9, <1>10, <1>11

\* Frames of VP9 have the references that the stream names, and surfaces of the size that was told.
LEMMA Vp9DecoderKept ==
  Spec => [](Is("decoder", "vp9") => Decoders!Vp9!SlotsAreTrue /\ Decoders!Vp9!NothingAcrossKey /\ Decoders!Vp9!SizeWasTold)
<1>1. Init /\ Is("decoder", "vp9") => Vpx!Dec9!Init
  BY SameDecodedVp9 DEF Is, Init, Decoders!Init, Decoders!InitAvc, Decoders!InitHevc, Decoders!InitMpeg2, Decoders!InitVc1,
     Decoders!InitVp9
<1>2. Is("decoder", "vp9") /\ [Next]_vars => [Vpx!Dec9!Next]_Vpx!Dec9!vars /\ Is("decoder", "vp9")'
  BY SameDecodedVp9, StepsOfDecodedVp9, StaysItself
<1>3. ~Is("decoder", "vp9") /\ [Next]_vars => ~Is("decoder", "vp9")'
  BY StaysItself
<1>4. Vpx!Dec9!Spec => [](Vpx!Dec9!SlotsAreTrue /\ Vpx!Dec9!NothingAcrossKey /\ Vpx!Dec9!SizeWasTold)
  <2>1. Vpx!SizesOfVp9
    <3>1. 1 \in 1..2 /\ 1..2 \subseteq Nat \ {0}
      OBVIOUS
    <3> QED BY <3>1 DEF Vpx!SizesOfVp9
  <2>2. Vpx!Dec9!Spec => [](Vpx!Dec9!SlotsAreTrue /\ Vpx!Dec9!NothingAcrossKey)
    BY <2>1, Vpx!Vp9ReferencesAreTrue
  <2>3. Vpx!Dec9!Spec => []Vpx!Dec9!SizeWasTold
    BY <2>1, Vpx!Vp9SizeWasTold
  <2> QED BY <2>2, <2>3, PTL
<1>5. Vpx!Dec9!SlotsAreTrue /\ Vpx!Dec9!NothingAcrossKey /\ Vpx!Dec9!SizeWasTold
      => Decoders!Vp9!SlotsAreTrue /\ Decoders!Vp9!NothingAcrossKey /\ Decoders!Vp9!SizeWasTold
  BY SameDecodedVp9
<1> QED BY <1>1, <1>2, <1>3, <1>4, <1>5, PTL DEF Spec, vars, Vpx!Dec9!Spec

-----------------------------------------------------------------------------
(* VP9, the encoder *)

\* A step of a behaviour of this MIME type is one of the class.
LEMMA StepsOfEncodedVp9 ==
  ASSUME Is("encoder", "vp9"), [Next]_vars
  PROVE  [Encoders!Vp9!Next]_Encoders!Vp9!vars
<1>1. CASE UNCHANGED vars
  BY <1>1 DEF vars, sharedVars, encoderVars, Encoders!Vp9!vars
<1>2. CASE Next
  BY <1>2 DEF Is, Next, Decode, Encode, Parse, Encoders!Next
<1> QED BY <1>1, <1>2

\* The two instances of the class have the same initial states, steps and properties.
LEMMA SameEncodedVp9 ==
  /\ Encoders!Vp9!Init => Vpx!Vp9!Init
  /\ [Encoders!Vp9!Next]_Encoders!Vp9!vars => [Vpx!Vp9!Next]_Vpx!Vp9!vars
  /\ Vpx!Vp9!SameReferences => Encoders!Vp9!SameReferences
<1>1. Encoders!Vp9!EncodeFrame => Vpx!Vp9!EncodeFrame
  BY Zenon DEF Encoders!Vp9!EncodeFrame, Vpx!Vp9!EncodeFrame, Encoders!Vp9!SlotsOf,
               Vpx!Vp9!SlotsOf, Encoders!Vp9!IndexAfter, Vpx!Vp9!IndexAfter,
               Encoders!Vp9!ReferenceListUpdate, Vpx!Vp9!ReferenceListUpdate, Encoders!Vp9!All,
               Vpx!Vp9!All, Encoders!Vp9!Slots, Vpx!Vp9!Slots
<1>2. Encoders!Vp9!FlushEncoder => Vpx!Vp9!FlushEncoder
  BY Zenon DEF Encoders!Vp9!FlushEncoder, Vpx!Vp9!FlushEncoder, Encoders!Vp9!All, Vpx!Vp9!All,
               Encoders!Vp9!Slots, Vpx!Vp9!Slots
<1>3. Encoders!Vp9!FlushDecoder => Vpx!Vp9!FlushDecoder
  BY Zenon DEF Encoders!Vp9!FlushDecoder, Vpx!Vp9!FlushDecoder, Encoders!Vp9!All, Vpx!Vp9!All,
               Encoders!Vp9!Slots, Vpx!Vp9!Slots
<1>4. [Encoders!Vp9!Next]_Encoders!Vp9!vars => [Vpx!Vp9!Next]_Vpx!Vp9!vars
  BY <1>1, <1>2, <1>3 DEF Encoders!Vp9!Next, Vpx!Vp9!Next, Encoders!Vp9!vars, Vpx!Vp9!vars
<1>5. Encoders!Vp9!Init => Vpx!Vp9!Init
  BY Zenon DEF Encoders!Vp9!Init, Vpx!Vp9!Init, Encoders!Vp9!All, Vpx!Vp9!All,
               Encoders!Vp9!Slots, Vpx!Vp9!Slots
<1>6. Vpx!Vp9!SameReferences => Encoders!Vp9!SameReferences
  BY Zenon DEF Encoders!Vp9!SameReferences, Vpx!Vp9!SameReferences
<1> QED BY <1>4, <1>5, <1>6

\* VP9: the decoder at the other end predicts from what the encoder predicted from.
LEMMA Vp9EncoderKept ==
  ASSUME Hard = {}
  PROVE  Spec => [](Is("encoder", "vp9") => Encoders!Vp9!SameReferences)
<1>1. Init /\ Is("encoder", "vp9") => Vpx!Vp9!Init
  BY SameEncodedVp9 DEF Is, Init, Encoders!Init
<1>2. Is("encoder", "vp9") /\ [Next]_vars => [Vpx!Vp9!Next]_Vpx!Vp9!vars /\ Is("encoder", "vp9")'
  BY SameEncodedVp9, StepsOfEncodedVp9, StaysItself
<1>3. ~Is("encoder", "vp9") /\ [Next]_vars => ~Is("encoder", "vp9")'
  BY StaysItself
<1>4. Vpx!Vp9!Spec => [](Vpx!Vp9!SameReferences)
  BY Vpx!Vp9EncoderSameReferences DEF Vpx!ConfigsOfVp9, Encoders!Vp9Configs
<1>5. Vpx!Vp9!SameReferences => Encoders!Vp9!SameReferences
  BY SameEncodedVp9
<1> QED BY <1>1, <1>2, <1>3, <1>4, <1>5, PTL DEF Spec, vars, Vpx!Vp9!Spec

-----------------------------------------------------------------------------
(* VP8, the encoder *)

\* What VpxProofs asks of the configurations.
LEMMA Vp8Layers == Vpx!ConfigsOfVp8
<1> SUFFICES ASSUME NEW c \in Encoders!Vp8Configs
             PROVE  c.ids \in Seq(0..2) /\ c.ids # <<>> /\ c.target \in Nat
                    /\ c.dropped \subseteq (IF c.target = 1 THEN {1, 2} ELSE {2})
  <2>1. 6 \in Nat \ {0}
    OBVIOUS
  <2> QED BY <2>1 DEF Vpx!ConfigsOfVp8
<1>1. /\ <<0, 2, 1, 2>> \in Seq(0..2) /\ <<0, 1, 0, 1>> \in Seq(0..2) /\ <<0>> \in Seq(0..2)
      /\ <<0, 2, 1, 2>> # <<>> /\ <<0, 1, 0, 1>> # <<>> /\ <<0>> # <<>>
  OBVIOUS
<1>2. /\ 0..3 \subseteq Nat /\ 0..1 \subseteq Nat
  OBVIOUS
<1>3. \/ c \in [ids : {<<0, 2, 1, 2>>}, svct : {TRUE}, target : 0..3, dropped : {{}, {2}}]
      \/ c \in [ids : {<<0, 1, 0, 1>>}, svct : {TRUE}, target : 0..1, dropped : {{}}]
      \/ c \in [ids : {<<0>>}, svct : {FALSE}, target : {0}, dropped : {{}}]
  BY Zenon DEF Encoders!Vp8Configs
<1>4. /\ c.ids \in {<<0, 2, 1, 2>>, <<0, 1, 0, 1>>, <<0>>}
      /\ c.target \in 0..3 /\ c.dropped \in {{}, {2}}
  <2>1. c \in [ids : {<<0, 2, 1, 2>>}, svct : {TRUE}, target : 0..3, dropped : {{}, {2}}]
        => c.ids = <<0, 2, 1, 2>> /\ c.target \in 0..3 /\ c.dropped \in {{}, {2}}
    BY Zenon
  <2>2. c \in [ids : {<<0, 1, 0, 1>>}, svct : {TRUE}, target : 0..1, dropped : {{}}]
        => c.ids = <<0, 1, 0, 1>> /\ c.target \in 0..1 /\ c.dropped = {}
    BY Zenon
  <2>3. c \in [ids : {<<0>>}, svct : {FALSE}, target : {0}, dropped : {{}}]
        => c.ids = <<0>> /\ c.target = 0 /\ c.dropped = {}
    BY Zenon
  <2>4. 0 \in 0..3 /\ 0..1 \subseteq 0..3
    OBVIOUS
  <2> QED BY <1>3, <2>1, <2>2, <2>3, <2>4, Zenon
<1> QED BY <1>1, <1>2, <1>4, Zenon

\* A step of a behaviour of this MIME type is one of the class.
LEMMA StepsOfEncodedVp8 ==
  ASSUME Is("encoder", "vp8"), [Next]_vars
  PROVE  [Encoders!Vp8!Next]_Encoders!Vp8!vars
<1>1. CASE UNCHANGED vars
  BY <1>1 DEF vars, sharedVars, encoderVars, Encoders!Vp8!vars
<1>2. CASE Next
  BY <1>2 DEF Is, Next, Decode, Encode, Parse, Encoders!Next
<1> QED BY <1>1, <1>2

\* The two instances of the class have the same initial states, steps and properties.
LEMMA SameEncodedVp8 ==
  /\ Encoders!Vp8!Init => Vpx!Vp8!Init
  /\ [Encoders!Vp8!Next]_Encoders!Vp8!vars => [Vpx!Vp8!Next]_Vpx!Vp8!vars
  /\ Vpx!Vp8!SameReferences => Encoders!Vp8!SameReferences
<1>1. Encoders!Vp8!EncodeFrame => Vpx!Vp8!EncodeFrame
  BY Zenon DEF Encoders!Vp8!EncodeFrame, Vpx!Vp8!EncodeFrame, Encoders!Vp8!TemporalLayer,
               Vpx!Vp8!TemporalLayer, Encoders!Vp8!KeyFlags, Vpx!Vp8!KeyFlags,
               Encoders!Vp8!NormalFlags, Vpx!Vp8!NormalFlags, Encoders!Vp8!SvctFlags,
               Vpx!Vp8!SvctFlags, Encoders!Vp8!GetRefFlags, Vpx!Vp8!GetRefFlags,
               Encoders!Vp8!ReferenceUpdate, Vpx!Vp8!ReferenceUpdate, Encoders!Vp8!ReferenceListUpdate,
               Vpx!Vp8!ReferenceListUpdate, Encoders!Vp8!References, Vpx!Vp8!References,
               Encoders!Vp8!Buffers, Vpx!Vp8!Buffers, Encoders!Vp8!All, Vpx!Vp8!All
<1>2. Encoders!Vp8!Deliver => Vpx!Vp8!Deliver
  BY Zenon DEF Encoders!Vp8!Deliver, Vpx!Vp8!Deliver, Encoders!Vp8!Decode, Vpx!Vp8!Decode,
               Encoders!Vp8!TargetTemporalFrame, Vpx!Vp8!TargetTemporalFrame,
               Encoders!Vp8!UpdateReferencePictures, Vpx!Vp8!UpdateReferencePictures,
               Encoders!Vp8!References, Vpx!Vp8!References, Encoders!Vp8!Buffers,
               Vpx!Vp8!Buffers, Encoders!Vp8!All, Vpx!Vp8!All, Encoders!Vp8!Nothing,
               Vpx!Vp8!Nothing
<1>3. Encoders!Vp8!Drop => Vpx!Vp8!Drop
  BY Zenon DEF Encoders!Vp8!Drop, Vpx!Vp8!Drop
<1>4. Encoders!Vp8!FlushEncoder => Vpx!Vp8!FlushEncoder
  BY Zenon DEF Encoders!Vp8!FlushEncoder, Vpx!Vp8!FlushEncoder, Encoders!Vp8!All, Vpx!Vp8!All,
               Encoders!Vp8!Buffers, Vpx!Vp8!Buffers
<1>5. Encoders!Vp8!FlushDecoder => Vpx!Vp8!FlushDecoder
  BY Zenon DEF Encoders!Vp8!FlushDecoder, Vpx!Vp8!FlushDecoder, Encoders!Vp8!All, Vpx!Vp8!All,
               Encoders!Vp8!Buffers, Vpx!Vp8!Buffers
<1>6. [Encoders!Vp8!Next]_Encoders!Vp8!vars => [Vpx!Vp8!Next]_Vpx!Vp8!vars
  BY <1>1, <1>2, <1>3, <1>4, <1>5 DEF Encoders!Vp8!Next, Vpx!Vp8!Next, Encoders!Vp8!vars, Vpx!Vp8!vars
<1>7. Encoders!Vp8!Init => Vpx!Vp8!Init
  BY Zenon DEF Encoders!Vp8!Init, Vpx!Vp8!Init, Encoders!Vp8!All, Vpx!Vp8!All,
               Encoders!Vp8!Buffers, Vpx!Vp8!Buffers, Encoders!Vp8!Nothing, Vpx!Vp8!Nothing
<1>8. Vpx!Vp8!SameReferences => Encoders!Vp8!SameReferences
  BY Zenon DEF Encoders!Vp8!SameReferences, Vpx!Vp8!SameReferences
<1> QED BY <1>6, <1>7, <1>8

\* The same of VP8.
LEMMA Vp8EncoderKept ==
  ASSUME Hard = {}
  PROVE  Spec => [](Is("encoder", "vp8") => Encoders!Vp8!SameReferences)
<1>1. Init /\ Is("encoder", "vp8") => Vpx!Vp8!Init
  BY SameEncodedVp8 DEF Is, Init, Encoders!Init
<1>2. Is("encoder", "vp8") /\ [Next]_vars => [Vpx!Vp8!Next]_Vpx!Vp8!vars /\ Is("encoder", "vp8")'
  BY SameEncodedVp8, StepsOfEncodedVp8, StaysItself
<1>3. ~Is("encoder", "vp8") /\ [Next]_vars => ~Is("encoder", "vp8")'
  BY StaysItself
<1>4. Vpx!Vp8!Spec => [](Vpx!Vp8!SameReferences)
  BY Vpx!Vp8SameReferences, Vp8Layers
<1>5. Vpx!Vp8!SameReferences => Encoders!Vp8!SameReferences
  BY SameEncodedVp8
<1> QED BY <1>1, <1>2, <1>3, <1>4, <1>5, PTL DEF Spec, vars, Vpx!Vp8!Spec

-----------------------------------------------------------------------------
(* The parsers of VP8 and VP9 *)

\* What a behaviour of the parsers is one of.
Parsing(module) == side = "parser" /\ part = module

\* It stays that: a parser is made for one format.
LEMMA StaysPart ==
  ASSUME NEW module, [Next]_vars
  PROVE  Parsing(module)' = Parsing(module)
<1>1. Parsers!Next => part' = part
  BY DEF Parsers!Next
<1>2. parserVars' = parserVars => part' = part
  BY DEF parserVars
<1>3. side' = side /\ part' = part
  BY <1>1, <1>2 DEF Next, Decode, Encode, Parse, vars
<1> QED BY <1>3 DEF Parsing

\* A step of a behaviour of this part is one of the parser.
LEMMA StepsOfVp8Parser ==
  ASSUME Parsing("Vp8Parser"), [Next]_vars
  PROVE  [Parsers!Vp8!Next]_Parsers!Vp8!vars
<1>1. CASE UNCHANGED vars
  <2>1. parserVars' = parserVars
    BY <1>1 DEF vars
  <2> QED BY <2>1 DEF parserVars, Parsers!Vp8!vars
<1>2. CASE Next
  BY <1>2 DEF Parsing, Next, Decode, Encode, Parse, Parsers!Next
<1> QED BY <1>1, <1>2

\* The two instances of the parser have the same initial states, steps and property.
LEMMA SameVp8Parser ==
  /\ Parsers!Vp8!Init => Vpx!Par8!Init
  /\ [Parsers!Vp8!Next]_Parsers!Vp8!vars => [Vpx!Par8!Next]_Vpx!Par8!vars
  /\ Vpx!Par8!HeadersAreTrue => Parsers!Vp8!HeadersAreTrue
<1>1. \A c, f : Parsers!Vp8!ParseSegmentationHeader(c, f) = Vpx!Par8!ParseSegmentationHeader(c, f)
BY Zenon DEF Parsers!Vp8!ParseSegmentationHeader, Vpx!Par8!ParseSegmentationHeader,
     Parsers!Vp8!NoSegmentation, Vpx!Par8!NoSegmentation, Parsers!Vp8!Segments, Vpx!Par8!Segments
<1>2. \A c, f : Parsers!Vp8!ParseLoopFilterHeader(c, f) = Vpx!Par8!ParseLoopFilterHeader(c, f)
BY Zenon DEF Parsers!Vp8!ParseLoopFilterHeader, Vpx!Par8!ParseLoopFilterHeader, Parsers!Vp8!NoDeltas,
     Vpx!Par8!NoDeltas, Parsers!Vp8!Deltas, Vpx!Par8!Deltas
<1>3. \A c, f : Parsers!Vp8!Headers(c, f) = Vpx!Par8!Headers(c, f)
BY Zenon, <1>1, <1>2 DEF Parsers!Vp8!Headers, Vpx!Par8!Headers, Parsers!Vp8!ResetProbs,
     Vpx!Par8!ResetProbs, Parsers!Vp8!DefaultProbs, Vpx!Par8!DefaultProbs, Parsers!Vp8!Tables,
     Vpx!Par8!Tables
<1>4. \A c, f : Parsers!Vp8!Header(c, f) = Vpx!Par8!Header(c, f)
BY Zenon DEF Parsers!Vp8!Header, Vpx!Par8!Header, Parsers!Vp8!Probs, Vpx!Par8!Probs,
     Parsers!Vp8!Tables, Vpx!Par8!Tables
<1>5. \A c, f : Parsers!Vp8!ProbsKept(c, f) = Vpx!Par8!ProbsKept(c, f)
BY Zenon DEF Parsers!Vp8!ProbsKept, Vpx!Par8!ProbsKept, Parsers!Vp8!Tables, Vpx!Par8!Tables
<1>6. \A key : Parsers!Vp8!Own(key) = Vpx!Par8!Own(key)
BY Zenon DEF Parsers!Vp8!Own, Vpx!Par8!Own, Parsers!Vp8!Plain, Vpx!Par8!Plain, Parsers!Vp8!One,
     Vpx!Par8!One, Parsers!Vp8!Segments, Vpx!Par8!Segments, Parsers!Vp8!Deltas,
     Vpx!Par8!Deltas, Parsers!Vp8!Tables, Vpx!Par8!Tables
<1>7. Parsers!Vp8!Parse => Vpx!Par8!Parse
BY Zenon, <1>3, <1>4, <1>5, <1>6 DEF Parsers!Vp8!Parse, Vpx!Par8!Parse, Parsers!Vp8!Plain,
     Vpx!Par8!Plain
<1>8. Parsers!Vp8!ParseBreaksOff => Vpx!Par8!ParseBreaksOff
BY Zenon, <1>3, <1>1, <1>2, <1>6 DEF Parsers!Vp8!ParseBreaksOff, Vpx!Par8!ParseBreaksOff, Parsers!Vp8!Plain,
     Vpx!Par8!Plain
<1>9. Parsers!Vp8!ParseAgain => Vpx!Par8!ParseAgain
BY Zenon, <1>3, <1>4, <1>5 DEF Parsers!Vp8!ParseAgain, Vpx!Par8!ParseAgain, Parsers!Vp8!Last,
     Vpx!Par8!Last
<1>10. [Parsers!Vp8!Next]_Parsers!Vp8!vars => [Vpx!Par8!Next]_Vpx!Par8!vars
BY <1>7, <1>8, <1>9 DEF Parsers!Vp8!Next, Vpx!Par8!Next, Parsers!Vp8!vars, Vpx!Par8!vars
<1>11. Parsers!Vp8!Init => Vpx!Par8!Init
BY Zenon DEF Parsers!Vp8!Init, Vpx!Par8!Init, Parsers!Vp8!NoSegmentation, Vpx!Par8!NoSegmentation,
     Parsers!Vp8!NoDeltas, Vpx!Par8!NoDeltas, Parsers!Vp8!Segments, Vpx!Par8!Segments,
     Parsers!Vp8!Deltas, Vpx!Par8!Deltas, Parsers!Vp8!Tables, Vpx!Par8!Tables
<1>12. Vpx!Par8!HeadersAreTrue => Parsers!Vp8!HeadersAreTrue
BY Zenon DEF Parsers!Vp8!HeadersAreTrue, Vpx!Par8!HeadersAreTrue, Parsers!Vp8!LastOf,
     Vpx!Par8!LastOf, Parsers!Vp8!Max, Vpx!Par8!Max, Parsers!Vp8!Deltas, Vpx!Par8!Deltas,
     Parsers!Vp8!Tables, Vpx!Par8!Tables, Parsers!Vp8!Segments, Vpx!Par8!Segments,
     Parsers!Vp8!LoopFilterLevel, Vpx!Par8!LoopFilterLevel, Parsers!Vp8!Clamp, Vpx!Par8!Clamp
<1> QED BY <1>10, <1>11, <1>12

\* A frame of VP8 is decoded with what the frames since the last key frame said.
LEMMA Vp8ParserKept ==
  ASSUME Hard = {}
  PROVE  Spec => [](Parsing("Vp8Parser") => Parsers!Vp8!HeadersAreTrue)
<1>1. Init /\ Parsing("Vp8Parser") => Vpx!Par8!Init
  BY SameVp8Parser DEF Parsing, Init, Parsers!Init
<1>2. Parsing("Vp8Parser") /\ [Next]_vars => [Vpx!Par8!Next]_Vpx!Par8!vars /\ Parsing("Vp8Parser")'
  BY SameVp8Parser, StepsOfVp8Parser, StaysPart
<1>3. ~Parsing("Vp8Parser") /\ [Next]_vars => ~Parsing("Vp8Parser")'
  BY StaysPart
<1>4. Vpx!Par8!Spec => []Vpx!Par8!HeadersAreTrue
  BY Vpx!Vp8HeadersAreTrue
<1>5. Vpx!Par8!HeadersAreTrue => Parsers!Vp8!HeadersAreTrue
  BY SameVp8Parser
<1> QED BY <1>1, <1>2, <1>3, <1>4, <1>5, PTL DEF Spec, vars, Vpx!Par8!Spec

\* A step of a behaviour of this part is one of the parser.
LEMMA StepsOfVp9Parser ==
  ASSUME Parsing("Vp9Parser"), [Next]_vars
  PROVE  [Parsers!Vp9!Next]_Parsers!Vp9!vars
<1>1. CASE UNCHANGED vars
  <2>1. parserVars' = parserVars
    BY <1>1 DEF vars
  <2> QED BY <2>1 DEF parserVars, Parsers!Vp9!vars
<1>2. CASE Next
  BY <1>2 DEF Parsing, Next, Decode, Encode, Parse, Parsers!Next
<1> QED BY <1>1, <1>2

\* The two instances of the parser have the same initial states, steps and property.
LEMMA SameVp9Parser ==
  /\ Parsers!Vp9!Init => Vpx!Par9!Init
  /\ [Parsers!Vp9!Next]_Parsers!Vp9!vars => [Vpx!Par9!Next]_Vpx!Par9!vars
  /\ Vpx!Par9!HeadersAreTrue => Parsers!Vp9!HeadersAreTrue
<1>1. \A p, f : Parsers!Vp9!Begin(p, f) = Vpx!Par9!Begin(p, f)
BY Zenon DEF Parsers!Vp9!Begin, Vpx!Par9!Begin, Parsers!Vp9!Cleared, Vpx!Par9!Cleared,
     Parsers!Vp9!Deltas, Vpx!Par9!Deltas, Parsers!Vp9!NoFeatures, Vpx!Par9!NoFeatures
<1>2. \A p, f : Parsers!Vp9!SetupPastIndependence(p, f) = Vpx!Par9!SetupPastIndependence(p, f)
BY Zenon DEF Parsers!Vp9!SetupPastIndependence, Vpx!Par9!SetupPastIndependence, Parsers!Vp9!KeyOrIntraOnly,
     Vpx!Par9!KeyOrIntraOnly, Parsers!Vp9!DefaultDeltas, Vpx!Par9!DefaultDeltas, Parsers!Vp9!Deltas,
     Vpx!Par9!Deltas, Parsers!Vp9!NoFeatures, Vpx!Par9!NoFeatures
<1>3. \A p, f : Parsers!Vp9!LoopFilterUpdate(p, f) = Vpx!Par9!LoopFilterUpdate(p, f)
BY Zenon DEF Parsers!Vp9!LoopFilterUpdate, Vpx!Par9!LoopFilterUpdate, Parsers!Vp9!Deltas,
     Vpx!Par9!Deltas
<1>4. \A x, high : Parsers!Vp9!Clamp(x, high) = Vpx!Par9!Clamp(x, high)
BY Zenon DEF Parsers!Vp9!Clamp, Vpx!Par9!Clamp
<1>5. \A base, feature, p, f, high : Parsers!Vp9!OfSegment(base, feature, p, f, high)
                                      = Vpx!Par9!OfSegment(base, feature, p, f, high)
BY Zenon, <1>4 DEF Parsers!Vp9!OfSegment, Vpx!Par9!OfSegment
<1>6. \A level, p, f : Parsers!Vp9!FilterLevels(level, p, f) = Vpx!Par9!FilterLevels(level, p, f)
BY Zenon, <1>4 DEF Parsers!Vp9!FilterLevels, Vpx!Par9!FilterLevels
<1>7. \A p, f : Parsers!Vp9!SegmentationUpdate(p, f) = Vpx!Par9!SegmentationUpdate(p, f)
BY Zenon, <1>5, <1>6 DEF Parsers!Vp9!SegmentationUpdate, Vpx!Par9!SegmentationUpdate
<1>8. \A p, f : Parsers!Vp9!ColorConfigUpdate(p, f) = Vpx!Par9!ColorConfigUpdate(p, f)
BY Zenon DEF Parsers!Vp9!ColorConfigUpdate, Vpx!Par9!ColorConfigUpdate, Parsers!Vp9!KeyOrIntraOnly,
     Vpx!Par9!KeyOrIntraOnly
<1>9. \A p, f : Parsers!Vp9!QuantizationUpdate(p, f) = Vpx!Par9!QuantizationUpdate(p, f)
BY Zenon DEF Parsers!Vp9!QuantizationUpdate, Vpx!Par9!QuantizationUpdate
<1>10. \A p, f : Parsers!Vp9!SegmentationSave(p, f) = Vpx!Par9!SegmentationSave(p, f)
BY Zenon DEF Parsers!Vp9!SegmentationSave, Vpx!Par9!SegmentationSave
<1>11. \A p, f, size : Parsers!Vp9!ReferenceUpdate(p, f, size) = Vpx!Par9!ReferenceUpdate(p, f, size)
BY Zenon DEF Parsers!Vp9!ReferenceUpdate, Vpx!Par9!ReferenceUpdate
<1>12. \A p, f : Parsers!Vp9!SizeOf(p, f) = Vpx!Par9!SizeOf(p, f)
BY Zenon DEF Parsers!Vp9!SizeOf, Vpx!Par9!SizeOf
<1>13. \A p, f : Parsers!Vp9!Update(p, f) = Vpx!Par9!Update(p, f)
BY Zenon, <1>2, <1>3, <1>7, <1>8, <1>9, <1>10, <1>11, <1>12 DEF Parsers!Vp9!Update, Vpx!Par9!Update
<1>14. \A f : Parsers!Vp9!Special(f) = Vpx!Par9!Special(f)
BY Zenon DEF Parsers!Vp9!Special, Vpx!Par9!Special, Parsers!Vp9!One, Vpx!Par9!One,
     Parsers!Vp9!Deltas, Vpx!Par9!Deltas, Parsers!Vp9!Features, Vpx!Par9!Features
<1>15. Parsers!Vp9!IntraFrames = Vpx!Par9!IntraFrames
BY Zenon DEF Parsers!Vp9!IntraFrames, Vpx!Par9!IntraFrames, Parsers!Vp9!Plain, Vpx!Par9!Plain
<1>16. Parsers!Vp9!KeyFrames = Vpx!Par9!KeyFrames
BY Zenon DEF Parsers!Vp9!KeyFrames, Vpx!Par9!KeyFrames, Parsers!Vp9!Plain, Vpx!Par9!Plain
<1>17. \A f : Parsers!Vp9!Sized(f) = Vpx!Par9!Sized(f)
BY Zenon DEF Parsers!Vp9!Sized, Vpx!Par9!Sized, Parsers!Vp9!Writer, Vpx!Par9!Writer,
     Parsers!Vp9!LastOf, Vpx!Par9!LastOf, Parsers!Vp9!Max, Vpx!Par9!Max
<1>18. Parsers!Vp9!ParseKey => Vpx!Par9!ParseKey
BY Zenon, <1>1, <1>13, <1>16, <1>14 DEF Parsers!Vp9!ParseKey, Vpx!Par9!ParseKey, Parsers!Vp9!KeyVariants,
     Vpx!Par9!KeyVariants, Parsers!Vp9!Plain, Vpx!Par9!Plain
<1>19. Parsers!Vp9!Parse => Vpx!Par9!Parse
BY Zenon, <1>1, <1>13, <1>15, <1>14, <1>17 DEF Parsers!Vp9!Parse, Vpx!Par9!Parse, Parsers!Vp9!InterVariants,
     Vpx!Par9!InterVariants, Parsers!Vp9!InterFrames, Vpx!Par9!InterFrames, Parsers!Vp9!Plain,
     Vpx!Par9!Plain
<1>20. Parsers!Vp9!ParseFails => Vpx!Par9!ParseFails
BY Zenon, <1>1, <1>15, <1>16 DEF Parsers!Vp9!ParseFails, Vpx!Par9!ParseFails, Parsers!Vp9!Plain,
     Vpx!Par9!Plain
<1>21. Parsers!Vp9!ParseAgain => Vpx!Par9!ParseAgain
BY Zenon, <1>1, <1>13 DEF Parsers!Vp9!ParseAgain, Vpx!Par9!ParseAgain
<1>22. Parsers!Vp9!Flush => Vpx!Par9!Flush
BY Zenon DEF Parsers!Vp9!Flush, Vpx!Par9!Flush, Parsers!Vp9!Allocated, Vpx!Par9!Allocated,
     Parsers!Vp9!Cleared, Vpx!Par9!Cleared, Parsers!Vp9!Deltas, Vpx!Par9!Deltas,
     Parsers!Vp9!NoFeatures, Vpx!Par9!NoFeatures
<1>23. [Parsers!Vp9!Next]_Parsers!Vp9!vars => [Vpx!Par9!Next]_Vpx!Par9!vars
BY <1>18, <1>19, <1>20, <1>21, <1>22 DEF Parsers!Vp9!Next, Vpx!Par9!Next, Parsers!Vp9!vars,
     Vpx!Par9!vars
<1>24. Parsers!Vp9!Init => Vpx!Par9!Init
BY Zenon DEF Parsers!Vp9!Init, Vpx!Par9!Init, Parsers!Vp9!Allocated, Vpx!Par9!Allocated,
     Parsers!Vp9!Cleared, Vpx!Par9!Cleared, Parsers!Vp9!Deltas, Vpx!Par9!Deltas,
     Parsers!Vp9!NoFeatures, Vpx!Par9!NoFeatures
<1>25. Vpx!Par9!HeadersAreTrue => Parsers!Vp9!HeadersAreTrue
BY Zenon DEF Parsers!Vp9!HeadersAreTrue, Vpx!Par9!HeadersAreTrue, Parsers!Vp9!LastOf,
     Vpx!Par9!LastOf, Parsers!Vp9!Max, Vpx!Par9!Max, Parsers!Vp9!Writer, Vpx!Par9!Writer,
     Parsers!Vp9!KeyOrIntraOnly, Vpx!Par9!KeyOrIntraOnly, Parsers!Vp9!DefaultDeltas,
     Vpx!Par9!DefaultDeltas, Parsers!Vp9!Deltas, Vpx!Par9!Deltas, Parsers!Vp9!NoFeatures,
     Vpx!Par9!NoFeatures, Parsers!Vp9!Clamp, Vpx!Par9!Clamp
<1> QED BY <1>23, <1>24, <1>25

\* The same of VP9, and of the sizes of its references.
LEMMA Vp9ParserKept ==
  ASSUME Hard = {}
  PROVE  Spec => [](Parsing("Vp9Parser") => Parsers!Vp9!HeadersAreTrue)
<1>1. Init /\ Parsing("Vp9Parser") => Vpx!Par9!Init
  BY SameVp9Parser DEF Parsing, Init, Parsers!Init
<1>2. Parsing("Vp9Parser") /\ [Next]_vars => [Vpx!Par9!Next]_Vpx!Par9!vars /\ Parsing("Vp9Parser")'
  BY SameVp9Parser, StepsOfVp9Parser, StaysPart
<1>3. ~Parsing("Vp9Parser") /\ [Next]_vars => ~Parsing("Vp9Parser")'
  BY StaysPart
<1>4. Vpx!Par9!Spec => []Vpx!Par9!HeadersAreTrue
  BY Vpx!Vp9HeadersAreTrue
<1>5. Vpx!Par9!HeadersAreTrue => Parsers!Vp9!HeadersAreTrue
  BY SameVp9Parser
<1> QED BY <1>1, <1>2, <1>3, <1>4, <1>5, PTL DEF Spec, vars, Vpx!Par9!Spec

-----------------------------------------------------------------------------
(* The promises of the hosts and of the parsers, for the MIME types and the parts that are proved *)

\* MPEG-2 and VC-1 as decoders, VP8 as an encoder, VP9 as both.
Proved == {"mpeg2", "vc1", "vp8", "vp9"}

\* MPEG-2 and VC-1: pictures leave the decoder in the order of display, each at most once.
THEOREM DecodedInOrder ==
  Spec => [](mime \in Proved => OutputInOrder)
<1>1. (Is("decoder", "vc1") => Decoders!Vc1!OutputInOrder) /\ (Is("decoder", "mpeg2") => Decoders!Mpeg2!OutputInOrder)
      => (mime \in Proved => OutputInOrder)
  BY DEF Is, Proved, OutputInOrder, Decoders!OutputInOrder
<1> QED BY <1>1, Vc1Kept, Mpeg2Kept, PTL

\* MPEG-2 and VC-1: no picture that was decoded is dropped.
THEOREM DecodedNotLost ==
  Spec => [](mime \in Proved => NoPictureLost)
<1>1. (Is("decoder", "vc1") => Decoders!Vc1!NoPictureLost) /\ (Is("decoder", "mpeg2") => Decoders!Mpeg2!NoPictureLost)
      => (mime \in Proved => NoPictureLost)
  BY DEF Is, Proved, NoPictureLost, Decoders!NoPictureLost
<1> QED BY <1>1, Vc1Kept, Mpeg2Kept, PTL

\* MPEG-2, VC-1 and VP9: the driver is given the references that the stream means.
THEOREM DecodedFromReferences ==
  Spec => [](mime \in Proved => ReferencesAreTrue)
<1>1. /\ Is("decoder", "vc1") => Decoders!Vc1!ReferencesAreTrue
      /\ Is("decoder", "mpeg2") => Decoders!Mpeg2!ReferencesAreTrue
      /\ Is("decoder", "vp9") => Decoders!Vp9!SlotsAreTrue /\ Decoders!Vp9!NothingAcrossKey
      => (mime \in Proved => ReferencesAreTrue)
  BY DEF Is, Proved, ReferencesAreTrue, Decoders!ReferencesAreTrue
<1> QED BY <1>1, Vc1Kept, Mpeg2Kept, Vp9DecoderKept, PTL

\* A frame of VP9 is decoded into surfaces of the size that the client was told, whatever other
\* decoders there are.
THEOREM DecodedInSize ==
  Spec => []SizeWasTold
<1>1. (Is("decoder", "vp9") => Decoders!Vp9!SizeWasTold) => SizeWasTold
  BY DEF Is, SizeWasTold, Decoders!SizeWasTold
<1> QED BY <1>1, Vp9DecoderKept, PTL

\* VP8 and VP9: what the encoder and the decoder, which share no state, make of the same headers is
\* the same references.
THEOREM EncodedForDecoder ==
  ASSUME Hard = {}
  PROVE  Spec => [](mime \in Proved => SameReferences)
<1>1. (Is("encoder", "vp8") => Encoders!Vp8!SameReferences) /\ (Is("encoder", "vp9") => Encoders!Vp9!SameReferences)
      => (mime \in Proved => SameReferences)
  BY DEF Is, Proved, SameReferences, Encoders!SameReferences
<1> QED BY <1>1, Vp8EncoderKept, Vp9EncoderKept, PTL

\* The parsers of VP8 and VP9: the frames that are parsed twice, that fail or that come after a seek
\* leave nothing in a header that was not said for it.
THEOREM HeadersOfStream ==
  ASSUME Hard = {}
  PROVE  Spec => [](part \in {"Vp8Parser", "Vp9Parser"} => HeadersAreTrue)
<1>1. (Parsing("Vp8Parser") => Parsers!Vp8!HeadersAreTrue) /\ (Parsing("Vp9Parser") => Parsers!Vp9!HeadersAreTrue)
      => (part \in {"Vp8Parser", "Vp9Parser"} => HeadersAreTrue)
  BY DEF Parsing, HeadersAreTrue, Parsers!HeadersAreTrue
<1> QED BY <1>1, Vp8ParserKept, Vp9ParserKept, PTL
=============================================================================
