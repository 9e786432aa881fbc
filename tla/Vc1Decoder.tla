----------------------------- MODULE Vc1Decoder -----------------------------
(***************************************************************************)
(* decoder/vaapidecoder_vc1.cpp: two reference frames, of which the older  *)
(* is shown when a newer frame comes.  A frame is named by its place in    *)
(* the stream.                                                             *)
(***************************************************************************)
EXTENDS DisplayOrder

CONSTANTS
    Hard,           \* streams the decoder gets wrong: subset of HardKinds
    MaxFrames,      \* bound: frames sent
    MaxSpecial      \* bound: flushes and frames refused

HardKinds == {"BI frame"}

VARIABLES
    refs,       \* m_dpb[0..m_dpbIdx): [id, out: m_picOutputFlag]
    shown,      \* the frames that VaapiDecoderBase::outputPicture() was called with
    pred,       \* what the last frame was decoded from
    stream,     \* [sent: the frames in coding order, part, restart: an I frame is next]
    lost,       \* history: the frames that decode() failed for
    special     \* history: number of special events

vars == <<refs, shown, pred, stream, lost, special>>

Init ==
    /\ refs = <<>> /\ shown = <<>> /\ pred = <<>>
    /\ stream = [sent |-> <<>>, part |-> 1, restart |-> TRUE]
    /\ lost = {} /\ special = 0

-----------------------------------------------------------------------------

\* Fault: a frame is shown as often as it is asked for.
ShowAgain(list, p) == Append(list, p.id)

\* outputPicture(): no picture is shown twice.
OutputPicture(list, p) == IF p.out THEN list ELSE Append(list, p.id)

\* What a frame is predicted from; with too few references decode() fails before
\* the driver is asked.
HasReferences(kind) ==
    CASE kind \in {"P", "skipped"} -> Len(refs) >= 1
      [] kind = "B" -> Len(refs) = 2
      [] OTHER -> TRUE

ReferencesOf(kind) ==
    CASE kind \in {"P", "skipped"} -> <<Last(refs).id>>
      [] kind = "B" -> <<refs[1].id, refs[2].id>>
      [] OTHER -> <<>>

\* Fault: a B frame does not show the reference before it.
StoreWithoutFirst(p) ==
    IF p.kind = "B" THEN refs' = refs /\ shown' = Append(shown, p.id)
    ELSE /\ refs' = Append(IF Len(refs) = 2 THEN Tail(refs) ELSE refs, [id |-> p.id, out |-> FALSE])
         /\ shown' = IF Len(refs) = 2 THEN OutputPicture(shown, refs[1]) ELSE shown

\* The end of decode(): a B frame and the reference before it are shown, a reference
\* takes the place of the older one, which is shown.
Store(p) ==
    IF p.kind = "B"
    THEN /\ shown' = Append(OutputPicture(shown, refs[1]), p.id)
         /\ refs' = <<[refs[1] EXCEPT !.out = TRUE], refs[2]>>
    ELSE /\ refs' = Append(IF Len(refs) = 2 THEN Tail(refs) ELSE refs, [id |-> p.id, out |-> FALSE])
         /\ shown' = IF Len(refs) = 2 THEN OutputPicture(shown, refs[1]) ELSE shown

-----------------------------------------------------------------------------
(* Actions *)

NextId == Len(stream.sent) + 1

\* The encoder predicts from reference frames since the last seek.
MaySend(kind) ==
    LET R == References(Append(stream.sent, [part |-> stream.part]), NextId)
    IN  CASE kind = "I" -> TRUE
          [] kind \in {"P", "skipped"} -> R # {}
          [] kind = "B" -> \E r, s \in R : r < s
          [] kind = "BI" -> "BI frame" \in Hard /\ \E r, s \in R : r < s

\* decode() of a frame.  decode() of the driver may fail.
SendFrame ==
    \E kind \in {"I", "P", "skipped", "B", "BI"}, refused \in BOOLEAN :
        LET fails == refused \/ ~HasReferences(kind)
            p == [id |-> NextId, kind |-> kind]
        IN  /\ NextId <= MaxFrames /\ MaySend(kind)
            /\ refused => special < MaxSpecial
            /\ special' = IF refused THEN special + 1 ELSE special
            /\ stream' = [stream EXCEPT !.restart = FALSE,
                             !.sent = Append(@, [part |-> stream.part, kind |-> IF kind = "BI" THEN "B" ELSE kind])]
            /\ pred' = IF fails THEN <<>> ELSE ReferencesOf(kind)
            /\ IF fails THEN lost' = lost \union {p.id} /\ UNCHANGED <<refs, shown>>
               ELSE Store(p) /\ UNCHANGED lost

\* bumpAll(), from flush(), stop() or decode() without data.
BumpAll ==
    /\ stream.sent # <<>> /\ ~stream.restart
    /\ special < MaxSpecial /\ special' = special + 1
    /\ shown' = CASE refs = <<>> -> shown
                  [] Len(refs) = 1 -> OutputPicture(shown, refs[1])
                  [] OTHER -> OutputPicture(OutputPicture(shown, refs[1]), refs[2])
    /\ refs' = <<>>
    /\ stream' = [stream EXCEPT !.part = @ + 1, !.restart = TRUE]
    /\ pred' = <<>>
    /\ UNCHANGED lost

Next == SendFrame \/ BumpAll

Spec == Init /\ [][Next]_vars

-----------------------------------------------------------------------------
(* Properties *)

\* Frames leave in the order of display, each at most once, whatever the mixture of
\* B frames and references.
OutputInOrder == Displays(stream.sent, shown, lost)

\* A frame that was decoded has been shown, or is a reference that will be.
NoPictureLost ==
    \A i \in DOMAIN stream.sent \ lost :
        (i \in Range(shown)) # (\E k \in DOMAIN refs : refs[k] = [id |-> i, out |-> FALSE])

\* A frame is decoded from the references it was encoded from, the older one first.
ReferencesAreTrue ==
    stream.sent # <<>> /\ ~stream.restart =>
        LET want == Wanted(stream.sent, Len(stream.sent))
        IN  pred # <<>> /\ want \intersect lost = {} =>
                Range(pred) = want /\ \A a, b \in DOMAIN pred : a < b => pred[a] < pred[b]
=============================================================================
