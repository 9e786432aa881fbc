---------------------------- MODULE Mpeg2Decoder ----------------------------
(***************************************************************************)
(* decoder/vaapidecoder_mpeg2.cpp.  A buffer of the client holds a frame,  *)
(* or the two fields of one; a frame is named by its place in the stream,  *)
(* and its surface by the frame it was created for.                        *)
(***************************************************************************)
EXTENDS DisplayOrder

CONSTANTS
    Hard,           \* streams the decoder gets wrong: subset of HardKinds
    MaxFrames,      \* bound: frames sent
    MaxSpecial      \* bound: flushes, GOPs that break the link, pictures refused

HardKinds == {"leading B frame", "second field refused"}

VARIABLES
    refs,       \* DPB::m_refs
    firstField, \* DPB::m_firstField
    cur,        \* m_current
    shown,      \* the surfaces that outputPicture() was called with
    stream,     \* [sent: the frames in coding order, part, restart: an I frame is next]
    lost,       \* history: the frames that the driver refused, or whose buffer was dropped
    special     \* history: number of special events

vars == <<refs, firstField, cur, shown, stream, lost, special>>

None == [surf |-> 0, field |-> FALSE]

Init ==
    /\ refs = <<>> /\ firstField = None /\ cur = None /\ shown = <<>>
    /\ stream = [sent |-> <<>>, part |-> 1, restart |-> TRUE]
    /\ lost = {} /\ special = 0

-----------------------------------------------------------------------------
(* The DPB, on d = [refs, first, shown] *)

Dpb == [refs |-> refs, first |-> firstField, shown |-> shown]

ShowLast(d) == IF d.refs = <<>> THEN d ELSE [d EXCEPT !.shown = Append(@, Last(d.refs).surf)]

\* Fault: both references are shown.
FlushAll(d) == [d EXCEPT !.shown = @ \o [i \in DOMAIN d.refs |-> d.refs[i].surf], !.refs = <<>>, !.first = None]

FlushDpb(d) == [ShowLast(d) EXCEPT !.refs = <<>>, !.first = None]

\* Fault: a reference frame is shown when it is decoded.
AddAndShow(d, p) ==
    [d EXCEPT !.shown = Append(@, p.surf),
              !.refs = IF IsB(p) THEN @ ELSE Append(IF Len(@) = 2 THEN Tail(@) ELSE @, p)]

AddNewFrame(d, p) ==
    IF IsB(p) THEN [d EXCEPT !.shown = Append(@, p.surf)]
    ELSE [ShowLast(d) EXCEPT !.refs = Append(IF Len(@) = 2 THEN Tail(@) ELSE @, p)]

Add(d, p) ==
    IF p.field /\ d.first = None THEN [d EXCEPT !.first = p]
    ELSE AddNewFrame([d EXCEPT !.first = None], p)

\* Fault: a B frame gets its references in the order of their output.
GetReferencesSwapped(kind, r) ==
    CASE kind = "I" \/ r = <<>> -> <<0, 0>>
      [] kind = "B" /\ Len(r) = 2 -> <<r[2].surf, r[1].surf>>
      [] OTHER -> <<Last(r).surf, 0>>

\* getReferences(): <<forward, backward>>, 0 where there is none.
GetReferences(kind, r) ==
    CASE kind = "I" \/ r = <<>> -> <<0, 0>>
      [] kind = "B" /\ Len(r) = 2 -> <<r[1].surf, r[2].surf>>
      [] OTHER -> <<Last(r).surf, 0>>

DecodeCurrent == IF cur = None THEN Dpb ELSE Add(Dpb, cur)

-----------------------------------------------------------------------------
(* The NAL units of a buffer *)

SetDpb(d) == refs' = d.refs /\ firstField' = d.first /\ shown' = d.shown

\* A picture header ends the picture before; the first slice creates this one, with
\* a new surface or with that of the first field.
BeginPicture(id, kind, field) ==
    /\ SetDpb(DecodeCurrent)
    /\ cur' = [surf |-> IF field /\ firstField' # None THEN firstField'.surf ELSE id,
               id |-> id, kind |-> kind, field |-> field, refs |-> GetReferences(kind, refs')]

\* The driver refuses the picture before: decode() returns before it has looked at
\* the rest of the buffer.
RefusePicture ==
    /\ cur # None /\ special < MaxSpecial /\ special' = special + 1
    /\ cur.field /\ firstField # None => "second field refused" \in Hard
    /\ cur' = None
    /\ UNCHANGED <<refs, firstField, shown>>

NextId == Len(stream.sent) + 1

\* An I frame after a seek, a P frame once there is a reference and a B frame once
\* there are two.
MaySend(kind) ==
    LET R == References(Append(stream.sent, [part |-> stream.part]), NextId)
    IN  CASE kind = "I" -> TRUE
          [] kind = "P" -> ~stream.restart
          [] kind = "B" -> ~stream.restart /\ ("leading B frame" \in Hard \/ \E r, s \in R : r < s)

\* The client has given both fields of the frame it began.
WholeFrame == cur = None \/ ~cur.field \/ firstField # None

SendFrame ==
    \E kind \in {"I", "P", "B"}, field \in BOOLEAN :
        /\ NextId <= MaxFrames /\ WholeFrame /\ MaySend(kind)
        /\ stream' = [stream EXCEPT !.sent = Append(@, [part |-> stream.part, kind |-> kind]), !.restart = FALSE]
        /\ \/ BeginPicture(NextId, kind, field) /\ UNCHANGED <<lost, special>>
           \/ RefusePicture /\ lost' = lost \union {cur.id, NextId}

SendSecondField ==
    /\ cur # None /\ ~WholeFrame
    /\ UNCHANGED stream
    /\ \/ BeginPicture(cur.id, cur.kind, TRUE) /\ UNCHANGED <<lost, special>>
       \/ RefusePicture /\ lost' = lost \union {cur.id}

\* Any other NAL unit after a picture, or a picture header whose picture finds no
\* surface: the client sends that buffer again.
OtherUnit ==
    /\ cur # None /\ WholeFrame
    /\ SetDpb(DecodeCurrent) /\ cur' = None
    /\ UNCHANGED <<stream, lost, special>>

NewPart == stream' = [stream EXCEPT !.part = @ + 1, !.restart = TRUE]

\* decodeGroup() with closed_gop and broken_link.
BreakLink ==
    /\ WholeFrame /\ stream.sent # <<>> /\ ~stream.restart
    /\ special < MaxSpecial /\ special' = special + 1
    /\ SetDpb(FlushDpb(DecodeCurrent)) /\ cur' = None
    /\ NewPart
    /\ UNCHANGED lost

\* flush(), stop(), or decode() without data: whatever decodeCurrent() returns, and
\* even between two fields.
Flush ==
    /\ stream.sent # <<>> /\ ~stream.restart
    /\ special < MaxSpecial /\ special' = special + 1
    /\ NewPart
    /\ cur' = None
    /\ \/ SetDpb(FlushDpb(DecodeCurrent)) /\ lost' = IF WholeFrame THEN lost ELSE lost \union {cur.id}
       \/ cur # None /\ SetDpb(FlushDpb(Dpb)) /\ lost' = lost \union {cur.id}

Next == SendFrame \/ SendSecondField \/ OtherUnit \/ BreakLink \/ Flush

Spec == Init /\ [][Next]_vars

-----------------------------------------------------------------------------
(* Properties *)

\* Frames leave in the order of display, each at most once.
OutputInOrder == Displays(stream.sent, shown, lost)

\* A frame whose fields the driver took has been shown, or is the newest reference,
\* or is not in the DPB yet.
NoPictureLost ==
    \A i \in DOMAIN stream.sent \ (lost \union {cur.surf, firstField.surf}) :
        (i \in Range(shown)) # (refs # <<>> /\ i = Last(refs).surf)

\* A picture is decoded into the surface of its own frame, from the frames it was
\* encoded from: the forward reference first, and a backward one for a B frame only.
ReferencesAreTrue ==
    cur # None =>
        /\ cur.surf = cur.id
        /\ Wanted(stream.sent, cur.id) \intersect lost = {} =>
               /\ Range(cur.refs) \ {0} = Wanted(stream.sent, cur.id)
               /\ IF cur.kind = "B" THEN cur.refs[1] < cur.refs[2] ELSE cur.refs[2] = 0
=============================================================================
