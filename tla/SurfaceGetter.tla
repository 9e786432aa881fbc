--------------------------- MODULE SurfaceGetter ---------------------------
(***************************************************************************)
(* class SurfaceGetter of v4l2/v4l2_decode.cpp: who holds each surface     *)
(* shared by the decoder and the renderer, and the surfaces nobody holds,  *)
(* first in first out.  A getter is a record: used maps the known surfaces *)
(* to their holders (m_used, with a set for the two bits), freed is        *)
(* m_freed.  Each operator is one critical section of the class.           *)
(***************************************************************************)
EXTENDS Sequences, Functions, SequencesExt

Holders == {"renderer", "decoder"}   \* kHoldByRenderer, kHoldByDecoder

EmptyGetter == [used |-> << >>, freed |-> << >>]

\* takeOneFree(): precondition of TakeOneFree.
HasFree(g) == g.freed # << >>

TakeOneFree(g, holder) ==
    [used  |-> [g.used EXCEPT ![Head(g.freed)] = {holder}],
     freed |-> Tail(g.freed)]

\* setFlag(): unknown surfaces are reported and ignored.
SetFlag(g, s, holder) ==
    IF s \in DOMAIN g.used THEN [g EXCEPT !.used[s] = @ \cup {holder}] ELSE g

\* Fault: any holder to leave frees the surface.
ClearFlagFrees(g, s, holder) ==
    IF s \in DOMAIN g.used /\ holder \in g.used[s]
    THEN [used  |-> [g.used EXCEPT ![s] = @ \ {holder}], freed |-> Append(g.freed, s)]
    ELSE g

\* clearFlag(): the last holder to leave frees the surface; a surface that is
\* unknown or not held that way is reported and ignored.
ClearFlag(g, s, holder) ==
    IF s \in DOMAIN g.used /\ holder \in g.used[s]
    THEN [used  |-> [g.used EXCEPT ![s] = @ \ {holder}],
          freed |-> IF g.used[s] = {holder} THEN Append(g.freed, s) ELSE g.freed]
    ELSE g

\* putSurface() for each surface of S, in any order: the decoder leaves them all,
\* and those that it was the last to hold are free.
PutSurfaces(g, S) ==
    {[used  |-> [s \in DOMAIN g.used |-> IF s \in S THEN g.used[s] \ {"decoder"} ELSE g.used[s]],
      freed |-> g.freed \o left] :
        left \in SetToSeqs({s \in S \cap DOMAIN g.used : g.used[s] = {"decoder"}})}

\* holdAllByRenderer(): the decoder's hold on them is forgotten.
HoldAllByRenderer(g) ==
    [used |-> [s \in DOMAIN g.used |-> {"renderer"}], freed |-> << >>]

\* addNewSurface(): a duplicate is reported, and added all the same.
AddNewSurface(g, s) ==
    [used  |-> [t \in DOMAIN g.used \cup {s} |-> IF t = s THEN {} ELSE g.used[t]],
     freed |-> Append(g.freed, s)]
=============================================================================
