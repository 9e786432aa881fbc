---------------------------- MODULE DisplayOrder ----------------------------
(***************************************************************************)
(* The order of display that MPEG-2 (6.1.1.11) and VC-1 give the frames of *)
(* a stream with B frames: S is the sequence of frames in coding order,    *)
(* each [part, kind], where a part is what lies between two seeks.         *)
(***************************************************************************)
EXTENDS Integers, SequencesExt

IsB(f) == f.kind = "B"

\* The reference frames of the part of i, before i in coding order.
References(S, i) == {j \in 1..(i - 1) : S[j].part = S[i].part /\ ~IsB(S[j])}

\* The last frame of a set, and the last two.
Newest(R)    == {r \in R : \A s \in R : s <= r}
NewestTwo(R) == {r \in R : \A s, t \in R : ~(r < s /\ s < t)}

\* What a frame is predicted from.
Wanted(S, i) ==
    CASE IsB(S[i]) -> NewestTwo(References(S, i))
      [] S[i].kind = "I" -> {}
      [] OTHER -> Newest(References(S, i))

\* A B frame is shown before the reference frame that it follows in the stream, and
\* after every earlier one.
Precedes(S, i, j) ==
    \/ S[i].part < S[j].part
    \/ /\ S[i].part = S[j].part
       /\ IF IsB(S[i]) = IsB(S[j]) THEN i < j
          ELSE IF IsB(S[i]) THEN \A r \in References(S, i) : r <= j
          ELSE \E r \in References(S, j) : i < r

\* A B frame that lost a reference is not held back for the older one.
HasPlace(S, i, lost) == IsB(S[i]) => Wanted(S, i) \intersect lost = {}

\* What a list of frames shows is in that order, and shows none twice; the frames that
\* have no place are left out.
Displays(S, list, lost) ==
    \A a, b \in DOMAIN list :
        a < b /\ HasPlace(S, list[a], lost) /\ HasPlace(S, list[b], lost) => Precedes(S, list[a], list[b])
=============================================================================
