------------------------------ MODULE H265Dpb ------------------------------
(***************************************************************************)
(* The class DPB of decoder/vaapidecoder_h265.cpp as operators on a record *)
(* [pics: m_pictures in the order of the set, shown: what m_output was     *)
(* called with].  A picture is [id, poc, lsb, out: m_picOutputFlag, ref:   *)
(* m_isReference, unused: m_isUnusedReference, latency: m_picLatencyCount].*)
(***************************************************************************)
EXTENDS Integers, SequencesExt

VARIABLE
    limits          \* sps_max_num_reorder_pics, sps_max_latency_increase_plus1 and
                    \* sps_max_dec_pic_buffering_minus1 + 1, of the highest layer

Waiting(P) == SelectSeq(P, LAMBDA p : p.out)
Ids(P)     == [i \in DOMAIN P |-> P[i].id]

\* Fault: a picture that is no reference any more goes, shown or not.
RemoveNonReferences(P) ==
    SelectSeq([i \in DOMAIN P |-> [P[i] EXCEPT !.ref = @ /\ ~P[i].unused]], LAMBDA p : p.ref)

\* removeUnused(): what is not in the reference picture set is no reference.
RemoveUnused(P) ==
    SelectSeq([i \in DOMAIN P |-> [P[i] EXCEPT !.ref = @ /\ ~P[i].unused]], LAMBDA p : p.ref \/ p.out)

\* On d = [pics, shown].
Bump(d) ==
    LET i == SelectInSeq(d.pics, LAMBDA p : p.out)
    IN  [shown |-> Append(d.shown, d.pics[i].id),
         pics  |-> IF d.pics[i].ref THEN [d.pics EXCEPT ![i].out = FALSE] ELSE RemoveAt(d.pics, i)]

BumpAll(d) ==
    LET stay == SelectSeq(d.pics, LAMBDA p : p.ref \/ ~p.out)
    IN  [shown |-> d.shown \o Ids(Waiting(d.pics)), pics |-> [i \in DOMAIN stay |-> [stay[i] EXCEPT !.out = FALSE]]]

MaxLatency == limits.reorder + limits.latency - 1

\* Fault: the reorder limit is taken for the number of pictures that may wait.
CheckReorderEarly(P) == Len(Waiting(P)) >= limits.reorder /\ Len(Waiting(P)) > 0

CheckReorderPics(P) == Len(Waiting(P)) > limits.reorder

CheckLatency(P) ==
    limits.latency > 0 /\ \E i \in DOMAIN P : P[i].out /\ P[i].latency >= MaxLatency

CheckDpbSize(P) == Len(P) >= limits.size

Bumped(d, n) == FoldLeft(LAMBDA e, i : Bump(e), d, [i \in 1..n |-> i])

\* while (Test) bump(), which ends when no picture is left to output.
BumpWhile(d, Test(_)) ==
    LET n == Len(Waiting(d.pics))
    IN  Bumped(d, Min({k \in 0..n : k = n \/ ~Test(Bumped(d, k).pics)}))

\* getPic(): a reference of that order count, or of those low bits.
GetPic(P, ref) ==
    LET i == SelectInSeq(P, LAMBDA p : IF ref.msb THEN p.poc = ref.poc ELSE p.lsb = ref.poc)
    IN  IF i # 0 /\ P[i].ref THEN {i} ELSE {}

\* init() after markUnusedReference(): what the slice names is still used.
InitReference(P, s) ==
    LET found == UNION {GetPic(P, r) : r \in s.rps}
    IN  [i \in DOMAIN P |-> [P[i] EXCEPT !.unused = s.kind = "IDR" \/ i \notin found]]

\* init(): the DPB that is left for the picture, and whether there is room.
Room(d) == [pics |-> d.pics, shown |-> d.shown, ok |-> ~CheckDpbSize(d.pics)]
InitClean(clean, s, noRasl, new) ==
    IF s.kind \in {"IDR", "CRA"} /\ noRasl /\ ~new
    THEN [pics |-> <<>>, ok |-> TRUE,
          shown |-> IF s.kind = "CRA" \/ s.noOutput THEN clean.shown ELSE BumpAll(clean).shown]
    ELSE Room(BumpWhile(clean, LAMBDA Q : CheckReorderPics(Q) \/ CheckLatency(Q) \/ CheckDpbSize(Q)))
InitDpb(d, s, noRasl, new) ==
    InitClean([d EXCEPT !.pics = RemoveUnused(InitReference(@, s))], s, noRasl, new)

\* m_pictures.insert(): a picture of an order count that is there is not inserted.
InsertPicture(P, p) ==
    LET i == SelectInSeq(P, LAMBDA q : p.poc <= q.poc)
    IN  IF i = 0 THEN Append(P, p) ELSE IF P[i].poc = p.poc THEN P ELSE InsertAt(P, i, p)

Add(d, p) ==
    LET older == [i \in DOMAIN d.pics |-> [d.pics[i] EXCEPT !.latency = @ + (IF d.pics[i].out THEN 1 ELSE 0)]]
    IN  BumpWhile([d EXCEPT !.pics = InsertPicture(older, [p EXCEPT !.latency = 0, !.ref = TRUE])],
                  LAMBDA Q : CheckReorderPics(Q) \/ CheckLatency(Q))
=============================================================================
