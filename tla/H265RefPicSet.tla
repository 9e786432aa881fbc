---------------------------- MODULE H265RefPicSet ----------------------------
(***************************************************************************)
(* stRefPicSet() of codecparsers/h265Parser.cpp: the short-term reference  *)
(* picture sets of an SPS, and the one of a slice header after them, are   *)
(* written explicitly or predicted from a set before.  What a set means is *)
(* a function from the deltas of the pictures that are kept to whether the *)
(* current picture may refer to them.                                      *)
(***************************************************************************)
EXTENDS Integers, SequencesExt, FiniteSetsExt, TLC

CONSTANTS
    Deltas,     \* of the pictures in explicit sets
    MaxKept,    \* bound: pictures in an explicit set
    MaxSets     \* bound: sets, with that of the slice

VARIABLES
    parser,     \* the sets that were parsed, [S0, S1], sequences of [delta, used]
    sent        \* history: what each set means

vars == <<parser, sent>>

Init == parser = <<>> /\ sent = <<>>

-----------------------------------------------------------------------------
(* The encoder *)

Abs(x) == IF x < 0 THEN -x ELSE x

\* The deltas on one side of the picture, nearest first.
Side(meaning, sign) ==
    SetToSortSeq({d \in DOMAIN meaning : d * sign > 0}, LAMBDA a, b : Abs(a) < Abs(b))

\* The steps from one picture to the next.
Steps(meaning, sign) ==
    LET side == Side(meaning, sign)
    IN  [i \in DOMAIN side |-> [step |-> Abs(side[i]) - (IF i = 1 THEN 0 ELSE Abs(side[i - 1])),
                                used |-> meaning[side[i]]]]

\* For each picture of the set before, nearest first, those before it first, and for its own picture.
Flags(meaning, ref, deltaRps) ==
    [i \in 1..(Cardinality(DOMAIN ref) + 1) |->
        LET d == (Side(ref, -1) \o Side(ref, 1) \o <<0>>)[i] + deltaRps
        IN  IF d \notin DOMAIN meaning THEN "dropped" ELSE IF meaning[d] THEN "used" ELSE "kept"]

-----------------------------------------------------------------------------
(* stRefPicSet() *)

\* (7-65) to (7-68): DeltaPocS0 or DeltaPocS1
Sums(steps, sign) ==
    LET delta[i \in 0..Len(steps)] == IF i = 0 THEN 0 ELSE delta[i - 1] + sign * steps[i].step
    IN  [i \in DOMAIN steps |-> [delta |-> delta[i], used |-> steps[i].used]]

Explicit(s0, s1) == [S0 |-> Sums(s0, -1), S1 |-> Sums(s1, 1)]

Moved(pics, flags, first, deltaRps) ==
    [i \in DOMAIN pics |-> [delta |-> pics[i].delta + deltaRps, flag |-> flags[first + i]]]

\* What is kept on one side of the current picture.
Taken(pics, sign) ==
    LET side == SelectSeq(pics, LAMBDA p : p.delta * sign > 0 /\ p.flag # "dropped")
    IN  [i \in DOMAIN side |-> [delta |-> side[i].delta, used |-> side[i].flag = "used"]]

\* Fault: the pictures that change the side come in the order they had.
PredictedNotReversed(ref, deltaRps, flags) ==
    LET n  == Len(ref.S0)
        s0 == Moved(ref.S0, flags, 0, deltaRps)
        s1 == Moved(ref.S1, flags, n, deltaRps)
        it == <<[delta |-> deltaRps, flag |-> flags[Len(flags)]]>>
    IN  [S0 |-> Taken(s1 \o it \o s0, -1), S1 |-> Taken(s0 \o it \o s1, 1)]

\* (7-59) and (7-60): first the pictures that change the side, from the farthest, then the picture
\* that the set was of.
Predicted(ref, deltaRps, flags) ==
    LET n  == Len(ref.S0)
        s0 == Moved(ref.S0, flags, 0, deltaRps)
        s1 == Moved(ref.S1, flags, n, deltaRps)
        it == <<[delta |-> deltaRps, flag |-> flags[Len(flags)]]>>
    IN  [S0 |-> Taken(Reverse(s1) \o it \o s0, -1), S1 |-> Taken(Reverse(s0) \o it \o s1, 1)]

\* refRpsIdx: the set of a slice may be predicted from any, those of the SPS from the one before.
RefRpsIdx(stRpsIdx, deltaIdxMinus1) == stRpsIdx - (deltaIdxMinus1 + 1)

-----------------------------------------------------------------------------
(* The sets *)

Meanings(domain, most) == UNION {[kept -> BOOLEAN] : kept \in {s \in SUBSET domain : Cardinality(s) <= most}}

\* The second set is there to be skipped by that of the slice.
ParseExplicit ==
    /\ Len(parser) < MaxSets - 1
    /\ \E m \in IF parser = <<>> THEN Meanings(Deltas, MaxKept) ELSE {[d \in {-1} |-> TRUE]} :
          /\ parser' = Append(parser, Explicit(Steps(m, -1), Steps(m, 1)))
          /\ sent' = Append(sent, m)

ParsePredicted ==
    /\ Len(parser) = MaxSets - 1
    /\ \E deltaIdxMinus1 \in 0..(Len(parser) - 1), deltaRps \in Deltas :
          LET i   == RefRpsIdx(Len(parser) + 1, deltaIdxMinus1)
              all == {d + deltaRps : d \in DOMAIN sent[i] \union {0}} \ {0}
          IN  \E m \in Meanings(all, Cardinality(all)) :
                 /\ parser' = Append(parser, Predicted(parser[i], deltaRps, Flags(m, sent[i], deltaRps)))
                 /\ sent' = Append(sent, m)

Next == ParseExplicit \/ ParsePredicted

Spec == Init /\ [][Next]_vars

-----------------------------------------------------------------------------
(* Properties *)

\* The lists of a set have the pictures that it was written for, each once and nearest first, however
\* it was written: the decoder takes its references in this order.
SetsReadBack ==
    \A k \in DOMAIN parser, sign \in {-1, 1} :
        (IF sign < 0 THEN parser[k].S0 ELSE parser[k].S1)
            = [i \in DOMAIN Side(sent[k], sign) |->
                  [delta |-> Side(sent[k], sign)[i], used |-> sent[k][Side(sent[k], sign)[i]]]]
=============================================================================
