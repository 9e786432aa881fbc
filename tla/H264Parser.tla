----------------------------- MODULE H264Parser -----------------------------
(***************************************************************************)
(* codecparsers/h264Parser.cpp: the parameter sets that the parser keeps,  *)
(* and what the header of a slice takes from them.  The version of a set   *)
(* stands for the fields that slices only take over; the scaling lists are *)
(* those of 4:2:0, Flat, one of the defaults, or coded in a set.           *)
(***************************************************************************)
EXTENDS Integers, FiniteSetsExt, TLC

CONSTANT Hard       \* streams the parser gets wrong: subset of HardKinds

HardKinds == {"SPS without its PPS", "PPS before its SPS"}

VARIABLES
    parser,     \* m_spsMap and m_ppsMap, [sps, pps]
    used,       \* the last slice and the header made of it, <<>> when that failed; <<>> after a set
    sent        \* history: the last set with each id, [sps, pps]

vars == <<parser, used, sent>>

Lists == 0..7       \* 0..2 intra and 3..5 inter 4x4, 6 intra and 7 inter 8x8
Flat  == [i \in Lists |-> <<"flat">>]
DefaultScalingList ==
    [i \in Lists |-> <<IF i < 3 THEN "intra 4x4" ELSE IF i < 6 THEN "inter 4x4"
                       ELSE IF i = 6 THEN "intra 8x8" ELSE "inter 8x8">>]

Init == parser = [sps |-> <<>>, pps |-> <<>>] /\ used = <<>> /\ sent = [sps |-> <<>>, pps |-> <<>>]

-----------------------------------------------------------------------------
(* Parameter sets.  The matrix of a set is <<>> when it has none, or <<f>> where f says of the lists *)
(* it has whether they are "coded" or end at once, which stands for the default.                     *)

\* Fault: a list that is missing is always that of the rule.
ScalingListsByRule(f, last, name, before, rule) ==
    [i \in Lists |-> IF i > last THEN before[i]
                     ELSE IF i \notin DOMAIN f THEN rule[i]
                     ELSE IF f[i] = "coded" THEN <<name, i>> ELSE DefaultScalingList[i]]

\* The lists up to last: one that is missing is the list before it, the first of a kind is that of the rule.
ScalingLists(f, last, name, before, rule) ==
    LET list[i \in Lists] ==
            IF i > last THEN before[i]
            ELSE IF i \in DOMAIN f THEN (IF f[i] = "coded" THEN <<name, i>> ELSE DefaultScalingList[i])
            ELSE IF i \in {0, 3, 6, 7} THEN rule[i] ELSE list[i - 1]
    IN  list

ParseSps(p, s) ==
    [p EXCEPT !.sps = (s.id :> [version |-> s.version, present |-> s.matrix # <<>>,
                                lists |-> IF s.matrix = <<>> THEN Flat
                                          ELSE ScalingLists(s.matrix[1], 7, "sps", Flat, DefaultScalingList)]) @@ @]

\* Fault: the rule is B although the SPS has no matrix.
PpsListsRuleB(s, sps) ==
    IF s.matrix = <<>> THEN sps.lists
    ELSE ScalingLists(s.matrix[1], IF s.transform8x8 THEN 7 ELSE 5, "pps", sps.lists, sps.lists)

\* Rule A when the SPS has no matrix, rule B when it has one.
PpsLists(s, sps) ==
    IF s.matrix = <<>> THEN sps.lists
    ELSE ScalingLists(s.matrix[1], IF s.transform8x8 THEN 7 ELSE 5, "pps", sps.lists,
                      IF sps.present THEN sps.lists ELSE DefaultScalingList)

\* The PPS keeps the SPS that has the id now.
ParsePps(p, s) ==
    IF s.sps \notin DOMAIN p.sps THEN p
    ELSE [p EXCEPT !.pps = (s.id :> [version |-> s.version, active |-> s.active, weighted |-> s.weighted,
                                     sps |-> p.sps[s.sps], lists |-> PpsLists(s, p.sps[s.sps])]) @@ @]

-----------------------------------------------------------------------------
(* Slices *)

\* num_ref_idx_l0_active_minus1 and num_ref_idx_l1_active_minus1: those of a slice for those of the PPS.
Active(pps, s) ==
    [l \in 0..1 |-> IF l \in DOMAIN s.active /\ (l = 0 \/ s.type = "B") THEN s.active[l] ELSE pps.active[l]]

\* Fault: as many as the PPS says.
WeightsOfPps(pps, s) ==
    [l \in (IF ~pps.weighted THEN {} ELSE IF s.type = "B" THEN 0..1 ELSE {0}) |->
        [i \in 0..pps.active[l] |-> IF i \in s.explicit THEN "explicit" ELSE "default"]]

\* predWeightTable(): an entry for each reference of the slice.
Weights(pps, s) ==
    [l \in (IF ~pps.weighted THEN {} ELSE IF s.type = "B" THEN 0..1 ELSE {0}) |->
        [i \in 0..Active(pps, s)[l] |-> IF i \in s.explicit THEN "explicit" ELSE "default"]]

ParseHeader(p, s) ==
    IF s.pps \notin DOMAIN p.pps THEN <<>>
    ELSE LET pps == p.pps[s.pps]
         IN  <<[sps |-> pps.sps.version, pps |-> pps.version, active |-> Active(pps, s),
                weights |-> Weights(pps, s), lists |-> pps.lists]>>

-----------------------------------------------------------------------------
(* The stream *)

SpsMatrices == {<<>>, <<<<>>>>} \union {<<f>> : f \in {0 :> "coded", (3 :> "coded") @@ (6 :> "default")}}
PpsMatrices == {<<>>, <<<<>>>>} \union {<<f>> : f \in {1 :> "coded", (4 :> "default") @@ (7 :> "coded")}}

\* decodeSps(): a set that is not read to its end changes nothing.
DecodeSps ==
    \E s \in [id : {0}, version : 1..2, matrix : SpsMatrices] \union [id : {1}, version : {3}, matrix : {<<>>}] :
        /\ parser' = ParseSps(parser, s)
        /\ sent' = [sent EXCEPT !.sps = (s.id :> s) @@ @]
        /\ used' = <<>>

DecodePps ==
    \E s \in [id : {0}, sps : 0..1, version : {1}, active : {0 :> 0 @@ 1 :> 1}, weighted : BOOLEAN,
              transform8x8 : BOOLEAN, matrix : PpsMatrices] :
        /\ s.transform8x8 = s.weighted \/ s.matrix # <<>>
        /\ s.sps \in DOMAIN sent.sps \/ "PPS before its SPS" \in Hard
        /\ parser' = ParsePps(parser, s)
        /\ sent' = [sent EXCEPT !.pps = (s.id :> [set |-> s, of |-> IF s.sps \in DOMAIN sent.sps
                                                                     THEN <<sent.sps[s.sps]>> ELSE <<>>]) @@ @]
        /\ used' = <<>>

\* An SPS that is not what it was is sent with the PPSs that refer to it.
MayUse(p) ==
    /\ p.set.sps \in DOMAIN sent.sps
    /\ \/ p.of = <<sent.sps[p.set.sps]>>
       \/ p.of = <<>>
       \/ "SPS without its PPS" \in Hard

DecodeSlice ==
    \E s \in [pps : DOMAIN sent.pps, type : {"P", "B"}, active : {<<>>, 0 :> 2, 0 :> 0 @@ 1 :> 0}, explicit : {{1}}] :
        /\ MayUse(sent.pps[s.pps])
        /\ used' = [slice |-> s, header |-> ParseHeader(parser, s)]
        /\ UNCHANGED <<parser, sent>>

Next == DecodeSps \/ DecodePps \/ DecodeSlice

Spec == Init /\ [][Next]_vars

-----------------------------------------------------------------------------
(* Properties *)

\* Table 7-2 of the standard: the list that counts for i is the nearest before it of its kind in the set.
Nearest(name, f, i, otherwise) ==
    LET kind == IF i < 3 THEN 0..2 ELSE IF i < 6 THEN 3..5 ELSE {i}
        has  == {j \in DOMAIN f \intersect kind : j <= i}
    IN  IF has = {} THEN otherwise ELSE IF f[Max(has)] = "coded" THEN <<name, Max(has)>> ELSE DefaultScalingList[i]

Standard(s, p, i) ==
    LET first    == IF i < 3 THEN 0 ELSE IF i < 6 THEN 3 ELSE i
        ofSps(j) == IF s.matrix = <<>> THEN Flat[j] ELSE Nearest("sps", s.matrix[1], j, DefaultScalingList[j])
    IN  IF p.matrix = <<>> THEN ofSps(i)
        ELSE Nearest("pps", p.matrix[1], i, IF s.matrix = <<>> THEN DefaultScalingList[i] ELSE ofSps(first))

\* A slice is parsed and decoded with the last sets that have its ids: with their fields, with the
\* lists that Table 7-2 makes of both, and with a weight for each of its own references.
HeadersAreTrue ==
    used # <<>> =>
        LET s == used.slice
            p == sent.pps[s.pps].set
            h == used.header[1]
            lists == IF s.type = "B" THEN 0..1 ELSE {0}
        IN  /\ used.header # <<>>
            /\ h.sps = sent.sps[p.sps].version /\ h.pps = p.version
            /\ \A l \in lists : h.active[l] = IF l \in DOMAIN s.active THEN s.active[l] ELSE p.active[l]
            /\ DOMAIN h.weights = IF p.weighted THEN lists ELSE {}
            /\ \A l \in DOMAIN h.weights : DOMAIN h.weights[l] = 0..h.active[l]
            /\ \A i \in IF p.transform8x8 THEN Lists ELSE 0..5 : h.lists[i] = Standard(sent.sps[p.sps], p, i)
=============================================================================
