----------------------------- MODULE H265Parser -----------------------------
(***************************************************************************)
(* codecparsers/h265Parser.cpp: the parameter sets that the parser keeps,  *)
(* the scaling lists, and the headers of slice segments with the slice     *)
(* that dependent segments continue, m_prevSlice of the decoder.  The      *)
(* version of a set or a slice stands for the fields that are only taken   *)
(* over.                                                                   *)
(***************************************************************************)
EXTENDS Integers, TLC

CONSTANT Hard       \* streams the parser gets wrong: subset of HardKinds

HardKinds == {"SPS without its PPS", "set before what it refers to", "slice refused"}

VARIABLES
    parser,     \* m_vps, m_sps and m_pps with m_prevSlice of the decoder: [vps, sps, pps, prev]
    used,       \* the last segment and what fillSlice() and fillIqMatrix() make of it
    sent        \* history: the last set with each id, and the last independent segment: [sps, pps, slice]

vars == <<parser, used, sent>>

\* sizeId and matrixId; 32x32 has two matrices, 0 and 3 of its six places.
Matrices == {x \in (0..3) \X (0..5) : x[1] < 3 \/ x[2] \in {0, 3}}
NoSlice  == <<>>

Init ==
    /\ parser = [vps |-> {}, sps |-> <<>>, pps |-> <<>>, prev |-> NoSlice]
    /\ used = <<>> /\ sent = [sps |-> <<>>, pps |-> <<>>, slice |-> NoSlice]

-----------------------------------------------------------------------------
(* Scaling lists.  Of some matrices data f says that they are coded, or how far before them the one  *)
(* is that they are copied from; the others have their default.                                      *)

Own     == [coded |-> TRUE, delta |-> 0]
Copy(n) == [coded |-> FALSE, delta |-> n]

\* useDefaultScalingLists()
UseDefault(x) ==
    [list |-> <<"default", IF x[1] = 0 THEN "flat" ELSE IF x[2] < 3 THEN "intra" ELSE "inter">>,
     dc   |-> IF x[1] > 1 THEN <<"default", "16">> ELSE <<>>]

Coded(name, x) == [list |-> <<name, x>>, dc |-> IF x[1] > 1 THEN <<name, x>> ELSE <<>>]

\* Fault: places of 32x32 are counted like the others.
RefMatrixUnscaled(x, delta) == <<x[1], x[2] - delta>>

\* refMatrixId
RefMatrix(x, delta) == <<x[1], x[2] - delta * (IF x[1] = 3 THEN 3 ELSE 1)>>

ScalingListData(f, name) ==
    LET list[x \in (0..3) \X (0..5)] ==
            IF x \notin Matrices THEN [list |-> <<"unset">>, dc |-> <<>>]
            ELSE IF x \notin DOMAIN f THEN UseDefault(x)
            ELSE IF f[x].coded THEN Coded(name, x)
            ELSE list[RefMatrix(x, f[x].delta)]
    IN  list

-----------------------------------------------------------------------------
(* Parameter sets, whose lists are <<>> or <<f>> *)

\* parseSps() with the VPS that the parser has.
ParseSps(p, s) ==
    IF s.vps \notin p.vps THEN p
    ELSE [p EXCEPT !.sps = (s.id :> [version |-> s.version, enabled |-> s.enabled, data |-> s.data # <<>>,
                                     lists |-> IF s.data = <<>> THEN <<>> ELSE ScalingListData(s.data[1], "sps")]) @@ @]

\* Fault: the defaults are taken whenever the PPS has no lists.
ParsePpsDefaults(p, s) ==
    IF s.sps \notin DOMAIN p.sps THEN p
    ELSE LET sps == p.sps[s.sps]
             pps == [version |-> s.version, sps |-> [sps EXCEPT !.data = FALSE], data |-> s.data # <<>>,
                     lists |-> IF s.data # <<>> THEN ScalingListData(s.data[1], "pps")
                               ELSE [x \in Matrices |-> UseDefault(x)]]
         IN  [p EXCEPT !.pps = (s.id :> pps) @@ @]

\* The PPS keeps the SPS that has the id now, and has the defaults if that says so.
ParsePps(p, s) ==
    IF s.sps \notin DOMAIN p.sps THEN p
    ELSE LET sps == p.sps[s.sps]
             pps == [version |-> s.version, sps |-> sps, data |-> s.data # <<>>,
                     lists |-> IF s.data # <<>> THEN ScalingListData(s.data[1], "pps")
                               ELSE IF sps.enabled /\ ~sps.data THEN [x \in Matrices |-> UseDefault(x)] ELSE <<>>]
         IN  [p EXCEPT !.pps = (s.id :> pps) @@ @]

\* fillIqMatrix(): <<>> for flat lists.
IqMatrix(pps) ==
    IF pps.data THEN pps.lists
    ELSE IF pps.sps.enabled THEN (IF pps.sps.data THEN pps.sps.lists ELSE pps.lists)
    ELSE <<>>

-----------------------------------------------------------------------------
(* Slices *)

\* parseSlice() of an independent segment: its own numbers of references, or those of the PPS.
ParseSlice(pps, s) ==
    [version |-> s.version, sps |-> pps.sps.version, pps |-> pps.version,
     active |-> IF s.active # <<>> THEN s.active[1] ELSE pps.version]

\* decodeSlice(): the slice after it, and what the driver is given.
DecodeSlice(p, s) ==
    LET pps   == p.pps[s.pps]
        slice == IF s.dependent THEN p.prev ELSE ParseSlice(pps, s)
    IN  [prev |-> slice, slice |-> slice, matrix |-> IqMatrix(pps)]

-----------------------------------------------------------------------------
(* The stream *)

SpsLists == {<<>>} \union {<<f>> : f \in {<<>>, <<1, 0>> :> Own @@ <<1, 2>> :> Copy(2),
                                          <<3, 0>> :> Own @@ <<3, 3>> :> Copy(1)}}
PpsLists == {<<>>, <<<<2, 3>> :> Own @@ <<2, 4>> :> Copy(1) @@ <<2, 5>> :> Copy(1)>>}

SendVps ==
    /\ parser' = [parser EXCEPT !.vps = {0}]
    /\ sent' = [sent EXCEPT !.slice = NoSlice] /\ used' = <<>>

\* A set that is not read to its end changes nothing.
SendSps ==
    \E s \in [id : {0}, vps : {0}, version : 1..2, enabled : BOOLEAN, data : SpsLists] :
        /\ s.enabled = (s.version = 1 \/ s.data # <<>>)
        /\ parser.vps # {} \/ "set before what it refers to" \in Hard
        /\ parser' = ParseSps(parser, s)
        /\ sent' = [sent EXCEPT !.sps = (s.id :> s) @@ @, !.slice = NoSlice]
        /\ used' = <<>>

SendPps ==
    \E s \in [id : 0..1, sps : {0}, version : {1}, data : PpsLists] :
        /\ s.sps \in DOMAIN sent.sps \/ "set before what it refers to" \in Hard
        /\ s.data # <<>> => s.sps \in DOMAIN sent.sps /\ sent.sps[s.sps].enabled
        /\ parser' = ParsePps(parser, s)
        /\ sent' = [sent EXCEPT !.pps = (s.id :> [set |-> s, of |-> IF s.sps \in DOMAIN sent.sps
                                                                     THEN <<sent.sps[s.sps]>> ELSE <<>>]) @@ @,
                                !.slice = NoSlice]
        /\ used' = <<>>

\* An SPS that is not what it was is sent with the PPSs that refer to it.
MayUse(p) == p.of \in {<<>>, <<sent.sps[p.set.sps]>>} \/ "SPS without its PPS" \in Hard

\* The segments of a picture have the same PPS.
SendSlice ==
    \E s \in [pps : DOMAIN sent.pps, version : 1..2, dependent : BOOLEAN, active : {<<>>, <<5>>}] :
        /\ sent.pps[s.pps].set.sps \in DOMAIN sent.sps /\ MayUse(sent.pps[s.pps])
        /\ ~s.dependent => (s.version = 2) = (s.active = <<>>)
        /\ s.dependent => sent.slice # NoSlice /\ s = [sent.slice EXCEPT !.dependent = TRUE]
        /\ sent' = IF s.dependent THEN sent ELSE [sent EXCEPT !.slice = s]
        /\ \/ /\ s.pps \in DOMAIN parser.pps
              /\ parser' = [parser EXCEPT !.prev = DecodeSlice(parser, s).prev]
              /\ used' = <<[slice |-> DecodeSlice(parser, s).slice, matrix |-> DecodeSlice(parser, s).matrix]>>
           \/ /\ s.pps \notin DOMAIN parser.pps
              /\ used' = <<[slice |-> NoSlice, matrix |-> <<>>]>> /\ UNCHANGED parser

\* The header of an independent segment is refused, or the driver has no buffer for it.  Segments
\* that depend on it are left out of the stream.
RefuseSlice ==
    /\ \E s \in [pps : DOMAIN parser.pps, version : {1}, dependent : {FALSE}, active : {<<5>>}] :
          /\ MayUse(sent.pps[s.pps])
          /\ sent' = [sent EXCEPT !.slice = IF "slice refused" \in Hard THEN s ELSE NoSlice]
    /\ used' = <<>> /\ UNCHANGED parser

\* flush(): no dependent segment follows before a slice.
Flush ==
    /\ parser' = [parser EXCEPT !.prev = NoSlice]
    /\ sent' = [sent EXCEPT !.slice = NoSlice]
    /\ used' = <<>>

Next == SendVps \/ SendSps \/ SendPps \/ SendSlice \/ RefuseSlice \/ Flush

Spec == Init /\ [][Next]_vars

-----------------------------------------------------------------------------
(* Properties *)

\* A segment is decoded with the last independent segment and the last sets of its ids, with the
\* scaling lists of the PPS, else of the SPS, else the defaults, where a copied matrix is the one it
\* was copied from, and none when the sequence has none: section 7.4.5 of the standard.
HeadersAreTrue ==
    used # <<>> =>
        LET s    == sent.slice
            pps  == sent.pps[s.pps].set
            sps  == sent.sps[pps.sps]
            data == IF pps.data # <<>> THEN pps.data[1] ELSE IF sps.data # <<>> THEN sps.data[1] ELSE <<>>
            name == IF pps.data # <<>> THEN "pps" ELSE "sps"
            got  == used[1].matrix
        IN  /\ used[1].slice = [version |-> s.version, sps |-> sps.version, pps |-> pps.version,
                                active |-> IF s.active = <<>> THEN pps.version ELSE s.active[1]]
            /\ IF ~sps.enabled THEN got = <<>>
               ELSE got # <<>> /\ \A x \in Matrices : got[x] =
                        IF x \notin DOMAIN data THEN UseDefault(x)
                        ELSE IF data[x].coded THEN Coded(name, x)
                        ELSE got[<<x[1], IF x[1] = 3 THEN 0 ELSE x[2] - data[x].delta>>]
=============================================================================
