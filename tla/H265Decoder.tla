---------------------------- MODULE H265Decoder ----------------------------
(***************************************************************************)
(* decoder/vaapidecoder_h265.cpp, the class DPB and the path of a picture  *)
(* from its first slice to the output.  The stream is an encoder that      *)
(* obeys H.265: the limits of its SPS on reordering, latency and buffering *)
(* hold by their definition, as relations between the pictures sent.       *)
(***************************************************************************)
EXTENDS H265Dpb

CONSTANTS
    MaxPocLsb,          \* 2^(log2_max_pic_order_cnt_lsb)
    Limits,             \* sets of limits an SPS may give: [reorder, latency, size]
    PocSteps,           \* differences between the order counts of pictures
    Hard,               \* streams the decoder gets wrong: subset of HardKinds
    MaxCvs,             \* bound: coded video sequences
    MaxSpecial,         \* bound: end NAL units, flushes, refused pictures, RASL pictures
    MaxPictures         \* bound: pictures sent

HardKinds == {"CRA after end of sequence", "end of bitstream", "latency of a later picture"}

VARIABLES
    pics,           \* m_dpb.m_pictures, in the order of the set
    refs,           \* the pictures in m_stCurrBefore, ..., m_ltFoll
    shown,          \* what m_output was called with
    cur,            \* m_current
    newStream,      \* m_newStream
    endOfSequence,  \* m_endOfSequence
    irapNoRasl,     \* m_associatedIrapNoRaslOutputFlag, which the first picture sets
    prevMsb,        \* m_prevPicOrderCntMsb
    prevLsb,        \* m_prevPicOrderCntLsb
    stream,         \* the encoder
    accepted,       \* history: pictures that became m_current
    refused,        \* history: pictures the driver refused
    mayDrop,        \* history: pictures an IRAP picture allows to drop
    special         \* history: number of special events

dpbVars  == <<pics, refs, shown>>
codeVars == <<limits, dpbVars, cur, newStream, endOfSequence, irapNoRasl, prevMsb, prevLsb>>
history == <<accepted, refused, mayDrop, special>>
vars == <<codeVars, stream, history>>

None == [id |-> 0]

-----------------------------------------------------------------------------
(* The decoder *)

Irap(s) == s.kind \in {"IDR", "CRA"}

\* decodeCurrent() when the driver takes the picture.
DecodeCurrent == IF cur = None THEN [pics |-> pics, shown |-> shown] ELSE Add([pics |-> pics, shown |-> shown], cur)

\* Fault: the low bits are not followed over the end of their range.
PocMsbNoWrap(s, noRasl) == IF Irap(s) /\ noRasl THEN 0 ELSE prevMsb

\* getPoc()
PocMsb(s, noRasl) ==
    IF Irap(s) /\ noRasl THEN 0
    ELSE IF s.lsb < prevLsb /\ prevLsb - s.lsb >= MaxPocLsb \div 2 THEN prevMsb + MaxPocLsb
    ELSE IF s.lsb > prevLsb /\ s.lsb - prevLsb > MaxPocLsb \div 2 THEN prevMsb - MaxPocLsb
    ELSE prevMsb

\* decodeSlice() for the first slice, once the picture before is done and has left
\* d: createPicture() and DPB::init(), which a RASL picture may not reach.
BeginPicture(d, s, new) ==
    LET noRasl == s.kind = "IDR" \/ new \/ endOfSequence
        first  == IF Irap(s) THEN noRasl ELSE irapNoRasl
        msb    == PocMsb(s, noRasl)
    IN  /\ cur' = [id |-> s.id, poc |-> msb + s.lsb, lsb |-> s.lsb, out |-> ~(s.kind = "RASL" /\ first),
                   ref |-> FALSE, unused |-> FALSE, latency |-> 0]
        /\ irapNoRasl' = first
        /\ prevMsb' = IF s.base THEN msb ELSE prevMsb
        /\ prevLsb' = IF s.base THEN s.lsb ELSE prevLsb
        /\ IF noRasl /\ s.kind = "RASL" THEN pics' = d.pics /\ shown' = d.shown /\ refs' = {}
           ELSE \E i \in {InitDpb(d, s, noRasl, new)} :
                /\ pics' = i.pics /\ shown' = i.shown
                /\ refs' = {i.pics[k].id : k \in {j \in DOMAIN i.pics : ~i.pics[j].unused}}
        /\ UNCHANGED <<limits, endOfSequence>>

\* The driver may refuse the picture: decodeCurrent() then reports no error, and
\* the next picture takes the place of the one refused.
DecodeSlice(s) ==
    \/ /\ BeginPicture(DecodeCurrent, s, newStream /\ cur = None)
       /\ newStream' = (newStream /\ cur = None)
       /\ UNCHANGED <<refused, special>>
    \/ /\ cur # None /\ special < MaxSpecial /\ special' = special + 1
       /\ BeginPicture([pics |-> pics, shown |-> shown], s, newStream)
       /\ refused' = refused \union {cur.id}
       /\ UNCHANGED newStream

\* decode() at a FRAME_END, or a NAL unit that is neither a slice nor SEI.
EndOfFrame ==
    /\ cur # None
    /\ \E d \in {DecodeCurrent} : pics' = d.pics /\ shown' = d.shown
    /\ cur' = None /\ newStream' = FALSE
    /\ UNCHANGED <<limits, refs, endOfSequence, irapNoRasl, prevMsb, prevLsb, stream, history>>

\* decodeNalu() for EOS_NUT and EOB_NUT; IRAP pictures follow both.
EndNalUnit(eos, eob) ==
    /\ special < MaxSpecial /\ special' = special + 1
    /\ stream.sent # <<>> /\ ~stream.restart
    /\ \E d \in {DecodeCurrent} : pics' = d.pics /\ shown' = d.shown
    /\ cur' = None
    /\ endOfSequence' = (endOfSequence \/ eos)
    /\ newStream' = eob
    /\ stream' = [stream EXCEPT !.restart = TRUE, !.eos = @ \/ eos]
    /\ UNCHANGED <<limits, refs, irapNoRasl, prevMsb, prevLsb, accepted, refused, mayDrop>>

EndOfSequence  == EndNalUnit(TRUE, FALSE)
EndOfBitstream == "end of bitstream" \in Hard /\ EndNalUnit(FALSE, TRUE)

\* flush(), or decode() without data.
Flush ==
    /\ special < MaxSpecial /\ special' = special + 1
    /\ stream.sent # <<>>
    /\ shown' = BumpAll(DecodeCurrent).shown /\ pics' = <<>> /\ refs' = {} /\ cur' = None
    /\ prevMsb' = 0 /\ prevLsb' = 0 /\ newStream' = TRUE /\ endOfSequence' = FALSE
    /\ stream' = [stream EXCEPT !.restart = TRUE, !.eos = FALSE]
    /\ UNCHANGED <<limits, irapNoRasl, accepted, refused, mayDrop>>

-----------------------------------------------------------------------------
(* The encoder: pictures sent are [cvs, poc, kind, rps, out] *)

Sent == stream.sent
NextId == Len(Sent) + 1
InCvs == {j \in DOMAIN Sent : Sent[j].cvs = stream.cvs}

\* The limits of an SPS, for the pictures of S that are of one sequence (A.4 and
\* the semantics of the SPS): how many may go before a picture in decoding order
\* and after it in output order, the reverse, and how many are to be kept.
Conforms(S, C) ==
    /\ \A k \in C : Cardinality({j \in C : j < k /\ S[j].poc > S[k].poc}) <= limits.reorder
    /\ limits.latency > 0 =>
          \A j \in C : LET overtakes == {k \in C : k > j /\ S[k].poc < S[j].poc}
                       IN  IF "latency of a later picture" \in Hard THEN Cardinality(overtakes) <= MaxLatency
                           ELSE \A k \in overtakes : k - j <= MaxLatency
    /\ \A i \in C : Cardinality(S[i].rps \union {j \in C : j < i /\ \E k \in C : k >= i /\ S[k].poc < S[j].poc})
                        < limits.size

\* How a slice names a reference: in full, or by its low bits when it is the oldest
\* one and they tell it from every other picture.
InFull(j) == \E k \in InCvs \ {j} : k < j \/ Sent[j].poc % MaxPocLsb = Sent[k].poc % MaxPocLsb
Named(rps) ==
    {[poc |-> IF InFull(j) THEN Sent[j].poc ELSE Sent[j].poc % MaxPocLsb, msb |-> InFull(j)] : j \in rps}

Send(kind, poc, rps, base, noOutput) ==
    LET first == Irap([kind |-> kind]) /\ (kind = "IDR" \/ stream.restart)
        cvs == IF first THEN stream.cvs + 1 ELSE stream.cvs
        rec == [cvs |-> cvs, poc |-> poc, kind |-> kind, rps |-> rps, out |-> ~(kind = "RASL" /\ stream.first)]
        S == Append(Sent, rec)
        s == [id |-> NextId, kind |-> kind, lsb |-> poc % MaxPocLsb, rps |-> Named(rps),
              noOutput |-> noOutput, base |-> base]
    IN  /\ cvs <= MaxCvs
        /\ first \/ Conforms(S, InCvs \union {NextId})
        /\ DecodeSlice(s)
        /\ accepted' = accepted \union {NextId}
        /\ mayDrop' = IF first /\ (kind = "CRA" \/ noOutput) THEN mayDrop \union DOMAIN Sent ELSE mayDrop
        /\ stream' = [stream EXCEPT !.sent = S, !.cvs = cvs, !.restart = FALSE,
                                    !.avail = rps \union {NextId},
                                    !.base = IF base THEN poc ELSE @,
                                    !.irap = IF kind \in {"IDR", "CRA"} THEN NextId ELSE @,
                                    !.first = IF kind \in {"IDR", "CRA"} THEN first ELSE @,
                                    !.trailing = kind = "TRAIL"]

SendIdr == NextId <= MaxPictures /\ \E noOutput \in BOOLEAN : Send("IDR", 0, {}, TRUE, noOutput)

\* Pictures are left out of the reference picture set one at a time.
RefSets(A) == {A} \union {A \ {j} : j \in A}

\* A CRA picture that begins a sequence, and one that does not.
SendFirstCra ==
    /\ NextId <= MaxPictures /\ stream.restart
    /\ \E lsb \in {0, MaxPocLsb - 2} : Send("CRA", lsb, {}, TRUE, FALSE)

OrderCounts == {poc \in {stream.base + step : step \in PocSteps} : \A j \in InCvs : Sent[j].poc # poc}

SendCra ==
    /\ NextId <= MaxPictures /\ ~stream.restart /\ (stream.eos => "CRA after end of sequence" \in Hard)
    /\ \E poc \in OrderCounts, rps \in RefSets(stream.avail) :
          /\ \A j \in InCvs : Sent[j].poc < poc
          /\ Send("CRA", poc, rps, TRUE, FALSE)

SendRasl ==
    /\ NextId <= MaxPictures /\ ~stream.restart /\ ~stream.trailing /\ Sent[stream.irap].kind = "CRA"
    /\ \E poc \in OrderCounts, rps \in RefSets(stream.avail) :
          /\ poc < Sent[stream.irap].poc
          /\ \A j \in InCvs : j < stream.irap => Sent[j].poc < poc
          /\ Send("RASL", poc, rps, FALSE, FALSE)

SendTrail ==
    /\ NextId <= MaxPictures /\ ~stream.restart
    /\ \E poc \in OrderCounts, base \in BOOLEAN,
          rps \in RefSets({j \in stream.avail : j >= stream.irap /\ Sent[j].kind # "RASL"}) :
          /\ poc > Sent[stream.irap].poc
          /\ Send("TRAIL", poc, rps, base, FALSE)

Init ==
    /\ limits \in Limits
    /\ pics = <<>> /\ refs = {} /\ shown = <<>> /\ cur = None
    /\ newStream = TRUE /\ endOfSequence = FALSE /\ irapNoRasl = FALSE
    /\ prevMsb = 0 /\ prevLsb = 0
    /\ stream = [sent |-> <<>>, cvs |-> 0, restart |-> TRUE, eos |-> FALSE, avail |-> {}, base |-> 0,
                 irap |-> 0, first |-> TRUE, trailing |-> FALSE]
    /\ accepted = {} /\ refused = {} /\ mayDrop = {} /\ special = 0

Next == SendIdr \/ SendFirstCra \/ SendCra \/ SendRasl \/ SendTrail
        \/ EndOfFrame \/ EndOfSequence \/ EndOfBitstream \/ Flush

Spec == Init /\ [][Next]_vars

-----------------------------------------------------------------------------
(* Properties *)

\* Whether the driver took the first picture of the sequence of j: a CRA picture
\* after one that it refused begins the sequence instead.
Whole(j) == Min({k \in DOMAIN Sent : Sent[k].cvs = Sent[j].cvs}) \notin refused

\* Every order of pictures that the limits of the SPS allow is shown in order: what
\* init() and add() bump for the three limits is never overtaken by a later picture.
OutputInOrder ==
    \A i \in 1..(Len(shown) - 1) :
        LET a == Sent[shown[i]]  b == Sent[shown[i + 1]]
        IN  a.cvs < b.cvs \/ (a.cvs = b.cvs /\ a.poc < b.poc)

\* A picture that the driver took is shown once, or waits, or is one of those that
\* an IRAP picture lets the decoder drop; RASL pictures of a first CRA picture are
\* not shown.
NoPictureLost ==
    /\ IsInjective(shown)
    /\ \A i \in DOMAIN shown : Sent[shown[i]].out
    /\ \A j \in accepted \ (refused \union mayDrop \union {cur.id}) :
          (Sent[j].out /\ Whole(j)) => (j \in Range(shown)) # (j \in Range(Ids(Waiting(pics))))

\* The pictures kept for reference, for this picture and for later ones, are those
\* of its reference picture set that were decoded, over wraps of the low bits.
ReferencesAreRps ==
    (cur # None /\ Sent[cur.id].out /\ Whole(cur.id)) =>
        /\ refs = Sent[cur.id].rps \ refused
        /\ cur.poc = Sent[cur.id].poc
=============================================================================
