---------------------------- MODULE H264Decoder ----------------------------
(***************************************************************************)
(* decoder/vaapidecoder_h264.cpp, the path of a picture from its first     *)
(* slice to the output, for streams of one slice per picture.  The stream  *)
(* is an encoder that obeys H.264: it keeps true (unwrapped) frame numbers *)
(* and order counts, the reference marking of clause 8.2.5 as sets, and    *)
(* the output of clause C.4 with a buffer of MaxDecFrameBuffering frames;  *)
(* what it sends is the syntax that the decoder reads.                     *)
(***************************************************************************)
EXTENDS H264Dpb

CONSTANTS
    PocTypes,       \* the values of pic_order_cnt_type
    LowLatency,     \* the values of enableLowLatency at start()
    PocSteps,       \* differences between the order counts of pictures
    Gaps,           \* numbers of frames that a gap in frame_num skips
    LongIdx,        \* long_term_frame_idx values
    Hard,           \* streams the decoder gets wrong: subset of HardKinds
    MaxPeriods,     \* bound: IDR pictures and commands 5
    MaxEvents       \* bound: pictures sent, and special events

HardKinds == {"lsb after mmco5", "range from reference", "gap after non-reference"}

VARIABLES
    dpb,            \* m_dpb
    cur,            \* m_currPic
    prev,           \* m_prevPic
    newStream,      \* m_newStream
    contextChanged, \* m_contextChanged
    stream,         \* the encoder
    accepted,       \* history: ids of the pictures that became m_currPic
    mayDrop,        \* history: ids sent before no_output_of_prior_pics_flag
    lost,           \* history: a picture of the stream did not reach the DPB
    special         \* history: number of commands, gaps, field pairs, flushes, failures

codeVars == <<dpb, cur, prev, newStream, contextChanged>>
vars == <<codeVars, stream, accepted, mayDrop, lost, special>>

None == [id |-> -1]

Init ==
    /\ \E low \in LowLatency, type \in PocTypes :
          dpb = [pics |-> <<>>, shown |-> <<>>, short |-> <<>>, long |-> <<>>, noOutput |-> FALSE,
                 marking |-> [adaptive |-> FALSE, ops |-> <<>>, noOutput |-> FALSE],
                 lowLatency |-> low, pocType |-> type]
    /\ cur = None /\ prev = None /\ newStream = TRUE /\ contextChanged = FALSE
    /\ stream = [sent |-> <<>>, frames |-> {}, refs |-> {}, fn |-> 0, num |-> 0, coded |-> 0, poc |-> 0, refPoc |-> 0, shown |-> -1,
                 period |-> 0, due |-> "none", isRef |-> FALSE, open |-> FALSE]
    /\ accepted = {} /\ mayDrop = {} /\ lost = FALSE /\ special = 0

-----------------------------------------------------------------------------
(* The decoder *)

\* decodeCurrent(), when the driver takes the picture.
Decoded(a) ==
    [d |-> a.d, cur |-> IF a.ok THEN None ELSE a.cur, prev |-> IF a.ok THEN a.cur ELSE prev,
     new |-> newStream /\ ~a.ok, ok |-> a.ok]
DecodeCurrent ==
    IF cur = None
    THEN [d |-> dpb, cur |-> None, prev |-> prev, new |-> newStream, ok |-> TRUE]
    ELSE Decoded(Add(dpb, cur))

\* createPicture(): the second field takes the surface of the first.
CreatePicture(d, s) ==
    LET i == SelectInSeq(d.pics, LAMBDA p : /\ ~IsFrame(p) /\ s.str \in {"top", "bottom"} \ {p.str}
                                            /\ p.fn = s.fn)
        comp == IF s.str = "frame" \/ i = 0 THEN 0 ELSE d.pics[i].id
    IN  [NewPicture(IF comp = 0 THEN s.id ELSE comp) EXCEPT
            !.comp = comp, !.idr = s.idr, !.fn = s.fn, !.lsb = s.lsb, !.mmco5 = s.mmco5,
            !.str = s.str, !.ref = s.ref, !.long = s.ref /\ s.idr /\ s.longRef,
            !.short = s.ref /\ ~(s.idr /\ s.longRef)]

\* DPB::init() and DPB::initReference() for picture p after previous picture pp.
InitReference(d, q, s) ==
    IF s.idr THEN [d |-> [d EXCEPT !.short = <<>>, !.long = <<>>], cur |-> q]
    ELSE [d |-> CalcPicNum([d EXCEPT !.marking = s.marking], q), cur |-> Numbered(q)]
InitAfterGaps(g, p, s) == InitReference(g.d, CalcPoc(g.d.pocType, p, g.prev, s.dpoc), s)
InitPicture(d, p, pp, s, new) ==
    LET d1 == [d EXCEPT !.marking = s.marking,
                        !.noOutput = IF s.idr THEN (~new /\ contextChanged) \/ s.marking.noOutput ELSE @]
    IN  InitAfterGaps(ProcessFrameNumWithGaps(d1, pp, p), p, s)

Finish(d, c) ==
    /\ dpb' = d /\ cur' = c.cur /\ prev' = c.prev /\ newStream' = c.new

\* decodeSlice() for the first slice of a picture.
DecodeSlice(s) ==
    \E c \in {DecodeCurrent} :
        IF c.ok /\ (s.idr \/ c.prev # None)
        THEN \E pp \in {IF s.idr THEN NewPicture(s.id) ELSE c.prev} :
             \E i \in {InitPicture(c.d, CreatePicture(c.d, s), pp, s, c.new)} :
                /\ dpb' = i.d /\ cur' = i.cur /\ prev' = pp
                /\ newStream' = c.new /\ contextChanged' = FALSE
                /\ accepted' = accepted \union {i.cur.id}
                /\ mayDrop' = IF s.idr /\ s.marking.noOutput THEN mayDrop \union accepted ELSE mayDrop
                /\ UNCHANGED lost
        ELSE /\ Finish(c.d, c)
             /\ lost' = TRUE
             /\ UNCHANGED <<contextChanged, accepted, mayDrop>>

NextId == Len(stream.sent) + 1

\* decode() with VIDEO_DECODE_BUFFER_FLAG_FRAME_END, or a NAL unit that is no slice.
EndOfFrame ==
    /\ cur # None
    /\ \E c \in {DecodeCurrent} : Finish(c.d, c)
    /\ UNCHANGED <<contextChanged, stream, accepted, mayDrop, lost, special>>

\* isDecodeContextChanged(): a sequence of another geometry begins; the client
\* answers and sends the slice again.
ChangeFormat ==
    /\ Len(stream.sent) + special < MaxEvents /\ stream.due = "none" /\ ~contextChanged
    /\ \E c \in {DecodeCurrent} : Finish(FlushDpb(c.d), c)
    /\ contextChanged' = TRUE
    /\ stream' = [stream EXCEPT !.open = FALSE]
    /\ special' = special + 1
    /\ UNCHANGED <<accepted, mayDrop, lost>>

\* flush(), or decode() without data: a seek or the end of the stream.
Flush ==
    /\ Len(stream.sent) + special < MaxEvents /\ (cur # None \/ dpb.pics # <<>>)
    /\ dpb' = FlushDpb(DecodeCurrent.d)
    /\ cur' = None /\ prev' = None /\ newStream' = TRUE /\ contextChanged' = FALSE
    /\ stream' = [stream EXCEPT !.open = FALSE, !.due = "none"]
    /\ special' = special + 1
    /\ UNCHANGED <<accepted, mayDrop, lost>>

-----------------------------------------------------------------------------
(* The encoder's view: frames are records [id, fn, poc, kind, idx, out] *)

Refs(F)   == {f \in F : f.kind # "none"}
Shorts(F) == {f \in F : f.kind = "short"}
Longs(F)  == {f \in F : f.kind = "long"}

WithKind(F, G, kind) == (F \ G) \union {[g EXCEPT !.kind = kind] : g \in G}
Needed(F) == {f \in F : f.out \/ f.kind # "none"}

\* 8.2.5.3: the sliding window.
Slide(F) ==
    IF Cardinality(Refs(F)) < NumRefFrames \/ Shorts(F) = {} THEN F
    ELSE WithKind(F, {f \in Shorts(F) : \A g \in Shorts(F) : f.fn <= g.fn}, "none")

\* 8.2.5.4: the commands an encoder may give, each on one frame x.
Commands(F) ==
    {[op |-> 1, x |-> x, idx |-> 0] : x \in {f \in Shorts(F) : f.id # 0}}
    \union {[op |-> 2, x |-> x, idx |-> 0] : x \in Longs(F)}
    \union [op : {3}, x : {f \in Shorts(F) : f.id # 0}, idx : LongIdx]
    \union [op : {4}, x : Longs(F), idx : LongIdx]
    \union {[op |-> op, x |-> x, idx |-> idx] : op \in {5, 6}, x \in {[fn |-> 0, idx |-> 0]}, idx \in LongIdx}

Apply(F, c) ==
    LET freed == WithKind(F, {f \in Longs(F) : f.idx = c.idx}, "none")
    IN  CASE c.op \in {1, 2} -> WithKind(F, {c.x}, "none")
          [] c.op = 3 -> (freed \ {c.x}) \union {[c.x EXCEPT !.kind = "long", !.idx = c.idx]}
          [] c.op = 4 -> WithKind(F, {f \in Longs(F) : f.idx >= c.idx}, "none")
          [] c.op = 5 -> WithKind(F, F, "none")
          [] c.op = 6 -> freed

\* C.4.5.3: the buffer of MaxDecFrameBuffering frames outputs until one is free.
HasRoom(F) == Cardinality(F) < MaxDecFrameBuffering
OutputOne(x) ==
    LET due == {f \in x.frames : f.out}
        f == CHOOSE g \in due : \A h \in due : g.poc <= h.poc
    IN  IF HasRoom(x.frames) \/ due = {} THEN x
        ELSE [frames |-> Needed((x.frames \ {f}) \union {[f EXCEPT !.out = FALSE]}),
              shown |-> IF f.poc > x.shown THEN f.poc ELSE x.shown]
MakeRoom(F, shown) ==
    LET r == FoldSet(LAMBDA f, x : OutputOne(x), [frames |-> F, shown |-> shown], F)
    IN  [frames |-> r.frames, shown |-> r.shown, ok |-> HasRoom(r.frames)]

\* A new frame enters the buffer, or is shown at once (C.4.5.2).
Store(F, shown, f) ==
    LET r == MakeRoom(F, shown)
        full == Cardinality(F) >= MaxDecFrameBuffering
    IN  IF full /\ f.kind = "none" /\ \A g \in F : g.out => f.poc < g.poc
        THEN [frames |-> F, shown |-> f.poc, ok |-> TRUE]
        ELSE [r EXCEPT !.frames = @ \union {f}]

\* The frames that a gap of n skips are short-term references.
SkipOne(x, fn) ==
    IF ~x.ok THEN x
    ELSE Store(Needed(Slide(x.frames)), x.shown,
               [id |-> 0, fn |-> fn, poc |-> 0, kind |-> "short", idx |-> 0, out |-> FALSE])
Skip(F, shown, fn, n) ==
    FoldLeft(SkipOne, [frames |-> F, shown |-> shown, ok |-> TRUE], [i \in 1..n |-> fn + i])

-----------------------------------------------------------------------------
(* Sending *)

\* One picture reaches the decoder, unless the driver refuses the one before it:
\* then decodeSlice() returns before createPicture() and m_currPic stays.
Accept(s, cost) ==
    \/ DecodeSlice(s) /\ special' = special + cost
    \/ /\ cur # None /\ NextId + special + cost < MaxEvents
       /\ lost' = TRUE /\ special' = special + cost + 1
       /\ UNCHANGED <<codeVars, accepted, mayDrop>>

Plain(noOut) == [adaptive |-> FALSE, ops |-> <<>>, noOutput |-> noOut]
Other(str) == CASE str = "top" -> "bottom" [] str = "bottom" -> "top" [] str = "frame" -> "none"

SendIdr ==
    /\ stream.period < MaxPeriods /\ stream.due = "none"
    /\ \E noOut, longRef \in BOOLEAN, str \in {"frame", "top"} :
          LET cost == (IF noOut THEN 1 ELSE 0) + (IF longRef THEN 1 ELSE 0) + (IF str = "top" THEN 1 ELSE 0)
          IN  /\ NextId + special + cost <= MaxEvents
              /\ str = "top" => dpb.pocType = 0
              /\ Accept([id |-> NextId, idr |-> TRUE, ref |-> TRUE, str |-> str, fn |-> 0, lsb |-> 0, dpoc |-> 1,
                         mmco5 |-> FALSE, marking |-> Plain(noOut), longRef |-> longRef], cost)
              /\ stream' = [sent |-> Append(stream.sent, [period |-> stream.period + 1, poc |-> 0]),
                            frames |-> {[id |-> NextId, fn |-> 0, poc |-> 0, out |-> TRUE, idx |-> 0,
                                         kind |-> IF longRef THEN "long" ELSE "short"]},
                            refs |-> {}, fn |-> 0, num |-> 0, coded |-> 0, poc |-> 0, refPoc |-> 0, shown |-> -MaxPocLsb,
                            period |-> stream.period + 1, due |-> Other(str),
                            isRef |-> str = "frame" /\ ~longRef, open |-> TRUE]

Near(poc, base) == poc - base < MaxPocLsb \div 2 /\ base - poc < MaxPocLsb \div 2

\* The order count of the next picture, given or implied by its frame number.
OrderCounts(fn, isRef) ==
    CASE dpb.pocType = 0 -> {Last(stream.sent).poc + step : step \in PocSteps}
      [] dpb.pocType = 1 -> {SumOffsets(IF isRef THEN fn ELSE fn - 1) + (IF isRef THEN 0 ELSE OffsetForNonRef)}
      [] dpb.pocType = 2 -> {2 * fn - (IF isRef THEN 0 ELSE 1)}

MarkedBy(F, isRef, marks) ==
    IF marks # {} THEN Apply(F, CHOOSE c \in marks : TRUE) ELSE IF isRef THEN Slide(F) ELSE F

\* A picture that is no IDR picture: gap, marking and order count are chosen such
\* that the stream stays within H.264 and, but for Hard, within what the code does.
SendPicture(isRef, str, gap, marks) ==
    LET fn   == stream.fn + gap + 1
        five == marks # {} /\ (CHOOSE c \in marks : TRUE).op = 5
        cost == (IF gap > 0 THEN 1 ELSE 0) + Cardinality(marks) + (IF str = "frame" THEN 0 ELSE 1)
        period == stream.period + (IF five THEN 1 ELSE 0)
    IN  /\ NextId + special + cost <= MaxEvents /\ period <= MaxPeriods
        /\ \E k \in {Skip(stream.frames, stream.shown, stream.fn, gap)} : \E poc \in OrderCounts(fn, isRef) :
          LET long == marks # {} /\ (CHOOSE c \in marks : TRUE).op = 6
              f == [id |-> NextId, fn |-> IF five THEN 0 ELSE fn, poc |-> IF five THEN 0 ELSE poc, out |-> TRUE,
                    kind |-> IF ~isRef THEN "none" ELSE IF long THEN "long" ELSE "short",
                    idx |-> IF long THEN (CHOOSE c \in marks : TRUE).idx ELSE 0]
              lsb == poc % MaxPocLsb
          IN  \E r \in {IF five THEN [frames |-> {f}, shown |-> -MaxPocLsb, ok |-> TRUE]
                        ELSE Store(Needed(MarkedBy(k.frames, isRef, marks)), k.shown, f)} :
              /\ dpb.pocType = 0 => Near(poc, stream.refPoc) /\ Near(poc, stream.poc)
              /\ \A i \in DOMAIN stream.sent : stream.sent[i].period = stream.period => stream.sent[i].poc # poc
              /\ k.ok /\ r.ok /\ (five \/ poc > k.shown)
              /\ Cardinality(Refs(r.frames)) <= NumRefFrames
              /\ Accept([id |-> NextId, idr |-> FALSE, ref |-> isRef, str |-> str, fn |-> fn % MaxFrameNum,
                         lsb |-> lsb, dpoc |-> 1, mmco5 |-> five, longRef |-> FALSE,
                         marking |-> [adaptive |-> marks # {}, noOutput |-> FALSE,
                                      ops |-> SetToSeq({[op |-> c.op, diff |-> fn - c.x.fn,
                                                         num |-> c.x.idx, idx |-> c.idx] : c \in marks})]],
                        cost)
              /\ stream' = [sent |-> Append(stream.sent, [period |-> period, poc |-> f.poc]),
                            frames |-> r.frames, refs |-> Refs(k.frames), shown |-> r.shown,
                            num |-> fn, coded |-> poc,
                            fn |-> IF five THEN 0 ELSE IF isRef THEN fn ELSE fn - 1,
                            refPoc |-> IF five THEN 0 ELSE IF isRef THEN poc ELSE stream.refPoc,
                            poc |-> IF ~five THEN IF isRef \/ "range from reference" \notin Hard
                                                  THEN poc ELSE stream.poc
                                    ELSE IF "lsb after mmco5" \in Hard THEN 0 ELSE lsb,
                            period |-> period, due |-> Other(str), open |-> TRUE,
                            isRef |-> isRef /\ str = "frame" /\ ~five]

SendFrame ==
    /\ stream.due = "none" /\ stream.open
    /\ \E isRef \in BOOLEAN : SendPicture(isRef, "frame", 0, {})

SendFirstField ==
    /\ stream.due = "none" /\ stream.open /\ dpb.pocType = 0
    /\ \E isRef \in BOOLEAN, str \in {"top", "bottom"} : SendPicture(isRef, str, 0, {})

SendAfterGap ==
    /\ stream.due = "none" /\ stream.open
    /\ stream.isRef \/ "gap after non-reference" \in Hard
    /\ \E isRef \in BOOLEAN, gap \in Gaps : SendPicture(isRef, "frame", gap, {})

SendMarking ==
    /\ stream.due = "none" /\ stream.open
    /\ \E c \in Commands(stream.frames) : SendPicture(TRUE, "frame", 0, {c})

SendSecondField ==
    /\ stream.due # "none" /\ stream.open
    /\ LET isRef == stream.refPoc = stream.coded
           fn == IF isRef THEN stream.fn ELSE stream.fn + 1
           poc == stream.coded + 1
       IN /\ Accept([id |-> NextId - 1, idr |-> FALSE, ref |-> isRef, str |-> stream.due,
                     fn |-> fn % MaxFrameNum, lsb |-> poc % MaxPocLsb, dpoc |-> 0, mmco5 |-> FALSE,
                     longRef |-> FALSE, marking |-> Plain(FALSE)], 0)
          /\ stream' = [stream EXCEPT !.coded = poc, !.poc = poc, !.due = "none",
                                      !.refPoc = IF isRef THEN poc ELSE @]

Next == SendIdr \/ SendFrame \/ SendFirstField \/ SendAfterGap \/ SendMarking \/ SendSecondField
        \/ EndOfFrame \/ ChangeFormat \/ Flush

Spec == Init /\ [][Next]_vars

-----------------------------------------------------------------------------
(* Properties *)

ShownOf(id) == stream.sent[id]
Before(a, b) == \/ ShownOf(a).period < ShownOf(b).period
                \/ ShownOf(a).period = ShownOf(b).period /\ ShownOf(a).poc < ShownOf(b).poc

\* A buffer that holds MaxDecFrameBuffering frames outputs a conforming stream in
\* order; the code bumps at other moments (a second field bumps a full buffer, no
\* picture is output early), and must give the same order.
OutputInOrder ==
    ~lost /\ ~dpb.lowLatency =>
        \A i \in 1..(Len(dpb.shown) - 1) : Before(dpb.shown[i], dpb.shown[i + 1])

\* Every picture that was begun is output exactly once, or is still to come, or
\* belongs to those an IDR picture told the decoder to drop; even when the driver
\* refuses pictures and slices are lost.
WaitingIds == {dpb.pics[i].id : i \in {j \in DOMAIN dpb.pics : dpb.pics[j].out}}
NoPictureLost ==
    /\ \A i, j \in DOMAIN dpb.shown : i # j => dpb.shown[i] # dpb.shown[j]
    /\ \A i \in DOMAIN dpb.shown : dpb.shown[i] \notin WaitingIds
    /\ accepted \subseteq Range(dpb.shown) \union WaitingIds \union {cur.id} \union mayDrop

\* The sliding window, the six commands and the gaps leave exactly the references
\* that the encoder will use: between two pictures the marks agree.
CodeRefs == {[id |-> p.id, kind |-> IF p.long THEN "long" ELSE "short", idx |-> IF p.long THEN p.ltIdx ELSE 0] :
                p \in {q \in Range(dpb.pics) : q.ref /\ q.id # 0}}
MarkingIsStandard ==
    (cur = None /\ ~lost /\ stream.open) =>
        /\ CodeRefs = {[id |-> f.id, kind |-> f.kind, idx |-> f.idx] : f \in {g \in Refs(stream.frames) : g.id # 0}}
        /\ Len(SelectSeq(dpb.pics, LAMBDA p : p.id = 0)) = Cardinality({f \in stream.frames : f.id = 0})

\* The order count rebuilt from its low bits or from frame numbers is the true one.
PocIsTrue == (cur # None /\ ~lost) => cur.poc = stream.coded

\* The lists that the encoder expects: by descending frame number, or by order
\* count around the picture, long-term references last; ...
ByKey(F, key(_)) == SetToSortSeq(F, LAMBDA f, g : key(f) < key(g))
StdP == ByKey(Shorts(stream.refs), LAMBDA f : -f.fn) \o ByKey(Longs(stream.refs), LAMBDA f : f.idx)
StdB(first) ==
    LET past   == ByKey({f \in Shorts(stream.refs) : f.poc < cur.poc}, LAMBDA f : -f.poc)
        future == ByKey({f \in Shorts(stream.refs) : f.poc > cur.poc}, LAMBDA f : f.poc)
        longs  == ByKey(Longs(stream.refs), LAMBDA f : f.idx)
    IN  IF first THEN past \o future \o longs ELSE future \o past \o longs
Swapped(l) == IF Len(l) > 1 /\ l = StdB(TRUE) THEN <<l[2], l[1]>> \o SubSeq(l, 3, Len(l)) ELSE l

\* ... and after commands that put the frames xs first.
Reordered(l, xs) == xs \o SelectSeq(l, LAMBDA f : f \notin Range(xs))
CommandFor(x, from) ==
    IF x.kind = "long" THEN [idc |-> 2, val |-> x.idx]
    ELSE [idc |-> IF x.fn > from THEN 1 ELSE 0,
          val |-> IF x.fn > from THEN x.fn - from ELSE IF x.fn = from THEN MaxFrameNum ELSE from - x.fn]
CommandsFor(xs) ==
    [i \in DOMAIN xs |->
        CommandFor(xs[i], IF i > 1 /\ xs[i - 1].kind = "short" THEN xs[i - 1].fn ELSE stream.num)]

\* The lists of every slice a frame may have are those the encoder expects, with
\* and without commands; those of a first field alternate the parities.
ListsAreStandard ==
    (cur # None /\ ~lost /\ ~cur.idr /\ cur.comp = 0) =>
        LET Lists(type, xs) == RefLists(cur, dpb.short, dpb.long, type, <<CommandsFor(xs), CommandsFor(xs)>>,
                                        <<Len(StdP), Len(StdP)>>)
            targets == {f \in stream.refs : f.id # 0}
            Std(l)  == [i \in DOMAIN l |-> l[i].id]
        IN  IF IsFrame(cur)
            THEN \A xs \in {<<>>} \union [1..1 -> targets] \union
                            {ys \in [1..2 -> targets] : ys[1].kind = "short"} :
                    /\ Std(Lists("P", xs)[1]) = SubSeq(Std(Reordered(StdP, xs)), 1, Len(StdP))
                    /\ targets = stream.refs =>
                        LET b == Lists("B", xs)
                        IN  /\ Std(b[1]) = SubSeq(Std(Reordered(StdB(TRUE), xs)), 1, Len(StdP))
                            /\ Std(b[2]) = SubSeq(Std(Reordered(Swapped(StdB(FALSE)), xs)), 1, Len(StdP))
            ELSE LET l == InitPSliceRef(cur, dpb.short, dpb.long)[1]
                 IN  /\ Len(l) = 2 * Len(StdP)
                     /\ \A i \in DOMAIN l : /\ l[i].id = StdP[(i + 1) \div 2].id
                                            /\ (l[i].str = cur.str) = (i % 2 = 1)
=============================================================================
