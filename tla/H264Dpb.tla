------------------------------ MODULE H264Dpb ------------------------------
(***************************************************************************)
(* decoder/vaapidecoder_h264.cpp, the class DPB: the decoded picture       *)
(* buffer as operators on m_pictures, a sequence of pictures in the order  *)
(* of the std::set.  PocLess compares with <=, so a picture goes before    *)
(* the pictures of its own POC.  A picture's id stands for its surface;    *)
(* the pictures made for gaps in frame_num have id 0.                      *)
(***************************************************************************)
EXTENDS Integers, SequencesExt

CONSTANTS
    MaxFrameNum,        \* 2^(log2_max_frame_num)
    MaxPocLsb,          \* 2^(log2_max_pic_order_cnt_lsb)
    NumRefFrames,       \* sps->num_ref_frames
    MaxDecFrameBuffering,   \* what calcMaxDecFrameBufferingNum() gives
    OffsetForRefFrame,  \* sps->offset_for_ref_frame, one cycle of it
    OffsetForNonRef     \* sps->offset_for_non_ref_pic

\* Fault: no surface beside those of the standard's buffer.
CapacityTight == MaxDecFrameBuffering

\* m_maxDecFrameBuffering: isDecodeContextChanged() asks for one surface more.
Capacity == MaxDecFrameBuffering + 1

\* A picture; comp is the id of the complementary field of a second field, or 0.
NewPicture(id) ==
    [id |-> id, idr |-> FALSE, str |-> "frame", ref |-> FALSE, long |-> FALSE,
     short |-> FALSE, out |-> TRUE, mmco5 |-> FALSE, comp |-> 0,
     top |-> 0, bot |-> 0, msb |-> 0, lsb |-> 0, poc |-> 0,
     fno |-> 0, fn |-> 0, fnw |-> 0, pn |-> 0, ltIdx |-> 0, ltPn |-> 0]

AllocField(p, parity) ==
    [p EXCEPT !.str = parity, !.poc = IF parity = "bottom" THEN p.bot ELSE p.top]

IsFrame(p)  == p.str = "frame"
ShortRef(p) == p.short /\ p.ref
LongRef(p)  == p.long /\ p.ref
Unused(p)   == ~p.ref /\ ~p.out

MarkUnused(p) == [p EXCEPT !.ref = FALSE]
MarkLong(p, idx) ==
    [p EXCEPT !.ref = TRUE, !.long = TRUE, !.short = FALSE, !.ltIdx = idx]

-----------------------------------------------------------------------------
(* Picture order counts *)

\* Fault: a step back across the wrap is not recognised.
WrapUpOnly(value, prev, range) ==
    IF value < prev /\ prev - value >= range \div 2 THEN range ELSE 0

WrapOf(value, prev, range) ==
    IF value < prev /\ prev - value >= range \div 2 THEN range
    ELSE IF value > prev /\ value - prev > range \div 2 THEN -range
    ELSE 0

\* The sum of the first n offsets of the repeated cycle.
SumOffsets(n) ==
    LET cycle == Len(OffsetForRefFrame)
    IN  FoldLeft(+, 0, [i \in 1..n |-> OffsetForRefFrame[((i - 1) % cycle) + 1]])

WithPoc(p, top, bot) ==
    [p EXCEPT !.top = top, !.bot = bot, !.poc = IF p.str = "bottom" THEN bot ELSE top]
WithTop(p, top, delta) == WithPoc(p, top, IF IsFrame(p) THEN top + delta ELSE top)

\* calcPoc() for a pic_order_cnt_type; dpoc is delta_pic_order_cnt_bottom or
\* delta_pic_order_cnt[1].
CalcPoc(type, p, prev, dpoc) ==
    LET fno    == prev.fno + (IF p.fn < prev.fn THEN MaxFrameNum ELSE 0)
        absNum == IF OffsetForRefFrame = <<>> THEN 0 ELSE fno + p.fn
        cycled == IF ~p.ref /\ absNum > 0 THEN absNum - 1 ELSE absNum
        msb    == prev.msb + WrapOf(p.lsb, prev.lsb, MaxPocLsb)
        top    == CASE type = 0 -> msb + p.lsb
                    [] type = 1 -> SumOffsets(cycled) + (IF p.ref THEN 0 ELSE OffsetForNonRef)
                    [] type = 2 -> IF p.idr THEN 0 ELSE 2 * (fno + p.fn) - (IF p.ref THEN 0 ELSE 1)
    IN  WithTop([p EXCEPT !.fno = fno, !.msb = IF type = 0 THEN msb ELSE p.msb],
                top, IF type = 2 THEN 0 ELSE dpoc)

ResetPictureHasMmco5(p) ==
    [p EXCEPT !.top = p.top - p.poc, !.bot = p.bot - p.poc, !.poc = 0, !.fn = 0,
              !.fno = 0, !.msb = 0, !.lsb = IF p.str = "bottom" THEN 0 ELSE p.lsb]

-----------------------------------------------------------------------------
(* Picture numbers and reference lists *)

ParityNum(cur, p, num) ==
    IF IsFrame(p) THEN num ELSE IF p.str = cur.str THEN 2 * num + 1 ELSE 2 * num

CalcShortTermPicNum(cur, p) ==
    LET fnw == IF p.fn > cur.fn THEN p.fn - MaxFrameNum ELSE p.fn
    IN  [p EXCEPT !.fnw = fnw, !.pn = ParityNum(cur, p, fnw)]

CalcLongTermPicNum(cur, p) == [p EXCEPT !.ltPn = ParityNum(cur, p, p.ltIdx)]

NumberOf(cur) == IF IsFrame(cur) THEN cur.fn ELSE 2 * cur.fn + 1

\* calcPicNum(): the pictures with their new numbers, ...
WithPicNums(pics, cur) ==
    [i \in DOMAIN pics |->
        IF ShortRef(pics[i]) THEN CalcShortTermPicNum(cur, pics[i])
        ELSE IF LongRef(pics[i]) THEN CalcLongTermPicNum(cur, pics[i])
        ELSE pics[i]]

\* ... and the list of those that Test selects, frames as two fields for a field.
TermList(pics, cur, Test(_)) ==
    FoldLeft(LAMBDA list, p : list \o
                 (IF ~IsFrame(cur) /\ IsFrame(p)
                  THEN <<AllocField(p, "top"), AllocField(p, "bottom")>> ELSE <<p>>),
             <<>>, SelectSeq(pics, Test))

Alternate(same, other) ==
    LET n == IF Len(same) < Len(other) THEN Len(same) ELSE Len(other)
    IN  [i \in 1..(2 * n) |-> IF i % 2 = 1 THEN same[(i + 1) \div 2] ELSE other[i \div 2]]
            \o SubSeq(same, n + 1, Len(same)) \o SubSeq(other, n + 1, Len(other))
PartitionAndInterleave(cur, list) ==
    Alternate(SelectSeq(list, LAMBDA p : p.str = cur.str), SelectSeq(list, LAMBDA p : p.str # cur.str))

Ordered(cur, list) == IF IsFrame(cur) THEN list ELSE PartitionAndInterleave(cur, list)

\* initPSliceRef(), initBSliceRef(): m_refList0 and m_refList1 of a slice.
LongOrder(cur, long) ==
    SortSeq(long, LAMBDA p, q : IF IsFrame(cur) THEN p.ltPn < q.ltPn ELSE p.ltIdx < q.ltIdx)

InitPSliceRef(cur, short, long) ==
    LET newest == SortSeq(short, LAMBDA p, q : IF IsFrame(cur) THEN p.pn > q.pn ELSE p.fnw > q.fnw)
    IN  << Ordered(cur, newest) \o Ordered(cur, LongOrder(cur, long)), <<>> >>

SwapIfSame(l0, l1) ==
    << l0, IF Len(l1) > 1 /\ l0 = l1 THEN <<l1[2], l1[1]>> \o SubSeq(l1, 3, Len(l1)) ELSE l1 >>
InitBSliceRef(cur, short, long) ==
    LET before == SortSeq(SelectSeq(short, LAMBDA p : p.poc < cur.poc), LAMBDA p, q : p.poc > q.poc)
        after  == SortSeq(SelectSeq(short, LAMBDA p : p.poc >= cur.poc), LAMBDA p, q : p.poc < q.poc)
        longs  == Ordered(cur, LongOrder(cur, long))
    IN  SwapIfSame(Ordered(cur, before \o after) \o longs, Ordered(cur, after \o before) \o longs)

\* One command of modifyReferenceList() on m = [list, idx, pred]; a command is
\* [idc, val].  The compaction leaves the length alone: the tail stays.
Compact(list, idx, Wanted(_)) ==
    LET keep == SelectSeq(SubSeq(list, idx + 1, Len(list)), LAMBDA p : ~Wanted(p))
    IN  SubSeq(list, 1, idx) \o keep \o SubSeq(list, idx + Len(keep) + 1, Len(list))
InsertRef(m, cur, from, Wanted(_), pred) ==
    LET found == SelectInSeq(from, Wanted)
    IN  [list |-> Compact(IF found = 0 THEN m.list ELSE InsertAt(m.list, m.idx + 1, from[found]),
                          m.idx + 1, Wanted),
         idx  |-> m.idx + 1, pred |-> pred]

\* Fault: (8-36) is left out, a wrapped number is not found.
ModifyUnwrapped(m, cur, short, long, command) ==
    LET maxPicNum == IF IsFrame(cur) THEN MaxFrameNum ELSE 2 * MaxFrameNum
        noWrap    == IF command.idc = 0
                     THEN m.pred - command.val + (IF m.pred < command.val THEN maxPicNum ELSE 0)
                     ELSE m.pred + command.val - (IF m.pred + command.val >= maxPicNum THEN maxPicNum ELSE 0)
    IN  IF command.idc = 2
        THEN InsertRef(m, cur, long, LAMBDA p : LongRef(p) /\ p.ltPn = command.val, m.pred)
        ELSE InsertRef(m, cur, short, LAMBDA p : ShortRef(p) /\ p.pn = noWrap, noWrap)

ModifyOne(m, cur, short, long, command) ==
    LET maxPicNum == IF IsFrame(cur) THEN MaxFrameNum ELSE 2 * MaxFrameNum
        noWrap    == IF command.idc = 0
                     THEN m.pred - command.val + (IF m.pred < command.val THEN maxPicNum ELSE 0)
                     ELSE m.pred + command.val - (IF m.pred + command.val >= maxPicNum THEN maxPicNum ELSE 0)
        num       == IF noWrap > cur.pn THEN noWrap - maxPicNum ELSE noWrap
    IN  IF command.idc = 2
        THEN InsertRef(m, cur, long, LAMBDA p : LongRef(p) /\ p.ltPn = command.val, m.pred)
        ELSE InsertRef(m, cur, short, LAMBDA p : ShortRef(p) /\ p.pn = num, noWrap)

ModifyReferenceList(cur, short, long, list, commands) ==
    FoldLeft(LAMBDA m, command : ModifyOne(m, cur, short, long, command),
             [list |-> list, idx |-> 0, pred |-> cur.pn], commands).list

Truncated(list, n) == SubSeq(list, 1, IF Len(list) > n THEN n ELSE Len(list))

\* initReference() for a picture that is no IDR picture, after calcPicNum().
RefLists(cur, short, long, type, commands, active) ==
    LET init == IF type = "P" THEN InitPSliceRef(cur, short, long) ELSE InitBSliceRef(cur, short, long)
    IN  [i \in 1..2 |-> Truncated(ModifyReferenceList(cur, short, long, init[i], commands[i]), active[i])]

-----------------------------------------------------------------------------
(* Marking *)

\* The first picture that passes Test, changed.
ChangeFirst(pics, Test(_), Change(_)) ==
    LET i == SelectInSeq(pics, Test) IN IF i = 0 THEN pics ELSE [pics EXCEPT ![i] = Change(@)]

\* adaptiveMarkReference(), one operation on m = [pics, cur].  An operation is
\* [op, diff, num, idx]: diff is difference_of_pic_nums_minus1 + 1.
AdaptiveMarkOne(m, mmco) ==
    LET numX == m.cur.pn - mmco.diff
        ShortX(p) == ShortRef(p) /\ p.pn = numX
        freed(n) == ChangeFirst(m.pics, LAMBDA p : LongRef(p) /\ p.ltPn = n, MarkUnused)
    IN  CASE mmco.op = 1 -> [m EXCEPT !.pics = ChangeFirst(m.pics, ShortX, MarkUnused)]
          [] mmco.op = 2 -> [m EXCEPT !.pics = freed(mmco.num)]
          [] mmco.op = 3 -> [m EXCEPT !.pics =
                                ChangeFirst(freed(mmco.idx), ShortX, LAMBDA p : MarkLong(p, mmco.idx))]
          [] mmco.op = 4 -> [m EXCEPT !.pics = [i \in DOMAIN m.pics |->
                                IF LongRef(m.pics[i]) /\ m.pics[i].ltIdx > mmco.idx - 1
                                THEN MarkUnused(m.pics[i]) ELSE m.pics[i]]]
          [] mmco.op = 5 -> [m EXCEPT !.pics = [i \in DOMAIN m.pics |-> MarkUnused(m.pics[i])]]
          [] mmco.op = 6 -> [pics |-> freed(mmco.idx), cur |-> MarkLong(m.cur, mmco.idx)]

MaxNumRefFrames(cur) ==
    (IF NumRefFrames > 1 THEN NumRefFrames ELSE 1) * (IF IsFrame(cur) THEN 1 ELSE 2)

\* Fault: the oldest picture by frame_num, not by FrameNumWrap.
SlideByFrameNum(pics, cur, short, long) ==
    LET oldest == CHOOSE i \in DOMAIN short :
                      /\ \A j \in DOMAIN short : short[i].fn <= short[j].fn
                      /\ \A j \in 1..(i - 1) : short[j].fn # short[i].fn
        Is(p) == IF IsFrame(cur) THEN p.id = short[oldest].id /\ p.fn = short[oldest].fn
                 ELSE ShortRef(p) /\ p.fnw = short[oldest].fnw
    IN  IF cur.comp # 0 \/ short = <<>> \/ Len(short) + Len(long) < MaxNumRefFrames(cur)
        THEN pics ELSE ChangeFirst(pics, Is, MarkUnused)

\* slidingWindowMarkReference(): the lists are those of the last initReference().
SlidingWindowMark(pics, cur, short, long) ==
    LET oldest == CHOOSE i \in DOMAIN short :
                      /\ \A j \in DOMAIN short : short[i].fnw <= short[j].fnw
                      /\ \A j \in 1..(i - 1) : short[j].fnw # short[i].fnw
        Is(p) == IF IsFrame(cur) THEN p.id = short[oldest].id /\ p.fn = short[oldest].fn
                 ELSE ShortRef(p) /\ p.fnw = short[oldest].fnw
    IN  IF cur.comp # 0 \/ short = <<>> \/ Len(short) + Len(long) < MaxNumRefFrames(cur)
        THEN pics ELSE ChangeFirst(pics, Is, MarkUnused)

\* markReference(), with marking = [adaptive, ops, noOutput].
MarkReference(d, cur) ==
    IF ~cur.ref THEN [pics |-> d.pics, cur |-> cur]
    ELSE IF d.marking.adaptive
         THEN FoldLeft(AdaptiveMarkOne, [pics |-> d.pics, cur |-> cur], d.marking.ops)
         ELSE [pics |-> SlidingWindowMark(d.pics, cur, d.short, d.long), cur |-> cur]

-----------------------------------------------------------------------------
(* Output and insertion, on d = [pics, shown, short, long, marking, noOutput,
   lowLatency, pocType]; shown is what m_output was called with.            *)

IsFull(d) == Len(d.pics) >= Capacity

Waiting(pics) == SelectSeq(pics, LAMBDA p : p.out)
Ids(pics)     == [i \in DOMAIN pics |-> pics[i].id]

\* bump(): the first picture that waits is output, and leaves if no reference.
Bump(d) ==
    LET i == SelectInSeq(d.pics, LAMBDA p : p.out)
    IN  [d EXCEPT !.shown = Append(@, d.pics[i].id),
                  !.pics = IF d.pics[i].ref THEN [@ EXCEPT ![i].out = FALSE] ELSE RemoveAt(@, i)]

\* add() bumps while it is full and a picture waits: each time one waits less.
BumpUntilRoom(d) ==
    FoldLeft(LAMBDA x, p : IF IsFull(x) /\ Waiting(x.pics) # <<>> THEN Bump(x) ELSE x, d, d.pics)

BumpAll(d) == [d EXCEPT !.shown = @ \o Ids(Waiting(d.pics)),
                        !.pics = [i \in 1..Len(SelectSeq(@, LAMBDA p : p.ref \/ ~p.out)) |->
                            [SelectSeq(@, LAMBDA p : p.ref \/ ~p.out)[i] EXCEPT !.out = FALSE]]]

InsertPicture(pics, p) ==
    LET i == SelectInSeq(pics, LAMBDA q : p.poc <= q.poc)
    IN  IF i = 0 THEN Append(pics, p) ELSE InsertAt(pics, i, p)

\* The second field joins the picture of its complement, if that is still there.
JoinFields(pics, p) ==
    ChangeFirst(pics, LAMBDA q : q.id = p.comp,
                LAMBDA q : [q EXCEPT !.str = "frame",
                                     !.top = IF q.str = "top" THEN @ ELSE p.top,
                                     !.bot = IF q.str = "top" THEN p.bot ELSE @])

\* Fault: what the low latency mode outputs still waits.
OutputReadyAgain(d) ==
    IF d.lowLatency THEN [d EXCEPT !.shown = @ \o Ids(Waiting(d.pics))] ELSE d

\* add() in low latency mode: outputReadyFrame() for each picture.
OutputReady(d) ==
    IF d.lowLatency
    THEN [d EXCEPT !.shown = @ \o Ids(Waiting(d.pics)),
                   !.pics = [i \in DOMAIN @ |-> [@[i] EXCEPT !.out = FALSE]]]
    ELSE d

\* add(): what enters, with the marks of the current picture in "cur".
Marked(d, cur) ==
    IF cur.idr
    THEN [pics |-> IF d.noOutput THEN <<>> ELSE [i \in DOMAIN d.pics |-> MarkUnused(d.pics[i])],
          cur |-> cur]
    ELSE MarkReference(d, cur)

Cleaned(d, cur) ==
    LET used == [d EXCEPT !.pics = SelectSeq(@, LAMBDA p : ~Unused(p))]
    IN  IF cur.mmco5 \/ (cur.idr /\ ~d.noOutput)
        THEN [BumpAll(used) EXCEPT !.pics = <<>>] ELSE used

Inserted(d, p) ==
    IF IsFull(d) THEN [d |-> d, cur |-> p, ok |-> FALSE]
    ELSE [d |-> OutputReady([d EXCEPT !.pics =
                    IF p.comp # 0 THEN JoinFields(@, p) ELSE InsertPicture(@, p)]),
          cur |-> p, ok |-> TRUE]

ShownOrInserted(d, p) ==
    IF ~p.ref /\ IsFull(d) /\ p.poc < Head(d.pics).poc
    THEN [d |-> [d EXCEPT !.shown = Append(@, p.id)], cur |-> [p EXCEPT !.out = FALSE], ok |-> TRUE]
    ELSE Inserted(BumpUntilRoom(d), p)

AddMarked(d, m) == ShownOrInserted(Cleaned([d EXCEPT !.pics = m.pics], m.cur), m.cur)

Add(d, picture) ==
    AddMarked(d, Marked(d, IF picture.mmco5 THEN ResetPictureHasMmco5(picture) ELSE picture))

-----------------------------------------------------------------------------
(* A new picture *)

\* calcPicNum() and the lists it leaves for the marking of the picture.
WithLists(d, pics, cur) == [d EXCEPT !.pics = pics, !.short = TermList(pics, cur, ShortRef),
                                     !.long = TermList(pics, cur, LongRef)]
CalcPicNum(d, cur) == WithLists(d, WithPicNums(d.pics, cur), cur)

AllocDummyPicture(prev, fn) ==
    [prev EXCEPT !.id = 0, !.str = "frame", !.fn = fn, !.out = FALSE, !.idr = FALSE,
                 !.ref = TRUE, !.long = FALSE, !.short = TRUE]

Numbered(p) == [p EXCEPT !.pn = NumberOf(p)]
AddUnlessKnown(d, p) ==
    IF \E i \in DOMAIN d.pics : ShortRef(d.pics[i]) /\ d.pics[i].fn = p.fn THEN d ELSE Add(d, p).d
FillWith(d, p) ==
    [d |-> AddUnlessKnown(CalcPicNum([d EXCEPT !.marking.adaptive = FALSE], p), p), prev |-> p]

\* processFrameNumWithGaps(): one dummy picture for each number that is missing;
\* the result is the DPB and the previous picture for calcPoc().
FillGap(f, fn) ==
    FillWith(f.d, Numbered(CalcPoc(f.d.pocType, AllocDummyPicture(f.prev, fn), f.prev, 0)))

ProcessFrameNumWithGaps(d, prev, cur) ==
    LET gap == (cur.fn - prev.fn - 1) % MaxFrameNum
    IN  IF cur.fn = prev.fn THEN [d |-> d, prev |-> prev]
        ELSE FoldLeft(FillGap, [d |-> d, prev |-> prev],
                      [i \in 1..gap |-> (prev.fn + i) % MaxFrameNum])

\* flush()
FlushDpb(d) == [BumpAll(d) EXCEPT !.pics = <<>>, !.short = <<>>, !.long = <<>>]
=============================================================================
