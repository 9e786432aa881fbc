--------------------------- MODULE Vp8BoolDecoder ---------------------------
(***************************************************************************)
(* codecparsers/vp8_bool_decoder.cpp: the decoder of booleans that reads   *)
(* the headers of a VP8 frame and then tells the driver where the          *)
(* macroblocks start.  value_ has ValueBytes bytes.  Beside it runs the    *)
(* decoder of RFC 6386 with the whole data as one number.                  *)
(***************************************************************************)
EXTENDS Integers, SequencesExt

CONSTANTS
    ValueBytes,     \* bytes of value_
    Data,           \* the frames, sequences of bytes
    Probabilities,  \* of a boolean to be FALSE, in 256ths
    MaxReads        \* bound: booleans read

VARIABLES
    data,
    bd,         \* [value: value_, count: count_, range: range_, pos: bytes taken of data]
    exact,      \* RFC 6386: [rest: of the number, range, offset: bits that are decided]
    read        \* [n: booleans read, bit: the last one, ok: what ReadBool() returned]

vars == <<data, bd, exact, read>>

CharBit   == 8
ValueBit  == ValueBytes * CharBit
LotsOfBits == 1000      \* VP8_LOTS_OF_BITS: more than any count

\* Initialize(); the number is the data.
Init ==
    /\ data \in Data
    /\ bd = [value |-> 0, count |-> -CharBit, range |-> 255, pos |-> 0]
    /\ exact = [rest |-> FoldLeft(LAMBDA n, byte : n * 256 + byte, 0, data), range |-> 255, offset |-> 0]
    /\ read = [n |-> 0, bit |-> 0, ok |-> TRUE]

-----------------------------------------------------------------------------
(* The decoder *)

\* Whole bytes that fit below the count bits there are, but no more than there are.
BytesToFill(b) == ((ValueBit - 2 * CharBit - b.count) \div CharBit) + 1
BytesLeft(b)   == Len(data) - b.pos

\* Fault: the end is noticed one byte late.
FillLate(b) ==
    LET shift == ValueBit - 2 * CharBit - b.count
        n     == IF BytesLeft(b) < BytesToFill(b) THEN BytesLeft(b) ELSE BytesToFill(b)
    IN  [b EXCEPT !.count = @ + n * CharBit + (IF BytesLeft(b) < BytesToFill(b) THEN LotsOfBits ELSE 0),
                  !.value = FoldLeft(LAMBDA v, i : v + data[b.pos + i] * 2 ^ (shift - (i - 1) * CharBit), @,
                                     [i \in 1..n |-> i]),
                  !.pos = @ + n]

\* FillDecoder(): when the data does not fill value_ beyond its bits, the count is out of reach.
Fill(b) ==
    LET shift == ValueBit - 2 * CharBit - b.count
        n     == IF BytesLeft(b) < BytesToFill(b) THEN BytesLeft(b) ELSE BytesToFill(b)
        ends  == shift + CharBit - BytesLeft(b) * CharBit >= 0
    IN  [b EXCEPT !.count = @ + n * CharBit + (IF ends THEN LotsOfBits ELSE 0),
                  !.value = FoldLeft(LAMBDA v, i : v + data[b.pos + i] * 2 ^ (shift - (i - 1) * CharBit), @,
                                     [i \in 1..n |-> i]),
                  !.pos = @ + n]

Filled(b) == IF b.count < 0 THEN Fill(b) ELSE b

\* kVp8Norm: what brings a range back to 128 or more; a table indexed by the range.
Norm == [range \in 1..255 |-> CHOOSE shift \in 0..7 : range * 2 ^ shift \in 128..255]

Split(range, probability) == 1 + ((range - 1) * probability) \div 256

Normalized(b) ==
    LET shift == Norm[b.range]
    IN  [b EXCEPT !.range = @ * 2 ^ shift, !.value = (@ * 2 ^ shift) % 2 ^ ValueBit, !.count = @ - shift]

\* ReadBit(), on a decoder that has been filled.
ReadBit(b, split) ==
    LET bigsplit == split * 2 ^ (ValueBit - CharBit)
    IN  IF b.value >= bigsplit
        THEN [bd |-> Normalized([b EXCEPT !.range = @ - split, !.value = @ - bigsplit]), bit |-> 1]
        ELSE [bd |-> Normalized([b EXCEPT !.range = split]), bit |-> 0]

OutOfBuffer(b) == b.count > ValueBit /\ b.count < LotsOfBits

\* BitOffset(), GetBottom() and bool_dec_count of ParseFrameHeader()
BitOffset(b) ==
    LET bits == b.count + CharBit
    IN  b.pos * CharBit - (IF bits <= ValueBit THEN bits ELSE IF bits > LotsOfBits THEN bits - LotsOfBits ELSE 0)
GetBottom(b)    == Filled(b).value \div 2 ^ (ValueBit - CharBit)
BoolDecCount(b) == 7 - ((BitOffset(b) + 7) % 8)

-----------------------------------------------------------------------------
(* RFC 6386, section 7: the decoder without a window *)

\* A unit of the range, in the number: 2 to the bits that are not decided, less 8.
Unit(e) == 2 ^ (Len(data) * CharBit - CharBit - e.offset)

Exact(e, split) ==
    LET bit   == IF e.rest >= split * Unit(e) THEN 1 ELSE 0
        range == IF bit = 1 THEN e.range - split ELSE split
        shift == CHOOSE n \in 0..7 : range * 2 ^ n \in 128..255
    IN  [e |-> [rest |-> e.rest - bit * split * Unit(e), range |-> range * 2 ^ shift, offset |-> e.offset + shift],
         bit |-> bit]

\* ReadBool() while the one before was true.
ReadBool ==
    /\ read.ok /\ read.n < MaxReads
    /\ \E p \in Probabilities :
       \E r \in {ReadBit(Filled(bd), Split(bd.range, p))}, x \in {Exact(exact, Split(exact.range, p))} :
          /\ bd' = r.bd
          /\ exact' = x.e
          /\ read' = [n |-> read.n + 1, bit |-> <<r.bit, x.bit>>, ok |-> ~OutOfBuffer(r.bd)]
    /\ UNCHANGED data

Next == ReadBool

Spec == Init /\ [][Next]_vars

-----------------------------------------------------------------------------
(* Properties *)

\* Whatever the data and the probabilities, and wherever value_ is filled again, a boolean is that
\* of RFC 6386, ReadBool() fails once fewer than 8 bits are left and not before, and the driver is
\* told the place in the data, the bits of it and the range with which it has to go on.
BoolsAreExact ==
    LET left == Len(data) * CharBit - exact.offset
    IN  /\ read.n > 0 => read.bit[1] = read.bit[2]
        /\ read.ok = (left >= CharBit)
        /\ read.ok => /\ BitOffset(bd) = exact.offset
                      /\ bd.range = exact.range
                      /\ GetBottom(bd) = exact.rest \div Unit(exact)
                      /\ BoolDecCount(bd) = (-exact.offset) % 8
=============================================================================
