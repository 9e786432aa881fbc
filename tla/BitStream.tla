----------------------------- MODULE BitStream -----------------------------
(***************************************************************************)
(* How the fields of the parameter sets travel from the H.264 encoder to   *)
(* the decoder: BitWriter and the codes of the encoder, the two headers    *)
(* that StreamHeader of encoder/vaapiencoder_h264.cpp makes of the bytes,  *)
(* the NalReader of common/ that finds the sets again, and the BitReader   *)
(* and NalReader of codecparsers/ that read their fields.  Both caches     *)
(* have CacheBytes bytes and a field at most half of their bits.           *)
(***************************************************************************)
EXTENDS Integers, SequencesExt

CONSTANTS
    CacheBytes,     \* sizeof(unsigned long int)
    Fields,         \* the fields of parameter sets, [kind, bits, value]
    MaxFields,      \* bound: fields in both sets
    Hard            \* a subset of HardKinds

HardKinds == {"emulation in avcC"}

VARIABLES
    written,    \* history: the fields of each set
    headers,    \* m_sps and m_pps, sequences of bytes
    splitter,   \* NalReader of common/: [data, lengthSize, begin, next, size], <<>> before there is one
    whole,      \* history: nothing of the headers was cut off
    got         \* history: for each set parsed, the results of read() with the reader after it

vars == <<written, headers, splitter, whole, got>>

CacheBits == CacheBytes * 8
Profile   == [i \in 1..3 |-> [kind |-> "u", bits |-> 8, value |-> <<100, 0, 30>>[i]]]
Types     == <<7, 8>>       \* nal_unit_type of the sequence and of the picture parameter set

-----------------------------------------------------------------------------
(* BitWriter *)

\* Fault: what the cache has no room for comes first.
WriteBitsSplitLow(w, v, n) ==
    LET left == CacheBits - w.bits
        full == (w.cache * 2 ^ left + (v % 2 ^ left)) % 2 ^ CacheBits
    IN  IF left > n THEN [w EXCEPT !.cache = (@ * 2 ^ n + v) % 2 ^ CacheBits, !.bits = @ + n]
        ELSE [bs    |-> w.bs \o [i \in 1..CacheBytes |-> (full \div 256 ^ (CacheBytes - i)) % 256],
              cache |-> v, bits |-> n - left]

\* writeBits(): the bits of v that were written stay above the others in the new cache.
WriteBits(w, v, n) ==
    LET left == CacheBits - w.bits
        full == (w.cache * 2 ^ left + v \div 2 ^ (n - left)) % 2 ^ CacheBits
    IN  IF left > n THEN [w EXCEPT !.cache = (@ * 2 ^ n + v) % 2 ^ CacheBits, !.bits = @ + n]
        ELSE [bs    |-> w.bs \o [i \in 1..CacheBytes |-> (full \div 256 ^ (CacheBytes - i)) % 256],
              cache |-> v, bits |-> n - left]

WriteToBytesAligned(w) == IF w.bits % 8 = 0 THEN w ELSE WriteBits(w, 0, 8 - (w.bits % 8))

\* flushCache(), on whole bytes.
FlushCache(w) ==
    [bs |-> w.bs \o [i \in 1..(w.bits \div 8) |-> (w.cache \div 2 ^ (w.bits - i * 8)) % 256],
     cache |-> 0, bits |-> 0]

WriteBytes(w, data) ==
    IF w.bits % 8 = 0 THEN [FlushCache(w) EXCEPT !.bs = @ \o data]
    ELSE FoldLeft(LAMBDA x, byte : WriteBits(x, byte, 8), w, data)

\* bit_writer_put_ue() and bit_writer_put_se(), of values that fit
PutUe(w, v) ==
    LET size == CHOOSE n \in 1..CacheBits : v + 1 \in 2 ^ (n - 1)..(2 ^ n - 1)
    IN  WriteBits(IF size > 1 THEN WriteBits(w, 0, size - 1) ELSE w, v + 1, size)
PutSe(w, v) == PutUe(w, IF v <= 0 THEN -(2 * v) ELSE 2 * v - 1)

Put(w, f) ==
    CASE f.kind = "u"     -> WriteBits(w, f.value, f.bits)
      [] f.kind = "ue"    -> PutUe(w, f.value)
      [] f.kind = "se"    -> PutSe(w, f.value)
      [] f.kind = "bytes" -> WriteBytes(w, f.value)

\* bit_writer_write_nal_header() of a parameter set, and the trailing bits with bsToHeader()
NalHeader(w, type) == WriteBits(WriteBits(WriteBits(w, 0, 1), 3, 2), type, 5)
BsToHeader(w)      == FlushCache(WriteToBytesAligned(WriteBits(w, 1, 1))).bs

-----------------------------------------------------------------------------
(* StreamHeader *)

Length(h) == <<Len(h) \div 256, Len(h) % 256>>

\* Fault: only 00 00 01 is kept apart.
EmulateStartCodes(h) ==
    LET out[i \in 1..(Len(h) + 1)] ==
            IF i > Len(h) THEN <<>>
            ELSE IF i < Len(h) /\ h[i] = 0 /\ h[i + 1] = 0
                 THEN (IF h[i + 2] = 1 THEN <<0, 0, 3>> ELSE <<0, 0>>) \o out[i + 2]
                 ELSE <<h[i]>> \o out[i + 1]
    IN  out[1]

\* appendHeaderWithEmulation(): the two zeros that are found always have a byte after them.
WithEmulation(h) ==
    LET out[i \in 1..(Len(h) + 1)] ==
            IF i > Len(h) THEN <<>>
            ELSE IF i < Len(h) /\ h[i] = 0 /\ h[i + 1] = 0
                 THEN (IF h[i + 2] <= 3 THEN <<0, 0, 3>> ELSE <<0, 0>>) \o out[i + 2]
                 ELSE <<h[i]>> \o out[i + 1]
    IN  out[1]

GenerateCodecConfigAnnexB == FoldLeft(LAMBDA s, h : s \o <<0, 0, 0, 1>> \o WithEmulation(h), <<>>, headers)

\* generateCodecConfigAVCc(): version, profile and level, 4 bytes of length, one set of each kind.
GenerateCodecConfigAVCc ==
    <<1>> \o SubSeq(headers[1], 2, 4) \o <<255, 225>> \o Length(headers[1]) \o headers[1]
          \o <<1>> \o Length(headers[2]) \o headers[2]

-----------------------------------------------------------------------------
(* NalReader of common/ *)

\* searchNalStart(): begin and next, the places of a start code or a length and of the NAL unit.
SearchNalStart(s) ==
    LET end    == Len(s.data)
        starts == {i \in s.next..(end - 3) : SubSeq(s.data, i + 1, i + 3) = <<0, 0, 1>>}
        first  == CHOOSE i \in starts : \A j \in starts : i <= j
        begin  == s.begin + s.size
    IN  IF s.lengthSize = 0
        THEN IF starts = {} THEN [s EXCEPT !.begin = end, !.next = end]
             ELSE [s EXCEPT !.begin = first, !.next = first + 3]
        ELSE IF end <= begin + s.lengthSize THEN [s EXCEPT !.begin = end, !.next = end]
             ELSE [s EXCEPT !.begin = begin, !.next = begin + s.lengthSize,
                            !.size = s.lengthSize + FoldLeft(LAMBDA n, byte : n * 256 + byte, 0,
                                                             SubSeq(s.data, begin + 1, begin + s.lengthSize))]

NewSplitter(data, lengthSize) ==
    SearchNalStart([data |-> data, lengthSize |-> lengthSize, begin |-> 0, next |-> 0, size |-> 0])

-----------------------------------------------------------------------------
(* BitReader and NalReader of codecparsers/ *)

NewReader(data) == [data |-> data, load |-> 0, cache |-> 0, bits |-> 0]

IsEmulationBytes(r, i) == i > 2 /\ SubSeq(r.data, i - 2, i) = <<0, 0, 3>>

Smaller(a, b) == IF a < b THEN a ELSE b

\* Fault: the bytes before those that are loaded now are not looked at.
LoadWithoutPast(r) ==
    LET left == Len(r.data) - r.load
        full == Smaller(left, CacheBytes) * 8
        step(x, i) == IF x.bits = full THEN x
                      ELSE IF IsEmulationBytes(r, i) /\ i > r.load + 2 THEN [x EXCEPT !.load = i]
                      ELSE [x EXCEPT !.load = i, !.cache = @ * 256 + r.data[i], !.bits = @ + 8]
    IN  IF left = 0 THEN r
        ELSE FoldLeft(step, [r EXCEPT !.cache = 0, !.bits = 0], [i \in 1..left |-> r.load + i])

\* reload() with loadDataToCache()
Reload(r) ==
    LET left == Len(r.data) - r.load
        full == Smaller(left, CacheBytes) * 8
        step(x, i) == IF x.bits = full THEN x
                      ELSE IF IsEmulationBytes(r, i) THEN [x EXCEPT !.load = i]
                      ELSE [x EXCEPT !.load = i, !.cache = @ * 256 + r.data[i], !.bits = @ + 8]
    IN  IF left = 0 THEN r
        ELSE FoldLeft(step, [r EXCEPT !.cache = 0, !.bits = 0], [i \in 1..left |-> r.load + i])

Extract(r, n) == (r.cache % 2 ^ r.bits) \div 2 ^ (r.bits - n)
Take(r, n)    == [r EXCEPT !.bits = @ - n]
Result(ok, v, r) == [ok |-> ok, value |-> v, reader |-> r]

\* read()
ReadBits(r, n) ==
    IF n <= r.bits THEN Result(TRUE, Extract(r, n), Take(r, n))
    ELSE LET next == Reload(Take(r, r.bits))
             more == n - r.bits
         IN  IF more > next.bits THEN Result(FALSE, 0, next)
             ELSE Result(TRUE, Extract(r, r.bits) * 2 ^ more + Extract(next, more), Take(next, more))

\* The bit at which readUe() stops counting zeros, and how many there were.
CountZeros(r) ==
    FoldLeft(LAMBDA x, i : IF x.bit.ok /\ x.bit.value = 0
                           THEN [bit |-> ReadBits(x.bit.reader, 1), zeros |-> x.zeros + 1] ELSE x,
             [bit |-> ReadBits(r, 1), zeros |-> 0],
             [i \in 1..(r.bits + 8 * (Len(r.data) - r.load)) |-> i])
ReadUe(r) ==
    LET x == CountZeros(r)
    IN  IF x.bit.ok THEN [ReadBits(x.bit.reader, x.zeros) EXCEPT !.value = 2 ^ x.zeros - 1 + @]
        ELSE x.bit

HalfCeil(n) == (n + 1) \div 2

ReadSe(r) == [ReadUe(r) EXCEPT !.value = HalfCeil(@) * (IF @ % 2 = 1 THEN 1 ELSE -1)]

Read(r, f) ==
    CASE f.kind = "u"     -> ReadBits(r, f.bits)
      [] f.kind = "ue"    -> ReadUe(r)
      [] f.kind = "se"    -> ReadSe(r)
      [] f.kind = "bytes" -> FoldLeft(LAMBDA x, byte :
                                  LET y == ReadBits(x.reader, 8)
                                  IN  Result(x.ok /\ y.ok, Append(x.value, y.value), y.reader),
                                  Result(TRUE, <<>>, r), f.value)

Bits(value, n) == [i \in 1..n |-> (value \div 2 ^ (n - i)) % 2]

\* moreRbspData() looks at the bytes that are not loaded with a plain BitReader.
MoreRbspData(r) ==
    LET left == Bits(r.cache, r.bits) \o FlattenSeq([i \in 1..(Len(r.data) - r.load) |-> Bits(r.data[r.load + i], 8)])
    IN  left # <<>> /\ (left[1] = 0 \/ \E i \in 2..Len(left) : left[i] = 1)

-----------------------------------------------------------------------------
(* From the encoder to the decoder *)

FieldSeqs(n) == UNION {[1..k -> Fields] : k \in 0..n}

\* setSPS() and addPPS(), of a set that has these fields
HeaderOf(set, fields) ==
    BsToHeader(FoldLeft(Put, NalHeader([cache |-> 0, bits |-> 0, bs |-> <<>>], Types[set]), fields))

Init == written = <<>> /\ headers = <<>> /\ splitter = <<>> /\ whole = TRUE /\ got = <<>>

SetSps ==
    /\ headers = <<>>
    /\ \E fields \in FieldSeqs(MaxFields) :
          /\ written' = <<Profile \o fields>>
          /\ headers' = <<HeaderOf(1, Profile \o fields)>>
    /\ UNCHANGED <<splitter, whole, got>>

AddPps ==
    /\ Len(headers) = 1
    /\ \E fields \in FieldSeqs(MaxFields - (Len(written[1]) - Len(Profile))) :
          /\ written' = Append(written, fields)
          /\ headers' = Append(headers, HeaderOf(2, fields))
    /\ UNCHANGED <<splitter, whole, got>>

\* start() of the decoder without an avcC record: what is at hand, cut off or not, is decoded.
StartAnnexB ==
    /\ Len(headers) = 2 /\ splitter = <<>>
    /\ \E cut \in 0..1 :
          /\ splitter' = NewSplitter(SubSeq(GenerateCodecConfigAnnexB, 1, Len(GenerateCodecConfigAnnexB) - cut), 0)
          /\ whole' = (cut = 0)
    /\ UNCHANGED <<written, headers, got>>

HasEmulation(h) == \E i \in 3..Len(h) : SubSeq(h, i - 2, i) = <<0, 0, 3>>

\* decodeAvcRecordData(), for an avcC record
StartAVCc ==
    /\ Len(headers) = 2 /\ splitter = <<>>
    /\ ("emulation in avcC" \notin Hard) => \A set \in 1..2 : ~HasEmulation(headers[set])
    /\ splitter' = NewSplitter(SubSeq(GenerateCodecConfigAVCc, 7, Len(GenerateCodecConfigAVCc)), 2)
    /\ UNCHANGED <<written, headers, whole, got>>

\* parseNalUnit() and what parseSps() or parsePps() read of these fields, up to a read() that fails.
ParseNal(nalu, fields) ==
    FoldLeft(LAMBDA results, f : IF ~Last(results).ok THEN results
                                 ELSE Append(results, Read(Last(results).reader, f)),
             <<Result(TRUE, nalu[1] % 32, NewReader(Tail(nalu)))>>, fields)

\* read() of the splitter, for a set that the decoder knows; the picture parameter sets of a
\* record have a count before them.
NextNal ==
    /\ splitter # <<>> /\ Len(got) < 2 /\ splitter.next # Len(splitter.data)
    /\ LET s == SearchNalStart(splitter)
       IN  /\ got' = Append(got, ParseNal(SubSeq(splitter.data, splitter.next + 1, s.begin),
                                          written[Len(got) + 1]))
           /\ splitter' = IF splitter.lengthSize # 0 /\ got = <<>>
                          THEN NewSplitter(SubSeq(splitter.data, s.begin + 2, Len(splitter.data)), 2)
                          ELSE s
    /\ UNCHANGED <<written, headers, whole>>

Next == SetSps \/ AddPps \/ StartAnnexB \/ StartAVCc \/ NextNal

Spec == Init /\ [][Next]_vars

-----------------------------------------------------------------------------
(* Properties *)

\* The decoder finds both sets, no third one, and reads from them the fields that the encoder
\* wrote, whatever crosses a cache or looks like a start code on the way; it fails only when bytes
\* are missing, and reads no wrong value before; and moreRbspData() tells after each field whether
\* there are more: writeBits(), appendHeaderWithEmulation(), searchNalStart(), read().
FieldsReadBack ==
    /\ \A set \in DOMAIN got :
          LET values == <<Types[set]>> \o [i \in DOMAIN written[set] |-> written[set][i].value]
          IN  /\ \A i \in DOMAIN got[set] : got[set][i].ok => got[set][i].value = values[i]
              /\ whole => /\ Len(got[set]) = Len(values)
                          /\ \A i \in DOMAIN values : /\ got[set][i].ok
                                                       /\ MoreRbspData(got[set][i].reader) = (i < Len(values))
    /\ (whole /\ splitter # <<>>) => (splitter.next = Len(splitter.data)) = (Len(got) = 2)
=============================================================================
