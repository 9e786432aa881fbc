----------------------------- MODULE JpegDecoder -----------------------------
(***************************************************************************)
(* decoder/vaapiDecoderJPEG.cpp with codecparsers/jpegParser.cpp: a buffer *)
(* is an image, parsed marker by marker.  Of an image tables may be        *)
(* missing, as in Motion JPEG: those of the image before count, or the     *)
(* defaults.  A table stands by the version that an image gave it.         *)
(***************************************************************************)
EXTENDS Integers, SequencesExt, TLC

CONSTANT Hard       \* streams the decoder gets wrong: subset of HardKinds

HardKinds == {"some of the tables", "several scans", "two images", "no EOI"}

VARIABLES
    parser,     \* what lasts: [quant, dc, ac: m_quantizationTables and m_*HuffmanTables, size: of the format]
    used,       \* the last buffer, what decode() returned and what it gave to the driver, <<>> if nothing
    sent        \* history: [quant, dc, ac: the last tables of the stream, again: a buffer to be sent again]

vars == <<parser, used, sent>>

Tables   == 0..1
None     == 0
Default  == [t \in Tables |-> 1]
NoTables == [t \in Tables |-> None]

Init ==
    /\ parser = [quant |-> Default, dc |-> Default, ac |-> Default, size |-> 0]
    /\ used = <<>>
    /\ sent = [quant |-> Default, dc |-> Default, ac |-> Default, again |-> <<>>]

-----------------------------------------------------------------------------
(* decode(), on d = [lasts: as parser, quant, dc, ac, sof, sos, eoi, dri: of a Parser, which begins  *)
(* with each buffer; status; out].  After the status is set nothing more of the buffer is looked at. *)

NewParser(lasts) ==
    [lasts |-> lasts, quant |-> NoTables, dc |-> NoTables, ac |-> NoTables, sof |-> <<>>, sos |-> <<>>,
     eoi |-> FALSE, dri |-> 0, status |-> "parsing", out |-> <<>>]

Fail(d) == [d EXCEPT !.status = "fail"]

\* parseDQT() and onMarker()
Dqt(d, m) ==
    LET quant == [t \in Tables |-> IF t \in m.tables THEN m.version ELSE d.quant[t]]
    IN  [d EXCEPT !.quant = quant, !.lasts.quant = quant]

\* Fault: the DC tables are not taken.
DhtOfAc(d, m) ==
    LET ac == [t \in Tables |-> IF t \in m.tables /\ m.class = "ac" THEN m.version ELSE d.ac[t]]
    IN  [d EXCEPT !.ac = ac, !.lasts.ac = ac]

\* parseDHT() and onMarker(): both kinds are taken, whatever was given.
Dht(d, m) ==
    LET dc == [t \in Tables |-> IF t \in m.tables /\ m.class = "dc" THEN m.version ELSE d.dc[t]]
        ac == [t \in Tables |-> IF t \in m.tables /\ m.class = "ac" THEN m.version ELSE d.ac[t]]
    IN  [d EXCEPT !.dc = dc, !.ac = ac, !.lasts.dc = dc, !.lasts.ac = ac]

Sof(d, m) == IF d.sof # <<>> THEN Fail(d) ELSE [d EXCEPT !.sof = <<m>>]
Sos(d, m) == IF d.sof = <<>> THEN Fail(d) ELSE [d EXCEPT !.sos = <<m>>]

\* loadHuffmanTables() gives both tables of a number or none.
Huffman(d, t) == IF None \in {d.lasts.dc[t], d.lasts.ac[t]} THEN <<None, None>> ELSE <<d.lasts.dc[t], d.lasts.ac[t]>>

\* fillSliceParam(), loadQuantizationTables(), loadHuffmanTables(): components share the number of
\* their tables.  data is what is left of the last scan.
Picture(d, data) ==
    [size |-> d.sof[1].size, dri |-> d.dri, scan |-> d.sos[1].components, data |-> data,
     quant |-> [c \in d.sos[1].components |-> d.lasts.quant[c]],
     huffman |-> [c \in d.sos[1].components |-> Huffman(d, c)]]

\* Fault: the image is decoded into surfaces of the size before.
FinishAnySize(d, surface, data) ==
    IF d.sof = <<>> \/ d.sos = <<>> THEN Fail(d)
    ELSE IF ~d.sof[1].baseline THEN Fail(d)
    ELSE IF ~surface THEN [d EXCEPT !.status = "no surface"]
    ELSE [d EXCEPT !.out = <<Picture(d, data) @@ [surface |-> d.lasts.size]>>, !.lasts.size = d.sof[1].size]

\* finish(): the size becomes that of the format before the client is asked to send the buffer again.
Finish(d, surface, data) ==
    IF d.sof = <<>> \/ d.sos = <<>> THEN Fail(d)
    ELSE IF ~d.sof[1].baseline THEN Fail(d)
    ELSE IF d.sof[1].size # d.lasts.size THEN [d EXCEPT !.lasts.size = d.sof[1].size, !.status = "format change"]
    ELSE IF ~surface THEN [d EXCEPT !.status = "no surface"]
    ELSE [d EXCEPT !.out = <<Picture(d, data) @@ [surface |-> d.lasts.size]>>]

\* parseEOI() and onMarker()
Eoi(d, surface, data) == IF d.eoi THEN Fail(d) ELSE Finish([d EXCEPT !.eoi = TRUE], surface, data)

Marker(d, m, surface) ==
    CASE d.status # "parsing" -> d
      [] OTHER ->
         CASE m.kind = "DQT" -> Dqt(d, m)
           [] m.kind = "DHT" -> Dht(d, m)
           [] m.kind = "DRI" -> [d EXCEPT !.dri = m.interval]
           [] m.kind = "SOF" -> Sof(d, m)
           [] m.kind = "SOS" -> Sos(d, m)
           [] m.kind = "EOI" -> Eoi(d, surface, "whole")
           [] m.kind = "SOI" -> Fail(d)

\* The end of the buffer: when there was a scan and no EOI, there is one before the last byte.
End(d, surface) ==
    IF d.status # "parsing" THEN d
    ELSE LET e == IF d.sos # <<>> /\ ~d.eoi THEN Finish(d, surface, "but the last byte") ELSE d
         IN  IF e.status # "parsing" THEN e
             ELSE IF d.sos # <<>> \/ d.eoi THEN [e EXCEPT !.status = "success"] ELSE Fail(e)

\* The first marker of the buffer is SOI.
Decode(lasts, image, surface) ==
    End(FoldLeft(LAMBDA d, m : Marker(d, m, surface), NewParser(lasts), image), surface)

-----------------------------------------------------------------------------
(* The stream *)

DQT(tables, v)   == [kind |-> "DQT", tables |-> tables, version |-> v]
DHT(class, ts, v) == [kind |-> "DHT", class |-> class, tables |-> ts, version |-> v]
DRI(n)           == [kind |-> "DRI", interval |-> n]
SOF(size, base)  == [kind |-> "SOF", size |-> size, baseline |-> base]
SOS(components)  == [kind |-> "SOS", components |-> components]
EOI              == [kind |-> "EOI"]
SOI              == [kind |-> "SOI"]

QuantTables(v) ==
    {<<>>, <<DQT(Tables, v)>>, <<DQT({1}, v), DQT({0}, v)>>, <<DQT(Tables, 1), DQT({0}, v)>>}
    \union IF "some of the tables" \in Hard THEN {<<DQT({1}, v)>>} ELSE {}
HuffTables(v) ==
    {<<>>, <<DHT("dc", Tables, v), DHT("ac", Tables, v)>>,
     <<DHT("ac", {0}, v), DHT("dc", {0}, v), DHT("dc", {1}, v), DHT("ac", {1}, v)>>}
    \union IF "some of the tables" \in Hard THEN {<<DHT("dc", Tables, v)>>} ELSE {}
Scans ==
    {<<SOS(Tables)>>} \union IF "several scans" \in Hard THEN {<<SOS({0}), SOS({1})>>} ELSE {}
Ends ==
    {<<EOI>>} \union (IF "two images" \in Hard THEN {<<EOI, SOI>>} ELSE {})
              \union (IF "no EOI" \in Hard THEN {<<>>} ELSE {})

Images ==
    LET Image(q, h, v, size, s, e) ==
            q \o h \o (IF v = 3 THEN <<DRI(4)>> ELSE <<>>) \o <<SOF(size, TRUE)>> \o s \o e
    IN  UNION {{Image(q, h, v, size, s, e) : q \in QuantTables(v), h \in HuffTables(v), size \in 1..2,
                                             s \in Scans, e \in Ends} : v \in 2..3}

\* Images that break off before a scan, that have none, or are not baseline.
Broken ==
    LET whole == <<DQT(Tables, 2), DHT("dc", Tables, 2), DHT("ac", Tables, 2), SOF(1, TRUE)>>
        parts == {0, 1, 3, 4} \union IF "some of the tables" \in Hard THEN {2} ELSE {}
    IN  {SubSeq(whole, 1, n) : n \in parts}
        \union {Append(whole, EOI), <<SOF(1, FALSE), SOS(Tables), EOI>>, <<SOS(Tables), EOI>>,
                <<SOF(1, TRUE), SOF(1, TRUE)>>}

LastTables(kind, class, image, tables) ==
    LET Gives(m, t) == m.kind = kind /\ t \in m.tables /\ (kind = "DHT" => m.class = class)
    IN  [t \in Tables |-> FoldLeft(LAMBDA v, m : IF Gives(m, t) THEN m.version ELSE v, tables[t], image)]

DecodeImage ==
    \E image \in (IF sent.again # <<>> THEN {sent.again[1]} ELSE Images \union Broken), surface \in BOOLEAN :
        LET d == Decode(parser, image, surface)
        IN  /\ parser' = d.lasts
            /\ used' = <<[image |-> image, status |-> d.status, out |-> d.out]>>
            /\ sent' = [quant |-> LastTables("DQT", "", image, sent.quant),
                        dc |-> LastTables("DHT", "dc", image, sent.dc), ac |-> LastTables("DHT", "ac", image, sent.ac),
                        again |-> IF d.status \in {"format change", "no surface"} THEN <<image>> ELSE <<>>]

\* reset(): the client begins another stream.
Reset ==
    /\ sent.again = <<>>
    /\ parser' = [quant |-> Default, dc |-> Default, ac |-> Default, size |-> parser.size]
    /\ used' = <<>>
    /\ sent' = [quant |-> Default, dc |-> Default, ac |-> Default, again |-> <<>>]

Next == DecodeImage \/ Reset

Spec == Init /\ [][Next]_vars

-----------------------------------------------------------------------------
(* Properties *)

\* An image that is whole is decoded, or asked for again, once and with a status that says so: all of
\* its components and data, into a surface of its size, with the last tables of the stream.
ImagesAreTrue ==
    used # <<>> =>
        LET u     == used[1]
            scan  == UNION {m.components : m \in {n \in Range(u.image) : n.kind = "SOS"}}
            intervals == {m.interval : m \in {n \in Range(u.image) : n.kind = "DRI"}}
        IN  /\ (u.status = "success") = (u.out # <<>>)
            /\ u.image \notin Broken => u.status # "fail"
            /\ u.out # <<>> =>
                LET p == u.out[1]
                IN  /\ p.scan = scan /\ p.data = "whole" /\ p.surface = p.size
                    /\ {p.dri} = IF intervals = {} THEN {0} ELSE intervals
                    /\ p.quant = sent.quant
                    /\ \A c \in Tables : p.huffman[c] = <<sent.dc[c], sent.ac[c]>>
=============================================================================
