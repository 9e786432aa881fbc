----------------------------- MODULE Vp9Parser -----------------------------
(***************************************************************************)
(* codecparsers/vp9parser.cpp: what vp9_parse_frame_header() keeps from    *)
(* one frame for the next ones (sizes of the references, deltas of the     *)
(* loop filter, dequantizers, features of a segment), and what it tells    *)
(* the decoder about the frame.  The segments are alike: one stands for    *)
(* all.  A table of the quantizer is known by the depth and the delta it   *)
(* was computed for.                                                       *)
(***************************************************************************)
EXTENDS Integers, SequencesExt, FiniteSetsExt

CONSTANTS
    Slots,          \* the reference slots, 1..VP9_REF_FRAMES
    Sizes,          \* sizes of frames, numbers above 0
    Hard,           \* a subset of HardKinds
    MaxFrames       \* bound: frames since a key frame

HardKinds == {"super frame again"}

VARIABLES
    parser,     \* Vp9Parser and its private data
    frames,     \* history: the frames parsed to the end since the last key frame
    sound       \* history: there was a key frame, and no frame broke off after a reset

vars == <<parser, frames, sound>>

Deltas == {"intra", "golden", "mode"}
DefaultDeltas == [k \in Deltas |-> CASE k = "intra" -> 1 [] k = "golden" -> -1 [] OTHER -> 0]
NoFeatures == [abs |-> FALSE, q |-> 0, lf |-> 0, ref |-> 0]     \* 0: not enabled

\* Sizes are 0 and tables those of no delta, as after init_vp9_parser().
Cleared(depth) ==
    [depth |-> depth, color |-> 0, deltas |-> [k \in Deltas |-> 0], deltaQ |-> 0,
     dequant |-> [depth |-> depth, delta |-> 0], lossless |-> FALSE, features |-> NoFeatures,
     map |-> 0, size |-> [s \in Slots |-> 0], seg |-> <<>>, frameSize |-> 0]

\* vp9_parser_new() does not initialize what it allocates.
Allocated ==
    {Cleared(8), [Cleared(10) EXCEPT !.deltas = [k \in Deltas |-> 63], !.deltaQ = 1, !.map = 1,
                                     !.size = [s \in Slots |-> 1]]}

Init == parser \in Allocated /\ frames = <<>> /\ sound = FALSE

-----------------------------------------------------------------------------
(* A frame f, on parser p *)

KeyOrIntraOnly(f) == f.kind \in {"key", "intra"}

\* read_frame_size() and read_frame_size_from_refs()
SizeOf(p, f) == IF f.fromSlot = 0 THEN f.size ELSE p.size[f.fromSlot]

\* Fault: an intra-only frame of another depth keeps the tables.
BeginKeepTables(p, f) ==
    IF f.kind = "key" THEN Cleared(f.depth)
    ELSE IF f.kind = "intra" THEN [p EXCEPT !.depth = f.depth] ELSE p

\* What the header resets before it is read to the end.
Begin(p, f) ==
    IF f.kind = "key" THEN Cleared(f.depth)
    ELSE IF f.kind = "intra" /\ f.depth # p.depth
    THEN [p EXCEPT !.depth = f.depth, !.dequant = [depth |-> f.depth, delta |-> p.deltaQ]]
    ELSE p

SetupPastIndependence(p, f) ==
    IF KeyOrIntraOnly(f) \/ f.resilient
    THEN [p EXCEPT !.deltas = DefaultDeltas, !.features = NoFeatures]
    ELSE p

ColorConfigUpdate(p, f) == IF KeyOrIntraOnly(f) THEN [p EXCEPT !.color = f.depth] ELSE p

LoopFilterUpdate(p, f) ==
    [p EXCEPT !.deltas = [k \in Deltas |-> IF k \in DOMAIN f.deltas THEN f.deltas[k] ELSE @[k]]]

QuantizationUpdate(p, f) ==
    [p EXCEPT !.deltaQ = f.deltaQ,
              !.dequant = IF f.deltaQ = p.deltaQ THEN @ ELSE [depth |-> p.depth, delta |-> f.deltaQ],
              !.lossless = f.baseQ = 0 /\ f.deltaQ = 0]

SegmentationSave(p, f) ==
    [p EXCEPT !.map = IF f.enabled /\ f.map # 0 THEN f.map ELSE @,
              !.features = IF f.enabled /\ f.features # <<>> THEN f.features[1] ELSE @]

Clamp(x, high) == IF x < 0 THEN 0 ELSE IF x > high THEN high ELSE x

\* seg_get_base_qindex() and seg_get_filter_level()
OfSegment(base, feature, p, f, high) ==
    Clamp(IF ~f.enabled \/ feature = 0 THEN base ELSE IF p.features.abs THEN feature ELSE base + feature, high)

\* The levels of intra blocks and of those predicted from golden, in the first mode.
FilterLevels(level, p, f) ==
    LET scale == IF f.level >= 32 THEN 2 ELSE 1
    IN  IF ~f.deltaEnabled THEN <<level, level>>
        ELSE <<Clamp(level + p.deltas["intra"] * scale, 63),
               Clamp(level + (p.deltas["golden"] + p.deltas["mode"]) * scale, 63)>>

\* segmentation_update(), with the features saved: a level of 0 leaves the levels there were.
SegmentationUpdate(p, f) ==
    [p EXCEPT !.seg = [q |-> OfSegment(f.baseQ, p.features.q, p, f, 255), dequant |-> p.dequant,
                       levels |-> IF f.level = 0 THEN <<>>
                                  ELSE FilterLevels(OfSegment(f.level, p.features.lf, p, f, 63), p, f),
                       ref |-> p.features.ref]]

ReferenceUpdate(p, f, size) ==
    [p EXCEPT !.size = [s \in Slots |-> IF f.kind = "key" \/ s \in f.refresh THEN size ELSE @[s]],
              !.frameSize = size]

\* Fault: the deltas of the frame are taken before the defaults are set.
UpdateThenSetup(p, f) ==
    ReferenceUpdate(SegmentationUpdate(SegmentationSave(QuantizationUpdate(
        SetupPastIndependence(LoopFilterUpdate(ColorConfigUpdate(p, f), f), f), f), f), f),
        f, SizeOf(p, f))

\* vp9_parser_update()
Update(p, f) ==
    ReferenceUpdate(SegmentationUpdate(SegmentationSave(QuantizationUpdate(
        LoopFilterUpdate(ColorConfigUpdate(SetupPastIndependence(p, f), f), f), f), f), f),
        f, SizeOf(p, f))

-----------------------------------------------------------------------------
(* The stream *)

\* A frame with nothing of its own.
Plain(kind) ==
    [kind |-> kind, resilient |-> FALSE, depth |-> 8, refresh |-> {}, fromSlot |-> 0, size |-> 1,
     deltaEnabled |-> TRUE, deltas |-> <<>>, baseQ |-> 0, deltaQ |-> 0, level |-> 20,
     enabled |-> FALSE, map |-> 0, features |-> <<>>]

Features == {[abs |-> TRUE, q |-> -1, lf |-> 30, ref |-> 0], [abs |-> FALSE, q |-> 100, lf |-> 30, ref |-> 2]}

\* Tables with one entry.
One(keys, value) == UNION {[{k} -> {value}] : k \in keys}

\* Frames with one thing of their own, or two that meet.
Special(f) ==
    {[f EXCEPT !.deltas = d, !.level = 40] : d \in One(Deltas, 5)}
    \union {[f EXCEPT !.deltas = d] : d \in One({"golden"}, -9)}
    \union {[f EXCEPT !.deltaQ = 2], [f EXCEPT !.level = 0],
            [f EXCEPT !.deltaEnabled = FALSE], [f EXCEPT !.enabled = TRUE, !.baseQ = 200],
            [f EXCEPT !.enabled = TRUE, !.map = 7]}
    \union {[f EXCEPT !.enabled = TRUE, !.features = <<x>>, !.baseQ = 200] : x \in Features}

KeyFrames   == {[Plain("key") EXCEPT !.depth = x[1], !.size = x[2]] : x \in {8, 10} \X Sizes}
IntraFrames == {[Plain("intra") EXCEPT !.depth = depth, !.refresh = {1}, !.size = 2] : depth \in {8, 10}}
InterFrames ==
    {[Plain("inter") EXCEPT !.refresh = x[1], !.fromSlot = x[2], !.size = 2] :
        x \in {{}, {1}, Slots} \X (Slots \union {0})}
KeyVariants   == KeyFrames \union Special(Plain("key"))
InterVariants == IntraFrames \union InterFrames \union Special(Plain("inter"))
                 \union {[f EXCEPT !.resilient = TRUE] : f \in Special(Plain("inter"))}

\* The last position in a set, 0 if there is none.
LastOf(s) == Max(s \union {0})

\* The last of the frames that wrote slot s.
Writer(s) == LastOf({i \in 1..Len(frames) : frames[i].kind = "key" \/ s \in frames[i].refresh})

\* A frame with the size that it takes from a slot, as the frames before it gave it: the history
\* knows it, the parser does not look at it.
Sized(f) == [f EXCEPT !.size = IF f.fromSlot = 0 THEN @ ELSE frames[Writer(f.fromSlot)].size]

ParseKey ==
    /\ \E f \in KeyVariants : parser' = Update(Begin(parser, f), f) /\ frames' = <<f>>
    /\ sound' = TRUE

\* Frames before a key frame are parsed too, and then refused.
Parse ==
    /\ Len(frames) < MaxFrames
    /\ \E f \in {Sized(g) : g \in IF sound THEN InterVariants ELSE {Plain("inter")}} :
          parser' = Update(Begin(parser, f), f) /\ frames' = Append(frames, f)
    /\ UNCHANGED sound

\* A header that ends with an error, such as a first partition of size 0: after a key frame, or
\* an intra-only one of another depth, what the parser kept is gone.
ParseFails ==
    /\ \E f \in {Plain("inter")} \union IntraFrames \union KeyFrames :
          /\ parser' = Begin(parser, f)
          /\ sound' = (sound /\ parser' = parser)
    /\ frames' = IF sound' THEN frames ELSE <<>>

\* The client sends a buffer again after a change of format or for want of a surface:
\* decode() parses its frames again, which are several in a super frame.
ParseAgain ==
    /\ \E n \in 1..(IF "super frame again" \in Hard THEN 2 ELSE 1) :
          /\ n <= Len(frames)
          /\ parser' = Update(Begin(parser, frames[Len(frames) - n + 1]), frames[Len(frames) - n + 1])
          /\ frames' = SubSeq(frames, 1, Len(frames) - n + 1)
    /\ UNCHANGED sound

\* flush() of the decoder makes a new parser.
Flush == parser' \in Allocated /\ frames' = <<>> /\ sound' = FALSE

Next == ParseKey \/ Parse \/ ParseFails \/ ParseAgain \/ Flush

Spec == Init /\ [][Next]_vars

-----------------------------------------------------------------------------
(* Properties *)

\* What the last frame is decoded with is what the frames say, read backwards: the value that
\* was given last since the last frame that resets it.  Whatever a frame that failed, a frame
\* parsed twice or the parser of before a seek has left: vp9_parse_frame_header().
HeadersAreTrue ==
    (sound /\ frames # <<>>) =>
        LET n        == Len(frames)
            f        == frames[n]
            intra    == LastOf({i \in 1..n : KeyOrIntraOnly(frames[i])})
            reset    == LastOf({i \in 1..n : KeyOrIntraOnly(frames[i]) \/ frames[i].resilient})
            given(k) == LastOf({i \in reset..n : k \in DOMAIN frames[i].deltas})
            delta(k) == IF given(k) = 0 THEN DefaultDeltas[k] ELSE frames[given(k)].deltas[k]
            saved    == LastOf({i \in reset..n : frames[i].enabled /\ frames[i].features # <<>>})
            feature  == IF saved = 0 THEN NoFeatures ELSE frames[saved].features[1]
            mapped   == LastOf({i \in 1..n : frames[i].enabled /\ frames[i].map # 0})
            base     == IF f.enabled /\ feature.lf # 0 THEN IF feature.abs THEN feature.lf ELSE f.level + feature.lf
                        ELSE f.level
            scale    == 1 + (f.level \div 32)
        IN  /\ parser.depth = frames[intra].depth /\ parser.color = parser.depth
            /\ parser.frameSize = f.size /\ \A s \in Slots : parser.size[s] = frames[Writer(s)].size
            /\ parser.seg.dequant = [depth |-> frames[intra].depth, delta |-> f.deltaQ]
            /\ parser.lossless = (f.baseQ = 0 /\ f.deltaQ = 0)
            /\ parser.map = IF mapped = 0 THEN 0 ELSE frames[mapped].map
            /\ parser.seg.ref = feature.ref
            /\ parser.seg.q = IF ~f.enabled \/ feature.q = 0 THEN f.baseQ
                              ELSE IF feature.abs THEN Clamp(feature.q, 255) ELSE Clamp(f.baseQ + feature.q, 255)
            /\ f.level # 0 => parser.seg.levels =
                   IF f.deltaEnabled
                   THEN <<Clamp(Clamp(base, 63) + delta("intra") * scale, 63),
                          Clamp(Clamp(base, 63) + (delta("golden") + delta("mode")) * scale, 63)>>
                   ELSE <<Clamp(base, 63), Clamp(base, 63)>>
=============================================================================
