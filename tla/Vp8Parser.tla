----------------------------- MODULE Vp8Parser -----------------------------
(***************************************************************************)
(* codecparsers/vp8_parser.cpp: the headers that ParseFrame() keeps from   *)
(* one frame for the next ones (segments, deltas of the loop filter, and   *)
(* the probabilities, which a frame may use for itself only), and what the *)
(* frame is decoded with.  Entries of one table are alike: one or two      *)
(* stand for all.                                                          *)
(***************************************************************************)
EXTENDS Integers, SequencesExt, FiniteSetsExt

CONSTANT MaxFrames       \* bound: frames since a key frame

VARIABLES
    curr,       \* what persists: curr_segmentation_hdr_, curr_loopfilter_hdr_, curr_entropy_hdr_
    used,       \* the header of the last frame, <<>> when its parsing failed
    frames,     \* history: the frames parsed to the end since the last key frame
    sound       \* history: there was a key frame, and every frame since was parsed to the end

vars == <<curr, used, frames, sound>>

Segments == 1..2
Deltas   == {"intra", "last"}
Tables   == {"coeff", "mv", "y_mode", "uv_mode"}
NoSegmentation == [enabled |-> FALSE, values |-> [i \in Segments |-> 0], abs |-> FALSE, prob |-> 0]
NoDeltas       == [k \in Deltas |-> 0]
DefaultProbs   == [t \in Tables |-> "default"]

Init ==
    /\ curr = [seg |-> NoSegmentation, deltas |-> NoDeltas, probs |-> [t \in Tables |-> "zero"]]
    /\ used = <<>> /\ frames = <<>> /\ sound = FALSE

-----------------------------------------------------------------------------
(* A frame f, on what persists c *)

\* Fault: values that a frame does not give are those of before.
SegmentationKeepsValues(c, f) ==
    LET old == IF f.key THEN NoSegmentation ELSE c.seg
    IN  [c EXCEPT !.seg =
            IF ~f.enabled THEN [old EXCEPT !.enabled = FALSE]
            ELSE [enabled |-> TRUE,
                  values |-> IF f.values = <<>> THEN old.values
                             ELSE [i \in Segments |-> IF i \in DOMAIN f.values[1] THEN f.values[1][i] ELSE old.values[i]],
                  abs |-> IF f.values = <<>> THEN old.abs ELSE f.abs,
                  prob |-> IF f.map = <<>> THEN old.prob ELSE f.map[1]]]

\* Values and probabilities that a frame which gives some does not give are 0 and 255.
ParseSegmentationHeader(c, f) ==
    LET old == IF f.key THEN NoSegmentation ELSE c.seg
    IN  [c EXCEPT !.seg =
            IF ~f.enabled THEN [old EXCEPT !.enabled = FALSE]
            ELSE [enabled |-> TRUE,
                  values |-> IF f.values = <<>> THEN old.values
                             ELSE [i \in Segments |-> IF i \in DOMAIN f.values[1] THEN f.values[1][i] ELSE 0],
                  abs |-> IF f.values = <<>> THEN old.abs ELSE f.abs,
                  prob |-> IF f.map = <<>> THEN old.prob ELSE f.map[1]]]

ParseLoopFilterHeader(c, f) ==
    LET old == IF f.key THEN NoDeltas ELSE c.deltas
    IN  [c EXCEPT !.deltas = [k \in Deltas |-> IF f.adjust /\ k \in DOMAIN f.deltas THEN f.deltas[k] ELSE old[k]]]

ResetProbs(c, f) == IF f.key THEN [c EXCEPT !.probs = DefaultProbs] ELSE c

\* ParseTokenProbs(), ParseIntraProbs() and ParseMVProbs(): the probabilities of the frame.
Probs(c, f) ==
    [t \in Tables |-> IF f.key /\ t \in {"y_mode", "uv_mode"} THEN "key frame"
                      ELSE IF t \in DOMAIN f.probs THEN f.probs[t] ELSE c.probs[t]]

\* Fault: what a frame changes is kept.
ProbsAlwaysKept(c, f) == [c EXCEPT !.probs = [t \in Tables |-> IF t \in DOMAIN f.probs THEN f.probs[t] ELSE @[t]]]

\* With refresh_entropy_probs they are those of the next frames too.
ProbsKept(c, f) ==
    [c EXCEPT !.probs = [t \in Tables |-> IF f.refresh /\ t \in DOMAIN f.probs THEN f.probs[t] ELSE @[t]]]

Headers(c, f) == ResetProbs(ParseLoopFilterHeader(ParseSegmentationHeader(c, f), f), f)

Header(c, f) == [seg |-> c.seg, deltas |-> c.deltas, probs |-> Probs(c, f)]

Clamp(x) == IF x < 0 THEN 0 ELSE IF x > 63 THEN 63 ELSE x

\* fillPictureParam() of decoder/vaapidecoder_vp8.cpp: the level of each segment.
LoopFilterLevel(h, level) ==
    [i \in Segments |-> Clamp(IF ~h.seg.enabled THEN level
                              ELSE IF h.seg.abs THEN h.seg.values[i] ELSE h.seg.values[i] + level)]

-----------------------------------------------------------------------------
(* The stream *)

\* A frame with nothing of its own.
Plain(key) == [key |-> key, enabled |-> FALSE, values |-> <<>>, abs |-> FALSE, map |-> <<>>, level |-> 20,
               adjust |-> FALSE, deltas |-> <<>>, probs |-> <<>>, refresh |-> TRUE]

\* Tables with one entry.
One(keys, value) == UNION {[{k} -> {value}] : k \in keys}

Own(key) ==
    LET f == Plain(key)
    IN  {f, [f EXCEPT !.enabled = TRUE, !.level = 50], [f EXCEPT !.enabled = TRUE, !.map = <<255>>],
         [f EXCEPT !.enabled = TRUE, !.map = <<7>>], [f EXCEPT !.adjust = TRUE]}
        \union {[f EXCEPT !.enabled = TRUE, !.values = <<x[1]>>, !.abs = x[2]] : x \in One(Segments, 30) \X BOOLEAN}
        \union {[f EXCEPT !.adjust = TRUE, !.deltas = d] : d \in One(Deltas, 5)}
        \union {[f EXCEPT !.probs = x[1], !.refresh = x[2]] :
                    x \in One(IF key THEN {"coeff"} ELSE Tables, "new") \X BOOLEAN}

\* ParseFrame() to the end.
Parse ==
    /\ \E f \in Own(TRUE) \union (IF sound THEN Own(FALSE) ELSE {Plain(FALSE)}) :
          /\ f.key \/ Len(frames) < MaxFrames
          /\ used' = Header(Headers(curr, f), f)
          /\ curr' = ProbsKept(Headers(curr, f), f)
          /\ frames' = IF f.key THEN <<f>> ELSE Append(frames, f)
          /\ sound' = (sound \/ f.key)

\* The data ends in one of the headers: what was read of it stays.
ParseBreaksOff ==
    /\ \E f \in {Plain(TRUE)} \union Own(FALSE) :
          curr' \in {curr, ParseSegmentationHeader(curr, f), ParseLoopFilterHeader(ParseSegmentationHeader(curr, f), f),
                     Headers(curr, f)}
    /\ used' = <<>> /\ frames' = <<>> /\ sound' = FALSE

\* The client sends a buffer again for want of a surface, and it is parsed again.
ParseAgain ==
    /\ frames # <<>>
    /\ \E f \in {Last(frames)} :
          used' = Header(Headers(curr, f), f) /\ curr' = ProbsKept(Headers(curr, f), f)
    /\ UNCHANGED <<frames, sound>>

Next == Parse \/ ParseBreaksOff \/ ParseAgain

Spec == Init /\ [][Next]_vars

-----------------------------------------------------------------------------
(* Properties *)

LastOf(s) == Max(s \union {0})

\* A frame is decoded with what the frames since the last key frame say, read backwards: a value
\* counts if the frame itself or a frame before gave it, a probability of a frame before only if
\* that frame said that it stays.  Sending a buffer again changes nothing: ParseFrameHeader().
HeadersAreTrue ==
    (sound /\ used # <<>>) =>
        LET n        == Len(frames)
            f        == frames[n]
            valued   == LastOf({i \in 1..n : frames[i].enabled /\ frames[i].values # <<>>})
            mapped   == LastOf({i \in 1..n : frames[i].enabled /\ frames[i].map # <<>>})
            given(k) == LastOf({i \in 1..n : frames[i].adjust /\ k \in DOMAIN frames[i].deltas})
            prob(t)  == LastOf({i \in 1..n : t \in DOMAIN frames[i].probs /\ (i = n \/ frames[i].refresh)})
            value(i) == IF valued # 0 /\ i \in DOMAIN frames[valued].values[1] THEN frames[valued].values[1][i] ELSE 0
        IN  /\ used.seg.prob = IF mapped = 0 THEN 0 ELSE frames[mapped].map[1]
            /\ \A k \in Deltas : used.deltas[k] = IF given(k) = 0 THEN 0 ELSE frames[given(k)].deltas[k]
            /\ \A t \in Tables : used.probs[t] =
                   IF f.key /\ t \in {"y_mode", "uv_mode"} THEN "key frame"
                   ELSE IF prob(t) = 0 THEN "default" ELSE frames[prob(t)].probs[t]
            /\ \A i \in Segments : LoopFilterLevel(used, f.level)[i] =
                   Clamp(IF ~f.enabled THEN f.level
                         ELSE IF valued # 0 /\ frames[valued].abs THEN value(i) ELSE f.level + value(i))
=============================================================================
