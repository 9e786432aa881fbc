---------------------------- MODULE VideoParsers ----------------------------
(***************************************************************************)
(* The parsers of codecparsers/ that keep state, each on small data: the   *)
(* readers of fields (bits of H.264 and H.265, booleans of VP8), the       *)
(* reference picture sets of H.265, and what outlives its picture: the     *)
(* headers of VP8 and VP9, the parameter sets of H.264 and H.265 and the   *)
(* tables of JPEG.  Only one part takes steps, the other variables keep    *)
(* the value Unused.                                                       *)
(***************************************************************************)
EXTENDS Integers, Sequences

CONSTANTS
    Parts,      \* the parts looked at, names of modules
    Hard        \* what is got wrong, a subset of the HardKinds of the modules

VARIABLES
    part,
    written, headers, splitter, whole, got,             \* BitStream
    data, bd, exact, read,                              \* Vp8BoolDecoder
    curr,                                               \* Vp8Parser
    used,                                               \* Vp8Parser, H264Parser, H265Parser, JpegDecoder
    parser,                                             \* Vp9Parser, H264Parser, H265Parser, H265RefPicSet, JpegDecoder
    sound,                                              \* Vp8Parser, Vp9Parser
    frames                                              \* the history of all of these

bitVars  == <<written, headers, splitter, whole, got>>
boolVars == <<data, bd, exact, read>>

Field(kind, bits, value) == [kind |-> kind, bits |-> bits, value |-> value]
FieldsValue ==
    {Field("u", 8, v) : v \in {0, 1, 3}}
    \union {Field("u", 3, 5), Field("ue", 0, 0), Field("ue", 0, 6), Field("se", 0, -2), Field("bytes", 0, <<0, 0>>)}

\* The first byte of the data is less than 255, as in all that a coder writes.
DataValue == {<<first>> \o rest : first \in {0, 90, 254}, rest \in UNION {[1..n -> {0, 90, 255}] : n \in 0..2}}

Bits  == INSTANCE BitStream WITH CacheBytes <- 2, Fields <- FieldsValue, MaxFields <- 3, Hard <- Hard
Bools == INSTANCE Vp8BoolDecoder WITH ValueBytes <- 2, Data <- DataValue, Probabilities <- {1, 128, 255},
             MaxReads <- 6
Vp8   == INSTANCE Vp8Parser WITH MaxFrames <- 3
Vp9   == INSTANCE Vp9Parser WITH Slots <- 1..2, Sizes <- 1..2, Hard <- Hard, MaxFrames <- 3
H264  == INSTANCE H264Parser WITH sent <- frames, Hard <- Hard
H265  == INSTANCE H265Parser WITH sent <- frames, Hard <- Hard
Rps   == INSTANCE H265RefPicSet WITH sent <- frames, Deltas <- {-3, -2, -1, 1, 2, 3}, MaxKept <- 2, MaxSets <- 3
Jpeg  == INSTANCE JpegDecoder WITH sent <- frames, Hard <- Hard

Unused == <<>>
BitsIdle  == /\ written = Unused /\ headers = Unused /\ splitter = Unused
             /\ whole = Unused /\ got = Unused
BoolsIdle == data = Unused /\ bd = Unused /\ exact = Unused /\ read = Unused
VpIdle    == curr = Unused /\ sound = Unused

Init ==
    /\ part \in Parts
    /\ \/ part = "BitStream" /\ Bits!Init /\ BoolsIdle /\ VpIdle
          /\ used = Unused /\ parser = Unused /\ frames = Unused
       \/ part = "Vp8BoolDecoder" /\ Bools!Init /\ BitsIdle /\ VpIdle
          /\ used = Unused /\ parser = Unused /\ frames = Unused
       \/ part = "Vp8Parser" /\ Vp8!Init /\ BitsIdle /\ BoolsIdle /\ parser = Unused
       \/ part = "Vp9Parser" /\ Vp9!Init /\ BitsIdle /\ BoolsIdle /\ curr = Unused /\ used = Unused
       \/ part = "H264Parser" /\ H264!Init /\ BitsIdle /\ BoolsIdle /\ VpIdle
       \/ part = "H265Parser" /\ H265!Init /\ BitsIdle /\ BoolsIdle /\ VpIdle
       \/ part = "H265RefPicSet" /\ Rps!Init /\ BitsIdle /\ BoolsIdle /\ VpIdle /\ used = Unused
       \/ part = "JpegDecoder" /\ Jpeg!Init /\ BitsIdle /\ BoolsIdle /\ VpIdle

Next ==
    \/ part = "BitStream" /\ Bits!Next /\ UNCHANGED <<part, boolVars, curr, used, parser, frames, sound>>
    \/ part = "Vp8BoolDecoder" /\ Bools!Next /\ UNCHANGED <<part, bitVars, curr, used, parser, frames, sound>>
    \/ part = "Vp8Parser" /\ Vp8!Next /\ UNCHANGED <<part, bitVars, boolVars, parser>>
    \/ part = "Vp9Parser" /\ Vp9!Next /\ UNCHANGED <<part, bitVars, boolVars, curr, used>>
    \/ part = "H264Parser" /\ H264!Next /\ UNCHANGED <<part, bitVars, boolVars, curr, sound>>
    \/ part = "H265Parser" /\ H265!Next /\ UNCHANGED <<part, bitVars, boolVars, curr, sound>>
    \/ part = "H265RefPicSet" /\ Rps!Next /\ UNCHANGED <<part, bitVars, boolVars, curr, used, sound>>
    \/ part = "JpegDecoder" /\ Jpeg!Next /\ UNCHANGED <<part, bitVars, boolVars, curr, sound>>

vars == <<part, bitVars, boolVars, curr, used, parser, frames, sound>>

Spec == Init /\ [][Next]_vars

-----------------------------------------------------------------------------
(* Properties *)

\* What is read is what was written: the fields of the parameter sets over caches, start codes and
\* emulation prevention, the booleans of VP8 wherever the window is filled again, and the reference
\* picture sets whether they are explicit or predicted.
FieldsAreExact ==
    /\ part = "BitStream"      => Bits!FieldsReadBack
    /\ part = "Vp8BoolDecoder" => Bools!BoolsAreExact
    /\ part = "H265RefPicSet"  => Rps!SetsReadBack

\* A frame is decoded with the values that the frames before it gave and that still count, although
\* some were parsed twice, broke off or came before a seek; a slice with the parameter sets of its ids,
\* the scaling lists made of them and, when it depends on one, the slice before it; an image of Motion
\* JPEG with the tables that the images before it left.
HeadersAreTrue ==
    /\ part = "Vp8Parser"  => Vp8!HeadersAreTrue
    /\ part = "Vp9Parser"  => Vp9!HeadersAreTrue
    /\ part = "H264Parser" => H264!HeadersAreTrue
    /\ part = "H265Parser" => H265!HeadersAreTrue
    /\ part = "JpegDecoder" => Jpeg!ImagesAreTrue
=============================================================================
