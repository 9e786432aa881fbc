--------------------------- MODULE MCVideoCodecs ---------------------------
(***************************************************************************)
(* The instances of VideoDecoders, VideoEncoders and VideoParsers that TLC *)
(* explores: a behaviour is that of one decoder, encoder or parser.        *)
(***************************************************************************)
EXTENDS Integers, Sequences

CONSTANTS DecoderMimes, EncoderMimes, Parts, KeptA, KeptB, KeptC, Hard

VARIABLES
    side,       \* what it is: "decoder", "encoder" or "parser"
    mime, refs, dec, special,
    dpb, prev, contextChanged, limits, pics, endOfSequence, irapNoRasl, prevMsb, prevLsb, refused,
    firstField, pred, client, hist, shown, cur, newStream, stream, accepted, mayDrop, lost,
    gop, list, dump, coded, done, enc, seen, net, cfg,
    part, written, headers, splitter, whole, got, data, bd, exact, read, curr, used, parser,
    frames, sound

Decoders == INSTANCE VideoDecoders WITH Mimes <- DecoderMimes
Encoders == INSTANCE VideoEncoders WITH Mimes <- EncoderMimes
Parsers  == INSTANCE VideoParsers

sharedVars  == <<mime, refs, dec, special>>
decoderVars == <<dpb, prev, contextChanged, limits, pics, endOfSequence, irapNoRasl, prevMsb, prevLsb,
                 refused, firstField, pred, client, hist, shown, cur, newStream, stream, accepted,
                 mayDrop, lost>>
encoderVars == <<gop, list, dump, coded, done, enc, seen, net, cfg>>
parserVars  == <<part, written, headers, splitter, whole, got, data, bd, exact, read, curr,
                 used, parser, frames, sound>>

SharedIdle == mime = <<>> /\ refs = <<>> /\ dec = <<>> /\ special = <<>>
DecoderIdle ==
    /\ dpb = <<>> /\ prev = <<>> /\ contextChanged = <<>>
    /\ limits = <<>> /\ pics = <<>> /\ endOfSequence = <<>> /\ irapNoRasl = <<>>
    /\ prevMsb = <<>> /\ prevLsb = <<>> /\ refused = <<>>
    /\ firstField = <<>> /\ pred = <<>> /\ client = <<>> /\ hist = <<>>
    /\ shown = <<>> /\ cur = <<>> /\ newStream = <<>> /\ stream = <<>>
    /\ accepted = <<>> /\ mayDrop = <<>> /\ lost = <<>>
EncoderIdle ==
    /\ gop = <<>> /\ list = <<>> /\ dump = <<>> /\ coded = <<>> /\ done = <<>>
    /\ enc = <<>> /\ seen = <<>> /\ net = <<>> /\ cfg = <<>>
ParserIdle ==
    /\ part = <<>> /\ written = <<>> /\ headers = <<>> /\ splitter = <<>>
    /\ whole = <<>> /\ got = <<>> /\ data = <<>> /\ bd = <<>> /\ exact = <<>> /\ read = <<>>
    /\ curr = <<>> /\ used = <<>> /\ parser = <<>> /\ frames = <<>> /\ sound = <<>>

Init == \/ side = "decoder" /\ Decoders!Init /\ EncoderIdle /\ ParserIdle
        \/ side = "encoder" /\ Encoders!Init /\ DecoderIdle /\ ParserIdle
        \/ side = "parser" /\ Parsers!Init /\ SharedIdle /\ DecoderIdle /\ EncoderIdle

Decode == side = "decoder" /\ Decoders!Next /\ UNCHANGED <<side, encoderVars, parserVars>>
Encode == side = "encoder" /\ Encoders!Next /\ UNCHANGED <<side, decoderVars, parserVars>>
Parse  == side = "parser" /\ Parsers!Next /\ UNCHANGED <<side, sharedVars, decoderVars, encoderVars>>
Next == Decode \/ Encode \/ Parse

Spec == Init /\ [][Next]_<<side, sharedVars, decoderVars, encoderVars, parserVars>>

\* The properties of VideoDecoders, VideoEncoders and VideoParsers.
OutputInOrder     == side = "decoder" => Decoders!OutputInOrder
NoPictureLost     == side = "decoder" => Decoders!NoPictureLost
ReferencesAreTrue == side = "decoder" => Decoders!ReferencesAreTrue
MarkingIsStandard == side = "decoder" => Decoders!MarkingIsStandard
SizeWasTold       == side = "decoder" => Decoders!SizeWasTold
SameReferences    == side = "encoder" => Encoders!SameReferences
EncodedInOrder    == side = "encoder" => Encoders!EncodedInOrder
ListsAreUsable    == side = "encoder" => Encoders!ListsAreUsable
FieldsAreExact    == side = "parser" => Parsers!FieldsAreExact
HeadersAreTrue    == side = "parser" => Parsers!HeadersAreTrue
=============================================================================
