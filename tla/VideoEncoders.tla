--------------------------- MODULE VideoEncoders ---------------------------
(***************************************************************************)
(* The encoders that encoder/vaapiencoder_host.cpp creates, each on small  *)
(* parameters and with the decoder of the library at the other end:        *)
(* createVideoEncoder() picks one by the MIME type, and only that one      *)
(* takes steps.  Variables are shared by the encoders that have one of     *)
(* that name; those of the other encoders keep the value Unused.           *)
(***************************************************************************)
EXTENDS Integers, Sequences

CONSTANTS
    Mimes,      \* the MIME types asked for
    KeptA, KeptB, KeptC,    \* numbers of frames that an H.264 sequence makes the decoder keep
    Hard        \* what the encoders get wrong, a subset of their HardKinds

VARIABLES
    mime,
    gop, list, dump, refs, coded, done,     \* H264Encoder, HevcEncoder
    enc, seen,                              \* Vp8Codec, Vp9Encoder
    net,                                    \* Vp8Codec
    cfg, dec, special

listVars == <<gop, list, dump, refs, coded, done>>
vpVars   == <<enc, seen>>

AvcConfig(intra, idr, numB, n, ids, keep) ==
    [intra |-> intra, idr |-> idr, numB |-> numB, refs |-> n, ids |-> ids, keep |-> keep]
AvcConfigs ==
    {AvcConfig(8, 1, 0, n, <<0>>, 0) : n \in 1..3}
    \union {AvcConfig(intra, 2, numB, 1, <<0>>, 0) : intra \in 4..5, numB \in 1..2}
    \union {AvcConfig(8, 1, 0, n, <<0, 1>>, keep) : n \in 1..2, keep \in 0..1}
    \union {AvcConfig(8, 1, 0, 1, <<0, 2, 1, 2>>, keep) : keep \in 0..2}
HevcConfigs == [intra : 4..6, idr : 1..2, numB : 0..2, refs : 1..2]
Vp8Configs ==
    [ids : {<<0, 2, 1, 2>>}, svct : {TRUE}, target : 0..3, dropped : {{}, {2}}]
    \union [ids : {<<0, 1, 0, 1>>}, svct : {TRUE}, target : 0..1, dropped : {{}}]
    \union [ids : {<<0>>}, svct : {FALSE}, target : {0}, dropped : {{}}]
Vp9Configs == [period : {5}, mode : 0..1]

AvcA == INSTANCE H264Encoder WITH NumRefFrames <- KeptA, MaxDecFrameBuffering <- KeptA, MaxFrameNum <- 16,
            MaxPocLsb <- 32, OffsetForRefFrame <- <<>>, OffsetForNonRef <- 0, Configs <- AvcConfigs,
            Hard <- Hard, MaxFrames <- 10, MaxSpecial <- 2
AvcB == INSTANCE H264Encoder WITH NumRefFrames <- KeptB, MaxDecFrameBuffering <- KeptB, MaxFrameNum <- 16,
            MaxPocLsb <- 32, OffsetForRefFrame <- <<>>, OffsetForNonRef <- 0, Configs <- AvcConfigs,
            Hard <- Hard, MaxFrames <- 10, MaxSpecial <- 2
AvcC == INSTANCE H264Encoder WITH NumRefFrames <- KeptC, MaxDecFrameBuffering <- KeptC, MaxFrameNum <- 16,
            MaxPocLsb <- 32, OffsetForRefFrame <- <<>>, OffsetForNonRef <- 0, Configs <- AvcConfigs,
            Hard <- Hard, MaxFrames <- 10, MaxSpecial <- 2
Hevc == INSTANCE HevcEncoder WITH Configs <- HevcConfigs, Hard <- Hard, MaxFrames <- 12, MaxSpecial <- 2
Vp8  == INSTANCE Vp8Codec WITH Configs <- Vp8Configs, KeyPeriod <- 6, Hard <- Hard, MaxFrames <- 9,
            MaxSpecial <- 3
Vp9  == INSTANCE Vp9Encoder WITH Configs <- Vp9Configs, Hard <- Hard, MaxFrames <- 8, MaxSpecial <- 3

Unused == <<>>
ListIdle == /\ gop = Unused /\ list = Unused /\ dump = Unused /\ refs = Unused
            /\ coded = Unused /\ done = Unused
VpIdle   == enc = Unused /\ seen = Unused /\ net = Unused

\* max_num_ref_frames of the H.264 sequence, from cfg.
Keeps(n) == cfg \in {c \in AvcConfigs : AvcA!MaxRefFrames(c) = n}

Init ==
    /\ mime \in Mimes
    /\ \/ mime = "h264" /\ (AvcA!Init \/ AvcB!Init \/ AvcC!Init) /\ VpIdle
       \/ mime = "h265" /\ Hevc!Init /\ VpIdle
       \/ mime = "vp8"  /\ Vp8!Init /\ ListIdle
       \/ mime = "vp9"  /\ Vp9!Init /\ ListIdle /\ net = Unused

Next ==
    \/ /\ mime = "h264"
       /\ (Keeps(KeptA) /\ AvcA!Next) \/ (Keeps(KeptB) /\ AvcB!Next) \/ (Keeps(KeptC) /\ AvcC!Next)
       /\ UNCHANGED <<mime, vpVars, net>>
    \/ mime = "h265" /\ Hevc!Next /\ UNCHANGED <<mime, vpVars, net>>
    \/ mime = "vp8"  /\ Vp8!Next /\ UNCHANGED <<mime, listVars>>
    \/ mime = "vp9"  /\ Vp9!Next /\ UNCHANGED <<mime, listVars, net>>

vars == <<mime, listVars, vpVars, net, cfg, dec, special>>

Spec == Init /\ [][Next]_vars

-----------------------------------------------------------------------------
(* Properties *)

\* A frame is decoded with the references it was encoded with: what the code of the
\* encoder and that of the decoder, which share no state, make of the same headers,
\* over reordering, forced key frames, flushes, refused frames and dropped layers.
SameReferences ==
    /\ mime = "h264" => AvcA!SameReferences /\ AvcB!SameReferences /\ AvcC!SameReferences
    /\ mime = "h265" => Hevc!SameReferences
    /\ mime = "vp8"  => Vp8!SameReferences
    /\ mime = "vp9"  => Vp9!SameReferences

\* Every frame is encoded once, and what reordering, frame numbers and order counts
\* make of it comes out of the decoder in the order of input.
EncodedInOrder ==
    /\ mime = "h264" => AvcA!OutputInOrder /\ AvcB!OutputInOrder /\ AvcC!OutputInOrder
    /\ mime = "h265" => Hevc!OutputInOrder

\* What reorder() promises to pictureReferenceListSet() and addSliceHeaders(): a P or
\* B frame has a picture before it to refer to, a P frame none after it.
ListsAreUsable ==
    /\ mime = "h264" => AvcA!ListsAreUsable /\ AvcB!ListsAreUsable /\ AvcC!ListsAreUsable
    /\ mime = "h265" => Hevc!ListsAreUsable
=============================================================================
