--------------------------- MODULE MCV4l2Decoder ---------------------------
(* The instances of V4l2Decoder that TLC explores. *)
EXTENDS V4l2Decoder
=============================================================================
