---------------------------- MODULE MCV4l2Codec ----------------------------
(* The instances of V4l2Codec that TLC explores. *)
EXTENDS V4l2Codec
=============================================================================
