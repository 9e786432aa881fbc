----------------------------- MODULE MCV4l2Poll -----------------------------
(* The instances of V4l2Poll that TLC explores. *)
EXTENDS V4l2Poll
=============================================================================
