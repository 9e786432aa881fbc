------------------------------ MODULE MCThread ------------------------------
(* The instances of Thread that TLC explores; the configurations give the values. *)
EXTENDS Thread
=============================================================================
