---------------------------- MODULE MCRingWatch -----------------------------
(* Instances of RingWatch for TLC. *)
EXTENDS RingWatch
=============================================================================
