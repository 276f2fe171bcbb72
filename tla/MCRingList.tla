----------------------------- MODULE MCRingList -----------------------------
(* Instances of RingList for TLC. *)
EXTENDS RingList

IngesterSymmetry == Permutations(Ingesters)
=============================================================================
