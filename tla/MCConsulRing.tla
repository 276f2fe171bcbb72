---------------------------- MODULE MCConsulRing ----------------------------
(* Instances of ConsulRing for TLC. *)
EXTENDS ConsulRing, TLC

IngesterSymmetry == Permutations(Ingesters)
=============================================================================
