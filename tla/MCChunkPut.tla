----------------------------- MODULE MCChunkPut -----------------------------
(* Instances of ChunkPut for TLC. *)
EXTENDS ChunkPut, TLC

CONSTANTS p, q

TwoEach == [x \in {p, q} |-> 2]
TwoAndOne == p :> 2 @@ q :> 1
=============================================================================
