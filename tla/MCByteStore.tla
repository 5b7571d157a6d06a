------------------------------ MODULE MCByteStore ------------------------------
(* A photo of two chunks and the empty file the startup probe writes. *)
EXTENDS ByteStore, TLC

CONSTANTS photo, nothing

MCChunksOf == photo :> 2 @@ nothing :> 0
MCCallersAlike == Permutations(Callers)
=============================================================================
