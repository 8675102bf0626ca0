--------------------------- MODULE MCMemoryState ---------------------------
(* Instances of MemoryState for TLC. *)
EXTENDS MemoryState, TLC

CONSTANTS a1, a2

Interchangeable == Permutations(Actors)
=============================================================================
