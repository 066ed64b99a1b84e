------------------------- MODULE MCSpdsPageAllocator -------------------------
(* The execution thread and compiler threads that use temporary arenas. *)
EXTENDS SpdsPageAllocator, TLC
ArenaSymmetry == Permutations(Arenas)
=============================================================================
