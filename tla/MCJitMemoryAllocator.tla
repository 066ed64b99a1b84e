------------------------ MODULE MCJitMemoryAllocator ------------------------
(* Pages of three, two and one cells behind a one-granule header; ranges of  *)
(* two pages, so that a range is used up and a second one reserved.          *)
EXTENDS JitMemoryAllocator, TLC
MCSteppingArray == <<2, 3, 6>>
LargeSymmetry == Permutations(Large)
=============================================================================
