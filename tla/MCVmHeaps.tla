----------------------------- MODULE MCVmHeaps -----------------------------
(* Regions of a few granules, small enough for both to be exhausted. *)
EXTENDS VmHeaps
=============================================================================
