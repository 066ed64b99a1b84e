------------------------- MODULE MCSomBlockCompiler -------------------------
(* SomBlockCompiler for TLC: methods with a few nested blocks and locals.   *)
EXTENDS SomBlockCompiler
=============================================================================
