---------------------------- MODULE CallDispatch ----------------------------
(***************************************************************************)
(* What the call machinery promises, whatever caches are in front of it: a *)
(* call of FunctionObject f enters the current best entry point of its     *)
(* ExecutableCode - the baseline code of a CodeBlock that has tiered up,   *)
(* the interpreter (or the C function itself) otherwise - and a CodeBlock  *)
(* tiers up at most once.                                                  *)
(***************************************************************************)
CONSTANTS Fn, Bytecode, ExecOf, InterpEntry, BaselineEntry, NoCall

VARIABLES
    compiled,   \* CodeBlocks that have tiered up
    lastCall    \* the last call made: what was called, where it jumped

EntryPointOf(c) == IF c \in compiled THEN BaselineEntry[c] ELSE InterpEntry[c]

Init ==
    /\ compiled \in {{}, Bytecode}
    /\ lastCall = NoCall

Call(f) ==
    /\ lastCall' = [fn |-> f, ptr |-> EntryPointOf(ExecOf[f])]
    /\ UNCHANGED compiled

TierUp(c) ==
    /\ c \notin compiled
    /\ compiled' = compiled \cup {c}
    /\ UNCHANGED lastCall

Next ==
    \/ \E f \in Fn : Call(f)
    \/ \E c \in Bytecode : TierUp(c)

Spec == Init /\ [][Next]_<<compiled, lastCall>>
=============================================================================
