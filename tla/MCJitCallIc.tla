---------------------------- MODULE MCJitCallIc ----------------------------
(* One JIT call site of CodeBlock c1, through which two closures of c1, one   *)
(* of CodeBlock c2 and the C function p are called.                           *)
EXTENDS JitCallIc, FiniteSets, TLC

CONSTANTS c1, c2, p, f1, g1, f2, fp, s1

MCFn == {f1, g1, f2, fp}
MCCode == {c1, c2, p}
MCBytecode == {c1, c2}
MCExecOf == f1 :> c1 @@ g1 :> c1 @@ f2 :> c2 @@ fp :> p
MCSiteOwner == s1 :> c1
\* Any two masks cover the third: a false positive of the filter happens.
MCBloomMask == c1 :> {0, 1} @@ c2 :> {1, 2} @@ p :> {0, 2}
\* c1 and c2 share an interpreter entry point (same prototype).  c1's baseline
\* entry is below it, c2's above: differences of both signs are patched.
MCInterpEntry == c1 :> 5 @@ c2 :> 5 @@ p :> 2
MCBaselineEntry == c1 :> 1 @@ c2 :> 7
\* The stubs are at different distances from their targets.
AnyOrder(S) == CHOOSE q \in [1 .. Cardinality(S) -> S] : \A x \in S : \E i \in DOMAIN q : q[i] = x
DistinctBias == [e \in Entry |-> 2 - 3 * (CHOOSE i \in 1 .. Cardinality(Entry) : AnyOrder(Entry)[i] = e)]
=============================================================================
