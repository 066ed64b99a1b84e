-------------------------- MODULE MCSomMethodTable --------------------------
(* SomMethodTable for TLC.  The limit on rounds is reached: up to three       *)
(* selectors always have their longest chain, four and five do not, and a     *)
(* doubling then drops one of them.                                           *)
EXTENDS SomMethodTable

\* Slots that coincide in every table, coincide in small ones, or form long chains.
HashPairs == << <<0, 0>>, <<0, 1>>, <<1, 3>>, <<3, 2>>, <<4, 1>> >>
\* No more than two selectors share a pair, and selectors are interchangeable: one
\* function of those that differ by renaming.
MCHashFunctions ==
    LET Chosen == {f \in [Keys -> DOMAIN HashPairs] :
                      /\ \A k1, k2 \in Keys : k1 < k2 => f[k1] <= f[k2]
                      /\ \A h \in DOMAIN HashPairs : Cardinality({k \in Keys : f[k] = h}) <= 2}
    IN  {[k \in Keys |-> [lo |-> HashPairs[f[k]][1], hi |-> HashPairs[f[k]][2]]] : f \in Chosen}
=============================================================================
