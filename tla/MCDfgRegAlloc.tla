--------------------------- MODULE MCDfgRegAlloc ---------------------------
EXTENDS DfgRegAlloc, TLC

CONSTANTS v1, v2, g1, g2, s1

\* The values, and the registers of a bank, are interchangeable.
Symmetric == Permutations(Val) \cup Permutations(Gpr)
=============================================================================
