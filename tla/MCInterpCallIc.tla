--------------------------- MODULE MCInterpCallIc ---------------------------
(* CodeBlock c1 with a checked and an unchecked call site, CodeBlock c2 with a *)
(* checked one; they call each other, themselves and the C function prim.      *)
EXTENDS InterpCallIc, TLC

CONSTANTS c1, c2, prim, f1, f2, fprim, s1, s2, s3

MCExecOf == f1 :> c1 @@ f2 :> c2 @@ fprim :> prim
MCSiteOwner == s1 :> c1 @@ s2 :> c1 @@ s3 :> c2
\* Anchors lie below, between and above the sites: offsets of both signs.
MCAt == prim :> 10 @@ s1 :> 23 @@ c1 :> 40 @@ s3 :> 55 @@ s2 :> 61 @@ c2 :> 90
MCInterpEntry == c1 :> 5 @@ c2 :> 5 @@ prim :> 2
MCBaselineEntry == c1 :> 1 @@ c2 :> 7
\* The bytecodes of c1 lie across a multiple of 2^32.
MCCodeBlockAt == c1 :> 13 @@ c2 :> 4
MCBytecodePtr == c1 :> <<15, 1, 2>> @@ c2 :> <<6>>
=============================================================================
