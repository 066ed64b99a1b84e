------------------------- MODULE InterpCallIcProofs -------------------------
(***************************************************************************)
(* Proofs about InterpCallIc, for any functions, call sites and addresses, *)
(* any depth of the stack and any order of calls, branches and tier-ups.   *)
(*                                                                         *)
(* UpdateBestEntryPoint walks a circular list, so what has to be shown is  *)
(* that the walk meets every site before it is back at the anchor.  In the *)
(* invariant "reachable" is stated with closed sets: a set that contains   *)
(* the anchor, and with a node the next one, contains all sites of the     *)
(* anchor's code.  That the walk therefore lists them all is a lemma about *)
(* the finite set of sites.                                                *)
(***************************************************************************)
EXTENDS InterpCallIc, FiniteSetTheorems, NaturalsInduction, TLAPS

\* The code to whose list a node belongs; a site without a callee is alone.
Owner(n) == IF n \in Sites /\ cached[n] # None THEN ExecOf[cached[n]] ELSE n

\* Types, as far as the proofs need them.
CacheTypes ==
    /\ compiled \subseteq Bytecode
    /\ cached \in [Sites -> Fn \cup {None}]
    /\ DOMAIN codePtr = Sites
    /\ DOMAIN best = Code

\* The offsets are those of a permutation of the nodes and its inverse, and
\* neighbours belong to the same list.
Linked ==
    /\ nextOffset \in [Node -> Int] /\ prevOffset \in [Node -> Int]
    /\ \A n \in Node :
          /\ NextNode(n) \in Node /\ nextOffset[n] = At[n] - At[NextNode(n)]
          /\ PrevNode(n) \in Node /\ prevOffset[n] = At[PrevNode(n)] - At[n]
          /\ PrevNode(NextNode(n)) = n /\ NextNode(PrevNode(n)) = n
          /\ Owner(NextNode(n)) = Owner(n)

\* From the anchor of a code the next offsets lead to all sites that cache it.
Complete ==
    \A c \in Code, S \in SUBSET Node :
        c \in S /\ (\A n \in S : NextNode(n) \in S) => Caching(c) \subseteq S

\* The best entry point changes at the end of the walk.
BestInv ==
    \A c \in Code :
        best[c] = IF c \in compiled /\ ~(patching # None /\ patching.cb = c)
                  THEN BaselineEntry[c] ELSE InterpEntry[c]

\* What is not patched yet lies between the current node of the walk and the
\* anchor.
WalkInv ==
    patching # None =>
        /\ patching \in [cb : Bytecode, cur : Node]
        /\ patching.cb \in compiled
        /\ Owner(patching.cur) = patching.cb
        /\ patching.cur \in Sites => codePtr[patching.cur] = BaselineEntry[patching.cb]
        /\ \A S \in SUBSET Node :
              /\ patching.cur \in S
              /\ \A n \in S : NextNode(n) = patching.cb \/ NextNode(n) \in S
              => \A s \in Caching(patching.cb) :
                    codePtr[s] = BaselineEntry[patching.cb] \/ s \in S

\* Activations, and in particular those in the prologue of the interpreter.
IsFrame(x) ==
    /\ x = [cb |-> x.cb, tier |-> x.tier, at |-> x.at] /\ x.cb \in Bytecode
    /\ \E i \in DOMAIN BytecodePtr[x.cb] : x.at = BytecodePtr[x.cb][i]

StackInv ==
    /\ \E S : stack \in Seq(S)
    /\ \A i \in 1 .. Len(stack) :
          /\ IsFrame(stack[i])
          /\ stack[i].tier = "Prologue" => i = Len(stack)
          /\ stack[i].tier = "Prologue" /\ stack[i].cb \in compiled =>
                patching # None /\ patching.cb = stack[i].cb
    /\ patching # None => stack # <<>> /\ Top.cb = patching.cb
    /\ ~aborted

\* The inductive invariant.
Inv == CacheTypes /\ Linked /\ Complete /\ BestInv /\ WalkInv /\ CachedPtrCurrent /\ StackInv

-----------------------------------------------------------------------------
(***************************************************************************)
(* Links.                                                                  *)
(***************************************************************************)
\* An address leads back to its node.
LEMMA NodeAtAddress ==
    ASSUME NEW n \in Node PROVE NodeAt(At[n]) = n
  BY AddressAssumption DEF NodeAt

\* The stored differences lead from a node to its neighbours.
LEMMA OffsetLeads ==
    ASSUME NEW n \in Node, NEW m \in Node
    PROVE  /\ NodeAt(At[n] - (At[n] - At[m])) = m
           /\ NodeAt(At[n] + (At[m] - At[n])) = m
           /\ At[n] - At[m] \in Int
<1>1. At[n] \in Int /\ At[m] \in Int
  BY AddressAssumption
<1>2. At[n] - (At[n] - At[m]) = At[m] /\ At[n] + (At[m] - At[n]) = At[m]
  BY <1>1
<1> QED BY <1>1, <1>2, NodeAtAddress

\* Relink, as a change of neighbours: s leaves its place between p and n and
\* comes between the anchor c and the node a that followed it.
LEMMA RelinkEffect ==
    ASSUME Linked, NEW s \in Sites, NEW c \in Code, Relink(s, c)
    PROVE  LET p == PrevNode(s)
               n == NextNode(s)
               a == IF c = p THEN n ELSE NextNode(c)
           IN  /\ a \in Node /\ a # s
               /\ nextOffset' \in [Node -> Int] /\ prevOffset' \in [Node -> Int]
               /\ \A x \in Node :
                    /\ nextOffset'[x] = At[x] - At[NextNode(x)']
                    /\ prevOffset'[x] = At[PrevNode(x)'] - At[x]
                    /\ NextNode(x)' = IF x = c THEN s ELSE IF x = s THEN a
                                      ELSE IF x = p THEN n ELSE NextNode(x)
                    /\ PrevNode(x)' = IF x = a THEN s ELSE IF x = s THEN c
                                      ELSE IF x = n THEN p ELSE PrevNode(x)
<1> DEFINE p == PrevNode(s)
           n == NextNode(s)
           a == IF c = p THEN n ELSE NextNode(c)
           next == [nextOffset EXCEPT ![p] = At[p] - At[n]]
           prev == [prevOffset EXCEPT ![n] = At[p] - At[n]]
           b == NodeAt(At[c] - next[c])
<1>1. s \in Node /\ c \in Node /\ c # s
  BY CodeAssumption DEF Node
<1>2. p \in Node /\ n \in Node /\ a \in Node
  BY <1>1 DEF Linked
<1>3. a # s
  <2>1. CASE c = p
    <3>1. n = s => p = s
      BY <1>1 DEF Linked
    <3> QED BY <1>1, <2>1, <3>1
  <2>2. CASE c # p
    BY <1>1, <2>2 DEF Linked
  <2> QED BY <2>1, <2>2
<1>4. next[c] = At[c] - At[a]
  <2>1. CASE c = p
    BY <1>1, <2>1 DEF Linked
  <2>2. CASE c # p
    BY <1>1, <2>2 DEF Linked
  <2> QED BY <2>1, <2>2
<1>5. b = a
  BY <1>1, <1>2, <1>4, OffsetLeads
<1>6. /\ nextOffset' = [next EXCEPT ![c] = At[c] - At[s], ![s] = At[s] - At[b]]
      /\ prevOffset' = [prev EXCEPT ![s] = At[c] - At[s], ![b] = At[s] - At[b]]
  BY DEF Relink
<1>7. /\ At[p] - At[n] \in Int /\ At[c] - At[s] \in Int /\ At[s] - At[a] \in Int
  BY <1>1, <1>2, OffsetLeads
<1> DEFINE nx(x) == IF x = c THEN s ELSE IF x = s THEN a ELSE IF x = p THEN n ELSE NextNode(x)
           pv(x) == IF x = a THEN s ELSE IF x = s THEN c ELSE IF x = n THEN p ELSE PrevNode(x)
<1>8. nextOffset \in [Node -> Int] /\ prevOffset \in [Node -> Int]
  BY DEF Linked
<1>9. /\ nextOffset' \in [Node -> Int] /\ prevOffset' \in [Node -> Int]
  BY <1>5, <1>6, <1>7, <1>8
<1>10. ASSUME NEW x \in Node
       PROVE  /\ nx(x) \in Node /\ pv(x) \in Node
              /\ nextOffset'[x] = At[x] - At[nx(x)]
              /\ prevOffset'[x] = At[pv(x)] - At[x]
  <2>1. /\ NextNode(x) \in Node /\ nextOffset[x] = At[x] - At[NextNode(x)]
        /\ PrevNode(x) \in Node /\ prevOffset[x] = At[PrevNode(x)] - At[x]
    BY DEF Linked
  <2> HIDE DEF p, n, a, b
  <2>2. nx(x) \in Node /\ pv(x) \in Node
    BY <1>1, <1>2, <2>1
  <2>3. nextOffset'[x] = At[x] - At[nx(x)]
    BY <1>1, <1>2, <1>5, <1>6, <1>8, <2>1
  <2>4. prevOffset'[x] = At[pv(x)] - At[x]
    BY <1>1, <1>2, <1>3, <1>5, <1>6, <1>8, <2>1
  <2> QED BY <2>2, <2>3, <2>4
<1>11. ASSUME NEW x \in Node
       PROVE  NextNode(x)' = nx(x) /\ PrevNode(x)' = pv(x)
  <2> HIDE DEF nx, pv
  <2>1. NextNode(x)' = NodeAt(At[x] - nextOffset'[x]) /\ PrevNode(x)' = NodeAt(At[x] + prevOffset'[x])
    BY DEF NextNode, PrevNode
  <2>2. /\ nx(x) \in Node /\ pv(x) \in Node
        /\ nextOffset'[x] = At[x] - At[nx(x)]
        /\ prevOffset'[x] = At[pv(x)] - At[x]
    BY <1>10
  <2> QED BY <2>1, <2>2, OffsetLeads
<1> HIDE DEF p, n, a, b, next, prev
<1>12. \A x \in Node :
           /\ nextOffset'[x] = At[x] - At[NextNode(x)']
           /\ prevOffset'[x] = At[PrevNode(x)'] - At[x]
           /\ NextNode(x)' = nx(x) /\ PrevNode(x)' = pv(x)
  <2> HIDE DEF nx, pv
  <2> QED BY <1>10, <1>11
<1> QED BY <1>2, <1>3, <1>9, <1>12 DEF p, n, a

\* The lists stay linked when a site takes a callee of code c and is relinked.
LEMMA RelinkKeepsLinked ==
    ASSUME CacheTypes, Linked, NEW s \in Sites, NEW f \in Fn,
           cached' = [cached EXCEPT ![s] = f], Relink(s, ExecOf[f])
    PROVE  Linked'
<1> DEFINE c == ExecOf[f]
           p == PrevNode(s)
           n == NextNode(s)
           a == IF c = p THEN n ELSE NextNode(c)
           nx(x) == NodeAt(At[x] - nextOffset'[x])
           pv(x) == NodeAt(At[x] + prevOffset'[x])
           own(x) == IF x \in Sites /\ cached'[x] # None THEN ExecOf[cached'[x]] ELSE x
<1>1. c \in Code /\ c \in Node /\ s \in Node /\ c # s
  BY CodeAssumption DEF Node
<1>2. \A x \in Node : own(x) = IF x = s THEN c ELSE Owner(x)
  BY CodeAssumption DEF Owner, CacheTypes
<1>3. /\ a \in Node /\ a # s
      /\ nextOffset' \in [Node -> Int] /\ prevOffset' \in [Node -> Int]
      /\ \A x \in Node :
           /\ nextOffset'[x] = At[x] - At[nx(x)]
           /\ prevOffset'[x] = At[pv(x)] - At[x]
           /\ nx(x) = IF x = c THEN s ELSE IF x = s THEN a ELSE IF x = p THEN n ELSE NextNode(x)
           /\ pv(x) = IF x = a THEN s ELSE IF x = s THEN c ELSE IF x = n THEN p ELSE PrevNode(x)
  BY <1>1, RelinkEffect DEF NextNode, PrevNode
<1>4. Owner(c) = c
  BY <1>1, CodeAssumption DEF Owner
<1>5. \A x \in Node : /\ NextNode(x) \in Node /\ PrevNode(x) \in Node
                      /\ PrevNode(NextNode(x)) = x /\ NextNode(PrevNode(x)) = x
                      /\ Owner(NextNode(x)) = Owner(x)
  BY DEF Linked
<1>6. Owner(a) = c
  BY <1>1, <1>4, <1>5
<1> HIDE DEF nx, pv, own
<1>7. ASSUME NEW x \in Node
      PROVE  nx(x) \in Node /\ pv(x) \in Node
  BY <1>1, <1>3, <1>5
<1>8. ASSUME NEW x \in Node
      PROVE  own(nx(x)) = own(x)
  <2> HIDE DEF a, p, n, c
  <2>1. CASE x = c
    BY <1>1, <1>2, <1>3, <1>4, <2>1
  <2>2. CASE x = s
    BY <1>1, <1>2, <1>3, <1>6, <2>2
  <2>3. CASE x # c /\ x # s /\ x = p
    BY <1>1, <1>2, <1>3, <1>5, <2>3 DEF p, n
  <2>4. CASE x # c /\ x # s /\ x # p
    BY <1>1, <1>2, <1>3, <1>5, <2>4 DEF p
  <2> QED BY <2>1, <2>2, <2>3, <2>4
<1>9. ASSUME NEW x \in Node
      PROVE  pv(nx(x)) = x
  BY <1>1, <1>3, <1>5, <1>7
<1>10. ASSUME NEW x \in Node
       PROVE  nx(pv(x)) = x
  BY <1>1, <1>3, <1>5, <1>7
<1>11. \A x \in Node :
          /\ nx(x) \in Node /\ nextOffset'[x] = At[x] - At[nx(x)]
          /\ pv(x) \in Node /\ prevOffset'[x] = At[pv(x)] - At[x]
          /\ pv(nx(x)) = x /\ nx(pv(x)) = x
          /\ own(nx(x)) = own(x)
  <2> HIDE DEF a, p, n, c
  <2> QED BY <1>3, <1>7, <1>8, <1>9, <1>10
<1> QED
  <2> HIDE DEF a, p, n, c
  <2> QED BY <1>3, <1>11 DEF Linked, NextNode, PrevNode, Owner, nx, pv, own

\* ... and complete.  A closed set S of the new lists gives a closed set T of
\* the old ones: with s if its old neighbour is in S, else without.
LEMMA RelinkKeepsComplete ==
    ASSUME CacheTypes, Linked, Complete, NEW s \in Sites, NEW f \in Fn,
           cached' = [cached EXCEPT ![s] = f], Relink(s, ExecOf[f])
    PROVE  Complete'
<1> DEFINE c == ExecOf[f]
           p == PrevNode(s)
           n == NextNode(s)
           a == IF c = p THEN n ELSE NextNode(c)
<1>1. c \in Code /\ c \in Node /\ s \in Node /\ c # s
  BY CodeAssumption DEF Node
<1>3. /\ a \in Node /\ a # s
      /\ \A x \in Node :
           NextNode(x)' = IF x = c THEN s ELSE IF x = s THEN a
                          ELSE IF x = p THEN n ELSE NextNode(x)
  BY <1>1, RelinkEffect
<1>4. \A x \in Node : NextNode(x) \in Node /\ (NextNode(x) = s => x = p)
  BY DEF Linked
<1>5. NextNode(p) = s /\ (p = s => n = s) /\ p \in Node
  BY <1>1 DEF Linked
<1>6. ASSUME NEW d \in Code, NEW S \in SUBSET Node, d \in S,
             \A x \in S : NextNode(x)' \in S
      PROVE  Caching(d)' \subseteq S
  <2> DEFINE T == IF p \in S THEN S \cup {s} ELSE S \ {s}
  <2>1. T \in SUBSET Node /\ d \in T /\ T \subseteq S \cup {s}
    BY <1>1, <1>6, CodeAssumption
  <2>2. ASSUME NEW x \in T PROVE NextNode(x) \in T
    <3> HIDE DEF c
    <3>1. x \in Node
      BY <2>1
    <3>2. CASE x = s
      <4>1. p \in S
        BY <3>2
      <4>2. CASE p = c
        BY <1>1, <1>3, <1>6, <4>1, <4>2, <3>2
      <4>3. CASE p # c /\ p # s
        BY <1>1, <1>3, <1>6, <4>1, <4>3, <3>2
      <4>4. CASE p = s
        BY <1>5, <4>1, <4>4, <3>2
      <4> QED BY <4>2, <4>3, <4>4
    <3>3. CASE x # s /\ x = p
      BY <1>5, <3>3
    <3>4. CASE x # s /\ x # p /\ x = c
      BY <1>1, <1>3, <1>4, <1>6, <3>1, <3>4
    <3>5. CASE x # s /\ x # p /\ x # c
      BY <1>3, <1>4, <1>6, <3>1, <3>5
    <3> QED BY <3>2, <3>3, <3>4, <3>5
  <2>3. Caching(d) \subseteq T
    <3> HIDE DEF T
    <3> QED BY <2>1, <2>2 DEF Complete
  <2>4. ASSUME NEW x \in Caching(d)' PROVE x \in S
    <3>1. CASE x = s
      <4>1. d = c
        BY <2>4, <3>1 DEF Caching, CacheTypes
      <4> QED BY <1>1, <1>3, <1>6, <3>1, <4>1
    <3>2. CASE x # s
      <4>1. x \in Caching(d)
        BY <2>4, <3>2 DEF Caching, CacheTypes
      <4> QED BY <2>1, <2>3, <3>2, <4>1
    <3> QED BY <3>1, <3>2
  <2> QED BY <2>4
<1> QED BY <1>6 DEF Complete

\* Steps that touch no link keep the lists.
LEMMA ListsUnchanged ==
    ASSUME UNCHANGED <<cached, prevOffset, nextOffset>>
    PROVE  /\ Linked => Linked'
           /\ Complete => Complete'
           /\ \A c : Caching(c)' = Caching(c)
           /\ \A n : NextNode(n)' = NextNode(n) /\ Owner(n)' = Owner(n)
<1>1. \A n : NextNode(n)' = NextNode(n) /\ PrevNode(n)' = PrevNode(n) /\ Owner(n)' = Owner(n)
  BY DEF NextNode, PrevNode, Owner
<1>2. \A c : Caching(c)' = Caching(c)
  BY DEF Caching
<1>3. Linked => Linked'
  BY <1>1 DEF Linked
<1>4. Complete => Complete'
  BY <1>1, <1>2 DEF Complete
<1> QED BY <1>1, <1>2, <1>3, <1>4

-----------------------------------------------------------------------------
(***************************************************************************)
(* The search for a bytecode.                                              *)
(***************************************************************************)
\* The order of the naturals as a relation.
LEMMA NatOrder == \E R : IsWellFoundedOn(R, Nat) /\ \A x, y \in Nat : <<x, y>> \in R <=> x < y
<1>1. IsWellFoundedOn(OpToRel(<, Nat), Nat)
  BY NatLessThanWellFounded
<1>2. \A x, y \in Nat : <<x, y>> \in OpToRel(<, Nat) <=> x < y
  BY DEF OpToRel
<1> QED BY <1>1, <1>2, Zenon

\* Every nonempty set of naturals has a least element.
LEMMA LeastNat ==
    ASSUME NEW T \in SUBSET Nat, T # {}
    PROVE  \E m \in T : \A k \in T : m <= k
<1>1. PICK R : IsWellFoundedOn(R, Nat) /\ \A x, y \in Nat : <<x, y>> \in R <=> x < y
  BY NatOrder
<1>2. PICK m \in T : \A y \in T : ~(<<y, m>> \in R)
  <2>1. IsWellFoundedOn(R, Nat) /\ T \subseteq Nat
    BY <1>1
  <2> QED BY <2>1, WFMin
<1>3. \A y \in T : ~(y < m)
  BY <1>1, <1>2, Zenon
<1> QED BY <1>3

\* The number of bytecodes, the offset of a bytecode, the ranges of the search,
\* its middle and the half it goes on with.
Count(c) == Len(BytecodePtr[c])
OffsetOf(c, i) == BytecodeOffset(c, BytecodePtr[c][i])
Ranges(c) == (1 .. Count(c)) \X (0 .. Count(c))
Mid(r) == (r[1] + r[2]) \div 2
Half(c, ptr, r) ==
    IF BytecodeOffset(c, ptr) < OffsetOf(c, Mid(r)) THEN <<r[1], Mid(r) - 1>> ELSE <<Mid(r) + 1, r[2]>>
SearchStep(g, c, ptr, r) ==
    IF r[1] >= r[2] THEN r[1]
    ELSE IF BytecodeOffset(c, ptr) = OffsetOf(c, Mid(r)) THEN Mid(r)
    ELSE g[Half(c, ptr, r)]
Search(g, c, ptr) == [r \in Ranges(c) |-> SearchStep(g, c, ptr, r)]

\* Offsets are numbers, and grow with the index.
LEMMA OffsetFacts ==
    ASSUME NEW c \in Bytecode
    PROVE  /\ Count(c) \in Nat \ {0} /\ DOMAIN BytecodePtr[c] = 1 .. Count(c)
           /\ \A i \in 1 .. Count(c) : BytecodePtr[c][i] \in Int /\ OffsetOf(c, i) \in Int
           /\ \A i, j \in 1 .. Count(c) : i < j => OffsetOf(c, i) < OffsetOf(c, j)
<1>1. PICK S : S = 0 .. PtrMod - 1
  OBVIOUS
<1>2. BytecodePtr[c] \in Seq(S) /\ BytecodePtr[c] # <<>>
  BY <1>1, BytecodeAssumption
<1>3. Count(c) \in Nat \ {0} /\ DOMAIN BytecodePtr[c] = 1 .. Count(c)
  BY <1>2 DEF Count
<1>4. \A i \in 1 .. Count(c) : BytecodePtr[c][i] \in S
  BY <1>2 DEF Count
<1>5. PtrMod \in Nat \ {0} /\ CodeBlockAt[c] \in Int
  BY BytecodeAssumption
<1>6. \A i \in 1 .. Count(c) : BytecodePtr[c][i] \in Int /\ OffsetOf(c, i) \in Int
  BY <1>1, <1>4, <1>5 DEF OffsetOf, BytecodeOffset
<1>7. \A i, j \in 1 .. Count(c) : i < j => OffsetOf(c, i) < OffsetOf(c, j)
  BY <1>3, BytecodeAssumption DEF OffsetOf, BytecodeOffset
<1> QED BY <1>3, <1>6, <1>7

\* Where a range of more than one bytecode goes on is a smaller range.
LEMMA HalfFacts ==
    ASSUME NEW c \in Bytecode, NEW ptr, NEW r \in Ranges(c), r[1] < r[2]
    PROVE  /\ r[1] \in Int /\ r[2] \in Int /\ Mid(r) \in 1 .. Count(c) /\ r[1] <= Mid(r) /\ Mid(r) < r[2]
           /\ Half(c, ptr, r) \in Ranges(c)
           /\ Half(c, ptr, r)[1] \in Int /\ Half(c, ptr, r)[2] \in Int
           /\ Half(c, ptr, r)[2] - Half(c, ptr, r)[1] < r[2] - r[1]
<1>1. PICK N \in Nat : N = Count(c)
  BY OffsetFacts
<1>2. r[1] \in 1 .. N /\ r[2] \in 0 .. N
  BY <1>1 DEF Ranges
<1>3. PICK m \in Int : m = Mid(r) /\ r[1] <= m /\ m < r[2]
  BY <1>2 DEF Mid
<1>4. m \in 1 .. N /\ m - 1 \in 0 .. N /\ m + 1 \in 1 .. N
  BY <1>2, <1>3
<1>5. Half(c, ptr, r) = <<r[1], m - 1>> \/ Half(c, ptr, r) = <<m + 1, r[2]>>
  BY <1>3 DEF Half
<1>6. CASE Half(c, ptr, r) = <<r[1], m - 1>>
  BY <1>1, <1>2, <1>3, <1>4, <1>6 DEF Ranges
<1>7. CASE Half(c, ptr, r) = <<m + 1, r[2]>>
  BY <1>1, <1>2, <1>3, <1>4, <1>7 DEF Ranges
<1> QED BY <1>1, <1>2, <1>3, <1>4, <1>5, <1>6, <1>7

\* The search is well defined: a function that satisfies its equation on ranges
\* up to some width yields, through the equation, one that does so up to the
\* next width.
Solves(g, k, c, ptr) ==
    \A r \in Ranges(c) : r[2] - r[1] <= k => g[r] = SearchStep(g, c, ptr, r)
\* Hence the search is defined for every range.
LEMMA SearchDefined ==
    ASSUME NEW c \in Bytecode, NEW ptr
    PROVE  \E g : g = Search(g, c, ptr)
<1>1. PICK N \in Nat : N = Count(c)
  BY OffsetFacts
<1>2. \A r \in Ranges(c) : r[1] \in 1 .. N /\ r[2] \in 0 .. N
  BY <1>1 DEF Ranges
<1>3. \E g : Solves(g, 0, c, ptr)
  <2> DEFINE g == [r \in Ranges(c) |-> r[1]]
  <2>1. ASSUME NEW r \in Ranges(c), r[2] - r[1] <= 0 PROVE g[r] = SearchStep(g, c, ptr, r)
    <3>1. r[1] >= r[2]
      BY <1>2, <2>1
    <3> QED BY <3>1 DEF SearchStep
  <2>2. Solves(g, 0, c, ptr)
    BY <2>1 DEF Solves
  <2> QED BY <2>2
<1>4. ASSUME NEW k \in Nat, NEW g, Solves(g, k, c, ptr)
      PROVE  Solves(Search(g, c, ptr), k + 1, c, ptr)
  <2>1. PICK h : h = Search(g, c, ptr)
    OBVIOUS
  <2>2. \A r \in Ranges(c) : h[r] = SearchStep(g, c, ptr, r)
    BY <2>1 DEF Search
  <2>3. ASSUME NEW r \in Ranges(c), r[2] - r[1] <= k + 1
        PROVE  SearchStep(h, c, ptr, r) = SearchStep(g, c, ptr, r)
    <3>1. CASE r[1] >= r[2]
      BY <3>1 DEF SearchStep
    <3>2. CASE r[1] < r[2]
      <4>1. PICK q : q = Half(c, ptr, r)
        OBVIOUS
      <4>2. q \in Ranges(c) /\ q[2] - q[1] <= k
        BY <1>2, <2>3, <3>2, <4>1, HalfFacts
      <4>3. h[q] = g[q]
        BY <2>2, <4>2, <1>4 DEF Solves
      <4> QED BY <4>1, <4>3 DEF SearchStep
    <3> QED BY <1>2, <3>1, <3>2
  <2>4. Solves(h, k + 1, c, ptr)
    BY <2>2, <2>3 DEF Solves
  <2> QED BY <2>1, <2>4
<1>5. \E g : Solves(g, N, c, ptr)
  <2> SUFFICES ASSUME ~\E g : Solves(g, N, c, ptr) PROVE FALSE
    OBVIOUS
  <2> DEFINE T == {k \in Nat : ~\E g : Solves(g, k, c, ptr)}
  <2>1. T \in SUBSET Nat /\ T # {}
    OBVIOUS
  <2>2. PICK m \in T : \A k \in T : m <= k
    <3> HIDE DEF T
    <3> QED BY <2>1, LeastNat
  <2>3. m # 0 /\ m \in Nat
    BY <1>3
  <2>4. PICK n \in Nat : n = m - 1
    BY <2>3
  <2>5. n \notin T
    BY <2>2, <2>3, <2>4
  <2>6. PICK g : Solves(g, n, c, ptr)
    BY <2>5
  <2>7. Solves(Search(g, c, ptr), n + 1, c, ptr)
    BY <1>4, <2>6
  <2>8. n + 1 = m
    BY <2>3, <2>4
  <2> QED BY <2>7, <2>8
<1>6. PICK g : Solves(g, N, c, ptr)
  BY <1>5
<1>7. PICK h : h = Search(g, c, ptr)
  OBVIOUS
<1>8. Solves(h, N + 1, c, ptr)
  BY <1>4, <1>6, <1>7
<1>9. \A r \in Ranges(c) : r[2] - r[1] <= N + 1
  BY <1>2
<1>10. \A r \in Ranges(c) : h[r] = SearchStep(h, c, ptr, r)
  BY <1>8, <1>9 DEF Solves
<1>11. h = [r \in Ranges(c) |-> h[r]]
  BY <1>7 DEF Search
<1>12. h = Search(h, c, ptr)
  BY <1>10, <1>11 DEF Search
<1> QED BY <1>12

\* The search finds the index of every bytecode.
LEMMA SearchFinds ==
    ASSUME NEW c \in Bytecode, NEW j \in 1 .. Count(c)
    PROVE  GetBytecodeIndexFromBytecodePtr(c, BytecodePtr[c][j]) = j
<1>1. PICK N \in Nat \ {0} : N = Count(c)
  BY OffsetFacts
<1>2. PICK ptr : ptr = BytecodePtr[c][j]
  OBVIOUS
<1>3. PICK g : g = CHOOSE x : x = Search(x, c, ptr)
  OBVIOUS
<1>4. g = Search(g, c, ptr)
  BY <1>3, SearchDefined
<1>5. \A r \in Ranges(c) : g[r] = SearchStep(g, c, ptr, r)
  BY <1>4 DEF Search
<1>6. \A r \in Ranges(c) : r[1] \in 1 .. N /\ r[2] \in 0 .. N
  BY <1>1 DEF Ranges
<1>7. j \in 1 .. N /\ BytecodeOffset(c, ptr) = OffsetOf(c, j)
  BY <1>1, <1>2 DEF OffsetOf
<1>8. \A r \in Ranges(c) : r[1] <= j /\ j <= r[2] => g[r] = j
  <2> DEFINE Bad(r) == r[1] <= j /\ j <= r[2] /\ g[r] # j
             T == {k \in Nat : \E r \in Ranges(c) : Bad(r) /\ k = r[2] - r[1]}
  <2> SUFFICES ASSUME NEW r \in Ranges(c), Bad(r) PROVE FALSE
    OBVIOUS
  <2>1. r[2] - r[1] \in T
    BY <1>6, <1>7
  <2>2. PICK m \in T : \A k \in T : m <= k
    <3>1. T \in SUBSET Nat /\ T # {}
      BY <2>1
    <3> HIDE DEF T
    <3> QED BY <3>1, LeastNat
  <2>3. PICK s \in Ranges(c) : Bad(s) /\ m = s[2] - s[1]
    BY <2>2
  <2>4. s[1] \in 1 .. N /\ s[2] \in 0 .. N /\ g[s] = SearchStep(g, c, ptr, s)
    BY <1>5, <1>6
  <2>5. CASE s[1] >= s[2]
    <3>1. s[1] = j
      BY <1>7, <2>3, <2>4, <2>5
    <3> QED BY <2>3, <2>4, <2>5, <3>1 DEF SearchStep
  <2>6. CASE s[1] < s[2]
    <3>1. PICK q, h : q = Half(c, ptr, s) /\ h = Mid(s)
      OBVIOUS
    <3>2. /\ h \in 1 .. Count(c) /\ s[1] <= h /\ h < s[2] /\ q \in Ranges(c)
          /\ q[1] \in Int /\ q[2] \in Int /\ q[2] - q[1] < s[2] - s[1]
      BY <2>6, <3>1, HalfFacts
    <3>3. CASE BytecodeOffset(c, ptr) = OffsetOf(c, h)
      <4>1. h = j
        <5>1. OffsetOf(c, h) = OffsetOf(c, j) /\ OffsetOf(c, j) \in Int
          BY <1>1, <1>7, <3>3, OffsetFacts
        <5>2. ~(h < j) /\ ~(j < h)
          BY <1>1, <1>7, <3>2, <5>1, OffsetFacts
        <5> QED BY <1>1, <1>7, <3>2, <5>2
      <4>2. g[s] = h
        BY <2>4, <2>6, <3>1, <3>3 DEF SearchStep
      <4> QED BY <2>3, <4>1, <4>2
    <3>4. CASE BytecodeOffset(c, ptr) # OffsetOf(c, h)
      <4>1. g[s] = g[q]
        BY <2>4, <2>6, <3>1, <3>4 DEF SearchStep
      <4>2. q[1] <= j /\ j <= q[2]
        <5>1. OffsetOf(c, h) \in Int /\ OffsetOf(c, j) \in Int
          BY <1>1, <1>7, <3>2, OffsetFacts
        <5>2. CASE BytecodeOffset(c, ptr) < OffsetOf(c, h)
          <6>1. q = <<s[1], h - 1>>
            BY <3>1, <5>2 DEF Half
          <6>2. j < h
            BY <1>1, <1>7, <3>2, <5>1, <5>2, OffsetFacts
          <6> QED BY <2>3, <2>4, <3>2, <6>1, <6>2
        <5>3. CASE ~(BytecodeOffset(c, ptr) < OffsetOf(c, h))
          <6>1. q = <<h + 1, s[2]>>
            BY <3>1, <5>3 DEF Half
          <6>2. h < j
            <7>1. ~(j < h) /\ j # h
              BY <1>1, <1>7, <3>2, <3>4, <5>1, <5>3, OffsetFacts
            <7> QED BY <1>1, <1>7, <3>2, <7>1
          <6> QED BY <2>3, <2>4, <3>2, <6>1, <6>2
        <5> QED BY <5>2, <5>3
      <4>3. q[2] - q[1] \in T
        BY <1>7, <2>3, <3>2, <4>1, <4>2
      <4> QED BY <2>2, <2>3, <2>4, <3>2, <4>3
    <3> QED BY <3>3, <3>4
  <2> QED BY <2>4, <2>5, <2>6
<1>9. GetBytecodeIndexFromBytecodePtr(c, ptr) = g[<<1, N>>]
  BY <1>1, <1>3 DEF GetBytecodeIndexFromBytecodePtr, Search, SearchStep, Half, Mid, Ranges, Count, OffsetOf
<1>10. <<1, N>> \in Ranges(c) /\ <<1, N>>[1] = 1 /\ <<1, N>>[2] = N
  BY <1>1 DEF Ranges
<1>11. g[<<1, N>>] = j
  BY <1>7, <1>8, <1>10
<1> QED BY <1>2, <1>9, <1>11

-----------------------------------------------------------------------------
(***************************************************************************)
(* The walk along a list.                                                  *)
(***************************************************************************)
VisitStep(g, c, n) == [i \in 0 .. n |-> IF i = 0 THEN c ELSE NextNode(g[i - 1])]

\* The nodes that the walk visits are defined: a walk of some length can be
\* extended.
LEMMA VisitDefined ==
    ASSUME NEW c, NEW n \in Nat
    PROVE  \E g : g = VisitStep(g, c, n)
<1>1. \E g : g = VisitStep(g, c, 0)
  <2> DEFINE g == [i \in 0 .. 0 |-> c]
  <2>1. g = VisitStep(g, c, 0)
    BY DEF VisitStep
  <2> QED BY <2>1
<1>2. ASSUME NEW k \in Nat, NEW g, g = VisitStep(g, c, k)
      PROVE  \E h : h = VisitStep(h, c, k + 1)
  <2>1. PICK h : h = [i \in 0 .. k + 1 |-> IF i = k + 1 THEN NextNode(g[k]) ELSE g[i]]
    OBVIOUS
  <2>2. \A i \in 0 .. k : g[i] = IF i = 0 THEN c ELSE NextNode(g[i - 1])
    BY <1>2 DEF VisitStep
  <2>3. ASSUME NEW i \in 0 .. k + 1 PROVE h[i] = IF i = 0 THEN c ELSE NextNode(h[i - 1])
    <3>1. CASE i = k + 1
      <4>1. i - 1 = k /\ k \in 0 .. k + 1 /\ k # k + 1 /\ i # 0
        BY <3>1
      <4>2. h[i - 1] = g[k] /\ h[i] = NextNode(g[k])
        BY <2>1, <3>1, <4>1
      <4> QED BY <4>1, <4>2
    <3>2. CASE i # k + 1
      <4>1. i \in 0 .. k
        BY <3>2
      <4>2. h[i] = g[i]
        BY <2>1, <3>2
      <4>3. i # 0 => h[i - 1] = g[i - 1]
        BY <2>1, <4>1
      <4> QED BY <2>2, <4>1, <4>2, <4>3
    <3> QED BY <3>1, <3>2
  <2>4. h = VisitStep(h, c, k + 1)
    BY <2>1, <2>3 DEF VisitStep
  <2> QED BY <2>4
<1> SUFFICES ASSUME ~\E g : g = VisitStep(g, c, n) PROVE FALSE
  OBVIOUS
<1> DEFINE T == {k \in Nat : ~\E g : g = VisitStep(g, c, k)}
<1>3. T \in SUBSET Nat /\ T # {}
  OBVIOUS
<1>4. PICK m \in T : \A k \in T : m <= k
  <2> HIDE DEF T
  <2> QED BY <1>3, LeastNat
<1>5. PICK k \in Nat : m = k + 1
  <2>1. m # 0 /\ m \in Nat
    BY <1>1
  <2>2. m - 1 \in Nat /\ m = (m - 1) + 1
    BY <2>1
  <2> QED BY <2>2
<1>6. k \notin T
  BY <1>4, <1>5
<1>7. PICK g : g = VisitStep(g, c, k)
  BY <1>6
<1>8. \E h : h = VisitStep(h, c, k + 1)
  BY <1>2, <1>7
<1> QED BY <1>5, <1>8

\* The first m numbers.
LEMMA IntervalSize ==
    ASSUME NEW m \in Nat
    PROVE  IsFiniteSet(0 .. m - 1) /\ Cardinality(0 .. m - 1) = m
<1>1. 0 \in Int /\ m - 1 \in Int
  OBVIOUS
<1>2. IsFiniteSet(0 .. m - 1) /\ Cardinality(0 .. m - 1) = IF 0 > m - 1 THEN 0 ELSE m - 1 - 0 + 1
  BY <1>1, FS_Interval
<1> QED BY <1>2

\* A walk from the anchor in a list of n sites is back at the anchor after n + 1
\* steps, and has met every site before.
LEMMA VisitIsExact ==
    ASSUME CacheTypes, Linked, Complete, NEW c \in Code, NEW n \in Nat,
           IsFiniteSet(Caching(c)), n = Cardinality(Caching(c)),
           NEW v, v = VisitStep(v, c, n + 1)
    PROVE  /\ v[n + 1] = c
           /\ {v[i] : i \in 1 .. n} = Caching(c)
<1>1. PICK S : S = Caching(c) \cup {c}
  OBVIOUS
<1>2. c \in Node /\ c \notin Caching(c) /\ Caching(c) \subseteq Sites /\ S \subseteq Node /\ c \in S
  BY <1>1, CodeAssumption DEF Caching, Node
<1>3. IsFiniteSet(S) /\ Cardinality(S) = n + 1
  BY <1>1, <1>2, FS_AddElement
<1>4. \A x \in Node : x \in S <=> Owner(x) = c
  BY <1>1, <1>2, CodeAssumption DEF Caching, Owner, Node, CacheTypes
<1>5. \A x \in S : NextNode(x) \in S
  BY <1>2, <1>4 DEF Linked
<1>6. \A x, y \in S : NextNode(x) = NextNode(y) => x = y
  BY <1>2 DEF Linked
<1>7. \A i \in 0 .. n + 1 : v[i] = IF i = 0 THEN c ELSE NextNode(v[i - 1])
  BY DEF VisitStep
<1>8. v[0] = c /\ \A i \in 0 .. n : v[i + 1] = NextNode(v[i])
  <2>1. 0 \in 0 .. n + 1 /\ \A i \in 0 .. n : i + 1 \in 0 .. n + 1 /\ i + 1 # 0 /\ (i + 1) - 1 = i
    OBVIOUS
  <2> QED BY <1>7, <2>1
<1>9. \A i \in 0 .. n + 1 : v[i] \in S
  <2> DEFINE T == {i \in 0 .. n + 1 : v[i] \notin S}
  <2> SUFFICES ASSUME T # {} PROVE FALSE
    OBVIOUS
  <2>1. PICK m \in T : \A k \in T : m <= k
    <3>1. T \in SUBSET Nat
      OBVIOUS
    <3> HIDE DEF T
    <3> QED BY <3>1, LeastNat
  <2>2. m \in 0 .. n + 1 /\ v[m] \notin S /\ m # 0
    BY <1>2, <1>8
  <2>3. m - 1 \in 0 .. n /\ (m - 1) + 1 = m /\ m - 1 \notin T
    BY <2>1, <2>2
  <2>4. v[m - 1] \in S
    BY <2>3
  <2>5. v[m] = NextNode(v[m - 1])
    BY <1>8, <2>3
  <2> QED BY <1>5, <2>2, <2>4, <2>5
\* Two equal nodes of the walk: so are the nodes before them, down to the anchor.
<1>10. \E m \in 1 .. n + 1 : v[m] = c
  <2>1. PICK f : f = [i \in 0 .. n + 1 |-> v[i]]
    OBVIOUS
  <2>2. f \in [0 .. n + 1 -> S]
    BY <1>9, <2>1
  <2>3. IsFiniteSet(0 .. n + 1) /\ Cardinality(0 .. n + 1) = n + 2
    BY FS_Interval
  <2>4. PICK x, y \in 0 .. n + 1 : x # y /\ f[x] = f[y]
    BY <1>3, <2>2, <2>3, FS_PigeonHole
  <2> DEFINE T == {i \in 0 .. n + 1 : \E j \in 0 .. n + 1 : i < j /\ v[i] = v[j]}
  <2>5. x \in T \/ y \in T
    BY <2>1, <2>4
  <2>6. PICK i \in T : \A k \in T : i <= k
    <3>1. T \in SUBSET Nat /\ T # {}
      BY <2>5
    <3> HIDE DEF T
    <3> QED BY <3>1, LeastNat
  <2>7. PICK j \in 0 .. n + 1 : i < j /\ v[i] = v[j]
    BY <2>6
  <2>8. i = 0
    <3> SUFFICES ASSUME i # 0 PROVE FALSE
      OBVIOUS
    <3>1. PICK a \in 0 .. n, b \in 0 .. n : i = a + 1 /\ j = b + 1
      <4>1. i - 1 \in 0 .. n /\ j - 1 \in 0 .. n /\ i = (i - 1) + 1 /\ j = (j - 1) + 1
        BY <2>7
      <4> QED BY <4>1
    <3>2. v[a] \in S /\ v[b] \in S /\ NextNode(v[a]) = NextNode(v[b])
      BY <1>8, <1>9, <2>7, <3>1
    <3>3. v[a] = v[b]
      BY <1>6, <3>2
    <3>4. a \in T
      BY <2>7, <3>1, <3>3
    <3> QED BY <2>6, <3>1, <3>4
  <2> QED BY <1>8, <2>7, <2>8
<1>11. PICK m \in 1 .. n + 1 : v[m] = c /\ \A k \in 1 .. n + 1 : v[k] = c => m <= k
  <2> DEFINE T == {k \in 1 .. n + 1 : v[k] = c}
  <2>1. T \in SUBSET Nat /\ T # {}
    BY <1>10
  <2>2. PICK m \in T : \A k \in T : m <= k
    <3> HIDE DEF T
    <3> QED BY <2>1, LeastNat
  <2> QED BY <2>2
\* What the walk meets before it is back is closed, so it is the whole list.
<1> DEFINE D == 0 .. m - 1
           W == {v[i] : i \in D}
<1>12. W \subseteq S /\ c \in W
  BY <1>8, <1>9
<1>13. \A x \in W : NextNode(x) \in W
  <2> SUFFICES ASSUME NEW i \in D PROVE NextNode(v[i]) \in W
    OBVIOUS
  <2>1. i \in 0 .. n /\ NextNode(v[i]) = v[i + 1]
    BY <1>8
  <2>2. CASE i + 1 = m
    BY <1>11, <1>12, <2>1, <2>2
  <2>3. CASE i + 1 # m
    BY <2>1, <2>3
  <2> QED BY <2>2, <2>3
<1>14. W = S
  <2>1. W \in SUBSET Node
    BY <1>2, <1>12
  <2>2. Caching(c) \subseteq W
    <3> HIDE DEF W
    <3> QED BY <1>12, <1>13, <2>1 DEF Complete
  <2> QED BY <1>1, <1>12, <2>2
<1>15. m = n + 1
  <2>1. PICK f : f = [i \in D |-> v[i]]
    OBVIOUS
  <2>2. f \in Surjection(D, S)
    <3>1. f \in [D -> S]
      BY <1>12, <2>1
    <3>2. \A y \in S : \E i \in D : f[i] = y
      BY <1>14, <2>1
    <3> QED BY <3>1, <3>2 DEF Surjection
  <2>3. IsFiniteSet(D) /\ Cardinality(D) = m
    <3>1. m \in Nat
      OBVIOUS
    <3> QED BY <3>1, IntervalSize
  <2>4. Cardinality(S) <= Cardinality(D)
    BY <2>2, <2>3, FS_Surjection
  <2> QED BY <1>3, <2>3, <2>4
<1>16. {v[i] : i \in 1 .. n} = Caching(c)
  <2>1. ASSUME NEW i \in 1 .. n PROVE v[i] \in Caching(c)
    <3>1. i \in 1 .. n + 1 /\ i \in 0 .. n + 1 /\ ~(m <= i)
      BY <1>15
    <3> QED BY <1>1, <1>9, <1>11, <3>1
  <2>2. ASSUME NEW s \in Caching(c) PROVE \E i \in 1 .. n : v[i] = s
    <3>1. PICK i \in D : v[i] = s
      BY <1>1, <1>14
    <3>2. i # 0
      BY <1>2, <1>8, <3>1
    <3> QED BY <1>15, <3>1, <3>2
  <2> QED BY <2>1, <2>2
<1> QED BY <1>11, <1>15, <1>16

\* The invariant gives the exact lists.
LEMMA ListsAreExact ==
    ASSUME CacheTypes, Linked, Complete
    PROVE  ListsExact
<1> SUFFICES ASSUME NEW c \in Code
             PROVE  LET N == Cardinality(Caching(c))
                        visit[i \in 0 .. N + 1] == IF i = 0 THEN c ELSE NextNode(visit[i - 1])
                    IN  /\ {visit[i] : i \in 1 .. N} = Caching(c)
                        /\ visit[N + 1] = c
                        /\ \A n \in Caching(c) \cup {c} : PrevNode(NextNode(n)) = n
  BY DEF ListsExact
<1>1. Caching(c) \subseteq Sites /\ IsFiniteSet(Sites)
  BY CodeAssumption DEF Caching
<1>2. IsFiniteSet(Caching(c))
  BY <1>1, FS_Subset
<1>3. PICK n \in Nat : n = Cardinality(Caching(c))
  BY <1>2, FS_CardinalityType
<1>4. PICK v : v = CHOOSE g : g = VisitStep(g, c, n + 1)
  OBVIOUS
<1>5. v = VisitStep(v, c, n + 1)
  <2>1. n + 1 \in Nat
    OBVIOUS
  <2> QED BY <1>4, <2>1, VisitDefined
<1>6. v[n + 1] = c /\ {v[i] : i \in 1 .. n} = Caching(c)
  BY <1>2, <1>3, <1>5, VisitIsExact
<1>7. \A x \in Caching(c) \cup {c} : PrevNode(NextNode(x)) = x
  BY <1>1 DEF Linked, Node
<1>8. v = CHOOSE g : g = [i \in 0 .. n + 1 |-> IF i = 0 THEN c ELSE NextNode(g[i - 1])]
  BY <1>4 DEF VisitStep
<1> QED BY <1>3, <1>6, <1>7, <1>8

-----------------------------------------------------------------------------
(***************************************************************************)
(* The stack.                                                              *)
(***************************************************************************)
\* A sequence with one more element.
LEMMA PushFacts ==
    ASSUME NEW S, NEW q \in Seq(S), NEW x
    PROVE  /\ q \o <<x>> \in Seq(S \cup {x})
           /\ Len(q \o <<x>>) = Len(q) + 1
           /\ \A i \in 1 .. Len(q) : (q \o <<x>>)[i] = q[i]
           /\ (q \o <<x>>)[Len(q) + 1] = x
<1>1. q \in Seq(S \cup {x}) /\ <<x>> \in Seq(S \cup {x}) /\ Len(<<x>>) = 1 /\ <<x>>[1] = x
  OBVIOUS
<1> QED BY <1>1

\* A prefix of a sequence.
LEMMA PrefixFacts ==
    ASSUME NEW S, NEW q \in Seq(S), NEW m \in 0 .. Len(q)
    PROVE  /\ SubSeq(q, 1, m) \in Seq(S)
           /\ Len(SubSeq(q, 1, m)) = m
           /\ \A i \in 1 .. m : SubSeq(q, 1, m)[i] = q[i]
  OBVIOUS

\* An activation in another tier is an activation.
LEMMA TierFacts ==
    ASSUME NEW x, IsFrame(x), NEW t
    PROVE  IsFrame([x EXCEPT !.tier = t]) /\ [x EXCEPT !.tier = t].tier = t
<1>1. [x EXCEPT !.tier = t] = [cb |-> x.cb, tier |-> t, at |-> x.at]
  BY DEF IsFrame
<1> QED BY <1>1 DEF IsFrame

\* An activation at another bytecode of the function is an activation.
LEMMA PlaceFacts ==
    ASSUME NEW x, IsFrame(x), NEW v, \E i \in DOMAIN BytecodePtr[x.cb] : v = BytecodePtr[x.cb][i]
    PROVE  IsFrame([x EXCEPT !.at = v]) /\ [x EXCEPT !.at = v].tier = x.tier
<1>1. [x EXCEPT !.at = v] = [cb |-> x.cb, tier |-> x.tier, at |-> v]
  BY DEF IsFrame
<1> QED BY <1>1 DEF IsFrame

\* OSR entry changes the tier of an activation, not its bytecode.
LEMMA BaselineFrameFacts ==
    ASSUME NEW x, IsFrame(x)
    PROVE  /\ BaselineFrame(x) = [cb |-> x.cb, tier |-> "Baseline", at |-> x.at]
           /\ IsFrame(BaselineFrame(x)) /\ BaselineFrame(x).tier = "Baseline"
<1>1. x.cb \in Bytecode
  BY DEF IsFrame
<1>2. PICK j \in 1 .. Count(x.cb) : x.at = BytecodePtr[x.cb][j]
  BY <1>1, OffsetFacts DEF IsFrame
<1>3. GetBytecodeIndexFromBytecodePtr(x.cb, x.at) = j
  BY <1>1, <1>2, SearchFinds
<1>4. BaselineFrame(x) = [cb |-> x.cb, tier |-> "Baseline", at |-> x.at]
  BY <1>2, <1>3 DEF BaselineFrame
<1>5. IsFrame([cb |-> x.cb, tier |-> "Baseline", at |-> x.at])
  BY DEF IsFrame
<1> QED BY <1>4, <1>5

\* The stack is not empty exactly if it has a positive length.
LEMMA TopFacts ==
    ASSUME StackInv, stack # <<>>
    PROVE  Len(stack) \in Nat \ {0} /\ IsFrame(Top)
<1>1. PICK S : stack \in Seq(S)
  BY DEF StackInv
<1>2. Len(stack) \in Nat \ {0}
  BY <1>1
<1> QED BY <1>2 DEF StackInv, Top

\* What remains when activations end is a stack without a prologue.
LEMMA CutFacts ==
    ASSUME StackInv, stack # <<>>, NEW m \in 0 .. Len(stack) - 1
    PROVE  /\ \E S : SubSeq(stack, 1, m) \in Seq(S)
           /\ Len(SubSeq(stack, 1, m)) = m
           /\ \A i \in 1 .. m : /\ IsFrame(SubSeq(stack, 1, m)[i])
                                /\ SubSeq(stack, 1, m)[i].tier # "Prologue"
<1>1. PICK S : stack \in Seq(S)
  BY DEF StackInv
<1>2. Len(stack) \in Nat \ {0}
  BY TopFacts
<1>3. m \in 0 .. Len(stack)
  BY <1>2
<1>4. /\ SubSeq(stack, 1, m) \in Seq(S)
      /\ Len(SubSeq(stack, 1, m)) = m
      /\ \A i \in 1 .. m : SubSeq(stack, 1, m)[i] = stack[i]
  BY <1>1, <1>3, PrefixFacts
<1>5. \A i \in 1 .. m : i \in 1 .. Len(stack) /\ i # Len(stack)
  BY <1>2
<1> QED BY <1>4, <1>5 DEF StackInv

\* Callers without a prologue and one more activation form a good stack.
LEMMA PushKeepsStack ==
    ASSUME NEW q, \E S : q \in Seq(S),
           \A i \in 1 .. Len(q) : IsFrame(q[i]) /\ q[i].tier # "Prologue",
           NEW x, IsFrame(x),
           x.tier = "Prologue" => x.cb \notin compiled',
           patching' = None, ~aborted', stack' = q \o <<x>>
    PROVE  StackInv'
<1>1. PICK S : q \in Seq(S)
  OBVIOUS
<1>2. /\ stack' \in Seq(S \cup {x})
      /\ Len(stack') = Len(q) + 1
      /\ \A i \in 1 .. Len(q) : stack'[i] = q[i]
      /\ stack'[Len(q) + 1] = x
  BY <1>1, PushFacts
<1>3. Len(q) \in Nat
  BY <1>1
<1>4. \A i \in 1 .. Len(stack') :
        /\ IsFrame(stack'[i])
        /\ stack'[i].tier = "Prologue" => i = Len(stack') /\ stack'[i].cb \notin compiled'
  <2> TAKE i \in 1 .. Len(stack')
  <2>1. CASE i \in 1 .. Len(q)
    BY <1>2, <2>1
  <2>2. CASE i = Len(q) + 1
    BY <1>2, <2>2
  <2> QED BY <1>2, <1>3, <2>1, <2>2
<1> QED BY <1>2, <1>4 DEF StackInv

\* The same for callers alone.
LEMMA CutKeepsStack ==
    ASSUME NEW q, \E S : q \in Seq(S),
           \A i \in 1 .. Len(q) : IsFrame(q[i]) /\ q[i].tier # "Prologue",
           patching' = None, ~aborted', stack' = q
    PROVE  StackInv'
  BY DEF StackInv

\* A call through the best entry point.
LEMMA EnterKeepsStack ==
    ASSUME StackInv, BestInv, patching = None, stack # <<>> => Top.tier # "Prologue",
           NEW f \in Fn, NEW tail \in BOOLEAN, tail => stack # <<>>,
           Enter(f, best[ExecOf[f]], Callers(tail)), UNCHANGED <<compiled, patching, aborted>>
    PROVE  StackInv'
<1> DEFINE q == Callers(tail)
           c == ExecOf[f]
           x == Activation(c, best[c])
<1>1. (\E S : q \in Seq(S)) /\ \A i \in 1 .. Len(q) : IsFrame(q[i]) /\ q[i].tier # "Prologue"
  <2>1. CASE tail
    <3>1. Len(stack) - 1 \in 0 .. Len(stack) - 1
      BY <2>1, TopFacts
    <3>2. q = SubSeq(stack, 1, Len(stack) - 1)
      BY <2>1 DEF Callers, Below
    <3> HIDE DEF q
    <3> QED BY <2>1, <3>1, <3>2, CutFacts
  <2>2. CASE ~tail
    <3>1. q = stack
      BY <2>2 DEF Callers
    <3>2. \A i \in 1 .. Len(stack) : stack[i].tier # "Prologue"
      <4>1. CASE stack = <<>>
        BY <4>1
      <4>2. CASE stack # <<>>
        BY <4>2 DEF StackInv, Top
      <4> QED BY <4>1, <4>2
    <3> HIDE DEF q
    <3> QED BY <3>1, <3>2 DEF StackInv
  <2> QED BY <2>1, <2>2
<1>2. ~aborted' /\ patching' = None /\ compiled' = compiled
  BY DEF StackInv
<1>3. c \in Code
  BY CodeAssumption
<1>4. CASE c \in Bytecode
  <2>1. IsFrame(x)
    <3>1. /\ x = [cb |-> x.cb, tier |-> x.tier, at |-> x.at]
          /\ x.cb = c /\ x.at = BytecodePtr[c][1]
      BY DEF Activation
    <3>2. 1 \in DOMAIN BytecodePtr[c]
      BY <1>4, OffsetFacts
    <3> HIDE DEF x
    <3> QED BY <1>4, <3>1, <3>2 DEF IsFrame
  <2>2. x.tier = "Prologue" => x.cb \notin compiled
    BY <1>3, <1>4, EntryAssumption DEF BestInv, Activation
  <2>3. stack' = q \o <<x>>
    BY <1>4 DEF Enter
  <2> HIDE DEF q, x
  <2> QED BY <1>1, <1>2, <2>1, <2>2, <2>3, PushKeepsStack
<1>5. CASE c \notin Bytecode
  <2>1. stack' = q
    BY <1>5 DEF Enter
  <2> HIDE DEF q
  <2> QED BY <1>1, <1>2, <2>1, CutKeepsStack
<1> QED BY <1>4, <1>5

\* The top activation changes its place or its tier, but not to the prologue.
LEMMA SetTopKeepsStack ==
    ASSUME StackInv, stack # <<>>, NEW x, IsFrame(x), x.tier # "Prologue",
           SetTop(x), patching' = None, ~aborted'
    PROVE  StackInv'
<1>1. Len(stack) - 1 \in 0 .. Len(stack) - 1
  BY TopFacts
<1> DEFINE q == SubSeq(stack, 1, Len(stack) - 1)
<1>2. (\E S : q \in Seq(S)) /\ \A i \in 1 .. Len(q) : IsFrame(q[i]) /\ q[i].tier # "Prologue"
  BY <1>1, CutFacts
<1>3. stack' = q \o <<x>>
  BY DEF SetTop, Below
<1> HIDE DEF q
<1> QED BY <1>2, <1>3, PushKeepsStack

-----------------------------------------------------------------------------
(***************************************************************************)
(* The steps.                                                              *)
(***************************************************************************)
\* What does not concern the stack.
CacheInv == CacheTypes /\ Linked /\ Complete /\ BestInv /\ WalkInv /\ CachedPtrCurrent

\* The initial states satisfy the invariant.
LEMMA InitInv == Init => Inv
<1> SUFFICES ASSUME Init PROVE Inv
  OBVIOUS
<1>1. CacheTypes
  BY DEF Init, CacheTypes
<1>2. ASSUME NEW n \in Node
      PROVE  NextNode(n) = n /\ PrevNode(n) = n /\ Owner(n) = n /\ At[n] \in Int
  <2>1. At[n] \in Int /\ nextOffset[n] = 0 /\ prevOffset[n] = 0
    BY AddressAssumption DEF Init
  <2>2. At[n] - nextOffset[n] = At[n] /\ At[n] + prevOffset[n] = At[n]
    BY <2>1
  <2> QED BY <2>1, <2>2, NodeAtAddress DEF Init, NextNode, PrevNode, Owner
<1>3. Linked
  <2>1. nextOffset \in [Node -> Int] /\ prevOffset \in [Node -> Int]
    BY DEF Init
  <2>2. \A n \in Node : nextOffset[n] = At[n] - At[n] /\ prevOffset[n] = At[n] - At[n]
    BY <1>2 DEF Init
  <2> QED BY <1>2, <2>1, <2>2 DEF Linked
<1>4. \A c : Caching(c) = {}
  BY DEF Init, Caching
<1>5. Complete /\ CachedPtrCurrent
  BY <1>4 DEF Complete, CachedPtrCurrent
<1>6. BestInv /\ WalkInv
  BY DEF Init, BestInv, WalkInv
<1>7. StackInv
  <2>1. stack = <<>> /\ stack \in Seq({}) /\ Len(stack) = 0
    BY DEF Init
  <2> QED BY <2>1 DEF Init, StackInv
<1> QED BY <1>1, <1>3, <1>5, <1>6, <1>7 DEF Inv

\* Steps that change neither caches nor codes.
LEMMA SameCaches ==
    ASSUME CacheInv, UNCHANGED <<compiled, best, icVars, patching>>
    PROVE  CacheInv'
<1>1. UNCHANGED <<cached, prevOffset, nextOffset>> /\ codePtr' = codePtr
  BY DEF icVars
<1>2. Linked' /\ Complete'
  BY <1>1, ListsUnchanged DEF CacheInv
<1>3. \A n : NextNode(n)' = NextNode(n) /\ Owner(n)' = Owner(n)
  BY <1>1, ListsUnchanged
<1>4. \A c : Caching(c)' = Caching(c)
  BY <1>1, ListsUnchanged
<1>5. CacheTypes' /\ BestInv'
  BY <1>1 DEF CacheInv, CacheTypes, BestInv
<1>6. WalkInv'
  <2>1. WalkInv
    BY DEF CacheInv
  <2> QED BY <1>1, <1>3, <1>4, <2>1 DEF WalkInv, Owner, NextNode
<1>7. CachedPtrCurrent'
  BY <1>1, <1>4 DEF CacheInv, CachedPtrCurrent
<1> QED BY <1>2, <1>5, <1>6, <1>7 DEF CacheInv

\* A miss: the site takes the callee with its best entry point.
LEMMA PopulateKeepsCaches ==
    ASSUME CacheInv, patching = None, NEW s \in Sites, NEW f \in Fn,
           cached' = [cached EXCEPT ![s] = f],
           codePtr' = [codePtr EXCEPT ![s] = best[ExecOf[f]]],
           Relink(s, ExecOf[f]), UNCHANGED <<compiled, best, patching>>
    PROVE  CacheInv'
<1>1. Linked' /\ Complete'
  BY RelinkKeepsLinked, RelinkKeepsComplete DEF CacheInv
<1>2. CacheTypes' /\ BestInv' /\ WalkInv'
  BY DEF CacheInv, CacheTypes, BestInv, WalkInv
<1>3. CachedPtrCurrent'
  <2> SUFFICES ASSUME NEW c \in Code, NEW t \in Caching(c)' PROVE codePtr'[t] = best'[c]
    BY DEF CachedPtrCurrent
  <2>1. CASE t = s
    BY <2>1, CodeAssumption DEF Caching, CacheInv, CacheTypes
  <2>2. CASE t # s
    <3>1. t \in Caching(c)
      BY <2>2 DEF Caching, CacheInv, CacheTypes
    <3> QED BY <2>2, <3>1 DEF CacheInv, CacheTypes, CachedPtrCurrent
  <2> QED BY <2>1, <2>2
<1> QED BY <1>1, <1>2, <1>3 DEF CacheInv

\* The walk starts: all sites of the code lie ahead of its anchor.
LEMMA CodegenKeepsInv ==
    ASSUME Inv, patching = None, stack # <<>>, Top.cb \notin compiled,
           Top.tier = "Prologue" \/ Top.tier = "Interpreter",
           DoCodegen(Top.cb), UNCHANGED <<stack, best, icVars>>
    PROVE  Inv'
<1> DEFINE b == Top.cb
<1>1. b \in Bytecode /\ b \in Code /\ b \in Node /\ b \notin Sites
  BY TopFacts, CodeAssumption DEF Inv, IsFrame, Node
<1>2. /\ patching' = [cb |-> b, cur |-> b] /\ patching'.cb = b /\ patching'.cur = b
      /\ patching' \in [cb : Bytecode, cur : Node]
      /\ compiled' = compiled \cup {b} /\ aborted' = aborted
  BY <1>1 DEF DoCodegen
<1>3. patching' # None
  BY <1>2, CodeAssumption
<1>4. UNCHANGED <<cached, prevOffset, nextOffset>> /\ codePtr' = codePtr
  BY DEF icVars
<1>5. /\ \A n : NextNode(n)' = NextNode(n)
      /\ \A n : Owner(n)' = Owner(n)
      /\ \A c : Caching(c)' = Caching(c)
      /\ Linked' /\ Complete'
  BY <1>4, ListsUnchanged DEF Inv
<1>6. CacheTypes'
  BY <1>1, <1>2, <1>4 DEF Inv, CacheTypes
<1>7. BestInv'
  <2> HIDE DEF b
  <2>1. b \notin compiled
    BY DEF b
  <2> QED BY <1>2, <1>3, <2>1 DEF Inv, BestInv
<1>8. CachedPtrCurrent'
  BY <1>4, <1>5 DEF Inv, CachedPtrCurrent
<1>9. WalkInv'
  <2> HIDE DEF b
  <2>2. ASSUME NEW S \in SUBSET Node, b \in S,
               \A n \in S : NextNode(n) = b \/ NextNode(n) \in S
        PROVE  Caching(b) \subseteq S
    BY <1>1, <2>2 DEF Inv, Complete
  <2> QED BY <1>1, <1>2, <1>5, <2>2 DEF WalkInv, NextNode, Owner
<1>10. StackInv'
  <2>1. Len(stack) \in Nat \ {0} /\ Top' = Top
    BY TopFacts DEF Inv, Top
  <2>2. \A i \in 1 .. Len(stack) : stack[i].tier = "Prologue" => stack[i].cb = b
    BY DEF Inv, StackInv, Top
  <2> HIDE DEF b
  <2>3. patching'.cb = Top.cb
    BY <1>2 DEF b
  <2> QED BY <1>2, <1>3, <2>1, <2>2, <2>3 DEF Inv, StackInv
<1> QED BY <1>5, <1>6, <1>7, <1>8, <1>9, <1>10 DEF Inv

\* One round of the walk: the next node is a site of the code, and no site is
\* passed over.
LEMMA PatchNextKeepsInv ==
    ASSUME Inv, PatchNext
    PROVE  Inv'
<1> DEFINE b == patching.cb
           m == NextNode(patching.cur)
<1>1. /\ patching # None /\ patching \in [cb : Bytecode, cur : Node]
      /\ b \in compiled /\ Owner(patching.cur) = b
      /\ patching.cur \in Sites => codePtr[patching.cur] = BaselineEntry[b]
  BY DEF Inv, WalkInv, PatchNext
<1>2. b \in Bytecode /\ b \in Code /\ patching.cur \in Node
  BY <1>1, CodeAssumption
<1>3. m \in Node /\ Owner(m) = b /\ m # b
  BY <1>1, <1>2 DEF Inv, Linked, PatchNext
<1>4. m \in Sites /\ m \in Caching(b)
  BY <1>2, <1>3, CodeAssumption DEF Owner, Node, Caching
<1>5. /\ codePtr' = [codePtr EXCEPT ![m] = BaselineEntry[b]]
      /\ patching' = [patching EXCEPT !.cur = m]
      /\ UNCHANGED <<compiled, best, stack, aborted, cached, prevOffset, nextOffset>>
  BY DEF PatchNext
<1>6. patching' \in [cb : Bytecode, cur : Node] /\ patching'.cb = b /\ patching'.cur = m
  BY <1>1, <1>3, <1>5
<1>7. patching' # None
  BY <1>6, CodeAssumption
<1>8. /\ \A n : NextNode(n)' = NextNode(n)
      /\ \A n : Owner(n)' = Owner(n)
      /\ \A c : Caching(c)' = Caching(c)
      /\ Linked' /\ Complete'
  BY <1>5, ListsUnchanged DEF Inv
<1>9. CacheTypes'
  BY <1>5 DEF Inv, CacheTypes
<1>10. BestInv'
  BY <1>1, <1>5, <1>6, <1>7 DEF Inv, BestInv
<1>11. \A s \in Sites : codePtr'[s] = IF s = m THEN BaselineEntry[b] ELSE codePtr[s]
  BY <1>4, <1>5 DEF Inv, CacheTypes
<1>12. CachedPtrCurrent'
  <2> SUFFICES ASSUME NEW c \in Code, NEW s \in Caching(c)
               PROVE  codePtr'[s] = best[c] \/ (c = b /\ codePtr'[s] = BaselineEntry[c])
    BY <1>5, <1>6, <1>7, <1>8 DEF CachedPtrCurrent
  <2>1. s \in Sites
    BY DEF Caching
  <2>2. CASE s = m
    BY <1>4, <1>11, <2>1, <2>2 DEF Caching
  <2>3. CASE s # m
    BY <1>1, <1>11, <2>1, <2>3 DEF Inv, CachedPtrCurrent
  <2> QED BY <2>2, <2>3
<1>13. WalkInv'
  <2> HIDE DEF b, m
  <2>1. ASSUME NEW S \in SUBSET Node, m \in S,
               \A n \in S : NextNode(n) = b \/ NextNode(n) \in S,
               NEW s \in Caching(b)
        PROVE  codePtr'[s] = BaselineEntry[b] \/ s \in S
    <3> DEFINE T == S \cup {patching.cur}
    <3>1. T \in SUBSET Node /\ patching.cur \in T
      BY <1>2
    <3>2. \A n \in T : NextNode(n) = b \/ NextNode(n) \in T
      BY <2>1 DEF m
    <3>3. s \in Sites
      BY DEF Caching
    <3>4. codePtr[s] = BaselineEntry[b] \/ s \in T
      <4> HIDE DEF T
      <4> QED BY <1>1, <3>1, <3>2 DEF Inv, WalkInv, b
    <3> QED BY <1>1, <1>11, <3>3, <3>4
  <2>2. \A n \in Node : Owner(n)' = Owner(n)
    BY <1>8
  <2>3. m \in Sites => codePtr'[m] = BaselineEntry[b]
    BY <1>11
  <2>4. Owner(patching.cur)' = b
    BY <1>3, <1>5, <1>6 DEF Owner
  <2> QED BY <1>1, <1>5, <1>6, <1>8, <2>1, <2>3, <2>4 DEF WalkInv, NextNode
<1>14. StackInv'
  <2> HIDE DEF m
  <2> QED BY <1>1, <1>5, <1>6, <1>7 DEF Inv, StackInv, Top
<1> QED BY <1>8, <1>9, <1>10, <1>12, <1>13, <1>14 DEF Inv

\* The walk ends: {patching.cur} is closed, so nothing is left to patch.
LEMMA FinishPatchingKeepsInv ==
    ASSUME Inv, FinishPatching
    PROVE  Inv'
<1> DEFINE b == patching.cb
<1>1. /\ patching # None /\ patching \in [cb : Bytecode, cur : Node]
      /\ b \in compiled /\ Owner(patching.cur) = b
      /\ patching.cur \in Sites => codePtr[patching.cur] = BaselineEntry[b]
  BY DEF Inv, WalkInv, FinishPatching
<1>2. b \in Bytecode /\ b \in Code /\ patching.cur \in Node
  BY <1>1, CodeAssumption
<1>3. /\ best' = [best EXCEPT ![b] = BaselineEntry[b]] /\ patching' = None
      /\ UNCHANGED <<compiled, codePtr, aborted, cached, prevOffset, nextOffset>>
      /\ NextNode(patching.cur) = b /\ SetTop(BaselineFrame(Top))
  BY DEF FinishPatching, icVars
<1>4. \A s \in Caching(b) : codePtr[s] = BaselineEntry[b]
  <2> DEFINE S == {patching.cur}
  <2>1. S \in SUBSET Node /\ patching.cur \in S /\ \A n \in S : NextNode(n) = b
    BY <1>2, <1>3
  <2>2. \A s \in Caching(b) : codePtr[s] = BaselineEntry[b] \/ s \in S
    <3> HIDE DEF S
    <3> QED BY <1>1, <2>1 DEF Inv, WalkInv
  <2>3. Caching(b) \subseteq Sites
    BY DEF Caching
  <2> QED BY <1>1, <2>2, <2>3
<1>5. (\A c : Caching(c)' = Caching(c)) /\ Linked' /\ Complete'
  BY <1>3, ListsUnchanged DEF Inv
<1>6. CacheTypes' /\ WalkInv'
  BY <1>3 DEF Inv, CacheTypes, WalkInv
<1>7. \A c \in Code : best'[c] = IF c = b THEN BaselineEntry[b] ELSE best[c]
  BY <1>2, <1>3 DEF Inv, CacheTypes
<1>8. BestInv'
  <2> HIDE DEF b
  <2>1. \A c \in Code : c # b => best[c] = IF c \in compiled THEN BaselineEntry[c] ELSE InterpEntry[c]
    BY DEF Inv, BestInv, b
  <2> QED BY <1>1, <1>3, <1>7, <2>1 DEF BestInv
<1>9. CachedPtrCurrent'
  <2> HIDE DEF b
  <2>1. \A c \in Code : \A s \in Caching(c) : c # b => codePtr[s] = best[c]
    BY DEF Inv, CachedPtrCurrent, b
  <2> QED BY <1>3, <1>4, <1>5, <1>7, <2>1 DEF CachedPtrCurrent
<1>10. StackInv'
  <2>1. stack # <<>> /\ IsFrame(Top)
    BY <1>1, TopFacts DEF Inv, StackInv
  <2>2. IsFrame(BaselineFrame(Top)) /\ BaselineFrame(Top).tier = "Baseline"
    BY <2>1, BaselineFrameFacts
  <2>3. ~aborted'
    BY <1>3 DEF Inv, StackInv
  <2> QED BY <1>3, <2>1, <2>2, <2>3, SetTopKeepsStack DEF Inv
<1> QED BY <1>5, <1>6, <1>8, <1>9, <1>10 DEF Inv

\* Calls: by a hit, by a miss, without a cache.
LEMMA CallKeepsInv ==
    ASSUME Inv, NEW f \in Fn, NEW tail \in BOOLEAN,
           (\E s \in Sites : CallIcHit(s, f, tail) \/ CallIcPopulate(s, f, tail)) \/ OtherCall(f, tail)
    PROVE  /\ Inv'
           /\ patching = None /\ compiled' = compiled
           /\ lastCall' = [fn |-> f, ptr |-> best[ExecOf[f]]]
<1>1. CacheInv /\ StackInv /\ BestInv
  BY DEF Inv, CacheInv
<1>2. ASSUME NEW s \in Sites, CallIcHit(s, f, tail)
      PROVE  /\ Inv' /\ patching = None /\ compiled' = compiled
             /\ lastCall' = [fn |-> f, ptr |-> best[ExecOf[f]]]
  <2>1. /\ patching = None /\ stack # <<>> /\ Top.tier # "Prologue" /\ cached[s] = f
        /\ Enter(f, codePtr[s], Callers(tail))
        /\ UNCHANGED <<compiled, best, icVars, patching, aborted>>
    BY <1>2 DEF CallIcHit, InTier, Running
  <2>2. codePtr[s] = best[ExecOf[f]]
    BY <2>1, CodeAssumption DEF Inv, CachedPtrCurrent, Caching
  <2>3. CacheInv'
    BY <1>1, <2>1, SameCaches
  <2>4. StackInv'
    BY <1>1, <2>1, <2>2, EnterKeepsStack
  <2> QED BY <2>1, <2>2, <2>3, <2>4 DEF Inv, CacheInv, Enter
<1>3. ASSUME NEW s \in Sites, CallIcPopulate(s, f, tail)
      PROVE  /\ Inv' /\ patching = None /\ compiled' = compiled
             /\ lastCall' = [fn |-> f, ptr |-> best[ExecOf[f]]]
  <2>1. /\ patching = None /\ stack # <<>> /\ Top.tier # "Prologue"
        /\ cached' = [cached EXCEPT ![s] = f]
        /\ codePtr' = [codePtr EXCEPT ![s] = best[ExecOf[f]]]
        /\ Relink(s, ExecOf[f])
        /\ Enter(f, best[ExecOf[f]], Callers(tail))
        /\ UNCHANGED <<compiled, best, patching, aborted>>
    BY <1>3 DEF CallIcPopulate, InTier, Running
  <2>2. CacheInv'
    BY <1>1, <2>1, PopulateKeepsCaches
  <2>3. StackInv'
    BY <1>1, <2>1, EnterKeepsStack
  <2> QED BY <2>1, <2>2, <2>3 DEF Inv, CacheInv, Enter
<1>4. ASSUME OtherCall(f, tail)
      PROVE  /\ Inv' /\ patching = None /\ compiled' = compiled
             /\ lastCall' = [fn |-> f, ptr |-> best[ExecOf[f]]]
  <2>1. /\ patching = None /\ (stack # <<>> => Top.tier # "Prologue") /\ (tail => stack # <<>>)
        /\ Enter(f, best[ExecOf[f]], Callers(tail))
        /\ UNCHANGED <<compiled, best, icVars, patching, aborted>>
    BY <1>4 DEF OtherCall, Running
  <2>2. CacheInv'
    BY <1>1, <2>1, SameCaches
  <2>3. StackInv'
    BY <1>1, <2>1, EnterKeepsStack
  <2> QED BY <2>1, <2>2, <2>3 DEF Inv, CacheInv, Enter
<1> QED BY <1>2, <1>3, <1>4

\* The prologue and OSR entry find the function compiled or compile it; an
\* activation in the prologue never finds it compiled.
LEMMA TierUpKeepsInv ==
    ASSUME Inv, Prologue \/ OsrEntry
    PROVE  /\ Inv' /\ lastCall' = lastCall
           /\ compiled' = compiled \/ \E c \in Bytecode : c \notin compiled /\ compiled' = compiled \cup {c}
<1>1. CacheInv /\ StackInv
  BY DEF Inv, CacheInv
<1>2. /\ patching = None /\ stack # <<>> /\ UNCHANGED <<best, icVars, lastCall>>
      /\ Top.tier = "Prologue" \/ Top.tier = "Interpreter"
  BY DEF Prologue, OsrEntry, InTier, Running
<1>3. IsFrame(Top) /\ Len(stack) \in Nat \ {0} /\ ~aborted
  BY <1>1, <1>2, TopFacts DEF StackInv
<1>4. Top.tier = "Prologue" => Top.cb \notin compiled
  BY <1>1, <1>2, <1>3 DEF StackInv, Top
<1>5. CASE DoCodegen(Top.cb) /\ Top.cb \notin compiled /\ stack' = stack
  <2>1. Inv'
    BY <1>2, <1>5, CodegenKeepsInv
  <2>2. compiled' = compiled \cup {Top.cb} /\ Top.cb \in Bytecode
    BY <1>3, <1>5 DEF DoCodegen, IsFrame
  <2> QED BY <1>2, <1>5, <2>1, <2>2
<1>6. ASSUME NEW x, IsFrame(x), x.tier # "Prologue", SetTop(x),
             UNCHANGED <<compiled, patching, aborted>>
      PROVE  Inv' /\ compiled' = compiled
  <2>1. CacheInv'
    BY <1>1, <1>2, <1>6, SameCaches
  <2>2. StackInv'
    BY <1>1, <1>2, <1>3, <1>6, SetTopKeepsStack
  <2> QED BY <1>6, <2>1, <2>2 DEF Inv, CacheInv
<1>7. \/ DoCodegen(Top.cb) /\ Top.cb \notin compiled /\ stack' = stack
      \/ SetTop([Top EXCEPT !.tier = "Interpreter"]) /\ UNCHANGED <<compiled, patching, aborted>>
      \/ SetTop(BaselineFrame(Top)) /\ UNCHANGED <<compiled, patching, aborted>>
  BY <1>4 DEF Prologue, OsrEntry, InTier
<1>8. /\ IsFrame([Top EXCEPT !.tier = "Interpreter"])
      /\ [Top EXCEPT !.tier = "Interpreter"].tier # "Prologue"
      /\ IsFrame(BaselineFrame(Top)) /\ BaselineFrame(Top).tier # "Prologue"
  <2> DEFINE x == Top
             y == [x EXCEPT !.tier = "Interpreter"]
  <2>1. IsFrame(y) /\ y.tier = "Interpreter"
    <3> HIDE DEF x
    <3>1. IsFrame(x)
      BY <1>3 DEF x
    <3> QED BY <3>1, TierFacts, Zenon
  <2>2. IsFrame(BaselineFrame(Top)) /\ BaselineFrame(Top).tier = "Baseline"
    BY <1>3, BaselineFrameFacts
  <2> QED BY <2>1, <2>2
<1>9. CASE SetTop([Top EXCEPT !.tier = "Interpreter"]) /\ UNCHANGED <<compiled, patching, aborted>>
  BY <1>2, <1>6, <1>8, <1>9
<1>10. CASE SetTop(BaselineFrame(Top)) /\ UNCHANGED <<compiled, patching, aborted>>
  BY <1>2, <1>6, <1>8, <1>10
<1> QED BY <1>5, <1>7, <1>9, <1>10

\* A branch of the interpreter.
LEMMA BranchKeepsInv ==
    ASSUME Inv, NEW c \in Bytecode, NEW i \in DOMAIN BytecodePtr[c], NEW check,
           Top.cb = c, NEW dst, dst = BytecodePtr[c][i], Branch(dst, check)
    PROVE  Inv'
<1>1. CacheInv /\ StackInv /\ ~aborted
  BY DEF Inv, CacheInv, StackInv
<1>2. /\ patching = None /\ stack # <<>> /\ Top.tier = "Interpreter"
      /\ SetTop([Top EXCEPT !.at = dst])
      /\ UNCHANGED <<compiled, best, icVars, patching, aborted>>
  BY DEF Branch, InTier, Running
<1>3. CacheInv'
  BY <1>1, <1>2, SameCaches
<1>4. IsFrame([Top EXCEPT !.at = dst]) /\ [Top EXCEPT !.at = dst].tier # "Prologue"
  <2>1. PICK x : x = Top /\ IsFrame(x) /\ x.cb = c /\ x.tier = "Interpreter"
    BY <1>1, <1>2, TopFacts
  <2>2. IsFrame([x EXCEPT !.at = dst]) /\ [x EXCEPT !.at = dst].tier = x.tier
    BY <2>1, PlaceFacts
  <2> QED BY <2>1, <2>2
<1>5. StackInv'
  BY <1>1, <1>2, <1>4, SetTopKeepsStack
<1> QED BY <1>3, <1>5 DEF Inv, CacheInv

\* Returns and throws.
LEMMA LeaveKeepsInv ==
    ASSUME Inv, NEW k \in 0 .. MaxDepth - 1, Leave(k)
    PROVE  Inv'
<1>1. CacheInv /\ StackInv /\ ~aborted
  BY DEF Inv, CacheInv, StackInv
<1>2. /\ patching = None /\ stack # <<>> /\ k < Len(stack)
      /\ stack' = SubSeq(stack, 1, Len(stack) - 1 - k)
      /\ UNCHANGED <<compiled, best, icVars, patching, aborted>>
  BY DEF Leave, Running
<1>3. CacheInv'
  BY <1>1, <1>2, SameCaches
<1>4. Len(stack) - 1 - k \in 0 .. Len(stack) - 1
  BY <1>1, <1>2, TopFacts
<1> DEFINE m == Len(stack) - 1 - k
           q == SubSeq(stack, 1, m)
<1>5. (\E S : q \in Seq(S)) /\ \A i \in 1 .. Len(q) : IsFrame(q[i]) /\ q[i].tier # "Prologue"
  <2> HIDE DEF m
  <2>1. m \in 0 .. Len(stack) - 1
    BY <1>4 DEF m
  <2> QED BY <1>1, <1>2, <2>1, CutFacts
<1>6. StackInv'
  <2>1. stack' = q /\ patching' = None /\ ~aborted'
    BY <1>1, <1>2
  <2> HIDE DEF q
  <2> QED BY <1>5, <2>1, CutKeepsStack
<1> QED BY <1>3, <1>6 DEF Inv, CacheInv

\* Every step preserves the invariant, and is a step of CallDispatch or leaves
\* its variables alone.
LEMMA NextInv ==
    Inv /\ [Next]_vars => Inv' /\ [Dispatch!Next]_<<compiled, lastCall>>
<1> SUFFICES ASSUME Inv, [Next]_vars
             PROVE  Inv' /\ [Dispatch!Next]_<<compiled, lastCall>>
  OBVIOUS
<1>1. ASSUME NEW f \in Fn, NEW tail \in BOOLEAN,
             (\E s \in Sites : CallIcHit(s, f, tail) \/ CallIcPopulate(s, f, tail)) \/ OtherCall(f, tail)
      PROVE  Inv' /\ Dispatch!Next
  <2>1. /\ Inv' /\ patching = None /\ compiled' = compiled
        /\ lastCall' = [fn |-> f, ptr |-> best[ExecOf[f]]]
    BY <1>1, CallKeepsInv
  <2>2. best[ExecOf[f]] = Dispatch!EntryPointOf(ExecOf[f])
    BY <2>1, CodeAssumption DEF Inv, BestInv, Dispatch!EntryPointOf
  <2> QED BY <2>1, <2>2 DEF Dispatch!Next, Dispatch!Call
<1>2. CASE Prologue \/ OsrEntry
  <2>1. /\ Inv' /\ lastCall' = lastCall
        /\ compiled' = compiled \/ \E c \in Bytecode : c \notin compiled /\ compiled' = compiled \cup {c}
    BY <1>2, TierUpKeepsInv
  <2> QED BY <2>1 DEF Dispatch!Next, Dispatch!TierUp
<1>3. CASE Patch
  BY <1>3, PatchNextKeepsInv, FinishPatchingKeepsInv DEF Patch, PatchNext, FinishPatching
<1>4. ASSUME NEW c \in Bytecode, NEW i \in DOMAIN BytecodePtr[c], NEW check \in BOOLEAN,
             Top.cb = c, Branch(BytecodePtr[c][i], check)
      PROVE  Inv' /\ UNCHANGED <<compiled, lastCall>>
  BY <1>4, BranchKeepsInv DEF Branch
<1>5. ASSUME NEW k \in 0 .. MaxDepth - 1, Leave(k)
      PROVE  Inv' /\ UNCHANGED <<compiled, lastCall>>
  BY <1>5, LeaveKeepsInv DEF Leave
<1>6. CASE UNCHANGED vars
  <2>1. UNCHANGED <<compiled, best, icVars, patching>> /\ stack' = stack /\ aborted' = aborted /\ lastCall' = lastCall
    BY <1>6 DEF vars
  <2>2. CacheInv'
    BY <2>1, SameCaches DEF Inv, CacheInv
  <2>3. StackInv'
    BY <2>1 DEF Inv, StackInv, Top
  <2> QED BY <2>1, <2>2, <2>3 DEF Inv, CacheInv
<1> QED BY <1>1, <1>2, <1>3, <1>4, <1>5, <1>6 DEF Next

-----------------------------------------------------------------------------
(***************************************************************************)
(* Theorems.                                                               *)
(***************************************************************************)
\* Always: the offset lists are permutations split by code, complete from
\* each anchor; best entry points follow the tier; the walk of
\* UpdateBestEntryPoint has patched all sites but those still ahead of it; no
\* prologue below the top of the stack.
THEOREM InterpCacheInvariant == Spec => []Inv
  BY InitInv, NextInv, PTL DEF Spec

\* After any sequence of calls and tier-ups, every code pointer cached by an
\* interpreter call site is the best entry point of its callee.
THEOREM NoStaleCachedPointer == Spec => []CachedPtrCurrent
<1>1. Inv => CachedPtrCurrent
  BY DEF Inv
<1> QED BY <1>1, InterpCacheInvariant, PTL

\* The offsets of every list lead once around it: from the anchor through each
\* site that caches the code and back, and the same way in reverse, whatever the
\* sites were linked to before.
THEOREM CallSiteListsExact == Spec => []ListsExact
<1>1. Inv => ListsExact
  BY ListsAreExact DEF Inv
<1> QED BY <1>1, InterpCacheInvariant, PTL

\* An activation that leaves the interpreter in the middle of a function goes on
\* in baseline code at the same bytecode: the binary search over wrapped
\* addresses finds it, for any number of bytecodes.
THEOREM OsrContinues == Spec => OsrKeepsBytecode
<1>1. ASSUME Inv, stack # <<>>, SetTop(BaselineFrame(Top))
      PROVE  stack' = [stack EXCEPT ![Len(stack)].tier = "Baseline"]
  <2>1. PICK n \in Nat \ {0} : n = Len(stack)
    BY <1>1, TopFacts DEF Inv
  <2>2. PICK x : x = stack[n] /\ x = Top /\ IsFrame(x)
    BY <1>1, <2>1, TopFacts DEF Inv, Top
  <2>3. BaselineFrame(x) = [x EXCEPT !.tier = "Baseline"]
    <3>1. BaselineFrame(x) = [cb |-> x.cb, tier |-> "Baseline", at |-> x.at]
      BY <2>2, BaselineFrameFacts
    <3>2. [x EXCEPT !.tier = "Baseline"] = [cb |-> x.cb, tier |-> "Baseline", at |-> x.at]
      BY <2>2 DEF IsFrame
    <3> QED BY <3>1, <3>2
  <2>4. PICK y : y = BaselineFrame(x)
    OBVIOUS
  <2>5. PICK S : stack \in Seq(S)
    BY <1>1 DEF Inv, StackInv
  <2>6. PICK q : q = SubSeq(stack, 1, n - 1)
    OBVIOUS
  <2>7. n - 1 \in 0 .. Len(stack)
    BY <2>1
  <2>8. q \in Seq(S) /\ Len(q) = n - 1 /\ \A i \in 1 .. n - 1 : q[i] = stack[i]
    BY <2>5, <2>6, <2>7, PrefixFacts
  <2>9. stack' = q \o <<y>>
    BY <1>1, <2>1, <2>2, <2>4, <2>6 DEF SetTop, Below
  <2>10. /\ stack' \in Seq(S \cup {y}) /\ Len(stack') = n
         /\ \A i \in 1 .. n - 1 : stack'[i] = stack[i]
         /\ stack'[n] = y
    BY <2>8, <2>9, PushFacts
  <2>11. stack' = [i \in 1 .. n |-> stack'[i]]
    BY <2>10
  <2>12. stack = [i \in 1 .. n |-> stack[i]]
    BY <2>1, <2>5
  <2>13. \A i \in 1 .. n : stack'[i] = IF i = n THEN y ELSE stack[i]
    BY <2>10
  <2>14. [stack EXCEPT ![n] = y] = [i \in 1 .. n |-> IF i = n THEN y ELSE stack[i]]
    BY <2>12
  <2>15. stack' = [stack EXCEPT ![n] = y]
    BY <2>11, <2>13, <2>14
  <2> QED BY <2>1, <2>2, <2>3, <2>4, <2>15
<1>2. Inv /\ [Next]_vars =>
        [(OsrEntry \/ FinishPatching) /\ stack' # stack =>
            stack' = [stack EXCEPT ![Len(stack)].tier = "Baseline"]]_vars
  <2> SUFFICES ASSUME Inv, OsrEntry \/ FinishPatching, stack' # stack
               PROVE  stack' = [stack EXCEPT ![Len(stack)].tier = "Baseline"]
    OBVIOUS
  <2>1. CASE OsrEntry
    <3>1. stack # <<>> /\ SetTop(BaselineFrame(Top))
      BY <2>1 DEF OsrEntry, InTier
    <3> QED BY <1>1, <3>1
  <2>2. CASE FinishPatching
    <3>1. stack # <<>> /\ SetTop(BaselineFrame(Top))
      BY <2>2 DEF FinishPatching, Inv, StackInv
    <3> QED BY <1>1, <3>1
  <2> QED BY <2>1, <2>2
<1> QED BY <1>2, InterpCacheInvariant, PTL DEF Spec, OsrKeepsBytecode

\* ReleaseAssert(cb->m_baselineCodeBlock == nullptr) never fails: prologue and
\* OSR entry compile a function only once, however the activations of a
\* recursive function are spread over the tiers.
THEOREM FunctionsCompiledOnce == Spec => []CompiledOnce
<1>1. Inv => CompiledOnce
  BY DEF Inv, StackInv, CompiledOnce
<1> QED BY <1>1, InterpCacheInvariant, PTL

\* The interpreter's caches implement dispatch to the current best entry
\* point: calls are abstract calls, the start of UpdateBestEntryPoint is the
\* abstract tier-up, and every other step stutters.
THEOREM InterpImplementsDispatch == Spec => DispatchSpec
<1>1. Init => Dispatch!Init
  BY DEF Init, Dispatch!Init
<1> QED BY <1>1, InitInv, NextInv, PTL DEF Spec, DispatchSpec, Dispatch!Spec
=============================================================================
