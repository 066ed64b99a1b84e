------------------------ MODULE MemoryAllocatorProofs ------------------------
(***************************************************************************)
(* The allocators of the VM that one thread uses.  Objects of the user and *)
(* the system heap (VmHeaps) never overlap and are always mapped, for      *)
(* regions, growth steps and lengths of any size.  The allocator of JIT    *)
(* memory (JitMemoryAllocator) keeps every cell, page and large allocation *)
(* on exactly the lists it belongs to and accounts for all memory, for any *)
(* table of cell sizes, any page size and any number of pages.             *)
(***************************************************************************)
EXTENDS VmHeaps, JitMemoryAllocator, FiniteSetTheorems, WellFoundedInduction, TLAPS

-----------------------------------------------------------------------------
(***************************************************************************)
(* The VM heaps: rounding.                                                 *)
(***************************************************************************)
\* Quotient and remainder.
LEMMA DivMod ==
    ASSUME NEW m \in Nat \ {0}, NEW x \in Int
    PROVE  /\ x % m \in 0 .. m - 1
           /\ x \div m \in Int
           /\ x = m * (x \div m) + (x % m)
  OBVIOUS

\* A multiple of m that is at most x is at most x rounded down to m.
LEMMA RoundDownFacts ==
    ASSUME NEW m \in Nat \ {0}, NEW x \in Int, NEW b \in Int, b % m = 0, -b <= x
    PROVE  /\ RoundDown(x, m) \in Int
           /\ RoundDown(x, m) <= x
           /\ -b <= RoundDown(x, m)
<1>1. x = m * (x \div m) + (x % m) /\ x % m \in 0 .. m - 1 /\ x \div m \in Int
  BY DivMod
<1>2. b = m * (b \div m) /\ b \div m \in Int
  BY DivMod
<1> DEFINE q == x \div m
           k == -(b \div m)
<1>3. q \in Int /\ k \in Int /\ -b = m * k
  BY <1>1, <1>2
<1>4. RoundDown(x, m) = m * q /\ x < m * q + m
  BY <1>1 DEF RoundDown
<1> HIDE DEF q, k
<1>5. k <= q
  <2> SUFFICES ASSUME q + 1 <= k PROVE FALSE
    BY <1>3
  <2>1. m * (q + 1) <= m * k
    BY <1>3
  <2>2. m * (q + 1) = m * q + m
    BY <1>3
  <2> QED BY <1>3, <1>4, <2>1, <2>2
<1>6. m * k <= m * q
  BY <1>3, <1>5
<1> QED BY <1>1, <1>3, <1>4, <1>6 DEF RoundDown

\* Rounding up adds less than m.
LEMMA RoundUpFacts ==
    ASSUME NEW m \in Nat \ {0}, NEW x \in Int
    PROVE  /\ RoundUp(x, m) \in Int
           /\ x <= RoundUp(x, m)
           /\ RoundUp(x, m) < x + m
<1>1. x + m - 1 \in Int
  OBVIOUS
<1>2. (x + m - 1) % m \in 0 .. m - 1
  BY <1>1, DivMod
<1> QED BY <1>1, <1>2 DEF RoundUp

-----------------------------------------------------------------------------
(***************************************************************************)
(* The inductive invariant of the heaps.  Each heap's objects lie on the   *)
(* used side of its bump pointer, which never passes the mapped limit.     *)
(***************************************************************************)
UserInv ==
    /\ userCur \in Int /\ userLimit \in Int
    /\ -VmBaseOffset <= userLimit /\ userLimit <= userCur /\ userCur <= UserTop
    /\ userObjs \subseteq Object
    /\ \A a \in userObjs : userCur <= a.start /\ a.start < a.end /\ a.end <= UserTop
    /\ \A a, b \in userObjs : a = b \/ Disjoint(a, b)

SysInv ==
    /\ sysCur \in Int /\ sysLimit \in Int
    /\ VmSize <= sysCur /\ sysCur <= sysLimit /\ sysLimit <= Int32Max
    /\ sysObjs \subseteq Object
    /\ \A a \in sysObjs : VmSize <= a.start /\ a.start < a.end /\ a.end <= sysCur
    /\ \A a, b \in sysObjs : a = b \/ Disjoint(a, b)

HeapInv == UserInv /\ SysInv /\ failed \in BOOLEAN

\* Both heaps start empty: the VM object takes the first part of the system heap.
LEMMA InitHeap == InitializeVMBase => HeapInv
<1> SUFFICES ASSUME InitializeVMBase PROVE HeapInv
  OBVIOUS
<1>1. UserInv
  BY HeapAssumption DEF InitializeVMBase, UserInv, UserTop
<1>2. SysInv
  <2>1. RoundUp(VmSize, VmPageSize) \in Int /\ VmSize <= RoundUp(VmSize, VmPageSize)
        /\ RoundUp(VmSize, VmPageSize) < VmSize + VmPageSize
    BY HeapAssumption, RoundUpFacts
  <2> QED BY <2>1, HeapAssumption DEF InitializeVMBase, SysInv
<1> QED BY <1>1, <1>2 DEF HeapInv, InitializeVMBase

\* A new user object ends at the old bump pointer, below all others.
LEMMA UserStep ==
    ASSUME HeapInv, NEW length \in Lengths, AllocFromUserHeap(length)
    PROVE  HeapInv'
<1> DEFINE cur == userCur - length
           obj == [start |-> cur, end |-> userCur]
<1>1. SysInv' /\ length \in Int /\ length > 0
  BY HeapAssumption DEF HeapInv, SysInv, AllocFromUserHeap, sys, Disjoint
<1>2. CASE failed' = TRUE /\ UNCHANGED user
  BY <1>1, <1>2 DEF HeapInv, UserInv, user, Disjoint
<1>3. ASSUME userCur' = cur, userObjs' = userObjs \cup {obj}, UNCHANGED failed,
             userLimit' \in Int, -VmBaseOffset <= userLimit', userLimit' <= cur
      PROVE  HeapInv'
  <2>1. obj \in Object /\ obj.start = cur /\ obj.end = userCur /\ cur \in Int
    BY <1>1 DEF HeapInv, UserInv, Object
  <2>2. \A a \in userObjs' : cur <= a.start /\ a.start < a.end /\ a.end <= UserTop
    BY <1>1, <1>3, <2>1, HeapAssumption DEF HeapInv, UserInv, Object, UserTop
  <2>3. \A a \in userObjs : Disjoint(a, obj) /\ Disjoint(obj, a)
    BY <2>1 DEF HeapInv, UserInv, Disjoint
  <2>4. \A a, b \in userObjs' : a = b \/ Disjoint(a, b)
    BY <1>3, <2>3 DEF HeapInv, UserInv
  <2>5. cur <= UserTop
    BY <1>1, HeapAssumption DEF HeapInv, UserInv, UserTop
  <2> QED BY <1>1, <1>3, <2>1, <2>2, <2>4, <2>5 DEF HeapInv, UserInv
<1>4. CASE cur >= userLimit /\ UNCHANGED <<userLimit, failed>>
           /\ userCur' = cur /\ userObjs' = userObjs \cup {obj}
  BY <1>1, <1>3, <1>4 DEF HeapInv, UserInv
<1>5. CASE cur >= -VmBaseOffset /\ userLimit' = BumpUserHeap(cur)
           /\ userCur' = cur /\ userObjs' = userObjs \cup {obj} /\ UNCHANGED failed
  <2>1. PICK c \in Int : c = cur
    BY <1>1 DEF HeapInv, UserInv
  <2>2. VmBaseOffset \in Int /\ AllocSize \in Nat \ {0} /\ VmBaseOffset % AllocSize = 0
        /\ -VmBaseOffset <= c
    BY <1>5, <2>1, HeapAssumption
  <2>3. RoundDown(c, AllocSize) \in Int /\ RoundDown(c, AllocSize) <= c
        /\ -VmBaseOffset <= RoundDown(c, AllocSize)
    BY <2>2, RoundDownFacts
  <2> HIDE DEF cur
  <2>4. RoundDown(cur, AllocSize) \in Int /\ RoundDown(cur, AllocSize) <= cur
        /\ -VmBaseOffset <= RoundDown(cur, AllocSize)
    BY <2>1, <2>3
  <2> QED BY <1>3, <1>5, <2>4 DEF BumpUserHeap
<1> QED BY <1>2, <1>4, <1>5 DEF AllocFromUserHeap

\* A new system object starts at the old bump pointer, above all others.
LEMMA SysStep ==
    ASSUME HeapInv, NEW length \in Lengths, AllocFromSystemHeap(length)
    PROVE  HeapInv'
<1> DEFINE cur == (sysCur + length) % Uint32Mod
           obj == [start |-> sysCur, end |-> cur]
<1>1. UserInv' /\ length \in Int /\ length > 0
  BY HeapAssumption DEF HeapInv, UserInv, AllocFromSystemHeap, user, Disjoint
<1>2. CASE failed' = TRUE /\ UNCHANGED sys
  BY <1>1, <1>2 DEF HeapInv, SysInv, sys, Disjoint
<1>3. CASE /\ ~Overflows(length)
           /\ cur <= sysLimit \/ ~ExceedsTwoGB(cur)
           /\ sysLimit' = IF cur > sysLimit THEN RoundUp(cur, AllocSize) ELSE sysLimit
           /\ sysCur' = cur /\ sysObjs' = sysObjs \cup {obj}
           /\ UNCHANGED failed
  <2>1. cur = sysCur + length
    <3>1. sysCur + length \in 0 .. Uint32Mod - 1 /\ Uint32Mod \in Nat \ {0}
      BY <1>1, <1>3, HeapAssumption DEF HeapInv, SysInv, Overflows
    <3>2. \A m \in Nat \ {0} : \A r \in 0 .. m - 1 : r % m = r
      OBVIOUS
    <3> QED BY <3>1, <3>2
  <2> HIDE DEF cur
  <2>2. cur \in Int /\ sysCur < cur
    BY <1>1, <2>1 DEF HeapInv, SysInv
  <2>3. sysLimit' \in Int /\ cur <= sysLimit' /\ sysLimit' <= Int32Max
    <3>1. CASE cur > sysLimit
      <4>1. RoundUp(cur, AllocSize) \in Int /\ cur <= RoundUp(cur, AllocSize)
            /\ RoundUp(cur, AllocSize) < cur + AllocSize
        BY <2>2, HeapAssumption, RoundUpFacts
      <4>2. cur <= Int32Max - AllocSize
        BY <1>3, <2>2, <3>1, HeapAssumption DEF ExceedsTwoGB, HeapInv, SysInv
      <4> QED BY <1>3, <2>2, <3>1, <4>1, <4>2, HeapAssumption
    <3>2. CASE ~(cur > sysLimit)
      BY <1>3, <2>2, <3>2 DEF HeapInv, SysInv
    <3> QED BY <3>1, <3>2
  <2>4. obj \in Object /\ obj.start = sysCur /\ obj.end = cur
    BY <2>2 DEF HeapInv, SysInv, Object
  <2>5. \A a \in sysObjs' : VmSize <= a.start /\ a.start < a.end /\ a.end <= cur
    BY <1>3, <2>2, <2>4, HeapAssumption DEF HeapInv, SysInv, Object
  <2>6. \A a \in sysObjs : Disjoint(a, obj) /\ Disjoint(obj, a)
    BY <2>4 DEF HeapInv, SysInv, Disjoint
  <2>7. \A a, b \in sysObjs' : a = b \/ Disjoint(a, b)
    BY <1>3, <2>6 DEF HeapInv, SysInv
  <2>8. VmSize <= cur
    BY <2>2, HeapAssumption DEF HeapInv, SysInv
  <2> QED BY <1>1, <1>3, <2>2, <2>3, <2>4, <2>5, <2>7, <2>8 DEF HeapInv, SysInv
<1> QED BY <1>2, <1>3 DEF AllocFromSystemHeap

\* The inductive invariant of both heaps (VM::AllocFromUserHeap, VM::AllocFromSystemHeap).
THEOREM HeapInvariant == HeapSpec => []HeapInv
<1>1. HeapInv /\ UNCHANGED heapVars => HeapInv'
  BY DEF HeapInv, UserInv, SysInv, heapVars, Disjoint
<1>2. HeapInv /\ [HeapNext]_heapVars => HeapInv'
  BY <1>1, UserStep, SysStep DEF HeapNext
<1> QED BY <1>2, InitHeap, PTL DEF HeapSpec

\* Objects of either heap never share memory.
THEOREM HeapObjectsDisjoint == HeapSpec => []ObjectsDisjoint
<1>1. HeapInv => ObjectsDisjoint
  <2> SUFFICES ASSUME HeapInv PROVE ObjectsDisjoint
    OBVIOUS
  <2>1. \A a \in userObjs, b \in sysObjs : Disjoint(a, b)
    BY HeapAssumption DEF HeapInv, UserInv, SysInv, UserTop, Disjoint, Object
  <2> QED BY <2>1 DEF HeapInv, UserInv, SysInv, ObjectsDisjoint
<1> QED BY <1>1, HeapInvariant, PTL

\* Objects of either heap lie in mapped memory, and neither heap outgrows the
\* address space reserved for it.
THEOREM HeapObjectsMapped == HeapSpec => []ObjectsMapped
<1>1. HeapInv => ObjectsMapped
  BY HeapAssumption DEF HeapInv, UserInv, SysInv, UserTop, Object, ObjectsMapped
<1> QED BY <1>1, HeapInvariant, PTL

\* The order of the naturals as a relation.
LEMMA NatOrder == \E R : IsWellFoundedOn(R, Nat) /\ \A x, y \in Nat : <<x, y>> \in R <=> x < y
<1>1. IsWellFoundedOn(OpToRel(<, Nat), Nat)
  BY NatLessThanWellFounded
<1>2. \A x, y \in Nat : <<x, y>> \in OpToRel(<, Nat) <=> x < y
  BY DEF OpToRel
<1> QED BY <1>1, <1>2, Zenon

\* Every nonempty set of naturals has a least element.
LEMMA LeastNat ==
    ASSUME NEW T \in SUBSET Nat, T # {}
    PROVE  \E m \in T : \A k \in T : m <= k
<1>1. PICK R : IsWellFoundedOn(R, Nat) /\ \A x, y \in Nat : <<x, y>> \in R <=> x < y
  BY NatOrder
<1>2. PICK m \in T : \A y \in T : ~(<<y, m>> \in R)
  <2>1. IsWellFoundedOn(R, Nat) /\ T \subseteq Nat
    BY <1>1
  <2> QED BY <2>1, WFMin
<1>3. \A y \in T : ~(y < m)
  BY <1>1, <1>2, Zenon
<1> QED BY <1>3

-----------------------------------------------------------------------------
(***************************************************************************)
(* Linked lists.                                                           *)
(***************************************************************************)
\* F is the set of nodes of the list that starts at head: links stay in the
\* list, no two links lead to one node, none to the head, and no smaller set
\* is closed.
IsList(head, link, end, F) ==
    /\ end \notin F
    /\ head \in F \cup {end}
    /\ \A x \in F : link[x] \in F \cup {end} /\ link[x] # head
    /\ \A x, y \in F : link[x] = link[y] /\ link[x] # end => x = y
    /\ \A S \in SUBSET F :
         head \in S \cup {end} /\ (\A x \in S : link[x] \in S \cup {end}) => S = F

\* A list without a node.
LEMMA EmptyList ==
    ASSUME NEW link, NEW end
    PROVE  IsList(end, link, end, {})
  BY DEF IsList

\* A list that ends at its head has no node.
LEMMA EmptyHead ==
    ASSUME NEW link, NEW end, NEW F, IsList(end, link, end, F)
    PROVE  F = {}
<1>1. {} \in SUBSET F /\ end \in {} \cup {end} /\ \A x \in {} : link[x] \in {} \cup {end}
  OBVIOUS
<1> QED BY <1>1 DEF IsList

\* Links outside of a list do not matter.
LEMMA SameList ==
    ASSUME NEW head, NEW link, NEW end, NEW F, IsList(head, link, end, F),
           NEW link2, \A x \in F : link2[x] = link[x]
    PROVE  IsList(head, link2, end, F)
  BY DEF IsList

\* A new first node.
LEMMA PushList ==
    ASSUME NEW head, NEW link, NEW end, NEW F, IsList(head, link, end, F),
           NEW x, x \notin F, x # end,
           NEW link2, link2[x] = head, \A y \in F : link2[y] = link[y]
    PROVE  IsList(x, link2, end, F \cup {x})
<1>1. /\ end \notin F /\ head \in F \cup {end}
      /\ \A y \in F : link[y] \in F \cup {end} /\ link[y] # head
      /\ \A y, z \in F : link[y] = link[z] /\ link[y] # end => y = z
  BY DEF IsList
<1>2. ASSUME NEW S \in SUBSET (F \cup {x}), x \in S \cup {end},
             \A y \in S : link2[y] \in S \cup {end}
      PROVE  S = F \cup {x}
  <2> DEFINE T == S \cap F
  <2>1. T \in SUBSET F /\ x \in S
    BY <1>2
  <2>2. head \in T \cup {end}
    BY <1>1, <1>2, <2>1
  <2>3. \A y \in T : link[y] \in T \cup {end}
    BY <1>1, <1>2
  <2>4. T = F
    <3> HIDE DEF T
    <3> QED BY <2>1, <2>2, <2>3 DEF IsList
  <2> QED BY <2>1, <2>4
<1>3. end \notin F \cup {x} /\ x \in F \cup {x} \cup {end}
  BY <1>1
<1>4. \A y \in F \cup {x} : link2[y] \in F \cup {x} \cup {end} /\ link2[y] # x
  BY <1>1
<1>5. \A y, z \in F \cup {x} : link2[y] = link2[z] /\ link2[y] # end => y = z
  BY <1>1
<1> QED BY <1>2, <1>3, <1>4, <1>5 DEF IsList

\* The list without its first node.
LEMMA PopList ==
    ASSUME NEW head, NEW link, NEW end, NEW F, IsList(head, link, end, F), head # end,
           NEW link2, \A y \in F \ {head} : link2[y] = link[y]
    PROVE  head \in F /\ IsList(link[head], link2, end, F \ {head})
<1>1. /\ end \notin F /\ head \in F
      /\ \A y \in F : link[y] \in F \cup {end} /\ link[y] # head
      /\ \A y, z \in F : link[y] = link[z] /\ link[y] # end => y = z
  BY DEF IsList
<1>2. ASSUME NEW S \in SUBSET (F \ {head}), link[head] \in S \cup {end},
             \A y \in S : link2[y] \in S \cup {end}
      PROVE  S = F \ {head}
  <2> DEFINE T == S \cup {head}
  <2>1. T \in SUBSET F /\ head \in T \cup {end}
    BY <1>1
  <2>2. \A y \in T : link[y] \in T \cup {end}
    BY <1>2
  <2>3. T = F
    <3> HIDE DEF T
    <3> QED BY <2>1, <2>2 DEF IsList
  <2> QED BY <2>3
<1>3. link[head] \in (F \ {head}) \cup {end} /\ end \notin F \ {head}
  BY <1>1
<1>4. ASSUME NEW y \in F \ {head} PROVE link2[y] \in (F \ {head}) \cup {end} /\ link2[y] # link[head]
  <2>1. link2[y] = link[y]
    OBVIOUS
  <2>2. CASE link[head] = end
    <3>1. F = {head}
      <4>1. {head} \in SUBSET F /\ head \in {head} \cup {end} /\ \A z \in {head} : link[z] \in {head} \cup {end}
        BY <1>1, <2>2
      <4> QED BY <4>1 DEF IsList
    <3> QED BY <3>1
  <2>3. CASE link[head] # end
    BY <1>1, <2>1, <2>3
  <2> QED BY <2>2, <2>3
<1>5. \A y, z \in F \ {head} : link2[y] = link2[z] /\ link2[y] # end => y = z
  BY <1>1
<1> QED BY <1>1, <1>2, <1>3, <1>4, <1>5 DEF IsList

-----------------------------------------------------------------------------
(***************************************************************************)
(* A walk along a list.                                                    *)
(***************************************************************************)
WalkRound(met, link, end) == met \cup {link[x] : x \in met \ {end}}
WalkStep(g, head, link, end, n) ==
    [k \in 0 .. n |-> IF k = 0 THEN {head} ELSE WalkRound(g[k - 1], link, end)]

\* The walk is defined: one of some length can be extended.
LEMMA WalkDefined ==
    ASSUME NEW head, NEW link, NEW end, NEW n \in Nat
    PROVE  \E g : g = WalkStep(g, head, link, end, n)
<1>1. \E g : g = WalkStep(g, head, link, end, 0)
  <2> DEFINE g == [i \in 0 .. 0 |-> {head}]
  <2>1. g = WalkStep(g, head, link, end, 0)
    BY DEF WalkStep
  <2> QED BY <2>1
<1>2. ASSUME NEW k \in Nat, NEW g, g = WalkStep(g, head, link, end, k)
      PROVE  \E h : h = WalkStep(h, head, link, end, k + 1)
  <2>1. PICK h : h = [i \in 0 .. k + 1 |-> IF i = k + 1 THEN WalkRound(g[k], link, end) ELSE g[i]]
    OBVIOUS
  <2>2. \A i \in 0 .. k : g[i] = IF i = 0 THEN {head} ELSE WalkRound(g[i - 1], link, end)
    BY <1>2 DEF WalkStep
  <2>3. ASSUME NEW i \in 0 .. k + 1
        PROVE  h[i] = IF i = 0 THEN {head} ELSE WalkRound(h[i - 1], link, end)
    <3>1. CASE i = k + 1
      <4>1. i - 1 = k /\ k \in 0 .. k + 1 /\ k # k + 1 /\ i # 0
        BY <3>1
      <4>2. h[i - 1] = g[k] /\ h[i] = WalkRound(g[k], link, end)
        BY <2>1, <3>1, <4>1
      <4> QED BY <4>1, <4>2
    <3>2. CASE i # k + 1
      <4>1. i \in 0 .. k
        BY <3>2
      <4>2. h[i] = g[i]
        BY <2>1, <3>2
      <4>3. i # 0 => h[i - 1] = g[i - 1]
        BY <2>1, <4>1
      <4> QED BY <2>2, <4>1, <4>2, <4>3
    <3> QED BY <3>1, <3>2
  <2>4. h = WalkStep(h, head, link, end, k + 1)
    BY <2>1, <2>3 DEF WalkStep
  <2> QED BY <2>4
<1> SUFFICES ASSUME ~\E g : g = WalkStep(g, head, link, end, n) PROVE FALSE
  OBVIOUS
<1> DEFINE T == {k \in Nat : ~\E g : g = WalkStep(g, head, link, end, k)}
<1>3. T \in SUBSET Nat /\ T # {}
  OBVIOUS
<1>4. PICK m \in T : \A k \in T : m <= k
  <2> HIDE DEF T
  <2> QED BY <1>3, LeastNat
<1>5. PICK k \in Nat : m = k + 1
  <2>1. m # 0 /\ m \in Nat
    BY <1>1
  <2>2. m - 1 \in Nat /\ m = (m - 1) + 1
    BY <2>1
  <2> QED BY <2>2
<1>6. k \notin T
  BY <1>4, <1>5
<1>7. PICK g : g = WalkStep(g, head, link, end, k)
  BY <1>6
<1>8. \E h : h = WalkStep(h, head, link, end, k + 1)
  BY <1>2, <1>7
<1> QED BY <1>5, <1>8

\* A walk of as many steps as the list has nodes meets all of them: every round
\* that does not end the walk meets a new one.
LEMMA WalkIs ==
    ASSUME NEW head, NEW link, NEW end, NEW F, IsList(head, link, end, F),
           IsFiniteSet(F), NEW n \in Nat, Cardinality(F) <= n
    PROVE  Linked(head, link, end, n) = F
<1>1. PICK w : w = CHOOSE g : g = WalkStep(g, head, link, end, n)
  OBVIOUS
<1>2. w = WalkStep(w, head, link, end, n)
  BY <1>1, WalkDefined
<1>3. Linked(head, link, end, n) = w[n] \ {end}
  BY <1>1 DEF Linked, WalkStep, WalkRound
<1>4. \A k \in 0 .. n : w[k] = IF k = 0 THEN {head} ELSE WalkRound(w[k - 1], link, end)
  BY <1>2 DEF WalkStep
<1>5. /\ end \notin F /\ head \in F \cup {end}
      /\ \A x \in F : link[x] \in F \cup {end}
  BY DEF IsList
<1> DEFINE Good(k) == /\ w[k] \subseteq F \cup {end} /\ head \in w[k]
                      /\ F \subseteq w[k] \/ Cardinality(w[k] \cap F) > k
<1>6. Good(0)
  <2>1. w[0] = {head}
    BY <1>4
  <2>2. CASE head = end
    <3>1. F = {}
      BY <2>2, EmptyHead
    <3> QED BY <2>1, <2>2, <3>1
  <2>3. CASE head # end
    <3>1. w[0] \cap F = {head}
      BY <1>5, <2>1, <2>3
    <3>2. Cardinality({head}) = 1
      BY FS_Singleton
    <3> QED BY <1>5, <2>1, <3>1, <3>2
  <2> QED BY <2>2, <2>3
<1>7. ASSUME NEW k \in 0 .. n, k + 1 \in 0 .. n, Good(k) PROVE Good(k + 1)
  <2>1. w[k + 1] = WalkRound(w[k], link, end)
    <3>1. k + 1 # 0 /\ (k + 1) - 1 = k
      OBVIOUS
    <3> QED BY <1>4, <1>7, <3>1
  <2>2. w[k + 1] \subseteq F \cup {end} /\ head \in w[k + 1] /\ w[k] \subseteq w[k + 1]
    BY <1>5, <1>7, <2>1 DEF WalkRound
  <2>3. ASSUME ~(F \subseteq w[k + 1]) PROVE Cardinality(w[k + 1] \cap F) > k + 1
    <3>1. ~(F \subseteq w[k])
      BY <2>2, <2>3
    <3> DEFINE S == w[k] \cap F
               T == w[k + 1] \cap F
    <3>2. PICK x \in S : link[x] \notin S \cup {end}
      <4>1. S \in SUBSET F /\ head \in S \cup {end} /\ S # F
        BY <1>5, <1>7, <3>1
      <4> HIDE DEF S
      <4> QED BY <4>1 DEF IsList
    <3>3. link[x] \in T /\ link[x] \notin S
      BY <1>5, <2>1, <3>2 DEF WalkRound
    <3>4. S \cup {link[x]} \in SUBSET T /\ S \in SUBSET F /\ T \in SUBSET F
      BY <2>2, <3>3
    <3>5. IsFiniteSet(S) /\ IsFiniteSet(T)
      <4> HIDE DEF S, T
      <4> QED BY <3>4, FS_Subset
    <3>6. Cardinality(S) \in Nat /\ Cardinality(T) \in Nat
      BY <3>5, FS_CardinalityType
    <3>7. Cardinality(S \cup {link[x]}) = Cardinality(S) + 1
      <4> HIDE DEF S, T
      <4> QED BY <3>3, <3>5, FS_AddElement
    <3>8. Cardinality(S \cup {link[x]}) <= Cardinality(T)
      <4> HIDE DEF S, T
      <4> QED BY <3>4, <3>5, FS_Subset
    <3>9. Cardinality(S) > k
      BY <1>7, <3>1
    <3> HIDE DEF S
    <3> QED BY <3>6, <3>7, <3>8, <3>9
  <2> QED BY <2>2, <2>3
<1>8. \A k \in 0 .. n : Good(k)
  <2> DEFINE T == {k \in 0 .. n : ~Good(k)}
  <2> SUFFICES ASSUME T # {} PROVE FALSE
    OBVIOUS
  <2> HIDE DEF Good
  <2>1. PICK m \in T : \A k \in T : m <= k
    <3>1. T \in SUBSET Nat
      OBVIOUS
    <3> HIDE DEF T
    <3> QED BY <3>1, LeastNat
  <2>2. m \in 0 .. n /\ ~Good(m) /\ m # 0
    BY <1>6
  <2>3. m - 1 \in 0 .. n /\ (m - 1) + 1 = m /\ m - 1 \notin T
    BY <2>1, <2>2
  <2>4. PICK k \in 0 .. n : k + 1 = m /\ Good(k)
    BY <2>3
  <2> QED BY <1>7, <2>2, <2>4
<1>9. w[n] \subseteq F \cup {end} /\ (F \subseteq w[n] \/ Cardinality(w[n] \cap F) > n)
  <2>1. n \in 0 .. n
    OBVIOUS
  <2> QED BY <1>8, <2>1
<1>10. F \subseteq w[n]
  <2> SUFFICES ASSUME Cardinality(w[n] \cap F) > n PROVE FALSE
    BY <1>9
  <2>1. PICK S : S = w[n] \cap F /\ S \in SUBSET F
    OBVIOUS
  <2>2. IsFiniteSet(S) /\ Cardinality(S) <= Cardinality(F)
    BY <2>1, FS_Subset
  <2>3. Cardinality(S) \in Nat /\ Cardinality(F) \in Nat
    BY <2>2, FS_CardinalityType
  <2> QED BY <2>1, <2>2, <2>3
<1> QED BY <1>3, <1>5, <1>9, <1>10

-----------------------------------------------------------------------------
(***************************************************************************)
(* Sums.                                                                   *)
(***************************************************************************)
First(s) == CHOOSE x \in s : TRUE
SumRound(h, g, s) == IF s = {} THEN 0 ELSE g[First(s)] + h[s \ {First(s)}]
SumStep(h, g, S) == [s \in SUBSET S |-> SumRound(h, g, s)]

\* A finite set without the element that is chosen first is smaller.
LEMMA FirstFacts ==
    ASSUME NEW S, IsFiniteSet(S), S # {}
    PROVE  /\ First(S) \in S /\ IsFiniteSet(S \ {First(S)})
           /\ Cardinality(S) \in Nat /\ Cardinality(S \ {First(S)}) \in Nat
           /\ Cardinality(S \ {First(S)}) = Cardinality(S) - 1
<1>1. First(S) \in S
  BY DEF First
<1>2. PICK x \in S : x = First(S)
  BY <1>1
<1>3. IsFiniteSet(S \ {x}) /\ Cardinality(S \ {x}) = Cardinality(S) - 1
  BY FS_RemoveElement
<1>4. Cardinality(S) \in Nat /\ Cardinality(S \ {x}) \in Nat
  BY <1>3, FS_CardinalityType
<1> QED BY <1>1, <1>2, <1>3, <1>4

\* The subsets of a finite set have a size in the naturals.
LEMMA SubsetSize ==
    ASSUME NEW S, IsFiniteSet(S), NEW s \in SUBSET S
    PROVE  IsFiniteSet(s) /\ Cardinality(s) \in Nat /\ Cardinality(S) \in Nat /\ Cardinality(s) <= Cardinality(S)
<1>1. IsFiniteSet(s) /\ Cardinality(s) <= Cardinality(S)
  BY FS_Subset
<1> QED BY <1>1, FS_CardinalityType

\* Sums are defined: what satisfies the equation for sets up to some size
\* yields, through the equation, what does so up to the next size.
SumsUpTo(h, g, S, k) == \A s \in SUBSET S : Cardinality(s) <= k => h[s] = SumRound(h, g, s)
\* Hence a function that satisfies it for all subsets exists.
LEMMA SumDefined ==
    ASSUME NEW S, IsFiniteSet(S), NEW g
    PROVE  \E h : h = SumStep(h, g, S)
<1>1. \E h : SumsUpTo(h, g, S, 0)
  <2> DEFINE h == [s \in SUBSET S |-> 0]
  <2>1. ASSUME NEW s \in SUBSET S, Cardinality(s) <= 0 PROVE h[s] = SumRound(h, g, s)
    <3>1. s = {}
      BY <2>1, SubsetSize, FS_EmptySet
    <3> QED BY <3>1 DEF SumRound
  <2>2. SumsUpTo(h, g, S, 0)
    BY <2>1 DEF SumsUpTo
  <2> QED BY <2>2
<1>2. ASSUME NEW k \in Nat, NEW h, SumsUpTo(h, g, S, k)
      PROVE  SumsUpTo(SumStep(h, g, S), g, S, k + 1)
  <2>1. PICK f : f = SumStep(h, g, S)
    OBVIOUS
  <2>2. \A s \in SUBSET S : f[s] = SumRound(h, g, s)
    BY <2>1 DEF SumStep
  <2>3. ASSUME NEW s \in SUBSET S, Cardinality(s) <= k + 1
        PROVE  SumRound(f, g, s) = SumRound(h, g, s)
    <3>1. CASE s = {}
      BY <3>1 DEF SumRound
    <3>2. CASE s # {}
      <4>1. PICK t : t = s \ {First(s)}
        OBVIOUS
      <4>2. t \in SUBSET S /\ Cardinality(t) <= k
        <5>1. IsFiniteSet(s)
          BY SubsetSize
        <5>2. Cardinality(s) \in Nat /\ Cardinality(t) = Cardinality(s) - 1
          BY <3>2, <4>1, <5>1, FirstFacts
        <5> QED BY <2>3, <4>1, <5>2
      <4>3. f[t] = h[t]
        BY <1>2, <2>2, <4>2 DEF SumsUpTo
      <4> QED BY <4>1, <4>3 DEF SumRound
    <3> QED BY <3>1, <3>2
  <2>4. SumsUpTo(f, g, S, k + 1)
    BY <2>2, <2>3 DEF SumsUpTo
  <2> QED BY <2>1, <2>4
<1>3. PICK N \in Nat : N = Cardinality(S)
  BY FS_CardinalityType
<1>4. \E h : SumsUpTo(h, g, S, N)
  <2> SUFFICES ASSUME ~\E h : SumsUpTo(h, g, S, N) PROVE FALSE
    OBVIOUS
  <2> DEFINE T == {k \in Nat : ~\E h : SumsUpTo(h, g, S, k)}
  <2>1. T \in SUBSET Nat /\ T # {}
    OBVIOUS
  <2>2. PICK m \in T : \A k \in T : m <= k
    <3> HIDE DEF T
    <3> QED BY <2>1, LeastNat
  <2>3. m # 0 /\ m \in Nat
    BY <1>1
  <2>4. PICK n \in Nat : m = n + 1
    <3>1. m - 1 \in Nat /\ m = (m - 1) + 1
      BY <2>3
    <3> QED BY <3>1
  <2>5. n \notin T
    BY <2>2, <2>4
  <2>6. PICK h : SumsUpTo(h, g, S, n)
    BY <2>5
  <2>7. SumsUpTo(SumStep(h, g, S), g, S, n + 1)
    BY <1>2, <2>6
  <2> QED BY <2>4, <2>7
<1>5. PICK h : SumsUpTo(h, g, S, N)
  BY <1>4
<1>6. PICK f : f = SumStep(h, g, S)
  OBVIOUS
<1>7. SumsUpTo(f, g, S, N + 1)
  BY <1>2, <1>5, <1>6
<1>8. \A s \in SUBSET S : Cardinality(s) <= N + 1
  BY <1>3, SubsetSize
<1>9. \A s \in SUBSET S : f[s] = SumRound(f, g, s)
  BY <1>7, <1>8 DEF SumsUpTo
<1>10. f = [s \in SUBSET S |-> f[s]]
  BY <1>6 DEF SumStep
<1>11. f = SumStep(f, g, S)
  BY <1>9, <1>10 DEF SumStep
<1> QED BY <1>11

\* The function behind a sum.
LEMMA SumByStep ==
    ASSUME NEW S, IsFiniteSet(S), NEW g
    PROVE  \E h : h = SumStep(h, g, S) /\ SumFunctionOnSet(g, S) = h[S]
<1>1. PICK h : h = CHOOSE x : x = SumStep(x, g, S)
  OBVIOUS
<1>2. h = SumStep(h, g, S)
  BY <1>1, SumDefined
<1>3. SumFunctionOnSet(g, S) = h[S]
  BY <1>1 DEF SumFunctionOnSet, FoldFunctionOnSet, MapThenFoldSet, SumStep, SumRound, First
<1> QED BY <1>2, <1>3

\* Two such functions agree where both are defined.
LEMMA SumStepsAgree ==
    ASSUME NEW S, IsFiniteSet(S), NEW g, NEW h, h = SumStep(h, g, S),
           NEW R, R \in SUBSET S, NEW f, f = SumStep(f, g, R)
    PROVE  \A s \in SUBSET R : f[s] = h[s]
<1> DEFINE T == {k \in Nat : \E s \in SUBSET R : Cardinality(s) = k /\ f[s] # h[s]}
<1> SUFFICES ASSUME NEW s \in SUBSET R, f[s] # h[s] PROVE FALSE
  OBVIOUS
<1>1. \A t \in SUBSET R : /\ t \in SUBSET S /\ IsFiniteSet(t) /\ Cardinality(t) \in Nat
                          /\ f[t] = SumRound(f, g, t) /\ h[t] = SumRound(h, g, t)
  <2> SUFFICES ASSUME NEW t \in SUBSET R
               PROVE  /\ t \in SUBSET S /\ IsFiniteSet(t) /\ Cardinality(t) \in Nat
                      /\ f[t] = SumRound(f, g, t) /\ h[t] = SumRound(h, g, t)
    OBVIOUS
  <2>1. t \in SUBSET S
    OBVIOUS
  <2>2. IsFiniteSet(t) /\ Cardinality(t) \in Nat
    BY <2>1, SubsetSize
  <2>3. f[t] = SumRound(f, g, t)
    BY DEF SumStep
  <2>4. h[t] = SumRound(h, g, t)
    BY <2>1 DEF SumStep
  <2> QED BY <2>1, <2>2, <2>3, <2>4
<1>2. PICK m \in T : \A k \in T : m <= k
  <2>1. T \in SUBSET Nat /\ T # {}
    BY <1>1
  <2> HIDE DEF T
  <2> QED BY <2>1, LeastNat
<1>3. PICK t \in SUBSET R : Cardinality(t) = m /\ f[t] # h[t]
  BY <1>2
<1>4. t # {}
  BY <1>1, <1>3 DEF SumRound
<1>5. PICK u : u = t \ {First(t)}
  OBVIOUS
<1>6. u \in SUBSET R /\ Cardinality(u) \in Nat /\ Cardinality(u) < m
  BY <1>1, <1>3, <1>4, <1>5, FirstFacts
<1>7. f[u] = h[u]
  BY <1>2, <1>6
<1> QED BY <1>1, <1>3, <1>5, <1>7 DEF SumRound

\* The sum of no numbers.
LEMMA SumEmpty ==
    ASSUME NEW g
    PROVE  SumFunctionOnSet(g, {}) = 0
<1>1. IsFiniteSet({})
  BY FS_EmptySet
<1>2. PICK h : h = SumStep(h, g, {}) /\ SumFunctionOnSet(g, {}) = h[{}]
  BY <1>1, SumByStep
<1>3. {} \in SUBSET {}
  OBVIOUS
<1> QED BY <1>2, <1>3 DEF SumStep, SumRound

\* The sum takes the elements one by one.
LEMMA SumFirst ==
    ASSUME NEW S, IsFiniteSet(S), S # {}, NEW g
    PROVE  SumFunctionOnSet(g, S) = g[First(S)] + SumFunctionOnSet(g, S \ {First(S)})
<1>1. PICK R : R = S \ {First(S)} /\ R \in SUBSET S
  OBVIOUS
<1>2. PICK h : h = SumStep(h, g, S) /\ SumFunctionOnSet(g, S) = h[S]
  BY SumByStep
<1>3. IsFiniteSet(R)
  BY <1>1, SubsetSize
<1>4. PICK f : f = SumStep(f, g, R) /\ SumFunctionOnSet(g, R) = f[R]
  BY <1>3, SumByStep
<1>5. f[R] = h[R]
  BY <1>1, <1>2, <1>4, SumStepsAgree
<1>6. h[S] = SumRound(h, g, S)
  <2>1. S \in SUBSET S
    OBVIOUS
  <2> QED BY <1>2, <2>1 DEF SumStep
<1>7. h[S] = g[First(S)] + h[R]
  BY <1>1, <1>6 DEF SumRound
<1> QED BY <1>1, <1>2, <1>4, <1>5, <1>7

\* Sums of integers are integers and depend only on the numbers in the set, and
\* an element can be taken out of the sum.
SumLaws(S) ==
    \A g : (\A x \in S : g[x] \in Int) =>
        /\ SumFunctionOnSet(g, S) \in Int
        /\ \A h : (\A x \in S : h[x] = g[x]) => SumFunctionOnSet(h, S) = SumFunctionOnSet(g, S)
        /\ \A x \in S : SumFunctionOnSet(g, S) = g[x] + SumFunctionOnSet(g, S \ {x})
\* They hold, by induction over the size of the set.
LEMMA SumLawsHold ==
    ASSUME NEW S, IsFiniteSet(S)
    PROVE  SumLaws(S)
<1> DEFINE T == {k \in Nat : \E s \in SUBSET S : Cardinality(s) = k /\ ~SumLaws(s)}
<1> SUFFICES ASSUME ~SumLaws(S) PROVE FALSE
  OBVIOUS
<1>1. \A s \in SUBSET S : IsFiniteSet(s) /\ Cardinality(s) \in Nat
  BY SubsetSize
<1>2. S \in SUBSET S
  OBVIOUS
<1>3. PICK m \in T : \A k \in T : m <= k
  <2>1. T \in SUBSET Nat /\ T # {}
    BY <1>1, <1>2
  <2> HIDE DEF T
  <2> QED BY <2>1, LeastNat
<1>4. PICK R \in SUBSET S : Cardinality(R) = m /\ ~SumLaws(R)
  BY <1>3
<1>5. \A s \in SUBSET S : Cardinality(s) < m => SumLaws(s)
  BY <1>1, <1>3
<1>6. SumLaws(R)
  <2> SUFFICES ASSUME NEW g, \A x \in R : g[x] \in Int
               PROVE  /\ SumFunctionOnSet(g, R) \in Int
                      /\ \A h : (\A x \in R : h[x] = g[x]) => SumFunctionOnSet(h, R) = SumFunctionOnSet(g, R)
                      /\ \A x \in R : SumFunctionOnSet(g, R) = g[x] + SumFunctionOnSet(g, R \ {x})
    BY DEF SumLaws
  <2>1. CASE R = {}
    BY <2>1, SumEmpty
  <2>2. CASE R # {}
    <3>1. PICK y \in R : y = First(R)
      BY <1>1, <2>2, FirstFacts
    <3>2. PICK Q : Q = R \ {y} /\ Q \in SUBSET S
      OBVIOUS
    <3>3. Cardinality(Q) < m /\ IsFiniteSet(Q)
      BY <1>1, <1>4, <2>2, <3>1, <3>2, FirstFacts
    <3>4. SumLaws(Q) /\ \A x \in Q : g[x] \in Int
      BY <1>5, <3>2, <3>3
    <3>5. \A h : SumFunctionOnSet(h, R) = h[y] + SumFunctionOnSet(h, Q)
      BY <1>1, <2>2, <3>1, <3>2, SumFirst
    <3>6. /\ SumFunctionOnSet(g, Q) \in Int
          /\ \A h : (\A x \in Q : h[x] = g[x]) => SumFunctionOnSet(h, Q) = SumFunctionOnSet(g, Q)
          /\ \A x \in Q : SumFunctionOnSet(g, Q) = g[x] + SumFunctionOnSet(g, Q \ {x})
      BY <3>4 DEF SumLaws
    <3>7. SumFunctionOnSet(g, R) \in Int
      BY <3>5, <3>6
    <3>8. ASSUME NEW h, \A x \in R : h[x] = g[x] PROVE SumFunctionOnSet(h, R) = SumFunctionOnSet(g, R)
      <4>1. SumFunctionOnSet(h, Q) = SumFunctionOnSet(g, Q)
        BY <3>2, <3>6, <3>8
      <4> QED BY <3>5, <3>8, <4>1
    <3>9. ASSUME NEW x \in R PROVE SumFunctionOnSet(g, R) = g[x] + SumFunctionOnSet(g, R \ {x})
      <4>1. CASE x = y
        BY <3>2, <3>5, <4>1
      <4>2. CASE x # y
        <5>1. PICK P : P = R \ {x} /\ P \in SUBSET S
          OBVIOUS
        <5>2. Cardinality(P) < m
          <6>1. Cardinality(P) = Cardinality(R) - 1
            BY <1>1, <5>1, FS_RemoveElement
          <6> QED BY <1>1, <1>4, <6>1
        <5>3. SumLaws(P) /\ (\A z \in P : g[z] \in Int) /\ y \in P
          BY <1>5, <4>2, <5>1, <5>2
        <5>4. SumFunctionOnSet(g, P) = g[y] + SumFunctionOnSet(g, P \ {y})
          BY <5>3 DEF SumLaws
        <5>5. x \in Q /\ P \ {y} = Q \ {x} /\ Q \ {x} \in SUBSET S
          BY <3>2, <4>2, <5>1
        <5>6. PICK v : v = SumFunctionOnSet(g, Q \ {x})
          OBVIOUS
        <5>7. v \in Int
          <6>1. Cardinality(Q \ {x}) < m
            <7>1. Cardinality(Q \ {x}) = Cardinality(Q) - 1
              BY <3>3, <5>5, FS_RemoveElement
            <7> QED BY <1>1, <3>2, <3>3, <5>5, <7>1
          <6>2. PICK O : O = Q \ {x} /\ O \in SUBSET S /\ SumLaws(O)
            BY <1>5, <5>5, <6>1
          <6>3. \A z \in O : g[z] \in Int
            BY <3>4, <6>2
          <6> QED BY <5>6, <6>2, <6>3 DEF SumLaws
        <5>8. SumFunctionOnSet(g, Q) = g[x] + v /\ SumFunctionOnSet(g, P) = g[y] + v
          BY <3>6, <5>4, <5>5, <5>6
        <5>9. g[x] \in Int /\ g[y] \in Int
          OBVIOUS
        <5> QED BY <3>5, <5>1, <5>7, <5>8, <5>9
      <4> QED BY <4>1, <4>2
    <3> QED BY <3>7, <3>8, <3>9
  <2> QED BY <2>1, <2>2
<1> QED BY <1>4, <1>6

\* A sum and one more number.
LEMMA SumAdd ==
    ASSUME NEW S, IsFiniteSet(S), NEW x, x \notin S, NEW g, \A y \in S \cup {x} : g[y] \in Int
    PROVE  /\ SumFunctionOnSet(g, S) \in Int
           /\ SumFunctionOnSet(g, S \cup {x}) = SumFunctionOnSet(g, S) + g[x]
<1>1. PICK R : R = S \cup {x}
  OBVIOUS
<1>2. x \in R /\ R \ {x} = S
  BY <1>1
<1>3. IsFiniteSet(R)
  BY <1>1, FS_AddElement
<1>4. SumLaws(R) /\ SumLaws(S)
  BY <1>3, SumLawsHold
<1>5. \A y \in R : g[y] \in Int
  BY <1>1
<1>6. SumFunctionOnSet(g, R) = g[x] + SumFunctionOnSet(g, R \ {x})
  BY <1>2, <1>4, <1>5 DEF SumLaws
<1>7. SumFunctionOnSet(g, S) \in Int
  BY <1>4 DEF SumLaws
<1>8. PICK v : v = SumFunctionOnSet(g, S) /\ v \in Int
  BY <1>7
<1>9. g[x] \in Int /\ SumFunctionOnSet(g, R) = g[x] + v
  BY <1>2, <1>5, <1>6, <1>8
<1> QED BY <1>1, <1>8, <1>9

\* A sum in which one number changes.
LEMMA SumChange ==
    ASSUME NEW S, IsFiniteSet(S), NEW x \in S, NEW g, NEW h,
           \A y \in S : g[y] \in Int /\ h[y] \in Int, \A y \in S \ {x} : h[y] = g[y]
    PROVE  /\ SumFunctionOnSet(g, S) \in Int
           /\ SumFunctionOnSet(h, S) = SumFunctionOnSet(g, S) - g[x] + h[x]
<1>1. PICK R : R = S \ {x}
  OBVIOUS
<1>2. IsFiniteSet(R)
  BY <1>1, FS_RemoveElement
<1>3. SumLaws(R) /\ SumLaws(S)
  BY <1>2, SumLawsHold
<1>4. SumFunctionOnSet(g, R) \in Int /\ SumFunctionOnSet(h, R) = SumFunctionOnSet(g, R)
  <2>1. (\A y \in R : g[y] \in Int) /\ (\A y \in R : h[y] = g[y])
    BY <1>1
  <2> QED BY <1>3, <2>1 DEF SumLaws
<1>5. SumFunctionOnSet(g, S) = g[x] + SumFunctionOnSet(g, R)
  BY <1>1, <1>3 DEF SumLaws
<1>6. SumFunctionOnSet(h, S) = h[x] + SumFunctionOnSet(h, R)
  <2>1. \A y \in S : h[y] \in Int
    OBVIOUS
  <2> QED BY <1>1, <1>3, <2>1 DEF SumLaws
<1>7. g[x] \in Int /\ h[x] \in Int
  OBVIOUS
<1> QED BY <1>4, <1>5, <1>6, <1>7

\* A sum in which no number changes.
LEMMA SumSame ==
    ASSUME NEW S, IsFiniteSet(S), NEW g, NEW h, \A y \in S : g[y] \in Int, \A y \in S : h[y] = g[y]
    PROVE  SumFunctionOnSet(g, S) \in Int /\ SumFunctionOnSet(h, S) = SumFunctionOnSet(g, S)
<1>1. SumLaws(S)
  BY SumLawsHold
<1> QED BY <1>1 DEF SumLaws

-----------------------------------------------------------------------------
(***************************************************************************)
(* Cell sizes and the cells of a fresh page.                               *)
(***************************************************************************)
\* The cell sizes are positive, and a cell of any size fits behind the header.
LEMMA SteppingFacts ==
    /\ NumSteppings \in Nat \ {0}
    /\ \A i \in 1 .. NumSteppings : /\ SteppingArray[i] \in Nat \ {0}
                                    /\ HeaderSize + SteppingArray[i] <= PageSize
    /\ HeaderSize \in Nat \ {0} /\ PageSize \in Nat
<1>1. PICK D : D = Nat \ {0}
  OBVIOUS
<1>2. SteppingArray \in Seq(D) /\ SteppingArray # <<>>
  BY <1>1, JitMemAssumption
<1>3. NumSteppings \in Nat \ {0} /\ \A i \in 1 .. NumSteppings : SteppingArray[i] \in D
  BY <1>2 DEF NumSteppings
<1>4. PICK N \in Nat \ {0} : N = NumSteppings
  BY <1>3
<1>5. PICK A : A = SteppingArray /\ \A i \in 1 .. N : A[i] \in Nat \ {0}
  BY <1>1, <1>3, <1>4
<1>6. \A i \in 1 .. N - 1 : A[i] < A[i + 1]
  BY <1>4, <1>5, JitMemAssumption
<1>7. \A i \in 1 .. N : A[i] <= A[N]
  <2> DEFINE T == {k \in Nat : k < N /\ ~(A[N - k] <= A[N])}
  <2> SUFFICES ASSUME NEW i \in 1 .. N, ~(A[i] <= A[N]) PROVE FALSE
    OBVIOUS
  <2>1. N - i \in T
    <3>1. N - (N - i) = i
      OBVIOUS
    <3> QED BY <3>1
  <2>2. PICK m \in T : \A k \in T : m <= k
    <3>1. T \in SUBSET Nat /\ T # {}
      BY <2>1
    <3> HIDE DEF T
    <3> QED BY <3>1, LeastNat
  <2>3. m \in Nat /\ m < N /\ ~(A[N - m] <= A[N])
    BY <2>2
  <2>4. m # 0
    <3>1. m = 0 => N - m = N
      OBVIOUS
    <3> QED BY <1>5, <2>3, <3>1
  <2>5. PICK j \in 1 .. N - 1 : j = N - m
    BY <2>3, <2>4
  <2>6. j + 1 = N - (m - 1) /\ m - 1 \in Nat /\ m - 1 < N /\ m - 1 < m
    BY <2>3, <2>4, <2>5
  <2>7. m - 1 \notin T
    BY <2>2, <2>3, <2>6
  <2>8. A[j + 1] <= A[N]
    BY <2>6, <2>7
  <2>9. A[j] < A[j + 1] /\ A[j] \in Nat /\ A[j + 1] \in Nat /\ A[N] \in Nat
    BY <1>5, <1>6, <2>5
  <2> QED BY <2>3, <2>5, <2>8, <2>9
<1>8. HeaderSize + A[N] <= PageSize /\ HeaderSize \in Nat \ {0} /\ PageSize \in Nat
  BY <1>4, <1>5, JitMemAssumption DEF MaxSmall
<1>9. \A i \in 1 .. N : HeaderSize + A[i] <= PageSize
  BY <1>5, <1>7, <1>8
<1> QED BY <1>4, <1>5, <1>8, <1>9

SizeRanges == {q \in (1 .. NumSteppings) \X (1 .. NumSteppings) : q[1] <= q[2]}
SizeMid(r) == (r[1] + r[2]) \div 2
SizeHalf(size, r) == IF size <= SteppingArray[SizeMid(r)] THEN <<r[1], SizeMid(r)>> ELSE <<SizeMid(r) + 1, r[2]>>
SizeStep(g, size, r) == IF r[1] = r[2] THEN r[2] ELSE g[SizeHalf(size, r)]
SizeSearch(g, size) == [r \in SizeRanges |-> SizeStep(g, size, r)]

\* The search goes on with a smaller range.
LEMMA SizeHalfFacts ==
    ASSUME NEW size, NEW r \in SizeRanges
    PROVE  /\ r[1] \in 1 .. NumSteppings /\ r[2] \in 1 .. NumSteppings /\ r[1] <= r[2]
           /\ r[1] # r[2] =>
                /\ SizeMid(r) \in Int /\ r[1] <= SizeMid(r) /\ SizeMid(r) < r[2]
                /\ SizeHalf(size, r) \in SizeRanges
                /\ SizeHalf(size, r)[1] \in Int /\ SizeHalf(size, r)[2] \in Int
                /\ SizeHalf(size, r)[2] - SizeHalf(size, r)[1] < r[2] - r[1]
<1>1. PICK N \in Nat : N = NumSteppings
  BY SteppingFacts
<1>2. r[1] \in 1 .. N /\ r[2] \in 1 .. N /\ r[1] <= r[2]
  BY <1>1 DEF SizeRanges
<1>3. ASSUME r[1] # r[2]
      PROVE  /\ SizeMid(r) \in Int /\ r[1] <= SizeMid(r) /\ SizeMid(r) < r[2]
             /\ SizeHalf(size, r) \in SizeRanges
             /\ SizeHalf(size, r)[1] \in Int /\ SizeHalf(size, r)[2] \in Int
             /\ SizeHalf(size, r)[2] - SizeHalf(size, r)[1] < r[2] - r[1]
  <2>1. PICK m \in Int : m = SizeMid(r) /\ r[1] <= m /\ m < r[2]
    BY <1>2, <1>3 DEF SizeMid
  <2>2. SizeHalf(size, r) = <<r[1], m>> \/ SizeHalf(size, r) = <<m + 1, r[2]>>
    BY <2>1 DEF SizeHalf
  <2>3. CASE SizeHalf(size, r) = <<r[1], m>>
    BY <1>1, <1>2, <2>1, <2>3 DEF SizeRanges
  <2>4. CASE SizeHalf(size, r) = <<m + 1, r[2]>>
    BY <1>1, <1>2, <2>1, <2>4 DEF SizeRanges
  <2> QED BY <2>1, <2>2, <2>3, <2>4
<1> QED BY <1>1, <1>2, <1>3

\* The search's equation holds for ranges up to length k.
SizesUpTo(g, k, size) == \A r \in SizeRanges : r[2] - r[1] <= k => g[r] = SizeStep(g, size, r)
\* Hence the search is defined for every range.
LEMMA SizeSearchDefined ==
    ASSUME NEW size
    PROVE  \E g : g = SizeSearch(g, size)
<1>1. PICK N \in Nat : N = NumSteppings
  BY SteppingFacts
<1>2. \A r \in SizeRanges : r[1] \in 1 .. N /\ r[2] \in 1 .. N /\ r[1] <= r[2]
  BY <1>1, SizeHalfFacts
<1>3. \E g : SizesUpTo(g, 0, size)
  <2> DEFINE g == [r \in SizeRanges |-> r[2]]
  <2>1. ASSUME NEW r \in SizeRanges, r[2] - r[1] <= 0 PROVE g[r] = SizeStep(g, size, r)
    <3>1. r[1] = r[2]
      BY <1>2, <2>1
    <3> QED BY <3>1 DEF SizeStep
  <2>2. SizesUpTo(g, 0, size)
    BY <2>1 DEF SizesUpTo
  <2> QED BY <2>2
<1>4. ASSUME NEW k \in Nat, NEW g, SizesUpTo(g, k, size)
      PROVE  SizesUpTo(SizeSearch(g, size), k + 1, size)
  <2>1. PICK h : h = SizeSearch(g, size)
    OBVIOUS
  <2>2. \A r \in SizeRanges : h[r] = SizeStep(g, size, r)
    BY <2>1 DEF SizeSearch
  <2>3. ASSUME NEW r \in SizeRanges, r[2] - r[1] <= k + 1
        PROVE  SizeStep(h, size, r) = SizeStep(g, size, r)
    <3>1. CASE r[1] = r[2]
      BY <3>1 DEF SizeStep
    <3>2. CASE r[1] # r[2]
      <4>1. PICK q : q = SizeHalf(size, r)
        OBVIOUS
      <4>2. q \in SizeRanges /\ q[2] - q[1] <= k
        BY <1>2, <2>3, <3>2, <4>1, SizeHalfFacts
      <4>3. h[q] = g[q]
        BY <2>2, <4>2, <1>4 DEF SizesUpTo
      <4> QED BY <4>1, <4>3 DEF SizeStep
    <3> QED BY <3>1, <3>2
  <2>4. SizesUpTo(h, k + 1, size)
    BY <2>2, <2>3 DEF SizesUpTo
  <2> QED BY <2>1, <2>4
<1>5. \E g : SizesUpTo(g, N, size)
  <2> SUFFICES ASSUME ~\E g : SizesUpTo(g, N, size) PROVE FALSE
    OBVIOUS
  <2> DEFINE T == {k \in Nat : ~\E g : SizesUpTo(g, k, size)}
  <2>1. T \in SUBSET Nat /\ T # {}
    OBVIOUS
  <2>2. PICK m \in T : \A k \in T : m <= k
    <3> HIDE DEF T
    <3> QED BY <2>1, LeastNat
  <2>3. m # 0 /\ m \in Nat
    BY <1>3
  <2>4. PICK n \in Nat : m = n + 1
    <3>1. m - 1 \in Nat /\ m = (m - 1) + 1
      BY <2>3
    <3> QED BY <3>1
  <2>5. n \notin T
    BY <2>2, <2>4
  <2>6. PICK g : SizesUpTo(g, n, size)
    BY <2>5
  <2>7. SizesUpTo(SizeSearch(g, size), n + 1, size)
    BY <1>4, <2>6
  <2> QED BY <2>4, <2>7
<1>6. PICK g : SizesUpTo(g, N, size)
  BY <1>5
<1>7. PICK h : h = SizeSearch(g, size)
  OBVIOUS
<1>8. SizesUpTo(h, N + 1, size)
  BY <1>4, <1>6, <1>7
<1>9. \A r \in SizeRanges : r[2] - r[1] <= N + 1
  BY <1>2
<1>10. \A r \in SizeRanges : h[r] = SizeStep(h, size, r)
  BY <1>8, <1>9 DEF SizesUpTo
<1>11. h = [r \in SizeRanges |-> h[r]]
  BY <1>7 DEF SizeSearch
<1>12. h = SizeSearch(h, size)
  BY <1>10, <1>11 DEF SizeSearch
<1> QED BY <1>12

\* Stepping i has the smallest cell size that is large enough.
Fits(size, i) == i \in 1 .. NumSteppings /\ size <= SteppingArray[i] /\ (i > 1 => size > SteppingArray[i - 1])
\* The search returns it, by induction over the length of the range.
LEMMA SizeSearchFinds ==
    ASSUME NEW size \in Nat, size <= MaxSmall
    PROVE  Fits(size, SteppingFromSize(size))
<1>1. PICK N \in Nat \ {0} : N = NumSteppings
  BY SteppingFacts
<1>2. PICK A : A = SteppingArray /\ \A i \in 1 .. N : A[i] \in Nat
  BY <1>1, SteppingFacts
<1>3. PICK g : g = CHOOSE x : x = SizeSearch(x, size)
  OBVIOUS
<1>4. g = SizeSearch(g, size)
  BY <1>3, SizeSearchDefined
<1>5. \A r \in SizeRanges : /\ g[r] = SizeStep(g, size, r)
                            /\ r[1] \in 1 .. N /\ r[2] \in 1 .. N /\ r[1] <= r[2]
  BY <1>1, <1>4, SizeHalfFacts DEF SizeSearch
<1> DEFINE Holds(r) == size <= A[r[2]] /\ (r[1] > 1 => size > A[r[1] - 1])
<1>6. \A r \in SizeRanges : Holds(r) => Fits(size, g[r])
  <2> DEFINE Bad(r) == Holds(r) /\ ~Fits(size, g[r])
             T == {k \in Nat : \E r \in SizeRanges : Bad(r) /\ k = r[2] - r[1]}
  <2> SUFFICES ASSUME NEW r \in SizeRanges, Bad(r) PROVE FALSE
    OBVIOUS
  <2>1. r[2] - r[1] \in T
    BY <1>5
  <2>2. PICK m \in T : \A k \in T : m <= k
    <3>1. T \in SUBSET Nat /\ T # {}
      BY <2>1
    <3> HIDE DEF T
    <3> QED BY <3>1, LeastNat
  <2>3. PICK s \in SizeRanges : Bad(s) /\ m = s[2] - s[1]
    BY <2>2
  <2>4. s[1] \in 1 .. N /\ s[2] \in 1 .. N /\ s[1] <= s[2] /\ g[s] = SizeStep(g, size, s)
    BY <1>5
  <2>5. CASE s[1] = s[2]
    <3>1. g[s] = s[2]
      BY <2>4, <2>5 DEF SizeStep
    <3> QED BY <1>1, <1>2, <2>3, <2>4, <2>5, <3>1 DEF Fits
  <2>6. CASE s[1] # s[2]
    <3>1. PICK q, h : q = SizeHalf(size, s) /\ h = SizeMid(s)
      OBVIOUS
    <3>2. /\ h \in Int /\ s[1] <= h /\ h < s[2] /\ q \in SizeRanges
          /\ q[1] \in Int /\ q[2] \in Int /\ q[2] - q[1] < s[2] - s[1]
      BY <2>6, <3>1, SizeHalfFacts
    <3>3. g[s] = g[q]
      BY <2>4, <2>6, <3>1 DEF SizeStep
    <3>4. h \in 1 .. N /\ A[h] \in Nat
      BY <1>2, <2>4, <3>2
    <3>5. Holds(q)
      <4>1. CASE size <= A[h]
        <5>1. q = <<s[1], h>>
          BY <1>2, <3>1, <4>1 DEF SizeHalf
        <5> QED BY <2>3, <4>1, <5>1
      <4>2. CASE ~(size <= A[h])
        <5>1. q = <<h + 1, s[2]>>
          BY <1>2, <3>1, <4>2 DEF SizeHalf
        <5>2. (h + 1) - 1 = h /\ size > A[h]
          BY <3>2, <3>4, <4>2
        <5>3. q[1] - 1 = h /\ q[2] = s[2]
          BY <5>1, <5>2
        <5> QED BY <2>3, <5>2, <5>3
      <4> QED BY <4>1, <4>2
    <3>6. q[2] - q[1] \in T
      <4>1. q[2] - q[1] \in Nat
        BY <1>5, <3>2
      <4> QED BY <2>3, <3>2, <3>3, <3>5, <4>1
    <3> QED BY <2>2, <2>3, <2>4, <3>2, <3>6
  <2> QED BY <2>5, <2>6
<1>7. SteppingFromSize(size) = g[<<1, N>>]
  BY <1>1, <1>3 DEF SteppingFromSize, SizeSearch, SizeStep, SizeHalf, SizeMid, SizeRanges
<1>8. PICK r : r = <<1, N>> /\ r \in SizeRanges /\ r[1] = 1 /\ r[2] = N
  <2>1. <<1, N>> \in SizeRanges
    BY <1>1 DEF SizeRanges
  <2> QED BY <2>1
<1>9. Holds(r)
  BY <1>1, <1>2, <1>8 DEF MaxSmall
<1> QED BY <1>6, <1>7, <1>8, <1>9

\* Numbers divisible by s.
LEMMA Multiples ==
    ASSUME NEW a \in Nat, NEW s \in Nat \ {0}, a % s = 0
    PROVE  /\ (a + s) % s = 0
           /\ a # 0 => a >= s /\ (a - s) % s = 0
<1>1. PICK q \in Int : a = s * q
  <2>1. a = s * (a \div s) + (a % s) /\ a \div s \in Int
    BY DivMod
  <2>2. PICK d \in Int : d = a \div s
    BY <2>1
  <2>3. a = s * d + 0
    BY <2>1, <2>2
  <2>4. a = s * d
    BY <2>3
  <2> QED BY <2>4
<1>2. ASSUME NEW k \in Int PROVE (s * k) % s = 0
  <2>1. PICK x \in Int : x = s * k
    OBVIOUS
  <2>2. PICK d \in Int, m \in Int : x = s * d + m /\ m = x % s /\ 0 <= m /\ m < s
    <3>1. x % s \in 0 .. s - 1 /\ x \div s \in Int /\ x = s * (x \div s) + (x % s)
      BY DivMod
    <3>2. PICK d \in Int, m \in Int : d = x \div s /\ m = x % s
      BY <3>1
    <3>3. x = s * d + m /\ m \in 0 .. s - 1
      BY <3>1, <3>2
    <3>4. x = s * d + m /\ m = x % s /\ 0 <= m /\ m < s
      BY <3>2, <3>3
    <3> QED BY <3>4
  <2>3. m = s * (k - d)
    BY <2>1, <2>2
  <2>4. CASE k - d >= 1
    <3>1. s * (k - d) >= s
      BY <2>4
    <3> QED BY <2>2, <2>3, <3>1
  <2>5. CASE k - d <= -1
    <3>1. s * (k - d) <= -s
      BY <2>5
    <3> QED BY <2>2, <2>3, <3>1
  <2>6. CASE k - d = 0
    BY <2>1, <2>2, <2>3, <2>6
  <2> QED BY <2>4, <2>5, <2>6
<1>3. (a + s) % s = 0
  <2>1. a + s = s * (q + 1) /\ q + 1 \in Int
    BY <1>1
  <2> QED BY <1>2, <2>1
<1>4. ASSUME a # 0 PROVE a >= s /\ (a - s) % s = 0
  <2>1. a - s = s * (q - 1) /\ q - 1 \in Int
    BY <1>1
  <2>2. (a - s) % s = 0
    BY <1>2, <2>1
  <2>3. q >= 1
    <3> SUFFICES ASSUME q <= 0 PROVE FALSE
      OBVIOUS
    <3>1. s * q <= 0
      OBVIOUS
    <3> QED BY <1>1, <1>4, <3>1
  <2>4. s * q >= s
    BY <2>3
  <2> QED BY <1>1, <2>2, <2>4
<1> QED BY <1>3, <1>4

\* The cells of size s in a page, and the links that Initialize writes.
CellsOf(s) == {o \in Offset : (o - HeaderSize) % s = 0 /\ o + s <= PageSize}
FreshLink(s) ==
    [o \in Offset |-> IF (o - HeaderSize) % s = 0 /\ o + s <= PageSize THEN CellLink(s, o) ELSE 0]

\* Initialize chains all cells of the page.
LEMMA FreshCells ==
    ASSUME NEW i \in 1 .. NumSteppings, NEW s, s = SteppingArray[i]
    PROVE  /\ IsList(HeaderSize, FreshLink(s), 0, CellsOf(s))
           /\ HeaderSize \in CellsOf(s)
<1>1. s \in Nat \ {0} /\ HeaderSize \in Nat \ {0} /\ PageSize \in Nat /\ HeaderSize + s <= PageSize
  BY SteppingFacts
<1>2. PICK F, link : F = CellsOf(s) /\ link = FreshLink(s)
  OBVIOUS
<1>3. \A o \in F : /\ o \in Int /\ HeaderSize <= o /\ o + s <= PageSize /\ (o - HeaderSize) % s = 0
                   /\ o - HeaderSize \in Nat
  BY <1>1, <1>2 DEF CellsOf, Offset
<1>4. \A o \in Int : HeaderSize <= o /\ o + s <= PageSize /\ (o - HeaderSize) % s = 0 => o \in F
  BY <1>1, <1>2 DEF CellsOf, Offset
<1>5. \A o \in F : link[o] = IF o + s + s <= PageSize THEN o + s ELSE 0
  <2> SUFFICES ASSUME NEW o \in F PROVE link[o] = IF o + s + s <= PageSize THEN o + s ELSE 0
    OBVIOUS
  <2>1. o \in Offset /\ (o - HeaderSize) % s = 0 /\ o + s <= PageSize
    BY <1>2 DEF CellsOf
  <2>2. link[o] = CellLink(s, o)
    BY <1>2, <2>1 DEF FreshLink
  <2> QED BY <2>2 DEF CellLink
<1>6. ASSUME NEW o \in F, o + s + s <= PageSize PROVE o + s \in F
  <2>1. PICK a \in Nat : a = o - HeaderSize /\ a % s = 0
    BY <1>3
  <2>2. (a + s) % s = 0
    BY <1>1, <2>1, Multiples
  <2>3. (o + s) - HeaderSize = a + s /\ o + s \in Int /\ HeaderSize <= o + s
    BY <1>1, <1>3, <2>1
  <2> QED BY <1>4, <1>6, <2>2, <2>3
<1>7. HeaderSize \in F
  <2>1. (HeaderSize - HeaderSize) % s = 0
    <3>1. HeaderSize - HeaderSize = 0 /\ 0 % s = 0
      BY <1>1
    <3> QED BY <3>1
  <2> QED BY <1>1, <1>4, <2>1
<1>8. \A x \in F : link[x] \in F \cup {0} /\ link[x] # HeaderSize
  BY <1>1, <1>3, <1>5, <1>6
<1>9. \A x, y \in F : link[x] = link[y] /\ link[x] # 0 => x = y
  BY <1>1, <1>3, <1>5
<1>10. ASSUME NEW S \in SUBSET F, HeaderSize \in S \cup {0}, \A x \in S : link[x] \in S \cup {0}
       PROVE  S = F
  <2> DEFINE T == {o \in Nat : o \in F /\ o \notin S}
  <2> SUFFICES ASSUME T # {} PROVE FALSE
    <3>1. F \subseteq Nat
      BY <1>1, <1>3
    <3> QED BY <1>10, <3>1
  <2>1. PICK m \in T : \A k \in T : m <= k
    <3>1. T \in SUBSET Nat
      OBVIOUS
    <3> HIDE DEF T
    <3> QED BY <3>1, LeastNat
  <2>2. m \in F /\ m \notin S /\ m # HeaderSize
    BY <1>1, <1>10, <2>1
  <2>3. PICK a \in Nat : a = m - HeaderSize /\ a % s = 0 /\ a # 0
    BY <1>1, <1>3, <2>2
  <2>4. a >= s /\ (a - s) % s = 0
    BY <1>1, <2>3, Multiples
  <2>5. PICK o \in Int : o = m - s /\ o - HeaderSize = a - s /\ HeaderSize <= o
    BY <1>1, <1>3, <2>2, <2>3, <2>4
  <2>6. o + s <= PageSize /\ o + s + s <= PageSize /\ o + s = m /\ o < m /\ o \in Nat
    BY <1>1, <1>3, <2>2, <2>5
  <2>7. o \in F
    BY <1>4, <2>4, <2>5, <2>6
  <2>8. o \in S
    BY <2>1, <2>6, <2>7
  <2>9. link[o] = m
    BY <1>5, <2>6, <2>7
  <2> QED BY <1>1, <1>3, <1>10, <2>2, <2>8, <2>9
<1>11. 0 \notin F
  BY <1>1, <1>3
<1>12. IsList(HeaderSize, link, 0, F)
  BY <1>7, <1>8, <1>9, <1>10, <1>11 DEF IsList
<1> QED BY <1>2, <1>7, <1>12

-----------------------------------------------------------------------------
(***************************************************************************)
(* The circular list of large allocations.                                 *)
(***************************************************************************)
\* R is the ring through the anchor: nx and pv are inverse to each other on R,
\* and no smaller set that contains the anchor is closed.
IsRing(nx, pv, R) ==
    /\ Anchor \in R
    /\ \A x \in R : nx[x] \in R /\ pv[x] \in R /\ pv[nx[x]] = x /\ nx[pv[x]] = x
    /\ \A S \in SUBSET R : Anchor \in S /\ (\A x \in S : nx[x] \in S) => S = R

\* What follows the anchor in a ring is a list that ends at the anchor.
LEMMA RingList ==
    ASSUME NEW nx, NEW pv, NEW R, IsRing(nx, pv, R)
    PROVE  IsList(nx[Anchor], nx, Anchor, R \ {Anchor})
<1>1. /\ Anchor \in R
      /\ \A x \in R : nx[x] \in R /\ pv[x] \in R /\ pv[nx[x]] = x /\ nx[pv[x]] = x
  BY DEF IsRing
<1>2. ASSUME NEW S \in SUBSET (R \ {Anchor}), nx[Anchor] \in S \cup {Anchor},
             \A x \in S : nx[x] \in S \cup {Anchor}
      PROVE  S = R \ {Anchor}
  <2> DEFINE T == S \cup {Anchor}
  <2>1. T \in SUBSET R /\ Anchor \in T /\ \A x \in T : nx[x] \in T
    BY <1>1, <1>2
  <2>2. T = R
    <3> HIDE DEF T
    <3> QED BY <2>1 DEF IsRing
  <2> QED BY <2>2
<1>3. nx[Anchor] \in (R \ {Anchor}) \cup {Anchor}
  BY <1>1
<1>4. \A x \in R \ {Anchor} : nx[x] \in (R \ {Anchor}) \cup {Anchor} /\ nx[x] # nx[Anchor]
  BY <1>1
<1>5. \A x, y \in R \ {Anchor} : nx[x] = nx[y] /\ nx[x] # Anchor => x = y
  BY <1>1
<1> QED BY <1>2, <1>3, <1>4, <1>5 DEF IsList

\* A node linked in after the anchor.
LEMMA RingLink ==
    ASSUME NEW nx, NEW pv, NEW R, IsRing(nx, pv, R), NEW l, l \notin R,
           NEW nx2, nx2[l] = nx[Anchor], nx2[Anchor] = l, \A x \in R \ {Anchor} : nx2[x] = nx[x],
           NEW pv2, pv2[l] = Anchor, pv2[nx[Anchor]] = l, \A x \in R \ {nx[Anchor]} : pv2[x] = pv[x]
    PROVE  IsRing(nx2, pv2, R \cup {l})
<1>1. /\ Anchor \in R
      /\ \A x \in R : nx[x] \in R /\ pv[x] \in R /\ pv[nx[x]] = x /\ nx[pv[x]] = x
  BY DEF IsRing
<1>2. ASSUME NEW S \in SUBSET (R \cup {l}), Anchor \in S, \A x \in S : nx2[x] \in S
      PROVE  S = R \cup {l}
  <2> DEFINE T == S \ {l}
  <2>1. l \in S /\ nx[Anchor] \in S
    BY <1>2
  <2>2. T \in SUBSET R /\ Anchor \in T
    BY <1>1, <1>2
  <2>3. \A x \in T : nx[x] \in T
    BY <1>1, <1>2, <2>1, <2>2
  <2>4. T = R
    <3> HIDE DEF T
    <3> QED BY <2>2, <2>3 DEF IsRing
  <2> QED BY <2>1, <2>4
<1>3. ASSUME NEW x \in R \cup {l}
      PROVE  nx2[x] \in R \cup {l} /\ pv2[x] \in R \cup {l} /\ pv2[nx2[x]] = x /\ nx2[pv2[x]] = x
  <2>1. CASE x = l
    BY <1>1, <2>1
  <2>2. CASE x = Anchor
    <3>1. nx2[x] = l /\ pv2[nx2[x]] = x
      BY <2>2
    <3>2. pv2[x] \in R \cup {l} /\ nx2[pv2[x]] = x
      <4>1. CASE nx[Anchor] = Anchor
        BY <2>2, <4>1
      <4>2. CASE nx[Anchor] # Anchor
        <5>1. pv2[x] = pv[x] /\ pv[x] \in R /\ nx[pv[x]] = x
          BY <1>1, <2>2, <4>2
        <5>2. pv[x] # Anchor
          BY <2>2, <4>2, <5>1
        <5> QED BY <5>1, <5>2
      <4> QED BY <4>1, <4>2
    <3> QED BY <3>1, <3>2
  <2>3. CASE x \in R \ {Anchor}
    <3>1. nx2[x] = nx[x] /\ nx[x] \in R /\ nx[x] # nx[Anchor]
      BY <1>1, <2>3
    <3>2. pv2[nx2[x]] = x
      BY <1>1, <2>3, <3>1
    <3>3. pv2[x] \in R \cup {l} /\ nx2[pv2[x]] = x
      <4>1. CASE x = nx[Anchor]
        BY <4>1
      <4>2. CASE x # nx[Anchor]
        <5>1. pv2[x] = pv[x] /\ pv[x] \in R /\ nx[pv[x]] = x
          BY <1>1, <2>3, <4>2
        <5>2. pv[x] # Anchor
          BY <4>2, <5>1
        <5> QED BY <5>1, <5>2
      <4> QED BY <4>1, <4>2
    <3> QED BY <3>1, <3>2, <3>3
  <2> QED BY <2>1, <2>2, <2>3
<1> QED BY <1>1, <1>2, <1>3 DEF IsRing

\* A node unlinked.
LEMMA RingUnlink ==
    ASSUME NEW nx, NEW pv, NEW R, IsRing(nx, pv, R), NEW l \in R, l # Anchor,
           NEW nx2, \A x \in R \ {l} : nx2[x] = IF x = pv[l] THEN nx[l] ELSE nx[x],
           NEW pv2, \A x \in R \ {l} : pv2[x] = IF x = nx[l] THEN pv[l] ELSE pv[x]
    PROVE  IsRing(nx2, pv2, R \ {l})
<1>1. /\ Anchor \in R
      /\ \A x \in R : nx[x] \in R /\ pv[x] \in R /\ pv[nx[x]] = x /\ nx[pv[x]] = x
  BY DEF IsRing
<1>2. ASSUME NEW S \in SUBSET (R \ {l}), Anchor \in S, \A x \in S : nx2[x] \in S
      PROVE  S = R \ {l}
  <2> DEFINE T == IF pv[l] \in S THEN S \cup {l} ELSE S
  <2>1. T \in SUBSET R /\ Anchor \in T
    BY <1>2
  <2>2. ASSUME NEW x \in T PROVE nx[x] \in T
    <3>1. CASE x = l
      <4>1. pv[l] \in S
        BY <3>1
      <4>2. nx2[pv[l]] = nx[l] /\ nx2[pv[l]] \in S
        BY <1>2, <4>1
      <4> QED BY <3>1, <4>1, <4>2
    <3>2. CASE x # l /\ x = pv[l]
      BY <1>1, <3>2
    <3>3. CASE x # l /\ x # pv[l]
      <4>1. x \in S /\ nx2[x] = nx[x]
        BY <3>3
      <4> QED BY <1>2, <4>1
    <3> QED BY <3>1, <3>2, <3>3
  <2>3. T = R
    <3> HIDE DEF T
    <3> QED BY <2>1, <2>2 DEF IsRing
  <2> QED BY <1>2, <2>3
<1>3. ASSUME NEW x \in R \ {l}
      PROVE  nx2[x] \in R \ {l} /\ pv2[x] \in R \ {l} /\ pv2[nx2[x]] = x /\ nx2[pv2[x]] = x
  <2>1. CASE x = pv[l]
    <3>1. nx2[x] = nx[l] /\ nx[l] \in R /\ nx[l] # l
      BY <1>1, <2>1
    <3>2. pv2[nx[l]] = pv[l]
      BY <3>1
    <3>3. pv2[x] \in R \ {l} /\ nx2[pv2[x]] = x
      <4>1. CASE x = nx[l]
        BY <1>1, <2>1, <4>1
      <4>2. CASE x # nx[l]
        <5>1. pv2[x] = pv[x] /\ pv[x] \in R /\ nx[pv[x]] = x /\ pv[x] # l
          BY <1>1, <4>2
        <5>2. pv[x] # pv[l]
          BY <1>1, <5>1
        <5> QED BY <5>1, <5>2
      <4> QED BY <4>1, <4>2
    <3> QED BY <2>1, <3>1, <3>2, <3>3
  <2>2. CASE x # pv[l]
    <3>1. nx2[x] = nx[x] /\ nx[x] \in R /\ nx[x] # l /\ nx[x] # nx[l]
      BY <1>1, <2>2
    <3>2. pv2[nx[x]] = x
      BY <1>1, <3>1
    <3>3. pv2[x] \in R \ {l} /\ nx2[pv2[x]] = x
      <4>1. CASE x = nx[l]
        <5>1. pv2[x] = pv[l] /\ pv[l] \in R /\ pv[l] # l
          BY <1>1, <4>1
        <5> QED BY <4>1, <5>1
      <4>2. CASE x # nx[l]
        <5>1. pv2[x] = pv[x] /\ pv[x] \in R /\ nx[pv[x]] = x /\ pv[x] # l
          BY <1>1, <4>2
        <5>2. pv[x] # pv[l]
          BY <1>1, <5>1
        <5> QED BY <5>1, <5>2
      <4> QED BY <4>1, <4>2
    <3> QED BY <3>1, <3>2, <3>3
  <2> QED BY <2>1, <2>2
<1> QED BY <1>1, <1>2, <1>3 DEF IsRing

-----------------------------------------------------------------------------
(***************************************************************************)
(* The inductive invariant of JIT memory.                                  *)
(***************************************************************************)
Cell == [page : Page, off : Offset]
CellAt(p, o) == [page |-> p, off |-> o]
\* The cells of page p in clients' hands, and the pages of a stepping with a
\* free cell.
Taken(p) == {o \in Offset : CellAt(p, o) \in live}
Open(i) == {p \in Created : stepping[p] = i /\ cellHead[p] # 0}

MemTypes ==
    /\ DOMAIN freeList = 1 .. NumSteppings
    /\ DOMAIN nextPage = Page /\ DOMAIN cellHead = Page /\ DOMAIN cellNext = Page
    /\ \A p \in Page : DOMAIN cellNext[p] = Offset
    /\ stepping \in [Page -> 1 .. NumSteppings]
    /\ numAllocated \in [Page -> Int]
    /\ reservedCur \in 0 .. MaxPages /\ ranges \in Nat
    /\ DOMAIN next = Large \cup {Anchor} /\ DOMAIN prev = Large \cup {Anchor}
    /\ largeSize \in [Large -> Int]
    /\ used \in Int /\ osUsage \in Int
    /\ live \in SUBSET (Large \cup Cell)

\* A page's free list holds the cells that no client has.
PageInv(p) ==
    /\ Taken(p) \subseteq CellsOf(CellSize(p))
    /\ IsList(cellHead[p], cellNext[p], 0, CellsOf(CellSize(p)) \ Taken(p))
    /\ numAllocated[p] = Cardinality(Taken(p))
PagesInv == \A p \in Created : PageInv(p)
FreshInv == \A p \in Page \ Created : nextPage[p] = Null /\ Taken(p) = {} /\ numAllocated[p] = 0
ListsInv == \A i \in 1 .. NumSteppings : IsList(freeList[i], nextPage, Null, Open(i))
RingInv == IsRing(next, prev, (live \cap Large) \cup {Anchor})
Held == [p \in Created |-> CellSize(p) * Cardinality(LiveCells(p))]
LargeMem == SumFunctionOnSet(largeSize, live \cap Large)
SmallMem == SumFunctionOnSet(Held, Created)
MemInv == MemTypes /\ PagesInv /\ FreshInv /\ ListsInv /\ RingInv /\ MemoryAccounted

\* The constants.
LEMMA ConstantFacts ==
    /\ MaxPages \in Nat /\ Null \notin Page /\ Anchor \notin Large /\ IsFiniteSet(Large)
    /\ Large \cap Cell = {} /\ 0 \notin Offset /\ IsFiniteSet(Offset)
    /\ OsPage \in Nat \ {0} /\ LargeHeader \in Nat /\ RangePages \in Nat /\ Sizes \subseteq Nat
<1>1. HeaderSize \in Nat \ {0} /\ PageSize \in Nat
  BY SteppingFacts
<1>2. IsFiniteSet(Offset)
  <2>1. PICK k \in Int : k = PageSize - 1
    BY <1>1
  <2>2. HeaderSize \in Int
    BY <1>1
  <2>3. IsFiniteSet(HeaderSize .. k)
    BY <2>2, FS_Interval
  <2> QED BY <2>1, <2>3 DEF Offset
<1>3. 0 \notin Offset
  BY <1>1 DEF Offset
<1> QED BY <1>2, <1>3, JitMemAssumption DEF Cell

\* The clients' cells are described by their offsets.
LEMMA LiveIsTaken ==
    ASSUME MemTypes, NEW p \in Page
    PROVE  /\ LiveCells(p) = Taken(p)
           /\ IsFiniteSet(Taken(p)) /\ Cardinality(Taken(p)) \in Nat
<1>1. ASSUME NEW o \in LiveCells(p) PROVE o \in Taken(p)
  <2>1. PICK a \in live \ Large : a.page = p /\ a.off = o
    BY <1>1 DEF LiveCells
  <2>2. a \in Cell
    BY <2>1 DEF MemTypes
  <2>3. a = CellAt(p, o) /\ o \in Offset
    BY <2>1, <2>2 DEF Cell, CellAt
  <2> QED BY <2>1, <2>3 DEF Taken
<1>2. ASSUME NEW o \in Taken(p) PROVE o \in LiveCells(p)
  <2>1. PICK a : a = CellAt(p, o) /\ a \in live /\ o \in Offset
    BY <1>2 DEF Taken
  <2>2. a \in Cell /\ a.page = p /\ a.off = o
    BY <2>1 DEF Cell, CellAt
  <2>3. a \notin Large
    BY <2>2, ConstantFacts
  <2> QED BY <2>1, <2>2, <2>3 DEF LiveCells
<1>3. Taken(p) \in SUBSET Offset
  BY DEF Taken
<1>4. IsFiniteSet(Taken(p))
  BY <1>3, ConstantFacts, FS_Subset
<1> QED BY <1>1, <1>2, <1>4, FS_CardinalityType

\* Cells are told apart by page and offset.
LEMMA CellsDiffer ==
    ASSUME NEW p, NEW o, NEW q, NEW r, CellAt(p, o) = CellAt(q, r)
    PROVE  p = q /\ o = r
<1>1. CellAt(p, o).page = p /\ CellAt(q, r).page = q /\ CellAt(p, o).off = o /\ CellAt(q, r).off = r
  BY DEF CellAt
<1> QED BY <1>1

\* The pages that exist are pages.
LEMMA CreatedPages ==
    ASSUME MemTypes
    PROVE  Created \subseteq Page /\ IsFiniteSet(Created) /\ \A p \in Created : p \in Int
<1>1. reservedCur \in Int /\ 1 \in Int /\ reservedCur <= MaxPages /\ MaxPages \in Nat
  BY ConstantFacts DEF MemTypes
<1>2. IsFiniteSet(1 .. reservedCur)
  BY <1>1, FS_Interval
<1> QED BY <1>1, <1>2 DEF Created, Page

\* The initial states satisfy the invariant.
LEMMA InitMem == Init => MemInv
<1> SUFFICES ASSUME Init PROVE MemInv
  OBVIOUS
<1>1. MemTypes
  BY SteppingFacts, ConstantFacts DEF Init, MemTypes
<1>2. Created = {} /\ live = {}
  BY DEF Init, Created
<1>3. PagesInv
  BY <1>2 DEF PagesInv
<1>4. FreshInv
  BY <1>2 DEF FreshInv, Init, Taken
<1>5. ListsInv
  <2>1. \A i \in 1 .. NumSteppings : freeList[i] = Null /\ Open(i) = {}
    BY <1>2 DEF Init, Open
  <2>2. IsList(Null, nextPage, Null, {})
    BY EmptyList
  <2> QED BY <2>1, <2>2 DEF ListsInv
<1>6. RingInv
  <2>1. next[Anchor] = Anchor /\ prev[Anchor] = Anchor /\ (live \cap Large) \cup {Anchor} = {Anchor}
    BY <1>2 DEF Init
  <2> QED BY <2>1 DEF RingInv, IsRing
<1>7. MemoryAccounted
  <2>1. SumFunctionOnSet(largeSize, live \cap Large) = 0
    <3>1. live \cap Large = {}
      BY <1>2
    <3> QED BY <3>1, SumEmpty
  <2>2. SumFunctionOnSet([p \in Created |-> CellSize(p) * Cardinality(LiveCells(p))], Created) = 0
    <3>1. PICK g : g = [p \in Created |-> CellSize(p) * Cardinality(LiveCells(p))]
      OBVIOUS
    <3> QED BY <1>2, <3>1, SumEmpty
  <2>3. used = 0 /\ osUsage = 0 /\ down = FALSE /\ reservedCur * PageSize = 0
    BY SteppingFacts DEF Init
  <2> QED BY <2>1, <2>2, <2>3 DEF MemoryAccounted
<1> QED BY <1>1, <1>3, <1>4, <1>5, <1>6, <1>7 DEF MemInv

\* What the clients hold is a number.
LEMMA HeldFacts ==
    ASSUME MemTypes
    PROVE  /\ DOMAIN Held = Created
           /\ \A p \in Created : /\ Held[p] = CellSize(p) * Cardinality(Taken(p)) /\ Held[p] \in Int
                                 /\ CellSize(p) \in Nat \ {0}
           /\ SmallMem \in Int
           /\ LargeMem \in Int /\ IsFiniteSet(live \cap Large)
<1>1. ASSUME NEW p \in Created
      PROVE  /\ Held[p] = CellSize(p) * Cardinality(Taken(p)) /\ Held[p] \in Int
             /\ CellSize(p) \in Nat \ {0}
  <2>1. p \in Page
    BY CreatedPages
  <2>2. stepping[p] \in 1 .. NumSteppings
    BY <2>1 DEF MemTypes
  <2>3. CellSize(p) \in Nat \ {0}
    BY <2>2, SteppingFacts DEF CellSize
  <2>4. LiveCells(p) = Taken(p) /\ Cardinality(Taken(p)) \in Nat
    BY <2>1, LiveIsTaken
  <2>5. PICK c \in Nat, n \in Nat : c = CellSize(p) /\ n = Cardinality(Taken(p))
    BY <2>3, <2>4
  <2>6. Held[p] = c * n /\ c * n \in Int
    BY <2>4, <2>5 DEF Held
  <2> QED BY <2>3, <2>5, <2>6
<1>2. DOMAIN Held = Created
  BY DEF Held
<1>3. SmallMem \in Int
  <2>1. PICK g : g = Held
    OBVIOUS
  <2>2. \A y \in Created : g[y] \in Int
    BY <1>1, <2>1
  <2>3. SumFunctionOnSet(g, Created) \in Int
    BY <2>2, CreatedPages, SumSame
  <2> QED BY <2>1, <2>3 DEF SmallMem
<1>4. IsFiniteSet(live \cap Large)
  <2>1. live \cap Large \in SUBSET Large
    OBVIOUS
  <2> QED BY <2>1, ConstantFacts, FS_Subset
<1>5. LargeMem \in Int
  <2>1. \A y \in live \cap Large : largeSize[y] \in Int
    BY DEF MemTypes
  <2> QED BY <1>4, <2>1, SumSame DEF LargeMem
<1> QED BY <1>1, <1>2, <1>3, <1>4, <1>5

\* The same, as a fact that holds after a step as well.
HeldIs == \A p \in Created : /\ Held[p] = CellSize(p) * Cardinality(Taken(p)) /\ Held[p] \in Int
                             /\ CellSize(p) \in Nat \ {0}
\* What the clients hold of every page.
LEMMA HeldIsFact == MemTypes => HeldIs
  BY HeldFacts DEF HeldIs

\* Memory accounting in the terms used here.
AccountsGood == /\ used = LargeMem + SmallMem
                /\ osUsage = IF down THEN 0 ELSE LargeMem + reservedCur * PageSize
\* It is what MemoryAccounted says.
LEMMA AccountIs == MemoryAccounted <=> AccountsGood
  BY DEF MemoryAccounted, AccountsGood, LargeMem, SmallMem, Held

-----------------------------------------------------------------------------
(***************************************************************************)
(* Small allocations.                                                      *)
(***************************************************************************)
\* A cell comes into a client's hands.
LEMMA TakenAdd ==
    ASSUME MemTypes, NEW p \in Page, NEW o \in Offset, live' = live \cup {CellAt(p, o)}
    PROVE  /\ Taken(p)' = Taken(p) \cup {o}
           /\ \A q : q # p => Taken(q)' = Taken(q)
           /\ live' \cap Large = live \cap Large
           /\ live' \in SUBSET (Large \cup Cell)
<1>1. CellAt(p, o) \in Cell
  BY DEF CellAt, Cell
<1>2. CellAt(p, o) \notin Large
  BY <1>1, ConstantFacts
<1>3. \A q, r : CellAt(q, r) = CellAt(p, o) => q = p /\ r = o
  BY CellsDiffer
<1>4. Taken(p)' = Taken(p) \cup {o}
  BY <1>3 DEF Taken
<1>5. \A q : q # p => Taken(q)' = Taken(q)
  BY <1>3 DEF Taken
<1> QED BY <1>1, <1>2, <1>4, <1>5 DEF MemTypes

\* A client gives a cell back.
LEMMA TakenRemove ==
    ASSUME MemTypes, NEW p \in Page, NEW o \in Offset, live' = live \ {CellAt(p, o)}
    PROVE  /\ Taken(p)' = Taken(p) \ {o}
           /\ \A q : q # p => Taken(q)' = Taken(q)
           /\ live' \cap Large = live \cap Large
           /\ live' \in SUBSET (Large \cup Cell)
<1>1. CellAt(p, o) \in Cell
  BY DEF CellAt, Cell
<1>2. CellAt(p, o) \notin Large
  BY <1>1, ConstantFacts
<1>3. \A q, r : CellAt(q, r) = CellAt(p, o) => q = p /\ r = o
  BY CellsDiffer
<1>4. Taken(p)' = Taken(p) \ {o}
  BY <1>3 DEF Taken
<1>5. \A q : q # p => Taken(q)' = Taken(q)
  BY <1>3 DEF Taken
<1> QED BY <1>1, <1>2, <1>4, <1>5 DEF MemTypes

\* A page of stepping i has cells of size s.
HasSize(i, s) == s = SteppingArray[i]
\* What AllocateCell does to page p, whose free list starts at head.
TakeEffect(s, p, head, link) ==
    /\ head \in CellsOf(s) \ Taken(p) /\ head \in Offset
    /\ Taken(p)' = Taken(p) \cup {head} /\ Taken(p)' \subseteq CellsOf(s)
    /\ \A q : q # p => Taken(q)' = Taken(q)
    /\ live' \cap Large = live \cap Large
    /\ live' \in SUBSET (Large \cup Cell)
    /\ IsList(cellHead'[p], cellNext'[p], 0, CellsOf(s) \ Taken(p)')
    /\ Cardinality(Taken(p)') = Cardinality(Taken(p)) + 1
    /\ numAllocated'[p] = Cardinality(Taken(p)') /\ numAllocated' \in [Page -> Int]
    /\ cellHead'[p] = link[head]
    /\ \A q \in Page \ {p} : /\ cellHead'[q] = cellHead[q] /\ cellNext'[q] = cellNext[q]
                             /\ numAllocated'[q] = numAllocated[q]
    /\ DOMAIN cellHead' = Page /\ DOMAIN cellNext' = Page
    /\ \A q \in Page : DOMAIN cellNext'[q] = Offset
    /\ s \in Nat \ {0} /\ used' = used + s

\* AllocateCell takes the first cell off the free list of the page.
LEMMA TakeFacts ==
    ASSUME MemTypes, NEW i \in 1 .. NumSteppings, NEW s, HasSize(i, s),
           NEW p \in Page, NEW head, NEW link, DOMAIN link = Offset, head # 0,
           Taken(p) \subseteq CellsOf(s), numAllocated[p] = Cardinality(Taken(p)),
           IsList(head, link, 0, CellsOf(s) \ Taken(p)), TakeCell(i, p, head, link)
    PROVE  TakeEffect(s, p, head, link)
<1> USE DEF HasSize
<1>1. /\ cellHead' = [cellHead EXCEPT ![p] = link[head]]
      /\ cellNext' = [cellNext EXCEPT ![p] = [link EXCEPT ![head] = 0]]
      /\ numAllocated' = [numAllocated EXCEPT ![p] = @ + 1]
      /\ used' = used + s /\ live' = live \cup {CellAt(p, head)}
  BY DEF TakeCell, CellAt
<1>2. CellsOf(s) \subseteq Offset
  BY DEF CellsOf
<1>3. PICK F : F = CellsOf(s) \ Taken(p)
  OBVIOUS
<1>4. PICK link2 : link2 = [link EXCEPT ![head] = 0]
  OBVIOUS
<1>5. \A y \in F \ {head} : link2[y] = link[y]
  BY <1>2, <1>3, <1>4
<1>6. head \in F /\ IsList(link[head], link2, 0, F \ {head})
  <2>1. IsList(head, link, 0, F)
    BY <1>3
  <2> QED BY <1>5, <2>1, PopList
<1>7. head \in Offset
  BY <1>2, <1>3, <1>6
<1>8. /\ Taken(p)' = Taken(p) \cup {head}
      /\ \A q : q # p => Taken(q)' = Taken(q)
      /\ live' \cap Large = live \cap Large
      /\ live' \in SUBSET (Large \cup Cell)
  BY <1>1, <1>7, TakenAdd
<1>9. F \ {head} = CellsOf(s) \ Taken(p)'
  BY <1>3, <1>8
<1>10. cellHead'[p] = link[head] /\ cellNext'[p] = link2
  BY <1>1, <1>4 DEF MemTypes
<1>11. IsList(cellHead'[p], cellNext'[p], 0, CellsOf(s) \ Taken(p)')
  BY <1>6, <1>9, <1>10
<1>12. IsFiniteSet(Taken(p)) /\ Cardinality(Taken(p)) \in Nat
  BY LiveIsTaken
<1>13. Cardinality(Taken(p)') = Cardinality(Taken(p)) + 1
  <2>1. PICK T : T = Taken(p) /\ head \notin T
    BY <1>3, <1>6
  <2>2. Cardinality(T \cup {head}) = Cardinality(T) + 1
    BY <1>12, <2>1, FS_AddElement
  <2> QED BY <1>8, <2>1, <2>2
<1>14. numAllocated'[p] = Cardinality(Taken(p)') /\ numAllocated' \in [Page -> Int]
  BY <1>1, <1>12, <1>13 DEF MemTypes
<1>15. \A q \in Page \ {p} : /\ cellHead'[q] = cellHead[q] /\ cellNext'[q] = cellNext[q]
                             /\ numAllocated'[q] = numAllocated[q]
  BY <1>1 DEF MemTypes
<1>16. DOMAIN cellHead' = Page /\ DOMAIN cellNext' = Page
  BY <1>1 DEF MemTypes
<1>17. DOMAIN link2 = Offset
  BY <1>4
<1>18. \A q \in Page : DOMAIN cellNext'[q] = Offset
  BY <1>10, <1>15, <1>17 DEF MemTypes
<1>19. s \in Nat \ {0}
  BY SteppingFacts
<1>20. Taken(p)' \subseteq CellsOf(s)
  BY <1>3, <1>6, <1>8
<1> QED BY <1>1, <1>3, <1>6, <1>7, <1>8, <1>10, <1>11, <1>13, <1>14, <1>15, <1>16, <1>18, <1>19, <1>20 DEF TakeEffect

\* The memory held in cells, if cells of one page change hands.
LEMMA HeldChange ==
    ASSUME MemTypes, MemTypes', NEW p \in Created, UNCHANGED <<reservedCur, stepping>>,
           \A q \in Created \ {p} : Taken(q)' = Taken(q),
           NEW d \in Int, Cardinality(Taken(p)') = Cardinality(Taken(p)) + d
    PROVE  SmallMem' = SmallMem + CellSize(p) * d
<1>1. PICK g, h : g = Held /\ h = Held'
  OBVIOUS
<1>2. Created' = Created /\ IsFiniteSet(Created)
  BY CreatedPages DEF Created
<1>3. \A q : CellSize(q)' = CellSize(q)
  BY DEF CellSize
<1>4. \A q \in Created : /\ g[q] = CellSize(q) * Cardinality(Taken(q)) /\ g[q] \in Int
                         /\ CellSize(q) \in Nat \ {0}
  BY <1>1, HeldFacts
<1>5. \A q \in Created : h[q] = CellSize(q) * Cardinality(Taken(q)') /\ h[q] \in Int
  <2>1. HeldIs'
    BY HeldIsFact, PTL
  <2> QED BY <1>1, <1>2, <1>3, <2>1 DEF HeldIs
<1>6. \A y \in Created \ {p} : h[y] = g[y]
  BY <1>4, <1>5
<1>7. h[p] = g[p] + CellSize(p) * d
  <2>1. Cardinality(Taken(p)) \in Nat
    BY CreatedPages, LiveIsTaken
  <2>2. PICK c \in Int, n \in Int : c = CellSize(p) /\ n = Cardinality(Taken(p))
    BY <1>4, <2>1
  <2>3. g[p] = c * n /\ h[p] = c * (n + d)
    BY <1>4, <1>5, <2>2
  <2>4. c * (n + d) = c * n + c * d
    OBVIOUS
  <2> QED BY <2>2, <2>3, <2>4
<1>8. /\ SumFunctionOnSet(g, Created) \in Int
      /\ SumFunctionOnSet(h, Created) = SumFunctionOnSet(g, Created) - g[p] + h[p]
  <2>1. \A y \in Created : g[y] \in Int /\ h[y] \in Int
    BY <1>4, <1>5
  <2> QED BY <1>2, <1>6, <2>1, SumChange
<1>9. SmallMem = SumFunctionOnSet(g, Created) /\ SmallMem' = SumFunctionOnSet(h, Created)
  BY <1>1, <1>2 DEF SmallMem
<1>10. PICK v \in Int : v = CellSize(p) * d
  BY <1>4
<1>11. g[p] \in Int
  BY <1>4
<1> QED BY <1>7, <1>8, <1>9, <1>10, <1>11

\* The same with a new page of one cell in a client's hands.
LEMMA HeldNew ==
    ASSUME MemTypes, MemTypes', NEW p, p = reservedCur + 1, reservedCur' = p,
           \A q \in Created : Taken(q)' = Taken(q) /\ stepping'[q] = stepping[q],
           Cardinality(Taken(p)') = 1
    PROVE  SmallMem' = SmallMem + SteppingArray[stepping'[p]]
<1>1. PICK g, h : g = Held /\ h = Held'
  OBVIOUS
<1>2. Created' = Created \cup {p} /\ p \notin Created /\ IsFiniteSet(Created)
  <2>1. reservedCur \in Nat
    BY DEF MemTypes
  <2> QED BY <2>1, CreatedPages DEF Created
<1>3. \A q \in Created : CellSize(q)' = CellSize(q)
  BY DEF CellSize
<1>4. \A q \in Created : g[q] = CellSize(q) * Cardinality(Taken(q)) /\ g[q] \in Int
  BY <1>1, HeldFacts
<1>5. \A q \in Created' : /\ h[q] = CellSize(q)' * Cardinality(Taken(q)') /\ h[q] \in Int
                          /\ CellSize(q)' \in Nat \ {0}
  <2>1. HeldIs'
    BY HeldIsFact, PTL
  <2> QED BY <1>1, <2>1 DEF HeldIs
<1>6. \A y \in Created : h[y] = g[y]
  BY <1>2, <1>3, <1>4, <1>5
<1>7. h[p] = SteppingArray[stepping'[p]] /\ h[p] \in Int
  <2>1. PICK c \in Nat : c = CellSize(p)'
    BY <1>2, <1>5
  <2>2. h[p] = c * 1
    BY <1>2, <1>5, <2>1
  <2> QED BY <2>1, <2>2 DEF CellSize
<1>8. SumFunctionOnSet(h, Created) \in Int /\ SumFunctionOnSet(h, Created \cup {p}) = SumFunctionOnSet(h, Created) + h[p]
  <2>1. \A y \in Created \cup {p} : h[y] \in Int
    BY <1>2, <1>5
  <2> QED BY <1>2, <2>1, SumAdd
<1>9. SumFunctionOnSet(h, Created) = SumFunctionOnSet(g, Created)
  BY <1>2, <1>4, <1>6, SumSame
<1>10. SmallMem = SumFunctionOnSet(g, Created) /\ SmallMem' = SumFunctionOnSet(h, Created \cup {p})
  BY <1>1, <1>2 DEF SmallMem
<1> QED BY <1>7, <1>8, <1>9, <1>10

\* Steps that concern cells alone leave the ring and the memory of large
\* allocations as they are.
LEMMA LargeUnchanged ==
    ASSUME RingInv, live' \cap Large = live \cap Large, UNCHANGED large
    PROVE  RingInv' /\ LargeMem' = LargeMem
<1>1. next' = next /\ prev' = prev /\ largeSize' = largeSize
  BY DEF large
<1> QED BY <1>1 DEF RingInv, LargeMem

-----------------------------------------------------------------------------
(***************************************************************************)
(* Every step keeps the invariant of JIT memory.                           *)
(***************************************************************************)
\* A cell of a page on the stepping's list is taken.
LEMMA TakeFromList ==
    ASSUME MemInv, NEW i \in 1 .. NumSteppings, AllocateFromFreeList(i)
    PROVE  MemInv' /\ \E a \in live' \ live : stepping'[a.page] = i
<1>1. MemTypes /\ PagesInv /\ FreshInv /\ ListsInv /\ RingInv /\ MemoryAccounted
  BY DEF MemInv
<1>2. PICK p, s, head, link : p = freeList[i] /\ s = SteppingArray[i] /\ head = cellHead[p] /\ link = cellNext[p]
  OBVIOUS
<1>3. p \in Open(i)
  <2>1. p # Null
    BY <1>2 DEF AllocateFromFreeList
  <2>2. IsList(p, nextPage, Null, Open(i))
    BY <1>1, <1>2 DEF ListsInv
  <2> QED BY <2>1, <2>2 DEF IsList
<1>4. p \in Created /\ stepping[p] = i /\ head # 0
  BY <1>2, <1>3 DEF Open
<1>5. p \in Page /\ Created \subseteq Page
  BY <1>1, <1>4, CreatedPages
<1>6. CellSize(p) = s
  BY <1>2, <1>4 DEF CellSize
<1>7. TakeCell(i, p, head, link) /\ UNCHANGED <<stepping, reservedCur, ranges, osUsage, large, down>>
  BY <1>2 DEF AllocateFromFreeList
<1>8. DOMAIN link = Offset
  BY <1>1, <1>2, <1>5 DEF MemTypes
<1>9. /\ Taken(p) \subseteq CellsOf(s) /\ numAllocated[p] = Cardinality(Taken(p))
      /\ IsList(head, link, 0, CellsOf(s) \ Taken(p))
  BY <1>1, <1>2, <1>4, <1>6 DEF PagesInv, PageInv
<1>10. HasSize(i, s)
  BY <1>2 DEF HasSize
<1>11. TakeEffect(s, p, head, link)
  BY <1>1, <1>10, <1>4, <1>5, <1>7, <1>8, <1>9, TakeFacts
<1>12. Created' = Created /\ \A q : CellSize(q)' = CellSize(q)
  BY <1>7 DEF Created, CellSize
<1>13. /\ freeList' = [freeList EXCEPT ![i] = IF link[head] = 0 THEN nextPage[p] ELSE p]
       /\ nextPage' = IF link[head] = 0 THEN [nextPage EXCEPT ![p] = Null] ELSE nextPage
  BY <1>7 DEF TakeCell
<1>14. MemTypes'
  <2>1. DOMAIN freeList' = 1 .. NumSteppings /\ DOMAIN nextPage' = Page
    BY <1>1, <1>13 DEF MemTypes
  <2>2. used' \in Int
    BY <1>1, <1>11 DEF MemTypes, TakeEffect
  <2>3. UNCHANGED <<stepping, reservedCur, ranges, osUsage, prev, next, largeSize>>
    BY <1>7 DEF large
  <2> QED BY <1>1, <1>11, <2>1, <2>2, <2>3 DEF MemTypes, TakeEffect
<1>15. PagesInv'
  <2>1. SUFFICES ASSUME NEW q \in Created PROVE PageInv(q)'
    BY <1>12 DEF PagesInv
  <2>2. CASE q = p
    BY <1>6, <1>11, <1>12, <2>2 DEF PageInv, TakeEffect
  <2>3. CASE q # p
    <3>1. PageInv(q) /\ q \in Page
      BY <1>1, <1>5 DEF PagesInv
    <3>2. /\ cellHead'[q] = cellHead[q] /\ cellNext'[q] = cellNext[q] /\ numAllocated'[q] = numAllocated[q]
          /\ Taken(q)' = Taken(q) /\ CellSize(q)' = CellSize(q)
      BY <1>11, <1>12, <2>3, <3>1 DEF TakeEffect
    <3> QED BY <3>1, <3>2 DEF PageInv
  <2> QED BY <2>2, <2>3
<1>16. FreshInv'
  <2>1. SUFFICES ASSUME NEW q \in Page \ Created
                 PROVE  nextPage'[q] = Null /\ Taken(q)' = {} /\ numAllocated'[q] = 0
    BY <1>12 DEF FreshInv
  <2>2. q # p
    BY <1>4
  <2>3. nextPage'[q] = nextPage[q]
    BY <1>1, <1>13, <2>2 DEF MemTypes
  <2> QED BY <1>1, <1>11, <2>2, <2>3 DEF FreshInv, TakeEffect
<1>17. ListsInv'
  <2>1. SUFFICES ASSUME NEW j \in 1 .. NumSteppings PROVE IsList(freeList'[j], nextPage', Null, Open(j)')
    BY DEF ListsInv
  <2>2. IsList(freeList[j], nextPage, Null, Open(j))
    BY <1>1 DEF ListsInv
  <2>3. \A q \in Created : stepping'[q] = stepping[q] /\ (q # p => cellHead'[q] = cellHead[q])
    BY <1>5, <1>7, <1>11 DEF TakeEffect
  <2>4. \A q \in Open(j) : q # p => nextPage'[q] = nextPage[q]
    <3>1. \A q \in Open(j) : q \in Page
      BY <1>5 DEF Open
    <3> QED BY <1>1, <1>13, <3>1 DEF MemTypes
  <2>5. CASE j # i
    <3>1. Open(j)' = Open(j) /\ p \notin Open(j)
      BY <1>4, <1>12, <2>3, <2>5 DEF Open
    <3>2. freeList'[j] = freeList[j]
      BY <1>1, <1>13, <2>5 DEF MemTypes
    <3>3. \A q \in Open(j) : nextPage'[q] = nextPage[q]
      BY <2>4, <3>1
    <3>4. IsList(freeList[j], nextPage', Null, Open(j))
      BY <2>2, <3>3, SameList
    <3> QED BY <3>1, <3>2, <3>4
  <2>6. CASE j = i /\ link[head] = 0
    <3>1. Open(j)' = Open(j) \ {p}
      BY <1>11, <1>12, <2>3, <2>6 DEF Open, TakeEffect
    <3>2. freeList'[j] = nextPage[p] /\ freeList[j] = p
      BY <1>1, <1>2, <1>13, <2>6 DEF MemTypes
    <3>3. p # Null
      BY <1>5, ConstantFacts
    <3>4. IsList(p, nextPage, Null, Open(j))
      BY <2>2, <3>2
    <3>5. PICK links : links = nextPage'
      OBVIOUS
    <3>6. \A y \in Open(j) \ {p} : links[y] = nextPage[y]
      BY <2>4, <3>5
    <3>7. IsList(nextPage[p], links, Null, Open(j) \ {p})
      BY <3>3, <3>4, <3>6, PopList
    <3> QED BY <3>1, <3>2, <3>5, <3>7
  <2>7. CASE j = i /\ link[head] # 0
    <3>1. Open(j)' = Open(j)
      BY <1>4, <1>2, <1>11, <1>12, <2>3, <2>7 DEF Open, TakeEffect
    <3>2. freeList'[j] = freeList[j] /\ nextPage' = nextPage
      BY <1>1, <1>2, <1>13, <2>7 DEF MemTypes
    <3> QED BY <2>2, <3>1, <3>2
  <2> QED BY <2>5, <2>6, <2>7
<1>18. RingInv' /\ LargeMem' = LargeMem
  BY <1>1, <1>7, <1>11, LargeUnchanged DEF TakeEffect
<1>19. MemoryAccounted'
  <2>1. SmallMem' = SmallMem + CellSize(p) * 1
    <3>1. UNCHANGED <<reservedCur, stepping>> /\ \A q \in Created \ {p} : Taken(q)' = Taken(q)
      BY <1>7, <1>11 DEF TakeEffect
    <3>2. 1 \in Int
      OBVIOUS
    <3> QED BY <1>1, <1>4, <1>11, <1>14, <3>1, <3>2, HeldChange DEF TakeEffect
  <2>2. SmallMem \in Int /\ LargeMem \in Int
    BY <1>1, HeldFacts
  <2>3. /\ used = LargeMem + SmallMem
        /\ osUsage = IF down THEN 0 ELSE LargeMem + reservedCur * PageSize
    BY <1>1, AccountIs DEF AccountsGood
  <2>4. used' = LargeMem' + SmallMem'
    BY <1>6, <1>11, <1>18, <2>1, <2>2, <2>3 DEF TakeEffect
  <2>5. osUsage' = IF down' THEN 0 ELSE LargeMem' + reservedCur' * PageSize
    BY <1>7, <1>18, <2>3
  <2>6. AccountsGood'
    BY <2>4, <2>5 DEF AccountsGood
  <2> QED BY <2>6, AccountIs, PTL
<1>20. \E a \in live' \ live : stepping'[a.page] = i
  <2>1. PICK a : a = CellAt(p, head)
    OBVIOUS
  <2>2. a \in live' /\ a.page = p
    BY <1>7, <2>1 DEF TakeCell, CellAt
  <2>3. a \notin live
    BY <1>11, <2>1 DEF Taken, TakeEffect
  <2>4. stepping'[p] = i
    BY <1>4, <1>7
  <2> QED BY <2>2, <2>3, <2>4
<1> QED BY <1>14, <1>15, <1>16, <1>17, <1>18, <1>19, <1>20 DEF MemInv

\* A cell of a new page is taken.
LEMMA TakeFromNewPage ==
    ASSUME MemInv, NEW i \in 1 .. NumSteppings, AllocateFromNewPage(i)
    PROVE  MemInv' /\ \E a \in live' \ live : stepping'[a.page] = i
<1>1. MemTypes /\ PagesInv /\ FreshInv /\ ListsInv /\ RingInv /\ MemoryAccounted
  BY DEF MemInv
<1>2. PICK p, s, link : p = NewPage /\ s = SteppingArray[i] /\ link = FreshLink(s)
  OBVIOUS
<1>3. p \in Page /\ p = reservedCur + 1 /\ reservedCur \in Nat /\ freeList[i] = Null /\ down = FALSE
  <2>1. p \in Page /\ p = reservedCur + 1 /\ reservedCur \in Nat /\ freeList[i] = Null
    BY <1>1, <1>2 DEF AllocateFromNewPage, NewPage, MemTypes
  <2>2. down = FALSE
    BY DEF AllocateFromNewPage
  <2> QED BY <2>1, <2>2
<1>4. p \notin Created /\ Created \subseteq Page
  BY <1>1, <1>3, CreatedPages DEF Created
<1>5. TakeCell(i, p, HeaderSize, link) /\ UNCHANGED <<large, down>>
  BY <1>2 DEF AllocateFromNewPage, FreshLink
<1>6. /\ stepping' = [stepping EXCEPT ![p] = i] /\ reservedCur' = p
      /\ osUsage' = osUsage + PageSize /\ ranges' \in Nat
  BY <1>1, <1>2 DEF AllocateFromNewPage, MemTypes
<1>7. HasSize(i, s) /\ DOMAIN link = Offset
  BY <1>2 DEF HasSize, FreshLink
<1>8. Taken(p) = {} /\ nextPage[p] = Null /\ numAllocated[p] = 0
  BY <1>1, <1>3, <1>4 DEF FreshInv
<1>9. /\ Taken(p) \subseteq CellsOf(s) /\ numAllocated[p] = Cardinality(Taken(p)) /\ HeaderSize # 0
      /\ IsList(HeaderSize, link, 0, CellsOf(s) \ Taken(p))
  <2>1. IsList(HeaderSize, link, 0, CellsOf(s))
    BY <1>2, FreshCells
  <2>2. CellsOf(s) \ Taken(p) = CellsOf(s)
    BY <1>8
  <2>3. Cardinality(Taken(p)) = 0
    BY <1>8, FS_EmptySet
  <2>4. HeaderSize # 0
    BY SteppingFacts
  <2> QED BY <1>8, <2>1, <2>2, <2>3, <2>4
<1>10. TakeEffect(s, p, HeaderSize, link)
  <2>1. PICK head : head = HeaderSize
    OBVIOUS
  <2>2. TakeCell(i, p, head, link) /\ head # 0 /\ IsList(head, link, 0, CellsOf(s) \ Taken(p))
    BY <1>5, <1>9, <2>1
  <2>3. MemTypes /\ p \in Page /\ Taken(p) \subseteq CellsOf(s) /\ numAllocated[p] = Cardinality(Taken(p))
    BY <1>1, <1>3, <1>9
  <2> QED BY <1>7, <2>1, <2>2, <2>3, TakeFacts
<1>11. Created' = Created \cup {p}
  BY <1>3, <1>6 DEF Created
<1>12. CellSize(p)' = s /\ stepping'[p] = i /\ \A q \in Page \ {p} : CellSize(q)' = CellSize(q) /\ stepping'[q] = stepping[q]
  BY <1>1, <1>2, <1>3, <1>6 DEF CellSize, MemTypes
<1>13. /\ freeList' = [freeList EXCEPT ![i] = IF link[HeaderSize] = 0 THEN nextPage[p] ELSE p]
       /\ nextPage' = IF link[HeaderSize] = 0 THEN [nextPage EXCEPT ![p] = Null] ELSE nextPage
  BY <1>5 DEF TakeCell
<1>14. DOMAIN nextPage' = Page /\ \A q \in Page : nextPage'[q] = nextPage[q]
  BY <1>1, <1>3, <1>8, <1>13 DEF MemTypes
<1>15. MemTypes'
  <2>1. DOMAIN freeList' = 1 .. NumSteppings /\ DOMAIN nextPage' = Page
    BY <1>1, <1>13, <1>14 DEF MemTypes
  <2>2. used' \in Int /\ osUsage' \in Int
    BY <1>1, <1>6, <1>10, SteppingFacts DEF MemTypes, TakeEffect
  <2>3. UNCHANGED <<prev, next, largeSize>>
    BY <1>5 DEF large
  <2>4. stepping' \in [Page -> 1 .. NumSteppings]
    BY <1>1, <1>6 DEF MemTypes
  <2>5. reservedCur' \in 0 .. MaxPages
    BY <1>3, <1>6, ConstantFacts DEF Page
  <2> QED BY <1>1, <1>6, <1>10, <2>1, <2>2, <2>3, <2>4, <2>5 DEF MemTypes, TakeEffect
<1>16. PagesInv'
  <2>1. SUFFICES ASSUME NEW q \in Created \cup {p} PROVE PageInv(q)'
    BY <1>11 DEF PagesInv
  <2>2. CASE q = p
    BY <1>10, <1>12, <2>2 DEF PageInv, TakeEffect
  <2>3. CASE q # p
    <3>1. PageInv(q) /\ q \in Page
      BY <1>1, <1>4, <2>3 DEF PagesInv
    <3>2. /\ cellHead'[q] = cellHead[q] /\ cellNext'[q] = cellNext[q] /\ numAllocated'[q] = numAllocated[q]
          /\ Taken(q)' = Taken(q) /\ CellSize(q)' = CellSize(q)
      BY <1>10, <1>12, <2>3, <3>1 DEF TakeEffect
    <3> QED BY <3>1, <3>2 DEF PageInv
  <2> QED BY <2>2, <2>3
<1>17. FreshInv'
  <2>1. SUFFICES ASSUME NEW q \in Page \ (Created \cup {p})
                 PROVE  nextPage'[q] = Null /\ Taken(q)' = {} /\ numAllocated'[q] = 0
    BY <1>11 DEF FreshInv
  <2> QED BY <1>1, <1>10, <1>14 DEF FreshInv, TakeEffect
<1>18. ListsInv'
  <2>1. SUFFICES ASSUME NEW j \in 1 .. NumSteppings PROVE IsList(freeList'[j], nextPage, Null, Open(j)')
    <3>1. ASSUME NEW j \in 1 .. NumSteppings, IsList(freeList'[j], nextPage, Null, Open(j)')
          PROVE  IsList(freeList'[j], nextPage', Null, Open(j)')
      <4>1. PICK head, F, links : head = freeList'[j] /\ F = Open(j)' /\ links = nextPage'
        OBVIOUS
      <4>2. F \subseteq Page
        BY <1>3, <1>4, <1>11, <4>1 DEF Open
      <4>3. \A q \in F : links[q] = nextPage[q]
        BY <1>14, <4>1, <4>2
      <4>4. IsList(head, nextPage, Null, F)
        BY <3>1, <4>1
      <4>5. IsList(head, links, Null, F)
        BY <4>3, <4>4, SameList
      <4> QED BY <4>1, <4>5
    <3> QED BY <3>1 DEF ListsInv
  <2>2. IsList(freeList[j], nextPage, Null, Open(j))
    BY <1>1 DEF ListsInv
  <2>3. \A q \in Created : q # p /\ stepping'[q] = stepping[q] /\ cellHead'[q] = cellHead[q]
    BY <1>4, <1>10, <1>12 DEF TakeEffect
  <2>4. CASE j # i
    <3>1. Open(j)' = Open(j)
      BY <1>11, <1>12, <2>3, <2>4 DEF Open
    <3>2. freeList'[j] = freeList[j]
      BY <1>1, <1>13, <2>4 DEF MemTypes
    <3> QED BY <2>2, <3>1, <3>2
  <2>5. CASE j = i
    <3>1. Open(i) = {}
      <4>1. IsList(Null, nextPage, Null, Open(i))
        BY <1>3, <2>2, <2>5
      <4> QED BY <4>1, EmptyHead
    <3>2. Open(i)' = IF link[HeaderSize] = 0 THEN {} ELSE {p}
      BY <1>10, <1>11, <1>12, <2>3, <3>1 DEF Open, TakeEffect
    <3>3. freeList'[i] = IF link[HeaderSize] = 0 THEN Null ELSE p
      BY <1>1, <1>8, <1>13 DEF MemTypes
    <3>4. IsList(Null, nextPage, Null, {})
      BY EmptyList
    <3>5. IsList(p, nextPage, Null, {p})
      <4>1. p \notin {} /\ p # Null /\ nextPage[p] = Null /\ \A y \in {} : nextPage[y] = nextPage[y]
        BY <1>3, <1>8, ConstantFacts
      <4>2. IsList(p, nextPage, Null, {} \cup {p})
        BY <3>4, <4>1, PushList
      <4> QED BY <4>2
    <3> QED BY <2>5, <3>2, <3>3, <3>4, <3>5
  <2> QED BY <2>4, <2>5
<1>19. RingInv' /\ LargeMem' = LargeMem
  BY <1>1, <1>5, <1>10, LargeUnchanged DEF TakeEffect
<1>20. MemoryAccounted'
  <2>1. SmallMem' = SmallMem + SteppingArray[stepping'[p]]
    <3>1. \A q \in Created : Taken(q)' = Taken(q) /\ stepping'[q] = stepping[q]
      BY <1>4, <1>10, <1>12 DEF TakeEffect
    <3>2. Cardinality(Taken(p)') = 1
      <4>1. Cardinality(Taken(p)) = 0
        BY <1>8, FS_EmptySet
      <4> QED BY <1>10, <4>1 DEF TakeEffect
    <3> QED BY <1>1, <1>3, <1>6, <1>15, <3>1, <3>2, HeldNew
  <2>2. SmallMem \in Int /\ LargeMem \in Int
    BY <1>1, HeldFacts
  <2>3. used = LargeMem + SmallMem /\ osUsage = LargeMem + reservedCur * PageSize
    BY <1>1, <1>3, AccountIs DEF AccountsGood
  <2>4. used' = LargeMem' + SmallMem'
    BY <1>2, <1>10, <1>12, <1>19, <2>1, <2>2, <2>3 DEF TakeEffect
  <2>5. osUsage' = LargeMem' + reservedCur' * PageSize /\ down' = FALSE
    <3>1. PICK n \in Int, m \in Int : n = PageSize /\ m = reservedCur
      BY <1>3, SteppingFacts
    <3>2. (m + 1) * n = m * n + n /\ m * n \in Int
      OBVIOUS
    <3> QED BY <1>3, <1>5, <1>6, <1>19, <2>2, <2>3, <3>1, <3>2
  <2>6. AccountsGood'
    BY <2>4, <2>5 DEF AccountsGood
  <2> QED BY <2>6, AccountIs, PTL
<1>21. \E a \in live' \ live : stepping'[a.page] = i
  <2>1. PICK a : a = CellAt(p, HeaderSize)
    OBVIOUS
  <2>2. a \in live' /\ a.page = p
    BY <1>5, <2>1 DEF TakeCell, CellAt
  <2>3. a \notin live
    BY <1>10, <2>1 DEF Taken, TakeEffect
  <2> QED BY <1>12, <2>2, <2>3
<1> QED BY <1>15, <1>16, <1>17, <1>18, <1>19, <1>20, <1>21 DEF MemInv

\* A cell is given back.
LEMMA GiveBack ==
    ASSUME MemInv, NEW p \in Page, NEW o \in Offset, CellAt(p, o) \in live, FreeSmall(p, o)
    PROVE  MemInv'
<1>1. MemTypes /\ PagesInv /\ FreshInv /\ ListsInv /\ RingInv /\ MemoryAccounted
  BY DEF MemInv
<1>2. o \in Taken(p)
  BY DEF Taken
<1>3. p \in Created /\ Created \subseteq Page
  BY <1>1, <1>2, CreatedPages DEF FreshInv
<1>4. PICK i, s, head, link : i = stepping[p] /\ s = CellSize(p) /\ head = cellHead[p] /\ link = cellNext[p]
  OBVIOUS
<1>5. i \in 1 .. NumSteppings /\ DOMAIN link = Offset
  BY <1>1, <1>4 DEF MemTypes
<1>6. s \in Nat \ {0}
  BY <1>1, <1>3, <1>4, HeldFacts
<1>7. /\ Taken(p) \subseteq CellsOf(s) /\ numAllocated[p] = Cardinality(Taken(p))
      /\ IsList(head, link, 0, CellsOf(s) \ Taken(p))
  BY <1>1, <1>3, <1>4 DEF PagesInv, PageInv
<1>8. /\ used' = used - s
      /\ numAllocated' = [numAllocated EXCEPT ![p] = @ - 1]
      /\ cellNext' = [cellNext EXCEPT ![p] = [link EXCEPT ![o] = head]]
      /\ cellHead' = [cellHead EXCEPT ![p] = o]
      /\ live' = live \ {CellAt(p, o)}
      /\ UNCHANGED <<stepping, reservedCur, ranges, osUsage, large, down>>
  BY <1>4 DEF FreeSmall, CellAt
<1>9. IF head = 0 THEN /\ nextPage' = [nextPage EXCEPT ![p] = freeList[i]]
                       /\ freeList' = [freeList EXCEPT ![i] = p]
      ELSE nextPage' = nextPage /\ freeList' = freeList
  BY <1>4 DEF FreeSmall
<1>10. /\ Taken(p)' = Taken(p) \ {o}
       /\ \A q : q # p => Taken(q)' = Taken(q)
       /\ live' \cap Large = live \cap Large
       /\ live' \in SUBSET (Large \cup Cell)
  BY <1>1, <1>8, TakenRemove
<1>11. IsFiniteSet(Taken(p)) /\ Cardinality(Taken(p)) \in Nat
  BY <1>1, LiveIsTaken
<1>12. Cardinality(Taken(p)') = Cardinality(Taken(p)) - 1
  <2>1. PICK T : T = Taken(p) /\ o \in T
    BY <1>2
  <2>2. Cardinality(T \ {o}) = Cardinality(T) - 1
    BY <1>11, <2>1, FS_RemoveElement
  <2> QED BY <1>10, <2>1, <2>2
<1>13. numAllocated'[p] = Cardinality(Taken(p)') /\ numAllocated' \in [Page -> Int]
  BY <1>1, <1>7, <1>8, <1>11, <1>12 DEF MemTypes
<1>14. PICK link2 : link2 = [link EXCEPT ![o] = head]
  OBVIOUS
<1>15. cellHead'[p] = o /\ cellNext'[p] = link2
  BY <1>1, <1>8, <1>14 DEF MemTypes
<1>16. o # 0
  BY ConstantFacts
<1>17. IsList(o, link2, 0, CellsOf(s) \ Taken(p)')
  <2>1. PICK F : F = CellsOf(s) \ Taken(p)
    OBVIOUS
  <2>2. F = CellsOf(s) \ Taken(p) /\ o \notin F
    BY <1>2, <2>1
  <2>3. IsList(head, link, 0, F)
    BY <1>7, <2>2
  <2>4. F \subseteq Offset
    BY <2>2 DEF CellsOf
  <2>5. link2[o] = head /\ \A y \in F : link2[y] = link[y]
    BY <1>5, <1>14, <2>2, <2>4
  <2>6. IsList(o, link2, 0, F \cup {o})
    BY <1>16, <2>2, <2>3, <2>5, PushList
  <2>7. F \cup {o} = CellsOf(s) \ Taken(p)'
    BY <1>2, <1>7, <1>10, <2>2
  <2> QED BY <2>6, <2>7
<1>18. \A q \in Page \ {p} : /\ cellHead'[q] = cellHead[q] /\ cellNext'[q] = cellNext[q]
                             /\ numAllocated'[q] = numAllocated[q]
  BY <1>1, <1>8 DEF MemTypes
<1>19. /\ DOMAIN cellHead' = Page /\ DOMAIN cellNext' = Page
       /\ \A q \in Page : DOMAIN cellNext'[q] = Offset
  <2>1. DOMAIN cellHead' = Page /\ DOMAIN cellNext' = Page
    BY <1>1, <1>8 DEF MemTypes
  <2>2. DOMAIN link2 = Offset
    BY <1>5, <1>14
  <2> QED BY <1>1, <1>15, <1>18, <2>1, <2>2 DEF MemTypes
<1>20. Created' = Created /\ \A q : CellSize(q)' = CellSize(q)
  BY <1>8 DEF Created, CellSize
<1>21. MemTypes'
  <2>1. DOMAIN freeList' = 1 .. NumSteppings /\ DOMAIN nextPage' = Page
    BY <1>1, <1>9 DEF MemTypes
  <2>2. used' \in Int
    BY <1>1, <1>6, <1>8 DEF MemTypes
  <2>3. UNCHANGED <<stepping, reservedCur, ranges, osUsage, prev, next, largeSize>>
    BY <1>8 DEF large
  <2> QED BY <1>1, <1>10, <1>13, <1>19, <2>1, <2>2, <2>3 DEF MemTypes
<1>22. PagesInv'
  <2>1. SUFFICES ASSUME NEW q \in Created PROVE PageInv(q)'
    BY <1>20 DEF PagesInv
  <2>2. CASE q = p
    BY <1>4, <1>7, <1>10, <1>13, <1>15, <1>17, <1>20, <2>2 DEF PageInv
  <2>3. CASE q # p
    <3>1. PageInv(q) /\ q \in Page
      BY <1>1, <1>3 DEF PagesInv
    <3>2. /\ cellHead'[q] = cellHead[q] /\ cellNext'[q] = cellNext[q] /\ numAllocated'[q] = numAllocated[q]
          /\ Taken(q)' = Taken(q) /\ CellSize(q)' = CellSize(q)
      BY <1>10, <1>18, <1>20, <2>3, <3>1
    <3> QED BY <3>1, <3>2 DEF PageInv
  <2> QED BY <2>2, <2>3
<1>23. FreshInv'
  <2>1. SUFFICES ASSUME NEW q \in Page \ Created
                 PROVE  nextPage'[q] = Null /\ Taken(q)' = {} /\ numAllocated'[q] = 0
    BY <1>20 DEF FreshInv
  <2>2. q # p
    BY <1>3
  <2>3. nextPage'[q] = nextPage[q]
    BY <1>1, <1>9, <2>2 DEF MemTypes
  <2> QED BY <1>1, <1>10, <1>18, <2>2, <2>3 DEF FreshInv
<1>24. ListsInv'
  <2>1. SUFFICES ASSUME NEW j \in 1 .. NumSteppings PROVE IsList(freeList'[j], nextPage', Null, Open(j)')
    BY DEF ListsInv
  <2>2. IsList(freeList[j], nextPage, Null, Open(j))
    BY <1>1 DEF ListsInv
  <2>3. \A q \in Created : stepping'[q] = stepping[q] /\ (q # p => cellHead'[q] = cellHead[q])
    BY <1>3, <1>8, <1>18
  <2>4. CASE head # 0
    <3>1. Open(j)' = Open(j)
      BY <1>4, <1>15, <1>16, <1>20, <2>3, <2>4 DEF Open
    <3>2. freeList'[j] = freeList[j] /\ nextPage' = nextPage
      BY <1>9, <2>4
    <3> QED BY <2>2, <3>1, <3>2
  <2>5. CASE head = 0
    <3>1. p \notin Open(j) /\ \A q \in Open(j) : q \in Page
      BY <1>3, <1>4, <2>5 DEF Open
    <3>2. PICK links : links = nextPage'
      OBVIOUS
    <3>3. links[p] = freeList[i] /\ \A q \in Open(j) : links[q] = nextPage[q]
      BY <1>1, <1>9, <2>5, <3>1, <3>2 DEF MemTypes
    <3>4. CASE j # i
      <4>1. Open(j)' = Open(j)
        BY <1>4, <1>20, <2>3, <3>1, <3>4 DEF Open
      <4>2. freeList'[j] = freeList[j]
        BY <1>1, <1>9, <2>5, <3>4 DEF MemTypes
      <4>3. IsList(freeList[j], links, Null, Open(j))
        BY <2>2, <3>3, SameList
      <4> QED BY <3>2, <4>1, <4>2, <4>3
    <3>5. CASE j = i
      <4>1. Open(j)' = Open(j) \cup {p}
        BY <1>3, <1>4, <1>15, <1>16, <1>20, <2>3, <3>5 DEF Open
      <4>2. freeList'[j] = p
        BY <1>1, <1>9, <2>5, <3>5 DEF MemTypes
      <4>3. p # Null /\ links[p] = freeList[j]
        BY <3>3, <3>5, ConstantFacts
      <4>4. IsList(p, links, Null, Open(j) \cup {p})
        BY <2>2, <3>1, <3>3, <4>3, PushList
      <4> QED BY <3>2, <4>1, <4>2, <4>4
    <3> QED BY <3>4, <3>5
  <2> QED BY <2>4, <2>5
<1>25. RingInv' /\ LargeMem' = LargeMem
  BY <1>1, <1>8, <1>10, LargeUnchanged
<1>26. MemoryAccounted'
  <2>1. SmallMem' = SmallMem + CellSize(p) * (-1)
    <3>1. UNCHANGED <<reservedCur, stepping>> /\ \A q \in Created \ {p} : Taken(q)' = Taken(q)
      BY <1>8, <1>10
    <3>2. PICK d \in Int : d = -1
      OBVIOUS
    <3>3. Cardinality(Taken(p)') = Cardinality(Taken(p)) + d
      BY <1>11, <1>12, <3>2
    <3>4. SmallMem' = SmallMem + CellSize(p) * d
      BY <1>1, <1>3, <1>21, <3>1, <3>3, HeldChange
    <3> QED BY <3>2, <3>4
  <2>2. SmallMem \in Int /\ LargeMem \in Int
    BY <1>1, HeldFacts
  <2>3. /\ used = LargeMem + SmallMem
        /\ osUsage = IF down THEN 0 ELSE LargeMem + reservedCur * PageSize
    BY <1>1, AccountIs DEF AccountsGood
  <2>4. used' = LargeMem' + SmallMem'
    <3>1. SmallMem' = SmallMem - s
      BY <1>4, <1>6, <2>1, <2>2
    <3> QED BY <1>6, <1>8, <1>25, <2>2, <2>3, <3>1
  <2>5. osUsage' = IF down' THEN 0 ELSE LargeMem' + reservedCur' * PageSize
    BY <1>8, <1>25, <2>3
  <2>6. AccountsGood'
    BY <2>4, <2>5 DEF AccountsGood
  <2> QED BY <2>6, AccountIs, PTL
<1> QED BY <1>21, <1>22, <1>23, <1>24, <1>25, <1>26 DEF MemInv

\* Steps that concern large allocations alone leave the pages and the memory
\* held in cells as they are.
LEMMA SmallUnchanged ==
    ASSUME MemTypes, MemTypes', PagesInv, FreshInv, ListsInv, UNCHANGED small,
           \A q \in Page : Taken(q)' = Taken(q)
    PROVE  PagesInv' /\ FreshInv' /\ ListsInv' /\ SmallMem' = SmallMem
<1>1. UNCHANGED <<freeList, nextPage, stepping, cellHead, cellNext, numAllocated, reservedCur, ranges>>
  BY DEF small
<1>2. Created' = Created /\ \A q : CellSize(q)' = CellSize(q)
  BY <1>1 DEF Created, CellSize
<1>3. Created \subseteq Page
  BY CreatedPages
<1>4. PagesInv'
  BY <1>1, <1>2, <1>3 DEF PagesInv, PageInv
<1>5. FreshInv'
  BY <1>1, <1>2 DEF FreshInv
<1>6. ListsInv'
  BY <1>1, <1>2 DEF ListsInv, Open
<1>7. SmallMem' = SmallMem
  <2>1. PICK g, h : g = Held /\ h = Held'
    OBVIOUS
  <2>2. HeldIs
    BY HeldIsFact
  <2>3. HeldIs'
    BY HeldIsFact, PTL
  <2>4. \A y \in Created : g[y] \in Int
    BY <2>1, <2>2 DEF HeldIs
  <2>5. \A y \in Created : h[y] = g[y]
    BY <1>2, <1>3, <2>1, <2>2, <2>3 DEF HeldIs
  <2>6. SumFunctionOnSet(h, Created) = SumFunctionOnSet(g, Created)
    BY <2>4, <2>5, CreatedPages, SumSame
  <2> QED BY <1>2, <2>1, <2>6 DEF SmallMem
<1> QED BY <1>4, <1>5, <1>6, <1>7

\* The walk along the circular list meets the live large allocations.
LEMMA ReachIs ==
    ASSUME MemTypes, RingInv
    PROVE  Reach(next) = live \cap Large
<1>1. PICK R, F : R = (live \cap Large) \cup {Anchor} /\ F = live \cap Large
  OBVIOUS
<1>2. R \ {Anchor} = F
  BY <1>1, ConstantFacts
<1>3. IsRing(next, prev, R)
  BY <1>1 DEF RingInv
<1>4. IsList(next[Anchor], next, Anchor, F)
  BY <1>2, <1>3, RingList
<1>5. F \in SUBSET Large
  BY <1>1
<1>6. IsFiniteSet(F) /\ Cardinality(Large) \in Nat /\ Cardinality(F) <= Cardinality(Large)
  BY <1>5, ConstantFacts, SubsetSize
<1>7. Linked(next[Anchor], next, Anchor, Cardinality(Large)) = F
  BY <1>4, <1>6, WalkIs
<1> QED BY <1>1, <1>7 DEF Reach

\* Large allocations are no cells.
LEMMA CellsKept ==
    ASSUME live' \ Large = live \ Large
    PROVE  \A q \in Page : Taken(q)' = Taken(q)
<1>1. ASSUME NEW q \in Page PROVE Taken(q)' = Taken(q)
  <2>1. \A o \in Offset : CellAt(q, o) \in Cell
    BY DEF CellAt, Cell
  <2>2. \A o \in Offset : CellAt(q, o) \notin Large
    BY <2>1, ConstantFacts
  <2> QED BY <2>2 DEF Taken
<1> QED BY <1>1

\* The size of a large allocation.
LEMMA OsSize ==
    ASSUME NEW n \in Nat
    PROVE  RoundUpToOsPage(n) \in Int
<1>1. PICK a \in Nat : a = n + OsPage - 1
  BY ConstantFacts
<1>2. a \div OsPage \in Int /\ OsPage \in Int
  BY <1>1, ConstantFacts, DivMod
<1> QED BY <1>1, <1>2 DEF RoundUpToOsPage

\* A large allocation is made.
LEMMA MakeLarge ==
    ASSUME MemInv, NEW l \in Large, NEW wanted \in Nat, AllocateLarge(l, wanted)
    PROVE  MemInv'
<1>1. MemTypes /\ PagesInv /\ FreshInv /\ ListsInv /\ RingInv /\ MemoryAccounted
  BY DEF MemInv
<1>2. PICK size : size = RoundUpToOsPage(wanted + LargeHeader)
  OBVIOUS
<1>3. size \in Int
  <2>1. wanted + LargeHeader \in Nat
    BY ConstantFacts
  <2> QED BY <1>2, <2>1, OsSize
<1>4. l \notin live /\ down = FALSE
  BY DEF AllocateLarge
<1>5. /\ largeSize' = [largeSize EXCEPT ![l] = size]
      /\ used' = used + size /\ osUsage' = osUsage + size
      /\ next' = [next EXCEPT ![l] = next[Anchor], ![Anchor] = l]
      /\ prev' = [prev EXCEPT ![next[Anchor]] = l, ![l] = Anchor]
      /\ live' = live \cup {l}
      /\ UNCHANGED <<small, down>>
  BY <1>2 DEF AllocateLarge
<1>6. UNCHANGED <<freeList, nextPage, stepping, cellHead, cellNext, numAllocated, reservedCur, ranges>>
  BY <1>5 DEF small
<1>7. PICK S, R : S = live \cap Large /\ R = S \cup {Anchor}
  OBVIOUS
<1>8. /\ l \notin S /\ l \notin R /\ l # Anchor /\ IsFiniteSet(S)
      /\ live' \cap Large = S \cup {l} /\ (live' \cap Large) \cup {Anchor} = R \cup {l}
  BY <1>1, <1>4, <1>5, <1>7, ConstantFacts, HeldFacts
<1>9. MemTypes'
  <2>1. largeSize' \in [Large -> Int]
    BY <1>1, <1>3, <1>5 DEF MemTypes
  <2>2. used' \in Int /\ osUsage' \in Int
    BY <1>1, <1>3, <1>5 DEF MemTypes
  <2>3. DOMAIN next' = Large \cup {Anchor} /\ DOMAIN prev' = Large \cup {Anchor}
    BY <1>1, <1>5 DEF MemTypes
  <2>4. live' \in SUBSET (Large \cup Cell)
    BY <1>1, <1>5 DEF MemTypes
  <2> QED BY <1>1, <1>6, <2>1, <2>2, <2>3, <2>4 DEF MemTypes
<1>10. \A q \in Page : Taken(q)' = Taken(q)
  <2>1. live' \ Large = live \ Large
    BY <1>5
  <2> QED BY <2>1, CellsKept
<1>11. PagesInv' /\ FreshInv' /\ ListsInv' /\ SmallMem' = SmallMem
  BY <1>1, <1>5, <1>9, <1>10, SmallUnchanged
<1>12. RingInv'
  <2>1. IsRing(next, prev, R)
    BY <1>1, <1>7 DEF RingInv
  <2>2. PICK nx2, pv2 : nx2 = next' /\ pv2 = prev'
    OBVIOUS
  <2>3. next[Anchor] \in R /\ R \subseteq Large \cup {Anchor}
    BY <1>7, <2>1 DEF IsRing
  <2>4. nx2[l] = next[Anchor] /\ nx2[Anchor] = l /\ \A x \in R \ {Anchor} : nx2[x] = next[x]
    BY <1>1, <1>5, <1>8, <2>2, <2>3 DEF MemTypes
  <2>5. pv2[l] = Anchor /\ pv2[next[Anchor]] = l /\ \A x \in R \ {next[Anchor]} : pv2[x] = prev[x]
    BY <1>1, <1>5, <1>8, <2>2, <2>3 DEF MemTypes
  <2>6. IsRing(nx2, pv2, R \cup {l})
    BY <1>8, <2>1, <2>4, <2>5, RingLink
  <2> QED BY <1>8, <2>2, <2>6 DEF RingInv
<1>13. LargeMem \in Int /\ LargeMem' = LargeMem + size
  <2>1. PICK g, h : g = largeSize /\ h = largeSize'
    OBVIOUS
  <2>2. /\ \A y \in S : g[y] \in Int
        /\ \A y \in S : h[y] = g[y]
        /\ \A y \in S \cup {l} : h[y] \in Int
        /\ h[l] = size
    BY <1>1, <1>3, <1>5, <1>7, <1>8, <2>1 DEF MemTypes
  <2>3. SumFunctionOnSet(g, S) \in Int /\ SumFunctionOnSet(h, S) = SumFunctionOnSet(g, S)
    BY <1>8, <2>2, SumSame
  <2>4. SumFunctionOnSet(h, S \cup {l}) = SumFunctionOnSet(h, S) + h[l]
    BY <1>8, <2>2, SumAdd
  <2>5. LargeMem = SumFunctionOnSet(g, S) /\ LargeMem' = SumFunctionOnSet(h, S \cup {l})
    BY <1>7, <1>8, <2>1 DEF LargeMem
  <2> QED BY <2>2, <2>3, <2>4, <2>5
<1>14. MemoryAccounted'
  <2>1. SmallMem \in Int /\ reservedCur * PageSize \in Int
    BY <1>1, HeldFacts, SteppingFacts DEF MemTypes
  <2>2. used = LargeMem + SmallMem /\ osUsage = LargeMem + reservedCur * PageSize
    BY <1>1, <1>4, AccountIs DEF AccountsGood
  <2>3. used' = LargeMem' + SmallMem'
    BY <1>3, <1>5, <1>11, <1>13, <2>1, <2>2
  <2>4. osUsage' = LargeMem' + reservedCur' * PageSize /\ down' = FALSE
    BY <1>3, <1>4, <1>5, <1>6, <1>13, <2>1, <2>2
  <2>5. AccountsGood'
    BY <2>3, <2>4 DEF AccountsGood
  <2> QED BY <2>5, AccountIs, PTL
<1> QED BY <1>9, <1>11, <1>12, <1>14 DEF MemInv

\* A large allocation is freed.
LEMMA DropLarge ==
    ASSUME MemInv, NEW l \in live \cap Large, FreeLarge(l)
    PROVE  MemInv'
<1>1. MemTypes /\ PagesInv /\ FreshInv /\ ListsInv /\ RingInv /\ MemoryAccounted
  BY DEF MemInv
<1>2. PICK size : size = largeSize[l]
  OBVIOUS
<1>3. size \in Int
  BY <1>1, <1>2 DEF MemTypes
<1>4. down = FALSE
  BY DEF FreeLarge
<1>5. /\ used' = used - size /\ osUsage' = osUsage - size
      /\ next' = [next EXCEPT ![prev[l]] = next[l]]
      /\ prev' = [prev EXCEPT ![next[l]] = prev[l]]
      /\ live' = live \ {l}
      /\ UNCHANGED <<small, largeSize, down>>
  BY <1>2 DEF FreeLarge
<1>6. UNCHANGED <<freeList, nextPage, stepping, cellHead, cellNext, numAllocated, reservedCur, ranges>>
  BY <1>5 DEF small
<1>7. PICK S, R : S = live \cap Large /\ R = S \cup {Anchor}
  OBVIOUS
<1>8. /\ l \in S /\ l \in R /\ l # Anchor /\ IsFiniteSet(S)
      /\ live' \cap Large = S \ {l} /\ (live' \cap Large) \cup {Anchor} = R \ {l}
  BY <1>1, <1>5, <1>7, ConstantFacts, HeldFacts
<1>9. MemTypes'
  <2>1. used' \in Int /\ osUsage' \in Int
    BY <1>1, <1>3, <1>5 DEF MemTypes
  <2>2. DOMAIN next' = Large \cup {Anchor} /\ DOMAIN prev' = Large \cup {Anchor}
    BY <1>1, <1>5 DEF MemTypes
  <2>3. live' \in SUBSET (Large \cup Cell)
    BY <1>1, <1>5 DEF MemTypes
  <2> QED BY <1>1, <1>5, <1>6, <2>1, <2>2, <2>3 DEF MemTypes
<1>10. \A q \in Page : Taken(q)' = Taken(q)
  <2>1. live' \ Large = live \ Large
    BY <1>5
  <2> QED BY <2>1, CellsKept
<1>11. PagesInv' /\ FreshInv' /\ ListsInv' /\ SmallMem' = SmallMem
  BY <1>1, <1>5, <1>9, <1>10, SmallUnchanged
<1>12. RingInv'
  <2>1. IsRing(next, prev, R)
    BY <1>1, <1>7 DEF RingInv
  <2>2. PICK nx2, pv2 : nx2 = next' /\ pv2 = prev'
    OBVIOUS
  <2>3. R \subseteq Large \cup {Anchor}
    BY <1>7
  <2>4. \A x \in R \ {l} : nx2[x] = IF x = prev[l] THEN next[l] ELSE next[x]
    BY <1>1, <1>5, <2>2, <2>3 DEF MemTypes
  <2>5. \A x \in R \ {l} : pv2[x] = IF x = next[l] THEN prev[l] ELSE prev[x]
    BY <1>1, <1>5, <2>2, <2>3 DEF MemTypes
  <2>6. IsRing(nx2, pv2, R \ {l})
    BY <1>8, <2>1, <2>4, <2>5, RingUnlink
  <2> QED BY <1>8, <2>2, <2>6 DEF RingInv
<1>13. LargeMem \in Int /\ LargeMem' = LargeMem - size
  <2>1. PICK g, D : g = largeSize /\ D = S \ {l}
    OBVIOUS
  <2>2. IsFiniteSet(D) /\ l \notin D /\ D \cup {l} = S
    BY <1>8, <2>1, FS_RemoveElement
  <2>3. \A y \in D \cup {l} : g[y] \in Int
    BY <1>1, <1>7, <2>1, <2>2 DEF MemTypes
  <2>4. /\ SumFunctionOnSet(g, D) \in Int
        /\ SumFunctionOnSet(g, D \cup {l}) = SumFunctionOnSet(g, D) + g[l]
    BY <2>2, <2>3, SumAdd
  <2>5. LargeMem = SumFunctionOnSet(g, D \cup {l}) /\ LargeMem' = SumFunctionOnSet(g, D) /\ g[l] = size
    BY <1>2, <1>5, <1>7, <1>8, <2>1, <2>2 DEF LargeMem
  <2> QED BY <1>3, <2>4, <2>5
<1>14. MemoryAccounted'
  <2>1. SmallMem \in Int /\ reservedCur * PageSize \in Int
    BY <1>1, HeldFacts, SteppingFacts DEF MemTypes
  <2>2. used = LargeMem + SmallMem /\ osUsage = LargeMem + reservedCur * PageSize
    BY <1>1, <1>4, AccountIs DEF AccountsGood
  <2>3. used' = LargeMem' + SmallMem'
    BY <1>3, <1>5, <1>11, <1>13, <2>1, <2>2
  <2>4. osUsage' = LargeMem' + reservedCur' * PageSize /\ down' = FALSE
    BY <1>3, <1>4, <1>5, <1>6, <1>13, <2>1, <2>2
  <2>5. AccountsGood'
    BY <2>3, <2>4 DEF AccountsGood
  <2> QED BY <2>5, AccountIs, PTL
<1> QED BY <1>9, <1>11, <1>12, <1>14 DEF MemInv

\* Shutdown frees the large allocations and gives everything back to the OS.
LEMMA ShutdownMem ==
    ASSUME MemInv, Shutdown
    PROVE  MemInv'
<1>1. MemTypes /\ PagesInv /\ FreshInv /\ ListsInv /\ RingInv /\ MemoryAccounted
  BY DEF MemInv
<1>2. Reach(next) = live \cap Large
  BY <1>1, ReachIs
<1>3. /\ used' = used - LargeMem
      /\ osUsage' = osUsage - LargeMem + (ranges * RangePages - reservedCur) * PageSize
                    - ranges * RangePages * PageSize
      /\ live' = live \ (live \cap Large)
      /\ next' = [next EXCEPT ![Anchor] = Anchor] /\ prev' = [prev EXCEPT ![Anchor] = Anchor]
      /\ UNCHANGED <<small, largeSize>>
  BY <1>2 DEF Shutdown, LargeMem
<1>4. down = FALSE /\ down' = TRUE
  BY DEF Shutdown
<1>5. UNCHANGED <<freeList, nextPage, stepping, cellHead, cellNext, numAllocated, reservedCur, ranges>>
  BY <1>3 DEF small
<1>6. SmallMem \in Int /\ LargeMem \in Int
  BY <1>1, HeldFacts
<1>7. used = LargeMem + SmallMem /\ osUsage = LargeMem + reservedCur * PageSize
  BY <1>1, <1>4, AccountIs DEF AccountsGood
<1>8. osUsage' = 0
  <2>1. PICK a \in Int, b \in Int, c \in Int, m \in Int :
          a = ranges * RangePages /\ b = reservedCur /\ c = PageSize /\ m = LargeMem
    BY <1>1, <1>6, ConstantFacts, SteppingFacts DEF MemTypes
  <2>2. osUsage' = (m + b * c) - m + (a - b) * c - a * c
    BY <1>3, <1>7, <2>1
  <2>3. (a - b) * c = a * c - b * c /\ b * c \in Int /\ a * c \in Int
    OBVIOUS
  <2> QED BY <2>2, <2>3
<1>9. used' = SmallMem
  BY <1>3, <1>6, <1>7
<1>10. live' \cap Large = {} /\ live' \ Large = live \ Large
  BY <1>3
<1>11. MemTypes'
  <2>1. used' \in Int /\ osUsage' \in Int
    BY <1>6, <1>8, <1>9
  <2>2. DOMAIN next' = Large \cup {Anchor} /\ DOMAIN prev' = Large \cup {Anchor}
    BY <1>1, <1>3 DEF MemTypes
  <2>3. live' \in SUBSET (Large \cup Cell)
    BY <1>1, <1>3 DEF MemTypes
  <2> QED BY <1>1, <1>3, <1>5, <2>1, <2>2, <2>3 DEF MemTypes
<1>12. \A q \in Page : Taken(q)' = Taken(q)
  BY <1>10, CellsKept
<1>13. PagesInv' /\ FreshInv' /\ ListsInv' /\ SmallMem' = SmallMem
  BY <1>1, <1>3, <1>11, <1>12, SmallUnchanged
<1>14. RingInv'
  <2>1. next'[Anchor] = Anchor /\ prev'[Anchor] = Anchor /\ (live' \cap Large) \cup {Anchor} = {Anchor}
    BY <1>1, <1>3, <1>10 DEF MemTypes
  <2> QED BY <2>1 DEF RingInv, IsRing
<1>15. LargeMem' = 0
  <2>1. PICK g : g = largeSize'
    OBVIOUS
  <2>2. SumFunctionOnSet(g, {}) = 0
    BY SumEmpty
  <2> QED BY <1>10, <2>1, <2>2 DEF LargeMem
<1>16. MemoryAccounted'
  <2>1. used' = LargeMem' + SmallMem'
    BY <1>6, <1>9, <1>13, <1>15
  <2>2. AccountsGood'
    BY <1>4, <1>8, <2>1 DEF AccountsGood
  <2> QED BY <2>2, AccountIs, PTL
<1> QED BY <1>11, <1>13, <1>14, <1>16 DEF MemInv

\* A step that changes nothing.
LEMMA IdleMem ==
    ASSUME MemInv, UNCHANGED vars
    PROVE  MemInv'
<1>1. UNCHANGED <<freeList, nextPage, stepping, cellHead, cellNext, numAllocated, reservedCur, ranges>>
  BY DEF vars, small
<1>2. UNCHANGED <<prev, next, largeSize, used, osUsage, live, down>>
  BY DEF vars, large
<1>3. MemTypes /\ PagesInv /\ FreshInv /\ ListsInv /\ RingInv /\ MemoryAccounted
  BY DEF MemInv
<1>4. MemTypes'
  BY <1>1, <1>2, <1>3 DEF MemTypes
<1>5. \A q \in Page : Taken(q)' = Taken(q)
  BY <1>2 DEF Taken
<1>6. UNCHANGED small /\ UNCHANGED large /\ live' \cap Large = live \cap Large
  BY <1>1, <1>2 DEF small, large
<1>7. PagesInv' /\ FreshInv' /\ ListsInv' /\ SmallMem' = SmallMem
  BY <1>3, <1>4, <1>5, <1>6, SmallUnchanged
<1>8. RingInv' /\ LargeMem' = LargeMem
  BY <1>3, <1>6, LargeUnchanged
<1>9. AccountsGood
  BY <1>3, AccountIs
<1>10. AccountsGood'
  BY <1>1, <1>2, <1>7, <1>8, <1>9 DEF AccountsGood
<1>11. MemoryAccounted'
  BY <1>10, AccountIs, PTL
<1> QED BY <1>4, <1>7, <1>8, <1>11 DEF MemInv

\* A client's allocation is a large one or a cell of an existing page.
LEMMA FreeMem ==
    ASSUME MemInv, Free
    PROVE  MemInv'
<1>1. PICK a \in live : \/ a \in Large /\ FreeLarge(a)
                        \/ a \notin Large /\ FreeSmall(a.page, a.off)
  BY DEF Free
<1>2. CASE a \in Large /\ FreeLarge(a)
  <2>1. a \in live \cap Large
    BY <1>2
  <2> QED BY <1>2, <2>1, DropLarge
<1>3. CASE a \notin Large /\ FreeSmall(a.page, a.off)
  <2>1. a \in Cell
    BY <1>1, <1>3 DEF MemInv, MemTypes
  <2>2. PICK p \in Page, o \in Offset : a = CellAt(p, o) /\ p = a.page /\ o = a.off
    BY <2>1 DEF Cell, CellAt
  <2>3. CellAt(p, o) \in live /\ FreeSmall(p, o)
    BY <1>1, <1>3, <2>2
  <2> QED BY <2>3, GiveBack
<1> QED BY <1>1, <1>2, <1>3

\* An allocation, and the stepping of the cell that it returns.
LEMMA AllocateMem ==
    ASSUME MemInv, NEW s \in Sizes, AllocateGivenSize(s)
    PROVE  /\ MemInv'
           /\ s <= MaxSmall => \E a \in live' \ live : stepping'[a.page] = SteppingFromSize(s)
<1>1. s \in Nat /\ MaxSmall \in Nat
  BY ConstantFacts, SteppingFacts DEF MaxSmall
<1>2. CASE s > MaxSmall /\ \E l \in Large : AllocateLarge(l, s)
  <2>1. PICK l \in Large : AllocateLarge(l, s)
    BY <1>2
  <2>2. MemInv'
    BY <1>1, <2>1, MakeLarge
  <2>3. ~(s <= MaxSmall)
    BY <1>1, <1>2
  <2> QED BY <2>2, <2>3
<1>3. CASE s <= MaxSmall /\ \/ AllocateFromFreeList(SteppingFromSize(s))
                            \/ AllocateFromNewPage(SteppingFromSize(s))
  <2>1. PICK i : i = SteppingFromSize(s)
    OBVIOUS
  <2>2. Fits(s, SteppingFromSize(s))
    BY <1>1, <1>3, SizeSearchFinds
  <2>3. i \in 1 .. NumSteppings
    BY <2>1, <2>2 DEF Fits
  <2>4. CASE AllocateFromFreeList(i)
    <3>1. MemInv' /\ \E a \in live' \ live : stepping'[a.page] = i
      BY <2>3, <2>4, TakeFromList
    <3> QED BY <2>1, <3>1
  <2>5. CASE AllocateFromNewPage(i)
    <3>1. MemInv' /\ \E a \in live' \ live : stepping'[a.page] = i
      BY <2>3, <2>5, TakeFromNewPage
    <3> QED BY <2>1, <3>1
  <2> QED BY <1>3, <2>1, <2>4, <2>5
<1> QED BY <1>2, <1>3 DEF AllocateGivenSize

\* Every step keeps the invariant.
LEMMA NextMem == MemInv /\ [Next]_vars => MemInv'
<1> SUFFICES ASSUME MemInv, [Next]_vars PROVE MemInv'
  OBVIOUS
<1>1. CASE \E s \in Sizes : AllocateGivenSize(s)
  BY <1>1, AllocateMem
<1>2. CASE Free
  BY <1>2, FreeMem
<1>3. CASE Shutdown
  BY <1>3, ShutdownMem
<1>4. CASE UNCHANGED vars
  BY <1>4, IdleMem
<1> QED BY <1>1, <1>2, <1>3, <1>4 DEF Next

(***************************************************************************)
(* The invariant holds of every behaviour: a page's free list, a chain of  *)
(* links in the free cells' first bytes, holds exactly the cells that no   *)
(* client has, the list of a stepping exactly its pages with a free cell,  *)
(* and the circular list exactly the live large allocations.               *)
(***************************************************************************)
THEOREM JitMemoryInvariant == Spec => []MemInv
  BY InitMem, NextMem, PTL DEF Spec

\* No cell is in two hands, lost, or past the end of its page, whatever the
\* sizes, the order of Allocate and Free, and the number of pages
\* (AllocateCell, FreeCell and Initialize of JitMemoryPageHeader).
THEOREM CellsArePartitioned == Spec => []CellsPartitioned
<1>1. MemInv => CellsPartitioned
  <2> SUFFICES ASSUME MemInv, NEW p \in Created
               PROVE  /\ FreeCells(p) \cup LiveCells(p) = Cells(p)
                      /\ FreeCells(p) \cap LiveCells(p) = {}
                      /\ numAllocated[p] = Cardinality(LiveCells(p))
    BY DEF CellsPartitioned
  <2>1. MemTypes /\ PageInv(p) /\ p \in Page
    BY CreatedPages DEF MemInv, PagesInv
  <2>2. PICK F : F = CellsOf(CellSize(p)) \ Taken(p)
    OBVIOUS
  <2>3. Taken(p) \subseteq CellsOf(CellSize(p)) /\ numAllocated[p] = Cardinality(Taken(p))
    BY <2>1 DEF PageInv
  <2>4. IsList(cellHead[p], cellNext[p], 0, F)
    BY <2>1, <2>2 DEF PageInv
  <2>5. IsFiniteSet(F) /\ Cardinality(F) <= PageSize /\ PageSize \in Nat
    <3>1. PageSize \in Nat /\ 1 \in Int /\ PageSize \in Int
      BY SteppingFacts
    <3>2. PICK N : N = 1 .. PageSize
      OBVIOUS
    <3>3. IsFiniteSet(N) /\ Cardinality(N) = PageSize
      <4>1. PICK n \in Nat : n = PageSize
        BY <3>1
      <4>2. IsFiniteSet(1 .. n) /\ Cardinality(1 .. n) = IF 1 > n THEN 0 ELSE n - 1 + 1
        BY FS_Interval
      <4> QED BY <3>2, <4>1, <4>2
    <3>4. F \in SUBSET N
      BY <2>2, <3>2, SteppingFacts DEF CellsOf, Offset
    <3> QED BY <3>1, <3>3, <3>4, SubsetSize
  <2>6. Linked(cellHead[p], cellNext[p], 0, PageSize) = F
    BY <2>4, <2>5, WalkIs
  <2>7. FreeCells(p) = F
    BY <2>6 DEF FreeCells
  <2>8. LiveCells(p) = Taken(p)
    BY <2>1, LiveIsTaken
  <2>9. Cells(p) = CellsOf(CellSize(p))
    BY DEF Cells, CellsOf
  <2> QED BY <2>2, <2>3, <2>7, <2>8, <2>9
<1> QED BY <1>1, JitMemoryInvariant, PTL

\* No page with a free cell is forgotten, and Shutdown meets every live large
\* allocation once: the walks over m_nextPage and m_link find exactly what the
\* allocator has to find.
THEOREM AllocatorListsAreExact == Spec => []AllocListsExact
<1>1. MemInv => AllocListsExact
  <2> SUFFICES ASSUME MemInv PROVE AllocListsExact
    OBVIOUS
  <2>1. MemTypes /\ ListsInv /\ RingInv
    BY DEF MemInv
  <2>2. ASSUME NEW i \in 1 .. NumSteppings
        PROVE  ListedPages(i) = {p \in Created : stepping[p] = i /\ cellHead[p] # 0}
    <3>1. PICK F : F = Open(i)
      OBVIOUS
    <3>2. IsList(freeList[i], nextPage, Null, F)
      BY <2>1, <3>1 DEF ListsInv
    <3>3. F \in SUBSET Page
      BY <2>1, <3>1, CreatedPages DEF Open
    <3>4. IsFiniteSet(Page) /\ Cardinality(Page) = MaxPages /\ MaxPages \in Nat
      <4>1. PICK n \in Nat : n = MaxPages
        BY ConstantFacts
      <4>2. IsFiniteSet(1 .. n) /\ Cardinality(1 .. n) = IF 1 > n THEN 0 ELSE n - 1 + 1
        BY FS_Interval
      <4> QED BY <4>1, <4>2 DEF Page
    <3>5. IsFiniteSet(F) /\ Cardinality(F) <= MaxPages
      BY <3>3, <3>4, SubsetSize
    <3>6. Linked(freeList[i], nextPage, Null, MaxPages) = F
      BY <3>2, <3>4, <3>5, WalkIs
    <3> QED BY <3>1, <3>6 DEF ListedPages, Open
  <2>3. Reach(next) = live \cap Large
    BY <2>1, ReachIs
  <2>4. \A l \in Reach(next) \cup {Anchor} : prev[next[l]] = l /\ next[prev[l]] = l
    BY <2>1, <2>3 DEF RingInv, IsRing
  <2> QED BY <2>2, <2>3, <2>4 DEF AllocListsExact
<1> QED BY <1>1, JitMemoryInvariant, PTL

\* The two counters are what the clients hold and what the OS gave, and the
\* Assert of Shutdown holds.
THEOREM MemoryIsAccounted == Spec => []MemoryAccounted
<1>1. MemInv => MemoryAccounted
  BY DEF MemInv
<1> QED BY <1>1, JitMemoryInvariant, PTL

\* The binary search finds the tightest cell size for every table of
\* steppings and every size.
THEOREM AllocationsFitTightest == Spec => TightestFit
<1>1. MemInv /\ [Next]_vars =>
        [\A s \in Sizes :
           s <= MaxSmall /\ AllocateGivenSize(s) =>
             \E a \in live' \ live :
               LET i == stepping'[a.page]
               IN  s <= SteppingArray[i] /\ (i > 1 => s > SteppingArray[i - 1])]_vars
  <2> SUFFICES ASSUME MemInv, NEW s \in Sizes, s <= MaxSmall, AllocateGivenSize(s)
               PROVE  \E a \in live' \ live :
                        LET i == stepping'[a.page]
                        IN  s <= SteppingArray[i] /\ (i > 1 => s > SteppingArray[i - 1])
    OBVIOUS
  <2>1. PICK a \in live' \ live : stepping'[a.page] = SteppingFromSize(s)
    BY AllocateMem
  <2>2. s \in Nat
    BY ConstantFacts
  <2>3. Fits(s, SteppingFromSize(s))
    BY <2>2, SizeSearchFinds
  <2> QED BY <2>1, <2>3 DEF Fits
<1> QED BY <1>1, JitMemoryInvariant, PTL DEF Spec, TightestFit
=============================================================================
