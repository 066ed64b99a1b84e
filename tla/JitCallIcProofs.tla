--------------------------- MODULE JitCallIcProofs ---------------------------
(***************************************************************************)
(* Proofs about JitCallIc, for any set of functions, codes, call sites and *)
(* entries, any cache size and any addresses.                              *)
(***************************************************************************)
EXTENDS JitCallIc, TLAPS

-----------------------------------------------------------------------------
(***************************************************************************)
(* Modular arithmetic of the patched operands.                             *)
(***************************************************************************)
\* Euclidean division.
LEMMA DivMod ==
    ASSUME NEW m \in Nat \ {0}, NEW x \in Int
    PROVE  /\ x % m \in 0 .. m - 1
           /\ x \div m \in Int
           /\ x = m * (x \div m) + (x % m)
  OBVIOUS

\* The remainder is the only residue in range.
LEMMA ModUnique ==
    ASSUME NEW m \in Nat \ {0}, NEW x \in Int, NEW q \in Int, NEW r \in 0 .. m - 1,
           x = m * q + r
    PROVE  x % m = r
  OBVIOUS

\* Adding d to a truncated operand is truncating after adding d.
LEMMA ModShift ==
    ASSUME NEW m \in Nat \ {0}, NEW x \in Int, NEW d \in Int
    PROVE  ((x % m) + d) % m = (x + d) % m
<1> DEFINE y == (x % m) + d
<1>1. y = m * (y \div m) + (y % m) /\ y % m \in 0 .. m - 1 /\ y \div m \in Int
  BY DivMod
<1>2. x = m * (x \div m) + (x % m) /\ x % m \in 0 .. m - 1 /\ x \div m \in Int
  BY DivMod
<1>3. x + d = m * ((y \div m) + (x \div m)) + (y % m)
  BY <1>1, <1>2
<1>4. (y \div m) + (x \div m) \in Int /\ x + d \in Int
  BY <1>1, <1>2
<1> HIDE DEF y
<1>5. (x + d) % m = y % m
  BY <1>1, <1>3, <1>4, ModUnique
<1> QED BY <1>5 DEF y

\* A residue is its own remainder.
LEMMA ModSmall ==
    ASSUME NEW m \in Nat \ {0}, NEW r \in 0 .. m - 1
    PROVE  r % m = r
<1>1. r = m * 0 + r /\ r \in Int /\ 0 \in Int
  OBVIOUS
<1> QED BY <1>1, ModUnique

\* The operand of a is in range, gives a back, and moves to the operand of b.
Shifted(m, p, a, b) ==
    /\ (a + p) % m \in 0 .. m - 1
    /\ (((a + p) % m) - p) % m = a
    /\ (((a + p) % m) + (b - a)) % m = (b + p) % m

\* So it is for any modulus and bias, as plain numbers.
LEMMA ShiftFacts ==
    ASSUME NEW m \in Nat \ {0}, NEW p \in Int, NEW a \in 0 .. m - 1, NEW b \in 0 .. m - 1
    PROVE  Shifted(m, p, a, b)
<1>1. a \in Int /\ b \in Int /\ a + p \in Int /\ -p \in Int /\ b - a \in Int
  OBVIOUS
<1>2. (a + p) % m \in 0 .. m - 1
  BY <1>1, DivMod
<1>3. (((a + p) % m) + (-p)) % m = ((a + p) + (-p)) % m
  BY <1>1, ModShift
<1>4. (((a + p) % m) + (b - a)) % m = ((a + p) + (b - a)) % m
  BY <1>1, ModShift
<1>5. /\ (a + p) + (-p) = a
      /\ (a + p) + (b - a) = b + p
      /\ ((a + p) % m) - p = ((a + p) % m) + (-p)
  BY <1>1, <1>2
<1>6. a % m = a
  BY ModSmall
<1> QED BY <1>2, <1>3, <1>4, <1>5, <1>6 DEF Shifted

\* An operand encodes into the operand's range; decoding gives the address
\* back; adding the difference of two addresses re-targets the operand.
LEMMA OperandFacts ==
    ASSUME NEW e \in Entry, NEW a \in Addr, NEW b \in Addr
    PROVE  /\ Encode(e, a) \in Addr
           /\ Decode(e, Encode(e, a)) = a
           /\ (Encode(e, a) + (b - a)) % PtrMod = Encode(e, b)
<1> DEFINE p == PatchBias[e]
<1>1. PtrMod \in Nat \ {0} /\ p \in Int
  BY ConstAssumption
<1> HIDE DEF p
<1>2. /\ (a + p) % PtrMod \in 0 .. PtrMod - 1
      /\ (((a + p) % PtrMod) - p) % PtrMod = a
      /\ (((a + p) % PtrMod) + (b - a)) % PtrMod = (b + p) % PtrMod
  <2>1. PICK m \in Nat \ {0} : m = PtrMod
    BY <1>1
  <2>2. a \in 0 .. m - 1 /\ b \in 0 .. m - 1
    BY <2>1 DEF Addr
  <2>3. Shifted(m, p, a, b)
    BY <1>1, <2>2, ShiftFacts
  <2> QED BY <2>1, <2>3 DEF Shifted
<1> QED BY <1>2 DEF Encode, Decode, Addr, p

-----------------------------------------------------------------------------
(***************************************************************************)
(* The effect of the slow path that all three kinds of insertion share:    *)
(* the entries in D are destroyed, then entry e is created for ent.        *)
(***************************************************************************)
InsertEffect(s, f, e, D, ent) ==
    /\ e \in Entry \ (live \ D)
    /\ ent \in {f, ExecOf[f]}
    /\ live' = (live \ D) \cup {e}
    /\ entity' = [entity EXCEPT ![e] = ent]
    /\ jitCallIcList' = [c \in Bytecode |->
          IF c = TargetOf(ent) THEN (jitCallIcList[c] \ D) \cup {e} ELSE jitCallIcList[c] \ D]
    /\ stubPtr' = [stubPtr EXCEPT ![e] = Encode(e, best[ExecOf[f]])]
    /\ smcDest' = [smcDest EXCEPT ![s] = e]
    /\ \/ /\ D = {}
          /\ list' = [list EXCEPT ![s] = <<e>> \o @]
          /\ stubMiss' = [stubMiss EXCEPT ![e] = smcDest[s]]
          /\ stubKind' = [stubKind EXCEPT ![e] = IF mode[s] = "DirectCall" THEN "DirectCall" ELSE "ClosureCall"]
          /\ UNCHANGED <<mode, smcKind>>
          /\ numEntries' = [numEntries EXCEPT ![s] = @ + 1]
          /\ bloom' \in {bloom, [bloom EXCEPT ![s] = @ \cup BloomMask[ExecOf[f]]]}
       \/ /\ D = Owned(s)
          /\ list' = [list EXCEPT ![s] = <<e>>]
          /\ stubMiss' = [stubMiss EXCEPT ![e] = SlowPath]
          /\ stubKind' = [stubKind EXCEPT ![e] = "ClosureCall"]
          /\ smcKind' = [smcKind EXCEPT ![s] = "ClosureCall"]
          /\ \E md \in Mode \ {"DirectCall"} : mode' = [mode EXCEPT ![s] = md]
          /\ numEntries' = [numEntries EXCEPT ![s] = 1]
          /\ bloom' = [bloom EXCEPT ![s] = {}]

\* What tells the three kinds apart.
InsertKind(s, f, D, ent) ==
    \/ /\ mode[s] = "DirectCall" /\ ent = f /\ D = {}
       /\ ~ShouldTransitToCCMode(s, f)
       /\ bloom' = [bloom EXCEPT ![s] = @ \cup BloomMask[ExecOf[f]]]
       /\ numEntries' = [numEntries EXCEPT ![s] = @ + 1]
       /\ UNCHANGED mode
    \/ /\ mode[s] = "DirectCall" /\ ent = ExecOf[f] /\ D = Owned(s)
       /\ ShouldTransitToCCMode(s, f)
       /\ mode' = [mode EXCEPT ![s] = IF numEntries[s] > 1
                                      THEN "ClosureCallWithMoreThanOneTargetObserved"
                                      ELSE "ClosureCall"]
       /\ numEntries' = [numEntries EXCEPT ![s] = 1]
    \/ /\ mode[s] # "DirectCall" /\ ent = ExecOf[f] /\ D = {}
       /\ numEntries' = [numEntries EXCEPT ![s] = @ + 1]
       /\ UNCHANGED mode

\* Every insertion is of one of these kinds and has the common effect.
LEMMA InsertHasKind ==
    ASSUME TypeOK, SlowPathInsert
    PROVE  \E e \in Entry, D \in {{}, Owned(callee.site)}, ent \in {callee.fn, ExecOf[callee.fn]} :
              /\ InsertEffect(callee.site, callee.fn, e, D, ent)
              /\ InsertKind(callee.site, callee.fn, D, ent)
<1> DEFINE s == callee.site
           f == callee.fn
<1>1. CASE mode[s] = "DirectCall" /\ InsertInDirectCallMode(s, f)
  <2>1. PICK e \in Entry \ live :
          /\ Create(e, f, jitCallIcList, live)
          /\ EmitStub(s, e, "DirectCall", smcDest[s], f)
          /\ list' = [list EXCEPT ![s] = <<e>> \o @]
    BY <1>1 DEF InsertInDirectCallMode
  <2>2. \A X : X \ {} = X
    OBVIOUS
  <2>3. jitCallIcList' = [c \in Bytecode |->
          IF c = TargetOf(f) THEN (jitCallIcList[c] \ {}) \cup {e} ELSE jitCallIcList[c] \ {}]
    BY <2>1, <2>2, Zenon DEF Create
  <2>4. InsertEffect(s, f, e, {}, f)
    BY <1>1, <2>1, <2>2, <2>3, Zenon DEF InsertEffect, InsertInDirectCallMode, Create, EmitStub
  <2>5. InsertKind(s, f, {}, f)
    BY <1>1, Zenon DEF InsertKind, InsertInDirectCallMode
  <2> QED BY <2>4, <2>5
<1>2. CASE mode[s] = "DirectCall" /\ TransitToClosureCallMode(s, f)
  <2> DEFINE L == [c \in Bytecode |-> jitCallIcList[c] \ Owned(s)]
  <2>1. PICK e \in Entry \ (live \ Owned(s)) :
          /\ Create(e, ExecOf[f], L, live \ Owned(s))
          /\ EmitStub(s, e, "ClosureCall", SlowPath, f)
          /\ list' = [list EXCEPT ![s] = <<e>>]
    BY <1>2 DEF TransitToClosureCallMode
  <2>2. \E md \in Mode \ {"DirectCall"} : mode' = [mode EXCEPT ![s] = md]
    <3> DEFINE md == IF numEntries[s] > 1
                     THEN "ClosureCallWithMoreThanOneTargetObserved" ELSE "ClosureCall"
    <3>1. md \in Mode \ {"DirectCall"}
      BY DEF Mode
    <3>2. mode' = [mode EXCEPT ![s] = md]
      BY <1>2 DEF TransitToClosureCallMode
    <3> QED BY <3>1, <3>2
  <2>3. jitCallIcList' = [c \in Bytecode |->
          IF c = TargetOf(ExecOf[f])
          THEN (jitCallIcList[c] \ Owned(s)) \cup {e} ELSE jitCallIcList[c] \ Owned(s)]
    <3>1. \A c \in Bytecode : L[c] = jitCallIcList[c] \ Owned(s)
      OBVIOUS
    <3> HIDE DEF L
    <3> QED BY <2>1, <3>1, Zenon DEF Create
  <2>4. InsertEffect(s, f, e, Owned(s), ExecOf[f])
    BY <1>2, <2>1, <2>2, <2>3, Zenon DEF InsertEffect, TransitToClosureCallMode, Create, EmitStub
  <2>5. InsertKind(s, f, Owned(s), ExecOf[f])
    BY <1>2, Zenon DEF InsertKind, TransitToClosureCallMode
  <2> QED BY <2>4, <2>5
<1>3. CASE mode[s] # "DirectCall" /\ InsertInClosureCallMode(s, f)
  <2>1. PICK e \in Entry \ live :
          /\ Create(e, ExecOf[f], jitCallIcList, live)
          /\ EmitStub(s, e, "ClosureCall", smcDest[s], f)
          /\ list' = [list EXCEPT ![s] = <<e>> \o @]
    BY <1>3 DEF InsertInClosureCallMode
  <2>2. \A X : X \ {} = X
    OBVIOUS
  <2>3. jitCallIcList' = [c \in Bytecode |->
          IF c = TargetOf(ExecOf[f])
          THEN (jitCallIcList[c] \ {}) \cup {e} ELSE jitCallIcList[c] \ {}]
    BY <2>1, <2>2, Zenon DEF Create
  <2>4. InsertEffect(s, f, e, {}, ExecOf[f])
    BY <1>3, <2>1, <2>2, <2>3, Zenon DEF InsertEffect, InsertInClosureCallMode, Create, EmitStub
  <2>5. InsertKind(s, f, {}, ExecOf[f])
    BY <1>3, Zenon DEF InsertKind, InsertInClosureCallMode
  <2> QED BY <2>4, <2>5
<1> QED BY <1>1, <1>2, <1>3 DEF SlowPathInsert

\* In short: every insertion has the common effect.
LEMMA InsertHasEffect ==
    ASSUME TypeOK, SlowPathInsert
    PROVE  \E e \in Entry, D \in {{}, Owned(callee.site)}, ent \in {callee.fn, ExecOf[callee.fn]} :
              InsertEffect(callee.site, callee.fn, e, D, ent)
  BY InsertHasKind, Zenon

-----------------------------------------------------------------------------
(***************************************************************************)
(* Type correctness.                                                       *)
(***************************************************************************)
\* What a slow path or a stub does last: it makes the call.
LEMMA JumpToType ==
    ASSUME NEW s \in Sites, NEW f \in Fn, NEW a \in Addr, TypeOK, JumpTo(s, f, a)
    PROVE  /\ pc' = NoCall
           /\ lastCall' \in [fn : Fn, ptr : Addr]
           /\ seen' \in [Sites -> SUBSET Fn]
  BY DEF JumpTo, TypeOK

\* The types hold initially.
LEMMA InitType == Init => TypeOK
<1> SUFFICES ASSUME Init PROVE TypeOK
  OBVIOUS
<1>1. compiled \subseteq Bytecode /\ best \in [Code -> Addr]
  BY ConstAssumption DEF Init
<1>2. 0 \in Addr /\ 0 \in 0 .. MaxEntries
  BY ConstAssumption DEF Addr
<1>3. list \in [Sites -> Seq(Entry)]
  BY DEF Init
<1> QED BY <1>1, <1>2, <1>3 DEF Init, TypeOK, Mode, StubOrSlow

\* An insertion keeps the types.
LEMMA InsertType ==
    ASSUME TypeOK, SlowPathInsert
    PROVE  TypeOK'
<1> DEFINE s == callee.site
           f == callee.fn
<1>1. s \in Sites /\ f \in Fn /\ ExecOf[f] \in Code /\ best[ExecOf[f]] \in Addr
  <2>1. pc # NoCall
    BY ConstAssumption DEF SlowPathInsert
  <2> QED BY <2>1, ConstAssumption DEF TypeOK
<1>2. PICK e \in Entry, D \in {{}, Owned(s)}, ent \in {f, ExecOf[f]} : InsertEffect(s, f, e, D, ent)
  BY InsertHasEffect
<1>3. /\ pc' = NoCall
      /\ lastCall' \in [fn : Fn, ptr : Addr]
      /\ seen' \in [Sites -> SUBSET Fn]
  BY <1>1, JumpToType DEF SlowPathInsert
<1>4. UNCHANGED <<compiled, best>> /\ numEntries[s] < MaxEntries
  BY DEF SlowPathInsert
<1> HIDE DEF s, f
<1>5. jitCallIcList' \in [Bytecode -> SUBSET Entry]
  BY <1>2 DEF InsertEffect, TypeOK
<1>6. list' \in [Sites -> Seq(Entry)]
  <2>1. list[s] \in Seq(Entry) /\ <<e>> \in Seq(Entry)
    BY <1>1 DEF TypeOK
  <2>2. <<e>> \o list[s] \in Seq(Entry)
    BY <2>1
  <2>3. list' = [list EXCEPT ![s] = <<e>> \o @] \/ list' = [list EXCEPT ![s] = <<e>>]
    BY <1>2 DEF InsertEffect
  <2>4. list \in [Sites -> Seq(Entry)]
    BY DEF TypeOK
  <2> QED BY <1>1, <2>1, <2>2, <2>3, <2>4
<1>7. numEntries' \in [Sites -> 0 .. MaxEntries]
  <2>1. numEntries[s] + 1 \in 0 .. MaxEntries /\ 1 \in 0 .. MaxEntries
    BY <1>1, <1>4, ConstAssumption DEF TypeOK
  <2> QED BY <1>1, <1>2, <2>1 DEF InsertEffect, TypeOK
<1>8. mode' \in [Sites -> Mode] /\ bloom' \in [Sites -> SUBSET BloomBits]
  <2>1. BloomMask[ExecOf[f]] \subseteq BloomBits
    BY <1>1 DEF BloomBits
  <2>2. mode' = mode \/ \E md \in Mode : mode' = [mode EXCEPT ![s] = md]
    BY <1>2 DEF InsertEffect
  <2>3. \/ bloom' = bloom
        \/ bloom' = [bloom EXCEPT ![s] = @ \cup BloomMask[ExecOf[f]]]
        \/ bloom' = [bloom EXCEPT ![s] = {}]
    BY <1>2 DEF InsertEffect
  <2>4. mode \in [Sites -> Mode] /\ bloom \in [Sites -> SUBSET BloomBits]
    BY DEF TypeOK
  <2>5. mode' \in [Sites -> Mode]
    BY <2>2, <2>4
  <2>6. bloom' \in [Sites -> SUBSET BloomBits]
    BY <1>1, <2>1, <2>3, <2>4
  <2> QED BY <2>5, <2>6
<1>9. /\ smcKind' \in [Sites -> {"DirectCall", "ClosureCall"}]
      /\ smcDest' \in [Sites -> StubOrSlow]
      /\ live' \subseteq Entry
      /\ entity' \in [Entry -> Fn \cup Code \cup {NoCall}]
  <2>1. smcKind' = smcKind \/ smcKind' = [smcKind EXCEPT ![s] = "ClosureCall"]
    BY <1>2 DEF InsertEffect
  <2>2. /\ smcDest' = [smcDest EXCEPT ![s] = e]
        /\ live' = (live \ D) \cup {e}
        /\ entity' = [entity EXCEPT ![e] = ent]
    BY <1>2 DEF InsertEffect
  <2>3. ent \in Fn \cup Code
    BY <1>1, <1>2
  <2> QED BY <1>1, <1>2, <2>1, <2>2, <2>3 DEF TypeOK, StubOrSlow
<1>10. /\ stubKind' \in [Entry -> {"DirectCall", "ClosureCall"}]
       /\ stubMiss' \in [Entry -> StubOrSlow]
  BY <1>1, <1>2 DEF InsertEffect, TypeOK, StubOrSlow
<1>11. stubPtr' \in [Entry -> Addr]
  <2>1. Encode(e, best[ExecOf[f]]) \in Addr
    BY <1>1, <1>2, OperandFacts
  <2> QED BY <1>2, <2>1 DEF InsertEffect, TypeOK
<1> QED BY <1>3, <1>4, <1>5, <1>6, <1>7, <1>8, <1>9, <1>10, <1>11 DEF TypeOK, BloomBits, StubOrSlow, Addr

\* Every step keeps the types.
LEMMA NextType == TypeOK /\ [Next]_vars => TypeOK'
<1> SUFFICES ASSUME TypeOK, [Next]_vars PROVE TypeOK'
  OBVIOUS
<1>1. ASSUME NEW s \in Sites, NEW f \in Fn, StartCall(s, f) PROVE TypeOK'
  BY <1>1 DEF StartCall, TypeOK, icVars, codeVars, BloomBits, StubOrSlow, Addr
<1>2. CASE StubHit
  <2>1. pc # NoCall /\ pc \in Entry
    BY <1>2, ConstAssumption DEF StubHit
  <2>2. callee.site \in Sites /\ callee.fn \in Fn
    BY <2>1 DEF TypeOK
  <2>3. Decode(pc, stubPtr[pc]) \in Addr
    <3>1. stubPtr[pc] - PatchBias[pc] \in Int /\ PtrMod \in Nat \ {0}
      BY <2>1, ConstAssumption DEF TypeOK, Addr
    <3> QED BY <3>1, DivMod DEF Decode, Addr
  <2>4. /\ pc' = NoCall
        /\ lastCall' \in [fn : Fn, ptr : Addr]
        /\ seen' \in [Sites -> SUBSET Fn]
    BY <1>2, <2>2, <2>3, JumpToType DEF StubHit
  <2> QED BY <1>2, <2>4 DEF StubHit, TypeOK, icVars, codeVars, BloomBits, StubOrSlow, Addr
<1>3. CASE StubMiss
  BY <1>3, ConstAssumption DEF StubMiss, TypeOK, icVars, codeVars, BloomBits, StubOrSlow, Addr
<1>4. CASE SlowPathNoInsert
  <2>1. pc # NoCall
    BY <1>4, ConstAssumption DEF SlowPathNoInsert
  <2>2. callee.site \in Sites /\ callee.fn \in Fn /\ best[ExecOf[callee.fn]] \in Addr
    BY <2>1, ConstAssumption DEF TypeOK
  <2>3. /\ pc' = NoCall
        /\ lastCall' \in [fn : Fn, ptr : Addr]
        /\ seen' \in [Sites -> SUBSET Fn]
    BY <1>4, <2>2, JumpToType DEF SlowPathNoInsert
  <2> QED BY <1>4, <2>3 DEF SlowPathNoInsert, TypeOK, icVars, codeVars, BloomBits, StubOrSlow, Addr
<1>5. CASE SlowPathInsert
  BY <1>5, InsertType
<1>6. ASSUME NEW c \in Bytecode, TierUp(c) PROVE TypeOK'
  <2>1. c \in Code /\ BaselineEntry[c] \in Addr /\ best[c] \in Addr
    BY ConstAssumption DEF TypeOK
  <2>2. \A e \in Entry : (stubPtr[e] + (BaselineEntry[c] - best[c])) % PtrMod \in Addr
    <3> TAKE e \in Entry
    <3>1. stubPtr[e] + (BaselineEntry[c] - best[c]) \in Int /\ PtrMod \in Nat \ {0}
      BY <2>1, ConstAssumption DEF TypeOK, Addr
    <3> QED BY <3>1, DivMod DEF Addr
  <2>3. stubPtr' \in [Entry -> Addr] /\ best' \in [Code -> Addr]
    BY <1>6, <2>1, <2>2 DEF TierUp, UpdateBestEntryPoint, TypeOK
  <2> QED BY <1>6, <2>3 DEF TierUp, TypeOK, icVars, BloomBits, StubOrSlow, Addr
<1>7. CASE UNCHANGED vars
  BY <1>7 DEF vars, icVars, codeVars, TypeOK, BloomBits, StubOrSlow, Addr
<1> QED BY <1>1, <1>2, <1>3, <1>4, <1>5, <1>6, <1>7 DEF Next, CallStep

\* Every field holds a value of its type in every reachable state, and no site
\* ever holds more than MaxEntries entries.
THEOREM TypeCorrect == Spec => []TypeOK
  BY InitType, NextType, PTL DEF Spec

-----------------------------------------------------------------------------
(***************************************************************************)
(* No cache holds a stale code pointer.  StubPtrCurrent is not inductive:  *)
(* a tier-up patches the entries on the CodeBlock's list, so it needs      *)
(* IcListExact, and both need the entity of an allocated entry to be a     *)
(* function or a code.                                                     *)
(***************************************************************************)
LiveEntity == \A e \in live : entity[e] \in Fn \cup Code

\* "Assert(cb->m_bestEntryPoint == cb->m_owner->GetInterpreterEntryPoint())"
\* before the update, and the baseline entry point after it.
BestIsCurrentTier ==
    \A c \in Code : best[c] = IF c \in compiled THEN BaselineEntry[c] ELSE InterpEntry[c]

CacheInv == TypeOK /\ LiveEntity /\ BestIsCurrentTier /\ IcListExact /\ StubPtrCurrent

\* An insertion keeps lists and code pointers exact.
LEMMA InsertCache ==
    ASSUME CacheInv, SlowPathInsert
    PROVE  (LiveEntity /\ BestIsCurrentTier /\ IcListExact /\ StubPtrCurrent)'
<1> DEFINE s == callee.site
           f == callee.fn
<1>1. f \in Fn /\ ExecOf[f] \in Code /\ ExecOf[f] \notin Fn
  <2>1. pc # NoCall
    BY ConstAssumption DEF SlowPathInsert
  <2> QED BY <2>1, ConstAssumption DEF CacheInv, TypeOK
<1>2. PICK e \in Entry, D \in {{}, Owned(s)}, ent \in {f, ExecOf[f]} : InsertEffect(s, f, e, D, ent)
  BY InsertHasEffect DEF CacheInv
<1>3. UNCHANGED <<compiled, best>>
  BY DEF SlowPathInsert
<1> HIDE DEF s, f
<1>4. /\ live' = (live \ D) \cup {e}
      /\ entity' = [entity EXCEPT ![e] = ent]
      /\ stubPtr' = [stubPtr EXCEPT ![e] = Encode(e, best[ExecOf[f]])]
      /\ jitCallIcList' = [c \in Bytecode |->
          IF c = TargetOf(ent) THEN (jitCallIcList[c] \ D) \cup {e} ELSE jitCallIcList[c] \ D]
      /\ e \notin live \ D
  BY <1>2 DEF InsertEffect
<1>5. TargetOf(ent) = ExecOf[f]
  BY <1>1, <1>2 DEF TargetOf
<1>6. /\ Target(e)' = ExecOf[f]
      /\ entity'[e] \in Fn \cup Code
      /\ \A x \in live \ D : entity'[x] = entity[x] /\ Target(x)' = Target(x)
  BY <1>1, <1>2, <1>4, <1>5 DEF Target, TargetOf, CacheInv, TypeOK
<1>7. LiveEntity'
  BY <1>4, <1>6 DEF LiveEntity, CacheInv
<1>8. BestIsCurrentTier'
  BY <1>3 DEF BestIsCurrentTier, CacheInv
<1>9. IcListExact'
  <2> SUFFICES ASSUME NEW c \in Bytecode
               PROVE  jitCallIcList'[c] = {x \in live' : Target(x)' = c}
    BY DEF IcListExact
  <2>1. jitCallIcList[c] = {x \in live : Target(x) = c}
    BY DEF CacheInv, IcListExact
  <2>2. jitCallIcList[c] \ D = {x \in live \ D : Target(x) = c}
    BY <2>1
  <2>3. jitCallIcList'[c] = IF c = ExecOf[f] THEN (jitCallIcList[c] \ D) \cup {e} ELSE jitCallIcList[c] \ D
    BY <1>4, <1>5
  <2>4. ASSUME NEW x PROVE x \in jitCallIcList'[c] <=> x \in live' /\ Target(x)' = c
    <3>1. CASE x = e
      BY <1>4, <1>6, <2>2, <2>3, <3>1
    <3>2. CASE x # e
      BY <1>4, <1>6, <2>2, <2>3, <3>2
    <3> QED BY <3>1, <3>2
  <2> QED BY <2>4
<1>10. StubPtrCurrent'
  <2> SUFFICES ASSUME NEW x \in live'
               PROVE  stubPtr'[x] = Encode(x, best[Target(x)'])
    BY <1>3 DEF StubPtrCurrent, Encode
  <2>1. CASE x = e
    BY <1>4, <1>6, <2>1 DEF CacheInv, TypeOK
  <2>2. CASE x # e
    BY <1>4, <1>6, <2>2 DEF CacheInv, TypeOK, StubPtrCurrent
  <2> QED BY <2>1, <2>2
<1> QED BY <1>7, <1>8, <1>9, <1>10

\* So does a tier-up, which patches the stubs of one code.
LEMMA TierUpCache ==
    ASSUME CacheInv, NEW c \in Bytecode, TierUp(c)
    PROVE  (LiveEntity /\ BestIsCurrentTier /\ IcListExact /\ StubPtrCurrent)'
<1>1. UNCHANGED <<live, entity, jitCallIcList>> /\ compiled' = compiled \cup {c}
  BY DEF TierUp, icVars
<1>2. /\ stubPtr' = [e \in Entry |-> IF e \in jitCallIcList[c]
                                      THEN (stubPtr[e] + (BaselineEntry[c] - best[c])) % PtrMod
                                      ELSE stubPtr[e]]
      /\ best' = [best EXCEPT ![c] = BaselineEntry[c]]
  BY DEF TierUp, UpdateBestEntryPoint
<1>3. c \in Code /\ BaselineEntry[c] \in Addr /\ best[c] \in Addr
  BY ConstAssumption DEF CacheInv, TypeOK
<1>4. \A e : Target(e)' = Target(e)
  BY <1>1 DEF Target, TargetOf
<1>5. LiveEntity' /\ IcListExact'
  BY <1>1, <1>4 DEF CacheInv, LiveEntity, IcListExact
<1>6. BestIsCurrentTier'
  BY <1>1, <1>2, <1>3 DEF CacheInv, TypeOK, BestIsCurrentTier
<1>7. StubPtrCurrent'
  <2> SUFFICES ASSUME NEW e \in live
               PROVE  stubPtr'[e] = Encode(e, best'[Target(e)])
    BY <1>1, <1>4 DEF StubPtrCurrent, Encode
  <2>1. e \in Entry /\ stubPtr[e] = Encode(e, best[Target(e)])
    BY DEF CacheInv, TypeOK, StubPtrCurrent
  <2>2. e \in jitCallIcList[c] <=> Target(e) = c
    BY DEF CacheInv, IcListExact
  <2>3. CASE Target(e) = c
    <3>1. stubPtr'[e] = (Encode(e, best[c]) + (BaselineEntry[c] - best[c])) % PtrMod
      BY <1>2, <2>1, <2>2, <2>3
    <3>2. stubPtr'[e] = Encode(e, BaselineEntry[c])
      BY <1>3, <2>1, <3>1, OperandFacts
    <3>3. best'[c] = BaselineEntry[c]
      BY <1>2, <1>3 DEF CacheInv, TypeOK
    <3> QED BY <2>3, <3>2, <3>3
  <2>4. CASE Target(e) # c
    <3>1. stubPtr'[e] = stubPtr[e]
      BY <1>2, <2>1, <2>2, <2>4
    <3>2. Target(e) \in Code
      BY ConstAssumption DEF CacheInv, LiveEntity, Target, TargetOf
    <3>3. best'[Target(e)] = best[Target(e)]
      BY <1>2, <2>4, <3>2 DEF CacheInv, TypeOK
    <3> QED BY <2>1, <3>1, <3>3
  <2> QED BY <2>3, <2>4
<1> QED BY <1>5, <1>6, <1>7

\* So does every step.
LEMMA NextCache == CacheInv /\ [Next]_vars => CacheInv'
<1> SUFFICES ASSUME CacheInv, [Next]_vars PROVE CacheInv'
  OBVIOUS
<1>1. TypeOK'
  BY NextType DEF CacheInv
<1>2. CASE UNCHANGED <<compiled, best, jitCallIcList, live, entity, stubPtr>>
  <2>1. \A e : Target(e)' = Target(e)
    BY <1>2 DEF Target, TargetOf
  <2> QED BY <1>1, <1>2, <2>1 DEF CacheInv, LiveEntity, BestIsCurrentTier, IcListExact, StubPtrCurrent, Encode
<1>3. CASE SlowPathInsert
  BY <1>1, <1>3, InsertCache DEF CacheInv
<1>4. ASSUME NEW c \in Bytecode, TierUp(c) PROVE CacheInv'
  BY <1>1, <1>4, TierUpCache DEF CacheInv
<1>5. ASSUME NEW s \in Sites, NEW f \in Fn, StartCall(s, f)
      PROVE  UNCHANGED <<compiled, best, jitCallIcList, live, entity, stubPtr>>
  BY <1>5 DEF StartCall, icVars, codeVars
<1>6. CASE StubHit \/ StubMiss \/ SlowPathNoInsert
  BY <1>2, <1>6 DEF StubHit, StubMiss, SlowPathNoInsert, icVars, codeVars
<1>7. CASE UNCHANGED vars
  BY <1>2, <1>7 DEF vars, icVars, codeVars
<1> QED BY <1>2, <1>3, <1>4, <1>5, <1>6, <1>7 DEF Next, CallStep

\* No entry exists initially.
LEMMA InitCache == Init => CacheInv
<1> SUFFICES ASSUME Init PROVE CacheInv
  OBVIOUS
<1>1. TypeOK
  BY InitType
<1>2. live = {} /\ jitCallIcList = [c \in Bytecode |-> {}]
  BY DEF Init
<1>3. IcListExact
  BY <1>2 DEF IcListExact
<1>4. BestIsCurrentTier
  BY DEF Init, BestIsCurrentTier
<1> QED BY <1>1, <1>2, <1>3, <1>4 DEF CacheInv, LiveEntity, StubPtrCurrent

\* The inductive invariant of the code pointers.
THEOREM CacheInvariant == Spec => []CacheInv
  BY InitCache, NextCache, PTL DEF Spec

\* Whatever the order of calls, cache transitions and tier-ups, the stub of
\* every allocated entry holds the current best entry point of its target.
THEOREM NoStaleCodePointer == Spec => []StubPtrCurrent
<1>1. CacheInv => StubPtrCurrent
  BY DEF CacheInv
<1> QED BY <1>1, CacheInvariant, PTL

\* A CodeBlock's list of call ICs is exact in every reachable state.
THEOREM CallIcListsExact == Spec => []IcListExact
<1>1. CacheInv => IcListExact
  BY DEF CacheInv
<1> QED BY <1>1, CacheInvariant, PTL

-----------------------------------------------------------------------------
(***************************************************************************)
(* The chain of stubs.  A call only ever executes stubs of its own site,   *)
(* because the machine-code chain mirrors the site's list; the chain stays *)
(* intact when an entry's storage is reused because no two sites share an  *)
(* entry.                                                                  *)
(***************************************************************************)
\* The SMC region has the layout that the site's mode calls for.
LayoutMatchesMode ==
    \A s \in Sites : smcKind[s] = IF mode[s] = "DirectCall" THEN "DirectCall" ELSE "ClosureCall"

ChainInv == CacheInv /\ LayoutMatchesMode /\ OwnedOnce /\ ChainMirrorsList /\ RunningStubOwned

\* Prepending an element shifts the others by one.
LEMMA Prepend ==
    ASSUME NEW S, NEW q \in Seq(S), NEW e \in S
    PROVE  /\ <<e>> \o q \in Seq(S)
           /\ Len(<<e>> \o q) = Len(q) + 1
           /\ (<<e>> \o q)[1] = e
           /\ \A i \in 1 .. Len(q) : (<<e>> \o q)[i + 1] = q[i]
  OBVIOUS

\* How an insertion changes the lists: list s becomes new, which starts with e
\* and continues, if at all, with the old list.
NewList(s, e, D, new) ==
    /\ list' = [list EXCEPT ![s] = new]
    /\ Len(new) >= 1
    /\ new[1] = e
    /\ D = {} => /\ Len(new) = Len(list[s]) + 1
                 /\ \A i \in 1 .. Len(list[s]) : new[i + 1] = list[s][i]
    /\ D # {} => Len(new) = 1 /\ D = Owned(s)

\* An insertion changes the list of its site that way.
LEMMA InsertLists ==
    ASSUME ChainInv, NEW s \in Sites, NEW f, NEW e \in Entry, NEW D, NEW ent,
           InsertEffect(s, f, e, D, ent)
    PROVE  \E new \in Seq(Entry) : NewList(s, e, D, new)
<1>1. list[s] \in Seq(Entry) /\ Len(list[s]) \in Nat
  BY DEF ChainInv, CacheInv, TypeOK
<1>2. CASE D = {} /\ list' = [list EXCEPT ![s] = <<e>> \o @]
  <2> DEFINE new == <<e>> \o list[s]
  <2>1. /\ new \in Seq(Entry)
        /\ Len(new) = Len(list[s]) + 1
        /\ new[1] = e
        /\ \A i \in 1 .. Len(list[s]) : new[i + 1] = list[s][i]
    BY <1>1, Prepend
  <2>2. list' = [list EXCEPT ![s] = new]
    BY <1>2
  <2> HIDE DEF new
  <2>3. Len(new) >= 1
    BY <1>1, <2>1
  <2> QED BY <1>2, <2>1, <2>2, <2>3 DEF NewList
<1>3. CASE D = Owned(s) /\ list' = [list EXCEPT ![s] = <<e>>]
  <2> DEFINE new == <<e>>
  <2>1. new \in Seq(Entry) /\ Len(new) = 1 /\ new[1] = e
    OBVIOUS
  <2>2. D = {} => Len(list[s]) = 0
    <3> SUFFICES ASSUME D = {}, Len(list[s]) # 0 PROVE FALSE
      OBVIOUS
    <3>1. 1 \in 1 .. Len(list[s])
      BY <1>1
    <3>2. list[s][1] \in Owned(s)
      BY <3>1 DEF Owned
    <3> QED BY <1>3, <3>2
  <2>3. list' = [list EXCEPT ![s] = new]
    BY <1>3
  <2> HIDE DEF new
  <2>4. D = {} => /\ Len(new) = Len(list[s]) + 1
                  /\ \A i \in 1 .. Len(list[s]) : new[i + 1] = list[s][i]
    BY <1>1, <2>1, <2>2
  <2>5. Len(new) >= 1
    BY <2>1
  <2> QED BY <1>3, <2>1, <2>3, <2>4, <2>5, Zenon DEF NewList
<1> QED BY <1>2, <1>3 DEF InsertEffect

\* Two entries at different places of the lists are different.
LEMMA DisjointLists ==
    ASSUME TypeOK, OwnedOnce, NEW s \in Sites, NEW t \in Sites, s # t
    PROVE  Owned(s) \cap Owned(t) = {}
<1> SUFFICES ASSUME NEW x, x \in Owned(s), x \in Owned(t) PROVE FALSE
  OBVIOUS
<1>1. PICK i \in 1 .. Len(list[s]) : x = list[s][i]
  BY DEF Owned
<1>2. PICK j \in 1 .. Len(list[t]) : x = list[t][j]
  BY DEF Owned
<1>3. DOMAIN list[s] = 1 .. Len(list[s]) /\ DOMAIN list[t] = 1 .. Len(list[t])
  BY DEF TypeOK
<1>4. \A k \in DOMAIN list[s], l \in DOMAIN list[t] : list[s][k] = list[t][l] => s = t
  BY DEF OwnedOnce
<1> QED BY <1>1, <1>2, <1>3, <1>4

\* An insertion keeps every chain in step with its list.
LEMMA InsertChain ==
    ASSUME ChainInv, SlowPathInsert
    PROVE  (LayoutMatchesMode /\ OwnedOnce /\ ChainMirrorsList /\ RunningStubOwned)'
<1>1. PICK s \in Sites, f \in Fn : s = callee.site /\ f = callee.fn
  <2>1. pc # NoCall
    BY ConstAssumption DEF SlowPathInsert
  <2> QED BY <2>1 DEF ChainInv, CacheInv, TypeOK
<1>2. PICK e \in Entry, D \in {{}, Owned(s)}, ent \in {f, ExecOf[f]} : InsertEffect(s, f, e, D, ent)
  BY <1>1, InsertHasEffect DEF ChainInv, CacheInv
<1>3. pc' = NoCall
  BY DEF SlowPathInsert, JumpTo
<1>4a. PICK new \in Seq(Entry) : NewList(s, e, D, new)
  BY <1>2, InsertLists, Zenon
<1>4. /\ list' = [list EXCEPT ![s] = new]
      /\ Len(new) >= 1
      /\ new[1] = e
      /\ D = {} => Len(new) = Len(list[s]) + 1 /\ \A i \in 1 .. Len(list[s]) : new[i + 1] = list[s][i]
      /\ D # {} => Len(new) = 1 /\ D = Owned(s)
  BY <1>4a DEF NewList
<1>5. /\ Len(new) \in Nat
      /\ list'[s] = new
      /\ \A t \in Sites : t # s => list'[t] = list[t]
      /\ \A t \in Sites : list[t] \in Seq(Entry) /\ Len(list[t]) \in Nat
  BY <1>1, <1>4 DEF ChainInv, CacheInv, TypeOK
<1>6. /\ \A t \in Sites : Owned(t) \subseteq live
      /\ \A t \in Sites : t # s => Owned(t) \cap Owned(s) = {}
      /\ e \notin live \ D
  <2>1. \A t \in Sites : Owned(t) \subseteq live
    BY DEF ChainInv, OwnedOnce
  <2>2. \A t \in Sites : t # s => Owned(t) \cap Owned(s) = {}
    BY <1>1, DisjointLists DEF ChainInv, CacheInv
  <2>3. e \notin live \ D
    BY <1>2 DEF InsertEffect
  <2> QED BY <2>1, <2>2, <2>3
<1>7. \A t \in Sites : t # s => e \notin Owned(t)
  BY <1>2, <1>6
<1>8. D = {} => e \notin Owned(s)
  BY <1>1, <1>6
<1>9. LayoutMatchesMode'
  <2>1. \/ UNCHANGED <<mode, smcKind>>
        \/ /\ smcKind' = [smcKind EXCEPT ![s] = "ClosureCall"]
           /\ \E md \in Mode \ {"DirectCall"} : mode' = [mode EXCEPT ![s] = md]
    BY <1>2 DEF InsertEffect
  <2> QED BY <1>1, <2>1 DEF LayoutMatchesMode, ChainInv, CacheInv, TypeOK
<1>10. Owned(s)' = (Owned(s) \ D) \cup {e} /\ \A t \in Sites : t # s => Owned(t)' = Owned(t)
  <2>1. \A t \in Sites : t # s => Owned(t)' = Owned(t)
    BY <1>5 DEF Owned
  <2>2. Owned(s)' = {new[i] : i \in 1 .. Len(new)}
    BY <1>5 DEF Owned
  <2>3. CASE D = {}
    <3>1. ASSUME NEW x PROVE x \in Owned(s)' <=> x = e \/ x \in Owned(s)
      <4>1. ASSUME x \in Owned(s)', x # e PROVE x \in Owned(s)
        <5>1. PICK i \in 1 .. Len(new) : x = new[i]
          BY <2>2, <4>1
        <5>2. i - 1 \in 1 .. Len(list[s]) /\ (i - 1) + 1 = i
          BY <1>1, <1>4, <1>5, <2>3, <4>1, <5>1
        <5>3. x = list[s][i - 1]
          BY <1>4, <2>3, <5>1, <5>2
        <5> QED BY <5>2, <5>3 DEF Owned
      <4>2. ASSUME x \in Owned(s) PROVE x \in Owned(s)'
        <5>1. PICK i \in 1 .. Len(list[s]) : x = list[s][i]
          BY <4>2 DEF Owned
        <5>2. i + 1 \in 1 .. Len(new) /\ new[i + 1] = x
          BY <1>1, <1>4, <1>5, <2>3, <5>1
        <5> QED BY <2>2, <5>2
      <4>3. e \in Owned(s)'
        <5>1. 1 \in 1 .. Len(new)
          BY <1>4, <1>5
        <5> QED BY <1>4, <2>2, <5>1
      <4> QED BY <4>1, <4>2, <4>3
    <3> QED BY <2>1, <2>3, <3>1
  <2>4. CASE D # {}
    <3>1. Len(new) = 1 /\ D = Owned(s)
      BY <1>4, <2>4
    <3>2. Owned(s)' = {e}
      BY <1>4, <2>2, <3>1
    <3> QED BY <2>1, <3>1, <3>2
  <2> QED BY <2>3, <2>4
<1>11. OwnedOnce'
  <2>1. live' = (live \ D) \cup {e} /\ live = UNION {Owned(t) : t \in Sites}
    BY <1>2 DEF InsertEffect, ChainInv, OwnedOnce
  <2>2. live' = UNION {Owned(t)' : t \in Sites}
    <3>1. ASSUME NEW x \in live' PROVE \E t \in Sites : x \in Owned(t)'
      BY <1>1, <1>10, <2>1
    <3>2. ASSUME NEW t \in Sites, NEW x \in Owned(t)' PROVE x \in live'
      BY <1>1, <1>2, <1>6, <1>10, <2>1
    <3> QED BY <3>1, <3>2
  <2>3. ASSUME NEW t \in Sites, NEW u \in Sites,
               NEW i \in DOMAIN list'[t], NEW j \in DOMAIN list'[u], list'[t][i] = list'[u][j]
        PROVE  t = u /\ i = j
    <3>1. /\ list'[t] \in Seq(Entry) /\ DOMAIN list'[t] = 1 .. Len(list'[t]) /\ i \in Int
          /\ list'[u] \in Seq(Entry) /\ DOMAIN list'[u] = 1 .. Len(list'[u]) /\ j \in Int
      BY <1>5
    <3>2. list'[t][i] \in Owned(t)' /\ list'[u][j] \in Owned(u)'
      BY <3>1 DEF Owned
    <3>3. t = u
      BY <1>6, <1>7, <1>10, <2>3, <3>2, DisjointLists DEF ChainInv, CacheInv
    <3>4. CASE t # s
      <4>1. list'[t] = list[t] /\ list'[u] = list[u]
        BY <1>5, <3>3, <3>4
      <4> QED BY <2>3, <3>3, <4>1 DEF ChainInv, OwnedOnce
    <3>5. CASE t = s /\ D # {}
      <4>1. Len(new) = 1
        BY <1>4, <3>5
      <4>2. i \in 1 .. 1 /\ j \in 1 .. 1
        BY <1>5, <3>1, <3>3, <3>5, <4>1
      <4> QED BY <3>3, <4>2
    <3>6. CASE t = s /\ D = {}
      <4>1. ASSUME NEW k \in 1 .. Len(new), k # 1
            PROVE  /\ k - 1 \in 1 .. Len(list[s])
                   /\ new[k] = list[s][k - 1]
                   /\ new[k] \in Owned(s)
        <5>1. k - 1 \in 1 .. Len(list[s]) /\ (k - 1) + 1 = k
          BY <1>4, <1>5, <3>6, <4>1
        <5>2. new[k] = list[s][k - 1]
          BY <1>4, <3>6, <5>1
        <5> QED BY <5>1, <5>2 DEF Owned
      <4>2. i \in 1 .. Len(new) /\ j \in 1 .. Len(new) /\ new[i] = new[j]
        BY <1>5, <2>3, <3>1, <3>3, <3>6
      <4>3. CASE i # 1 /\ j # 1
        <5>1. i - 1 \in DOMAIN list[s] /\ j - 1 \in DOMAIN list[s]
          BY <1>5, <4>1, <4>2, <4>3
        <5>2. list[s][i - 1] = list[s][j - 1]
          BY <4>1, <4>2, <4>3
        <5>3. i - 1 = j - 1
          BY <5>1, <5>2 DEF ChainInv, OwnedOnce
        <5> QED BY <3>1, <3>3, <5>3
      <4>4. CASE i = 1 \/ j = 1
        BY <1>4, <1>8, <3>3, <3>6, <4>1, <4>2, <4>4
      <4> QED BY <4>3, <4>4
    <3> QED BY <3>4, <3>5, <3>6
  <2> QED BY <2>2, <2>3 DEF OwnedOnce
<1>12. ChainMirrorsList'
  <2> SUFFICES ASSUME NEW t \in Sites
               PROVE  /\ smcDest'[t] = IF list'[t] = <<>> THEN SlowPath ELSE list'[t][1]
                      /\ \A i \in DOMAIN list'[t] :
                           /\ stubMiss'[list'[t][i]] = IF i = Len(list'[t]) THEN SlowPath ELSE list'[t][i + 1]
                           /\ stubKind'[list'[t][i]] = smcKind'[t]
    BY DEF ChainMirrorsList
  <2>1. /\ smcDest[t] = IF list[t] = <<>> THEN SlowPath ELSE list[t][1]
        /\ \A i \in DOMAIN list[t] :
             /\ stubMiss[list[t][i]] = IF i = Len(list[t]) THEN SlowPath ELSE list[t][i + 1]
             /\ stubKind[list[t][i]] = smcKind[t]
    BY DEF ChainInv, ChainMirrorsList
  <2>2. CASE t # s
    <3>1. list'[t] = list[t] /\ smcDest'[t] = smcDest[t] /\ smcKind'[t] = smcKind[t]
      BY <1>2, <1>5, <2>2 DEF InsertEffect, ChainInv, CacheInv, TypeOK
    <3>2. \A x \in Entry : x # e => stubMiss'[x] = stubMiss[x] /\ stubKind'[x] = stubKind[x]
      BY <1>2 DEF InsertEffect, ChainInv, CacheInv, TypeOK
    <3>3. \A i \in DOMAIN list[t] : list[t][i] \in Entry /\ list[t][i] # e
      BY <1>5, <1>7, <2>2 DEF Owned
    <3> QED BY <2>1, <3>1, <3>2, <3>3
  <2>3. CASE t = s
    <3>1. smcDest'[s] = e /\ list'[s] = new /\ new # <<>> /\ DOMAIN new = 1 .. Len(new)
      BY <1>1, <1>2, <1>4, <1>5 DEF InsertEffect, ChainInv, CacheInv, TypeOK
    <3>2. CASE D = {} /\ stubMiss' = [stubMiss EXCEPT ![e] = smcDest[s]] /\ smcKind' = smcKind
               /\ stubKind' = [stubKind EXCEPT ![e] = IF mode[s] = "DirectCall" THEN "DirectCall" ELSE "ClosureCall"]
      <4> SUFFICES ASSUME NEW i \in 1 .. Len(new)
                   PROVE  /\ stubMiss'[new[i]] = IF i = Len(new) THEN SlowPath ELSE new[i + 1]
                          /\ stubKind'[new[i]] = smcKind[s]
        <5>1. new[1] = e /\ smcKind'[s] = smcKind[s]
          BY <1>4, <3>2
        <5> QED BY <2>3, <3>1, <5>1
      <4>1. Len(new) = Len(list[s]) + 1 /\ \A k \in 1 .. Len(list[s]) : new[k + 1] = list[s][k]
        BY <1>4, <3>2
      <4>2. \A x \in Entry : x # e => stubMiss'[x] = stubMiss[x] /\ stubKind'[x] = stubKind[x]
        BY <3>2 DEF ChainInv, CacheInv, TypeOK
      <4>3. /\ stubMiss'[e] = smcDest[s]
            /\ stubKind'[e] = smcKind[s]
        BY <3>2 DEF ChainInv, CacheInv, TypeOK, LayoutMatchesMode
      <4>4. CASE i = 1
        <5>1. CASE list[s] = <<>>
          BY <1>4, <1>5, <2>1, <2>3, <4>1, <4>3, <4>4, <5>1
        <5>2. CASE list[s] # <<>>
          <6>1. 1 \in 1 .. Len(list[s]) /\ i # Len(new)
            BY <1>5, <4>1, <4>4, <5>2
          <6>2. new[i + 1] = list[s][1]
            BY <4>1, <4>4, <6>1
          <6> QED BY <1>4, <2>1, <2>3, <4>3, <4>4, <5>2, <6>1, <6>2
        <5> QED BY <5>1, <5>2
      <4>5. CASE i # 1
        <5>1. i - 1 \in 1 .. Len(list[s]) /\ (i - 1) + 1 = i
          BY <1>5, <4>1, <4>5
        <5>2. new[i] = list[s][i - 1]
          BY <4>1, <5>1
        <5>3. new[i] \in Entry /\ new[i] # e
          BY <1>5, <1>8, <3>2, <5>1, <5>2 DEF Owned
        <5>4. /\ stubMiss[list[s][i - 1]] = IF i - 1 = Len(list[s]) THEN SlowPath ELSE list[s][i]
              /\ stubKind[list[s][i - 1]] = smcKind[s]
          BY <1>5, <2>1, <2>3, <5>1
        <5>5. i # Len(new) => new[i + 1] = list[s][i]
          BY <1>5, <4>1, <4>5
        <5>6. i = Len(new) <=> i - 1 = Len(list[s])
          BY <1>5, <4>1
        <5> QED BY <4>2, <5>2, <5>3, <5>4, <5>5, <5>6
      <4> QED BY <4>4, <4>5
    <3>3. CASE D = Owned(s) /\ stubMiss' = [stubMiss EXCEPT ![e] = SlowPath]
               /\ stubKind' = [stubKind EXCEPT ![e] = "ClosureCall"]
               /\ smcKind' = [smcKind EXCEPT ![s] = "ClosureCall"]
      <4>1. Len(new) = 1
        <5>1. CASE D # {}
          BY <1>4, <5>1
        <5>2. CASE D = {}
          <6>1. Len(list[s]) = 0
            <7>1. Len(list[s]) # 0 => list[s][1] \in Owned(s)
              BY <1>5 DEF Owned
            <7> QED BY <3>3, <5>2, <7>1
          <6> QED BY <1>4, <5>2, <6>1
        <5> QED BY <5>1, <5>2
      <4>2. stubMiss'[e] = SlowPath /\ stubKind'[e] = "ClosureCall" /\ smcKind'[s] = "ClosureCall"
        BY <3>3 DEF ChainInv, CacheInv, TypeOK
      <4> QED BY <1>4, <2>3, <3>1, <4>1, <4>2
    <3> QED BY <1>2, <3>2, <3>3 DEF InsertEffect
  <2> QED BY <2>2, <2>3
<1>13. RunningStubOwned'
  BY <1>3, ConstAssumption DEF RunningStubOwned
<1> QED BY <1>9, <1>11, <1>12, <1>13

\* A call starts at the first stub of its site, and a miss leads to another
\* stub of the same site or to the slow path.
LEMMA NextChain == ChainInv /\ [Next]_vars => ChainInv'
<1> SUFFICES ASSUME ChainInv, [Next]_vars PROVE ChainInv'
  OBVIOUS
<1> DEFINE Frame == <<list, live, mode, smcKind, smcDest, stubKind, stubMiss>>
<1>1. CacheInv'
  BY NextCache DEF ChainInv
<1>2. ASSUME UNCHANGED Frame
      PROVE  /\ (LayoutMatchesMode /\ OwnedOnce /\ ChainMirrorsList)'
             /\ \A t : Owned(t)' = Owned(t)
  BY <1>2 DEF ChainInv, LayoutMatchesMode, OwnedOnce, ChainMirrorsList, Owned
<1>3. ASSUME NEW s \in Sites, NEW f \in Fn, StartCall(s, f) PROVE ChainInv'
  <2>1. UNCHANGED Frame /\ pc' = smcDest[s] /\ callee'.site = s
    BY <1>3 DEF StartCall, icVars, codeVars
  <2>2. smcDest[s] \in Entry => smcDest[s] \in Owned(s)
    <3>1. list[s] \in Seq(Entry) /\ smcDest[s] = IF list[s] = <<>> THEN SlowPath ELSE list[s][1]
      BY DEF ChainInv, CacheInv, TypeOK, ChainMirrorsList
    <3>2. list[s] # <<>> => 1 \in 1 .. Len(list[s])
      BY <3>1
    <3> QED BY <3>1, <3>2, ConstAssumption DEF Owned
  <2>3. RunningStubOwned'
    BY <1>2, <2>1, <2>2 DEF RunningStubOwned, Owned
  <2> QED BY <1>1, <1>2, <2>1, <2>3 DEF ChainInv
<1>4. CASE StubMiss
  <2>1. UNCHANGED Frame /\ UNCHANGED callee /\ pc \in Entry /\ pc' = stubMiss[pc]
    BY <1>4 DEF StubMiss, icVars, codeVars
  <2>2. PICK s \in Sites : s = callee.site
    BY <2>1, ConstAssumption DEF ChainInv, CacheInv, TypeOK
  <2>3. stubMiss[pc] \in Entry => stubMiss[pc] \in Owned(s)
    <3>1. list[s] \in Seq(Entry) /\ DOMAIN list[s] = 1 .. Len(list[s]) /\ Len(list[s]) \in Nat
      BY DEF ChainInv, CacheInv, TypeOK
    <3>2. PICK i \in 1 .. Len(list[s]) : pc = list[s][i]
      BY <2>1, <2>2 DEF ChainInv, RunningStubOwned, Owned
    <3>3. stubMiss[pc] = IF i = Len(list[s]) THEN SlowPath ELSE list[s][i + 1]
      BY <3>1, <3>2 DEF ChainInv, ChainMirrorsList
    <3>4. i # Len(list[s]) => i + 1 \in 1 .. Len(list[s])
      BY <3>1, <3>2
    <3> QED BY <3>3, <3>4, ConstAssumption DEF Owned
  <2>4. RunningStubOwned'
    BY <1>2, <2>1, <2>2, <2>3 DEF RunningStubOwned, Owned
  <2> QED BY <1>1, <1>2, <2>1, <2>4 DEF ChainInv
<1>5. CASE StubHit \/ SlowPathNoInsert
  <2>1. UNCHANGED Frame /\ pc' = NoCall
    BY <1>5 DEF StubHit, SlowPathNoInsert, JumpTo, icVars, codeVars
  <2> QED BY <1>1, <1>2, <2>1, ConstAssumption DEF ChainInv, RunningStubOwned
<1>6. CASE SlowPathInsert
  BY <1>1, <1>6, InsertChain DEF ChainInv
<1>7. ASSUME NEW c \in Bytecode, TierUp(c) PROVE ChainInv'
  <2>1. UNCHANGED Frame /\ UNCHANGED <<pc, callee>>
    BY <1>7 DEF TierUp, icVars
  <2> QED BY <1>1, <1>2, <2>1 DEF ChainInv, RunningStubOwned, Owned
<1>8. CASE UNCHANGED vars
  <2>1. UNCHANGED Frame /\ UNCHANGED <<pc, callee>>
    BY <1>8 DEF vars, icVars, codeVars
  <2> QED BY <1>1, <1>2, <2>1 DEF ChainInv, RunningStubOwned, Owned
<1> QED BY <1>3, <1>4, <1>5, <1>6, <1>7, <1>8 DEF Next, CallStep

\* All chains are empty initially.
LEMMA InitChain == Init => ChainInv
<1> SUFFICES ASSUME Init PROVE ChainInv
  OBVIOUS
<1>1. CacheInv
  BY InitCache
<1>2. \A s \in Sites : list[s] = <<>> /\ Owned(s) = {}
  BY DEF Init, Owned
<1>3. OwnedOnce
  BY <1>2 DEF Init, OwnedOnce
<1>4. ChainMirrorsList
  BY <1>2 DEF Init, ChainMirrorsList
<1> QED BY <1>1, <1>3, <1>4, ConstAssumption DEF Init, ChainInv, LayoutMatchesMode, RunningStubOwned

\* The inductive invariant of the stub chains.
THEOREM ChainInvariant == Spec => []ChainInv
  BY InitChain, NextChain, PTL DEF Spec

\* An allocated entry is on exactly one site's list, once.
THEOREM EntriesOwnedOnce == Spec => []OwnedOnce
  BY ChainInvariant, PTL DEF ChainInv

\* The machine-code chain of a site is its linked list, in order.
THEOREM StubChainsMirrorLists == Spec => []ChainMirrorsList
  BY ChainInvariant, PTL DEF ChainInv

\* No call executes the stub of a destroyed entry, even though destruction
\* and reuse of entries happen between the calls of the same site.
THEOREM NoFreedStubRuns == Spec => []RunningStubOwned
  BY ChainInvariant, PTL DEF ChainInv

-----------------------------------------------------------------------------
(***************************************************************************)
(* What the slow path asserts, and what the optimizing tier may read off   *)
(* a site.  A call in progress has missed every stub it has passed, so a   *)
(* call that reaches the slow path has missed all of them; that, and a     *)
(* bloom filter that hides no cached code, keeps the cached codes distinct.*)
(***************************************************************************)
\* The call in progress is at position j of the chain of its site.
AtPosition(j) ==
    pc = IF j > Len(list[callee.site]) THEN SlowPath ELSE list[callee.site][j]

MissedBefore ==
    pc # NoCall =>
      \E j \in 1 .. Len(list[callee.site]) + 1 :
        /\ AtPosition(j)
        /\ \A i \in 1 .. j - 1 : ~Hits(list[callee.site][i], callee.fn)

SiteInv ==
    /\ ChainInv
    /\ \A s \in Sites : EntriesWellFormed(s) /\ BloomNoFalseNegative(s)
    /\ MissedBefore

\* The two shapes of a cached entity.
LEMMA EntityFacts ==
    ASSUME NEW e, NEW f \in Fn
    PROVE  /\ ExecOf[f] \in Code /\ ExecOf[f] \notin Fn
           /\ entity[e] \in Fn => Target(e) = ExecOf[entity[e]]
           /\ entity[e] \in Code => Target(e) = entity[e] /\ entity[e] # f
  BY ConstAssumption DEF Target, TargetOf

\* A call that has come to the slow path has missed every stub of its site.
LEMMA MissedAll ==
    ASSUME SiteInv
    PROVE  SlowPathOnlyOnMiss
<1> SUFFICES ASSUME pc = SlowPath, NEW e \in Owned(callee.site)
             PROVE  /\ entity[e] # callee.fn
                    /\ mode[callee.site] # "DirectCall" => Target(e) # ExecOf[callee.fn]
  BY DEF SlowPathOnlyOnMiss
<1>1. PICK s \in Sites, f \in Fn : s = callee.site /\ f = callee.fn
  BY ConstAssumption DEF SiteInv, ChainInv, CacheInv, TypeOK
<1>2. list[s] \in Seq(Entry) /\ Len(list[s]) \in Nat /\ DOMAIN list[s] = 1 .. Len(list[s])
  BY DEF SiteInv, ChainInv, CacheInv, TypeOK
<1>3. PICK j \in 1 .. Len(list[s]) + 1 :
        /\ AtPosition(j)
        /\ \A i \in 1 .. j - 1 : ~Hits(list[s][i], f)
  BY <1>1, ConstAssumption DEF SiteInv, MissedBefore
<1>4. j = Len(list[s]) + 1
  <2>1. ASSUME j <= Len(list[s]) PROVE FALSE
    <3>1. list[s][j] \in Entry /\ pc = list[s][j]
      BY <1>1, <1>2, <1>3, <2>1 DEF AtPosition
    <3> QED BY <3>1, ConstAssumption
  <2> QED BY <1>2, <2>1
<1>5. PICK i \in 1 .. Len(list[s]) : e = list[s][i]
  BY <1>1 DEF Owned
<1>6. ~Hits(e, f)
  BY <1>2, <1>3, <1>4, <1>5
<1>7. /\ stubKind[e] = smcKind[s]
      /\ smcKind[s] = IF mode[s] = "DirectCall" THEN "DirectCall" ELSE "ClosureCall"
      /\ entity[e] \in (IF mode[s] = "DirectCall" THEN Fn ELSE Code)
  <2>1. stubKind[e] = smcKind[s]
    BY <1>2, <1>5 DEF SiteInv, ChainInv, ChainMirrorsList
  <2>2. EntriesWellFormed(s) /\ e \in Owned(s)
    BY <1>1 DEF SiteInv
  <2> QED BY <2>1, <2>2 DEF EntriesWellFormed
<1>8. CASE mode[s] = "DirectCall"
  BY <1>1, <1>6, <1>7, <1>8 DEF Hits
<1>9. CASE mode[s] # "DirectCall"
  <2>1. entity[e] # ExecOf[f]
    BY <1>6, <1>7, <1>9 DEF Hits
  <2> QED BY <1>1, <1>7, <1>9, <2>1, EntityFacts
<1> QED BY <1>8, <1>9

\* An insertion leaves the other sites and the entries that remain alone.
LEMMA InsertFrame ==
    ASSUME ChainInv, NEW s \in Sites, NEW f \in Fn, NEW e \in Entry, NEW D \in {{}, Owned(s)},
           NEW ent \in {f, ExecOf[f]}, InsertEffect(s, f, e, D, ent)
    PROVE  /\ \A t \in Sites : t # s =>
                /\ list'[t] = list[t] /\ numEntries'[t] = numEntries[t]
                /\ mode'[t] = mode[t] /\ bloom'[t] = bloom[t]
                /\ \A x \in Owned(t) : entity'[x] = entity[x]
           /\ entity'[e] = ent
           /\ D = {} => \A x \in Owned(s) : entity'[x] = entity[x]
<1>1. /\ entity \in [Entry -> Fn \cup Code \cup {NoCall}]
      /\ \A t \in Sites : Owned(t) \subseteq Entry
  BY DEF ChainInv, CacheInv, TypeOK, Owned
<1>2. entity' = [entity EXCEPT ![e] = ent] /\ e \notin live \ D
  BY DEF InsertEffect
<1>3. /\ \A t \in Sites : Owned(t) \subseteq live
      /\ \A t \in Sites : t # s => Owned(t) \cap Owned(s) = {}
  <2>1. \A t \in Sites : Owned(t) \subseteq live
    BY DEF ChainInv, OwnedOnce
  <2>2. \A t \in Sites : t # s => Owned(t) \cap Owned(s) = {}
    BY DisjointLists DEF ChainInv, CacheInv
  <2> QED BY <2>1, <2>2
<1>4. \A t \in Sites : t # s => \A x \in Owned(t) : x # e
  BY <1>2, <1>3
<1>5. D = {} => \A x \in Owned(s) : x # e
  BY <1>2, <1>3
<1>6. \A t \in Sites : t # s =>
        /\ list'[t] = list[t] /\ numEntries'[t] = numEntries[t]
        /\ mode'[t] = mode[t] /\ bloom'[t] = bloom[t]
  BY DEF InsertEffect, ChainInv, CacheInv, TypeOK
<1> QED BY <1>1, <1>2, <1>4, <1>5, <1>6

\* A site that an insertion does not touch stays as it was.
LEMMA OtherSites ==
    ASSUME SiteInv, NEW t \in Sites, list'[t] = list[t], numEntries'[t] = numEntries[t],
           mode'[t] = mode[t], bloom'[t] = bloom[t], smcKind'[t] = smcKind[t],
           \A x \in Owned(t) : entity'[x] = entity[x]
    PROVE  (EntriesWellFormed(t) /\ BloomNoFalseNegative(t))'
<1>1. Owned(t)' = Owned(t)
  BY DEF Owned
<1>2. \A x \in Owned(t) : Target(x)' = Target(x)
  BY DEF Target, TargetOf
<1>3. list[t] \in Seq(Entry) /\ DOMAIN list[t] = 1 .. Len(list[t])
  BY DEF SiteInv, ChainInv, CacheInv, TypeOK
<1>4. \A i \in DOMAIN list[t] : list[t][i] \in Owned(t)
  BY <1>3 DEF Owned
<1>5. \A i \in DOMAIN list[t] : Target(list[t][i])' = Target(list[t][i])
  BY <1>2, <1>4 DEF Target, TargetOf
<1>6. EntriesWellFormed(t) /\ BloomNoFalseNegative(t)
  BY DEF SiteInv
<1>7. EntriesWellFormed(t)'
  BY <1>1, <1>2, <1>5, <1>6 DEF EntriesWellFormed
<1>8. BloomNoFalseNegative(t)'
  BY <1>1, <1>2, <1>6 DEF BloomNoFalseNegative
<1> QED BY <1>7, <1>8

\* The site an entry is inserted into.
LEMMA InsertSite ==
    ASSUME SiteInv, SlowPathInsert
    PROVE  (\A t \in Sites : EntriesWellFormed(t) /\ BloomNoFalseNegative(t))' /\ MissedBefore'
<1>1. PICK s \in Sites, f \in Fn : s = callee.site /\ f = callee.fn
  BY ConstAssumption DEF SlowPathInsert, SiteInv, ChainInv, CacheInv, TypeOK
<1>2. PICK e \in Entry, D \in {{}, Owned(s)}, ent \in {f, ExecOf[f]} :
        InsertEffect(s, f, e, D, ent) /\ InsertKind(s, f, D, ent)
  BY <1>1, InsertHasKind DEF SiteInv, ChainInv, CacheInv
<1>3. MissedBefore'
  BY DEF SlowPathInsert, JumpTo, MissedBefore
<1>4. LayoutMatchesMode'
  BY InsertChain DEF SiteInv
<1>5. /\ \A t \in Sites : t # s =>
           /\ list'[t] = list[t] /\ numEntries'[t] = numEntries[t]
           /\ mode'[t] = mode[t] /\ bloom'[t] = bloom[t]
           /\ \A x \in Owned(t) : entity'[x] = entity[x]
      /\ entity'[e] = ent
      /\ D = {} => \A x \in Owned(s) : entity'[x] = entity[x]
  BY <1>2, InsertFrame DEF SiteInv
<1>6. ASSUME NEW t \in Sites, t # s
      PROVE  (EntriesWellFormed(t) /\ BloomNoFalseNegative(t))'
  <2>1. smcKind'[t] = smcKind[t]
    BY <1>2, <1>6 DEF InsertEffect, SiteInv, ChainInv, CacheInv, TypeOK
  <2> QED BY <1>5, <1>6, <2>1, OtherSites
<1>7. PICK new \in Seq(Entry) : NewList(s, e, D, new)
  BY <1>2, InsertLists, Zenon DEF SiteInv
<1>8. /\ list'[s] = new /\ Len(new) \in Nat /\ Len(new) >= 1 /\ new[1] = e
      /\ DOMAIN new = 1 .. Len(new)
      /\ D = {} => Len(new) = Len(list[s]) + 1 /\ \A i \in 1 .. Len(list[s]) : new[i + 1] = list[s][i]
      /\ D # {} => Len(new) = 1
      /\ list[s] \in Seq(Entry) /\ Len(list[s]) \in Nat /\ DOMAIN list[s] = 1 .. Len(list[s])
  BY <1>7 DEF NewList, SiteInv, ChainInv, CacheInv, TypeOK
<1>9. ExecOf[f] \in Code /\ ExecOf[f] \notin Fn /\ Target(e)' = ExecOf[f]
  <2>1. ExecOf[f] \in Code /\ ExecOf[f] \notin Fn
    BY ConstAssumption
  <2> QED BY <1>2, <1>5, <2>1 DEF Target, TargetOf
<1>10. EntriesWellFormed(s) /\ BloomNoFalseNegative(s)
  BY DEF SiteInv
\* The entries that stay on the list cache other codes.
<1>11. ASSUME D = {}, NEW x \in Owned(s) PROVE Target(x)' = Target(x) /\ Target(x) # ExecOf[f]
  <2>1. Target(x)' = Target(x)
    BY <1>5, <1>11 DEF Target, TargetOf
  <2>2. CASE mode[s] = "DirectCall"
    <3>1. Owned(s) # {}
      BY <1>11
    <3>2. ~ShouldTransitToCCMode(s, f)
      BY <1>2, <1>11, <2>2, <3>1 DEF InsertKind
    <3>3. BloomMask[Target(x)] \subseteq bloom[s]
      BY <1>10, <1>11, <2>2 DEF BloomNoFalseNegative
    <3> QED BY <1>11, <2>1, <3>2, <3>3 DEF ShouldTransitToCCMode
  <2>3. CASE mode[s] # "DirectCall"
    <3>1. SlowPathOnlyOnMiss /\ pc = SlowPath
      BY MissedAll DEF SlowPathInsert
    <3> QED BY <1>1, <1>11, <2>1, <2>3, <3>1 DEF SlowPathOnlyOnMiss
  <2> QED BY <2>2, <2>3
<1>12. ASSUME NEW i \in 1 .. Len(new), i # 1
       PROVE  D = {} /\ i - 1 \in 1 .. Len(list[s]) /\ new[i] = list[s][i - 1] /\ new[i] \in Owned(s)
  <2>1. i \in Nat /\ i > 1 /\ i <= Len(new)
    <3>1. Len(new) \in Nat
      BY <1>8
    <3> QED BY <1>12, <3>1
  <2>2. D = {}
    <3>1. D # {} => Len(new) = 1
      BY <1>8
    <3> QED BY <2>1, <3>1
  <2>3. Len(new) = Len(list[s]) + 1 /\ \A k \in 1 .. Len(list[s]) : new[k + 1] = list[s][k]
    BY <1>8, <2>2
  <2>4. i - 1 \in 1 .. Len(list[s]) /\ (i - 1) + 1 = i
    <3>1. Len(list[s]) \in Nat /\ Len(new) = Len(list[s]) + 1
      BY <1>8, <2>3
    <3> QED BY <2>1, <3>1
  <2>5. new[i] = list[s][i - 1]
    BY <2>3, <2>4
  <2> QED BY <2>2, <2>4, <2>5 DEF Owned
<1>13. Owned(s)' = {new[i] : i \in 1 .. Len(new)}
  BY <1>8 DEF Owned
<1>14. \A x \in Owned(s)' : x = e \/ (x \in Owned(s) /\ D = {})
  BY <1>8, <1>12, <1>13
<1>15. /\ mode \in [Sites -> Mode] /\ numEntries \in [Sites -> 0 .. MaxEntries]
       /\ bloom \in [Sites -> SUBSET BloomBits]
  BY DEF SiteInv, ChainInv, CacheInv, TypeOK
<1>16. numEntries[s] = Len(list[s])
  BY <1>10 DEF EntriesWellFormed
<1> DEFINE Good == /\ numEntries'[s] = Len(new)
                   /\ \A x \in Owned(s)' : entity'[x] \in (IF mode'[s] = "DirectCall" THEN Fn ELSE Code)
                   /\ mode'[s] = "DirectCall" => \A x \in Owned(s)' : BloomMask[Target(x)'] \subseteq bloom'[s]
<1>17. ASSUME /\ mode[s] = "DirectCall" /\ ent = f /\ D = {}
              /\ bloom' = [bloom EXCEPT ![s] = @ \cup BloomMask[ExecOf[f]]]
              /\ numEntries' = [numEntries EXCEPT ![s] = @ + 1]
              /\ UNCHANGED mode
       PROVE  Good
  <2>1. numEntries'[s] = Len(new)
    BY <1>8, <1>15, <1>16, <1>17
  <2>2. mode'[s] = "DirectCall" /\ bloom'[s] = bloom[s] \cup BloomMask[ExecOf[f]]
    BY <1>15, <1>17
  <2>3. \A x \in Owned(s)' : entity'[x] \in Fn
    BY <1>5, <1>10, <1>14, <1>17 DEF EntriesWellFormed
  <2>4. \A x \in Owned(s)' : BloomMask[Target(x)'] \subseteq bloom'[s]
    <3> SUFFICES ASSUME NEW x \in Owned(s)' PROVE BloomMask[Target(x)'] \subseteq bloom'[s]
      OBVIOUS
    <3>1. CASE x = e
      BY <1>9, <2>2, <3>1
    <3>2. CASE x \in Owned(s)
      BY <1>10, <1>11, <1>17, <2>2, <3>2 DEF BloomNoFalseNegative
    <3> QED BY <1>14, <3>1, <3>2
  <2> QED BY <2>1, <2>2, <2>3, <2>4
<1>18. ASSUME /\ mode[s] = "DirectCall" /\ ent = ExecOf[f] /\ D = Owned(s)
              /\ ShouldTransitToCCMode(s, f)
              /\ mode' = [mode EXCEPT ![s] = IF numEntries[s] > 1
                                             THEN "ClosureCallWithMoreThanOneTargetObserved"
                                             ELSE "ClosureCall"]
              /\ numEntries' = [numEntries EXCEPT ![s] = 1]
       PROVE  Good
  <2>1. D # {}
    BY <1>18 DEF ShouldTransitToCCMode
  <2>2. numEntries'[s] = Len(new)
    BY <1>8, <1>15, <1>18, <2>1
  <2>3. mode'[s] # "DirectCall"
    BY <1>15, <1>18
  <2>4. \A x \in Owned(s)' : entity'[x] \in Code
    BY <1>5, <1>9, <1>14, <1>18, <2>1
  <2> QED BY <2>2, <2>3, <2>4
<1>19. ASSUME /\ mode[s] # "DirectCall" /\ ent = ExecOf[f] /\ D = {}
              /\ numEntries' = [numEntries EXCEPT ![s] = @ + 1]
              /\ UNCHANGED mode
       PROVE  Good
  <2>1. numEntries'[s] = Len(new)
    BY <1>8, <1>15, <1>16, <1>19
  <2>2. mode'[s] # "DirectCall"
    BY <1>19
  <2>3. \A x \in Owned(s)' : entity'[x] \in Code
    BY <1>5, <1>9, <1>10, <1>14, <1>19 DEF EntriesWellFormed
  <2> QED BY <2>1, <2>2, <2>3
<1>20. Good
  <2> HIDE DEF Good
  <2> QED BY <1>2, <1>17, <1>18, <1>19 DEF InsertKind
<1>21. \A i, j \in 1 .. Len(new) : Target(new[i])' = Target(new[j])' => i = j
  <2> SUFFICES ASSUME NEW i \in 1 .. Len(new), NEW j \in 1 .. Len(new),
                      Target(new[i])' = Target(new[j])'
               PROVE  i = j
    BY DEF Target, TargetOf
  <2>1. ASSUME NEW k \in 1 .. Len(new), k # 1 PROVE Target(new[k])' # Target(e)'
    <3>1. D = {} /\ new[k] \in Owned(s)
      BY <1>12, <2>1
    <3>2. Target(new[k])' = Target(new[k]) /\ Target(new[k]) # ExecOf[f]
      BY <1>11, <3>1
    <3> QED BY <1>9, <3>2
  <2>2. CASE i = 1 \/ j = 1
    <3>1. new[1] = e
      BY <1>8
    <3>2. CASE i = 1 /\ j # 1
      <4>1. Target(new[i])' = Target(e)'
        BY <3>1, <3>2 DEF Target, TargetOf
      <4> QED BY <2>1, <3>2, <4>1
    <3>3. CASE j = 1 /\ i # 1
      <4>1. Target(new[j])' = Target(e)'
        BY <3>1, <3>3 DEF Target, TargetOf
      <4> QED BY <2>1, <3>3, <4>1
    <3> QED BY <2>2, <3>2, <3>3
  <2>3. CASE i # 1 /\ j # 1
    <3>1. /\ D = {} /\ i - 1 \in DOMAIN list[s] /\ j - 1 \in DOMAIN list[s]
          /\ new[i] = list[s][i - 1] /\ new[j] = list[s][j - 1]
          /\ new[i] \in Owned(s) /\ new[j] \in Owned(s)
      BY <1>8, <1>12, <2>3
    <3>2. Target(list[s][i - 1]) = Target(list[s][j - 1])
      BY <1>11, <3>1
    <3>3. i - 1 = j - 1
      BY <1>10, <3>1, <3>2 DEF EntriesWellFormed
    <3> QED BY <3>3
  <2> QED BY <2>2, <2>3
<1>22. EntriesWellFormed(s)'
  <2>1. \A i, j \in DOMAIN list'[s] : Target(list[s][i])' = Target(list[s][j])' => i = j
    <3>1. list'[s] = new /\ DOMAIN new = 1 .. Len(new)
      BY <1>8
    <3> QED BY <1>21, <3>1 DEF Target, TargetOf
  <2>2. numEntries'[s] = Len(list'[s])
    BY <1>8, <1>20
  <2> QED BY <1>4, <1>20, <2>1, <2>2 DEF EntriesWellFormed, LayoutMatchesMode
<1>23. BloomNoFalseNegative(s)'
  BY <1>20 DEF BloomNoFalseNegative
<1> QED BY <1>3, <1>6, <1>22, <1>23

\* A call starts before the first stub, and a miss takes it past one more.
LEMMA NextSite == SiteInv /\ [Next]_vars => SiteInv'
<1> SUFFICES ASSUME SiteInv, [Next]_vars PROVE SiteInv'
  OBVIOUS
<1>1. ChainInv'
  BY NextChain DEF SiteInv
<1> DEFINE Frame == <<list, numEntries, mode, bloom, smcKind, entity>>
<1>2. ASSUME UNCHANGED Frame
      PROVE  (\A s \in Sites : EntriesWellFormed(s) /\ BloomNoFalseNegative(s))'
  BY <1>2, OtherSites
<1>3. ASSUME NEW s \in Sites, NEW f \in Fn, StartCall(s, f) PROVE SiteInv'
  <2>1. UNCHANGED Frame /\ pc' = smcDest[s] /\ callee'.site = s
    BY <1>3 DEF StartCall, icVars, codeVars
  <2>2. list[s] \in Seq(Entry) /\ smcDest[s] = IF list[s] = <<>> THEN SlowPath ELSE list[s][1]
    BY DEF SiteInv, ChainInv, CacheInv, TypeOK, ChainMirrorsList
  <2>3. 1 \in 1 .. Len(list[s]) + 1 /\ (1 > Len(list[s]) <=> list[s] = <<>>)
    BY <2>2
  <2>4. pc' = IF 1 > Len(list[s]) THEN SlowPath ELSE list[s][1]
    BY <2>1, <2>2, <2>3
  <2>5. MissedBefore'
    BY <2>1, <2>3, <2>4 DEF MissedBefore, AtPosition
  <2> QED BY <1>1, <1>2, <2>1, <2>5 DEF SiteInv
<1>4. CASE StubMiss
  <2>1. /\ UNCHANGED <<list, numEntries, mode, bloom, smcKind, entity, callee, stubKind>>
        /\ pc \in Entry /\ pc' = stubMiss[pc] /\ ~Hits(pc, callee.fn)
    BY <1>4 DEF StubMiss, icVars, codeVars
  <2>2. PICK s \in Sites : s = callee.site
    BY <2>1, ConstAssumption DEF SiteInv, ChainInv, CacheInv, TypeOK
  <2>3. list[s] \in Seq(Entry) /\ DOMAIN list[s] = 1 .. Len(list[s]) /\ Len(list[s]) \in Nat
    BY DEF SiteInv, ChainInv, CacheInv, TypeOK
  <2>4. PICK j \in 1 .. Len(list[s]) + 1 :
          /\ AtPosition(j)
          /\ \A i \in 1 .. j - 1 : ~Hits(list[s][i], callee.fn)
    BY <2>1, <2>2, ConstAssumption DEF SiteInv, MissedBefore
  <2>5. j \in 1 .. Len(list[s]) /\ pc = list[s][j]
    BY <2>1, <2>2, <2>3, <2>4, ConstAssumption DEF AtPosition
  <2>6. stubMiss[pc] = IF j = Len(list[s]) THEN SlowPath ELSE list[s][j + 1]
    BY <2>3, <2>5 DEF SiteInv, ChainInv, ChainMirrorsList
  <2>7. j + 1 \in 1 .. Len(list[s]) + 1 /\ (j + 1 > Len(list[s]) <=> j = Len(list[s]))
    BY <2>3, <2>5
  <2>8. \A i \in 1 .. (j + 1) - 1 : ~Hits(list[s][i], callee.fn)
    BY <2>1, <2>4, <2>5
  <2>9. \A i : Hits(list[s][i], callee.fn)' <=> Hits(list[s][i], callee.fn)
    BY <2>1 DEF Hits
  <2>10. pc' = IF j + 1 > Len(list[s]) THEN SlowPath ELSE list[s][j + 1]
    BY <2>1, <2>6, <2>7
  <2>11. MissedBefore'
    <3>1. AtPosition(j + 1)'
      BY <2>1, <2>2, <2>10 DEF AtPosition
    <3>2. \A i \in 1 .. (j + 1) - 1 : ~Hits(list[callee.site][i], callee.fn)'
      BY <2>1, <2>2, <2>8, <2>9
    <3> QED BY <2>1, <2>2, <2>7, <3>1, <3>2 DEF MissedBefore
  <2> QED BY <1>1, <1>2, <2>1, <2>11 DEF SiteInv
<1>5. CASE StubHit \/ SlowPathNoInsert
  <2>1. UNCHANGED Frame /\ pc' = NoCall
    BY <1>5 DEF StubHit, SlowPathNoInsert, JumpTo, icVars, codeVars
  <2> QED BY <1>1, <1>2, <2>1 DEF SiteInv, MissedBefore
<1>6. CASE SlowPathInsert
  BY <1>1, <1>6, InsertSite DEF SiteInv
<1>7. ASSUME NEW c \in Bytecode, TierUp(c) PROVE SiteInv'
  <2>1. UNCHANGED Frame /\ pc' = NoCall
    BY <1>7 DEF TierUp, icVars
  <2> QED BY <1>1, <1>2, <2>1 DEF SiteInv, MissedBefore
<1>8. CASE UNCHANGED vars
  <2>1. UNCHANGED Frame /\ UNCHANGED <<pc, callee, stubKind>>
    BY <1>8 DEF vars, icVars, codeVars
  <2>2. MissedBefore'
    BY <2>1 DEF SiteInv, MissedBefore, AtPosition, Hits
  <2> QED BY <1>1, <1>2, <2>1, <2>2 DEF SiteInv
<1> QED BY <1>3, <1>4, <1>5, <1>6, <1>7, <1>8 DEF Next, CallStep

\* The sites are empty at first.
LEMMA InitSite == Init => SiteInv
<1> SUFFICES ASSUME Init PROVE SiteInv
  OBVIOUS
<1>1. ChainInv
  BY InitChain
<1>2. \A s \in Sites : list[s] = <<>> /\ Owned(s) = {} /\ numEntries[s] = 0
  BY DEF Init, Owned
<1>3. \A s \in Sites : EntriesWellFormed(s) /\ BloomNoFalseNegative(s)
  BY <1>1, <1>2 DEF EntriesWellFormed, BloomNoFalseNegative, ChainInv, LayoutMatchesMode
<1>4. MissedBefore
  BY DEF Init, MissedBefore
<1> QED BY <1>1, <1>3, <1>4 DEF SiteInv

\* The inductive form: every call in progress has missed the stubs before it.
THEOREM SiteInvariant == Spec => []SiteInv
  BY InitSite, NextSite, PTL DEF Spec

\* The assertions of the slow path never fail: the cached codes of a site are
\* distinct and counted, the bloom filter hides none of them, and only a call
\* that every stub of the site rejects reaches the slow path.
THEOREM SitesConsistent == Spec => []SiteConsistent
<1>1. SiteInv => SiteConsistent
  BY MissedAll DEF SiteInv, SiteConsistent
<1> QED BY <1>1, SiteInvariant, PTL

\* What a call does to the history: the callee is recorded at its site.
LEMMA SeenAfter ==
    ASSUME TypeOK, NEW s \in Sites, NEW f \in Fn, NEW a, JumpTo(s, f, a)
    PROVE  /\ seen'[s] = seen[s] \cup {f}
           /\ \A t \in Sites : t # s => seen'[t] = seen[t]
  BY DEF JumpTo, TypeOK

\* The profile of one site.
SoundAt(s) ==
    /\ numEntries[s] = 0 => seen[s] = {}
    /\ numEntries[s] = 1 /\ mode[s] # "ClosureCallWithMoreThanOneTargetObserved" =>
         \A f \in seen[s] : entity[list[s][1]] = IF mode[s] = "DirectCall" THEN f ELSE ExecOf[f]

\* The profile is made of the profiles of the sites.
LEMMA ProfileOfSites == ProfileSound <=> \A s \in Sites : SoundAt(s)
  BY DEF ProfileSound, SoundAt, ObservedNoTarget, ObservedExactlyOneTarget

\* A site whose entries and calls stay as they were.
LEMMA SoundUnchanged ==
    ASSUME SiteInv, NEW t \in Sites, SoundAt(t), list'[t] = list[t], numEntries'[t] = numEntries[t],
           mode'[t] = mode[t], seen'[t] = seen[t], \A x \in Owned(t) : entity'[x] = entity[x]
    PROVE  SoundAt(t)'
<1>1. list[t] \in Seq(Entry) /\ numEntries[t] = Len(list[t])
  BY DEF SiteInv, ChainInv, CacheInv, TypeOK, EntriesWellFormed
<1>2. numEntries[t] = 1 => list[t][1] \in Owned(t)
  BY <1>1 DEF Owned
<1> QED BY <1>2 DEF SoundAt

\* The site through which a stub makes the call.
LEMMA HitSound ==
    ASSUME SiteInv, \A s \in Sites : SoundAt(s), StubHit
    PROVE  \A s \in Sites : SoundAt(s)'
<1>1. PICK s \in Sites, f \in Fn : s = callee.site /\ f = callee.fn
  BY ConstAssumption DEF StubHit, SiteInv, ChainInv, CacheInv, TypeOK
<1>2. /\ UNCHANGED <<list, numEntries, mode, entity, stubKind>> /\ pc \in Entry /\ Hits(pc, f)
      /\ JumpTo(s, f, Decode(pc, stubPtr[pc]))
  BY <1>1 DEF StubHit, icVars, codeVars
<1>3. seen'[s] = seen[s] \cup {f} /\ \A t \in Sites : t # s => seen'[t] = seen[t]
  BY <1>2, SeenAfter DEF SiteInv, ChainInv, CacheInv
<1>4. \A t \in Sites : t # s => SoundAt(t)'
  BY <1>2, <1>3, SoundUnchanged
<1>5. /\ list[s] \in Seq(Entry) /\ DOMAIN list[s] = 1 .. Len(list[s]) /\ Len(list[s]) \in Nat
      /\ numEntries[s] = Len(list[s])
      /\ smcKind[s] = IF mode[s] = "DirectCall" THEN "DirectCall" ELSE "ClosureCall"
  BY DEF SiteInv, ChainInv, CacheInv, TypeOK, EntriesWellFormed
<1>6. PICK i \in 1 .. Len(list[s]) : pc = list[s][i]
  BY <1>1, <1>2 DEF SiteInv, ChainInv, RunningStubOwned, Owned
<1>7. numEntries[s] # 0 /\ (numEntries[s] = 1 => pc = list[s][1])
  BY <1>5, <1>6
<1>8. stubKind[pc] = smcKind[s]
  BY <1>5, <1>6 DEF SiteInv, ChainInv, ChainMirrorsList
<1>9. entity[pc] = IF mode[s] = "DirectCall" THEN f ELSE ExecOf[f]
  BY <1>2, <1>5, <1>8 DEF Hits
<1>10. SoundAt(s)'
  BY <1>2, <1>3, <1>7, <1>9 DEF SoundAt
<1> QED BY <1>4, <1>10

\* The site into which a target is inserted.
LEMMA InsertSound ==
    ASSUME SiteInv, \A s \in Sites : SoundAt(s), SlowPathInsert
    PROVE  \A s \in Sites : SoundAt(s)'
<1>1. PICK s \in Sites, f \in Fn : s = callee.site /\ f = callee.fn
  BY ConstAssumption DEF SlowPathInsert, SiteInv, ChainInv, CacheInv, TypeOK
<1>2. PICK e \in Entry, D \in {{}, Owned(s)}, ent \in {f, ExecOf[f]} :
        InsertEffect(s, f, e, D, ent) /\ InsertKind(s, f, D, ent)
  BY <1>1, InsertHasKind DEF SiteInv, ChainInv, CacheInv
<1>3. seen'[s] = seen[s] \cup {f} /\ \A t \in Sites : t # s => seen'[t] = seen[t]
  BY <1>1, SeenAfter DEF SlowPathInsert, SiteInv, ChainInv, CacheInv
<1>4. /\ \A t \in Sites : t # s =>
           /\ list'[t] = list[t] /\ numEntries'[t] = numEntries[t]
           /\ mode'[t] = mode[t] /\ bloom'[t] = bloom[t]
           /\ \A x \in Owned(t) : entity'[x] = entity[x]
      /\ entity'[e] = ent
  <2>1. ChainInv
    BY DEF SiteInv
  <2>2. InsertEffect(s, f, e, D, ent)
    BY <1>2
  <2> QED BY <2>1, <2>2, InsertFrame
<1>5. \A t \in Sites : t # s => SoundAt(t)'
  BY <1>3, <1>4, SoundUnchanged
<1>6. list'[s][1] = e
  <2>1. PICK new \in Seq(Entry) : NewList(s, e, D, new)
    BY <1>2, InsertLists, Zenon DEF SiteInv
  <2> QED BY <2>1 DEF NewList, SiteInv, ChainInv, CacheInv, TypeOK
<1>7. /\ numEntries \in [Sites -> 0 .. MaxEntries] /\ mode \in [Sites -> Mode]
      /\ numEntries[s] \in Nat /\ numEntries[s] = Len(list[s])
      /\ list[s] \in Seq(Entry)
  BY DEF SiteInv, ChainInv, CacheInv, TypeOK, EntriesWellFormed
<1>8. numEntries[s] = 0 => seen'[s] = {f}
  BY <1>3 DEF SoundAt
<1>9. CASE /\ mode[s] = "DirectCall" /\ ent = f
           /\ numEntries' = [numEntries EXCEPT ![s] = @ + 1] /\ UNCHANGED mode
  <2>1. numEntries'[s] = numEntries[s] + 1 /\ mode'[s] = "DirectCall"
    BY <1>7, <1>9
  <2>2. numEntries'[s] # 0 /\ (numEntries'[s] = 1 => numEntries[s] = 0)
    BY <1>7, <2>1
  <2> QED BY <1>4, <1>5, <1>6, <1>8, <1>9, <2>1, <2>2 DEF SoundAt
<1>10. CASE /\ mode[s] = "DirectCall" /\ ent = ExecOf[f]
            /\ ShouldTransitToCCMode(s, f)
            /\ mode' = [mode EXCEPT ![s] = IF numEntries[s] > 1
                                           THEN "ClosureCallWithMoreThanOneTargetObserved"
                                           ELSE "ClosureCall"]
            /\ numEntries' = [numEntries EXCEPT ![s] = 1]
  <2>1. numEntries'[s] = 1 /\ mode'[s] # "DirectCall"
    BY <1>7, <1>10
  <2>2. numEntries[s] > 1 => mode'[s] = "ClosureCallWithMoreThanOneTargetObserved"
    BY <1>7, <1>10
  <2>3. PICK x \in Owned(s) : Target(x) = ExecOf[f]
    BY <1>10 DEF ShouldTransitToCCMode
  <2>4. PICK i \in 1 .. Len(list[s]) : x = list[s][i]
    BY <2>3 DEF Owned
  <2>5. ASSUME ~(numEntries[s] > 1) PROVE \A g \in seen[s] : ExecOf[g] = ExecOf[f]
    <3>1. numEntries[s] = 1 /\ x = list[s][1]
      <4>1. PICK n \in Nat : n = numEntries[s] /\ n = Len(list[s])
        BY <1>7
      <4>2. i \in 1 .. n /\ ~(n > 1)
        BY <2>4, <2>5, <4>1
      <4>3. n = 1 /\ i = 1
        BY <4>2
      <4> QED BY <2>4, <4>1, <4>3
    <3>2. \A g \in seen[s] : entity[x] = g
      BY <1>10, <3>1 DEF SoundAt
    <3>3. entity[x] \in Fn
      BY <1>10, <2>3 DEF SiteInv, EntriesWellFormed
    <3> QED BY <2>3, <3>2, <3>3 DEF Target, TargetOf
  <2>6. SoundAt(s)'
    BY <1>3, <1>4, <1>6, <1>10, <2>1, <2>2, <2>5 DEF SoundAt
  <2> QED BY <1>5, <2>6
<1>11. CASE /\ mode[s] # "DirectCall" /\ ent = ExecOf[f]
            /\ numEntries' = [numEntries EXCEPT ![s] = @ + 1] /\ UNCHANGED mode
  <2>1. numEntries'[s] = numEntries[s] + 1 /\ mode'[s] # "DirectCall"
    BY <1>7, <1>11
  <2>2. numEntries'[s] # 0 /\ (numEntries'[s] = 1 => numEntries[s] = 0)
    BY <1>7, <2>1
  <2> QED BY <1>4, <1>5, <1>6, <1>8, <1>11, <2>1, <2>2 DEF SoundAt
<1> QED BY <1>2, <1>9, <1>10, <1>11 DEF InsertKind

\* A site that is full without having room for a second target would go on
\* reporting its only entry, so the cache must have room for two.
LEMMA NextProfile ==
    ASSUME MaxEntries > 1
    PROVE  SiteInv /\ ProfileSound /\ [Next]_vars => ProfileSound'
<1> SUFFICES ASSUME SiteInv, ProfileSound, [Next]_vars PROVE ProfileSound'
  OBVIOUS
<1>1. \A s \in Sites : SoundAt(s)
  BY ProfileOfSites
<1> SUFFICES \A s \in Sites : SoundAt(s)'
  BY DEF ProfileSound, SoundAt, ObservedNoTarget, ObservedExactlyOneTarget
<1>2. ASSUME UNCHANGED <<list, numEntries, mode, entity, seen>>
      PROVE  \A s \in Sites : SoundAt(s)'
  BY <1>1, <1>2, SoundUnchanged
<1>3. ASSUME NEW s \in Sites, NEW f \in Fn, StartCall(s, f) PROVE \A t \in Sites : SoundAt(t)'
  BY <1>2, <1>3 DEF StartCall, icVars
<1>4. CASE StubMiss \/ UNCHANGED vars
  BY <1>2, <1>4 DEF StubMiss, vars, icVars
<1>5. ASSUME NEW c \in Bytecode, TierUp(c) PROVE \A t \in Sites : SoundAt(t)'
  BY <1>2, <1>5 DEF TierUp, icVars
<1>6. CASE StubHit
  BY <1>1, <1>6, HitSound
<1>7. CASE SlowPathInsert
  BY <1>1, <1>7, InsertSound
<1>8. CASE SlowPathNoInsert
  <2>1. PICK s \in Sites, f \in Fn : s = callee.site /\ f = callee.fn
    BY <1>8, ConstAssumption DEF SlowPathNoInsert, SiteInv, ChainInv, CacheInv, TypeOK
  <2>2. /\ UNCHANGED <<list, numEntries, mode, entity>> /\ numEntries[s] >= MaxEntries
        /\ JumpTo(s, f, best[ExecOf[f]])
    BY <1>8, <2>1 DEF SlowPathNoInsert, icVars
  <2>3. \A t \in Sites : t # s => seen'[t] = seen[t]
    BY <2>2, SeenAfter DEF SiteInv, ChainInv, CacheInv
  <2>4. \A t \in Sites : t # s => SoundAt(t)'
    BY <1>1, <2>2, <2>3, SoundUnchanged
  <2>5. numEntries'[s] # 0 /\ numEntries'[s] # 1
    BY <2>2, ConstAssumption DEF SiteInv, ChainInv, CacheInv, TypeOK
  <2> QED BY <2>4, <2>5 DEF SoundAt
<1> QED BY <1>3, <1>4, <1>5, <1>6, <1>7, <1>8 DEF Next, CallStep

\* The optimizing tier can trust a site's profile (x_maxJitCallInlineCacheEntries
\* is 3): a site that reports no target was never called through, and one that
\* reports a single target was called with that target only.
THEOREM ProfilesAreSound ==
    ASSUME MaxEntries > 1
    PROVE  Spec => []ProfileSound
<1>1. Init => ProfileSound
  BY ProfileOfSites DEF Init, SoundAt
<1>2. SiteInv /\ ProfileSound /\ [Next]_vars => ProfileSound'
  BY NextProfile
<1> QED BY <1>1, <1>2, SiteInvariant, PTL DEF Spec

-----------------------------------------------------------------------------
(***************************************************************************)
(* The caches implement plain dispatch on m_bestEntryPoint.                *)
(***************************************************************************)
\* The tier of a code decides its best entry point.
LEMMA BestIsEntryPoint ==
    ASSUME CacheInv, NEW c \in Code
    PROVE  best[c] = Dispatch!EntryPointOf(c)
  BY DEF CacheInv, BestIsCurrentTier, Dispatch!EntryPointOf

\* A stub that accepts a callee caches the callee's code.
LEMMA HitIsRight ==
    ASSUME NEW e \in Entry, NEW f \in Fn, Hits(e, f)
    PROVE  Target(e) = ExecOf[f] /\ ExecOf[f] \in Code
<1>1. ExecOf[f] \in Code /\ ExecOf[f] \notin Fn
  BY ConstAssumption
<1> QED BY <1>1 DEF Hits, Target, TargetOf

\* Every step is a step of CallDispatch or a stutter.
LEMMA StepSimulates ==
    ChainInv /\ [Next]_vars => [Dispatch!Next]_<<compiled, lastCall>>
<1> SUFFICES ASSUME ChainInv, [Next]_vars PROVE [Dispatch!Next]_<<compiled, lastCall>>
  OBVIOUS
<1>1. ASSUME NEW s \in Sites, NEW f \in Fn, StartCall(s, f) PROVE UNCHANGED <<compiled, lastCall>>
  BY <1>1 DEF StartCall
<1>2. CASE StubMiss
  BY <1>2 DEF StubMiss
<1>3. CASE StubHit
  <2>1. pc \in Entry /\ pc \in live
    BY <1>3, ConstAssumption DEF StubHit, ChainInv, RunningStubOwned, OwnedOnce, CacheInv, TypeOK
  <2>2. PICK e \in Entry, f \in Fn : e = pc /\ f = callee.fn
    BY <2>1, ConstAssumption DEF ChainInv, CacheInv, TypeOK
  <2>3. Target(e) = ExecOf[f] /\ ExecOf[f] \in Code
    BY <1>3, <2>2, HitIsRight DEF StubHit
  <2>4. stubPtr[e] = Encode(e, best[ExecOf[f]]) /\ best[ExecOf[f]] \in Addr
    BY <2>1, <2>2, <2>3 DEF ChainInv, CacheInv, StubPtrCurrent, TypeOK
  <2>5. Decode(e, stubPtr[e]) = best[ExecOf[f]]
    BY <2>4, OperandFacts
  <2>6. lastCall' = [fn |-> f, ptr |-> best[ExecOf[f]]] /\ compiled' = compiled
    BY <1>3, <2>2, <2>5 DEF StubHit, JumpTo
  <2>7. Dispatch!Call(f)
    BY <2>3, <2>6, BestIsEntryPoint DEF Dispatch!Call, ChainInv
  <2> QED BY <2>7 DEF Dispatch!Next
<1>4. CASE SlowPathNoInsert \/ SlowPathInsert
  <2>1. PICK f \in Fn : f = callee.fn
    BY <1>4, ConstAssumption DEF SlowPathNoInsert, SlowPathInsert, ChainInv, CacheInv, TypeOK
  <2>2. lastCall' = [fn |-> f, ptr |-> best[ExecOf[f]]] /\ compiled' = compiled
    BY <1>4, <2>1 DEF SlowPathNoInsert, SlowPathInsert, JumpTo
  <2>3. ExecOf[f] \in Code
    BY ConstAssumption
  <2>4. Dispatch!Call(f)
    BY <2>2, <2>3, BestIsEntryPoint DEF Dispatch!Call, ChainInv
  <2> QED BY <2>4 DEF Dispatch!Next
<1>5. ASSUME NEW c \in Bytecode, TierUp(c) PROVE Dispatch!Next
  BY <1>5 DEF TierUp, Dispatch!TierUp, Dispatch!Next
<1>6. CASE UNCHANGED vars
  BY <1>6 DEF vars
<1> QED BY <1>1, <1>2, <1>3, <1>4, <1>5, <1>6 DEF Next, CallStep

\* Whatever the caches hold and whenever functions tier up, every call enters
\* the current best entry point of its callee: JitCallIc implements
\* CallDispatch.
THEOREM ImplementsDispatch == Spec => DispatchSpec
<1>1. Init => Dispatch!Init
  BY DEF Init, Dispatch!Init
<1> QED BY <1>1, ChainInvariant, StepSimulates, PTL DEF Spec, DispatchSpec, Dispatch!Spec
=============================================================================
