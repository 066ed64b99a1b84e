----------------------- MODULE SomBlockCompilerProofs -----------------------
(***************************************************************************)
(* Proofs about SomBlockCompiler, for methods of any depth of nesting and  *)
(* any number of locals.  The invariant is stated of a stack of contexts   *)
(* cs and a sequence of locals vs, so that the half-done states inside an  *)
(* action (a throw noted, the context not yet left) can be reasoned about. *)
(***************************************************************************)
EXTENDS SomBlockCompiler, WellFoundedInduction, TLAPS

CtxType ==
    [inlined : BOOLEAN, hasCapturedLocal : BOOLEAN, containsThrowableBlocks : BOOLEAN,
     blockMayThrow : BOOLEAN, uvs : SUBSET Nat, store : Nat, dest : Nat, last : BOOLEAN,
     selfShared : BOOLEAN, throwsInside : BOOLEAN]
VarType ==
    [ctx : Nat, live : BOOLEAN, used : BOOLEAN, immutable : BOOLEAN,
     captured : BOOLEAN, shared : BOOLEAN, writtenAfterCapture : BOOLEAN]

ShapeOK(cs, vs) ==
    /\ cs \in Seq(CtxType) /\ Len(cs) >= 1 /\ ~cs[1].inlined
    /\ vs \in Seq(VarType)
    /\ \A v \in 1..Len(vs) : vs[v].live => vs[v].ctx \in 1..Len(cs)

\* A function that has an upvalue for v is inside the context that defines v, which
\* knows that v is captured, and so has every function in between.
UpvalsOK(cs, vs) ==
    \A d \in 1..Len(cs) :
        /\ d = 1 \/ cs[d].inlined => cs[d].uvs = {}
        /\ \A v \in cs[d].uvs :
             /\ v \in 1..Len(vs) /\ vs[v].ctx \in 1..(d - 1)
             /\ cs[vs[v].ctx].hasCapturedLocal
             /\ \A e \in (vs[v].ctx + 1)..(d - 1) : cs[e].inlined \/ v \in cs[e].uvs

\* The context of a local that is shared through an upvalue object knows it.
SharedOK(cs, vs) ==
    \A v \in 1..Len(vs) : vs[v].live /\ vs[v].shared => cs[vs[v].ctx].hasCapturedLocal

\* If the 'self' of a function is shared, one of the contexts compiled into it
\* that are not finished, and to which blocks are nested, knows it.
SelfOK(cs) ==
    \A o \in 1..Len(cs) : cs[o].selfShared =>
        \E e \in o..Len(cs) :
            cs[e].containsThrowableBlocks /\ \A k \in (o + 1)..e : cs[k].inlined

\* A throw inside a context has been recorded there, or in a context inside it
\* that will pass it on when it is left.
ChainOK(cs) ==
    \A d \in 1..Len(cs) : cs[d].throwsInside => \E e \in d..Len(cs) : MustMutablyCaptureSelf(cs[e])

StackOK(cs, vs) == ShapeOK(cs, vs) /\ UpvalsOK(cs, vs) /\ SharedOK(cs, vs) /\ SelfOK(cs) /\ ChainOK(cs)

NoOwnLeak == \A l \in retLeaks : ~l.own
BlocksOK == \A b \in blocks : (b.throwsInside => b.selfMutable) /\ b.missingUvs = {}

Inv == StackOK(ctxs, vars) /\ NoOwnLeak /\ BlocksOK

-----------------------------------------------------------------------------
\* The order of the naturals as a well-founded relation.
LEMMA NatOrder == \E R : IsWellFoundedOn(R, Nat) /\ \A x, y \in Nat : <<x, y>> \in R <=> x < y
  <1>1. IsWellFoundedOn(OpToRel(<, Nat), Nat)
    BY NatLessThanWellFounded
  <1>2. \A x, y \in Nat : <<x, y>> \in OpToRel(<, Nat) <=> x < y
    BY DEF OpToRel
  <1>3. QED BY <1>1, <1>2, Zenon

\* Every nonempty set of naturals has a least element.
LEMMA LeastNat ==
    ASSUME NEW T \in SUBSET Nat, T /= {}
    PROVE  \E m \in T : \A k \in T : m <= k
  <1>1. PICK R : IsWellFoundedOn(R, Nat) /\ \A x, y \in Nat : <<x, y>> \in R <=> x < y
    BY NatOrder
  <1>2. T \subseteq Nat
    OBVIOUS
  <1>3. \E x \in T : \A y \in T : ~(<<y, x>> \in R)
    <2>1. IsWellFoundedOn(R, Nat)
      BY <1>1
    <2>2. QED BY <2>1, <1>2, WFMin
  <1>4. PICK m \in T : \A y \in T : ~(<<y, m>> \in R)
    BY <1>3
  <1>5. \A y \in T : ~(y < m)
    BY <1>1, <1>2, <1>4, Zenon
  <1>6. QED BY <1>5

\* Every nonempty set of numbers up to n has a greatest element.
LEMMA Greatest ==
    ASSUME NEW n \in Nat, NEW T \in SUBSET (1..n), T /= {}
    PROVE  \E m \in T : \A k \in T : k <= m
  <1> DEFINE U == {n - k : k \in T}
  <1>1. U \in SUBSET Nat /\ U /= {}
    <2>1. \A k \in T : n - k \in Nat
      OBVIOUS
    <2>2. PICK k \in T : TRUE
      OBVIOUS
    <2>3. n - k \in U
      OBVIOUS
    <2>4. QED BY <2>1, <2>3
  <1>2. PICK u \in U : \A w \in U : u <= w
    BY <1>1, LeastNat
  <1>3. PICK m \in T : u = n - m
    BY <1>2
  <1>4. \A k \in T : n - m <= n - k
    BY <1>2, <1>3
  <1>5. \A k \in T : k <= m
    BY <1>4
  <1>6. QED BY <1>5

\* The function into which a context is compiled exists, and lies at or below it.
LEMMA OwnerFacts ==
    ASSUME ShapeOK(ctxs, vars), NEW d \in Depths
    PROVE  /\ OwningContext(d) \in 1..d
           /\ ~ctxs[OwningContext(d)].inlined
           /\ \A k \in (OwningContext(d) + 1)..d : ctxs[k].inlined
  <1> DEFINE T == {k \in 1..d : ~ctxs[k].inlined}
  <1>1. d \in Nat /\ d >= 1 /\ d <= Len(ctxs)
    BY DEF Depths, ShapeOK
  <1>2. T \in SUBSET (1..d) /\ 1 \in T
    BY <1>1 DEF ShapeOK
  <1>3. PICK m \in T : \A k \in T : k <= m
    BY <1>1, <1>2, Greatest
  <1>4. m \in 1..d /\ ~ctxs[m].inlined /\ \A k \in (m + 1)..d : ctxs[k].inlined
    BY <1>1, <1>3
  <1>5. QED BY <1>4 DEF OwningContext

-----------------------------------------------------------------------------
\* A function on 1..n is a sequence of length n.
LEMMA FunctionIsSeq ==
    ASSUME NEW S, NEW n \in Nat, NEW f \in [1..n -> S]
    PROVE  f \in Seq(S) /\ Len(f) = n
  OBVIOUS

\* Replacing one element of a sequence.
LEMMA SetAt ==
    ASSUME NEW S, NEW q \in Seq(S), NEW d \in 1..Len(q), NEW x \in S
    PROVE  /\ [q EXCEPT ![d] = x] \in Seq(S)
           /\ Len([q EXCEPT ![d] = x]) = Len(q)
           /\ \A k \in 1..Len(q) : [q EXCEPT ![d] = x][k] = IF k = d THEN x ELSE q[k]
  OBVIOUS

\* Dropping the last element of a sequence.
LEMMA FrontFacts ==
    ASSUME NEW S, NEW q \in Seq(S), Len(q) > 1
    PROVE  /\ Front(q) \in Seq(S) /\ Len(Front(q)) = Len(q) - 1
           /\ \A d \in 1..(Len(q) - 1) : Front(q)[d] = q[d]
           /\ Last(q) = q[Len(q)]
  BY DEF Front, Last

\* Appending an element to a sequence.
LEMMA PushFacts ==
    ASSUME NEW S, NEW q \in Seq(S), NEW x \in S
    PROVE  /\ Append(q, x) \in Seq(S) /\ Len(Append(q, x)) = Len(q) + 1
           /\ \A d \in 1..Len(q) : Append(q, x)[d] = q[d]
           /\ Append(q, x)[Len(q) + 1] = x
  OBVIOUS

-----------------------------------------------------------------------------
\* A step that leaves the scopes of the locals alone: it may end the life of one,
\* or the sharing of one.
SameLocals(vs, ws) ==
    /\ ws \in Seq(VarType) /\ Len(ws) = Len(vs)
    /\ \A v \in 1..Len(vs) :
         /\ ws[v].ctx = vs[v].ctx
         /\ ws[v].live => vs[v].live
         /\ ws[v].shared => vs[v].shared

\* Such a step keeps the invariant of the stack.
LEMMA SameLocalsOK ==
    ASSUME NEW cs, NEW vs, NEW ws, StackOK(cs, vs), SameLocals(vs, ws)
    PROVE  StackOK(cs, ws)
  <1>1. ShapeOK(cs, ws)
    BY DEF StackOK, ShapeOK, SameLocals
  <1>2. UpvalsOK(cs, ws)
    BY DEF StackOK, UpvalsOK, SameLocals
  <1>3. SharedOK(cs, ws)
    BY DEF StackOK, SharedOK, SameLocals
  <1>4. QED BY <1>1, <1>2, <1>3 DEF StackOK

\* A step that changes only what the compiler is doing in a context.
SameContexts(cs, ds) ==
    /\ ds \in Seq(CtxType) /\ Len(ds) = Len(cs)
    /\ \A d \in 1..Len(cs) :
         /\ ds[d].inlined = cs[d].inlined /\ ds[d].uvs = cs[d].uvs
         /\ ds[d].hasCapturedLocal = cs[d].hasCapturedLocal
         /\ ds[d].containsThrowableBlocks = cs[d].containsThrowableBlocks
         /\ ds[d].blockMayThrow = cs[d].blockMayThrow
         /\ ds[d].selfShared = cs[d].selfShared
         /\ ds[d].throwsInside = cs[d].throwsInside

\* Such a step keeps the invariant of the stack.
LEMMA SameContextsOK ==
    ASSUME NEW cs, NEW ds, NEW vs, StackOK(cs, vs), SameContexts(cs, ds)
    PROVE  StackOK(ds, vs)
  <1>1. ShapeOK(ds, vs)
    BY DEF StackOK, ShapeOK, SameContexts
  <1> DEFINE n == Len(cs)
  <1>2. n \in Nat /\ Len(ds) = n
    BY DEF StackOK, ShapeOK, SameContexts
  <1>3. UpvalsOK(ds, vs)
    <2>1. SUFFICES ASSUME NEW d \in 1..n
                   PROVE  /\ d = 1 \/ cs[d].inlined => cs[d].uvs = {}
                          /\ \A v \in cs[d].uvs :
                               /\ v \in 1..Len(vs) /\ vs[v].ctx \in 1..(d - 1)
                               /\ ds[vs[v].ctx].hasCapturedLocal
                               /\ \A e \in (vs[v].ctx + 1)..(d - 1) : ds[e].inlined \/ v \in ds[e].uvs
      BY <1>2 DEF UpvalsOK, SameContexts
    <2>2. ASSUME NEW v \in cs[d].uvs
          PROVE  /\ v \in 1..Len(vs) /\ vs[v].ctx \in 1..(d - 1)
                 /\ ds[vs[v].ctx].hasCapturedLocal
                 /\ \A e \in (vs[v].ctx + 1)..(d - 1) : ds[e].inlined \/ v \in ds[e].uvs
      <3>1. /\ v \in 1..Len(vs) /\ vs[v].ctx \in 1..(d - 1)
            /\ cs[vs[v].ctx].hasCapturedLocal
            /\ \A e \in (vs[v].ctx + 1)..(d - 1) : cs[e].inlined \/ v \in cs[e].uvs
        BY <2>2 DEF StackOK, UpvalsOK
      <3>2. vs[v].ctx \in 1..n /\ \A e \in (vs[v].ctx + 1)..(d - 1) : e \in 1..n
        BY <1>2, <3>1
      <3>3. QED BY <3>1, <3>2 DEF SameContexts
    <2>3. QED BY <2>2 DEF StackOK, UpvalsOK
  <1>4. SharedOK(ds, vs)
    BY DEF StackOK, ShapeOK, SharedOK, SameContexts
  <1>5. SelfOK(ds)
    <2>1. SUFFICES ASSUME NEW o \in 1..n, cs[o].selfShared
                   PROVE  \E e \in o..n : /\ ds[e].containsThrowableBlocks
                                          /\ \A k \in (o + 1)..e : ds[k].inlined
      BY <1>2 DEF SelfOK, SameContexts
    <2>2. PICK e \in o..n : /\ cs[e].containsThrowableBlocks
                            /\ \A k \in (o + 1)..e : cs[k].inlined
      BY <2>1 DEF StackOK, SelfOK
    <2>3. e \in 1..n /\ \A k \in (o + 1)..e : k \in 1..n
      BY <1>2, <2>2
    <2>4. QED BY <2>2, <2>3 DEF SameContexts
  <1>6. ChainOK(ds)
    <2>1. SUFFICES ASSUME NEW d \in 1..n, cs[d].throwsInside
                   PROVE  \E e \in d..n : MustMutablyCaptureSelf(ds[e])
      BY <1>2 DEF ChainOK, SameContexts
    <2>2. PICK e \in d..n : MustMutablyCaptureSelf(cs[e])
      BY <2>1 DEF StackOK, ChainOK
    <2>3. e \in 1..n
      BY <1>2, <2>2
    <2>4. QED BY <2>2, <2>3 DEF SameContexts, MustMutablyCaptureSelf
  <1>7. QED BY <1>1, <1>3, <1>4, <1>5, <1>6 DEF StackOK

\* A function is inside the context d exactly if it is inside the function of d.
LEMMA MaxNotInlined ==
    ASSUME ShapeOK(ctxs, vars), NEW d \in Depths, NEW e \in Depths, ~ctxs[e].inlined
    PROVE  e > OwningContext(d) <=> e > d
  <1>1. /\ OwningContext(d) \in 1..d
        /\ \A k \in (OwningContext(d) + 1)..d : ctxs[k].inlined
    BY OwnerFacts
  <1>2. d \in Nat /\ e \in Nat
    BY DEF Depths, ShapeOK
  <1>3. QED BY <1>1, <1>2

\* What AddUpvalue changes.
AddsUpvalue(cs, v) ==
    /\ cs \in Seq(CtxType) /\ Len(cs) = Len(ctxs)
    /\ \A d \in 1..Len(ctxs) :
         /\ cs[d].inlined = ctxs[d].inlined
         /\ cs[d].hasCapturedLocal <=> (ctxs[d].hasCapturedLocal \/ d = vars[v].ctx)
         /\ cs[d].containsThrowableBlocks = ctxs[d].containsThrowableBlocks
         /\ cs[d].blockMayThrow = ctxs[d].blockMayThrow
         /\ cs[d].selfShared = ctxs[d].selfShared
         /\ cs[d].throwsInside = ctxs[d].throwsInside
    /\ \A d \in 1..Len(ctxs) : ctxs[d].inlined \/ d <= vars[v].ctx => cs[d].uvs = ctxs[d].uvs
    /\ \A d \in 1..Len(ctxs) : ~ctxs[d].inlined /\ d > vars[v].ctx => cs[d].uvs = ctxs[d].uvs \union {v}

\* AddUpvalue makes these changes for a local whose context is on the stack.
LEMMA AddUpvalueFacts ==
    ASSUME StackOK(ctxs, vars), NEW v \in VarIds, vars[v].ctx \in Depths
    PROVE  AddsUpvalue(AddUpvalue(v, ctxs), v)
  <1> DEFINE Elem(d) ==
        [ctxs[d] EXCEPT !.hasCapturedLocal = @ \/ d = vars[v].ctx,
                        !.uvs = IF ~ctxs[d].inlined /\ d > OwningContext(vars[v].ctx)
                                THEN @ \union {v} ELSE @]
             cs == AddUpvalue(v, ctxs)
  <1>1. ctxs \in Seq(CtxType) /\ Len(ctxs) \in Nat /\ DOMAIN ctxs = 1..Len(ctxs) /\ v \in Nat
    BY DEF StackOK, ShapeOK, VarIds
  <1>2. cs = [d \in 1..Len(ctxs) |-> Elem(d)]
    BY <1>1 DEF AddUpvalue
  <1>3. ASSUME NEW d \in 1..Len(ctxs)
        PROVE  /\ Elem(d) \in CtxType
               /\ Elem(d).inlined = ctxs[d].inlined
               /\ Elem(d).hasCapturedLocal <=> (ctxs[d].hasCapturedLocal \/ d = vars[v].ctx)
               /\ Elem(d).containsThrowableBlocks = ctxs[d].containsThrowableBlocks
               /\ Elem(d).blockMayThrow = ctxs[d].blockMayThrow
               /\ Elem(d).selfShared = ctxs[d].selfShared
               /\ Elem(d).throwsInside = ctxs[d].throwsInside
               /\ Elem(d).uvs = IF ~ctxs[d].inlined /\ d > OwningContext(vars[v].ctx)
                                THEN ctxs[d].uvs \union {v} ELSE ctxs[d].uvs
    <2>1. ctxs[d] \in CtxType
      BY <1>1
    <2>2. QED BY <1>1, <2>1 DEF CtxType
  <1> HIDE DEF Elem, cs
  <1>4. \A d \in 1..Len(ctxs) : ~ctxs[d].inlined => (d > OwningContext(vars[v].ctx) <=> d > vars[v].ctx)
    BY MaxNotInlined DEF StackOK, Depths
  <1>5. cs \in [1..Len(ctxs) -> CtxType]
    BY <1>2, <1>3
  <1>6. cs \in Seq(CtxType) /\ Len(cs) = Len(ctxs)
    BY <1>1, <1>5, FunctionIsSeq
  <1>7. \A d \in 1..Len(ctxs) : cs[d] = Elem(d)
    BY <1>2
  <1>8. \A d \in 1..Len(ctxs) : ctxs[d].inlined \/ d <= vars[v].ctx => cs[d].uvs = ctxs[d].uvs
    <2>1. vars[v].ctx \in Nat
      BY DEF Depths, StackOK, ShapeOK
    <2>2. SUFFICES ASSUME NEW d \in 1..Len(ctxs), ctxs[d].inlined \/ d <= vars[v].ctx
                   PROVE  cs[d].uvs = ctxs[d].uvs
      OBVIOUS
    <2>3. ~(~ctxs[d].inlined /\ d > OwningContext(vars[v].ctx))
      BY <1>1, <1>4, <2>1, <2>2
    <2>4. QED BY <1>3, <1>7, <2>3
  <1>9. \A d \in 1..Len(ctxs) : ~ctxs[d].inlined /\ d > vars[v].ctx => cs[d].uvs = ctxs[d].uvs \union {v}
    BY <1>3, <1>4, <1>7
  <1>10. AddsUpvalue(cs, v)
    <2>1. ASSUME NEW d \in 1..Len(ctxs)
          PROVE  /\ cs[d].inlined = ctxs[d].inlined
                 /\ cs[d].hasCapturedLocal <=> (ctxs[d].hasCapturedLocal \/ d = vars[v].ctx)
                 /\ cs[d].containsThrowableBlocks = ctxs[d].containsThrowableBlocks
                 /\ cs[d].blockMayThrow = ctxs[d].blockMayThrow
                 /\ cs[d].selfShared = ctxs[d].selfShared
                 /\ cs[d].throwsInside = ctxs[d].throwsInside
      <3>1. cs[d] = Elem(d)
        BY <1>7
      <3>2. QED BY <1>3, <3>1
    <2>2. QED BY <1>6, <1>8, <1>9, <2>1, Zenon DEF AddsUpvalue
  <1>11. QED BY <1>10 DEF cs

\* AddUpvalue for a live local v.
LEMMA AddUpvalueOK ==
    ASSUME StackOK(ctxs, vars), NEW v \in VarIds, vars[v].live
    PROVE  StackOK(AddUpvalue(v, ctxs), vars)
  <1> DEFINE cs == AddUpvalue(v, ctxs)
             n == Len(ctxs)
  <1>1. vars[v].ctx \in 1..n /\ n \in Nat /\ n >= 1 /\ Depths = 1..n
    BY DEF StackOK, ShapeOK, VarIds, Depths
  <1>2. AddsUpvalue(cs, v)
    BY <1>1, AddUpvalueFacts
  <1> HIDE DEF cs
  <1>3. /\ cs \in Seq(CtxType) /\ Len(cs) = n
        /\ \A d \in 1..n :
             /\ cs[d].inlined = ctxs[d].inlined
             /\ cs[d].hasCapturedLocal <=> (ctxs[d].hasCapturedLocal \/ d = vars[v].ctx)
             /\ cs[d].containsThrowableBlocks = ctxs[d].containsThrowableBlocks
             /\ cs[d].blockMayThrow = ctxs[d].blockMayThrow
             /\ cs[d].selfShared = ctxs[d].selfShared
             /\ cs[d].throwsInside = ctxs[d].throwsInside
    BY <1>2 DEF AddsUpvalue
  <1>4. /\ \A d \in 1..n : ctxs[d].inlined \/ d <= vars[v].ctx => cs[d].uvs = ctxs[d].uvs
        /\ \A d \in 1..n : ~ctxs[d].inlined /\ d > vars[v].ctx => cs[d].uvs = ctxs[d].uvs \union {v}
    BY <1>2 DEF AddsUpvalue
  <1>5. /\ ShapeOK(ctxs, vars) /\ SharedOK(ctxs, vars) /\ SelfOK(ctxs) /\ ChainOK(ctxs)
        /\ \A d \in 1..n :
             /\ d = 1 \/ ctxs[d].inlined => ctxs[d].uvs = {}
             /\ \A w \in ctxs[d].uvs :
                  /\ w \in 1..Len(vars) /\ vars[w].ctx \in 1..(d - 1)
                  /\ ctxs[vars[w].ctx].hasCapturedLocal
                  /\ \A e \in (vars[w].ctx + 1)..(d - 1) : ctxs[e].inlined \/ w \in ctxs[e].uvs
    BY DEF StackOK, UpvalsOK
  <1> HIDE DEF n
  <1>6. ShapeOK(cs, vars)
    BY <1>1, <1>3, <1>5 DEF ShapeOK, n
  <1>7. UpvalsOK(cs, vars)
    <2>1. SUFFICES ASSUME NEW d \in 1..n
                   PROVE  /\ d = 1 \/ cs[d].inlined => cs[d].uvs = {}
                          /\ \A w \in cs[d].uvs :
                               /\ w \in 1..Len(vars) /\ vars[w].ctx \in 1..(d - 1)
                               /\ cs[vars[w].ctx].hasCapturedLocal
                               /\ \A e \in (vars[w].ctx + 1)..(d - 1) : cs[e].inlined \/ w \in cs[e].uvs
      BY <1>3 DEF UpvalsOK
    <2>2. d = 1 \/ cs[d].inlined => cs[d].uvs = {}
      BY <1>1, <1>3, <1>4, <1>5
    <2>3. ASSUME NEW w \in cs[d].uvs
          PROVE  /\ w \in 1..Len(vars) /\ vars[w].ctx \in 1..(d - 1)
                 /\ cs[vars[w].ctx].hasCapturedLocal
                 /\ \A e \in (vars[w].ctx + 1)..(d - 1) : cs[e].inlined \/ w \in cs[e].uvs
      <3>1. CASE w = v /\ d > vars[v].ctx
        <4>1. v \in 1..Len(vars) /\ vars[v].ctx \in 1..(d - 1) /\ cs[vars[v].ctx].hasCapturedLocal
          <5>1. v \in 1..Len(vars) /\ vars[v].ctx \in 1..(d - 1) /\ vars[v].ctx \in 1..n
            BY <1>1, <3>1 DEF VarIds
          <5>2. cs[vars[v].ctx].hasCapturedLocal <=> (ctxs[vars[v].ctx].hasCapturedLocal \/ vars[v].ctx = vars[v].ctx)
            BY <1>3, <5>1
          <5>3. QED BY <5>1, <5>2
        <4>2. \A e \in (vars[v].ctx + 1)..(d - 1) : e \in 1..n /\ e > vars[v].ctx
          BY <1>1, <4>1
        <4>3. QED BY <1>3, <1>4, <3>1, <4>1, <4>2
      <3>2. CASE w \in ctxs[d].uvs
        <4>1. /\ w \in 1..Len(vars) /\ vars[w].ctx \in 1..(d - 1)
              /\ ctxs[vars[w].ctx].hasCapturedLocal
              /\ \A e \in (vars[w].ctx + 1)..(d - 1) : ctxs[e].inlined \/ w \in ctxs[e].uvs
          BY <1>5, <3>2
        <4>2. vars[w].ctx \in 1..n /\ \A e \in (vars[w].ctx + 1)..(d - 1) : e \in 1..n
          BY <1>1, <4>1
        <4>3. \A e \in 1..n : ctxs[e].uvs \subseteq cs[e].uvs
          BY <1>1, <1>4
        <4>4. QED BY <1>3, <4>1, <4>2, <4>3
      <3>3. w \in ctxs[d].uvs \/ (w = v /\ d > vars[v].ctx)
        BY <1>1, <1>4, <2>3
      <3>4. QED BY <3>1, <3>2, <3>3
    <2>4. QED BY <2>2, <2>3
  <1>8. SharedOK(cs, vars)
    BY <1>1, <1>3, <1>5 DEF ShapeOK, SharedOK, n
  <1>9. SelfOK(cs)
    <2>1. SUFFICES ASSUME NEW o \in 1..n, ctxs[o].selfShared
                   PROVE  \E e \in o..n : /\ cs[e].containsThrowableBlocks
                                          /\ \A k \in (o + 1)..e : cs[k].inlined
      BY <1>3 DEF SelfOK
    <2>2. PICK e \in o..n : /\ ctxs[e].containsThrowableBlocks
                            /\ \A k \in (o + 1)..e : ctxs[k].inlined
      BY <1>5, <2>1 DEF SelfOK, n
    <2>3. e \in 1..n /\ \A k \in (o + 1)..e : k \in 1..n
      BY <1>1, <2>2
    <2>4. QED BY <1>3, <2>2, <2>3
  <1>10. ChainOK(cs)
    <2>1. SUFFICES ASSUME NEW d \in 1..n, ctxs[d].throwsInside
                   PROVE  \E e \in d..n : MustMutablyCaptureSelf(cs[e])
      BY <1>3 DEF ChainOK
    <2>2. PICK e \in d..n : MustMutablyCaptureSelf(ctxs[e])
      BY <1>5, <2>1 DEF ChainOK, n
    <2>3. e \in 1..n
      BY <1>1
    <2>4. QED BY <1>3, <2>2, <2>3 DEF MustMutablyCaptureSelf
  <1>11. QED BY <1>6, <1>7, <1>8, <1>9, <1>10 DEF StackOK, cs

\* A new innermost context c with n locals.
LEMMA EnterOK ==
    ASSUME NEW cs, NEW vs, StackOK(cs, vs), NEW c \in CtxType, NEW n \in Nat,
           c.uvs = {}, ~c.selfShared, ~c.throwsInside
    PROVE  StackOK(Append(cs, c), Install(vs, Len(cs) + 1, n))
  <1> DEFINE ds == Append(cs, c)
             new == [i \in 1..n |-> NewVar(Len(cs) + 1)]
             ws == Install(vs, Len(cs) + 1, n)
             m == Len(cs)
  <1>1. cs \in Seq(CtxType) /\ vs \in Seq(VarType) /\ m \in Nat /\ m >= 1 /\ Len(vs) \in Nat
    BY DEF StackOK, ShapeOK
  <1>2. ds \in Seq(CtxType) /\ Len(ds) = m + 1 /\ (\A d \in 1..m : ds[d] = cs[d]) /\ ds[m + 1] = c
    BY <1>1, PushFacts
  <1>3. NewVar(m + 1) \in VarType /\ NewVar(m + 1).ctx = m + 1 /\ ~NewVar(m + 1).shared
    BY <1>1 DEF NewVar, VarType
  <1>4. new \in Seq(VarType) /\ Len(new) = n /\ \A i \in 1..n : new[i] = NewVar(m + 1)
    BY <1>3, FunctionIsSeq
  <1>5. ws = vs \o new
    BY DEF Install
  <1> HIDE DEF ds, new, ws
  <1>6. /\ ws \in Seq(VarType) /\ Len(ws) = Len(vs) + n
        /\ \A v \in 1..Len(vs) : ws[v] = vs[v]
        /\ \A v \in 1..Len(ws) : v \in 1..Len(vs) \/ ws[v] = NewVar(m + 1)
    <2>1. /\ ws \in Seq(VarType) /\ Len(ws) = Len(vs) + n
          /\ \A v \in 1..Len(vs) : ws[v] = vs[v]
          /\ \A v \in 1..n : ws[Len(vs) + v] = new[v]
      <3>1. /\ vs \o new \in Seq(VarType) /\ Len(vs \o new) = Len(vs) + Len(new)
            /\ \A v \in 1..Len(vs) : (vs \o new)[v] = vs[v]
            /\ \A v \in 1..Len(new) : (vs \o new)[Len(vs) + v] = new[v]
        <4>1. vs \in Seq(VarType) /\ new \in Seq(VarType)
          BY <1>1, <1>4
        <4>2. QED BY <4>1
      <3>2. QED BY <1>4, <1>5, <3>1
    <2>2. ASSUME NEW v \in 1..Len(ws), v \notin 1..Len(vs)
          PROVE  ws[v] = NewVar(m + 1)
      <3>1. v - Len(vs) \in 1..n /\ Len(vs) + (v - Len(vs)) = v
        BY <1>1, <2>1, <2>2
      <3>2. QED BY <1>4, <2>1, <3>1
    <2>3. QED BY <2>1, <2>2
  <1>7. ShapeOK(ds, ws)
    <2>1. ~ds[1].inlined
      BY <1>1, <1>2 DEF StackOK, ShapeOK
    <2>2. ASSUME NEW v \in 1..Len(ws), ws[v].live
          PROVE  ws[v].ctx \in 1..(m + 1)
      <3>1. CASE v \in 1..Len(vs)
        <4>1. ws[v] = vs[v] /\ (vs[v].live => vs[v].ctx \in 1..m)
          BY <1>6, <3>1 DEF StackOK, ShapeOK
        <4>2. QED BY <1>1, <2>2, <4>1
      <3>2. CASE ws[v] = NewVar(m + 1)
        BY <1>1, <1>3, <3>2
      <3>3. QED BY <1>6, <3>1, <3>2
    <2>3. QED BY <1>1, <1>2, <1>6, <2>1, <2>2 DEF ShapeOK
  <1>8. UpvalsOK(ds, ws)
    <2>1. SUFFICES ASSUME NEW d \in 1..(m + 1)
                   PROVE  /\ d = 1 \/ ds[d].inlined => ds[d].uvs = {}
                          /\ \A v \in ds[d].uvs :
                               /\ v \in 1..Len(ws) /\ ws[v].ctx \in 1..(d - 1)
                               /\ ds[ws[v].ctx].hasCapturedLocal
                               /\ \A e \in (ws[v].ctx + 1)..(d - 1) : ds[e].inlined \/ v \in ds[e].uvs
      BY <1>2 DEF UpvalsOK
    <2>2. CASE d = m + 1
      BY <1>2, <2>2
    <2>3. CASE d \in 1..m
      <3>1. d = 1 \/ cs[d].inlined => cs[d].uvs = {}
        BY <2>3 DEF StackOK, UpvalsOK
      <3>2. ASSUME NEW v \in cs[d].uvs
            PROVE  /\ v \in 1..Len(ws) /\ ws[v].ctx \in 1..(d - 1)
                   /\ ds[ws[v].ctx].hasCapturedLocal
                   /\ \A e \in (ws[v].ctx + 1)..(d - 1) : ds[e].inlined \/ v \in ds[e].uvs
        <4>1. /\ v \in 1..Len(vs) /\ vs[v].ctx \in 1..(d - 1)
              /\ cs[vs[v].ctx].hasCapturedLocal
              /\ \A e \in (vs[v].ctx + 1)..(d - 1) : cs[e].inlined \/ v \in cs[e].uvs
          BY <2>3, <3>2 DEF StackOK, UpvalsOK
        <4>2. vs[v].ctx \in 1..m /\ \A e \in (vs[v].ctx + 1)..(d - 1) : e \in 1..m
          BY <1>1, <2>3, <4>1
        <4>3. ws[v] = vs[v] /\ v \in 1..Len(ws)
          BY <1>1, <1>6, <4>1
        <4>4. QED BY <1>2, <4>1, <4>2, <4>3
      <3>3. QED BY <1>2, <2>3, <3>1, <3>2
    <2>4. QED BY <1>1, <2>2, <2>3
  <1>9. SharedOK(ds, ws)
    <2>1. SUFFICES ASSUME NEW v \in 1..Len(ws), ws[v].live, ws[v].shared
                   PROVE  ds[ws[v].ctx].hasCapturedLocal
      BY DEF SharedOK
    <2>2. v \in 1..Len(vs) /\ ws[v] = vs[v]
      BY <1>3, <1>6, <2>1
    <2>3. vs[v].ctx \in 1..m /\ cs[vs[v].ctx].hasCapturedLocal
      BY <2>1, <2>2 DEF StackOK, ShapeOK, SharedOK
    <2>4. QED BY <1>2, <2>2, <2>3
  <1>10. SelfOK(ds)
    <2>1. SUFFICES ASSUME NEW o \in 1..m, cs[o].selfShared
                   PROVE  \E e \in o..(m + 1) : /\ ds[e].containsThrowableBlocks
                                                /\ \A k \in (o + 1)..e : ds[k].inlined
      BY <1>1, <1>2 DEF SelfOK
    <2>2. PICK e \in o..m : /\ cs[e].containsThrowableBlocks
                            /\ \A k \in (o + 1)..e : cs[k].inlined
      BY <2>1 DEF StackOK, SelfOK
    <2>3. e \in 1..m /\ e \in o..(m + 1) /\ \A k \in (o + 1)..e : k \in 1..m
      BY <1>1, <2>2
    <2>4. QED BY <1>2, <2>2, <2>3
  <1>11. ChainOK(ds)
    <2>1. SUFFICES ASSUME NEW d \in 1..m, cs[d].throwsInside
                   PROVE  \E e \in d..(m + 1) : MustMutablyCaptureSelf(ds[e])
      BY <1>1, <1>2 DEF ChainOK
    <2>2. PICK e \in d..m : MustMutablyCaptureSelf(cs[e])
      BY <2>1 DEF StackOK, ChainOK
    <2>3. e \in 1..m /\ e \in d..(m + 1)
      BY <1>1
    <2>4. QED BY <1>2, <2>2, <2>3
  <1>12. QED BY <1>7, <1>8, <1>9, <1>10, <1>11 DEF StackOK, ds, ws

-----------------------------------------------------------------------------
\* A throw in the innermost context: every context around it now has a throw
\* inside, and the innermost one has recorded it.
LEMMA ThrowingFacts ==
    ASSUME NEW cs, NEW vs, StackOK(cs, vs)
    PROVE  /\ StackOK(Throwing(cs), vs)
           /\ Len(Throwing(cs)) = Len(cs)
           /\ \A d \in 1..Len(cs) :
                /\ Throwing(cs)[d].inlined = cs[d].inlined
                /\ Throwing(cs)[d].uvs = cs[d].uvs
                /\ Throwing(cs)[d].dest = cs[d].dest
  <1> DEFINE Elem(d) == [cs[d] EXCEPT !.blockMayThrow = @ \/ d = Len(cs), !.throwsInside = TRUE]
             ds == Throwing(cs)
             n == Len(cs)
  <1>1. cs \in Seq(CtxType) /\ n \in Nat /\ n >= 1 /\ DOMAIN cs = 1..n
    BY DEF StackOK, ShapeOK
  <1>2. ds = [d \in 1..n |-> Elem(d)]
    BY <1>1 DEF Throwing
  <1>3. ASSUME NEW d \in 1..n
        PROVE  /\ Elem(d) \in CtxType
               /\ Elem(d).inlined = cs[d].inlined
               /\ Elem(d).hasCapturedLocal = cs[d].hasCapturedLocal
               /\ Elem(d).containsThrowableBlocks = cs[d].containsThrowableBlocks
               /\ d = n => Elem(d).blockMayThrow
               /\ Elem(d).selfShared = cs[d].selfShared
               /\ Elem(d).uvs = cs[d].uvs
               /\ Elem(d).dest = cs[d].dest
    <2>1. cs[d] \in CtxType
      BY <1>1
    <2>2. QED BY <2>1 DEF CtxType
  <1> HIDE DEF Elem, ds
  <1>4. ds \in [1..n -> CtxType]
    BY <1>2, <1>3
  <1>5. ds \in Seq(CtxType) /\ Len(ds) = n
    BY <1>1, <1>4, FunctionIsSeq
  <1>6. ASSUME NEW d \in 1..n
        PROVE  /\ ds[d].inlined = cs[d].inlined
               /\ ds[d].hasCapturedLocal = cs[d].hasCapturedLocal
               /\ ds[d].containsThrowableBlocks = cs[d].containsThrowableBlocks
               /\ ds[d].selfShared = cs[d].selfShared
               /\ ds[d].uvs = cs[d].uvs
               /\ ds[d].dest = cs[d].dest
    <2>1. ds[d] = Elem(d)
      BY <1>2
    <2>2. QED BY <1>3, <2>1
  <1>7. ds[n].blockMayThrow
    <2>1. n \in 1..n /\ ds[n] = Elem(n)
      BY <1>1, <1>2
    <2>2. QED BY <1>3, <2>1
  <1> HIDE DEF n
  <1>8. ShapeOK(ds, vs)
    BY <1>1, <1>5, <1>6 DEF StackOK, ShapeOK, n
  <1>9. UpvalsOK(ds, vs)
    <2>1. SUFFICES ASSUME NEW d \in 1..n
                   PROVE  /\ d = 1 \/ cs[d].inlined => cs[d].uvs = {}
                          /\ \A v \in cs[d].uvs :
                               /\ v \in 1..Len(vs) /\ vs[v].ctx \in 1..(d - 1)
                               /\ ds[vs[v].ctx].hasCapturedLocal
                               /\ \A e \in (vs[v].ctx + 1)..(d - 1) : ds[e].inlined \/ v \in ds[e].uvs
      BY <1>5, <1>6 DEF UpvalsOK
    <2>2. ASSUME NEW v \in cs[d].uvs
          PROVE  /\ v \in 1..Len(vs) /\ vs[v].ctx \in 1..(d - 1)
                 /\ ds[vs[v].ctx].hasCapturedLocal
                 /\ \A e \in (vs[v].ctx + 1)..(d - 1) : ds[e].inlined \/ v \in ds[e].uvs
      <3>1. /\ v \in 1..Len(vs) /\ vs[v].ctx \in 1..(d - 1)
            /\ cs[vs[v].ctx].hasCapturedLocal
            /\ \A e \in (vs[v].ctx + 1)..(d - 1) : cs[e].inlined \/ v \in cs[e].uvs
        BY <2>2 DEF StackOK, UpvalsOK, n
      <3>2. vs[v].ctx \in 1..n /\ \A e \in (vs[v].ctx + 1)..(d - 1) : e \in 1..n
        BY <1>1, <3>1
      <3>3. QED BY <1>6, <3>1, <3>2
    <2>3. QED BY <2>2 DEF StackOK, UpvalsOK, n
  <1>10. SharedOK(ds, vs)
    BY <1>6 DEF StackOK, ShapeOK, SharedOK, n
  <1>11. SelfOK(ds)
    <2>1. SUFFICES ASSUME NEW o \in 1..n, cs[o].selfShared
                   PROVE  \E e \in o..n : /\ ds[e].containsThrowableBlocks
                                          /\ \A k \in (o + 1)..e : ds[k].inlined
      BY <1>5, <1>6 DEF SelfOK
    <2>2. PICK e \in o..n : /\ cs[e].containsThrowableBlocks
                            /\ \A k \in (o + 1)..e : cs[k].inlined
      BY <2>1 DEF StackOK, SelfOK, n
    <2>3. e \in 1..n /\ \A k \in (o + 1)..e : k \in 1..n
      BY <1>1, <2>2
    <2>4. QED BY <1>6, <2>2, <2>3
  <1>12. ChainOK(ds)
    <2>1. \A d \in 1..n : n \in d..n
      BY <1>1
    <2>2. QED BY <1>5, <1>7, <2>1 DEF ChainOK, MustMutablyCaptureSelf
  <1>13. QED BY <1>5, <1>6, <1>8, <1>9, <1>10, <1>11, <1>12 DEF StackOK, ds, n

-----------------------------------------------------------------------------
\* The stack p after its innermost context has been left; the context around it
\* has taken over what it may throw.
Popped(cs, p) ==
    /\ p \in Seq(CtxType) /\ Len(p) = Len(cs) - 1
    /\ \A d \in 1..(Len(cs) - 1) :
         /\ p[d].inlined = cs[d].inlined
         /\ p[d].hasCapturedLocal = cs[d].hasCapturedLocal
         /\ p[d].blockMayThrow = cs[d].blockMayThrow
         /\ p[d].selfShared = cs[d].selfShared
         /\ p[d].throwsInside = cs[d].throwsInside
         /\ p[d].uvs = cs[d].uvs
         /\ cs[d].containsThrowableBlocks => p[d].containsThrowableBlocks
    /\ MustMutablyCaptureSelf(cs[Len(cs)]) => p[Len(cs) - 1].containsThrowableBlocks

\* Propagate after dropping the innermost context is such a step.
LEMMA PropagatePops ==
    ASSUME NEW cs \in Seq(CtxType), Len(cs) > 1
    PROVE  Popped(cs, Propagate(Last(cs), Len(cs) - 1, Front(cs)))
  <1> DEFINE n == Len(cs)
             c == cs[n]
             f == Front(cs)
             x == [f[n - 1] EXCEPT !.containsThrowableBlocks = @ \/ c.blockMayThrow \/ c.containsThrowableBlocks]
             p == Propagate(Last(cs), n - 1, Front(cs))
  <1>1. n \in Nat /\ n > 1 /\ n - 1 \in 1..(n - 1) /\ n \in 1..n
    OBVIOUS
  <1>2. /\ f \in Seq(CtxType) /\ Len(f) = n - 1
        /\ \A d \in 1..(n - 1) : f[d] = cs[d]
        /\ Last(cs) = c
    BY FrontFacts
  <1>3. p = [f EXCEPT ![n - 1] = x]
    BY <1>2 DEF Propagate
  <1>4. c \in CtxType /\ f[n - 1] \in CtxType /\ f[n - 1] = cs[n - 1]
    BY <1>1, <1>2
  <1>5. /\ x \in CtxType
        /\ x.inlined = f[n - 1].inlined
        /\ x.hasCapturedLocal = f[n - 1].hasCapturedLocal
        /\ x.blockMayThrow = f[n - 1].blockMayThrow
        /\ x.selfShared = f[n - 1].selfShared
        /\ x.throwsInside = f[n - 1].throwsInside
        /\ x.uvs = f[n - 1].uvs
        /\ f[n - 1].containsThrowableBlocks => x.containsThrowableBlocks
        /\ MustMutablyCaptureSelf(c) => x.containsThrowableBlocks
    BY <1>4 DEF CtxType, MustMutablyCaptureSelf
  <1> HIDE DEF n, c, f, x, p
  <1>6. /\ p \in Seq(CtxType) /\ Len(p) = n - 1
        /\ \A d \in 1..(n - 1) : p[d] = IF d = n - 1 THEN x ELSE f[d]
    BY <1>1, <1>2, <1>3, <1>5, SetAt
  <1>7. ASSUME NEW d \in 1..(n - 1)
        PROVE  /\ p[d].inlined = cs[d].inlined
               /\ p[d].hasCapturedLocal = cs[d].hasCapturedLocal
               /\ p[d].blockMayThrow = cs[d].blockMayThrow
               /\ p[d].selfShared = cs[d].selfShared
               /\ p[d].throwsInside = cs[d].throwsInside
               /\ p[d].uvs = cs[d].uvs
               /\ cs[d].containsThrowableBlocks => p[d].containsThrowableBlocks
    <2>1. CASE d = n - 1
      <3>1. p[d] = x /\ f[n - 1] = cs[d]
        BY <1>2, <1>6, <2>1
      <3>2. QED BY <1>5, <3>1
    <2>2. CASE d /= n - 1
      <3>1. p[d] = cs[d]
        BY <1>2, <1>6, <2>2
      <3>2. QED BY <3>1
    <2>3. QED BY <2>1, <2>2
  <1>8. MustMutablyCaptureSelf(cs[n]) => p[n - 1].containsThrowableBlocks
    BY <1>1, <1>5, <1>6 DEF c
  <1>9. Popped(cs, p)
    BY <1>6, <1>7, <1>8 DEF Popped, n
  <1>10. QED BY <1>9 DEF p, n

\* The locals after the innermost of n contexts has been left: those of it that
\* were visible are not, and what is newly shared is known to be captured.
Left(n, cs, vs, ws) ==
    /\ ws \in Seq(VarType) /\ Len(ws) = Len(vs)
    /\ \A v \in 1..Len(vs) :
         /\ ws[v].ctx = vs[v].ctx
         /\ ws[v].live => vs[v].live /\ vs[v].ctx /= n
         /\ ws[v].shared => vs[v].shared \/ cs[vs[v].ctx].hasCapturedLocal

\* Leaving the innermost context keeps the invariant of the stack.
LEMMA PoppedOK ==
    ASSUME NEW cs, NEW vs, StackOK(cs, vs), Len(cs) > 1,
           NEW p, Popped(cs, p), NEW ws, Left(Len(cs), cs, vs, ws)
    PROVE  StackOK(p, ws)
  <1> DEFINE n == Len(cs)
             m == n - 1
  <1>1. n \in Nat /\ m \in Nat /\ m >= 1 /\ n = m + 1 /\ ShapeOK(cs, vs)
    BY DEF StackOK, ShapeOK
  <1>2. /\ p \in Seq(CtxType) /\ Len(p) = m
        /\ \A d \in 1..m :
             /\ p[d].inlined = cs[d].inlined
             /\ p[d].hasCapturedLocal = cs[d].hasCapturedLocal
             /\ p[d].blockMayThrow = cs[d].blockMayThrow
             /\ p[d].selfShared = cs[d].selfShared
             /\ p[d].throwsInside = cs[d].throwsInside
             /\ p[d].uvs = cs[d].uvs
             /\ cs[d].containsThrowableBlocks => p[d].containsThrowableBlocks
        /\ MustMutablyCaptureSelf(cs[n]) => p[m].containsThrowableBlocks
    BY DEF Popped
  <1>3. /\ ws \in Seq(VarType) /\ Len(ws) = Len(vs)
        /\ \A v \in 1..Len(vs) :
             /\ ws[v].ctx = vs[v].ctx
             /\ ws[v].live => vs[v].live /\ vs[v].ctx /= n
             /\ ws[v].shared => vs[v].shared \/ cs[vs[v].ctx].hasCapturedLocal
    BY DEF Left
  <1>4. \A v \in 1..Len(vs) : vs[v].live => vs[v].ctx \in 1..n
    BY DEF StackOK, ShapeOK
  <1> HIDE DEF n, m
  <1>5. ShapeOK(p, ws)
    <2>1. ~p[1].inlined
      BY <1>1, <1>2 DEF ShapeOK
    <2>2. \A v \in 1..Len(ws) : ws[v].live => ws[v].ctx \in 1..m
      BY <1>1, <1>3, <1>4
    <2>3. QED BY <1>1, <1>2, <1>3, <2>1, <2>2 DEF ShapeOK
  <1>6. UpvalsOK(p, ws)
    <2>1. SUFFICES ASSUME NEW d \in 1..m
                   PROVE  /\ d = 1 \/ cs[d].inlined => cs[d].uvs = {}
                          /\ \A v \in cs[d].uvs :
                               /\ v \in 1..Len(vs) /\ ws[v].ctx \in 1..(d - 1)
                               /\ p[ws[v].ctx].hasCapturedLocal
                               /\ \A e \in (ws[v].ctx + 1)..(d - 1) : p[e].inlined \/ v \in p[e].uvs
      BY <1>2, <1>3 DEF UpvalsOK
    <2>2. d \in 1..n
      BY <1>1
    <2>3. ASSUME NEW v \in cs[d].uvs
          PROVE  /\ v \in 1..Len(vs) /\ ws[v].ctx \in 1..(d - 1)
                 /\ p[ws[v].ctx].hasCapturedLocal
                 /\ \A e \in (ws[v].ctx + 1)..(d - 1) : p[e].inlined \/ v \in p[e].uvs
      <3>1. /\ v \in 1..Len(vs) /\ vs[v].ctx \in 1..(d - 1)
            /\ cs[vs[v].ctx].hasCapturedLocal
            /\ \A e \in (vs[v].ctx + 1)..(d - 1) : cs[e].inlined \/ v \in cs[e].uvs
        BY <2>2, <2>3 DEF StackOK, UpvalsOK, n
      <3>2. ws[v].ctx = vs[v].ctx
        BY <1>3, <3>1
      <3>3. vs[v].ctx \in 1..m /\ \A e \in (vs[v].ctx + 1)..(d - 1) : e \in 1..m
        BY <1>1, <3>1
      <3>4. QED BY <1>2, <3>1, <3>2, <3>3
    <2>4. QED BY <2>2, <2>3 DEF StackOK, UpvalsOK, n
  <1>7. SharedOK(p, ws)
    <2>1. SUFFICES ASSUME NEW v \in 1..Len(vs), ws[v].live, ws[v].shared
                   PROVE  p[vs[v].ctx].hasCapturedLocal
      BY <1>3 DEF SharedOK
    <2>2. vs[v].live /\ vs[v].ctx \in 1..m
      BY <1>1, <1>3, <1>4, <2>1
    <2>3. cs[vs[v].ctx].hasCapturedLocal
      BY <1>3, <2>1, <2>2 DEF StackOK, SharedOK
    <2>4. QED BY <1>2, <2>2, <2>3
  <1>8. SelfOK(p)
    <2>1. SUFFICES ASSUME NEW o \in 1..m, cs[o].selfShared
                   PROVE  \E e \in o..m : /\ p[e].containsThrowableBlocks
                                          /\ \A k \in (o + 1)..e : p[k].inlined
      BY <1>2 DEF SelfOK
    <2>2. PICK e \in o..n : /\ cs[e].containsThrowableBlocks
                            /\ \A k \in (o + 1)..e : cs[k].inlined
      BY <1>1, <2>1 DEF StackOK, SelfOK, n
    <2>3. CASE e = n
      <3>1. p[m].containsThrowableBlocks
        BY <1>2, <2>2, <2>3 DEF MustMutablyCaptureSelf
      <3>2. m \in o..m /\ \A k \in (o + 1)..m : k \in 1..m /\ k \in (o + 1)..e
        BY <1>1, <2>3
      <3>3. QED BY <1>2, <2>2, <3>1, <3>2
    <2>4. CASE e /= n
      <3>1. e \in o..m /\ e \in 1..m /\ \A k \in (o + 1)..e : k \in 1..m
        BY <1>1, <2>4
      <3>2. QED BY <1>2, <2>2, <3>1
    <2>5. QED BY <2>3, <2>4
  <1>9. ChainOK(p)
    <2>1. SUFFICES ASSUME NEW d \in 1..m, cs[d].throwsInside
                   PROVE  \E e \in d..m : MustMutablyCaptureSelf(p[e])
      BY <1>2 DEF ChainOK
    <2>2. PICK e \in d..n : MustMutablyCaptureSelf(cs[e])
      BY <1>1, <2>1 DEF StackOK, ChainOK, n
    <2>3. CASE e = n
      <3>1. p[m].containsThrowableBlocks /\ m \in d..m
        BY <1>1, <1>2, <2>2, <2>3
      <3>2. QED BY <3>1 DEF MustMutablyCaptureSelf
    <2>4. CASE e /= n
      <3>1. e \in d..m /\ e \in 1..m
        BY <1>1, <2>4
      <3>2. QED BY <1>2, <2>2, <3>1 DEF MustMutablyCaptureSelf
    <2>5. QED BY <2>3, <2>4
  <1>10. QED BY <1>5, <1>6, <1>7, <1>8, <1>9 DEF StackOK

\* NewClosure shares the 'self' of the function o around the block that was left.
LEMMA ShareSelfOK ==
    ASSUME NEW p, NEW ws, StackOK(p, ws), NEW o \in 1..Len(p), NEW mutable \in BOOLEAN,
           \A k \in (o + 1)..Len(p) : p[k].inlined,
           mutable => p[Len(p)].containsThrowableBlocks
    PROVE  StackOK([p EXCEPT ![o].selfShared = @ \/ mutable], ws)
  <1> DEFINE x == [p[o] EXCEPT !.selfShared = @ \/ mutable]
             q == [p EXCEPT ![o].selfShared = @ \/ mutable]
             n == Len(p)
             r == [p EXCEPT ![o] = x]
  <1>1. p \in Seq(CtxType) /\ n \in Nat /\ n >= 1 /\ p[o] \in CtxType
    BY DEF StackOK, ShapeOK
  <1>2. /\ x \in CtxType
        /\ x.inlined = p[o].inlined /\ x.uvs = p[o].uvs
        /\ x.hasCapturedLocal = p[o].hasCapturedLocal
        /\ x.containsThrowableBlocks = p[o].containsThrowableBlocks
        /\ x.blockMayThrow = p[o].blockMayThrow
        /\ x.throwsInside = p[o].throwsInside
        /\ x.selfShared => p[o].selfShared \/ mutable
    BY <1>1 DEF CtxType
  <1>3. q = r
    BY <1>1
  <1> HIDE DEF x, q
  <1>4. /\ q \in Seq(CtxType) /\ Len(q) = n
        /\ \A d \in 1..n : q[d] = IF d = o THEN x ELSE p[d]
    BY <1>1, <1>2, <1>3, SetAt
  <1>5. ASSUME NEW d \in 1..n
        PROVE  /\ q[d].inlined = p[d].inlined /\ q[d].uvs = p[d].uvs
               /\ q[d].hasCapturedLocal = p[d].hasCapturedLocal
               /\ q[d].containsThrowableBlocks = p[d].containsThrowableBlocks
               /\ q[d].blockMayThrow = p[d].blockMayThrow
               /\ q[d].throwsInside = p[d].throwsInside
               /\ q[d].selfShared => p[d].selfShared \/ (d = o /\ mutable)
    <2>1. CASE d = o
      BY <1>2, <1>4, <2>1
    <2>2. CASE d /= o
      BY <1>4, <2>2
    <2>3. QED BY <2>1, <2>2
  <1> HIDE DEF n
  <1>6. ShapeOK(q, ws)
    BY <1>1, <1>4, <1>5 DEF StackOK, ShapeOK, n
  <1>7. UpvalsOK(q, ws)
    <2>1. SUFFICES ASSUME NEW d \in 1..n
                   PROVE  /\ d = 1 \/ p[d].inlined => p[d].uvs = {}
                          /\ \A v \in p[d].uvs :
                               /\ v \in 1..Len(ws) /\ ws[v].ctx \in 1..(d - 1)
                               /\ q[ws[v].ctx].hasCapturedLocal
                               /\ \A e \in (ws[v].ctx + 1)..(d - 1) : q[e].inlined \/ v \in q[e].uvs
      BY <1>4, <1>5 DEF UpvalsOK
    <2>2. ASSUME NEW v \in p[d].uvs
          PROVE  /\ v \in 1..Len(ws) /\ ws[v].ctx \in 1..(d - 1)
                 /\ q[ws[v].ctx].hasCapturedLocal
                 /\ \A e \in (ws[v].ctx + 1)..(d - 1) : q[e].inlined \/ v \in q[e].uvs
      <3>1. /\ v \in 1..Len(ws) /\ ws[v].ctx \in 1..(d - 1)
            /\ p[ws[v].ctx].hasCapturedLocal
            /\ \A e \in (ws[v].ctx + 1)..(d - 1) : p[e].inlined \/ v \in p[e].uvs
        BY <2>2 DEF StackOK, UpvalsOK, n
      <3>2. ws[v].ctx \in 1..n /\ \A e \in (ws[v].ctx + 1)..(d - 1) : e \in 1..n
        BY <1>1, <3>1
      <3>3. QED BY <1>5, <3>1, <3>2
    <2>3. QED BY <2>2 DEF StackOK, UpvalsOK, n
  <1>8. SharedOK(q, ws)
    BY <1>5 DEF StackOK, ShapeOK, SharedOK, n
  <1>9. SelfOK(q)
    <2>1. SUFFICES ASSUME NEW d \in 1..n, q[d].selfShared
                   PROVE  \E e \in d..n : /\ q[e].containsThrowableBlocks
                                          /\ \A k \in (d + 1)..e : q[k].inlined
      BY <1>4 DEF SelfOK
    <2>2. \E e \in d..n : /\ p[e].containsThrowableBlocks
                          /\ \A k \in (d + 1)..e : p[k].inlined
      <3>1. CASE p[d].selfShared
        BY <3>1 DEF StackOK, SelfOK, n
      <3>2. CASE d = o /\ mutable
        BY <1>1, <3>2 DEF n
      <3>3. QED BY <1>5, <2>1, <3>1, <3>2
    <2>3. PICK e \in d..n : /\ p[e].containsThrowableBlocks
                            /\ \A k \in (d + 1)..e : p[k].inlined
      BY <2>2
    <2>4. e \in 1..n /\ \A k \in (d + 1)..e : k \in 1..n
      BY <1>1
    <2>5. QED BY <1>5, <2>3, <2>4
  <1>10. ChainOK(q)
    <2>1. SUFFICES ASSUME NEW d \in 1..n, p[d].throwsInside
                   PROVE  \E e \in d..n : MustMutablyCaptureSelf(q[e])
      BY <1>4, <1>5 DEF ChainOK
    <2>2. PICK e \in d..n : MustMutablyCaptureSelf(p[e])
      BY <2>1 DEF StackOK, ChainOK, n
    <2>3. e \in 1..n
      BY <1>1
    <2>4. QED BY <1>5, <2>2, <2>3 DEF MustMutablyCaptureSelf
  <1>11. QED BY <1>6, <1>7, <1>8, <1>9, <1>10 DEF StackOK, q

-----------------------------------------------------------------------------
\* What the compiler notes about a single local.
LEMMA StoredFacts ==
    ASSUME NEW vs \in Seq(VarType), NEW v
    PROVE  SameLocals(vs, Stored(vs, v))
  <1> DEFINE ws == Stored(vs, v)
  <1>1. CASE v \in 1..Len(vs)
    <2> DEFINE x == [vs[v] EXCEPT !.writtenAfterCapture = @ \/ vs[v].captured]
    <2>1. vs[v] \in VarType
      BY <1>1
    <2>2. x \in VarType /\ x.ctx = vs[v].ctx /\ x.live = vs[v].live /\ x.shared = vs[v].shared
      BY <2>1 DEF VarType
    <2>3. ws = [vs EXCEPT ![v] = x]
      BY <1>1 DEF Stored
    <2> HIDE DEF x, ws
    <2>4. /\ ws \in Seq(VarType) /\ Len(ws) = Len(vs)
          /\ \A k \in 1..Len(vs) : ws[k] = IF k = v THEN x ELSE vs[k]
      BY <1>1, <2>2, <2>3, SetAt
    <2>5. SameLocals(vs, ws)
      BY <2>2, <2>4 DEF SameLocals
    <2>6. QED BY <2>5 DEF ws
  <1>2. CASE v \notin 1..Len(vs)
    <2>1. ws = vs
      BY <1>2 DEF Stored
    <2>2. QED BY <2>1 DEF SameLocals
  <1>3. QED BY <1>1, <1>2

\* NotifyUse and NotifyWrite change neither scope nor sharing of a local.
LEMMA NotifyFacts ==
    ASSUME vars \in Seq(VarType), NEW v \in VarIds
    PROVE  SameLocals(vars, NotifyUse(v)) /\ SameLocals(vars, NotifyWrite(v))
  <1> DEFINE x == [vars[v] EXCEPT !.used = TRUE]
             y == [vars[v] EXCEPT !.immutable = @ /\ ~vars[v].used /\ vars[v].ctx = Top]
  <1>1. v \in 1..Len(vars) /\ vars[v] \in VarType
    BY DEF VarIds
  <1>2. /\ x \in VarType /\ x.ctx = vars[v].ctx /\ x.live = vars[v].live /\ x.shared = vars[v].shared
        /\ y \in VarType /\ y.ctx = vars[v].ctx /\ y.live = vars[v].live /\ y.shared = vars[v].shared
    BY <1>1 DEF VarType
  <1>3. NotifyUse(v) = [vars EXCEPT ![v] = x] /\ NotifyWrite(v) = [vars EXCEPT ![v] = y]
    BY <1>1 DEF NotifyUse, NotifyWrite
  <1> HIDE DEF x, y
  <1>4. SameLocals(vars, [vars EXCEPT ![v] = x])
    BY <1>1, <1>2, SetAt DEF SameLocals
  <1>5. SameLocals(vars, [vars EXCEPT ![v] = y])
    BY <1>1, <1>2, SetAt DEF SameLocals
  <1>6. QED BY <1>3, <1>4, <1>5

\* UninstallLocalVariables ends the locals of the innermost context only.
LEMMA UninstallFacts ==
    ASSUME NEW vs \in Seq(VarType)
    PROVE  /\ Uninstall(vs) \in Seq(VarType) /\ Len(Uninstall(vs)) = Len(vs)
           /\ \A v \in 1..Len(vs) :
                /\ Uninstall(vs)[v].ctx = vs[v].ctx
                /\ Uninstall(vs)[v].live => vs[v].live /\ vs[v].ctx /= Top
                /\ Uninstall(vs)[v].shared = vs[v].shared
  <1> DEFINE Elem(v) == IF vs[v].ctx = Top THEN [vs[v] EXCEPT !.live = FALSE] ELSE vs[v]
             ws == Uninstall(vs)
             n == Len(vs)
  <1>1. ws = [v \in 1..n |-> Elem(v)] /\ n \in Nat
    BY DEF Uninstall
  <1>2. ASSUME NEW v \in 1..n
        PROVE  /\ Elem(v) \in VarType /\ Elem(v).ctx = vs[v].ctx
               /\ Elem(v).live => vs[v].live /\ vs[v].ctx /= Top
               /\ Elem(v).shared = vs[v].shared
    <2>1. vs[v] \in VarType
      OBVIOUS
    <2>2. QED BY <2>1 DEF VarType
  <1> HIDE DEF Elem, ws
  <1>3. ws \in [1..n -> VarType]
    BY <1>1, <1>2
  <1>4. ws \in Seq(VarType) /\ Len(ws) = n
    BY <1>1, <1>3, FunctionIsSeq
  <1>5. \A v \in 1..n : ws[v] = Elem(v)
    BY <1>1
  <1>6. QED BY <1>2, <1>4, <1>5 DEF ws

\* A return compiled in the innermost context of a function, or in an inlined
\* block of it, leaks nothing that belongs to that context.
LEMMA ReturningOK ==
    ASSUME StackOK(ctxs, vars), NoOwnLeak, Returning
    PROVE  NoOwnLeak'
  <1>1. CASE MustEmitUpvalueCloseBeforeReturn(ctxs[Top])
    BY <1>1 DEF Returning, NoOwnLeak
  <1>2. CASE ~MustEmitUpvalueCloseBeforeReturn(ctxs[Top])
    <2> DEFINE o == OwningContext(Top)
               open == OpenLocals(o) \union (IF ctxs[o].selfShared THEN {Self} ELSE {})
               Own(v) == IF v = Self THEN o = Top ELSE vars[v].ctx = Top
    <2>1. retLeaks' = retLeaks \union {[var |-> v, own |-> Own(v)] : v \in open}
      BY <1>2 DEF Returning
    <2>2. Top \in Nat /\ Top >= 1 /\ Len(ctxs) = Top
      BY DEF Top, StackOK, ShapeOK
    <2>3. ASSUME NEW v \in open
          PROVE  ~Own(v)
      <3>1. CASE v = Self
        <4>1. v \notin OpenLocals(o)
          BY <3>1 DEF OpenLocals, Visible, VarIds, Self
        <4>2. ctxs[o].selfShared
          BY <2>3, <4>1
        <4>3. ASSUME o = Top
              PROVE  FALSE
          <5>1. PICK e \in Top..Len(ctxs) : ctxs[e].containsThrowableBlocks
            BY <2>2, <4>2, <4>3 DEF StackOK, SelfOK
          <5>2. e = Top
            BY <2>2
          <5>3. QED BY <1>2, <5>1, <5>2 DEF MustEmitUpvalueCloseBeforeReturn
        <4>4. QED BY <3>1, <4>3
      <3>2. CASE v /= Self
        <4>1. v \in VarIds /\ vars[v].live /\ vars[v].shared
          BY <2>3, <3>2 DEF OpenLocals, Visible
        <4>2. ctxs[vars[v].ctx].hasCapturedLocal
          BY <4>1 DEF StackOK, SharedOK, VarIds
        <4>3. QED BY <1>2, <3>2, <4>2 DEF MustEmitUpvalueCloseBeforeReturn
      <3>3. QED BY <3>1, <3>2
    <2> HIDE DEF o, open, Own
    <2>4. QED BY <2>1, <2>3 DEF NoOwnLeak
  <1>3. QED BY <1>1, <1>2

\* The end of an inlined block, after a throw or without one.
LEMMA LeaveInlinedOK ==
    ASSUME NEW cs, StackOK(cs, vars), Len(cs) = Top, Top > 1,
           LeaveInlined(cs), vars' = Uninstall(vars)
    PROVE  StackOK(ctxs, vars)'
  <1>1. cs \in Seq(CtxType) /\ vars \in Seq(VarType)
    BY DEF StackOK, ShapeOK
  <1>2. Popped(cs, ctxs')
    BY <1>1, PropagatePops DEF LeaveInlined
  <1>3. Left(Len(cs), cs, vars, vars')
    BY <1>1, UninstallFacts DEF Left
  <1>4. StackOK(ctxs', vars')
    BY <1>2, <1>3, PoppedOK
  <1>5. QED BY <1>4

\* The end of a block that is a function: cs0 is the stack, with the throw that
\* ends the block noted if there is one.
LEMMA LeaveBlockOK ==
    ASSUME Inv, Top > 1, NEW cs0, StackOK(cs0, vars), Len(cs0) = Top,
           \A d \in 1..Top : cs0[d].inlined = ctxs[d].inlined /\ cs0[d].uvs = ctxs[d].uvs,
           LeaveBlock(cs0)
    PROVE  StackOK(ctxs, vars)' /\ BlocksOK'
  <1> DEFINE c == cs0[Top]
             o == OwningContext(Top - 1)
             selfMutable == MustMutablyCaptureSelf(c)
             p == Propagate(Last(cs0), Top - 1, Front(cs0))
             parentLocal == {v \in c.uvs : OwningContext(vars[v].ctx) = o}
             stored == IF c.dest = 0 THEN vars ELSE Stored(vars, c.dest)
             Elem(v) == [Uninstall(stored)[v] EXCEPT !.captured = @ \/ v \in c.uvs,
                                                     !.shared = @ \/ v \in parentLocal]
             b == [selfMutable |-> selfMutable, throwsInside |-> c.throwsInside,
                   missingUvs |-> (c.uvs \ parentLocal) \ ctxs[o].uvs]
  <1>1. /\ cs0 \in Seq(CtxType) /\ vars \in Seq(VarType) /\ c \in CtxType
        /\ Top \in Nat /\ Top \in 1..Top /\ Top - 1 \in Depths /\ Len(ctxs) = Top
        /\ ShapeOK(ctxs, vars) /\ Last(cs0) = c
    BY DEF Inv, StackOK, ShapeOK, Top, Depths, Last
  <1>2. /\ ctxs' = [p EXCEPT ![o].selfShared = @ \/ selfMutable]
        /\ vars' = [v \in VarIds |-> Elem(v)]
        /\ blocks' = blocks \union {b}
    BY <1>1 DEF LeaveBlock
  <1>3. o \in 1..(Top - 1) /\ ~ctxs[o].inlined /\ \A k \in (o + 1)..(Top - 1) : ctxs[k].inlined
    BY <1>1, OwnerFacts
  <1>4. Popped(cs0, p)
    BY <1>1, PropagatePops
  <1>5. selfMutable \in BOOLEAN
    BY <1>1 DEF MustMutablyCaptureSelf, CtxType
  <1>6. stored \in Seq(VarType) /\ SameLocals(vars, stored)
    <2>1. SameLocals(vars, vars)
      BY <1>1 DEF SameLocals
    <2>2. SameLocals(vars, Stored(vars, c.dest))
      BY <1>1, StoredFacts
    <2>3. SameLocals(vars, stored)
      BY <2>1, <2>2
    <2>4. QED BY <2>3 DEF SameLocals
  <1>7. Left(Top, cs0, vars, vars')
    <2> DEFINE us == Uninstall(stored)
               n == Len(vars)
    <2>1. n \in Nat /\ VarIds = 1..n /\ Len(stored) = n
      BY <1>1, <1>6 DEF VarIds, SameLocals
    <2>2. /\ us \in Seq(VarType) /\ Len(us) = n
          /\ \A v \in 1..n :
               /\ us[v].ctx = vars[v].ctx
               /\ us[v].live => vars[v].live /\ vars[v].ctx /= Top
               /\ us[v].shared => vars[v].shared
      BY <1>6, <2>1, UninstallFacts DEF SameLocals
    <2> HIDE DEF us, parentLocal, c
    <2>3. ASSUME NEW v \in 1..n
          PROVE  /\ Elem(v) \in VarType /\ Elem(v).ctx = vars[v].ctx
                 /\ Elem(v).live => vars[v].live /\ vars[v].ctx /= Top
                 /\ Elem(v).shared => vars[v].shared \/ v \in parentLocal
      <3>1. us[v] \in VarType
        BY <2>2
      <3>2. /\ [us[v] EXCEPT !.captured = @ \/ v \in c.uvs, !.shared = @ \/ v \in parentLocal] \in VarType
            /\ [us[v] EXCEPT !.captured = @ \/ v \in c.uvs, !.shared = @ \/ v \in parentLocal].ctx = us[v].ctx
            /\ [us[v] EXCEPT !.captured = @ \/ v \in c.uvs, !.shared = @ \/ v \in parentLocal].live = us[v].live
            /\ [us[v] EXCEPT !.captured = @ \/ v \in c.uvs, !.shared = @ \/ v \in parentLocal].shared
                 => us[v].shared \/ v \in parentLocal
        BY <3>1 DEF VarType
      <3>3. QED BY <2>2, <3>2 DEF us
    <2>4. \A v \in parentLocal : cs0[vars[v].ctx].hasCapturedLocal
      BY <1>1 DEF StackOK, UpvalsOK, parentLocal, c
    <2> HIDE DEF Elem
    <2>5. vars' \in [1..n -> VarType]
      BY <1>2, <2>1, <2>3
    <2>6. vars' \in Seq(VarType) /\ Len(vars') = n
      BY <2>1, <2>5, FunctionIsSeq
    <2>7. \A v \in 1..n : vars'[v] = Elem(v)
      BY <1>2, <2>1
    <2>8. QED BY <2>3, <2>4, <2>6, <2>7 DEF Left
  <1> HIDE DEF c, o, selfMutable, p, parentLocal, stored, Elem, b
  <1>8. StackOK(p, vars')
    BY <1>4, <1>7, PoppedOK
  <1>9. StackOK(ctxs, vars)'
    <2>1. Len(p) = Top - 1 /\ \A d \in 1..(Top - 1) : p[d].inlined = cs0[d].inlined
      BY <1>4 DEF Popped
    <2>2. o \in 1..Len(p) /\ \A k \in (o + 1)..Len(p) : p[k].inlined
      <3>1. \A k \in (o + 1)..(Top - 1) : k \in 1..(Top - 1) /\ k \in 1..Top
        BY <1>1, <1>3
      <3>2. QED BY <1>3, <2>1, <3>1
    <2>3. selfMutable => p[Len(p)].containsThrowableBlocks
      BY <1>4, <2>1 DEF Popped, selfMutable, c
    <2>4. StackOK([p EXCEPT ![o].selfShared = @ \/ selfMutable], vars')
      BY <1>5, <1>8, <2>2, <2>3, ShareSelfOK
    <2>5. StackOK(ctxs', vars')
      BY <1>2, <2>4
    <2>6. QED BY <2>5
  <1>10. c.throwsInside => selfMutable
    <2>1. SUFFICES ASSUME c.throwsInside
                   PROVE  MustMutablyCaptureSelf(cs0[Top])
      BY DEF selfMutable, c
    <2>2. PICK e \in Top..Top : MustMutablyCaptureSelf(cs0[e])
      BY <1>1, <2>1 DEF c, StackOK, ChainOK
    <2>3. e = Top
      BY <1>1
    <2>4. QED BY <2>2, <2>3
  <1>11. ASSUME NEW v \in c.uvs, v \notin parentLocal
         PROVE  v \in ctxs[o].uvs
    <2>1. v \in ctxs[Top].uvs /\ OwningContext(vars[v].ctx) /= o
      BY <1>1, <1>11 DEF c, parentLocal
    <2>2. /\ vars[v].ctx \in 1..(Top - 1)
          /\ \A e \in (vars[v].ctx + 1)..(Top - 1) : ctxs[e].inlined \/ v \in ctxs[e].uvs
      BY <1>1, <2>1 DEF Inv, StackOK, UpvalsOK
    <2>3. vars[v].ctx \in Depths /\ o \in Depths
      BY <1>1, <1>3, <2>2 DEF Depths
    <2>4. /\ OwningContext(vars[v].ctx) \in 1..vars[v].ctx
          /\ ~ctxs[OwningContext(vars[v].ctx)].inlined
          /\ \A k \in (OwningContext(vars[v].ctx) + 1)..vars[v].ctx : ctxs[k].inlined
      BY <1>1, <2>3, OwnerFacts
    <2>5. ~(o <= vars[v].ctx)
      BY <1>1, <1>3, <2>1, <2>2, <2>4
    <2>6. o \in (vars[v].ctx + 1)..(Top - 1)
      BY <1>1, <1>3, <2>2, <2>5
    <2>7. QED BY <1>3, <2>2, <2>6
  <1>12. BlocksOK'
    <2>1. b.throwsInside => b.selfMutable
      BY <1>10 DEF b
    <2>2. b.missingUvs = {}
      BY <1>11 DEF b
    <2>3. QED BY <1>2, <2>1, <2>2 DEF Inv, BlocksOK
  <1>13. QED BY <1>9, <1>12

-----------------------------------------------------------------------------
\* CompileMethod starts in a state that satisfies the invariant.
LEMMA NewMethodOK ==
    ASSUME NEW n \in 0..MaxVars
    PROVE  StackOK(<<NewContext(FALSE)>>, [i \in 1..n |-> NewVar(1)])
  <1> DEFINE c == NewContext(FALSE)
             cs == <<c>>
             x == NewVar(1)
             vs == [i \in 1..n |-> x]
  <1>1. /\ c \in CtxType /\ c.inlined = FALSE /\ c.uvs = {} /\ c.selfShared = FALSE
        /\ c.throwsInside = FALSE
    BY DEF NewContext, CtxType
  <1>2. x \in VarType /\ x.ctx = 1 /\ x.shared = FALSE
    BY DEF NewVar, VarType
  <1>3. n \in Nat
    BY CompilerBounds
  <1> HIDE DEF c, x
  <1>4. cs \in Seq(CtxType) /\ Len(cs) = 1 /\ cs[1] = c
    BY <1>1
  <1>5. vs \in Seq(VarType) /\ Len(vs) = n /\ \A v \in 1..n : vs[v] = x
    BY <1>2, <1>3, FunctionIsSeq
  <1> HIDE DEF cs, vs
  <1>6. ShapeOK(cs, vs)
    BY <1>1, <1>2, <1>4, <1>5 DEF ShapeOK
  <1>7. UpvalsOK(cs, vs) /\ SharedOK(cs, vs)
    BY <1>1, <1>2, <1>4, <1>5 DEF UpvalsOK, SharedOK
  <1>8. SelfOK(cs) /\ ChainOK(cs)
    BY <1>1, <1>4 DEF SelfOK, ChainOK
  <1>9. QED BY <1>6, <1>7, <1>8 DEF StackOK, cs, vs, c, x

\* The invariant holds initially.
LEMMA InitInv == Init => Inv
  BY NewMethodOK DEF Init, Inv, NoOwnLeak, BlocksOK

\* The pending store and the last expression of the innermost context.
LEMMA InnermostOK ==
    ASSUME NEW cs \in Seq(CtxType), Len(cs) >= 1, NEW v \in Nat, NEW l \in BOOLEAN
    PROVE  /\ SameContexts(cs, [cs EXCEPT ![Len(cs)].store = v])
           /\ SameContexts(cs, [cs EXCEPT ![Len(cs)].last = l])
  <1> DEFINE n == Len(cs)
             x == [cs[n] EXCEPT !.store = v]
             y == [cs[n] EXCEPT !.last = l]
  <1>1. n \in 1..Len(cs) /\ cs[n] \in CtxType
    OBVIOUS
  <1>2. /\ x \in CtxType
        /\ x.inlined = cs[n].inlined /\ x.uvs = cs[n].uvs
        /\ x.hasCapturedLocal = cs[n].hasCapturedLocal
        /\ x.containsThrowableBlocks = cs[n].containsThrowableBlocks
        /\ x.blockMayThrow = cs[n].blockMayThrow
        /\ x.selfShared = cs[n].selfShared
        /\ x.throwsInside = cs[n].throwsInside
    BY <1>1 DEF CtxType
  <1>3. /\ y \in CtxType
        /\ y.inlined = cs[n].inlined /\ y.uvs = cs[n].uvs
        /\ y.hasCapturedLocal = cs[n].hasCapturedLocal
        /\ y.containsThrowableBlocks = cs[n].containsThrowableBlocks
        /\ y.blockMayThrow = cs[n].blockMayThrow
        /\ y.selfShared = cs[n].selfShared
        /\ y.throwsInside = cs[n].throwsInside
    BY <1>1 DEF CtxType
  <1>4. /\ [cs EXCEPT ![n].store = v] = [cs EXCEPT ![n] = x]
        /\ [cs EXCEPT ![n].last = l] = [cs EXCEPT ![n] = y]
    BY <1>1
  <1> HIDE DEF x, y
  <1>5. SameContexts(cs, [cs EXCEPT ![n] = x])
    BY <1>1, <1>2, SetAt DEF SameContexts
  <1>6. SameContexts(cs, [cs EXCEPT ![n] = y])
    BY <1>1, <1>3, SetAt DEF SameContexts
  <1>7. QED BY <1>4, <1>5, <1>6

\* A use of a local, whether or not it is one of the function being compiled.
LEMMA ResolveOK ==
    ASSUME Inv, NEW v \in Visible, Resolve(v), SameLocals(vars, vars'),
           UNCHANGED <<blocks, retLeaks>>
    PROVE  Inv'
  <1>1. StackOK(ctxs', vars)
    BY AddUpvalueOK DEF Inv, Resolve, Visible
  <1>2. StackOK(ctxs', vars')
    BY <1>1, SameLocalsOK
  <1>3. QED BY <1>2 DEF Inv, NoOwnLeak, BlocksOK

\* Two such steps are one.
LEMMA SameLocalsTrans ==
    ASSUME NEW us, NEW vs, NEW ws, us \in Seq(VarType), SameLocals(us, vs), SameLocals(vs, ws)
    PROVE  SameLocals(us, ws)
  BY DEF SameLocals

\* Every step of the compiler keeps the invariant.
LEMMA NextInv == Inv /\ [Next]_state => Inv'
  <1>1. SUFFICES ASSUME Inv, [Next]_state
                 PROVE  Inv'
    OBVIOUS
  <1>2. /\ StackOK(ctxs, vars) /\ ctxs \in Seq(CtxType) /\ vars \in Seq(VarType)
        /\ Top = Len(ctxs) /\ Top \in Nat /\ Top >= 1 /\ Top \in 1..Top /\ VarIds \subseteq Nat
    BY <1>1 DEF Inv, StackOK, ShapeOK, Top, VarIds
  <1>3. ASSUME NEW v \in VarIds, CompileVarUse(v)
        PROVE  Inv'
    <2>1. SameLocals(vars, vars')
      BY <1>2, <1>3, NotifyFacts DEF CompileVarUse
    <2>2. QED BY <1>1, <1>3, <2>1, ResolveOK DEF CompileVarUse
  <1>4. ASSUME NEW v \in VarIds, CompileAssignation(v)
        PROVE  Inv'
    <2>1. SameLocals(vars, NotifyWrite(v)) /\ NotifyWrite(v) \in Seq(VarType)
      BY <1>2, NotifyFacts DEF SameLocals
    <2>2. SameLocals(NotifyWrite(v), Stored(NotifyWrite(v), v))
      BY <2>1, StoredFacts
    <2>3. SameLocals(vars, vars')
      BY <1>2, <1>4, <2>1, <2>2, SameLocalsTrans DEF CompileAssignation
    <2>4. QED BY <1>1, <1>4, <2>3, ResolveOK DEF CompileAssignation
  <1>5. ASSUME NEW v \in VarIds, CompileTopLevelAssignation(v)
        PROVE  Inv'
    <2>1. SameLocals(vars, vars')
      BY <1>2, <1>5, NotifyFacts DEF CompileTopLevelAssignation
    <2>2. v \in Nat /\ ctxs' = [ctxs EXCEPT ![Len(ctxs)].store = v]
      BY <1>2, <1>5 DEF CompileTopLevelAssignation
    <2>3. SameContexts(ctxs, ctxs')
      BY <1>2, <2>2, InnermostOK
    <2>4. StackOK(ctxs', vars')
      BY <1>2, <2>1, <2>3, SameContextsOK, SameLocalsOK
    <2>5. QED BY <1>1, <1>5, <2>4 DEF CompileTopLevelAssignation, Inv, NoOwnLeak, BlocksOK
  <1>6. ASSUME FinishTopLevelAssignation
        PROVE  Inv'
    <2>1. SameLocals(vars, vars')
      BY <1>2, <1>6, StoredFacts DEF FinishTopLevelAssignation
    <2>2. ctxs' = [ctxs EXCEPT ![Len(ctxs)].store = 0]
      BY <1>2, <1>6 DEF FinishTopLevelAssignation
    <2>3. SameContexts(ctxs, ctxs')
      BY <1>2, <2>2, InnermostOK
    <2>4. StackOK(ctxs', vars')
      BY <1>2, <2>1, <2>3, SameContextsOK, SameLocalsOK
    <2>5. QED BY <1>1, <1>6, <2>4 DEF FinishTopLevelAssignation, Inv, NoOwnLeak, BlocksOK
  <1>7. ASSUME NEW inlined \in BOOLEAN, NEW n \in 0..MaxVars, EnterBlock(inlined, n)
        PROVE  Inv'
    <2> DEFINE c == NewContext(inlined)
    <2>1. c \in CtxType /\ c.uvs = {} /\ ~c.selfShared /\ ~c.throwsInside /\ n \in Nat
      BY CompilerBounds DEF NewContext, CtxType
    <2>2. ctxs' = Append(ctxs, c) /\ vars' = Install(vars, Len(ctxs) + 1, n)
      BY <1>7 DEF EnterBlock
    <2> HIDE DEF c
    <2>3. StackOK(ctxs', vars')
      BY <1>2, <2>1, <2>2, EnterOK
    <2>4. QED BY <1>1, <1>7, <2>3 DEF EnterBlock, Inv, NoOwnLeak, BlocksOK
  <1>8. ASSUME NEW v \in VarIds, NEW n \in 0..MaxVars, AssignBlock(v, n)
        PROVE  Inv'
    <2> DEFINE b == NewContext(FALSE)
               c == [b EXCEPT !.dest = v]
    <2>1. c \in CtxType /\ c.uvs = {} /\ ~c.selfShared /\ ~c.throwsInside /\ n \in Nat
      <3>1. b \in CtxType /\ b.uvs = {} /\ b.selfShared = FALSE /\ b.throwsInside = FALSE
        BY DEF NewContext, CtxType
      <3>2. v \in Nat /\ n \in Nat
        BY <1>2, CompilerBounds
      <3> HIDE DEF b
      <3>3. QED BY <3>1, <3>2 DEF CtxType
    <2>2. ctxs' = Append(ctxs, c) /\ vars' = Install(NotifyWrite(v), Len(ctxs) + 1, n)
      BY <1>8 DEF AssignBlock
    <2> HIDE DEF c
    <2>3. StackOK(ctxs, NotifyWrite(v))
      BY <1>2, NotifyFacts, SameLocalsOK
    <2>4. StackOK(ctxs', vars')
      BY <2>1, <2>2, <2>3, EnterOK
    <2>5. QED BY <1>1, <1>8, <2>4 DEF AssignBlock, Inv, NoOwnLeak, BlocksOK
  <1>9. ASSUME ReturnFromInlinedBlock
        PROVE  Inv'
    <2>1. NoOwnLeak'
      BY <1>1, <1>2, <1>9, ReturningOK DEF ReturnFromInlinedBlock, Inv
    <2>2. StackOK(ctxs, vars)'
      BY <1>2, <1>9, LeaveInlinedOK DEF ReturnFromInlinedBlock
    <2>3. QED BY <1>1, <1>9, <2>1, <2>2 DEF ReturnFromInlinedBlock, Inv, BlocksOK
  <1>10. ASSUME ThrowFromInlinedBlock
         PROVE  Inv'
    <2>1. StackOK(Throwing(ctxs), vars) /\ Len(Throwing(ctxs)) = Top
      BY <1>2, ThrowingFacts
    <2>2. StackOK(ctxs, vars)'
      BY <1>10, <2>1, LeaveInlinedOK DEF ThrowFromInlinedBlock
    <2>3. QED BY <1>1, <1>10, <2>2 DEF ThrowFromInlinedBlock, Inv, NoOwnLeak, BlocksOK
  <1>11. ASSUME ThrowFromBlock
         PROVE  Inv'
    <2>1. /\ StackOK(Throwing(ctxs), vars) /\ Len(Throwing(ctxs)) = Top
          /\ \A d \in 1..Top : /\ Throwing(ctxs)[d].inlined = ctxs[d].inlined
                               /\ Throwing(ctxs)[d].uvs = ctxs[d].uvs
      BY <1>2, ThrowingFacts
    <2>2. StackOK(ctxs, vars)' /\ BlocksOK'
      BY <1>1, <1>11, <2>1, LeaveBlockOK DEF ThrowFromBlock
    <2>3. QED BY <1>1, <1>11, <2>2 DEF ThrowFromBlock, Inv, NoOwnLeak
  <1>12. ASSUME BeginLastOfInlinedBlock
         PROVE  Inv'
    <2> DEFINE Elem(v) == [vars[v] EXCEPT !.shared = @ /\ vars[v].ctx /= Top]
               ws == [v \in VarIds |-> Elem(v)]
               m == Len(vars)
    <2>1. ctxs' = [ctxs EXCEPT ![Len(ctxs)].last = TRUE] /\ (vars' = ws \/ vars' = vars)
      BY <1>2, <1>12 DEF BeginLastOfInlinedBlock
    <2>2. SameLocals(vars, ws)
      <3>1. m \in Nat /\ VarIds = 1..m
        BY <1>2 DEF VarIds
      <3>2. ASSUME NEW v \in 1..m
            PROVE  /\ Elem(v) \in VarType /\ Elem(v).ctx = vars[v].ctx
                   /\ Elem(v).live = vars[v].live
                   /\ Elem(v).shared => vars[v].shared
        <4>1. vars[v] \in VarType
          BY <1>2
        <4>2. QED BY <4>1 DEF VarType
      <3> HIDE DEF Elem
      <3>3. ws \in [1..m -> VarType]
        BY <3>1, <3>2
      <3> HIDE DEF ws
      <3>4. ws \in Seq(VarType) /\ Len(ws) = m
        BY <3>1, <3>3, FunctionIsSeq
      <3>5. \A v \in 1..m : ws[v] = Elem(v)
        BY <3>1 DEF ws
      <3>6. QED BY <3>2, <3>4, <3>5 DEF SameLocals
    <2>3. SameLocals(vars, vars')
      BY <1>2, <2>1, <2>2 DEF SameLocals
    <2>4. SameContexts(ctxs, ctxs')
      BY <1>2, <2>1, InnermostOK
    <2>5. StackOK(ctxs', vars')
      BY <1>2, <2>3, <2>4, SameContextsOK, SameLocalsOK
    <2>6. QED BY <1>1, <1>12, <2>5 DEF BeginLastOfInlinedBlock, Inv, NoOwnLeak, BlocksOK
  <1>13. ASSUME EndInlinedBlock
         PROVE  Inv'
    <2>1. StackOK(ctxs, vars)'
      BY <1>2, <1>13, LeaveInlinedOK DEF EndInlinedBlock
    <2>2. QED BY <1>1, <1>13, <2>1 DEF EndInlinedBlock, Inv, NoOwnLeak, BlocksOK
  <1>14. ASSUME EndBlock
         PROVE  Inv'
    <2>1. NoOwnLeak'
      BY <1>1, <1>2, <1>14, ReturningOK DEF EndBlock, Inv
    <2>2. StackOK(ctxs, vars)' /\ BlocksOK'
      BY <1>1, <1>2, <1>14, LeaveBlockOK DEF EndBlock
    <2>3. QED BY <2>1, <2>2 DEF Inv
  <1>15. ASSUME EndMethod
         PROVE  Inv'
    <2>1. NoOwnLeak'
      BY <1>1, <1>2, <1>15, ReturningOK DEF EndMethod, Inv
    <2>2. StackOK(ctxs, vars)' /\ BlocksOK'
      BY <1>1, <1>15 DEF EndMethod, Inv, BlocksOK
    <2>3. QED BY <2>1, <2>2 DEF Inv
  <1>16. ASSUME NextMethod
         PROVE  Inv'
    BY <1>16, NewMethodOK DEF NextMethod, Inv, NoOwnLeak, BlocksOK
  <1>17. ASSUME UNCHANGED state
         PROVE  Inv'
    BY <1>1, <1>17 DEF state, Inv, NoOwnLeak, BlocksOK
  <1>18. QED
    BY <1>1, <1>3, <1>4, <1>5, <1>6, <1>7, <1>8, <1>9, <1>10, <1>11, <1>12, <1>13,
       <1>14, <1>15, <1>16, <1>17 DEF Next

\* The contexts being compiled know what has been captured in them, what has been
\* thrown in them, and whether their 'self' is shared, whatever method is compiled.
THEOREM CompilerInvariant == Spec => []Inv
  BY InitInv, NextInv, PTL DEF Spec

\* Every block through which a non-local return runs captures 'self' mutably: what
\* DeegenInternal_ThrowTValueErrorImpl reads as an upvalue object is one.
THEOREM ThrowChainIsMutable == Spec => []ThrowChainSelfMutable
  <1>1. Inv => ThrowChainSelfMutable
    BY DEF Inv, BlocksOK, ThrowChainSelfMutable
  <1>2. QED BY <1>1, CompilerInvariant, PTL

\* An upvalue that a closure takes from the upvalues of its creator is there, and
\* neither methods nor inlined blocks have upvalues: the TestAsserts at the end of
\* CompileMethod and InlineBlock cannot fail.
THEOREM ParentsHaveUpvalues == Spec => []ParentHasUpvalue
  <1>1. Inv => ParentHasUpvalue
    BY DEF Inv, BlocksOK, ParentHasUpvalue, StackOK, UpvalsOK, Depths
  <1>2. QED BY <1>1, CompilerInvariant, PTL

\* A return compiled in the context of a function closes every variable of that
\* context that is in an upvalue object, and 'self'.
THEOREM OwnReturnsClose == Spec => []OwnReturnCloses
  <1>1. Inv => OwnReturnCloses
    BY DEF Inv, NoOwnLeak, OwnReturnCloses
  <1>2. QED BY <1>1, CompilerInvariant, PTL
=============================================================================
