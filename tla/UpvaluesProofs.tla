--------------------------- MODULE UpvaluesProofs ---------------------------
(***************************************************************************)
(* Proofs about Upvalues, for any size of frames, any depth of the stack   *)
(* and any number of closures.                                             *)
(***************************************************************************)
EXTENDS Upvalues, WellFoundedInduction, TLAPS

-----------------------------------------------------------------------------
\* Addresses of slots.

\* A frame takes NumLocals slots, and frames follow each other on the stack.
LEMMA BaseFacts ==
    ASSUME NEW f \in Int
    PROVE  /\ Base(f) \in Int /\ Base(f + 1) = Base(f) + NumLocals /\ Base(1) = 0
           /\ \A g \in Int : f < g => Base(f) + NumLocals <= Base(g)
           /\ NumLocals \in Nat /\ NumLocals > 0
  <1>1. NumLocals \in Nat /\ NumLocals > 0
    BY UpvaluesAssumption
  <1>2. Base(f) \in Int /\ Base(f + 1) = Base(f) + NumLocals /\ Base(1) = 0
    BY <1>1 DEF Base
  <1>3. ASSUME NEW g \in Int, f < g PROVE Base(f) + NumLocals <= Base(g)
    <2>1. (g - f - 1) * NumLocals >= 0
      BY <1>1, <1>3
    <2>2. Base(g) = Base(f) + NumLocals + (g - f - 1) * NumLocals
      BY <1>1 DEF Base
    <2>3. QED BY <2>1, <2>2, <1>1, <1>2
  <1>4. QED BY <1>1, <1>2, <1>3

\* A frame ends before any later one starts.
LEMMA BaseOrder == \A f, g \in Int : f < g => Base(f) + NumLocals <= Base(g)
  BY BaseFacts

\* Two slots at different places of their frames differ, and so do their frames.
LEMMA SlotFacts ==
    ASSUME NEW f \in Int, NEW l \in 0 .. NumLocals - 1
    PROVE  /\ \A g \in Int, m \in 0 .. NumLocals - 1 : Base(f) + l = Base(g) + m => f = g /\ l = m
           /\ FrameOf(Base(f) + l) = f
           /\ f \in 1 .. MaxFrames => Base(f) + l \in Slots
           /\ \A d \in Int : Base(f) + l < Base(d + 1) <=> f <= d
  <1>1. NumLocals \in Nat /\ NumLocals > 0 /\ MaxFrames \in Nat
    BY UpvaluesAssumption
  <1>2. Base(f) \in Int /\ Base(f + 1) = Base(f) + NumLocals
    BY BaseFacts
  <1>3. ASSUME NEW g \in Int, NEW m \in 0 .. NumLocals - 1, Base(f) + l = Base(g) + m PROVE f = g /\ l = m
    <2>1. Base(g) \in Int
      BY BaseFacts
    <2>2. ~(f < g)
      <3>1. f < g => Base(f) + NumLocals <= Base(g)
        BY BaseOrder
      <3>2. QED BY <3>1, <1>1, <1>2, <1>3, <2>1
    <2>3. ~(g < f)
      <3>1. g < f => Base(g) + NumLocals <= Base(f)
        BY BaseOrder
      <3>2. QED BY <3>1, <1>1, <1>2, <1>3, <2>1
    <2>4. QED BY <2>2, <2>3, <2>1, <1>2, <1>3, <1>1
  <1>4. FrameOf(Base(f) + l) = f
    <2>1. PICK q \in Int : q = (Base(f) + l) \div NumLocals
      BY <1>1, <1>2
    <2>2. q * NumLocals <= Base(f) + l /\ Base(f) + l < (q + 1) * NumLocals
      BY <1>1, <1>2, <2>1
    <2>3. Base(q + 1) = q * NumLocals /\ Base(q + 2) = (q + 1) * NumLocals
      BY <1>1 DEF Base
    <2>4. ~(f < q + 1) /\ ~(q + 1 < f)
      <3>1. ~(f < q + 1)
        <4>1. f < q + 1 => Base(f) + NumLocals <= Base(q + 1)
          BY BaseOrder
        <4>2. QED BY <4>1, <2>2, <2>3, <1>1, <1>2
      <3>2. ASSUME q + 1 < f PROVE FALSE
        <4>1. Base(q + 1) \in Int /\ Base(q + 1) + NumLocals <= Base(f)
          <5>1. PICK p \in Int : p = q + 1
            OBVIOUS
          <5>2. Base(p) \in Int /\ Base(p) + NumLocals <= Base(f)
            BY <5>1, <3>2, BaseFacts
          <5>3. QED BY <5>1, <5>2
        <4>2. (q + 1) * NumLocals = Base(q + 1) + NumLocals
          BY <2>3, <1>1
        <4>3. QED BY <4>1, <4>2, <2>2, <1>1, <1>2
      <3>3. QED BY <3>1, <3>2
    <2>5. QED BY <2>1, <2>4 DEF FrameOf
  <1>5. ASSUME f \in 1 .. MaxFrames PROVE Base(f) + l \in Slots
    <2>1. Base(f) >= 0
      BY <1>1, <1>5 DEF Base
    <2>2. Base(MaxFrames + 1) = MaxFrames * NumLocals
      BY <1>1 DEF Base
    <2>3. Base(f) + NumLocals <= Base(MaxFrames + 1)
      BY <1>1, <1>5, BaseFacts
    <2>4. QED BY <2>1, <2>2, <2>3, <1>1, <1>2 DEF Slots
  <1>6. ASSUME NEW d \in Int PROVE Base(f) + l < Base(d + 1) <=> f <= d
    <2>1. Base(d + 1) \in Int
      BY BaseFacts
    <2>2. CASE f <= d
      <3>1. f < d + 1
        BY <2>2
      <3>2. QED BY <3>1, <2>1, <2>2, <1>1, <1>2, BaseFacts
    <2>3. CASE ~(f <= d)
      <3>1. d + 1 = f \/ d + 1 < f
        BY <2>3
      <3>2. Base(d + 1) <= Base(f)
        <4>1. d + 1 < f => Base(d + 1) + NumLocals <= Base(f)
          BY BaseOrder
        <4>2. QED BY <4>1, <3>1, <2>1, <1>1, <1>2
      <3>3. QED BY <3>2, <2>1, <2>3, <1>2
    <2>4. QED BY <2>2, <2>3
  <1>7. QED BY <1>3, <1>4, <1>5, <1>6

-----------------------------------------------------------------------------
\* The order of the naturals as a relation.
LEMMA NatOrder == \E R : IsWellFoundedOn(R, Nat) /\ \A x, y \in Nat : <<x, y>> \in R <=> x < y
  <1>1. IsWellFoundedOn(OpToRel(<, Nat), Nat)
    BY NatLessThanWellFounded
  <1>2. \A x, y \in Nat : <<x, y>> \in OpToRel(<, Nat) <=> x < y
    BY DEF OpToRel
  <1>3. QED BY <1>1, <1>2, Zenon

\* Every nonempty set of naturals has a least element.
LEMMA LeastNat ==
    ASSUME NEW T \in SUBSET Nat, T /= {}
    PROVE  \E m \in T : \A k \in T : m <= k
  <1>1. PICK R : IsWellFoundedOn(R, Nat) /\ \A x, y \in Nat : <<x, y>> \in R <=> x < y
    BY NatOrder
  <1>2. T \subseteq Nat
    OBVIOUS
  <1>3. \E x \in T : \A y \in T : ~(<<y, x>> \in R)
    <2>1. IsWellFoundedOn(R, Nat)
      BY <1>1
    <2>2. QED BY <2>1, <1>2, WFMin
  <1>4. PICK m \in T : \A y \in T : ~(<<y, m>> \in R)
    BY <1>3
  <1>5. \A y \in T : ~(y < m)
    BY <1>1, <1>2, <1>4, Zenon
  <1>6. QED BY <1>5

-----------------------------------------------------------------------------
\* The list of open upvalues of a heap h, described by a witness: its nodes are
\* at[1] .. at[len].

UV == [ptr : Slots, isClosed : BOOLEAN, tv : Values, prev : Nat]
Open(h) == {u \in 1 .. Len(h.uvs) : ~h.uvs[u].isClosed}

HeapType(h) ==
    /\ h.uvs \in Seq(UV) /\ h.list \in 0 .. Len(h.uvs)
    /\ \A u \in 1 .. Len(h.uvs) : h.uvs[u].prev \in 0 .. Len(h.uvs)
Listed(h, len, at) ==
    /\ len \in Nat /\ len <= Len(h.uvs) /\ at \in [Int -> Nat]
    /\ at[1] = h.list /\ at[len + 1] = 0
    /\ \A i \in 1 .. len : at[i] \in Open(h) /\ h.uvs[at[i]].prev = at[i + 1]
    /\ \A i, j \in 1 .. len : i < j => h.uvs[at[i]].ptr > h.uvs[at[j]].ptr
    /\ \A u \in Open(h) : \E i \in 1 .. len : at[i] = u

\* What an upvalue of a well-typed heap is.
LEMMA ElementFacts ==
    ASSUME NEW h, HeapType(h)
    PROVE  \A v \in 1 .. Len(h.uvs) : /\ h.uvs[v] \in UV /\ h.uvs[v].ptr \in Int
                                       /\ h.uvs[v].ptr \in Slots /\ h.uvs[v].tv \in Values
  <1>1. \A v \in 1 .. Len(h.uvs) : h.uvs[v] \in UV
    BY DEF HeapType
  <1>2. Slots \subseteq Int
    BY DEF Slots
  <1>3. QED BY <1>1, <1>2 DEF UV

WalkStep(g, h) ==
    [n \in 1 .. Len(h.uvs) + 1 |->
       IF n = 1 THEN h.list ELSE IF g[n - 1] = 0 THEN 0 ELSE h.uvs[g[n - 1]].prev]

\* The walk along the list finds its nodes, then 0.
LEMMA WalkIs ==
    ASSUME NEW h, NEW len, NEW at, HeapType(h), Listed(h, len, at)
    PROVE  Walk(h) = [n \in 1 .. Len(h.uvs) + 1 |-> IF n <= len THEN at[n] ELSE 0]
  <1>1. PICK N \in Nat : N = Len(h.uvs)
    BY DEF HeapType
  <1>2. PICK W : W = [n \in 1 .. N + 1 |-> IF n <= len THEN at[n] ELSE 0]
    OBVIOUS
  <1>3. /\ len \in Nat /\ len <= N /\ at \in [Int -> Nat]
        /\ at[1] = h.list /\ at[len + 1] = 0
        /\ \A i \in 1 .. len : at[i] \in 1 .. N /\ h.uvs[at[i]].prev = at[i + 1]
    BY <1>1 DEF Listed, Open
  <1>4. ASSUME NEW n \in 1 .. N + 1
        PROVE  W[n] = IF n = 1 THEN h.list ELSE IF W[n - 1] = 0 THEN 0 ELSE h.uvs[W[n - 1]].prev
    <2>1. CASE n = 1
      <3>1. CASE len = 0
        <4>1. W[1] = 0
          BY <3>1, <1>2
        <4>2. at[1] = 0
          <5>1. len + 1 = 1
            BY <3>1
          <5>2. QED BY <5>1, <1>3
        <4>3. QED BY <4>1, <4>2, <2>1, <1>3
      <3>2. CASE len # 0
        <4>1. 1 <= len
          BY <3>2, <1>3
        <4>2. W[1] = at[1]
          BY <4>1, <1>2
        <4>3. QED BY <4>2, <2>1, <1>3
      <3>3. QED BY <3>1, <3>2
    <2>2. CASE n # 1
      <3>1. n - 1 \in 1 .. N + 1 /\ (n - 1) + 1 = n
        BY <2>2
      <3>2. W[n - 1] = IF n - 1 <= len THEN at[n - 1] ELSE 0
        BY <3>1, <1>2
      <3>3. CASE n - 1 <= len
        <4>1. n - 1 \in 1 .. len
          BY <3>1, <3>3, <1>3
        <4>2. at[n - 1] \in 1 .. N /\ h.uvs[at[n - 1]].prev = at[(n - 1) + 1]
          BY <4>1, <1>3
        <4>3. W[n] = at[n]
          <5>1. CASE n <= len
            BY <5>1, <1>2
          <5>2. CASE n = len + 1
            BY <5>2, <1>2, <1>3
          <5>3. QED BY <4>1, <5>1, <5>2, <1>3
        <4>4. W[n - 1] = at[n - 1] /\ at[n - 1] # 0
          BY <3>2, <3>3, <4>2
        <4>5. QED BY <2>2, <3>1, <4>2, <4>3, <4>4
      <3>4. CASE ~(n - 1 <= len)
        BY <3>1, <3>2, <3>4, <2>2, <1>2, <1>3
      <3>5. QED BY <3>3, <3>4
    <2>3. QED BY <2>1, <2>2
  <1>5. W = WalkStep(W, h)
    BY <1>1, <1>2, <1>4 DEF WalkStep
  <1>6. PICK g : g = WalkStep(g, h) /\ Walk(h) = g
    <2>1. PICK g : g = CHOOSE x : x = WalkStep(x, h)
      OBVIOUS
    <2>2. g = WalkStep(g, h)
      BY <2>1, <1>5
    <2>3. Walk(h) = g
      BY <2>1 DEF Walk, WalkStep
    <2>4. QED BY <2>2, <2>3
  <1>7. \A n \in 1 .. N + 1 : g[n] = IF n = 1 THEN h.list ELSE IF g[n - 1] = 0 THEN 0 ELSE h.uvs[g[n - 1]].prev
    BY <1>6, <1>1 DEF WalkStep
  <1>8. g = [n \in 1 .. N + 1 |-> g[n]]
    BY <1>6, <1>1 DEF WalkStep
  <1>9. \A n \in 1 .. N + 1 : g[n] = W[n]
    <2>1. SUFFICES ASSUME \E n \in 1 .. N + 1 : g[n] # W[n] PROVE FALSE
      OBVIOUS
    <2> DEFINE T == {n \in 1 .. N + 1 : g[n] # W[n]}
    <2>2. T \in SUBSET Nat /\ T # {}
      BY <2>1
    <2>3. PICK m \in T : \A k \in T : m <= k
      BY <2>2, LeastNat
    <2>4. m \in 1 .. N + 1 /\ g[m] # W[m]
      BY <2>3
    <2>5. CASE m = 1
      BY <2>4, <2>5, <1>4, <1>7
    <2>6. CASE m # 1
      <3>1. m - 1 \in 1 .. N + 1 /\ ~(m <= m - 1)
        BY <2>4, <2>6
      <3>2. g[m - 1] = W[m - 1]
        BY <3>1, <2>3
      <3>3. QED BY <2>4, <2>6, <3>2, <1>4, <1>7
    <2>7. QED BY <2>5, <2>6
  <1>10. g = W
    BY <1>2, <1>8, <1>9
  <1>11. QED BY <1>1, <1>2, <1>6, <1>10

\* The position found by the search.
LEMMA PositionIs ==
    ASSUME NEW h, NEW len, NEW at, HeapType(h), Listed(h, len, at), NEW a \in Int
    PROVE  /\ Position(h, a) \in 1 .. len + 1
           /\ Position(h, a) # len + 1 => h.uvs[at[Position(h, a)]].ptr <= a
           /\ \A m \in 1 .. Position(h, a) - 1 : h.uvs[at[m]].ptr > a
  <1> DEFINE node == Walk(h)
             Stops(n) == node[n] = 0 \/ h.uvs[node[n]].ptr <= a
  <1>1. PICK N \in Nat : N = Len(h.uvs)
    BY DEF HeapType
  <1>2. /\ len \in Nat /\ len <= N /\ at \in [Int -> Nat] /\ at[len + 1] = 0
        /\ \A i \in 1 .. len : at[i] \in 1 .. N
    BY <1>1 DEF Listed, Open
  <1>3. node = [n \in 1 .. N + 1 |-> IF n <= len THEN at[n] ELSE 0]
    BY <1>1, WalkIs
  <1>4. DOMAIN node = 1 .. N + 1 /\ \A n \in 1 .. N + 1 : node[n] = IF n <= len THEN at[n] ELSE 0
    BY <1>3
  <1> HIDE DEF node
  <1>5. \A n \in 1 .. N + 1 : Stops(n) <=> n > len \/ h.uvs[at[n]].ptr <= a
    <2>1. ASSUME NEW n \in 1 .. N + 1, n <= len PROVE node[n] = at[n] /\ at[n] # 0
      <3>1. n \in 1 .. len
        BY <2>1, <1>2
      <3>2. at[n] \in 1 .. N
        BY <3>1, <1>2
      <3>3. QED BY <3>2, <2>1, <1>4
    <2>2. ASSUME NEW n \in 1 .. N + 1, ~(n <= len) PROVE node[n] = 0
      BY <2>2, <1>4
    <2>3. \A n \in 1 .. N + 1 : n > len <=> ~(n <= len)
      BY <1>2
    <2>4. QED BY <2>1, <2>2, <2>3
  <1> DEFINE T == {n \in 1 .. N + 1 : Stops(n)}
  <1>6. len + 1 \in T
    BY <1>2, <1>5
  <1>7. PICK k \in T : \A m \in T : k <= m
    <2>1. T \in SUBSET Nat /\ T # {}
      BY <1>6
    <2> HIDE DEF T
    <2>2. QED BY <2>1, LeastNat
  <1>8. k \in DOMAIN node /\ Stops(k) /\ \A m \in 1 .. (k - 1) : ~Stops(m)
    <2>1. k \in 1 .. N + 1 /\ Stops(k)
      OBVIOUS
    <2>2. \A m \in 1 .. (k - 1) : m \in 1 .. N + 1 /\ ~(k <= m)
      BY <2>1
    <2>3. \A m \in 1 .. (k - 1) : ~Stops(m)
      BY <2>2, <1>7
    <2>4. QED BY <2>1, <2>3, <1>4
  <1> DEFINE P(n) == Stops(n) /\ \A m \in 1 .. (n - 1) : ~Stops(m)
  <1>9. Position(h, a) = CHOOSE n \in DOMAIN node : P(n)
    BY DEF Position, node
  <1>10. Position(h, a) \in DOMAIN node /\ P(Position(h, a))
    <2>1. \E n \in DOMAIN node : P(n)
      BY <1>8
    <2> HIDE DEF P
    <2>2. QED BY <2>1, <1>9
  <1>11. PICK n \in 1 .. N + 1 : n = Position(h, a)
    BY <1>10, <1>4
  <1>12. P(n)
    BY <1>10, <1>11
  <1>13. n <= len + 1
    <2>1. len + 1 \in 1 .. N + 1 /\ Stops(len + 1)
      BY <1>6
    <2> HIDE DEF Stops
    <2>2. ASSUME ~(n <= len + 1) PROVE FALSE
      <3>1. len + 1 \in 1 .. (n - 1)
        BY <2>2, <1>2
      <3>2. QED BY <3>1, <2>1, <1>12
    <2>3. QED BY <2>2
  <1>14. n # len + 1 => h.uvs[at[n]].ptr <= a
    BY <1>5, <1>12, <1>13, <1>2
  <1>15. ASSUME NEW m \in 1 .. n - 1 PROVE h.uvs[at[m]].ptr > a
    <2>1. m \in 1 .. N + 1 /\ m <= len /\ m \in 1 .. len
      BY <1>13, <1>2
    <2>2. ~Stops(m)
      BY <1>12
    <2>3. ~(h.uvs[at[m]].ptr <= a)
      BY <2>1, <2>2, <1>5
    <2>4. h.uvs[at[m]].ptr \in Int
      <3>1. at[m] \in 1 .. Len(h.uvs) /\ h.uvs \in Seq(UV)
        BY <2>1, <1>1, <1>2 DEF HeapType
      <3>2. h.uvs[at[m]] \in UV
        BY <3>1
      <3>3. QED BY <3>2 DEF UV, Slots
    <2>5. QED BY <2>3, <2>4
  <1>16. QED BY <1>11, <1>13, <1>14, <1>15, <1>2

HeapOK(h) == HeapType(h) /\ \E len, at : Listed(h, len, at)

\* Two upvalues that differ in their place on the list at most.
Same(x, y) == x.ptr = y.ptr /\ (x.isClosed <=> y.isClosed) /\ x.tv = y.tv

Insert(at, i, id) == [n \in Int |-> IF n < i THEN at[n] ELSE IF n = i THEN id ELSE at[n - 1]]

\* r is h with a new open upvalue for slot dst, linked in at position i.
Linked(h, r, dst, at, i) ==
    /\ r.uvs \in Seq(UV) /\ Len(r.uvs) = Len(h.uvs) + 1
    /\ r.list = IF i = 1 THEN Len(h.uvs) + 1 ELSE h.list
    /\ LET new == r.uvs[Len(h.uvs) + 1]
       IN  new.ptr = dst /\ ~new.isClosed /\ new.tv = Nil /\ new.prev = at[i]
    /\ \A v \in 1 .. Len(h.uvs) :
         /\ Same(r.uvs[v], h.uvs[v])
         /\ r.uvs[v].prev = IF i # 1 /\ v = at[i - 1] THEN Len(h.uvs) + 1 ELSE h.uvs[v].prev

\* Inserted where the slots on the list pass below dst, it keeps the list sorted.
LEMMA InsertOK ==
    ASSUME NEW h, NEW len, NEW at, HeapType(h), Listed(h, len, at),
           NEW r, NEW dst \in Int, NEW i \in 1 .. len + 1, Linked(h, r, dst, at, i),
           i # len + 1 => h.uvs[at[i]].ptr < dst,
           \A m \in 1 .. i - 1 : h.uvs[at[m]].ptr > dst
    PROVE  HeapType(r) /\ Listed(r, len + 1, Insert(at, i, Len(h.uvs) + 1))
  <1>1. PICK N \in Nat : N = Len(h.uvs)
    BY DEF HeapType
  <1>2. PICK id \in Nat : id = N + 1
    OBVIOUS
  <1>3. /\ len \in Nat /\ len <= N /\ at \in [Int -> Nat]
        /\ at[1] = h.list /\ at[len + 1] = 0
        /\ \A k \in 1 .. len : at[k] \in Open(h) /\ h.uvs[at[k]].prev = at[k + 1]
        /\ \A k, j \in 1 .. len : k < j => h.uvs[at[k]].ptr > h.uvs[at[j]].ptr
        /\ \A u \in Open(h) : \E k \in 1 .. len : at[k] = u
    BY <1>1 DEF Listed
  <1>4. /\ r.uvs \in Seq(UV) /\ Len(r.uvs) = id
        /\ r.list = IF i = 1 THEN id ELSE h.list
        /\ r.uvs[id].ptr = dst /\ ~r.uvs[id].isClosed /\ r.uvs[id].prev = at[i]
    BY <1>1, <1>2 DEF Linked
  <1>5. \A v \in 1 .. N : /\ r.uvs[v].ptr = h.uvs[v].ptr /\ (r.uvs[v].isClosed <=> h.uvs[v].isClosed)
                          /\ r.uvs[v].prev = IF i # 1 /\ v = at[i - 1] THEN id ELSE h.uvs[v].prev
    BY <1>1, <1>2 DEF Linked, Same
  <1>6. \A v \in 1 .. N : r.uvs[v].isClosed <=> h.uvs[v].isClosed
    BY <1>1 DEF Linked, Same
  <1>7. \A v \in 1 .. N : v \in 1 .. Len(r.uvs)
    <2>1. Len(r.uvs) = N + 1
      BY <1>2, <1>4
    <2>2. QED BY <2>1
  <1>8. \A k \in 1 .. len : at[k] \in 1 .. N /\ ~h.uvs[at[k]].isClosed
    BY <1>1, <1>3 DEF Open
  <1>9. \A u \in 1 .. N : ~h.uvs[u].isClosed => \E k \in 1 .. len : at[k] = u
    BY <1>1, <1>3 DEF Open
  <1>10. \A k \in 1 .. len + 1 : at[k] \in 0 .. N
    <2>1. \A k \in 1 .. len + 1 : k = len + 1 \/ k \in 1 .. len
      BY <1>3
    <2>2. QED BY <2>1, <1>3, <1>8
  <1>11. HeapType(r)
    <2>1. r.list \in 0 .. id
      BY <1>2, <1>4, <1>1 DEF HeapType
    <2>2. \A v \in 1 .. id : v = id \/ v \in 1 .. N
      BY <1>2
    <2>3. \A v \in 1 .. id : r.uvs[v].prev \in 0 .. id
      <3>1. ASSUME NEW v \in 1 .. N PROVE r.uvs[v].prev \in 0 .. id
        <4>1. h.uvs[v].prev \in 0 .. N
          BY <1>1 DEF HeapType
        <4>2. QED BY <4>1, <1>2, <1>5
      <3>2. r.uvs[id].prev \in 0 .. id
        BY <1>2, <1>4, <1>10
      <3>3. QED BY <3>1, <3>2, <2>2
    <2>4. QED BY <2>1, <2>3, <1>4 DEF HeapType
  <1>12. PICK b \in [Int -> Nat] : b = Insert(at, i, id)
    <2>1. \A n \in Int : at[n] \in Nat /\ at[n - 1] \in Nat
      BY <1>3
    <2>2. QED BY <2>1 DEF Insert
  <1>13. \A n \in Int : b[n] = IF n < i THEN at[n] ELSE IF n = i THEN id ELSE at[n - 1]
    BY <1>12 DEF Insert
  <1>14. i \in Nat /\ i > 0 /\ i <= len + 1
    BY <1>3
  <1>15. b[1] = r.list
    <2>1. b[1] = IF 1 < i THEN at[1] ELSE IF 1 = i THEN id ELSE at[1 - 1]
      BY <1>13
    <2>2. CASE i = 1
      BY <2>1, <2>2, <1>4
    <2>3. CASE i # 1
      <3>1. 1 < i
        BY <2>3, <1>14
      <3>2. QED BY <3>1, <2>1, <2>3, <1>3, <1>4
    <2>4. QED BY <2>2, <2>3
  <1>16. b[(len + 1) + 1] = 0
    <2>1. ((len + 1) + 1) - 1 = len + 1 /\ ~((len + 1) + 1 < i) /\ (len + 1) + 1 # i
      BY <1>14, <1>3
    <2>2. QED BY <2>1, <1>3, <1>13
  <1>17. ASSUME NEW k \in 1 .. len, NEW j \in 1 .. len, at[k] = at[j] PROVE k = j
    <2>1. h.uvs[at[k]].ptr \in Int
      <3>1. at[k] \in 1 .. N
        BY <1>8
      <3>2. QED BY <3>1, <1>1, ElementFacts
    <2>2. ~(k < j) /\ ~(j < k)
      BY <2>1, <1>3, <1>17
    <2>3. QED BY <2>2
  <1>18. ASSUME NEW k \in 1 .. len + 1
         PROVE  b[k] \in Open(r) /\ r.uvs[b[k]].prev = b[k + 1]
    <2>1. CASE k = i
      <3>1. b[k] = id /\ b[k + 1] = at[i]
        BY <2>1, <1>13, <1>14
      <3>2. id \in Open(r)
        BY <1>2, <1>4 DEF Open
      <3>3. QED BY <3>1, <3>2, <1>4
    <2>2. CASE k < i
      <3>1. k \in 1 .. len /\ b[k] = at[k]
        <4>1. k \in 1 .. len /\ k \in Int
          BY <2>2, <1>14, <1>3
        <4>2. QED BY <4>1, <2>2, <1>13
      <3>2. at[k] \in 1 .. N /\ ~h.uvs[at[k]].isClosed /\ h.uvs[at[k]].prev = at[k + 1]
        BY <3>1, <1>3, <1>8
      <3>3. at[k] \in Open(r)
        <4>1. at[k] \in 1 .. Len(r.uvs)
          BY <3>2, <1>7, Zenon
        <4>2. ~r.uvs[at[k]].isClosed
          BY <3>2, <1>6, Zenon
        <4>3. QED BY <4>1, <4>2 DEF Open
      <3>4. CASE k + 1 = i
        <4>1. i # 1 /\ k = i - 1 /\ k + 1 \in Int
          BY <3>4, <1>14
        <4>2. b[k + 1] = id
          <5>1. b[i] = id /\ i \in Int
            BY <1>13, <1>14
          <5>2. QED BY <5>1, <3>4, Zenon
        <4>3. r.uvs[at[k]].prev = id
          BY <4>1, <3>2, <1>5
        <4>4. QED BY <4>2, <4>3, <3>1, <3>3, Zenon
      <3>5. CASE k + 1 # i
        <4>1. k + 1 < i /\ b[k + 1] = at[k + 1]
          BY <3>5, <2>2, <1>13, <1>14
        <4>2. i # 1 => i - 1 \in 1 .. len /\ i - 1 # k
          BY <3>5, <1>14, <1>3
        <4>3. ~(i # 1 /\ at[k] = at[i - 1])
          BY <4>2, <3>1, <1>17
        <4>4. r.uvs[at[k]].prev = h.uvs[at[k]].prev
          BY <4>3, <3>2, <1>5
        <4>5. QED BY <4>1, <4>4, <3>1, <3>2, <3>3
      <3>6. QED BY <3>4, <3>5
    <2>3. CASE k > i
      <3>1. PICK j \in 1 .. len : j = k - 1
        BY <2>3, <1>14, <1>3
      <3>2. b[k] = at[j] /\ b[k + 1] = at[j + 1] /\ j >= i
        <4>1. ~(k < i) /\ k # i /\ ~(k + 1 < i) /\ k + 1 # i /\ (k + 1) - 1 = j + 1
          BY <2>3, <3>1, <1>14
        <4>2. QED BY <4>1, <3>1, <2>3, <1>13, <1>14
      <3>3. at[j] \in 1 .. N /\ ~h.uvs[at[j]].isClosed /\ h.uvs[at[j]].prev = at[j + 1]
        BY <1>3, <1>8
      <3>4. at[j] \in Open(r)
        <4>1. at[j] \in 1 .. Len(r.uvs)
          BY <3>3, <1>7, Zenon
        <4>2. ~r.uvs[at[j]].isClosed
          BY <3>3, <1>6, Zenon
        <4>3. QED BY <4>1, <4>2 DEF Open
      <3>5. i # 1 => i - 1 \in 1 .. len /\ i - 1 # j
        BY <3>2, <1>14, <1>3
      <3>6. ~(i # 1 /\ at[j] = at[i - 1])
        BY <3>5, <1>17
      <3>7. r.uvs[at[j]].prev = h.uvs[at[j]].prev
        BY <3>6, <3>3, <1>5
      <3>8. QED BY <3>2, <3>3, <3>4, <3>7
    <2>4. QED BY <2>1, <2>2, <2>3, <1>14
  <1>19. ASSUME NEW k \in 1 .. len + 1, NEW j \in 1 .. len + 1, k < j
         PROVE  r.uvs[b[k]].ptr > r.uvs[b[j]].ptr
    <2>1. \A m \in 1 .. len : r.uvs[at[m]].ptr = h.uvs[at[m]].ptr
      BY <1>5, <1>8
    <2>2. \A m \in 1 .. len : m >= i => h.uvs[at[m]].ptr < dst
      <3>1. ASSUME NEW m \in 1 .. len, m >= i PROVE h.uvs[at[m]].ptr < dst
        <4>1. i \in 1 .. len /\ h.uvs[at[i]].ptr < dst
          BY <3>1, <1>14, <1>3
        <4>2. h.uvs[at[m]].ptr \in Int /\ h.uvs[at[i]].ptr \in Int
          <5>1. at[m] \in 1 .. N /\ at[i] \in 1 .. N
            BY <4>1, <1>8
          <5>2. QED BY <5>1, <1>1, ElementFacts
        <4>3. m = i \/ h.uvs[at[i]].ptr > h.uvs[at[m]].ptr
          BY <4>1, <3>1, <1>3, <1>14
        <4>4. QED BY <4>1, <4>2, <4>3
      <3>2. QED BY <3>1
    <2>3. CASE j < i
      <3>1. k \in 1 .. len /\ j \in 1 .. len /\ b[k] = at[k] /\ b[j] = at[j]
        BY <2>3, <1>19, <1>13, <1>14, <1>3
      <3>2. QED BY <3>1, <2>1, <1>3, <1>19
    <2>4. CASE j = i
      <3>1. k \in 1 .. len /\ k \in 1 .. i - 1 /\ b[k] = at[k] /\ b[j] = id
        BY <2>4, <1>19, <1>13, <1>14, <1>3
      <3>2. QED BY <3>1, <2>1, <1>4
    <2>5. CASE j > i /\ k < i
      <3>1. PICK m \in 1 .. len : m = j - 1 /\ m >= i
        BY <2>5, <1>14, <1>3
      <3>2. k \in 1 .. len /\ k < m /\ b[k] = at[k] /\ b[j] = at[m]
        BY <3>1, <2>5, <1>19, <1>13, <1>14, <1>3
      <3>3. QED BY <3>1, <3>2, <2>1, <1>3
    <2>6. CASE j > i /\ k = i
      <3>1. PICK m \in 1 .. len : m = j - 1 /\ m >= i
        <4>1. j - 1 \in 1 .. len /\ j - 1 >= i
          BY <2>6, <1>14, <1>3
        <4>2. QED BY <4>1
      <3>2. b[k] = id /\ b[j] = at[m]
        BY <3>1, <2>6, <1>13, <1>14
      <3>3. h.uvs[at[m]].ptr < dst /\ h.uvs[at[m]].ptr \in Int
        <4>1. at[m] \in 1 .. N
          BY <1>8
        <4>2. QED BY <4>1, <3>1, <2>2, <1>1, ElementFacts
      <3>4. QED BY <3>2, <3>3, <2>1, <1>4
    <2>7. CASE j > i /\ k > i
      <3>1. PICK m \in 1 .. len : m = j - 1
        BY <2>7, <1>14, <1>3
      <3>2. PICK n \in 1 .. len : n = k - 1
        BY <2>7, <1>14, <1>3
      <3>3. n < m /\ b[k] = at[n] /\ b[j] = at[m]
        BY <3>1, <3>2, <2>7, <1>19, <1>13, <1>14
      <3>4. QED BY <3>3, <2>1, <1>3
    <2>8. QED BY <2>3, <2>4, <2>5, <2>6, <2>7, <1>14
  <1>20. ASSUME NEW u \in Open(r) PROVE \E k \in 1 .. len + 1 : b[k] = u
    <2>1. u \in 1 .. id /\ ~r.uvs[u].isClosed
      BY <1>4 DEF Open
    <2>2. CASE u = id
      <3>1. i \in 1 .. len + 1 /\ b[i] = id
        BY <1>13, <1>14
      <3>2. QED BY <2>2, <3>1
    <2>3. CASE u # id
      <3>1. u \in 1 .. N /\ ~h.uvs[u].isClosed
        BY <2>1, <2>3, <1>2, <1>5
      <3>2. PICK k \in 1 .. len : at[k] = u
        BY <3>1, <1>9
      <3>3. CASE k < i
        <4>1. k \in 1 .. len + 1 /\ b[k] = u
          BY <3>2, <3>3, <1>13, <1>3
        <4>2. QED BY <4>1
      <3>4. CASE ~(k < i)
        <4>1. PICK j \in 1 .. len + 1 : j = k + 1
          BY <1>3
        <4>2. b[j] = u
          BY <4>1, <3>2, <3>4, <1>13, <1>14
        <4>3. QED BY <4>2
      <3>5. QED BY <3>3, <3>4
    <2>4. QED BY <2>2, <2>3
  <1>21. len + 1 \in Nat /\ len + 1 <= Len(r.uvs)
    BY <1>2, <1>3, <1>4
  <1>22. Listed(r, len + 1, b)
    BY <1>15, <1>16, <1>18, <1>19, <1>20, <1>21 DEF Listed
  <1>23. QED BY <1>1, <1>2, <1>11, <1>12, <1>22

\* CreateUpvalueImpl and the store of its result link the new upvalue.
LEMMA LinkIs ==
    ASSUME NEW h, NEW len, NEW at, HeapType(h), Listed(h, len, at), h.made \in Seq(Nat),
           NEW dst \in Slots, NEW i \in 1 .. len + 1
    PROVE  /\ Linked(h, LinkAt(h, dst, i), dst, at, i)
           /\ LinkAt(h, dst, i).made = Append(h.made, Len(h.uvs) + 1)
  <1>1. PICK N \in Nat : N = Len(h.uvs)
    BY DEF HeapType
  <1>2. /\ len \in Nat /\ len <= N /\ at \in [Int -> Nat] /\ at[len + 1] = 0
        /\ \A k \in 1 .. len : at[k] \in 1 .. N
    BY <1>1 DEF Listed, Open
  <1>3. Walk(h) = [n \in 1 .. N + 1 |-> IF n <= len THEN at[n] ELSE 0]
    BY <1>1, WalkIs
  <1>4. Walk(h)[i] = at[i] /\ at[i] \in Nat
    <2>1. i \in 1 .. N + 1 /\ (i <= len \/ i = len + 1)
      BY <1>2
    <2>2. Walk(h)[i] = IF i <= len THEN at[i] ELSE 0
      BY <2>1, <1>3
    <2>3. CASE i <= len
      BY <2>2, <2>3, <1>2
    <2>4. CASE i = len + 1
      <3>1. ~(i <= len)
        BY <2>4, <1>2
      <3>2. QED BY <3>1, <2>2, <2>4, <1>2
    <2>5. QED BY <2>1, <2>3, <2>4
  <1>5. i # 1 => Walk(h)[i - 1] = at[i - 1] /\ at[i - 1] \in 1 .. N
    <2>1. i # 1 => i - 1 \in 1 .. N + 1 /\ i - 1 <= len /\ i - 1 \in 1 .. len
      BY <1>2
    <2>2. QED BY <2>1, <1>2, <1>3
  <1>6. PICK new : new = [ptr |-> dst, isClosed |-> FALSE, tv |-> Nil, prev |-> at[i]]
    OBVIOUS
  <1>7. new \in UV /\ new.ptr = dst /\ ~new.isClosed /\ new.tv = Nil /\ new.prev = at[i]
    BY <1>4, <1>6, UpvaluesAssumption DEF UV
  <1>8. PICK q \in Seq(UV) : q = Append(h.uvs, new)
    <2>1. h.uvs \in Seq(UV) /\ new \in UV
      BY <1>7 DEF HeapType
    <2>2. Append(h.uvs, new) \in Seq(UV)
      BY <2>1
    <2>3. QED BY <2>2
  <1>9. Len(q) = N + 1 /\ q[N + 1] = new /\ \A v \in 1 .. N : q[v] = h.uvs[v]
    BY <1>1, <1>7, <1>8 DEF HeapType
  <1>10. PICK r : r = LinkAt(h, dst, i)
    OBVIOUS
  <1>11. r = [uvs |-> IF i = 1 THEN q ELSE [q EXCEPT ![Walk(h)[i - 1]].prev = N + 1],
              list |-> IF i = 1 THEN N + 1 ELSE h.list,
              made |-> Append(h.made, N + 1)]
    BY <1>1, <1>4, <1>6, <1>8, <1>10 DEF LinkAt
  <1>12. CASE i = 1
    <2>1. r.uvs = q /\ r.list = N + 1 /\ r.made = Append(h.made, N + 1)
      BY <1>11, <1>12
    <2>2. QED BY <2>1, <1>1, <1>7, <1>9, <1>10, <1>12 DEF Linked, Same
  <1>13. CASE i # 1
    <2>1. PICK x \in 1 .. N : x = at[i - 1] /\ Walk(h)[i - 1] = x
      BY <1>5, <1>13
    <2>2. /\ r.uvs = [q EXCEPT ![x].prev = N + 1]
          /\ r.list = h.list /\ r.made = Append(h.made, N + 1)
      BY <2>1, <1>11, <1>13
    <2>3. q[x] \in UV /\ x \in 1 .. Len(q) /\ x # N + 1
      BY <1>9
    <2>4. [q[x] EXCEPT !.prev = N + 1] \in UV
      BY <2>3 DEF UV
    <2>5. r.uvs \in Seq(UV) /\ Len(r.uvs) = N + 1
      BY <2>2, <2>3, <2>4, <1>9
    <2>6. \A v \in 1 .. N + 1 : r.uvs[v] = IF v = x THEN [q[x] EXCEPT !.prev = N + 1] ELSE q[v]
      BY <2>2, <1>9
    <2>7. r.uvs[N + 1] = new
      BY <2>3, <2>6, <1>9
    <2>8. ASSUME NEW v \in 1 .. N
          PROVE  /\ Same(r.uvs[v], h.uvs[v])
                 /\ r.uvs[v].prev = IF v = x THEN N + 1 ELSE h.uvs[v].prev
      <3>1. q[v] = h.uvs[v] /\ v \in 1 .. N + 1
        BY <1>9
      <3>2. CASE v = x
        <4>1. r.uvs[v] = [h.uvs[v] EXCEPT !.prev = N + 1] /\ h.uvs[v] \in UV
          BY <3>1, <3>2, <2>3, <2>6
        <4>2. r.uvs[v].prev = N + 1
          BY <4>1 DEF UV
        <4>3. r.uvs[v].ptr = h.uvs[v].ptr /\ r.uvs[v].isClosed = h.uvs[v].isClosed /\ r.uvs[v].tv = h.uvs[v].tv
          BY <4>1 DEF UV
        <4>4. QED BY <4>2, <4>3, <3>2 DEF Same
      <3>3. CASE v # x
        BY <3>1, <3>3, <2>6 DEF Same
      <3>4. QED BY <3>2, <3>3
    <2>9. QED BY <2>1, <2>2, <2>5, <2>7, <2>8, <1>1, <1>7, <1>10, <1>13 DEF Linked
  <1>14. QED BY <1>12, <1>13

\* What Upvalue::Create returns: u is the open upvalue of slot dst.
Created(h, r, dst, u) ==
    /\ HeapOK(r) /\ r.made = Append(h.made, u)
    /\ u \in Open(r) /\ r.uvs[u].ptr = dst
    /\ \/ r.uvs = h.uvs /\ r.list = h.list
       \/ /\ Len(r.uvs) = Len(h.uvs) + 1 /\ u = Len(h.uvs) + 1
          /\ \A v \in Open(h) : h.uvs[v].ptr # dst
          /\ \A v \in 1 .. Len(h.uvs) : Same(r.uvs[v], h.uvs[v])

\* CreateUpvalue finds the open upvalue of the slot, or links a new one
\* (Upvalue::Create, runtime_utils.h 795 to 833).
LEMMA CreateIs ==
    ASSUME NEW h, HeapOK(h), h.made \in Seq(Nat), NEW dst \in Slots
    PROVE  \E u \in Nat : Created(h, CreateUpvalue(h, dst), dst, u)
  <1>1. PICK len, at : Listed(h, len, at)
    BY DEF HeapOK
  <1>2. HeapType(h)
    BY DEF HeapOK
  <1>3. PICK N \in Nat : N = Len(h.uvs)
    BY <1>2 DEF HeapType
  <1>4. /\ len \in Nat /\ len <= N /\ at \in [Int -> Nat] /\ at[len + 1] = 0
        /\ \A k \in 1 .. len : at[k] \in Open(h)
        /\ \A k, j \in 1 .. len : k < j => h.uvs[at[k]].ptr > h.uvs[at[j]].ptr
        /\ \A v \in Open(h) : \E k \in 1 .. len : at[k] = v
    BY <1>1, <1>3 DEF Listed
  <1>5. dst \in Int
    BY DEF Slots
  <1>6. PICK i \in 1 .. len + 1 : i = Position(h, dst)
    BY <1>1, <1>2, <1>5, PositionIs
  <1>7. /\ i # len + 1 => h.uvs[at[i]].ptr <= dst
        /\ \A m \in 1 .. i - 1 : h.uvs[at[m]].ptr > dst
    BY <1>1, <1>2, <1>5, <1>6, PositionIs
  <1>8. PICK u : u = Walk(h)[i]
    OBVIOUS
  <1>9. u = at[i] /\ u \in Nat
    <2>1. Walk(h) = [n \in 1 .. N + 1 |-> IF n <= len THEN at[n] ELSE 0]
      BY <1>1, <1>2, <1>3, WalkIs
    <2>2. i \in 1 .. N + 1 /\ (i <= len \/ i = len + 1) /\ i \in Int
      BY <1>4
    <2>3. u = IF i <= len THEN at[i] ELSE 0
      BY <2>1, <2>2, <1>8
    <2>4. QED BY <2>2, <2>3, <1>4
  <1>10. \A v \in Open(h) : v \in 1 .. N /\ v # 0 /\ h.uvs[v].ptr \in Int
    BY <1>2, <1>3, ElementFacts DEF Open
  <1>11. i = len + 1 \/ i \in 1 .. len
    BY <1>4
  <1>12. CASE u /= 0 /\ h.uvs[u].ptr = dst
    <2>1. CreateUpvalue(h, dst) = [h EXCEPT !.made = Append(@, u)]
      BY <1>6, <1>8, <1>12 DEF CreateUpvalue
    <2>2. PICK r : r = CreateUpvalue(h, dst)
      OBVIOUS
    <2>3. r.uvs = h.uvs /\ r.list = h.list
      BY <2>1, <2>2
    <2>4. r.made = Append(h.made, u)
      BY <2>1, <2>2
    <2>5. HeapOK(r)
      <3>1. HeapType(r)
        BY <2>3, <1>2 DEF HeapType
      <3>2. Open(r) = Open(h)
        BY <2>3 DEF Open
      <3>3. Listed(r, len, at)
        BY <3>2, <2>3, <1>1 DEF Listed
      <3>4. QED BY <3>1, <3>3 DEF HeapOK
    <2>6. u \in Open(r)
      <3>1. i \in 1 .. len
        BY <1>4, <1>9, <1>11, <1>12
      <3>2. QED BY <3>1, <2>3, <1>4, <1>9 DEF Open
    <2>7. Created(h, r, dst, u)
      BY <2>3, <2>4, <2>5, <2>6, <1>12 DEF Created
    <2>8. QED BY <2>2, <2>7, <1>9
  <1>13. CASE ~(u /= 0 /\ h.uvs[u].ptr = dst)
    <2>1. PICK r : r = LinkAt(h, dst, i)
      OBVIOUS
    <2>2. CreateUpvalue(h, dst) = r
      BY <2>1, <1>6, <1>8, <1>13 DEF CreateUpvalue
    <2>3. Linked(h, r, dst, at, i) /\ r.made = Append(h.made, N + 1)
      BY <2>1, <1>1, <1>2, <1>3, LinkIs
    <2>4. i # len + 1 => h.uvs[at[i]].ptr < dst
      <3>1. ASSUME i # len + 1 PROVE h.uvs[at[i]].ptr < dst
        <4>1. at[i] \in Open(h)
          BY <3>1, <1>4, <1>11
        <4>2. at[i] # 0 /\ h.uvs[at[i]].ptr \in Int
          BY <4>1, <1>10
        <4>3. QED BY <4>2, <3>1, <1>5, <1>7, <1>9, <1>13
      <3>2. QED BY <3>1
    <2>5. HeapType(r) /\ Listed(r, len + 1, Insert(at, i, Len(h.uvs) + 1))
      BY <2>3, <2>4, <1>1, <1>2, <1>5, <1>7, InsertOK
    <2>6. HeapOK(r)
      BY <2>5 DEF HeapOK
    <2>7. N + 1 \in Open(r) /\ r.uvs[N + 1].ptr = dst /\ Len(r.uvs) = N + 1
      BY <2>3, <1>3 DEF Linked, Open
    <2>8. \A v \in 1 .. N : Same(r.uvs[v], h.uvs[v])
      BY <2>3, <1>3 DEF Linked
    <2>9. ASSUME NEW v \in Open(h) PROVE h.uvs[v].ptr # dst
      <3>1. PICK k \in 1 .. len : at[k] = v
        BY <1>4
      <3>2. CASE k < i
        <4>1. k \in 1 .. i - 1
          BY <3>2
        <4>2. h.uvs[v].ptr > dst
          BY <4>1, <3>1, <1>7
        <4>3. QED BY <4>2, <1>5, <1>10
      <3>3. CASE k = i
        <4>1. i # len + 1
          BY <3>3, <1>4
        <4>2. QED BY <4>1, <3>1, <3>3, <2>4, <1>5, <1>10
      <3>4. CASE k > i
        <4>1. i # len + 1 /\ i \in 1 .. len /\ i < k
          <5>1. len \in Nat /\ i \in Nat /\ k \in Nat /\ k <= len /\ i >= 1
            BY <1>4
          <5>2. QED BY <5>1, <3>4
        <4>2. h.uvs[at[i]].ptr < dst /\ h.uvs[at[i]].ptr > h.uvs[v].ptr
          BY <4>1, <3>1, <2>4, <1>4
        <4>3. h.uvs[at[i]].ptr \in Int /\ h.uvs[v].ptr \in Int
          BY <4>1, <1>4, <1>10
        <4>4. QED BY <4>2, <4>3, <1>5
      <3>5. QED BY <3>2, <3>3, <3>4
    <2>10. Created(h, r, dst, N + 1)
      BY <2>3, <2>6, <2>7, <2>8, <2>9, <1>3 DEF Created
    <2>11. QED BY <2>2, <2>10
  <1>14. QED BY <1>12, <1>13

\* CloseUpvalues closes the open upvalues from base on, and no others.
ClosedAbove(base) ==
    /\ upvalues' \in Seq(UV) /\ Len(upvalues') = Len(upvalues)
    /\ \A u \in UpvalueIds :
         upvalues'[u] = IF ~upvalues[u].isClosed /\ upvalues[u].ptr >= base
                        THEN Close(upvalues[u]) ELSE upvalues[u]

Shift(at, k) == [n \in Int |-> at[n + k]]

\* The heap of the current state.
LEMMA HeapFields == Heap.uvs = upvalues /\ Heap.list = upvalueList /\ Heap.made = <<>>
  BY DEF Heap

\* Closing an upvalue copies its slot and changes nothing else.
LEMMA CloseFields ==
    ASSUME stack \in [Slots -> Values], NEW u \in UV
    PROVE  /\ Close(u) \in UV /\ Close(u).ptr = u.ptr /\ Close(u).prev = u.prev
           /\ Close(u).isClosed /\ Close(u).tv = stack[u.ptr]
  BY DEF Close, UV

\* Closing every open upvalue from base up leaves the list exact (CloseUpvalues,
\* runtime_utils.h: the loop stops at the first slot below base).
LEMMA CloseFromIs ==
    ASSUME HeapOK(Heap), stack \in [Slots -> Values], NEW base \in Int, CloseFrom(base)
    PROVE  HeapOK(Heap)' /\ ClosedAbove(base)
  <1>1. PICK len, at : Listed(Heap, len, at)
    BY DEF HeapOK
  <1>2. HeapType(Heap)
    BY DEF HeapOK
  <1>3. PICK N \in Nat : N = Len(upvalues)
    BY <1>2, HeapFields DEF HeapType
  <1>4. /\ upvalues \in Seq(UV) /\ \A u \in 1 .. N : upvalues[u] \in UV
        /\ \A u \in 1 .. N : upvalues[u].ptr \in Int /\ upvalues[u].prev \in 0 .. N
    BY <1>2, <1>3, HeapFields, ElementFacts DEF HeapType
  <1>5. /\ len \in Nat /\ len <= N /\ at \in [Int -> Nat]
        /\ at[1] = upvalueList /\ at[len + 1] = 0
        /\ \A k \in 1 .. len : at[k] \in Open(Heap) /\ upvalues[at[k]].prev = at[k + 1]
        /\ \A k, j \in 1 .. len : k < j => upvalues[at[k]].ptr > upvalues[at[j]].ptr
        /\ \A v \in Open(Heap) : \E k \in 1 .. len : at[k] = v
    BY <1>1, <1>3, HeapFields DEF Listed
  <1>6. \A v : v \in Open(Heap) <=> v \in 1 .. N /\ ~upvalues[v].isClosed
    BY <1>3, HeapFields DEF Open
  <1>7. PICK a \in Int : a = base - 1
    OBVIOUS
  <1>8. PICK stop \in 1 .. len + 1 : stop = Position(Heap, a)
    BY <1>1, <1>2, PositionIs
  <1>9. /\ stop # len + 1 => upvalues[at[stop]].ptr <= a
        /\ \A m \in 1 .. stop - 1 : upvalues[at[m]].ptr > a
    BY <1>1, <1>2, <1>8, PositionIs, HeapFields
  <1>10. Walk(Heap) = [n \in 1 .. N + 1 |-> IF n <= len THEN at[n] ELSE 0]
    BY <1>1, <1>2, <1>3, WalkIs, HeapFields
  <1>11. \A n \in 1 .. len + 1 : Walk(Heap)[n] = at[n]
    <2>1. ASSUME NEW n \in 1 .. len + 1 PROVE Walk(Heap)[n] = at[n]
      <3>1. n \in 1 .. N + 1 /\ (n <= len \/ n = len + 1)
        BY <1>5
      <3>2. Walk(Heap)[n] = IF n <= len THEN at[n] ELSE 0
        BY <3>1, <1>10
      <3>3. CASE n <= len
        BY <3>2, <3>3
      <3>4. CASE n = len + 1
        <4>1. ~(n <= len)
          BY <3>4, <1>5
        <4>2. QED BY <4>1, <3>2, <3>4, <1>5
      <3>5. QED BY <3>1, <3>3, <3>4
    <2>2. QED BY <2>1
  <1>12. stop \in Nat /\ stop > 0 /\ stop <= len + 1
    BY <1>5
  <1>13. PICK closing : closing = {Walk(Heap)[k] : k \in 1 .. (stop - 1)}
    OBVIOUS
  <1>14. closing = {at[k] : k \in 1 .. (stop - 1)}
    <2>1. \A k \in 1 .. (stop - 1) : k \in 1 .. len + 1
      BY <1>12, <1>5
    <2>2. \A k \in 1 .. (stop - 1) : Walk(Heap)[k] = at[k]
      BY <2>1, <1>11
    <2>3. QED BY <2>2, <1>13
  <1>15. /\ upvalues' = [u \in 1 .. N |-> IF u \in closing THEN Close(upvalues[u]) ELSE upvalues[u]]
         /\ upvalueList' = at[stop]
    <2>1. upvalueList' = Walk(Heap)[stop]
      BY <1>7, <1>8 DEF CloseFrom
    <2>2. upvalues' = [u \in 1 .. N |-> IF u \in closing THEN Close(upvalues[u]) ELSE upvalues[u]]
      BY <1>3, <1>7, <1>8, <1>13 DEF CloseFrom, UpvalueIds
    <2>3. QED BY <2>1, <2>2, <1>11
  <1>16. \A u \in 1 .. N : u \in closing <=> ~upvalues[u].isClosed /\ upvalues[u].ptr >= base
    <2>1. ASSUME NEW u \in 1 .. N, u \in closing PROVE ~upvalues[u].isClosed /\ upvalues[u].ptr >= base
      <3>1. PICK k \in 1 .. (stop - 1) : u = at[k]
        BY <2>1, <1>14
      <3>2. k \in 1 .. len /\ upvalues[u].ptr > a
        BY <3>1, <1>9, <1>12, <1>5
      <3>3. upvalues[u].ptr >= base
        BY <3>2, <1>4, <1>7
      <3>4. u \in Open(Heap)
        BY <3>1, <3>2, <1>5
      <3>5. QED BY <3>3, <3>4, <1>6
    <2>2. ASSUME NEW u \in 1 .. N, ~upvalues[u].isClosed, upvalues[u].ptr >= base PROVE u \in closing
      <3>1. PICK k \in 1 .. len : at[k] = u
        BY <2>2, <1>5, <1>6
      <3>2. ASSUME k >= stop PROVE FALSE
        <4>1. stop \in 1 .. len /\ stop # len + 1
          BY <3>2, <1>12, <1>5
        <4>2. upvalues[at[stop]].ptr <= a /\ upvalues[at[stop]].ptr \in Int
          BY <4>1, <1>9, <1>4, <1>5, <1>6
        <4>3. k = stop \/ upvalues[at[stop]].ptr > upvalues[u].ptr
          BY <4>1, <3>1, <3>2, <1>5
        <4>4. QED BY <4>2, <4>3, <3>1, <2>2, <1>4, <1>7
      <3>3. k \in 1 .. (stop - 1)
        BY <3>2, <1>12
      <3>4. QED BY <3>1, <3>3, <1>14
    <2>3. QED BY <2>1, <2>2
  <1>17. \A u \in 1 .. N : upvalues'[u] = IF u \in closing THEN Close(upvalues[u]) ELSE upvalues[u]
    BY <1>15
  <1>18. \A u \in 1 .. N : /\ upvalues'[u] \in UV
                           /\ upvalues'[u].ptr = upvalues[u].ptr /\ upvalues'[u].prev = upvalues[u].prev
    BY <1>17, <1>4, CloseFields
  <1>19. \A u \in 1 .. N : upvalues'[u].isClosed <=> upvalues[u].isClosed \/ u \in closing
    <2>1. ASSUME NEW u \in 1 .. N, u \in closing PROVE upvalues'[u].isClosed
      BY <2>1, <1>17, <1>4, CloseFields
    <2>2. ASSUME NEW u \in 1 .. N, u \notin closing PROVE upvalues'[u] = upvalues[u]
      BY <2>2, <1>17
    <2>3. QED BY <2>1, <2>2, Zenon
  <1>20. upvalues' \in Seq(UV) /\ Len(upvalues') = N
    <2>1. upvalues' \in [1 .. N -> UV]
      BY <1>15, <1>18
    <2>2. QED BY <2>1
  <1>21. ClosedAbove(base)
    BY <1>3, <1>16, <1>17, <1>20 DEF ClosedAbove, UpvalueIds
  <1>22. HeapType(Heap)'
    <2>1. at[stop] \in 0 .. N
      <3>1. stop = len + 1 \/ stop \in 1 .. len
        BY <1>12, <1>5
      <3>2. QED BY <3>1, <1>5, <1>6
    <2>2. QED BY <2>1, <1>4, <1>15, <1>18, <1>20 DEF HeapType, Heap
  <1>23. \A v : v \in Open(Heap)' <=> v \in Open(Heap) /\ v \notin closing
    BY <1>6, <1>19, <1>20 DEF Open, Heap
  <1>24. PICK k \in Nat : k = stop - 1
    BY <1>12
  <1>25. PICK n \in Nat : n = len - k
    BY <1>12, <1>24, <1>5
  <1>26. PICK b \in [Int -> Nat] : b = Shift(at, k)
    <2>1. \A m \in Int : at[m + k] \in Nat
      BY <1>5
    <2>2. QED BY <2>1 DEF Shift
  <1>27. \A m \in Int : b[m] = at[m + k]
    BY <1>26 DEF Shift
  <1>28. \A m \in 1 .. n : m + k \in 1 .. len /\ m + k >= stop
    BY <1>12, <1>24, <1>25, <1>5
  <1>29. \A m \in 1 .. n : at[m + k] \in Open(Heap)'
    <2>1. ASSUME NEW m \in 1 .. n PROVE at[m + k] \in Open(Heap)'
      <3>1. PICK x \in 1 .. len : x = m + k /\ x >= stop
        BY <1>28
      <3>2. at[x] \in Open(Heap) /\ at[x] \in 1 .. N
        BY <1>5, <1>6
      <3>3. ASSUME at[x] \in closing PROVE FALSE
        <4>1. PICK y \in 1 .. (stop - 1) : at[x] = at[y]
          BY <3>3, <1>14
        <4>2. y \in 1 .. len /\ y < x
          BY <3>1, <1>12, <1>5
        <4>3. upvalues[at[y]].ptr > upvalues[at[x]].ptr /\ upvalues[at[x]].ptr \in Int
          BY <4>2, <3>2, <1>4, <1>5
        <4>4. QED BY <4>1, <4>3
      <3>4. at[x] \in Open(Heap)'
        BY <3>2, <3>3, <1>23
      <3>5. QED BY <3>1, <3>4
    <2>2. QED BY <2>1
  <1>30. Listed(Heap, n, b)'
    <2>1. n <= Len(upvalues')
      BY <1>20, <1>25, <1>5
    <2>2. b[1] = upvalueList' /\ b[n + 1] = 0
      <3>1. 1 + k = stop /\ (n + 1) + k = len + 1
        BY <1>24, <1>25, <1>5, <1>12
      <3>2. b[1] = at[1 + k] /\ b[n + 1] = at[(n + 1) + k]
        BY <1>27
      <3>3. b[1] = at[stop] /\ b[n + 1] = at[len + 1]
        BY <3>1, <3>2, Zenon
      <3>4. QED BY <3>3, <1>15, <1>5
    <2>3. \A m \in 1 .. n : b[m] \in Open(Heap)' /\ upvalues'[b[m]].prev = b[m + 1]
      <3>1. ASSUME NEW m \in 1 .. n PROVE b[m] \in Open(Heap)' /\ upvalues'[b[m]].prev = b[m + 1]
        <4>1. PICK x \in 1 .. len : x = m + k
          BY <1>28
        <4>2. b[m] = at[x] /\ b[m + 1] = at[x + 1]
          <5>1. (m + 1) + k = x + 1
            BY <4>1
          <5>2. b[m + 1] = at[(m + 1) + k]
            BY <1>27
          <5>3. QED BY <4>1, <5>1, <5>2, <1>27
        <4>3. at[x] \in 1 .. N /\ upvalues[at[x]].prev = at[x + 1]
          BY <1>5, <1>6
        <4>4. at[x] \in Open(Heap)'
          BY <4>1, <1>29
        <4>5. upvalues'[at[x]].prev = at[x + 1]
          BY <4>3, <1>18
        <4>6. QED BY <4>2, <4>4, <4>5
      <3>2. QED BY <3>1
    <2>4. \A m, j \in 1 .. n : m < j => upvalues'[b[m]].ptr > upvalues'[b[j]].ptr
      <3>1. ASSUME NEW m \in 1 .. n, NEW j \in 1 .. n, m < j PROVE upvalues'[b[m]].ptr > upvalues'[b[j]].ptr
        <4>1. PICK x \in 1 .. len : x = m + k
          BY <1>28
        <4>2. PICK y \in 1 .. len : y = j + k
          BY <1>28
        <4>3. x < y /\ b[m] = at[x] /\ b[j] = at[y]
          BY <4>1, <4>2, <3>1, <1>27
        <4>4. at[x] \in 1 .. N /\ at[y] \in 1 .. N
          BY <1>5, <1>6
        <4>5. upvalues'[at[x]].ptr = upvalues[at[x]].ptr /\ upvalues'[at[y]].ptr = upvalues[at[y]].ptr
          BY <4>4, <1>18
        <4>6. upvalues[at[x]].ptr > upvalues[at[y]].ptr
          BY <4>3, <1>5
        <4>7. QED BY <4>3, <4>5, <4>6
      <3>2. QED BY <3>1
    <2>5. \A v \in Open(Heap)' : \E m \in 1 .. n : b[m] = v
      <3>1. ASSUME NEW v \in Open(Heap)' PROVE \E m \in 1 .. n : b[m] = v
        <4>1. v \in Open(Heap) /\ v \notin closing
          BY <1>23
        <4>2. PICK x \in 1 .. len : at[x] = v
          BY <4>1, <1>5
        <4>3. x \notin 1 .. (stop - 1)
          BY <4>1, <4>2, <1>14
        <4>4. PICK m \in 1 .. n : m + k = x
          <5>1. x - k \in 1 .. n /\ (x - k) + k = x
            BY <4>3, <1>12, <1>24, <1>25, <1>5
          <5>2. QED BY <5>1
        <4>5. b[m] = at[m + k]
          BY <1>27
        <4>6. QED BY <4>2, <4>4, <4>5
      <3>2. QED BY <3>1
    <2>6. Heap.uvs' = upvalues' /\ Heap.list' = upvalueList'
      BY DEF Heap
    <2>7. QED BY <2>1, <2>2, <2>3, <2>4, <2>5, <2>6 DEF Listed
  <1>31. QED BY <1>21, <1>22, <1>30 DEF HeapOK

-----------------------------------------------------------------------------
\* The invariant.

Closure == [self : Nat, selfVal : Values, uv : Nat, home : Nat, homeSelf : Values]

TypeOK ==
    /\ frames \in Seq(Nat) /\ Len(frames) <= MaxFrames
    /\ \A f \in 1 .. Len(frames) : frames[f] \in 0 .. Len(closures)
    /\ stack \in [Slots -> Values]
    /\ closures \in Seq(Closure)
    /\ throwing \in 0 .. Len(frames)

\* The frame of the method around the code of frame f, 0 once it is gone.
Home(f) == IF frames[f] = 0 THEN f ELSE closures[frames[f]].home

\* Captures refer to upvalues; those of 'self' are for local 0 of a frame, and
\* the others are not.
RefsOK(c) ==
    /\ closures[c].self \in 0 .. Len(upvalues) /\ closures[c].uv \in 0 .. Len(upvalues)
    /\ closures[c].self # 0 => \E f \in 1 .. MaxFrames : upvalues[closures[c].self].ptr = Base(f)
    /\ closures[c].uv # 0 => \E f \in 1 .. MaxFrames, l \in 1 .. NumLocals - 1 :
                               upvalues[closures[c].uv].ptr = Base(f) + l
\* A home is a method on the stack.
HomeOK(c) ==
    closures[c].home \in 0 .. Depth /\ (closures[c].home # 0 => frames[closures[c].home] = 0)
\* The captured 'self' is that of the method around the block.
SelfOK(c) == CapturedSelf(c) = closures[c].homeSelf
\* While the captured 'self' is open, its frame has the same home, and a 'self'
\* to follow if it is a block.
ChainOK(c) ==
    closures[c].self # 0 /\ ~upvalues[closures[c].self].isClosed =>
      \A f \in 1 .. Depth : upvalues[closures[c].self].ptr = Base(f) =>
        Home(f) = closures[c].home /\ (frames[f] # 0 => closures[frames[f]].self # 0)
\* The walk stays below the throwing block and among the blocks of its home.
ThrowOK ==
    throwing # 0 =>
      /\ frames[Depth] # 0 /\ Home(throwing) = closures[frames[Depth]].home
      /\ frames[throwing] # 0 => closures[frames[throwing]].self # 0
\* Open upvalues point to slots of frames on the stack.
OpenBelow == \A u \in Open(Heap) : upvalues[u].ptr < Base(Depth + 1)

Inv ==
    /\ TypeOK /\ HeapOK(Heap) /\ OpenBelow /\ SelfIsHomeSelf /\ ThrowOK
    /\ \A c \in ClosureIds : RefsOK(c) /\ HomeOK(c) /\ SelfOK(c) /\ ChainOK(c)

\* The invariant holds before the first call.
LEMMA InvInit == Init => Inv
  <1> SUFFICES ASSUME Init PROVE Inv
    OBVIOUS
  <1>1. TypeOK
    BY UpvaluesAssumption DEF Init, TypeOK, Closure
  <1>2. Open(Heap) = {} /\ OpenBelow
    BY DEF Init, OpenBelow, Open, Heap
  <1>3. HeapType(Heap)
    BY DEF HeapType, Heap, Init, UV
  <1>4. PICK at : at = [i \in Int |-> 0]
    OBVIOUS
  <1>5. at \in [Int -> Nat] /\ \A i \in Int : at[i] = 0
    BY <1>4
  <1>6. Heap.list = 0 /\ Len(Heap.uvs) = 0
    BY DEF Heap, Init
  <1>7. Listed(Heap, 0, at)
    BY <1>2, <1>5, <1>6 DEF Listed
  <1>8. SelfIsHomeSelf /\ ThrowOK
    BY DEF Init, SelfIsHomeSelf, ThrowOK, Depth
  <1>9. \A c \in ClosureIds : RefsOK(c) /\ HomeOK(c) /\ SelfOK(c) /\ ChainOK(c)
    BY DEF Init, ClosureIds
  <1>10. QED BY <1>1, <1>2, <1>3, <1>7, <1>8, <1>9 DEF Inv, HeapOK

\* What the types give.
LEMMA TypeFacts ==
    ASSUME TypeOK, HeapOK(Heap)
    PROVE  /\ Depth \in Nat /\ Depth <= MaxFrames /\ Depth = Len(frames)
           /\ \A f \in 1 .. Depth : frames[f] \in 0 .. Len(closures) /\ frames[f] \in Nat
           /\ \A c \in ClosureIds : closures[c] \in Closure
           /\ Len(upvalues) \in Nat /\ Len(closures) \in Nat /\ upvalues \in Seq(UV)
           /\ \A u \in UpvalueIds : /\ upvalues[u] \in UV /\ upvalues[u].ptr \in Slots
                                    /\ upvalues[u].ptr \in Int /\ upvalues[u].tv \in Values
           /\ \A u : u \in Open(Heap) <=> u \in UpvalueIds /\ ~upvalues[u].isClosed
           /\ MaxFrames \in Nat /\ NumLocals \in Nat /\ Nil \in Values
           /\ Slots \subseteq Int
  <1>1. HeapType(Heap) /\ Heap.uvs = upvalues
    BY HeapFields DEF HeapOK
  <1>2. \A u \in UpvalueIds : /\ upvalues[u] \in UV /\ upvalues[u].ptr \in Slots
                              /\ upvalues[u].ptr \in Int /\ upvalues[u].tv \in Values
    BY <1>1, ElementFacts DEF UpvalueIds
  <1>3. upvalues \in Seq(UV)
    BY <1>1 DEF HeapType
  <1>4. \A u : u \in Open(Heap) <=> u \in UpvalueIds /\ ~upvalues[u].isClosed
    BY <1>1 DEF Open, UpvalueIds
  <1>5. \A c \in ClosureIds : closures[c] \in Closure
    BY DEF TypeOK, ClosureIds
  <1>6. Depth \in Nat /\ Depth <= MaxFrames /\ Depth = Len(frames)
    BY DEF TypeOK, Depth
  <1>7. Len(upvalues) \in Nat /\ Len(closures) \in Nat
    BY <1>3 DEF TypeOK
  <1>8. MaxFrames \in Nat /\ NumLocals \in Nat /\ Nil \in Values /\ Slots \subseteq Int
    BY UpvaluesAssumption DEF Slots
  <1>9. \A f \in 1 .. Depth : frames[f] \in 0 .. Len(closures) /\ frames[f] \in Nat
    BY <1>7 DEF TypeOK, Depth
  <1>10. QED BY <1>2, <1>3, <1>4, <1>5, <1>6, <1>7, <1>8, <1>9

\* Local 0 of frame f, for frames on the stack and the one above.
LEMMA BaseSlot ==
    ASSUME NEW f \in 1 .. MaxFrames
    PROVE  Base(f) \in Slots /\ Base(f) \in Int /\ \A d \in Int : Base(f) < Base(d + 1) <=> f <= d
  <1>1. f \in Int /\ 0 \in 0 .. NumLocals - 1
    BY UpvaluesAssumption
  <1>2. Base(f) \in Int /\ Base(f) + 0 = Base(f)
    BY <1>1, BaseFacts
  <1>3. QED BY <1>1, <1>2, SlotFacts

\* Captures keep their shape while upvalues keep their slots.
LEMMA RefsKept ==
    ASSUME NEW c, RefsOK(c), Len(upvalues) \in Nat, Len(upvalues') \in Nat, Len(upvalues) <= Len(upvalues'),
           \A u \in UpvalueIds : upvalues'[u].ptr = upvalues[u].ptr,
           closures'[c].self = closures[c].self, closures'[c].uv = closures[c].uv
    PROVE  RefsOK(c)'
  <1>1. closures'[c].self \in 0 .. Len(upvalues') /\ closures'[c].uv \in 0 .. Len(upvalues')
    BY DEF RefsOK
  <1>2. ASSUME closures'[c].self # 0
        PROVE  \E f \in 1 .. MaxFrames : upvalues'[closures'[c].self].ptr = Base(f)
    <2>1. closures[c].self \in UpvalueIds
      BY <1>2 DEF RefsOK, UpvalueIds
    <2>2. QED BY <1>2, <2>1 DEF RefsOK
  <1>3. ASSUME closures'[c].uv # 0
        PROVE  \E f \in 1 .. MaxFrames, l \in 1 .. NumLocals - 1 : upvalues'[closures'[c].uv].ptr = Base(f) + l
    <2>1. closures[c].uv \in UpvalueIds
      BY <1>3 DEF RefsOK, UpvalueIds
    <2>2. QED BY <1>3, <2>1 DEF RefsOK
  <1>4. QED BY <1>1, <1>2, <1>3 DEF RefsOK, Base

\* A slot of 'self' is no other variable's.
LEMMA SelfSlots ==
    ASSUME NEW f \in 1 .. MaxFrames, NEW g \in 1 .. MaxFrames, NEW l \in 1 .. NumLocals - 1
    PROVE  Base(f) # Base(g) + l
  <1>1. f \in Int /\ g \in Int /\ 0 \in 0 .. NumLocals - 1 /\ l \in 0 .. NumLocals - 1 /\ l # 0
    BY UpvaluesAssumption
  <1>2. Base(f) \in Int /\ Base(f) + 0 = Base(f)
    BY <1>1, BaseFacts
  <1>3. Base(f) + 0 = Base(g) + l => 0 = l
    BY <1>1, SlotFacts
  <1>4. QED BY <1>1, <1>2, <1>3

-----------------------------------------------------------------------------
\* The steps.

\* A step that leaves the upvalues alone leaves the heap alone.
LEMMA HeapKept ==
    ASSUME HeapOK(Heap), UNCHANGED <<upvalues, upvalueList>>
    PROVE  HeapOK(Heap)' /\ Open(Heap)' = Open(Heap)
  <1>1. PICK len, at : Listed(Heap, len, at)
    BY DEF HeapOK
  <1>2. /\ Heap.uvs' = Heap.uvs /\ Heap.list' = Heap.list /\ Heap.uvs = upvalues
        /\ Open(Heap)' = Open(Heap)
    BY DEF Heap, Open
  <1>3. HeapType(Heap)'
    BY <1>2 DEF HeapOK, HeapType
  <1>4. Listed(Heap, len, at)'
    BY <1>1, <1>2 DEF Listed
  <1>5. QED BY <1>2, <1>3, <1>4 DEF HeapOK

\* The stack after a frame is set up.
LEMMA FrameIs ==
    ASSUME TypeOK, HeapOK(Heap), NEW f \in 1 .. MaxFrames, NEW v \in Values
    PROVE  /\ Frame(f, v) \in [Slots -> Values] /\ Frame(f, v)[Base(f)] = v
           /\ \A a \in Slots : a < Base(f) => Frame(f, v)[a] = stack[a]
  <1>1. Base(f) \in Slots /\ Base(f) \in Int /\ Base(f + 1) \in Int
    BY BaseSlot, BaseFacts
  <1>2. stack \in [Slots -> Values] /\ Nil \in Values /\ Slots \subseteq Int
    BY TypeFacts DEF TypeOK
  <1>3. \A a \in Slots : a < Base(f) => a # Base(f) /\ a \notin InFrame(f)
    BY <1>1, <1>2 DEF InFrame
  <1>4. QED BY <1>1, <1>2, <1>3 DEF Frame

\* The value of a variable that is captured.
LEMMA ValueType ==
    ASSUME TypeOK, HeapOK(Heap), NEW u \in UpvalueIds
    PROVE  Value(u) \in Values
  BY TypeFacts DEF TypeOK, Value

\* The captured 'self' of a closure is unchanged while its upvalue is.
LEMMA SelfKept ==
    ASSUME NEW c, RefsOK(c), SelfOK(c), closures'[c].self = closures[c].self,
           closures'[c].selfVal = closures[c].selfVal, closures'[c].homeSelf = closures[c].homeSelf,
           \A u \in UpvalueIds : (\E f \in 1 .. MaxFrames : upvalues[u].ptr = Base(f)) => Value(u)' = Value(u)
    PROVE  SelfOK(c)'
  <1>1. CASE closures[c].self = 0
    BY <1>1 DEF SelfOK, CapturedSelf
  <1>2. CASE closures[c].self # 0
    <2>1. closures[c].self \in UpvalueIds /\ \E f \in 1 .. MaxFrames : upvalues[closures[c].self].ptr = Base(f)
      BY <1>2 DEF RefsOK, UpvalueIds
    <2>2. PICK u \in UpvalueIds : u = closures[c].self
      BY <2>1
    <2>3. Value(u)' = Value(u)
      BY <2>1, <2>2
    <2>4. CapturedSelf(c) = Value(u)
      BY <2>2, <1>2 DEF CapturedSelf
    <2>5. CapturedSelf(c)' = Value(u)'
      BY <2>2, <1>2 DEF CapturedSelf, Value
    <2>6. QED BY <2>3, <2>4, <2>5 DEF SelfOK
  <1>3. QED BY <1>1, <1>2

\* A call pushes a frame for x, a method or a closure whose 'self' is v.
Calls(x, v) ==
    /\ throwing = 0 /\ Depth < MaxFrames /\ x \in 0 .. Len(closures) /\ v \in Values
    /\ x # 0 => v = closures[x].homeSelf
    /\ frames' = Append(frames, x) /\ stack' = Frame(Depth + 1, v)
    /\ UNCHANGED <<upvalues, upvalueList, closures, throwing>>

\* A call pushes a frame: nothing on the stack below it changes.
LEMMA CallStep ==
    ASSUME Inv, NEW x, NEW v, Calls(x, v)
    PROVE  Inv'
  <1>1. /\ throwing = 0 /\ Depth < MaxFrames /\ x \in 0 .. Len(closures) /\ v \in Values
        /\ x # 0 => v = closures[x].homeSelf
        /\ frames' = Append(frames, x) /\ stack' = Frame(Depth + 1, v)
        /\ UNCHANGED <<upvalues, upvalueList, closures, throwing>>
    BY DEF Calls
  <1> USE <1>1
  <1> USE DEF Depth
  <1>2. TypeOK /\ HeapOK(Heap) /\ OpenBelow /\ SelfIsHomeSelf
    BY DEF Inv
  <1>3. PICK d \in Nat : d = Len(frames) /\ d < MaxFrames
    BY <1>2, TypeFacts
  <1>4. d + 1 \in 1 .. MaxFrames /\ MaxFrames \in Nat
    BY <1>3, UpvaluesAssumption
  <1>5. /\ frames' \in Seq(Nat) /\ Len(frames') = d + 1 /\ frames'[d + 1] = x
        /\ \A f \in 1 .. d : frames'[f] = frames[f]
    <2>1. frames \in Seq(Nat) /\ x \in Nat
      BY <1>2, TypeFacts DEF TypeOK
    <2>2. QED BY <2>1, <1>3
  <1>6. \A f \in 1 .. d + 1 : f = d + 1 \/ f \in 1 .. d
    OBVIOUS
  <1>7. /\ stack' \in [Slots -> Values] /\ stack'[Base(d + 1)] = v
        /\ \A a \in Slots : a < Base(d + 1) => stack'[a] = stack[a]
    <2>1. stack' = Frame(d + 1, v)
      BY <1>3
    <2>2. QED BY <2>1, <1>2, <1>4, FrameIs
  <1>8. \A f \in 1 .. d : f \in 1 .. MaxFrames /\ Base(f) \in Slots /\ Base(f) < Base(d + 1)
    <2>1. ASSUME NEW f \in 1 .. d PROVE f \in 1 .. MaxFrames /\ Base(f) \in Slots /\ Base(f) < Base(d + 1)
      <3>1. f \in 1 .. MaxFrames /\ f <= d /\ d \in Int
        BY <1>3, <1>4
      <3>2. Base(f) \in Slots /\ \A e \in Int : Base(f) < Base(e + 1) <=> f <= e
        BY <3>1, BaseSlot
      <3>3. QED BY <3>1, <3>2
    <2>2. QED BY <2>1
  <1>9. TypeOK'
    <2>1. Len(frames') <= MaxFrames /\ 0 \in 0 .. Len(frames')
      BY <1>3, <1>4, <1>5
    <2>2. \A f \in 1 .. d : frames[f] \in 0 .. Len(closures)
      BY <1>2, <1>3 DEF TypeOK
    <2>3. \A f \in 1 .. Len(frames') : frames'[f] \in 0 .. Len(closures)
      <3>1. \A f \in 1 .. d + 1 : frames'[f] \in 0 .. Len(closures)
        BY <2>2, <1>5, <1>6
      <3>2. QED BY <3>1, <1>5
    <2>4. closures \in Seq(Closure)
      BY <1>2 DEF TypeOK
    <2>5. QED BY <2>1, <2>3, <2>4, <1>5, <1>7 DEF TypeOK
  <1>10. HeapOK(Heap)' /\ Open(Heap)' = Open(Heap)
    BY <1>2, HeapKept
  <1>11. \A u \in Open(Heap) : upvalues[u].ptr < Base(d + 1) /\ upvalues[u].ptr \in Slots /\ u \in UpvalueIds
    <2>1. \A u \in Open(Heap) : upvalues[u].ptr \in Slots /\ u \in UpvalueIds
      BY <1>2, TypeFacts
    <2>2. \A u \in Open(Heap) : upvalues[u].ptr < Base(d + 1)
      BY <1>2, <1>3 DEF OpenBelow
    <2>3. QED BY <2>1, <2>2
  <1>12. OpenBelow'
    <2>1. Base(d + 1) \in Int /\ Base((d + 1) + 1) = Base(d + 1) + NumLocals /\ NumLocals \in Nat
      <3>1. PICK e \in Int : e = d + 1
        OBVIOUS
      <3>2. Base(e) \in Int /\ Base(e + 1) = Base(e) + NumLocals /\ NumLocals \in Nat
        BY BaseFacts
      <3>3. QED BY <3>1, <3>2
    <2>2. \A u \in Open(Heap) : upvalues[u].ptr < Base((d + 1) + 1)
      <3>1. \A u \in Open(Heap) : upvalues[u].ptr \in Int
        BY <1>2, TypeFacts
      <3>2. QED BY <3>1, <2>1, <1>11
    <2>3. QED BY <2>2, <1>5, <1>10 DEF OpenBelow, Base
  <1>13. SelfIsHomeSelf'
    <2>1. ASSUME NEW f \in 1 .. d + 1, frames'[f] # 0 PROVE stack'[Base(f)] = closures[frames'[f]].homeSelf
      <3>1. CASE f = d + 1
        BY <3>1, <2>1, <1>5, <1>7
      <3>2. CASE f \in 1 .. d
        <4>1. stack'[Base(f)] = stack[Base(f)] /\ frames'[f] = frames[f]
          BY <3>2, <1>5, <1>7, <1>8
        <4>2. stack[Base(f)] = closures[frames[f]].homeSelf
          BY <4>1, <3>2, <2>1, <1>2, <1>3 DEF SelfIsHomeSelf
        <4>3. QED BY <4>1, <4>2
      <3>3. QED BY <3>1, <3>2, <1>6
    <2>2. QED BY <2>1, <1>5 DEF SelfIsHomeSelf, Base
  <1>14. ThrowOK'
    BY DEF ThrowOK
  <1>15. ASSUME NEW u \in UpvalueIds PROVE Value(u)' = Value(u)
    <2>1. CASE upvalues[u].isClosed
      BY <2>1 DEF Value
    <2>2. CASE ~upvalues[u].isClosed
      <3>1. u \in Open(Heap)
        BY <2>2, <1>2, TypeFacts
      <3>2. stack'[upvalues[u].ptr] = stack[upvalues[u].ptr]
        BY <3>1, <1>7, <1>11
      <3>3. QED BY <3>2, <2>2 DEF Value
    <2>3. QED BY <2>1, <2>2
  <1>16. ASSUME NEW c \in ClosureIds PROVE RefsOK(c)' /\ HomeOK(c)' /\ SelfOK(c)' /\ ChainOK(c)'
    <2>1. RefsOK(c) /\ HomeOK(c) /\ SelfOK(c) /\ ChainOK(c)
      BY DEF Inv
    <2>2. RefsOK(c)'
      BY <2>1 DEF RefsOK, Base
    <2>3. HomeOK(c)'
      <3>1. closures[c].home \in 0 .. d
        BY <2>1, <1>3 DEF HomeOK
      <3>2. closures[c].home # 0 => frames'[closures[c].home] = 0
        BY <3>1, <2>1, <1>5 DEF HomeOK
      <3>3. closures[c].home \in 0 .. d + 1
        BY <3>1
      <3>4. QED BY <3>2, <3>3, <1>5 DEF HomeOK
    <2>4. SelfOK(c)'
      BY <2>1, <1>15, SelfKept
    <2>5. ASSUME closures[c].self # 0, ~upvalues[closures[c].self].isClosed,
                 NEW f \in 1 .. d + 1, upvalues[closures[c].self].ptr = Base(f)
          PROVE  /\ (IF frames'[f] = 0 THEN f ELSE closures[frames'[f]].home) = closures[c].home
                 /\ frames'[f] # 0 => closures[frames'[f]].self # 0
      <3>1. closures[c].self \in Open(Heap)
        BY <2>1, <2>5, <1>2, TypeFacts DEF RefsOK, UpvalueIds
      <3>2. Base(f) < Base(d + 1)
        BY <3>1, <2>5, <1>11
      <3>3. f \in 1 .. d
        BY <3>2, <1>4, <1>6, BaseSlot
      <3>4. frames'[f] = frames[f]
        BY <3>3, <1>5
      <3>5. QED BY <3>3, <3>4, <2>1, <2>5, <1>3 DEF ChainOK, Home
    <2>6. ChainOK(c)'
      BY <2>5, <1>5 DEF ChainOK, Home, Base
    <2>7. QED BY <2>2, <2>3, <2>4, <2>6
  <1>17. ClosureIds' = ClosureIds
    BY DEF ClosureIds
  <1>18. QED BY <1>9, <1>10, <1>12, <1>13, <1>14, <1>16, <1>17 DEF Inv

\* A block is called with the 'self' of the method around it.
LEMMA CallBlockCalls ==
    ASSUME Inv, NEW c \in ClosureIds, CallBlock(c)
    PROVE  \E x, v : Calls(x, v)
  <1>1. CapturedSelf(c) = closures[c].homeSelf /\ closures[c] \in Closure
    BY TypeFacts DEF Inv, SelfOK
  <1>2. c \in 0 .. Len(closures) /\ closures[c].homeSelf \in Values
    BY <1>1 DEF ClosureIds, Closure
  <1>3. Calls(c, closures[c].homeSelf)
    BY <1>1, <1>2 DEF Calls, CallBlock, Running
  <1>4. QED BY <1>3

\* A method is called with the receiver of the message.
LEMMA CallMethodCalls ==
    ASSUME Inv, NEW v \in Values, CallMethod(v)
    PROVE  \E x, y : Calls(x, y)
  <1>1. 0 \in 0 .. Len(closures)
    BY TypeFacts DEF Inv
  <1>2. Calls(0, v)
    BY <1>1 DEF Calls, CallMethod
  <1>3. QED BY <1>2

\* Steps that leave the frames and the closures alone, and every 'self'.
LEMMA QuietStep ==
    ASSUME Inv, TypeOK', HeapOK(Heap)', ThrowOK', UNCHANGED <<frames, closures>>,
           Len(upvalues') = Len(upvalues),
           \A u \in UpvalueIds : upvalues'[u].ptr = upvalues[u].ptr,
           \A u \in UpvalueIds : upvalues[u].isClosed => upvalues'[u].isClosed,
           \A u \in UpvalueIds : (\E f \in 1 .. MaxFrames : upvalues[u].ptr = Base(f)) => Value(u)' = Value(u),
           \A f \in 1 .. MaxFrames : stack'[Base(f)] = stack[Base(f)]
    PROVE  Inv'
  <1>1. TypeOK /\ HeapOK(Heap) /\ OpenBelow /\ SelfIsHomeSelf
    BY DEF Inv
  <1>2. Depth' = Depth /\ Depth \in Nat /\ Depth <= MaxFrames /\ MaxFrames \in Nat
    BY <1>1, TypeFacts DEF Depth
  <1>3. UpvalueIds' = UpvalueIds /\ ClosureIds' = ClosureIds /\ Len(upvalues) \in Nat
    BY <1>1, TypeFacts DEF UpvalueIds, ClosureIds
  <1>4. \A u : u \in Open(Heap)' => u \in Open(Heap)
    <2>1. \A u : u \in Open(Heap)' <=> u \in UpvalueIds' /\ ~upvalues'[u].isClosed
      BY DEF Open, Heap, UpvalueIds
    <2>2. \A u : u \in Open(Heap) <=> u \in UpvalueIds /\ ~upvalues[u].isClosed
      BY DEF Open, Heap, UpvalueIds
    <2>3. QED BY <2>1, <2>2, <1>3
  <1>5. \A u \in Open(Heap) : u \in UpvalueIds
    BY DEF Open, Heap, UpvalueIds
  <1>6. OpenBelow'
    <2>1. \A u \in Open(Heap)' : upvalues'[u].ptr < Base(Depth + 1)
      BY <1>1, <1>4, <1>5 DEF OpenBelow
    <2>2. QED BY <2>1, <1>2 DEF OpenBelow, Base
  <1>7. SelfIsHomeSelf'
    <2>1. \A f \in 1 .. Depth : f \in 1 .. MaxFrames
      BY <1>2
    <2>2. \A f \in 1 .. Depth : frames[f] # 0 => stack'[Base(f)] = closures[frames[f]].homeSelf
      BY <1>1, <2>1 DEF SelfIsHomeSelf
    <2>3. QED BY <2>2, <1>2 DEF SelfIsHomeSelf, Base
  <1>8. ASSUME NEW c \in ClosureIds PROVE RefsOK(c)' /\ HomeOK(c)' /\ SelfOK(c)' /\ ChainOK(c)'
    <2>1. RefsOK(c) /\ HomeOK(c) /\ SelfOK(c) /\ ChainOK(c)
      BY DEF Inv
    <2>2. RefsOK(c)'
      BY <2>1, <1>3, RefsKept
    <2>3. HomeOK(c)'
      BY <2>1, <1>2 DEF HomeOK
    <2>4. SelfOK(c)'
      BY <2>1, SelfKept
    <2>5. ASSUME closures[c].self # 0, ~upvalues'[closures[c].self].isClosed
          PROVE  ~upvalues[closures[c].self].isClosed /\ upvalues'[closures[c].self].ptr = upvalues[closures[c].self].ptr
      <3>1. closures[c].self \in UpvalueIds
        BY <2>1, <2>5 DEF RefsOK, UpvalueIds
      <3>2. QED BY <3>1, <2>5, Zenon
    <2>6. ChainOK(c)'
      <3>1. ASSUME closures[c].self # 0, ~upvalues'[closures[c].self].isClosed,
                   NEW f \in 1 .. Depth, upvalues'[closures[c].self].ptr = Base(f)
            PROVE  Home(f) = closures[c].home /\ (frames[f] # 0 => closures[frames[f]].self # 0)
        BY <3>1, <2>1, <2>5 DEF ChainOK
      <3>2. QED BY <3>1, <1>2 DEF ChainOK, Home, Base
    <2>7. QED BY <2>2, <2>3, <2>4, <2>6
  <1>9. QED BY <1>3, <1>6, <1>7, <1>8 DEF Inv

\* A slot that is not local 0 of a frame is written.
LEMMA PutSlotStep ==
    ASSUME Inv, throwing = 0, NEW g \in 1 .. MaxFrames, NEW l \in 1 .. NumLocals - 1, NEW v \in Values,
           stack' = [stack EXCEPT ![Base(g) + l] = v],
           UNCHANGED <<frames, upvalues, upvalueList, closures, throwing>>
    PROVE  Inv'
  <1>1. TypeOK /\ HeapOK(Heap)
    BY DEF Inv
  <1>2. HeapOK(Heap)'
    BY <1>1, HeapKept
  <1>3. \A a \in Slots : a # Base(g) + l => stack'[a] = stack[a]
    BY <1>1 DEF TypeOK
  <1>4. TypeOK'
    <2>1. stack' \in [Slots -> Values]
      BY <1>1 DEF TypeOK
    <2>2. QED BY <2>1, <1>1 DEF TypeOK
  <1>5. ThrowOK'
    BY DEF ThrowOK
  <1>6. \A f \in 1 .. MaxFrames : stack'[Base(f)] = stack[Base(f)]
    <2>1. ASSUME NEW f \in 1 .. MaxFrames PROVE stack'[Base(f)] = stack[Base(f)]
      <3>1. Base(f) \in Slots /\ Base(f) # Base(g) + l
        BY SelfSlots, BaseSlot
      <3>2. QED BY <3>1, <1>3
    <2>2. QED BY <2>1
  <1>7. \A u \in UpvalueIds : (\E f \in 1 .. MaxFrames : upvalues[u].ptr = Base(f)) => Value(u)' = Value(u)
    BY <1>6 DEF Value
  <1>8. QED BY <1>2, <1>4, <1>5, <1>6, <1>7, QuietStep

\* The list does not depend on the values of the upvalues.
LEMMA HeapValues ==
    ASSUME HeapOK(Heap), upvalues' \in Seq(UV), Len(upvalues') = Len(upvalues), upvalueList' = upvalueList,
           \A u \in UpvalueIds : /\ upvalues'[u].ptr = upvalues[u].ptr /\ upvalues'[u].prev = upvalues[u].prev
                                 /\ (upvalues'[u].isClosed <=> upvalues[u].isClosed)
    PROVE  HeapOK(Heap)'
  <1>1. PICK len, at : Listed(Heap, len, at)
    BY DEF HeapOK
  <1>2. Heap.uvs' = upvalues' /\ Heap.list' = upvalueList'
    BY DEF Heap
  <1>3. Heap.uvs = upvalues /\ Heap.list = upvalueList
    BY HeapFields
  <1>4. \A u : u \in Open(Heap)' <=> u \in Open(Heap)
    <2>1. \A u : u \in Open(Heap)' <=> u \in UpvalueIds /\ ~upvalues'[u].isClosed
      BY DEF Open, Heap, UpvalueIds
    <2>2. \A u : u \in Open(Heap) <=> u \in UpvalueIds /\ ~upvalues[u].isClosed
      BY DEF Open, Heap, UpvalueIds
    <2>3. QED BY <2>1, <2>2, Zenon
  <1>5. \A u \in Open(Heap) : u \in UpvalueIds
    BY DEF Open, Heap, UpvalueIds
  <1>6. HeapType(Heap)'
    BY <1>2, <1>3 DEF HeapOK, HeapType, UpvalueIds
  <1>7. Listed(Heap, len, at)'
    <2>1. /\ len \in Nat /\ len <= Len(upvalues') /\ at \in [Int -> Nat]
          /\ at[1] = upvalueList' /\ at[len + 1] = 0
      BY <1>1, <1>3 DEF Listed
    <2>2. \A i \in 1 .. len : at[i] \in Open(Heap) /\ upvalues[at[i]].prev = at[i + 1]
      BY <1>1, <1>3 DEF Listed
    <2>3. \A i \in 1 .. len : at[i] \in Open(Heap)' /\ upvalues'[at[i]].prev = at[i + 1]
      BY <2>2, <1>4, <1>5
    <2>4. \A i, j \in 1 .. len : i < j => upvalues[at[i]].ptr > upvalues[at[j]].ptr
      BY <1>1, <1>3 DEF Listed
    <2>5. \A i, j \in 1 .. len : i < j => upvalues'[at[i]].ptr > upvalues'[at[j]].ptr
      BY <2>2, <2>4, <1>5
    <2>6. \A u \in Open(Heap)' : \E i \in 1 .. len : at[i] = u
      BY <1>1, <1>4 DEF Listed
    <2>7. QED BY <2>1, <2>3, <2>5, <2>6, <1>2 DEF Listed
  <1>8. QED BY <1>6, <1>7 DEF HeapOK

\* SetLocal writes a local that is not 'self'.
LEMMA SetLocalStep ==
    ASSUME Inv, NEW l \in 1 .. NumLocals - 1, NEW v \in Values, SetLocal(l, v)
    PROVE  Inv'
  <1>1. Depth \in 1 .. MaxFrames
    BY TypeFacts DEF Inv, SetLocal, Running
  <1>2. QED BY <1>1, PutSlotStep DEF SetLocal, Running

\* Writing through an upvalue, on the stack or into the upvalue.
LEMMA UpvaluePutStep ==
    ASSUME Inv, NEW v \in Values, UpvaluePut(v)
    PROVE  Inv'
  <1>1. TypeOK /\ HeapOK(Heap)
    BY DEF Inv
  <1>2. PICK c \in Nat : c = Last(frames) /\ c \in ClosureIds /\ closures[c].uv # 0
    <2>1. Depth \in 1 .. Depth /\ Last(frames) = frames[Depth]
      <3>1. Depth > 0 /\ Depth \in Nat
        BY <1>1, TypeFacts DEF UpvaluePut, Running
      <3>2. Last(frames) = frames[Depth]
        BY DEF Last, Depth
      <3>3. QED BY <3>1, <3>2
    <2>2. Last(frames) \in 0 .. Len(closures) /\ Last(frames) # 0 /\ Last(frames) \in Nat
      BY <2>1, <1>1, TypeFacts DEF UpvaluePut
    <2>3. QED BY <2>2 DEF UpvaluePut, ClosureIds
  <1>3. PICK u \in UpvalueIds : u = closures[c].uv
    BY <1>2 DEF Inv, RefsOK, UpvalueIds
  <1>4. PICK g \in 1 .. MaxFrames, l \in 1 .. NumLocals - 1 : upvalues[u].ptr = Base(g) + l
    BY <1>2, <1>3 DEF Inv, RefsOK
  <1>5. throwing = 0 /\ UNCHANGED <<frames, upvalueList, closures, throwing>>
    BY DEF UpvaluePut, Running
  <1>6. \/ upvalues[u].isClosed /\ upvalues' = [upvalues EXCEPT ![u].tv = v] /\ UNCHANGED stack
        \/ stack' = [stack EXCEPT ![upvalues[u].ptr] = v] /\ UNCHANGED upvalues
    BY <1>2, <1>3, Zenon DEF UpvaluePut
  <1>7. CASE stack' = [stack EXCEPT ![upvalues[u].ptr] = v] /\ UNCHANGED upvalues
    BY <1>4, <1>5, <1>7, PutSlotStep
  <1>8. CASE upvalues[u].isClosed /\ upvalues' = [upvalues EXCEPT ![u].tv = v] /\ UNCHANGED stack
    <2>1. upvalues \in Seq(UV) /\ upvalues[u] \in UV /\ u \in DOMAIN upvalues
      BY <1>1, TypeFacts DEF UpvalueIds
    <2>2. PICK x : x = [upvalues[u] EXCEPT !.tv = v]
      OBVIOUS
    <2>3. x \in UV /\ x.ptr = upvalues[u].ptr /\ x.prev = upvalues[u].prev /\ x.isClosed = upvalues[u].isClosed
      BY <2>1, <2>2 DEF UV
    <2>4. upvalues' = [upvalues EXCEPT ![u] = x]
      BY <2>2, <1>8
    <2>5. /\ upvalues' \in Seq(UV) /\ Len(upvalues') = Len(upvalues) /\ upvalues'[u] = x
          /\ \A w \in UpvalueIds : w # u => upvalues'[w] = upvalues[w]
      BY <2>1, <2>3, <2>4 DEF UpvalueIds
    <2>6. \A w \in UpvalueIds : /\ upvalues'[w].ptr = upvalues[w].ptr /\ upvalues'[w].prev = upvalues[w].prev
                                /\ upvalues'[w].isClosed = upvalues[w].isClosed
      BY <2>3, <2>5
    <2>7. HeapOK(Heap)'
      BY <2>5, <2>6, <1>1, <1>5, HeapValues
    <2>8. TypeOK' /\ ThrowOK'
      BY <1>1, <1>5, <1>8 DEF TypeOK, ThrowOK
    <2>9. \A w \in UpvalueIds : (\E f \in 1 .. MaxFrames : upvalues[w].ptr = Base(f)) => Value(w)' = Value(w)
      <3>1. ASSUME NEW w \in UpvalueIds, NEW f \in 1 .. MaxFrames, upvalues[w].ptr = Base(f)
            PROVE  upvalues'[w] = upvalues[w]
        BY <3>1, <1>4, <2>5, SelfSlots
      <3>2. stack' = stack
        BY <1>8
      <3>3. \A w \in UpvalueIds : upvalues'[w] = upvalues[w] => Value(w)' = Value(w)
        BY <3>2 DEF Value
      <3>4. QED BY <3>1, <3>3
    <2>10. \A w \in UpvalueIds : upvalues[w].isClosed => upvalues'[w].isClosed
      BY <2>6, Zenon
    <2>11. \A f \in 1 .. MaxFrames : stack'[Base(f)] = stack[Base(f)]
      BY <1>8
    <2>12. \A w \in UpvalueIds : upvalues'[w].ptr = upvalues[w].ptr
      BY <2>6
    <2>13. UNCHANGED <<frames, closures>> /\ Len(upvalues') = Len(upvalues)
      BY <2>5, <1>5
    <2>14. QED BY <2>7, <2>8, <2>9, <2>10, <2>11, <2>12, <2>13, QuietStep
  <1>9. QED BY <1>6, <1>7, <1>8

\* Closing upvalues keeps their slots, and the values of variables.
LEMMA ClosedFacts ==
    ASSUME TypeOK, HeapOK(Heap), NEW base \in Int, ClosedAbove(base),
           \A a \in Slots : a < base => stack'[a] = stack[a]
    PROVE  /\ Len(upvalues') = Len(upvalues)
           /\ \A u \in UpvalueIds : upvalues'[u].ptr = upvalues[u].ptr
           /\ \A u \in UpvalueIds : upvalues[u].isClosed => upvalues'[u].isClosed
           /\ \A u \in UpvalueIds : ~upvalues'[u].isClosed => upvalues[u].ptr < base
           /\ \A u \in UpvalueIds : Value(u)' = Value(u)
  <1>1. Len(upvalues') = Len(upvalues)
    BY DEF ClosedAbove
  <1>2. ASSUME NEW u \in UpvalueIds
        PROVE  /\ upvalues'[u].ptr = upvalues[u].ptr
               /\ upvalues[u].isClosed => upvalues'[u].isClosed
               /\ ~upvalues'[u].isClosed => upvalues[u].ptr < base
               /\ Value(u)' = Value(u)
    <2>1. /\ upvalues[u] \in UV /\ upvalues[u].ptr \in Slots /\ upvalues[u].ptr \in Int
          /\ stack \in [Slots -> Values]
      BY TypeFacts DEF TypeOK
    <2>2. CASE ~upvalues[u].isClosed /\ upvalues[u].ptr >= base
      <3>1. upvalues'[u] = Close(upvalues[u])
        BY <2>2 DEF ClosedAbove
      <3>2. /\ upvalues'[u].ptr = upvalues[u].ptr /\ upvalues'[u].isClosed
            /\ upvalues'[u].tv = stack[upvalues[u].ptr]
        BY <3>1, <2>1, CloseFields
      <3>3. QED BY <3>2, <2>2 DEF Value
    <2>3. CASE upvalues[u].isClosed
      <3>1. upvalues'[u] = upvalues[u]
        BY <2>3 DEF ClosedAbove
      <3>2. QED BY <3>1, <2>3 DEF Value
    <2>4. CASE ~upvalues[u].isClosed /\ ~(upvalues[u].ptr >= base)
      <3>1. upvalues'[u] = upvalues[u]
        BY <2>4 DEF ClosedAbove
      <3>2. upvalues[u].ptr < base
        BY <2>4, <2>1
      <3>3. stack'[upvalues[u].ptr] = stack[upvalues[u].ptr]
        BY <3>2, <2>1
      <3>4. QED BY <3>1, <3>2, <3>3, <2>4 DEF Value
    <2>5. QED BY <2>2, <2>3, <2>4
  <1>3. QED BY <1>1, <1>2

\* UpvalueClose closes the locals of the scope that ends, in the running frame.
LEMMA UpvalueCloseStep ==
    ASSUME Inv, NEW l \in 1 .. NumLocals - 1, UpvalueClose(l)
    PROVE  Inv'
  <1>1. TypeOK /\ HeapOK(Heap) /\ stack \in [Slots -> Values]
    BY DEF Inv, TypeOK
  <1>2. PICK b \in Int : b = Base(Depth) + l
    <2>1. Depth \in Int /\ l \in Int
      BY <1>1, TypeFacts
    <2>2. Base(Depth) \in Int
      BY <2>1, BaseFacts
    <2>3. QED BY <2>1, <2>2
  <1>3. CloseFrom(b) /\ throwing = 0 /\ UNCHANGED <<frames, stack, closures, throwing>>
    BY <1>2 DEF UpvalueClose, CloseUpvalues, Running
  <1>4. HeapOK(Heap)' /\ ClosedAbove(b)
    BY <1>1, <1>3, CloseFromIs
  <1>5. TypeOK' /\ ThrowOK'
    BY <1>1, <1>3 DEF TypeOK, ThrowOK
  <1>6. \A a \in Slots : a < b => stack'[a] = stack[a]
    BY <1>3
  <1>7. /\ Len(upvalues') = Len(upvalues)
        /\ \A u \in UpvalueIds : upvalues'[u].ptr = upvalues[u].ptr
        /\ \A u \in UpvalueIds : upvalues[u].isClosed => upvalues'[u].isClosed
        /\ \A u \in UpvalueIds : Value(u)' = Value(u)
    BY <1>1, <1>4, <1>6, ClosedFacts
  <1>8. \A f \in 1 .. MaxFrames : stack'[Base(f)] = stack[Base(f)]
    BY <1>3
  <1>9. UNCHANGED <<frames, closures>>
    BY <1>3
  <1>10. QED BY <1>4, <1>5, <1>7, <1>8, <1>9, QuietStep

\* The walk of a non-local return moves to the frame g of the same home.
LEMMA WalkStepOK ==
    ASSUME Inv, NEW g \in 1 .. Depth, frames[Depth] # 0, Home(g) = closures[frames[Depth]].home,
           frames[g] # 0 => closures[frames[g]].self # 0,
           throwing' = g, UNCHANGED <<frames, stack, upvalues, upvalueList, closures>>
    PROVE  Inv'
  <1>1. TypeOK /\ HeapOK(Heap)
    BY DEF Inv
  <1>2. HeapOK(Heap)'
    BY <1>1, HeapKept
  <1>3. g \in 0 .. Len(frames)
    BY <1>1, TypeFacts DEF Depth
  <1>4. TypeOK'
    BY <1>1, <1>3 DEF TypeOK
  <1>5. ThrowOK'
    BY DEF ThrowOK, Home, Depth
  <1>6. \A u \in UpvalueIds : Value(u)' = Value(u)
    BY DEF Value
  <1>7. QED BY <1>2, <1>4, <1>5, <1>6, QuietStep

\* A non-local return starts at the running block, which has its own home.
LEMMA ThrowStep ==
    ASSUME Inv, Throw
    PROVE  Inv'
  <1>1. Depth \in 1 .. Depth /\ Last(frames) = frames[Depth]
    BY TypeFacts DEF Inv, Throw, Running, Last, Depth
  <1>2. frames[Depth] # 0 /\ closures[frames[Depth]].self # 0 /\ throwing' = Depth
    BY <1>1 DEF Throw
  <1>3. Home(Depth) = closures[frames[Depth]].home
    BY <1>2 DEF Home
  <1>4. UNCHANGED <<frames, stack, upvalues, upvalueList, closures>>
    BY DEF Throw
  <1>5. QED BY <1>1, <1>2, <1>3, <1>4, WalkStepOK

\* The frame an open 'self' upvalue points to is on the stack.
LEMMA CreatorIs ==
    ASSUME Inv, NEW c \in ClosureIds, closures[c].self # 0, ~upvalues[closures[c].self].isClosed
    PROVE  \E g \in 1 .. Depth : /\ upvalues[closures[c].self].ptr = Base(g)
                                 /\ FrameOf(upvalues[closures[c].self].ptr) = g
  <1>1. TypeOK /\ HeapOK(Heap) /\ OpenBelow /\ RefsOK(c)
    BY DEF Inv
  <1>2. PICK u \in UpvalueIds : u = closures[c].self
    BY <1>1 DEF RefsOK, UpvalueIds
  <1>3. PICK g \in 1 .. MaxFrames : upvalues[u].ptr = Base(g)
    BY <1>1, <1>2 DEF RefsOK
  <1>4. Base(g) < Base(Depth + 1) /\ Depth \in Int
    BY <1>1, <1>2, <1>3, TypeFacts DEF OpenBelow
  <1>5. g <= Depth
    BY <1>4, BaseSlot
  <1>6. FrameOf(Base(g)) = g
    <2>1. g \in Int /\ 0 \in 0 .. NumLocals - 1
      BY UpvaluesAssumption
    <2>2. FrameOf(Base(g) + 0) = g
      BY <2>1, SlotFacts
    <2>3. Base(g) + 0 = Base(g)
      BY BaseSlot
    <2>4. QED BY <2>2, <2>3
  <1>7. g \in 1 .. Depth
    BY <1>4, <1>5
  <1>8. QED BY <1>2, <1>3, <1>6, <1>7

\* The throw follows an open 'self' upvalue to the frame that made the block:
\* ChainOK says that this frame has the same home.
LEMMA WalkToCreatorStep ==
    ASSUME Inv, WalkToCreator
    PROVE  Inv'
  <1>1. TypeOK /\ HeapOK(Heap) /\ ThrowOK
    BY DEF Inv
  <1>2. throwing \in 1 .. Depth /\ frames[throwing] # 0 /\ ~upvalues[closures[frames[throwing]].self].isClosed
    <2>1. throwing \in 0 .. Depth /\ throwing # 0
      BY <1>1 DEF WalkToCreator, TypeOK, Depth
    <2>2. throwing \in 1 .. Depth
      BY <2>1, <1>1, TypeFacts
    <2>3. QED BY <2>2 DEF WalkToCreator, SelfUpvalue
  <1>3. PICK c \in ClosureIds : c = frames[throwing]
    BY <1>1, <1>2, TypeFacts DEF ClosureIds
  <1>4. closures[c].self # 0 /\ closures[c].home = closures[frames[Depth]].home /\ frames[Depth] # 0
    BY <1>1, <1>2, <1>3 DEF ThrowOK, Home
  <1>5. ~upvalues[closures[c].self].isClosed
    BY <1>2, <1>3
  <1>6. PICK g \in 1 .. Depth : /\ upvalues[closures[c].self].ptr = Base(g)
                                /\ FrameOf(upvalues[closures[c].self].ptr) = g
    BY <1>4, <1>5, CreatorIs
  <1>7. ChainOK(c)
    BY DEF Inv
  <1>8. Home(g) = closures[c].home /\ (frames[g] # 0 => closures[frames[g]].self # 0)
    BY <1>4, <1>5, <1>6, <1>7 DEF ChainOK
  <1>9. throwing' = g /\ UNCHANGED <<frames, stack, upvalues, upvalueList, closures>>
    BY <1>3, <1>6 DEF WalkToCreator, SelfUpvalue
  <1>10. QED BY <1>4, <1>8, <1>9, WalkStepOK

\* What a return leaves of the closures once the frames above k are gone.
Unwound(k) ==
    /\ closures' \in Seq(Closure) /\ Len(closures') = Len(closures)
    /\ \A c \in ClosureIds :
         /\ closures'[c].self = closures[c].self /\ closures'[c].uv = closures[c].uv
         /\ closures'[c].selfVal = closures[c].selfVal /\ closures'[c].homeSelf = closures[c].homeSelf
         /\ closures'[c].home = IF closures[c].home > k THEN 0 ELSE closures[c].home

\* The frames above k go, or a method takes the place of frame k + 1.
Unwinds(k) ==
    /\ k \in Nat /\ k < Depth /\ CloseFrom(Base(k + 1)) /\ Unwound(k) /\ throwing' = 0
    /\ stack' \in [Slots -> Values] /\ (\A a \in Slots : a < Base(k + 1) => stack'[a] = stack[a])
    /\ frames' \in Seq(Nat) /\ (\A f \in 1 .. k : frames'[f] = frames[f])
    /\ Len(frames') = k \/ (Len(frames') = k + 1 /\ frames'[k + 1] = 0)

\* Returning to frame k closes what the frames above it own, forgets them as homes
\* and keeps the invariant, whatever takes their place.
LEMMA UnwindStep ==
    ASSUME Inv, NEW k, Unwinds(k)
    PROVE  Inv'
  <1>1. /\ k \in Nat /\ k < Depth /\ CloseFrom(Base(k + 1)) /\ Unwound(k) /\ throwing' = 0
        /\ stack' \in [Slots -> Values] /\ (\A a \in Slots : a < Base(k + 1) => stack'[a] = stack[a])
        /\ frames' \in Seq(Nat) /\ (\A f \in 1 .. k : frames'[f] = frames[f])
        /\ Len(frames') = k \/ (Len(frames') = k + 1 /\ frames'[k + 1] = 0)
    BY DEF Unwinds
  <1> USE <1>1
  <1>2. TypeOK /\ HeapOK(Heap) /\ SelfIsHomeSelf /\ stack \in [Slots -> Values]
    BY DEF Inv, TypeOK
  <1>3. /\ Depth \in Nat /\ Depth <= MaxFrames /\ MaxFrames \in Nat /\ Len(closures) \in Nat
        /\ Len(upvalues) \in Nat
    BY <1>2, TypeFacts
  <1>4. PICK b \in Int : b = Base(k + 1)
    <2>1. k + 1 \in Int
      OBVIOUS
    <2>2. QED BY <2>1, BaseFacts
  <1>5. HeapOK(Heap)' /\ ClosedAbove(b)
    BY <1>2, <1>4, CloseFromIs
  <1>6. /\ Len(upvalues') = Len(upvalues)
        /\ \A u \in UpvalueIds : upvalues'[u].ptr = upvalues[u].ptr
        /\ \A u \in UpvalueIds : upvalues[u].isClosed => upvalues'[u].isClosed
        /\ \A u \in UpvalueIds : ~upvalues'[u].isClosed => upvalues[u].ptr < b
        /\ \A u \in UpvalueIds : Value(u)' = Value(u)
    BY <1>2, <1>4, <1>5, ClosedFacts
  <1>7. UpvalueIds' = UpvalueIds /\ ClosureIds' = ClosureIds
    BY <1>6 DEF UpvalueIds, ClosureIds, Unwound
  <1>8. PICK d \in Nat : d = Len(frames') /\ d = Depth' /\ k <= d /\ d <= MaxFrames /\ d <= Depth /\ d <= k + 1
    BY <1>3 DEF Depth
  <1>9. \A f \in 1 .. d : f \in 1 .. k \/ (f = k + 1 /\ frames'[f] = 0)
    BY <1>8
  <1>10. \A f \in 1 .. k : f \in 1 .. Depth /\ f \in 1 .. MaxFrames /\ Base(f) \in Slots /\ Base(f) < b
    <2>1. ASSUME NEW f \in 1 .. k PROVE f \in 1 .. Depth /\ f \in 1 .. MaxFrames /\ Base(f) \in Slots /\ Base(f) < b
      <3>1. f \in 1 .. Depth /\ f \in 1 .. MaxFrames /\ f <= k /\ k \in Int
        BY <1>3
      <3>2. Base(f) \in Slots /\ \A e \in Int : Base(f) < Base(e + 1) <=> f <= e
        BY <3>1, BaseSlot
      <3>3. QED BY <3>1, <3>2, <1>4
    <2>2. QED BY <2>1
  <1>11. \A f \in 1 .. k : frames[f] \in 0 .. Len(closures)
    BY <1>2, <1>10, TypeFacts
  <1>12. TypeOK'
    <2>1. \A f \in 1 .. d : frames'[f] \in 0 .. Len(closures)
      BY <1>3, <1>9, <1>11
    <2>2. \A f \in 1 .. Len(frames') : frames'[f] \in 0 .. Len(closures')
      BY <2>1, <1>8 DEF Unwound
    <2>3. Len(frames') <= MaxFrames /\ throwing' \in 0 .. Len(frames')
      BY <1>8
    <2>4. closures' \in Seq(Closure)
      BY DEF Unwound
    <2>5. QED BY <2>2, <2>3, <2>4 DEF TypeOK
  <1>13. \A u \in UpvalueIds : ~upvalues'[u].isClosed => upvalues'[u].ptr < b /\ upvalues'[u].ptr \in Int
    BY <1>2, <1>6, TypeFacts
  <1>14. OpenBelow'
    <2>1. Base(k + 1) <= Base(d + 1) /\ Base(d + 1) \in Int
      <3>1. PICK e \in Int : e = k + 1
        OBVIOUS
      <3>2. PICK e2 \in Int : e2 = d + 1
        OBVIOUS
      <3>3. Base(e) \in Int /\ Base(e2) \in Int /\ NumLocals \in Nat
        BY BaseFacts
      <3>4. e < e2 => Base(e) + NumLocals <= Base(e2)
        BY BaseOrder
      <3>5. e < e2 \/ e = e2
        <4>1. k <= d /\ k \in Int /\ d \in Int
          BY <1>8
        <4>2. QED BY <4>1, <3>1, <3>2
      <3>6. Base(e) <= Base(e2)
        BY <3>3, <3>4, <3>5
      <3>7. QED BY <3>1, <3>2, <3>3, <3>6
    <2>2. \A u \in UpvalueIds : ~upvalues'[u].isClosed => upvalues'[u].ptr < Base(d + 1)
      BY <2>1, <1>4, <1>13
    <2>3. \A u : u \in Open(Heap)' <=> u \in UpvalueIds /\ ~upvalues'[u].isClosed
      BY <1>6 DEF Open, Heap, UpvalueIds
    <2>4. QED BY <2>2, <2>3, <1>8 DEF OpenBelow, Base
  <1>15. SelfIsHomeSelf'
    <2>1. ASSUME NEW f \in 1 .. d, frames'[f] # 0 PROVE stack'[Base(f)] = closures'[frames'[f]].homeSelf
      <3>1. f \in 1 .. k
        BY <2>1, <1>9
      <3>2. frames'[f] = frames[f] /\ stack'[Base(f)] = stack[Base(f)] /\ f \in 1 .. Depth
        BY <3>1, <1>4, <1>10
      <3>3. stack[Base(f)] = closures[frames[f]].homeSelf
        BY <3>2, <2>1, <1>2 DEF SelfIsHomeSelf
      <3>4. frames[f] \in ClosureIds
        BY <3>1, <3>2, <2>1, <1>11 DEF ClosureIds
      <3>5. QED BY <3>2, <3>3, <3>4 DEF Unwound
    <2>2. QED BY <2>1, <1>8 DEF SelfIsHomeSelf, Base
  <1>16. ThrowOK'
    BY DEF ThrowOK
  <1>17. ASSUME NEW c \in ClosureIds PROVE RefsOK(c)' /\ HomeOK(c)' /\ SelfOK(c)' /\ ChainOK(c)'
    <2>1. RefsOK(c) /\ HomeOK(c) /\ SelfOK(c) /\ ChainOK(c)
      BY DEF Inv
    <2>2. /\ closures'[c].self = closures[c].self /\ closures'[c].uv = closures[c].uv
          /\ closures'[c].selfVal = closures[c].selfVal /\ closures'[c].homeSelf = closures[c].homeSelf
          /\ closures'[c].home = IF closures[c].home > k THEN 0 ELSE closures[c].home
      BY DEF Unwound
    <2>3. RefsOK(c)'
      BY <2>1, <2>2, <1>3, <1>6, RefsKept
    <2>4. HomeOK(c)'
      <3>1. closures[c].home \in 0 .. Depth /\ (closures[c].home # 0 => frames[closures[c].home] = 0)
        BY <2>1 DEF HomeOK
      <3>2. closures'[c].home \in 0 .. k /\ closures'[c].home \in 0 .. d
        BY <3>1, <2>2, <1>3, <1>8
      <3>3. closures'[c].home # 0 => frames'[closures'[c].home] = 0
        BY <3>1, <3>2, <2>2
      <3>4. QED BY <3>2, <3>3, <1>8 DEF HomeOK
    <2>5. SelfOK(c)'
      BY <2>1, <2>2, <1>6, SelfKept
    <2>6. ASSUME closures'[c].self # 0, ~upvalues'[closures'[c].self].isClosed,
                 NEW f \in 1 .. d, upvalues'[closures'[c].self].ptr = Base(f)
          PROVE  /\ (IF frames'[f] = 0 THEN f ELSE closures'[frames'[f]].home) = closures'[c].home
                 /\ frames'[f] # 0 => closures'[frames'[f]].self # 0
      <3>1. PICK u \in UpvalueIds : u = closures[c].self
        BY <2>1, <2>2, <2>6 DEF RefsOK, UpvalueIds
      <3>2. ~upvalues[u].isClosed /\ upvalues[u].ptr = Base(f) /\ Base(f) < b
        <4>1. ~upvalues'[u].isClosed /\ upvalues'[u].ptr = Base(f)
          BY <3>1, <2>2, <2>6
        <4>2. ~upvalues[u].isClosed
          BY <4>1, <1>6, Zenon
        <4>3. upvalues[u].ptr = Base(f) /\ upvalues[u].ptr < b
          BY <4>1, <1>6
        <4>4. QED BY <4>2, <4>3
      <3>3. f \in 1 .. k
        BY <3>2, <1>4, <1>9
      <3>4. frames'[f] = frames[f] /\ f \in 1 .. Depth
        BY <3>3, <1>10
      <3>5. Home(f) = closures[c].home /\ (frames[f] # 0 => closures[frames[f]].self # 0)
        BY <3>1, <3>2, <3>4, <2>1, <2>2, <2>6 DEF ChainOK
      <3>6. CASE frames[f] = 0
        <4>1. closures[c].home = f
          BY <3>5, <3>6 DEF Home
        <4>2. closures'[c].home = f
          BY <4>1, <3>3, <2>2
        <4>3. QED BY <4>2, <3>4, <3>6
      <3>7. CASE frames[f] # 0
        <4>1. frames[f] \in ClosureIds
          BY <3>3, <3>7, <1>11 DEF ClosureIds
        <4>2. closures[frames[f]].home = closures[c].home
          BY <3>5, <3>7 DEF Home
        <4>3. closures'[frames[f]].home = closures'[c].home /\ closures'[frames[f]].self = closures[frames[f]].self
          BY <4>1, <4>2, <2>2 DEF Unwound
        <4>4. QED BY <4>3, <3>4, <3>5, <3>7
      <3>8. QED BY <3>6, <3>7
    <2>7. ChainOK(c)'
      BY <2>6, <1>8 DEF ChainOK, Home, Base
    <2>8. QED BY <2>3, <2>4, <2>5, <2>7
  <1>18. QED BY <1>5, <1>7, <1>12, <1>14, <1>15, <1>16, <1>17 DEF Inv

\* Homes(k) forgets the homes above frame k and nothing else.
LEMMA HomesIs ==
    ASSUME TypeOK, NEW k \in Nat, closures' = Homes(k)
    PROVE  Unwound(k)
  <1>1. closures \in Seq(Closure) /\ Len(closures) \in Nat
    BY DEF TypeOK
  <1>2. \A c \in ClosureIds : closures[c] \in Closure
    BY <1>1 DEF ClosureIds
  <1>3. closures' = [c \in 1 .. Len(closures) |-> [closures[c] EXCEPT !.home = IF @ > k THEN 0 ELSE @]]
    BY DEF Homes, ClosureIds
  <1>4. ASSUME NEW c \in ClosureIds
        PROVE  /\ closures'[c] \in Closure
               /\ closures'[c].self = closures[c].self /\ closures'[c].uv = closures[c].uv
               /\ closures'[c].selfVal = closures[c].selfVal /\ closures'[c].homeSelf = closures[c].homeSelf
               /\ closures'[c].home = IF closures[c].home > k THEN 0 ELSE closures[c].home
    <2>1. closures'[c] = [closures[c] EXCEPT !.home = IF @ > k THEN 0 ELSE @]
      BY <1>3 DEF ClosureIds
    <2>2. closures[c] \in Closure
      BY <1>2
    <2>3. PICK x \in Closure : x = closures[c]
      BY <2>2
    <2>4. closures'[c] = [x EXCEPT !.home = IF x.home > k THEN 0 ELSE x.home]
      BY <2>1, <2>3
    <2>5. QED BY <2>3, <2>4 DEF Closure
  <1>5. closures' \in [1 .. Len(closures) -> Closure]
    BY <1>3, <1>4 DEF ClosureIds
  <1>6. closures' \in Seq(Closure) /\ Len(closures') = Len(closures)
    BY <1>1, <1>5
  <1>7. QED BY <1>4, <1>6 DEF Unwound

\* A return closes the upvalues of its frame and pops it.
LEMMA RetUnwinds ==
    ASSUME Inv, CompiledReturn
    PROVE  \E k \in Nat : Unwinds(k) /\ Len(frames') = k
  <1>1. TypeOK /\ HeapOK(Heap) /\ stack \in [Slots -> Values] /\ frames \in Seq(Nat)
    BY DEF Inv, TypeOK
  <1>2. PICK k \in Nat : k = Depth - 1
    BY <1>1, TypeFacts DEF CompiledReturn, Running
  <1>3. k + 1 = Depth /\ k < Depth /\ Depth = Len(frames) /\ Len(frames) \in Nat
    BY <1>1, <1>2, TypeFacts
  <1>4. CloseFrom(Base(k + 1)) /\ throwing' = 0 /\ stack' = stack
    BY <1>3 DEF CompiledReturn, Ret, CloseUpvalues, Running
  <1>5. Unwound(k)
    BY <1>1, <1>2, HomesIs DEF CompiledReturn, Ret
  <1>6. frames' = SubSeq(frames, 1, k)
    BY <1>2, <1>3 DEF CompiledReturn, Ret, Front
  <1>7. frames' \in Seq(Nat) /\ Len(frames') = k /\ \A f \in 1 .. k : frames'[f] = frames[f]
    BY <1>1, <1>3, <1>6
  <1>8. Unwinds(k)
    BY <1>1, <1>3, <1>4, <1>5, <1>7 DEF Unwinds
  <1>9. QED BY <1>7, <1>8

\* ReturnFromHome pops every frame from the home up.
LEMMA HomeUnwinds ==
    ASSUME Inv, NEW v \in Values, ReturnFromHome(v)
    PROVE  \E k \in Nat : Unwinds(k) /\ Len(frames') = k
  <1>1. TypeOK /\ HeapOK(Heap) /\ stack \in [Slots -> Values] /\ frames \in Seq(Nat)
    BY DEF Inv, TypeOK
  <1>2. throwing \in 1 .. Depth /\ Depth \in Nat /\ Depth <= MaxFrames /\ MaxFrames \in Nat
    <2>1. Depth \in Nat /\ Depth <= MaxFrames /\ MaxFrames \in Nat
      BY <1>1, TypeFacts
    <2>2. throwing \in 0 .. Depth /\ throwing # 0
      BY <1>1 DEF ReturnFromHome, TypeOK, Depth
    <2>3. QED BY <2>1, <2>2
  <1>3. PICK k \in Nat : k = throwing - 1
    BY <1>2
  <1>4. k + 1 = throwing /\ k < Depth /\ Depth = Len(frames)
    BY <1>2, <1>3 DEF Depth
  <1>5. CloseFrom(Base(k + 1)) /\ throwing' = 0 /\ stack' = [stack EXCEPT ![Base(k + 1)] = v]
    BY <1>4 DEF ReturnFromHome, CloseUpvalues
  <1>6. Unwound(k)
    BY <1>1, <1>3, HomesIs DEF ReturnFromHome
  <1>7. frames' = SubSeq(frames, 1, k)
    BY <1>3 DEF ReturnFromHome
  <1>8. frames' \in Seq(Nat) /\ Len(frames') = k /\ \A f \in 1 .. k : frames'[f] = frames[f]
    BY <1>1, <1>2, <1>4, <1>7
  <1>9. Base(k + 1) \in Slots /\ Base(k + 1) \in Int
    <2>1. throwing \in 1 .. MaxFrames
      BY <1>2
    <2>2. QED BY <2>1, <1>4, BaseSlot
  <1>10. stack' \in [Slots -> Values] /\ \A a \in Slots : a < Base(k + 1) => stack'[a] = stack[a]
    <2>1. PICK b \in Slots : b = Base(k + 1) /\ b \in Int
      BY <1>9
    <2>2. \A a \in Slots : a < b => a # b
      BY <2>1 DEF Slots
    <2>3. stack' = [stack EXCEPT ![b] = v]
      BY <2>1, <1>5
    <2>4. stack' \in [Slots -> Values] /\ \A a \in Slots : a # b => stack'[a] = stack[a]
      BY <2>3, <1>1
    <2>5. QED BY <2>1, <2>2, <2>4
  <1>11. Unwinds(k)
    BY <1>4, <1>5, <1>6, <1>8, <1>10 DEF Unwinds
  <1>12. QED BY <1>8, <1>11

\* EscapedBlock replaces the running frame by one of 'escapedBlock:'.
LEMMA EscapedUnwinds ==
    ASSUME Inv, EscapedBlock
    PROVE  \E k \in Nat, v \in Values : Unwinds(k) /\ Depth = k + 1 /\ Len(frames') = k + 1 /\ stack' = Frame(k + 1, v)
  <1>1. TypeOK /\ HeapOK(Heap) /\ ThrowOK /\ frames \in Seq(Nat) /\ closures \in Seq(Closure)
    BY DEF Inv, TypeOK
  <1>2. Depth \in 1 .. MaxFrames /\ Depth \in Nat /\ Depth = Len(frames) /\ Len(closures) \in Nat
    <2>1. Depth \in Nat /\ Depth <= MaxFrames /\ MaxFrames \in Nat /\ Depth = Len(frames) /\ Len(closures) \in Nat
      BY <1>1, TypeFacts
    <2>2. throwing \in 0 .. Depth /\ throwing # 0
      BY <1>1 DEF EscapedBlock, TypeOK, Depth
    <2>3. QED BY <2>1, <2>2
  <1>3. PICK k \in Nat : k + 1 = Depth /\ k < Depth
    <2>1. Depth - 1 \in Nat /\ (Depth - 1) + 1 = Depth /\ Depth - 1 < Depth
      BY <1>2
    <2>2. QED BY <2>1
  <1>4. frames[Depth] # 0
    BY <1>1 DEF ThrowOK, EscapedBlock
  <1>5. PICK c \in ClosureIds : c = frames[Depth]
    <2>1. Depth \in 1 .. Depth
      BY <1>2
    <2>2. frames[Depth] \in 0 .. Len(closures)
      BY <2>1, <1>1, TypeFacts
    <2>3. QED BY <2>2, <1>2, <1>4 DEF ClosureIds
  <1>6. PICK v \in Values : v = CapturedSelf(frames[Depth])
    <2>1. CapturedSelf(c) = closures[c].homeSelf /\ closures[c] \in Closure
      BY <1>1, TypeFacts DEF Inv, SelfOK
    <2>2. QED BY <2>1, <1>5 DEF Closure
  <1>7. CloseFrom(Base(k + 1)) /\ throwing' = 0 /\ stack' = Frame(k + 1, v) /\ closures' = closures
    BY <1>3, <1>6 DEF EscapedBlock, CloseUpvalues
  <1>8. stack' \in [Slots -> Values] /\ \A a \in Slots : a < Base(k + 1) => stack'[a] = stack[a]
    <2>1. k + 1 \in 1 .. MaxFrames
      BY <1>2, <1>3
    <2>2. QED BY <2>1, <1>1, <1>7, FrameIs
  <1>9. frames' = [frames EXCEPT ![k + 1] = 0]
    BY <1>3 DEF EscapedBlock
  <1>10. frames' \in Seq(Nat) /\ Len(frames') = k + 1 /\ frames'[k + 1] = 0 /\ \A f \in 1 .. k : frames'[f] = frames[f]
    BY <1>1, <1>2, <1>3, <1>9
  <1>11. Unwound(k)
    <2>1. ASSUME NEW e \in ClosureIds PROVE ~(closures[e].home > k)
      <3>1. closures[e].home \in 0 .. Depth /\ (closures[e].home # 0 => frames[closures[e].home] = 0)
        BY DEF Inv, HomeOK
      <3>2. closures[e].home # Depth
        BY <3>1, <1>2, <1>4
      <3>3. QED BY <3>1, <3>2, <1>2, <1>3
    <2>2. QED BY <2>1, <1>1, <1>7 DEF Unwound
  <1>12. Unwinds(k)
    BY <1>3, <1>7, <1>8, <1>10, <1>11 DEF Unwinds
  <1>13. QED BY <1>3, <1>7, <1>10, <1>12

\* r is h with upvalues added, the new ones open and for slots in S.
Grown(h, r, S) ==
    /\ HeapOK(r) /\ Len(h.uvs) <= Len(r.uvs)
    /\ \A v \in 1 .. Len(h.uvs) : Same(r.uvs[v], h.uvs[v])
    /\ \A v \in 1 .. Len(r.uvs) : v \in 1 .. Len(h.uvs) \/ (v \in Open(r) /\ r.uvs[v].ptr \in S)

\* A heap has a number of upvalues.
LEMMA HeapLen == \A h : HeapOK(h) => Len(h.uvs) \in Nat
  BY DEF HeapOK, HeapType

\* Creating an upvalue for a slot of S grows the heap by slots of S.
LEMMA CreatedGrown ==
    ASSUME NEW h, NEW r, NEW S, NEW dst \in S, NEW u, HeapOK(h), Created(h, r, dst, u)
    PROVE  Grown(h, r, S)
  <1>1. HeapOK(r) /\ u \in Open(r) /\ r.uvs[u].ptr = dst
    BY DEF Created
  <1>2. Len(h.uvs) \in Nat /\ Len(r.uvs) \in Nat
    BY <1>1, HeapLen
  <1>3. CASE r.uvs = h.uvs
    <2>1. \A v \in 1 .. Len(h.uvs) : Same(r.uvs[v], h.uvs[v])
      BY <1>3 DEF Same
    <2>2. QED BY <2>1, <1>1, <1>2, <1>3 DEF Grown
  <1>4. CASE r.uvs # h.uvs
    <2>1. /\ Len(r.uvs) = Len(h.uvs) + 1 /\ u = Len(h.uvs) + 1
          /\ \A v \in 1 .. Len(h.uvs) : Same(r.uvs[v], h.uvs[v])
      BY <1>4 DEF Created
    <2>2. \A v \in 1 .. Len(r.uvs) : v \in 1 .. Len(h.uvs) \/ v = u
      BY <2>1, <1>2
    <2>3. \A v \in 1 .. Len(r.uvs) : v \in 1 .. Len(h.uvs) \/ (v \in Open(r) /\ r.uvs[v].ptr \in S)
      BY <2>2, <1>1
    <2>4. Len(h.uvs) <= Len(r.uvs)
      BY <2>1, <1>2
    <2>5. QED BY <2>1, <2>3, <2>4, <1>1 DEF Grown
  <1>5. QED BY <1>3, <1>4

\* A heap is grown from itself.
LEMMA GrownSelf == \A h, S : HeapOK(h) => Grown(h, h, S)
  <1>1. ASSUME NEW h, NEW S, HeapOK(h) PROVE Grown(h, h, S)
    <2>1. Len(h.uvs) \in Nat
      BY <1>1, HeapLen
    <2>2. QED BY <1>1, <2>1 DEF Grown, Same
  <1>2. QED BY <1>1

\* An open upvalue stays open, for the same slot.
LEMMA GrownOpen ==
    ASSUME NEW h, NEW r, NEW S, Grown(h, r, S), HeapOK(h), NEW u \in Open(h)
    PROVE  u \in Open(r) /\ r.uvs[u].ptr = h.uvs[u].ptr
  <1>1. HeapOK(r) /\ Len(h.uvs) <= Len(r.uvs) /\ u \in 1 .. Len(h.uvs)
    BY DEF Grown, Open
  <1>2. Same(r.uvs[u], h.uvs[u]) /\ u \in 1 .. Len(r.uvs)
    BY <1>1, HeapLen DEF Grown
  <1>3. ~h.uvs[u].isClosed
    BY DEF Open
  <1>4. ~r.uvs[u].isClosed
    BY <1>2, <1>3, Zenon DEF Same
  <1>5. QED BY <1>2, <1>4 DEF Open, Same

\* Growing twice is growing.
LEMMA GrownTrans ==
    ASSUME NEW h, NEW r, NEW q, NEW S, HeapOK(h), Grown(h, r, S), Grown(r, q, S)
    PROVE  Grown(h, q, S)
  <1>1. HeapOK(r) /\ HeapOK(q)
    BY DEF Grown
  <1>2. Len(h.uvs) \in Nat /\ Len(r.uvs) \in Nat /\ Len(q.uvs) \in Nat
    BY <1>1, HeapLen
  <1>3. Len(h.uvs) <= Len(r.uvs) /\ Len(r.uvs) <= Len(q.uvs)
    BY DEF Grown
  <1>4. \A v \in 1 .. Len(h.uvs) : v \in 1 .. Len(r.uvs)
    BY <1>2, <1>3
  <1>5. \A v \in 1 .. Len(h.uvs) : Same(q.uvs[v], h.uvs[v])
    <2>1. ASSUME NEW v \in 1 .. Len(h.uvs) PROVE Same(q.uvs[v], h.uvs[v])
      <3>1. Same(r.uvs[v], h.uvs[v]) /\ Same(q.uvs[v], r.uvs[v])
        BY <1>4 DEF Grown
      <3>2. QED BY <3>1, Zenon DEF Same
    <2>2. QED BY <2>1
  <1>6. ASSUME NEW v \in 1 .. Len(q.uvs), v \notin 1 .. Len(h.uvs) PROVE v \in Open(q) /\ q.uvs[v].ptr \in S
    <2>1. CASE v \notin 1 .. Len(r.uvs)
      BY <2>1 DEF Grown
    <2>2. CASE v \in 1 .. Len(r.uvs)
      <3>1. v \in Open(r) /\ r.uvs[v].ptr \in S
        BY <2>2, <1>6 DEF Grown
      <3>2. QED BY <3>1, <1>1, GrownOpen
    <2>3. QED BY <2>1, <2>2
  <1>7. QED BY <1>1, <1>2, <1>3, <1>5, <1>6 DEF Grown

\* The heap of the next state.
LEMMA NextHeap ==
    ASSUME NEW h, HeapOK(h), upvalues' = h.uvs, upvalueList' = h.list
    PROVE  HeapOK(Heap)' /\ Open(Heap)' = Open(h)
  <1>1. PICK len, at : Listed(h, len, at)
    BY DEF HeapOK
  <1>2. Heap.uvs' = h.uvs /\ Heap.list' = h.list /\ Open(Heap)' = Open(h)
    BY DEF Heap, Open
  <1>3. HeapType(Heap)'
    BY <1>2 DEF HeapOK, HeapType
  <1>4. Listed(Heap, len, at)'
    BY <1>1, <1>2 DEF Listed
  <1>5. QED BY <1>2, <1>3, <1>4 DEF HeapOK

\* The closure that NewClosure appends.
NewOne(sm, fp, s, u) ==
    [self |-> s,
     selfVal |-> IF sm THEN Nil ELSE stack[Base(Depth)],
     uv |-> IF fp THEN closures[Last(frames)].uv ELSE u,
     home |-> IF Last(frames) = 0 THEN Depth ELSE closures[Last(frames)].home,
     homeSelf |-> IF Last(frames) = 0 THEN stack[Base(Depth)] ELSE closures[Last(frames)].homeSelf]

\* NewClosure in two captures: s is the upvalue of 'self', u that of local l.
Captured(h1, h2, sm, l, s, u) ==
    /\ IF sm THEN Created(Heap, h1, Base(Depth), s) ELSE h1 = Heap /\ s = 0
    /\ IF l = 0 THEN h2 = h1 /\ u = 0 ELSE Created(h1, h2, Base(Depth) + l, u)

\* NewClosure captures 'self' first, then the local, and appends the closure.
LEMMA NewClosureIs ==
    ASSUME Inv, NEW sm \in BOOLEAN, NEW fp \in BOOLEAN, NEW l \in 0 .. NumLocals - 1, NewClosure(sm, l, fp)
    PROVE  \E h1, h2, s, u :
             /\ Captured(h1, h2, sm, l, s, u) /\ upvalues' = h2.uvs /\ upvalueList' = h2.list
             /\ closures' = Append(closures, NewOne(sm, fp, s, u))
  <1>1. TypeOK /\ HeapOK(Heap)
    BY DEF Inv
  <1>2. Depth \in 1 .. MaxFrames
    BY <1>1, TypeFacts DEF NewClosure, Running
  <1>3. Base(Depth) \in Slots /\ Base(Depth) + l \in Slots
    <2>1. Base(Depth) \in Slots
      BY <1>2, BaseSlot
    <2>2. Depth \in Int
      BY <1>2
    <2>3. QED BY <2>1, <2>2, <1>2, SlotFacts
  <1>4. PICK h1 : h1 = IF sm THEN CreateUpvalue(Heap, Base(Depth)) ELSE Heap
    OBVIOUS
  <1>5. PICK h2 : h2 = IF l = 0 THEN h1 ELSE CreateUpvalue(h1, Base(Depth) + l)
    OBVIOUS
  <1>6. Heap.made = <<>> /\ Heap.made \in Seq(Nat)
    BY HeapFields
  <1>7. PICK s \in Nat : IF sm THEN Created(Heap, h1, Base(Depth), s) ELSE h1 = Heap /\ s = 0
    <2>1. CASE sm
      BY <2>1, <1>1, <1>3, <1>4, <1>6, CreateIs
    <2>2. CASE ~sm
      BY <2>2, <1>4
    <2>3. QED BY <2>1, <2>2
  <1>8. HeapOK(h1) /\ h1.made = (IF sm THEN <<s>> ELSE <<>>)
    BY <1>1, <1>6, <1>7 DEF Created
  <1>9. PICK u \in Nat : IF l = 0 THEN h2 = h1 /\ u = 0 ELSE Created(h1, h2, Base(Depth) + l, u)
    <2>1. CASE l = 0
      BY <2>1, <1>5
    <2>2. CASE l # 0
      <3>1. h1.made \in Seq(Nat)
        BY <1>8
      <3>2. QED BY <2>2, <3>1, <1>3, <1>5, <1>8, CreateIs
    <2>3. QED BY <2>1, <2>2
  <1>10. h2.made = IF l = 0 THEN h1.made ELSE Append(h1.made, u)
    BY <1>9 DEF Created
  <1>11. /\ sm => h2.made[1] = s
         /\ l # 0 => Last(h2.made) = u
    <2>1. CASE sm /\ l = 0
      BY <2>1, <1>8, <1>10
    <2>2. CASE sm /\ l # 0
      <3>1. PICK q \in Seq(Nat) : q = <<s>> /\ Len(q) = 1 /\ q[1] = s
        <4>1. <<s>> \in Seq(Nat) /\ Len(<<s>>) = 1 /\ <<s>>[1] = s
          OBVIOUS
        <4>2. QED BY <4>1
      <3>2. h2.made = Append(q, u)
        BY <3>1, <2>2, <1>8, <1>10
      <3>3. Len(h2.made) = 2 /\ h2.made[1] = s /\ h2.made[2] = u
        BY <3>1, <3>2
      <3>4. QED BY <3>3 DEF Last
    <2>3. CASE ~sm /\ l # 0
      <3>1. h2.made = <<u>>
        BY <2>3, <1>8, <1>10
      <3>2. QED BY <3>1, <2>3 DEF Last
    <2>4. QED BY <2>1, <2>2, <2>3
  <1>12. /\ upvalues' = h2.uvs /\ upvalueList' = h2.list
         /\ closures' = Append(closures,
             [self |-> IF sm THEN h2.made[1] ELSE 0,
              selfVal |-> IF sm THEN Nil ELSE stack[Base(Depth)],
              uv |-> IF fp THEN closures[Last(frames)].uv ELSE IF l = 0 THEN 0 ELSE Last(h2.made),
              home |-> IF Last(frames) = 0 THEN Depth ELSE closures[Last(frames)].home,
              homeSelf |-> IF Last(frames) = 0 THEN stack[Base(Depth)] ELSE closures[Last(frames)].homeSelf])
    BY <1>4, <1>5 DEF NewClosure
  <1>13. (IF sm THEN h2.made[1] ELSE 0) = s /\ (IF l = 0 THEN 0 ELSE Last(h2.made)) = u
    BY <1>7, <1>9, <1>11
  <1>14. closures' = Append(closures, NewOne(sm, fp, s, u))
    BY <1>12, <1>13, Zenon DEF NewOne
  <1>15. Captured(h1, h2, sm, l, s, u)
    BY <1>7, <1>9 DEF Captured
  <1>16. QED BY <1>12, <1>14, <1>15

\* The slots that NewClosure captures.
Over(sm, l) == {a \in {Base(Depth), Base(Depth) + l} : (a = Base(Depth) /\ sm) \/ (l # 0 /\ a = Base(Depth) + l)}

\* What a closure is made over is open, and nothing else changes.
LEMMA CapturedFacts ==
    ASSUME Inv, NEW sm \in BOOLEAN, NEW l \in 0 .. NumLocals - 1, Depth > 0,
           NEW h1, NEW h2, NEW s, NEW u, Captured(h1, h2, sm, l, s, u),
           upvalues' = h2.uvs, upvalueList' = h2.list
    PROVE  /\ HeapOK(Heap)' /\ Len(upvalues) <= Len(upvalues') /\ Len(upvalues') \in Nat
           /\ \A v \in UpvalueIds : Same(upvalues'[v], upvalues[v])
           /\ \A v \in 1 .. Len(upvalues') : v \in UpvalueIds \/ (v \in Open(Heap)' /\ upvalues'[v].ptr \in Over(sm, l))
           /\ \A a \in Over(sm, l) : a < Base(Depth + 1)
           /\ IF sm THEN s \in Open(Heap)' /\ upvalues'[s].ptr = Base(Depth) ELSE s = 0
           /\ IF l = 0 THEN u = 0 ELSE u \in Open(Heap)' /\ upvalues'[u].ptr = Base(Depth) + l
           /\ s \in 0 .. Len(upvalues') /\ u \in 0 .. Len(upvalues')
  <1>1. TypeOK /\ HeapOK(Heap) /\ Heap.uvs = upvalues
    BY HeapFields DEF Inv
  <1>2. Depth \in 1 .. MaxFrames /\ Depth \in Int
    BY <1>1, TypeFacts
  <1>3. PICK lim \in Int : lim = Base(Depth + 1) /\ Base(Depth) < lim /\ Base(Depth) + l < lim
    <2>1. Base(Depth) \in Int /\ Base(Depth + 1) = Base(Depth) + NumLocals /\ NumLocals \in Nat /\ NumLocals > 0
      BY <1>2, BaseFacts
    <2>2. QED BY <2>1
  <1>4. PICK S : S = Over(sm, l) /\ (sm => Base(Depth) \in S) /\ (l # 0 => Base(Depth) + l \in S) /\ \A a \in S : a < lim
    <2>1. (sm => Base(Depth) \in Over(sm, l)) /\ (l # 0 => Base(Depth) + l \in Over(sm, l))
      BY DEF Over
    <2>2. \A a \in Over(sm, l) : a = Base(Depth) \/ a = Base(Depth) + l
      BY DEF Over
    <2>3. \A a \in Over(sm, l) : a < lim
      BY <2>2, <1>3
    <2>4. QED BY <2>1, <2>3
  <1>5. Grown(Heap, h1, S)
    <2>1. CASE sm
      <3>1. Created(Heap, h1, Base(Depth), s)
        BY <2>1 DEF Captured
      <3>2. QED BY <2>1, <3>1, <1>1, <1>4, CreatedGrown
    <2>2. CASE ~sm
      BY <2>2, <1>1, GrownSelf DEF Captured
    <2>3. QED BY <2>1, <2>2
  <1>6. HeapOK(h1)
    BY <1>5 DEF Grown
  <1>7. Grown(h1, h2, S)
    <2>1. CASE l # 0
      <3>1. Created(h1, h2, Base(Depth) + l, u)
        BY <2>1 DEF Captured
      <3>2. PICK dst \in S : dst = Base(Depth) + l
        BY <2>1, <1>4
      <3>3. QED BY <3>1, <3>2, <1>6, CreatedGrown
    <2>2. CASE l = 0
      BY <2>2, <1>6, GrownSelf DEF Captured
    <2>3. QED BY <2>1, <2>2
  <1>8. Grown(Heap, h2, S)
    BY <1>1, <1>5, <1>7, GrownTrans
  <1>9. HeapOK(h2)
    BY <1>8 DEF Grown
  <1>10. HeapOK(Heap)' /\ Open(Heap)' = Open(h2)
    BY <1>9, NextHeap
  <1>11. /\ Len(upvalues) <= Len(upvalues') /\ Len(upvalues') \in Nat
         /\ \A v \in UpvalueIds : Same(upvalues'[v], upvalues[v])
    BY <1>1, <1>8, <1>9, HeapLen DEF Grown, UpvalueIds
  <1>12. /\ \A v \in 1 .. Len(upvalues') : v \in UpvalueIds \/ (v \in Open(Heap)' /\ upvalues'[v].ptr \in Over(sm, l))
         /\ \A a \in Over(sm, l) : a < Base(Depth + 1)
    BY <1>1, <1>3, <1>4, <1>8, <1>10 DEF Grown, UpvalueIds
  <1>13. IF sm THEN s \in Open(h2) /\ h2.uvs[s].ptr = Base(Depth) ELSE s = 0
    <2>1. ASSUME sm PROVE s \in Open(h1) /\ h1.uvs[s].ptr = Base(Depth)
      BY <2>1 DEF Captured, Created
    <2>2. ASSUME sm PROVE s \in Open(h2) /\ h2.uvs[s].ptr = h1.uvs[s].ptr
      BY <2>1, <2>2, <1>6, <1>7, GrownOpen
    <2>3. QED BY <2>1, <2>2 DEF Captured
  <1>14. IF l = 0 THEN u = 0 ELSE u \in Open(h2) /\ h2.uvs[u].ptr = Base(Depth) + l
    BY DEF Captured, Created
  <1>15. \A v \in Open(h2) : v \in 0 .. Len(upvalues')
    BY <1>11 DEF Open
  <1>16. s \in 0 .. Len(upvalues') /\ u \in 0 .. Len(upvalues')
    BY <1>11, <1>13, <1>14, <1>15
  <1>17. QED BY <1>10, <1>11, <1>12, <1>13, <1>14, <1>16

\* Making a closure keeps the invariant: the new block has the home and the self
\* of the running frame, and its captures are open upvalues of that frame.
LEMMA NewClosureStep ==
    ASSUME Inv, NEW sm \in BOOLEAN, NEW fp \in BOOLEAN, NEW l \in 0 .. NumLocals - 1, NewClosure(sm, l, fp)
    PROVE  Inv'
  <1>1. TypeOK /\ HeapOK(Heap) /\ OpenBelow /\ SelfIsHomeSelf /\ stack \in [Slots -> Values]
    BY DEF Inv, TypeOK
  <1>2. /\ throwing = 0 /\ Depth > 0 /\ UNCHANGED <<frames, stack, throwing>> /\ Depth' = Depth
        /\ sm /\ Last(frames) # 0 => closures[Last(frames)].self # 0
        /\ fp => l = 0 /\ Last(frames) # 0 /\ closures[Last(frames)].uv # 0
    BY DEF NewClosure, Running, Depth
  <1>3. Depth \in 1 .. MaxFrames /\ Depth \in 1 .. Depth /\ Last(frames) = frames[Depth] /\ Depth \in Nat
    BY <1>1, <1>2, TypeFacts DEF Last, Depth
  <1>4. PICK h1, h2, s, u :
             /\ Captured(h1, h2, sm, l, s, u) /\ upvalues' = h2.uvs /\ upvalueList' = h2.list
             /\ closures' = Append(closures, NewOne(sm, fp, s, u))
    BY NewClosureIs
  <1>5. /\ HeapOK(Heap)' /\ Len(upvalues) <= Len(upvalues') /\ Len(upvalues') \in Nat
        /\ \A v \in UpvalueIds : Same(upvalues'[v], upvalues[v])
        /\ \A v \in 1 .. Len(upvalues') : v \in UpvalueIds \/ (v \in Open(Heap)' /\ upvalues'[v].ptr \in Over(sm, l))
        /\ \A a \in Over(sm, l) : a < Base(Depth + 1)
        /\ IF sm THEN s \in Open(Heap)' /\ upvalues'[s].ptr = Base(Depth) ELSE s = 0
        /\ IF l = 0 THEN u = 0 ELSE u \in Open(Heap)' /\ upvalues'[u].ptr = Base(Depth) + l
        /\ s \in 0 .. Len(upvalues') /\ u \in 0 .. Len(upvalues')
    BY <1>2, <1>4, CapturedFacts
  <1>6. /\ \A v : v \in Open(Heap)' <=> v \in 1 .. Len(upvalues') /\ ~upvalues'[v].isClosed
        /\ \A v : v \in Open(Heap) <=> v \in UpvalueIds /\ ~upvalues[v].isClosed
        /\ Len(upvalues) \in Nat
    BY <1>1, TypeFacts DEF Open, Heap
  <1>7. \A v \in UpvalueIds : /\ upvalues'[v].ptr = upvalues[v].ptr /\ upvalues'[v].tv = upvalues[v].tv
                              /\ (upvalues'[v].isClosed <=> upvalues[v].isClosed)
    BY <1>5, Zenon DEF Same
  <1>8. PICK n \in Nat : n = Len(closures) /\ closures \in Seq(Closure)
    BY <1>1 DEF TypeOK
  <1>9. PICK x : x = NewOne(sm, fp, s, u)
    OBVIOUS
  <1>10. PICK fn \in 0 .. n : fn = frames[Depth] /\ fn = Last(frames)
    BY <1>1, <1>3, <1>8, TypeFacts
  <1>11. fn # 0 => fn \in ClosureIds /\ closures[fn] \in Closure /\ RefsOK(fn) /\ HomeOK(fn)
    BY <1>1, <1>8, <1>10, TypeFacts DEF ClosureIds, Inv
  <1>12. Base(Depth) \in Slots /\ stack[Base(Depth)] \in Values
    BY <1>1, <1>3, BaseSlot
  <1>13. /\ x.self = s /\ x.selfVal = (IF sm THEN Nil ELSE stack[Base(Depth)])
         /\ x.uv = (IF fp THEN closures[fn].uv ELSE u)
         /\ x.home = (IF fn = 0 THEN Depth ELSE closures[fn].home)
         /\ x.homeSelf = (IF fn = 0 THEN stack[Base(Depth)] ELSE closures[fn].homeSelf)
    BY <1>9, <1>10 DEF NewOne
  <1>14. x.homeSelf = stack[Base(Depth)]
    BY <1>1, <1>3, <1>10, <1>13 DEF SelfIsHomeSelf
  <1>15. x.uv \in 0 .. Len(upvalues')
    <2>1. CASE fp
      <3>1. fn # 0 /\ closures[fn].uv \in 0 .. Len(upvalues)
        BY <2>1, <1>2, <1>10, <1>11 DEF RefsOK
      <3>2. QED BY <3>1, <2>1, <1>5, <1>6, <1>13
    <2>2. CASE ~fp
      BY <2>2, <1>5, <1>13
    <2>3. QED BY <2>1, <2>2
  <1>16. x.home \in 0 .. Depth /\ (x.home # 0 => frames[x.home] = 0)
    <2>1. CASE fn = 0
      BY <2>1, <1>3, <1>10, <1>13
    <2>2. CASE fn # 0
      BY <2>2, <1>11, <1>13 DEF HomeOK
    <2>3. QED BY <2>1, <2>2
  <1>17. x \in Closure
    <2>1. s \in Nat /\ x.uv \in Nat /\ x.home \in Nat
      BY <1>5, <1>15, <1>16
    <2>2. x.selfVal \in Values /\ x.homeSelf \in Values
      BY <1>12, <1>13, <1>14, UpvaluesAssumption
    <2>3. x = [self |-> x.self, selfVal |-> x.selfVal, uv |-> x.uv, home |-> x.home, homeSelf |-> x.homeSelf]
      BY <1>9 DEF NewOne
    <2>4. QED BY <2>1, <2>2, <2>3, <1>13 DEF Closure
  <1>18. /\ closures' \in Seq(Closure) /\ Len(closures') = n + 1 /\ closures'[n + 1] = x
         /\ \A c \in 1 .. n : closures'[c] = closures[c]
    BY <1>4, <1>8, <1>9, <1>17
  <1>19. ClosureIds' = 1 .. n + 1 /\ ClosureIds = 1 .. n
    BY <1>8, <1>18 DEF ClosureIds
  <1>20. \A f \in 1 .. Depth : frames[f] \in 0 .. n
    BY <1>1, <1>8, TypeFacts
  <1>21. TypeOK'
    <2>1. \A f \in 1 .. Len(frames) : frames[f] \in 0 .. n + 1
      BY <1>20, <1>8 DEF Depth
    <2>2. QED BY <2>1, <1>1, <1>2, <1>18 DEF TypeOK
  <1>22. OpenBelow'
    <2>1. ASSUME NEW v \in Open(Heap)' PROVE upvalues'[v].ptr < Base(Depth + 1)
      <3>1. CASE v \in UpvalueIds
        <4>1. ~upvalues[v].isClosed
          BY <3>1, <1>6, <1>7, Zenon
        <4>2. QED BY <4>1, <3>1, <1>1, <1>6, <1>7 DEF OpenBelow
      <3>2. CASE v \notin UpvalueIds
        BY <3>2, <1>5, <1>6
      <3>3. QED BY <3>1, <3>2
    <2>2. QED BY <2>1, <1>2 DEF OpenBelow, Base
  <1>23. SelfIsHomeSelf'
    <2>1. ASSUME NEW f \in 1 .. Depth, frames[f] # 0 PROVE stack[Base(f)] = closures'[frames[f]].homeSelf
      <3>1. frames[f] \in 1 .. n
        BY <2>1, <1>20
      <3>2. QED BY <3>1, <2>1, <1>1, <1>18 DEF SelfIsHomeSelf
    <2>2. QED BY <2>1, <1>2 DEF SelfIsHomeSelf, Base
  <1>24. ThrowOK'
    BY <1>2 DEF ThrowOK
  <1>25. \A v \in UpvalueIds : Value(v)' = Value(v)
    BY <1>2, <1>7, Zenon DEF Value
  <1>26. \A f \in 1 .. Depth : Home(f)' = Home(f) /\ (frames[f] # 0 => closures'[frames[f]].self = closures[frames[f]].self)
    BY <1>2, <1>18, <1>20 DEF Home
  <1>27. ASSUME NEW c \in 1 .. n PROVE RefsOK(c)' /\ HomeOK(c)' /\ SelfOK(c)' /\ ChainOK(c)'
    <2>1. RefsOK(c) /\ HomeOK(c) /\ SelfOK(c) /\ ChainOK(c)
      BY <1>19 DEF Inv
    <2>2. closures'[c] = closures[c]
      BY <1>18
    <2>3. RefsOK(c)'
      BY <2>1, <2>2, <1>5, <1>6, <1>7, RefsKept
    <2>4. HomeOK(c)'
      BY <2>1, <2>2, <1>2 DEF HomeOK
    <2>5. SelfOK(c)'
      BY <2>1, <2>2, <1>25, SelfKept
    <2>6. ASSUME closures[c].self # 0, ~upvalues'[closures[c].self].isClosed,
                 NEW f \in 1 .. Depth, upvalues'[closures[c].self].ptr = Base(f)
          PROVE  Home(f) = closures[c].home /\ (frames[f] # 0 => closures[frames[f]].self # 0)
      <3>1. PICK v \in UpvalueIds : v = closures[c].self
        BY <2>1, <2>6 DEF RefsOK, UpvalueIds
      <3>2. ~upvalues[v].isClosed
        BY <3>1, <2>6, <1>7, Zenon
      <3>3. upvalues[v].ptr = Base(f)
        BY <3>1, <2>6, <1>7
      <3>4. QED BY <3>1, <3>2, <3>3, <2>1, <2>6 DEF ChainOK
    <2>7. ChainOK(c)'
      <3>1. ASSUME closures'[c].self # 0, ~upvalues'[closures'[c].self].isClosed,
                   NEW f \in 1 .. Depth, upvalues'[closures'[c].self].ptr = Base(f)
            PROVE  Home(f)' = closures'[c].home /\ (frames[f] # 0 => closures'[frames[f]].self # 0)
        BY <3>1, <2>2, <2>6, <1>26
      <3>2. QED BY <3>1, <1>2 DEF ChainOK, Base
    <2>8. QED BY <2>3, <2>4, <2>5, <2>7
  <1>28. RefsOK(n + 1)' /\ HomeOK(n + 1)' /\ SelfOK(n + 1)' /\ ChainOK(n + 1)'
    <2>1. RefsOK(n + 1)'
      <3>1. ASSUME x.self # 0 PROVE \E f \in 1 .. MaxFrames : upvalues'[x.self].ptr = Base(f)
        BY <3>1, <1>3, <1>5, <1>13
      <3>2. ASSUME x.uv # 0 PROVE \E f \in 1 .. MaxFrames, m \in 1 .. NumLocals - 1 : upvalues'[x.uv].ptr = Base(f) + m
        <4>1. CASE fp
          <5>1. fn # 0 /\ x.uv = closures[fn].uv
            BY <4>1, <1>2, <1>10, <1>13
          <5>2. x.uv \in UpvalueIds
            BY <5>1, <3>2, <1>11 DEF RefsOK, UpvalueIds
          <5>3. \E f \in 1 .. MaxFrames, m \in 1 .. NumLocals - 1 : upvalues[x.uv].ptr = Base(f) + m
            BY <5>1, <3>2, <1>11 DEF RefsOK
          <5>4. QED BY <5>2, <5>3, <1>7
        <4>2. CASE ~fp
          <5>1. x.uv = u /\ l # 0
            BY <4>2, <3>2, <1>5, <1>13
          <5>2. l \in 1 .. NumLocals - 1
            BY <5>1, UpvaluesAssumption
          <5>3. QED BY <5>1, <5>2, <1>3, <1>5
        <4>3. QED BY <4>1, <4>2
      <3>3. x.self \in 0 .. Len(upvalues')
        BY <1>5, <1>13
      <3>4. QED BY <3>1, <3>2, <3>3, <1>15, <1>18 DEF RefsOK, Base
    <2>2. HomeOK(n + 1)'
      BY <1>2, <1>16, <1>18 DEF HomeOK
    <2>3. SelfOK(n + 1)'
      <3>1. CASE sm
        <4>1. s \in 1 .. Len(upvalues') /\ ~upvalues'[s].isClosed /\ upvalues'[s].ptr = Base(Depth)
          BY <3>1, <1>5, <1>6
        <4>2. Value(s)' = stack[Base(Depth)]
          BY <4>1, <1>2 DEF Value
        <4>3. x.self = s /\ s # 0
          BY <4>1, <1>13
        <4>4. CapturedSelf(n + 1)' = Value(s)'
          BY <4>3, <1>18 DEF CapturedSelf, Value
        <4>5. QED BY <4>2, <4>4, <1>14, <1>18 DEF SelfOK
      <3>2. CASE ~sm
        <4>1. x.self = 0 /\ x.selfVal = stack[Base(Depth)]
          BY <3>2, <1>5, <1>13
        <4>2. CapturedSelf(n + 1)' = stack[Base(Depth)]
          BY <4>1, <1>18 DEF CapturedSelf
        <4>3. QED BY <4>2, <1>14, <1>18 DEF SelfOK
      <3>3. QED BY <3>1, <3>2
    <2>4. ChainOK(n + 1)'
      <3>1. ASSUME x.self # 0, NEW f \in 1 .. Depth, upvalues'[x.self].ptr = Base(f)
            PROVE  Home(f)' = x.home /\ (frames[f] # 0 => closures'[frames[f]].self # 0)
        <4>1. sm /\ upvalues'[s].ptr = Base(Depth)
          BY <3>1, <1>5, <1>13
        <4>2. f = Depth
          <5>1. Base(f) = Base(Depth)
            BY <4>1, <3>1, <1>13
          <5>2. f \in 1 .. MaxFrames
            <6>1. MaxFrames \in Nat
              BY UpvaluesAssumption
            <6>2. QED BY <6>1, <1>3
          <5>3. Base(f) \in Int /\ \A e \in Int : Base(f) < Base(e + 1) <=> f <= e
            BY <5>2, BaseSlot, Zenon
          <5>4. PICK e \in Int : e = Depth - 1 /\ e + 1 = Depth
            <6>1. Depth - 1 \in Int /\ (Depth - 1) + 1 = Depth
              BY <1>3
            <6>2. QED BY <6>1
          <5>5. Base(f) < Base(e + 1) <=> f <= e
            BY <5>3
          <5>6. ~(Base(f) < Base(e + 1))
            BY <5>1, <5>3, <5>4
          <5>7. QED BY <5>4, <5>5, <5>6, <1>3
        <4>3. Home(Depth) = x.home
          BY <1>10, <1>13 DEF Home
        <4>4. fn # 0 => closures[fn].self # 0
          BY <4>1, <1>2, <1>10
        <4>5. QED BY <4>2, <4>3, <4>4, <1>10, <1>26
      <3>2. QED BY <3>1, <1>2, <1>18 DEF ChainOK, Base
    <2>5. QED BY <2>1, <2>2, <2>3, <2>4
  <1>29. \A c \in ClosureIds' : RefsOK(c)' /\ HomeOK(c)' /\ SelfOK(c)' /\ ChainOK(c)'
    <2>1. \A c \in ClosureIds' : c \in 1 .. n \/ c = n + 1
      BY <1>19
    <2>2. QED BY <2>1, <1>27, <1>28
  <1>30. QED BY <1>5, <1>21, <1>22, <1>23, <1>24, <1>29 DEF Inv

-----------------------------------------------------------------------------
\* Every step keeps the invariant.
LEMMA InvNext == Inv /\ [Next]_vars => Inv'
  <1> SUFFICES ASSUME Inv, [Next]_vars PROVE Inv'
    OBVIOUS
  <1>1. CASE \E v \in Values : CallMethod(v)
    BY <1>1, CallMethodCalls, CallStep
  <1>2. CASE \E c \in ClosureIds : CallBlock(c)
    BY <1>2, CallBlockCalls, CallStep
  <1>3. CASE \E selfMutable, fromParent \in BOOLEAN, l \in 0..(NumLocals - 1) :
               NewClosure(selfMutable, l, fromParent)
    BY <1>3, NewClosureStep
  <1>4. CASE \E l \in 1..(NumLocals - 1), v \in Values : SetLocal(l, v)
    BY <1>4, SetLocalStep
  <1>5. CASE \E v \in Values : UpvaluePut(v)
    BY <1>5, UpvaluePutStep
  <1>6. CASE \E l \in 1..(NumLocals - 1) : UpvalueClose(l)
    BY <1>6, UpvalueCloseStep
  <1>7. CASE CompiledReturn
    BY <1>7, RetUnwinds, UnwindStep
  <1>8. CASE Throw
    BY <1>8, ThrowStep
  <1>9. CASE WalkToCreator
    BY <1>9, WalkToCreatorStep
  <1>10. CASE \E v \in Values : ReturnFromHome(v)
    BY <1>10, HomeUnwinds, UnwindStep
  <1>11. CASE EscapedBlock
    BY <1>11, EscapedUnwinds, UnwindStep
  <1>12. CASE UNCHANGED vars
    <2>1. UNCHANGED <<frames, stack, upvalues, upvalueList, closures, throwing>>
      BY <1>12 DEF vars
    <2>2. HeapOK(Heap)'
      BY <2>1, HeapKept DEF Inv
    <2>3. TypeOK' /\ ThrowOK'
      BY <2>1 DEF Inv, TypeOK, ThrowOK, Home, Depth
    <2>4. \A u \in UpvalueIds : Value(u)' = Value(u)
      BY <2>1 DEF Value
    <2>5. QED BY <2>1, <2>2, <2>3, <2>4, QuietStep
  <1>13. QED BY <1>1, <1>2, <1>3, <1>4, <1>5, <1>6, <1>7, <1>8, <1>9, <1>10, <1>11, <1>12 DEF Next

\* The inductive invariant holds in every reachable state, for any number of frames,
\* locals, closures and upvalues.
THEOREM UpvalueInvariant == Spec => []Inv
  BY InvInit, InvNext, PTL DEF Spec

\* The witness of the list is the list the code walks.
LEMMA ListMeaning == Inv => OpenListExact
  <1> SUFFICES ASSUME Inv PROVE OpenListExact
    OBVIOUS
  <1>1. HeapType(Heap) /\ TypeOK /\ HeapOK(Heap) /\ Heap.uvs = upvalues /\ Heap.list = upvalueList
    BY HeapFields DEF Inv, HeapOK
  <1>2. PICK len, at : Listed(Heap, len, at)
    BY DEF Inv, HeapOK
  <1>3. PICK N \in Nat : N = Len(upvalues)
    BY <1>1, TypeFacts
  <1>4. UpvalueIds = 1 .. N
    BY <1>3 DEF UpvalueIds
  <1>5. \A v \in 0 .. N : v \in UpvalueIds \union {0}
    BY <1>4
  <1>6. upvalueList \in UpvalueIds \union {0} /\ \A u \in UpvalueIds : upvalues[u].prev \in UpvalueIds \union {0}
    BY <1>1, <1>3, <1>4, <1>5 DEF HeapType
  <1>7. /\ len \in Nat /\ len <= N
        /\ \A i \in 1 .. len : at[i] \in Open(Heap)
        /\ \A i, j \in 1 .. len : i < j => upvalues[at[i]].ptr > upvalues[at[j]].ptr
        /\ \A u \in Open(Heap) : \E i \in 1 .. len : at[i] = u
    BY <1>1, <1>2, <1>3 DEF Listed
  <1>8. OpenUpvalues = Open(Heap)
    BY <1>1 DEF OpenUpvalues, Open, UpvalueIds
  <1>9. OpenList = [n \in 1 .. N + 1 |-> IF n <= len THEN at[n] ELSE 0]
    BY <1>1, <1>2, <1>3, WalkIs DEF OpenList
  <1>10. DOMAIN OpenList = 1 .. N + 1 /\ \A n \in 1 .. N + 1 : OpenList[n] = IF n <= len THEN at[n] ELSE 0
    BY <1>9
  <1>11. ToSet(OpenList) = OpenUpvalues \union {0}
    <2>1. ToSet(OpenList) = {OpenList[n] : n \in 1 .. N + 1}
      BY <1>10 DEF ToSet
    <2>2. ASSUME NEW n \in 1 .. N + 1 PROVE OpenList[n] \in OpenUpvalues \union {0}
      <3>1. n <= len => n \in 1 .. len
        BY <1>7
      <3>2. QED BY <3>1, <1>7, <1>8, <1>10
    <2>3. ASSUME NEW u \in OpenUpvalues PROVE \E n \in 1 .. N + 1 : OpenList[n] = u
      <3>1. PICK n \in 1 .. len : at[n] = u
        BY <1>7, <1>8
      <3>2. n \in 1 .. N + 1 /\ n <= len
        BY <1>7
      <3>3. QED BY <3>1, <3>2, <1>10
    <2>4. \E n \in 1 .. N + 1 : OpenList[n] = 0
      <3>1. len + 1 \in 1 .. N + 1 /\ ~(len + 1 <= len)
        BY <1>7
      <3>2. QED BY <3>1, <1>10
    <2>5. QED BY <2>1, <2>2, <2>3, <2>4
  <1>12. ASSUME NEW i \in UpvalueIds, OpenList[i + 1] /= 0
         PROVE  upvalues[OpenList[i]].ptr > upvalues[OpenList[i + 1]].ptr
    <2>1. PICK j \in 1 .. N + 1 : j = i + 1
      BY <1>4
    <2>2. j <= len
      BY <2>1, <1>10, <1>12
    <2>3. i \in 1 .. N + 1 /\ i \in 1 .. len /\ j \in 1 .. len /\ i < j
      BY <2>1, <2>2, <1>4, <1>7
    <2>4. OpenList[i] = at[i] /\ OpenList[j] = at[j]
      BY <2>3, <1>10
    <2>5. upvalues[at[i]].ptr > upvalues[at[j]].ptr
      BY <2>3, <1>7
    <2>6. QED BY <2>1, <2>4, <2>5
  <1>13. QED BY <1>6, <1>11, <1>12 DEF OpenListExact

\* The list of open upvalues holds every open upvalue once, by falling slot
\* (Upvalue::Create and CloseUpvalues walk it under that assumption).
THEOREM OpenListIsExact == Spec => []OpenListExact
  BY UpvalueInvariant, ListMeaning, PTL

\* An open upvalue below the top of the stack is in a frame on the stack.
LEMMA LiveMeaning == Inv => OpenInLiveFrame
  <1> SUFFICES ASSUME Inv, NEW u \in OpenUpvalues PROVE FrameOf(upvalues[u].ptr) <= Depth
    BY DEF OpenInLiveFrame
  <1>1. TypeOK /\ HeapOK(Heap)
    BY DEF Inv
  <1>2. u \in Open(Heap) /\ Depth \in Nat
    BY <1>1, TypeFacts DEF OpenUpvalues
  <1>3. PICK a \in Int : a = upvalues[u].ptr /\ a < Base(Depth + 1)
    BY <1>1, <1>2, TypeFacts DEF Inv, OpenBelow
  <1>4. NumLocals \in Nat /\ NumLocals > 0
    BY UpvaluesAssumption
  <1>5. PICK q \in Int : q = a \div NumLocals
    BY <1>4
  <1>6. q * NumLocals <= a
    BY <1>4, <1>5
  <1>7. PICK f \in Int : f = q + 1
    OBVIOUS
  <1>8. PICK g \in Int : g = Depth + 1
    BY <1>2
  <1>9. Base(f) = q * NumLocals /\ Base(f) \in Int /\ Base(g) \in Int
    BY <1>4, <1>7, <1>8 DEF Base
  <1>10. Base(f) < Base(g)
    BY <1>3, <1>6, <1>8, <1>9
  <1>11. g < f => Base(g) + NumLocals <= Base(f)
    BY BaseOrder
  <1>12. f < g
    BY <1>4, <1>9, <1>10, <1>11
  <1>13. FrameOf(upvalues[u].ptr) = f
    BY <1>3, <1>5, <1>7 DEF FrameOf
  <1>14. QED BY <1>2, <1>8, <1>12, <1>13

\* No open upvalue points to the slot of a frame that has returned.
THEOREM OpenUpvaluesAreLive == Spec => []OpenInLiveFrame
  BY UpvalueInvariant, LiveMeaning, PTL

\* The frame of a method the throw stops at is the home of the running block.
LEMMA ReturnMeaning == Inv => ReturnsFromOwnHome
  <1> SUFFICES ASSUME Inv, throwing /= 0, frames[throwing] = 0 PROVE throwing = closures[Last(frames)].home
    BY DEF ReturnsFromOwnHome
  <1>1. Home(throwing) = closures[frames[Depth]].home
    BY DEF Inv, ThrowOK
  <1>2. Last(frames) = frames[Depth]
    BY DEF Last, Depth
  <1>3. QED BY <1>1, <1>2 DEF Home

\* A non-local return ends the activation of the method its block was written in,
\* never another activation that lies at the same place of the stack.
THEOREM NonLocalReturnsAreOwn == Spec => []ReturnsFromOwnHome
  BY UpvalueInvariant, ReturnMeaning, PTL

\* Every block runs with the 'self' of the method it was written in.
THEOREM BlocksRunWithHomeSelf == Spec => []SelfIsHomeSelf
  <1>1. Inv => SelfIsHomeSelf
    BY DEF Inv
  <1>2. QED BY <1>1, UpvalueInvariant, PTL

-----------------------------------------------------------------------------
\* Refinement of BoxedVariables.

Top == Base(Depth + 1)
BoxSlots == [a \in Slots |-> SlotContents(a)]
BoxValues == [u \in UpvalueIds |-> Value(u)]
BoxCaptures == [c \in ClosureIds |-> {closures[c].self, closures[c].uv} \ {0}]
Own(v) == [box |-> 0, val |-> v]
InBox(u) == [box |-> u, val |-> Nil]

\* The names of BoxedVariables under the refinement mapping.
LEMMA BoxNames ==
    /\ Boxes!Slots = Slots /\ (\A f : Boxes!Base(f) = Base(f))
    /\ (\A v : Boxes!Plain(v) = Own(v)) /\ (\A b : Boxes!Boxed(b) = InBox(b))
    /\ Boxes!TopSlots = InFrame(Depth)
  <1>1. Boxes!Slots = Slots
    BY DEF Boxes!Slots, Slots
  <1>2. \A f : Boxes!Base(f) = Base(f)
    BY DEF Boxes!Base, Base
  <1>3. (\A v : Boxes!Plain(v) = Own(v)) /\ (\A b : Boxes!Boxed(b) = InBox(b))
    BY DEF Boxes!Plain, Own, Boxes!Boxed, InBox
  <1>4. Boxes!TopSlots = InFrame(Depth)
    BY <1>2 DEF Boxes!TopSlots, InFrame
  <1>5. QED BY <1>1, <1>2, <1>3, <1>4

\* A slot has at most one open upvalue.
LEMMA OneOpen ==
    HeapOK(Heap) => \A u, v \in Open(Heap) : upvalues[u].ptr = upvalues[v].ptr => u = v
  <1> SUFFICES ASSUME HeapOK(Heap), NEW u \in Open(Heap), NEW v \in Open(Heap), upvalues[u].ptr = upvalues[v].ptr
               PROVE  u = v
    OBVIOUS
  <1>1. PICK len, at : Listed(Heap, len, at)
    BY DEF HeapOK
  <1>2. PICK i \in 1 .. len : at[i] = u
    BY <1>1 DEF Listed
  <1>3. PICK j \in 1 .. len : at[j] = v
    BY <1>1 DEF Listed
  <1>4. /\ i < j => upvalues[u].ptr > upvalues[v].ptr
        /\ j < i => upvalues[v].ptr > upvalues[u].ptr
    BY <1>1, <1>2, <1>3, HeapFields DEF Listed
  <1>5. upvalues[u].ptr \in Int
    BY HeapFields, ElementFacts DEF HeapOK, Open
  <1>6. len \in Nat
    BY <1>1 DEF Listed
  <1>7. i = j
    BY <1>4, <1>5, <1>6
  <1>8. QED BY <1>2, <1>3, <1>7

\* The first slot above the running frame.
LEMMA TopIs == Inv => /\ Top \in Int /\ Depth \in Nat /\ Top = Base(Depth) + NumLocals /\ NumLocals \in Nat
                      /\ Base(Depth) \in Int
  <1> SUFFICES ASSUME Inv
               PROVE  /\ Top \in Int /\ Depth \in Nat /\ Top = Base(Depth) + NumLocals /\ NumLocals \in Nat
                      /\ Base(Depth) \in Int
    OBVIOUS
  <1>1. Depth \in Nat
    BY TypeFacts DEF Inv
  <1>2. Base(Depth) \in Int /\ Base(Depth + 1) = Base(Depth) + NumLocals /\ NumLocals \in Nat
    BY <1>1, BaseFacts
  <1>3. QED BY <1>1, <1>2 DEF Top

\* What a slot holds.
Holds ==
    \A a \in Slots :
      /\ a >= Top => SlotContents(a) = Own(Nil)
      /\ a < Top /\ (\A u \in Open(Heap) : upvalues[u].ptr # a) => SlotContents(a) = Own(stack[a])
      /\ \A u \in Open(Heap) : upvalues[u].ptr = a => a < Top /\ SlotContents(a) = InBox(u)

\* What a slot maps to: its value above no capture, else the upvalue that is open for it.
LEMMA Contents == Inv => Holds
  <1> SUFFICES ASSUME Inv, NEW a \in Slots
               PROVE  /\ a >= Top => SlotContents(a) = Own(Nil)
                      /\ a < Top /\ (\A u \in Open(Heap) : upvalues[u].ptr # a) => SlotContents(a) = Own(stack[a])
                      /\ \A u \in Open(Heap) : upvalues[u].ptr = a => a < Top /\ SlotContents(a) = InBox(u)
    BY DEF Holds
  <1>1. Top \in Int /\ a \in Int /\ OpenUpvalues = Open(Heap) /\ HeapOK(Heap)
    BY TopIs, HeapFields DEF Slots, OpenUpvalues, Open, UpvalueIds, Inv
  <1> DEFINE box == {u \in Open(Heap) : upvalues[u].ptr = a}
  <1>2. SlotContents(a) = IF a >= Top THEN Own(Nil) ELSE IF box = {} THEN Own(stack[a])
                          ELSE InBox(CHOOSE u \in box : TRUE)
    BY <1>1 DEF SlotContents, Top, Own, InBox
  <1>3. ASSUME a >= Top PROVE SlotContents(a) = Own(Nil)
    BY <1>2, <1>3
  <1>4. ASSUME a < Top, \A u \in Open(Heap) : upvalues[u].ptr # a PROVE SlotContents(a) = Own(stack[a])
    <2>1. ~(a >= Top) /\ box = {}
      BY <1>1, <1>4
    <2>2. QED BY <2>1, <1>2
  <1>5. ASSUME NEW u \in Open(Heap), upvalues[u].ptr = a PROVE a < Top /\ SlotContents(a) = InBox(u)
    <2>1. a < Top
      BY <1>5 DEF Inv, OpenBelow, Top
    <2>2. ~(a >= Top)
      BY <2>1, <1>1
    <2>3. box = {u}
      BY <1>1, <1>5, OneOpen
    <2>4. (CHOOSE x \in box : TRUE) = u
      BY <2>3
    <2>5. QED BY <2>1, <2>2, <2>3, <2>4, <1>2
  <1>6. QED BY <1>3, <1>4, <1>5

\* The same in the next state.
LEMMA ContentsNext ==
    Inv' => \A a \in Slots :
      /\ a >= Top' => SlotContents(a)' = Own(Nil)
      /\ a < Top' /\ (\A u \in Open(Heap)' : upvalues'[u].ptr # a) => SlotContents(a)' = Own(stack'[a])
      /\ \A u \in Open(Heap)' : upvalues'[u].ptr = a => a < Top' /\ SlotContents(a)' = InBox(u)
  <1>1. Inv' => Holds'
    BY Contents, PTL
  <1>2. QED BY <1>1 DEF Holds, Own, InBox

\* A slot keeps what it holds while its upvalue, or its value, stays.
LEMMA SlotKept ==
    ASSUME Inv, Inv', NEW a \in Slots, a < Top, a < Top',
           \A u : u \in Open(Heap) /\ upvalues[u].ptr = a <=> u \in Open(Heap)' /\ upvalues'[u].ptr = a,
           stack'[a] = stack[a] \/ \E u \in Open(Heap) : upvalues[u].ptr = a
    PROVE  SlotContents(a)' = SlotContents(a)
  <1>1. CASE \E u \in Open(Heap) : upvalues[u].ptr = a
    <2>1. PICK u \in Open(Heap) : upvalues[u].ptr = a
      BY <1>1
    <2>2. u \in Open(Heap)' /\ upvalues'[u].ptr = a
      BY <2>1
    <2>3. SlotContents(a) = InBox(u)
      BY <2>1, Contents DEF Holds
    <2>4. SlotContents(a)' = InBox(u)
      BY <2>2, ContentsNext
    <2>5. QED BY <2>3, <2>4
  <1>2. CASE ~\E u \in Open(Heap) : upvalues[u].ptr = a
    <2>1. \A u \in Open(Heap)' : upvalues'[u].ptr # a
      BY <1>2
    <2>2. SlotContents(a)' = Own(stack'[a])
      BY <2>1, ContentsNext
    <2>3. SlotContents(a) = Own(stack[a])
      BY <1>2, Contents DEF Holds
    <2>4. QED BY <2>2, <2>3, <1>2
  <1>3. QED BY <1>1, <1>2

\* The initial state maps to the initial state.
LEMMA BoxInit == Init => Boxes!Init
  <1> SUFFICES ASSUME Init PROVE Boxes!Init
    OBVIOUS
  <1>1. Inv /\ Depth = 0 /\ Open(Heap) = {} /\ stack = [a \in Slots |-> Nil]
    BY InvInit DEF Init, Depth, Open, Heap
  <1>2. \A a \in Slots : SlotContents(a) = Own(Nil)
    <2>1. ASSUME NEW a \in Slots PROVE SlotContents(a) = Own(Nil)
      <3>1. a >= Top \/ a < Top
        BY <1>1, TopIs DEF Slots
      <3>2. QED BY <3>1, <1>1, Contents DEF Holds
    <2>2. QED BY <2>1
  <1>3. BoxSlots = [a \in Slots |-> Own(Nil)]
    BY <1>2 DEF BoxSlots
  <1>4. BoxValues = <<>> /\ BoxCaptures = <<>>
    BY DEF Init, BoxValues, BoxCaptures, UpvalueIds, ClosureIds
  <1>5. QED BY <1>1, <1>3, <1>4, BoxNames DEF Boxes!Init, BoxSlots, BoxValues, BoxCaptures

\* The locals of a frame that is set up are nil.
LEMMA FrameFill ==
    ASSUME NEW f \in Int, NEW v, NEW a \in Slots, a > Base(f), a < Base(f + 1)
    PROVE  Frame(f, v)[a] = Nil
  <1>1. Base(f) \in Int /\ Base(f + 1) = Base(f) + NumLocals /\ NumLocals \in Nat /\ a \in Int
    BY BaseFacts DEF Slots
  <1>2. a # Base(f) /\ a \in InFrame(f)
    BY <1>1 DEF InFrame
  <1>3. QED BY <1>2 DEF Frame

\* A call enters a frame.
LEMMA EnterBox ==
    ASSUME Inv, Inv', NEW x, NEW v, Calls(x, v)
    PROVE  Boxes!Enter(v)
  <1>1. /\ throwing = 0 /\ Depth < MaxFrames /\ x \in 0 .. Len(closures) /\ v \in Values
        /\ frames' = Append(frames, x) /\ stack' = Frame(Depth + 1, v)
        /\ UNCHANGED <<upvalues, upvalueList, closures, throwing>>
    BY DEF Calls
  <1>2. TypeOK /\ HeapOK(Heap)
    BY DEF Inv
  <1>3. PICK d \in Nat : d = Depth /\ d < MaxFrames /\ d + 1 \in 1 .. MaxFrames
    <2>1. Depth \in Nat /\ MaxFrames \in Nat
      BY <1>2, TypeFacts
    <2>2. QED BY <2>1, <1>1
  <1>4. Depth' = d + 1
    <2>1. frames \in Seq(Nat) /\ x \in Nat
      BY <1>1, <1>2, TypeFacts DEF TypeOK
    <2>2. QED BY <2>1, <1>1, <1>3 DEF Depth
  <1>5. PICK e \in Int : e = d + 1 /\ e \in 1 .. MaxFrames
    BY <1>3
  <1>6. Base(e) \in Int /\ Base(e + 1) = Base(e) + NumLocals /\ NumLocals \in Nat /\ NumLocals > 0 /\ Base(e) \in Slots
    BY <1>5, BaseFacts, BaseSlot
  <1>7. Top = Base(e) /\ Top' = Base(e + 1)
    BY <1>3, <1>4, <1>5 DEF Top, Base
  <1>8. /\ stack'[Base(e)] = v
        /\ \A a \in Slots : a < Base(e) => stack'[a] = stack[a]
        /\ \A a \in Slots : a > Base(e) /\ a < Base(e + 1) => stack'[a] = Nil
    <2>1. stack' = Frame(e, v)
      BY <1>1, <1>3, <1>5
    <2>2. stack'[Base(e)] = v /\ \A a \in Slots : a < Base(e) => stack'[a] = stack[a]
      <3>1. e \in 1 .. MaxFrames /\ v \in Values
        BY <1>1, <1>5
      <3>2. Frame(e, v)[Base(e)] = v /\ \A a \in Slots : a < Base(e) => Frame(e, v)[a] = stack[a]
        BY <3>1, <1>2, FrameIs
      <3>3. QED BY <3>2, <2>1
    <2>3. \A a \in Slots : a > Base(e) /\ a < Base(e + 1) => Frame(e, v)[a] = Nil
      BY FrameFill
    <2>4. QED BY <2>1, <2>2, <2>3
  <1>9. Open(Heap)' = Open(Heap)
    BY <1>1, <1>2, HeapKept
  <1>10. \A u \in Open(Heap) : upvalues[u].ptr < Base(e) /\ upvalues[u].ptr \in Slots
    <2>1. \A u \in Open(Heap) : upvalues[u].ptr < Base(e)
      BY <1>7 DEF Inv, OpenBelow, Top
    <2>2. QED BY <2>1, <1>2, TypeFacts
  <1>11. ASSUME NEW a \in Slots PROVE SlotContents(a)' = IF a = Base(e) THEN Own(v) ELSE SlotContents(a)
    <2>1. a \in Int
      BY DEF Slots
    <2>2. CASE a < Base(e)
      <3>1. a < Top /\ a < Top' /\ stack'[a] = stack[a] /\ a # Base(e)
        BY <2>1, <2>2, <1>6, <1>7, <1>8
      <3>2. \A u : u \in Open(Heap) /\ upvalues[u].ptr = a <=> u \in Open(Heap)' /\ upvalues'[u].ptr = a
        BY <1>1, <1>9
      <3>3. QED BY <3>1, <3>2, SlotKept
    <2>3. CASE a >= Base(e)
      <3>1. \A u \in Open(Heap)' : upvalues'[u].ptr # a
        BY <2>1, <2>3, <1>1, <1>6, <1>9, <1>10
      <3>2. SlotContents(a) = Own(Nil)
        BY <2>3, <1>7, Contents DEF Holds
      <3>3. CASE a = Base(e)
        <4>1. a < Top'
          BY <3>3, <1>6, <1>7
        <4>2. SlotContents(a)' = Own(stack'[a])
          BY <4>1, <3>1, ContentsNext
        <4>3. QED BY <4>2, <3>3, <1>8
      <3>4. CASE a > Base(e) /\ a < Base(e + 1)
        <4>1. SlotContents(a)' = Own(stack'[a])
          BY <3>1, <3>4, <1>7, ContentsNext
        <4>2. a # Base(e) /\ stack'[a] = Nil
          BY <3>4, <2>1, <1>6, <1>8
        <4>3. QED BY <4>1, <4>2, <3>2
      <3>5. CASE a >= Base(e + 1)
        <4>1. SlotContents(a)' = Own(Nil)
          BY <3>5, <1>7, ContentsNext
        <4>2. a # Base(e)
          BY <3>5, <2>1, <1>6
        <4>3. QED BY <4>1, <4>2, <3>2
      <3>6. QED BY <3>3, <3>4, <3>5, <2>1, <2>3, <1>6
    <2>4. QED BY <2>1, <2>2, <2>3, <1>6
  <1>12. BoxSlots' = [BoxSlots EXCEPT ![Base(e)] = Own(v)]
    <2>1. BoxSlots' = [a \in Slots |-> IF a = Base(e) THEN Own(v) ELSE SlotContents(a)]
      BY <1>11 DEF BoxSlots
    <2>2. QED BY <2>1, <1>6 DEF BoxSlots
  <1>13. BoxCaptures' = BoxCaptures
    BY <1>1 DEF BoxCaptures, ClosureIds
  <1>14. BoxValues' = BoxValues
    <2>1. ASSUME NEW u \in UpvalueIds PROVE Value(u)' = Value(u)
      <3>1. CASE upvalues[u].isClosed
        BY <3>1, <1>1 DEF Value
      <3>2. CASE ~upvalues[u].isClosed
        <4>1. u \in Open(Heap)
          BY <3>2, <1>2, TypeFacts
        <4>2. stack'[upvalues[u].ptr] = stack[upvalues[u].ptr]
          BY <4>1, <1>8, <1>10
        <4>3. QED BY <4>2, <3>2, <1>1 DEF Value
      <3>3. QED BY <3>1, <3>2
    <2>2. UpvalueIds' = UpvalueIds
      BY <1>1 DEF UpvalueIds
    <2>3. QED BY <2>1, <2>2 DEF BoxValues
  <1>15. Boxes!Base(Depth + 1) = Base(e)
    BY <1>3, <1>5, BoxNames
  <1>16. QED BY <1>3, <1>4, <1>5, <1>12, <1>13, <1>14, <1>15, BoxNames
             DEF Boxes!Enter, BoxSlots, BoxValues, BoxCaptures

\* What unwinding to k leaves of the captured variables: everything, and of the
\* slots, the ones below.
LEMMA UnwindBox ==
    ASSUME Inv, Inv', NEW k, Unwinds(k)
    PROVE  /\ BoxValues' = BoxValues /\ BoxCaptures' = BoxCaptures
           /\ \A u \in Open(Heap)' : upvalues'[u].ptr < Base(k + 1)
           /\ \A a \in Slots : a < Base(k + 1) => SlotContents(a)' = SlotContents(a)
  <1>1. /\ k \in Nat /\ k < Depth /\ CloseFrom(Base(k + 1)) /\ Unwound(k)
        /\ (\A a \in Slots : a < Base(k + 1) => stack'[a] = stack[a])
        /\ frames' \in Seq(Nat) /\ (Len(frames') = k \/ Len(frames') = k + 1)
    BY DEF Unwinds
  <1>2. TypeOK /\ HeapOK(Heap) /\ stack \in [Slots -> Values]
    BY DEF Inv, TypeOK
  <1>3. PICK b \in Int : b = Base(k + 1)
    <2>1. k + 1 \in Int
      BY <1>1
    <2>2. QED BY <2>1, BaseFacts
  <1>4. ClosedAbove(b)
    BY <1>1, <1>2, <1>3, CloseFromIs
  <1>5. /\ Len(upvalues') = Len(upvalues)
        /\ \A u \in UpvalueIds : upvalues'[u].ptr = upvalues[u].ptr
        /\ \A u \in UpvalueIds : upvalues[u].isClosed => upvalues'[u].isClosed
        /\ \A u \in UpvalueIds : ~upvalues'[u].isClosed => upvalues[u].ptr < b
        /\ \A u \in UpvalueIds : Value(u)' = Value(u)
    BY <1>1, <1>2, <1>3, <1>4, ClosedFacts
  <1>6. UpvalueIds' = UpvalueIds /\ ClosureIds' = ClosureIds
    BY <1>1, <1>5 DEF UpvalueIds, ClosureIds, Unwound
  <1>7. BoxValues' = BoxValues
    BY <1>5, <1>6 DEF BoxValues
  <1>8. BoxCaptures' = BoxCaptures
    <2>1. \A c \in ClosureIds : closures'[c].self = closures[c].self /\ closures'[c].uv = closures[c].uv
      BY <1>1 DEF Unwound
    <2>2. QED BY <2>1, <1>6 DEF BoxCaptures
  <1>9. /\ \A u : u \in Open(Heap)' <=> u \in UpvalueIds /\ ~upvalues'[u].isClosed
        /\ \A u : u \in Open(Heap) <=> u \in UpvalueIds /\ ~upvalues[u].isClosed
    BY <1>5 DEF Open, Heap, UpvalueIds
  <1>10. \A u \in Open(Heap)' : upvalues'[u].ptr < b
    BY <1>5, <1>9
  <1>11. b <= Top /\ b <= Top' /\ Top \in Int /\ Top' \in Int
    <2>1. PICK d \in Int : d = Depth + 1 /\ k + 1 < d
      BY <1>1, TopIs
    <2>2. PICK e \in Int : e = k + 1 /\ e < d
      BY <1>1, <2>1
    <2>3. PICK g \in Int : g = Depth' + 1 /\ (g = e \/ g = e + 1)
      BY <1>1, <2>2 DEF Depth
    <2>4. /\ Base(d) \in Int /\ Base(e) \in Int /\ Base(g) \in Int /\ NumLocals \in Nat
          /\ Base(e + 1) = Base(e) + NumLocals
      BY BaseFacts
    <2>5. Base(e) + NumLocals <= Base(d)
      BY <2>2, BaseOrder
    <2>6. Base(e) <= Base(d) /\ Base(e) <= Base(g)
      BY <2>3, <2>4, <2>5
    <2>7. Top = Base(d) /\ Top' = Base(g) /\ b = Base(e)
      BY <2>1, <2>2, <2>3, <1>3 DEF Top, Base
    <2>8. QED BY <2>4, <2>6, <2>7
  <1>12. ASSUME NEW a \in Slots, a < b PROVE SlotContents(a)' = SlotContents(a)
    <2>1. a \in Int /\ a < Top /\ a < Top' /\ stack'[a] = stack[a]
      BY <1>1, <1>3, <1>11, <1>12 DEF Slots
    <2>2. ASSUME NEW u \in UpvalueIds, upvalues[u].ptr = a PROVE upvalues'[u].isClosed <=> upvalues[u].isClosed
      <3>1. CASE upvalues[u].isClosed
        BY <3>1, <1>5
      <3>2. CASE ~upvalues[u].isClosed
        <4>1. ~(upvalues[u].ptr >= b)
          BY <2>1, <2>2, <1>12
        <4>2. upvalues'[u] = upvalues[u]
          BY <4>1, <1>4 DEF ClosedAbove
        <4>3. QED BY <4>2
      <3>3. QED BY <3>1, <3>2
    <2>3. \A u : u \in Open(Heap) /\ upvalues[u].ptr = a <=> u \in Open(Heap)' /\ upvalues'[u].ptr = a
      <3>1. \A u \in UpvalueIds : upvalues[u].ptr = a <=> upvalues'[u].ptr = a
        BY <1>5
      <3>2. QED BY <3>1, <2>2, <1>9, Zenon
    <2>4. QED BY <2>1, <2>3, SlotKept
  <1>13. QED BY <1>3, <1>7, <1>8, <1>10, <1>12

\* A return is a Leave.
LEMMA LeaveBox ==
    ASSUME Inv, Inv', NEW k, Unwinds(k), Len(frames') = k
    PROVE  k \in 0 .. Depth - 1 /\ Boxes!Leave(k)
  <1>1. k \in Nat /\ k < Depth /\ Depth' = k /\ Depth \in Nat
    BY TopIs DEF Unwinds, Depth
  <1>2. /\ BoxValues' = BoxValues /\ BoxCaptures' = BoxCaptures
        /\ \A a \in Slots : a < Base(k + 1) => SlotContents(a)' = SlotContents(a)
    BY UnwindBox
  <1>3. Top' = Base(k + 1)
    BY <1>1 DEF Top, Base
  <1>4. Base(k + 1) \in Int
    <2>1. k + 1 \in Int
      BY <1>1
    <2>2. QED BY <2>1, BaseFacts
  <1>5. ASSUME NEW a \in Slots
        PROVE  SlotContents(a)' = IF a >= Base(k + 1) THEN Own(Nil) ELSE BoxSlots[a]
    <2>1. CASE a >= Base(k + 1)
      BY <2>1, <1>3, ContentsNext
    <2>2. CASE ~(a >= Base(k + 1))
      <3>1. a < Base(k + 1)
        BY <2>2, <1>4 DEF Slots
      <3>2. QED BY <3>1, <2>2, <1>2 DEF BoxSlots
    <2>3. QED BY <2>1, <2>2
  <1>6. BoxSlots' = [a \in Slots |-> IF a >= Base(k + 1) THEN Own(Nil) ELSE BoxSlots[a]]
    BY <1>5 DEF BoxSlots
  <1>7. Boxes!Leave(k)
    BY <1>1, <1>2, <1>6, BoxNames DEF Boxes!Leave, BoxSlots, BoxValues, BoxCaptures
  <1>8. QED BY <1>1, <1>7

\* EscapedBlock is a Reenter: one frame is left and one entered.
LEMMA ReenterBox ==
    ASSUME Inv, Inv', NEW k, NEW v \in Values, Unwinds(k), Depth = k + 1, Len(frames') = k + 1, stack' = Frame(k + 1, v)
    PROVE  Boxes!Reenter(v)
  <1>1. k \in Nat /\ Depth' = k + 1
    BY DEF Unwinds, Depth
  <1>2. /\ BoxValues' = BoxValues /\ BoxCaptures' = BoxCaptures
        /\ \A u \in Open(Heap)' : upvalues'[u].ptr < Base(k + 1)
        /\ \A a \in Slots : a < Base(k + 1) => SlotContents(a)' = SlotContents(a)
    BY UnwindBox
  <1>3. PICK e \in Int : e = k + 1 /\ e \in 1 .. MaxFrames
    <2>1. Depth <= MaxFrames /\ MaxFrames \in Nat
      BY TypeFacts DEF Inv
    <2>2. QED BY <2>1, <1>1
  <1>4. Base(e) \in Int /\ Base(e + 1) = Base(e) + NumLocals /\ NumLocals \in Nat /\ NumLocals > 0
    BY BaseFacts
  <1>5. Top' = Base(e + 1)
    BY <1>1, <1>3 DEF Top, Base
  <1>6. stack'[Base(e)] = v /\ \A a \in Slots : a > Base(e) /\ a < Base(e + 1) => stack'[a] = Nil
    <2>1. stack' = Frame(e, v)
      BY <1>3
    <2>2. Frame(e, v)[Base(e)] = v
      BY <1>3, FrameIs DEF Inv
    <2>3. \A a \in Slots : a > Base(e) /\ a < Base(e + 1) => Frame(e, v)[a] = Nil
      BY FrameFill
    <2>4. QED BY <2>1, <2>2, <2>3
  <1>7. ASSUME NEW a \in Slots
        PROVE  SlotContents(a)' = IF a = Base(e) THEN Own(v) ELSE IF a > Base(e) THEN Own(Nil) ELSE BoxSlots[a]
    <2>1. a \in Int
      BY DEF Slots
    <2>2. CASE a < Base(e)
      <3>1. a # Base(e) /\ ~(a > Base(e))
        BY <2>1, <2>2, <1>4
      <3>2. QED BY <3>1, <2>2, <1>2, <1>3 DEF BoxSlots
    <2>3. CASE a >= Base(e)
      <3>1. \A u \in Open(Heap)' : upvalues'[u].ptr # a
        <4>1. \A u \in Open(Heap)' : upvalues'[u].ptr < Base(e)
          BY <1>2, <1>3
        <4>2. ~(a < Base(e))
          BY <2>1, <2>3, <1>4
        <4>3. QED BY <4>1, <4>2
      <3>2. CASE a = Base(e)
        <4>1. a < Top'
          BY <3>2, <1>4, <1>5
        <4>2. SlotContents(a)' = Own(stack'[a])
          BY <4>1, <3>1, ContentsNext
        <4>3. QED BY <4>2, <3>2, <1>6
      <3>3. CASE a > Base(e) /\ a < Base(e + 1)
        <4>1. SlotContents(a)' = Own(stack'[a])
          BY <3>1, <3>3, <1>5, ContentsNext
        <4>2. a # Base(e) /\ stack'[a] = Nil
          BY <3>3, <2>1, <1>4, <1>6
        <4>3. QED BY <4>1, <4>2, <3>3
      <3>4. CASE a >= Base(e + 1)
        <4>1. SlotContents(a)' = Own(Nil)
          BY <3>4, <1>5, ContentsNext
        <4>2. a # Base(e) /\ a > Base(e)
          BY <3>4, <2>1, <1>4
        <4>3. QED BY <4>1, <4>2
      <3>5. QED BY <3>2, <3>3, <3>4, <2>1, <2>3, <1>4
    <2>4. QED BY <2>1, <2>2, <2>3, <1>4
  <1>8. BoxSlots' = [a \in Slots |-> IF a = Base(e) THEN Own(v) ELSE IF a > Base(e) THEN Own(Nil) ELSE BoxSlots[a]]
    BY <1>7 DEF BoxSlots
  <1>9. Base(Depth) = Base(e) /\ Depth > 0 /\ Depth' = Depth
    BY <1>1, <1>3
  <1>10. QED BY <1>2, <1>8, <1>9, BoxNames DEF Boxes!Reenter, BoxSlots, BoxValues, BoxCaptures

\* Which upvalues are open, and for which slots, does not change.
SameOpen ==
    /\ Len(upvalues') = Len(upvalues)
    /\ \A u : u \in Open(Heap)' <=> u \in Open(Heap)
    /\ \A u \in UpvalueIds : upvalues'[u].ptr = upvalues[u].ptr

\* Slots keep what they hold when only boxed ones are written.
LEMMA SlotsKept ==
    ASSUME Inv, Inv', SameOpen, Depth' = Depth, NEW a \in Slots,
           stack'[a] = stack[a] \/ \E u \in Open(Heap) : upvalues[u].ptr = a
    PROVE  SlotContents(a)' = SlotContents(a)
  <1>1. Top' = Top /\ Top \in Int /\ a \in Int
    BY TopIs DEF Top, Base, Slots
  <1>2. CASE a < Top
    <2>1. \A u : u \in Open(Heap) /\ upvalues[u].ptr = a <=> u \in Open(Heap)' /\ upvalues'[u].ptr = a
      <3>1. \A u \in Open(Heap) : u \in UpvalueIds
        BY DEF Open, Heap, UpvalueIds
      <3>2. QED BY <3>1 DEF SameOpen
    <2>2. QED BY <2>1, <1>1, <1>2, SlotKept
  <1>3. CASE a >= Top
    BY <1>1, <1>3, Contents, ContentsNext DEF Holds
  <1>4. QED BY <1>1, <1>2, <1>3

\* A slot is written: the variable is in it, or in its box.
LEMMA PutSlotBox ==
    ASSUME Inv, Inv', NEW b \in Slots, b < Top, NEW v, stack' = [stack EXCEPT ![b] = v],
           UNCHANGED <<frames, upvalues, upvalueList, closures, throwing>>
    PROVE  /\ Boxes!PutSlot(b, v)
           /\ \A u \in Open(Heap) : upvalues[u].ptr = b => Boxes!PutBox(u, v)
  <1>1. TypeOK /\ HeapOK(Heap) /\ stack \in [Slots -> Values]
    BY DEF Inv, TypeOK
  <1>2. stack'[b] = v /\ \A a \in Slots : a # b => stack'[a] = stack[a]
    BY <1>1
  <1>3. SameOpen /\ Depth' = Depth /\ UpvalueIds' = UpvalueIds
    BY DEF SameOpen, Open, Heap, Depth, UpvalueIds
  <1>4. BoxCaptures' = BoxCaptures
    BY DEF BoxCaptures, ClosureIds
  <1>5. \A a \in Slots : a # b => SlotContents(a)' = SlotContents(a)
    BY <1>2, <1>3, SlotsKept
  <1>6. /\ \A u : u \in Open(Heap) <=> u \in UpvalueIds /\ ~upvalues[u].isClosed
        /\ \A u \in UpvalueIds : upvalues[u].ptr \in Slots
    BY <1>1, TypeFacts
  <1>7. \A u \in UpvalueIds : ~(u \in Open(Heap) /\ upvalues[u].ptr = b) => Value(u)' = Value(u)
    <2>1. ASSUME NEW u \in UpvalueIds, ~(u \in Open(Heap) /\ upvalues[u].ptr = b) PROVE Value(u)' = Value(u)
      <3>1. CASE upvalues[u].isClosed
        BY <3>1 DEF Value
      <3>2. CASE ~upvalues[u].isClosed
        <4>1. upvalues[u].ptr # b /\ upvalues[u].ptr \in Slots
          BY <3>2, <2>1, <1>6
        <4>2. stack'[upvalues[u].ptr] = stack[upvalues[u].ptr]
          BY <4>1, <1>2
        <4>3. QED BY <4>2, <3>2 DEF Value
      <3>3. QED BY <3>1, <3>2
    <2>2. QED BY <2>1
  <1>8. CASE \A u \in Open(Heap) : upvalues[u].ptr # b
    <2>1. SlotContents(b) = Own(stack[b])
      BY <1>8, Contents DEF Holds
    <2>2. SlotContents(b)' = Own(v)
      <3>1. Top' = Top
        BY <1>3 DEF Top, Base
      <3>2. \A u \in Open(Heap)' : upvalues'[u].ptr # b
        BY <1>3, <1>8 DEF SameOpen
      <3>3. QED BY <3>1, <3>2, <1>2, ContentsNext
    <2>3. BoxSlots' = [BoxSlots EXCEPT ![b] = Own(v)]
      <3>1. \A a \in Slots : SlotContents(a)' = IF a = b THEN Own(v) ELSE SlotContents(a)
        BY <2>2, <1>5
      <3>2. BoxSlots' = [a \in Slots |-> IF a = b THEN Own(v) ELSE SlotContents(a)]
        BY <3>1 DEF BoxSlots
      <3>3. QED BY <3>2 DEF BoxSlots
    <2>4. BoxSlots[b].box = 0
      BY <2>1 DEF BoxSlots, Own
    <2>5. BoxValues' = BoxValues
      BY <1>3, <1>7, <1>8 DEF BoxValues
    <2>6. Boxes!PutSlot(b, v)
      BY <2>3, <2>4, <2>5, <1>3, <1>4, BoxNames DEF Boxes!PutSlot, BoxSlots, BoxValues, BoxCaptures
    <2>7. QED BY <2>6, <1>8
  <1>9. CASE \E u \in Open(Heap) : upvalues[u].ptr = b
    <2>1. PICK u \in Open(Heap) : upvalues[u].ptr = b
      BY <1>9
    <2>2. u \in UpvalueIds /\ ~upvalues[u].isClosed
      BY <1>6
    <2>3. SlotContents(b) = InBox(u) /\ SlotContents(b)' = SlotContents(b)
      BY <2>1, <1>3, Contents, SlotsKept DEF Holds
    <2>4. BoxSlots' = BoxSlots
      BY <2>3, <1>5 DEF BoxSlots
    <2>5. u # 0 /\ BoxSlots[b].box = u
      BY <2>2, <2>3 DEF BoxSlots, InBox, UpvalueIds
    <2>6. \A w \in UpvalueIds : Value(w)' = IF w = u THEN v ELSE Value(w)
      <3>1. Value(u)' = v
        BY <2>1, <2>2, <1>2 DEF Value
      <3>2. \A w \in Open(Heap) : upvalues[w].ptr = b => w = u
        BY <2>1, <1>1, OneOpen
      <3>3. QED BY <3>1, <3>2, <1>7
    <2>7. BoxValues' = [BoxValues EXCEPT ![u] = v]
      <3>1. BoxValues' = [w \in UpvalueIds |-> IF w = u THEN v ELSE Value(w)]
        BY <2>6, <1>3 DEF BoxValues
      <3>2. QED BY <3>1, <2>2 DEF BoxValues
    <2>8. Boxes!PutSlot(b, v)
      BY <2>4, <2>5, <2>7, <1>3, <1>4 DEF Boxes!PutSlot, BoxSlots, BoxValues, BoxCaptures
    <2>9. Boxes!PutBox(u, v)
      BY <2>4, <2>7, <1>3, <1>4 DEF Boxes!PutBox, BoxSlots, BoxValues, BoxCaptures
    <2>10. \A w \in Open(Heap) : upvalues[w].ptr = b => w = u
      BY <2>1, <1>1, OneOpen
    <2>11. QED BY <2>8, <2>9, <2>10
  <1>10. QED BY <1>8, <1>9

\* SetLocal writes the slot, or the box it shares with the closures over it.
LEMMA SetLocalBox ==
    ASSUME Inv, Inv', NEW l \in 1 .. NumLocals - 1, NEW v \in Values, SetLocal(l, v)
    PROVE  Boxes!Next
  <1>1. Depth > 0 /\ stack' = [stack EXCEPT ![Base(Depth) + l] = v] /\ UNCHANGED <<frames, upvalues, upvalueList, closures, throwing>>
    BY DEF SetLocal, Running
  <1>2. Depth \in 1 .. MaxFrames
    BY <1>1, TypeFacts DEF Inv
  <1>3. PICK b \in Slots : b = Base(Depth) + l
    <2>1. Depth \in Int /\ l \in 0 .. NumLocals - 1
      BY <1>2
    <2>2. QED BY <2>1, <1>2, SlotFacts
  <1>4. b < Top /\ b \in InFrame(Depth)
    BY <1>3, TopIs DEF InFrame, Top
  <1>5. Boxes!PutSlot(b, v)
    BY <1>1, <1>3, <1>4, PutSlotBox
  <1>6. QED BY <1>1, <1>4, <1>5, BoxNames DEF Boxes!Next

\* UpvaluePut writes the box of the variable, open or closed.
LEMMA UpvaluePutBox ==
    ASSUME Inv, Inv', NEW v \in Values, UpvaluePut(v)
    PROVE  Boxes!Next
  <1>1. TypeOK /\ HeapOK(Heap)
    BY DEF Inv
  <1>2. PICK c \in ClosureIds : c = Last(frames) /\ closures[c].uv # 0
    <2>1. Depth \in 1 .. Depth /\ Last(frames) = frames[Depth]
      <3>1. Depth > 0 /\ Depth \in Nat
        BY <1>1, TypeFacts DEF UpvaluePut, Running
      <3>2. Last(frames) = frames[Depth]
        BY DEF Last, Depth
      <3>3. QED BY <3>1, <3>2
    <2>2. Last(frames) \in 0 .. Len(closures) /\ Last(frames) # 0
      BY <2>1, <1>1, TypeFacts DEF UpvaluePut
    <2>3. QED BY <2>2 DEF UpvaluePut, ClosureIds
  <1>3. PICK u \in UpvalueIds : u = closures[c].uv
    BY <1>2 DEF Inv, RefsOK, UpvalueIds
  <1>4. UNCHANGED <<frames, upvalueList, closures, throwing>>
    BY DEF UpvaluePut
  <1>5. \/ upvalues[u].isClosed /\ upvalues' = [upvalues EXCEPT ![u].tv = v] /\ UNCHANGED stack
        \/ ~upvalues[u].isClosed /\ stack' = [stack EXCEPT ![upvalues[u].ptr] = v] /\ UNCHANGED upvalues
    BY <1>2, <1>3, Zenon DEF UpvaluePut
  <1>6. Boxes!PutBox(u, v)
    <2>1. CASE ~upvalues[u].isClosed /\ stack' = [stack EXCEPT ![upvalues[u].ptr] = v] /\ UNCHANGED upvalues
      <3>1. u \in Open(Heap) /\ upvalues[u].ptr \in Slots
        BY <2>1, <1>1, TypeFacts
      <3>2. upvalues[u].ptr < Top
        BY <3>1 DEF Inv, OpenBelow, Top
      <3>3. QED BY <3>1, <3>2, <2>1, <1>4, PutSlotBox
    <2>2. CASE upvalues[u].isClosed /\ upvalues' = [upvalues EXCEPT ![u].tv = v] /\ UNCHANGED stack
      <3>1. upvalues \in Seq(UV) /\ upvalues[u] \in UV /\ u \in DOMAIN upvalues
        BY <1>1, TypeFacts DEF UpvalueIds
      <3>2. PICK x : x = [upvalues[u] EXCEPT !.tv = v]
        OBVIOUS
      <3>3. x.ptr = upvalues[u].ptr /\ x.isClosed = upvalues[u].isClosed /\ x.tv = v
        BY <3>1, <3>2 DEF UV
      <3>4. upvalues' = [upvalues EXCEPT ![u] = x]
        BY <3>2, <2>2
      <3>5. Len(upvalues') = Len(upvalues) /\ upvalues'[u] = x /\ \A w \in UpvalueIds : w # u => upvalues'[w] = upvalues[w]
        BY <3>1, <3>4 DEF UpvalueIds
      <3>6. \A w \in UpvalueIds : upvalues'[w].ptr = upvalues[w].ptr /\ upvalues'[w].isClosed = upvalues[w].isClosed
        BY <3>3, <3>5
      <3>7. SameOpen
        <4>1. \A w : w \in Open(Heap)' <=> w \in UpvalueIds /\ ~upvalues'[w].isClosed
          BY <3>5 DEF Open, Heap, UpvalueIds
        <4>2. \A w : w \in Open(Heap) <=> w \in UpvalueIds /\ ~upvalues[w].isClosed
          BY DEF Open, Heap, UpvalueIds
        <4>3. \A w : w \in Open(Heap)' <=> w \in Open(Heap)
          BY <4>1, <4>2, <3>6, Zenon
        <4>4. QED BY <4>3, <3>5, <3>6 DEF SameOpen
      <3>8. Depth' = Depth /\ BoxCaptures' = BoxCaptures
        BY <1>4 DEF Depth, BoxCaptures, ClosureIds
      <3>9. BoxSlots' = BoxSlots
        <4>1. \A a \in Slots : SlotContents(a)' = SlotContents(a)
          BY <2>2, <3>7, <3>8, SlotsKept
        <4>2. QED BY <4>1 DEF BoxSlots
      <3>10. BoxValues' = [BoxValues EXCEPT ![u] = v]
        <4>1. Value(u)' = v
          <5>1. upvalues'[u].isClosed /\ upvalues'[u].tv = v
            BY <3>3, <3>5, <2>2
          <5>2. QED BY <5>1 DEF Value
        <4>2. \A w \in UpvalueIds : w # u => Value(w)' = Value(w)
          BY <3>5, <2>2 DEF Value
        <4>3. UpvalueIds' = UpvalueIds
          BY <3>5 DEF UpvalueIds
        <4>4. BoxValues' = [w \in UpvalueIds |-> IF w = u THEN v ELSE Value(w)]
          BY <4>1, <4>2, <4>3 DEF BoxValues
        <4>5. QED BY <4>4 DEF BoxValues
      <3>11. QED BY <3>8, <3>9, <3>10 DEF Boxes!PutBox, BoxSlots, BoxValues, BoxCaptures
    <2>3. QED BY <2>1, <2>2, <1>5
  <1>7. QED BY <1>6 DEF Boxes!Next

\* UpvalueClose ends the scope of the locals from l up.
LEMMA EndScopeBox ==
    ASSUME Inv, Inv', NEW l \in 1 .. NumLocals - 1, UpvalueClose(l)
    PROVE  Boxes!Next
  <1>1. TypeOK /\ HeapOK(Heap) /\ stack \in [Slots -> Values] /\ Depth > 0
    BY DEF Inv, TypeOK, UpvalueClose, Running
  <1>2. /\ Top \in Int /\ Top = Base(Depth) + NumLocals /\ NumLocals \in Nat /\ Base(Depth) \in Int
    BY TopIs
  <1>3. PICK b \in Int : b = Base(Depth) + l /\ b \in InFrame(Depth) /\ b > Base(Depth)
    <2>1. Base(Depth) + l \in InFrame(Depth)
      BY <1>2 DEF InFrame, Top
    <2>2. QED BY <2>1, <1>2
  <1>4. CloseFrom(b) /\ UNCHANGED <<frames, stack, closures>> /\ Depth' = Depth
    BY <1>3 DEF UpvalueClose, CloseUpvalues, Depth
  <1>5. ClosedAbove(b)
    BY <1>1, <1>4, CloseFromIs
  <1>6. \A a \in Slots : a < b => stack'[a] = stack[a]
    BY <1>4
  <1>7. /\ Len(upvalues') = Len(upvalues)
        /\ \A u \in UpvalueIds : upvalues'[u].ptr = upvalues[u].ptr
        /\ \A u \in UpvalueIds : upvalues[u].isClosed => upvalues'[u].isClosed
        /\ \A u \in UpvalueIds : ~upvalues'[u].isClosed => upvalues[u].ptr < b
        /\ \A u \in UpvalueIds : Value(u)' = Value(u)
    BY <1>1, <1>5, <1>6, ClosedFacts
  <1>8. /\ \A u : u \in Open(Heap)' <=> u \in UpvalueIds /\ ~upvalues'[u].isClosed
        /\ \A u : u \in Open(Heap) <=> u \in UpvalueIds /\ ~upvalues[u].isClosed
    BY <1>7 DEF Open, Heap, UpvalueIds
  <1>9. BoxCaptures' = BoxCaptures /\ UpvalueIds' = UpvalueIds
    BY <1>4, <1>7 DEF BoxCaptures, ClosureIds, UpvalueIds
  <1>10. BoxValues' = BoxValues
    BY <1>7, <1>9 DEF BoxValues
  <1>11. Top' = Top
    BY <1>4 DEF Top, Base
  <1> DEFINE read(x) == IF BoxSlots[x].box = 0 THEN BoxSlots[x].val ELSE BoxValues[BoxSlots[x].box]
  <1>12. ASSUME NEW x \in Slots
         PROVE  SlotContents(x)' = IF x \in InFrame(Depth) /\ x >= b THEN Own(read(x)) ELSE BoxSlots[x]
    <2>1. x \in Int /\ BoxSlots[x] = SlotContents(x)
      BY DEF Slots, BoxSlots
    <2>2. CASE x < b
      <3>1. x < Top /\ ~(x >= b)
        BY <2>1, <2>2, <1>2, <1>3
      <3>2. ASSUME NEW u \in UpvalueIds, upvalues[u].ptr = x PROVE upvalues'[u].isClosed <=> upvalues[u].isClosed
        <4>1. CASE upvalues[u].isClosed
          BY <4>1, <1>7
        <4>2. CASE ~upvalues[u].isClosed
          <5>1. ~(upvalues[u].ptr >= b)
            BY <3>1, <3>2
          <5>2. upvalues'[u] = upvalues[u]
            BY <5>1, <1>5 DEF ClosedAbove
          <5>3. QED BY <5>2
        <4>3. QED BY <4>1, <4>2
      <3>3. \A u : u \in Open(Heap) /\ upvalues[u].ptr = x <=> u \in Open(Heap)' /\ upvalues'[u].ptr = x
        <4>1. \A u \in UpvalueIds : upvalues[u].ptr = x <=> upvalues'[u].ptr = x
          BY <1>7
        <4>2. QED BY <4>1, <3>2, <1>8, Zenon
      <3>4. SlotContents(x)' = SlotContents(x)
        BY <3>1, <3>3, <1>4, <1>11, SlotKept
      <3>5. QED BY <3>1, <3>4, <2>1
    <2>3. CASE x >= Top
      <3>1. x \notin InFrame(Depth)
        BY <2>1, <2>3, <1>2 DEF InFrame, Top
      <3>2. SlotContents(x) = Own(Nil) /\ SlotContents(x)' = Own(Nil)
        BY <2>3, <1>11, Contents, ContentsNext DEF Holds
      <3>3. QED BY <3>1, <3>2, <2>1
    <2>4. CASE x >= b /\ x < Top
      <3>1. x \in InFrame(Depth)
        BY <2>1, <2>4, <1>2, <1>3 DEF InFrame, Top
      <3>2. \A u \in Open(Heap)' : upvalues'[u].ptr # x
        <4>1. \A u \in Open(Heap)' : upvalues'[u].ptr < b
          BY <1>7, <1>8
        <4>2. ~(x < b)
          BY <2>1, <2>4
        <4>3. QED BY <4>1, <4>2
      <3>3. SlotContents(x)' = Own(stack[x])
        BY <3>2, <2>4, <1>4, <1>11, ContentsNext
      <3>4. read(x) = stack[x]
        <4>1. CASE \E u \in Open(Heap) : upvalues[u].ptr = x
          <5>1. PICK u \in Open(Heap) : upvalues[u].ptr = x
            BY <4>1
          <5>2. SlotContents(x) = InBox(u)
            BY <5>1, Contents DEF Holds
          <5>3. u \in UpvalueIds /\ ~upvalues[u].isClosed /\ u # 0
            BY <1>8 DEF UpvalueIds
          <5>4. BoxSlots[x].box = u /\ BoxValues[u] = Value(u)
            BY <5>2, <5>3, <2>1 DEF InBox, BoxValues
          <5>5. Value(u) = stack[x]
            BY <5>1, <5>3 DEF Value
          <5>6. QED BY <5>3, <5>4, <5>5
        <4>2. CASE ~\E u \in Open(Heap) : upvalues[u].ptr = x
          <5>1. SlotContents(x) = Own(stack[x])
            BY <4>2, <2>4, Contents DEF Holds
          <5>2. QED BY <5>1, <2>1 DEF Own
        <4>3. QED BY <4>1, <4>2
      <3>5. QED BY <3>1, <3>3, <3>4, <2>4
    <2>5. QED BY <2>1, <2>2, <2>3, <2>4, <1>2
  <1>13. BoxSlots' = [x \in Slots |-> IF x \in InFrame(Depth) /\ x >= b THEN Own(read(x)) ELSE BoxSlots[x]]
    BY <1>12 DEF BoxSlots
  <1>14. Boxes!EndScope(b)
    BY <1>4, <1>9, <1>10, <1>13, BoxNames DEF Boxes!EndScope, BoxSlots, BoxValues, BoxCaptures
  <1>15. QED BY <1>1, <1>3, <1>14, BoxNames DEF Boxes!Next

Ordered(new, As, Bs, order) ==
    /\ \A a \in new : \E i \in DOMAIN order : order[i] = a
    /\ \A i, j \in DOMAIN order : order[i] = order[j] => i = j
    /\ BoxValues' = BoxValues \o [i \in DOMAIN order |-> BoxSlots[order[i]].val]
    /\ BoxSlots' = [a \in Slots |-> IF a \in new
                                    THEN InBox(Len(BoxValues) + CHOOSE i \in DOMAIN order : order[i] = a)
                                    ELSE BoxSlots[a]]
    /\ BoxCaptures' = Append(BoxCaptures, {BoxSlots'[a].box : a \in As} \union Bs)
    /\ UNCHANGED Depth

\* What a Capture is, its order of new boxes given.
LEMMA CaptureIs ==
    ASSUME NEW As, NEW Bs, NEW new, new = {a \in As : BoxSlots[a].box = 0},
           NEW order \in [1 .. Len(BoxValues') - Len(BoxValues) -> new], Ordered(new, As, Bs, order)
    PROVE  Boxes!Capture(As, Bs)
  <1>1. \E o \in [1 .. Len(BoxValues') - Len(BoxValues) -> {a \in As : BoxSlots[a].box = 0}] :
          Ordered({a \in As : BoxSlots[a].box = 0}, As, Bs, o)
    OBVIOUS
  <1>2. QED BY <1>1 DEF Boxes!Capture, Ordered, BoxSlots, BoxValues, BoxCaptures, Boxes!Boxed, InBox, Boxes!Slots, Slots

\* Two sequences with the same elements.
LEMMA SameSeq ==
    ASSUME NEW S, NEW p \in Seq(S), NEW q \in Seq(S), Len(p) = Len(q), \A i \in 1 .. Len(p) : p[i] = q[i]
    PROVE  p = q
  OBVIOUS

Unshared == \A u, v \in Open(Heap) : upvalues[u].ptr = upvalues[v].ptr => u = v

\* In the next state too a slot has one open upvalue at most.
LEMMA OneOpenNext ==
    Inv' => \A u, v \in Open(Heap)' : upvalues'[u].ptr = upvalues'[v].ptr => u = v
  <1>1. Inv => Unshared
    BY OneOpen DEF Inv, Unshared
  <1>2. Inv' => Unshared'
    BY <1>1, PTL
  <1>3. QED BY <1>2 DEF Unshared

\* A new closure captures slots of its frame, and a box of its parent.
LEMMA CreateBox ==
    ASSUME Inv, Inv', NEW sm \in BOOLEAN, NEW fp \in BOOLEAN, NEW l \in 0 .. NumLocals - 1, NewClosure(sm, l, fp)
    PROVE  Boxes!Next
  <1>1. TypeOK /\ HeapOK(Heap)
    BY DEF Inv
  <1>2. /\ Depth > 0 /\ UNCHANGED <<frames, stack, throwing>> /\ Depth' = Depth
        /\ fp => l = 0 /\ Last(frames) # 0 /\ closures[Last(frames)].uv # 0
    BY DEF NewClosure, Running, Depth
  <1>3. Depth \in 1 .. MaxFrames /\ Depth \in 1 .. Depth /\ Last(frames) = frames[Depth]
    BY <1>1, <1>2, TypeFacts DEF Last, Depth
  <1>4. PICK h1, h2, s, u :
             /\ Captured(h1, h2, sm, l, s, u) /\ upvalues' = h2.uvs /\ upvalueList' = h2.list
             /\ closures' = Append(closures, NewOne(sm, fp, s, u))
    BY NewClosureIs
  <1>5. /\ Len(upvalues) <= Len(upvalues') /\ Len(upvalues') \in Nat
        /\ \A v \in UpvalueIds : Same(upvalues'[v], upvalues[v])
        /\ \A v \in 1 .. Len(upvalues') : v \in UpvalueIds \/ (v \in Open(Heap)' /\ upvalues'[v].ptr \in Over(sm, l))
        /\ \A a \in Over(sm, l) : a < Base(Depth + 1)
        /\ IF sm THEN s \in Open(Heap)' /\ upvalues'[s].ptr = Base(Depth) ELSE s = 0
        /\ IF l = 0 THEN u = 0 ELSE u \in Open(Heap)' /\ upvalues'[u].ptr = Base(Depth) + l
    BY <1>2, <1>4, CapturedFacts
  <1>6. PICK N \in Nat : N = Len(upvalues)
    BY <1>1, TypeFacts
  <1>7. PICK M \in Nat : M = Len(upvalues') /\ N <= M
    BY <1>5, <1>6
  <1>8. /\ UpvalueIds = 1 .. N /\ UpvalueIds' = 1 .. M
        /\ \A v : v \in Open(Heap)' <=> v \in 1 .. M /\ ~upvalues'[v].isClosed
        /\ \A v : v \in Open(Heap) <=> v \in 1 .. N /\ ~upvalues[v].isClosed
    BY <1>6, <1>7 DEF Open, Heap, UpvalueIds
  <1>9. \A v \in 1 .. N : /\ upvalues'[v].ptr = upvalues[v].ptr /\ upvalues'[v].tv = upvalues[v].tv
                          /\ (upvalues'[v].isClosed <=> upvalues[v].isClosed)
    BY <1>5, <1>8, Zenon DEF Same
  <1>10. \A v \in 1 .. N : /\ v \in Open(Heap) <=> v \in Open(Heap)'
                           /\ v \in 1 .. M
    BY <1>7, <1>8, <1>9
  <1>11. PICK As : As = Over(sm, l)
    OBVIOUS
  <1>12. /\ sm => Base(Depth) \in As
         /\ l # 0 => Base(Depth) + l \in As
         /\ \A a \in As : (a = Base(Depth) /\ sm) \/ (l # 0 /\ a = Base(Depth) + l)
    BY <1>11 DEF Over
  <1>13. \A a \in As : a \in Slots /\ a < Top /\ a \in InFrame(Depth)
    <2>1. Depth \in Int
      BY <1>3
    <2>2. Base(Depth) \in Slots /\ Base(Depth) + l \in Slots
      BY <2>1, <1>3, BaseSlot, SlotFacts
    <2>3. Base(Depth) \in InFrame(Depth) /\ Base(Depth) + l \in InFrame(Depth)
      <3>1. NumLocals > 0
        BY UpvaluesAssumption
      <3>2. QED BY <3>1, TopIs DEF InFrame, Top
    <2>4. \A a \in As : a < Top
      BY <1>5, <1>11 DEF Top
    <2>5. QED BY <2>2, <2>3, <2>4, <1>12
  <1>14. \A a \in As : \E w \in Open(Heap)' : upvalues'[w].ptr = a
    BY <1>5, <1>12
  <1>15. PICK new : new = {a \in As : BoxSlots[a].box = 0}
    OBVIOUS
  <1>16. \A a \in Slots : BoxSlots[a] = SlotContents(a)
    BY DEF BoxSlots
  <1>17. ASSUME NEW v \in 1 .. M, v \notin 1 .. N
         PROVE  /\ v \in Open(Heap)' /\ upvalues'[v].ptr \in new
                /\ BoxSlots[upvalues'[v].ptr] = Own(stack[upvalues'[v].ptr])
    <2>1. v \in Open(Heap)' /\ upvalues'[v].ptr \in As
      BY <1>17, <1>5, <1>7, <1>8, <1>11
    <2>2. PICK a \in As : a = upvalues'[v].ptr
      BY <2>1
    <2>3. ASSUME NEW w \in Open(Heap), upvalues[w].ptr = a PROVE FALSE
      <3>1. w \in 1 .. N /\ w \in Open(Heap)' /\ upvalues'[w].ptr = a
        BY <2>3, <1>8, <1>9, <1>10
      <3>2. w = v
        BY <3>1, <2>1, <2>2, OneOpenNext
      <3>3. QED BY <3>1, <3>2, <1>17
    <2>4. SlotContents(a) = Own(stack[a])
      BY <2>3, <1>13, Contents DEF Holds
    <2>5. BoxSlots[a] = Own(stack[a]) /\ BoxSlots[a].box = 0
      BY <2>4, <1>13, <1>16 DEF Own
    <2>6. QED BY <2>1, <2>2, <2>5, <1>15
  <1>18. PICK K \in Nat : K = M - N
    <2>1. M - N \in Nat
      BY <1>7
    <2>2. QED BY <2>1
  <1>19. \A i \in 1 .. K : N + i \in 1 .. M /\ N + i \notin 1 .. N
    BY <1>18
  <1>20. PICK order \in [1 .. K -> new] : \A i \in 1 .. K : order[i] = upvalues'[N + i].ptr
    <2>1. \A i \in 1 .. K : upvalues'[N + i].ptr \in new
      BY <1>17, <1>19
    <2>2. [i \in 1 .. K |-> upvalues'[N + i].ptr] \in [1 .. K -> new]
      BY <2>1
    <2>3. QED BY <2>2
  <1>21. DOMAIN order = 1 .. K
    OBVIOUS
  <1>22. ASSUME NEW a \in new PROVE \E i \in 1 .. K : order[i] = a
    <2>1. a \in As /\ BoxSlots[a].box = 0
      BY <1>15
    <2>2. PICK w \in Open(Heap)' : upvalues'[w].ptr = a
      BY <2>1, <1>14
    <2>3. w \in 1 .. M
      BY <1>8
    <2>4. ASSUME w \in 1 .. N PROVE FALSE
      <3>1. w \in Open(Heap) /\ upvalues[w].ptr = a
        BY <2>2, <2>4, <1>9, <1>10
      <3>2. BoxSlots[a] = InBox(w)
        BY <3>1, <2>1, <1>13, <1>16, Contents DEF Holds
      <3>3. w # 0
        BY <2>4
      <3>4. QED BY <3>2, <3>3, <2>1 DEF InBox
    <2>5. PICK i \in 1 .. K : N + i = w
      <3>1. w - N \in 1 .. K /\ N + (w - N) = w
        BY <2>3, <2>4, <1>18
      <3>2. QED BY <3>1
    <2>6. QED BY <2>2, <2>5, <1>20
  <1>23. \A i, j \in 1 .. K : order[i] = order[j] => i = j
    <2>1. ASSUME NEW i \in 1 .. K, NEW j \in 1 .. K, order[i] = order[j] PROVE i = j
      <3>1. PICK v \in 1 .. M : v = N + i /\ v \in Open(Heap)' /\ order[i] = upvalues'[v].ptr
        BY <1>17, <1>19, <1>20
      <3>2. PICK w \in 1 .. M : w = N + j /\ w \in Open(Heap)' /\ order[j] = upvalues'[w].ptr
        BY <1>17, <1>19, <1>20
      <3>3. v = w
        BY <3>1, <3>2, <2>1, OneOpenNext
      <3>4. QED BY <3>1, <3>2, <3>3
    <2>2. QED BY <2>1
  <1>24. /\ BoxValues \in Seq(Values) /\ Len(BoxValues) = N
         /\ \A v \in 1 .. N : BoxValues[v] = Value(v)
    <2>1. \A v \in 1 .. N : Value(v) \in Values
      BY <1>1, <1>8, ValueType
    <2>2. BoxValues = [v \in 1 .. N |-> Value(v)]
      BY <1>8 DEF BoxValues
    <2>3. BoxValues \in [1 .. N -> Values]
      BY <2>1, <2>2
    <2>4. QED BY <2>2, <2>3
  <1>25. \A v \in 1 .. N : Value(v)' = Value(v)
    BY <1>2, <1>9, Zenon DEF Value
  <1>26. ASSUME NEW i \in 1 .. K PROVE Value(N + i)' = BoxSlots[order[i]].val /\ stack[order[i]] \in Values
    <2>1. PICK v \in 1 .. M : v = N + i /\ v \notin 1 .. N
      BY <1>19
    <2>2. v \in Open(Heap)' /\ BoxSlots[upvalues'[v].ptr] = Own(stack[upvalues'[v].ptr]) /\ upvalues'[v].ptr = order[i]
      BY <2>1, <1>17, <1>20
    <2>3. order[i] \in Slots /\ stack \in [Slots -> Values]
      BY <1>1, <1>13, <1>15 DEF TypeOK
    <2>4. Value(v)' = stack'[upvalues'[v].ptr]
      <3>1. ~upvalues'[v].isClosed
        BY <2>2, <1>8
      <3>2. QED BY <3>1 DEF Value
    <2>5. Value(N + i)' = stack[order[i]]
      <3>1. Value(v)' = Value(N + i)'
        BY <2>1 DEF Value
      <3>2. QED BY <3>1, <2>2, <2>4, <1>2
    <2>6. QED BY <2>2, <2>3, <2>5 DEF Own
  <1>27. PICK vals \in Seq(Values) : /\ vals = [i \in DOMAIN order |-> BoxSlots[order[i]].val]
                                     /\ Len(vals) = K /\ \A i \in 1 .. K : vals[i] = Value(N + i)'
    <2>1. \A i \in 1 .. K : BoxSlots[order[i]].val \in Values
      <3>1. \A i \in 1 .. K : order[i] \in Slots
        BY <1>13, <1>15
      <3>2. \A i \in 1 .. K : BoxSlots[order[i]] = Own(stack[order[i]])
        BY <1>17, <1>19, <1>20
      <3>3. \A i \in 1 .. K : BoxSlots[order[i]].val = stack[order[i]]
        <4>1. \A y : Own(y).val = y
          BY DEF Own
        <4>2. QED BY <3>2, <4>1
      <3>4. \A i \in 1 .. K : stack[order[i]] \in Values
        BY <1>26
      <3>5. QED BY <3>3, <3>4
    <2>2. [i \in DOMAIN order |-> BoxSlots[order[i]].val] \in [1 .. K -> Values]
      BY <2>1, <1>21
    <2>3. PICK vals : vals = [i \in DOMAIN order |-> BoxSlots[order[i]].val]
      OBVIOUS
    <2>4. vals \in Seq(Values) /\ Len(vals) = K
      BY <2>2, <2>3
    <2>5. \A i \in 1 .. K : vals[i] = Value(N + i)'
      BY <2>3, <1>21, <1>26
    <2>6. QED BY <2>3, <2>4, <2>5
  <1>28. /\ BoxValues' \in Seq(Values) /\ Len(BoxValues') = M
         /\ \A v \in 1 .. M : BoxValues'[v] = Value(v)'
    <2>1. BoxValues' = [v \in 1 .. M |-> Value(v)']
      BY <1>8 DEF BoxValues
    <2>2. ASSUME NEW v \in 1 .. M PROVE Value(v)' \in Values
      <3>1. CASE v \in 1 .. N
        BY <3>1, <1>24, <1>25
      <3>2. CASE v \notin 1 .. N
        <4>1. PICK i \in 1 .. K : v = N + i
          <5>1. v - N \in 1 .. K /\ v = N + (v - N)
            BY <3>2, <1>18
          <5>2. QED BY <5>1
        <4>2. vals[i] \in Values /\ vals[i] = Value(N + i)'
          BY <1>27
        <4>3. Value(N + i)' = Value(v)'
          BY <4>1 DEF Value
        <4>4. QED BY <4>2, <4>3
      <3>3. QED BY <3>1, <3>2
    <2>3. BoxValues' \in [1 .. M -> Values]
      BY <2>1, <2>2
    <2>4. QED BY <2>1, <2>3
  <1>29. BoxValues' = BoxValues \o vals
    <2>1. PICK q \in Seq(Values) : q = BoxValues \o vals /\ Len(q) = N + K
      <3>1. BoxValues \o vals \in Seq(Values) /\ Len(BoxValues \o vals) = N + K
        <4>1. BoxValues \in Seq(Values) /\ vals \in Seq(Values) /\ Len(BoxValues) = N /\ Len(vals) = K
          BY <1>24, <1>27
        <4>2. QED BY <4>1
      <3>2. QED BY <3>1
    <2>2. \A v \in 1 .. N : q[v] = BoxValues[v]
      BY <2>1, <1>24, <1>27
    <2>3. \A i \in 1 .. K : q[N + i] = vals[i]
      BY <2>1, <1>24, <1>27
    <2>4. ASSUME NEW v \in 1 .. M PROVE BoxValues'[v] = q[v]
      <3>1. CASE v \in 1 .. N
        BY <3>1, <2>2, <1>24, <1>25, <1>28
      <3>2. CASE v \notin 1 .. N
        <4>1. PICK i \in 1 .. K : v = N + i
          <5>1. v - N \in 1 .. K /\ v = N + (v - N)
            BY <3>2, <1>18
          <5>2. QED BY <5>1
        <4>2. Value(N + i)' = Value(v)'
          BY <4>1 DEF Value
        <4>3. BoxValues'[v] = Value(v)' /\ q[N + i] = vals[i] /\ vals[i] = Value(N + i)'
          BY <2>3, <1>27, <1>28
        <4>4. QED BY <4>1, <4>2, <4>3
      <3>3. QED BY <3>1, <3>2
    <2>5. Len(q) = M
      BY <2>1, <1>18
    <2>6. BoxValues' = q
      BY <2>4, <2>5, <1>28, SameSeq
    <2>7. QED BY <2>1, <2>6
  <1>30. ASSUME NEW a \in Slots
         PROVE  SlotContents(a)' = IF a \in new THEN InBox(N + CHOOSE i \in DOMAIN order : order[i] = a) ELSE BoxSlots[a]
    <2>1. CASE a \in new
      <3>1. PICK j : j = CHOOSE i \in DOMAIN order : order[i] = a
        OBVIOUS
      <3>2. j \in 1 .. K /\ order[j] = a
        BY <3>1, <2>1, <1>21, <1>22
      <3>3. N + j \in Open(Heap)' /\ upvalues'[N + j].ptr = a
        BY <3>2, <1>17, <1>19, <1>20
      <3>4. SlotContents(a)' = InBox(N + j)
        BY <3>3, ContentsNext
      <3>5. QED BY <3>1, <3>4, <2>1
    <2>2. CASE a \notin new
      <3>1. Top' = Top /\ Top \in Int /\ a \in Int
        BY <1>2, TopIs DEF Top, Base, Slots
      <3>2. \A w : w \in Open(Heap) /\ upvalues[w].ptr = a <=> w \in Open(Heap)' /\ upvalues'[w].ptr = a
        <4>1. ASSUME NEW w, w \in Open(Heap), upvalues[w].ptr = a PROVE w \in Open(Heap)' /\ upvalues'[w].ptr = a
          BY <4>1, <1>8, <1>9, <1>10
        <4>2. ASSUME NEW w, w \in Open(Heap)', upvalues'[w].ptr = a PROVE w \in Open(Heap) /\ upvalues[w].ptr = a
          <5>1. w \in 1 .. N
            BY <4>2, <2>2, <1>8, <1>17
          <5>2. QED BY <5>1, <4>2, <1>9, <1>10
        <4>3. QED BY <4>1, <4>2
      <3>3. SlotContents(a)' = SlotContents(a)
        <4>1. CASE a < Top
          BY <4>1, <3>1, <3>2, <1>2, SlotKept
        <4>2. CASE a >= Top
          BY <4>2, <3>1, Contents, ContentsNext DEF Holds
        <4>3. QED BY <4>1, <4>2, <3>1
      <3>4. QED BY <3>3, <2>2, <1>16
    <2>3. QED BY <2>1, <2>2
  <1>31. BoxSlots' = [a \in Slots |-> IF a \in new THEN InBox(Len(BoxValues) + CHOOSE i \in DOMAIN order : order[i] = a)
                                      ELSE BoxSlots[a]]
    <2>1. BoxSlots' = [a \in Slots |-> SlotContents(a)']
      BY DEF BoxSlots
    <2>2. QED BY <2>1, <1>24, <1>30
  <1>32. PICK Bs : Bs = IF fp THEN {closures[Last(frames)].uv} ELSE {}
    OBVIOUS
  <1>33. {s, NewOne(sm, fp, s, u).uv} \ {0} = {BoxSlots'[a].box : a \in As} \union Bs
    <2>1. NewOne(sm, fp, s, u).uv = IF fp THEN closures[Last(frames)].uv ELSE u
      BY DEF NewOne
    <2>2. \A a \in As, w \in Open(Heap)' : upvalues'[w].ptr = a => BoxSlots'[a].box = w /\ w # 0
      <3>1. ASSUME NEW a \in As, NEW w \in Open(Heap)', upvalues'[w].ptr = a PROVE BoxSlots'[a].box = w /\ w # 0
        <4>1. SlotContents(a)' = InBox(w) /\ a \in Slots
          BY <3>1, <1>13, ContentsNext
        <4>2. BoxSlots'[a] = SlotContents(a)'
          BY <4>1 DEF BoxSlots
        <4>3. w # 0
          BY <1>8
        <4>4. QED BY <4>1, <4>2, <4>3 DEF InBox
      <3>2. QED BY <3>1
    <2>3. sm => BoxSlots'[Base(Depth)].box = s /\ s # 0 /\ Base(Depth) \in As
      BY <2>2, <1>5, <1>12
    <2>4. l # 0 => BoxSlots'[Base(Depth) + l].box = u /\ u # 0 /\ Base(Depth) + l \in As
      BY <2>2, <1>5, <1>12
    <2>5. (~sm => s = 0) /\ (l = 0 => u = 0)
      BY <1>5
    <2>6. fp => l = 0 /\ closures[Last(frames)].uv # 0
      BY <1>2
    <2>7. ASSUME NEW y \in {s, NewOne(sm, fp, s, u).uv} \ {0}
          PROVE  y \in {BoxSlots'[a].box : a \in As} \union Bs
      <3>1. CASE y = s /\ s # 0
        BY <3>1, <2>3, <2>5
      <3>2. CASE fp /\ y = closures[Last(frames)].uv
        BY <3>2, <1>32
      <3>3. CASE y = u /\ u # 0
        BY <3>3, <2>4, <2>5
      <3>4. QED BY <3>1, <3>2, <3>3, <2>1
    <2>8. ASSUME NEW y \in {BoxSlots'[a].box : a \in As} \union Bs
          PROVE  y \in {s, NewOne(sm, fp, s, u).uv} \ {0}
      <3>1. CASE y \in Bs
        BY <3>1, <2>1, <2>6, <1>32
      <3>2. CASE y \in {BoxSlots'[a].box : a \in As}
        <4>1. PICK a \in As : y = BoxSlots'[a].box
          BY <3>2
        <4>2. CASE a = Base(Depth) /\ sm
          BY <4>1, <4>2, <2>3
        <4>3. CASE l # 0 /\ a = Base(Depth) + l
          BY <4>1, <4>3, <2>1, <2>4, <2>6
        <4>4. QED BY <4>2, <4>3, <1>12
      <3>3. QED BY <3>1, <3>2
    <2>9. QED BY <2>7, <2>8
  <1>34. PICK n \in Nat : n = Len(closures) /\ closures \in Seq(Closure)
    BY <1>1 DEF TypeOK
  <1>35. /\ BoxCaptures' = Append(BoxCaptures, {BoxSlots'[a].box : a \in As} \union Bs)
         /\ Len(BoxCaptures') = Len(BoxCaptures) + 1
    <2>1. PICK y : y = {BoxSlots'[a].box : a \in As} \union Bs
      OBVIOUS
    <2>2. PICK T : T = (SUBSET Nat) \union {y}
      OBVIOUS
    <2>3. PICK cap : cap = [c \in 1 .. n |-> {closures[c].self, closures[c].uv} \ {0}]
      OBVIOUS
    <2>4. cap \in Seq(T) /\ Len(cap) = n /\ \A c \in 1 .. n : cap[c] = {closures[c].self, closures[c].uv} \ {0}
      <3>1. \A c \in 1 .. n : {closures[c].self, closures[c].uv} \ {0} \in SUBSET Nat
        <4>1. \A c \in 1 .. n : closures[c] \in Closure
          BY <1>34
        <4>2. QED BY <4>1 DEF Closure
      <3>2. cap \in [1 .. n -> T]
        BY <3>1, <2>2, <2>3
      <3>3. cap \in Seq(T) /\ Len(cap) = n
        BY <3>2
      <3>4. QED BY <3>3, <2>3
    <2>5. BoxCaptures = cap
      BY <2>3, <1>34 DEF BoxCaptures, ClosureIds
    <2>6. Len(closures') = n + 1 /\ closures'[n + 1] = NewOne(sm, fp, s, u) /\ \A c \in 1 .. n : closures'[c] = closures[c]
      BY <1>4, <1>34
    <2>7. PICK app \in Seq(T) : app = Append(cap, y)
      <3>1. y \in T
        BY <2>2
      <3>2. cap \in Seq(T)
        BY <2>4
      <3>3. Append(cap, y) \in Seq(T)
        BY <3>1, <3>2
      <3>4. QED BY <3>3
    <2>8. Len(app) = n + 1 /\ app[n + 1] = y /\ \A c \in 1 .. n : app[c] = cap[c]
      BY <2>4, <2>7
    <2>9. \A c \in 1 .. n + 1 : app[c] \in T
      BY <2>7, <2>8
    <2>10. ASSUME NEW c \in 1 .. n + 1 PROVE app[c] = {closures'[c].self, closures'[c].uv} \ {0}
      <3>1. CASE c \in 1 .. n
        BY <3>1, <2>4, <2>6, <2>8
      <3>2. CASE c = n + 1
        <4>1. closures'[c].self = s /\ closures'[c].uv = NewOne(sm, fp, s, u).uv
          BY <3>2, <2>6 DEF NewOne
        <4>2. QED BY <4>1, <3>2, <2>1, <2>8, <1>33
      <3>3. QED BY <3>1, <3>2
    <2>11. BoxCaptures' = [c \in 1 .. n + 1 |-> {closures'[c].self, closures'[c].uv} \ {0}]
      BY <2>6 DEF BoxCaptures, ClosureIds
    <2>12. BoxCaptures' = app
      <3>1. \A c \in 1 .. n + 1 : BoxCaptures'[c] = app[c]
        BY <2>10, <2>11
      <3>2. BoxCaptures' \in [1 .. n + 1 -> T]
        BY <2>9, <2>10, <2>11
      <3>3. BoxCaptures' \in Seq(T) /\ Len(BoxCaptures') = n + 1
        BY <3>2
      <3>4. QED BY <3>1, <3>3, <2>7, <2>8, SameSeq
    <2>13. QED BY <2>1, <2>4, <2>5, <2>7, <2>8, <2>12
  <1>36. Ordered(new, As, Bs, order)
    BY <1>2, <1>21, <1>22, <1>23, <1>27, <1>29, <1>31, <1>35 DEF Ordered
  <1>37. order \in [1 .. Len(BoxValues') - Len(BoxValues) -> new]
    BY <1>18, <1>24, <1>28
  <1>38. Boxes!Capture(As, Bs)
    BY <1>15, <1>36, <1>37, CaptureIs
  <1>39. As \in SUBSET Boxes!TopSlots
    BY <1>13, BoxNames
  <1>40. Bs \in SUBSET DOMAIN BoxValues
    <2>1. DOMAIN BoxValues = 1 .. N
      BY <1>8 DEF BoxValues
    <2>2. ASSUME fp PROVE closures[Last(frames)].uv \in 1 .. N
      <3>1. Last(frames) \in ClosureIds
        BY <2>2, <1>1, <1>2, <1>3, TypeFacts DEF ClosureIds
      <3>2. RefsOK(Last(frames))
        BY <3>1 DEF Inv
      <3>3. QED BY <3>2, <2>2, <1>2, <1>6 DEF RefsOK
    <2>3. QED BY <2>1, <2>2, <1>32
  <1>41. Boxes!Create
    BY <1>2, <1>35, <1>38, <1>39, <1>40 DEF Boxes!Create, BoxValues, BoxCaptures
  <1>42. QED BY <1>41 DEF Boxes!Next

\* The walk of a non-local return changes no variable.
LEMMA QuietBox ==
    ASSUME UNCHANGED <<frames, stack, upvalues, upvalueList, closures>>
    PROVE  UNCHANGED Boxes!vars
  <1>1. Depth' = Depth /\ BoxCaptures' = BoxCaptures /\ UpvalueIds' = UpvalueIds
    BY DEF Depth, BoxCaptures, ClosureIds, UpvalueIds
  <1>2. BoxValues' = BoxValues
    BY <1>1 DEF BoxValues, Value
  <1>3. \A a \in Slots : SlotContents(a)' = SlotContents(a)
    BY <1>1 DEF SlotContents, OpenUpvalues, Base
  <1>4. BoxSlots' = BoxSlots
    BY <1>3 DEF BoxSlots
  <1>5. QED BY <1>1, <1>2, <1>4 DEF Boxes!vars, BoxSlots, BoxValues, BoxCaptures

\* Every step maps to a step of BoxedVariables or to none.
LEMMA BoxNext == Inv /\ Inv' /\ [Next]_vars => [Boxes!Next]_(Boxes!vars)
  <1> SUFFICES ASSUME Inv, Inv', [Next]_vars PROVE Boxes!Next \/ UNCHANGED Boxes!vars
    OBVIOUS
  <1>1. ASSUME NEW x, NEW v, Calls(x, v) PROVE Boxes!Next
    <2>1. v \in Values /\ Boxes!Enter(v)
      BY <1>1, EnterBox DEF Calls
    <2>2. QED BY <2>1 DEF Boxes!Next
  <1>2. ASSUME NEW k, Unwinds(k), Len(frames') = k PROVE Boxes!Next
    <2>1. k \in 0 .. Depth - 1 /\ Boxes!Leave(k)
      BY <1>2, LeaveBox
    <2>2. QED BY <2>1 DEF Boxes!Next
  <1>3. CASE \E v \in Values : CallMethod(v)
    BY <1>1, <1>3, CallMethodCalls
  <1>4. CASE \E c \in ClosureIds : CallBlock(c)
    BY <1>1, <1>4, CallBlockCalls
  <1>5. CASE \E selfMutable, fromParent \in BOOLEAN, l \in 0..(NumLocals - 1) :
               NewClosure(selfMutable, l, fromParent)
    BY <1>5, CreateBox
  <1>6. CASE \E l \in 1..(NumLocals - 1), v \in Values : SetLocal(l, v)
    BY <1>6, SetLocalBox
  <1>7. CASE \E v \in Values : UpvaluePut(v)
    BY <1>7, UpvaluePutBox
  <1>8. CASE \E l \in 1..(NumLocals - 1) : UpvalueClose(l)
    BY <1>8, EndScopeBox
  <1>9. CASE CompiledReturn
    BY <1>2, <1>9, RetUnwinds
  <1>10. CASE \E v \in Values : ReturnFromHome(v)
    BY <1>2, <1>10, HomeUnwinds
  <1>11. CASE EscapedBlock
    <2>1. PICK k \in Nat, v \in Values :
            Unwinds(k) /\ Depth = k + 1 /\ Len(frames') = k + 1 /\ stack' = Frame(k + 1, v)
      BY <1>11, EscapedUnwinds
    <2>2. Boxes!Reenter(v)
      BY <2>1, ReenterBox
    <2>3. QED BY <2>2 DEF Boxes!Next
  <1>12. CASE Throw \/ WalkToCreator \/ UNCHANGED vars
    <2>1. UNCHANGED <<frames, stack, upvalues, upvalueList, closures>>
      BY <1>12 DEF Throw, WalkToCreator, vars
    <2>2. QED BY <2>1, QuietBox
  <1>13. QED BY <1>3, <1>4, <1>5, <1>6, <1>7, <1>8, <1>9, <1>10, <1>11, <1>12 DEF Next

\* Upvalues implement boxed variables: an upvalue, open on the stack or closed, is one
\* cell shared by the frame and every closure over the variable, and no write is lost
\* when it is closed.
THEOREM ImplementsBoxes == Spec => BoxesSpec
  BY UpvalueInvariant, BoxInit, BoxNext, PTL DEF Spec, BoxesSpec, Boxes!Spec

=============================================================================
