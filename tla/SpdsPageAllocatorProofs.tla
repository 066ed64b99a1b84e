---------------------- MODULE SpdsPageAllocatorProofs ----------------------
(***************************************************************************)
(* Proofs about SpdsPageAllocator, for any number of threads, any size of  *)
(* the region and any number of calls below the number of version tags.    *)
(*                                                                         *)
(* The pages are described by witnesses: own says where each page is, and  *)
(* at[k][1] .. at[k][len[k]] are the pages of the linked list k, in order. *)
(* The lists are the free list and, for every thread, the chain it is      *)
(* pushing and the chain of its arena.                                     *)
(***************************************************************************)
EXTENDS SpdsPageAllocator, FiniteSetTheorems, FunctionTheorems, WellFoundedInduction, TLAPS

Unmapped    == <<"unmapped", None>>
OnFree      == <<"free", None>>
OnPush(t)   == <<"push", t>>
OnChain(t)  == <<"chain", t>>
InHandOf(t) == <<"hand", t>>
KeptBy(t)   == <<"kept", t>>

ListKey == {OnFree} \cup {OnPush(t) : t \in Threads} \cup {OnChain(t) : t \in Threads}
Place   == ListKey \cup {Unmapped} \cup {InHandOf(t) : t \in Threads}
                   \cup {KeptBy(t) : t \in Threads}

\* The places are different.
LEMMA PlacesDiffer ==
    /\ OnFree # Unmapped /\ OnFree \in ListKey /\ Unmapped \notin ListKey /\ Unmapped \in Place
    /\ \A t \in Threads :
         /\ OnPush(t) \in ListKey /\ OnChain(t) \in ListKey
         /\ InHandOf(t) \notin ListKey /\ KeptBy(t) \notin ListKey
         /\ InHandOf(t) \in Place /\ KeptBy(t) \in Place
         /\ InHandOf(t) # Unmapped /\ KeptBy(t) # Unmapped
         /\ OnPush(t) # OnFree /\ OnChain(t) # OnFree /\ InHandOf(t) # OnFree
         /\ \A u \in Threads :
              /\ OnPush(t) # OnChain(u) /\ InHandOf(t) # KeptBy(u)
              /\ OnPush(t) # InHandOf(u) /\ OnChain(t) # InHandOf(u)
              /\ t # u => /\ OnPush(t) # OnPush(u) /\ OnChain(t) # OnChain(u)
                          /\ InHandOf(t) # InHandOf(u) /\ KeptBy(t) # KeptBy(u)
    /\ ListKey \subseteq Place
    /\ \A k \in Place : \/ k = OnFree \/ k = Unmapped
                        \/ \E t \in Threads : k \in {OnPush(t), OnChain(t), InHandOf(t), KeptBy(t)}
  BY DEF Unmapped, OnFree, OnPush, OnChain, InHandOf, KeptBy, ListKey, Place

-----------------------------------------------------------------------------
\* Linked lists, whatever they are used for.

Witness(own, len, at) ==
    /\ own \in [Page -> Place] /\ len \in [ListKey -> Nat]
    /\ at \in [ListKey -> [Int -> Page]]

\* The pages of list k are those that own places there, once each, and each is
\* linked to the next.
ListsOK(own, len, at, lnk) ==
    /\ \A k \in ListKey : \A i \in 1 .. len[k] : own[at[k][i]] = k
    /\ \A k \in ListKey : \A i, j \in 1 .. len[k] : at[k][i] = at[k][j] => i = j
    /\ \A p \in Page : own[p] \in ListKey => \E i \in 1 .. len[own[p]] : at[own[p]][i] = p
    /\ \A k \in ListKey : \A i \in 1 .. len[k] - 1 : lnk[at[k][i]] = at[k][i + 1]

\* The witnesses after a change.
SetAt(f, x, v)   == [f EXCEPT ![x] = v]
DropFirst(q)     == [i \in Int |-> q[i + 1]]
Cons(p, q)       == [i \in Int |-> IF i = 1 THEN p ELSE q[i - 1]]
Joined(q, n, r)  == [i \in Int |-> IF i <= n THEN q[i] ELSE r[i - n]]
Numbered(a, n)   == [i \in Int |-> IF i \in 1 .. n THEN a + i ELSE a + 1]
Renamed(own, k1, k2) == [p \in Page |-> IF own[p] = k1 THEN k2 ELSE own[p]]

\* Pages may be moved between places that are no lists, and links of pages that
\* are last or on no list may be overwritten.
LEMMA KeepLists ==
    ASSUME NEW own, NEW len, NEW at, NEW lnk, NEW own2, NEW lnk2,
           Witness(own, len, at), own2 \in [Page -> Place], ListsOK(own, len, at, lnk),
           \A p \in Page : own[p] \in ListKey \/ own2[p] \in ListKey => own2[p] = own[p],
           \A p \in Page : own[p] \in ListKey /\ p # at[own[p]][len[own[p]]] => lnk2[p] = lnk[p]
    PROVE  Witness(own2, len, at) /\ ListsOK(own2, len, at, lnk2)
  <1>1. Witness(own2, len, at)
    BY DEF Witness
  <1>2. \A k \in ListKey : \A i \in 1 .. len[k] : at[k][i] \in Page /\ own[at[k][i]] = k
    BY DEF Witness, ListsOK
  <1>3. \A k \in ListKey : \A i \in 1 .. len[k] : own2[at[k][i]] = k
    BY <1>2
  <1>4. \A p \in Page : own2[p] \in ListKey => \E i \in 1 .. len[own2[p]] : at[own2[p]][i] = p
    BY DEF ListsOK
  <1>5. ASSUME NEW k \in ListKey, NEW i \in 1 .. len[k] - 1
        PROVE  lnk2[at[k][i]] = at[k][i + 1]
    <2>1. len[k] \in Nat
      BY DEF Witness
    <2>2. i \in 1 .. len[k] /\ len[k] \in 1 .. len[k] /\ i # len[k]
      BY <2>1
    <2>3. at[k][i] # at[k][len[k]]
      BY <2>2 DEF ListsOK
    <2>4. lnk2[at[k][i]] = lnk[at[k][i]]
      BY <2>2, <2>3, <1>2
    <2>5. QED BY <2>4 DEF ListsOK
  <1>6. \A k \in ListKey : \A i, j \in 1 .. len[k] : at[k][i] = at[k][j] => i = j
    BY DEF ListsOK
  <1>7. QED BY <1>1, <1>3, <1>4, <1>5, <1>6 DEF ListsOK

\* The first page of a list is taken off it.
LEMMA PopFront ==
    ASSUME NEW own, NEW len, NEW at, NEW lnk, NEW k \in ListKey, NEW g \in Place \ ListKey,
           Witness(own, len, at), ListsOK(own, len, at, lnk), len[k] > 0,
           NEW own2, own2 = SetAt(own, at[k][1], g),
           NEW len2, len2 = SetAt(len, k, len[k] - 1),
           NEW at2, at2 = SetAt(at, k, DropFirst(at[k]))
    PROVE  Witness(own2, len2, at2) /\ ListsOK(own2, len2, at2, lnk)
  <1>1. Witness(own2, len2, at2)
    <2>1. own2 \in [Page -> Place]
      BY DEF Witness, SetAt
    <2>2. len2 \in [ListKey -> Nat]
      BY DEF Witness, SetAt
    <2>3. DropFirst(at[k]) \in [Int -> Page]
      BY DEF Witness, DropFirst
    <2>4. at2 \in [ListKey -> [Int -> Page]]
      BY <2>3 DEF Witness, SetAt
    <2>5. QED BY <2>1, <2>2, <2>4 DEF Witness
  <1>2. len[k] \in Nat /\ at[k][1] \in Page /\ 1 \in 1 .. len[k]
    BY DEF Witness
  <1>3. /\ len2[k] = len[k] - 1 /\ \A i \in Int : at2[k][i] = at[k][i + 1]
        /\ \A l \in ListKey \ {k} : len2[l] = len[l] /\ at2[l] = at[l]
    BY DEF Witness, SetAt, DropFirst
  <1>4. own2[at[k][1]] = g /\ \A p \in Page : p # at[k][1] => own2[p] = own[p]
    BY <1>2 DEF Witness, SetAt
  <1>5. ASSUME NEW l \in ListKey, NEW i \in 1 .. len2[l] PROVE own2[at2[l][i]] = l
    <2>1. CASE l = k
      <3>1. i + 1 \in 1 .. len[k] /\ i + 1 # 1
        BY <2>1, <1>2, <1>3
      <3>2. own[at[k][i + 1]] = k /\ at[k][i + 1] # at[k][1] /\ at[k][i + 1] \in Page
        BY <3>1, <1>2 DEF ListsOK, Witness
      <3>3. QED BY <2>1, <3>2, <1>3, <1>4
    <2>2. CASE l # k
      <3>1. own[at[l][i]] = l /\ at[l][i] \in Page
        BY <2>2, <1>3 DEF ListsOK, Witness
      <3>2. own[at[k][1]] = k
        BY <1>2 DEF ListsOK
      <3>3. QED BY <2>2, <3>1, <3>2, <1>3, <1>4
    <2>3. QED BY <2>1, <2>2
  <1>6. ASSUME NEW l \in ListKey, NEW i \in 1 .. len2[l], NEW j \in 1 .. len2[l],
               at2[l][i] = at2[l][j]
        PROVE  i = j
    <2>1. CASE l = k
      <3>1. i + 1 \in 1 .. len[k] /\ j + 1 \in 1 .. len[k]
        BY <2>1, <1>2, <1>3
      <3>2. at[k][i + 1] = at[k][j + 1]
        BY <2>1, <1>3, <1>6
      <3>3. i + 1 = j + 1
        BY <3>1, <3>2 DEF ListsOK
      <3>4. QED BY <3>3
    <2>2. CASE l # k
      BY <2>2, <1>3, <1>6 DEF ListsOK
    <2>3. QED BY <2>1, <2>2
  <1>7. ASSUME NEW p \in Page, own2[p] \in ListKey
        PROVE  \E i \in 1 .. len2[own2[p]] : at2[own2[p]][i] = p
    <2>1. p # at[k][1] /\ own2[p] = own[p]
      BY <1>4, <1>7
    <2>2. PICK i \in 1 .. len[own[p]] : at[own[p]][i] = p
      BY <2>1, <1>7 DEF ListsOK
    <2>3. CASE own[p] = k
      <3>1. i # 1
        BY <2>1, <2>2, <2>3
      <3>2. i - 1 \in 1 .. len2[k] /\ at2[k][i - 1] = p
        BY <3>1, <2>2, <2>3, <1>2, <1>3
      <3>3. QED BY <3>2, <2>1, <2>3
    <2>4. CASE own[p] # k
      BY <2>1, <2>2, <2>4, <1>3, <1>7
    <2>5. QED BY <2>3, <2>4
  <1>8. ASSUME NEW l \in ListKey, NEW i \in 1 .. len2[l] - 1
        PROVE  lnk[at2[l][i]] = at2[l][i + 1]
    <2>1. CASE l = k
      <3>1. i + 1 \in 1 .. len[k] - 1
        BY <2>1, <1>2, <1>3
      <3>2. lnk[at[k][i + 1]] = at[k][(i + 1) + 1]
        BY <3>1 DEF ListsOK
      <3>3. QED BY <2>1, <3>2, <1>3
    <2>2. CASE l # k
      BY <2>2, <1>3 DEF ListsOK
    <2>3. QED BY <2>1, <2>2
  <1>9. QED BY <1>1, <1>5, <1>6, <1>7, <1>8 DEF ListsOK

\* A page is put in front of a list and linked to what was first.
LEMMA PushFront ==
    ASSUME NEW own, NEW len, NEW at, NEW lnk, NEW k \in ListKey, NEW p \in Page,
           Witness(own, len, at), ListsOK(own, len, at, lnk), own[p] \notin ListKey,
           NEW own2, own2 = SetAt(own, p, k),
           NEW len2, len2 = SetAt(len, k, len[k] + 1),
           NEW at2, at2 = SetAt(at, k, Cons(p, at[k])),
           NEW lnk2, \A q \in Page \ {p} : lnk2[q] = lnk[q],
           len[k] > 0 => lnk2[p] = at[k][1]
    PROVE  Witness(own2, len2, at2) /\ ListsOK(own2, len2, at2, lnk2)
  <1>1. Witness(own2, len2, at2)
    <2>1. own2 \in [Page -> Place]
      BY PlacesDiffer DEF Witness, SetAt
    <2>2. len2 \in [ListKey -> Nat]
      BY DEF Witness, SetAt
    <2>3. Cons(p, at[k]) \in [Int -> Page]
      BY DEF Witness, Cons
    <2>4. at2 \in [ListKey -> [Int -> Page]]
      BY <2>3 DEF Witness, SetAt
    <2>5. QED BY <2>1, <2>2, <2>4 DEF Witness
  <1>2. len[k] \in Nat
    BY DEF Witness
  <1>3. /\ len2[k] = len[k] + 1 /\ at2[k][1] = p
        /\ \A i \in Int : i # 1 => at2[k][i] = at[k][i - 1]
        /\ \A l \in ListKey \ {k} : len2[l] = len[l] /\ at2[l] = at[l]
    BY DEF Witness, SetAt, Cons
  <1>4. own2[p] = k /\ \A q \in Page : q # p => own2[q] = own[q]
    BY DEF Witness, SetAt
  <1>5. \A l \in ListKey : \A i \in 1 .. len[l] : at[l][i] \in Page /\ own[at[l][i]] = l /\ at[l][i] # p
    BY DEF ListsOK, Witness
  <1>6. ASSUME NEW i \in 1 .. len2[k] PROVE i = 1 \/ (i - 1 \in 1 .. len[k] /\ i \in Int /\ i # 1)
    BY <1>2, <1>3
  <1>7. ASSUME NEW l \in ListKey, NEW i \in 1 .. len2[l] PROVE own2[at2[l][i]] = l
    <2>1. CASE l = k
      BY <2>1, <1>3, <1>4, <1>5, <1>6
    <2>2. CASE l # k
      BY <2>2, <1>3, <1>4, <1>5
    <2>3. QED BY <2>1, <2>2
  <1>8. ASSUME NEW l \in ListKey, NEW i \in 1 .. len2[l], NEW j \in 1 .. len2[l],
               at2[l][i] = at2[l][j]
        PROVE  i = j
    <2>1. CASE l = k
      <3>1. CASE i = 1 \/ j = 1
        BY <2>1, <3>1, <1>3, <1>5, <1>6, <1>8
      <3>2. CASE i # 1 /\ j # 1
        <4>1. at[k][i - 1] = at[k][j - 1] /\ i - 1 \in 1 .. len[k] /\ j - 1 \in 1 .. len[k]
          BY <2>1, <3>2, <1>3, <1>6, <1>8
        <4>2. i - 1 = j - 1
          BY <4>1 DEF ListsOK
        <4>3. QED BY <4>2
      <3>3. QED BY <3>1, <3>2
    <2>2. CASE l # k
      BY <2>2, <1>3, <1>8 DEF ListsOK
    <2>3. QED BY <2>1, <2>2
  <1>9. ASSUME NEW q \in Page, own2[q] \in ListKey
        PROVE  \E i \in 1 .. len2[own2[q]] : at2[own2[q]][i] = q
    <2>1. CASE q = p
      <3>1. own2[q] = k /\ 1 \in 1 .. len2[k] /\ at2[k][1] = q
        BY <2>1, <1>2, <1>3, <1>4
      <3>2. QED BY <3>1
    <2>2. CASE q # p
      <3>1. own2[q] = own[q]
        BY <2>2, <1>4
      <3>2. PICK i \in 1 .. len[own[q]] : at[own[q]][i] = q
        BY <3>1, <1>9 DEF ListsOK
      <3>3. CASE own[q] = k
        <4>1. i + 1 \in 1 .. len2[k] /\ at2[k][i + 1] = q
          BY <3>2, <3>3, <1>2, <1>3
        <4>2. QED BY <4>1, <3>1, <3>3
      <3>4. CASE own[q] # k
        BY <3>1, <3>2, <3>4, <1>3, <1>9
      <3>5. QED BY <3>3, <3>4
    <2>3. QED BY <2>1, <2>2
  <1>10. ASSUME NEW l \in ListKey, NEW i \in 1 .. len2[l] - 1
         PROVE  lnk2[at2[l][i]] = at2[l][i + 1]
    <2>1. CASE l = k /\ i = 1
      <3>1. len[k] > 0 /\ at2[k][1 + 1] = at[k][1]
        <4>1. PICK j \in Int : j = 1 + 1 /\ j # 1 /\ j - 1 = 1
          OBVIOUS
        <4>2. at2[k][j] = at[k][j - 1]
          BY <4>1, <1>3
        <4>3. 1 \in 1 .. (len[k] + 1) - 1
          BY <2>1, <1>3
        <4>4. QED BY <4>1, <4>2, <4>3, <1>2
      <3>2. QED BY <2>1, <3>1, <1>3
    <2>2. CASE l = k /\ i # 1
      <3>1. i - 1 \in 1 .. len[k] - 1 /\ i \in Int /\ i + 1 # 1
        BY <2>2, <1>2, <1>3
      <3>2. lnk[at[k][i - 1]] = at[k][(i - 1) + 1]
        BY <3>1 DEF ListsOK
      <3>3. at2[k][i] = at[k][i - 1] /\ at2[k][i + 1] = at[k][(i - 1) + 1]
        <4>1. \A j \in Int : j = i + 1 => j # 1 /\ j - 1 = (i - 1) + 1
          BY <3>1
        <4>2. at2[k][i + 1] = at[k][(i - 1) + 1]
          BY <4>1, <3>1, <1>3
        <4>3. QED BY <4>2, <3>1, <2>2, <1>3
      <3>4. lnk2[at[k][i - 1]] = lnk[at[k][i - 1]]
        BY <3>1, <1>2, <1>5
      <3>5. QED BY <2>2, <3>2, <3>3, <3>4
    <2>3. CASE l # k
      <3>1. i \in 1 .. len[l] - 1 /\ i \in 1 .. len[l]
        BY <2>3, <1>3 DEF Witness
      <3>2. lnk[at[l][i]] = at[l][i + 1]
        BY <3>1 DEF ListsOK
      <3>3. QED BY <2>3, <3>1, <3>2, <1>3, <1>5
    <2>4. QED BY <2>1, <2>2, <2>3
  <1>11. QED BY <1>1, <1>7, <1>8, <1>9, <1>10 DEF ListsOK

\* List k1 is put in front of list k2, whose first page its last page is linked to.
LEMMA Concat ==
    ASSUME NEW own, NEW len, NEW at, NEW lnk, NEW k1 \in ListKey, NEW k2 \in ListKey, k1 # k2,
           Witness(own, len, at), ListsOK(own, len, at, lnk), len[k1] > 0,
           len[k2] > 0 => lnk[at[k1][len[k1]]] = at[k2][1],
           NEW own2, own2 = Renamed(own, k1, k2),
           NEW len2, len2 = SetAt(SetAt(len, k2, len[k1] + len[k2]), k1, 0),
           NEW at2, at2 = SetAt(at, k2, Joined(at[k1], len[k1], at[k2]))
    PROVE  Witness(own2, len2, at2) /\ ListsOK(own2, len2, at2, lnk)
  <1>1. PICK n \in Nat : n = len[k1] /\ n > 0
    BY DEF Witness
  <1>2. PICK m \in Nat : m = len[k2]
    BY DEF Witness
  <1>3. Witness(own2, len2, at2)
    <2>1. own2 \in [Page -> Place]
      BY PlacesDiffer DEF Witness, Renamed
    <2>2. len2 \in [ListKey -> Nat]
      BY <1>1, <1>2 DEF Witness, SetAt
    <2>3. Joined(at[k1], len[k1], at[k2]) \in [Int -> Page]
      BY <1>1 DEF Witness, Joined
    <2>4. at2 \in [ListKey -> [Int -> Page]]
      BY <2>3 DEF Witness, SetAt
    <2>5. QED BY <2>1, <2>2, <2>4 DEF Witness
  <1>4. /\ len2[k1] = 0 /\ len2[k2] = n + m
        /\ \A i \in Int : i <= n => at2[k2][i] = at[k1][i]
        /\ \A i \in Int : i > n => at2[k2][i] = at[k2][i - n]
        /\ \A l \in ListKey : l # k1 /\ l # k2 => len2[l] = len[l] /\ at2[l] = at[l]
    BY <1>1, <1>2 DEF Witness, SetAt, Joined
  <1>5. \A p \in Page : own2[p] = IF own[p] = k1 THEN k2 ELSE own[p]
    BY DEF Renamed
  <1>6. \A l \in ListKey : \A i \in 1 .. len[l] : at[l][i] \in Page /\ own[at[l][i]] = l
    BY DEF ListsOK, Witness
  <1>7. \A i \in 1 .. len2[k2] : \/ i \in Int /\ i <= n /\ i \in 1 .. len[k1]
                                 \/ i \in Int /\ i > n /\ i - n \in 1 .. len[k2]
    BY <1>1, <1>2, <1>4
  <1>8. ASSUME NEW l \in ListKey, NEW i \in 1 .. len2[l] PROVE own2[at2[l][i]] = l
    <2>1. CASE l = k2
      BY <2>1, <1>4, <1>5, <1>6, <1>7
    <2>2. CASE l = k1
      BY <2>2, <1>4
    <2>3. CASE l # k1 /\ l # k2
      BY <2>3, <1>4, <1>5, <1>6
    <2>4. QED BY <2>1, <2>2, <2>3
  <1>9. ASSUME NEW l \in ListKey, NEW i \in 1 .. len2[l], NEW j \in 1 .. len2[l],
               at2[l][i] = at2[l][j]
        PROVE  i = j
    <2>1. CASE l = k2
      <3>1. CASE i <= n /\ j <= n
        <4>1. at[k1][i] = at[k1][j] /\ i \in 1 .. len[k1] /\ j \in 1 .. len[k1]
          BY <2>1, <3>1, <1>4, <1>7, <1>9
        <4>2. QED BY <4>1 DEF ListsOK
      <3>2. CASE i > n /\ j > n
        <4>1. at[k2][i - n] = at[k2][j - n] /\ i - n \in 1 .. len[k2] /\ j - n \in 1 .. len[k2]
          BY <2>1, <3>2, <1>4, <1>7, <1>9
        <4>2. i - n = j - n
          BY <4>1 DEF ListsOK
        <4>3. QED BY <4>2, <1>1
      <3>3. CASE i <= n /\ j > n
        <4>1. at[k1][i] = at[k2][j - n] /\ i \in 1 .. len[k1] /\ j - n \in 1 .. len[k2]
          BY <2>1, <3>3, <1>4, <1>7, <1>9
        <4>2. QED BY <4>1, <1>6
      <3>4. CASE i > n /\ j <= n
        <4>1. at[k1][j] = at[k2][i - n] /\ j \in 1 .. len[k1] /\ i - n \in 1 .. len[k2]
          BY <2>1, <3>4, <1>4, <1>7, <1>9
        <4>2. QED BY <4>1, <1>6
      <3>5. QED BY <3>1, <3>2, <3>3, <3>4, <2>1, <1>7
    <2>2. CASE l = k1
      BY <2>2, <1>4
    <2>3. CASE l # k1 /\ l # k2
      BY <2>3, <1>4, <1>9 DEF ListsOK
    <2>4. QED BY <2>1, <2>2, <2>3
  <1>10. ASSUME NEW p \in Page, own2[p] \in ListKey
         PROVE  \E i \in 1 .. len2[own2[p]] : at2[own2[p]][i] = p
    <2>1. own[p] \in ListKey
      BY <1>5, <1>10
    <2>2. PICK i \in 1 .. len[own[p]] : at[own[p]][i] = p
      BY <2>1 DEF ListsOK
    <2>3. CASE own[p] = k1
      <3>1. i \in 1 .. len2[k2] /\ at2[k2][i] = p
        BY <2>2, <2>3, <1>1, <1>2, <1>4
      <3>2. QED BY <3>1, <2>3, <1>5
    <2>4. CASE own[p] = k2
      <3>1. i + n \in 1 .. len2[k2] /\ i + n > n /\ (i + n) - n = i /\ i + n \in Int
        BY <2>2, <2>4, <1>1, <1>2, <1>4
      <3>2. at2[k2][i + n] = p
        BY <3>1, <2>2, <2>4, <1>4
      <3>3. QED BY <3>1, <3>2, <2>4, <1>5
    <2>5. CASE own[p] # k1 /\ own[p] # k2
      BY <2>1, <2>2, <2>5, <1>4, <1>5
    <2>6. QED BY <2>3, <2>4, <2>5
  <1>11. ASSUME NEW l \in ListKey, NEW i \in 1 .. len2[l] - 1
         PROVE  lnk[at2[l][i]] = at2[l][i + 1]
    <2>1. CASE l = k2
      <3>1. i \in 1 .. (n + m) - 1
        BY <2>1, <1>4
      <3>2. CASE i < n
        <4>1. i \in Int /\ i + 1 \in Int /\ i <= n /\ i + 1 <= n /\ i \in 1 .. len[k1] - 1
          BY <3>1, <3>2, <1>1, <1>2
        <4>2. lnk[at[k1][i]] = at[k1][i + 1]
          BY <4>1 DEF ListsOK
        <4>3. QED BY <4>1, <4>2, <2>1, <1>4
      <3>3. CASE i = n
        <4>1. m > 0 /\ i \in Int /\ i + 1 \in Int /\ i <= n /\ i + 1 > n /\ (i + 1) - n = 1
          BY <3>1, <3>3, <1>1, <1>2
        <4>2. at2[k2][i + 1] = at[k2][1] /\ at2[k2][i] = at[k1][n]
          BY <4>1, <3>3, <1>4
        <4>3. QED BY <4>1, <4>2, <2>1, <1>1, <1>2
      <3>4. CASE i > n
        <4>1. /\ i \in Int /\ i + 1 \in Int /\ i + 1 > n /\ (i + 1) - n = (i - n) + 1
              /\ i - n \in 1 .. len[k2] - 1
          BY <3>1, <3>4, <1>1, <1>2
        <4>2. lnk[at[k2][i - n]] = at[k2][(i - n) + 1]
          BY <4>1 DEF ListsOK
        <4>3. at2[k2][i] = at[k2][i - n] /\ at2[k2][i + 1] = at[k2][(i + 1) - n]
          BY <4>1, <3>4, <1>4
        <4>4. QED BY <4>1, <4>2, <4>3, <2>1
      <3>5. QED BY <3>1, <3>2, <3>3, <3>4
    <2>2. CASE l = k1
      BY <2>2, <1>4
    <2>3. CASE l # k1 /\ l # k2
      BY <2>3, <1>4 DEF ListsOK
    <2>4. QED BY <2>1, <2>2, <2>3
  <1>12. QED BY <1>3, <1>8, <1>9, <1>10, <1>11 DEF ListsOK

\* The pages a + 1 .. a + n, the set S, are not on a list, and have been linked in
\* this order to become list k, which was empty.
Fresh(own, len, at, lnk, k, a, n, S, own2, lnk2) ==
    /\ k \in ListKey /\ a \in Int /\ n \in Nat
    /\ Witness(own, len, at) /\ ListsOK(own, len, at, lnk) /\ len[k] = 0 /\ n > 0
    /\ S \in SUBSET Page /\ S = a + 1 .. a + n
    /\ own2 \in [Page -> Place]
    /\ \A p \in S : own2[p] = k /\ own[p] \notin ListKey
    /\ \A p \in Page \ S : own[p] \in ListKey \/ own2[p] \in ListKey => own2[p] = own[p]
    /\ \A p \in Page : own[p] \in ListKey => lnk2[p] = lnk[p]
    /\ \A p \in S : p # a + n => lnk2[p] = p + 1

\* Pages that were on no list become list k.
LEMMA NewList ==
    ASSUME NEW own, NEW len, NEW at, NEW lnk, NEW k, NEW a, NEW n, NEW S, NEW own2, NEW lnk2,
           Fresh(own, len, at, lnk, k, a, n, S, own2, lnk2),
           NEW len2, len2 = SetAt(len, k, n), NEW at2, at2 = SetAt(at, k, Numbered(a, n))
    PROVE  Witness(own2, len2, at2) /\ ListsOK(own2, len2, at2, lnk2)
  <1> USE DEF Fresh
  <1>1. Witness(own2, len2, at2)
    <2>1. len2 \in [ListKey -> Nat]
      BY DEF Witness, SetAt
    <2>2. Numbered(a, n) \in [Int -> Page]
      <3>1. \A i \in 1 .. n : a + i \in a + 1 .. a + n
        OBVIOUS
      <3>2. a + 1 \in a + 1 .. a + n
        OBVIOUS
      <3>3. QED BY <3>1, <3>2 DEF Numbered
    <2>3. at2 \in [ListKey -> [Int -> Page]]
      BY <2>2 DEF Witness, SetAt
    <2>4. QED BY <2>1, <2>3 DEF Witness
  <1>2. /\ len2[k] = n /\ \A i \in 1 .. n : at2[k][i] = a + i
        /\ \A l \in ListKey \ {k} : len2[l] = len[l] /\ at2[l] = at[l]
    BY DEF Witness, SetAt, Numbered
  <1>3. \A l \in ListKey : \A i \in 1 .. len[l] : at[l][i] \in Page /\ own[at[l][i]] = l
    BY DEF ListsOK, Witness
  <1>4. ASSUME NEW l \in ListKey, NEW i \in 1 .. len2[l] PROVE own2[at2[l][i]] = l
    <2>1. CASE l = k
      <3>1. a + i \in a + 1 .. a + n
        BY <2>1, <1>2
      <3>2. at2[k][i] = a + i
        BY <2>1, <1>2
      <3>3. own2[a + i] = k
        BY <3>1
      <3>4. QED BY <3>2, <3>3, <2>1
    <2>2. CASE l # k
      <3>1. own[at[l][i]] = l /\ at[l][i] \in Page
        BY <2>2, <1>2, <1>3
      <3>2. at[l][i] \notin a + 1 .. a + n
        BY <3>1
      <3>3. own2[at[l][i]] = l
        BY <3>1, <3>2
      <3>4. at2[l] = at[l]
        BY <2>2, <1>2
      <3>5. QED BY <3>3, <3>4
    <2>3. QED BY <2>1, <2>2
  <1>5. ASSUME NEW l \in ListKey, NEW i \in 1 .. len2[l], NEW j \in 1 .. len2[l],
               at2[l][i] = at2[l][j]
        PROVE  i = j
    <2>1. CASE l = k
      BY <2>1, <1>2, <1>5
    <2>2. CASE l # k
      BY <2>2, <1>2, <1>5 DEF ListsOK
    <2>3. QED BY <2>1, <2>2
  <1>6. ASSUME NEW p \in Page, own2[p] \in ListKey
        PROVE  \E i \in 1 .. len2[own2[p]] : at2[own2[p]][i] = p
    <2>1. CASE p \in a + 1 .. a + n
      <3>1. p - a \in 1 .. n /\ a + (p - a) = p
        BY <2>1
      <3>2. PICK i \in 1 .. n : a + i = p
        BY <3>1
      <3>3. at2[k][i] = p /\ len2[k] = n
        BY <3>2, <1>2
      <3>4. own2[p] = k
        BY <2>1
      <3>5. QED BY <3>3, <3>4
    <2>2. CASE p \notin a + 1 .. a + n
      <3>1. own2[p] = own[p]
        BY <2>2, <1>6
      <3>2. PICK i \in 1 .. len[own[p]] : at[own[p]][i] = p
        BY <3>1, <1>6 DEF ListsOK
      <3>3. own[p] # k
        BY <3>2
      <3>4. QED BY <3>1, <3>2, <3>3, <1>2, <1>6
    <2>3. QED BY <2>1, <2>2
  <1>7. ASSUME NEW l \in ListKey, NEW i \in 1 .. len2[l] - 1
        PROVE  lnk2[at2[l][i]] = at2[l][i + 1]
    <2>1. CASE l = k
      <3>1. i \in 1 .. n /\ i + 1 \in 1 .. n /\ a + i \in a + 1 .. a + n /\ a + i # a + n
        BY <2>1, <1>2
      <3>2. (a + i) + 1 = a + (i + 1)
        BY <3>1
      <3>3. lnk2[a + i] = a + (i + 1)
        BY <3>1, <3>2
      <3>4. at2[k][i] = a + i /\ at2[k][i + 1] = a + (i + 1)
        BY <3>1, <1>2
      <3>5. QED BY <2>1, <3>3, <3>4
    <2>2. CASE l # k
      <3>1. i \in 1 .. len[l] - 1 /\ i \in 1 .. len[l]
        BY <2>2, <1>2 DEF Witness
      <3>2. lnk[at[l][i]] = at[l][i + 1]
        BY <3>1 DEF ListsOK
      <3>3. lnk2[at[l][i]] = lnk[at[l][i]]
        BY <3>1, <1>3
      <3>4. QED BY <2>2, <3>2, <3>3, <1>2
    <2>3. QED BY <2>1, <2>2
  <1>8. QED BY <1>1, <1>4, <1>5, <1>6, <1>7 DEF ListsOK

-----------------------------------------------------------------------------
\* Types, control state and the version tags.

PushPc == {"pushLink", "pushCas"}
LockPc == {"grow", "unlock", "blinkUnlock"}
Label  == {"idle", "popNext", "popCas", "tryLock", "blink", "popRetry", "gotPage"} \cup PushPc \cup LockPc
Head     == Page \cup {Sentinel}
Snapshot == [tag : Nat, head : Head]

TypeOK ==
    /\ freeList \in Snapshot
    /\ limit \in Int /\ limit < 0 /\ limit > -RegionSize
    /\ link \in [Page -> Head \cup {None}]
    /\ mutex \in Threads \cup {None} /\ aborted \in BOOLEAN
    /\ pc \in [Threads -> Label]
    /\ expected \in [Threads -> Snapshot]
    /\ newHead \in [Threads -> Head \cup {None}]
    /\ first \in [Threads -> Page \cup {None}] /\ last \in [Threads -> Page \cup {None}]
    /\ page \in [Threads -> Page \cup {None}]
    /\ curChunk \in [Threads -> Head] /\ lastChunk \in [Threads -> Page \cup {None}]
    /\ kept \in [Permanent -> SUBSET Page]
    /\ ops \in Nat /\ ops <= MaxOps

\* What thread t has in its local variables, by the step it is about to take.
ControlOK(t) ==
    /\ first[t] # None <=> pc[t] \in PushPc
    /\ last[t] # None <=> pc[t] \in PushPc
    /\ page[t] # None <=> pc[t] \in {"unlock", "gotPage"} \/ (pc[t] \in PushPc /\ mutex = t)
    /\ pc[t] \in LockPc => mutex = t
    /\ mutex = t => pc[t] \in LockPc \cup PushPc
    /\ pc[t] = "popCas" => expected[t].head \in Page
Control == TypeOK /\ \A t \in Threads : ControlOK(t)

\* A snapshot that still equals the free list was taken since the last change
\* of the free list, so the link read after it is still that of the head.
SnapshotOK(t) ==
    /\ expected[t].tag <= freeList.tag
    /\ pc[t] = "popCas" /\ expected[t] = freeList => newHead[t] = link[freeList.head]
    /\ pc[t] = "pushCas" => link[last[t]] = expected[t].head

\* Each call advances the tag at most once; these calls may still do it.
Pending == {t \in Threads : pc[t] \notin {"idle", "unlock", "gotPage"}}
TagsOK == IsFiniteSet(Pending) /\ freeList.tag + Cardinality(Pending) <= ops

\* The constants, and the words that are no pages.
LEMMA TypeFacts ==
    /\ Sentinel \notin Page /\ None \notin Page /\ None # Sentinel
    /\ Page \subseteq Int /\ None \notin Threads /\ Arenas \subseteq Threads
    /\ Permanent \subseteq Threads /\ \A t \in Threads : t \in Arenas <=> t \notin Permanent
    /\ NoSnapshot \in Snapshot
  BY SpdsAssumption DEF Page, Sentinel, Threads, NoSnapshot, Snapshot, Head

\* The number of pages mapped at once, and the new limit if it fits.
LEMMA GrowFacts ==
    ASSUME TypeOK
    PROVE  LengthToAllocate \in Nat /\ LengthToAllocate > 0
  BY SpdsAssumption DEF TypeOK, LengthToAllocate

\* What a pop finds under an unchanged free list.
NewHeadOK(t) == pc[t] = "popCas" /\ expected[t] = freeList => newHead[t] \in Head

\* Every step preserves the types; the popped head comes from NewHeadOK.
LEMMA TypeStep ==
    ASSUME Control, NEW t \in Threads, NewHeadOK(t), Step(t)
    PROVE  TypeOK'
  <1> USE TypeFacts
  <1>1. TypeOK /\ ControlOK(t)
    BY DEF Control
  <1>2. CASE AllocBegin(t)
    BY <1>1, <1>2, SpdsAssumption DEF AllocBegin, TypeOK, At, Goto, LoadFreeList, shared, Label
  <1>3. CASE PopRetry(t)
    BY <1>1, <1>3 DEF PopRetry, TypeOK, At, Goto, LoadFreeList, shared, client, Label
  <1>4. CASE PopEmpty(t)
    BY <1>1, <1>4 DEF PopEmpty, TypeOK, At, Goto, shared, client, Label
  <1>5. CASE PopNext(t)
    <2>1. expected[t].head \in Page
      BY <1>1, <1>5 DEF PopNext, TypeOK, Snapshot, Head
    <2>2. QED BY <2>1, <1>1, <1>5 DEF PopNext, TypeOK, At, Goto, shared, client, Label
  <1>6. CASE PopCas(t)
    <2>1. NextTag(expected[t].tag) \in Nat
      BY <1>1, SpdsAssumption DEF NextTag, TypeOK, Snapshot
    <2>2. freeList' \in Snapshot
      <3>1. CASE freeList' = freeList
        BY <3>1, <1>1 DEF TypeOK
      <3>2. CASE freeList' = [tag |-> NextTag(expected[t].tag), head |-> newHead[t]] /\ freeList = expected[t]
        <4>1. newHead[t] \in Head
          BY <1>6, <3>2 DEF NewHeadOK, PopCas, At
        <4>2. QED BY <4>1, <3>2, <2>1 DEF Snapshot
      <3>3. QED BY <3>1, <3>2, <1>6 DEF PopCas, Cas
    <2>3. pc' \in [Threads -> Label]
      BY <1>1, <1>6 DEF PopCas, Cas, TypeOK, Goto, Label
    <2>4. expected' \in [Threads -> Snapshot]
      BY <1>1, <1>6 DEF PopCas, Cas, TypeOK, LoadFreeList
    <2>5. page' \in [Threads -> Page \cup {None}]
      BY <1>1, <1>6 DEF PopCas, TypeOK, ControlOK, At
    <2>6. newHead' \in [Threads -> Head \cup {None}]
      BY <1>1, <1>6 DEF PopCas, TypeOK
    <2>7. QED BY <2>2, <2>3, <2>4, <2>5, <2>6, <1>1, <1>6 DEF PopCas, TypeOK, client
  <1>7. CASE PushLink(t)
    <2>1. expected[t].head \in Head
      BY <1>1 DEF TypeOK, Snapshot
    <2>2. QED BY <2>1, <1>1, <1>7 DEF PushLink, TypeOK, At, Goto, client, Label, PushPc
  <1>8. CASE PushCas(t)
    <2>1. NextTag(expected[t].tag) \in Nat
      BY <1>1, SpdsAssumption DEF NextTag, TypeOK, Snapshot
    <2>2. freeList' \in Snapshot
      <3>1. CASE freeList' = freeList
        BY <3>1, <1>1 DEF TypeOK
      <3>2. CASE freeList' = [tag |-> NextTag(expected[t].tag), head |-> first[t]]
        <4>1. first[t] \in Head
          BY <1>1, <1>8 DEF TypeOK, ControlOK, PushCas, At, PushPc, Head
        <4>2. QED BY <4>1, <3>2, <2>1 DEF Snapshot
      <3>3. QED BY <3>1, <3>2, <1>8 DEF PushCas, Cas
    <2>3. pc' \in [Threads -> Label]
      BY <1>1, <1>8 DEF PushCas, Cas, TypeOK, Goto, Label, PushPc, LockPc
    <2>4. expected' \in [Threads -> Snapshot]
      BY <1>1, <1>8 DEF PushCas, Cas, TypeOK, LoadFreeList
    <2>5. first' \in [Threads -> Page \cup {None}] /\ last' \in [Threads -> Page \cup {None}]
      BY <1>1, <1>8 DEF PushCas, TypeOK
    <2>6. QED BY <2>2, <2>3, <2>4, <2>5, <1>1, <1>8 DEF PushCas, TypeOK, client
  <1>9. CASE TryLock(t)
    BY <1>1, <1>9 DEF TryLock, TypeOK, At, Goto, client, Label, LockPc
  <1>10. CASE TryLockFail(t)
    BY <1>1, <1>10 DEF TryLockFail, TypeOK, At, Goto, shared, client, Label
  <1>11. CASE BlinkLock(t)
    BY <1>1, <1>11 DEF BlinkLock, TypeOK, At, Goto, client, Label, LockPc
  <1>12. CASE BlinkUnlock(t)
    BY <1>1, <1>12 DEF BlinkUnlock, TypeOK, At, Goto, client, Label
  <1>13. CASE GrowFails(t)
    BY <1>1, <1>13 DEF GrowFails, TypeOK, client
  <1>14. CASE Grow(t)
    <2>1. PICK n \in Nat : n = LengthToAllocate /\ n > 0
      BY <1>1, GrowFacts
    <2>2. PICK b \in Int : b = limit - n
      BY <2>1, <1>1 DEF TypeOK
    <2>3. b > -RegionSize /\ b < limit /\ limit < 0 /\ limit \in Int /\ RegionSize \in Nat
      BY <2>1, <2>2, <1>1, <1>14, SpdsAssumption DEF Grow, Fits, TypeOK
    <2>4. limit' = b /\ page' = [page EXCEPT ![t] = b + 1]
      BY <2>1, <2>2, <1>14 DEF Grow
    <2>5. link' = [p \in Page |-> IF p \in b + 2 .. limit - 1 THEN p + 1 ELSE link[p]]
      BY <2>1, <2>2, <1>14 DEF Grow
    <2>6. b + 1 \in Page /\ \A p \in b + 2 .. limit - 1 : p + 1 \in Page
      BY <2>3 DEF Page
    <2>7. link' \in [Page -> Head \cup {None}]
      BY <2>5, <2>6, <1>1 DEF TypeOK, Head
    <2>8. /\ first' \in [Threads -> Page \cup {None}] /\ last' \in [Threads -> Page \cup {None}]
          /\ expected' \in [Threads -> Snapshot] /\ pc' \in [Threads -> Label]
      <3>1. CASE n > 1
        <4>1. b + 2 \in Page /\ limit \in Page
          BY <3>1, <2>2, <2>3 DEF Page
        <4>2. QED BY <4>1, <3>1, <2>1, <2>2, <1>1, <1>14 DEF Grow, TypeOK, LoadFreeList, Goto, Label, PushPc
      <3>2. CASE ~(n > 1)
        BY <3>2, <2>1, <1>1, <1>14 DEF Grow, TypeOK, Goto, Label, LockPc
      <3>3. QED BY <3>1, <3>2
    <2>9. page' \in [Threads -> Page \cup {None}]
      BY <2>4, <2>6, <1>1 DEF TypeOK
    <2>10. QED BY <2>3, <2>4, <2>7, <2>8, <2>9, <1>1, <1>14 DEF Grow, TypeOK, client
  <1>15. CASE Unlock(t)
    BY <1>1, <1>15 DEF Unlock, TypeOK, At, Goto, client, Label
  <1>16. CASE GotArenaPage(t)
    <2>1. page[t] \in Page
      BY <1>1, <1>16 DEF GotArenaPage, TypeOK, ControlOK, At
    <2>2. QED BY <2>1, <1>1, <1>16 DEF GotArenaPage, TypeOK, At, Goto, Label, Head
  <1>17. CASE GotPermanentPage(t)
    <2>1. page[t] \in Page
      BY <1>1, <1>17 DEF GotPermanentPage, TypeOK, ControlOK, At
    <2>2. QED BY <2>1, <1>1, <1>17 DEF GotPermanentPage, TypeOK, At, Goto, Label, Head
  <1>18. CASE ReturnMemory(t)
    <2>1. curChunk[t] \in Page
      BY <1>1, <1>18 DEF ReturnMemory, TypeOK, Head
    <2>2. QED BY <2>1, <1>1, <1>18, SpdsAssumption DEF ReturnMemory, TypeOK, At, Goto, LoadFreeList, shared, Label, Head, PushPc
  <1>19. QED BY <1>2, <1>3, <1>4, <1>5, <1>6, <1>7, <1>8, <1>9, <1>10, <1>11, <1>12, <1>13,
               <1>14, <1>15, <1>16, <1>17, <1>18 DEF Step

\* Every step of t preserves the control state of every thread: only the thread
\* that holds the mutex is in the critical section.
LEMMA ControlStep ==
    ASSUME Control, NEW t \in Threads, \A u \in Threads : curChunk[u] # Sentinel /\ u \in Arenas => lastChunk[u] # None,
           Step(t)
    PROVE  \A u \in Threads : ControlOK(u)'
  <1> USE TypeFacts
  <1>1. TypeOK /\ \A u \in Threads : ControlOK(u)
    BY DEF Control
  <1> SUFFICES ASSUME NEW u \in Threads PROVE ControlOK(u)'
    OBVIOUS
  <1>2. CASE AllocBegin(t)
    BY <1>1, <1>2 DEF AllocBegin, TypeOK, ControlOK, At, Goto, LoadFreeList, shared, PushPc, LockPc
  <1>3. CASE PopRetry(t)
    BY <1>1, <1>3 DEF PopRetry, TypeOK, ControlOK, At, Goto, LoadFreeList, shared, client, PushPc, LockPc
  <1>4. CASE PopEmpty(t)
    BY <1>1, <1>4 DEF PopEmpty, TypeOK, ControlOK, At, Goto, shared, client, PushPc, LockPc
  <1>5. CASE PopNext(t)
    <2>1. expected[t].head \in Page
      BY <1>1, <1>5 DEF PopNext, TypeOK, Snapshot, Head
    <2>2. QED BY <2>1, <1>1, <1>5 DEF PopNext, TypeOK, ControlOK, At, Goto, shared, client, PushPc, LockPc
  <1>6. CASE PopCas(t)
    <2>1. expected[t].head \in Page
      BY <1>1, <1>6 DEF PopCas, ControlOK, At
    <2>2. pc[t] = "popCas" /\ pc' \in {[pc EXCEPT ![t] = "gotPage"], [pc EXCEPT ![t] = "popNext"]}
      BY <1>6 DEF PopCas, Cas, Goto, At
    <2>3. QED BY <2>1, <2>2, <1>1, <1>6 DEF PopCas, Cas, TypeOK, ControlOK, LoadFreeList, client, PushPc, LockPc
  <1>7. CASE PushLink(t)
    BY <1>1, <1>7 DEF PushLink, TypeOK, ControlOK, At, Goto, client, PushPc, LockPc
  <1>8. CASE PushCas(t)
    <2>1. pc[t] = "pushCas" /\ pc' \in {[pc EXCEPT ![t] = "unlock"], [pc EXCEPT ![t] = "idle"], [pc EXCEPT ![t] = "pushLink"]}
      BY <1>8 DEF PushCas, Cas, Goto, At
    <2>2. CASE pc' = [pc EXCEPT ![t] = "pushLink"]
      BY <2>1, <2>2, <1>1, <1>8 DEF PushCas, Cas, TypeOK, ControlOK, LoadFreeList, client, PushPc, LockPc
    <2>3. CASE pc' # [pc EXCEPT ![t] = "pushLink"]
      <3>1. pc' = [pc EXCEPT ![t] = IF mutex = t THEN "unlock" ELSE "idle"]
        BY <2>3, <1>8 DEF PushCas, Cas, Goto
      <3>2. first' = [first EXCEPT ![t] = None] /\ last' = [last EXCEPT ![t] = None]
        BY <3>1, <1>1, <1>8 DEF PushCas, TypeOK
      <3>3. \A v \in Threads \ {t} : expected'[v] = expected[v]
        BY <1>1, <1>8 DEF PushCas, Cas, TypeOK, LoadFreeList
      <3>4. QED BY <3>1, <3>2, <3>3, <2>1, <1>1, <1>8 DEF PushCas, TypeOK, ControlOK, client, PushPc, LockPc
    <2>4. QED BY <2>2, <2>3
  <1>9. CASE TryLock(t)
    BY <1>1, <1>9 DEF TryLock, TypeOK, ControlOK, At, Goto, client, PushPc, LockPc
  <1>10. CASE TryLockFail(t)
    BY <1>1, <1>10 DEF TryLockFail, TypeOK, ControlOK, At, Goto, shared, client, PushPc, LockPc
  <1>11. CASE BlinkLock(t)
    BY <1>1, <1>11 DEF BlinkLock, TypeOK, ControlOK, At, Goto, client, PushPc, LockPc
  <1>12. CASE BlinkUnlock(t)
    BY <1>1, <1>12 DEF BlinkUnlock, TypeOK, ControlOK, At, Goto, client, PushPc, LockPc
  <1>13. CASE GrowFails(t)
    BY <1>1, <1>13 DEF GrowFails, TypeOK, ControlOK, client
  <1>14. CASE Grow(t)
    <2>1. PICK n \in Nat : n = LengthToAllocate /\ n > 0
      BY <1>1, GrowFacts
    <2>2. pc[t] = "grow" /\ limit \in Int /\ limit - n \in Int /\ (limit - n) + 1 \in Int /\ (limit - n) + 2 \in Int
      BY <1>1, <1>14, <2>1 DEF Grow, At, TypeOK
    <2>3. (limit - n) + 1 # None /\ (limit - n) + 2 # None /\ limit # None
      BY <2>2, SpdsAssumption
    <2>4. page' = [page EXCEPT ![t] = (limit - n) + 1]
      BY <2>1, <1>14 DEF Grow
    <2>5. CASE n > 1
      <3>1. /\ first' = [first EXCEPT ![t] = (limit - n) + 2] /\ last' = [last EXCEPT ![t] = limit]
            /\ pc' = [pc EXCEPT ![t] = "pushLink"] /\ expected' = [expected EXCEPT ![t] = freeList]
        BY <2>1, <2>5, <1>14 DEF Grow, Goto, LoadFreeList
      <3>2. QED BY <3>1, <2>2, <2>3, <2>4, <1>1, <1>14 DEF Grow, TypeOK, ControlOK, PushPc, LockPc
    <2>6. CASE ~(n > 1)
      <3>1. first' = first /\ last' = last /\ expected' = expected /\ pc' = [pc EXCEPT ![t] = "unlock"]
        BY <2>1, <2>6, <1>14 DEF Grow, Goto
      <3>2. QED BY <3>1, <2>2, <2>3, <2>4, <1>1, <1>14 DEF Grow, TypeOK, ControlOK, PushPc, LockPc
    <2>7. QED BY <2>5, <2>6
  <1>15. CASE Unlock(t)
    BY <1>1, <1>15 DEF Unlock, TypeOK, ControlOK, At, Goto, client, PushPc, LockPc
  <1>16. CASE GotArenaPage(t)
    BY <1>1, <1>16 DEF GotArenaPage, TypeOK, ControlOK, At, Goto, PushPc, LockPc
  <1>17. CASE GotPermanentPage(t)
    BY <1>1, <1>17 DEF GotPermanentPage, TypeOK, ControlOK, At, Goto, PushPc, LockPc
  <1>18. CASE ReturnMemory(t)
    <2>1. curChunk[t] \in Page /\ lastChunk[t] \in Page
      BY <1>1, <1>18 DEF ReturnMemory, TypeOK, Head
    <2>2. QED BY <2>1, <1>1, <1>18 DEF ReturnMemory, TypeOK, ControlOK, At, Goto, LoadFreeList, shared, PushPc, LockPc
  <1>19. QED BY <1>2, <1>3, <1>4, <1>5, <1>6, <1>7, <1>8, <1>9, <1>10, <1>11, <1>12, <1>13,
               <1>14, <1>15, <1>16, <1>17, <1>18 DEF Step

\* The free list changes by at most one successful exchange, and then the call
\* that made it is done with the free list.
LEMMA TagStep ==
    ASSUME Control, TagsOK, NEW t \in Threads, expected[t].tag <= freeList.tag, Step(t)
    PROVE  TagsOK' /\ (freeList' = freeList \/ freeList'.tag = freeList.tag + 1)
  <1> USE TypeFacts
  <1>1. TypeOK /\ ControlOK(t)
    BY DEF Control
  <1>2. PICK f \in Nat : f = freeList.tag
    BY <1>1 DEF TypeOK, Snapshot
  <1>3. PICK c \in Nat : c = Cardinality(Pending)
    BY FS_CardinalityType DEF TagsOK
  <1>4. ops \in Nat /\ ops <= MaxOps /\ MaxOps \in Nat /\ f + c <= ops
    BY <1>1, <1>2, <1>3, SpdsAssumption DEF TypeOK, TagsOK
  <1>5. /\ IsFiniteSet(Pending \cup {t}) /\ IsFiniteSet(Pending \ {t})
        /\ Cardinality(Pending \cup {t}) = IF t \in Pending THEN c ELSE c + 1
        /\ Cardinality(Pending \ {t}) = IF t \in Pending THEN c - 1 ELSE c
    BY <1>3, FS_AddElement, FS_RemoveElement DEF TagsOK
  <1>6. CASE AllocBegin(t) \/ ReturnMemory(t)
    <2>1. /\ pc[t] = "idle" /\ pc' \in {[pc EXCEPT ![t] = "popNext"], [pc EXCEPT ![t] = "pushLink"]}
          /\ freeList' = freeList /\ ops' = ops + 1
      BY <1>6 DEF AllocBegin, ReturnMemory, At, Goto, shared
    <2>2. t \notin Pending /\ Pending' = Pending \cup {t}
      BY <2>1, <1>1 DEF Pending, TypeOK
    <2>3. QED BY <2>1, <2>2, <1>2, <1>3, <1>4, <1>5 DEF TagsOK
  <1>7. CASE \/ PopRetry(t) \/ PopEmpty(t) \/ PopNext(t) \/ PushLink(t) \/ TryLock(t)
             \/ TryLockFail(t) \/ BlinkLock(t) \/ BlinkUnlock(t) \/ GrowFails(t)
    <2>1. /\ freeList' = freeList /\ ops' = ops
          /\ t \in Pending /\ \/ pc' = pc
                              \/ \E l \in Label \ {"idle", "unlock", "gotPage"} : pc' = [pc EXCEPT ![t] = l]
      <3>1. CASE PopRetry(t)
        BY <3>1 DEF PopRetry, At, Goto, shared, client, Pending, Label
      <3>2. CASE PopEmpty(t)
        BY <3>2 DEF PopEmpty, At, Goto, shared, client, Pending, Label
      <3>3. CASE PopNext(t)
        BY <3>3 DEF PopNext, At, Goto, shared, client, Pending, Label
      <3>4. CASE PushLink(t)
        BY <3>4 DEF PushLink, At, Goto, client, Pending, Label, PushPc
      <3>5. CASE TryLock(t)
        BY <3>5 DEF TryLock, At, Goto, client, Pending, Label, LockPc
      <3>6. CASE TryLockFail(t)
        BY <3>6 DEF TryLockFail, At, Goto, shared, client, Pending, Label
      <3>7. CASE BlinkLock(t)
        BY <3>7 DEF BlinkLock, At, Goto, client, Pending, Label, LockPc
      <3>8. CASE BlinkUnlock(t)
        BY <3>8 DEF BlinkUnlock, At, Goto, client, Pending, Label
      <3>9. CASE GrowFails(t)
        BY <3>9 DEF GrowFails, At, client, Pending
      <3>10. QED BY <1>7, <3>1, <3>2, <3>3, <3>4, <3>5, <3>6, <3>7, <3>8, <3>9
    <2>2. Pending' = Pending
      BY <2>1, <1>1 DEF Pending, TypeOK
    <2>3. QED BY <2>1, <2>2 DEF TagsOK
  <1>8. CASE Unlock(t) \/ GotArenaPage(t) \/ GotPermanentPage(t)
    <2>1. /\ freeList' = freeList /\ ops' = ops
          /\ t \notin Pending /\ \E l \in {"idle", "gotPage"} : pc' = [pc EXCEPT ![t] = l]
      BY <1>8 DEF Unlock, GotArenaPage, GotPermanentPage, At, Goto, client, Pending
    <2>2. Pending' = Pending
      BY <2>1, <1>1 DEF Pending, TypeOK
    <2>3. QED BY <2>1, <2>2 DEF TagsOK
  <1>9. CASE Grow(t)
    <2>1. /\ freeList' = freeList /\ ops' = ops
          /\ t \in Pending /\ \E l \in {"pushLink", "unlock"} : pc' = [pc EXCEPT ![t] = l]
      BY <1>9 DEF Grow, At, Goto, client, Pending
    <2>2. Pending' = Pending \/ Pending' = Pending \ {t}
      BY <2>1, <1>1 DEF Pending, TypeOK
    <2>3. CASE Pending' = Pending
      BY <2>1, <2>3 DEF TagsOK
    <2>4. CASE Pending' = Pending \ {t}
      <3>1. Cardinality(Pending') = c - 1
        BY <2>1, <2>4, <1>5
      <3>2. QED BY <2>1, <2>4, <3>1, <1>2, <1>4, <1>5 DEF TagsOK
    <2>5. QED BY <2>1, <2>2, <2>3, <2>4
  <1>10. CASE PopCas(t) \/ PushCas(t)
    <2>1. t \in Pending /\ ops' = ops
      BY <1>10 DEF PopCas, PushCas, At, client, Pending
    <2>2. CASE freeList' = freeList /\ \E l \in {"popNext", "pushLink"} : pc' = [pc EXCEPT ![t] = l]
      <3>1. Pending' = Pending
        BY <2>1, <2>2, <1>1 DEF Pending, TypeOK
      <3>2. QED BY <2>1, <2>2, <3>1 DEF TagsOK
    <2>3. CASE /\ freeList = expected[t] /\ freeList'.tag = NextTag(expected[t].tag)
               /\ \E l \in {"gotPage", "unlock", "idle"} : pc' = [pc EXCEPT ![t] = l]
      <3>1. Pending' = Pending \ {t}
        BY <2>1, <2>3, <1>1 DEF Pending, TypeOK
      <3>2. c > 0
        BY <2>1, <1>3, FS_EmptySet DEF TagsOK
      <3>3. f + 1 < TagMod /\ TagMod \in Nat
        BY <3>2, <1>4, SpdsAssumption
      <3>4. freeList'.tag = f + 1
        BY <2>3, <3>3, <1>2 DEF NextTag
      <3>5. QED BY <2>1, <3>1, <3>4, <1>2, <1>3, <1>4, <1>5 DEF TagsOK
    <2>4. QED BY <2>2, <2>3, <1>10 DEF PopCas, PushCas, Cas, Goto
  <1>11. QED BY <1>6, <1>7, <1>8, <1>9, <1>10 DEF Step

-----------------------------------------------------------------------------
\* Where the lists begin and end.

HeadsOf(own, len, at, t) ==
    /\ IF first[t] = None
       THEN len[OnPush(t)] = 0
       ELSE /\ len[OnPush(t)] > 0 /\ first[t] = at[OnPush(t)][1]
            /\ last[t] = at[OnPush(t)][len[OnPush(t)]]
    /\ IF t \in Permanent \/ curChunk[t] = Sentinel
       THEN len[OnChain(t)] = 0
       ELSE /\ len[OnChain(t)] > 0 /\ curChunk[t] = at[OnChain(t)][1]
            /\ lastChunk[t] = at[OnChain(t)][len[OnChain(t)]]
            /\ link[lastChunk[t]] = Sentinel
    /\ \A p \in Page : own[p] = InHandOf(t) <=> page[t] = p
    /\ \A p \in Page : own[p] = KeptBy(t) <=> t \in Permanent /\ p \in kept[t]
FreeHead(len, at) ==
    /\ freeList.head = IF len[OnFree] = 0 THEN Sentinel ELSE at[OnFree][1]
    /\ len[OnFree] > 0 => link[at[OnFree][len[OnFree]]] = Sentinel
Heads(own, len, at) ==
    /\ \A p \in Page : own[p] = Unmapped <=> p <= limit
    /\ FreeHead(len, at)
    /\ \A t \in Threads : HeadsOf(own, len, at, t)
Shape(own, len, at) ==
    /\ Witness(own, len, at)
    /\ ListsOK(own, len, at, link)
    /\ Heads(own, len, at)

Inv0(own, len, at) ==
    /\ Control /\ TagsOK
    /\ \A t \in Threads : SnapshotOK(t)
    /\ Shape(own, len, at)

\* Which pages a thread may have named in its variables.
LEMMA HeadFacts ==
    ASSUME NEW own, NEW len, NEW at, TypeOK, Shape(own, len, at), NEW t \in Threads
    PROVE  /\ freeList.head # Sentinel => own[freeList.head] = OnFree /\ freeList.head \in Page
           /\ first[t] # None => own[first[t]] = OnPush(t) /\ own[last[t]] = OnPush(t)
           /\ page[t] # None => own[page[t]] = InHandOf(t)
           /\ curChunk[t] # Sentinel /\ t \in Arenas => lastChunk[t] # None /\ own[lastChunk[t]] = OnChain(t)
  <1> USE TypeFacts, PlacesDiffer
  <1>1. \A k \in ListKey : len[k] \in Nat /\ at[k] \in [Int -> Page]
    BY DEF Shape, Witness
  <1>2. \A k \in ListKey : len[k] > 0 => 1 \in 1 .. len[k] /\ len[k] \in 1 .. len[k]
    BY <1>1
  <1>3. \A k \in ListKey : len[k] > 0 => own[at[k][1]] = k /\ own[at[k][len[k]]] = k
    BY <1>2 DEF Shape, ListsOK
  <1>4. \A k \in ListKey : at[k][1] \in Page /\ at[k][len[k]] \in Page
    BY <1>1
  <1>5. FreeHead(len, at) /\ HeadsOf(own, len, at, t)
    BY DEF Shape, Heads
  <1>6. freeList.head # Sentinel => own[freeList.head] = OnFree /\ freeList.head \in Page
    BY <1>1, <1>3, <1>4, <1>5 DEF FreeHead
  <1>7. first[t] # None => own[first[t]] = OnPush(t) /\ own[last[t]] = OnPush(t)
    BY <1>3, <1>5 DEF HeadsOf
  <1>8. page[t] # None => own[page[t]] = InHandOf(t)
    BY <1>5 DEF HeadsOf, TypeOK
  <1>9. curChunk[t] # Sentinel /\ t \in Arenas => lastChunk[t] # None /\ own[lastChunk[t]] = OnChain(t)
    BY <1>3, <1>4, <1>5 DEF HeadsOf
  <1>10. QED BY <1>6, <1>7, <1>8, <1>9

\* A thread writes only links of pages that are its own or not mapped yet.
LEMMA LinkWrites ==
    ASSUME NEW own, NEW len, NEW at, Control, Shape(own, len, at), NEW t \in Threads, Step(t)
    PROVE  \A p \in Page : link'[p] = link[p] \/ own[p] \in {OnPush(t), InHandOf(t), Unmapped}
  <1> USE TypeFacts
  <1>1. TypeOK /\ ControlOK(t)
    BY DEF Control
  <1>2. CASE PushLink(t)
    <2>1. own[last[t]] = OnPush(t)
      BY <1>1, <1>2, HeadFacts DEF PushLink, At, ControlOK, PushPc
    <2>2. link' = [link EXCEPT ![last[t]] = expected[t].head]
      BY <1>2 DEF PushLink
    <2>3. QED BY <2>1, <2>2, <1>1 DEF TypeOK
  <1>3. CASE GotArenaPage(t) \/ GotPermanentPage(t)
    <2>1. own[page[t]] = InHandOf(t)
      BY <1>1, <1>3, HeadFacts DEF GotArenaPage, GotPermanentPage, At, ControlOK
    <2>2. \E x : link' = [link EXCEPT ![page[t]] = x]
      BY <1>3 DEF GotArenaPage, GotPermanentPage
    <2>3. QED BY <2>1, <2>2, <1>1 DEF TypeOK
  <1>4. CASE Grow(t)
    <2>1. PICK n \in Nat : n = LengthToAllocate /\ n > 0
      BY <1>1, GrowFacts
    <2>2. link' = [p \in Page |-> IF p \in (limit - n) + 2 .. limit - 1 THEN p + 1 ELSE link[p]]
      BY <2>1, <1>4 DEF Grow
    <2>3. \A p \in Page : p \in (limit - n) + 2 .. limit - 1 => own[p] = Unmapped
      BY <1>1 DEF Shape, Heads, TypeOK
    <2>4. QED BY <2>2, <2>3
  <1>5. CASE ~(PushLink(t) \/ GotArenaPage(t) \/ GotPermanentPage(t) \/ Grow(t))
    <2>1. link' = link
      BY <1>5 DEF Step, AllocBegin, PopRetry, PopEmpty, PopNext, PopCas, PushCas, TryLock, TryLockFail,
           BlinkLock, BlinkUnlock, GrowFails, Unlock, ReturnMemory, shared
    <2>2. QED BY <2>1
  <1>6. QED BY <1>2, <1>3, <1>4, <1>5

\* The steps of t leave the variables of the other threads alone.
LEMMA OthersKeep ==
    ASSUME TypeOK, NEW t \in Threads, NEW u \in Threads \ {t}, Step(t)
    PROVE  /\ pc'[u] = pc[u] /\ expected'[u] = expected[u] /\ newHead'[u] = newHead[u]
           /\ first'[u] = first[u] /\ last'[u] = last[u] /\ page'[u] = page[u]
           /\ curChunk'[u] = curChunk[u] /\ lastChunk'[u] = lastChunk[u]
           /\ u \in Permanent => kept'[u] = kept[u]
  <1>1. pc'[u] = pc[u]
    BY DEF Step, AllocBegin, PopRetry, PopEmpty, PopNext, PopCas, PushLink, PushCas, TryLock, TryLockFail,
           BlinkLock, BlinkUnlock, GrowFails, Grow, Unlock, GotArenaPage, GotPermanentPage, ReturnMemory,
           Cas, Goto, TypeOK
  <1>2. expected'[u] = expected[u]
    BY DEF Step, AllocBegin, PopRetry, PopEmpty, PopNext, PopCas, PushLink, PushCas, TryLock, TryLockFail,
           BlinkLock, BlinkUnlock, GrowFails, Grow, Unlock, GotArenaPage, GotPermanentPage, ReturnMemory,
           Cas, LoadFreeList, TypeOK
  <1>3. newHead'[u] = newHead[u] /\ page'[u] = page[u]
    BY DEF Step, AllocBegin, PopRetry, PopEmpty, PopNext, PopCas, PushLink, PushCas, TryLock, TryLockFail,
           BlinkLock, BlinkUnlock, GrowFails, Grow, Unlock, GotArenaPage, GotPermanentPage, ReturnMemory, TypeOK
  <1>4. first'[u] = first[u] /\ last'[u] = last[u]
    BY DEF Step, AllocBegin, PopRetry, PopEmpty, PopNext, PopCas, PushLink, PushCas, TryLock, TryLockFail,
           BlinkLock, BlinkUnlock, GrowFails, Grow, Unlock, GotArenaPage, GotPermanentPage, ReturnMemory, TypeOK
  <1>5. curChunk'[u] = curChunk[u] /\ lastChunk'[u] = lastChunk[u]
    BY DEF Step, AllocBegin, PopRetry, PopEmpty, PopNext, PopCas, PushLink, PushCas, TryLock, TryLockFail,
           BlinkLock, BlinkUnlock, GrowFails, Grow, Unlock, GotArenaPage, GotPermanentPage, ReturnMemory,
           client, TypeOK
  <1>6. u \in Permanent => kept'[u] = kept[u]
    BY DEF Step, AllocBegin, PopRetry, PopEmpty, PopNext, PopCas, PushLink, PushCas, TryLock, TryLockFail,
           BlinkLock, BlinkUnlock, GrowFails, Grow, Unlock, GotArenaPage, GotPermanentPage, ReturnMemory,
           client, TypeOK
  <1>7. QED BY <1>1, <1>2, <1>3, <1>4, <1>5, <1>6

\* A snapshot goes stale before the link read under it does.
LEMMA SnapshotStep ==
    ASSUME NEW own, NEW len, NEW at, Inv0(own, len, at), NEW t \in Threads, Step(t), TypeOK'
    PROVE  \A u \in Threads : SnapshotOK(u)'
  <1> USE TypeFacts, PlacesDiffer
  <1>1. TypeOK /\ ControlOK(t) /\ SnapshotOK(t) /\ Control /\ Shape(own, len, at)
    BY DEF Inv0, Control
  <1>2. freeList' = freeList \/ freeList'.tag = freeList.tag + 1
    BY <1>1, TagStep DEF Inv0, SnapshotOK
  <1>3. \A p \in Page : link'[p] = link[p] \/ own[p] \in {OnPush(t), InHandOf(t), Unmapped}
    BY <1>1, LinkWrites
  <1>4. freeList.tag \in Nat /\ freeList'.tag \in Nat
    BY <1>1 DEF TypeOK, Snapshot
  <1>5. ASSUME NEW u \in Threads, u # t PROVE SnapshotOK(u)'
    <2>1. SnapshotOK(u) /\ ControlOK(u)
      BY DEF Inv0, Control
    <2>2. /\ pc'[u] = pc[u] /\ expected'[u] = expected[u] /\ newHead'[u] = newHead[u] /\ last'[u] = last[u]
          /\ expected[u].tag \in Nat
      BY <1>5, <1>1, OthersKeep DEF TypeOK, Snapshot
    <2>3. expected[u].tag <= freeList'.tag
      BY <2>1, <2>2, <1>2, <1>4 DEF SnapshotOK
    <2>4. ASSUME pc[u] = "popCas", expected[u] = freeList' PROVE newHead[u] = link'[freeList'.head]
      <3>1. freeList' = freeList
        BY <2>4, <2>1, <1>2, <1>4 DEF SnapshotOK
      <3>2. freeList.head \in Page /\ own[freeList.head] = OnFree
        <4>1. freeList.head # Sentinel
          BY <3>1, <2>4, <2>1 DEF ControlOK
        <4>2. QED BY <4>1, <1>1, HeadFacts
      <3>3. link'[freeList.head] = link[freeList.head]
        BY <3>2, <1>3
      <3>4. QED BY <3>1, <3>3, <2>4, <2>1 DEF SnapshotOK
    <2>5. ASSUME pc[u] = "pushCas" PROVE link'[last[u]] = expected[u].head
      <3>1. last[u] \in Page /\ own[last[u]] = OnPush(u)
        <4>1. first[u] # None /\ last[u] # None
          BY <2>5, <2>1 DEF ControlOK, PushPc
        <4>2. own[last[u]] = OnPush(u)
          BY <4>1, <1>1, HeadFacts
        <4>3. QED BY <4>1, <4>2, <1>1 DEF TypeOK
      <3>2. link'[last[u]] = link[last[u]]
        BY <3>1, <1>5, <1>3
      <3>3. QED BY <3>2, <2>5, <2>1 DEF SnapshotOK
    <2>6. QED BY <2>2, <2>3, <2>4, <2>5 DEF SnapshotOK
  <1>6. SnapshotOK(t)'
    <2>1. expected'[t].tag <= freeList'.tag
      <3>1. expected' = expected \/ expected'[t] = freeList \/ expected'[t] = NoSnapshot
        BY <1>1 DEF Step, AllocBegin, PopRetry, PopEmpty, PopNext, PopCas, PushLink, PushCas, TryLock, TryLockFail,
           BlinkLock, BlinkUnlock, GrowFails, Grow, Unlock, GotArenaPage, GotPermanentPage, ReturnMemory,
           Cas, LoadFreeList, TypeOK
      <3>2. expected[t].tag \in Nat /\ expected[t].tag <= freeList.tag /\ NoSnapshot.tag = 0
        BY <1>1 DEF TypeOK, Snapshot, SnapshotOK, NoSnapshot
      <3>3. QED BY <3>1, <3>2, <1>2, <1>4
    <2>2. pc'[t] = "popCas" /\ expected'[t] = freeList' => newHead'[t] = link'[freeList'.head]
      <3>1. CASE PopNext(t)
        BY <3>1, <1>1 DEF PopNext, TypeOK, shared
      <3>2. CASE GrowFails(t)
        BY <3>2, <1>1 DEF GrowFails, At, TypeOK
      <3>3. CASE ~PopNext(t) /\ ~GrowFails(t)
        <4>1. pc'[t] # "popCas"
          BY <3>3, <1>1 DEF Step, AllocBegin, PopRetry, PopEmpty, PopCas, PushLink, PushCas, TryLock, TryLockFail,
             BlinkLock, BlinkUnlock, Grow, Unlock, GotArenaPage, GotPermanentPage, ReturnMemory,
             Cas, Goto, TypeOK
        <4>2. QED BY <4>1
      <3>4. QED BY <3>1, <3>2, <3>3
    <2>3. pc'[t] = "pushCas" => link'[last'[t]] = expected'[t].head
      <3>1. CASE PushLink(t)
        <4>1. last[t] \in Page
          BY <3>1, <1>1 DEF PushLink, At, ControlOK, PushPc, TypeOK
        <4>2. QED BY <4>1, <3>1, <1>1 DEF PushLink, TypeOK
      <3>2. CASE GrowFails(t)
        BY <3>2, <1>1 DEF GrowFails, At, TypeOK
      <3>3. CASE ~PushLink(t) /\ ~GrowFails(t)
        <4>1. pc'[t] # "pushCas"
          BY <3>3, <1>1 DEF Step, AllocBegin, PopRetry, PopEmpty, PopNext, PopCas, PushCas, TryLock, TryLockFail,
             BlinkLock, BlinkUnlock, Grow, Unlock, GotArenaPage, GotPermanentPage, ReturnMemory,
             Cas, Goto, TypeOK
        <4>2. QED BY <4>1
      <3>4. QED BY <3>1, <3>2, <3>3
    <2>4. QED BY <2>1, <2>2, <2>3 DEF SnapshotOK
  <1>7. QED BY <1>5, <1>6

-----------------------------------------------------------------------------
\* How a step moves pages, in terms of the witnesses.

HeldPlaces(t) == {OnPush(t), OnChain(t), InHandOf(t), KeptBy(t)}

\* t moves pages only between its own places, the free list and unmapped memory.
MovedBy(own, own2, t) ==
    \A p \in Page :
      \/ own2[p] = own[p]
      \/ own[p] \in {OnFree, Unmapped} \cup HeldPlaces(t) /\ own2[p] \in {OnFree} \cup HeldPlaces(t)

Stays(own, own2, t) ==
    limit' = limit /\ \A p \in Page : \/ own2[p] = own[p]
                                      \/ own[p] \in HeldPlaces(t) /\ own2[p] \in HeldPlaces(t)
Takes(own, own2, t) ==
    limit' = limit /\ \E p \in Page : /\ own[p] = OnFree /\ own2[p] = InHandOf(t)
                                      /\ \A q \in Page \ {p} : own2[q] = own[q]
Gives(own, own2, t) ==
    /\ limit' = limit /\ \E p \in Page : own[p] = OnPush(t)
    /\ \A p \in Page : own2[p] = IF own[p] = OnPush(t) THEN OnFree ELSE own[p]
Maps(own, own2, t) ==
    /\ limit' < limit
    /\ \A p \in Page : IF p <= limit /\ p > limit' THEN own2[p] \in HeldPlaces(t) ELSE own2[p] = own[p]
Effect(own, own2) ==
    \E t \in Threads : Stays(own, own2, t) \/ Takes(own, own2, t) \/ Gives(own, own2, t) \/ Maps(own, own2, t)

\* The other threads see none of it.
LEMMA OthersHeads ==
    ASSUME NEW own, NEW len, NEW at, Control, Shape(own, len, at), NEW t \in Threads, Step(t),
           NEW own2, NEW len2, NEW at2, MovedBy(own, own2, t),
           \A u \in Threads \ {t} : /\ len2[OnPush(u)] = len[OnPush(u)] /\ at2[OnPush(u)] = at[OnPush(u)]
                                    /\ len2[OnChain(u)] = len[OnChain(u)] /\ at2[OnChain(u)] = at[OnChain(u)]
    PROVE  \A u \in Threads \ {t} : HeadsOf(own2, len2, at2, u)'
  <1> USE TypeFacts
  <1>1. TypeOK
    BY DEF Control
  <1> SUFFICES ASSUME NEW u \in Threads, u # t PROVE HeadsOf(own2, len2, at2, u)'
    OBVIOUS
  <1>2. HeadsOf(own, len, at, u)
    BY DEF Shape, Heads
  <1>3. /\ first'[u] = first[u] /\ last'[u] = last[u] /\ page'[u] = page[u]
        /\ curChunk'[u] = curChunk[u] /\ lastChunk'[u] = lastChunk[u]
        /\ u \in Permanent => kept'[u] = kept[u]
    BY <1>1, OthersKeep
  <1>4. ~(u \in Permanent \/ curChunk[u] = Sentinel) => link'[lastChunk[u]] = link[lastChunk[u]]
    <2>1. SUFFICES ASSUME u \in Arenas, curChunk[u] # Sentinel PROVE link'[lastChunk[u]] = link[lastChunk[u]]
      OBVIOUS
    <2>2. lastChunk[u] # None /\ own[lastChunk[u]] = OnChain(u)
      BY <1>1, <2>1, HeadFacts
    <2>3. lastChunk[u] \in Page
      BY <2>2, <1>1 DEF TypeOK
    <2>4. \A p \in Page : link'[p] = link[p] \/ own[p] \in {OnPush(t), InHandOf(t), Unmapped}
      BY LinkWrites
    <2>5. OnChain(u) \notin {OnPush(t), InHandOf(t), Unmapped}
      BY PlacesDiffer
    <2>6. QED BY <2>2, <2>3, <2>4, <2>5
  <1>5. \A p \in Page : own2[p] = InHandOf(u) <=> own[p] = InHandOf(u)
    <2>1. InHandOf(u) \notin {OnFree, Unmapped} \cup HeldPlaces(t)
      BY PlacesDiffer DEF HeldPlaces
    <2>2. QED BY <2>1 DEF MovedBy
  <1>6. \A p \in Page : own2[p] = KeptBy(u) <=> own[p] = KeptBy(u)
    <2>1. KeptBy(u) \notin {OnFree, Unmapped} \cup HeldPlaces(t)
      BY PlacesDiffer DEF HeldPlaces
    <2>2. QED BY <2>1 DEF MovedBy
  <1>7. /\ len2[OnPush(u)] = len[OnPush(u)] /\ at2[OnPush(u)] = at[OnPush(u)]
        /\ len2[OnChain(u)] = len[OnChain(u)] /\ at2[OnChain(u)] = at[OnChain(u)]
    OBVIOUS
  <1>8. QED BY <1>2, <1>3, <1>4, <1>5, <1>6, <1>7 DEF HeadsOf

\* The free list is as it was.
LEMMA FreeKeeps ==
    ASSUME NEW own, NEW len, NEW at, Control, Shape(own, len, at), NEW t \in Threads, Step(t),
           NEW len2, NEW at2, freeList'.head = freeList.head,
           len2[OnFree] = len[OnFree], at2[OnFree] = at[OnFree]
    PROVE  FreeHead(len2, at2)'
  <1>1. FreeHead(len, at)
    BY DEF Shape, Heads
  <1>2. len[OnFree] > 0 => link'[at[OnFree][len[OnFree]]] = link[at[OnFree][len[OnFree]]]
    <2>1. SUFFICES ASSUME len[OnFree] > 0 PROVE link'[at[OnFree][len[OnFree]]] = link[at[OnFree][len[OnFree]]]
      OBVIOUS
    <2>2. OnFree \in ListKey /\ OnFree \notin {OnPush(t), InHandOf(t), Unmapped}
      BY PlacesDiffer
    <2>3. len[OnFree] \in Nat /\ at[OnFree] \in [Int -> Page]
      BY <2>2 DEF Shape, Witness
    <2>4. len[OnFree] \in 1 .. len[OnFree]
      BY <2>1, <2>3
    <2>5. own[at[OnFree][len[OnFree]]] = OnFree /\ at[OnFree][len[OnFree]] \in Page
      BY <2>2, <2>3, <2>4 DEF Shape, ListsOK
    <2>6. \A p \in Page : link'[p] = link[p] \/ own[p] \in {OnPush(t), InHandOf(t), Unmapped}
      BY LinkWrites
    <2>7. QED BY <2>2, <2>5, <2>6
  <1>3. QED BY <1>1, <1>2 DEF FreeHead

\* The steps that move no page and write no link.
LEMMA ShapeSame ==
    ASSUME NEW own, NEW len, NEW at, Shape(own, len, at), freeList'.head = freeList.head,
           UNCHANGED <<limit, link, first, last, page, curChunk, lastChunk, kept>>
    PROVE  Shape(own, len, at)'
  <1>1. Witness(own, len, at) /\ ListsOK(own, len, at, link')
    BY DEF Shape
  <1>2. \A p \in Page : own[p] = Unmapped <=> p <= limit'
    BY DEF Shape, Heads
  <1>3. FreeHead(len, at)'
    BY DEF Shape, Heads, FreeHead
  <1>4. \A t \in Threads : HeadsOf(own, len, at, t)'
    BY DEF Shape, Heads, HeadsOf
  <1>5. QED BY <1>1, <1>2, <1>3, <1>4 DEF Shape, Heads

\* SpdsPutAllocatedPagesToFreeList writes the link of its last page, which ends
\* the pushed chain.
LEMMA ShapePushLink ==
    ASSUME NEW own, NEW len, NEW at, Control, Shape(own, len, at), NEW t \in Threads, PushLink(t)
    PROVE  Shape(own, len, at)' /\ Effect(own, own)
  <1> USE TypeFacts
  <1>1. TypeOK /\ ControlOK(t) /\ Step(t)
    BY DEF Control, Step
  <1>2. first[t] # None /\ last[t] \in Page
    BY <1>1 DEF PushLink, At, ControlOK, PushPc, TypeOK
  <1>3. HeadsOf(own, len, at, t)
    BY DEF Shape, Heads
  <1>4. last[t] = at[OnPush(t)][len[OnPush(t)]] /\ own[last[t]] = OnPush(t)
    BY <1>1, <1>2, <1>3, HeadFacts DEF HeadsOf
  <1>5. link' = [link EXCEPT ![last[t]] = expected[t].head]
    BY DEF PushLink
  <1>6. \A p \in Page : own[p] \in ListKey /\ p # at[own[p]][len[own[p]]] => link'[p] = link[p]
    BY <1>1, <1>2, <1>4, <1>5 DEF TypeOK
  <1>7. ListsOK(own, len, at, link')
    <2>1. Witness(own, len, at) /\ own \in [Page -> Place] /\ ListsOK(own, len, at, link)
      BY DEF Shape, Witness
    <2>2. QED BY <2>1, <1>6, KeepLists
  <1>8. MovedBy(own, own, t)
    BY DEF MovedBy
  <1>9. \A u \in Threads \ {t} : HeadsOf(own, len, at, u)'
    BY <1>1, <1>8, OthersHeads
  <1>10. HeadsOf(own, len, at, t)'
    <2>1. t \in Arenas /\ curChunk[t] # Sentinel => link'[lastChunk[t]] = link[lastChunk[t]]
      <3>1. SUFFICES ASSUME t \in Arenas, curChunk[t] # Sentinel PROVE link'[lastChunk[t]] = link[lastChunk[t]]
        OBVIOUS
      <3>2. own[lastChunk[t]] = OnChain(t) /\ lastChunk[t] \in Page
        BY <1>1, <3>1, HeadFacts DEF TypeOK
      <3>3. lastChunk[t] # last[t]
        BY <3>2, <1>4, PlacesDiffer
      <3>4. QED BY <3>2, <3>3, <1>1, <1>5 DEF TypeOK
    <2>2. UNCHANGED <<first, last, page, curChunk, lastChunk, kept>>
      BY DEF PushLink, client
    <2>3. QED BY <2>1, <2>2, <1>3 DEF HeadsOf
  <1>11. FreeHead(len, at)'
    <2>1. freeList'.head = freeList.head
      BY DEF PushLink
    <2>2. QED BY <2>1, <1>1, FreeKeeps
  <1>12. \A p \in Page : own[p] = Unmapped <=> p <= limit'
    BY DEF PushLink, Shape, Heads
  <1>13. Heads(own, len, at)'
    BY <1>9, <1>10, <1>11, <1>12 DEF Heads
  <1>14. Stays(own, own, t)
    BY DEF Stays, PushLink
  <1>15. QED BY <1>7, <1>13, <1>14 DEF Shape, Effect

\* A successful pop.
LEMMA ShapePop ==
    ASSUME NEW own, NEW len, NEW at, Inv0(own, len, at), NEW t \in Threads, PopCas(t),
           freeList = expected[t], freeList'.head = newHead[t], pc'[t] = "gotPage"
    PROVE  \E own2, len2, at2 : Shape(own2, len2, at2)' /\ Effect(own, own2)
  <1> USE TypeFacts
  <1>1. TypeOK /\ ControlOK(t) /\ SnapshotOK(t) /\ Step(t) /\ Control /\ Shape(own, len, at)
    BY DEF Inv0, Control, Step
  <1>k. OnFree \in ListKey /\ InHandOf(t) \in Place \ ListKey
    BY PlacesDiffer
  <1>2. freeList.head \in Page
    BY <1>1 DEF PopCas, At, ControlOK
  <1>3. own[freeList.head] = OnFree
    BY <1>1, <1>2, HeadFacts
  <1>4. PICK n \in Nat : n = len[OnFree]
    BY <1>1, <1>k DEF Shape, Witness
  <1>5. FreeHead(len, at)
    BY <1>1 DEF Shape, Heads
  <1>6. n > 0 /\ freeList.head = at[OnFree][1]
    BY <1>2, <1>4, <1>5 DEF FreeHead
  <1>7. PICK own2 : own2 = SetAt(own, at[OnFree][1], InHandOf(t))
    OBVIOUS
  <1>8. PICK len2 : len2 = SetAt(len, OnFree, len[OnFree] - 1)
    OBVIOUS
  <1>9. PICK at2 : at2 = SetAt(at, OnFree, DropFirst(at[OnFree]))
    OBVIOUS
  <1>10. Witness(own2, len2, at2) /\ ListsOK(own2, len2, at2, link)
    <2>1. Witness(own, len, at) /\ ListsOK(own, len, at, link) /\ len[OnFree] > 0
      BY <1>1, <1>4, <1>6 DEF Shape
    <2>2. QED BY <2>1, <1>k, <1>7, <1>8, <1>9, PopFront
  <1>11. link' = link /\ limit' = limit /\ UNCHANGED <<first, last, curChunk, lastChunk, kept>>
    BY DEF PopCas, client
  <1>12. own2[freeList.head] = InHandOf(t) /\ \A q \in Page \ {freeList.head} : own2[q] = own[q]
    BY <1>1, <1>2, <1>6, <1>7 DEF Shape, Witness, SetAt
  <1>13. /\ len2[OnFree] = n - 1 /\ \A i \in Int : at2[OnFree][i] = at[OnFree][i + 1]
         /\ \A k \in ListKey \ {OnFree} : len2[k] = len[k] /\ at2[k] = at[k]
    BY <1>1, <1>k, <1>4, <1>8, <1>9 DEF Shape, Witness, SetAt, DropFirst
  <1>14. Takes(own, own2, t)
    BY <1>2, <1>3, <1>11, <1>12 DEF Takes
  <1>15. MovedBy(own, own2, t)
    BY <1>3, <1>12 DEF MovedBy, HeldPlaces
  <1>16. \A u \in Threads : OnPush(u) \in ListKey \ {OnFree} /\ OnChain(u) \in ListKey \ {OnFree}
    BY PlacesDiffer
  <1>17. \A u \in Threads \ {t} : HeadsOf(own2, len2, at2, u)'
    BY <1>1, <1>13, <1>15, <1>16, OthersHeads
  <1>18. HeadsOf(own2, len2, at2, t)'
    <2>1. HeadsOf(own, len, at, t)
      BY <1>1 DEF Shape, Heads
    <2>2. page[t] = None /\ page'[t] = freeList.head
      BY <1>1 DEF PopCas, At, ControlOK, TypeOK, PushPc
    <2>3. \A p \in Page : own2[p] = InHandOf(t) <=> page'[t] = p
      BY <2>1, <2>2, <1>12 DEF HeadsOf
    <2>4. InHandOf(t) # KeptBy(t) /\ OnFree # KeptBy(t)
      BY PlacesDiffer
    <2>5. \A p \in Page : own2[p] = KeptBy(t) <=> t \in Permanent /\ p \in kept[t]
      BY <2>1, <2>4, <1>3, <1>12 DEF HeadsOf
    <2>6. /\ len2[OnPush(t)] = len[OnPush(t)] /\ at2[OnPush(t)] = at[OnPush(t)]
          /\ len2[OnChain(t)] = len[OnChain(t)] /\ at2[OnChain(t)] = at[OnChain(t)]
      BY <1>13, <1>16
    <2>7. QED BY <2>1, <2>3, <2>5, <2>6, <1>11 DEF HeadsOf
  <1>19. FreeHead(len2, at2)'
    <2>1. newHead[t] = link[at[OnFree][1]]
      BY <1>1, <1>6 DEF SnapshotOK, PopCas, At
    <2>2. CASE n = 1
      <3>1. freeList'.head = Sentinel
        BY <2>1, <2>2, <1>4, <1>5 DEF FreeHead
      <3>2. len2[OnFree] = 0
        BY <2>2, <1>13
      <3>3. QED BY <3>1, <3>2 DEF FreeHead
    <2>3. CASE n > 1
      <3>1. 1 \in 1 .. len[OnFree] - 1
        BY <2>3, <1>4
      <3>2. link[at[OnFree][1]] = at[OnFree][1 + 1]
        BY <3>1, <1>1, <1>k DEF Shape, ListsOK
      <3>3. freeList'.head = at2[OnFree][1]
        BY <2>1, <3>2, <1>13
      <3>4. (n - 1) + 1 = n /\ n - 1 \in Int /\ n - 1 # 0
        BY <2>3
      <3>5. at2[OnFree][n - 1] = at[OnFree][n]
        BY <3>4, <1>13
      <3>6. QED BY <3>3, <3>4, <3>5, <1>4, <1>5, <1>6, <1>11, <1>13 DEF FreeHead
    <2>4. QED BY <2>2, <2>3, <1>6
  <1>20. \A p \in Page : own2[p] = Unmapped <=> p <= limit'
    <2>1. InHandOf(t) # Unmapped /\ OnFree # Unmapped
      BY PlacesDiffer
    <2>2. QED BY <2>1, <1>1, <1>3, <1>11, <1>12 DEF Shape, Heads
  <1>21. Heads(own2, len2, at2)'
    BY <1>17, <1>18, <1>19, <1>20 DEF Heads
  <1>22. Shape(own2, len2, at2)'
    BY <1>10, <1>11, <1>21 DEF Shape
  <1>23. QED BY <1>14, <1>22 DEF Effect

\* A successful push.
LEMMA ShapePush ==
    ASSUME NEW own, NEW len, NEW at, Inv0(own, len, at), NEW t \in Threads, PushCas(t),
           freeList = expected[t], freeList'.head = first[t], pc'[t] # "pushLink"
    PROVE  \E own2, len2, at2 : Shape(own2, len2, at2)' /\ Effect(own, own2)
  <1> USE TypeFacts
  <1>1. TypeOK /\ ControlOK(t) /\ SnapshotOK(t) /\ Step(t) /\ Control /\ Shape(own, len, at)
    BY DEF Inv0, Control, Step
  <1>k. OnFree \in ListKey /\ OnPush(t) \in ListKey /\ OnPush(t) # OnFree
    BY PlacesDiffer
  <1>2. PICK n \in Nat : n = len[OnPush(t)]
    BY <1>1, <1>k DEF Shape, Witness
  <1>3. PICK m \in Nat : m = len[OnFree]
    BY <1>1, <1>k DEF Shape, Witness
  <1>4. FreeHead(len, at) /\ HeadsOf(own, len, at, t)
    BY <1>1 DEF Shape, Heads
  <1>5. first[t] # None /\ pc[t] = "pushCas"
    BY <1>1 DEF PushCas, At, ControlOK, PushPc
  <1>6. n > 0 /\ first[t] = at[OnPush(t)][1] /\ last[t] = at[OnPush(t)][n]
    BY <1>2, <1>4, <1>5 DEF HeadsOf
  <1>7. link[at[OnPush(t)][n]] = IF m = 0 THEN Sentinel ELSE at[OnFree][1]
    BY <1>1, <1>3, <1>4, <1>5, <1>6 DEF SnapshotOK, FreeHead
  <1>8. PICK own2 : own2 = Renamed(own, OnPush(t), OnFree)
    OBVIOUS
  <1>9. PICK len2 : len2 = SetAt(SetAt(len, OnFree, len[OnPush(t)] + len[OnFree]), OnPush(t), 0)
    OBVIOUS
  <1>10. PICK at2 : at2 = SetAt(at, OnFree, Joined(at[OnPush(t)], len[OnPush(t)], at[OnFree]))
    OBVIOUS
  <1>11. Witness(own2, len2, at2) /\ ListsOK(own2, len2, at2, link)
    <2>1. /\ Witness(own, len, at) /\ ListsOK(own, len, at, link) /\ len[OnPush(t)] > 0
          /\ len[OnFree] > 0 => link[at[OnPush(t)][len[OnPush(t)]]] = at[OnFree][1]
      BY <1>1, <1>2, <1>3, <1>6, <1>7 DEF Shape
    <2>2. QED BY <2>1, <1>k, <1>8, <1>9, <1>10, Concat
  <1>12. /\ link' = link /\ limit' = limit /\ UNCHANGED <<page, curChunk, lastChunk, kept>>
         /\ first'[t] = None
    BY <1>1 DEF PushCas, client, TypeOK
  <1>13. \A p \in Page : own2[p] = IF own[p] = OnPush(t) THEN OnFree ELSE own[p]
    BY <1>8 DEF Renamed
  <1>14. /\ len2[OnFree] = n + m /\ len2[OnPush(t)] = 0
         /\ \A i \in Int : i <= n => at2[OnFree][i] = at[OnPush(t)][i]
         /\ \A i \in Int : i > n => at2[OnFree][i] = at[OnFree][i - n]
         /\ \A k \in ListKey : k # OnFree /\ k # OnPush(t) => len2[k] = len[k] /\ at2[k] = at[k]
    BY <1>1, <1>k, <1>2, <1>3, <1>9, <1>10 DEF Shape, Witness, SetAt, Joined
  <1>15. Gives(own, own2, t)
    <2>1. own[first[t]] = OnPush(t) /\ first[t] \in Page
      BY <1>1, <1>5, HeadFacts DEF TypeOK
    <2>2. QED BY <2>1, <1>12, <1>13 DEF Gives
  <1>16. MovedBy(own, own2, t)
    BY <1>13 DEF MovedBy, HeldPlaces
  <1>17. \A u \in Threads : /\ OnChain(u) \in ListKey /\ OnChain(u) # OnFree /\ OnChain(u) # OnPush(t)
                            /\ OnPush(u) \in ListKey /\ OnPush(u) # OnFree /\ (u # t => OnPush(u) # OnPush(t))
    BY PlacesDiffer
  <1>18. \A u \in Threads \ {t} : HeadsOf(own2, len2, at2, u)'
    <2>1. \A u \in Threads \ {t} : /\ len2[OnPush(u)] = len[OnPush(u)] /\ at2[OnPush(u)] = at[OnPush(u)]
                                    /\ len2[OnChain(u)] = len[OnChain(u)] /\ at2[OnChain(u)] = at[OnChain(u)]
      BY <1>14, <1>17
    <2>2. QED BY <2>1, <1>1, <1>16, OthersHeads
  <1>19. HeadsOf(own2, len2, at2, t)'
    <2>1. len2[OnChain(t)] = len[OnChain(t)] /\ at2[OnChain(t)] = at[OnChain(t)]
      BY <1>14, <1>17
    <2>2. \A p \in Page : own2[p] = InHandOf(t) <=> page[t] = p
      <3>1. InHandOf(t) # OnFree /\ InHandOf(t) # OnPush(t)
        BY PlacesDiffer
      <3>2. QED BY <3>1, <1>4, <1>13 DEF HeadsOf
    <2>3. \A p \in Page : own2[p] = KeptBy(t) <=> t \in Permanent /\ p \in kept[t]
      <3>1. KeptBy(t) # OnFree /\ KeptBy(t) # OnPush(t)
        BY PlacesDiffer
      <3>2. QED BY <3>1, <1>4, <1>13 DEF HeadsOf
    <2>4. QED BY <2>1, <2>2, <2>3, <1>4, <1>12, <1>14 DEF HeadsOf
  <1>20. FreeHead(len2, at2)'
    <2>1. 1 \in Int /\ 1 <= n /\ n + m # 0
      BY <1>6
    <2>2. freeList'.head = at2[OnFree][1]
      BY <2>1, <1>6, <1>14
    <2>3. link[at2[OnFree][n + m]] = Sentinel
      <3>1. CASE m = 0
        <4>1. n + m = n /\ n + m \in Int /\ n + m <= n
          BY <3>1
        <4>2. QED BY <4>1, <3>1, <1>7, <1>14
      <3>2. CASE m > 0
        <4>1. n + m > n /\ n + m \in Int /\ (n + m) - n = m
          BY <3>2
        <4>2. at2[OnFree][n + m] = at[OnFree][m]
          BY <4>1, <1>14
        <4>3. QED BY <4>2, <3>2, <1>3, <1>4 DEF FreeHead
      <3>3. QED BY <3>1, <3>2
    <2>4. QED BY <2>1, <2>2, <2>3, <1>12, <1>14 DEF FreeHead
  <1>21. \A p \in Page : own2[p] = Unmapped <=> p <= limit'
    <2>1. OnPush(t) # Unmapped /\ OnFree # Unmapped
      BY PlacesDiffer
    <2>2. QED BY <2>1, <1>1, <1>12, <1>13 DEF Shape, Heads
  <1>22. Heads(own2, len2, at2)'
    BY <1>18, <1>19, <1>20, <1>21 DEF Heads
  <1>23. Shape(own2, len2, at2)'
    BY <1>11, <1>12, <1>22 DEF Shape
  <1>24. QED BY <1>15, <1>23 DEF Effect

\* An arena puts the page it got in front of its chain.
LEMMA ShapeArena ==
    ASSUME NEW own, NEW len, NEW at, Inv0(own, len, at), NEW t \in Threads, GotArenaPage(t)
    PROVE  \E own2, len2, at2 : Shape(own2, len2, at2)' /\ Effect(own, own2)
  <1> USE TypeFacts
  <1>1. TypeOK /\ ControlOK(t) /\ Step(t) /\ Control /\ Shape(own, len, at) /\ t \in Arenas
    BY DEF Inv0, Control, Step, GotArenaPage
  <1>k. OnChain(t) \in ListKey /\ InHandOf(t) \notin ListKey
    BY PlacesDiffer
  <1>2. PICK n \in Nat : n = len[OnChain(t)]
    BY <1>1, <1>k DEF Shape, Witness
  <1>3. PICK q \in Page : q = page[t]
    BY <1>1 DEF GotArenaPage, At, ControlOK, TypeOK
  <1>4. HeadsOf(own, len, at, t)
    BY <1>1 DEF Shape, Heads
  <1>5. own[q] = InHandOf(t)
    BY <1>3, <1>4 DEF HeadsOf
  <1>6. PICK own2 : own2 = SetAt(own, q, OnChain(t))
    OBVIOUS
  <1>7. PICK len2 : len2 = SetAt(len, OnChain(t), len[OnChain(t)] + 1)
    OBVIOUS
  <1>8. PICK at2 : at2 = SetAt(at, OnChain(t), Cons(q, at[OnChain(t)]))
    OBVIOUS
  <1>9. /\ link' = [link EXCEPT ![q] = curChunk[t]] /\ curChunk'[t] = q /\ page'[t] = None
        /\ lastChunk'[t] = IF curChunk[t] = Sentinel THEN q ELSE lastChunk[t]
        /\ limit' = limit /\ UNCHANGED <<freeList, first, last, kept>>
    BY <1>1, <1>3 DEF GotArenaPage, TypeOK
  <1>10. link'[q] = curChunk[t] /\ \A p \in Page \ {q} : link'[p] = link[p]
    BY <1>1, <1>9 DEF TypeOK
  <1>11. IF curChunk[t] = Sentinel THEN n = 0
         ELSE n > 0 /\ curChunk[t] = at[OnChain(t)][1] /\ lastChunk[t] = at[OnChain(t)][n]
              /\ link[lastChunk[t]] = Sentinel
    BY <1>1, <1>2, <1>4 DEF HeadsOf
  <1>12. Witness(own2, len2, at2) /\ ListsOK(own2, len2, at2, link')
    <2>1. /\ Witness(own, len, at) /\ ListsOK(own, len, at, link) /\ own[q] \notin ListKey
          /\ len[OnChain(t)] > 0 => link'[q] = at[OnChain(t)][1]
      BY <1>1, <1>k, <1>2, <1>5, <1>10, <1>11 DEF Shape
    <2>2. QED BY <2>1, <1>k, <1>6, <1>7, <1>8, <1>10, PushFront
  <1>13. own2[q] = OnChain(t) /\ \A p \in Page \ {q} : own2[p] = own[p]
    BY <1>1, <1>6 DEF Shape, Witness, SetAt
  <1>14. /\ len2[OnChain(t)] = n + 1 /\ at2[OnChain(t)][1] = q
         /\ \A i \in Int : i # 1 => at2[OnChain(t)][i] = at[OnChain(t)][i - 1]
         /\ \A k \in ListKey \ {OnChain(t)} : len2[k] = len[k] /\ at2[k] = at[k]
    BY <1>1, <1>k, <1>2, <1>7, <1>8 DEF Shape, Witness, SetAt, Cons
  <1>15. Stays(own, own2, t)
    BY <1>5, <1>9, <1>13 DEF Stays, HeldPlaces
  <1>16. MovedBy(own, own2, t)
    BY <1>5, <1>13 DEF MovedBy, HeldPlaces
  <1>17. /\ OnFree \in ListKey \ {OnChain(t)}
         /\ \A u \in Threads : OnPush(u) \in ListKey \ {OnChain(t)}
         /\ \A u \in Threads \ {t} : OnChain(u) \in ListKey \ {OnChain(t)}
    BY PlacesDiffer
  <1>18. \A u \in Threads \ {t} : HeadsOf(own2, len2, at2, u)'
    BY <1>1, <1>14, <1>16, <1>17, OthersHeads
  <1>19. HeadsOf(own2, len2, at2, t)'
    <2>1. /\ len2[OnPush(t)] = len[OnPush(t)] /\ at2[OnPush(t)] = at[OnPush(t)]
          /\ first'[t] = first[t] /\ last'[t] = last[t] /\ page'[t] = None
      BY <1>9, <1>14, <1>17
    <2>2. \A p \in Page : own2[p] = InHandOf(t) <=> page'[t] = p
      BY <2>1, <1>k, <1>3, <1>4, <1>13 DEF HeadsOf
    <2>3. \A p \in Page : own2[p] = KeptBy(t) <=> t \in Permanent /\ p \in kept'[t]
      <3>1. KeptBy(t) # OnChain(t) /\ KeptBy(t) # InHandOf(t)
        BY PlacesDiffer
      <3>2. QED BY <3>1, <1>4, <1>5, <1>9, <1>13 DEF HeadsOf
    <2>4. lastChunk'[t] = at2[OnChain(t)][n + 1] /\ link'[lastChunk'[t]] = Sentinel
      <3>1. CASE curChunk[t] = Sentinel
        BY <3>1, <1>9, <1>10, <1>11, <1>14
      <3>2. CASE curChunk[t] # Sentinel
        <4>1. n + 1 \in Int /\ n + 1 # 1 /\ (n + 1) - 1 = n
          BY <3>2, <1>11
        <4>2. at2[OnChain(t)][n + 1] = at[OnChain(t)][n]
          BY <4>1, <1>14
        <4>3. lastChunk[t] \in Page /\ lastChunk[t] # q
          <5>1. own[lastChunk[t]] = OnChain(t) /\ lastChunk[t] \in Page
            BY <1>1, <3>2, HeadFacts DEF TypeOK
          <5>2. QED BY <5>1, <1>5, <1>k
        <4>4. QED BY <3>2, <4>2, <4>3, <1>9, <1>10, <1>11
      <3>3. QED BY <3>1, <3>2
    <2>5. n + 1 > 0 /\ curChunk'[t] = at2[OnChain(t)][1] /\ curChunk'[t] # Sentinel
      BY <1>9, <1>14
    <2>6. QED BY <2>1, <2>2, <2>3, <2>4, <2>5, <1>1, <1>4, <1>14 DEF HeadsOf
  <1>20. FreeHead(len2, at2)'
    BY <1>1, <1>9, <1>14, <1>17, FreeKeeps
  <1>21. \A p \in Page : own2[p] = Unmapped <=> p <= limit'
    <2>1. OnChain(t) # Unmapped /\ InHandOf(t) # Unmapped
      BY PlacesDiffer
    <2>2. QED BY <2>1, <1>1, <1>5, <1>9, <1>13 DEF Shape, Heads
  <1>22. Heads(own2, len2, at2)'
    BY <1>18, <1>19, <1>20, <1>21 DEF Heads
  <1>23. Shape(own2, len2, at2)'
    BY <1>12, <1>22 DEF Shape
  <1>24. QED BY <1>15, <1>23 DEF Effect

\* The permanent allocator keeps the page it got.
LEMMA ShapePermanent ==
    ASSUME NEW own, NEW len, NEW at, Inv0(own, len, at), NEW t \in Threads, GotPermanentPage(t)
    PROVE  \E own2, len2, at2 : Shape(own2, len2, at2)' /\ Effect(own, own2)
  <1> USE TypeFacts
  <1>1. TypeOK /\ ControlOK(t) /\ Step(t) /\ Control /\ Shape(own, len, at) /\ t \in Permanent
    BY DEF Inv0, Control, Step, GotPermanentPage
  <1>k. /\ KeptBy(t) \notin ListKey /\ InHandOf(t) \notin ListKey
        /\ KeptBy(t) \in Place /\ KeptBy(t) # InHandOf(t)
    BY PlacesDiffer
  <1>2. PICK q \in Page : q = page[t]
    BY <1>1 DEF GotPermanentPage, At, ControlOK, TypeOK
  <1>3. HeadsOf(own, len, at, t)
    BY <1>1 DEF Shape, Heads
  <1>4. own[q] = InHandOf(t)
    BY <1>2, <1>3 DEF HeadsOf
  <1>5. PICK own2 : own2 = SetAt(own, q, KeptBy(t))
    OBVIOUS
  <1>6. /\ link' = [link EXCEPT ![q] = None] /\ page'[t] = None /\ kept'[t] = kept[t] \cup {q}
        /\ limit' = limit /\ UNCHANGED <<freeList, first, last>>
    BY <1>1, <1>2 DEF GotPermanentPage, TypeOK
  <1>7. own2[q] = KeptBy(t) /\ \A p \in Page \ {q} : own2[p] = own[p]
    BY <1>1, <1>5 DEF Shape, Witness, SetAt
  <1>8. Witness(own2, len, at) /\ ListsOK(own2, len, at, link')
    <2>1. Witness(own, len, at) /\ ListsOK(own, len, at, link) /\ own2 \in [Page -> Place]
      BY <1>1, <1>k, <1>5 DEF Shape, Witness, SetAt
    <2>2. \A p \in Page : own[p] \in ListKey \/ own2[p] \in ListKey => own2[p] = own[p]
      BY <1>k, <1>4, <1>7
    <2>3. \A p \in Page : own[p] \in ListKey => link'[p] = link[p]
      BY <1>1, <1>k, <1>4, <1>6 DEF TypeOK
    <2>4. QED BY <2>1, <2>2, <2>3, KeepLists
  <1>9. Stays(own, own2, t)
    BY <1>4, <1>6, <1>7 DEF Stays, HeldPlaces
  <1>10. MovedBy(own, own2, t)
    BY <1>4, <1>7 DEF MovedBy, HeldPlaces
  <1>11. \A u \in Threads \ {t} : HeadsOf(own2, len, at, u)'
    BY <1>1, <1>10, OthersHeads
  <1>12. HeadsOf(own2, len, at, t)'
    <2>1. first'[t] = first[t] /\ last'[t] = last[t]
      BY <1>6
    <2>2. \A p \in Page : own2[p] = InHandOf(t) <=> page'[t] = p
      BY <1>k, <1>2, <1>3, <1>6, <1>7 DEF HeadsOf
    <2>3. \A p \in Page : own2[p] = KeptBy(t) <=> t \in Permanent /\ p \in kept'[t]
      BY <1>1, <1>k, <1>3, <1>4, <1>6, <1>7 DEF HeadsOf
    <2>4. QED BY <2>1, <2>2, <2>3, <1>1, <1>3 DEF HeadsOf
  <1>13. FreeHead(len, at)'
    BY <1>1, <1>6, FreeKeeps
  <1>14. \A p \in Page : own2[p] = Unmapped <=> p <= limit'
    <2>1. KeptBy(t) # Unmapped /\ InHandOf(t) # Unmapped
      BY PlacesDiffer
    <2>2. QED BY <2>1, <1>1, <1>4, <1>6, <1>7 DEF Shape, Heads
  <1>15. Heads(own2, len, at)'
    BY <1>11, <1>12, <1>13, <1>14 DEF Heads
  <1>16. Shape(own2, len, at)'
    BY <1>8, <1>15 DEF Shape
  <1>17. QED BY <1>9, <1>16 DEF Effect

\* The chain of an arena becomes the chain that is pushed.
LEMMA ShapeReturn ==
    ASSUME NEW own, NEW len, NEW at, Inv0(own, len, at), NEW t \in Threads, ReturnMemory(t)
    PROVE  \E own2, len2, at2 : Shape(own2, len2, at2)' /\ Effect(own, own2)
  <1> USE TypeFacts
  <1>1. TypeOK /\ ControlOK(t) /\ Step(t) /\ Control /\ Shape(own, len, at) /\ t \in Arenas
    BY DEF Inv0, Control, Step, ReturnMemory
  <1>k. OnChain(t) \in ListKey /\ OnPush(t) \in ListKey /\ OnChain(t) # OnPush(t)
    BY PlacesDiffer
  <1>2. PICK n \in Nat : n = len[OnChain(t)]
    BY <1>1, <1>k DEF Shape, Witness
  <1>3. HeadsOf(own, len, at, t)
    BY <1>1 DEF Shape, Heads
  <1>4. len[OnPush(t)] = 0
    BY <1>1, <1>3 DEF HeadsOf, ReturnMemory, At, ControlOK, PushPc
  <1>5. n > 0 /\ curChunk[t] = at[OnChain(t)][1] /\ lastChunk[t] = at[OnChain(t)][n]
    BY <1>1, <1>2, <1>3 DEF HeadsOf, ReturnMemory
  <1>6. PICK own2 : own2 = Renamed(own, OnChain(t), OnPush(t))
    OBVIOUS
  <1>7. PICK len2 : len2 = SetAt(SetAt(len, OnPush(t), len[OnChain(t)] + len[OnPush(t)]), OnChain(t), 0)
    OBVIOUS
  <1>8. PICK at2 : at2 = SetAt(at, OnPush(t), Joined(at[OnChain(t)], len[OnChain(t)], at[OnPush(t)]))
    OBVIOUS
  <1>9. Witness(own2, len2, at2) /\ ListsOK(own2, len2, at2, link)
    <2>1. /\ Witness(own, len, at) /\ ListsOK(own, len, at, link) /\ len[OnChain(t)] > 0
          /\ len[OnPush(t)] > 0 => link[at[OnChain(t)][len[OnChain(t)]]] = at[OnPush(t)][1]
      BY <1>1, <1>2, <1>4, <1>5 DEF Shape
    <2>2. QED BY <2>1, <1>k, <1>6, <1>7, <1>8, Concat
  <1>10. /\ link' = link /\ limit' = limit /\ freeList' = freeList /\ UNCHANGED <<page, kept>>
        /\ first'[t] = curChunk[t] /\ last'[t] = lastChunk[t] /\ curChunk'[t] = Sentinel
    BY <1>1 DEF ReturnMemory, shared, TypeOK
  <1>11. \A p \in Page : own2[p] = IF own[p] = OnChain(t) THEN OnPush(t) ELSE own[p]
    BY <1>6 DEF Renamed
  <1>12. /\ len2[OnPush(t)] = n /\ len2[OnChain(t)] = 0
         /\ \A i \in Int : i <= n => at2[OnPush(t)][i] = at[OnChain(t)][i]
         /\ \A k \in ListKey : k # OnPush(t) /\ k # OnChain(t) => len2[k] = len[k] /\ at2[k] = at[k]
    BY <1>1, <1>k, <1>2, <1>4, <1>7, <1>8 DEF Shape, Witness, SetAt, Joined
  <1>13. Stays(own, own2, t)
    BY <1>10, <1>11 DEF Stays, HeldPlaces
  <1>14. MovedBy(own, own2, t)
    BY <1>11 DEF MovedBy, HeldPlaces
  <1>15. /\ OnFree \in ListKey /\ OnFree # OnPush(t) /\ OnFree # OnChain(t)
         /\ \A u \in Threads \ {t} : /\ OnChain(u) \in ListKey /\ OnChain(u) # OnChain(t) /\ OnChain(u) # OnPush(t)
                                     /\ OnPush(u) \in ListKey /\ OnPush(u) # OnPush(t) /\ OnPush(u) # OnChain(t)
    BY PlacesDiffer
  <1>16. \A u \in Threads \ {t} : HeadsOf(own2, len2, at2, u)'
    <2>1. \A u \in Threads \ {t} : /\ len2[OnPush(u)] = len[OnPush(u)] /\ at2[OnPush(u)] = at[OnPush(u)]
                                    /\ len2[OnChain(u)] = len[OnChain(u)] /\ at2[OnChain(u)] = at[OnChain(u)]
      BY <1>12, <1>15
    <2>2. QED BY <2>1, <1>1, <1>14, OthersHeads
  <1>17. HeadsOf(own2, len2, at2, t)'
    <2>1. 1 \in Int /\ 1 <= n /\ n \in Int /\ n <= n
      BY <1>5
    <2>2. first'[t] = at2[OnPush(t)][1] /\ last'[t] = at2[OnPush(t)][n] /\ first'[t] # None
      <3>1. curChunk[t] # None
        BY <1>1 DEF TypeOK, Head
      <3>2. QED BY <3>1, <2>1, <1>5, <1>10, <1>12
    <2>3. \A p \in Page : own2[p] = InHandOf(t) <=> page'[t] = p
      <3>1. InHandOf(t) # OnChain(t) /\ InHandOf(t) # OnPush(t)
        BY PlacesDiffer
      <3>2. QED BY <3>1, <1>3, <1>10, <1>11 DEF HeadsOf
    <2>4. \A p \in Page : own2[p] = KeptBy(t) <=> t \in Permanent /\ p \in kept'[t]
      <3>1. KeptBy(t) # OnChain(t) /\ KeptBy(t) # OnPush(t)
        BY PlacesDiffer
      <3>2. QED BY <3>1, <1>3, <1>10, <1>11 DEF HeadsOf
    <2>5. QED BY <2>2, <2>3, <2>4, <1>5, <1>10, <1>12 DEF HeadsOf
  <1>18. FreeHead(len2, at2)'
    <2>1. freeList'.head = freeList.head /\ len2[OnFree] = len[OnFree] /\ at2[OnFree] = at[OnFree]
      BY <1>10, <1>12, <1>15
    <2>2. QED BY <2>1, <1>1, FreeKeeps
  <1>19. \A p \in Page : own2[p] = Unmapped <=> p <= limit'
    <2>1. OnChain(t) # Unmapped /\ OnPush(t) # Unmapped
      BY PlacesDiffer
    <2>2. QED BY <2>1, <1>1, <1>10, <1>11 DEF Shape, Heads
  <1>20. Heads(own2, len2, at2)'
    BY <1>16, <1>17, <1>18, <1>19 DEF Heads
  <1>21. Shape(own2, len2, at2)'
    BY <1>9, <1>10, <1>20 DEF Shape
  <1>22. QED BY <1>13, <1>21 DEF Effect

\* The region grows: its lowest new page is handed out, the others are linked.
LEMMA ShapeGrow ==
    ASSUME NEW own, NEW len, NEW at, Inv0(own, len, at), NEW t \in Threads, Grow(t)
    PROVE  \E own2, len2, at2 : Shape(own2, len2, at2)' /\ Effect(own, own2)
  <1> USE TypeFacts
  <1>1. TypeOK /\ ControlOK(t) /\ Step(t) /\ Control /\ Shape(own, len, at)
    BY DEF Inv0, Control, Step
  <1>k. /\ OnPush(t) \in ListKey /\ InHandOf(t) \notin ListKey /\ InHandOf(t) \in Place
        /\ Unmapped \notin ListKey /\ OnPush(t) \in Place /\ OnPush(t) # Unmapped /\ InHandOf(t) # Unmapped
    BY PlacesDiffer
  <1>2. PICK n \in Nat : n = LengthToAllocate /\ n > 0
    BY <1>1, GrowFacts
  <1>3. PICK b \in Int : b = limit - n
    BY <1>1, <1>2 DEF TypeOK
  <1>4. /\ limit \in Int /\ limit < 0 /\ RegionSize \in Nat /\ b > -RegionSize
        /\ limit = b + n /\ limit' = b
    BY <1>1, <1>2, <1>3, SpdsAssumption DEF TypeOK, Grow, Fits
  <1>5. /\ page' = [page EXCEPT ![t] = b + 1]
        /\ link' = [p \in Page |-> IF p \in b + 2 .. limit - 1 THEN p + 1 ELSE link[p]]
    BY <1>2, <1>3 DEF Grow
  <1>6. HeadsOf(own, len, at, t)
    BY <1>1 DEF Shape, Heads
  <1>7. first[t] = None /\ page[t] = None /\ len[OnPush(t)] = 0
    BY <1>1, <1>6 DEF Grow, At, ControlOK, PushPc, HeadsOf
  <1>8. \A p \in Page : own[p] = Unmapped <=> p <= limit
    BY <1>1 DEF Shape, Heads
  <1>9. b + 1 \in Page /\ b + 1 <= limit /\ b + 1 .. limit \subseteq Page
    BY <1>2, <1>4 DEF Page
  <1>10. PICK own2 : own2 = [p \in Page |-> IF p = b + 1 THEN InHandOf(t)
                                            ELSE IF p \in b + 2 .. limit THEN OnPush(t) ELSE own[p]]
    OBVIOUS
  <1>11. own2 \in [Page -> Place]
    BY <1>1, <1>k, <1>10 DEF Shape, Witness
  <1>12. /\ own2[b + 1] = InHandOf(t)
         /\ \A p \in b + 2 .. limit : p \in Page /\ own2[p] = OnPush(t) /\ own[p] = Unmapped
         /\ \A p \in Page : p # b + 1 /\ p \notin b + 2 .. limit => own2[p] = own[p]
    <2>1. \A p \in b + 2 .. limit : p \in Page /\ p # b + 1 /\ p <= limit
      BY <1>4 DEF Page
    <2>2. QED BY <2>1, <1>8, <1>9, <1>10
  <1>13. own[b + 1] = Unmapped
    BY <1>8, <1>9
  <1>14. \A p \in Page : own2[p] = Unmapped <=> p <= b
    <2>1. \A p \in Page : p <= limit /\ p > b => p = b + 1 \/ p \in b + 2 .. limit
      BY <1>4 DEF Page
    <2>2. \A p \in Page : p <= b => p # b + 1 /\ p \notin b + 2 .. limit /\ p <= limit
      BY <1>4 DEF Page
    <2>3. \A p \in Page : p > b \/ p <= b
      BY DEF Page
    <2>4. ASSUME NEW p \in Page, p <= b PROVE own2[p] = Unmapped
      BY <2>2, <2>4, <1>8, <1>12
    <2>5. ASSUME NEW p \in Page, p > b PROVE own2[p] # Unmapped
      BY <2>1, <2>5, <1>k, <1>8, <1>12
    <2>6. ASSUME NEW p \in Page, own2[p] = Unmapped PROVE p <= b
      BY <2>3, <2>5, <2>6
    <2>7. QED BY <2>4, <2>6
  <1>15. Maps(own, own2, t)
    <2>1. limit' < limit
      BY <1>2, <1>4
    <2>2. \A p \in Page : p <= limit /\ p > b => p = b + 1 \/ p \in b + 2 .. limit
      BY <1>4 DEF Page
    <2>3. \A p \in Page : p = b + 1 \/ p \in b + 2 .. limit => p <= limit /\ p > b
      BY <1>4, <1>9 DEF Page
    <2>4. QED BY <2>1, <2>2, <2>3, <1>4, <1>12 DEF Maps, HeldPlaces
  <1>16. MovedBy(own, own2, t)
    BY <1>12, <1>13 DEF MovedBy, HeldPlaces
  <1>17. \A p \in Page : own[p] \in ListKey => link'[p] = link[p]
    <2>1. \A p \in b + 2 .. limit - 1 : p \in b + 2 .. limit
      BY <1>4
    <2>2. QED BY <2>1, <1>k, <1>5, <1>12
  <1>18. \A p \in Page : own2[p] = InHandOf(t) <=> p = b + 1
    <2>1. \A p \in Page : own[p] # InHandOf(t)
      BY <1>6, <1>7 DEF HeadsOf
    <2>2. OnPush(t) # InHandOf(t)
      BY PlacesDiffer
    <2>3. QED BY <2>1, <2>2, <1>10, <1>12
  <1>19. \A p \in Page : own2[p] = KeptBy(t) <=> own[p] = KeptBy(t)
    <2>1. KeptBy(t) # OnPush(t) /\ KeptBy(t) # InHandOf(t) /\ KeptBy(t) # Unmapped
      BY PlacesDiffer
    <2>2. QED BY <2>1, <1>10, <1>12, <1>13
  <1>20. \A u \in Threads : /\ OnChain(u) \in ListKey \ {OnPush(t)} /\ OnFree \in ListKey \ {OnPush(t)}
                            /\ u # t => OnPush(u) \in ListKey \ {OnPush(t)}
    BY PlacesDiffer
  <1>21. t \in Arenas /\ curChunk[t] # Sentinel => link'[lastChunk[t]] = link[lastChunk[t]]
    <2>1. SUFFICES ASSUME t \in Arenas, curChunk[t] # Sentinel PROVE link'[lastChunk[t]] = link[lastChunk[t]]
      OBVIOUS
    <2>2. own[lastChunk[t]] = OnChain(t) /\ lastChunk[t] \in Page
      BY <1>1, <2>1, HeadFacts DEF TypeOK
    <2>3. QED BY <2>2, <1>17, <1>20
  <1>22. freeList' = freeList /\ UNCHANGED <<curChunk, lastChunk, kept>>
    BY DEF Grow, client
  <1>23. ASSUME NEW len2, NEW at2,
                \A k \in ListKey \ {OnPush(t)} : len2[k] = len[k] /\ at2[k] = at[k],
                Witness(own2, len2, at2), ListsOK(own2, len2, at2, link'),
                IF first'[t] = None THEN len2[OnPush(t)] = 0
                ELSE /\ len2[OnPush(t)] > 0 /\ first'[t] = at2[OnPush(t)][1]
                     /\ last'[t] = at2[OnPush(t)][len2[OnPush(t)]]
         PROVE  \E o2, l2, a2 : Shape(o2, l2, a2)' /\ Effect(own, o2)
    <2>1. \A u \in Threads \ {t} : HeadsOf(own2, len2, at2, u)'
      BY <1>1, <1>16, <1>20, <1>23, OthersHeads
    <2>2. FreeHead(len2, at2)'
      BY <1>1, <1>20, <1>22, <1>23, FreeKeeps
    <2>3. \A p \in Page : own2[p] = InHandOf(t) <=> page'[t] = p
      BY <1>1, <1>5, <1>18 DEF TypeOK
    <2>4. \A p \in Page : own2[p] = KeptBy(t) <=> t \in Permanent /\ p \in kept'[t]
      BY <1>6, <1>19, <1>22 DEF HeadsOf
    <2>5. len2[OnChain(t)] = len[OnChain(t)] /\ at2[OnChain(t)] = at[OnChain(t)]
      BY <1>20, <1>23
    <2>6. HeadsOf(own2, len2, at2, t)'
      BY <2>3, <2>4, <2>5, <1>6, <1>21, <1>22, <1>23 DEF HeadsOf
    <2>7. Heads(own2, len2, at2)'
      BY <2>1, <2>2, <2>6, <1>4, <1>14 DEF Heads
    <2>8. Shape(own2, len2, at2)'
      BY <2>7, <1>23 DEF Shape
    <2>9. QED BY <2>8, <1>15 DEF Effect
  <1>24. CASE n = 1
    <2>1. first'[t] = None
      BY <1>2, <1>7, <1>24 DEF Grow
    <2>2. b + 2 .. limit = {}
      BY <1>4, <1>24
    <2>3. \A p \in Page : own[p] \in ListKey \/ own2[p] \in ListKey => own2[p] = own[p]
      BY <2>2, <1>k, <1>12, <1>13
    <2>4. Witness(own, len, at) /\ ListsOK(own, len, at, link)
      BY <1>1 DEF Shape
    <2>5. Witness(own2, len, at) /\ ListsOK(own2, len, at, link')
      BY <2>3, <2>4, <1>11, <1>17, KeepLists
    <2>6. QED BY <2>1, <2>5, <1>7, <1>23
  <1>25. CASE n > 1
    <2>1. first'[t] = b + 2 /\ last'[t] = limit
      BY <1>1, <1>2, <1>3, <1>25 DEF Grow, TypeOK
    <2>2. PICK a \in Int : a = b + 1
      OBVIOUS
    <2>3. PICK m \in Nat : m = n - 1 /\ m > 0
      BY <1>25
    <2>4. a + 1 = b + 2 /\ a + m = limit
      BY <2>2, <2>3, <1>4
    <2>5. PICK len2 : len2 = SetAt(len, OnPush(t), m)
      OBVIOUS
    <2>6. PICK at2 : at2 = SetAt(at, OnPush(t), Numbered(a, m))
      OBVIOUS
    <2>7. Witness(own2, len2, at2) /\ ListsOK(own2, len2, at2, link')
      <3>1. PICK S \in SUBSET Page : S = a + 1 .. a + m
        BY <2>4, <1>12
      <3>2. Witness(own, len, at) /\ ListsOK(own, len, at, link)
        BY <1>1 DEF Shape
      <3>3. \A p \in S : own2[p] = OnPush(t) /\ own[p] \notin ListKey
        BY <3>1, <2>4, <1>k, <1>12
      <3>4. \A p \in Page \ S : own[p] \in ListKey \/ own2[p] \in ListKey => own2[p] = own[p]
        BY <3>1, <2>4, <1>k, <1>12, <1>13
      <3>5. \A p \in S : p # a + m => link'[p] = p + 1
        <4>1. \A p \in S : p # limit => p \in Page /\ p \in b + 2 .. limit - 1
          BY <3>1, <2>4, <1>4
        <4>2. QED BY <4>1, <2>4, <1>5
      <3>6. Fresh(own, len, at, link, OnPush(t), a, m, S, own2, link')
        BY <3>1, <3>2, <3>3, <3>4, <3>5, <2>3, <1>k, <1>7, <1>11, <1>17 DEF Fresh
      <3>7. QED BY <3>6, <2>5, <2>6, NewList
    <2>8. \A k \in ListKey \ {OnPush(t)} : len2[k] = len[k] /\ at2[k] = at[k]
      BY <2>5, <2>6, <1>1 DEF Shape, Witness, SetAt
    <2>9. len2[OnPush(t)] = m /\ \A i \in 1 .. m : at2[OnPush(t)][i] = a + i
      BY <2>3, <2>5, <2>6, <1>1, <1>k DEF Shape, Witness, SetAt, Numbered
    <2>10. 1 \in 1 .. m /\ m \in 1 .. m
      BY <2>3
    <2>11. first'[t] = at2[OnPush(t)][1] /\ last'[t] = at2[OnPush(t)][m]
      BY <2>1, <2>4, <2>9, <2>10
    <2>12. first'[t] # None
      BY <2>1, SpdsAssumption
    <2>13. QED BY <2>3, <2>7, <2>8, <2>9, <2>11, <2>12, <1>23
  <1>26. QED BY <1>2, <1>24, <1>25

-----------------------------------------------------------------------------
\* Every step keeps the invariant.

\* The link that a successful pop installs is the second page of the free list:
\* the snapshot still equals the free list, so it is as old as the list itself.
LEMMA PopHead ==
    ASSUME NEW own, NEW len, NEW at, Inv0(own, len, at), NEW t \in Threads
    PROVE  NewHeadOK(t)
  <1> USE TypeFacts
  <1>1. TypeOK /\ ControlOK(t) /\ SnapshotOK(t) /\ Shape(own, len, at)
    BY DEF Inv0, Control
  <1>2. SUFFICES ASSUME pc[t] = "popCas", expected[t] = freeList PROVE newHead[t] \in Head
    BY DEF NewHeadOK
  <1>3. OnFree \in ListKey /\ FreeHead(len, at)
    BY <1>1, PlacesDiffer DEF Shape, Heads
  <1>4. PICK n \in Nat : n = len[OnFree]
    BY <1>1, <1>3 DEF Shape, Witness
  <1>5. freeList.head # Sentinel
    BY <1>1, <1>2 DEF ControlOK
  <1>6. n > 0 /\ freeList.head = at[OnFree][1]
    BY <1>3, <1>4, <1>5 DEF FreeHead
  <1>7. newHead[t] = link[at[OnFree][1]]
    BY <1>1, <1>2, <1>6 DEF SnapshotOK
  <1>8. CASE n = 1
    BY <1>3, <1>4, <1>7, <1>8 DEF FreeHead, Head
  <1>9. CASE n > 1
    <2>1. 1 \in 1 .. len[OnFree] - 1
      BY <1>4, <1>9
    <2>2. link[at[OnFree][1]] = at[OnFree][1 + 1]
      BY <2>1, <1>1, <1>3 DEF Shape, ListsOK
    <2>3. at[OnFree][1 + 1] \in Page
      BY <1>1, <1>3 DEF Shape, Witness
    <2>4. QED BY <1>7, <2>2, <2>3 DEF Head
  <1>10. QED BY <1>6, <1>8, <1>9

\* Every step has a witness of the new lists.
LEMMA ShapeStep ==
    ASSUME NEW own, NEW len, NEW at, Inv0(own, len, at), NEW t \in Threads, Step(t)
    PROVE  \E own2, len2, at2 : Shape(own2, len2, at2)' /\ Effect(own, own2)
  <1>1. TypeOK /\ ControlOK(t) /\ Control /\ Shape(own, len, at)
    BY DEF Inv0, Control
  <1>2. Stays(own, own, t) => Effect(own, own)
    BY DEF Effect
  <1>3. CASE /\ freeList'.head = freeList.head
             /\ UNCHANGED <<limit, link, first, last, page, curChunk, lastChunk, kept>>
    <2>1. Shape(own, len, at)'
      BY <1>1, <1>3, ShapeSame
    <2>2. Stays(own, own, t)
      BY <1>3 DEF Stays
    <2>3. QED BY <2>1, <2>2, <1>2
  <1>4. CASE \/ AllocBegin(t) \/ PopRetry(t) \/ PopEmpty(t) \/ PopNext(t) \/ TryLock(t)
             \/ TryLockFail(t) \/ BlinkLock(t) \/ BlinkUnlock(t) \/ GrowFails(t) \/ Unlock(t)
    <2>1. freeList' = freeList /\ UNCHANGED <<limit, link, first, last, page, curChunk, lastChunk, kept>>
      BY <1>4 DEF AllocBegin, PopRetry, PopEmpty, PopNext, TryLock, TryLockFail, BlinkLock, BlinkUnlock,
         GrowFails, Unlock, shared, client
    <2>2. QED BY <2>1, <1>3
  <1>5. CASE PopCas(t)
    <2>1. CASE freeList' = freeList /\ pc'[t] = "popNext"
      <3>1. page[t] = None
        BY <1>1, <1>5 DEF PopCas, At, ControlOK, PushPc
      <3>2. page' = page
        BY <1>1, <1>5, <2>1, <3>1 DEF PopCas, TypeOK
      <3>3. QED BY <2>1, <3>2, <1>3, <1>5 DEF PopCas, client
    <2>2. CASE freeList = expected[t] /\ freeList'.head = newHead[t] /\ pc'[t] = "gotPage"
      BY <2>2, <1>5, ShapePop
    <2>3. QED BY <2>1, <2>2, <1>1, <1>5 DEF PopCas, Cas, Goto, TypeOK
  <1>6. CASE PushCas(t)
    <2>1. CASE freeList' = freeList /\ pc'[t] = "pushLink"
      BY <2>1, <1>3, <1>6 DEF PushCas, client
    <2>2. CASE freeList = expected[t] /\ freeList'.head = first[t] /\ pc'[t] # "pushLink"
      BY <2>2, <1>6, ShapePush
    <2>3. QED BY <2>1, <2>2, <1>1, <1>6 DEF PushCas, Cas, Goto, TypeOK
  <1>7. CASE PushLink(t)
    BY <1>1, <1>7, ShapePushLink
  <1>8. CASE Grow(t)
    BY <1>8, ShapeGrow
  <1>9. CASE GotArenaPage(t)
    BY <1>9, ShapeArena
  <1>10. CASE GotPermanentPage(t)
    BY <1>10, ShapePermanent
  <1>11. CASE ReturnMemory(t)
    BY <1>11, ShapeReturn
  <1>12. QED BY <1>4, <1>5, <1>6, <1>7, <1>8, <1>9, <1>10, <1>11 DEF Step

\* Every step preserves the invariant and moves pages as Effect says.
LEMMA InvStep ==
    ASSUME NEW own, NEW len, NEW at, Inv0(own, len, at), NEW t \in Threads, Step(t)
    PROVE  \E own2, len2, at2 : Inv0(own2, len2, at2)' /\ Effect(own, own2)
  <1>1. TypeOK /\ SnapshotOK(t) /\ Control /\ Shape(own, len, at) /\ TagsOK
    BY DEF Inv0, Control
  <1>2. NewHeadOK(t)
    BY PopHead
  <1>3. TypeOK'
    BY <1>1, <1>2, TypeStep
  <1>4. \A u \in Threads : ControlOK(u)'
    <2>1. \A u \in Threads : curChunk[u] # Sentinel /\ u \in Arenas => lastChunk[u] # None
      BY <1>1, HeadFacts
    <2>2. QED BY <2>1, <1>1, ControlStep
  <1>5. TagsOK'
    BY <1>1, TagStep DEF SnapshotOK
  <1>6. \A u \in Threads : SnapshotOK(u)'
    BY <1>3, SnapshotStep
  <1>7. PICK own2, len2, at2 : Shape(own2, len2, at2)' /\ Effect(own, own2)
    BY ShapeStep
  <1>8. Inv0(own2, len2, at2)'
    BY <1>3, <1>4, <1>5, <1>6, <1>7 DEF Inv0, Control
  <1>9. QED BY <1>7, <1>8

Inv == \E own, len, at : Inv0(own, len, at)

\* Initially no page is mapped and all lists are empty.
LEMMA InvInit == Init => Inv
  <1> USE TypeFacts
  <1> SUFFICES ASSUME Init PROVE Inv
    OBVIOUS
  <1>1. TypeOK
    <2>1. limit \in Int /\ limit < 0 /\ limit > -RegionSize
      BY SpdsAssumption DEF Init
    <2>2. freeList \in Snapshot /\ ops \in Nat /\ ops <= MaxOps
      BY SpdsAssumption DEF Init
    <2>3. QED BY <2>1, <2>2 DEF Init, TypeOK, Label, Head
  <1>2. \A t \in Threads : ControlOK(t)
    BY DEF Init, ControlOK, PushPc, LockPc
  <1>3. TagsOK
    <2>1. Pending = {}
      BY DEF Init, Pending
    <2>2. QED BY <2>1, FS_EmptySet DEF TagsOK, Init, NoSnapshot
  <1>4. \A t \in Threads : SnapshotOK(t)
    BY DEF Init, SnapshotOK, NoSnapshot
  <1>5. PICK q \in Page : TRUE
    <2>1. -1 \in Page
      BY SpdsAssumption DEF Page
    <2>2. QED BY <2>1
  <1>6. PICK own : own = [p \in Page |-> Unmapped]
    OBVIOUS
  <1>7. PICK len : len = [k \in ListKey |-> 0]
    OBVIOUS
  <1>8. PICK at : at = [k \in ListKey |-> [i \in Int |-> q]]
    OBVIOUS
  <1>9. Witness(own, len, at)
    BY <1>5, <1>6, <1>7, <1>8, PlacesDiffer DEF Witness
  <1>10. ListsOK(own, len, at, link)
    BY <1>6, <1>7, PlacesDiffer DEF ListsOK
  <1>11. \A p \in Page : own[p] = Unmapped <=> p <= limit
    BY <1>6 DEF Init, Page
  <1>12. FreeHead(len, at)
    BY <1>7, PlacesDiffer DEF FreeHead, Init, NoSnapshot
  <1>13. \A t \in Threads : HeadsOf(own, len, at, t)
    BY <1>6, <1>7, PlacesDiffer DEF HeadsOf, Init
  <1>14. Shape(own, len, at)
    BY <1>9, <1>10, <1>11, <1>12, <1>13 DEF Shape, Heads
  <1>15. QED BY <1>1, <1>2, <1>3, <1>4, <1>14 DEF Inv, Inv0, Control

\* The invariant depends on the variables only.
LEMMA InvSame ==
    ASSUME NEW own, NEW len, NEW at, Inv0(own, len, at), UNCHANGED vars
    PROVE  Inv0(own, len, at)'
  BY DEF Inv0, vars, Control, TypeOK, ControlOK, TagsOK, Pending, SnapshotOK, Shape, Heads, HeadsOf, FreeHead

\* The invariant is inductive.
LEMMA InvNext == Inv /\ [Next]_vars => Inv'
  <1> SUFFICES ASSUME Inv, [Next]_vars PROVE Inv'
    OBVIOUS
  <1>1. PICK own, len, at : Inv0(own, len, at)
    BY DEF Inv
  <1>2. CASE UNCHANGED vars
    <2>1. Inv0(own, len, at)'
      BY <1>1, <1>2, InvSame
    <2>2. QED BY <2>1 DEF Inv
  <1>3. CASE \E t \in Threads : Step(t)
    <2>1. PICK t \in Threads : Step(t)
      BY <1>3
    <2>2. PICK own2, len2, at2 : Inv0(own2, len2, at2)'
      BY <1>1, <2>1, InvStep
    <2>3. QED BY <2>2 DEF Inv
  <1>4. QED BY <1>2, <1>3 DEF Next, Stopped

\* The inductive invariant.
THEOREM PageInvariant == Spec => []Inv
  BY InvInit, InvNext, PTL DEF Spec

\* The region is grown under the mutex only, and never up to the excluded address.
THEOREM GrowthIsExclusive == Spec => []GrowExclusive
  <1>1. Inv => GrowExclusive
    BY DEF Inv, Inv0, Control, TypeOK, ControlOK, LockPc, GrowExclusive
  <1>2. QED BY <1>1, PageInvariant, PTL

-----------------------------------------------------------------------------
\* The walks in the statement of the properties find exactly the lists.

\* The order of the naturals as a relation.
LEMMA NatOrder == \E R : IsWellFoundedOn(R, Nat) /\ \A x, y \in Nat : <<x, y>> \in R <=> x < y
  <1>1. IsWellFoundedOn(OpToRel(<, Nat), Nat)
    BY NatLessThanWellFounded
  <1>2. \A x, y \in Nat : <<x, y>> \in OpToRel(<, Nat) <=> x < y
    BY DEF OpToRel
  <1>3. QED BY <1>1, <1>2, Zenon

\* Every nonempty set of naturals has a least element.
LEMMA LeastNat ==
    ASSUME NEW T \in SUBSET Nat, T /= {}
    PROVE  \E m \in T : \A k \in T : m <= k
  <1>1. PICK R : IsWellFoundedOn(R, Nat) /\ \A x, y \in Nat : <<x, y>> \in R <=> x < y
    BY NatOrder
  <1>2. T \subseteq Nat
    OBVIOUS
  <1>3. \E x \in T : \A y \in T : ~(<<y, x>> \in R)
    <2>1. IsWellFoundedOn(R, Nat)
      BY <1>1
    <2>2. QED BY <2>1, <1>2, WFMin
  <1>4. PICK m \in T : \A y \in T : ~(<<y, m>> \in R)
    BY <1>3
  <1>5. \A y \in T : ~(y < m)
    BY <1>1, <1>2, <1>4, Zenon
  <1>6. QED BY <1>5

PathStep(f, a, z) ==
    [i \in 0 .. -limit |->
       IF i = 0 THEN IF a \in Page THEN {a} ELSE {}
       ELSE f[i - 1] \cup ({link[p] : p \in f[i - 1] \ {z}} \cap Page)]

\* The function that Follow defines, if there is one.
LEMMA FollowUnfolds ==
    ASSUME NEW a, NEW z, \E f : f = PathStep(f, a, z)
    PROVE  \E f : f = PathStep(f, a, z) /\ Follow(a, z) = f[-limit]
  <1>1. PICK g : g = CHOOSE f : f = PathStep(f, a, z)
    OBVIOUS
  <1>2. g = PathStep(g, a, z)
    BY <1>1
  <1>3. Follow(a, z) = g[-limit]
    BY <1>1 DEF Follow, PathStep
  <1>4. QED BY <1>2, <1>3

\* There is only one.
LEMMA FollowIs ==
    ASSUME NEW a, NEW z, NEW W, W = PathStep(W, a, z), limit \in Int, limit < 0
    PROVE  Follow(a, z) = W[-limit]
  <1>1. PICK f : f = PathStep(f, a, z) /\ Follow(a, z) = f[-limit]
    BY FollowUnfolds
  <1>2. PICK N \in Nat : N = -limit
    OBVIOUS
  <1>3. \A i \in 0 .. N : f[i] = IF i = 0 THEN IF a \in Page THEN {a} ELSE {}
                                  ELSE f[i - 1] \cup ({link[p] : p \in f[i - 1] \ {z}} \cap Page)
    BY <1>1, <1>2 DEF PathStep
  <1>4. \A i \in 0 .. N : W[i] = IF i = 0 THEN IF a \in Page THEN {a} ELSE {}
                                  ELSE W[i - 1] \cup ({link[p] : p \in W[i - 1] \ {z}} \cap Page)
    BY <1>2 DEF PathStep
  <1>5. ASSUME f[N] # W[N] PROVE FALSE
    <2> DEFINE T == {i \in 0 .. N : f[i] # W[i]}
    <2>1. T \in SUBSET Nat /\ T # {}
      BY <1>5
    <2>2. PICK m \in T : \A k \in T : m <= k
      BY <2>1, LeastNat
    <2>3. m \in 0 .. N /\ f[m] # W[m]
      BY <2>2
    <2>4. CASE m = 0
      BY <2>3, <2>4, <1>3, <1>4
    <2>5. CASE m # 0
      <3>1. m - 1 \in 0 .. N /\ ~(m <= m - 1)
        BY <2>3, <2>5
      <3>2. f[m - 1] = W[m - 1]
        BY <3>1, <2>2
      <3>3. QED BY <2>3, <2>5, <3>2, <1>3, <1>4
    <2>6. QED BY <2>4, <2>5
  <1>6. QED BY <1>1, <1>2, <1>5

\* Nothing is found from the end of a list.
LEMMA FollowNothing ==
    ASSUME NEW a, NEW z, a \notin Page, limit \in Int, limit < 0
    PROVE  Follow(a, z) = {}
  <1>1. PICK W : W = [i \in 0 .. -limit |-> {}]
    OBVIOUS
  <1>2. W = PathStep(W, a, z)
    <2>1. \A i \in 0 .. -limit : i # 0 => i - 1 \in 0 .. -limit
      OBVIOUS
    <2>2. \A i \in 0 .. -limit : W[i] = IF i = 0 THEN IF a \in Page THEN {a} ELSE {}
                                  ELSE W[i - 1] \cup ({link[p] : p \in W[i - 1] \ {z}} \cap Page)
      BY <2>1, <1>1
    <2>3. QED BY <2>2, <1>1 DEF PathStep
  <1>3. -limit \in 0 .. -limit
    OBVIOUS
  <1>4. QED BY <1>1, <1>2, <1>3, FollowIs

\* A linked list of at most -limit pages that ends at z or with no further page.
LinkedList(q, n, z) ==
    /\ q \in [Int -> Page] /\ n \in Nat /\ n > 0 /\ n <= -limit /\ limit \in Int
    /\ \A i \in 1 .. n - 1 : link[q[i]] = q[i + 1] /\ q[i] # z
    /\ q[n] = z \/ link[q[n]] \notin Page

\* The walk finds exactly the pages of the list.
LEMMA FollowList ==
    ASSUME NEW q, NEW n, NEW z, LinkedList(q, n, z)
    PROVE  Follow(q[1], z) = {q[i] : i \in 1 .. n}
  <1>1. /\ q \in [Int -> Page] /\ n \in Nat /\ n > 0 /\ n <= -limit /\ limit \in Int /\ limit < 0
        /\ \A i \in 1 .. n - 1 : link[q[i]] = q[i + 1] /\ q[i] # z
        /\ q[n] = z \/ link[q[n]] \notin Page
    BY DEF LinkedList
  <1> USE <1>1
  <1>2. PICK N \in Nat : N = -limit
    OBVIOUS
  <1> DEFINE Upto(i) == IF i + 1 <= n THEN i + 1 ELSE n
  <1>3. PICK W : W = [i \in 0 .. N |-> {q[j] : j \in 1 .. Upto(i)}]
    OBVIOUS
  <1>4. \A i \in 0 .. N : W[i] = {q[j] : j \in 1 .. Upto(i)}
    BY <1>3
  <1>5. ASSUME NEW i \in 0 .. N
        PROVE  W[i] = IF i = 0 THEN IF q[1] \in Page THEN {q[1]} ELSE {}
                      ELSE W[i - 1] \cup ({link[p] : p \in W[i - 1] \ {z}} \cap Page)
    <2>1. CASE i = 0
      <3>1. Upto(i) = 1 /\ 1 .. 1 = {1}
        BY <2>1
      <3>2. W[i] = {q[1]}
        BY <3>1, <1>4
      <3>3. QED BY <2>1, <3>2
    <2>2. CASE i # 0
      <3>1. i - 1 \in 0 .. N /\ Upto(i - 1) = IF i <= n THEN i ELSE n
        BY <2>2
      <3>2. PICK m \in Nat : m = Upto(i - 1) /\ m > 0 /\ m <= n
        BY <3>1, <2>2
      <3>3. W[i - 1] = {q[j] : j \in 1 .. m}
        BY <3>1, <3>2, <1>4
      <3> HIDE DEF Upto
      <3>4. CASE m < n
        <4>1. Upto(i) = m + 1
          BY <3>1, <3>2, <3>4 DEF Upto
        <4>2. W[i] = {q[j] : j \in 1 .. m + 1}
          BY <4>1, <1>4
        <4>3. \A j \in 1 .. m : j \in 1 .. n - 1 /\ j + 1 \in 1 .. m + 1
          BY <3>2, <3>4
        <4>4. \A j \in 1 .. m + 1 : j = 1 \/ (j - 1 \in 1 .. m /\ (j - 1) + 1 = j)
          BY <3>2
        <4>5. ASSUME NEW p \in W[i] PROVE p \in W[i - 1] \cup ({link[x] : x \in W[i - 1] \ {z}} \cap Page)
          <5>1. PICK j \in 1 .. m + 1 : p = q[j]
            BY <4>2, <4>5
          <5>2. CASE j = 1
            <6>1. 1 \in 1 .. m
              BY <3>2
            <6>2. QED BY <5>1, <5>2, <6>1, <3>3
          <5>3. CASE j # 1
            <6>1. j - 1 \in 1 .. m /\ (j - 1) + 1 = j
              BY <5>3, <4>4
            <6>2. link[q[j - 1]] = q[(j - 1) + 1] /\ q[j - 1] # z
              BY <6>1, <4>3
            <6>3. q[j - 1] \in W[i - 1] \ {z}
              BY <6>1, <6>2, <3>3
            <6>4. QED BY <5>1, <6>1, <6>2, <6>3
          <5>4. QED BY <5>2, <5>3
        <4>6. ASSUME NEW p \in W[i - 1] PROVE p \in W[i]
          <5>1. \A j \in 1 .. m : j \in 1 .. m + 1
            BY <3>2
          <5>2. QED BY <5>1, <4>2, <4>6, <3>3
        <4>7. ASSUME NEW x \in W[i - 1] \ {z} PROVE link[x] \in W[i]
          <5>1. PICK j \in 1 .. m : x = q[j]
            BY <4>7, <3>3
          <5>2. link[x] = q[j + 1] /\ j + 1 \in 1 .. m + 1
            BY <5>1, <4>3
          <5>3. QED BY <5>2, <4>2
        <4>8. QED BY <2>2, <4>5, <4>6, <4>7
      <3>5. CASE m = n
        <4>1. Upto(i) = n
          BY <3>1, <3>2, <3>5 DEF Upto
        <4>2. W[i] = W[i - 1]
          BY <4>1, <3>3, <3>5, <1>4
        <4>3. ASSUME NEW x \in W[i - 1] \ {z}, link[x] \in Page PROVE link[x] \in W[i - 1]
          <5>1. PICK j \in 1 .. n : x = q[j]
            BY <4>3, <3>3, <3>5
          <5>2. j # n
            BY <5>1, <4>3
          <5>3. j \in 1 .. n - 1 /\ j + 1 \in 1 .. n
            BY <5>2
          <5>4. QED BY <5>1, <5>3, <3>3, <3>5
        <4>4. QED BY <2>2, <4>2, <4>3
      <3>6. QED BY <3>2, <3>4, <3>5
    <2>3. QED BY <2>1, <2>2
  <1> HIDE DEF Upto
  <1>6. W = PathStep(W, q[1], z)
    BY <1>2, <1>3, <1>5 DEF PathStep
  <1>7. Follow(q[1], z) = W[N]
    BY <1>2, <1>6, FollowIs
  <1>8. Upto(N) = n /\ N \in 0 .. N
    BY <1>2 DEF Upto
  <1>9. QED BY <1>4, <1>7, <1>8

\* The pages of a list of the invariant.
LEMMA ListPages ==
    ASSUME NEW own, NEW len, NEW at, TypeOK, Shape(own, len, at), NEW k \in ListKey, NEW z, len[k] > 0,
           \/ z = at[k][len[k]]
           \/ z = None /\ link[at[k][len[k]]] \notin Page
    PROVE  Follow(at[k][1], z) = {p \in Page : own[p] = k}
  <1> USE TypeFacts
  <1>1. PICK n \in Nat : n = len[k] /\ n > 0
    BY DEF Shape, Witness
  <1>2. PICK q \in [Int -> Page] : q = at[k]
    BY DEF Shape, Witness
  <1>3. \A i \in 1 .. n : own[q[i]] = k
    BY <1>1, <1>2 DEF Shape, ListsOK
  <1>4. \A i, j \in 1 .. n : q[i] = q[j] => i = j
    BY <1>1, <1>2 DEF Shape, ListsOK
  <1>5. limit \in Int /\ limit < 0
    BY DEF TypeOK
  <1>6. n <= -limit
    <2>1. \A p \in Page : own[p] = k => p \in limit + 1 .. -1
      <3>1. k # Unmapped
        BY PlacesDiffer
      <3>2. \A p \in Page : own[p] = k => ~(p <= limit)
        BY <3>1 DEF Shape, Heads
      <3>3. QED BY <3>2, <1>5 DEF Page
    <2>2. PICK f : f = [i \in 1 .. n |-> q[i]]
      OBVIOUS
    <2>3. f \in Injection(1 .. n, limit + 1 .. -1)
      <3>1. \A i \in 1 .. n : q[i] \in limit + 1 .. -1
        <4> SUFFICES ASSUME NEW i \in 1 .. n PROVE q[i] \in limit + 1 .. -1
          OBVIOUS
        <4>1. q[i] \in Page /\ own[q[i]] = k
          BY <1>3
        <4>2. QED BY <4>1, <2>1
      <3>2. f \in [1 .. n -> limit + 1 .. -1]
        BY <3>1, <2>2
      <3>3. \A i, j \in 1 .. n : f[i] = f[j] => i = j
        BY <2>2, <1>4
      <3>4. QED BY <3>2, <3>3, Fun_IsInj
    <2>4. IsFiniteSet(limit + 1 .. -1) /\ Cardinality(limit + 1 .. -1) = IF limit + 1 > -1 THEN 0 ELSE -1 - (limit + 1) + 1
      BY <1>5, FS_Interval
    <2>5. Cardinality(1 .. n) = n
      BY <1>1, FS_Interval
    <2>6. Cardinality(1 .. n) <= Cardinality(limit + 1 .. -1)
      BY <2>3, <2>4, FS_Injection
    <2>7. QED BY <2>4, <2>5, <2>6, <1>5
  <1>7. \A i \in 1 .. n - 1 : link[q[i]] = q[i + 1]
    BY <1>1, <1>2 DEF Shape, ListsOK
  <1>8. \A i \in 1 .. n - 1 : q[i] # z
    <2>1. \A i \in 1 .. n - 1 : i \in 1 .. n /\ n \in 1 .. n /\ i # n
      BY <1>1
    <2>2. \A i \in 1 .. n - 1 : q[i] # q[n] /\ q[i] # None
      BY <2>1, <1>4
    <2>3. QED BY <2>2, <1>1, <1>2
  <1>9. q[n] = z \/ link[q[n]] \notin Page
    BY <1>1, <1>2
  <1>10. Follow(q[1], z) = {q[i] : i \in 1 .. n}
    <2>1. LinkedList(q, n, z)
      BY <1>1, <1>5, <1>6, <1>7, <1>8, <1>9 DEF LinkedList
    <2>2. QED BY <2>1, FollowList
  <1>11. {q[i] : i \in 1 .. n} = {p \in Page : own[p] = k}
    <2>1. \A p \in Page : own[p] = k => \E i \in 1 .. n : q[i] = p
      BY <1>1, <1>2 DEF Shape, ListsOK
    <2>2. \A i \in 1 .. n : q[i] \in Page /\ own[q[i]] = k
      <3>1. 1 .. n \subseteq Int
        OBVIOUS
      <3>2. \A i \in Int : q[i] \in Page
        OBVIOUS
      <3>3. QED BY <3>1, <3>2, <1>3
    <2>3. \A p \in {q[i] : i \in 1 .. n} : p \in Page /\ own[p] = k
      BY <2>2
    <2>4. \A p \in Page : own[p] = k => p \in {q[i] : i \in 1 .. n}
      BY <2>1
    <2>5. QED BY <2>3, <2>4
  <1>12. QED BY <1>2, <1>10, <1>11

\* The pages that the invariant places at p.
PagesAt(own, p) == {x \in Page : own[x] = p}

\* What the definitions of the properties compute.
MeaningOf(own, t) ==
    /\ Pushing(t) = PagesAt(own, OnPush(t))
    /\ Chained(t) = PagesAt(own, OnChain(t)) \cup PagesAt(own, KeptBy(t))
    /\ InHand(t) = PagesAt(own, InHandOf(t))
    /\ HeldPages(t) = {p \in Page : own[p] \in HeldPlaces(t)}
Meaning ==
    \A own, len, at : Inv0(own, len, at) =>
        /\ own \in [Page -> Place]
        /\ Mapped = {p \in Page : own[p] # Unmapped}
        /\ FreePages = PagesAt(own, OnFree)
        /\ \A t \in Threads : MeaningOf(own, t)

\* An empty list places no page.
LEMMA EmptyList ==
    ASSUME NEW own, NEW len, NEW at, Shape(own, len, at), NEW k \in ListKey, len[k] = 0
    PROVE  PagesAt(own, k) = {}
  <1>1. \A p \in Page : own[p] = k => \E i \in 1 .. len[k] : TRUE
    BY DEF Shape, ListsOK
  <1>2. 1 .. len[k] = {}
    OBVIOUS
  <1>3. QED BY <1>1, <1>2 DEF PagesAt

\* The sets of the properties are the places of the invariant.
LEMMA PageMeaning == Meaning
  <1> USE TypeFacts, PlacesDiffer
  <1> SUFFICES ASSUME NEW own, NEW len, NEW at, Inv0(own, len, at)
               PROVE  /\ own \in [Page -> Place]
                      /\ Mapped = {p \in Page : own[p] # Unmapped}
                      /\ FreePages = PagesAt(own, OnFree)
                      /\ \A t \in Threads : MeaningOf(own, t)
    BY DEF Meaning
  <1>1. TypeOK /\ Shape(own, len, at)
    BY DEF Inv0, Control
  <1>2. limit \in Int /\ limit < 0 /\ limit > -RegionSize
    BY <1>1 DEF TypeOK
  <1>3. own \in [Page -> Place]
    BY <1>1 DEF Shape, Witness
  <1>4. len \in [ListKey -> Nat]
    BY <1>1 DEF Shape, Witness
  <1>5. Mapped = {p \in Page : own[p] # Unmapped}
    <2>1. \A p \in Page : own[p] = Unmapped <=> p <= limit
      BY <1>1 DEF Shape, Heads
    <2>2. \A p \in Int : p \in Mapped <=> p \in Page /\ ~(p <= limit)
      BY <1>2, SpdsAssumption DEF Mapped, Page
    <2>3. Mapped \subseteq Int
      BY <1>2 DEF Mapped
    <2>4. QED BY <2>1, <2>2, <2>3
  <1>6. FreePages = PagesAt(own, OnFree)
    <2>1. FreeHead(len, at)
      BY <1>1 DEF Shape, Heads
    <2>2. CASE len[OnFree] = 0
      <3>1. PagesAt(own, OnFree) = {}
        BY <2>2, <1>1, EmptyList
      <3>2. Follow(freeList.head, None) = {}
        BY <2>1, <2>2, <1>2, FollowNothing DEF FreeHead
      <3>3. QED BY <3>1, <3>2 DEF FreePages
    <2>3. CASE len[OnFree] # 0
      <3>1. len[OnFree] > 0
        BY <2>3, <1>4
      <3>2. freeList.head = at[OnFree][1] /\ link[at[OnFree][len[OnFree]]] \notin Page
        BY <2>1, <2>3, <3>1 DEF FreeHead
      <3>3. Follow(at[OnFree][1], None) = {p \in Page : own[p] = OnFree}
        BY <3>1, <3>2, <1>1, ListPages
      <3>4. QED BY <3>2, <3>3 DEF FreePages, PagesAt
    <2>4. QED BY <2>2, <2>3
  <1>7. ASSUME NEW t \in Threads PROVE MeaningOf(own, t)
    <2>1. HeadsOf(own, len, at, t)
      BY <1>1 DEF Shape, Heads
    <2>2. OnPush(t) \in ListKey /\ OnChain(t) \in ListKey
      OBVIOUS
    <2>3. Pushing(t) = PagesAt(own, OnPush(t))
      <3>1. CASE first[t] = None
        <4>1. len[OnPush(t)] = 0
          BY <2>1, <3>1 DEF HeadsOf
        <4>2. QED BY <4>1, <3>1, <2>2, <1>1, EmptyList DEF Pushing
      <3>2. CASE first[t] # None
        <4>1. /\ len[OnPush(t)] > 0 /\ first[t] = at[OnPush(t)][1]
              /\ last[t] = at[OnPush(t)][len[OnPush(t)]]
          BY <2>1, <3>2 DEF HeadsOf
        <4>2. Follow(at[OnPush(t)][1], last[t]) = {p \in Page : own[p] = OnPush(t)}
          BY <4>1, <2>2, <1>1, ListPages
        <4>3. QED BY <4>1, <4>2, <3>2 DEF Pushing, PagesAt
      <3>3. QED BY <3>1, <3>2
    <2>4. Chained(t) = PagesAt(own, OnChain(t)) \cup PagesAt(own, KeptBy(t))
      <3>1. \A p \in Page : own[p] = KeptBy(t) <=> t \in Permanent /\ p \in kept[t]
        BY <2>1 DEF HeadsOf
      <3>2. CASE t \in Permanent
        <4>1. len[OnChain(t)] = 0
          BY <2>1, <3>2 DEF HeadsOf
        <4>2. PagesAt(own, OnChain(t)) = {}
          BY <4>1, <2>2, <1>1, EmptyList
        <4>3. kept[t] \subseteq Page
          BY <3>2, <1>1 DEF TypeOK
        <4>4. PagesAt(own, KeptBy(t)) = kept[t]
          BY <4>3, <3>1, <3>2 DEF PagesAt
        <4>5. QED BY <4>2, <4>4, <3>2 DEF Chained
      <3>3. CASE t \notin Permanent /\ curChunk[t] = Sentinel
        <4>1. len[OnChain(t)] = 0
          BY <2>1, <3>3 DEF HeadsOf
        <4>2. PagesAt(own, OnChain(t)) = {}
          BY <4>1, <2>2, <1>1, EmptyList
        <4>3. PagesAt(own, KeptBy(t)) = {}
          BY <3>1, <3>3 DEF PagesAt
        <4>4. QED BY <4>2, <4>3, <3>3 DEF Chained
      <3>4. CASE t \notin Permanent /\ curChunk[t] # Sentinel
        <4>1. /\ len[OnChain(t)] > 0 /\ curChunk[t] = at[OnChain(t)][1]
              /\ lastChunk[t] = at[OnChain(t)][len[OnChain(t)]]
          BY <2>1, <3>4 DEF HeadsOf
        <4>2. Follow(at[OnChain(t)][1], lastChunk[t]) = {p \in Page : own[p] = OnChain(t)}
          BY <4>1, <2>2, <1>1, ListPages
        <4>3. PagesAt(own, KeptBy(t)) = {}
          BY <3>1, <3>4 DEF PagesAt
        <4>4. QED BY <4>1, <4>2, <4>3, <3>4 DEF Chained, PagesAt
      <3>5. QED BY <3>2, <3>3, <3>4
    <2>5. InHand(t) = PagesAt(own, InHandOf(t))
      <3>1. \A p \in Page : own[p] = InHandOf(t) <=> page[t] = p
        BY <2>1 DEF HeadsOf
      <3>2. page[t] \in Page \cup {None}
        BY <1>1 DEF TypeOK
      <3>3. QED BY <3>1, <3>2 DEF InHand, PagesAt
    <2>6. HeldPages(t) = {p \in Page : own[p] \in HeldPlaces(t)}
      BY <2>3, <2>4, <2>5 DEF HeldPages, HeldPlaces, PagesAt
    <2>7. QED BY <2>3, <2>4, <2>5, <2>6 DEF MeaningOf
  <1>8. QED BY <1>3, <1>5, <1>6, <1>7

\* The same sets in the next state.
LEMMA PageMeaningNext == Meaning'
  BY PageMeaning, PTL

\* No page is at places of two threads, or at two places of one thread.
LEMMA HeldPlacesDiffer ==
    ASSUME NEW t \in Threads
    PROVE  /\ OnFree \notin HeldPlaces(t) /\ Unmapped \notin HeldPlaces(t)
           /\ \A u \in Threads \ {t} : HeldPlaces(t) \cap HeldPlaces(u) = {}
  BY PlacesDiffer DEF HeldPlaces

\* Places are exclusive, so the sets of the properties are disjoint.
LEMMA InvPartitions == Inv => PagesPartitioned
  <1> USE TypeFacts
  <1> SUFFICES ASSUME Inv PROVE PagesPartitioned
    OBVIOUS
  <1>1. PICK own, len, at : Inv0(own, len, at)
    BY DEF Inv
  <1>2. /\ own \in [Page -> Place]
        /\ Mapped = {p \in Page : own[p] # Unmapped}
        /\ FreePages = PagesAt(own, OnFree)
        /\ \A t \in Threads : MeaningOf(own, t)
    BY <1>1, PageMeaning DEF Meaning
  <1>3. \A t \in Threads : HeldPages(t) = {p \in Page : own[p] \in HeldPlaces(t)}
    BY <1>2 DEF MeaningOf
  <1>4. Mapped = FreePages \cup UNION {HeldPages(t) : t \in Threads}
    <2>1. ASSUME NEW p \in Mapped PROVE p \in FreePages \cup UNION {HeldPages(t) : t \in Threads}
      <3>1. p \in Page /\ own[p] \in Place /\ own[p] # Unmapped
        BY <2>1, <1>2
      <3>2. own[p] = OnFree \/ \E t \in Threads : own[p] \in HeldPlaces(t)
        BY <3>1, PlacesDiffer DEF HeldPlaces
      <3>3. QED BY <3>1, <3>2, <1>2, <1>3 DEF PagesAt
    <2>2. ASSUME NEW p \in FreePages PROVE p \in Mapped
      BY <2>2, <1>2, PlacesDiffer DEF PagesAt
    <2>3. ASSUME NEW t \in Threads, NEW p \in HeldPages(t) PROVE p \in Mapped
      BY <2>3, <1>2, <1>3, HeldPlacesDiffer
    <2>4. QED BY <2>1, <2>2, <2>3
  <1>5. ASSUME NEW t \in Threads
        PROVE  /\ HeldPages(t) \cap FreePages = {}
               /\ InHand(t) \cap (Pushing(t) \cup Chained(t)) = {}
               /\ Pushing(t) \cap Chained(t) = {}
               /\ \A u \in Threads \ {t} : HeldPages(t) \cap HeldPages(u) = {}
    <2>1. HeldPages(t) \cap FreePages = {}
      BY <1>2, <1>3, HeldPlacesDiffer DEF PagesAt
    <2>2. MeaningOf(own, t)
      BY <1>2
    <2>3. InHand(t) \cap (Pushing(t) \cup Chained(t)) = {}
      BY <2>2, PlacesDiffer DEF MeaningOf, PagesAt
    <2>4. Pushing(t) \cap Chained(t) = {}
      BY <2>2, PlacesDiffer DEF MeaningOf, PagesAt
    <2>5. ASSUME NEW u \in Threads \ {t} PROVE HeldPages(t) \cap HeldPages(u) = {}
      BY <1>3, HeldPlacesDiffer
    <2>6. QED BY <2>1, <2>3, <2>4, <2>5
  <1>6. ListsTerminate
    <2>1. TypeOK /\ Shape(own, len, at)
      BY <1>1 DEF Inv0, Control
    <2>2. /\ FreeHead(len, at)
          /\ \A t \in Threads : HeadsOf(own, len, at, t)
      BY <2>1 DEF Shape, Heads
    <2>3. Witness(own, len, at) /\ ListsOK(own, len, at, link)
      BY <2>1 DEF Shape
    <2>4. \A k \in ListKey : len[k] > 0 => at[k][len[k]] \in PagesAt(own, k)
      <3>1. ASSUME NEW k \in ListKey, len[k] > 0 PROVE at[k][len[k]] \in PagesAt(own, k)
        <4>1. PICK n \in Nat : n = len[k]
          BY <2>3 DEF Witness
        <4>2. n \in 1 .. n
          BY <4>1, <3>1
        <4>3. own[at[k][n]] = k
          BY <4>1, <4>2, <2>3 DEF ListsOK
        <4>4. at[k][n] \in Page
          BY <2>3 DEF Witness
        <4>5. QED BY <4>1, <4>3, <4>4 DEF PagesAt
      <3>2. QED BY <3>1
    <2>5. freeList.head # Sentinel => \E p \in FreePages : link[p] = Sentinel
      <3>1. ASSUME freeList.head # Sentinel PROVE \E p \in FreePages : link[p] = Sentinel
        <4>1. len[OnFree] > 0
          BY <3>1, <2>2, <2>3, PlacesDiffer DEF FreeHead, Witness
        <4>2. QED BY <4>1, <2>2, <2>4, <1>2, PlacesDiffer DEF FreeHead
      <3>2. QED BY <3>1
    <2>6. ASSUME NEW p \in FreePages PROVE link[p] \in Page \cup {Sentinel}
      <3>1. p \in Page /\ own[p] = OnFree /\ OnFree \in ListKey
        BY <2>6, <1>2, PlacesDiffer DEF PagesAt
      <3>2. PICK n \in Nat : n = len[OnFree]
        BY <2>3, <3>1 DEF Witness
      <3>3. PICK i \in 1 .. n : at[OnFree][i] = p
        BY <3>1, <3>2, <2>3 DEF ListsOK
      <3>4. CASE i = n
        BY <3>2, <3>3, <3>4, <2>2 DEF FreeHead
      <3>5. CASE i # n
        <4>1. i \in 1 .. n - 1
          BY <3>5
        <4>2. link[p] = at[OnFree][i + 1]
          BY <4>1, <3>1, <3>2, <3>3, <2>3 DEF ListsOK
        <4>3. at[OnFree][i + 1] \in Page
          BY <3>1, <2>3 DEF Witness
        <4>4. QED BY <4>2, <4>3
      <3>6. QED BY <3>4, <3>5
    <2>7. ASSUME NEW t \in Threads, first[t] # None PROVE last[t] \in Pushing(t)
      <3>1. len[OnPush(t)] > 0 /\ last[t] = at[OnPush(t)][len[OnPush(t)]]
        BY <2>7, <2>2 DEF HeadsOf
      <3>2. Pushing(t) = PagesAt(own, OnPush(t)) /\ OnPush(t) \in ListKey
        BY <1>2, PlacesDiffer DEF MeaningOf
      <3>3. QED BY <3>1, <3>2, <2>4
    <2>8. ASSUME NEW t \in Arenas, curChunk[t] # Sentinel
          PROVE  lastChunk[t] \in Chained(t) /\ link[lastChunk[t]] = Sentinel
      <3>1. t \in Threads /\ t \notin Permanent
        OBVIOUS
      <3>2. /\ len[OnChain(t)] > 0 /\ lastChunk[t] = at[OnChain(t)][len[OnChain(t)]]
            /\ link[lastChunk[t]] = Sentinel
        BY <3>1, <2>8, <2>2 DEF HeadsOf
      <3>3. PagesAt(own, OnChain(t)) \subseteq Chained(t) /\ OnChain(t) \in ListKey
        BY <3>1, <1>2, PlacesDiffer DEF MeaningOf
      <3>4. QED BY <3>2, <3>3, <2>4
    <2>9. QED BY <2>5, <2>6, <2>7, <2>8 DEF ListsTerminate
  <1>7. QED BY <1>4, <1>5, <1>6 DEF PagesPartitioned

\* Every mapped page is in exactly one place, whatever the threads do.
THEOREM PagesArePartitioned == Spec => []PagesPartitioned
  BY PageInvariant, InvPartitions, PTL

-----------------------------------------------------------------------------
\* Refinement: every step of a thread is one step of SpdsPages, or none.

held == [t \in Threads |-> HeldPages(t)]

\* Initial states are initial states of SpdsPages.
LEMMA PagesInit == Init => Pages!Init
  <1> USE TypeFacts
  <1> SUFFICES ASSUME Init PROVE Pages!Init
    OBVIOUS
  <1>1. Mapped = {}
    BY DEF Init, Mapped
  <1>2. limit \in Int /\ limit < 0
    BY DEF Init
  <1>3. FreePages = {}
    BY <1>2, FollowNothing DEF Init, FreePages, NoSnapshot
  <1>4. \A t \in Threads : HeldPages(t) = {}
    BY DEF Init, HeldPages, Pushing, Chained, InHand
  <1>5. QED BY <1>1, <1>3, <1>4 DEF Pages!Init

\* The move of pages by a step is one of the steps of SpdsPages: a pop is Take, a
\* push is Give, mapping is Grow, and everything else leaves the sets alone.
LEMMA PagesStep ==
    ASSUME NEW own, NEW len, NEW at, Inv0(own, len, at),
           NEW own2, NEW len2, NEW at2, Inv0(own2, len2, at2)', Effect(own, own2)
    PROVE  Pages!Next \/ UNCHANGED <<Mapped, FreePages, held>>
  <1> USE TypeFacts
  <1>1. /\ own \in [Page -> Place]
        /\ Mapped = {p \in Page : own[p] # Unmapped}
        /\ FreePages = PagesAt(own, OnFree)
    BY PageMeaning DEF Meaning
  <1>2. /\ own2 \in [Page -> Place]
        /\ Mapped' = {p \in Page : own2[p] # Unmapped}
        /\ FreePages' = PagesAt(own2, OnFree)
    BY PageMeaningNext DEF Meaning
  <1>3. \A t \in Threads : HeldPages(t) = {p \in Page : own[p] \in HeldPlaces(t)}
    BY PageMeaning DEF Meaning, MeaningOf
  <1>4. \A t \in Threads : HeldPages(t)' = {p \in Page : own2[p] \in HeldPlaces(t)}
    BY PageMeaningNext DEF Meaning, MeaningOf
  <1>5. held = [t \in Threads |-> HeldPages(t)] /\ held' = [t \in Threads |-> HeldPages(t)']
    BY DEF held
  <1>6. PICK t \in Threads : Stays(own, own2, t) \/ Takes(own, own2, t) \/ Gives(own, own2, t) \/ Maps(own, own2, t)
    BY DEF Effect
  <1>7. OnFree \notin HeldPlaces(t) /\ Unmapped \notin HeldPlaces(t) /\ OnFree # Unmapped
    BY HeldPlacesDiffer, PlacesDiffer
  <1>8. \A u \in Threads \ {t} : HeldPlaces(t) \cap HeldPlaces(u) = {}
    BY HeldPlacesDiffer
  <1>9. \A u \in Threads : OnFree \notin HeldPlaces(u) /\ Unmapped \notin HeldPlaces(u)
    BY HeldPlacesDiffer
  <1>10. CASE Stays(own, own2, t)
    <2>1. \A p \in Page : \/ own2[p] = own[p]
                          \/ own[p] \in HeldPlaces(t) /\ own2[p] \in HeldPlaces(t)
      BY <1>10 DEF Stays
    <2>2. Mapped' = Mapped
      BY <2>1, <1>1, <1>2, <1>7
    <2>3. FreePages' = FreePages
      BY <2>1, <1>1, <1>2, <1>7 DEF PagesAt
    <2>4. ASSUME NEW u \in Threads PROVE HeldPages(u)' = HeldPages(u)
      <3>1. \A p \in Page : own2[p] \in HeldPlaces(u) <=> own[p] \in HeldPlaces(u)
        BY <2>1, <1>8
      <3>2. QED BY <3>1, <1>3, <1>4
    <2>5. held' = held
      BY <2>4, <1>5
    <2>6. QED BY <2>2, <2>3, <2>5
  <1>11. CASE Takes(own, own2, t)
    <2>1. PICK p \in Page : /\ own[p] = OnFree /\ own2[p] = InHandOf(t)
                            /\ \A q \in Page \ {p} : own2[q] = own[q]
      BY <1>11 DEF Takes
    <2>2. InHandOf(t) \in HeldPlaces(t)
      BY DEF HeldPlaces
    <2>3. Mapped' = Mapped
      BY <2>1, <2>2, <1>1, <1>2, <1>7
    <2>4. FreePages' = FreePages \ {p} /\ FreePages \ FreePages' = {p}
      BY <2>1, <2>2, <1>1, <1>2, <1>7 DEF PagesAt
    <2>5. HeldPages(t)' = HeldPages(t) \cup {p}
      <3>1. \A q \in Page : own2[q] \in HeldPlaces(t) <=> own[q] \in HeldPlaces(t) \/ q = p
        BY <2>1, <2>2
      <3>2. HeldPages(t)' = {q \in Page : own2[q] \in HeldPlaces(t)}
        BY <1>4
      <3>3. HeldPages(t) = {q \in Page : own[q] \in HeldPlaces(t)}
        BY <1>3
      <3>4. QED BY <3>1, <3>2, <3>3
    <2>6. ASSUME NEW u \in Threads \ {t} PROVE HeldPages(u)' = HeldPages(u)
      <3>1. \A q \in Page : own2[q] \in HeldPlaces(u) <=> own[q] \in HeldPlaces(u)
        BY <2>1, <2>2, <1>8, <1>9
      <3>2. QED BY <3>1, <1>3, <1>4
    <2>7. held' = [held EXCEPT ![t] = @ \cup {p}]
      BY <2>5, <2>6, <1>5
    <2>8. Pages!Take
      BY <2>3, <2>4, <2>7 DEF Pages!Take, held
    <2>9. QED BY <2>8 DEF Pages!Next
  <1>12. CASE Gives(own, own2, t)
    <2>1. PICK x \in Page : own[x] = OnPush(t)
      BY <1>12 DEF Gives
    <2>2. \A p \in Page : own2[p] = IF own[p] = OnPush(t) THEN OnFree ELSE own[p]
      BY <1>12 DEF Gives
    <2>3. OnPush(t) \in HeldPlaces(t)
      BY DEF HeldPlaces
    <2>4. PICK back : back = PagesAt(own, OnPush(t))
      OBVIOUS
    <2>5. back # {}
      BY <2>1, <2>4 DEF PagesAt
    <2>6. Mapped' = Mapped
      BY <2>2, <2>3, <1>1, <1>2, <1>7
    <2>7. FreePages' = FreePages \cup back /\ FreePages \cap back = {}
      BY <2>2, <2>3, <2>4, <1>1, <1>2, <1>7 DEF PagesAt
    <2>8. FreePages' \ FreePages = back
      BY <2>7
    <2>9. HeldPages(t)' = HeldPages(t) \ back /\ back \subseteq HeldPages(t)
      BY <2>2, <2>3, <2>4, <1>3, <1>4, <1>7 DEF PagesAt
    <2>10. ASSUME NEW u \in Threads \ {t} PROVE HeldPages(u)' = HeldPages(u)
      <3>1. \A q \in Page : own2[q] \in HeldPlaces(u) <=> own[q] \in HeldPlaces(u)
        BY <2>2, <2>3, <1>8, <1>9
      <3>2. QED BY <3>1, <1>3, <1>4
    <2>11. held' = [held EXCEPT ![t] = @ \ back] /\ back \subseteq held[t]
      BY <2>9, <2>10, <1>5
    <2>12. Pages!Give
      BY <2>5, <2>6, <2>7, <2>8, <2>11 DEF Pages!Give, held
    <2>13. QED BY <2>12 DEF Pages!Next
  <1>13. CASE Maps(own, own2, t)
    <2>1. limit \in Int /\ limit' \in Int /\ limit' < limit /\ limit < 0 /\ limit' > -RegionSize
      BY <1>13 DEF Maps, Inv0, Control, TypeOK
    <2>2. \A p \in Page : own[p] = Unmapped <=> p <= limit
      BY DEF Inv0, Shape, Heads
    <2>3. PICK new : new = {p \in Page : p <= limit /\ p > limit'}
      OBVIOUS
    <2>4. \A p \in Page : IF p \in new THEN own2[p] \in HeldPlaces(t) ELSE own2[p] = own[p]
      BY <2>3, <1>13 DEF Maps
    <2>5. \A p \in new : p \in Page /\ own[p] = Unmapped
      BY <2>2, <2>3
    <2>6. limit \in new
      BY <2>1, <2>3, SpdsAssumption DEF Page
    <2>7. Mapped' = Mapped \cup new /\ Mapped \cap new = {}
      BY <2>4, <2>5, <1>1, <1>2, <1>7
    <2>8. Mapped' \ Mapped = new
      BY <2>7
    <2>9. FreePages' = FreePages
      BY <2>4, <2>5, <1>1, <1>2, <1>7 DEF PagesAt
    <2>10. HeldPages(t)' = HeldPages(t) \cup new
      BY <2>4, <2>5, <1>3, <1>4, <1>7
    <2>11. ASSUME NEW u \in Threads \ {t} PROVE HeldPages(u)' = HeldPages(u)
      <3>1. \A q \in Page : own2[q] \in HeldPlaces(u) <=> own[q] \in HeldPlaces(u)
        BY <2>4, <2>5, <1>8, <1>9
      <3>2. QED BY <3>1, <1>3, <1>4
    <2>12. held' = [held EXCEPT ![t] = @ \cup new]
      BY <2>10, <2>11, <1>5
    <2>13. Pages!Grow
      BY <2>6, <2>7, <2>8, <2>9, <2>12 DEF Pages!Grow, held
    <2>14. QED BY <2>13 DEF Pages!Next
  <1>14. QED BY <1>6, <1>10, <1>11, <1>12, <1>13

\* Every step implements a step or a stutter.
LEMMA PagesNext == Inv /\ [Next]_vars => [Pages!Next]_<<Mapped, FreePages, held>>
  <1> SUFFICES ASSUME Inv, [Next]_vars PROVE Pages!Next \/ UNCHANGED <<Mapped, FreePages, held>>
    OBVIOUS
  <1>1. PICK own, len, at : Inv0(own, len, at)
    BY DEF Inv
  <1>2. CASE UNCHANGED vars
    <2>1. UNCHANGED <<Mapped, FreePages>>
      BY <1>2 DEF vars, Mapped, FreePages, Follow
    <2>2. \A t \in Threads : HeldPages(t)' = HeldPages(t)
      BY <1>2 DEF vars, HeldPages, Pushing, Chained, InHand, Follow
    <2>3. QED BY <2>1, <2>2 DEF held
  <1>3. CASE \E t \in Threads : Step(t)
    <2>1. PICK t \in Threads : Step(t)
      BY <1>3
    <2>2. PICK own2, len2, at2 : Inv0(own2, len2, at2)' /\ Effect(own, own2)
      BY <1>1, <2>1, InvStep
    <2>3. QED BY <1>1, <2>2, PagesStep
  <1>4. QED BY <1>2, <1>3 DEF Next, Stopped

\* Every call of the allocator takes effect at once: a page that a pop obtains
\* was free and is nobody else's, and pages are pushed by the thread that held them.
THEOREM ImplementsPages == Spec => PagesSpec
  BY PageInvariant, PagesInit, PagesNext, PTL DEF Spec, PagesSpec, Pages!Spec, held
=============================================================================
