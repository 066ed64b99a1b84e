------------------------ MODULE SomMethodTableProofs ------------------------
(***************************************************************************)
(* Proofs about SomMethodTable, for every set of selectors, every hash     *)
(* function and every limit on the rounds of an insertion.                 *)
(***************************************************************************)
EXTENDS SomMethodTable, FiniteSetTheorems, TLAPS

IsTable(t) ==
    /\ t = [s \in DOMAIN t |-> t[s]]
    /\ \E n \in Nat \ {0} : DOMAIN t = 0..(n - 1)
Occurs(k, t) == \E s \in DOMAIN t : t[s].id = k

HashOK == hash \in HashFunctions

TypeInv ==
    /\ HashOK
    /\ \E S : classes \in Seq(S)
    /\ Len(classes) <= MaxClasses
    /\ pc \notin {"none", "abort"} => Len(classes) < MaxClasses
    /\ \A c \in ClassIds : IsTable(classes[c].ht) /\ classes[c].methods \in [Keys -> 0..MaxClasses]
    /\ IsTable(ht) /\ IsTable(old)
    /\ key \in Pairs /\ cur \in Pairs
    /\ i \in Nat /\ rehashing \in BOOLEAN
    /\ methods \in [Keys -> 0..MaxClasses]
    /\ pc \in {"none", "idle", "try", "evict", "resize", "rehash", "abort"}
    /\ pc = "rehash" => rehashing
    /\ pc \in {"none", "idle", "resize"} => ~rehashing

\* What an insertion holds in hand has a slot to go to: the pair to place next to
\* the tables that are placed.
PlacedInv ==
    /\ TablesPlaced /\ EntriesPlaced(old)
    /\ pc \in {"try", "evict"} => cur.id /= 0
    /\ pc = "resize" \/ rehashing => key.id /= 0
    /\ pc = "evict" =>
         /\ ~Occurs(cur.id, ht)
         /\ pos \in {Slot1(cur.id, ht), Slot2(cur.id, ht)}
         /\ ht[pos].id /= 0

Inv == TypeInv /\ PlacedInv

\* The pairs that are yet to be placed.
Pending(p) ==
    \/ pc \in {"try", "evict"} /\ p = cur
    \/ (pc = "resize" \/ rehashing) /\ p = key
    \/ rehashing /\ \E j \in DOMAIN old : j >= i /\ p = old[j]
\* The selector whose entry an insertion is to replace.
Replaced(k) == pc = "try" /\ ~rehashing /\ k = cur.id

TableAgrees ==
    \A s \in DOMAIN ht :
        /\ ht[s].id /= 0 /\ ~Replaced(ht[s].id) => ht[s].fn = methods[ht[s].id]
        /\ ht[s].id /= 0 => ht[s].id \notin lost
PendingAgrees ==
    \A p \in Pairs : Pending(p) /\ p.id /= 0 =>
        /\ methods[p.id] = p.fn /\ p.id \notin lost
        /\ ~Replaced(p.id) => ~Occurs(p.id, ht)
NoneLost ==
    \A k \in Keys \ lost : methods[k] /= 0 =>
        Occurs(k, ht) \/ \E p \in Pairs : Pending(p) /\ p.id = k
PendingDistinct ==
    rehashing =>
        /\ pc \in {"try", "evict"} => cur.id /= key.id
        /\ \A j \in DOMAIN old : j >= i /\ old[j].id /= 0 =>
              /\ old[j].id /= key.id
              /\ pc \in {"try", "evict"} => old[j].id /= cur.id

\* Table and pending pairs together hold exactly the methods of the class that no
\* failed reinsertion dropped, no selector twice.
ContentInv == TableAgrees /\ PendingAgrees /\ NoneLost /\ PendingDistinct

ClassesAnswer ==
    \A c \in ClassIds, k \in Keys :
        GetMethod(classes[c].ht, k) = Answer(classes[c].methods, classes[c].lost, k)
FoundInv == ClassesAnswer /\ (pc /= "abort" => ContentInv)

-----------------------------------------------------------------------------
\* A table of t slots is indexed from 0 to t - 1.
LEMMA SizeOfTable ==
    ASSUME NEW t, NEW n \in Nat \ {0}, DOMAIN t = 0..(n - 1)
    PROVE  Size(t) = n
  <1>1. Cardinality(0..(n - 1)) = IF 0 > n - 1 THEN 0 ELSE (n - 1) - 0 + 1
    BY FS_Interval
  <1>2. QED BY <1>1 DEF Size

\* Both slots of a selector are in the table.
LEMMA SlotsInTable ==
    ASSUME HashOK, NEW t, IsTable(t), NEW k \in Keys
    PROVE  Slot1(k, t) \in DOMAIN t /\ Slot2(k, t) \in DOMAIN t
  <1>1. PICK n \in Nat \ {0} : DOMAIN t = 0..(n - 1)
    BY DEF IsTable
  <1>2. Size(t) = n
    BY <1>1, SizeOfTable
  <1>3. hash[k].lo \in Nat /\ hash[k].hi \in Nat
    BY MethodTableAssumption DEF HashOK
  <1>4. hash[k].lo % n \in 0..(n - 1) /\ hash[k].hi % n \in 0..(n - 1)
    BY <1>3
  <1>5. QED BY <1>1, <1>2, <1>4 DEF Slot1, Slot2

\* The slots of a selector depend on the size of the table only.
LEMMA SameSlots ==
    ASSUME NEW t, NEW u, DOMAIN u = DOMAIN t, NEW k
    PROVE  Slot1(k, u) = Slot1(k, t) /\ Slot2(k, u) = Slot2(k, t)
  BY DEF Slot1, Slot2, Size

\* What a pair of selector and method is.
LEMMA PairFacts ==
    /\ None \in Pairs /\ None.id = 0
    /\ \A p \in Pairs : p.id /= 0 => p.id \in Keys /\ p.fn \in 1..MaxClasses
    /\ \A p \in Pairs : p.id = 0 => p = None
  BY MethodTableAssumption DEF Pairs, None

\* Nothing is misplaced in an empty table.
LEMMA EmptyTablePlaced ==
    ASSUME NEW n \in Nat \ {0}
    PROVE  /\ IsTable(EmptyTable(n)) /\ EntriesPlaced(EmptyTable(n))
           /\ DOMAIN EmptyTable(n) = 0..(n - 1)
           /\ \A s \in DOMAIN EmptyTable(n) : EmptyTable(n)[s] = None
           /\ \A k : k /= 0 => ~Occurs(k, EmptyTable(n))
  <1> DEFINE t == EmptyTable(n)
  <1>1. DOMAIN t = 0..(n - 1) /\ \A s \in DOMAIN t : t[s] = None
    BY DEF EmptyTable
  <1>2. IsTable(t)
    BY DEF EmptyTable, IsTable
  <1> HIDE DEF t
  <1>3. EntriesPlaced(t) /\ \A k : k /= 0 => ~Occurs(k, t)
    BY <1>1, PairFacts DEF EntriesPlaced, Occurs
  <1>4. QED BY <1>1, <1>2, <1>3 DEF t

\* Writing a pair to one of its slots, if it occurs nowhere else.
LEMMA PutPlaced ==
    ASSUME NEW t, IsTable(t), EntriesPlaced(t),
           NEW p \in Pairs, p.id /= 0,
           NEW s \in DOMAIN t, s \in {Slot1(p.id, t), Slot2(p.id, t)},
           \A r \in DOMAIN t : t[r].id = p.id => r = s
    PROVE  /\ IsTable([t EXCEPT ![s] = p]) /\ EntriesPlaced([t EXCEPT ![s] = p])
           /\ DOMAIN [t EXCEPT ![s] = p] = DOMAIN t
           /\ \A r \in DOMAIN t : [t EXCEPT ![s] = p][r] = IF r = s THEN p ELSE t[r]
  <1> DEFINE u == [t EXCEPT ![s] = p]
  <1>1. /\ DOMAIN u = DOMAIN t
        /\ \A r \in DOMAIN t : u[r] = IF r = s THEN p ELSE t[r]
    OBVIOUS
  <1>2. IsTable(u)
    BY DEF IsTable
  <1> HIDE DEF u
  <1>3. \A k : Slot1(k, u) = Slot1(k, t) /\ Slot2(k, u) = Slot2(k, t)
    BY <1>1, SameSlots
  <1>4. EntriesPlaced(u)
    BY <1>1, <1>3 DEF EntriesPlaced
  <1>5. QED BY <1>1, <1>2, <1>4 DEF u

\* What the search of TryInsert finds.
LEMMA FreeSlotFacts ==
    ASSUME HashOK, NEW t, IsTable(t), EntriesPlaced(t), NEW k \in Keys
    PROVE  /\ FreeSlot(k, t) /= NoSlot =>
                /\ FreeSlot(k, t) \in DOMAIN t
                /\ FreeSlot(k, t) \in {Slot1(k, t), Slot2(k, t)}
                /\ t[FreeSlot(k, t)].id \in {0, k}
                /\ \A r \in DOMAIN t : t[r].id = k => r = FreeSlot(k, t)
           /\ FreeSlot(k, t) = NoSlot =>
                ~Occurs(k, t) /\ t[Slot1(k, t)].id /= 0
  <1>1. Slot1(k, t) \in DOMAIN t /\ Slot2(k, t) \in DOMAIN t
    BY SlotsInTable
  <1>2. NoSlot \notin DOMAIN t
    BY DEF IsTable, NoSlot
  <1>3. k /= 0
    BY MethodTableAssumption
  <1>4. \A r \in DOMAIN t : t[r].id = k => r \in {Slot1(k, t), Slot2(k, t)}
    BY <1>3 DEF EntriesPlaced
  <1>5. \A r1, r2 \in DOMAIN t : t[r1].id = k /\ t[r2].id = k => r1 = r2
    BY <1>3 DEF EntriesPlaced
  <1>6. QED BY <1>1, <1>2, <1>3, <1>4, <1>5 DEF FreeSlot, SlotWith, Occurs

-----------------------------------------------------------------------------
\* No table is being filled at the start.
LEMMA InitInv == Init => Inv
  <1> SUFFICES ASSUME Init PROVE Inv
    OBVIOUS
  <1>1. IsTable(EmptyTable(1)) /\ EntriesPlaced(EmptyTable(1))
    BY EmptyTablePlaced
  <1>2. ClassIds = {} /\ \E S : classes \in Seq(S)
    <2>1. classes = <<>> /\ <<>> \in Seq({})
      BY DEF Init
    <2>2. QED BY <2>1 DEF ClassIds
  <1>3. Len(classes) = 0 /\ methods \in [Keys -> 0..MaxClasses] /\ 0 <= MaxClasses
    BY MethodTableAssumption DEF Init
  <1>4. TypeInv
    BY <1>1, <1>2, <1>3, PairFacts DEF Init, TypeInv, HashOK
  <1>5. PlacedInv
    BY <1>1, <1>2, PairFacts DEF Init, PlacedInv, TablesPlaced
  <1>6. QED BY <1>4, <1>5 DEF Inv

\* The classes created so far stay as they are.
LEMMA ClassesUnchanged ==
    ASSUME Inv, UNCHANGED <<hash, classes>>
    PROVE  /\ HashOK'
           /\ (\E S : classes \in Seq(S))'
           /\ (Len(classes) <= MaxClasses)'
           /\ (\A c \in ClassIds : IsTable(classes[c].ht) /\ classes[c].methods \in [Keys -> 0..MaxClasses])'
           /\ (\A c \in ClassIds : EntriesPlaced(classes[c].ht))'
           /\ (pc \notin {"none", "abort"} => Len(classes') < MaxClasses)
  BY DEF Inv, TypeInv, PlacedInv, TablesPlaced, HashOK, ClassIds, EntriesPlaced, Slot1, Slot2, Size

\* A step that changes only the table under construction.
LEMMA StepPlaced ==
    ASSUME UNCHANGED hash
    PROVE  /\ \A u : ht' = u /\ EntriesPlaced(u) => EntriesPlaced(ht)'
           /\ \A u : old' = u /\ EntriesPlaced(u) => EntriesPlaced(old)'
           /\ \A u, k : ht' = u /\ ~Occurs(k, u) => ~Occurs(k, ht')
  BY DEF EntriesPlaced, Slot1, Slot2, Size, Occurs

\* A class starts with a copy of its superclass's table.
LEMMA BeginClassInv ==
    ASSUME Inv, NEW c \in ClassIds \union {0}, BeginClass(c)
    PROVE  Inv'
  <1> USE DEF BeginClass, loop
  <1>1. IsTable(EmptyTable(1)) /\ EntriesPlaced(EmptyTable(1))
    BY EmptyTablePlaced
  <1>2. IsTable(ht') /\ EntriesPlaced(ht)'
    <2>1. CASE c = 0
      BY <2>1, <1>1, StepPlaced
    <2>2. CASE c /= 0
      BY <2>2, StepPlaced DEF Inv, TypeInv, PlacedInv, TablesPlaced
    <2>3. QED BY <2>1, <2>2
  <1>3. IsTable(old') /\ EntriesPlaced(old)'
    BY StepPlaced DEF Inv, TypeInv, PlacedInv
  <1>4. methods' \in [Keys -> 0..MaxClasses]
    BY MethodTableAssumption DEF Inv, TypeInv
  <1>5. TypeInv'
    BY <1>2, <1>3, <1>4, ClassesUnchanged DEF Inv, TypeInv
  <1>6. PlacedInv'
    BY <1>2, <1>3, ClassesUnchanged DEF Inv, TypeInv, PlacedInv, TablesPlaced
  <1>7. QED BY <1>5, <1>6 DEF Inv

\* An insertion takes a pair in hand.
LEMMA InsertInv ==
    ASSUME Inv, NEW k \in Keys, Insert(k)
    PROVE  Inv'
  <1> USE DEF Insert
  <1>1. IsTable(ht') /\ EntriesPlaced(ht)'
    BY StepPlaced DEF Inv, TypeInv, PlacedInv, TablesPlaced
  <1>2. IsTable(old') /\ EntriesPlaced(old)'
    BY StepPlaced DEF Inv, TypeInv, PlacedInv
  <1>3. Len(classes) + 1 \in 1..MaxClasses
    BY MethodTableAssumption DEF Inv, TypeInv
  <1>4. key' \in Pairs /\ cur' = key' /\ key'.id = k /\ k /= 0
    BY <1>3, MethodTableAssumption DEF Pairs
  <1>5. methods' \in [Keys -> 0..MaxClasses]
    BY <1>3, MethodTableAssumption DEF Inv, TypeInv
  <1>6. TypeInv'
    BY <1>1, <1>2, <1>4, <1>5, ClassesUnchanged DEF Inv, TypeInv
  <1>7. PlacedInv'
    BY <1>1, <1>2, <1>4, ClassesUnchanged DEF Inv, TypeInv, PlacedInv, TablesPlaced
  <1>8. QED BY <1>6, <1>7 DEF Inv

\* TryInsert replaces an entry of the selector, fills a free slot, or starts to evict.
LEMMA TryInsertInv ==
    ASSUME Inv, TryInsert
    PROVE  Inv'
  <1> USE DEF TryInsert
  <1> DEFINE free == FreeSlot(cur.id, ht)
  <1>1. /\ cur \in Pairs /\ cur.id \in Keys /\ cur.id /= 0
        /\ HashOK /\ IsTable(ht) /\ EntriesPlaced(ht)
    BY PairFacts DEF Inv, TypeInv, PlacedInv, TablesPlaced
  <1>2. IsTable(old') /\ EntriesPlaced(old)'
    BY StepPlaced DEF Inv, TypeInv, PlacedInv
  <1>3. CASE free /= NoSlot
    <2>1. ht' = [ht EXCEPT ![free] = cur] /\ Succeed
      BY <1>3
    <2>2. /\ free \in DOMAIN ht /\ free \in {Slot1(cur.id, ht), Slot2(cur.id, ht)}
          /\ \A r \in DOMAIN ht : ht[r].id = cur.id => r = free
      BY <1>1, <1>3, FreeSlotFacts
    <2> HIDE DEF free
    <2>3. IsTable(ht') /\ EntriesPlaced(ht)'
      BY <1>1, <2>1, <2>2, PutPlaced, StepPlaced
    <2>4. TypeInv'
      BY <1>2, <2>1, <2>3, ClassesUnchanged, PairFacts DEF Inv, TypeInv, Succeed, TryInsertReturns
    <2>5. PlacedInv'
      BY <1>2, <2>1, <2>3, ClassesUnchanged DEF Inv, TypeInv, PlacedInv, TablesPlaced, Succeed
    <2>6. QED BY <2>4, <2>5 DEF Inv
  <1>4. CASE free = NoSlot
    <2>1. /\ pos' = Slot1(cur.id, ht) /\ pc' = "evict"
          /\ UNCHANGED <<ht, key, cur>>
      BY <1>4
    <2>2. ~Occurs(cur.id, ht) /\ ht[Slot1(cur.id, ht)].id /= 0
      BY <1>1, <1>4, FreeSlotFacts
    <2>3. IsTable(ht') /\ EntriesPlaced(ht)'
      BY <1>1, <2>1, StepPlaced
    <2>4. TypeInv'
      BY <1>2, <2>1, <2>3, ClassesUnchanged DEF Inv, TypeInv
    <2>5. Slot1(cur.id, ht)' = Slot1(cur.id, ht) /\ Slot2(cur.id, ht)' = Slot2(cur.id, ht)
      BY <2>1 DEF Slot1, Slot2, Size
    <2>6. PlacedInv'
      BY <1>1, <1>2, <2>1, <2>2, <2>3, <2>5, ClassesUnchanged
      DEF Inv, TypeInv, PlacedInv, TablesPlaced, Occurs
    <2>7. QED BY <2>4, <2>6 DEF Inv
  <1>5. QED BY <1>3, <1>4

\* The victim of an eviction round, its other slot, and what is known of them.
LEMMA EvictFacts ==
    ASSUME Inv, pc = "evict"
    PROVE  /\ HashOK /\ IsTable(ht) /\ EntriesPlaced(ht)
           /\ cur \in Pairs /\ cur.id \in Keys /\ cur.id /= 0
           /\ pos \in DOMAIN ht
           /\ ht[pos] \in Pairs /\ ht[pos].id \in Keys /\ ht[pos].id /= 0
           /\ ht[pos].id /= cur.id
           /\ \A r \in DOMAIN ht : ht[r].id /= cur.id
           /\ \A r \in DOMAIN ht : ht[r].id = ht[pos].id => r = pos
           /\ OtherSlot(ht[pos].id, pos, ht) \in DOMAIN ht
           /\ OtherSlot(ht[pos].id, pos, ht) \in {Slot1(ht[pos].id, ht), Slot2(ht[pos].id, ht)}
           /\ IsTable([ht EXCEPT ![pos] = cur]) /\ EntriesPlaced([ht EXCEPT ![pos] = cur])
           /\ DOMAIN [ht EXCEPT ![pos] = cur] = DOMAIN ht
           /\ \A r \in DOMAIN ht : [ht EXCEPT ![pos] = cur][r] = IF r = pos THEN cur ELSE ht[r]
  <1>1. /\ HashOK /\ IsTable(ht) /\ EntriesPlaced(ht)
        /\ cur \in Pairs /\ cur.id \in Keys /\ cur.id /= 0
    BY PairFacts DEF Inv, TypeInv, PlacedInv, TablesPlaced
  <1>2. /\ pos \in DOMAIN ht /\ pos \in {Slot1(cur.id, ht), Slot2(cur.id, ht)}
        /\ ht[pos].id /= 0
    BY <1>1, SlotsInTable DEF Inv, PlacedInv
  <1>3. \A r \in DOMAIN ht : ht[r].id /= cur.id
    BY DEF Inv, PlacedInv, Occurs
  <1>4. ht[pos] \in Pairs /\ ht[pos].id \in Keys
    BY <1>1, <1>2, PairFacts DEF EntriesPlaced
  <1>5. \A r \in DOMAIN ht : ht[r].id = ht[pos].id => r = pos
    BY <1>1, <1>2 DEF EntriesPlaced
  <1>6. /\ OtherSlot(ht[pos].id, pos, ht) \in DOMAIN ht
        /\ OtherSlot(ht[pos].id, pos, ht) \in {Slot1(ht[pos].id, ht), Slot2(ht[pos].id, ht)}
    BY <1>1, <1>4, SlotsInTable DEF OtherSlot
  <1>7. /\ IsTable([ht EXCEPT ![pos] = cur]) /\ EntriesPlaced([ht EXCEPT ![pos] = cur])
        /\ DOMAIN [ht EXCEPT ![pos] = cur] = DOMAIN ht
        /\ \A r \in DOMAIN ht : [ht EXCEPT ![pos] = cur][r] = IF r = pos THEN cur ELSE ht[r]
    BY <1>1, <1>2, <1>3, PutPlaced
  <1>8. QED BY <1>1, <1>2, <1>3, <1>4, <1>5, <1>6, <1>7

\* A round of TryInsert: the victim goes to its other slot, displaces the next, or is
\* the pair left over when the rounds are used up.
LEMMA EvictInv ==
    ASSUME Inv, Evict
    PROVE  Inv'
  <1> DEFINE victim == ht[pos]
             other == OtherSlot(victim.id, pos, ht)
             t == [ht EXCEPT ![pos] = cur]
  <1>1. /\ HashOK /\ cur \in Pairs /\ cur.id /= 0
        /\ victim \in Pairs /\ victim.id \in Keys /\ victim.id /= 0 /\ victim.id /= cur.id
        /\ \A r \in DOMAIN ht : ht[r].id = victim.id => r = pos
        /\ pos \in DOMAIN ht /\ other \in DOMAIN ht
        /\ other \in {Slot1(victim.id, ht), Slot2(victim.id, ht)}
        /\ IsTable(t) /\ EntriesPlaced(t) /\ DOMAIN t = DOMAIN ht
        /\ \A r \in DOMAIN ht : t[r] = IF r = pos THEN cur ELSE ht[r]
    BY EvictFacts DEF Evict
  <1>2. /\ pc = "evict"
        /\ UNCHANGED <<hash, classes, old, i, rehashing, defined, methods>>
        /\ \/ t[other].id = 0 /\ ht' = [t EXCEPT ![other] = victim] /\ Succeed
           \/ /\ t[other].id /= 0 /\ ht' = t
              /\ \/ Fail(victim)
                 \/ cur' = victim /\ pos' = other /\ UNCHANGED <<pc, key>>
    BY DEF Evict
  <1>3. IsTable(old') /\ EntriesPlaced(old)'
    BY <1>2, StepPlaced DEF Inv, TypeInv, PlacedInv
  <1> HIDE DEF victim, other, t
  <1>4. \A r \in DOMAIN t : t[r].id /= victim.id
    BY <1>1
  <1>5. \A k : Slot1(k, t) = Slot1(k, ht) /\ Slot2(k, t) = Slot2(k, ht)
    BY <1>1, SameSlots
  <1>6. CASE t[other].id = 0 /\ ht' = [t EXCEPT ![other] = victim] /\ Succeed
    <2>1. IsTable([t EXCEPT ![other] = victim]) /\ EntriesPlaced([t EXCEPT ![other] = victim])
      <3>1. other \in DOMAIN t /\ other \in {Slot1(victim.id, t), Slot2(victim.id, t)}
        BY <1>1, <1>5
      <3>2. \A r \in DOMAIN t : t[r].id = victim.id => r = other
        BY <1>4
      <3>3. QED BY <1>1, <3>1, <3>2, PutPlaced
    <2>2. IsTable(ht') /\ EntriesPlaced(ht)'
      BY <1>2, <1>6, <2>1, StepPlaced
    <2>3. TypeInv'
      BY <1>2, <1>3, <1>6, <2>2, ClassesUnchanged, PairFacts DEF Inv, TypeInv, Succeed, TryInsertReturns
    <2>4. PlacedInv'
      BY <1>2, <1>3, <1>6, <2>2, ClassesUnchanged DEF Inv, TypeInv, PlacedInv, TablesPlaced, Succeed
    <2>5. QED BY <2>3, <2>4 DEF Inv
  <1>7. CASE t[other].id /= 0 /\ ht' = t /\ Fail(victim)
    <2>1. IsTable(ht') /\ EntriesPlaced(ht)'
      BY <1>1, <1>2, <1>7, StepPlaced
    <2>2. TypeInv'
      BY <1>1, <1>2, <1>3, <1>7, <2>1, ClassesUnchanged, PairFacts DEF Inv, TypeInv, Fail, TryInsertReturns
    <2>3. PlacedInv'
      BY <1>1, <1>2, <1>3, <1>7, <2>1, ClassesUnchanged DEF Inv, TypeInv, PlacedInv, TablesPlaced, Fail
    <2>4. QED BY <2>2, <2>3 DEF Inv
  <1>8. CASE t[other].id /= 0 /\ ht' = t /\ cur' = victim /\ pos' = other /\ UNCHANGED <<pc, key>>
    <2>1. IsTable(ht') /\ EntriesPlaced(ht)'
      BY <1>1, <1>2, <1>8, StepPlaced
    <2>2. TypeInv'
      BY <1>1, <1>2, <1>3, <1>8, <2>1, ClassesUnchanged DEF Inv, TypeInv
    <2>3. (~Occurs(cur.id, ht))'
      BY <1>4, <1>8 DEF Occurs
    <2>4. Slot1(cur.id, ht)' = Slot1(victim.id, ht) /\ Slot2(cur.id, ht)' = Slot2(victim.id, ht)
      BY <1>1, <1>2, <1>8 DEF Slot1, Slot2, Size
    <2>5. pos' \in {Slot1(cur.id, ht)', Slot2(cur.id, ht)'} /\ ht'[pos'].id /= 0 /\ cur'.id /= 0
      BY <1>1, <1>8, <2>4
    <2>6. PlacedInv'
      BY <1>2, <1>3, <1>8, <2>1, <2>3, <2>5, ClassesUnchanged DEF Inv, TypeInv, PlacedInv, TablesPlaced
    <2>7. QED BY <2>2, <2>6 DEF Inv
  <1>9. QED BY <1>2, <1>6, <1>7, <1>8

\* Resize sets up a table twice as large and begins to copy.
LEMMA ResizeInv ==
    ASSUME Inv, Resize
    PROVE  Inv'
  <1> USE DEF Resize
  <1>1. PICK n \in Nat \ {0} : DOMAIN ht = 0..(n - 1)
    BY DEF Inv, TypeInv, IsTable
  <1>2. 2 * Size(ht) \in Nat \ {0}
    BY <1>1, SizeOfTable
  <1>3. IsTable(ht') /\ EntriesPlaced(ht)'
    BY <1>2, EmptyTablePlaced, StepPlaced
  <1>4. IsTable(old') /\ EntriesPlaced(old)'
    BY StepPlaced DEF Inv, TypeInv, PlacedInv, TablesPlaced
  <1>5. TypeInv'
    BY <1>3, <1>4, ClassesUnchanged DEF Inv, TypeInv
  <1>6. PlacedInv'
    BY <1>3, <1>4, ClassesUnchanged DEF Inv, TypeInv, PlacedInv, TablesPlaced
  <1>7. QED BY <1>5, <1>6 DEF Inv

\* A table that would exceed the limit stops the program.
LEMMA TableTooLargeInv ==
    ASSUME Inv, TableTooLarge
    PROVE  Inv'
  <1> USE DEF TableTooLarge, loop
  <1>1. IsTable(ht') /\ EntriesPlaced(ht)' /\ IsTable(old') /\ EntriesPlaced(old)'
    BY StepPlaced DEF Inv, TypeInv, PlacedInv, TablesPlaced
  <1>2. TypeInv'
    BY <1>1, ClassesUnchanged DEF Inv, TypeInv
  <1>3. PlacedInv'
    BY <1>1, ClassesUnchanged DEF Inv, TypeInv, PlacedInv, TablesPlaced
  <1>4. QED BY <1>2, <1>3 DEF Inv

\* Resize copies the next entry of the old table, or skips an empty slot.
LEMMA ReinsertInv ==
    ASSUME Inv, Reinsert
    PROVE  Inv'
  <1> USE DEF Reinsert
  <1>1. IsTable(ht') /\ EntriesPlaced(ht)' /\ IsTable(old') /\ EntriesPlaced(old)'
    BY StepPlaced DEF Inv, TypeInv, PlacedInv, TablesPlaced
  <1>2. i \in DOMAIN old
    <2>1. PICK n \in Nat \ {0} : DOMAIN old = 0..(n - 1)
      BY DEF Inv, TypeInv, IsTable
    <2>2. Size(old) = n /\ i \in Nat /\ i < Size(old)
      BY <2>1, SizeOfTable DEF Inv, TypeInv
    <2>3. QED BY <2>1, <2>2
  <1>3. old[i] \in Pairs
    BY <1>2 DEF Inv, PlacedInv, EntriesPlaced
  <1>4. TypeInv'
    BY <1>1, <1>3, ClassesUnchanged DEF Inv, TypeInv
  <1>5. PlacedInv'
    BY <1>1, ClassesUnchanged DEF Inv, TypeInv, PlacedInv, TablesPlaced
  <1>6. QED BY <1>4, <1>5 DEF Inv

\* After Resize the pair that did not fit is inserted again.
LEMMA RetryInsertInv ==
    ASSUME Inv, RetryInsert
    PROVE  Inv'
  <1> USE DEF RetryInsert
  <1>1. IsTable(ht') /\ EntriesPlaced(ht)' /\ IsTable(old') /\ EntriesPlaced(old)'
    BY EmptyTablePlaced, StepPlaced DEF Inv, TypeInv, PlacedInv, TablesPlaced
  <1>2. TypeInv'
    BY <1>1, ClassesUnchanged DEF Inv, TypeInv
  <1>3. PlacedInv'
    BY <1>1, ClassesUnchanged DEF Inv, TypeInv, PlacedInv, TablesPlaced
  <1>4. QED BY <1>2, <1>3 DEF Inv

\* Appending to a sequence.
LEMMA AppendFacts ==
    ASSUME NEW q, \E S : q \in Seq(S), NEW e
    PROVE  /\ \E S : Append(q, e) \in Seq(S)
           /\ Len(q) \in Nat /\ Len(Append(q, e)) = Len(q) + 1
           /\ \A c \in 1..Len(q) : Append(q, e)[c] = q[c]
           /\ Append(q, e)[Len(q) + 1] = e
  <1>1. PICK S : q \in Seq(S)
    OBVIOUS
  <1>2. q \in Seq(S \union {e}) /\ e \in S \union {e}
    BY <1>1
  <1>3. QED BY <1>2

\* A finished class is recorded with its table.
LEMMA FinishClassInv ==
    ASSUME Inv, NEW system \in BOOLEAN, FinishClass(system)
    PROVE  Inv'
  <1> USE DEF FinishClass, loop
  <1>1. IsTable(EmptyTable(1)) /\ EntriesPlaced(EmptyTable(1))
    BY EmptyTablePlaced
  <1>2. IsTable(ht') /\ EntriesPlaced(ht)' /\ IsTable(old') /\ EntriesPlaced(old)'
    BY <1>1, StepPlaced DEF Inv, TypeInv, PlacedInv, TablesPlaced
  <1>3. CASE system /\ Size(ht) /= BootstrapSize
    <2>1. TypeInv'
      BY <1>2, <1>3, ClassesUnchanged DEF Inv, TypeInv
    <2>2. PlacedInv'
      BY <1>2, <1>3, ClassesUnchanged DEF Inv, TypeInv, PlacedInv, TablesPlaced
    <2>3. QED BY <2>1, <2>2 DEF Inv
  <1>4. CASE ~(system /\ Size(ht) /= BootstrapSize)
    <2> DEFINE cl == [ht |-> ht, methods |-> methods, lost |-> lost]
    <2>1. /\ pc' = "none" /\ classes' = Append(classes, cl)
          /\ methods' = [k \in Keys |-> 0]
          /\ UNCHANGED <<hash, key, cur, pos, rounds, old, i, rehashing>>
      BY <1>4
    <2>2. cl.ht = ht /\ cl.methods = methods
      OBVIOUS
    <2> HIDE DEF cl
    <2>3. /\ (\E S : classes \in Seq(S))' /\ Len(classes) \in Nat /\ Len(classes') = Len(classes) + 1
          /\ \A c \in 1..Len(classes) : classes'[c] = classes[c]
          /\ classes'[Len(classes) + 1] = cl
      <3>1. \E S : classes \in Seq(S)
        BY DEF Inv, TypeInv
      <3>2. /\ \E S : Append(classes, cl) \in Seq(S)
            /\ Len(classes) \in Nat /\ Len(Append(classes, cl)) = Len(classes) + 1
            /\ \A c \in 1..Len(classes) : Append(classes, cl)[c] = classes[c]
            /\ Append(classes, cl)[Len(classes) + 1] = cl
        BY <3>1, AppendFacts
      <3>3. QED BY <2>1, <3>2
    <2>4. /\ ClassIds' = ClassIds \union {Len(classes) + 1}
          /\ \A c \in ClassIds' : (c \in ClassIds /\ classes'[c] = classes[c]) \/ classes'[c] = cl
      BY <2>3 DEF ClassIds
    <2>5. methods' \in [Keys -> 0..MaxClasses]
      BY <2>1, MethodTableAssumption
    <2>6. ASSUME NEW c \in ClassIds'
          PROVE  /\ IsTable(classes'[c].ht) /\ classes'[c].methods \in [Keys -> 0..MaxClasses]
                 /\ EntriesPlaced(classes'[c].ht)
      BY <2>2, <2>4 DEF Inv, TypeInv, PlacedInv, TablesPlaced
    <2>7. ASSUME NEW c \in ClassIds'
          PROVE  EntriesPlaced(classes[c].ht)'
      BY <2>1, <2>6 DEF EntriesPlaced, Slot1, Slot2, Size
    <2>8. TypeInv'
      <3>1. HashOK' /\ Len(classes') <= MaxClasses
        BY <2>1, <2>3, MethodTableAssumption DEF Inv, TypeInv, HashOK
      <3>2. key' \in Pairs /\ cur' \in Pairs /\ i' \in Nat /\ rehashing' = FALSE
        BY <2>1 DEF Inv, TypeInv
      <3>3. QED BY <1>2, <2>1, <2>3, <2>5, <2>6, <3>1, <3>2 DEF TypeInv
    <2>9. PlacedInv'
      <3>1. rehashing' = FALSE
        BY <2>1 DEF Inv, TypeInv
      <3>2. TablesPlaced'
        BY <1>2, <2>7 DEF TablesPlaced
      <3>3. QED BY <1>2, <2>1, <3>1, <3>2 DEF PlacedInv
    <2>10. QED BY <2>8, <2>9 DEF Inv
  <1>5. QED BY <1>3, <1>4

\* Nothing changes.
LEMMA StutterInv ==
    ASSUME Inv, UNCHANGED vars
    PROVE  Inv'
  <1> USE DEF vars
  <1>1. IsTable(ht') /\ EntriesPlaced(ht)' /\ IsTable(old') /\ EntriesPlaced(old)'
    BY StepPlaced DEF Inv, TypeInv, PlacedInv, TablesPlaced
  <1>2. TypeInv'
    BY <1>1, ClassesUnchanged DEF Inv, TypeInv
  <1>3. PlacedInv'
    BY <1>1, ClassesUnchanged DEF Inv, TypeInv, PlacedInv, TablesPlaced, Occurs, Slot1, Slot2, Size
  <1>4. QED BY <1>2, <1>3 DEF Inv

\* Every step keeps the invariant.
LEMMA NextInv == Inv /\ [Next]_vars => Inv'
  BY BeginClassInv, InsertInv, TryInsertInv, EvictInv, ResizeInv, TableTooLargeInv,
     ReinsertInv, RetryInsertInv, FinishClassInv, StutterInv DEF Next, Step

\* Every table, under construction or finished, keeps each method in a slot
\* that a lookup of its selector probes, and the pending pairs are well typed.
THEOREM MethodTableInvariant == Spec => []Inv
  BY InitInv, NextInv, PTL DEF Spec

\* In the table under construction, in the middle of an insertion or of a resize
\* too, and in every class, a selector occurs at most once and in one of its two
\* slots: GetMethod, which looks nowhere else, finds the only entry, and the
\* victim of an eviction is always in one of its own slots.
THEOREM TablesArePlaced == Spec => []TablesPlaced
  <1>1. Inv => TablesPlaced
    BY DEF Inv, PlacedInv
  <1>2. QED BY <1>1, MethodTableInvariant, PTL

-----------------------------------------------------------------------------
\* GetMethod on a table whose entries are placed.
LEMMA GetMethodFacts ==
    ASSUME HashOK, NEW t, IsTable(t), EntriesPlaced(t), NEW k \in Keys
    PROVE  /\ ~Occurs(k, t) => GetMethod(t, k) = 0
           /\ \A s \in DOMAIN t : t[s].id = k => GetMethod(t, k) = t[s].fn
  <1>1. Slot1(k, t) \in DOMAIN t /\ Slot2(k, t) \in DOMAIN t
    BY SlotsInTable
  <1>2. k /= 0
    BY MethodTableAssumption
  <1>3. \A r \in DOMAIN t : t[r].id = k => r \in {Slot1(k, t), Slot2(k, t)}
    BY <1>2 DEF EntriesPlaced
  <1>4. \A r1, r2 \in DOMAIN t : t[r1].id = k /\ t[r2].id = k => r1 = r2
    BY <1>2 DEF EntriesPlaced
  <1>5. QED BY <1>1, <1>3, <1>4 DEF GetMethod, Occurs

\* A step that leaves finished classes alone leaves the answers of lookups alone.
LEMMA AnswersUnchanged ==
    ASSUME Inv, ClassesAnswer, UNCHANGED <<hash, classes>>
    PROVE  ClassesAnswer'
  BY DEF ClassesAnswer, ClassIds, GetMethod, Answer, Slot1, Slot2, Size

\* A table between two insertions answers with the methods of the class.
LEMMA IdleAnswers ==
    ASSUME Inv, ContentInv, pc = "idle", NEW k \in Keys
    PROVE  GetMethod(ht, k) = Answer(methods, lost, k)
  <1>1. HashOK /\ IsTable(ht) /\ EntriesPlaced(ht) /\ ~rehashing /\ methods[k] \in 0..MaxClasses
    BY DEF Inv, TypeInv, PlacedInv, TablesPlaced
  <1>2. k /= 0
    BY MethodTableAssumption
  <1>3. CASE Occurs(k, ht)
    BY <1>1, <1>2, <1>3, GetMethodFacts DEF Occurs, ContentInv, TableAgrees, Replaced, Answer
  <1>4. CASE ~Occurs(k, ht)
    <2>1. \A p \in Pairs : ~Pending(p)
      BY <1>1 DEF Pending
    <2>2. k \in lost \/ methods[k] = 0
      BY <1>4, <2>1 DEF ContentInv, NoneLost
    <2>3. QED BY <1>1, <1>4, <2>2, GetMethodFacts DEF Answer
  <1>5. QED BY <1>3, <1>4

\* There is nothing to find at the start.
LEMMA InitFound == Init => FoundInv
  <1> SUFFICES ASSUME Init PROVE FoundInv
    OBVIOUS
  <1>1. \A s \in DOMAIN ht : ht[s] = None
    BY EmptyTablePlaced DEF Init
  <1>2. ClassIds = {}
    BY DEF Init, ClassIds
  <1>3. \A k \in Keys : methods[k] = 0
    BY DEF Init
  <1>4. rehashing = FALSE /\ pc = "none"
    BY DEF Init
  <1>5. TableAgrees
    BY <1>1, PairFacts DEF TableAgrees
  <1>6. PendingAgrees /\ PendingDistinct
    BY <1>4 DEF PendingAgrees, PendingDistinct, Pending
  <1>7. NoneLost
    BY <1>3 DEF NoneLost
  <1>8. QED BY <1>2, <1>5, <1>6, <1>7 DEF FoundInv, ContentInv, ClassesAnswer

\* The inherited table answers for the new class before it has methods of its own.
LEMMA BeginClassFound ==
    ASSUME Inv, FoundInv, NEW c \in ClassIds \union {0}, BeginClass(c)
    PROVE  FoundInv'
  <1> USE DEF BeginClass, loop
  <1>1. ClassesAnswer'
    BY AnswersUnchanged DEF FoundInv
  <1>2. ~rehashing' /\ pc' = "idle"
    BY DEF Inv, TypeInv
  <1>3. PendingAgrees' /\ PendingDistinct'
    BY <1>2 DEF PendingAgrees, PendingDistinct, Pending
  <1>4. TableAgrees' /\ NoneLost'
    <2>1. CASE c = 0
      <3>1. \A s \in DOMAIN ht' : ht'[s] = None
        BY <2>1, EmptyTablePlaced
      <3>2. \A k \in Keys : methods'[k] = 0
        BY <2>1
      <3>3. QED BY <3>1, <3>2, PairFacts DEF TableAgrees, NoneLost
    <2>2. CASE c /= 0
      <3> DEFINE t == classes[c].ht
                 ms == classes[c].methods
                 gone == classes[c].lost
      <3>1. /\ HashOK /\ IsTable(t) /\ EntriesPlaced(t)
            /\ \A k \in Keys : GetMethod(t, k) = Answer(ms, gone, k)
            /\ ht' = t /\ methods' = ms /\ lost' = gone
        BY <2>2 DEF Inv, TypeInv, PlacedInv, TablesPlaced, FoundInv, ClassesAnswer
      <3> HIDE DEF t, ms, gone
      <3>2. \A s \in DOMAIN t : t[s].id /= 0 => t[s].id \in Keys /\ t[s].fn /= 0
        BY <3>1, PairFacts DEF EntriesPlaced
      <3>3. \A s \in DOMAIN t : t[s].id /= 0 => t[s].id \notin gone /\ t[s].fn = ms[t[s].id]
        BY <3>1, <3>2, GetMethodFacts DEF Answer
      <3>4. \A k \in Keys \ gone : ms[k] /= 0 => Occurs(k, t)
        BY <3>1, GetMethodFacts DEF Answer
      <3>5. TableAgrees'
        BY <3>1, <3>3 DEF TableAgrees
      <3>6. NoneLost'
        BY <3>1, <3>4 DEF NoneLost, Occurs
      <3>7. QED BY <3>5, <3>6
    <2>3. QED BY <2>1, <2>2
  <1>5. QED BY <1>1, <1>3, <1>4 DEF FoundInv, ContentInv

\* The method in hand is the only one that the table does not answer for.
LEMMA InsertFound ==
    ASSUME Inv, FoundInv, NEW k \in Keys, Insert(k)
    PROVE  FoundInv'
  <1> USE DEF Insert
  <1> DEFINE f == Len(classes) + 1
  <1>1. ClassesAnswer'
    BY AnswersUnchanged DEF FoundInv
  <1>2. /\ ContentInv /\ ~rehashing /\ pc = "idle"
        /\ methods \in [Keys -> 0..MaxClasses]
        /\ EntriesPlaced(ht) /\ \A s \in DOMAIN ht : ht[s].id /= 0 => ht[s].id \in Keys
    BY PairFacts DEF FoundInv, Inv, TypeInv, PlacedInv, TablesPlaced, EntriesPlaced
  <1>3. /\ rehashing' = FALSE /\ pc' = "try" /\ ht' = ht
        /\ cur' = [id |-> k, fn |-> f]
        /\ cur'.id = k /\ cur'.fn = f
        /\ methods' = [methods EXCEPT ![k] = f] /\ lost' = lost \ {k}
    OBVIOUS
  <1>4. cur' \in Pairs
    BY InsertInv DEF Inv, TypeInv
  <1> HIDE DEF f, Insert
  <1>5. /\ \A k2 : Replaced(k2)' <=> k2 = k
        /\ \A p : Pending(p)' <=> p = cur'
    BY <1>3 DEF Replaced, Pending
  <1>6. /\ \A k2 : Replaced(k2) <=> FALSE
        /\ \A p : Pending(p) <=> FALSE
    BY <1>2 DEF Replaced, Pending
  <1>7. TableAgrees'
    BY <1>2, <1>3, <1>5, <1>6 DEF ContentInv, TableAgrees
  <1>8. PendingAgrees'
    BY <1>2, <1>3, <1>5 DEF PendingAgrees
  <1>9. NoneLost'
    BY <1>2, <1>3, <1>4, <1>5, <1>6 DEF ContentInv, NoneLost, Occurs
  <1>10. PendingDistinct'
    BY <1>3 DEF PendingDistinct
  <1>11. QED BY <1>1, <1>7, <1>8, <1>9, <1>10 DEF FoundInv, ContentInv

\* Placing, replacing or taking a victim in hand loses no method.
LEMMA TryInsertFound ==
    ASSUME Inv, FoundInv, TryInsert
    PROVE  FoundInv'
  <1> USE DEF TryInsert
  <1> DEFINE free == FreeSlot(cur.id, ht)
             Rest(p) == rehashing /\ (p = key \/ \E j \in DOMAIN old : j >= i /\ p = old[j])
  <1>1. ClassesAnswer'
    BY AnswersUnchanged DEF FoundInv
  <1>2. /\ ContentInv /\ cur \in Pairs /\ cur.id \in Keys /\ cur.id /= 0
        /\ HashOK /\ IsTable(ht) /\ EntriesPlaced(ht)
        /\ \A s \in DOMAIN ht : ht[s].id /= 0 => ht[s].id \in Keys
        /\ pc = "try"
    BY PairFacts DEF FoundInv, Inv, TypeInv, PlacedInv, TablesPlaced, EntriesPlaced
  <1>3. \A p : Pending(p) <=> p = cur \/ Rest(p)
    BY <1>2 DEF Pending
  <1>4. methods[cur.id] = cur.fn /\ cur.id \notin lost
    BY <1>2, <1>3 DEF ContentInv, PendingAgrees
  <1>5. \A p \in Pairs : Rest(p) /\ p.id /= 0 =>
            p.id /= cur.id /\ methods[p.id] = p.fn /\ p.id \notin lost /\ ~Occurs(p.id, ht)
    <2>1. SUFFICES ASSUME NEW p \in Pairs, Rest(p), p.id /= 0
                   PROVE  p.id /= cur.id /\ methods[p.id] = p.fn /\ p.id \notin lost /\ ~Occurs(p.id, ht)
      OBVIOUS
    <2>2. p.id /= cur.id
      BY <1>2, <2>1 DEF ContentInv, PendingDistinct
    <2>3. ~Replaced(p.id)
      BY <2>1 DEF Replaced
    <2>4. QED BY <1>2, <1>3, <2>1, <2>2, <2>3 DEF ContentInv, PendingAgrees
  <1>6. CASE free /= NoSlot
    <2>1. ht' = [ht EXCEPT ![free] = cur] /\ Succeed
      BY <1>6
    <2>2. /\ free \in DOMAIN ht /\ ht[free].id \in {0, cur.id}
          /\ \A r \in DOMAIN ht : ht[r].id = cur.id => r = free
      BY <1>2, <1>6, FreeSlotFacts
    <2>3. /\ DOMAIN ht' = DOMAIN ht
          /\ \A r \in DOMAIN ht : ht'[r] = IF r = free THEN cur ELSE ht[r]
      BY <2>1, <2>2
    <2>4. /\ methods' = methods /\ lost' = lost /\ rehashing' = rehashing /\ pc' \in {"rehash", "idle"}
          /\ rehashing => UNCHANGED <<key, old, i>>
      BY <2>1 DEF Succeed
    <2>5. \A p : Pending(p)' <=> Rest(p)
      BY <2>4 DEF Pending
    <2> HIDE DEF free, Rest, TryInsert
    <2>6. TableAgrees'
      BY <1>2, <1>4, <2>2, <2>3, <2>4 DEF ContentInv, TableAgrees, Replaced
    <2>7. PendingAgrees'
      BY <1>5, <2>2, <2>3, <2>4, <2>5 DEF PendingAgrees, Occurs
    <2>8. NoneLost'
      BY <1>2, <1>3, <2>2, <2>3, <2>4, <2>5, MethodTableAssumption DEF ContentInv, NoneLost, Occurs
    <2>9. PendingDistinct'
      BY <1>2, <2>4 DEF ContentInv, PendingDistinct
    <2>10. QED BY <1>1, <2>6, <2>7, <2>8, <2>9 DEF FoundInv, ContentInv
  <1>7. CASE free = NoSlot
    <2>1. /\ pc' = "evict"
          /\ UNCHANGED <<ht, key, cur, methods, lost, old, i, rehashing>>
      BY <1>7
    <2>2. ~Occurs(cur.id, ht)
      BY <1>2, <1>7, FreeSlotFacts
    <2>3. \A p : Pending(p)' <=> p = cur \/ Rest(p)
      BY <2>1 DEF Pending
    <2> HIDE DEF free, Rest, TryInsert
    <2>4. TableAgrees'
      BY <1>2, <2>1, <2>2 DEF ContentInv, TableAgrees, Replaced, Occurs
    <2>5. PendingAgrees'
      BY <1>4, <1>5, <2>1, <2>2, <2>3 DEF PendingAgrees, Occurs
    <2>6. NoneLost'
      BY <1>2, <1>3, <2>1, <2>3 DEF ContentInv, NoneLost, Occurs
    <2>7. PendingDistinct'
      BY <1>2, <2>1 DEF ContentInv, PendingDistinct
    <2>8. QED BY <1>1, <2>4, <2>5, <2>6, <2>7 DEF FoundInv, ContentInv
  <1>8. QED BY <1>6, <1>7

\* A round loses no method, unless it gives up in a reinsertion: the victim is lost.
LEMMA EvictFound ==
    ASSUME Inv, FoundInv, Evict
    PROVE  FoundInv'
  <1> DEFINE victim == ht[pos]
             other == OtherSlot(victim.id, pos, ht)
             t == [ht EXCEPT ![pos] = cur]
             Rest(p) == rehashing /\ (p = key \/ \E j \in DOMAIN old : j >= i /\ p = old[j])
  <1>1. ClassesAnswer'
    BY AnswersUnchanged DEF FoundInv, Evict
  <1>2. /\ cur \in Pairs /\ cur.id \in Keys /\ cur.id /= 0
        /\ victim \in Pairs /\ victim.id \in Keys /\ victim.id /= 0 /\ victim.id /= cur.id
        /\ \A r \in DOMAIN ht : ht[r].id /= cur.id
        /\ \A r \in DOMAIN ht : ht[r].id = victim.id => r = pos
        /\ pos \in DOMAIN ht /\ other \in DOMAIN ht
        /\ DOMAIN t = DOMAIN ht
        /\ \A r \in DOMAIN ht : t[r] = IF r = pos THEN cur ELSE ht[r]
    BY EvictFacts DEF Evict
  <1>3. /\ pc = "evict" /\ ContentInv
        /\ UNCHANGED <<hash, classes, old, i, rehashing, defined, methods>>
        /\ \/ t[other].id = 0 /\ ht' = [t EXCEPT ![other] = victim] /\ Succeed /\ UNCHANGED lost
           \/ /\ t[other].id /= 0 /\ ht' = t
              /\ \/ Fail(victim)
                 \/ cur' = victim /\ pos' = other /\ UNCHANGED <<pc, key, lost>>
    BY DEF Evict, FoundInv
  <1>4. \A p : Pending(p) <=> p = cur \/ Rest(p)
    BY <1>3 DEF Pending
  <1>5. \A k : ~Replaced(k)
    BY <1>3 DEF Replaced
  <1>6. /\ methods[cur.id] = cur.fn /\ methods[victim.id] = victim.fn
        /\ cur.id \notin lost /\ victim.id \notin lost
    <2>1. methods[cur.id] = cur.fn /\ cur.id \notin lost
      BY <1>2, <1>3, <1>4 DEF ContentInv, PendingAgrees
    <2>2. methods[victim.id] = victim.fn /\ victim.id \notin lost
      BY <1>2, <1>3, <1>5 DEF ContentInv, TableAgrees
    <2>3. QED BY <2>1, <2>2
  <1>7. \A p \in Pairs : Rest(p) /\ p.id /= 0 =>
            p.id /= cur.id /\ methods[p.id] = p.fn /\ p.id \notin lost /\ ~Occurs(p.id, ht)
    <2>1. SUFFICES ASSUME NEW p \in Pairs, Rest(p), p.id /= 0
                   PROVE  p.id /= cur.id /\ methods[p.id] = p.fn /\ p.id \notin lost /\ ~Occurs(p.id, ht)
      OBVIOUS
    <2>2. p.id /= cur.id
      BY <1>3, <2>1 DEF ContentInv, PendingDistinct
    <2>3. QED BY <1>3, <1>4, <1>5, <2>1, <2>2 DEF ContentInv, PendingAgrees
  <1> HIDE DEF victim, other, t, Rest
  <1>8. CASE t[other].id = 0 /\ ht' = [t EXCEPT ![other] = victim] /\ Succeed /\ UNCHANGED lost
    <2>1. /\ DOMAIN ht' = DOMAIN ht /\ other /= pos
          /\ \A r \in DOMAIN ht : ht'[r] = IF r = other THEN victim ELSE IF r = pos THEN cur ELSE ht[r]
      BY <1>2, <1>8
    <2>2. /\ pc' \in {"rehash", "idle"}
          /\ rehashing => UNCHANGED key
      BY <1>8 DEF Succeed
    <2>3. \A p : Pending(p)' <=> Rest(p)
      BY <1>3, <2>2 DEF Pending, Rest
    <2>4. TableAgrees'
      BY <1>3, <1>5, <1>6, <1>8, <2>1 DEF ContentInv, TableAgrees
    <2>5. PendingAgrees'
      <3>1. SUFFICES ASSUME NEW p \in Pairs, Rest(p), p.id /= 0
                     PROVE  methods'[p.id] = p.fn /\ p.id \notin lost' /\ ~Occurs(p.id, ht')
        BY <2>3 DEF PendingAgrees
      <3>2. p.id /= victim.id
        BY <1>2, <1>7, <3>1 DEF Occurs, victim
      <3>3. QED BY <1>3, <1>7, <1>8, <2>1, <3>1, <3>2 DEF Occurs
    <2>6. NoneLost'
      BY <1>2, <1>3, <1>4, <1>8, <2>1, <2>3, MethodTableAssumption DEF ContentInv, NoneLost, Occurs, victim
    <2>7. PendingDistinct'
      BY <1>3, <2>2 DEF ContentInv, PendingDistinct
    <2>8. QED BY <1>1, <2>4, <2>5, <2>6, <2>7 DEF FoundInv, ContentInv
  <1>9. ASSUME ht' = t, lost' = lost,
               \A p : Pending(p)' <=> p = victim \/ Rest(p),
               PendingDistinct',
               pc' \in {"resize", "evict"}
        PROVE  FoundInv'
    <2>1. \A k : ~Replaced(k)'
      BY <1>9 DEF Replaced
    <2>2. TableAgrees'
      BY <1>2, <1>3, <1>5, <1>6, <1>9 DEF ContentInv, TableAgrees
    <2>3. PendingAgrees'
      <3>1. SUFFICES ASSUME NEW p \in Pairs, p = victim \/ Rest(p), p.id /= 0
                     PROVE  methods'[p.id] = p.fn /\ p.id \notin lost' /\ ~Occurs(p.id, ht')
        BY <1>9 DEF PendingAgrees
      <3>2. CASE p = victim
        BY <1>2, <1>3, <1>6, <1>9, <3>2 DEF Occurs
      <3>3. CASE Rest(p)
        BY <1>2, <1>3, <1>7, <1>9, <3>1, <3>3 DEF Occurs
      <3>4. QED BY <3>1, <3>2, <3>3
    <2>4. NoneLost'
      BY <1>2, <1>3, <1>4, <1>9 DEF ContentInv, NoneLost, Occurs, victim
    <2>5. QED BY <1>1, <1>9, <2>2, <2>3, <2>4 DEF FoundInv, ContentInv
  <1>10. CASE t[other].id /= 0 /\ ht' = t /\ ~rehashing /\ Fail(victim)
    <2>1. pc' = "resize" /\ key' = victim /\ ~rehashing' /\ lost' = lost
      BY <1>3, <1>10 DEF Fail
    <2>2. \A p : Pending(p)' <=> p = victim \/ Rest(p)
      BY <1>10, <2>1 DEF Pending, Rest
    <2>3. PendingDistinct'
      BY <2>1 DEF PendingDistinct
    <2>4. QED BY <1>9, <1>10, <2>1, <2>2, <2>3
  <1>11. CASE t[other].id /= 0 /\ ht' = t /\ cur' = victim /\ UNCHANGED <<pc, key, lost>>
    <2>1. \A p : Pending(p)' <=> p = victim \/ Rest(p)
      BY <1>3, <1>11 DEF Pending, Rest
    <2>2. rehashing /\ key \in Pairs /\ key.id /= 0 => key.id /= victim.id
      BY <1>2, <1>7 DEF Rest, Occurs, victim
    <2>3. \A j \in DOMAIN old : rehashing /\ j >= i /\ old[j].id /= 0 => old[j].id /= victim.id
      <3>1. \A j \in DOMAIN old : old[j] \in Pairs
        BY DEF Inv, PlacedInv, EntriesPlaced
      <3>2. QED BY <1>2, <1>7, <3>1 DEF Rest, Occurs, victim
    <2>4. rehashing => key \in Pairs /\ key.id /= 0
      BY DEF Inv, TypeInv, PlacedInv
    <2>5. PendingDistinct'
      BY <1>3, <1>11, <2>2, <2>3, <2>4 DEF ContentInv, PendingDistinct
    <2>6. QED BY <1>3, <1>9, <1>11, <2>1, <2>5
  <1>12. CASE t[other].id /= 0 /\ ht' = t /\ rehashing /\ Fail(victim)
    <2>1. pc' = "rehash" /\ rehashing' /\ key' = key /\ lost' = lost \union {victim.id}
      BY <1>3, <1>12 DEF Fail
    <2>2. \A p : Pending(p)' <=> Rest(p)
      BY <1>3, <1>12, <2>1 DEF Pending, Rest
    <2>3. TableAgrees'
      BY <1>2, <1>3, <1>5, <1>6, <1>12, <2>1 DEF ContentInv, TableAgrees, victim
    <2>4. PendingAgrees'
      <3>1. SUFFICES ASSUME NEW p \in Pairs, Rest(p), p.id /= 0
                     PROVE  methods'[p.id] = p.fn /\ p.id \notin lost' /\ ~Occurs(p.id, ht')
        BY <2>2 DEF PendingAgrees
      <3>2. p.id /= victim.id
        BY <1>2, <1>7, <3>1 DEF Occurs, victim
      <3>3. QED BY <1>2, <1>3, <1>7, <1>12, <2>1, <3>1, <3>2 DEF Occurs
    <2>5. NoneLost'
      BY <1>2, <1>3, <1>4, <1>12, <2>1, <2>2 DEF ContentInv, NoneLost, Occurs, victim
    <2>6. PendingDistinct'
      BY <1>3, <2>1 DEF ContentInv, PendingDistinct
    <2>7. QED BY <1>1, <2>3, <2>4, <2>5, <2>6 DEF FoundInv, ContentInv
  <1>13. QED BY <1>3, <1>8, <1>10, <1>11, <1>12

\* What was in the table is in the old one, still to be copied.
LEMMA ResizeFound ==
    ASSUME Inv, FoundInv, Resize
    PROVE  FoundInv'
  <1>1. ClassesAnswer'
    BY AnswersUnchanged DEF FoundInv, Resize
  <1>2. /\ ContentInv /\ ~rehashing /\ pc = "resize"
        /\ key \in Pairs /\ key.id /= 0
        /\ \A s \in DOMAIN ht : ht[s] \in Pairs
        /\ \A s \in DOMAIN ht : s >= 0
    BY DEF Resize, FoundInv, Inv, TypeInv, PlacedInv, TablesPlaced, EntriesPlaced, IsTable
  <1>3. 2 * Size(ht) \in Nat \ {0}
    <2>1. PICK n \in Nat \ {0} : DOMAIN ht = 0..(n - 1)
      BY DEF Inv, TypeInv, IsTable
    <2>2. QED BY <2>1, SizeOfTable
  <1>4. /\ \A s \in DOMAIN ht' : ht'[s] = None
        /\ \A k : k /= 0 => ~Occurs(k, ht')
    BY <1>3, EmptyTablePlaced DEF Resize
  <1>5. old' = ht /\ i' = 0 /\ rehashing' /\ pc' = "rehash" /\ UNCHANGED <<key, cur, methods, lost>>
    BY DEF Resize
  <1>6. /\ \A p : Pending(p)' <=> p = key \/ \E j \in DOMAIN ht : p = ht[j]
        /\ \A p : Pending(p) <=> p = key
        /\ \A k : ~Replaced(k)
    BY <1>2, <1>5 DEF Pending, Replaced
  <1>7. ~Occurs(key.id, ht) /\ methods[key.id] = key.fn /\ key.id \notin lost
    BY <1>2, <1>6 DEF ContentInv, PendingAgrees
  <1>8. TableAgrees'
    BY <1>4, PairFacts DEF TableAgrees
  <1>9. PendingAgrees'
    <2>1. SUFFICES ASSUME NEW p \in Pairs, p.id /= 0, p = key \/ \E j \in DOMAIN ht : p = ht[j]
                   PROVE  methods'[p.id] = p.fn /\ p.id \notin lost' /\ ~Occurs(p.id, ht')
      BY <1>6 DEF PendingAgrees
    <2>2. methods[p.id] = p.fn /\ p.id \notin lost
      BY <1>2, <1>6, <1>7, <2>1 DEF ContentInv, TableAgrees
    <2>3. QED BY <1>4, <1>5, <2>1, <2>2
  <1>10. NoneLost'
    BY <1>2, <1>5, <1>6 DEF ContentInv, NoneLost, Occurs
  <1>11. PendingDistinct'
    BY <1>5, <1>7 DEF PendingDistinct, Occurs
  <1>12. QED BY <1>1, <1>8, <1>9, <1>10, <1>11 DEF FoundInv, ContentInv

\* What is taken from the old table is in hand.
LEMMA ReinsertFound ==
    ASSUME Inv, FoundInv, Reinsert
    PROVE  FoundInv'
  <1>1. ClassesAnswer'
    BY AnswersUnchanged DEF FoundInv, Reinsert
  <1>2. /\ ContentInv /\ rehashing /\ pc = "rehash"
        /\ \A j \in DOMAIN old : j \in Int /\ old[j] \in Pairs
        /\ \A j1, j2 \in DOMAIN old : old[j1].id /= 0 /\ old[j1].id = old[j2].id => j1 = j2
    BY DEF Reinsert, FoundInv, Inv, TypeInv, PlacedInv, EntriesPlaced, IsTable
  <1>3. i \in DOMAIN old /\ i \in Nat
    <2>1. PICK n \in Nat \ {0} : DOMAIN old = 0..(n - 1)
      BY DEF Inv, TypeInv, IsTable
    <2>2. Size(old) = n /\ i \in Nat /\ i < Size(old)
      BY <2>1, SizeOfTable DEF Inv, TypeInv, Reinsert
    <2>3. QED BY <2>1, <2>2
  <1>4. i' = i + 1 /\ UNCHANGED <<ht, key, old, rehashing, methods, lost>>
    BY DEF Reinsert
  <1>5. /\ \A p : Pending(p) <=> p = key \/ \E j \in DOMAIN old : j >= i /\ p = old[j]
        /\ \A k : ~Replaced(k) /\ ~Replaced(k)'
    BY <1>2, <1>4 DEF Pending, Replaced
  <1>6. \A p : p.id /= 0 => (Pending(p)' <=> Pending(p))
    <2>1. CASE old[i].id = 0
      <3>1. pc' = "rehash"
        BY <1>2, <2>1 DEF Reinsert
      <3>2. \A p : Pending(p)' <=> p = key \/ \E j \in DOMAIN old : j >= i + 1 /\ p = old[j]
        BY <1>2, <1>4, <3>1 DEF Pending
      <3>3. QED BY <1>2, <1>3, <1>5, <2>1, <3>2
    <2>2. CASE old[i].id /= 0
      <3>1. pc' = "try" /\ cur' = old[i]
        BY <2>2 DEF Reinsert
      <3>2. \A p : Pending(p)' <=> p = old[i] \/ p = key \/ \E j \in DOMAIN old : j >= i + 1 /\ p = old[j]
        BY <1>2, <1>4, <3>1 DEF Pending
      <3>3. QED BY <1>2, <1>3, <1>5, <3>2
    <2>3. QED BY <2>1, <2>2
  <1>7. TableAgrees'
    BY <1>2, <1>4, <1>5 DEF ContentInv, TableAgrees
  <1>8. PendingAgrees'
    BY <1>2, <1>4, <1>5, <1>6 DEF ContentInv, PendingAgrees, Occurs
  <1>9. NoneLost'
    BY <1>2, <1>4, <1>6, MethodTableAssumption DEF ContentInv, NoneLost, Occurs
  <1>10. PendingDistinct'
    BY <1>2, <1>3, <1>4 DEF ContentInv, PendingDistinct, Reinsert
  <1>11. QED BY <1>1, <1>7, <1>8, <1>9, <1>10 DEF FoundInv, ContentInv

\* When every slot of the old table is copied, only the pair in hand is missing.
LEMMA RetryInsertFound ==
    ASSUME Inv, FoundInv, RetryInsert
    PROVE  FoundInv'
  <1>1. ClassesAnswer'
    BY AnswersUnchanged DEF FoundInv, RetryInsert
  <1>2. ContentInv /\ rehashing /\ pc = "rehash"
    BY DEF RetryInsert, FoundInv, Inv, TypeInv
  <1>3. \A j \in DOMAIN old : ~(j >= i)
    <2>1. PICK n \in Nat \ {0} : DOMAIN old = 0..(n - 1)
      BY DEF Inv, TypeInv, IsTable
    <2>2. Size(old) = n /\ i = n
      BY <2>1, SizeOfTable DEF RetryInsert
    <2>3. QED BY <2>1, <2>2
  <1>4. /\ cur' = key /\ key' = key /\ rehashing' = FALSE /\ pc' = "try"
        /\ UNCHANGED <<ht, methods, lost>>
    BY DEF RetryInsert
  <1>5. /\ \A p : Pending(p) <=> p = key
        /\ \A p : Pending(p)' <=> p = key
        /\ \A k : ~Replaced(k)
    BY <1>2, <1>3, <1>4 DEF Pending, Replaced
  <1>6. TableAgrees'
    BY <1>2, <1>4, <1>5 DEF ContentInv, TableAgrees
  <1>7. PendingAgrees'
    BY <1>2, <1>4, <1>5 DEF ContentInv, PendingAgrees, Occurs
  <1>8. NoneLost'
    BY <1>2, <1>4, <1>5 DEF ContentInv, NoneLost, Occurs
  <1>9. PendingDistinct'
    BY <1>4 DEF PendingDistinct
  <1>10. QED BY <1>1, <1>6, <1>7, <1>8, <1>9 DEF FoundInv, ContentInv

\* A table with nothing pending answers for every selector.
LEMMA FinishClassFound ==
    ASSUME Inv, FoundInv, NEW system \in BOOLEAN, FinishClass(system)
    PROVE  FoundInv'
  <1> USE DEF FinishClass, loop
  <1>1. CASE system /\ Size(ht) /= BootstrapSize
    <2>1. ClassesAnswer' /\ pc' = "abort"
      BY <1>1, AnswersUnchanged DEF FoundInv
    <2>2. QED BY <2>1 DEF FoundInv
  <1>2. CASE ~(system /\ Size(ht) /= BootstrapSize)
    <2> DEFINE cl == [ht |-> ht, methods |-> methods, lost |-> lost]
    <2>1. /\ pc' = "none" /\ classes' = Append(classes, cl)
          /\ methods' = [k \in Keys |-> 0] /\ ht' = EmptyTable(1)
          /\ UNCHANGED <<hash, key, cur, pos, rounds, old, i, rehashing>>
          /\ ~rehashing /\ ContentInv /\ pc = "idle"
      BY <1>2 DEF Inv, TypeInv, FoundInv
    <2>2. cl.ht = ht /\ cl.methods = methods /\ cl.lost = lost
      OBVIOUS
    <2> HIDE DEF cl
    <2>3. \A c \in ClassIds' : (c \in ClassIds /\ classes'[c] = classes[c]) \/ classes'[c] = cl
      <3>1. \E S : classes \in Seq(S)
        BY DEF Inv, TypeInv
      <3>2. /\ Len(classes) \in Nat /\ Len(Append(classes, cl)) = Len(classes) + 1
            /\ \A c \in 1..Len(classes) : Append(classes, cl)[c] = classes[c]
            /\ Append(classes, cl)[Len(classes) + 1] = cl
        BY <3>1, AppendFacts
      <3>3. QED BY <2>1, <3>2 DEF ClassIds
    <2>4. ASSUME NEW c \in ClassIds', NEW k \in Keys
          PROVE  GetMethod(classes'[c].ht, k) = Answer(classes'[c].methods, classes'[c].lost, k)
      BY <2>1, <2>2, <2>3, IdleAnswers DEF FoundInv, ClassesAnswer
    <2>5. ClassesAnswer'
      <3>1. ASSUME NEW c \in ClassIds', NEW k \in Keys
            PROVE  GetMethod(classes[c].ht, k)' = Answer(classes'[c].methods, classes'[c].lost, k)
        <4>1. GetMethod(classes'[c].ht, k) = Answer(classes'[c].methods, classes'[c].lost, k)
          BY <2>4
        <4>2. QED BY <2>1, <4>1 DEF GetMethod, Slot1, Slot2, Size
      <3>2. QED BY <3>1 DEF ClassesAnswer, Answer
    <2>6. \A s \in DOMAIN ht' : ht'[s] = None
      BY <2>1, EmptyTablePlaced
    <2>7. TableAgrees' /\ NoneLost'
      BY <2>1, <2>6, PairFacts DEF TableAgrees, NoneLost
    <2>8. PendingAgrees' /\ PendingDistinct'
      BY <2>1 DEF PendingAgrees, PendingDistinct, Pending
    <2>9. QED BY <2>5, <2>7, <2>8 DEF FoundInv, ContentInv
  <1>3. QED BY <1>1, <1>2

\* Every step keeps the content of the tables.
LEMMA NextFound == Inv /\ FoundInv /\ [Next]_vars => FoundInv'
  <1> SUFFICES ASSUME Inv, FoundInv, [Next]_vars
               PROVE  FoundInv'
    OBVIOUS
  <1>1. CASE TableTooLarge
    <2>1. ClassesAnswer' /\ pc' = "abort"
      BY <1>1, AnswersUnchanged DEF FoundInv, TableTooLarge
    <2>2. QED BY <2>1 DEF FoundInv
  <1>2. CASE UNCHANGED vars
    <2>1. ClassesAnswer'
      BY <1>2, AnswersUnchanged DEF FoundInv, vars
    <2>2. pc' /= "abort" => ContentInv'
      BY <1>2 DEF FoundInv, ContentInv, vars, TableAgrees, PendingAgrees, NoneLost,
                  PendingDistinct, Pending, Replaced, Occurs
    <2>3. QED BY <2>1, <2>2 DEF FoundInv
  <1>3. QED
    BY <1>1, <1>2, BeginClassFound, InsertFound, TryInsertFound, EvictFound, ResizeFound,
       ReinsertFound, RetryInsertFound, FinishClassFound DEF Next, Step

\* Every class, and the class under construction between two insertions, answers
\* each selector with its own method and else with its superclass's: no chain of
\* evictions, overwriting or doubling loses or resurrects a method.  Whatever the
\* limit on rounds is, the selectors without an answer are exactly those whose
\* reinsertion Resize gave up and that were not defined again.
THEOREM MethodsAreFound == Spec => []MethodsFound
  <1>1. Inv /\ FoundInv => MethodsFound
    BY IdleAnswers DEF FoundInv, ClassesAnswer, MethodsFound
  <1>2. QED BY <1>1, InitFound, NextFound, MethodTableInvariant, PTL DEF Spec
=============================================================================
