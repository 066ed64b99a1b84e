--------------------------- MODULE SomMethodTable ---------------------------
(***************************************************************************)
(* The method tables of SOM classes: SOMClass::Create starts from the      *)
(* table of the superclass, inserts the methods of the class into a cuckoo *)
(* hash table that doubles when an insertion fails, and GetMethod looks a  *)
(* selector up in its two slots, without a probe of superclasses.          *)
(*                                                                         *)
(* An action is one round of TryInsert's loop or one element of Resize's.  *)
(* A method is the class that defines it; hash values are arbitrary, but   *)
(* fixed for a selector (StringInterner::GetHash).  The release build is   *)
(* modelled: TestAsserts are not checked.                                  *)
(***************************************************************************)
EXTENDS Integers, Sequences, FiniteSets

CONSTANTS
    Keys,            \* selectors (interned string ids)
    HashFunctions,   \* bound: the hash functions that are considered
    MaxRounds,       \* 30 in TryInsert
    MaxSize,         \* 65536: the largest table
    BootstrapSize,   \* x_bootstrapClassesMethodHtSize
    MaxClasses,      \* bound: classes created
    MaxMethods       \* bound: methods a class defines

ASSUME MethodTableAssumption ==
    /\ HashFunctions \subseteq [Keys -> [lo : Nat, hi : Nat]]
    /\ MaxRounds \in Nat \ {0} /\ MaxSize \in Nat \ {0}
    /\ MaxClasses \in Nat /\ 0 \notin Keys

None == [id |-> 0, fn |-> 0]            \* an empty slot: m_id = -1

VARIABLES
    hash,        \* key -> the two halves of its hash value
    classes,     \* the created classes: [ht, methods, lost], the last two being history
    ht,          \* m_data of the table under construction
    pc,          \* where Create, Insert, TryInsert and Resize are
    key,         \* the key/value pair Insert is to place
    cur,         \* the key/value pair TryInsert is to place
    pos, rounds, \* victimPosition and rounds of TryInsert
    old, i,      \* Resize: the table that is reinserted and the next element
    rehashing,   \* TryInsert was called by Resize
    defined,     \* the methods inserted so far for the class under construction
    methods,     \* history: selector -> method the class is to answer with
    lost         \* history: selectors that a failed reinsertion of Resize dropped

vars == <<hash, classes, ht, pc, key, cur, pos, rounds, old, i, rehashing, defined, methods, lost>>
loop == <<key, cur, pos, rounds, old, i, rehashing>>

ClassIds == 1..Len(classes)
Size(t) == Cardinality(DOMAIN t)
Slot1(k, t) == hash[k].lo % Size(t)
Slot2(k, t) == hash[k].hi % Size(t)
EmptyTable(n) == [s \in 0..(n - 1) |-> None]

\* GetMethod: 0 if the class has no such method.
GetMethod(t, k) ==
    IF t[Slot1(k, t)].id = k THEN t[Slot1(k, t)].fn
    ELSE IF t[Slot2(k, t)].id = k THEN t[Slot2(k, t)].fn
    ELSE 0

Init ==
    /\ hash \in HashFunctions
    /\ classes = <<>> /\ ht = EmptyTable(1) /\ pc = "none"
    /\ key = None /\ cur = None /\ pos = 0 /\ rounds = 0
    /\ old = EmptyTable(1) /\ i = 0 /\ rehashing = FALSE
    /\ defined = {} /\ methods = [k \in Keys |-> 0] /\ lost = {}

\* Create starts, without a superclass or (CloneFrom) with superclass c.
BeginClass(c) ==
    /\ pc = "none" /\ Len(classes) < MaxClasses
    /\ pc' = "idle"
    /\ ht' = IF c = 0 THEN EmptyTable(1) ELSE classes[c].ht
    /\ methods' = IF c = 0 THEN [k \in Keys |-> 0] ELSE classes[c].methods
    /\ lost' = IF c = 0 THEN {} ELSE classes[c].lost
    /\ UNCHANGED <<hash, classes, loop, defined>>

\* Insert of the next method of the class, once for a selector (a bound: a second
\* insertion would find the first).
Insert(k) ==
    /\ pc = "idle" /\ k \notin defined /\ Cardinality(defined) < MaxMethods
    /\ LET kv == [id |-> k, fn |-> Len(classes) + 1] IN
       /\ key' = kv /\ cur' = kv
       /\ methods' = [methods EXCEPT ![k] = kv.fn]
    /\ defined' = defined \union {k} /\ lost' = lost \ {k}
    /\ rehashing' = FALSE
    /\ pc' = "try"
    /\ UNCHANGED <<hash, classes, ht, pos, rounds, old, i>>

\* Locals are reset when their function returns.
TryInsertReturns == cur' = None /\ pos' = 0 /\ rounds' = 0

\* TryInsert returns Found or Inserted, to Resize or to Insert, which returns too.
Succeed ==
    /\ TryInsertReturns
    /\ \/ rehashing /\ pc' = "rehash" /\ UNCHANGED key
       \/ ~rehashing /\ pc' = "idle" /\ key' = None

NoSlot == -1
\* The slot of k, in the order in which the code looks at them, with an entry for x.
SlotWith(x, k, t) ==
    IF t[Slot1(k, t)].id = x THEN Slot1(k, t)
    ELSE IF t[Slot2(k, t)].id = x THEN Slot2(k, t)
    ELSE NoSlot

\* Defect: the key is looked for in its first slot only.
FreeSlotSearchFirst(k, t) == IF t[Slot1(k, t)].id = k THEN Slot1(k, t) ELSE SlotWith(0, k, t)
\* The slot TryInsert writes without an eviction: the one of k, else an empty one.
FreeSlot(k, t) == IF SlotWith(k, k, t) /= NoSlot THEN SlotWith(k, k, t) ELSE SlotWith(0, k, t)

\* TryInsert up to its loop.
TryInsert ==
    /\ pc = "try"
    /\ LET free == FreeSlot(cur.id, ht) IN
       IF free /= NoSlot
       THEN /\ ht' = [ht EXCEPT ![free] = cur]
            /\ Succeed
       ELSE /\ pos' = Slot1(cur.id, ht) /\ rounds' = 1
            /\ pc' = "evict"
            /\ UNCHANGED <<ht, key, cur>>
    /\ UNCHANGED <<hash, classes, old, i, rehashing, defined, methods, lost>>

\* The slot of k that is not s.
OtherSlot(k, s, t) == IF Slot1(k, t) = s THEN Slot2(k, t) ELSE Slot1(k, t)

\* TryInsert returns Failed with the pair kv in hand.  Resize ignores that, and the
\* pair is gone; Insert doubles the table and tries again with it.
Fail(kv) ==
    /\ TryInsertReturns
    /\ \/ rehashing /\ pc' = "rehash" /\ lost' = lost \union {kv.id} /\ UNCHANGED key
       \/ ~rehashing /\ pc' = "resize" /\ key' = kv /\ UNCHANGED lost

\* Defect: the last round is not played.
GiveUpEarly(n) == n >= MaxRounds
GiveUp(n) == n > MaxRounds

\* Defect: rounds are not counted.
NextRoundSame(n) == n
NextRound(n) == n + 1

\* A round of TryInsert's loop: the pair in hand replaces the victim.
Evict ==
    /\ pc = "evict"
    /\ LET victim == ht[pos]
           other == OtherSlot(victim.id, pos, ht)
           t == [ht EXCEPT ![pos] = cur]
       IN  IF t[other].id = 0
           THEN /\ ht' = [t EXCEPT ![other] = victim]
                /\ Succeed /\ UNCHANGED lost
           ELSE /\ ht' = t
                /\ IF GiveUp(NextRound(rounds))
                   THEN Fail(victim)
                   ELSE /\ cur' = victim /\ pos' = other /\ rounds' = NextRound(rounds)
                        /\ UNCHANGED <<pc, key, lost>>
    /\ UNCHANGED <<hash, classes, old, i, rehashing, defined, methods>>

\* Defect: the first element is not inserted again.
ResizeSkipsFirst ==
    /\ pc = "resize" /\ 2 * Size(ht) <= MaxSize
    /\ old' = ht /\ i' = 1
    /\ ht' = EmptyTable(2 * Size(ht))
    /\ rehashing' = TRUE
    /\ pc' = "rehash"
    /\ UNCHANGED <<hash, classes, key, cur, pos, rounds, defined, methods, lost>>
\* Resize, up to its second loop.
Resize ==
    /\ pc = "resize" /\ 2 * Size(ht) <= MaxSize
    /\ old' = ht /\ i' = 0
    /\ ht' = EmptyTable(2 * Size(ht))
    /\ rehashing' = TRUE
    /\ pc' = "rehash"
    /\ UNCHANGED <<hash, classes, key, cur, pos, rounds, defined, methods, lost>>

\* ReleaseAssert(m_data.size() <= 32768)
TableTooLarge ==
    /\ pc = "resize" /\ 2 * Size(ht) > MaxSize
    /\ pc' = "abort"
    /\ UNCHANGED <<hash, classes, ht, loop, defined, methods, lost>>

\* The next element of Resize's second loop.
Reinsert ==
    /\ pc = "rehash" /\ i < Size(old)
    /\ i' = i + 1
    /\ IF old[i].id = 0 THEN UNCHANGED <<cur, pc>> ELSE cur' = old[i] /\ pc' = "try"
    /\ UNCHANGED <<hash, classes, ht, key, pos, rounds, old, rehashing, defined, methods, lost>>

\* Resize returns to Insert, which tries again.
RetryInsert ==
    /\ pc = "rehash" /\ i = Size(old)
    /\ cur' = key /\ old' = EmptyTable(1) /\ i' = 0
    /\ rehashing' = FALSE
    /\ pc' = "try"
    /\ UNCHANGED <<hash, classes, ht, key, pos, rounds, defined, methods, lost>>

\* Create copies the table into the class.  A preallocated system class has room
\* for exactly BootstrapSize entries.
FinishClass(system) ==
    /\ pc = "idle"
    /\ IF system /\ Size(ht) /= BootstrapSize
       THEN pc' = "abort" /\ UNCHANGED <<classes, ht, defined, methods, lost>>
       ELSE /\ pc' = "none"
            /\ classes' = Append(classes, [ht |-> ht, methods |-> methods, lost |-> lost])
            /\ ht' = EmptyTable(1) /\ defined' = {} /\ methods' = [k \in Keys |-> 0] /\ lost' = {}
    /\ UNCHANGED <<hash, loop>>

Step == TryInsert \/ Evict \/ Resize \/ TableTooLarge \/ Reinsert \/ RetryInsert

Next ==
    \/ \E c \in ClassIds \union {0} : BeginClass(c)
    \/ \E k \in Keys : Insert(k)
    \/ Step
    \/ \E system \in BOOLEAN : FinishClass(system)

Spec == Init /\ [][Next]_vars
\* The thread that creates the class keeps running.
FairSpec == Spec /\ WF_vars(Step)

-----------------------------------------------------------------------------
Pairs == [id : Keys, fn : 1..MaxClasses] \union {None}

\* The type of the tables, and where their entries are: a selector occurs once,
\* in one of its two slots.
EntriesPlaced(t) ==
    /\ \A s \in DOMAIN t : t[s] \in Pairs
    /\ \A s \in DOMAIN t : t[s].id /= 0 => s \in {Slot1(t[s].id, t), Slot2(t[s].id, t)}
    /\ \A s1, s2 \in DOMAIN t : t[s1].id /= 0 /\ t[s1].id = t[s2].id => s1 = s2
TablesPlaced == EntriesPlaced(ht) /\ \A c \in ClassIds : EntriesPlaced(classes[c].ht)

\* Every class, and the class under construction between two insertions, answers
\* with its own methods, and else with those of its superclass: evictions and
\* resizes neither lose nor resurrect a method.  Only a selector whose reinsertion
\* Resize gave up, where the release build ignores what TestAssert(res ==
\* InsertionResult::Inserted) excludes, has no answer, in the class and its
\* subclasses, until one of them defines it again.
Answer(ms, missing, k) == IF k \in missing THEN 0 ELSE ms[k]
MethodsFound ==
    /\ \A c \in ClassIds, k \in Keys :
          GetMethod(classes[c].ht, k) = Answer(classes[c].methods, classes[c].lost, k)
    /\ pc = "idle" => \A k \in Keys : GetMethod(ht, k) = Answer(methods, lost, k)

\* This round of TryInsert ends with Failed.
InsertionFails ==
    /\ pc = "evict" /\ GiveUp(NextRound(rounds))
    /\ [ht EXCEPT ![pos] = cur][OtherSlot(ht[pos].id, pos, ht)].id /= 0

\* Every selector of ks can have one of its two slots to itself.
Placeable(ks, t) ==
    \E first \in SUBSET ks :
        LET slot == [k \in ks |-> IF k \in first THEN Slot1(k, t) ELSE Slot2(k, t)]
        IN  \A k1, k2 \in ks : k1 /= k2 => slot[k1] /= slot[k2]

\* The longest chain that ends at a free slot evicts 2n - 3 times among n selectors.
\* If the limit allows it (16 selectors with the 30 rounds of TryInsert), then Insert
\* doubles the table only because the selectors do not fit, and no reinsertion of
\* Resize fails: no method is dropped.  A limit lower by one breaks this.
GivesUpOnlyWhenFull ==
    LET ks == ({ht[s].id : s \in DOMAIN ht} \ {0}) \union {cur.id}
    IN  InsertionFails /\ 2 * Cardinality(ks) - 3 <= MaxRounds
            => ~rehashing /\ ~Placeable(ks, ht)

\* Every insertion comes to an end.
InsertionEnds == pc \in {"try", "evict", "resize", "rehash"} ~> pc \in {"idle", "abort"}
=============================================================================
