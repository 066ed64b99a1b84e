------------------------- MODULE DfgRegAllocProofs -------------------------
(***************************************************************************)
(* The register allocator of the DFG tier keeps its promises for any       *)
(* number of values, constants, registers, slots and operands.             *)
(***************************************************************************)
EXTENDS DfgRegAlloc, FiniteSetTheorems, WellFoundedInduction, TLAPS

\* A function whose domain is S, and a pair of register banks.
Fun(f, S)  == f = [x \in S |-> f[x]]
RegFile(f) == f = [b \in Bank |-> [r \in Reg(b) |-> f[b][r]]]

Shape ==
  /\ live \subseteq Val
  /\ RegFile(reg) /\ RegFile(mreg)
  /\ spill \in [Val -> Nat \cup {None}]
  /\ freeList \in Seq(Nat) /\ frame \in Nat /\ frame <= MaxFrame
  /\ Fun(stack, Phys) /\ Fun(local, Local)
  /\ Fun(exitMap, Slot) /\ Fun(assoc, Slot) /\ Fun(shadow, Slot)

NodeRec(n) ==
  n = [phase |-> n.phase, last |-> n.last, regAlloc |-> n.regAlloc, hasOut |-> n.hasOut,
       set |-> n.set, cst |-> n.cst, tmp |-> n.tmp, start |-> n.start, size |-> n.size,
       input |-> n.input, ops |-> n.ops, out |-> n.out]

\* The fields of the node that is being processed.
NodeType ==
  /\ NodeRec(node)
  /\ node.phase \in {"done", "range", "check", "main"}
  /\ node.regAlloc \in BOOLEAN /\ node.hasOut \in BOOLEAN
  /\ node.last \subseteq live \cup Const
  /\ node.cst \subseteq Const
  /\ node.tmp \in Seq([slot : Nat, val : Const]) /\ Materialized \subseteq node.cst
  /\ node.start \in Nat \cup {None} /\ node.size \in Nat
  /\ Fun(node.input, 0 .. node.size - 1)
  /\ \A o \in node.ops : /\ o.bank \in Bank /\ o.idx \in Reg(o.bank)
                         /\ o = Operand(o.bank, o.idx, o.val)

\* What a node has in each phase, and what a SetLocal and an output rest on.
NodePhase ==
  /\ node.phase # "main" =>
       node.ops = {} /\ node.tmp = <<>> /\ node.out = None
  /\ node.phase \in {"done", "range"} => node.set = None
  /\ node.phase = "done" => node.start = None
  /\ node.start = None => node.size = 0
  /\ node.regAlloc => node.tmp = <<>>
  /\ node.set # None =>
       /\ node.set \in Local /\ node.regAlloc /\ node.start = None
       /\ shadow[node.set] \in live \cup Const
       /\ \A o \in node.ops : o.val = shadow[node.set]
  /\ node.out # None =>
       /\ node.regAlloc /\ node.set = None
       /\ \E b \in Bank : \E r \in Reg(b) :
            node.out = [bank |-> b, idx |-> r] /\ reg[b][r] = None

Regs ==
  \A b \in Bank : \A r \in Reg(b) :
    reg[b][r] # None => reg[b][r] \in live \cup Const /\ mreg[b][r] = reg[b][r]

Spills == \A v \in Val : spill[v] # None => v \in live /\ stack[spill[v]] = v

Kept == \A v \in live \ node.last : Available(v) \/ spill[v] # None

Operands == \A o \in node.ops : mreg[o.bank][o.idx] = o.val

Inputs ==
  /\ \A i \in DOMAIN node.tmp : stack[node.tmp[i].slot] = node.tmp[i].val
  /\ \A i \in 0 .. node.size - 1 :
       node.input[i] # None => stack[node.start + i] = node.input[i]

InSomeReg(p, v) == \E b \in Bank : \E r \in Reg(b) : reg[b][r] = v /\ p = InReg(b, r)

Recovery ==
  \A s \in Slot :
    /\ shadow[s] \in live \cup Const \cup {None, Saved}
    /\ assoc[s] = IF shadow[s] \in Val THEN shadow[s] ELSE None
    /\ shadow[s] \in Const => exitMap[s] = IsConst(shadow[s])
    /\ shadow[s] = Saved => s \in Local /\ exitMap[s] = InLocal(s) /\ local[s] = Saved
    /\ shadow[s] \in Val =>
         IF spill[shadow[s]] # None THEN exitMap[s] = OnStack(spill[shadow[s]])
         ELSE shadow[s] \notin node.last => InSomeReg(exitMap[s], shadow[s])

\* The owners of the slots of a frame of n slots: the free list, the spilled
\* values, the temporaries and the range share them out.
Distinct(q)     == \A i, j \in DOMAIN q : q[i] = q[j] => i = j
FreeSlots(list) == {list[i] : i \in DOMAIN list}
Held(sp)        == {sp[v] : v \in {x \in Val : sp[x] # None}}
TmpSlots(tmp)   == {tmp[i].slot : i \in DOMAIN tmp}
Span(start, size) == IF start = None THEN {} ELSE start .. start + size - 1

Partition(F, H, T, R, n) ==
  /\ F \cap H = {} /\ F \cap T = {} /\ F \cap R = {}
  /\ H \cap T = {} /\ H \cap R = {} /\ T \cap R = {}
  /\ F \cup H \cup T \cup R = 0 .. n - 1

OneEach(sp) == \A u, v \in Val : sp[u] # None /\ sp[u] = sp[v] => u = v

SlotsOK(list, sp, tmp, start, size, n) ==
  /\ Distinct(list) /\ OneEach(sp)
  /\ \A i, j \in DOMAIN tmp : tmp[i].slot = tmp[j].slot => i = j
  /\ Partition(FreeSlots(list), Held(sp), TmpSlots(tmp), Span(start, size), n)
  /\ start # None => n = start + size

Slots == SlotsOK(freeList, spill, node.tmp, node.start, node.size, frame)

Pending == {v \in live \ node.last : Available(v) /\ Unspilled(v)}
Owed == IF node.regAlloc THEN 0
        ELSE Cardinality(node.cst \ Materialized) + (IF node.hasOut THEN 1 ELSE 0)

\* With a range in place, the free list has a slot for everything that may yet
\* be spilled.
Reserve == node.start # None => Len(freeList) >= Cardinality(Pending) + Owed

Inv ==
  /\ Shape /\ NodeType /\ NodePhase
  /\ Regs /\ Spills /\ Kept /\ Operands /\ Inputs
  /\ Recovery /\ Slots /\ Reserve

-----------------------------------------------------------------------------
\* Functions and register banks after an assignment.

RegPut(g, f, b, r, x) == g = [f EXCEPT ![b][r] = x]
RegMove(g, f, b, r, x, t, y) == g = [f EXCEPT ![b][r] = x, ![b][t] = y]
FunPut(g, f, a, x) == g = [f EXCEPT ![a] = x]

\* An assignment to one register changes that register only.
LEMMA RegExcept ==
    ASSUME NEW f, RegFile(f), NEW b \in Bank, NEW r \in Reg(b), NEW x,
           NEW g, RegPut(g, f, b, r, x)
    PROVE  /\ RegFile(g)
           /\ \A c \in Bank : \A q \in Reg(c) :
                g[c][q] = IF c = b /\ q = r THEN x ELSE f[c][q]
  BY DEF RegFile, RegPut

\* Two assignments in one bank change those two registers only.
LEMMA RegExceptTwo ==
    ASSUME NEW f, RegFile(f), NEW b \in Bank, NEW r \in Reg(b), NEW t \in Reg(b), NEW x, NEW y,
           NEW g, RegMove(g, f, b, r, x, t, y)
    PROVE  /\ RegFile(g)
           /\ \A c \in Bank : \A q \in Reg(c) :
                g[c][q] = IF c = b /\ q = t THEN y
                          ELSE IF c = b /\ q = r THEN x ELSE f[c][q]
  BY DEF RegFile, RegMove

\* An assignment to one place of a function changes that place only.
LEMMA FunExcept ==
    ASSUME NEW f, NEW S, Fun(f, S), NEW a \in S, NEW x, NEW g, FunPut(g, f, a, x)
    PROVE  Fun(g, S) /\ \A k \in S : g[k] = IF k = a THEN x ELSE f[k]
  BY DEF Fun, FunPut

\* A set that has lost an element has a smaller cardinality.
LEMMA CountDown ==
    ASSUME NEW S, IsFiniteSet(S), NEW T, NEW x \in S, T \subseteq S \ {x}
    PROVE  /\ Cardinality(T) + 1 <= Cardinality(S) /\ IsFiniteSet(T)
           /\ Cardinality(T) \in Nat /\ Cardinality(S) \in Nat
  <1>1. IsFiniteSet(S \ {x}) /\ Cardinality(S \ {x}) = Cardinality(S) - 1
    BY FS_RemoveElement
  <1>2. IsFiniteSet(T) /\ Cardinality(T) <= Cardinality(S \ {x})
    BY <1>1, FS_Subset
  <1>3. Cardinality(S) \in Nat /\ Cardinality(T) \in Nat
    BY <1>2, FS_CardinalityType
  <1>4. QED BY <1>1, <1>2, <1>3

\* A subset is at most as large.
LEMMA CountLess ==
    ASSUME NEW S, IsFiniteSet(S), NEW T, T \subseteq S
    PROVE  /\ Cardinality(T) <= Cardinality(S) /\ IsFiniteSet(T)
           /\ Cardinality(T) \in Nat /\ Cardinality(S) \in Nat
  BY FS_Subset, FS_CardinalityType

-----------------------------------------------------------------------------
\* Slots change hands.

\* A free slot is given to a value or to a temporary.
LEMMA TakeSlot ==
    ASSUME NEW F, NEW G, NEW H, NEW T, NEW R, NEW n \in Nat, Partition(F, H, T, R, n),
           NEW x \in F, G = F \ {x}
    PROVE  Partition(G, H \cup {x}, T, R, n) /\ Partition(G, H, T \cup {x}, R, n)
  BY DEF Partition

\* Without a range, the frame grows by a slot for a value or for a temporary.
LEMMA GrowSlot ==
    ASSUME NEW F, NEW H, NEW T, NEW n \in Nat, Partition(F, H, T, {}, n)
    PROVE  /\ Partition(F, H \cup {n}, T, {}, n + 1) /\ Partition(F, H, T \cup {n}, {}, n + 1)
           /\ n \notin F \cup H \cup T
  <1>1. F \cup H \cup T = 0 .. n - 1
    BY DEF Partition
  <1>2. n \notin 0 .. n - 1 /\ (0 .. n - 1) \cup {n} = 0 .. (n + 1) - 1
    OBVIOUS
  <1>3. n \notin F \cup H \cup T
    BY <1>1, <1>2
  <1>4. F \cup (H \cup {n}) \cup T = 0 .. (n + 1) - 1 /\ F \cup H \cup (T \cup {n}) = 0 .. (n + 1) - 1
    BY <1>1, <1>2
  <1>5. F \cap H = {} /\ F \cap T = {} /\ H \cap T = {}
    BY DEF Partition
  <1>6. QED BY <1>3, <1>4, <1>5 DEF Partition

\* The list without its last slot.
LEMMA ListLast ==
    ASSUME NEW q \in Seq(Nat), q # <<>>, Distinct(q), NEW p, p = SubSeq(q, 1, Len(q) - 1)
    PROVE  /\ p \in Seq(Nat) /\ Len(p) = Len(q) - 1 /\ Distinct(p)
           /\ q[Len(q)] \in Nat /\ q[Len(q)] \in FreeSlots(q)
           /\ FreeSlots(p) = FreeSlots(q) \ {q[Len(q)]}
  <1>1. Len(q) \in Nat /\ Len(q) >= 1 /\ DOMAIN q = 1 .. Len(q)
    OBVIOUS
  <1>2. p \in Seq(Nat) /\ Len(p) = Len(q) - 1 /\ DOMAIN p = 1 .. Len(q) - 1
        /\ \A i \in 1 .. Len(q) - 1 : p[i] = q[i]
    BY <1>1
  <1>3. Distinct(p)
    BY <1>1, <1>2 DEF Distinct
  <1>4. q[Len(q)] \in Nat /\ q[Len(q)] \in FreeSlots(q)
    BY <1>1 DEF FreeSlots
  <1>5. ASSUME NEW k \in FreeSlots(p) PROVE k \in FreeSlots(q) \ {q[Len(q)]}
    BY <1>1, <1>2 DEF FreeSlots, Distinct
  <1>6. ASSUME NEW k \in FreeSlots(q) \ {q[Len(q)]} PROVE k \in FreeSlots(p)
    <2>1. PICK i \in 1 .. Len(q) : k = q[i]
      BY <1>1 DEF FreeSlots
    <2>2. i \in 1 .. Len(q) - 1
      BY <1>1, <2>1
    <2>3. QED BY <1>2, <2>1, <2>2 DEF FreeSlots
  <1>7. QED BY <1>2, <1>3, <1>4, <1>5, <1>6

\* AllocateSpillSlot: the slot belongs to nobody, and with a range in place, and
\* a slot reserved, it comes from the free list.
LEMMA AllocSlot ==
    ASSUME Inv, NEW a, a = AllocateSpillSlot, a.frame <= MaxFrame,
           node.start # None => freeList # <<>>
    PROVE  /\ a.slot \in Phys /\ a.slot \in Nat /\ a.list \in Seq(Nat) /\ a.frame \in Nat
           /\ a.slot \notin Held(spill) /\ a.slot \notin TmpSlots(node.tmp)
           /\ a.slot \notin Span(node.start, node.size)
           /\ Distinct(a.list)
           /\ node.start # None => a.frame = frame /\ Len(a.list) = Len(freeList) - 1
           /\ Partition(FreeSlots(a.list), Held(spill) \cup {a.slot}, TmpSlots(node.tmp),
                        Span(node.start, node.size), a.frame)
           /\ Partition(FreeSlots(a.list), Held(spill), TmpSlots(node.tmp) \cup {a.slot},
                        Span(node.start, node.size), a.frame)
  <1>1. /\ freeList \in Seq(Nat) /\ Distinct(freeList) /\ frame \in Nat /\ frame <= MaxFrame
        /\ Partition(FreeSlots(freeList), Held(spill), TmpSlots(node.tmp),
                     Span(node.start, node.size), frame)
    BY DEF Inv, Shape, Slots, SlotsOK
  <1>2. MaxFrame \in Nat
    BY DfgAssumption
  <1> DEFINE F == FreeSlots(freeList)
             H == Held(spill)
             T == TmpSlots(node.tmp)
             R == Span(node.start, node.size)
  <1>3. CASE freeList # <<>>
    <2>1. /\ a.slot = freeList[Len(freeList)] /\ a.frame = frame
          /\ a.list = SubSeq(freeList, 1, Len(freeList) - 1)
      BY <1>3 DEF AllocateSpillSlot
    <2>2. /\ a.list \in Seq(Nat) /\ Len(a.list) = Len(freeList) - 1 /\ Distinct(a.list)
          /\ a.slot \in Nat /\ a.slot \in F /\ FreeSlots(a.list) = F \ {a.slot}
      BY <1>1, <1>3, <2>1, ListLast
    <2>3. /\ Partition(FreeSlots(a.list), H \cup {a.slot}, T, R, frame)
          /\ Partition(FreeSlots(a.list), H, T \cup {a.slot}, R, frame)
      BY <1>1, <2>2, TakeSlot
    <2>4. a.slot \notin H /\ a.slot \notin T /\ a.slot \notin R /\ a.slot \in 0 .. frame - 1
      BY <1>1, <2>2 DEF Partition
    <2>5. a.slot \in Phys
      BY <1>1, <1>2, <2>4 DEF Phys
    <2>6. QED BY <1>1, <2>1, <2>2, <2>3, <2>4, <2>5
  <1>4. CASE freeList = <<>>
    <2>1. a.slot = frame /\ a.frame = frame + 1 /\ a.list = freeList /\ node.start = None
      BY <1>4 DEF AllocateSpillSlot
    <2>2. R = {}
      BY <2>1 DEF Span
    <2>3. /\ Partition(F, H \cup {frame}, T, {}, frame + 1)
          /\ Partition(F, H, T \cup {frame}, {}, frame + 1)
          /\ frame \notin F \cup H \cup T
      <3>1. Partition(F, H, T, {}, frame) /\ frame \in Nat
        BY <1>1, <2>2
      <3> HIDE DEF F, H, T
      <3>2. QED BY <3>1, GrowSlot
    <2>4. a.slot \in Phys
      BY <1>1, <1>2, <2>1 DEF Phys
    <2>5. QED BY <1>1, <2>1, <2>2, <2>3, <2>4
  <1>5. QED BY <1>3, <1>4

\* A value that may still be used is loaded: from the other bank, as a constant
\* or from its spill slot.
LEMMA LoadedValue ==
    ASSUME Inv, NEW v \in Usable \cup Const, NEW b \in Bank, RegsOf(v, b) = {}
    PROVE  LoadedFrom(v, b) = v
  <1> DEFINE other == IF b = "gpr" THEN "fpr" ELSE "gpr"
  <1>1. other \in Bank /\ \A c \in Bank : c = b \/ c = other
    BY DEF Bank
  <1>2. v \in live \ node.last \/ v \in Const
    BY DEF Usable
  <1>3. v # None /\ live \subseteq Val /\ (v \in Val => v \notin Const)
    BY <1>2, DfgAssumption DEF Inv, Shape
  <1>4. CASE RegsOf(v, other) # {}
    <2>1. PICK r \in RegsOf(v, other) : r = CHOOSE x \in RegsOf(v, other) : TRUE
      BY <1>4
    <2>2. r \in Reg(other) /\ reg[other][r] = v
      BY <2>1 DEF RegsOf
    <2>3. mreg[other][r] = v
      BY <1>1, <1>3, <2>2 DEF Inv, Regs
    <2>4. QED BY <1>4, <2>1, <2>3 DEF LoadedFrom
  <1>5. CASE RegsOf(v, other) = {} /\ v \in Const
    BY <1>5 DEF LoadedFrom
  <1>6. CASE RegsOf(v, other) = {} /\ v \notin Const
    <2>1. v \in live \ node.last /\ v \in Val
      BY <1>2, <1>3, <1>6
    <2>2. ~Available(v)
      BY <1>1, <1>6 DEF Available
    <2>3. spill[v] # None
      BY <2>1, <2>2 DEF Inv, Kept
    <2>4. stack[spill[v]] = v
      BY <2>1, <2>3 DEF Inv, Spills
    <2>5. QED BY <1>6, <2>4 DEF LoadedFrom
  <1>7. QED BY <1>4, <1>5, <1>6

\* So does the store of an operand that prefers its general-purpose register.
LEMMA StoredValue ==
    ASSUME Inv, NEW v \in Usable \cup Const
    PROVE  (IF RegsOf(v, "gpr") # {} THEN mreg["gpr"][CHOOSE r \in RegsOf(v, "gpr") : TRUE]
                                     ELSE LoadedFrom(v, "gpr")) = v
  <1>1. "gpr" \in Bank /\ v # None
    BY DfgAssumption DEF Bank, Usable, Inv, Shape
  <1>2. CASE RegsOf(v, "gpr") # {}
    <2>1. PICK r \in RegsOf(v, "gpr") : r = CHOOSE x \in RegsOf(v, "gpr") : TRUE
      BY <1>2
    <2>2. r \in Reg("gpr") /\ reg["gpr"][r] = v
      BY <2>1 DEF RegsOf
    <2>3. mreg["gpr"][r] = v
      BY <1>1, <2>2 DEF Inv, Regs
    <2>4. QED BY <1>2, <2>1, <2>3
  <1>3. CASE RegsOf(v, "gpr") = {}
    BY <1>1, <1>3, LoadedValue
  <1>4. QED BY <1>2, <1>3

\* Every slot that is owned is a slot of the machine.
LEMMA OwnedSlots ==
    ASSUME Inv
    PROVE  /\ \A v \in Val : spill[v] # None => spill[v] \in Held(spill) /\ spill[v] \in Phys
           /\ \A i \in DOMAIN node.tmp :
                node.tmp[i].slot \in TmpSlots(node.tmp) /\ node.tmp[i].slot \in Phys
           /\ \A i \in 0 .. node.size - 1 :
                /\ node.start \in Nat /\ node.start # None
                /\ node.start + i \in Span(node.start, node.size) /\ node.start + i \in Phys
  <1>1. MaxFrame \in Nat /\ None \notin Nat
    BY DfgAssumption
  <1>2. \A k \in 0 .. frame - 1 : k \in Phys
    BY <1>1 DEF Inv, Shape, Phys
  <1>3. /\ Held(spill) \subseteq 0 .. frame - 1 /\ TmpSlots(node.tmp) \subseteq 0 .. frame - 1
        /\ Span(node.start, node.size) \subseteq 0 .. frame - 1
    BY DEF Inv, Slots, SlotsOK, Partition
  <1>4. \A v \in Val : spill[v] # None => spill[v] \in Held(spill)
    BY DEF Held
  <1>5. \A i \in DOMAIN node.tmp : node.tmp[i].slot \in TmpSlots(node.tmp)
    BY DEF TmpSlots
  <1>6. ASSUME NEW i \in 0 .. node.size - 1
        PROVE  node.start \in Nat /\ node.start # None
               /\ node.start + i \in Span(node.start, node.size)
    <2>1. node.size \in Nat /\ node.start \in Nat \cup {None} /\ (node.start = None => node.size = 0)
      BY DEF Inv, NodeType, NodePhase
    <2>2. node.start \in Nat /\ node.start # None
      BY <1>1, <2>1
    <2>3. QED BY <2>1, <2>2 DEF Span
  <1>7. QED BY <1>2, <1>3, <1>4, <1>5, <1>6

\* The values that may still be spilled, and the slots owed to the node, are
\* finite in number.
LEMMA PendingFinite ==
    ASSUME Inv
    PROVE  IsFiniteSet(Pending) /\ Cardinality(Pending) \in Nat /\ Owed \in Nat
  <1>1. Pending \subseteq Val /\ node.cst \ Materialized \subseteq Const
    BY DEF Inv, Shape, NodeType, Pending
  <1>2. IsFiniteSet(Pending) /\ Cardinality(Pending) \in Nat
    BY <1>1, DfgAssumption, CountLess
  <1>3. Cardinality(node.cst \ Materialized) \in Nat
    BY <1>1, DfgAssumption, CountLess
  <1>4. QED BY <1>2, <1>3 DEF Owed

\* A slot given to a value that had none.
LEMMA SpillOne ==
    ASSUME NEW sp \in [Val -> Nat \cup {None}], NEW v \in Val, sp[v] = None, NEW k \in Nat,
           k \notin Held(sp), OneEach(sp), NEW sq, FunPut(sq, sp, v, k)
    PROVE  /\ sq \in [Val -> Nat \cup {None}] /\ OneEach(sq) /\ Held(sq) = Held(sp) \cup {k}
           /\ \A u \in Val : sq[u] = IF u = v THEN k ELSE sp[u]
  <1>1. None \notin Nat
    BY DfgAssumption
  <1>2. sq \in [Val -> Nat \cup {None}] /\ \A u \in Val : sq[u] = IF u = v THEN k ELSE sp[u]
    BY DEF FunPut
  <1>3. \A u \in Val : sp[u] # None => sp[u] # k
    BY DEF Held
  <1>4. OneEach(sq)
    BY <1>1, <1>2, <1>3 DEF OneEach
  <1>5. ASSUME NEW x \in Held(sq) PROVE x \in Held(sp) \cup {k}
    BY <1>2 DEF Held
  <1>6. ASSUME NEW x \in Held(sp) \cup {k} PROVE x \in Held(sq)
    <2>1. CASE x = k
      BY <1>1, <1>2, <2>1 DEF Held
    <2>2. CASE x \in Held(sp)
      <3>1. PICK u \in Val : sp[u] # None /\ x = sp[u]
        BY <2>2 DEF Held
      <3>2. sq[u] # None /\ x = sq[u]
        BY <1>2, <3>1
      <3>3. QED BY <3>2 DEF Held
    <2>3. QED BY <2>1, <2>2
  <1>7. QED BY <1>2, <1>4, <1>5, <1>6

\* The fields of the node that an eviction, a load or a move leaves alone.
SameCore ==
  /\ node'.last = node.last /\ node'.regAlloc = node.regAlloc /\ node'.hasOut = node.hasOut
  /\ node'.cst = node.cst /\ node'.tmp = node.tmp /\ node'.start = node.start
  /\ node'.size = node.size /\ node'.input = node.input

SameValues == live' = live /\ assoc' = assoc /\ local' = local /\ shadow' = shadow

Evicted(b, r, d) ==
  /\ Shape' /\ Regs' /\ Spills' /\ Kept' /\ Inputs' /\ Recovery' /\ Slots' /\ Reserve'
  /\ \A c \in Bank : \A q \in Reg(c) :
       /\ reg'[c][q] = IF c = b /\ q = r THEN None ELSE reg[c][q]
       /\ (c = b /\ q = r => d) => mreg'[c][q] = mreg[c][q]

\* EvictRegister keeps every part of the invariant that is not about the
\* operands and the output of the node.
LEMMA EvictKeeps ==
    ASSUME Inv, NEW b \in Bank, NEW r \in Reg(b), NEW d \in BOOLEAN, reg[b][r] # None,
           EvictRegister(b, r, d), SameCore, SameValues
    PROVE  Evicted(b, r, d)
  <1> DEFINE v == reg[b][r]
             a == AllocateSpillSlot
  <1>1. /\ RegFile(reg') /\ RegFile(mreg')
        /\ \A c \in Bank : \A q \in Reg(c) :
                /\ reg'[c][q] = IF c = b /\ q = r THEN None ELSE reg[c][q]
                /\ (c = b /\ q = r => d) => mreg'[c][q] = mreg[c][q]
    <2>1. RegFile(reg) /\ RegFile(mreg)
      BY DEF Inv, Shape
    <2>2. RegPut(reg', reg, b, r, None)
      BY DEF EvictRegister, RegPut
    <2>3. mreg' = IF d THEN mreg ELSE [mreg EXCEPT ![b][r] = Garbage]
      BY DEF EvictRegister
    <2>4. /\ RegFile(reg')
          /\ \A c \in Bank : \A q \in Reg(c) :
               reg'[c][q] = IF c = b /\ q = r THEN None ELSE reg[c][q]
      BY <2>1, <2>2, RegExcept
    <2>5. /\ RegFile(mreg')
          /\ \A c \in Bank : \A q \in Reg(c) :
               (c = b /\ q = r => d) => mreg'[c][q] = mreg[c][q]
      <3>1. CASE d
        BY <2>1, <2>3, <3>1
      <3>2. CASE ~d
        <4>1. RegPut(mreg', mreg, b, r, Garbage)
          BY <2>3, <3>2 DEF RegPut
        <4>2. /\ RegFile(mreg')
              /\ \A c \in Bank : \A q \in Reg(c) :
                   mreg'[c][q] = IF c = b /\ q = r THEN Garbage ELSE mreg[c][q]
          BY <2>1, <4>1, RegExcept
        <4>3. QED BY <3>2, <4>2
      <3>3. QED BY <3>1, <3>2
    <2>6. QED BY <2>4, <2>5
  <1> USE DEF SameValues
  <1>2. v \in live \cup Const /\ mreg[b][r] = v /\ v # None /\ live \subseteq Val
    BY DEF Inv, Regs, Shape
  <1>3. Regs'
    BY <1>1 DEF Inv, Regs
  <1>4. ASSUME NEW u \in live, Available(u)' PROVE Available(u)
    <2>1. u # None
      BY <1>2, DfgAssumption
    <2>2. PICK c \in Bank : \E q \in Reg(c) : reg'[c][q] = u
      BY <1>4 DEF Available, RegsOf
    <2>3. PICK q \in Reg(c) : reg'[c][q] = u
      BY <2>2
    <2>4. reg[c][q] = u
      BY <1>1, <2>1, <2>3
    <2>5. QED BY <2>4 DEF Available, RegsOf
  <1>5. ASSUME NEW u \in live, u # v, Available(u) PROVE Available(u)'
    <2>1. PICK c \in Bank : \E q \in Reg(c) : reg[c][q] = u
      BY <1>5 DEF Available, RegsOf
    <2>2. PICK q \in Reg(c) : reg[c][q] = u
      BY <2>1
    <2>3. reg'[c][q] = u
      BY <1>1, <1>5, <2>2
    <2>4. QED BY <2>3 DEF Available, RegsOf
  <1>6. CASE Unspilled(v) /\ v \notin node.last
    <2>1. /\ a.frame <= MaxFrame /\ spill' = [spill EXCEPT ![v] = a.slot]
          /\ freeList' = a.list /\ frame' = a.frame
          /\ stack' = [stack EXCEPT ![a.slot] = v]
          /\ exitMap' = [s \in Slot |-> IF assoc[s] = v THEN OnStack(a.slot) ELSE exitMap[s]]
      BY <1>2, <1>6 DEF EvictRegister, SetForAllSlotsAssociatedWith
    <2>2. v \in Val /\ spill[v] = None /\ v \in live \ node.last
      BY <1>2, <1>6, DfgAssumption DEF Unspilled
    <2>3. v \in Pending
      BY <1>6, <2>2, <1>2 DEF Pending, Available, RegsOf
    <2>4. node.start # None => freeList # <<>>
      <3>1. IsFiniteSet(Pending) /\ Cardinality(Pending) \in Nat /\ Owed \in Nat
        BY PendingFinite
      <3>2. Cardinality({}) + 1 <= Cardinality(Pending) /\ Cardinality({}) \in Nat
        BY <2>3, <3>1, CountDown
      <3>3. node.start # None => Len(freeList) >= Cardinality(Pending) + Owed
        BY DEF Inv, Reserve
      <3>4. Len(<<>>) = 0
        OBVIOUS
      <3>5. QED BY <3>1, <3>2, <3>3, <3>4
    <2> HIDE DEF v, a
    <2>5. /\ a.slot \in Phys /\ a.slot \in Nat /\ a.list \in Seq(Nat) /\ a.frame \in Nat
          /\ a.slot \notin Held(spill) /\ a.slot \notin TmpSlots(node.tmp)
          /\ a.slot \notin Span(node.start, node.size)
          /\ Distinct(a.list)
          /\ node.start # None => a.frame = frame /\ Len(a.list) = Len(freeList) - 1
          /\ Partition(FreeSlots(a.list), Held(spill) \cup {a.slot}, TmpSlots(node.tmp),
                       Span(node.start, node.size), a.frame)
      BY <2>1, <2>4, AllocSlot DEF a
    <2>6. /\ spill' \in [Val -> Nat \cup {None}] /\ OneEach(spill')
          /\ Held(spill') = Held(spill) \cup {a.slot}
          /\ \A u \in Val : spill'[u] = IF u = v THEN a.slot ELSE spill[u]
      <3>1. spill \in [Val -> Nat \cup {None}] /\ OneEach(spill)
        BY DEF Inv, Shape, Slots, SlotsOK
      <3>2. v \in Val /\ spill[v] = None
        BY <2>2
      <3>3. a.slot \in Nat /\ a.slot \notin Held(spill)
        BY <2>5
      <3>4. FunPut(spill', spill, v, a.slot)
        BY <2>1 DEF FunPut
      <3>5. QED BY <3>1, <3>2, <3>3, <3>4, SpillOne
    <2>7. Fun(stack', Phys) /\ \A k \in Phys : stack'[k] = IF k = a.slot THEN v ELSE stack[k]
      <3>1. Fun(stack, Phys) /\ FunPut(stack', stack, a.slot, v)
        BY <2>1 DEF Inv, Shape, FunPut
      <3>2. QED BY <2>5, <3>1, FunExcept
    <2>8. Fun(exitMap', Slot)
          /\ \A s \in Slot : exitMap'[s] = IF assoc[s] = v THEN OnStack(a.slot) ELSE exitMap[s]
      BY <2>1 DEF Fun
    <2>9. a.slot # None
      BY <2>5, DfgAssumption
    <2>10. Shape'
      BY <1>1, <2>1, <2>5, <2>6, <2>7, <2>8 DEF Inv, Shape
    <2>11. Spills'
      <3>1. \A u \in Val : spill[u] # None =>
              spill[u] \in Phys /\ spill[u] # a.slot /\ u \in live /\ stack[spill[u]] = u
        BY <2>5, OwnedSlots DEF Inv, Spills
      <3>2. QED BY <2>2, <2>5, <2>6, <2>7, <3>1 DEF Spills
    <2>12. Kept'
      <3>1. \A u \in live \ node.last : Available(u) \/ spill[u] # None
        BY DEF Inv, Kept
      <3>2. ASSUME NEW u \in live \ node.last PROVE Available(u)' \/ spill'[u] # None
        <4>1. CASE u = v
          BY <2>2, <2>6, <2>9, <4>1
        <4>2. CASE u # v
          BY <1>2, <1>5, <2>6, <3>1, <4>2 DEF v
        <4>3. QED BY <4>1, <4>2
      <3>3. QED BY <3>2 DEF Kept, SameCore
    <2>13. Inputs'
      <3>1. \A i \in DOMAIN node.tmp :
              /\ node.tmp[i].slot \in Phys /\ node.tmp[i].slot # a.slot
              /\ stack[node.tmp[i].slot] = node.tmp[i].val
        BY <2>5, OwnedSlots DEF Inv, Inputs
      <3>2. \A i \in 0 .. node.size - 1 : node.start + i \in Phys /\ node.start + i # a.slot
        BY <2>5, OwnedSlots
      <3>3. QED BY <2>7, <3>1, <3>2 DEF Inv, Inputs, SameCore
    <2>14. Recovery'
      <3> SUFFICES ASSUME NEW s \in Slot
                   PROVE /\ shadow[s] \in live \cup Const \cup {None, Saved}
                         /\ assoc[s] = IF shadow[s] \in Val THEN shadow[s] ELSE None
                         /\ shadow[s] \in Const => exitMap'[s] = IsConst(shadow[s])
                         /\ shadow[s] = Saved =>
                              s \in Local /\ exitMap'[s] = InLocal(s) /\ local[s] = Saved
                         /\ shadow[s] \in Val =>
                              IF spill'[shadow[s]] # None
                              THEN exitMap'[s] = OnStack(spill'[shadow[s]])
                              ELSE shadow[s] \notin node.last =>
                                     InSomeReg(exitMap[s], shadow[s])'
        BY DEF Recovery, SameCore, InSomeReg
      <3>1. /\ shadow[s] \in live \cup Const \cup {None, Saved}
            /\ assoc[s] = IF shadow[s] \in Val THEN shadow[s] ELSE None
            /\ shadow[s] \in Const => exitMap[s] = IsConst(shadow[s])
            /\ shadow[s] = Saved =>
                 s \in Local /\ exitMap[s] = InLocal(s) /\ local[s] = Saved
            /\ shadow[s] \in Val =>
                 IF spill[shadow[s]] # None
                 THEN exitMap[s] = OnStack(spill[shadow[s]])
                 ELSE shadow[s] \notin node.last => InSomeReg(exitMap[s], shadow[s])
        BY DEF Inv, Recovery
      <3>2. Saved \notin Val /\ None \notin Val /\ Val \cap Const = {}
        BY DfgAssumption
      <3>3. shadow[s] \notin Val => exitMap'[s] = exitMap[s]
        BY <2>2, <2>8, <3>1, <3>2
      <3>4. ASSUME shadow[s] = v
            PROVE  spill'[shadow[s]] = a.slot /\ exitMap'[s] = OnStack(a.slot)
        BY <2>2, <2>6, <2>8, <3>1, <3>4
      <3>5. ASSUME shadow[s] # v, shadow[s] \in Val
            PROVE  /\ exitMap'[s] = exitMap[s] /\ spill'[shadow[s]] = spill[shadow[s]]
                   /\ InSomeReg(exitMap[s], shadow[s]) => InSomeReg(exitMap[s], shadow[s])'
        <4>1. exitMap'[s] = exitMap[s] /\ spill'[shadow[s]] = spill[shadow[s]]
          BY <2>6, <2>8, <3>1, <3>5
        <4>2. \A c \in Bank : \A q \in Reg(c) : reg[c][q] = shadow[s] => reg'[c][q] = shadow[s]
          BY <1>1, <3>5 DEF v
        <4>3. QED BY <4>1, <4>2 DEF InSomeReg
      <3>6. QED BY <2>9, <3>1, <3>2, <3>3, <3>4, <3>5
    <2>15. Slots'
      <3>1. /\ \A i, j \in DOMAIN node.tmp : node.tmp[i].slot = node.tmp[j].slot => i = j
            /\ node.start # None => frame = node.start + node.size
        BY DEF Inv, Slots, SlotsOK
      <3>2. SlotsOK(a.list, spill', node.tmp, node.start, node.size, a.frame)
        BY <2>5, <2>6, <3>1 DEF SlotsOK
      <3>3. QED BY <2>1, <3>2 DEF Slots, SameCore
    <2>16. Reserve'
      <3>1. Pending' \subseteq Pending \ {v}
        <4>1. ASSUME NEW u \in Pending' PROVE u \in Pending \ {v}
          <5>1. u \in live \ node.last /\ Available(u)' /\ u \in Val /\ spill'[u] = None
            BY <4>1 DEF Pending, Unspilled, SameCore
          <5>2. u # v /\ spill[u] = None
            BY <2>6, <2>9, <5>1
          <5>3. Available(u)
            BY <1>4, <5>1
          <5>4. QED BY <5>1, <5>2, <5>3 DEF Pending, Unspilled
        <4>2. QED BY <4>1
      <3>2. /\ Cardinality(Pending') + 1 <= Cardinality(Pending)
            /\ Cardinality(Pending) \in Nat /\ Cardinality(Pending') \in Nat
        BY <2>3, <3>1, PendingFinite, CountDown
      <3>3. Owed' = Owed /\ Owed \in Nat
        BY PendingFinite DEF Owed, Materialized, SameCore
      <3>4. node.start # None => Len(freeList) >= Cardinality(Pending) + Owed
        BY DEF Inv, Reserve
      <3>5. freeList \in Seq(Nat)
        BY DEF Inv, Shape
      <3>6. node.start # None => Len(freeList') >= Cardinality(Pending') + Owed'
        BY <2>1, <2>5, <3>2, <3>3, <3>4, <3>5
      <3>7. QED BY <3>6 DEF Reserve, SameCore
    <2>17. QED BY <1>1, <1>3, <2>10, <2>11, <2>12, <2>13, <2>14, <2>15, <2>16 DEF Evicted
  <1>7. CASE ~(Unspilled(v) /\ v \notin node.last)
    <2>1. UNCHANGED <<spill, freeList, frame, stack, exitMap>>
      BY <1>7 DEF EvictRegister
    <2>2. v \in live \ node.last => spill[v] # None
      BY <1>2, <1>7 DEF Unspilled
    <2>3. Shape' /\ Spills' /\ Inputs' /\ Slots'
      BY <1>1, <2>1 DEF Inv, Shape, Spills, Inputs, Slots, SameCore
    <2>4. Kept'
      <3>1. \A u \in live \ node.last : Available(u) \/ spill[u] # None
        BY DEF Inv, Kept
      <3>2. ASSUME NEW u \in live \ node.last PROVE Available(u)' \/ spill'[u] # None
        BY <1>5, <2>1, <2>2, <3>1
      <3>3. QED BY <3>2 DEF Kept, SameCore
    <2>5. Recovery'
      <3>1. ASSUME NEW s \in Slot, shadow[s] \in Val, spill[shadow[s]] = None,
                   shadow[s] \notin node.last, InSomeReg(exitMap[s], shadow[s])
            PROVE  InSomeReg(exitMap[s], shadow[s])'
        <4>1. PICK c \in Bank : \E q \in Reg(c) : reg[c][q] = shadow[s] /\ exitMap[s] = InReg(c, q)
          BY <3>1 DEF InSomeReg
        <4>2. PICK q \in Reg(c) : reg[c][q] = shadow[s] /\ exitMap[s] = InReg(c, q)
          BY <4>1
        <4>3. ~(c = b /\ q = r)
          BY <1>7, <3>1, <4>2 DEF Unspilled
        <4>4. reg'[c][q] = shadow[s]
          BY <1>1, <4>2, <4>3
        <4>5. QED BY <2>1, <4>2, <4>4 DEF InSomeReg
      <3>2. QED BY <2>1, <3>1 DEF Inv, Recovery, SameCore
    <2>6. Reserve'
      <3>1. Pending' \subseteq Pending
        BY <1>4, <2>1 DEF Pending, Unspilled, SameCore
      <3>2. /\ Cardinality(Pending') <= Cardinality(Pending)
            /\ Cardinality(Pending) \in Nat /\ Cardinality(Pending') \in Nat
        BY <3>1, PendingFinite, CountLess
      <3>3. Owed' = Owed /\ Owed \in Nat
        BY PendingFinite DEF Owed, Materialized, SameCore
      <3>4. node.start # None => Len(freeList) >= Cardinality(Pending) + Owed
        BY DEF Inv, Reserve
      <3>5. freeList \in Seq(Nat)
        BY DEF Inv, Shape
      <3>6. node.start # None => Len(freeList') >= Cardinality(Pending') + Owed'
        BY <2>1, <3>2, <3>3, <3>4, <3>5
      <3>7. QED BY <3>6 DEF Reserve, SameCore
    <2>7. QED BY <1>1, <1>3, <2>3, <2>4, <2>5, <2>6 DEF Evicted
  <1>8. QED BY <1>6, <1>7

-----------------------------------------------------------------------------
\* The steps that rearrange registers.

\* An eviction for want of a register.
LEMMA EvictStep ==
    ASSUME Inv, NEW b \in Bank, NEW r \in Reg(b), Evict(b, r)
    PROVE  Inv'
  <1>1. /\ reg[b][r] # None /\ r \notin Reserved(b) /\ EvictRegister(b, r, FALSE)
        /\ UNCHANGED <<live, assoc, local, shadow, node>>
    BY DEF Evict
  <1>2. SameCore /\ SameValues
    BY <1>1 DEF SameCore, SameValues
  <1>3. /\ Shape' /\ Regs' /\ Spills' /\ Kept' /\ Inputs' /\ Recovery' /\ Slots' /\ Reserve'
        /\ \A c \in Bank : \A q \in Reg(c) :
             /\ reg'[c][q] = IF c = b /\ q = r THEN None ELSE reg[c][q]
             /\ ~(c = b /\ q = r) => mreg'[c][q] = mreg[c][q]
    <2>1. Evicted(b, r, FALSE)
      BY <1>1, <1>2, EvictKeeps
    <2>2. QED BY <2>1 DEF Evicted
  <1>4. NodeType'
    BY <1>1 DEF Inv, NodeType, Materialized
  <1>5. NodePhase'
    <2>1. \A c \in Bank : \A q \in Reg(c) : reg[c][q] = None => reg'[c][q] = None
      BY <1>3
    <2>2. QED BY <1>1, <2>1 DEF Inv, NodePhase
  <1>6. Operands'
    <2>1. ASSUME NEW o \in node.ops PROVE mreg'[o.bank][o.idx] = o.val
      <3>1. o.bank \in Bank /\ o.idx \in Reg(o.bank) /\ mreg[o.bank][o.idx] = o.val
        BY DEF Inv, NodeType, Operands
      <3>2. ~(o.bank = b /\ o.idx = r)
        BY <1>1 DEF Reserved
      <3>3. QED BY <1>3, <3>1, <3>2
    <2>2. QED BY <1>1, <2>1 DEF Operands
  <1>7. QED BY <1>3, <1>4, <1>5, <1>6 DEF Inv

\* The output gets its register.
LEMMA PlaceOutputStep ==
    ASSUME Inv, NEW b \in Bank, NEW r \in Reg(b), PlaceOutput(b, r)
    PROVE  Inv'
  <1>1. /\ node.phase = "main" /\ node.set = None /\ node.out = None /\ Preparing(b)
        /\ node' = [node EXCEPT !.out = [bank |-> b, idx |-> r]]
        /\ UNCHANGED <<live, assoc, local, shadow>>
    BY DEF PlaceOutput
  <1>2. NodeRec(node') /\ node'.out = [bank |-> b, idx |-> r] /\ SameCore
        /\ node'.phase = node.phase /\ node'.set = node.set /\ node'.ops = node.ops
    <2>1. NodeRec(node)
      BY DEF Inv, NodeType
    <2>2. QED BY <1>1, <2>1 DEF NodeRec, SameCore
  <1>3. node.regAlloc
    BY <1>1 DEF Preparing
  <1>4. NodeType'
    BY <1>1, <1>2 DEF Inv, NodeType, Materialized, SameCore
  <1>5. /\ Shape' /\ Regs' /\ Spills' /\ Kept' /\ Inputs' /\ Recovery' /\ Slots' /\ Reserve'
        /\ reg'[b][r] = None
        /\ \A c \in Bank : \A q \in Reg(c) : mreg'[c][q] = mreg[c][q]
    <2>1. CASE reg[b][r] # None
      <3>1. EvictRegister(b, r, TRUE)
        BY <2>1 DEF PlaceOutput, Scratch
      <3>2. /\ Shape' /\ Regs' /\ Spills' /\ Kept' /\ Inputs' /\ Recovery' /\ Slots' /\ Reserve'
            /\ \A c \in Bank : \A q \in Reg(c) :
                 /\ reg'[c][q] = IF c = b /\ q = r THEN None ELSE reg[c][q]
                 /\ mreg'[c][q] = mreg[c][q]
        <4>1. SameValues
          BY <1>1 DEF SameValues
        <4>2. Evicted(b, r, TRUE)
          BY <1>2, <2>1, <3>1, <4>1, EvictKeeps
        <4>3. QED BY <4>2 DEF Evicted
      <3>3. QED BY <3>2
    <2>2. CASE reg[b][r] = None
      <3>1. UNCHANGED <<alloc, exitMap, mreg, stack>>
        BY <2>2 DEF PlaceOutput
      <3>2. UNCHANGED <<reg, spill, freeList, frame, exitMap, mreg, stack>>
        BY <3>1 DEF alloc
      <3>3. Shape' /\ Regs' /\ Spills'
        BY <1>1, <3>2 DEF Inv, Shape, Regs, Spills
      <3>4. Kept' /\ Inputs' /\ Slots'
        BY <1>1, <1>2, <3>2 DEF Inv, Kept, Inputs, Slots, SameCore, Available, RegsOf
      <3>5. Recovery'
        BY <1>1, <1>2, <3>2 DEF Inv, Recovery, SameCore, InSomeReg
      <3>6. Reserve'
        <4>1. Pending' = Pending /\ Owed' = Owed
          BY <1>1, <1>2, <3>2
             DEF Pending, Owed, Available, RegsOf, Unspilled, Materialized, SameCore
        <4>2. QED BY <1>2, <3>2, <4>1 DEF Inv, Reserve, SameCore
      <3>7. QED BY <2>2, <3>2, <3>3, <3>4, <3>5, <3>6
    <2>3. QED BY <2>1, <2>2
  <1>6. NodePhase'
    BY <1>1, <1>2, <1>3, <1>5, DfgAssumption DEF Inv, NodePhase, SameCore
  <1>7. Operands'
    BY <1>2, <1>5 DEF Inv, NodeType, Operands
  <1>8. QED BY <1>4, <1>5, <1>6, <1>7 DEF Inv

\* LoadRegister
LEMMA LoadStep ==
    ASSUME Inv, NEW b \in Bank, NEW r \in Reg(b), NEW v \in Usable, Load(v, b, r)
    PROVE  Inv'
  <1>1. /\ Preparing(b) /\ RegsOf(v, b) = {} /\ r \in Scratch(b)
        /\ RegPut(reg', reg, b, r, v) /\ RegPut(mreg', mreg, b, r, LoadedFrom(v, b))
        /\ UNCHANGED <<live, spill, freeList, frame, exitMap, assoc, stack, local, shadow, node>>
    BY DEF Load, RegPut, recover
  <1>2. LoadedFrom(v, b) = v
    BY <1>1, LoadedValue
  <1>3. reg[b][r] = None /\ r \notin Reserved(b) /\ v \in live \cup Const /\ live \subseteq Val
    BY <1>1 DEF Scratch, Usable, Inv, Shape
  <1>4. /\ RegFile(reg')
        /\ \A c \in Bank : \A q \in Reg(c) :
             reg'[c][q] = IF c = b /\ q = r THEN v ELSE reg[c][q]
    <2>1. RegFile(reg)
      BY DEF Inv, Shape
    <2>2. QED BY <1>1, <2>1, RegExcept
  <1>5. /\ RegFile(mreg')
        /\ \A c \in Bank : \A q \in Reg(c) :
             mreg'[c][q] = IF c = b /\ q = r THEN v ELSE mreg[c][q]
    <2>1. RegFile(mreg)
      BY DEF Inv, Shape
    <2>2. QED BY <1>1, <1>2, <2>1, RegExcept
  <1>6. Shape' /\ Spills' /\ Inputs' /\ Slots' /\ NodeType'
    BY <1>1, <1>4, <1>5 DEF Inv, Shape, Spills, Inputs, Slots, NodeType, Materialized
  <1>7. Regs'
    BY <1>1, <1>3, <1>4, <1>5 DEF Inv, Regs
  <1>8. ASSUME NEW u \in live, Available(u) PROVE Available(u)'
    <2>1. PICK c \in Bank : \E q \in Reg(c) : reg[c][q] = u
      BY <1>8 DEF Available, RegsOf
    <2>2. PICK q \in Reg(c) : reg[c][q] = u
      BY <2>1
    <2>3. u # None
      BY <1>3, DfgAssumption
    <2>4. reg'[c][q] = u
      BY <1>3, <1>4, <2>2, <2>3
    <2>5. QED BY <2>4 DEF Available, RegsOf
  <1>9. Kept'
    BY <1>1, <1>8 DEF Inv, Kept
  <1>10. Operands'
    <2>1. ASSUME NEW o \in node.ops PROVE mreg'[o.bank][o.idx] = o.val
      <3>1. o.bank \in Bank /\ o.idx \in Reg(o.bank) /\ mreg[o.bank][o.idx] = o.val
        BY DEF Inv, NodeType, Operands
      <3>2. ~(o.bank = b /\ o.idx = r)
        BY <1>3 DEF Reserved
      <3>3. QED BY <1>5, <3>1, <3>2
    <2>2. QED BY <1>1, <2>1 DEF Operands
  <1>11. NodePhase'
    <2>1. ASSUME NEW c \in Bank, NEW q \in Reg(c), node.out # None,
                 node.out = [bank |-> c, idx |-> q], reg[c][q] = None
          PROVE  reg'[c][q] = None
      <3>1. c = "gpr" /\ b = "fpr"
        BY <1>1, <2>1 DEF Preparing, Inv, NodePhase
      <3>2. QED BY <1>4, <2>1, <3>1
    <2>2. QED BY <1>1, <2>1 DEF Inv, NodePhase
  <1>12. Recovery'
    <2>1. ASSUME NEW s \in Slot, shadow[s] \in Val, InSomeReg(exitMap[s], shadow[s])
          PROVE  InSomeReg(exitMap[s], shadow[s])'
      <3>1. PICK c \in Bank : \E q \in Reg(c) : reg[c][q] = shadow[s] /\ exitMap[s] = InReg(c, q)
        BY <2>1 DEF InSomeReg
      <3>2. PICK q \in Reg(c) : reg[c][q] = shadow[s] /\ exitMap[s] = InReg(c, q)
        BY <3>1
      <3>3. reg'[c][q] = shadow[s]
        BY <1>3, <1>4, <2>1, <3>2, DfgAssumption
      <3>4. QED BY <1>1, <3>2, <3>3 DEF InSomeReg
    <2>2. QED BY <1>1, <2>1 DEF Inv, Recovery
  <1>13. Reserve'
    <2>1. Pending' = Pending
      <3>1. ASSUME NEW u \in live \ node.last, u \in Val, spill[u] = None
            PROVE  Available(u)
        BY <3>1 DEF Inv, Kept
      <3>2. Pending' \subseteq Pending
        BY <1>1, <3>1 DEF Pending, Unspilled
      <3>3. Pending \subseteq Pending'
        BY <1>1, <1>8 DEF Pending, Unspilled
      <3>4. QED BY <3>2, <3>3
    <2>2. Owed' = Owed
      BY <1>1 DEF Owed, Materialized
    <2>3. QED BY <1>1, <2>1, <2>2 DEF Inv, Reserve
  <1>14. QED BY <1>6, <1>7, <1>9, <1>10, <1>11, <1>12, <1>13 DEF Inv

\* A step that only changes the node, and only adds to its last uses, keeps what
\* is not about operands and phases.
OnlyNode == UNCHANGED <<live, reg, spill, freeList, frame, exitMap, assoc, mreg, stack, local, shadow>>

LastGrows ==
  /\ node.last \subseteq node'.last
  /\ node'.regAlloc = node.regAlloc /\ node'.hasOut = node.hasOut
  /\ node'.cst = node.cst /\ node'.tmp = node.tmp /\ node'.start = node.start
  /\ node'.size = node.size /\ node'.input = node.input

\* What is not about operands and phases survives a longer set of last uses.
LEMMA LastKeeps ==
    ASSUME Inv, OnlyNode, LastGrows
    PROVE  Shape' /\ Regs' /\ Spills' /\ Kept' /\ Inputs' /\ Recovery' /\ Slots' /\ Reserve'
  <1>1. Shape' /\ Regs' /\ Spills'
    BY DEF Inv, OnlyNode, Shape, Regs, Spills
  <1>2. Kept' /\ Inputs' /\ Slots'
    BY DEF Inv, OnlyNode, LastGrows, Kept, Inputs, Slots, Available, RegsOf
  <1>3. Recovery'
    BY DEF Inv, OnlyNode, LastGrows, Recovery, InSomeReg
  <1>4. Reserve'
    <2>1. Pending' \subseteq Pending /\ Owed' = Owed
      BY DEF OnlyNode, LastGrows, Pending, Owed, Available, RegsOf, Unspilled, Materialized
    <2>2. Cardinality(Pending') <= Cardinality(Pending) /\ Cardinality(Pending) \in Nat
          /\ Cardinality(Pending') \in Nat /\ Owed \in Nat
      BY <2>1, PendingFinite, CountLess
    <2>3. freeList' = freeList /\ freeList \in Seq(Nat) /\ node'.start = node.start
      BY DEF Inv, Shape, OnlyNode, LastGrows
    <2>4. node.start # None => Len(freeList) >= Cardinality(Pending) + Owed
      BY DEF Inv, Reserve
    <2>5. node.start # None => Len(freeList') >= Cardinality(Pending') + Owed'
      BY <2>1, <2>2, <2>3, <2>4
    <2>6. QED BY <2>3, <2>5 DEF Reserve
  <1>5. QED BY <1>1, <1>2, <1>3, <1>4

PhaseAdvances ==
  /\ NodeRec(node') /\ LastGrows /\ node'.last \subseteq live \cup Const
  /\ node'.set = node.set /\ node'.ops = node.ops /\ node'.out = node.out
  /\ node'.phase \in {"done", "check", "main"}
  /\ node.phase # "main" /\ (node'.phase = "done" => node.phase = "done")

\* The end of the range and of the checks, a check, and a phantom use.
LEMMA PhaseSteps ==
    ASSUME Inv, \/ EndRange \/ EndChecks
                \/ \E b \in Bank : \E v \in Usable : TypeCheck(v, b)
                \/ \E v \in live : Phantom(v)
    PROVE  Inv'
  <1>1. OnlyNode
    BY DEF OnlyNode, EndRange, EndChecks, TypeCheck, Phantom, alloc, recover, machine
  <1>2. NodeRec(node)
    BY DEF Inv, NodeType
  <1>3. PhaseAdvances
    <2>1. node.last \subseteq live \cup Const
      BY DEF Inv, NodeType
    <2>2. CASE EndRange
      BY <1>2, <2>1, <2>2 DEF EndRange, NodeRec, LastGrows, PhaseAdvances
    <2>3. CASE EndChecks
      BY <1>2, <2>1, <2>3 DEF EndChecks, NodeRec, LastGrows, PhaseAdvances
    <2>4. ASSUME NEW b \in Bank, NEW v \in Usable, TypeCheck(v, b)
          PROVE  PhaseAdvances
      BY <1>2, <2>1, <2>4 DEF TypeCheck, Usable, NodeRec, LastGrows, PhaseAdvances
    <2>5. ASSUME NEW v \in live, Phantom(v) PROVE PhaseAdvances
      BY <1>2, <2>1, <2>5 DEF Phantom, Idle, NodeRec, LastGrows, PhaseAdvances
    <2>6. QED BY <2>2, <2>3, <2>4, <2>5
  <1>4. Shape' /\ Regs' /\ Spills' /\ Kept' /\ Inputs' /\ Recovery' /\ Slots' /\ Reserve'
    BY <1>1, <1>3, LastKeeps DEF PhaseAdvances
  <1>5. NodeType'
    BY <1>1, <1>3 DEF Inv, NodeType, OnlyNode, LastGrows, Materialized, PhaseAdvances
  <1>6. NodePhase'
    BY <1>1, <1>3 DEF Inv, NodePhase, OnlyNode, LastGrows, PhaseAdvances
  <1>7. Operands'
    BY <1>1, <1>3 DEF Inv, Operands, OnlyNode, PhaseAdvances
  <1>8. QED BY <1>4, <1>5, <1>6, <1>7 DEF Inv

\* An operand gets its register.
LEMMA UseOperandStep ==
    ASSUME Inv, NEW b \in Bank, NEW r \in Reg(b), NEW v \in Usable, NEW isLast \in BOOLEAN,
           UseOperand(v, b, r, isLast)
    PROVE  Inv'
  <1>1. OnlyNode
    BY DEF OnlyNode, UseOperand, alloc, recover, machine
  <1>2. NodeRec(node)
    BY DEF Inv, NodeType
  <1>3. /\ node.phase = "main" /\ reg[b][r] = v /\ (node.set # None => v = shadow[node.set])
        /\ NodeRec(node') /\ node'.ops = node.ops \cup {Operand(b, r, v)}
        /\ node'.last = IF isLast THEN node.last \cup {v} ELSE node.last
        /\ node'.phase = node.phase /\ node'.set = node.set /\ node'.out = node.out
        /\ node'.regAlloc = node.regAlloc /\ node'.hasOut = node.hasOut
        /\ node'.cst = node.cst /\ node'.tmp = node.tmp /\ node'.start = node.start
        /\ node'.size = node.size /\ node'.input = node.input
    BY <1>2 DEF UseOperand, NodeRec
  <1>4. LastGrows
    BY <1>3 DEF LastGrows
  <1>5. Shape' /\ Regs' /\ Spills' /\ Kept' /\ Inputs' /\ Recovery' /\ Slots' /\ Reserve'
    BY <1>1, <1>4, LastKeeps
  <1>6. v \in live \cup Const /\ live \subseteq Val /\ v # None
    BY DfgAssumption DEF Usable, Inv, Shape
  <1> DEFINE p == Operand(b, r, v)
  <1>7. p.bank = b /\ p.idx = r /\ p.val = v /\ p = Operand(p.bank, p.idx, p.val)
    BY DEF Operand
  <1> HIDE DEF p
  <1>8. \A o \in node'.ops : o \in node.ops \/ o = p
    BY <1>3 DEF p
  <1>9. NodeType'
    BY <1>1, <1>3, <1>6, <1>7, <1>8 DEF Inv, NodeType, OnlyNode, Materialized
  <1>10. NodePhase'
    BY <1>1, <1>3, <1>7, <1>8 DEF Inv, NodePhase, OnlyNode
  <1>11. mreg[b][r] = v
    BY <1>3, <1>6 DEF Inv, Regs
  <1>12. Operands'
    BY <1>1, <1>7, <1>8, <1>11 DEF Inv, Operands, OnlyNode
  <1>13. QED BY <1>5, <1>9, <1>10, <1>12 DEF Inv

\* The second edge to an operand gets a copy.
LEMMA DuplicateStep ==
    ASSUME Inv, NEW o \in node.ops, NEW r \in Reg(o.bank), Duplicate(o, r)
    PROVE  Inv'
  <1>1. o.bank \in Bank /\ o.idx \in Reg(o.bank) /\ NodeRec(node) /\ RegFile(mreg)
    BY DEF Inv, NodeType, Shape
  <1>2. /\ node.phase = "main" /\ node.set = None /\ reg[o.bank][o.idx] = o.val
        /\ r \in Scratch(o.bank) /\ RegPut(mreg', mreg, o.bank, r, mreg[o.bank][o.idx])
        /\ node' = [node EXCEPT !.ops = @ \cup {Operand(o.bank, r, o.val)}]
        /\ UNCHANGED <<live, reg, spill, freeList, frame, exitMap, assoc, stack, local, shadow>>
    BY DEF Duplicate, RegPut, alloc, recover
  <1>3. /\ NodeRec(node') /\ node'.ops = node.ops \cup {Operand(o.bank, r, o.val)} /\ SameCore
        /\ node'.phase = node.phase /\ node'.set = node.set /\ node'.out = node.out
    BY <1>1, <1>2 DEF NodeRec, SameCore
  <1>4. mreg[o.bank][o.idx] = o.val
    BY DEF Inv, Operands
  <1>5. /\ RegFile(mreg')
        /\ \A c \in Bank : \A q \in Reg(c) :
             mreg'[c][q] = IF c = o.bank /\ q = r THEN o.val ELSE mreg[c][q]
    BY <1>1, <1>2, <1>4, RegExcept
  <1>6. reg[o.bank][r] = None /\ r \notin Reserved(o.bank)
    BY <1>2 DEF Scratch
  <1>7. Shape' /\ Spills' /\ Regs'
    BY <1>2, <1>5, <1>6 DEF Inv, Shape, Spills, Regs
  <1>8. Kept' /\ Inputs' /\ Slots'
    BY <1>2, <1>3 DEF Inv, Kept, Inputs, Slots, SameCore, Available, RegsOf
  <1>9. Recovery'
    BY <1>2, <1>3 DEF Inv, Recovery, SameCore, InSomeReg
  <1>10. Reserve'
    <2>1. Pending' = Pending /\ Owed' = Owed
      BY <1>2, <1>3 DEF Pending, Owed, Available, RegsOf, Unspilled, Materialized, SameCore
    <2>2. QED BY <1>2, <1>3, <2>1 DEF Inv, Reserve, SameCore
  <1> DEFINE p == Operand(o.bank, r, o.val)
  <1>11. p.bank = o.bank /\ p.idx = r /\ p.val = o.val /\ p = Operand(p.bank, p.idx, p.val)
    BY DEF Operand
  <1> HIDE DEF p
  <1>12. \A x \in node'.ops : x \in node.ops \/ x = p
    BY <1>3 DEF p
  <1>13. NodeType'
    BY <1>1, <1>2, <1>3, <1>11, <1>12 DEF Inv, NodeType, SameCore, Materialized
  <1>14. NodePhase'
    BY <1>2, <1>3 DEF Inv, NodePhase, SameCore
  <1>15. Operands'
    <2>1. ASSUME NEW x \in node.ops PROVE mreg'[x.bank][x.idx] = x.val
      <3>1. x.bank \in Bank /\ x.idx \in Reg(x.bank) /\ mreg[x.bank][x.idx] = x.val
        BY DEF Inv, NodeType, Operands
      <3>2. ~(x.bank = o.bank /\ x.idx = r)
        BY <1>6 DEF Reserved
      <3>3. QED BY <1>5, <3>1, <3>2
    <2>2. mreg'[p.bank][p.idx] = p.val
      BY <1>1, <1>5, <1>11
    <2>3. QED BY <1>12, <2>1, <2>2 DEF Operands
  <1>16. QED BY <1>7, <1>8, <1>9, <1>10, <1>13, <1>14, <1>15 DEF Inv

\* RelocateRegister
LEMMA RelocateStep ==
    ASSUME Inv, NEW b \in Bank, NEW from \in Reg(b), NEW to \in Reg(b), Relocate(b, from, to)
    PROVE  Inv'
  <1> DEFINE v == reg[b][from]
             moved(o) == IF o.bank = b /\ o.idx = from THEN [o EXCEPT !.idx = to] ELSE o
  <1>1. /\ Preparing(b) /\ node.phase # "range" /\ v # None /\ to \in Scratch(b)
        /\ RegMove(reg', reg, b, from, None, to, v)
        /\ RegMove(mreg', mreg, b, from, Garbage, to, mreg[b][from])
        /\ exitMap' = IF Unspilled(v)
                      THEN [s \in Slot |-> IF assoc[s] = v THEN InReg(b, to) ELSE exitMap[s]]
                      ELSE exitMap
        /\ node' = [node EXCEPT !.ops = {moved(o) : o \in @}]
        /\ UNCHANGED <<live, spill, freeList, frame, assoc, stack, local, shadow>>
    BY DEF Relocate, RegMove, SetForAllSlotsAssociatedWith
  <1>2. NodeRec(node) /\ RegFile(reg) /\ RegFile(mreg) /\ live \subseteq Val
    BY DEF Inv, NodeType, Shape
  <1>3. v \in live \cup Const /\ mreg[b][from] = v
    BY <1>1 DEF Inv, Regs
  <1>4. reg[b][to] = None /\ to \notin Reserved(b) /\ from # to
    BY <1>1 DEF Scratch
  <1>5. /\ RegFile(reg')
        /\ \A c \in Bank : \A q \in Reg(c) :
             reg'[c][q] = IF c = b /\ q = to THEN v
                          ELSE IF c = b /\ q = from THEN None ELSE reg[c][q]
    BY <1>1, <1>2, RegExceptTwo
  <1>6. /\ RegFile(mreg')
        /\ \A c \in Bank : \A q \in Reg(c) :
             mreg'[c][q] = IF c = b /\ q = to THEN v
                           ELSE IF c = b /\ q = from THEN Garbage ELSE mreg[c][q]
    <2>1. RegMove(mreg', mreg, b, from, Garbage, to, v)
      BY <1>1, <1>3
    <2>2. QED BY <1>2, <2>1, RegExceptTwo
  <1>7. /\ NodeRec(node') /\ node'.ops = {moved(o) : o \in node.ops} /\ SameCore
        /\ node'.phase = node.phase /\ node'.set = node.set /\ node'.out = node.out
    BY <1>1, <1>2 DEF NodeRec, SameCore
  <1>8. ASSUME NEW x \in node'.ops
        PROVE  /\ x.bank \in Bank /\ x.idx \in Reg(x.bank)
               /\ x = Operand(x.bank, x.idx, x.val)
               /\ mreg'[x.bank][x.idx] = x.val
               /\ \E o \in node.ops : o.val = x.val
    <2>1. PICK o \in node.ops : x = moved(o)
      BY <1>7
    <2>2. /\ o.bank \in Bank /\ o.idx \in Reg(o.bank) /\ o = Operand(o.bank, o.idx, o.val)
          /\ mreg[o.bank][o.idx] = o.val
      BY DEF Inv, NodeType, Operands
    <2>3. CASE o.bank = b /\ o.idx = from
      <3>1. x = [o EXCEPT !.idx = to]
        BY <2>1, <2>3
      <3>2. x = Operand(b, to, o.val)
        BY <2>2, <2>3, <3>1 DEF Operand
      <3>3. x.bank = b /\ x.idx = to /\ x.val = o.val
        BY <3>2 DEF Operand
      <3>4. mreg'[b][to] = o.val
        BY <1>3, <1>6, <2>2, <2>3
      <3>5. QED BY <3>2, <3>3, <3>4
    <2>4. CASE ~(o.bank = b /\ o.idx = from)
      <3>1. x = o
        BY <2>1, <2>4
      <3>2. ~(o.bank = b /\ o.idx = to)
        BY <1>4 DEF Reserved
      <3>3. mreg'[o.bank][o.idx] = o.val
        BY <1>6, <2>2, <2>4, <3>2
      <3>4. QED BY <2>2, <3>1, <3>3
    <2>5. QED BY <2>3, <2>4
  <1> HIDE DEF v, moved
  <1>9. Fun(exitMap', Slot)
        /\ \A s \in Slot : exitMap'[s] = IF Unspilled(v) /\ assoc[s] = v THEN InReg(b, to)
                                         ELSE exitMap[s]
    <2>1. Fun(exitMap, Slot)
      BY DEF Inv, Shape
    <2>2. CASE Unspilled(v)
      BY <1>1, <2>2 DEF Fun
    <2>3. CASE ~Unspilled(v)
      BY <1>1, <2>1, <2>3
    <2>4. QED BY <2>2, <2>3
  <1>10. Shape'
    BY <1>1, <1>5, <1>6, <1>9 DEF Inv, Shape
  <1>11. NodeType'
    <2>1. \A x \in node'.ops : x.bank \in Bank /\ x.idx \in Reg(x.bank)
                               /\ x = Operand(x.bank, x.idx, x.val)
      BY <1>8
    <2>2. node'.phase = node.phase /\ node.phase \in {"done", "range", "check", "main"}
      BY <1>7 DEF Inv, NodeType
    <2>3. node'.regAlloc \in BOOLEAN /\ node'.hasOut \in BOOLEAN
      BY <1>7 DEF Inv, NodeType, SameCore
    <2>4. /\ node'.last \subseteq live \cup Const /\ node'.cst \subseteq Const
          /\ node'.tmp \in Seq([slot : Nat, val : Const])
          /\ node'.start \in Nat \cup {None} /\ node'.size \in Nat
          /\ Fun(node'.input, 0 .. node'.size - 1)
      BY <1>7 DEF Inv, NodeType, SameCore
    <2>5. Materialized' \subseteq node'.cst
      BY <1>7 DEF Inv, NodeType, SameCore, Materialized
    <2>6. QED BY <1>1, <1>7, <2>1, <2>2, <2>3, <2>4, <2>5 DEF NodeType
  <1>12. NodePhase'
    <2>1. ASSUME NEW c \in Bank, NEW q \in Reg(c), node.out # None,
                 node.out = [bank |-> c, idx |-> q], reg[c][q] = None
          PROVE  reg'[c][q] = None
      <3>1. c = "gpr" /\ b = "fpr"
        BY <1>1, <2>1 DEF Preparing, Inv, NodePhase
      <3>2. QED BY <1>5, <2>1, <3>1
    <2>2. node.ops = {} => node'.ops = {}
      BY <1>8
    <2>3. \A x \in node'.ops : \E o \in node.ops : o.val = x.val
      BY <1>8
    <2>4. QED BY <1>1, <1>7, <2>1, <2>2, <2>3 DEF Inv, NodePhase, SameCore
  <1>13. Regs'
    BY <1>1, <1>3, <1>5, <1>6 DEF Inv, Regs
  <1>14. Spills' /\ Inputs' /\ Slots'
    BY <1>1, <1>7 DEF Inv, Spills, Inputs, Slots, SameCore
  <1>15. \A u \in live : Available(u)' <=> Available(u)
    <2>1. ASSUME NEW u \in live, Available(u) PROVE Available(u)'
      <3>1. PICK c \in Bank : \E q \in Reg(c) : reg[c][q] = u
        BY <2>1 DEF Available, RegsOf
      <3>2. PICK q \in Reg(c) : reg[c][q] = u
        BY <3>1
      <3>3. u # None
        BY <1>2, DfgAssumption
      <3>4. \E e \in Reg(c) : reg'[c][e] = u
        BY <1>4, <1>5, <3>2, <3>3 DEF v
      <3>5. QED BY <3>4 DEF Available, RegsOf
    <2>2. ASSUME NEW u \in live, Available(u)' PROVE Available(u)
      <3>1. PICK c \in Bank : \E q \in Reg(c) : reg'[c][q] = u
        BY <2>2 DEF Available, RegsOf
      <3>2. PICK q \in Reg(c) : reg'[c][q] = u
        BY <3>1
      <3>3. u # None
        BY <1>2, DfgAssumption
      <3>4. \E e \in Reg(c) : reg[c][e] = u
        BY <1>4, <1>5, <3>2, <3>3 DEF v
      <3>5. QED BY <3>4 DEF Available, RegsOf
    <2>3. QED BY <2>1, <2>2
  <1>16. Kept'
    BY <1>1, <1>7, <1>15 DEF Inv, Kept, SameCore
  <1>17. Operands'
    BY <1>8 DEF Operands
  <1>18. Recovery'
    <2> SUFFICES ASSUME NEW s \in Slot
                 PROVE /\ shadow[s] \in live \cup Const \cup {None, Saved}
                       /\ assoc[s] = IF shadow[s] \in Val THEN shadow[s] ELSE None
                       /\ shadow[s] \in Const => exitMap'[s] = IsConst(shadow[s])
                       /\ shadow[s] = Saved =>
                            s \in Local /\ exitMap'[s] = InLocal(s) /\ local[s] = Saved
                       /\ shadow[s] \in Val =>
                            IF spill[shadow[s]] # None
                            THEN exitMap'[s] = OnStack(spill[shadow[s]])
                            ELSE shadow[s] \notin node.last =>
                                   InSomeReg(exitMap[s], shadow[s])'
      BY <1>1, <1>7 DEF Recovery, SameCore, InSomeReg
    <2>1. /\ shadow[s] \in live \cup Const \cup {None, Saved}
          /\ assoc[s] = IF shadow[s] \in Val THEN shadow[s] ELSE None
          /\ shadow[s] \in Const => exitMap[s] = IsConst(shadow[s])
          /\ shadow[s] = Saved =>
               s \in Local /\ exitMap[s] = InLocal(s) /\ local[s] = Saved
          /\ shadow[s] \in Val =>
               IF spill[shadow[s]] # None
               THEN exitMap[s] = OnStack(spill[shadow[s]])
               ELSE shadow[s] \notin node.last => InSomeReg(exitMap[s], shadow[s])
      BY DEF Inv, Recovery
    <2>2. Saved \notin Val /\ None \notin Val /\ Val \cap Const = {}
      BY DfgAssumption
    <2>3. Unspilled(v) => v \in Val /\ spill[v] = None
      BY DEF Unspilled
    <2>4. shadow[s] \notin Val => exitMap'[s] = exitMap[s]
      BY <1>9, <2>1, <2>2, <2>3
    <2>5. shadow[s] \in Val /\ spill[shadow[s]] # None => exitMap'[s] = exitMap[s]
      BY <1>9, <2>1, <2>3
    <2>6. ASSUME shadow[s] \in Val, spill[shadow[s]] = None, shadow[s] = v
          PROVE  InSomeReg(exitMap[s], shadow[s])'
      <3>1. exitMap'[s] = InReg(b, to)
        BY <1>9, <2>1, <2>6 DEF Unspilled
      <3>2. reg'[b][to] = shadow[s]
        BY <1>5, <2>6
      <3>3. QED BY <1>1, <3>1, <3>2 DEF InSomeReg
    <2>7. ASSUME shadow[s] \in Val, spill[shadow[s]] = None, shadow[s] # v,
                 InSomeReg(exitMap[s], shadow[s])
          PROVE  InSomeReg(exitMap[s], shadow[s])'
      <3>1. exitMap'[s] = exitMap[s]
        BY <1>9, <2>1, <2>7
      <3>2. \A c \in Bank : \A q \in Reg(c) : reg[c][q] = shadow[s] => reg'[c][q] = shadow[s]
        BY <1>4, <1>5, <2>2, <2>7 DEF v
      <3>3. QED BY <1>1, <2>7, <3>1, <3>2 DEF InSomeReg
    <2>8. QED BY <2>1, <2>2, <2>4, <2>5, <2>6, <2>7
  <1>19. Reserve'
    <2>1. Pending' = Pending
      BY <1>1, <1>7, <1>15 DEF Pending, Unspilled, SameCore
    <2>2. Owed' = Owed
      BY <1>7 DEF Owed, Materialized, SameCore
    <2>3. QED BY <1>1, <1>7, <2>1, <2>2 DEF Inv, Reserve, SameCore
  <1>20. QED BY <1>10, <1>11, <1>12, <1>13, <1>14, <1>16, <1>17, <1>18, <1>19 DEF Inv

-----------------------------------------------------------------------------
\* The steps that write to the stack before the node executes.

\* An operand of the range is stored.
LEMMA PopulateRangeStep ==
    ASSUME Inv, NEW v \in Usable, NEW i \in Nat, NEW isLast \in BOOLEAN, PopulateRange(v, i, isLast)
    PROVE  Inv'
  <1>1. /\ node.phase = "range" /\ i \in 0 .. node.size - 1
        /\ node' = [node EXCEPT !.input[i] = v, !.last = IF isLast THEN @ \cup {v} ELSE @]
        /\ UNCHANGED <<live, reg, spill, freeList, frame, exitMap, assoc, mreg, local, shadow>>
    BY DEF PopulateRange, alloc, recover
  <1>2. FunPut(stack', stack, node.start + i, v)
    <2>1. stack' = [stack EXCEPT ![node.start + i] =
            IF RegsOf(v, "gpr") # {} THEN mreg["gpr"][CHOOSE r \in RegsOf(v, "gpr") : TRUE]
                                     ELSE LoadedFrom(v, "gpr")]
      BY DEF PopulateRange
    <2>2. (IF RegsOf(v, "gpr") # {} THEN mreg["gpr"][CHOOSE r \in RegsOf(v, "gpr") : TRUE]
                                    ELSE LoadedFrom(v, "gpr")) = v
      BY StoredValue
    <2>3. QED BY <2>1, <2>2 DEF FunPut
  <1>3. /\ NodeRec(node) /\ Fun(node.input, 0 .. node.size - 1) /\ Fun(stack, Phys)
        /\ node.tmp = <<>> /\ node.ops = {} /\ node.out = None /\ node.set = None
    BY <1>1 DEF Inv, NodeType, NodePhase, Shape
  <1>4. node.start \in Nat /\ node.start + i \in Span(node.start, node.size)
        /\ node.start + i \in Phys
    BY <1>1, OwnedSlots
  <1>5. Fun(stack', Phys) /\ \A k \in Phys : stack'[k] = IF k = node.start + i THEN v ELSE stack[k]
    BY <1>2, <1>3, <1>4, FunExcept
  <1>6. /\ NodeRec(node') /\ node'.input = [node.input EXCEPT ![i] = v]
        /\ node'.last = IF isLast THEN node.last \cup {v} ELSE node.last
        /\ node'.phase = node.phase /\ node'.set = node.set /\ node'.out = node.out
        /\ node'.regAlloc = node.regAlloc /\ node'.hasOut = node.hasOut
        /\ node'.cst = node.cst /\ node'.tmp = node.tmp /\ node'.start = node.start
        /\ node'.size = node.size /\ node'.ops = node.ops
    BY <1>1, <1>3 DEF NodeRec
  <1>7. Fun(node'.input, 0 .. node.size - 1)
        /\ \A j \in 0 .. node.size - 1 : node'.input[j] = IF j = i THEN v ELSE node.input[j]
    <2> DEFINE S == 0 .. node.size - 1
    <2>1. FunPut(node'.input, node.input, i, v) /\ i \in S /\ Fun(node.input, S)
      BY <1>1, <1>3, <1>6 DEF FunPut
    <2>2. Fun(node'.input, S) /\ \A j \in S : node'.input[j] = IF j = i THEN v ELSE node.input[j]
      <3> HIDE DEF S
      <3>1. QED BY <2>1, FunExcept
    <2>3. QED BY <2>2
  <1>8. v \in live \cup Const
    BY DEF Usable
  <1>9. Shape' /\ Regs'
    BY <1>1, <1>5 DEF Inv, Shape, Regs
  <1>10. NodeType'
    BY <1>1, <1>6, <1>7, <1>8 DEF Inv, NodeType, Materialized
  <1>11. NodePhase' /\ Operands'
    BY <1>1, <1>3, <1>6 DEF Inv, NodePhase, Operands
  <1>12. Spills'
    <2>1. Held(spill) \cap Span(node.start, node.size) = {}
      BY DEF Inv, Slots, SlotsOK, Partition
    <2>2. \A u \in Val : spill[u] # None => spill[u] \in Phys /\ spill[u] # node.start + i
      BY <1>4, <2>1, OwnedSlots
    <2>3. QED BY <1>1, <1>5, <2>2 DEF Inv, Spills
  <1>13. Kept' /\ Slots'
    BY <1>1, <1>6 DEF Inv, Kept, Slots, Available, RegsOf
  <1>14. Inputs'
    <2>1. ASSUME NEW j \in 0 .. node.size - 1, node'.input[j] # None
          PROVE  stack'[node.start + j] = node'.input[j]
      <3>1. node.start + j \in Phys /\ j \in Int /\ i \in Int
        BY OwnedSlots
      <3>2. CASE j = i
        BY <1>5, <1>7, <3>1, <3>2
      <3>3. CASE j # i
        <4>1. node.start + j # node.start + i
          BY <1>4, <3>1, <3>3
        <4>2. stack[node.start + j] = node.input[j]
          BY <1>7, <2>1, <3>3 DEF Inv, Inputs
        <4>3. QED BY <1>5, <1>7, <3>1, <3>3, <4>1, <4>2
      <3>4. QED BY <3>2, <3>3
    <2>2. QED BY <1>3, <1>6, <2>1 DEF Inputs
  <1>15. Recovery'
    BY <1>1, <1>6 DEF Inv, Recovery, InSomeReg
  <1>16. Reserve'
    <2>1. Pending' \subseteq Pending /\ Owed' = Owed
      BY <1>1, <1>6 DEF Pending, Owed, Available, RegsOf, Unspilled, Materialized
    <2>2. Cardinality(Pending') <= Cardinality(Pending) /\ Cardinality(Pending) \in Nat
          /\ Cardinality(Pending') \in Nat /\ Owed \in Nat
      BY <2>1, PendingFinite, CountLess
    <2>3. freeList \in Seq(Nat) /\ (node.start # None => Len(freeList) >= Cardinality(Pending) + Owed)
      BY DEF Inv, Shape, Reserve
    <2>4. node.start # None => Len(freeList') >= Cardinality(Pending') + Owed'
      BY <1>1, <2>1, <2>2, <2>3
    <2>5. QED BY <1>6, <2>4 DEF Reserve
  <1>17. QED BY <1>9, <1>10, <1>11, <1>12, <1>13, <1>14, <1>15, <1>16 DEF Inv

TmpAppended(u, t, k, c) == u = Append(t, [slot |-> k, val |-> c])
TmpVals(t) == {t[i].val : i \in DOMAIN t}

OneMore(u, t, k, c) ==
  /\ u \in Seq([slot : Nat, val : Const])
  /\ \A i \in DOMAIN t : i \in DOMAIN u /\ u[i] = t[i]
  /\ \E n \in DOMAIN u : /\ u[n].slot = k /\ u[n].val = c
                         /\ \A i \in DOMAIN u : i \in DOMAIN t \/ i = n
  /\ TmpSlots(u) = TmpSlots(t) \cup {k}
  /\ TmpVals(u) = TmpVals(t) \cup {c}

\* A list of temporaries after one more.
LEMMA OneMoreTmp ==
    ASSUME NEW t \in Seq([slot : Nat, val : Const]), NEW k \in Nat, NEW c \in Const,
           NEW u, TmpAppended(u, t, k, c)
    PROVE  OneMore(u, t, k, c)
  <1>1. Len(t) \in Nat /\ DOMAIN t = 1 .. Len(t)
    OBVIOUS
  <1>2. u \in Seq([slot : Nat, val : Const]) /\ Len(u) = Len(t) + 1 /\ DOMAIN u = 1 .. Len(t) + 1
    BY DEF TmpAppended
  <1>3. \A i \in 1 .. Len(t) : u[i] = t[i]
    BY DEF TmpAppended
  <1>4. u[Len(t) + 1] = [slot |-> k, val |-> c]
    BY DEF TmpAppended
  <1>5. u[Len(t) + 1].slot = k /\ u[Len(t) + 1].val = c
    BY <1>4
  <1>6. Len(t) + 1 \in DOMAIN u /\ \A i \in DOMAIN u : i \in DOMAIN t \/ i = Len(t) + 1
    BY <1>1, <1>2
  <1>7. \A i \in DOMAIN t : i \in DOMAIN u /\ u[i] = t[i]
    BY <1>1, <1>2, <1>3
  <1>8. TmpSlots(u) = TmpSlots(t) \cup {k}
    BY <1>5, <1>6, <1>7 DEF TmpSlots
  <1>9. TmpVals(u) = TmpVals(t) \cup {c}
    BY <1>5, <1>6, <1>7 DEF TmpVals
  <1>10. QED BY <1>2, <1>5, <1>6, <1>7, <1>8, <1>9 DEF OneMore

\* A constant operand is put in a temporary slot.
LEMMA MaterializeConstantStep ==
    ASSUME Inv, NEW c \in Const, MaterializeConstant(c)
    PROVE  Inv'
  <1> DEFINE a == AllocateSpillSlot
  <1>1. /\ node.phase = "main" /\ ~node.regAlloc /\ c \in node.cst \ Materialized
        /\ a.frame <= MaxFrame /\ freeList' = a.list /\ frame' = a.frame
        /\ node' = [node EXCEPT !.tmp = Append(@, [slot |-> a.slot, val |-> c])]
        /\ UNCHANGED <<live, reg, spill, exitMap, assoc, mreg, local, shadow>>
    BY DEF MaterializeConstant, recover
  <1>2. FunPut(stack', stack, a.slot, c)
    <2>1. stack' = [stack EXCEPT ![a.slot] =
            IF RegsOf(c, "gpr") # {} THEN mreg["gpr"][CHOOSE r \in RegsOf(c, "gpr") : TRUE]
                                     ELSE LoadedFrom(c, "gpr")]
      BY DEF MaterializeConstant
    <2>2. (IF RegsOf(c, "gpr") # {} THEN mreg["gpr"][CHOOSE r \in RegsOf(c, "gpr") : TRUE]
                                    ELSE LoadedFrom(c, "gpr")) = c
      BY StoredValue
    <2>3. QED BY <2>1, <2>2 DEF FunPut
  <1>3. /\ IsFiniteSet(node.cst \ Materialized) /\ IsFiniteSet(Pending)
        /\ Cardinality(Pending) \in Nat /\ Owed \in Nat
    <2>1. node.cst \ Materialized \subseteq Const
      BY DEF Inv, NodeType
    <2>2. QED BY <2>1, DfgAssumption, CountLess, PendingFinite
  <1>4. node.start # None => freeList # <<>>
    <2>1. Cardinality({}) + 1 <= Cardinality(node.cst \ Materialized) /\ Cardinality({}) \in Nat
          /\ Cardinality(node.cst \ Materialized) \in Nat
      <3> DEFINE M == node.cst \ Materialized
      <3>1. c \in M /\ IsFiniteSet(M) /\ {} \subseteq M \ {c}
        BY <1>1, <1>3
      <3> HIDE DEF M
      <3>2. Cardinality({}) + 1 <= Cardinality(M) /\ Cardinality({}) \in Nat
            /\ Cardinality(M) \in Nat
        BY <3>1, CountDown
      <3>3. QED BY <3>2 DEF M
    <2>2. Owed >= 1
      BY <1>1, <2>1 DEF Owed
    <2>3. node.start # None => Len(freeList) >= Cardinality(Pending) + Owed
      BY DEF Inv, Reserve
    <2>4. Len(<<>>) = 0
      OBVIOUS
    <2>5. QED BY <1>3, <2>2, <2>3, <2>4
  <1> HIDE DEF a
  <1>5. /\ a.slot \in Phys /\ a.slot \in Nat /\ a.list \in Seq(Nat) /\ a.frame \in Nat
        /\ a.slot \notin Held(spill) /\ a.slot \notin TmpSlots(node.tmp)
        /\ a.slot \notin Span(node.start, node.size)
        /\ Distinct(a.list)
        /\ node.start # None => a.frame = frame /\ Len(a.list) = Len(freeList) - 1
        /\ Partition(FreeSlots(a.list), Held(spill), TmpSlots(node.tmp) \cup {a.slot},
                     Span(node.start, node.size), a.frame)
    BY <1>1, <1>4, AllocSlot DEF a
  <1>6. NodeRec(node) /\ Fun(stack, Phys) /\ node.tmp \in Seq([slot : Nat, val : Const])
    BY DEF Inv, NodeType, Shape
  <1>7. Fun(stack', Phys) /\ \A k \in Phys : stack'[k] = IF k = a.slot THEN c ELSE stack[k]
    BY <1>2, <1>5, <1>6, FunExcept
  <1>8. /\ NodeRec(node') /\ node'.tmp = Append(node.tmp, [slot |-> a.slot, val |-> c])
        /\ node'.last = node.last
        /\ node'.phase = node.phase /\ node'.set = node.set /\ node'.out = node.out
        /\ node'.regAlloc = node.regAlloc /\ node'.hasOut = node.hasOut
        /\ node'.cst = node.cst /\ node'.input = node.input /\ node'.start = node.start
        /\ node'.size = node.size /\ node'.ops = node.ops
    BY <1>1, <1>6 DEF NodeRec
  <1>9. OneMore(node'.tmp, node.tmp, a.slot, c)
    <2>1. TmpAppended(node'.tmp, node.tmp, a.slot, c) /\ a.slot \in Nat
      BY <1>5, <1>8 DEF TmpAppended
    <2>2. QED BY <1>6, <2>1, OneMoreTmp
  <1>10. PICK n \in DOMAIN node'.tmp :
              /\ node'.tmp[n].slot = a.slot /\ node'.tmp[n].val = c
              /\ \A i \in DOMAIN node'.tmp : i \in DOMAIN node.tmp \/ i = n
    BY <1>9 DEF OneMore
  <1>11. /\ node'.tmp \in Seq([slot : Nat, val : Const])
         /\ \A i \in DOMAIN node.tmp : i \in DOMAIN node'.tmp /\ node'.tmp[i] = node.tmp[i]
         /\ n \in DOMAIN node'.tmp /\ node'.tmp[n].slot = a.slot /\ node'.tmp[n].val = c
         /\ \A i \in DOMAIN node'.tmp : i \in DOMAIN node.tmp \/ i = n
         /\ TmpSlots(node'.tmp) = TmpSlots(node.tmp) \cup {a.slot}
         /\ Materialized' = Materialized \cup {c}
    <2>1. Materialized = TmpVals(node.tmp) /\ Materialized' = TmpVals(node'.tmp)
      BY DEF Materialized, TmpVals
    <2>2. QED BY <1>9, <1>10, <2>1 DEF OneMore
  <1>12. Shape' /\ Regs'
    BY <1>1, <1>5, <1>7 DEF Inv, Shape, Regs
  <1>13. NodeType'
    BY <1>1, <1>8, <1>11 DEF Inv, NodeType
  <1>14. NodePhase' /\ Operands' /\ Kept'
    BY <1>1, <1>8 DEF Inv, NodePhase, Operands, Kept, Available, RegsOf
  <1>15. Spills'
    <2>1. \A u \in Val : spill[u] # None => spill[u] \in Phys /\ spill[u] # a.slot
      BY <1>5, OwnedSlots
    <2>2. QED BY <1>1, <1>7, <2>1 DEF Inv, Spills
  <1>16. Inputs'
    <2>1. ASSUME NEW i \in DOMAIN node'.tmp PROVE stack'[node'.tmp[i].slot] = node'.tmp[i].val
      <3>1. CASE i = n
        BY <1>5, <1>7, <1>11, <3>1
      <3>2. CASE i \in DOMAIN node.tmp
        <4>1. node.tmp[i].slot \in Phys /\ node.tmp[i].slot # a.slot
          BY <1>5, <3>2, OwnedSlots
        <4>2. stack[node.tmp[i].slot] = node.tmp[i].val
          BY <3>2 DEF Inv, Inputs
        <4>3. QED BY <1>7, <1>11, <3>2, <4>1, <4>2
      <3>3. QED BY <1>11, <3>1, <3>2
    <2>2. \A i \in 0 .. node.size - 1 : node.start + i \in Phys /\ node.start + i # a.slot
      BY <1>5, OwnedSlots
    <2>3. QED BY <1>7, <1>8, <2>1, <2>2 DEF Inv, Inputs
  <1>17. Recovery'
    BY <1>1, <1>8 DEF Inv, Recovery, InSomeReg
  <1>18. Slots'
    <2>1. /\ OneEach(spill) /\ (node.start # None => frame = node.start + node.size)
          /\ \A i, j \in DOMAIN node.tmp : node.tmp[i].slot = node.tmp[j].slot => i = j
      BY DEF Inv, Slots, SlotsOK
    <2>2. \A i \in DOMAIN node.tmp : node.tmp[i].slot # a.slot
      BY <1>5, OwnedSlots
    <2>3. \A i, j \in DOMAIN node'.tmp : node'.tmp[i].slot = node'.tmp[j].slot => i = j
      BY <1>11, <2>1, <2>2
    <2>4. SlotsOK(a.list, spill, node'.tmp, node.start, node.size, a.frame)
      BY <1>5, <1>11, <2>1, <2>3 DEF SlotsOK
    <2>5. QED BY <1>1, <1>8, <2>4 DEF Slots
  <1>19. Reserve'
    <2>1. Pending' = Pending
      BY <1>1, <1>8 DEF Pending, Available, RegsOf, Unspilled
    <2>2. node.cst \ Materialized' \subseteq (node.cst \ Materialized) \ {c}
      BY <1>11
    <2>3. Cardinality(node.cst \ Materialized') + 1 <= Cardinality(node.cst \ Materialized)
          /\ Cardinality(node.cst \ Materialized') \in Nat
          /\ Cardinality(node.cst \ Materialized) \in Nat
      <3>1. PICK M, N : M = node.cst \ Materialized /\ N = node.cst \ Materialized'
        OBVIOUS
      <3>2. c \in M /\ IsFiniteSet(M) /\ N \subseteq M \ {c}
        BY <1>1, <1>3, <2>2, <3>1
      <3>3. Cardinality(N) + 1 <= Cardinality(M) /\ Cardinality(N) \in Nat /\ Cardinality(M) \in Nat
        BY <3>2, CountDown
      <3>4. QED BY <3>1, <3>3
    <2>4. Owed' + 1 <= Owed /\ Owed' \in Nat
      <3>1. Owed = Cardinality(node.cst \ Materialized) + (IF node.hasOut THEN 1 ELSE 0)
        BY <1>1 DEF Owed
      <3>2. Owed' = Cardinality(node.cst \ Materialized') + (IF node.hasOut THEN 1 ELSE 0)
        BY <1>1, <1>8 DEF Owed
      <3>3. QED BY <2>3, <3>1, <3>2
    <2>5. freeList \in Seq(Nat) /\ (node.start # None => Len(freeList) >= Cardinality(Pending) + Owed)
      BY DEF Inv, Shape, Reserve
    <2>6. node.start # None => Len(freeList') >= Cardinality(Pending') + Owed'
      BY <1>1, <1>3, <1>5, <2>1, <2>4, <2>5
    <2>7. QED BY <1>8, <2>6 DEF Reserve
  <1>20. QED BY <1>12, <1>13, <1>14, <1>15, <1>16, <1>17, <1>18, <1>19 DEF Inv

-----------------------------------------------------------------------------
\* Built-in nodes, and death.

\* Between two nodes.
LEMMA NoNodeFacts ==
    /\ NodeRec(NoNode) /\ Fun(NoNode.input, 0 .. NoNode.size - 1)
    /\ NoNode.phase = "done" /\ NoNode.last = {} /\ NoNode.regAlloc = TRUE /\ NoNode.hasOut = FALSE
    /\ NoNode.set = None /\ NoNode.cst = {} /\ NoNode.tmp = <<>> /\ NoNode.start = None
    /\ NoNode.size = 0 /\ NoNode.ops = {} /\ NoNode.out = None /\ NoNode.input = <<>>
    /\ Fun(<<>>, 0 .. 0 - 1) /\ Fun(<<>>, {}) /\ DOMAIN <<>> = {} /\ 0 .. 0 - 1 = {}
    /\ TmpSlots(<<>>) = {} /\ <<>> \in Seq([slot : Nat, val : Const]) /\ Len(<<>>) = 0
  <1>1. DOMAIN <<>> = {} /\ 0 .. 0 - 1 = {} /\ <<>> \in Seq([slot : Nat, val : Const]) /\ Len(<<>>) = 0
    OBVIOUS
  <1>2. <<>> = [x \in {} |-> <<>>[x]]
    BY <1>1
  <1>3. Fun(<<>>, {}) /\ Fun(<<>>, 0 .. 0 - 1)
    BY <1>1, <1>2 DEF Fun
  <1>4. TmpSlots(<<>>) = {}
    BY <1>1 DEF TmpSlots
  <1>5. QED BY <1>1, <1>3, <1>4 DEF NoNode, NodeRec

\* Two lists of different slots, one after the other.
LEMMA JoinLists ==
    ASSUME NEW p \in Seq(Nat), NEW q \in Seq(Nat), Distinct(p), Distinct(q),
           FreeSlots(p) \cap FreeSlots(q) = {}
    PROVE  /\ p \o q \in Seq(Nat) /\ Len(p \o q) = Len(p) + Len(q) /\ Distinct(p \o q)
           /\ FreeSlots(p \o q) = FreeSlots(p) \cup FreeSlots(q)
  <1> DEFINE s == p \o q
  <1>1. /\ DOMAIN p = 1 .. Len(p) /\ DOMAIN q = 1 .. Len(q) /\ Len(p) \in Nat /\ Len(q) \in Nat
        /\ s \in Seq(Nat) /\ Len(s) = Len(p) + Len(q) /\ DOMAIN s = 1 .. Len(p) + Len(q)
    OBVIOUS
  <1>2. \A i \in 1 .. Len(p) : s[i] = p[i]
    OBVIOUS
  <1>3. ASSUME NEW i \in 1 .. Len(p) + Len(q), i > Len(p)
        PROVE  i - Len(p) \in 1 .. Len(q) /\ s[i] = q[i - Len(p)]
    BY <1>1, <1>3
  <1>4. ASSUME NEW j \in 1 .. Len(q)
        PROVE  Len(p) + j \in 1 .. Len(p) + Len(q) /\ s[Len(p) + j] = q[j]
    BY <1>1, <1>4
  <1> HIDE DEF s
  <1>5. FreeSlots(s) = FreeSlots(p) \cup FreeSlots(q)
    <2>1. ASSUME NEW x \in FreeSlots(s) PROVE x \in FreeSlots(p) \cup FreeSlots(q)
      <3>1. PICK i \in 1 .. Len(p) + Len(q) : x = s[i]
        BY <1>1 DEF FreeSlots
      <3>2. CASE i <= Len(p)
        <4>1. i \in 1 .. Len(p)
          BY <1>1, <3>2
        <4>2. QED BY <1>1, <1>2, <3>1, <4>1 DEF FreeSlots
      <3>3. CASE i > Len(p)
        BY <1>1, <1>3, <3>1, <3>3 DEF FreeSlots
      <3>4. QED BY <1>1, <3>2, <3>3
    <2>2. ASSUME NEW x \in FreeSlots(p) PROVE x \in FreeSlots(s)
      <3>1. PICK i \in 1 .. Len(p) : x = p[i]
        BY <1>1 DEF FreeSlots
      <3>2. i \in DOMAIN s /\ s[i] = x
        BY <1>1, <1>2, <3>1
      <3>3. QED BY <3>2 DEF FreeSlots
    <2>3. ASSUME NEW x \in FreeSlots(q) PROVE x \in FreeSlots(s)
      <3>1. PICK j \in 1 .. Len(q) : x = q[j]
        BY <1>1 DEF FreeSlots
      <3>2. Len(p) + j \in DOMAIN s /\ s[Len(p) + j] = x
        BY <1>1, <1>4, <3>1
      <3>3. QED BY <3>2 DEF FreeSlots
    <2>4. QED BY <2>1, <2>2, <2>3
  <1>6. ASSUME NEW i \in 1 .. Len(p) + Len(q), NEW j \in 1 .. Len(p) + Len(q), s[i] = s[j]
        PROVE  i = j
    <2>1. \A k \in 1 .. Len(p) : p[k] \in FreeSlots(p)
      BY <1>1 DEF FreeSlots
    <2>2. \A k \in 1 .. Len(q) : q[k] \in FreeSlots(q)
      BY <1>1 DEF FreeSlots
    <2>3. CASE i <= Len(p) /\ j <= Len(p)
      <3>1. i \in 1 .. Len(p) /\ j \in 1 .. Len(p)
        BY <1>1, <2>3
      <3>2. QED BY <1>1, <1>2, <1>6, <3>1 DEF Distinct
    <2>4. CASE i > Len(p) /\ j > Len(p)
      <3>1. i - Len(p) = j - Len(p)
        BY <1>1, <1>3, <1>6, <2>4 DEF Distinct
      <3>2. QED BY <1>1, <3>1
    <2>5. CASE i <= Len(p) /\ j > Len(p)
      <3>1. i \in 1 .. Len(p)
        BY <1>1, <2>5
      <3>2. s[i] \in FreeSlots(p)
        BY <1>2, <2>1, <3>1
      <3>3. s[j] \in FreeSlots(q)
        BY <1>3, <2>2, <2>5
      <3>4. QED BY <1>6, <3>2, <3>3
    <2>6. CASE i > Len(p) /\ j <= Len(p)
      <3>1. j \in 1 .. Len(p)
        BY <1>1, <2>6
      <3>2. s[j] \in FreeSlots(p)
        BY <1>2, <2>1, <3>1
      <3>3. s[i] \in FreeSlots(q)
        BY <1>3, <2>2, <2>6
      <3>4. QED BY <1>6, <3>2, <3>3
    <2>7. QED BY <1>1, <2>3, <2>4, <2>5, <2>6
  <1>7. Distinct(s)
    BY <1>1, <1>6 DEF Distinct
  <1>8. QED BY <1>1, <1>5, <1>7 DEF s

\* A SetLocal begins.
LEMMA BeginSetLocalStep ==
    ASSUME Inv, NEW l \in Local, BeginSetLocal(l)
    PROVE  Inv'
  <1>1. /\ Idle /\ shadow[l] # None /\ ~IsSet(l)
        /\ node' = [NoNode EXCEPT !.phase = "check", !.set = l]
        /\ UNCHANGED <<live, reg, spill, freeList, frame, exitMap, assoc, mreg, stack, local, shadow>>
    BY DEF BeginSetLocal, alloc, recover, machine
  <1>2. node.phase = "done" /\ node.last = {} /\ node.tmp = <<>> /\ node.start = None /\ node.size = 0
    BY <1>1 DEF Idle, Inv, NodePhase
  <1>3. /\ NodeRec(node') /\ node'.phase = "check" /\ node'.set = l /\ node'.last = {}
        /\ node'.regAlloc = TRUE /\ node'.hasOut = FALSE /\ node'.cst = {} /\ node'.tmp = <<>>
        /\ node'.start = None /\ node'.size = 0 /\ node'.ops = {} /\ node'.out = None
        /\ node'.input = <<>>
    BY <1>1, NoNodeFacts DEF NodeRec
  <1>4. shadow[l] \in live \cup Const
    <2>1. l \in Slot
      BY DfgAssumption
    <2>2. shadow[l] = Saved => local[l] = Saved
      BY <2>1 DEF Inv, Recovery
    <2>3. Saved # Garbage
      BY DEF Saved, Garbage
    <2>4. shadow[l] \in live \cup Const \cup {None, Saved}
      BY <2>1 DEF Inv, Recovery
    <2>5. QED BY <1>1, <2>2, <2>3, <2>4 DEF IsSet
  <1>5. Shape' /\ Regs' /\ Spills'
    BY <1>1 DEF Inv, Shape, Regs, Spills
  <1>6. NodeType'
    <2>1. Materialized' = {}
      BY <1>3, NoNodeFacts DEF Materialized
    <2>2. Fun(node'.input, 0 .. node'.size - 1) /\ node'.tmp \in Seq([slot : Nat, val : Const])
      BY <1>3, NoNodeFacts
    <2>3. /\ node'.phase \in {"done", "range", "check", "main"} /\ node'.cst \subseteq Const
          /\ node'.last \subseteq (live \cup Const)' /\ Materialized' \subseteq node'.cst
          /\ node'.start \in Nat \cup {None} /\ node'.size \in Nat /\ node'.ops = {}
      BY <1>3, <2>1
    <2>4. node'.regAlloc \in BOOLEAN /\ node'.hasOut \in BOOLEAN /\ NodeRec(node')
      BY <1>3
    <2>5. QED BY <2>2, <2>3, <2>4 DEF NodeType
  <1>7. NodePhase'
    BY <1>1, <1>3, <1>4 DEF NodePhase
  <1>8. Kept' /\ Operands' /\ Slots'
    BY <1>1, <1>2, <1>3 DEF Inv, Kept, Operands, Slots, Available, RegsOf
  <1>9. Inputs' /\ Reserve'
    BY <1>3, NoNodeFacts DEF Inputs, Reserve
  <1>10. Recovery'
    BY <1>1, <1>2, <1>3 DEF Inv, Recovery, InSomeReg
  <1>11. QED BY <1>5, <1>6, <1>7, <1>8, <1>9, <1>10 DEF Inv

\* The node is over, and its last uses remain.
LEMMA NodeOver ==
    ASSUME NEW L, node' = [NoNode EXCEPT !.last = L], L \subseteq (live \cup Const)'
    PROVE  /\ NodeType' /\ NodePhase' /\ Operands' /\ Inputs' /\ Reserve'
           /\ node'.last = L /\ node'.tmp = <<>> /\ node'.start = None /\ node'.size = 0
  <1>1. /\ NodeRec(node') /\ node'.phase = "done" /\ node'.set = None /\ node'.last = L
        /\ node'.regAlloc = TRUE /\ node'.hasOut = FALSE /\ node'.cst = {} /\ node'.tmp = <<>>
        /\ node'.start = None /\ node'.size = 0 /\ node'.ops = {} /\ node'.out = None
        /\ node'.input = <<>>
    BY NoNodeFacts DEF NodeRec
  <1>2. NodeType'
    <2>1. Materialized' = {}
      BY <1>1, NoNodeFacts DEF Materialized
    <2>2. Fun(node'.input, 0 .. node'.size - 1) /\ node'.tmp \in Seq([slot : Nat, val : Const])
      BY <1>1, NoNodeFacts
    <2>3. /\ node'.phase \in {"done", "range", "check", "main"} /\ node'.cst \subseteq Const
          /\ node'.last \subseteq (live \cup Const)' /\ Materialized' \subseteq node'.cst
          /\ node'.start \in Nat \cup {None} /\ node'.size \in Nat /\ node'.ops = {}
      BY <1>1, <2>1
    <2>4. node'.regAlloc \in BOOLEAN /\ node'.hasOut \in BOOLEAN /\ NodeRec(node')
      BY <1>1
    <2>5. QED BY <2>2, <2>3, <2>4 DEF NodeType
  <1>3. NodePhase'
    BY <1>1 DEF NodePhase
  <1>4. Operands' /\ Inputs' /\ Reserve'
    BY <1>1, NoNodeFacts DEF Operands, Inputs, Reserve
  <1>5. QED BY <1>1, <1>2, <1>3, <1>4

\* The store of a SetLocal.
LEMMA ExecuteSetLocalStep ==
    ASSUME Inv, NEW o \in node.ops, ExecuteSetLocal(o)
    PROVE  Inv'
  <1> DEFINE l == node.set
             content == mreg[o.bank][o.idx]
  <1>1. /\ node.phase = "main" /\ l # None
        /\ local' = [local EXCEPT ![l] = IF content = o.val /\ o.val \in Val THEN Saved ELSE content]
        /\ IF o.val \in Const
           THEN UNCHANGED <<exitMap, assoc, shadow>>
           ELSE /\ exitMap' = [exitMap EXCEPT ![l] = InLocal(l)]
                /\ assoc' = [assoc EXCEPT ![l] = None]
                /\ shadow' = [shadow EXCEPT ![l] = Saved]
        /\ node' = [NoNode EXCEPT !.last = node.last]
        /\ UNCHANGED <<live, reg, spill, freeList, frame, mreg, stack>>
    BY DEF ExecuteSetLocal, alloc
  <1>2. /\ l \in Local /\ l \in Slot /\ shadow[l] = o.val /\ o.val \in live \cup Const
        /\ node.start = None /\ node.size = 0 /\ node.tmp = <<>>
    BY <1>1, DfgAssumption DEF Inv, NodePhase
  <1>3. content = o.val
    BY DEF Inv, Operands
  <1>4. /\ NodeType' /\ NodePhase' /\ Operands' /\ Inputs' /\ Reserve'
        /\ node'.last = node.last /\ node'.tmp = <<>> /\ node'.start = None /\ node'.size = 0
    <2>1. node.last \subseteq (live \cup Const)'
      BY <1>1 DEF Inv, NodeType
    <2>2. QED BY <1>1, <2>1, NodeOver
  <1> HIDE DEF l, content
  <1>5. Fun(local', Local)
        /\ \A k \in Local : local'[k] =
             IF k = l THEN (IF o.val \in Val THEN Saved ELSE o.val) ELSE local[k]
    <2>1. Fun(local, Local)
      BY DEF Inv, Shape
    <2>2. FunPut(local', local, l, IF o.val \in Val THEN Saved ELSE o.val)
      BY <1>1, <1>3 DEF FunPut
    <2>3. QED BY <1>2, <2>1, <2>2, FunExcept
  <1>6. live \subseteq Val /\ Val \cap Const = {} /\ Saved \notin Val \cup Const /\ None \notin Val
        /\ Saved # None /\ None \notin Const
    BY DfgAssumption DEF Inv, Shape
  <1>7. Regs' /\ Spills'
    BY <1>1 DEF Inv, Regs, Spills
  <1>8. Kept' /\ Slots'
    BY <1>1, <1>2, <1>4 DEF Inv, Kept, Slots, Available, RegsOf
  <1>9. CASE o.val \in Const
    <2>1. UNCHANGED <<exitMap, assoc, shadow>>
      BY <1>1, <1>9
    <2>2. Shape'
      BY <1>1, <1>5, <2>1 DEF Inv, Shape
    <2>3. \A s \in Slot : shadow[s] = Saved => s \in Local /\ local'[s] = Saved
      BY <1>2, <1>5, <1>6 DEF Inv, Recovery
    <2>4. Recovery'
      BY <1>1, <1>4, <2>1, <2>3 DEF Inv, Recovery, InSomeReg
    <2>5. QED BY <1>4, <1>7, <1>8, <2>2, <2>4 DEF Inv
  <1>10. CASE o.val \notin Const
    <2>1. o.val \in Val
      BY <1>2, <1>6, <1>10
    <2>2. Fun(exitMap, Slot) /\ Fun(assoc, Slot) /\ Fun(shadow, Slot)
      BY DEF Inv, Shape
    <2>3. /\ FunPut(exitMap', exitMap, l, InLocal(l)) /\ FunPut(assoc', assoc, l, None)
          /\ FunPut(shadow', shadow, l, Saved)
      BY <1>1, <1>10 DEF FunPut
    <2>4. Fun(exitMap', Slot) /\ \A s \in Slot : exitMap'[s] = IF s = l THEN InLocal(l) ELSE exitMap[s]
      BY <1>2, <2>2, <2>3, FunExcept
    <2>5. Fun(assoc', Slot) /\ \A s \in Slot : assoc'[s] = IF s = l THEN None ELSE assoc[s]
      BY <1>2, <2>2, <2>3, FunExcept
    <2>6. Fun(shadow', Slot) /\ \A s \in Slot : shadow'[s] = IF s = l THEN Saved ELSE shadow[s]
      BY <1>2, <2>2, <2>3, FunExcept
    <2>7. Shape'
      BY <1>1, <1>5, <2>4, <2>5, <2>6 DEF Inv, Shape
    <2>8. local'[l] = Saved
      BY <1>2, <1>5, <2>1
    <2>9. Recovery'
      <3>1. ASSUME NEW s \in Slot, s # l
            PROVE  /\ exitMap'[s] = exitMap[s] /\ assoc'[s] = assoc[s] /\ shadow'[s] = shadow[s]
                   /\ s \in Local => local'[s] = local[s]
        BY <1>5, <2>4, <2>5, <2>6, <3>1
      <3>2. exitMap'[l] = InLocal(l) /\ assoc'[l] = None /\ shadow'[l] = Saved
        BY <1>2, <2>4, <2>5, <2>6
      <3>3. \A s \in Slot : InSomeReg(exitMap[s], shadow[s]) /\ s # l =>
                              InSomeReg(exitMap[s], shadow[s])'
        BY <1>1, <3>1 DEF InSomeReg
      <3>4. ASSUME NEW s \in Slot
            PROVE /\ shadow'[s] \in live \cup Const \cup {None, Saved}
                  /\ assoc'[s] = IF shadow'[s] \in Val THEN shadow'[s] ELSE None
                  /\ shadow'[s] \in Const => exitMap'[s] = IsConst(shadow'[s])
                  /\ shadow'[s] = Saved =>
                       s \in Local /\ exitMap'[s] = InLocal(s) /\ local'[s] = Saved
                  /\ shadow'[s] \in Val =>
                       IF spill[shadow'[s]] # None THEN exitMap'[s] = OnStack(spill[shadow'[s]])
                       ELSE shadow'[s] \notin node.last => InSomeReg(exitMap[s], shadow[s])'
        <4>1. CASE s = l
          BY <1>2, <1>6, <2>8, <3>2, <4>1
        <4>2. CASE s # l
          BY <3>1, <3>3, <4>2 DEF Inv, Recovery
        <4>3. QED BY <4>1, <4>2
      <3>5. QED BY <1>1, <1>4, <3>4 DEF Recovery
    <2>10. QED BY <1>4, <1>7, <1>8, <2>7, <2>9 DEF Inv
  <1>11. QED BY <1>9, <1>10

\* ProcessShadowStore
LEMMA ShadowStoreStep ==
    ASSUME Inv, NEW v \in live \cup Const, NEW s \in Slot, NEW isLast \in BOOLEAN,
           ShadowStore(v, s, isLast)
    PROVE  Inv'
  <1>1. /\ Idle /\ FunPut(exitMap', exitMap, s, Location(v))
        /\ FunPut(assoc', assoc, s, IF v \in Const THEN None ELSE v)
        /\ FunPut(shadow', shadow, s, v)
        /\ node' = [node EXCEPT !.last = IF isLast THEN {v} ELSE {}]
        /\ UNCHANGED <<live, reg, spill, freeList, frame, mreg, stack, local>>
    BY DEF ShadowStore, FunPut, alloc, machine
  <1>2. /\ NodeRec(node) /\ node.phase = "done" /\ node.last = {} /\ node.set = None
        /\ node.out = None /\ node.ops = {} /\ node.start = None
    BY <1>1 DEF Idle, Inv, NodeType, NodePhase
  <1>3. /\ NodeRec(node') /\ node'.last = (IF isLast THEN {v} ELSE {})
        /\ node'.phase = node.phase /\ node'.set = node.set /\ node'.out = node.out
        /\ node'.regAlloc = node.regAlloc /\ node'.hasOut = node.hasOut
        /\ node'.cst = node.cst /\ node'.tmp = node.tmp /\ node'.start = node.start
        /\ node'.size = node.size /\ node'.ops = node.ops /\ node'.input = node.input
    BY <1>1, <1>2 DEF NodeRec
  <1>4. Fun(exitMap, Slot) /\ Fun(assoc, Slot) /\ Fun(shadow, Slot) /\ live \subseteq Val
    BY DEF Inv, Shape
  <1>5. Fun(exitMap', Slot) /\ \A x \in Slot : exitMap'[x] = IF x = s THEN Location(v) ELSE exitMap[x]
    BY <1>1, <1>4, FunExcept
  <1>6. Fun(assoc', Slot)
        /\ \A x \in Slot : assoc'[x] = IF x = s THEN (IF v \in Const THEN None ELSE v) ELSE assoc[x]
    BY <1>1, <1>4, FunExcept
  <1>7. Fun(shadow', Slot) /\ \A x \in Slot : shadow'[x] = IF x = s THEN v ELSE shadow[x]
    BY <1>1, <1>4, FunExcept
  <1>8. Saved \notin Val \cup Const /\ None \notin Val \cup Const /\ Val \cap Const = {}
    BY DfgAssumption
  <1>9. Shape' /\ Regs' /\ Spills'
    BY <1>1, <1>5, <1>6, <1>7 DEF Inv, Shape, Regs, Spills
  <1>10. NodeType'
    BY <1>1, <1>3 DEF Inv, NodeType, Materialized
  <1>11. NodePhase'
    BY <1>2, <1>3 DEF Inv, NodePhase
  <1>12. Kept' /\ Operands' /\ Inputs' /\ Slots' /\ Reserve'
    BY <1>1, <1>2, <1>3 DEF Inv, Kept, Operands, Inputs, Slots, Reserve, Available, RegsOf
  <1>13. v \in Const => Location(v) = IsConst(v)
    BY DEF Location
  <1>14. ASSUME v \in Val, spill[v] # None PROVE Location(v) = OnStack(spill[v])
    BY <1>8, <1>14 DEF Location
  <1>15. ASSUME v \in Val, spill[v] = None PROVE InSomeReg(Location(v), v)
    <2>1. Available(v)
      BY <1>2, <1>8, <1>15 DEF Inv, Kept
    <2> DEFINE b == IF RegsOf(v, "fpr") # {} THEN "fpr" ELSE "gpr"
    <2>2. b \in Bank /\ RegsOf(v, b) # {}
      BY <2>1 DEF Available, Bank
    <2>3. Location(v) = InReg(b, CHOOSE r \in RegsOf(v, b) : TRUE)
      BY <1>8, <1>15 DEF Location
    <2>4. PICK r \in RegsOf(v, b) : r = CHOOSE x \in RegsOf(v, b) : TRUE
      BY <2>2
    <2>5. r \in Reg(b) /\ reg[b][r] = v
      BY <2>4 DEF RegsOf
    <2> HIDE DEF b
    <2>6. QED BY <2>2, <2>3, <2>4, <2>5 DEF InSomeReg
  <1>16. Recovery'
    <2>1. ASSUME NEW x \in Slot, x # s
          PROVE  exitMap'[x] = exitMap[x] /\ assoc'[x] = assoc[x] /\ shadow'[x] = shadow[x]
      BY <1>5, <1>6, <1>7, <2>1
    <2>2. exitMap'[s] = Location(v) /\ assoc'[s] = (IF v \in Const THEN None ELSE v) /\ shadow'[s] = v
      BY <1>5, <1>6, <1>7
    <2>3. \A x \in Slot : InSomeReg(exitMap[x], shadow[x]) /\ x # s =>
                            InSomeReg(exitMap[x], shadow[x])'
      BY <1>1, <2>1 DEF InSomeReg
    <2>4. InSomeReg(Location(v), v) => InSomeReg(exitMap[s], shadow[s])'
      BY <1>1, <2>2 DEF InSomeReg
    <2>5. ASSUME NEW x \in Slot
          PROVE /\ shadow'[x] \in live \cup Const \cup {None, Saved}
                /\ assoc'[x] = IF shadow'[x] \in Val THEN shadow'[x] ELSE None
                /\ shadow'[x] \in Const => exitMap'[x] = IsConst(shadow'[x])
                /\ shadow'[x] = Saved =>
                     x \in Local /\ exitMap'[x] = InLocal(x) /\ local[x] = Saved
                /\ shadow'[x] \in Val =>
                     IF spill[shadow'[x]] # None THEN exitMap'[x] = OnStack(spill[shadow'[x]])
                     ELSE InSomeReg(exitMap[x], shadow[x])'
      <3>1. CASE x = s
        BY <1>4, <1>8, <1>13, <1>14, <1>15, <2>2, <2>4, <3>1
      <3>2. CASE x # s
        BY <1>2, <2>1, <2>3, <3>2 DEF Inv, Recovery
      <3>3. QED BY <3>1, <3>2
    <2>6. QED BY <1>1, <2>5 DEF Recovery
  <1>17. QED BY <1>9, <1>10, <1>11, <1>12, <1>16 DEF Inv

\* Without a node in progress, a slot goes from a dead value to the free list.
LEMMA FreeOne ==
    ASSUME NEW list \in Seq(Nat), NEW sp \in [Val -> Nat \cup {None}], NEW n \in Nat,
           SlotsOK(list, sp, <<>>, None, 0, n), NEW v \in Val, sp[v] # None,
           NEW sq, FunPut(sq, sp, v, None)
    PROVE  /\ Append(list, sp[v]) \in Seq(Nat)
           /\ SlotsOK(Append(list, sp[v]), sq, <<>>, None, 0, n)
  <1> DEFINE k == sp[v]
  <1>1. k \in Nat /\ k # None /\ \A u \in Val : sq[u] = IF u = v THEN None ELSE sp[u]
    BY DEF FunPut
  <1>2. /\ Distinct(list) /\ OneEach(sp) /\ TmpSlots(<<>>) = {} /\ Span(None, 0) = {}
        /\ Partition(FreeSlots(list), Held(sp), {}, {}, n)
    BY NoNodeFacts DEF SlotsOK, Span
  <1>3. Held(sq) = Held(sp) \ {k}
    <2>1. ASSUME NEW x \in Held(sq) PROVE x \in Held(sp) \ {k}
      <3>1. PICK u \in Val : sq[u] # None /\ x = sq[u]
        BY <2>1 DEF Held
      <3>2. u # v /\ sp[u] # None /\ x = sp[u]
        BY <1>1, <3>1
      <3>3. x # k
        BY <1>1, <1>2, <3>2 DEF OneEach
      <3>4. QED BY <3>2, <3>3 DEF Held
    <2>2. ASSUME NEW x \in Held(sp) \ {k} PROVE x \in Held(sq)
      <3>1. PICK u \in Val : sp[u] # None /\ x = sp[u]
        BY <2>2 DEF Held
      <3>2. sq[u] # None /\ x = sq[u]
        BY <1>1, <2>2, <3>1
      <3>3. QED BY <3>2 DEF Held
    <2>3. QED BY <2>1, <2>2
  <1>4. OneEach(sq)
    BY <1>1, <1>2 DEF OneEach
  <1>5. k \in Held(sp) /\ k \notin FreeSlots(list)
    BY <1>1, <1>2 DEF Held, Partition
  <1>6. Append(list, k) \in Seq(Nat) /\ Distinct(Append(list, k))
        /\ FreeSlots(Append(list, k)) = FreeSlots(list) \cup {k}
    <2>1. /\ DOMAIN list = 1 .. Len(list) /\ Len(list) \in Nat
          /\ Append(list, k) \in Seq(Nat) /\ DOMAIN Append(list, k) = 1 .. Len(list) + 1
          /\ \A i \in 1 .. Len(list) : Append(list, k)[i] = list[i]
          /\ Append(list, k)[Len(list) + 1] = k
      BY <1>1
    <2>2. Len(list) + 1 \in 1 .. Len(list) + 1 /\ \A i \in 1 .. Len(list) : i \in 1 .. Len(list) + 1
      BY <2>1
    <2>3. \A i \in 1 .. Len(list) + 1 : i \in 1 .. Len(list) \/ i = Len(list) + 1
      BY <2>1
    <2>4. \A i \in 1 .. Len(list) : list[i] # k
      BY <1>5, <2>1 DEF FreeSlots
    <2> DEFINE m == Append(list, k)
               N == Len(list) + 1
    <2> HIDE DEF k, m, N
    <2>5. Distinct(m)
      BY <1>2, <2>1, <2>3, <2>4 DEF Distinct, m, N
    <2>6. \A x : x \in FreeSlots(m) <=> x \in FreeSlots(list) \cup {k}
      BY <2>1, <2>2, <2>3 DEF FreeSlots, m, N
    <2>7. QED BY <2>1, <2>5, <2>6 DEF m
  <1>7. Partition(FreeSlots(list) \cup {k}, Held(sp) \ {k}, {}, {}, n)
    BY <1>2, <1>5 DEF Partition
  <1>8. \A i, j \in DOMAIN <<>> : <<>>[i].slot = <<>>[j].slot => i = j
    BY NoNodeFacts
  <1>9. QED BY <1>2, <1>3, <1>4, <1>6, <1>7, <1>8 DEF SlotsOK

\* ProcessDeathEvent
LEMMA DieStep ==
    ASSUME Inv, NEW v \in node.last, Die(v)
    PROVE  Inv'
  <1> DEFINE gone(c) == IF v \in Val /\ c = v THEN Garbage ELSE c
  <1>1. /\ node.phase = "done" /\ live' = live \ {v}
        /\ reg' = [b \in Bank |-> [r \in Reg(b) |-> IF reg[b][r] = v THEN None ELSE reg[b][r]]]
        /\ mreg' = [b \in Bank |-> [r \in Reg(b) |->
                      IF reg[b][r] = v THEN Garbage ELSE gone(mreg[b][r])]]
        /\ stack' = [k \in Phys |-> gone(stack[k])]
        /\ shadow' = [s \in Slot |-> IF v \in Val /\ shadow[s] = v THEN None ELSE shadow[s]]
        /\ exitMap' = [s \in Slot |-> IF v \in Val /\ shadow[s] = v THEN None ELSE exitMap[s]]
        /\ assoc' = [s \in Slot |-> IF assoc[s] = v THEN None ELSE assoc[s]]
        /\ node' = [node EXCEPT !.last = @ \ {v}]
        /\ UNCHANGED <<frame, local>>
    BY DEF Die
  <1>2. IF v \in Val /\ spill[v] # None
        THEN freeList' = Append(freeList, spill[v]) /\ FunPut(spill', spill, v, None)
        ELSE UNCHANGED <<freeList, spill>>
    BY DEF Die, FunPut
  <1>3. /\ NodeRec(node) /\ node.set = None /\ node.out = None /\ node.ops = {}
        /\ node.start = None /\ node.size = 0 /\ node.tmp = <<>>
        /\ v \in live \cup Const /\ live \subseteq Val
    BY <1>1 DEF Inv, NodeType, NodePhase, Shape
  <1>4. /\ NodeRec(node') /\ node'.last = node.last \ {v}
        /\ node'.phase = node.phase /\ node'.set = node.set /\ node'.out = node.out
        /\ node'.regAlloc = node.regAlloc /\ node'.hasOut = node.hasOut
        /\ node'.cst = node.cst /\ node'.tmp = node.tmp /\ node'.start = node.start
        /\ node'.size = node.size /\ node'.ops = node.ops /\ node'.input = node.input
    BY <1>1, <1>3 DEF NodeRec
  <1>5. RegFile(reg') /\ \A b \in Bank : \A r \in Reg(b) :
                           reg'[b][r] = IF reg[b][r] = v THEN None ELSE reg[b][r]
    BY <1>1 DEF RegFile
  <1>6. RegFile(mreg') /\ \A b \in Bank : \A r \in Reg(b) :
                            reg[b][r] # v /\ mreg[b][r] # v => mreg'[b][r] = mreg[b][r]
    BY <1>1 DEF RegFile
  <1>7. Fun(stack', Phys) /\ \A k \in Phys : stack[k] # v => stack'[k] = stack[k]
    BY <1>1 DEF Fun
  <1>8. /\ Fun(shadow', Slot) /\ Fun(exitMap', Slot) /\ Fun(assoc', Slot)
        /\ \A s \in Slot :
             /\ shadow'[s] = IF v \in Val /\ shadow[s] = v THEN None ELSE shadow[s]
             /\ exitMap'[s] = IF v \in Val /\ shadow[s] = v THEN None ELSE exitMap[s]
             /\ assoc'[s] = IF assoc[s] = v THEN None ELSE assoc[s]
    BY <1>1 DEF Fun
  <1>9. /\ freeList \in Seq(Nat) /\ spill \in [Val -> Nat \cup {None}] /\ frame \in Nat
        /\ SlotsOK(freeList, spill, <<>>, None, 0, frame)
    BY <1>3 DEF Inv, Shape, Slots
  <1>10. /\ freeList' \in Seq(Nat) /\ spill' \in [Val -> Nat \cup {None}]
         /\ SlotsOK(freeList', spill', <<>>, None, 0, frame)
         /\ \A u \in Val : u # v => spill'[u] = spill[u]
         /\ v \in Val => spill'[v] = None
    <2>1. CASE v \in Val /\ spill[v] # None
      <3>1. freeList' = Append(freeList, spill[v]) /\ FunPut(spill', spill, v, None)
        BY <1>2, <2>1
      <3>2. spill' \in [Val -> Nat \cup {None}] /\ \A u \in Val : spill'[u] = IF u = v THEN None ELSE spill[u]
        BY <1>9, <2>1, <3>1 DEF FunPut
      <3>3. Append(freeList, spill[v]) \in Seq(Nat)
            /\ SlotsOK(Append(freeList, spill[v]), spill', <<>>, None, 0, frame)
        BY <1>9, <2>1, <3>1, FreeOne
      <3>4. QED BY <2>1, <3>1, <3>2, <3>3
    <2>2. CASE ~(v \in Val /\ spill[v] # None)
      BY <1>2, <1>9, <2>2
    <2>3. QED BY <2>1, <2>2
  <1> HIDE DEF gone
  <1>11. None \notin Val \cup Const /\ Saved \notin Val \cup Const \cup {None} /\ Val \cap Const = {}
    BY DfgAssumption
  <1>12. Shape'
    BY <1>1, <1>3, <1>5, <1>6, <1>7, <1>8, <1>10 DEF Inv, Shape
  <1>13. NodeType'
    BY <1>1, <1>4 DEF Inv, NodeType, Materialized
  <1>14. NodePhase' /\ Operands'
    BY <1>1, <1>3, <1>4 DEF Inv, NodePhase, Operands
  <1>15. Inputs' /\ Reserve'
    BY <1>3, <1>4, NoNodeFacts DEF Inputs, Reserve
  <1>16. Slots'
    BY <1>1, <1>3, <1>4, <1>10 DEF Slots
  <1>17. Regs'
    <2>1. ASSUME NEW b \in Bank, NEW r \in Reg(b), reg'[b][r] # None
          PROVE  reg'[b][r] \in live' \cup Const /\ mreg'[b][r] = reg'[b][r]
      <3>1. reg[b][r] # v /\ reg'[b][r] = reg[b][r] /\ reg[b][r] # None
        BY <1>5, <2>1
      <3>2. reg[b][r] \in live \cup Const /\ mreg[b][r] = reg[b][r]
        BY <3>1 DEF Inv, Regs
      <3>3. mreg'[b][r] = mreg[b][r]
        BY <1>6, <3>1, <3>2
      <3>4. QED BY <1>1, <3>1, <3>2, <3>3
    <2>2. QED BY <2>1 DEF Regs
  <1>18. Spills'
    <2>1. ASSUME NEW u \in Val, spill'[u] # None PROVE u \in live' /\ stack'[spill'[u]] = u
      <3>1. u # v /\ spill'[u] = spill[u] /\ spill[u] # None
        BY <1>10, <2>1
      <3>2. u \in live /\ stack[spill[u]] = u /\ spill[u] \in Phys
        BY <3>1, OwnedSlots DEF Inv, Spills
      <3>3. QED BY <1>1, <1>7, <3>1, <3>2
    <2>2. QED BY <2>1 DEF Spills
  <1>19. Kept'
    <2>1. ASSUME NEW u \in live' \ node'.last PROVE Available(u)' \/ spill'[u] # None
      <3>1. u \in live \ node.last /\ u # v /\ u \in Val
        BY <1>1, <1>3, <1>4
      <3>2. Available(u) \/ spill[u] # None
        BY <3>1 DEF Inv, Kept
      <3>3. Available(u) => Available(u)'
        BY <1>5, <3>1 DEF Available, RegsOf
      <3>4. QED BY <1>10, <3>1, <3>2, <3>3
    <2>2. QED BY <2>1 DEF Kept
  <1>20. Recovery'
    <2>1. ASSUME NEW s \in Slot
          PROVE /\ shadow'[s] \in live' \cup Const \cup {None, Saved}
                /\ assoc'[s] = IF shadow'[s] \in Val THEN shadow'[s] ELSE None
                /\ shadow'[s] \in Const => exitMap'[s] = IsConst(shadow'[s])
                /\ shadow'[s] = Saved =>
                     s \in Local /\ exitMap'[s] = InLocal(s) /\ local[s] = Saved
                /\ shadow'[s] \in Val =>
                     IF spill'[shadow'[s]] # None THEN exitMap'[s] = OnStack(spill'[shadow'[s]])
                     ELSE shadow'[s] \notin node'.last => InSomeReg(exitMap[s], shadow[s])'
      <3>1. /\ shadow[s] \in live \cup Const \cup {None, Saved}
            /\ assoc[s] = IF shadow[s] \in Val THEN shadow[s] ELSE None
            /\ shadow[s] \in Const => exitMap[s] = IsConst(shadow[s])
            /\ shadow[s] = Saved =>
                 s \in Local /\ exitMap[s] = InLocal(s) /\ local[s] = Saved
            /\ shadow[s] \in Val =>
                 IF spill[shadow[s]] # None
                 THEN exitMap[s] = OnStack(spill[shadow[s]])
                 ELSE shadow[s] \notin node.last => InSomeReg(exitMap[s], shadow[s])
        BY DEF Inv, Recovery
      <3>2. CASE v \in Val /\ shadow[s] = v
        <4>1. shadow'[s] = None /\ assoc'[s] = None
          BY <1>8, <3>1, <3>2
        <4>2. QED BY <1>11, <4>1
      <3>3. CASE ~(v \in Val /\ shadow[s] = v)
        <4>1. shadow'[s] = shadow[s] /\ exitMap'[s] = exitMap[s]
          BY <1>8, <3>3
        <4>2. assoc'[s] = assoc[s]
          BY <1>3, <1>8, <1>11, <3>1, <3>3
        <4>3. shadow[s] \in Val => shadow[s] # v /\ spill'[shadow[s]] = spill[shadow[s]]
          BY <1>10, <3>3
        <4>4. shadow[s] \in Val /\ InSomeReg(exitMap[s], shadow[s]) =>
                InSomeReg(exitMap[s], shadow[s])'
          BY <1>5, <4>1, <4>3 DEF InSomeReg
        <4>5. shadow[s] \in live => shadow[s] \in live'
          BY <1>1, <1>3, <4>3
        <4>6. shadow[s] \in Val /\ shadow[s] \notin node'.last => shadow[s] \notin node.last
          BY <1>4, <4>3
        <4>7. QED BY <3>1, <4>1, <4>2, <4>3, <4>4, <4>5, <4>6
      <3>4. QED BY <3>2, <3>3
    <2>2. QED BY <1>1, <2>1 DEF Recovery
  <1>21. QED BY <1>12, <1>13, <1>14, <1>15, <1>16, <1>17, <1>18, <1>19, <1>20 DEF Inv

-----------------------------------------------------------------------------
\* The start of a block and of a node.

\* The invariant holds at the start of a block.
LEMMA InitInv == Init => Inv
  <1> SUFFICES ASSUME Init PROVE Inv
    OBVIOUS
  <1>1. /\ live = {} /\ reg = [b \in Bank |-> [r \in Reg(b) |-> None]]
        /\ spill = [v \in Val |-> None] /\ freeList = <<>> /\ frame = 0
        /\ exitMap = [s \in Slot |-> None] /\ assoc = [s \in Slot |-> None]
        /\ mreg = [b \in Bank |-> [r \in Reg(b) |-> Garbage]]
        /\ stack = [k \in Phys |-> Garbage] /\ local = [l \in Local |-> Garbage]
        /\ shadow = [s \in Slot |-> None] /\ node = NoNode
    BY DEF Init
  <1>2. RegFile(reg) /\ RegFile(mreg)
    BY <1>1 DEF RegFile
  <1>3. Fun(stack, Phys) /\ Fun(local, Local) /\ Fun(exitMap, Slot) /\ Fun(assoc, Slot) /\ Fun(shadow, Slot)
    BY <1>1 DEF Fun
  <1>4. MaxFrame \in Nat /\ None \notin Val \cup Const /\ Saved # None
    BY DfgAssumption
  <1>5. Shape
    BY <1>1, <1>2, <1>3, <1>4 DEF Shape
  <1>6. NodeType
    <2>1. Materialized = {}
      BY <1>1, NoNodeFacts DEF Materialized
    <2>2. Fun(node.input, 0 .. node.size - 1) /\ node.tmp \in Seq([slot : Nat, val : Const])
      BY <1>1, NoNodeFacts
    <2>3. /\ node.phase \in {"done", "range", "check", "main"} /\ node.cst \subseteq Const
          /\ node.last \subseteq live \cup Const /\ Materialized \subseteq node.cst
          /\ node.start \in Nat \cup {None} /\ node.size \in Nat /\ node.ops = {}
      BY <1>1, <2>1, NoNodeFacts
    <2>4. node.regAlloc \in BOOLEAN /\ node.hasOut \in BOOLEAN /\ NodeRec(node)
      BY <1>1, NoNodeFacts
    <2>5. QED BY <2>2, <2>3, <2>4 DEF NodeType
  <1>7. NodePhase
    BY <1>1, NoNodeFacts DEF NodePhase
  <1>8. Regs /\ Spills /\ Kept
    BY <1>1 DEF Regs, Spills, Kept
  <1>9. Operands /\ Inputs /\ Reserve
    BY <1>1, NoNodeFacts DEF Operands, Inputs, Reserve
  <1>10. Recovery
    BY <1>1, <1>4 DEF Recovery
  <1>11. Slots
    <2>1. Distinct(<<>>) /\ FreeSlots(<<>>) = {} /\ Span(None, 0) = {} /\ TmpSlots(<<>>) = {}
          /\ \A i, j \in DOMAIN <<>> : <<>>[i].slot = <<>>[j].slot => i = j
      BY NoNodeFacts DEF Distinct, FreeSlots, Span
    <2>2. OneEach(spill) /\ Held(spill) = {}
      BY <1>1 DEF OneEach, Held
    <2>3. Partition({}, {}, {}, {}, 0)
      BY NoNodeFacts DEF Partition
    <2>4. SlotsOK(<<>>, spill, <<>>, None, 0, 0)
      BY <2>1, <2>2, <2>3 DEF SlotsOK
    <2>5. QED BY <1>1, <2>4, NoNodeFacts DEF Slots
  <1>12. QED BY <1>5, <1>6, <1>7, <1>8, <1>9, <1>10, <1>11 DEF Inv

\* So does it at the start of the next block.
LEMMA InitInvNext == Init' => Inv'
  BY InitInv, PTL

\* ResetForNewBasicBlock
LEMMA EndBlockStep == EndBlock => Inv'
  <1>1. EndBlock => Init'
    BY DEF EndBlock, Init
  <1>2. QED BY <1>1, InitInvNext

\* The slots that ReserveSpillSlots adds to the frame.
LEMMA FreshSlots ==
    ASSUME NEW n \in Nat, NEW m \in Nat, NEW q, q = [i \in 1 .. m |-> n + i - 1]
    PROVE  q \in Seq(Nat) /\ Len(q) = m /\ Distinct(q) /\ FreeSlots(q) = n .. n + m - 1
  <1>1. q \in [1 .. m -> Nat] /\ DOMAIN q = 1 .. m /\ \A i \in 1 .. m : q[i] = n + i - 1
    OBVIOUS
  <1>2. q \in Seq(Nat) /\ Len(q) = m
    BY <1>1
  <1>3. Distinct(q)
    BY <1>1 DEF Distinct
  <1>4. ASSUME NEW x \in FreeSlots(q) PROVE x \in n .. n + m - 1
    BY <1>1 DEF FreeSlots
  <1>5. ASSUME NEW x \in n .. n + m - 1 PROVE x \in FreeSlots(q)
    <2>1. x - n + 1 \in 1 .. m /\ x = n + (x - n + 1) - 1
      OBVIOUS
    <2>2. PICK i \in 1 .. m : x = n + i - 1
      BY <2>1
    <2>3. QED BY <1>1, <2>2 DEF FreeSlots
  <1>6. QED BY <1>2, <1>3, <1>4, <1>5

\* Reserved slots join the free list and the range is put after them.
LEMMA MakeRange ==
    ASSUME NEW F, NEW H, NEW n \in Nat, NEW m \in Nat, NEW z \in Nat, Partition(F, H, {}, {}, n)
    PROVE  /\ F \cap (n .. n + m - 1) = {}
           /\ Partition(F \cup (n .. n + m - 1), H, {}, (n + m) .. (n + m) + z - 1, n + m + z)
  <1>1. F \cup H = 0 .. n - 1 /\ F \cap H = {}
    BY DEF Partition
  <1> DEFINE A == 0 .. n - 1
             B == n .. n + m - 1
             C == (n + m) .. (n + m) + z - 1
             D == 0 .. (n + m + z) - 1
  <1>2. A \cap B = {} /\ A \cap C = {} /\ B \cap C = {}
    OBVIOUS
  <1>3. A \cup B \cup C = D
    <2>1. ASSUME NEW x \in D PROVE x \in A \cup B \cup C
      OBVIOUS
    <2>2. ASSUME NEW x \in A \cup B \cup C PROVE x \in D
      OBVIOUS
    <2>3. QED BY <2>1, <2>2
  <1>4. F \cup H = A
    BY <1>1
  <1> HIDE DEF A, B, C, D
  <1>5. F \cap B = {} /\ F \cap C = {} /\ H \cap B = {} /\ H \cap C = {}
    BY <1>2, <1>4
  <1>6. (F \cup B) \cup H \cup {} \cup C = D
    BY <1>3, <1>4
  <1>7. /\ (F \cup B) \cap H = {} /\ (F \cup B) \cap {} = {} /\ (F \cup B) \cap C = {}
        /\ H \cap {} = {} /\ H \cap C = {} /\ {} \cap C = {}
    BY <1>1, <1>2, <1>5
  <1>8. QED BY <1>5, <1>6, <1>7 DEF Partition, B, C, D

\* A guest-language node begins.
LEMMA BeginNodeStep ==
    ASSUME Inv, NEW regAlloc \in BOOLEAN, NEW hasOut \in BOOLEAN, NEW cst \in SUBSET Const,
           NEW size \in Nat, BeginNode(regAlloc, hasOut, cst, size)
    PROVE  Inv'
  <1>1. /\ Idle
        /\ IF size = 0 THEN UNCHANGED <<freeList, frame>>
                       ELSE AllocateRange(SlotsToReserve(regAlloc, hasOut, cst), size)
        /\ node' = [NoNode EXCEPT
             !.phase = IF size = 0 THEN "check" ELSE "range",
             !.regAlloc = regAlloc, !.hasOut = hasOut, !.cst = cst,
             !.start = IF size = 0 THEN None ELSE frame' - size, !.size = size,
             !.input = [i \in 0 .. size - 1 |-> None]]
        /\ UNCHANGED <<live, reg, spill, exitMap, assoc, mreg, stack, local, shadow>>
    BY DEF BeginNode, recover, machine
  <1>2. /\ NodeRec(node') /\ node'.phase = (IF size = 0 THEN "check" ELSE "range")
        /\ node'.set = None /\ node'.last = {}
        /\ node'.regAlloc = regAlloc /\ node'.hasOut = hasOut /\ node'.cst = cst /\ node'.tmp = <<>>
        /\ node'.start = (IF size = 0 THEN None ELSE frame' - size) /\ node'.size = size
        /\ node'.ops = {} /\ node'.out = None /\ node'.input = [i \in 0 .. size - 1 |-> None]
    BY <1>1, NoNodeFacts DEF NodeRec
  <1>3. node.last = {} /\ node.start = None /\ node.tmp = <<>> /\ node.size = 0
    BY <1>1 DEF Idle, Inv, NodePhase
  <1>4. /\ freeList \in Seq(Nat) /\ frame \in Nat /\ frame <= MaxFrame
        /\ SlotsOK(freeList, spill, <<>>, None, 0, frame) /\ MaxFrame \in Nat /\ None \notin Nat
    BY <1>3, DfgAssumption DEF Inv, Shape, Slots
  <1>5. Materialized' = {}
    BY <1>2, NoNodeFacts DEF Materialized
  <1>6. Fun(node'.input, 0 .. size - 1) /\ \A i \in 0 .. size - 1 : node'.input[i] = None
    BY <1>2 DEF Fun
  <1>7. Regs' /\ Spills'
    BY <1>1 DEF Inv, Regs, Spills
  <1>8. Kept' /\ Operands'
    BY <1>1, <1>2, <1>3 DEF Inv, Kept, Operands, Available, RegsOf
  <1>9. Inputs'
    BY <1>2, <1>6, NoNodeFacts DEF Inputs
  <1>10. Recovery'
    BY <1>1, <1>2, <1>3 DEF Inv, Recovery, InSomeReg
  <1>11. ASSUME node'.start \in Nat \cup {None} PROVE NodeType'
    <2>1. node'.phase \in {"done", "range", "check", "main"}
      BY <1>2
    <2>2. node'.regAlloc \in BOOLEAN /\ node'.hasOut \in BOOLEAN
      BY <1>2
    <2>3. /\ node'.last \subseteq (live \cup Const)' /\ node'.cst \subseteq Const
          /\ Materialized' \subseteq node'.cst
      BY <1>2, <1>5
    <2>4. node'.tmp \in Seq([slot : Nat, val : Const]) /\ node'.size \in Nat /\ node'.ops = {}
          /\ Fun(node'.input, 0 .. node'.size - 1)
      BY <1>2, <1>6, NoNodeFacts
    <2>5. QED BY <1>2, <1>11, <2>1, <2>2, <2>3, <2>4 DEF NodeType
  <1>12. CASE size = 0
    <2>1. UNCHANGED <<freeList, frame>> /\ node'.start = None
      BY <1>1, <1>2, <1>12
    <2>2. Shape'
      BY <1>1, <2>1 DEF Inv, Shape
    <2>3. NodeType' /\ Reserve'
      BY <1>11, <2>1 DEF Reserve
    <2>4. NodePhase'
      BY <1>2, <1>12, <2>1 DEF NodePhase
    <2>5. Slots'
      BY <1>1, <1>2, <1>4, <1>12, <2>1 DEF Slots
    <2>6. QED BY <1>7, <1>8, <1>9, <1>10, <2>2, <2>3, <2>4, <2>5 DEF Inv
  <1>13. CASE size # 0
    <2> DEFINE need == SlotsToReserve(regAlloc, hasOut, cst)
               missing == IF Len(freeList) < need THEN need - Len(freeList) ELSE 0
               fresh == [i \in 1 .. missing |-> frame + i - 1]
    <2>1. /\ frame + missing + size <= MaxFrame /\ freeList' = freeList \o fresh
          /\ frame' = frame + missing + size
      BY <1>1, <1>13 DEF AllocateRange
    <2>2. Pending' = {v \in live : Available(v) /\ Unspilled(v)}
      BY <1>1, <1>2 DEF Pending, Available, RegsOf, Unspilled
    <2>3. need = Cardinality(Pending') + Owed'
      <3>1. node'.cst \ Materialized' = cst
        BY <1>2, <1>5
      <3>2. SlotsToSpillAll = Cardinality(Pending')
        BY <2>2 DEF SlotsToSpillAll
      <3>3. Owed' = IF regAlloc THEN 0 ELSE Cardinality(cst) + (IF hasOut THEN 1 ELSE 0)
        BY <1>2, <3>1 DEF Owed
      <3>4. QED BY <3>2, <3>3 DEF SlotsToReserve
    <2>4. need \in Nat
      <3>1. {v \in live : Available(v) /\ Unspilled(v)} \subseteq Val
        BY DEF Inv, Shape
      <3>2. Cardinality({v \in live : Available(v) /\ Unspilled(v)}) \in Nat
        BY <3>1, DfgAssumption, CountLess
      <3>3. Cardinality(cst) \in Nat
        BY DfgAssumption, CountLess
      <3>4. QED BY <3>2, <3>3 DEF SlotsToReserve, SlotsToSpillAll
    <2> HIDE DEF need
    <2>5. missing \in Nat /\ Len(freeList) + missing >= need
      BY <1>4, <2>4
    <2>6. /\ fresh \in Seq(Nat) /\ Len(fresh) = missing /\ Distinct(fresh)
          /\ FreeSlots(fresh) = frame .. frame + missing - 1
      <3> HIDE DEF missing
      <3>1. QED BY <1>4, <2>5, FreshSlots
    <2> HIDE DEF missing, fresh
    <2>7. /\ Distinct(freeList) /\ OneEach(spill)
          /\ Partition(FreeSlots(freeList), Held(spill), {}, {}, frame)
      BY <1>4, NoNodeFacts DEF SlotsOK, Span
    <2>8. /\ FreeSlots(freeList) \cap FreeSlots(fresh) = {}
          /\ Partition(FreeSlots(freeList) \cup FreeSlots(fresh), Held(spill), {},
                       (frame + missing) .. (frame + missing) + size - 1, frame + missing + size)
      BY <1>4, <2>5, <2>6, <2>7, MakeRange
    <2>9. /\ freeList' \in Seq(Nat) /\ Len(freeList') = Len(freeList) + missing
          /\ Distinct(freeList') /\ FreeSlots(freeList') = FreeSlots(freeList) \cup FreeSlots(fresh)
      BY <1>4, <2>1, <2>6, <2>7, <2>8, JoinLists
    <2>10. /\ node'.start = frame + missing /\ node'.start \in Nat /\ node'.start # None
           /\ frame' \in Nat /\ frame' = node'.start + size /\ frame' <= MaxFrame
      BY <1>2, <1>4, <1>13, <2>1, <2>5
    <2>11. Shape'
      BY <1>1, <2>9, <2>10 DEF Inv, Shape
    <2>12. NodeType'
      BY <1>11, <2>10
    <2>13. NodePhase'
      BY <1>2, <1>13, <2>10 DEF NodePhase
    <2>14. Slots'
      <3>1. Span(node'.start, size) = (frame + missing) .. (frame + missing) + size - 1
        BY <2>10 DEF Span
      <3>2. Partition(FreeSlots(freeList'), Held(spill), TmpSlots(<<>>), Span(node'.start, size), frame')
        BY <2>1, <2>8, <2>9, <3>1, NoNodeFacts
      <3>3. \A i, j \in DOMAIN <<>> : <<>>[i].slot = <<>>[j].slot => i = j
        BY NoNodeFacts
      <3>4. SlotsOK(freeList', spill, <<>>, node'.start, size, frame')
        BY <2>7, <2>9, <2>10, <3>2, <3>3 DEF SlotsOK
      <3>5. QED BY <1>1, <1>2, <3>4 DEF Slots
    <2>15. Reserve'
      BY <2>3, <2>5, <2>9 DEF Reserve
    <2>16. QED BY <1>7, <1>8, <1>9, <1>10, <2>11, <2>12, <2>13, <2>14, <2>15 DEF Inv
  <1>14. QED BY <1>12, <1>13

-----------------------------------------------------------------------------
\* The holes of a range, listed from the largest down.

\* The order of the naturals is well-founded.
LEMMA NatOrder == \E R : IsWellFoundedOn(R, Nat) /\ \A x, y \in Nat : <<x, y>> \in R <=> x < y
  <1>1. IsWellFoundedOn(OpToRel(<, Nat), Nat)
    BY NatLessThanWellFounded
  <1>2. \A x, y \in Nat : <<x, y>> \in OpToRel(<, Nat) <=> x < y
    BY DEF OpToRel
  <1>3. QED BY <1>1, <1>2, Zenon

\* Every nonempty set of naturals has a least element.
LEMMA LeastNat ==
    ASSUME NEW T \in SUBSET Nat, T # {}
    PROVE  \E m \in T : \A k \in T : m <= k
  <1>1. PICK R : IsWellFoundedOn(R, Nat) /\ \A x, y \in Nat : <<x, y>> \in R <=> x < y
    BY NatOrder
  <1>2. T \subseteq Nat
    OBVIOUS
  <1>3. \E x \in T : \A y \in T : ~(<<y, x>> \in R)
    <2>1. IsWellFoundedOn(R, Nat)
      BY <1>1
    <2>2. QED BY <2>1, <1>2, WFMin
  <1>4. PICK m \in T : \A y \in T : ~(<<y, m>> \in R)
    BY <1>3
  <1>5. \A y \in T : ~(y < m)
    BY <1>1, <1>2, <1>4, Zenon
  <1>6. QED BY <1>5

\* Every nonempty set of naturals below n has a greatest element.
LEMMA Greatest ==
    ASSUME NEW n \in Nat, NEW T \in SUBSET (0 .. n - 1), T # {}
    PROVE  \E m \in T : \A k \in T : k <= m
  <1> DEFINE U == {n - k : k \in T}
  <1>1. U \in SUBSET Nat /\ U # {}
    <2>1. \A k \in T : n - k \in Nat
      OBVIOUS
    <2>2. PICK k \in T : TRUE
      OBVIOUS
    <2>3. n - k \in U
      OBVIOUS
    <2>4. QED BY <2>1, <2>3
  <1>2. PICK u \in U : \A x \in U : u <= x
    BY <1>1, LeastNat
  <1>3. PICK m \in T : u = n - m
    BY <1>2
  <1>4. \A k \in T : n - m <= n - k
    BY <1>2, <1>3
  <1>5. \A k \in T : k <= m
    BY <1>4
  <1>6. QED BY <1>5

Falling(q, S) == q \in [1 .. Cardinality(S) -> S] /\ \A i, j \in DOMAIN q : i < j => q[i] > q[j]

\* A finite set of numbers can be listed from the largest down: its least
\* element is put after a list of the others.
LEMMA FallingExists ==
    ASSUME NEW S \in SUBSET Nat, IsFiniteSet(S)
    PROVE  \E q : Falling(q, S)
  <1> DEFINE Bad(n) == \E T \in SUBSET Nat : IsFiniteSet(T) /\ Cardinality(T) = n /\ ~ \E q : Falling(q, T)
             B == {n \in Nat : Bad(n)}
  <1>1. ASSUME B # {} PROVE FALSE
    <2>1. PICK n \in B : \A k \in B : n <= k
      <3>1. B \in SUBSET Nat
        OBVIOUS
      <3> HIDE DEF B
      <3>2. QED BY <1>1, <3>1, LeastNat
    <2>2. PICK T \in SUBSET Nat : IsFiniteSet(T) /\ Cardinality(T) = n /\ ~ \E q : Falling(q, T)
      BY <2>1
    <2>3. n \in Nat
      BY <2>1
    <2>4. CASE T = {}
      <3>1. Cardinality(T) = 0 /\ 1 .. 0 = {}
        BY <2>4, FS_EmptySet
      <3>2. [i \in {} |-> i] \in [{} -> T] /\ DOMAIN [i \in {} |-> i] = {}
        OBVIOUS
      <3>3. Falling([i \in {} |-> i], T)
        BY <3>1, <3>2 DEF Falling
      <3>4. QED BY <2>2, <3>3
    <2>5. CASE T # {}
      <3>1. PICK x \in T : \A k \in T : x <= k
        BY <2>5, LeastNat
      <3>2. PICK R : R = T \ {x}
        OBVIOUS
      <3>3. R \in SUBSET Nat /\ IsFiniteSet(R) /\ Cardinality(R) = n - 1 /\ n - 1 \in Nat
        <4>1. IsFiniteSet(T \ {x}) /\ Cardinality(T \ {x}) = n - 1
          BY <2>2, <3>1, FS_RemoveElement
        <4>2. Cardinality(T \ {x}) \in Nat
          BY <4>1, FS_CardinalityType
        <4>3. QED BY <3>2, <4>1, <4>2
      <3>4. \E q : Falling(q, R)
        <4>1. n - 1 \notin B
          BY <2>1, <2>3, <3>3
        <4>2. ~Bad(n - 1)
          BY <3>3, <4>1
        <4>3. QED BY <3>3, <4>2
      <3>5. PICK q : Falling(q, R)
        BY <3>4
      <3>6. q \in [1 .. n - 1 -> R] /\ DOMAIN q = 1 .. n - 1
            /\ \A i, j \in 1 .. n - 1 : i < j => q[i] > q[j]
        BY <3>3, <3>5 DEF Falling
      <3> DEFINE p == [i \in 1 .. n |-> IF i < n THEN q[i] ELSE x]
      <3>7. \A i \in 1 .. n : i < n => i \in 1 .. n - 1
        BY <2>3
      <3>8. p \in [1 .. n -> T] /\ DOMAIN p = 1 .. n
        BY <3>1, <3>2, <3>6, <3>7
      <3>9. ASSUME NEW i \in 1 .. n, NEW j \in 1 .. n, i < j PROVE p[i] > p[j]
        <4>1. i < n /\ i \in 1 .. n - 1 /\ p[i] = q[i]
          BY <2>3, <3>9
        <4>2. CASE j < n
          BY <3>6, <3>7, <3>9, <4>1, <4>2
        <4>3. CASE ~(j < n)
          <5>1. p[j] = x
            BY <4>3
          <5>2. q[i] \in R /\ q[i] \in Nat /\ x \in Nat /\ q[i] # x /\ x <= q[i]
            BY <2>2, <3>1, <3>2, <3>6, <4>1
          <5>3. QED BY <4>1, <5>1, <5>2
        <4>4. QED BY <4>2, <4>3
      <3> HIDE DEF p
      <3>10. Falling(p, T)
        BY <2>2, <3>8, <3>9 DEF Falling
      <3>11. QED BY <2>2, <3>10
    <2>6. QED BY <2>4, <2>5
  <1>2. Cardinality(S) \in Nat
    BY FS_CardinalityType
  <1>3. ~Bad(Cardinality(S))
    BY <1>1, <1>2
  <1>4. QED BY <1>3

\* The list has every element of the set once.
LEMMA DescendingIs ==
    ASSUME NEW S \in SUBSET Nat, IsFiniteSet(S)
    PROVE  /\ Descending(S) \in Seq(Nat) /\ Distinct(Descending(S))
           /\ FreeSlots(Descending(S)) = S
  <1>1. PICK q : q = Descending(S)
    OBVIOUS
  <1>2. PICK n \in Nat : n = Cardinality(S)
    BY FS_CardinalityType
  <1>3. q \in [1 .. n -> S] /\ \A i, j \in DOMAIN q : i < j => q[i] > q[j]
    <2>1. PICK p : Falling(p, S)
      BY FallingExists
    <2>2. p \in [1 .. Cardinality(S) -> S] /\ \A i, j \in DOMAIN p : i < j => p[i] > p[j]
      BY <2>1 DEF Falling
    <2>3. Descending(S) \in [1 .. Cardinality(S) -> S]
          /\ \A i, j \in DOMAIN Descending(S) : i < j => Descending(S)[i] > Descending(S)[j]
      BY <2>2, Zenon DEF Descending
    <2>4. QED BY <1>1, <1>2, <2>3
  <1>4. DOMAIN q = 1 .. n /\ \A i \in 1 .. n : q[i] \in S /\ q[i] \in Nat
    BY <1>3
  <1>5. ASSUME NEW i \in 1 .. n, NEW j \in 1 .. n, q[i] = q[j] PROVE i = j
    <2>1. ~(i < j) /\ ~(j < i)
      BY <1>3, <1>4, <1>5
    <2>2. QED BY <2>1
  <1>6. q \in Injection(1 .. n, S)
    BY <1>3, <1>4, <1>5 DEF Injection, IsInjective
  <1>7. q \in Surjection(1 .. n, S)
    <2>1. Cardinality(1 .. n) = n
      BY FS_Interval
    <2>2. QED BY <1>2, <1>6, <2>1, FS_Injection
  <1>8. FreeSlots(q) = S
    BY <1>4, <1>7 DEF Surjection, FreeSlots
  <1>9. q \in Seq(Nat)
    BY <1>3, <1>4
  <1>10. Distinct(q)
    BY <1>4, <1>5 DEF Distinct
  <1>11. QED BY <1>1, <1>8, <1>9, <1>10

-----------------------------------------------------------------------------
\* The range of a node is released, and its outputs stay.

\* The slots at some offsets of the range, and at the others up to U.
At(P, s, O)      == P = {s + i : i \in O}
Between(G, s, U, O) == G = {s + i : i \in (0 .. U - 1) \ O}

RangeLast(F, H, s, z, n) == n = s + z /\ Partition(F, H, {}, s .. s + z - 1, n)
RangeCut(F, H, P, G, s, U) ==
  /\ Partition(F \cup G, H \cup P, {}, {}, s + U) /\ F \cap G = {} /\ H \cap P = {}
  /\ G \in SUBSET Nat /\ IsFiniteSet(G)

\* The frame is cut after the last output; the slots between the outputs are free.
LEMMA CutRange ==
    ASSUME NEW F, NEW H, NEW n \in Nat, NEW s \in Nat, NEW z \in Nat,
           RangeLast(F, H, s, z, n), NEW U \in 0 .. z, NEW O \in SUBSET (0 .. U - 1),
           NEW P, At(P, s, O), NEW G, Between(G, s, U, O)
    PROVE  RangeCut(F, H, P, G, s, U)
  <1> DEFINE A == 0 .. s - 1
             B == s .. s + U - 1
  <1>1. F \cap H = {} /\ F \cap (s .. s + z - 1) = {} /\ H \cap (s .. s + z - 1) = {}
        /\ F \cup H \cup (s .. s + z - 1) = 0 .. s + z - 1
    BY DEF RangeLast, Partition
  <1>2. F \cup H = A
    <2>1. ASSUME NEW x \in A PROVE x \in F \cup H
      <3>1. x \in 0 .. s + z - 1 /\ x \notin s .. s + z - 1
        OBVIOUS
      <3>2. QED BY <1>1, <3>1
    <2>2. ASSUME NEW x \in F \cup H PROVE x \in A
      <3>1. x \in 0 .. s + z - 1 /\ x \notin s .. s + z - 1
        BY <1>1
      <3>2. QED BY <3>1
    <2>3. QED BY <2>1, <2>2
  <1>3. U \in Nat /\ \A i \in 0 .. U - 1 : s + i \in B
    OBVIOUS
  <1> USE DEF At, Between
  <1>4. G \subseteq B /\ P \subseteq B
    BY <1>3
  <1>5. B \subseteq G \cup P
    <2>1. ASSUME NEW x \in B PROVE x \in G \cup P
      <3>1. x - s \in 0 .. U - 1 /\ x = s + (x - s)
        BY <1>3
      <3>2. PICK i \in 0 .. U - 1 : x = s + i
        BY <3>1
      <3>3. QED BY <3>2
    <2>2. QED BY <2>1
  <1>6. G \cap P = {}
    <2>1. ASSUME NEW x \in G, x \in P PROVE FALSE
      <3>1. PICK i \in (0 .. U - 1) \ O : x = s + i
        OBVIOUS
      <3>2. PICK j \in O : x = s + j
        BY <2>1
      <3>3. i = j
        BY <3>1, <3>2
      <3>4. QED BY <3>1, <3>2, <3>3
    <2>2. QED BY <2>1
  <1>7. A \cap B = {} /\ A \cup B = 0 .. (s + U) - 1 /\ B \subseteq Nat
    BY <1>3
  <1>8. IsFiniteSet(G)
    <2>1. IsFiniteSet(s .. s + U - 1)
      BY <1>3, FS_Interval
    <2>2. QED BY <1>4, <2>1, FS_Subset
  <1>9. (F \cup G) \cup (H \cup P) \cup {} \cup {} = 0 .. (s + U) - 1
    <2>1. (F \cup G) \cup (H \cup P) \cup {} \cup {} = A \cup B
      <3> HIDE DEF A, B
      <3>1. QED BY <1>2, <1>4, <1>5
    <2>2. QED BY <1>7, <2>1
  <1> HIDE DEF A, B
  <1>10. F \cap G = {} /\ F \cap P = {} /\ H \cap G = {} /\ H \cap P = {}
    BY <1>2, <1>4, <1>7
  <1>11. (F \cup G) \cap (H \cup P) = {}
    BY <1>1, <1>6, <1>10
  <1>12. QED BY <1>4, <1>7, <1>8, <1>9, <1>10, <1>11 DEF Partition, RangeCut

\* The part of the range that stays reaches just beyond the last output.
LEMMA UsedLenIs ==
    ASSUME node.size \in Nat, NEW outs
    PROVE  UsedLen(outs) \in 0 .. node.size /\ Offsets(outs) \in SUBSET (0 .. UsedLen(outs) - 1)
  <1> DEFINE O == Offsets(outs)
  <1>1. O \in SUBSET (0 .. node.size - 1)
    BY DEF Offsets
  <1> HIDE DEF O
  <1>2. CASE O = {}
    BY <1>2 DEF UsedLen, O
  <1>3. CASE O # {}
    <2>1. \E m \in O : \A k \in O : k <= m
      BY <1>1, <1>3, Greatest
    <2>2. PICK m : m = CHOOSE i \in O : \A j \in O : j <= i
      OBVIOUS
    <2>3. m \in O /\ \A j \in O : j <= m
      BY <2>1, <2>2, Zenon
    <2>4. UsedLen(outs) = 1 + m
      BY <1>3, <2>2 DEF UsedLen, O
    <2>5. m \in 0 .. node.size - 1
      BY <1>1, <2>3
    <2>6. \A j \in O : j \in 0 .. (1 + m) - 1
      BY <1>1, <2>3, <2>5
    <2>7. 1 + m \in 0 .. node.size
      BY <2>5
    <2>8. QED BY <2>4, <2>6, <2>7 DEF O
  <1>4. QED BY <1>2, <1>3

\* The outputs of a range: new names, each at an offset of its own.
LEMMA RangeOutputsAre ==
    ASSUME NEW outs \in RangeOutputs
    PROVE  /\ DOMAIN outs \subseteq Val \ live
           /\ \A w \in DOMAIN outs : outs[w] \in 0 .. node.size - 1
           /\ \A x, y \in DOMAIN outs : outs[x] = outs[y] => x = y
  <1>1. /\ outs \in UNION {[ws -> 0 .. node.size - 1] : ws \in SUBSET (Val \ live)}
        /\ \A x, y \in DOMAIN outs : outs[x] = outs[y] => x = y
    BY DEF RangeOutputs
  <1>2. PICK ws \in SUBSET (Val \ live) : outs \in [ws -> 0 .. node.size - 1]
    BY <1>1
  <1>3. QED BY <1>1, <1>2

\* The spill slots once the outputs have theirs.
OutPut(sq, sp, outs) ==
  sq = [v \in Val |-> IF v \in DOMAIN outs THEN node.start + outs[v] ELSE sp[v]]

\* The outputs of the range are held, in the slots they were written to.
LEMMA OutputsHeld ==
    ASSUME NEW sp \in [Val -> Nat \cup {None}], OneEach(sp), NEW outs \in RangeOutputs,
           node.start \in Nat, node.size \in Nat, Held(sp) \cap {node.start + i : i \in Offsets(outs)} = {},
           \A w \in DOMAIN outs : sp[w] = None, NEW sq, OutPut(sq, sp, outs)
    PROVE  /\ sq \in [Val -> Nat \cup {None}] /\ OneEach(sq)
           /\ Held(sq) = Held(sp) \cup {node.start + i : i \in Offsets(outs)}
  <1> DEFINE P == {node.start + i : i \in Offsets(outs)}
  <1>1. None \notin Nat
    BY DfgAssumption
  <1>2. /\ DOMAIN outs \subseteq Val
        /\ \A w \in DOMAIN outs : outs[w] \in 0 .. node.size - 1
        /\ \A x, y \in DOMAIN outs : outs[x] = outs[y] => x = y
    BY RangeOutputsAre
  <1>3. \A v \in Val : sq[v] = IF v \in DOMAIN outs THEN node.start + outs[v] ELSE sp[v]
    BY DEF OutPut
  <1>4. \A w \in DOMAIN outs : outs[w] \in Offsets(outs)
    BY <1>2 DEF Offsets
  <1>5. \A w \in DOMAIN outs : sq[w] \in P /\ sq[w] \in Nat /\ sq[w] # None
    BY <1>1, <1>2, <1>3, <1>4
  <1>6. sq \in [Val -> Nat \cup {None}]
    <2>1. \A v \in Val : sq[v] \in Nat \cup {None}
      BY <1>3, <1>5
    <2>2. sq = [v \in Val |-> sq[v]]
      BY DEF OutPut
    <2>3. QED BY <2>1, <2>2
  <1>7. \A v \in Val : sp[v] # None => sp[v] \in Held(sp)
    BY DEF Held
  <1>8. ASSUME NEW u \in Val, NEW v \in Val, sq[u] # None, sq[u] = sq[v] PROVE u = v
    <2>1. CASE u \in DOMAIN outs /\ v \in DOMAIN outs
      <3>1. outs[u] = outs[v]
        BY <1>2, <1>3, <1>8, <2>1
      <3>2. QED BY <1>2, <2>1, <3>1
    <2>2. CASE u \notin DOMAIN outs /\ v \notin DOMAIN outs
      BY <1>3, <1>8, <2>2 DEF OneEach
    <2>3. CASE u \in DOMAIN outs /\ v \notin DOMAIN outs
      <3>1. sp[v] \in P /\ sp[v] # None
        BY <1>3, <1>5, <1>8, <2>3
      <3>2. QED BY <1>7, <3>1
    <2>4. CASE u \notin DOMAIN outs /\ v \in DOMAIN outs
      <3>1. sp[u] \in P /\ sp[u] # None
        BY <1>3, <1>5, <1>8, <2>4
      <3>2. QED BY <1>7, <3>1
    <2>5. QED BY <2>1, <2>2, <2>3, <2>4
  <1>9. ASSUME NEW x \in Held(sq) PROVE x \in Held(sp) \cup P
    <2>1. PICK v \in Val : sq[v] # None /\ x = sq[v]
      BY DEF Held
    <2>2. QED BY <1>3, <1>5, <1>7, <2>1
  <1>10. ASSUME NEW x \in Held(sp) PROVE x \in Held(sq)
    <2>1. PICK v \in Val : sp[v] # None /\ x = sp[v]
      BY DEF Held
    <2>2. v \notin DOMAIN outs
      BY <2>1
    <2>3. sq[v] # None /\ x = sq[v]
      BY <1>3, <2>1, <2>2
    <2>4. QED BY <2>3 DEF Held
  <1>11. ASSUME NEW x \in P PROVE x \in Held(sq)
    <2>1. PICK i \in Offsets(outs) : x = node.start + i
      OBVIOUS
    <2>2. PICK w \in DOMAIN outs : outs[w] = i
      BY <2>1 DEF Offsets
    <2>3. w \in Val /\ sq[w] # None /\ x = sq[w]
      BY <1>2, <1>3, <1>5, <2>1, <2>2
    <2>4. QED BY <2>3 DEF Held
  <1>12. Held(sq) = Held(sp) \cup P
    BY <1>9, <1>10, <1>11
  <1>13. QED BY <1>6, <1>8, <1>12 DEF OneEach

\* ReleaseRange hands the slots of the range to the outputs and to the free list,
\* and every spilled value, old or new, is in its slot.
Released ==
  /\ spill' \in [Val -> Nat \cup {None}] /\ freeList' \in Seq(Nat)
  /\ frame' \in Nat /\ frame' <= MaxFrame /\ Fun(stack', Phys)
  /\ SlotsOK(freeList', spill', <<>>, None, 0, frame')
  /\ \A v \in Val : spill'[v] # None => stack'[spill'[v]] = v

\* The release of a range.
LEMMA ReleaseStep ==
    ASSUME Inv, NEW list \in Seq(Nat), NEW sp \in [Val -> Nat \cup {None}], NEW n \in Nat, n <= MaxFrame,
           SlotsOK(list, sp, <<>>, node.start, node.size, n), NEW st,
           \A v \in Val : sp[v] # None => st[sp[v]] = v,
           NEW outs \in RangeOutputs, \A w \in DOMAIN outs : sp[w] = None,
           OutPut(spill', sp, outs), ReleaseRange(st, list, n, outs)
    PROVE  Released
  <1>1. /\ node.start \in Nat \cup {None} /\ node.size \in Nat /\ (node.start = None => node.size = 0)
        /\ None \notin Nat /\ MaxFrame \in Nat
    BY DfgAssumption DEF Inv, NodeType, NodePhase
  <1>2. /\ DOMAIN outs \subseteq Val
        /\ \A w \in DOMAIN outs : outs[w] \in 0 .. node.size - 1
        /\ \A x, y \in DOMAIN outs : outs[x] = outs[y] => x = y
    BY RangeOutputsAre
  <1>3. /\ Distinct(list) /\ OneEach(sp)
        /\ Partition(FreeSlots(list), Held(sp), {}, Span(node.start, node.size), n)
        /\ node.start # None => n = node.start + node.size
    BY NoNodeFacts DEF SlotsOK
  <1>4. Fun(stack', Phys)
    BY DEF ReleaseRange, Fun
  <1>5. ASSUME NEW k \in Phys, ~Clobbered(k) PROVE stack'[k] = st[k]
    BY <1>5 DEF ReleaseRange
  <1>6. \A v \in Val : spill'[v] = IF v \in DOMAIN outs THEN node.start + outs[v] ELSE sp[v]
    BY DEF OutPut
  <1>7. \A v \in Val : sp[v] # None => sp[v] \in Held(sp)
    BY DEF Held
  <1>8. CASE node.start = None
    <2>1. DOMAIN outs = {}
      <3>1. 0 .. node.size - 1 = {}
        BY <1>1, <1>8
      <3>2. QED BY <1>2, <3>1
    <2>2. spill' = sp
      BY <2>1 DEF OutPut
    <2>3. freeList' = list /\ frame' = n
      BY <1>8 DEF ReleaseRange
    <2>4. SlotsOK(freeList', spill', <<>>, None, 0, frame')
      BY <1>1, <1>8, <2>2, <2>3
    <2>5. ASSUME NEW v \in Val, spill'[v] # None PROVE stack'[spill'[v]] = v
      <3>1. sp[v] \in 0 .. n - 1
        BY <1>3, <1>7, <2>2, <2>5 DEF Partition
      <3>2. sp[v] \in Phys
        BY <1>1, <3>1 DEF Phys
      <3>3. QED BY <1>5, <1>8, <2>2, <2>5, <3>2 DEF Clobbered
    <2>6. QED BY <1>4, <2>2, <2>3, <2>4, <2>5 DEF Released
  <1>9. CASE node.start \in Nat
    <2>1. node.start # None /\ n = node.start + node.size
          /\ Span(node.start, node.size) = node.start .. node.start + node.size - 1
      BY <1>1, <1>3, <1>9 DEF Span
    <2>2. PICK U : U = UsedLen(outs)
      OBVIOUS
    <2>3. U \in 0 .. node.size /\ Offsets(outs) \in SUBSET (0 .. U - 1) /\ U \in Nat
      BY <1>1, <2>2, UsedLenIs
    <2>4. PICK P : P = {node.start + i : i \in Offsets(outs)}
      OBVIOUS
    <2>5. PICK G : G = {node.start + i : i \in (0 .. U - 1) \ Offsets(outs)}
      OBVIOUS
    <2>6. /\ Partition(FreeSlots(list) \cup G, Held(sp) \cup P, {}, {}, node.start + U)
          /\ FreeSlots(list) \cap G = {} /\ Held(sp) \cap P = {} /\ G \in SUBSET Nat /\ IsFiniteSet(G)
      <3>1. Partition(FreeSlots(list), Held(sp), {}, node.start .. node.start + node.size - 1, n)
        BY <1>3, <2>1
      <3>2. PICK s \in Nat, z \in Nat : s = node.start /\ z = node.size
        BY <1>1, <1>9
      <3>3. PICK O \in SUBSET (0 .. U - 1) : O = Offsets(outs)
        BY <2>3
      <3>4. /\ RangeLast(FreeSlots(list), Held(sp), s, z, n) /\ U \in 0 .. z
            /\ At(P, s, O) /\ Between(G, s, U, O)
        BY <2>1, <2>3, <2>4, <2>5, <3>1, <3>2, <3>3 DEF At, Between, RangeLast
      <3>5. RangeCut(FreeSlots(list), Held(sp), P, G, s, U)
        BY <3>4, CutRange
      <3>6. QED BY <3>2, <3>5 DEF RangeCut
    <2>7. spill' \in [Val -> Nat \cup {None}] /\ OneEach(spill') /\ Held(spill') = Held(sp) \cup P
      BY <1>1, <1>3, <1>9, <2>4, <2>6, OutputsHeld
    <2>8. Holes(outs) = Descending(G)
      BY <2>2, <2>5 DEF Holes
    <2>9. PICK q : q = Descending(G)
      OBVIOUS
    <2>10. q \in Seq(Nat) /\ Distinct(q) /\ FreeSlots(q) = G
      BY <2>6, <2>9, DescendingIs
    <2>11. freeList' = list \o q /\ frame' = node.start + U
      BY <2>1, <2>2, <2>8, <2>9 DEF ReleaseRange
    <2>12. /\ freeList' \in Seq(Nat) /\ Distinct(freeList')
           /\ FreeSlots(freeList') = FreeSlots(list) \cup G
      BY <1>3, <2>6, <2>10, <2>11, JoinLists
    <2>13. frame' \in Nat /\ frame' <= MaxFrame
      BY <1>1, <1>9, <2>1, <2>3, <2>11
    <2>14. SlotsOK(freeList', spill', <<>>, None, 0, frame')
      <3>1. Partition(FreeSlots(freeList'), Held(spill'), {}, {}, frame')
        BY <2>6, <2>7, <2>11, <2>12
      <3>2. Partition(FreeSlots(freeList'), Held(spill'), TmpSlots(<<>>), Span(None, 0), frame')
        BY <3>1, NoNodeFacts DEF Span
      <3>3. \A i, j \in DOMAIN <<>> : <<>>[i].slot = <<>>[j].slot => i = j
        BY NoNodeFacts
      <3>4. QED BY <2>7, <2>12, <3>2, <3>3 DEF SlotsOK
    <2>15. ASSUME NEW v \in Val, v \in DOMAIN outs PROVE stack'[spill'[v]] = v
      <3>1. PICK k : k = node.start + outs[v]
        OBVIOUS
      <3>2. k \in Phys /\ k >= node.start /\ spill'[v] = k
        BY <1>1, <1>2, <1>6, <1>9, <2>1, <2>15, <3>1 DEF Phys
      <3>3. Clobbered(k)
        BY <2>1, <3>2 DEF Clobbered
      <3>4. \A w \in DOMAIN outs : node.start + outs[w] = k => w = v
        <4>1. ASSUME NEW w \in DOMAIN outs, node.start + outs[w] = k PROVE w = v
          <5>1. outs[w] = outs[v]
            BY <1>2, <1>9, <2>15, <3>1, <4>1
          <5>2. QED BY <1>2, <2>15, <5>1
        <4>2. QED BY <4>1
      <3>5. (CHOOSE w \in DOMAIN outs : node.start + outs[w] = k) = v
        BY <2>15, <3>1, <3>4
      <3>6. stack'[k] = v
        BY <2>15, <3>1, <3>2, <3>3, <3>5 DEF ReleaseRange
      <3>7. QED BY <3>2, <3>6
    <2>16. ASSUME NEW v \in Val, v \notin DOMAIN outs, spill'[v] # None PROVE stack'[spill'[v]] = v
      <3>1. spill'[v] = sp[v] /\ sp[v] # None
        BY <1>6, <2>16
      <3>2. sp[v] \in 0 .. n - 1 /\ sp[v] \notin node.start .. node.start + node.size - 1
        BY <1>3, <1>7, <2>1, <3>1 DEF Partition
      <3>3. sp[v] \in Phys /\ ~(sp[v] >= node.start)
        BY <1>1, <1>9, <2>1, <3>2 DEF Phys
      <3>4. QED BY <1>5, <3>1, <3>3 DEF Clobbered
    <2>17. QED BY <1>4, <2>7, <2>12, <2>13, <2>14, <2>15, <2>16 DEF Released
  <1>10. QED BY <1>1, <1>8, <1>9

-----------------------------------------------------------------------------
\* The main logic of a node executes.

NodeEnds(L) == node' = [NoNode EXCEPT !.last = L]

\* What both forms of execution do: the values in B are born, in a register
\* nobody held or in a slot of their own, and no other value moves.
Bears(B) ==
  /\ live' = live \cup B
  /\ UNCHANGED <<exitMap, assoc, local, shadow>>
  /\ RegFile(reg') /\ RegFile(mreg')
  /\ \A c \in Bank : \A q \in Reg(c) :
       /\ reg[c][q] # None => reg'[c][q] = reg[c][q] /\ mreg'[c][q] = mreg[c][q]
       /\ reg[c][q] = None =>
            reg'[c][q] = None \/ (reg'[c][q] \in B /\ mreg'[c][q] = reg'[c][q])
  /\ \A v \in Val : IF v \in B THEN spill'[v] # None \/ Available(v)'
                    ELSE spill'[v] = spill[v]

\* After the execution of a node the invariant holds again.
LEMMA ExecuteStep ==
    ASSUME Inv, Released, NEW B \in SUBSET (Val \ live), Bears(B),
           NEW L, NodeEnds(L), node.last \subseteq L, L \subseteq live \cup B \cup Const
    PROVE  Inv'
  <1>1. live' = live \cup B /\ live \subseteq Val /\ B \cap live = {} /\ B \subseteq Val
    BY DEF Bears, Inv, Shape
  <1>2. /\ NodeType' /\ NodePhase' /\ Operands' /\ Inputs' /\ Reserve'
        /\ node'.last = L /\ node'.tmp = <<>> /\ node'.start = None /\ node'.size = 0
    <2>1. L \subseteq (live \cup Const)'
      BY <1>1
    <2>2. node' = [NoNode EXCEPT !.last = L]
      BY DEF NodeEnds
    <2>3. QED BY <2>1, <2>2, NodeOver
  <1>3. None \notin Val \cup Const /\ Saved \notin Val \cup Const /\ Val \cap Const = {}
    BY DfgAssumption
  <1>4. Shape'
    <2>1. /\ live' \subseteq Val /\ RegFile(reg') /\ RegFile(mreg') /\ local' = local
          /\ exitMap' = exitMap /\ assoc' = assoc /\ shadow' = shadow
      BY <1>1 DEF Bears
    <2>2. QED BY <2>1 DEF Inv, Shape, Released
  <1>5. Regs'
    <2>1. ASSUME NEW c \in Bank, NEW q \in Reg(c), reg'[c][q] # None
          PROVE  reg'[c][q] \in live' \cup Const /\ mreg'[c][q] = reg'[c][q]
      <3>1. CASE reg[c][q] # None
        <4>1. reg[c][q] \in live \cup Const /\ mreg[c][q] = reg[c][q]
          BY <3>1 DEF Inv, Regs
        <4>2. reg'[c][q] = reg[c][q] /\ mreg'[c][q] = mreg[c][q]
          BY <3>1 DEF Bears
        <4>3. QED BY <1>1, <4>1, <4>2
      <3>2. CASE reg[c][q] = None
        BY <1>1, <2>1, <3>2 DEF Bears
      <3>3. QED BY <3>1, <3>2
    <2>2. QED BY <2>1 DEF Regs
  <1>6. Spills'
    <2>1. ASSUME NEW v \in Val, spill'[v] # None PROVE v \in live' /\ stack'[spill'[v]] = v
      <3>1. v \in live'
        <4>1. CASE v \in B
          BY <1>1, <4>1
        <4>2. CASE v \notin B
          <5>1. spill[v] # None
            BY <2>1, <4>2 DEF Bears
          <5>2. QED BY <1>1, <5>1 DEF Inv, Spills
        <4>3. QED BY <4>1, <4>2
      <3>2. QED BY <2>1, <3>1 DEF Released
    <2>2. QED BY <2>1 DEF Spills
  <1>7. ASSUME NEW v \in live, Available(v) PROVE Available(v)'
    <2>1. PICK c \in Bank : RegsOf(v, c) # {}
      BY <1>7 DEF Available
    <2>2. PICK q \in Reg(c) : reg[c][q] = v
      BY <2>1 DEF RegsOf
    <2>3. reg'[c][q] = v
      BY <1>1, <1>3, <2>2 DEF Bears
    <2>4. q \in RegsOf(v, c)'
      BY <2>3 DEF RegsOf
    <2>5. QED BY <2>4 DEF Available
  <1>8. Kept'
    <2>1. ASSUME NEW v \in live', v \notin L PROVE Available(v)' \/ spill'[v] # None
      <3>1. CASE v \in B
        BY <1>1, <3>1 DEF Bears
      <3>2. CASE v \in live
        <4>1. Available(v) \/ spill[v] # None
          BY <2>1, <3>2 DEF Inv, Kept
        <4>2. spill'[v] = spill[v]
          BY <1>1, <3>2 DEF Bears
        <4>3. QED BY <1>7, <3>2, <4>1, <4>2
      <3>3. QED BY <1>1, <3>1, <3>2
    <2>2. QED BY <1>2, <2>1 DEF Kept
  <1>9. Recovery'
    <2>1. exitMap' = exitMap /\ assoc' = assoc /\ local' = local /\ shadow' = shadow
      BY DEF Bears
    <2>2. ASSUME NEW s \in Slot, shadow[s] \in Val
          PROVE  /\ spill'[shadow[s]] = spill[shadow[s]]
                 /\ InSomeReg(exitMap[s], shadow[s]) => InSomeReg(exitMap[s], shadow[s])'
      <3>1. shadow[s] \in live
        BY <1>3, <2>2 DEF Inv, Recovery
      <3>2. spill'[shadow[s]] = spill[shadow[s]]
        BY <1>1, <3>1 DEF Bears
      <3>3. ASSUME InSomeReg(exitMap[s], shadow[s]) PROVE InSomeReg(exitMap[s], shadow[s])'
        <4>1. PICK c \in Bank : \E r \in Reg(c) : reg[c][r] = shadow[s] /\ exitMap[s] = InReg(c, r)
          BY <3>3 DEF InSomeReg
        <4>2. PICK r \in Reg(c) : reg[c][r] = shadow[s] /\ exitMap[s] = InReg(c, r)
          BY <4>1
        <4>3. reg'[c][r] = shadow[s]
          BY <1>3, <2>2, <4>2 DEF Bears
        <4>4. QED BY <2>1, <4>2, <4>3 DEF InSomeReg
      <3>4. QED BY <3>2, <3>3
    <2>3. ASSUME NEW s \in Slot
          PROVE /\ shadow[s] \in live' \cup Const \cup {None, Saved}
                /\ assoc[s] = IF shadow[s] \in Val THEN shadow[s] ELSE None
                /\ shadow[s] \in Const => exitMap[s] = IsConst(shadow[s])
                /\ shadow[s] = Saved => s \in Local /\ exitMap[s] = InLocal(s) /\ local[s] = Saved
                /\ shadow[s] \in Val =>
                     IF spill'[shadow[s]] # None THEN exitMap[s] = OnStack(spill'[shadow[s]])
                     ELSE shadow[s] \notin L => InSomeReg(exitMap[s], shadow[s])'
      BY <1>1, <2>2 DEF Inv, Recovery
    <2>4. QED BY <1>2, <2>1, <2>3 DEF Recovery
  <1>10. Slots'
    BY <1>2 DEF Slots, Released
  <1>11. QED BY <1>2, <1>4, <1>5, <1>6, <1>8, <1>9, <1>10 DEF Inv

\* A name that is not in use has no slot.
LEMMA UnusedName ==
    ASSUME Inv, NEW v \in Val \ live
    PROVE  spill[v] = None
  BY DEF Inv, Spills

\* EmitMainLogicWithRegAlloc
LEMMA ExecuteWithRegAllocStep ==
    ASSUME Inv, NEW w, NEW outs \in RangeOutputs, NEW unused, ExecuteWithRegAlloc(w, outs, unused)
    PROVE  Inv'
  <1> DEFINE B == ({w} \ {None}) \cup DOMAIN outs
             IsOut(b, r) == node.out # None /\ node.out = [bank |-> b, idx |-> r]
  <1>1. /\ node.regAlloc
        /\ IF node.out # None THEN w \in Val \ (live \cup DOMAIN outs) ELSE w = None
        /\ unused \subseteq B /\ live' = live \cup B
        /\ reg' = [c \in Bank |-> [r \in Reg(c) |-> IF IsOut(c, r) THEN w ELSE reg[c][r]]]
        /\ mreg' = [c \in Bank |-> [r \in Reg(c) |->
             IF IsOut(c, r) THEN w ELSE IF reg[c][r] = None THEN Garbage ELSE mreg[c][r]]]
        /\ ReleaseRange(stack, freeList, frame, outs) /\ OutPut(spill', spill, outs)
        /\ NodeEnds(node.last \cup unused)
        /\ UNCHANGED <<exitMap, assoc, local, shadow>>
    BY DEF ExecuteWithRegAlloc, recover, OutPut, NodeEnds
  <1>2. DOMAIN outs \subseteq Val \ live
    BY RangeOutputsAre
  <1>3. None \notin Val /\ None \notin Nat
    BY DfgAssumption
  <1>4. B \in SUBSET (Val \ live)
    BY <1>1, <1>2
  <1>5. Released
    <2>1. SlotsOK(freeList, spill, <<>>, node.start, node.size, frame)
      BY <1>1 DEF Inv, Slots, NodePhase
    <2>2. freeList \in Seq(Nat) /\ spill \in [Val -> Nat \cup {None}] /\ frame \in Nat /\ frame <= MaxFrame
      BY DEF Inv, Shape
    <2>3. \A v \in Val : spill[v] # None => stack[spill[v]] = v
      BY DEF Inv, Spills
    <2>4. \A v \in DOMAIN outs : spill[v] = None
      BY <1>2, UnusedName
    <2>5. QED BY <1>1, <2>1, <2>2, <2>3, <2>4, ReleaseStep
  <1>6. ASSUME NEW c \in Bank, NEW q \in Reg(c), IsOut(c, q) PROVE reg[c][q] = None /\ w \in B
    <2>1. PICK b \in Bank : \E r \in Reg(b) : node.out = [bank |-> b, idx |-> r] /\ reg[b][r] = None
      BY <1>6 DEF Inv, NodePhase
    <2>2. PICK r \in Reg(b) : node.out = [bank |-> b, idx |-> r] /\ reg[b][r] = None
      BY <2>1
    <2>3. c = b /\ q = r
      BY <1>6, <2>2
    <2>4. QED BY <1>1, <1>3, <1>6, <2>2, <2>3
  <1>7. ASSUME w # None PROVE Available(w)'
    <2>1. node.out # None
      BY <1>1, <1>7
    <2>2. PICK b \in Bank : \E r \in Reg(b) : node.out = [bank |-> b, idx |-> r]
      BY <2>1 DEF Inv, NodePhase
    <2>3. PICK r \in Reg(b) : node.out = [bank |-> b, idx |-> r]
      BY <2>2
    <2>4. reg'[b][r] = w
      BY <1>1, <2>1, <2>3
    <2>5. r \in RegsOf(w, b)'
      BY <2>4 DEF RegsOf
    <2>6. QED BY <2>5 DEF Available
  <1>8. RegFile(reg') /\ RegFile(mreg')
    BY <1>1 DEF RegFile
  <1>9. ASSUME NEW c \in Bank, NEW q \in Reg(c)
        PROVE  /\ reg[c][q] # None => reg'[c][q] = reg[c][q] /\ mreg'[c][q] = mreg[c][q]
               /\ reg[c][q] = None =>
                    reg'[c][q] = None \/ (reg'[c][q] \in B /\ mreg'[c][q] = reg'[c][q])
    <2>1. /\ reg'[c][q] = IF IsOut(c, q) THEN w ELSE reg[c][q]
          /\ mreg'[c][q] = IF IsOut(c, q) THEN w ELSE IF reg[c][q] = None THEN Garbage ELSE mreg[c][q]
      BY <1>1
    <2> HIDE DEF B, IsOut
    <2>2. CASE IsOut(c, q)
      <3>1. reg[c][q] = None /\ w \in B
        BY <1>6, <2>2
      <3>2. QED BY <2>1, <2>2, <3>1
    <2>3. CASE ~IsOut(c, q)
      <3>1. reg'[c][q] = reg[c][q]
        BY <2>1, <2>3
      <3>2. reg[c][q] # None => mreg'[c][q] = mreg[c][q]
        BY <2>1, <2>3
      <3>3. QED BY <3>1, <3>2
    <2>4. QED BY <2>2, <2>3
  <1>10. ASSUME NEW v \in Val
         PROVE  IF v \in B THEN spill'[v] # None \/ Available(v)' ELSE spill'[v] = spill[v]
    <2>1. spill'[v] = IF v \in DOMAIN outs THEN node.start + outs[v] ELSE spill[v]
      BY <1>1 DEF OutPut
    <2>2. CASE v \in DOMAIN outs
      <3>1. outs[v] \in 0 .. node.size - 1 /\ node.size \in Nat /\ node.start \in Nat \cup {None}
            /\ (node.start = None => node.size = 0)
        BY <2>2, RangeOutputsAre DEF Inv, NodeType, NodePhase
      <3>2. node.start + outs[v] \in Nat
        BY <3>1
      <3>3. QED BY <1>3, <2>1, <2>2, <3>2
    <2>3. CASE v \notin DOMAIN outs /\ v = w
      BY <1>3, <1>7, <2>3
    <2>4. CASE v \notin DOMAIN outs /\ v # w
      BY <2>1, <2>4
    <2>5. QED BY <2>2, <2>3, <2>4
  <1>11. node.last \cup unused \subseteq live \cup B \cup Const
    BY <1>1 DEF Inv, NodeType
  <1> HIDE DEF B, IsOut
  <1>12. Bears(B)
    BY <1>1, <1>8, <1>9, <1>10 DEF Bears
  <1>13. QED BY <1>1, <1>4, <1>5, <1>11, <1>12, ExecuteStep

\* The temporary slots as a list.
TmpList(q, tmp) == q = [i \in DOMAIN tmp |-> tmp[i].slot]

\* The list has each temporary slot once.
LEMMA TmpListIs ==
    ASSUME NEW tmp \in Seq([slot : Nat, val : Const]), NEW q, TmpList(q, tmp),
           \A i, j \in DOMAIN tmp : tmp[i].slot = tmp[j].slot => i = j
    PROVE  /\ q \in Seq(Nat) /\ Distinct(q) /\ FreeSlots(q) = TmpSlots(tmp) /\ DOMAIN q = DOMAIN tmp
           /\ \A i \in DOMAIN tmp : q[i] = tmp[i].slot
  <1>1. Len(tmp) \in Nat /\ DOMAIN tmp = 1 .. Len(tmp) /\ \A i \in DOMAIN tmp : tmp[i].slot \in Nat
    <2>1. Len(tmp) \in Nat /\ DOMAIN tmp = 1 .. Len(tmp)
      OBVIOUS
    <2>2. PICK S : S = [slot : Nat, val : Const]
      OBVIOUS
    <2>3. tmp \in Seq(S)
      BY <2>2
    <2>4. \A i \in 1 .. Len(tmp) : tmp[i] \in S
      BY <2>3
    <2>5. QED BY <2>1, <2>2, <2>4
  <1>2. DOMAIN q = DOMAIN tmp /\ \A i \in DOMAIN tmp : q[i] = tmp[i].slot
    BY DEF TmpList
  <1>3. q \in [1 .. Len(tmp) -> Nat]
    BY <1>1, <1>2 DEF TmpList
  <1>4. q \in Seq(Nat)
    <2>1. PICK n \in Nat : n = Len(tmp)
      BY <1>1
    <2>2. q \in [1 .. n -> Nat]
      BY <1>3, <2>1
    <2>3. QED BY <2>2
  <1>5. Distinct(q) /\ FreeSlots(q) = TmpSlots(tmp)
    BY <1>2 DEF Distinct, FreeSlots, TmpSlots
  <1>6. QED BY <1>2, <1>4, <1>5

\* The temporaries are given back.
LEMMA GiveBack ==
    ASSUME NEW F, NEW H, NEW T, NEW R, NEW n, Partition(F, H, T, R, n)
    PROVE  Partition(F \cup T, H, {}, R, n) /\ F \cap T = {}
  BY DEF Partition

\* The slot of the output, the spill slots with it, and the frame around them.
Given(list, sp, n, w, k) ==
  /\ list \in Seq(Nat) /\ sp \in [Val -> Nat \cup {None}] /\ n \in Nat /\ n <= MaxFrame
  /\ Distinct(list) /\ OneEach(sp)
  /\ Partition(FreeSlots(list), Held(sp), TmpSlots(node.tmp), Span(node.start, node.size), n)
  /\ node.start # None => n = node.start + node.size
  /\ node.hasOut => /\ k \in Nat /\ k \in Phys
                    /\ k \notin Held(spill) /\ k \notin TmpSlots(node.tmp)
  /\ \A v \in Val : sp[v] = IF node.hasOut /\ v = w THEN k ELSE spill[v]

\* Without register allocation the output gets a slot before anything is released.
LEMMA GiveSlot ==
    ASSUME Inv, ~node.regAlloc, NEW a, a = AllocateSpillSlot, node.hasOut => a.frame <= MaxFrame,
           NEW w, IF node.hasOut THEN w \in Val \ live ELSE w = None
    PROVE  \E sp : Given(IF node.hasOut THEN a.list ELSE freeList, sp,
                         IF node.hasOut THEN a.frame ELSE frame, w, a.slot)
  <1>1. /\ freeList \in Seq(Nat) /\ spill \in [Val -> Nat \cup {None}] /\ frame \in Nat /\ frame <= MaxFrame
        /\ Distinct(freeList) /\ OneEach(spill)
        /\ Partition(FreeSlots(freeList), Held(spill), TmpSlots(node.tmp), Span(node.start, node.size), frame)
        /\ node.start # None => frame = node.start + node.size
    BY DEF Inv, Shape, Slots, SlotsOK
  <1>2. CASE ~node.hasOut
    <2>1. Given(freeList, spill, frame, w, a.slot)
      BY <1>1, <1>2 DEF Given
    <2>2. QED BY <1>2, <2>1
  <1>3. CASE node.hasOut
    <2>1. ASSUME node.start # None PROVE freeList # <<>>
      <3>1. Len(freeList) >= Cardinality(Pending) + Owed
        BY <2>1 DEF Inv, Reserve
      <3>2. Cardinality(Pending) \in Nat /\ Owed \in Nat
        BY PendingFinite
      <3>3. Cardinality(node.cst \ Materialized) \in Nat
        <4>1. node.cst \ Materialized \subseteq Const
          BY DEF Inv, NodeType
        <4>2. QED BY <4>1, DfgAssumption, CountLess
      <3>4. Owed = Cardinality(node.cst \ Materialized) + 1
        BY <1>3 DEF Owed
      <3>5. Len(freeList) >= 1
        BY <1>1, <3>1, <3>2, <3>3, <3>4
      <3>6. QED BY <3>5
    <2>2. /\ a.slot \in Phys /\ a.slot \in Nat /\ a.list \in Seq(Nat) /\ a.frame \in Nat
          /\ a.slot \notin Held(spill) /\ a.slot \notin TmpSlots(node.tmp) /\ Distinct(a.list)
          /\ node.start # None => a.frame = frame
          /\ Partition(FreeSlots(a.list), Held(spill) \cup {a.slot}, TmpSlots(node.tmp),
                       Span(node.start, node.size), a.frame)
      BY <1>3, <2>1, AllocSlot
    <2>3. PICK sp : FunPut(sp, spill, w, a.slot)
      BY DEF FunPut
    <2>4. w \in Val /\ spill[w] = None
      BY <1>3, UnusedName
    <2>5. /\ sp \in [Val -> Nat \cup {None}] /\ OneEach(sp) /\ Held(sp) = Held(spill) \cup {a.slot}
          /\ \A u \in Val : sp[u] = IF u = w THEN a.slot ELSE spill[u]
      <3>1. PICK k \in Nat : k = a.slot
        BY <2>2
      <3>2. k \notin Held(spill) /\ FunPut(sp, spill, w, k)
        BY <2>2, <2>3, <3>1
      <3>3. /\ sp \in [Val -> Nat \cup {None}] /\ OneEach(sp) /\ Held(sp) = Held(spill) \cup {k}
            /\ \A u \in Val : sp[u] = IF u = w THEN k ELSE spill[u]
        BY <1>1, <2>4, <3>2, SpillOne
      <3>4. QED BY <3>1, <3>3
    <2>6. Given(a.list, sp, a.frame, w, a.slot)
      BY <1>1, <1>3, <2>2, <2>5 DEF Given
    <2>7. QED BY <1>3, <2>6
  <1>4. QED BY <1>2, <1>3

\* EmitMainLogicWithoutRegAlloc
LEMMA ExecuteWithoutRegAllocStep ==
    ASSUME Inv, NEW w, NEW outs \in RangeOutputs, NEW last, NEW unused,
           ExecuteWithoutRegAlloc(w, outs, last, unused)
    PROVE  Inv'
  <1> DEFINE B == ({w} \ {None}) \cup DOMAIN outs
             a == AllocateSpillSlot
             list == IF node.hasOut THEN a.list ELSE freeList
             len  == IF node.hasOut THEN a.frame ELSE frame
             tmps == [i \in DOMAIN node.tmp |-> node.tmp[i].slot]
             st   == [k \in Phys |-> IF node.hasOut /\ k = a.slot THEN w
                        ELSE IF \E i \in DOMAIN tmps : tmps[i] = k THEN Garbage ELSE stack[k]]
  <1>1. /\ ~node.regAlloc /\ (node.hasOut => a.frame <= MaxFrame)
        /\ \A b \in Bank : \A r \in Reg(b) : reg[b][r] = None
        /\ IF node.hasOut THEN w \in Val \ (live \cup DOMAIN outs) ELSE w = None
        /\ last \subseteq (live \ node.last) \cup node.cst /\ unused \subseteq B
        /\ live' = live \cup B
        /\ mreg' = [c \in Bank |-> [r \in Reg(c) |-> Garbage]]
        /\ ReleaseRange(st, list \o tmps, len, outs)
        /\ spill' = [v \in Val |-> IF v \in DOMAIN outs THEN node.start + outs[v]
                                   ELSE IF v = w THEN a.slot ELSE spill[v]]
        /\ NodeEnds(node.last \cup last \cup unused)
        /\ reg' = reg /\ UNCHANGED <<exitMap, assoc, local, shadow>>
    BY DEF ExecuteWithoutRegAlloc, recover, NodeEnds
  <1>2. DOMAIN outs \subseteq Val \ live
    BY RangeOutputsAre
  <1>3. None \notin Val /\ None \notin Nat
    BY DfgAssumption
  <1>4. B \in SUBSET (Val \ live)
    BY <1>1, <1>2
  <1>5. PICK sp : Given(list, sp, len, w, a.slot)
    <2>1. IF node.hasOut THEN w \in Val \ live ELSE w = None
      BY <1>1
    <2> HIDE DEF a
    <2>2. a = AllocateSpillSlot
      BY DEF a
    <2>3. QED BY <1>1, <2>1, <2>2, GiveSlot
  <1>6. /\ node.tmp \in Seq([slot : Nat, val : Const])
        /\ \A i, j \in DOMAIN node.tmp : node.tmp[i].slot = node.tmp[j].slot => i = j
    BY DEF Inv, NodeType, Slots, SlotsOK
  <1>7. /\ tmps \in Seq(Nat) /\ Distinct(tmps) /\ FreeSlots(tmps) = TmpSlots(node.tmp)
        /\ DOMAIN tmps = DOMAIN node.tmp
        /\ \A i \in DOMAIN node.tmp : tmps[i] = node.tmp[i].slot
    <2>1. TmpList(tmps, node.tmp)
      BY DEF TmpList
    <2> HIDE DEF tmps
    <2>2. QED BY <1>6, <2>1, TmpListIs
  <1>8. ASSUME NEW v \in Val, sp[v] # None PROVE st[sp[v]] = v
    <2>1. sp[v] = IF node.hasOut /\ v = w THEN a.slot ELSE spill[v]
      BY <1>5 DEF Given
    <2>2. CASE node.hasOut /\ v = w
      <3>1. sp[v] = a.slot /\ a.slot \in Phys
        BY <1>5, <2>1, <2>2 DEF Given
      <3>2. QED BY <2>2, <3>1
    <2>3. CASE ~(node.hasOut /\ v = w)
      <3>1. sp[v] = spill[v] /\ spill[v] # None
        BY <1>8, <2>1, <2>3
      <3>2. spill[v] \in Held(spill) /\ spill[v] \in Phys
        BY <3>1, OwnedSlots
      <3>3. node.hasOut => spill[v] # a.slot
        BY <1>5, <3>2 DEF Given
      <3>4. spill[v] \notin TmpSlots(node.tmp)
        BY <3>2 DEF Inv, Slots, SlotsOK, Partition
      <3>5. ~ \E i \in DOMAIN tmps : tmps[i] = spill[v]
        BY <1>7, <3>4 DEF TmpSlots
      <3>6. st[spill[v]] = stack[spill[v]]
        BY <3>2, <3>3, <3>5
      <3>7. stack[spill[v]] = v
        BY <3>1 DEF Inv, Spills
      <3>8. QED BY <3>1, <3>6, <3>7
    <2>4. QED BY <2>2, <2>3
  <1>9. OutPut(spill', sp, outs)
    <2>1. ASSUME NEW v \in Val, v \notin DOMAIN outs
          PROVE  (IF v = w THEN a.slot ELSE spill[v]) = sp[v]
      BY <1>1, <1>3, <1>5 DEF Given
    <2> HIDE DEF a
    <2>2. spill' = [v \in Val |-> IF v \in DOMAIN outs THEN node.start + outs[v] ELSE sp[v]]
      BY <1>1, <2>1
    <2>3. QED BY <2>2 DEF OutPut
  <1>10. \A v \in DOMAIN outs : sp[v] = None
    <2>1. ASSUME NEW v \in DOMAIN outs PROVE sp[v] = None
      <3>1. v \in Val \ live /\ spill[v] = None /\ ~(node.hasOut /\ v = w)
        BY <1>1, <1>2, UnusedName
      <3>2. QED BY <1>5, <3>1 DEF Given
    <2>2. QED BY <2>1
  <1> HIDE DEF B, a, list, len, tmps, st
  <1>11. /\ list \in Seq(Nat) /\ sp \in [Val -> Nat \cup {None}] /\ len \in Nat /\ len <= MaxFrame
         /\ Distinct(list) /\ OneEach(sp)
         /\ Partition(FreeSlots(list), Held(sp), TmpSlots(node.tmp), Span(node.start, node.size), len)
         /\ node.start # None => len = node.start + node.size
    BY <1>5 DEF Given
  <1>12. PICK free : free = list \o tmps
    OBVIOUS
  <1>13. /\ Partition(FreeSlots(list) \cup FreeSlots(tmps), Held(sp), {}, Span(node.start, node.size), len)
         /\ FreeSlots(list) \cap FreeSlots(tmps) = {}
    <2>1. Partition(FreeSlots(list), Held(sp), FreeSlots(tmps), Span(node.start, node.size), len)
      BY <1>7, <1>11
    <2>2. QED BY <2>1, GiveBack
  <1>14. free \in Seq(Nat) /\ Distinct(free) /\ FreeSlots(free) = FreeSlots(list) \cup FreeSlots(tmps)
    BY <1>7, <1>11, <1>12, <1>13, JoinLists
  <1>15. SlotsOK(free, sp, <<>>, node.start, node.size, len)
    <2>1. \A i, j \in DOMAIN <<>> : <<>>[i].slot = <<>>[j].slot => i = j
      BY NoNodeFacts
    <2>2. Partition(FreeSlots(free), Held(sp), TmpSlots(<<>>), Span(node.start, node.size), len)
      BY <1>13, <1>14, NoNodeFacts
    <2>3. QED BY <1>11, <1>14, <2>1, <2>2 DEF SlotsOK
  <1>16. Released
    <2>1. ReleaseRange(st, free, len, outs)
      BY <1>1, <1>12
    <2>2. \A v \in Val : sp[v] # None => st[sp[v]] = v
      BY <1>8
    <2>3. QED BY <1>9, <1>10, <1>11, <1>14, <1>15, <2>1, <2>2, ReleaseStep
  <1>17. ASSUME NEW v \in Val
         PROVE  IF v \in B THEN spill'[v] # None \/ Available(v)' ELSE spill'[v] = spill[v]
    <2>1. spill'[v] = IF v \in DOMAIN outs THEN node.start + outs[v] ELSE IF v = w THEN a.slot ELSE spill[v]
      BY <1>1
    <2>2. CASE v \in DOMAIN outs
      <3>1. outs[v] \in 0 .. node.size - 1 /\ node.size \in Nat /\ node.start \in Nat \cup {None}
            /\ (node.start = None => node.size = 0)
        BY <2>2, RangeOutputsAre DEF Inv, NodeType, NodePhase
      <3>2. node.start + outs[v] \in Nat
        BY <3>1
      <3>3. v \in B
        BY <2>2 DEF B
      <3>4. QED BY <1>3, <2>1, <2>2, <3>2, <3>3
    <2>3. CASE v \notin DOMAIN outs /\ v = w
      <3>1. node.hasOut /\ v \in B
        BY <1>1, <1>3, <2>3 DEF B
      <3>2. a.slot \in Nat
        BY <1>5, <3>1 DEF Given
      <3>3. QED BY <1>3, <2>1, <2>3, <3>1, <3>2
    <2>4. CASE v \notin DOMAIN outs /\ v # w
      BY <2>1, <2>4 DEF B
    <2>5. QED BY <2>2, <2>3, <2>4
  <1>18. RegFile(reg') /\ RegFile(mreg')
    <2>1. RegFile(reg)
      BY DEF Inv, Shape
    <2>2. QED BY <1>1, <2>1 DEF RegFile
  <1>19. Bears(B)
    BY <1>1, <1>17, <1>18 DEF Bears
  <1>20. node.last \cup last \cup unused \subseteq live \cup B \cup Const
    BY <1>1 DEF Inv, NodeType
  <1>21. PICK L : L = node.last \cup last \cup unused
    OBVIOUS
  <1>22. NodeEnds(L) /\ node.last \subseteq L /\ L \subseteq live \cup B \cup Const
    BY <1>1, <1>20, <1>21
  <1>23. QED BY <1>4, <1>16, <1>19, <1>22, ExecuteStep

-----------------------------------------------------------------------------
\* The invariant, and what follows from it.

\* Every step of the specification keeps the invariant.
LEMMA NextInv == Inv /\ [Next]_vars => Inv'
  <1> SUFFICES ASSUME Inv, [Next]_vars PROVE Inv'
    OBVIOUS
  <1>1. CASE \E ra, out \in BOOLEAN, cst \in SUBSET Const, size \in 0 .. MaxRange :
               BeginNode(ra, out, cst, size)
    <2>1. PICK ra \in BOOLEAN, out \in BOOLEAN, cst \in SUBSET Const, size \in 0 .. MaxRange :
            BeginNode(ra, out, cst, size)
      BY <1>1
    <2>2. size \in Nat
      BY DfgAssumption
    <2>3. QED BY <2>1, <2>2, BeginNodeStep
  <1>2. CASE \E v \in Usable, i \in 0 .. MaxRange - 1, isLast \in BOOLEAN : PopulateRange(v, i, isLast)
    <2>1. PICK v \in Usable, i \in 0 .. MaxRange - 1, isLast \in BOOLEAN : PopulateRange(v, i, isLast)
      BY <1>2
    <2>2. i \in Nat
      BY DfgAssumption
    <2>3. QED BY <2>1, <2>2, PopulateRangeStep
  <1>3. CASE EndRange \/ EndChecks
    BY <1>3, PhaseSteps
  <1>4. CASE \E b \in Bank : \E v \in Usable : TypeCheck(v, b)
    BY <1>4, PhaseSteps
  <1>5. CASE \E v \in live : Phantom(v)
    BY <1>5, PhaseSteps
  <1>6. CASE \E b \in Bank : \E r \in Reg(b) : Evict(b, r)
    BY <1>6, EvictStep
  <1>7. CASE \E b \in Bank : \E r \in Reg(b) : \E to \in Reg(b) : Relocate(b, r, to)
    BY <1>7, RelocateStep
  <1>8. CASE \E b \in Bank : \E r \in Reg(b) : \E v \in Usable : Load(v, b, r)
    BY <1>8, LoadStep
  <1>9. CASE \E b \in Bank : \E r \in Reg(b) :
               \E v \in Usable, isLast \in BOOLEAN : UseOperand(v, b, r, isLast)
    BY <1>9, UseOperandStep
  <1>10. CASE \E b \in Bank : \E r \in Reg(b) : PlaceOutput(b, r)
    BY <1>10, PlaceOutputStep
  <1>11. CASE \E o \in node.ops : \E r \in Reg(o.bank) : Duplicate(o, r)
    BY <1>11, DuplicateStep
  <1>12. CASE \E c \in Const : MaterializeConstant(c)
    BY <1>12, MaterializeConstantStep
  <1>13. CASE \E w \in (Val \ live) \cup {None}, outs \in RangeOutputs :
                \E unused \in SUBSET (({w} \ {None}) \cup DOMAIN outs) :
                  ExecuteWithRegAlloc(w, outs, unused)
    BY <1>13, ExecuteWithRegAllocStep
  <1>14. CASE \E w \in (Val \ live) \cup {None}, outs \in RangeOutputs :
                \E unused \in SUBSET (({w} \ {None}) \cup DOMAIN outs) :
                  \E last \in SUBSET Usable : ExecuteWithoutRegAlloc(w, outs, last, unused)
    BY <1>14, ExecuteWithoutRegAllocStep
  <1>15. CASE \E v \in live \cup Const, s \in Slot, isLast \in BOOLEAN : ShadowStore(v, s, isLast)
    BY <1>15, ShadowStoreStep
  <1>16. CASE \E l \in Local : BeginSetLocal(l)
    BY <1>16, BeginSetLocalStep
  <1>17. CASE \E o \in node.ops : ExecuteSetLocal(o)
    BY <1>17, ExecuteSetLocalStep
  <1>18. CASE \E v \in node.last : Die(v)
    BY <1>18, DieStep
  <1>19. CASE EndBlock
    BY <1>19, EndBlockStep
  <1>20. CASE UNCHANGED vars
    <2>1. UNCHANGED <<live, reg, spill, freeList, frame, exitMap, assoc, mreg, stack, local, shadow, node>>
      BY <1>20 DEF vars, alloc, recover, machine
    <2>2. Shape' /\ Regs' /\ Spills' /\ Operands' /\ Inputs' /\ Slots'
      BY <2>1 DEF Inv, Shape, Regs, Spills, Operands, Inputs, Slots
    <2>3. NodeType' /\ NodePhase'
      BY <2>1 DEF Inv, NodeType, NodePhase, Materialized
    <2>4. Kept' /\ Recovery'
      BY <2>1 DEF Inv, Kept, Recovery, InSomeReg, Available, RegsOf
    <2>5. Reserve'
      BY <2>1 DEF Inv, Reserve, Pending, Owed, Materialized, Available, RegsOf, Unspilled
    <2>6. QED BY <2>2, <2>3, <2>4, <2>5 DEF Inv
  <1>21. QED
    BY <1>1, <1>2, <1>3, <1>4, <1>5, <1>6, <1>7, <1>8, <1>9, <1>10, <1>11, <1>12, <1>13, <1>14,
       <1>15, <1>16, <1>17, <1>18, <1>19, <1>20 DEF Next

\* The bookkeeping of the allocator stays consistent with the machine and with
\* itself at every step of RegAllocValueManager and of the backend's node loop.
THEOREM AllocatorInvariant == Spec => []Inv
  BY InitInv, NextInv, PTL DEF Spec

\* No live value is lost: what the allocator records of a register, a spill slot,
\* a temporary or a range slot is what the emitted code has put there.
LEMMA InvRecords == Inv => RecordsMatchMachine
  <1> SUFFICES ASSUME Inv PROVE RecordsMatchMachine
    OBVIOUS
  <1>1. \A v \in live \ node.last : Available(v) \/ spill[v] # None
    BY DEF Inv, Kept
  <1>2. \A v \in live \ node.last : spill[v] # None => stack[spill[v]] = v
    BY DEF Inv, Shape, Spills
  <1>3. \A b \in Bank : \A r \in Reg(b) : reg[b][r] # None => mreg[b][r] = reg[b][r]
    BY DEF Inv, Regs
  <1>4. /\ \A o \in node.ops : mreg[o.bank][o.idx] = o.val
        /\ \A i \in DOMAIN node.tmp : stack[node.tmp[i].slot] = node.tmp[i].val
    BY DEF Inv, Operands, Inputs
  <1>5. \A i \in DOMAIN node.input : node.input[i] # None => stack[node.start + i] = node.input[i]
    <2>1. DOMAIN node.input = 0 .. node.size - 1
      BY DEF Inv, NodeType, Fun
    <2>2. QED BY <2>1 DEF Inv, Inputs
  <1>6. QED BY <1>1, <1>2, <1>3, <1>4, <1>5 DEF RecordsMatchMachine

\* The emitted code reads what it was compiled to read: a value still to be used
\* is where EvictRegister, LoadRegister and RelocateRegister have recorded it.
THEOREM RecordsAreTrue == Spec => []RecordsMatchMachine
  BY AllocatorInvariant, InvRecords, PTL

\* The location recorded for an interpreter slot holds the value of the slot.
LEMMA InvRecovery == Inv => RecoveryExact
  <1> SUFFICES ASSUME Inv, NEW s \in Slot, shadow[s] \notin {None} \cup node.last
               PROVE  Content(exitMap[s]) = shadow[s]
    BY DEF RecoveryExact
  <1>1. shadow[s] \in live \cup Const \cup {None, Saved} /\ live \subseteq Val
    BY DEF Inv, Recovery, Shape
  <1>2. CASE shadow[s] \in Const
    <2>1. exitMap[s] = IsConst(shadow[s])
      BY <1>2 DEF Inv, Recovery
    <2>2. exitMap[s].where = "const" /\ exitMap[s].cst = shadow[s]
      BY <2>1 DEF IsConst
    <2>3. QED BY <2>2 DEF Content
  <1>3. CASE shadow[s] = Saved
    <2>1. exitMap[s] = InLocal(s) /\ local[s] = Saved
      BY <1>3 DEF Inv, Recovery
    <2>2. exitMap[s].where = "local" /\ exitMap[s].var = s
      BY <2>1 DEF InLocal
    <2>3. QED BY <1>3, <2>1, <2>2 DEF Content
  <1>4. CASE shadow[s] \in live
    <2>1. CASE spill[shadow[s]] # None
      <3>1. exitMap[s] = OnStack(spill[shadow[s]]) /\ stack[spill[shadow[s]]] = shadow[s]
        BY <1>1, <1>4, <2>1 DEF Inv, Recovery, Spills
      <3>2. exitMap[s].where = "stack" /\ exitMap[s].slot = spill[shadow[s]]
        BY <3>1 DEF OnStack
      <3>3. QED BY <3>1, <3>2 DEF Content
    <2>2. CASE spill[shadow[s]] = None
      <3>1. InSomeReg(exitMap[s], shadow[s])
        BY <1>1, <1>4, <2>2 DEF Inv, Recovery
      <3>2. PICK b \in Bank : \E r \in Reg(b) : reg[b][r] = shadow[s] /\ exitMap[s] = InReg(b, r)
        BY <3>1 DEF InSomeReg
      <3>3. PICK r \in Reg(b) : reg[b][r] = shadow[s] /\ exitMap[s] = InReg(b, r)
        BY <3>2
      <3>4. mreg[b][r] = shadow[s]
        BY <3>3 DEF Inv, Regs
      <3>5. exitMap[s].where = "reg" /\ exitMap[s].bank = b /\ exitMap[s].idx = r
        BY <3>3 DEF InReg
      <3>6. QED BY <3>4, <3>5 DEF Content
    <2>3. QED BY <2>1, <2>2
  <1>5. QED BY <1>1, <1>2, <1>3, <1>4

\* An OSR exit from any point of the block rebuilds the interpreter's frame:
\* DfgOsrExitMapBuilder names a place that holds the value of each slot.
THEOREM RecoveryIsExact == Spec => []RecoveryExact
  BY AllocatorInvariant, InvRecovery, PTL

\* Each slot of the frame has exactly one owner.
LEMMA InvSlots == Inv => SlotsAccounted
  <1> SUFFICES ASSUME Inv PROVE SlotsAccounted
    OBVIOUS
  <1> DEFINE spilled == {v \in live : spill[v] # None}
  <1>1. SlotsOK(freeList, spill, node.tmp, node.start, node.size, frame)
    BY DEF Inv, Slots
  <1>2. spilled = {v \in Val : spill[v] # None}
    BY DEF Inv, Shape, Spills
  <1>3. {spill[v] : v \in spilled} = Held(spill)
    BY <1>2 DEF Held
  <1>4. \A u, v \in spilled : spill[u] = spill[v] => u = v
    BY <1>1, <1>2 DEF SlotsOK, OneEach
  <1>5. /\ \A i, j \in DOMAIN freeList : freeList[i] = freeList[j] => i = j
        /\ \A i, j \in DOMAIN node.tmp : node.tmp[i].slot = node.tmp[j].slot => i = j
        /\ node.start # None => frame = node.start + node.size
    BY <1>1 DEF SlotsOK, Distinct
  <1>6. Partition(FreeSlots(freeList), Held(spill), TmpSlots(node.tmp), Span(node.start, node.size), frame)
    BY <1>1 DEF SlotsOK
  <1> DEFINE F == FreeSlots(freeList)
             H == Held(spill)
             T == TmpSlots(node.tmp)
             R == Span(node.start, node.size)
  <1>7. /\ F \cap (H \cup T \cup R) = {} /\ H \cap (T \cup R) = {} /\ T \cap R = {}
        /\ F \cup H \cup T \cup R = 0 .. frame - 1
    <2> HIDE DEF F, H, T, R
    <2>1. Partition(F, H, T, R, frame)
      BY <1>6 DEF F, H, T, R
    <2>2. QED BY <2>1 DEF Partition
  <1>8. /\ F = {freeList[i] : i \in DOMAIN freeList} /\ T = {node.tmp[i].slot : i \in DOMAIN node.tmp}
        /\ R = IF node.start = None THEN {} ELSE node.start .. node.start + node.size - 1
    BY DEF FreeSlots, TmpSlots, Span
  <1> HIDE DEF spilled, F, H, T, R
  <1>9. H = {spill[v] : v \in spilled}
    BY <1>3 DEF H
  <1>10. QED BY <1>4, <1>5, <1>7, <1>8, <1>9 DEF SlotsAccounted, spilled

\* AllocateSpillSlot, MarkUnaccountedPhysicalSlotAsFree and the release of ranges
\* never lose a slot or give it away twice, and while a range is in place no
\* spill extends the frame beyond it.
THEOREM SlotsAreAccounted == Spec => []SlotsAccounted
  BY AllocatorInvariant, InvSlots, PTL

=============================================================================
