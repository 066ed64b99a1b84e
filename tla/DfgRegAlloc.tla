---------------------------- MODULE DfgRegAlloc ----------------------------
(***************************************************************************)
(* The register allocator of the optimizing (DFG) tier, for one basic      *)
(* block: dfg::RegAllocValueManager, driven by RegAllocDecisionMaker and   *)
(* by the node-by-node loop of dfg_backend.cpp.  While it emits code it    *)
(* keeps, for every interpreter slot, the place from which an OSR exit     *)
(* would recover the slot's value (DfgOsrExitMapBuilder).                  *)
(*                                                                         *)
(* The allocator's own records (reg, spill, freeList, frame, exitMap,      *)
(* assoc) change as the code changes them.  Beside them the model runs the *)
(* emitted instructions on a symbolic machine (mreg, stack, local), where  *)
(* the content of a register or a slot is the SSA value it holds, and      *)
(* remembers what the interpreter slots should hold (shadow): the          *)
(* properties compare the two.                                             *)
(*                                                                         *)
(* Which register is evicted, loaded or given to the output is decided in  *)
(* the code by the distance of the next use; here any choice the code's    *)
(* assertions allow may be made.  The uses of a value are not listed in    *)
(* advance: each use says whether it is the last one.  A name in Val that  *)
(* has died may be given to a later SSA value of the block.                *)
(***************************************************************************)
EXTENDS Integers, Sequences, FiniteSets

CONSTANTS
  Val,        \* names of SSA values, as many as may be live at once
  Const,      \* constant-like nodes
  Gpr, Fpr,   \* x_dfg_reg_alloc_gprs, x_dfg_reg_alloc_fprs
  Slot,       \* interpreter slots of the shadow stack
  Local,      \* the slots among them that have a DFG local
  MaxFrame,   \* bound: physical slots available for spills and ranges
  MaxOps,     \* bound: register operands of one node
  MaxRange,   \* bound: slots of a range operand
  None

Garbage == "garbage"
Saved == "saved"         \* the value a SetLocal has stored for good

ASSUME DfgAssumption ==
  /\ {MaxFrame, MaxOps, MaxRange} \subseteq Nat
  /\ Local \subseteq Slot
  /\ IsFiniteSet(Val) /\ IsFiniteSet(Const)
  /\ Val \cap Const = {}
  /\ None \notin Val \cup Const \cup Local \cup Nat
  /\ Saved \notin Val \cup Const \cup {None}

VARIABLES
  live,       \* SSA values that are born and not dead
  reg,        \* bank -> register -> the value the allocator keeps there
  spill,      \* value -> its spill slot, or None
  freeList,   \* m_spillSlotFreeList: taken from and returned to its end
  frame,      \* m_totalNumPhysicalSlots, counted from the first spill slot
  exitMap,    \* m_osrExitMap: slot -> recovery location
  assoc,      \* slot -> the SSA value it is associated with, or None
  mreg, stack, local,   \* contents of the machine
  shadow,     \* slot -> what an exit must find there
  node        \* the node being processed

alloc   == <<reg, spill, freeList, frame>>
recover == <<exitMap, assoc>>
machine == <<mreg, stack, local>>
vars    == <<live, alloc, recover, machine, shadow, node>>

Bank == {"gpr", "fpr"}
Reg(b) == IF b = "gpr" THEN Gpr ELSE Fpr
Phys == 0 .. MaxFrame - 1

InReg(b, r)  == [where |-> "reg", bank |-> b, idx |-> r]
OnStack(k)   == [where |-> "stack", slot |-> k]
InLocal(l)   == [where |-> "local", var |-> l]
IsConst(c)   == [where |-> "const", cst |-> c]

\* What an OSR exit reads from a recovery location.
Content(p) == CASE p.where = "reg"   -> mreg[p.bank][p.idx]
                [] p.where = "stack" -> stack[p.slot]
                [] p.where = "local" -> local[p.var]
                [] p.where = "const" -> p.cst

NoNode == [phase |-> "done", last |-> {}, regAlloc |-> TRUE, hasOut |-> FALSE,
           set |-> None, cst |-> {}, tmp |-> <<>>, start |-> None, size |-> 0,
           input |-> <<>>, ops |-> {}, out |-> None]

Idle == node.phase = "done" /\ node.last = {}

\* ResetForNewBasicBlock, and Reset of the two decision makers.
Init ==
  /\ live = {}
  /\ reg = [b \in Bank |-> [r \in Reg(b) |-> None]]
  /\ spill = [v \in Val |-> None]
  /\ freeList = <<>> /\ frame = 0
  /\ exitMap = [s \in Slot |-> None] /\ assoc = [s \in Slot |-> None]
  /\ mreg = [b \in Bank |-> [r \in Reg(b) |-> Garbage]]
  /\ stack = [k \in Phys |-> Garbage]
  /\ local = [l \in Local |-> Garbage]
  /\ shadow = [s \in Slot |-> None]
  /\ node = NoNode

----------------------------------------------------------------------------
\* Registers and spill slots.

RegsOf(v, b)   == {r \in Reg(b) : reg[b][r] = v}
Available(v)   == \E b \in Bank : RegsOf(v, b) # {}
Unspilled(v)   == v \in Val /\ spill[v] = None
Usable         == (live \cup Const) \ node.last
Reserved(b)    == {op.idx : op \in {o \in node.ops : o.bank = b}}
Scratch(b)     == {r \in Reg(b) : reg[b][r] = None} \ Reserved(b)

\* AllocateSpillSlot: the slot it returns, the list and the frame it leaves.
AllocateSpillSlot ==
  IF freeList # <<>>
  THEN [slot |-> freeList[Len(freeList)],
        list |-> SubSeq(freeList, 1, Len(freeList) - 1), frame |-> frame]
  ELSE [slot |-> frame, list |-> freeList, frame |-> frame + 1]

\* SetForAllSlotsAssociatedWith
SetForAllSlotsAssociatedWith(v, loc) ==
  exitMap' = [s \in Slot |-> IF assoc[s] = v THEN loc ELSE exitMap[s]]

\* Defect: the register taken by the output is taken for still holding its input.
EvictForOutputWithoutSpill(b, r, dueToTakenByOutput) ==
  LET v == reg[b][r]
      a == AllocateSpillSlot
  IN  /\ reg' = [reg EXCEPT ![b][r] = None]
      /\ mreg' = IF dueToTakenByOutput THEN mreg ELSE [mreg EXCEPT ![b][r] = Garbage]
      /\ IF Unspilled(v) /\ v \notin node.last /\ ~dueToTakenByOutput
         THEN /\ a.frame <= MaxFrame
              /\ spill' = [spill EXCEPT ![v] = a.slot]
              /\ freeList' = a.list /\ frame' = a.frame
              /\ stack' = [stack EXCEPT ![a.slot] = mreg[b][r]]
              /\ SetForAllSlotsAssociatedWith(v, OnStack(a.slot))
         ELSE UNCHANGED <<spill, freeList, frame, stack, exitMap>>

\* EvictRegister: a value that is neither a constant nor spilled, and that is
\* still needed, is written to a fresh spill slot.  A register taken by the
\* output keeps its content until the node executes.
EvictRegister(b, r, dueToTakenByOutput) ==
  LET v == reg[b][r]
      a == AllocateSpillSlot
  IN  /\ reg' = [reg EXCEPT ![b][r] = None]
      /\ mreg' = IF dueToTakenByOutput THEN mreg ELSE [mreg EXCEPT ![b][r] = Garbage]
      /\ IF Unspilled(v) /\ v \notin node.last
         THEN /\ a.frame <= MaxFrame
              /\ spill' = [spill EXCEPT ![v] = a.slot]
              /\ freeList' = a.list /\ frame' = a.frame
              /\ stack' = [stack EXCEPT ![a.slot] = mreg[b][r]]
              /\ SetForAllSlotsAssociatedWith(v, OnStack(a.slot))
         ELSE UNCHANGED <<spill, freeList, frame, stack, exitMap>>

\* Registers may be rearranged while the operands are prepared: in the main
\* phase first in the general-purpose bank, then in the floating-point one,
\* each until its output register is fixed.
Preparing(b) ==
  \/ node.phase \in {"range", "check"}
  \/ /\ node.phase = "main" /\ node.regAlloc
     /\ node.out # None => node.out.bank = "gpr" /\ b = "fpr"
     /\ b = "gpr" => \A o \in node.ops : o.bank = "gpr"

\* Without register allocation, the constant operands that have been put in a
\* temporary slot already.
Materialized == {node.tmp[i].val : i \in DOMAIN node.tmp}

\* Evictions for want of a register, and those of SpillEverything.
Evict(b, r) ==
  /\ \/ Preparing(b)
     \/ node.phase = "main" /\ ~node.regAlloc /\ Materialized = node.cst
  /\ reg[b][r] # None /\ r \notin Reserved(b)
  /\ EvictRegister(b, r, FALSE)
  /\ UNCHANGED <<live, assoc, local, shadow, node>>

\* Defect: only the allocator learns of the move, not the recovery map.
RelocateKeepsRecovery(b, from, to) ==
  /\ Preparing(b) /\ node.phase # "range"
  /\ reg[b][from] # None /\ to \in Scratch(b)
  /\ reg' = [reg EXCEPT ![b][from] = None, ![b][to] = reg[b][from]]
  /\ mreg' = [mreg EXCEPT ![b][from] = Garbage, ![b][to] = mreg[b][from]]
  /\ node' = [node EXCEPT !.ops = {IF o.bank = b /\ o.idx = from THEN [o EXCEPT !.idx = to]
                                                                ELSE o : o \in @}]
  /\ UNCHANGED <<live, spill, freeList, frame, recover, stack, local, shadow>>

\* RelocateRegister
Relocate(b, from, to) ==
  LET v == reg[b][from] IN
  /\ Preparing(b) /\ node.phase # "range"
  /\ v # None /\ to \in Scratch(b)
  /\ reg' = [reg EXCEPT ![b][from] = None, ![b][to] = v]
  /\ mreg' = [mreg EXCEPT ![b][from] = Garbage, ![b][to] = mreg[b][from]]
  /\ IF Unspilled(v) THEN SetForAllSlotsAssociatedWith(v, InReg(b, to))
                     ELSE UNCHANGED exitMap
  /\ node' = [node EXCEPT !.ops = {IF o.bank = b /\ o.idx = from THEN [o EXCEPT !.idx = to]
                                                                ELSE o : o \in @}]
  /\ UNCHANGED <<live, spill, freeList, frame, assoc, stack, local, shadow>>

\* What a load of v finds: the other bank, the constant, or the spill slot.
LoadedFrom(v, b) ==
  LET other == IF b = "gpr" THEN "fpr" ELSE "gpr" IN
  IF RegsOf(v, other) # {} THEN mreg[other][CHOOSE r \in RegsOf(v, other) : TRUE]
  ELSE IF v \in Const THEN v
  ELSE stack[spill[v]]

\* LoadRegister
Load(v, b, r) ==
  /\ Preparing(b)
  /\ v \in Usable /\ RegsOf(v, b) = {} /\ r \in Scratch(b)
  /\ reg' = [reg EXCEPT ![b][r] = v]
  /\ mreg' = [mreg EXCEPT ![b][r] = LoadedFrom(v, b)]
  /\ UNCHANGED <<live, spill, freeList, frame, recover, stack, local, shadow, node>>

----------------------------------------------------------------------------
\* One node: range operands, type checks, main logic, death events.

\* GetNumSlotsNeededToSpillAllRegisters
SlotsToSpillAll == Cardinality({v \in live : Available(v) /\ Unspilled(v)})

\* Defect: only the registers are counted.
SlotsForRegistersOnly(regAlloc, hasOut, cst) == SlotsToSpillAll

\* The slots set aside before the range of a node is placed: one per register
\* not yet spilled and, without register allocation, one per constant operand
\* and one for the output.
SlotsToReserve(regAlloc, hasOut, cst) ==
  SlotsToSpillAll + IF regAlloc THEN 0 ELSE Cardinality(cst) + (IF hasOut THEN 1 ELSE 0)

\* ReserveSpillSlots and AllocatePhysicalRange: after the reservation the range
\* is put at the end of the frame.
AllocateRange(need, size) ==
  LET missing == IF Len(freeList) < need THEN need - Len(freeList) ELSE 0 IN
  /\ frame + missing + size <= MaxFrame
  /\ freeList' = freeList \o [i \in 1 .. missing |-> frame + i - 1]
  /\ frame' = frame + missing + size

\* A guest-language node with a range operand of the given size (0: without).
BeginNode(regAlloc, hasOut, cst, size) ==
  /\ Idle
  /\ regAlloc => cst = {} /\ ~hasOut  \* with it the output is placed later
  /\ hasOut => live # Val            \* bound: a name is left for the output
  /\ IF size = 0 THEN UNCHANGED <<freeList, frame>>
                 ELSE AllocateRange(SlotsToReserve(regAlloc, hasOut, cst), size)
  /\ node' = [NoNode EXCEPT
       !.phase = IF size = 0 THEN "check" ELSE "range",
       !.regAlloc = regAlloc, !.hasOut = hasOut, !.cst = cst,
       !.start = IF size = 0 THEN None ELSE frame' - size, !.size = size,
       !.input = [i \in 0 .. size - 1 |-> None]]
  /\ UNCHANGED <<live, reg, spill, recover, machine, shadow>>

\* ProcessRangedOperands: the operand is stored from its register, or through
\* the temporary register from its spill slot or from the constant.
PopulateRange(v, i, isLast) ==
  /\ node.phase = "range" /\ v \in Usable
  /\ i \in 0 .. node.size - 1 /\ node.input[i] = None
  /\ stack' = [stack EXCEPT ![node.start + i] =
       IF RegsOf(v, "gpr") # {} THEN mreg["gpr"][CHOOSE r \in RegsOf(v, "gpr") : TRUE]
                                ELSE LoadedFrom(v, "gpr")]
  /\ node' = [node EXCEPT !.input[i] = v, !.last = IF isLast THEN @ \cup {v} ELSE @]
  /\ UNCHANGED <<live, alloc, recover, mreg, local, shadow>>

EndRange ==
  /\ node.phase = "range"
  /\ node' = [node EXCEPT !.phase = "check"]
  /\ UNCHANGED <<live, alloc, recover, machine, shadow>>

\* EmitAllTypeChecks, for a check that is the last use of its operand, which the
\* value that a SetLocal stores is not.  (Other checks change nothing here.)
TypeCheck(v, b) ==
  /\ node.phase = "check" /\ v \in Usable /\ RegsOf(v, b) # {}
  /\ node.set # None => v # shadow[node.set]
  /\ node' = [node EXCEPT !.last = @ \cup {v}]
  /\ UNCHANGED <<live, alloc, recover, machine, shadow>>

EndChecks ==
  /\ node.phase = "check"
  /\ node' = [node EXCEPT !.phase = "main"]
  /\ UNCHANGED <<live, alloc, recover, machine, shadow>>

Operand(b, r, v) == [bank |-> b, idx |-> r, val |-> v]

\* WorkForCodegen fixes the register of an operand and advances its next use.
UseOperand(v, b, r, isLast) ==
  /\ node.phase = "main" /\ Preparing(b) /\ Cardinality(node.ops) < MaxOps
  /\ v \in Usable /\ reg[b][r] = v
  /\ node.set # None => v = shadow[node.set] /\ node.ops = {}
  /\ node' = [node EXCEPT !.ops = @ \cup {Operand(b, r, v)},
                          !.last = IF isLast THEN @ \cup {v} ELSE @]
  /\ UNCHANGED <<live, alloc, recover, machine, shadow>>

\* DuplicateRegister: the second edge to an operand gets a copy of its own,
\* which the allocator does not record as holding the value.
Duplicate(o, r) ==
  /\ node.phase = "main" /\ Preparing(o.bank) /\ Cardinality(node.ops) < MaxOps
  /\ node.set = None
  /\ reg[o.bank][o.idx] = o.val /\ r \in Scratch(o.bank)
  /\ mreg' = [mreg EXCEPT ![o.bank][r] = mreg[o.bank][o.idx]]
  /\ node' = [node EXCEPT !.ops = @ \cup {Operand(o.bank, r, o.val)}]
  /\ UNCHANGED <<live, alloc, recover, stack, local, shadow>>

\* finalizeOutputRegister: a free register, the copy of a duplicate edge, or
\* the register of an input, which is evicted first.
PlaceOutput(b, r) ==
  /\ node.phase = "main" /\ node.set = None /\ node.out = None
  /\ live # Val                      \* bound: a name is left for the output
  /\ Preparing(b) /\ r \in Reg(b)
  /\ \/ r \in Scratch(b) \cup {x \in Reserved(b) : reg[b][x] = None}
        /\ UNCHANGED <<alloc, exitMap, mreg, stack>>
     \/ r \in Reserved(b) /\ reg[b][r] # None
        /\ EvictRegister(b, r, TRUE)
  /\ node' = [node EXCEPT !.out = [bank |-> b, idx |-> r]]
  /\ UNCHANGED <<live, assoc, local, shadow>>

\* PrepareCodegenNodeWithoutRegAlloc: each constant operand is put in a
\* temporary slot before the registers are spilled.
MaterializeConstant(c) ==
  LET a == AllocateSpillSlot IN
  /\ node.phase = "main" /\ ~node.regAlloc
  /\ c \in node.cst \ Materialized /\ a.frame <= MaxFrame
  /\ freeList' = a.list /\ frame' = a.frame
  /\ stack' = [stack EXCEPT ![a.slot] =
       IF RegsOf(c, "gpr") # {} THEN mreg["gpr"][CHOOSE r \in RegsOf(c, "gpr") : TRUE]
                                ELSE LoadedFrom(c, "gpr")]
  /\ node' = [node EXCEPT !.tmp = Append(@, [slot |-> a.slot, val |-> c])]
  /\ UNCHANGED <<live, reg, spill, recover, mreg, local, shadow>>

----------------------------------------------------------------------------
\* Execution of the main logic, births, and the release of the range.

\* Offsets of the range that hold outputs; the frame is cut after the last.
Offsets(outs) == {i \in 0 .. node.size - 1 : \E w \in DOMAIN outs : outs[w] = i}
UsedLen(outs) == IF Offsets(outs) = {} THEN 0
                 ELSE 1 + (CHOOSE i \in Offsets(outs) : \A j \in Offsets(outs) : j <= i)

\* A finite set of numbers, listed from the largest down.
Descending(S) == CHOOSE q \in [1 .. Cardinality(S) -> S] :
                   \A i, j \in DOMAIN q : i < j => q[i] > q[j]

\* MarkUnaccountedPhysicalSlotAsFree for the holes, from the last one down.
Holes(outs) ==
  Descending({node.start + i : i \in (0 .. UsedLen(outs) - 1) \ Offsets(outs)})

\* A node with a range may overwrite everything from the start of the range on.
Clobbered(k) == node.start # None /\ k >= node.start

\* outs: the extra outputs of the node, with their offsets in the range.
ReleaseRange(st, list, len, outs) ==
  /\ stack' = [k \in Phys |->
       IF Clobbered(k)
       THEN IF \E w \in DOMAIN outs : node.start + outs[w] = k
            THEN CHOOSE w \in DOMAIN outs : node.start + outs[w] = k ELSE Garbage
       ELSE st[k]]
  /\ freeList' = IF node.start = None THEN list ELSE list \o Holes(outs)
  /\ frame' = IF node.start = None THEN len ELSE node.start + UsedLen(outs)

\* The outputs of the range: new values at distinct offsets.
RangeOutputs ==
  {f \in UNION {[ws -> 0 .. node.size - 1] : ws \in SUBSET (Val \ live)} :
     \A x, y \in DOMAIN f : f[x] = f[y] => x = y}

\* EmitMainLogicWithRegAlloc: the operands are read, every register that holds
\* no value is overwritten, and the output is born in its register.  An output
\* without a use dies at once.
ExecuteWithRegAlloc(w, outs, unused) ==
  LET born == ({w} \ {None}) \cup DOMAIN outs
      IsOut(b, r) == node.out # None /\ node.out = [bank |-> b, idx |-> r]
  IN
  /\ node.phase = "main" /\ node.regAlloc /\ node.set = None
  /\ IF node.out # None THEN w \in Val \ (live \cup DOMAIN outs) ELSE w = None
  /\ unused \subseteq born
  /\ live' = live \cup born
  /\ reg' = [c \in Bank |-> [r \in Reg(c) |->
       IF IsOut(c, r) THEN w ELSE reg[c][r]]]
  /\ mreg' = [c \in Bank |-> [r \in Reg(c) |->
       IF IsOut(c, r) THEN w
       ELSE IF reg[c][r] = None THEN Garbage ELSE mreg[c][r]]]
  /\ ReleaseRange(stack, freeList, frame, outs)
  /\ spill' = [v \in Val |-> IF v \in DOMAIN outs THEN node.start + outs[v] ELSE spill[v]]
  /\ node' = [NoNode EXCEPT !.last = node.last \cup unused]
  /\ UNCHANGED <<recover, local, shadow>>

\* EmitMainLogicWithoutRegAlloc: every register has been spilled, the operands
\* are read from their slots, the output is born in a slot of its own, and the
\* temporary slots of the constants are returned.
ExecuteWithoutRegAlloc(w, outs, last, unused) ==
  LET a == AllocateSpillSlot
      born == ({w} \ {None}) \cup DOMAIN outs
      list == IF node.hasOut THEN a.list ELSE freeList
      len  == IF node.hasOut THEN a.frame ELSE frame
      tmps == [i \in DOMAIN node.tmp |-> node.tmp[i].slot]
      st   == [k \in Phys |-> IF node.hasOut /\ k = a.slot THEN w
                              ELSE IF \E i \in DOMAIN tmps : tmps[i] = k THEN Garbage ELSE stack[k]]
  IN
  /\ node.phase = "main" /\ ~node.regAlloc /\ Materialized = node.cst
  /\ node.hasOut => a.frame <= MaxFrame
  /\ \A b \in Bank : \A r \in Reg(b) : reg[b][r] = None
  /\ IF node.hasOut THEN w \in Val \ (live \cup DOMAIN outs) ELSE w = None
  /\ last \subseteq (live \ node.last) \cup node.cst /\ unused \subseteq born
  /\ live' = live \cup born
  /\ mreg' = [c \in Bank |-> [r \in Reg(c) |-> Garbage]]
  /\ ReleaseRange(st, list \o tmps, len, outs)
  /\ spill' = [v \in Val |-> IF v \in DOMAIN outs THEN node.start + outs[v]
                             ELSE IF v = w THEN a.slot ELSE spill[v]]
  /\ node' = [NoNode EXCEPT !.last = node.last \cup last \cup unused]
  /\ UNCHANGED <<reg, recover, local, shadow>>

----------------------------------------------------------------------------
\* Built-in nodes and death.

\* ProcessShadowStore: the recovery location is the constant, the spill slot,
\* or a register, the floating-point one before the general-purpose one.
Location(v) ==
  IF v \in Const THEN IsConst(v)
  ELSE IF spill[v] # None THEN OnStack(spill[v])
  ELSE LET b == IF RegsOf(v, "fpr") # {} THEN "fpr" ELSE "gpr"
       IN  InReg(b, CHOOSE r \in RegsOf(v, b) : TRUE)

\* A SetLocal is the last thing that happens to its slot in the block.
IsSet(s) == s \in Local /\ local[s] # Garbage

ShadowStore(v, s, isLast) ==
  /\ Idle /\ v \in live \cup Const /\ ~IsSet(s)
  /\ exitMap' = [exitMap EXCEPT ![s] = Location(v)]
  /\ assoc' = [assoc EXCEPT ![s] = IF v \in Const THEN None ELSE v]
  /\ shadow' = [shadow EXCEPT ![s] = v]
  /\ node' = [node EXCEPT !.last = IF isLast THEN {v} ELSE {}]
  /\ UNCHANGED <<live, alloc, machine>>

\* A Phantom is the last use of a value the exits before it still need.
Phantom(v) ==
  /\ Idle /\ v \in live
  /\ node' = [node EXCEPT !.last = {v}]
  /\ UNCHANGED <<live, alloc, recover, machine, shadow>>

\* SetLocal has type checks and one register operand, the value its slot holds
\* already.  There is at most one for each local in a block.
BeginSetLocal(l) ==
  /\ Idle /\ shadow[l] # None /\ ~IsSet(l)
  /\ node' = [NoNode EXCEPT !.phase = "check", !.set = l]
  /\ UNCHANGED <<live, alloc, recover, machine, shadow>>

\* The store, and ProcessSetLocal after it.
ExecuteSetLocal(o) ==
  LET l == node.set
      content == mreg[o.bank][o.idx]
  IN
  /\ node.phase = "main" /\ node.set # None /\ node.ops = {o}
  /\ local' = [local EXCEPT ![l] = IF content = o.val /\ o.val \in Val THEN Saved ELSE content]
  /\ IF o.val \in Const
     THEN UNCHANGED <<exitMap, assoc, shadow>>
     ELSE /\ exitMap' = [exitMap EXCEPT ![l] = InLocal(l)]
          /\ assoc' = [assoc EXCEPT ![l] = None]
          /\ shadow' = [shadow EXCEPT ![l] = Saved]
  /\ node' = [NoNode EXCEPT !.last = node.last]
  /\ UNCHANGED <<live, alloc, mreg, stack>>

\* ProcessDeathEvent: KillRegister in both banks, then ProcessDeath.  The
\* interpreter slots that still name the value are dead as well (this is what
\* phantom insertion has arranged): their records stay in the code, are not read
\* again, and are None here.  The name of the value may be used again.
Die(v) ==
  LET gone(c) == IF v \in Val /\ c = v THEN Garbage ELSE c IN
  /\ node.phase = "done" /\ v \in node.last
  /\ live' = live \ {v}
  /\ reg' = [b \in Bank |-> [r \in Reg(b) |-> IF reg[b][r] = v THEN None ELSE reg[b][r]]]
  /\ IF v \in Val /\ spill[v] # None
     THEN /\ freeList' = Append(freeList, spill[v])
          /\ spill' = [spill EXCEPT ![v] = None]
     ELSE UNCHANGED <<freeList, spill>>
  /\ mreg' = [b \in Bank |-> [r \in Reg(b) |->
       IF reg[b][r] = v THEN Garbage ELSE gone(mreg[b][r])]]
  /\ stack' = [k \in Phys |-> gone(stack[k])]
  /\ shadow' = [s \in Slot |-> IF v \in Val /\ shadow[s] = v THEN None ELSE shadow[s]]
  /\ exitMap' = [s \in Slot |-> IF v \in Val /\ shadow[s] = v THEN None ELSE exitMap[s]]
  /\ assoc' = [s \in Slot |-> IF assoc[s] = v THEN None ELSE assoc[s]]
  /\ node' = [node EXCEPT !.last = @ \ {v}]
  /\ UNCHANGED <<frame, local>>

\* The end of the block: every value has died, and the next block starts anew.
EndBlock ==
  /\ Idle /\ live = {} /\ \A c \in Const : ~Available(c)
  /\ live' = {}
  /\ reg' = [b \in Bank |-> [r \in Reg(b) |-> None]]
  /\ spill' = [v \in Val |-> None]
  /\ freeList' = <<>> /\ frame' = 0
  /\ exitMap' = [s \in Slot |-> None] /\ assoc' = [s \in Slot |-> None]
  /\ mreg' = [b \in Bank |-> [r \in Reg(b) |-> Garbage]]
  /\ stack' = [k \in Phys |-> Garbage]
  /\ local' = [l \in Local |-> Garbage]
  /\ shadow' = [s \in Slot |-> None]
  /\ node' = NoNode

Next ==
  \/ \E ra, out \in BOOLEAN, cst \in SUBSET Const, size \in 0 .. MaxRange :
       BeginNode(ra, out, cst, size)
  \/ \E v \in Usable, i \in 0 .. MaxRange - 1, isLast \in BOOLEAN : PopulateRange(v, i, isLast)
  \/ EndRange
  \/ \E b \in Bank :
       \/ \E v \in Usable : TypeCheck(v, b)
       \/ \E r \in Reg(b) :
            \/ Evict(b, r)
            \/ \E to \in Reg(b) : Relocate(b, r, to)
            \/ \E v \in Usable : Load(v, b, r)
            \/ \E v \in Usable, isLast \in BOOLEAN : UseOperand(v, b, r, isLast)
            \/ PlaceOutput(b, r)
  \/ EndChecks
  \/ \E o \in node.ops : \E r \in Reg(o.bank) : Duplicate(o, r)
  \/ \E c \in Const : MaterializeConstant(c)
  \/ \E w \in (Val \ live) \cup {None}, outs \in RangeOutputs :
       \E unused \in SUBSET (({w} \ {None}) \cup DOMAIN outs) :
         \/ ExecuteWithRegAlloc(w, outs, unused)
         \/ \E last \in SUBSET Usable : ExecuteWithoutRegAlloc(w, outs, last, unused)
  \/ \E v \in live \cup Const, s \in Slot, isLast \in BOOLEAN : ShadowStore(v, s, isLast)
  \/ \E v \in live : Phantom(v)
  \/ \E l \in Local : BeginSetLocal(l)
  \/ \E o \in node.ops : ExecuteSetLocal(o)
  \/ \E v \in node.last : Die(v)
  \/ EndBlock

Spec == Init /\ [][Next]_vars

----------------------------------------------------------------------------

(* At every point where the emitted code may leave for the interpreter, the *)
(* recovery map is right: the register, spill slot, local or constant it    *)
(* names for an interpreter slot holds the value that slot should have.     *)
(* (A value whose last use the current node has already consumed is left    *)
(* out: EvictRegister drops it without a spill.)                            *)
RecoveryExact ==
  \A s \in Slot : shadow[s] \notin {None} \cup node.last =>
                   Content(exitMap[s]) = shadow[s]

(* No value is lost and no record lies: a value still to be used is in a    *)
(* register or in a spill slot, every place recorded for it really holds    *)
(* it, and so do the registers and the range slots a node is about to read. *)
RecordsMatchMachine ==
  /\ \A v \in live \ node.last :
       /\ Available(v) \/ spill[v] # None
       /\ spill[v] # None => stack[spill[v]] = v
  /\ \A b \in Bank : \A r \in Reg(b) : reg[b][r] # None => mreg[b][r] = reg[b][r]
  /\ node.phase = "main" =>
       /\ \A o \in node.ops : mreg[o.bank][o.idx] = o.val
       /\ \A i \in DOMAIN node.tmp : stack[node.tmp[i].slot] = node.tmp[i].val
       /\ \A i \in DOMAIN node.input :
            node.input[i] # None => stack[node.start + i] = node.input[i]

(* Every slot of the frame is accounted for exactly once: free, the spill   *)
(* slot of one live value, the temporary of one constant, or part of the    *)
(* range, which is always at the very end of the frame.  In particular no   *)
(* spill made while a range is in place extends the frame, and at the end   *)
(* of a block the free list is the whole frame.                             *)
SlotsAccounted ==
  LET spilled == {v \in live : spill[v] # None}
      free  == {freeList[i] : i \in DOMAIN freeList}
      held  == {spill[v] : v \in spilled}
      tmps  == {node.tmp[i].slot : i \in DOMAIN node.tmp}
      range == IF node.start = None THEN {} ELSE node.start .. node.start + node.size - 1
  IN  /\ \A i, j \in DOMAIN freeList : freeList[i] = freeList[j] => i = j
      /\ \A u, v \in spilled : spill[u] = spill[v] => u = v
      /\ \A i, j \in DOMAIN node.tmp : node.tmp[i].slot = node.tmp[j].slot => i = j
      /\ free \cap (held \cup tmps \cup range) = {}
      /\ held \cap (tmps \cup range) = {} /\ tmps \cap range = {}
      /\ free \cup held \cup tmps \cup range = 0 .. frame - 1
      /\ node.start # None => frame = node.start + node.size

=============================================================================
