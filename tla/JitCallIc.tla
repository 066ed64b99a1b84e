------------------------------ MODULE JitCallIc ------------------------------
(***************************************************************************)
(* Call inline caches of baseline-JIT code, and their patching when a      *)
(* function tiers up.                                                      *)
(*                                                                         *)
(* A call site owns a singly linked list of JitCallInlineCacheEntry        *)
(* objects.  Every entry has a stub of machine code; the stubs are chained *)
(* by their miss branches, the chain starts at the self-modifying (SMC)    *)
(* region of the call site and ends at the slow path.  An entry whose      *)
(* target is a bytecode function is also on that CodeBlock's list, so that *)
(* CodeBlock::UpdateBestEntryPoint can patch the code pointer in its stub. *)
(*                                                                         *)
(* Execution is modelled stub by stub: pc is the stub the running call is  *)
(* about to execute.  An entry and its stub are allocated and freed        *)
(* together, so one identifier names both.                                 *)
(***************************************************************************)
EXTENDS Integers, Sequences

CONSTANTS
    Fn,              \* FunctionObjects (closures)
    Code,            \* ExecutableCodes
    Bytecode,        \* those that are CodeBlocks; the others are C functions
    ExecOf,          \* FunctionObject::m_executable
    Sites,           \* JitCallInlineCacheSites
    SiteOwner,       \* the CodeBlock whose baseline code holds the site
    Entry,           \* storage for JitCallInlineCacheEntry and its stub
    MaxEntries,      \* x_maxJitCallInlineCacheEntries
    BloomMask,       \* the one or two filter bits that a code's hash selects
    InterpEntry,     \* m_bestEntryPoint before tier-up (a C function's for good)
    BaselineEntry,   \* m_jitCodeEntry of the compiled CodeBlock
    PtrMod,          \* 2^width of the patched code pointer operand
    PatchBias,       \* operand = target + bias: 0 if absolute, else pc-relative
    SlowPath,        \* the IC-miss slow path, end of every stub chain
    NoCall           \* no call is in progress

Addr == 0 .. PtrMod - 1

ASSUME ConstAssumption ==
    /\ Bytecode \subseteq Code
    /\ ExecOf \in [Fn -> Code]
    /\ SiteOwner \in [Sites -> Bytecode]
    /\ MaxEntries \in Nat \ {0}
    /\ PtrMod \in Nat \ {0}
    /\ InterpEntry \in [Code -> Addr]
    /\ BaselineEntry \in [Bytecode -> Addr]
    /\ PatchBias \in [Entry -> Int]
    /\ Fn \cap Code = {}
    /\ SlowPath \notin Entry
    /\ NoCall \notin Entry \cup {SlowPath}

ASSUME BloomAssumption == \A c \in Code : BloomMask[c] # {}

VARIABLES
    compiled,   \* CodeBlocks with m_baselineCodeBlock # nullptr
    best,       \* ExecutableCode::m_bestEntryPoint
    jitCallIcList, \* CodeBlock::m_jitCallIcList, as the set of its nodes
    list,       \* per site: the entries from m_linkedListHead on
    numEntries, \* per site: m_numEntries
    mode,       \* per site: m_mode
    bloom,      \* per site: m_bloomFilter, as a set of bits
    smcKind,    \* per site: the layout of the SMC region
    smcDest,    \* per site: where the SMC region's jump goes
    live,       \* allocated entries
    entity,     \* per entry: m_entity
    stubKind,   \* per entry: which check the stub performs
    stubMiss,   \* per entry: where the stub's miss branch goes
    stubPtr,    \* per entry: the code pointer operand in the stub
    pc,         \* stub about to run, SlowPath, or NoCall
    callee,     \* the site and FunctionObject of the call in progress
    lastCall,   \* the last call made: what was called, where it jumped
    seen        \* history: the FunctionObjects called through each site

icVars == <<jitCallIcList, list, numEntries, mode, bloom, live, entity>>
codeVars == <<smcKind, smcDest, stubKind, stubMiss, stubPtr>>
vars == <<compiled, best, icVars, codeVars, pc, callee, lastCall, seen>>

Mode == {"DirectCall", "ClosureCall", "ClosureCallWithMoreThanOneTargetObserved"}

-----------------------------------------------------------------------------
(***************************************************************************)
(* Reading the structures.                                                 *)
(***************************************************************************)
\* JitCallInlineCacheEntry::GetTargetExecutableCode
TargetOf(ent) == IF ent \in Fn THEN ExecOf[ent] ELSE ent
Target(e) == TargetOf(entity[e])

\* The operand a stub at e holds for code pointer a, and what it denotes.
Encode(e, a) == (a + PatchBias[e]) % PtrMod
Decode(e, v) == (v - PatchBias[e]) % PtrMod

\* The entries a site's singly linked list reaches.
Owned(s) == {list[s][i] : i \in 1 .. Len(list[s])}

\* Outcome of the compare in a stub: a direct-call stub compares the callee
\* value, a closure-call stub the ExecutableCode that the SMC region loaded.
Hits(e, f) == entity[e] = IF stubKind[e] = "DirectCall" THEN f ELSE ExecOf[f]

ObservedNoTarget(s) == numEntries[s] = 0
ObservedExactlyOneTarget(s) ==
    numEntries[s] = 1 /\ mode[s] # "ClosureCallWithMoreThanOneTargetObserved"

-----------------------------------------------------------------------------
\* CodeBlock::Create compiles at once if the engine's starting tier is the
\* baseline JIT.  Sites are zero-initialized.
Init ==
    /\ compiled \in {{}, Bytecode}
    /\ best = [c \in Code |-> IF c \in compiled THEN BaselineEntry[c] ELSE InterpEntry[c]]
    /\ jitCallIcList = [c \in Bytecode |-> {}]
    /\ list = [s \in Sites |-> <<>>]
    /\ numEntries = [s \in Sites |-> 0]
    /\ mode = [s \in Sites |-> "DirectCall"]
    /\ bloom = [s \in Sites |-> {}]
    /\ smcKind = [s \in Sites |-> "DirectCall"]
    /\ smcDest = [s \in Sites |-> SlowPath]
    /\ live = {}
    /\ entity \in [Entry -> {NoCall}]
    /\ stubKind = [e \in Entry |-> "DirectCall"]
    /\ stubMiss = [e \in Entry |-> SlowPath]
    /\ stubPtr = [e \in Entry |-> 0]
    /\ pc = NoCall
    /\ callee = NoCall
    /\ lastCall = NoCall
    /\ seen = [s \in Sites |-> {}]

\* The call reaches its target: control jumps to address a.
JumpTo(s, f, a) ==
    /\ lastCall' = [fn |-> f, ptr |-> a]
    /\ seen' = [seen EXCEPT ![s] = @ \cup {f}]
    /\ pc' = NoCall
    /\ callee' = NoCall

\* Baseline code of SiteOwner[s] reaches call site s with FunctionObject f.
StartCall(s, f) ==
    /\ pc = NoCall
    /\ SiteOwner[s] \in compiled
    /\ pc' = smcDest[s]
    /\ callee' = [site |-> s, fn |-> f]
    /\ UNCHANGED <<compiled, best, icVars, codeVars, lastCall, seen>>

\* A stub whose compare succeeds jumps to the code pointer patched into it.
StubHit ==
    /\ pc \in Entry
    /\ Hits(pc, callee.fn)
    /\ JumpTo(callee.site, callee.fn, Decode(pc, stubPtr[pc]))
    /\ UNCHANGED <<compiled, best, icVars, codeVars>>

\* A stub whose compare fails branches to the next stub, or the slow path.
StubMiss ==
    /\ pc \in Entry
    /\ ~Hits(pc, callee.fn)
    /\ pc' = stubMiss[pc]
    /\ UNCHANGED <<compiled, best, icVars, codeVars, callee, lastCall, seen>>

-----------------------------------------------------------------------------
(***************************************************************************)
(* The slow path.  It runs to completion before the call is made.          *)
(***************************************************************************)
\* JitCallInlineCacheEntry::Create of entry e for ent, on top of the lists
\* and allocations that remain (lists, alive).
Create(e, ent, lists, alive) ==
    /\ live' = alive \cup {e}
    /\ entity' = [entity EXCEPT ![e] = ent]
    /\ jitCallIcList' =
          [c \in Bytecode |-> IF c = TargetOf(ent) THEN lists[c] \cup {e} ELSE lists[c]]

\* Defect: the chain is cut at the new stub.
EmitStubCutsChain(s, e, kind, miss, f) ==
    /\ stubKind' = [stubKind EXCEPT ![e] = kind]
    /\ stubMiss' = [stubMiss EXCEPT ![e] = SlowPath]
    /\ stubPtr' = [stubPtr EXCEPT ![e] = Encode(e, best[ExecOf[f]])]
    /\ smcDest' = [smcDest EXCEPT ![s] = e]

\* Defect: the SMC jump is redirected before its old target is read.
EmitStubSetsDestFirst(s, e, kind, miss, f) ==
    /\ stubKind' = [stubKind EXCEPT ![e] = kind]
    /\ stubMiss' = [stubMiss EXCEPT ![e] = e]
    /\ stubPtr' = [stubPtr EXCEPT ![e] = Encode(e, best[ExecOf[f]])]
    /\ smcDest' = [smcDest EXCEPT ![s] = e]

\* The generated codegen function writes stub e, which misses to the current
\* target of the SMC jump (miss), and the SMC jump is redirected to the stub.
EmitStub(s, e, kind, miss, f) ==
    /\ stubKind' = [stubKind EXCEPT ![e] = kind]
    /\ stubMiss' = [stubMiss EXCEPT ![e] = miss]
    /\ stubPtr' = [stubPtr EXCEPT ![e] = Encode(e, best[ExecOf[f]])]
    /\ smcDest' = [smcDest EXCEPT ![s] = e]

\* Defect: only the newest entry is compared.
ShouldTransitLooksAtHeadOnly(s, f) ==
    /\ BloomMask[ExecOf[f]] \subseteq bloom[s]
    /\ list[s] # <<>> /\ Target(list[s][1]) = ExecOf[f]

\* The bloom filter is tested first; the list is walked only if it matches.
ShouldTransitToCCMode(s, f) ==
    /\ BloomMask[ExecOf[f]] \subseteq bloom[s]
    /\ \E e \in Owned(s) : Target(e) = ExecOf[f]

\* Defect: the filter is overwritten instead of or-ed.
InsertOverwritesBloom(s, f) ==
    /\ ~ShouldTransitToCCMode(s, f)
    /\ \E e \in Entry \ live :
          /\ Create(e, f, jitCallIcList, live)
          /\ EmitStub(s, e, "DirectCall", smcDest[s], f)
          /\ list' = [list EXCEPT ![s] = <<e>> \o @]
    /\ bloom' = [bloom EXCEPT ![s] = BloomMask[ExecOf[f]]]
    /\ numEntries' = [numEntries EXCEPT ![s] = @ + 1]
    /\ UNCHANGED <<mode, smcKind>>

\* InsertInDirectCallMode with a target whose code the site has not cached.
InsertInDirectCallMode(s, f) ==
    /\ ~ShouldTransitToCCMode(s, f)
    /\ \E e \in Entry \ live :
          /\ Create(e, f, jitCallIcList, live)
          /\ EmitStub(s, e, "DirectCall", smcDest[s], f)
          /\ list' = [list EXCEPT ![s] = <<e>> \o @]
    /\ bloom' = [bloom EXCEPT ![s] = @ \cup BloomMask[ExecOf[f]]]
    /\ numEntries' = [numEntries EXCEPT ![s] = @ + 1]
    /\ UNCHANGED <<mode, smcKind>>

\* Defects of the transition: (lists) destroyed entries stay on the CodeBlock's
\* list, (miss) the SMC region is not regenerated, (count) the mode is chosen
\* after m_numEntries has been reset.
TransitWith(s, f, lists, miss, count) ==
    /\ ShouldTransitToCCMode(s, f)
    /\ \E e \in Entry \ (live \ Owned(s)) :
          /\ Create(e, ExecOf[f], lists, live \ Owned(s))
          /\ EmitStub(s, e, "ClosureCall", miss, f)
          /\ list' = [list EXCEPT ![s] = <<e>>]
    /\ smcKind' = [smcKind EXCEPT ![s] = "ClosureCall"]
    /\ mode' = [mode EXCEPT ![s] = IF count > 1
                                   THEN "ClosureCallWithMoreThanOneTargetObserved"
                                   ELSE "ClosureCall"]
    /\ numEntries' = [numEntries EXCEPT ![s] = 1]
    /\ bloom' = [bloom EXCEPT ![s] = {}]
DestroyedEntriesStayListed(s, f) == TransitWith(s, f, jitCallIcList, SlowPath, numEntries[s])
SmcNotRegenerated(s, f) ==
    TransitWith(s, f, [c \in Bytecode |-> jitCallIcList[c] \ Owned(s)], smcDest[s], numEntries[s])
ModeAfterReset(s, f) ==
    TransitWith(s, f, [c \in Bytecode |-> jitCallIcList[c] \ Owned(s)], SlowPath, 1)

\* InsertInDirectCallMode when another closure of a cached code shows up: all
\* entries are destroyed, the SMC region is regenerated (its jump then goes to
\* the slow path) and a single closure-call entry is created.
TransitToClosureCallMode(s, f) ==
    /\ ShouldTransitToCCMode(s, f)
    /\ LET lists == [c \in Bytecode |-> jitCallIcList[c] \ Owned(s)]
           alive == live \ Owned(s)
       IN  \E e \in Entry \ alive :
              /\ Create(e, ExecOf[f], lists, alive)
              /\ EmitStub(s, e, "ClosureCall", SlowPath, f)
              /\ list' = [list EXCEPT ![s] = <<e>>]
    /\ smcKind' = [smcKind EXCEPT ![s] = "ClosureCall"]
    /\ mode' = [mode EXCEPT ![s] = IF numEntries[s] > 1
                                   THEN "ClosureCallWithMoreThanOneTargetObserved"
                                   ELSE "ClosureCall"]
    /\ numEntries' = [numEntries EXCEPT ![s] = 1]
    /\ bloom' = [bloom EXCEPT ![s] = {}]

\* Defect: the new entry does not link the old head.
InsertDropsOldHead(s, f) ==
    /\ \E e \in Entry \ live :
          /\ Create(e, ExecOf[f], jitCallIcList, live)
          /\ EmitStub(s, e, "ClosureCall", smcDest[s], f)
          /\ list' = [list EXCEPT ![s] = <<e>>]
    /\ numEntries' = [numEntries EXCEPT ![s] = @ + 1]
    /\ UNCHANGED <<mode, bloom, smcKind>>
InsertInClosureCallMode(s, f) ==
    /\ \E e \in Entry \ live :
          /\ Create(e, ExecOf[f], jitCallIcList, live)
          /\ EmitStub(s, e, "ClosureCall", smcDest[s], f)
          /\ list' = [list EXCEPT ![s] = <<e>> \o @]
    /\ numEntries' = [numEntries EXCEPT ![s] = @ + 1]
    /\ UNCHANGED <<mode, bloom, smcKind>>

\* The site is full: call the target without caching it.
SlowPathNoInsert ==
    /\ pc = SlowPath
    /\ numEntries[callee.site] >= MaxEntries
    /\ JumpTo(callee.site, callee.fn, best[ExecOf[callee.fn]])
    /\ UNCHANGED <<compiled, best, icVars, codeVars>>

SlowPathInsert ==
    /\ pc = SlowPath
    /\ numEntries[callee.site] < MaxEntries
    /\ IF mode[callee.site] = "DirectCall"
       THEN \/ InsertInDirectCallMode(callee.site, callee.fn)
            \/ TransitToClosureCallMode(callee.site, callee.fn)
       ELSE InsertInClosureCallMode(callee.site, callee.fn)
    /\ JumpTo(callee.site, callee.fn, best[ExecOf[callee.fn]])
    /\ UNCHANGED <<compiled, best>>

-----------------------------------------------------------------------------
\* Defect: m_bestEntryPoint is overwritten before the difference is taken.
UpdateBestEntryPointTooEarly(c, new) ==
    /\ best' = [best EXCEPT ![c] = new]
    /\ stubPtr' = [e \in Entry |->
                     IF e \in jitCallIcList[c]
                     THEN (stubPtr[e] + (new - best'[c])) % PtrMod
                     ELSE stubPtr[e]]

\* Defect: the difference is added without regard to the operand's width.
UpdateBestEntryPointWide(c, new) ==
    /\ stubPtr' = [e \in Entry |->
                     IF e \in jitCallIcList[c] THEN stubPtr[e] + (new - best[c]) ELSE stubPtr[e]]
    /\ best' = [best EXCEPT ![c] = new]

\* CodeBlock::UpdateBestEntryPoint: every entry on the CodeBlock's list has
\* the difference of the two entry points added to its operand.
UpdateBestEntryPoint(c, new) ==
    /\ stubPtr' = [e \in Entry |->
                     IF e \in jitCallIcList[c]
                     THEN (stubPtr[e] + (new - best[c])) % PtrMod
                     ELSE stubPtr[e]]
    /\ best' = [best EXCEPT ![c] = new]

\* deegen_baseline_jit_do_codegen, on a CodeBlock that has no baseline code.
\* It runs in the prologue or at a loop edge of c, never inside a call.
TierUp(c) ==
    /\ pc = NoCall
    /\ c \notin compiled
    /\ compiled' = compiled \cup {c}
    /\ UpdateBestEntryPoint(c, BaselineEntry[c])
    /\ UNCHANGED <<icVars, smcKind, smcDest, stubKind, stubMiss, pc, callee, lastCall, seen>>

CallStep == StubHit \/ StubMiss \/ SlowPathNoInsert \/ SlowPathInsert

Next ==
    \/ \E s \in Sites, f \in Fn : StartCall(s, f)
    \/ CallStep
    \/ \E c \in Bytecode : TierUp(c)

Spec == Init /\ [][Next]_vars

\* The processor keeps executing a call that has begun.
FairSpec == Spec /\ WF_vars(CallStep)

-----------------------------------------------------------------------------
(***************************************************************************)
(* Correctness.                                                            *)
(***************************************************************************)
BloomBits == UNION {BloomMask[c] : c \in Code}
StubOrSlow == Entry \cup {SlowPath}

\* Every field holds a value of its C++ type; m_numEntries never exceeds the
\* limit that InsertInDirectCallMode and InsertInClosureCallMode assert.
TypeOK ==
    /\ compiled \subseteq Bytecode
    /\ best \in [Code -> Addr]
    /\ jitCallIcList \in [Bytecode -> SUBSET Entry]
    /\ list \in [Sites -> Seq(Entry)]
    /\ numEntries \in [Sites -> 0 .. MaxEntries]
    /\ mode \in [Sites -> Mode]
    /\ bloom \in [Sites -> SUBSET BloomBits]
    /\ smcKind \in [Sites -> {"DirectCall", "ClosureCall"}]
    /\ smcDest \in [Sites -> StubOrSlow]
    /\ live \subseteq Entry
    /\ entity \in [Entry -> Fn \cup Code \cup {NoCall}]
    /\ stubKind \in [Entry -> {"DirectCall", "ClosureCall"}]
    /\ stubMiss \in [Entry -> StubOrSlow]
    /\ stubPtr \in [Entry -> Addr]
    /\ pc \in StubOrSlow \cup {NoCall}
    /\ pc # NoCall => callee \in [site : Sites, fn : Fn]
    /\ lastCall = NoCall \/ lastCall \in [fn : Fn, ptr : Addr]
    /\ seen \in [Sites -> SUBSET Fn]

\* The stub of every allocated entry holds the current best entry point of
\* the code it calls: UpdateBestEntryPoint leaves no stale code pointer in
\* any cache, across tier-up, cache transitions and reuse of entries.
StubPtrCurrent == \A e \in live : stubPtr[e] = Encode(e, best[Target(e)])

\* CodeBlock::m_jitCallIcList holds exactly the allocated entries that cache
\* on the CodeBlock: none is missed by a patch, none is patched after Destroy.
IcListExact == \A c \in Bytecode : jitCallIcList[c] = {e \in live : Target(e) = c}

\* Every allocated entry is on the list of exactly one site, once: Destroy
\* neither leaks an entry nor frees one that is still linked.
OwnedOnce ==
    /\ live = UNION {Owned(s) : s \in Sites}
    /\ \A s, t \in Sites : \A i \in DOMAIN list[s], j \in DOMAIN list[t] :
          list[s][i] = list[t][j] => s = t /\ i = j

\* The chain of machine-code stubs, from the SMC region's jump through the
\* miss branches to the slow path, mirrors the site's linked list, and every
\* stub on it performs the check that the layout of the SMC region prepares.
ChainMirrorsList ==
    \A s \in Sites :
      /\ smcDest[s] = IF list[s] = <<>> THEN SlowPath ELSE list[s][1]
      /\ \A i \in DOMAIN list[s] :
            /\ stubMiss[list[s][i]] = IF i = Len(list[s]) THEN SlowPath ELSE list[s][i + 1]
            /\ stubKind[list[s][i]] = smcKind[s]

\* A call never executes a stub that has been freed, or one of another site.
RunningStubOwned == pc \in Entry => pc \in Owned(callee.site)

\* What the debug checks of both Insert functions assert of a site: the count
\* is the length of the list, the cached codes are pairwise distinct, and
\* FunctionObjects are cached in direct-call mode only.
EntriesWellFormed(s) ==
    /\ numEntries[s] = Len(list[s])
    /\ \A i, j \in DOMAIN list[s] : Target(list[s][i]) = Target(list[s][j]) => i = j
    /\ smcKind[s] = IF mode[s] = "DirectCall" THEN "DirectCall" ELSE "ClosureCall"
    /\ \A e \in Owned(s) : entity[e] \in (IF mode[s] = "DirectCall" THEN Fn ELSE Code)

\* "goldDecision == shouldTransitToCCMode": in direct-call mode the bloom
\* filter never hides a cached code, so skipping the walk is always right.
BloomNoFalseNegative(s) ==
    mode[s] = "DirectCall" => \A e \in Owned(s) : BloomMask[Target(e)] \subseteq bloom[s]

\* "We should never reach here if the IC ought to hit": the slow path runs
\* only for a callee that no stub of the site accepts.
SlowPathOnlyOnMiss ==
    pc = SlowPath =>
      \A e \in Owned(callee.site) :
        /\ entity[e] # callee.fn
        /\ mode[callee.site] # "DirectCall" => Target(e) # ExecOf[callee.fn]

\* The assertions of the slow path hold: the cached codes of a site are
\* distinct and counted, the bloom filter hides none of them, and a call
\* reaches the slow path only if no stub of the site would accept it.
SiteConsistent ==
    /\ \A s \in Sites : EntriesWellFormed(s) /\ BloomNoFalseNegative(s)
    /\ SlowPathOnlyOnMiss

\* What the speculative inliner reads off a site: no target observed means no
\* call was ever made through it, and exactly one target observed means every
\* call went to that FunctionObject (direct-call) or that code (closure-call).
ProfileSound ==
    \A s \in Sites :
      /\ ObservedNoTarget(s) => seen[s] = {}
      /\ ObservedExactlyOneTarget(s) =>
           \A f \in seen[s] :
             entity[list[s][1]] = IF mode[s] = "DirectCall" THEN f ELSE ExecOf[f]

\* A call that has begun reaches its target: the stub chain never loops.
CallCompletes == pc # NoCall ~> pc = NoCall

\* Every call enters the current best entry point of its callee.
Dispatch == INSTANCE CallDispatch
DispatchSpec == Dispatch!Spec
=============================================================================
