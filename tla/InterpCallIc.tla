---------------------------- MODULE InterpCallIc ----------------------------
(***************************************************************************)
(* Call inline caches of the interpreter, tier-up of a function into       *)
(* baseline code and OSR entry of an activation that is already running.   *)
(*                                                                         *)
(* A call bytecode caches one callee and its code pointer in the metadata  *)
(* of the bytecode.  All caches of one callee form a circular doubly       *)
(* linked list through an anchor in the callee's ExecutableCode, so that   *)
(* CodeBlock::UpdateBestEntryPoint can find and patch the code pointers.   *)
(* The links are 32-bit differences of addresses, not pointers.            *)
(*                                                                         *)
(* Calls made by baseline code go through the caches of JitCallIc; its     *)
(* theorem ImplementsDispatch is what OtherCall relies on.                 *)
(***************************************************************************)
EXTENDS Integers, Sequences, FiniteSets

CONSTANTS
    Fn,              \* FunctionObjects
    Code,            \* ExecutableCodes
    Bytecode,        \* those that are CodeBlocks; the others are C functions
    ExecOf,          \* FunctionObject::m_executable
    Sites,           \* call bytecodes with an inline cache
    SiteOwner,       \* the CodeBlock the call bytecode belongs to
    Hoisted,         \* sites whose cache is checked; the others always update it
    At,              \* address of a site's doubly link, or of a code's anchor
    InterpEntry,     \* the interpreter's entry point (a C function's own)
    BaselineEntry,   \* m_jitCodeEntry of the compiled CodeBlock
    CodeBlockAt,     \* lower bits of the address of the CodeBlock
    BytecodePtr,     \* m_sbIndex: lower bits of the address of each bytecode
    PtrMod,          \* 2^width of these lower bits
    MaxDepth,        \* bound on the activations on the stack
    None             \* no callee cached, no call made, no patching in progress

Node == Sites \cup Code
Addr == {InterpEntry[c] : c \in Code} \cup {BaselineEntry[c] : c \in Bytecode}

ASSUME CodeAssumption ==
    /\ Bytecode \subseteq Code
    /\ ExecOf \in [Fn -> Code]
    /\ SiteOwner \in [Sites -> Bytecode]
    /\ Hoisted \subseteq Sites
    /\ Sites \cap Code = {} /\ IsFiniteSet(Sites)
    /\ None \notin Fn \cup [cb : Bytecode, cur : Node]
    /\ DOMAIN InterpEntry = Code
    /\ DOMAIN BaselineEntry = Bytecode

\* Sites and anchors are distinct objects of the system heap, which BumpSystemHeap
\* limits to 2GB: every difference of two addresses is a 32-bit number.
ASSUME AddressAssumption ==
    /\ At \in [Node -> Int]
    /\ \A m, n \in Node : At[m] = At[n] => m = n
    /\ \A m, n \in Node : At[m] - At[n] <= 2147483647

\* The callee's tier is recognised by the code pointer it is entered through.
ASSUME EntryAssumption ==
    \A b \in Bytecode, c \in Code : BaselineEntry[b] # InterpEntry[c]

\* The bytecodes of a CodeBlock follow it in memory, in the order of their index.
ASSUME BytecodeAssumption ==
    /\ PtrMod \in Nat \ {0}
    /\ CodeBlockAt \in [Bytecode -> 0 .. PtrMod - 1]
    /\ \A c \in Bytecode :
          /\ BytecodePtr[c] \in Seq(0 .. PtrMod - 1) \ {<<>>}
          /\ \A i, j \in DOMAIN BytecodePtr[c] :
                i < j => (BytecodePtr[c][i] - CodeBlockAt[c]) % PtrMod
                           < (BytecodePtr[c][j] - CodeBlockAt[c]) % PtrMod

VARIABLES
    compiled,    \* CodeBlocks with m_baselineCodeBlock # nullptr
    best,        \* ExecutableCode::m_bestEntryPoint
    cached,      \* per site: the callee whose TValue is cached
    codePtr,     \* per site: the cached code pointer
    prevOffset,  \* per node: distance to the previous node
    nextOffset,  \* per node: distance from the next node
    hot,         \* CodeBlocks with m_interpreterTierUpCounter < 0
    stack,       \* activations, innermost last
    patching,    \* the walk of UpdateBestEntryPoint in progress
    aborted,     \* a ReleaseAssert has failed
    lastCall     \* the last call made: what was called, where it jumped

icVars == <<cached, codePtr, prevOffset, nextOffset>>
vars == <<compiled, best, icVars, hot, stack, patching, aborted, lastCall>>

-----------------------------------------------------------------------------
(***************************************************************************)
(* The circular lists.                                                     *)
(***************************************************************************)
NodeAt(a) == CHOOSE n \in Node : At[n] = a

\* "The prev node in the doubly linked list is 'this + m_prevOffset'", and
\* "the next node [...] is 'this - m_nextOffset'".
PrevNode(n) == NodeAt(At[n] + prevOffset[n])
NextNode(n) == NodeAt(At[n] - nextOffset[n])

\* Defects: the node is linked in front without leaving its old place; the
\* node after the anchor is read before the node has left its old place.
RelinkWithoutUnlink(s, c) ==
    LET a == NextNode(c)
    IN  /\ nextOffset' = [nextOffset EXCEPT ![c] = At[c] - At[s], ![s] = At[s] - At[a]]
        /\ prevOffset' = [prevOffset EXCEPT ![s] = At[c] - At[s], ![a] = At[s] - At[a]]
RelinkReadsAnchorFirst(s, c) ==
    LET p == PrevNode(s)
        n == NextNode(s)
        next == [nextOffset EXCEPT ![p] = At[p] - At[n]]
        prev == [prevOffset EXCEPT ![n] = At[p] - At[n]]
        a == NextNode(c)
    IN  /\ nextOffset' = [next EXCEPT ![c] = At[c] - At[s], ![s] = At[s] - At[a]]
        /\ prevOffset' = [prev EXCEPT ![s] = At[c] - At[s], ![a] = At[s] - At[a]]

\* UpdateInterpreterCallIcDoublyLink: site s leaves the list it is in (a
\* fresh node is its own neighbour) and becomes the first node of c's list.
Relink(s, c) ==
    LET p == PrevNode(s)
        n == NextNode(s)
        next == [nextOffset EXCEPT ![p] = At[p] - At[n]]
        prev == [prevOffset EXCEPT ![n] = At[p] - At[n]]
        a == NodeAt(At[c] - next[c])
    IN  /\ nextOffset' = [next EXCEPT ![c] = At[c] - At[s], ![s] = At[s] - At[a]]
        /\ prevOffset' = [prev EXCEPT ![s] = At[c] - At[s], ![a] = At[s] - At[a]]

-----------------------------------------------------------------------------
\* CodeBlock::Create: interpreted, or compiled at once if that is the engine's
\* starting tier.  Metadata and anchors start with offsets of zero.
Init ==
    /\ compiled \in {{}, Bytecode}
    /\ best = [c \in Code |-> IF c \in compiled THEN BaselineEntry[c] ELSE InterpEntry[c]]
    /\ cached = [s \in Sites |-> None]
    /\ codePtr = [s \in Sites |-> None]
    /\ prevOffset = [n \in Node |-> 0]
    /\ nextOffset = [n \in Node |-> 0]
    /\ hot = {}
    /\ stack = <<>>
    /\ patching = None
    /\ aborted = FALSE
    /\ lastCall = None

Running == patching = None /\ ~aborted
Top == stack[Len(stack)]
Below == SubSeq(stack, 1, Len(stack) - 1)
InTier(tier) == Running /\ stack # <<>> /\ Top.tier = tier
SetTop(frame) == stack' = Below \o <<frame>>

\* The tier that code pointer a leads to.  Interpreter entries are shared by
\* CodeBlocks; the callee CodeBlock is passed in a register.
Activation(c, a) ==
    [cb |-> c,
     tier |-> IF a = InterpEntry[c] THEN "Prologue" ELSE "Baseline",
     at |-> BytecodePtr[c][1]]

\* Control jumps to address a to call f; callers is the stack below the call.
\* A C function does its work and returns.
Enter(f, a, callers) ==
    /\ Len(callers) < MaxDepth
    /\ lastCall' = [fn |-> f, ptr |-> a]
    /\ stack' = IF ExecOf[f] \in Bytecode
                THEN callers \o <<Activation(ExecOf[f], a)>>
                ELSE callers

\* UpdateInterpreterTierUpCounterForReturnOrThrow lowers the counter.
CountDown(c) == hot' \in {hot, hot \cup {c}}

\* The stack below a call by the top frame, and the counter of its CodeBlock: a
\* tail call is also a return.
Callers(tail) == IF tail THEN Below ELSE stack
CountCall(tail) == IF tail THEN CountDown(Top.cb) ELSE UNCHANGED hot

\* EmitInterpreterCallIcWithHoistedCheck: the cached value is the callee.
CallIcHit(s, f, tail) ==
    /\ InTier("Interpreter") /\ Top.cb = SiteOwner[s]
    /\ s \in Hoisted /\ cached[s] = f
    /\ CountCall(tail)
    /\ Enter(f, codePtr[s], Callers(tail))
    /\ UNCHANGED <<compiled, best, icVars, patching, aborted>>

\* Defect: the cache of a C function keeps its old place in the lists.
CallIcPopulateSkipsC(s, f, tail) ==
    LET c == ExecOf[f]
    IN  /\ InTier("Interpreter") /\ Top.cb = SiteOwner[s]
        /\ s \notin Hoisted \/ cached[s] # f
        /\ CountCall(tail)
        /\ cached' = [cached EXCEPT ![s] = f]
        /\ codePtr' = [codePtr EXCEPT ![s] = best[c]]
        /\ IF c \in Bytecode THEN Relink(s, c) ELSE UNCHANGED <<prevOffset, nextOffset>>
        /\ Enter(f, best[c], Callers(tail))
        /\ UNCHANGED <<compiled, best, patching, aborted>>

\* EmitInterpreterCallIcCacheMissPopulateIcSlowPath.
CallIcPopulate(s, f, tail) ==
    LET c == ExecOf[f]
    IN  /\ InTier("Interpreter") /\ Top.cb = SiteOwner[s]
        /\ s \notin Hoisted \/ cached[s] # f
        /\ CountCall(tail)
        /\ cached' = [cached EXCEPT ![s] = f]
        /\ codePtr' = [codePtr EXCEPT ![s] = best[c]]
        /\ Relink(s, c)
        /\ Enter(f, best[c], Callers(tail))
        /\ UNCHANGED <<compiled, best, patching, aborted>>

\* A call bytecode without a cache (EmitGenericGetCallTargetLogic), a call by
\* baseline code, or DeegenEnterVMFromC on an empty stack.
OtherCall(f, tail) ==
    /\ Running
    /\ IF stack = <<>> THEN ~tail ELSE Top.tier # "Prologue"
    /\ IF tail /\ Top.tier = "Interpreter" THEN CountDown(Top.cb) ELSE UNCHANGED hot
    /\ Enter(f, best[ExecOf[f]], Callers(tail))
    /\ UNCHANGED <<compiled, best, icVars, patching, aborted>>

-----------------------------------------------------------------------------
(***************************************************************************)
(* Tier-up.                                                                *)
(***************************************************************************)
\* deegen_baseline_jit_do_codegen up to its call of UpdateBestEntryPoint: the
\* BaselineCodeBlock is created, and the walk starts at the anchor.
DoCodegen(c) ==
    IF c \in compiled
    THEN /\ aborted' = TRUE
         /\ UNCHANGED <<compiled, patching>>
    ELSE /\ compiled' = compiled \cup {c}
         /\ patching' = [cb |-> c, cur |-> c]
         /\ UNCHANGED aborted

\* Function prologue of the interpreter: is the counter negative?
Prologue ==
    /\ InTier("Prologue")
    /\ IF Top.cb \in hot
       THEN DoCodegen(Top.cb) /\ UNCHANGED stack
       ELSE /\ SetTop([Top EXCEPT !.tier = "Interpreter"])
            /\ UNCHANGED <<compiled, patching, aborted>>
    /\ UNCHANGED <<best, icVars, hot, lastCall>>

\* One round of the loop in CodeBlock::UpdateBestEntryPoint: follow the next
\* offset and, if this does not lead back to the anchor, patch the code pointer.
PatchNext ==
    /\ patching # None
    /\ LET n == NextNode(patching.cur)
       IN  /\ n # patching.cb
           /\ codePtr' = [codePtr EXCEPT ![n] = BaselineEntry[patching.cb]]
           /\ patching' = [patching EXCEPT !.cur = n]
    /\ UNCHANGED <<compiled, best, cached, prevOffset, nextOffset, hot, stack, aborted, lastCall>>

\* Defect: lower bits of addresses are compared, not distances.
BytecodeOffsetAbsolute(c, ptr) == ptr

\* Distance of a bytecode from its CodeBlock, from lower bits of the addresses.
BytecodeOffset(c, ptr) == (ptr - CodeBlockAt[c]) % PtrMod

\* The binary search of GetBytecodeIndexFromBytecodePtrLower32Bits.
GetBytecodeIndexFromBytecodePtr(c, ptr) ==
    LET N == Len(BytecodePtr[c])
        found[r \in (1 .. N) \X (0 .. N)] ==
            LET mid == (r[1] + r[2]) \div 2
                value == BytecodeOffset(c, BytecodePtr[c][mid])
            IN  IF r[1] >= r[2] THEN r[1]
                ELSE IF BytecodeOffset(c, ptr) = value THEN mid
                ELSE found[IF BytecodeOffset(c, ptr) < value
                           THEN <<r[1], mid - 1>> ELSE <<mid + 1, r[2]>>]
    IN  found[<<1, N>>]

\* The activation goes on in baseline code: at the function entry if it was in
\* the prologue, else at the JIT code of the current bytecode.
BaselineFrame(frame) ==
    LET i == GetBytecodeIndexFromBytecodePtr(frame.cb, frame.at)
    IN  [cb |-> frame.cb, tier |-> "Baseline",
         at |-> IF frame.tier = "Prologue" THEN frame.at ELSE BytecodePtr[frame.cb][i]]

\* The walk is back at the anchor: m_bestEntryPoint is updated and control
\* passes to the new code.
FinishPatching ==
    /\ patching # None
    /\ NextNode(patching.cur) = patching.cb
    /\ best' = [best EXCEPT ![patching.cb] = BaselineEntry[patching.cb]]
    /\ patching' = None
    /\ SetTop(BaselineFrame(Top))
    /\ UNCHANGED <<compiled, icVars, hot, aborted, lastCall>>

\* Defect: the function is compiled without asking whether it has been.
OsrEntryAlwaysCompiles ==
    /\ InTier("Interpreter") /\ Top.cb \in hot
    /\ DoCodegen(Top.cb) /\ UNCHANGED stack
    /\ UNCHANGED <<best, icVars, hot, lastCall>>

\* deegen_prepare_osr_entry_into_baseline_jit, from a bytecode that checks for
\* tier-up (a loop edge or loop header) while the counter is negative.
OsrEntry ==
    /\ InTier("Interpreter") /\ Top.cb \in hot
    /\ IF Top.cb \in compiled
       THEN SetTop(BaselineFrame(Top)) /\ UNCHANGED <<compiled, patching, aborted>>
       ELSE DoCodegen(Top.cb) /\ UNCHANGED stack
    /\ UNCHANGED <<best, icVars, hot, lastCall>>

\* A branch of the interpreter to bytecode dst.  Bytecodes that check for
\* tier-up get here only if the counter is not negative, others always.  A
\* backward branch lowers the counter, a forward branch raises it.
Branch(dst, checksTierUp) ==
    /\ InTier("Interpreter")
    /\ checksTierUp => Top.cb \notin hot
    /\ LET c == Top.cb
       IN  hot' \in IF BytecodeOffset(c, dst) < BytecodeOffset(c, Top.at)
                    THEN {hot, hot \cup {c}}
                    ELSE {hot, hot \ {c}}
    /\ SetTop([Top EXCEPT !.at = dst])
    /\ UNCHANGED <<compiled, best, icVars, patching, aborted, lastCall>>

\* Return, or a throw that ends k more activations, whose counters stay.
Leave(k) ==
    /\ Running /\ stack # <<>> /\ Top.tier \in {"Interpreter", "Baseline"}
    /\ k < Len(stack)
    /\ stack' = SubSeq(stack, 1, Len(stack) - 1 - k)
    /\ IF Top.tier = "Interpreter" THEN CountDown(Top.cb) ELSE UNCHANGED hot
    /\ UNCHANGED <<compiled, best, icVars, patching, aborted, lastCall>>

Patch == PatchNext \/ FinishPatching

Next ==
    \/ \E s \in Sites, f \in Fn, tail \in BOOLEAN : CallIcHit(s, f, tail) \/ CallIcPopulate(s, f, tail)
    \/ \E f \in Fn, tail \in BOOLEAN : OtherCall(f, tail)
    \/ Prologue
    \/ Patch
    \/ OsrEntry
    \/ \E c \in Bytecode : \E i \in DOMAIN BytecodePtr[c], check \in BOOLEAN :
          stack # <<>> /\ Top.cb = c /\ Branch(BytecodePtr[c][i], check)
    \/ \E k \in 0 .. MaxDepth - 1 : Leave(k)

Spec == Init /\ [][Next]_vars

\* UpdateBestEntryPoint is a loop of one thread: it keeps running.
FairSpec == Spec /\ WF_vars(Patch)

-----------------------------------------------------------------------------
(***************************************************************************)
(* Correctness.                                                            *)
(***************************************************************************)
\* The sites that cache a callee with ExecutableCode c.
Caching(c) == {s \in Sites : cached[s] # None /\ ExecOf[cached[s]] = c}

\* Every cached code pointer is the best entry point of the cached callee, and
\* while UpdateBestEntryPoint is under way the pointers it has still to reach
\* are the old one, as it asserts.  A stale pointer would enter the
\* interpreter's prologue of a function that has baseline code.
CachedPtrCurrent ==
    \A c \in Code : \A s \in Caching(c) :
        \/ codePtr[s] = best[c]
        \/ patching # None /\ patching.cb = c /\ codePtr[s] = BaselineEntry[c]

\* Following the next offsets from the anchor of a code visits each site that
\* caches it, once, and no other; the prev offsets lead the same way back.
\* This holds through any sequence of callees at the sites, whatever the sites
\* were linked to before.
ListsExact ==
    \A c \in Code :
      LET N == Cardinality(Caching(c))
          visit[i \in 0 .. N + 1] == IF i = 0 THEN c ELSE NextNode(visit[i - 1])
      IN  /\ {visit[i] : i \in 1 .. N} = Caching(c)
          /\ visit[N + 1] = c
          /\ \A n \in Caching(c) \cup {c} : PrevNode(NextNode(n)) = n

\* "Each CodeBlock should be codegen'ed only once": neither the prologue nor
\* an OSR entry compiles a function again, and an activation whose function is
\* compiled is never left in the prologue of the interpreter.
CompiledOnce ==
    /\ ~aborted
    /\ \A i \in 1 .. Len(stack) :
         stack[i].tier = "Prologue" /\ stack[i].cb \in compiled =>
            patching # None /\ patching.cb = stack[i].cb /\ i = Len(stack)

\* An OSR entry continues in the baseline code of the bytecode at which the
\* interpreter stopped, whichever bits of the address the search has to wrap.
OsrKeepsBytecode ==
    [][(OsrEntry \/ FinishPatching) /\ stack' # stack =>
          stack' = [stack EXCEPT ![Len(stack)].tier = "Baseline"]]_vars

\* The walk over a circular list comes back to the anchor.
PatchingEnds == patching # None ~> patching = None

\* Calls through the interpreter's caches enter the best entry point too.
Dispatch == INSTANCE CallDispatch WITH NoCall <- None
DispatchSpec == Dispatch!Spec
=============================================================================
