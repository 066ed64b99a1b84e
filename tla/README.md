# DSOM: TLA+ models, model checking and proofs

DSOM is a virtual machine for the Smalltalk dialect SOM. Its interpreter, its
baseline JIT compiler and the inline caches of both are generated at build time by
Deegen from bytecode semantics written in C++ (`annotated/`). This directory models
the parts of the run-time system (`runtime/`, `drt/`, `annotated/`) that keep
linked, shared or self-modifying state, checks them with TLC on small instances,
and proves the most important results with TLAPS for every instance.

`PROJECT.json` is the index: components, runs, the source lines of every
definition, the mutants that show what each property can detect, findings, hazards,
theorems.

## 1. The system

| Component | State | Operations | What makes it correct |
|---|---|---|---|
| JIT call inline caches (`runtime_utils.{h,cpp}`, `deegen_call_inline_cache.cpp`) | per call site: list of entries, count, mode, bloom filter, the self-modifying (SMC) region; per entry: target, stub with a patched code pointer and a miss branch; per CodeBlock: list of the entries that call it | a call runs through the stubs; a miss inserts an entry or changes the mode; tier-up patches the stubs | a call enters the current code of its callee; no freed stub runs; the profile in a site is right |
| Interpreter call inline caches (same files, `update_interpreter_call_ic_doubly_link.cpp`) | per call site: cached callee and code pointer, two 32-bit offsets; per callee: an anchor with the same offsets | hit, relink on a miss, walk and patch on tier-up | every cached pointer is current; the walk meets exactly the sites of the callee and ends |
| Baseline tier-up, OSR entry (`baseline_jit_codegen_helper.cpp`) | `m_baselineCodeBlock`, `m_bestEntryPoint`, counters | compile in a prologue or at a loop edge, publish, enter in the middle of a loop | code is compiled once, by whichever activation asks first; an OSR entry goes on at the same bytecode |
| SPDS page allocator (`vm.h`, `vm.cpp`) | free list word (head, version tag), links in the pages, region limit, mutex | pop, push a chain, grow | no page is lost or handed out twice |
| VM heaps (`vm.h`, `vm.cpp`) | bump pointer and mapped limit of the user and the system heap | allocate, map more memory, fail | objects are disjoint and in mapped memory |
| SPDS objects, string interner, globals (`vm.h`, `vm.cpp`, `string_interner.h`) | free lists by size, hash tables | allocate, free, intern, look up | an object has one owner; interned ids are unique |
| JIT memory allocator (`jit_memory_allocator.{h,cpp}`) | pages of equal cells, lists of pages by cell size, list of large blocks, reserved ranges | allocate, free, shut down | cells and pages are on exactly the right lists; accounting |
| Compiler (`som_lexer`, `som_parser`, `som_compile_file.cpp`) | contexts of nested blocks, variables, flags, bytecode | translate a method | captures are found in all functions between; upvalues are closed before slots die |
| Upvalues, closures, non-local return (`runtime_utils.h`, `throw_error.cpp`, `upvalue_bytecodes.cpp`) | sorted list of open upvalues, closures, the stack | capture, read, write, close, return, `^` out of a block | a captured variable is one variable; `^` ends the right activation |
| Class method tables (`som_class.{h,cpp}`) | cuckoo hash table of every class | inherit, insert, resize, look up | every class answers with its own or the inherited method |
| Generic JIT inline caches (`jit_inline_cache_utils`) | chains of stubs | insert | as for calls |
| DFG register allocator (`dfg_reg_alloc_*.h`, `dfg_osr_exit_map_builder.h`, `dfg_backend.cpp`) | where each SSA value is (registers of two banks, spill slot), free spill slots, frame length, recovery location of every interpreter slot | per node: ranges, type checks, operands, output, execution, deaths; evict, move, load, duplicate a register | no value is lost or overwritten; an OSR exit finds the interpreter's values; spill slots have one owner |
| Other DFG passes (`drt/dfg_*`) | an IR graph of one compilation | SSA, liveness, phantom insertion, inlining, stack layout | each pass preserves the program |
| Deegen (`deegen/`) | LLVM modules, at build time | generate interpreter, JIT and stencils | generated code follows the semantics |

How they interact. The compiler fixes, for every block, which variables are
upvalues, which of them are captured by value, and where `UpvalueClose` is emitted;
the upvalue list and the non-local return rely on it at run time. A call in JIT
code runs through its site's stubs; the miss path allocates entries and stubs from
SPDS and JIT memory. Tier-up of a CodeBlock patches the caches of all its callers,
those in interpreter metadata through offset-linked lists, those in JIT code through entries.
The speculative inliner of the DFG tier reads the sites as profiles. `SOMClass`
tables are filled when classes are loaded and read by every send.

What is hard. (1) Self-modifying code: a stub holds a copy of a pointer that
changes elsewhere, possibly relative to its own address. (2) Storage that is freed
while code or a list may still lead to it. (3) The page free list is lock-free. Only
the execution thread allocates at this commit, but the code is written for several
threads (atomics, version tags, a mutex), and it is modelled with several. (4) The
compiler decides things in the order in which it visits the syntax tree, while the
program runs in another order. (5) Stack slots are reused while upvalues point to
them. (6) Limits: rounds of the hash table, entries of a site, ends of regions and
32-bit arithmetic. (7) Records of where a value is, which must follow every
instruction the allocator emits. `PROJECT.json` lists these hazards line by line.

## 2. Modules

| Module | Models | Properties |
|---|---|---|
| `JitCallIc` | one call site per element of `Sites`; `StartCall`, `StubHit`, `StubMiss`, `SlowPathInsert`, `SlowPathNoInsert`, `TierUp`. `pc` is the stub the running call is about to execute | below |
| `CallDispatch` | what a call site promises: a call enters the best entry point of its callee | abstract specification of `JitCallIc` |
| `JitCallIcProofs` | | theorems |
| `InterpCallIc` | interpreter call sites, prologue, tier-up and OSR entry: `CallIcHit`, `CallIcPopulate`, `OtherCall`, `Prologue`, `PatchNext`, `FinishPatching`, `OsrEntry`, `Branch`, `Leave` | below; implements `CallDispatch` too |
| `InterpCallIcProofs` | | theorems |
| `DfgRegAlloc` | one basic block of the DFG backend, node by node: `BeginNode`, `PopulateRange`, `TypeCheck`, `Evict`, `Relocate`, `Load`, `Duplicate`, `UseOperand`, `PlaceOutput`, `MaterializeConstant`, `ExecuteWithRegAlloc`, `ExecuteWithoutRegAlloc`, `ShadowStore`, `Phantom`, `BeginSetLocal`, `ExecuteSetLocal`, `Die`, `EndBlock` | records, recovery map, spill slots |
| `DfgRegAllocProofs` | | theorems |
| `SpdsPageAllocator` | one action per access to shared memory of `SpdsAllocImpl` and the page functions of `VM` | below |
| `SpdsPages` | an atomic pool of pages | abstract specification of `SpdsPageAllocator` |
| `SpdsPageAllocatorProofs` | | theorems |
| `VmHeaps` | the two bump allocators | disjointness, mapping |
| `JitMemoryAllocator` | cells, pages, large blocks, `Shutdown` | list exactness, accounting, tightest fit |
| `MemoryAllocatorProofs` | | theorems about `VmHeaps` and `JitMemoryAllocator`, which share the lemmas on division |
| `SomBlockCompiler` | the translation of one method whose syntax tree is chosen node by node | closing, capture and throw rules |
| `SomBlockCompilerProofs` | | theorems |
| `Upvalues` | frames, closures, the open upvalue list, `SOMThrow` | list exactness, non-local return, `self` |
| `BoxedVariables` | variables shared through boxes | abstract specification of `Upvalues` |
| `UpvaluesProofs` | | theorems |
| `SomMethodTable` | rounds of `TryInsert`, elements of `Resize`, `Create`, `GetMethod` | placement, lookup, termination |
| `SomMethodTableProofs` | | theorems |
| `MC...` | constants and symmetry for TLC | |

Operators whose comment begins with "Defect" are altered copies of the definition
that follows them. They are used only to confirm that a property can fail.

Abstractions worth knowing:

* In `JitCallIc` an entry and its stub have one name, since they are allocated and
  freed together. `Encode` models the patched operand: absolute, or relative to the
  stub (`PatchBias`), modulo the operand's width; patching adds the difference of
  the two entry points, as the code does. The doubly linked list of a CodeBlock is the set
  of its nodes. A `FunctionObject` is never freed: the VM has no collector.
* In `InterpCallIc` the list nodes (call sites and anchors) have addresses, and links are
  the offsets the code stores: the previous node is at the sum, the next one at the
  difference. Everything of a tier-up counter but its sign is left out: it may become
  negative whenever the code lowers it. Baseline code of the callers is represented by
  `OtherCall`; its own caches are `JitCallIc`. The bytecode search works on addresses
  modulo `PtrMod`, which stands for 2^32.
* `DfgRegAlloc` runs the emitted instructions on a symbolic machine beside the allocator's
  records: a register or slot holds the SSA value written to it last. The decision maker's
  choices by distance of the next use are replaced by every choice its assertions allow,
  and a use announces whether it is the last one, as the use lists of the code do. A
  shadow slot whose value dies is dead too; phantom insertion arranges that. A dead
  value's name is reused for a later value. `MaxFrame` bounds the frame: a spill, a temporary
  or an output that would need a slot beyond it is not made.
* In `SpdsPageAllocator` the word that links pages is client data once a page is in
  use, so it may hold anything; a thread that reads it then gets `None`. Memory
  orders are those of the code, which publish links before heads, so accesses are
  interleaved and not reordered. `compare_exchange_weak` may fail spuriously.
* In `VmHeaps` addresses are in units of the 8-byte granule and all limits are constants.
  Its specification is `HeapSpec`, so that one module can extend it together with `JitMemoryAllocator`.
* In `JitMemoryAllocator` a free cell's link is kept beside the cell; a cell that is handed out loses it.
  `Linked` is a walk along links, used by `Shutdown` and by the properties. `Shutdown` is one action:
  no client runs beside it.
* `SomBlockCompiler` keeps history variables that say what the emitted code does when
  it runs: which variables are shared by then, which are shared when a frame returns.
* In `Upvalues` the bytecode `Ret` closes nothing; `CompiledReturn` is what `CompileReturn` emits, an
  `UpvalueClose` from local 0 on and then `Ret`. The compiler leaves the `UpvalueClose` out when no local is flagged
  as captured, and closing would then find nothing. That the flags are right is a contract between compiler and run
  time, and the run `block_compiler_close` (section 4) shows a return for which they are wrong. `OpenInLiveFrame`,
  `ReturnsFromOwnHome` and `BoxesSpec`, and the theorems about them, are therefore conditional: they say
  what the run time does with code that keeps the contract.
* `SomMethodTable` models the release build, in which `TestAssert` is not checked. Its history variable `lost` has the
  selectors that a failed reinsertion of `Resize` has dropped; a subclass inherits the gap with the table, and a
  definition of the selector closes it. `MaxMethods` bounds the methods a class defines.

## 3. Runs

Bounds are in the `.cfg` files. Each run ends within about three minutes on two workers.

| Run | Shows | Bounds, and why they are enough |
|---|---|---|
| `jit_call_ic` | type, no stale pointer, exact IC lists, sole ownership, no freed stub runs, chain mirrors list, debug assertions and bloom filter of the insert functions, profile, every call ends, implementation of `CallDispatch` | one site with room for three of four entries that have different biases; four callees, among them two closures of one function and a C function: chains of three stubs, the limit, the change of mode, reuse of freed entries, hash collisions in the filter. The theorems cover any number of sites |
| `interp_call_ic` | cached pointers current, offset lists exact in both directions, compiled once, OSR entry at the same bytecode, the walk ends, implementation of `CallDispatch` | two functions and a C function, three sites (one without the hoisted check), anchors below, between and above the sites, stack depth two: a site moves between all lists and within one, recursion compiles a function whose caller is still interpreted, and bytecodes lie across the wrap of the lower address bits |
| `spds_pages` | every page has one place and every list ends; growth is exclusive; implementation of `SpdsPages` | two arenas and a permanent thread, 6 calls, growth by two pages in a region of eight: ABA, failed pushes, chains of several pages, the end of the region |
| `vm_heaps` | objects disjoint and mapped | small address space whose 32-bit wrap, limits and rounding are all reached |
| `jit_memory` | cells, lists of pages and of large blocks, accounting, binary search | three pages, cell sizes that divide a page and that do not, two ranges, two large blocks |
| `block_compiler` | upvalues in every function between; throwing chains capture `self` mutably; returns in a function's own context close | contexts nested four deep, one local: a throw or use crosses a function, an inlined block and a function |
| `upvalues` | open list exact and sorted, no open upvalue in a dead frame, `^` returns from its own home, `self` of a block; implementation of `BoxedVariables` | three frames of two slots, two closures: a block in a block, called after its creator has returned. `VIEW LiveState` identifies states that differ only in stack slots above the top frame or in the unused fields of closed upvalues; no action reads them |
| `method_table` | placement, lookup through inheritance, giving up only when the selectors do not fit, every insertion ends | five selectors under 51 hash functions (five pairs of slots, each for at most two selectors, up to renaming), two classes with up to three methods of their own, tables up to 8, and 3 rounds instead of 30: the longest chain of three entries just fits the limit, chains of four and five exceed it, so that a `Resize` does drop methods, also of finished classes, and dropped ones are defined again. Cycles go round until the limit ends them |
| `dfg_reg_alloc` | recovery map exact, records match the machine, every spill slot accounted for | two live values and a constant, two general-purpose registers and one floating-point register, three spill slots, two operands, a range of two: registers run out, an output takes the register of a live input, values live in both banks, ranges leave holes. Also run once with four spill slots (3.2 million states). The theorems cover any numbers |

Deadlock is checked except in `method_table`, where the process stops once all
classes are made or the largest table is exceeded.

Fairness. `JitCallIc!FairSpec` has weak fairness of `CallStep`, `SomMethodTable!FairSpec`
of `Step`, `InterpCallIc!FairSpec` of `Patch` (the loop in `UpdateBestEntryPoint`): one
thread executes straight-line code or a loop and is not suspended forever. No
fairness is assumed between threads, and no progress is claimed for the page
allocator: a thread that waits for the mutex retries the list and may be
overtaken without bound.

## 4. Findings

Three runs expect a violation; each checks what a comment in the source
says. The quotations and lines are in `PROJECT.json`.

* `block_compiler_close`: a `^` in an inlined block consults only that block's flags, so
  `b := [ ^1 ]. c ifTrue: [ ^ b ]` returns without `UpvalueClose`. The same property fails in
  a second place: an inlined block's `UpvalueClose` comes before its last expression,
  which may be the first to capture a local of the block.
* `block_compiler_immutable`: in `x := self foo: [ x ]` the write is noted before the use; `x` is
  captured by value too early.
* `upvalues_escaped`: `[[ ^1 ]] value value` is treated as an escaped block although the
  method is on the stack.

Remarks that are no findings of a run:

* The limit of 30 rounds in `TryInsert` ends a chain of evictions, not just a cycle, and `Resize`
  ignores a failed reinsertion in release builds (`TestAssert(res == InsertionResult::Inserted)`,
  `som_class.cpp:127`). A chain among n selectors that ends at a free slot evicts at most 2n - 3 times.
  `GivesUpOnlyWhenFull` shows that a limit of 2n - 3 rounds is enough: then an insertion gives up only if the
  selectors cannot be placed, and a reinsertion never. 30 rounds are enough for 16 selectors in this
  sense. A class with more of them (system classes have tables of 128) has no such guarantee: an unlucky chain of more than 30 evictions
  would double the table needlessly, or, within a `Resize`, drop a method. `MethodsFound` says exactly what is
  found then.
* `TestAssertImp(resized, res == InsertionResult::Inserted)` (`som_class.cpp:102`) does not
  hold: selectors whose slots still coincide in the doubled table need a second doubling.
  The loop in `Insert` handles it; only a debug build would stop.
* `Assert(newHead % x_spdsAllocationPageSize == 0)` (`vm.h:482`) looks at a word that another
  thread may have overwritten by then. Without assertions it is harmless, because the CAS fails.
* `ExecutableCode::CreateCFunction` leaves `m_interpreterCallIcList` unwritten, although call
  sites link to the anchors of C functions. It is zero because the system heap is freshly
  mapped memory that is never reused.
* `RegAllocValueManager::EvictRegister` drops a value without a spill once its last use is
  consumed, also while the type checks of the same node are still to be emitted.
  `RecoveryExact` leaves exactly such values out. Phantom insertion asserts only that the last use of a live value
  is not before the exiting node (`dfg_phantom_insertion.cpp:500`), so it may be that node itself. OSR exits are
  not wired up at this commit, so nothing yet says whether the exit of a check would need such a value.

## 5. Proofs

`JitCallIcProofs` (for all sets of sites, functions, entries, any limit, any biases),
from `ConstAssumption`: bytecode functions are executables, entry points are
addresses of the operand's width, a function object is not an executable, and the
names of the slow path and of "no call" are no entries. `BloomAssumption` is not used.

* `TypeCorrect`. One lemma per kind of step; `InsertHasEffect` reduces the three ways
  to insert (direct call, transition, closure call) to one description of what an
  insertion does to entries and lists, which the other proofs share.
* `CacheInvariant`, hence `NoStaleCodePointer` and `CallIcListsExact`. The pointer
  in a stub is current only because the lists are exact (a patch reaches it), and a patch
  is right only because it adds the difference to a current pointer: the two have to be
  proved together, with `LiveEntity` (an allocated entry has a target) and
  `BestIsCurrentTier`. Modular arithmetic (`ModShift`, `OperandFacts`) shows that adding
  the difference re-encodes the new entry point, for absolute and relative operands.
* `ChainInvariant`, hence `EntriesOwnedOnce`, `StubChainsMirrorLists` and
  `NoFreedStubRuns`. The running call stays inside its own site's chain because an
  insertion is made only from the slow path and a transition frees only entries of that
  site. `LayoutMatchesMode` ties the check in the stubs to the mode.
* `ImplementsDispatch`: a hit, or the end of the slow path, is a `Call` of
  `CallDispatch` to the current entry point (from `StubPtrCurrent`), `TierUp` is its
  tier-up, and every other step stutters.
* `SiteInvariant`, hence `SitesConsistent` and `ProfilesAreSound`. That a call in the slow path
  is not cached already is known only from its way there: the invariant says that no stub
  before the one it is about to run accepts its callee, and a transition, which changes what
  stubs accept, is made by the only running call. The filter has no false negatives because
  bits are added with the entry and both are reset together. `ProfilesAreSound` has the
  hypothesis `MaxEntries > 1`, since with a limit of one `SlowPathNoInsert` could run at a site
  that looks monomorphic; `x_maxJitCallInlineCacheEntries` is 3
  (`drt/jit_inline_cache_utils.h:70`).

`InterpCallIcProofs` (for all functions, sites, addresses and depths of the stack), from
`CodeAssumption` (`None` is no function and no walk, and there are finitely many sites), `AddressAssumption` (sites and anchors
have different addresses), `EntryAssumption` (baseline and interpreter entries differ) and
`BytecodeAssumption` (the addresses of a function's bytecodes increase relative to its CodeBlock, modulo
`PtrMod`).

* `InterpCacheInvariant`. Whether the walk of `UpdateBestEntryPoint` misses a site is a question of
  reachability. `Complete` says it with closed sets, which a step changes in a simple way: a set that contains the anchor of a code, and with each node the next one,
  contains all sites that cache the code. `RelinkKeepsComplete` turns a closed set of the new
  lists into a closed set of the old ones, with the moved site if its old neighbour is in it
  and without it otherwise. `WalkInv` says the same of the rest of a walk: closed sets that
  contain the current node and may leave out the anchor contain every unpatched site. At
  the end the current node alone is such a set. `Linked` gives the offsets (the two
  directions are inverse, neighbours cache the same code), `StackInv` that only the top
  activation can be in a prologue.
* Hence `NoStaleCachedPointer`, `FunctionsCompiledOnce` (a call enters the prologue only if
  the best entry point is the interpreter's, which it is not once the code is compiled), and
  `InterpImplementsDispatch`.
* `CallSiteListsExact`. As many steps from the anchor as there are sites of the callee meet all of them
  and the next one is the anchor. Among one node more than there are, two are the same; links being
  inverse, so are the nodes before them, down to the anchor. The nodes met until the anchor returns are a
  closed set, hence all of them (`VisitIsExact`).
* `OsrContinues`. `SearchFinds` says that the binary search over offsets modulo `PtrMod` returns the
  index of the bytecode it is asked for; the invariant says that an activation is always at one of its
  function's bytecodes. The search is a recursive function, and its equation has a solution
  because ranges shrink (`SearchDefined`).

`MemoryAllocatorProofs`, for the heaps from `HeapAssumption` (sizes are natural numbers, the reservation is
aligned to the unit of mapping, and 32-bit limits are ordered as in the code): `HeapInvariant`
says that objects lie between bump pointer and start of the heap, the bump pointer
within the mapped part, and that within the reservation. It gives
`HeapObjectsDisjoint` and `HeapObjectsMapped`, including the wrap of the system heap's
32-bit pointer.

The same module proves the JIT memory allocator for any increasing table of cell sizes, any page and
header size, any length of the reserved ranges, any bound on the pages and any finite set of large
allocations, from `JitMemAssumption` (a cell of the largest size fits behind the header of a page, and
names of pages, cells, large allocations, the anchor and null differ).

* `JitMemoryInvariant`. `IsList(head, link, end, F)` says that `F` is the set of nodes of a linked list: links
  stay in `F` or end, no two lead to one node, none to the head, and no smaller set that has the head is
  closed. `PushList` and `PopList` are its two changes, for the cells of a page as well as for the pages
  of a stepping; `IsRing` with `RingLink` and `RingUnlink` is the circular list. The invariant says that a
  page's list has the cells of the page that no client has, a stepping's list the pages with a free
  cell, the ring the live large allocations. `FreshCells` shows that `Initialize` chains exactly
  the cells that fit. It needs `FreshInv`: a page not yet cut out of a range has no cell in a client's
  hands and no link, so that it can be put on a list that is empty.
* `CellsArePartitioned` and `AllocatorListsAreExact` follow with `WalkIs`: a walk of at least as many steps
  as the list has nodes meets exactly the nodes of the list.
* `MemoryIsAccounted` is part of the invariant. Sums over sets are folds with a choice of the next
  element; `SumLawsHold` shows that the choice does not matter, and `SumAdd` and `SumChange` what an
  allocation or a free does to a sum. After `Shutdown` the parts of the ranges that were and were
  not cut into pages add up to what was reserved, so nothing is left.
* `AllocationsFitTightest` rests on `SizeSearchFinds`, an induction over the length of the searched range, and
  on the fact that the cell taken is none that a client has.

`SomMethodTableProofs` (for all selectors, hash functions, numbers of classes, table sizes and
limits on the rounds), from `MethodTableAssumption` (the constants are natural numbers of
the right sign, 0 is no selector).

* `MethodTableInvariant`, hence `TablesArePlaced`. The pair in hand during an eviction does not
  occur in the table, and the slot it is put in is one of its own two: so the victim it displaces
  is in hand next, with the same two facts. They are what makes placement inductive.
* `MethodsAreFound`: `Spec => []MethodsFound`, whatever the limit on rounds. `ContentInv` says that the
  table, the pair in hand, the key whose insertion waits for a `Resize` and the slots of the old
  table that are not yet copied together hold exactly the methods of the class, no selector twice,
  except for the selectors in `lost`, which are nowhere. So a method that cannot be found was dropped by a
  failed reinsertion, and nothing else ever loses one.

`SomBlockCompilerProofs` (for all methods, any depth of nesting and any number of locals), from
`CompilerBounds` (the bounds are natural numbers).

* `CompilerInvariant`, hence `ThrowChainIsMutable`, `ParentsHaveUpvalues` and `OwnReturnsClose`.
  `UpvalsOK`: a function with an upvalue for a variable is inside the variable's context, which
  has noted the capture, and every function between has the upvalue too. `SelfOK` and `ChainOK`: what
  happened in a context that is not finished has been noted there or in a context inside it, and
  is handed outwards when that one is left. The nearest function around a context (`OwningContext`,
  `ResolveVariable`) is found with the least-number principle, from the well-foundedness of `<`.

`SpdsPageAllocatorProofs` (for any number of threads, any region and unit of growth), from
`SpdsAssumption` (`RegionSize > 1`, `TagMod > MaxOps`: tags do not wrap within a behaviour, while the
code's 32-bit tag could after 2^32 changes between a load and its exchange).

* `PageInvariant`. Lists are not followed from head to tail; the invariant says there exist `own` (the
  place of each page: unmapped, on the free list, on a thread's chain or list to push, in a
  thread's hand), `len` and `at` (the pages of each list in order) that agree with the links. A step
  is then a change of these witnesses: `PopFront`, `PushFront`, `Concat` and `NewList` are lemmas about
  linked lists in general. The ABA problem is `SnapshotOK`: a thread whose snapshot equals the free
  list has a link that is still the one of the head, because every change advances the tag and
  `TagsOK` bounds the tag by the number of calls made.
* Hence `GrowthIsExclusive`, `PagesArePartitioned`, and the refinement `ImplementsPages`: a successful
  exchange is the step of `SpdsPages`, growth is its growth, and everything else stutters.

`UpvaluesProofs` (for all sizes of frames, depths of the stack, numbers of closures), from
`UpvaluesAssumption` (bounds are natural numbers, `Nil` is a value).

* `UpvalueInvariant`. The open list again has witnesses `len` and `at`. `WalkIs`, `PositionIs` and
  `CloseFromIs` show what the loops of `Upvalue::Create` and `CloseUpvalues` compute on a
  sorted list. `OpenBelow` (open slots are below the top of the stack) holds because every return
  closes from its frame's base. `RefsOK`, `SelfOK` and `HomeOK` say what a closure captured: its
  `self` is that of its home, and its home is on the stack or forgotten. `ChainOK` is the heart of
  the non-local return: while a block's `self` upvalue is open, the frame it points to
  runs a method that is the block's home, or a block of the same home with a `self` upvalue of its
  own. `ThrowOK` says the same of the frame the walk has reached.
* Hence `OpenListIsExact`, `OpenUpvaluesAreLive`, `NonLocalReturnsAreOwn` and `BlocksRunWithHomeSelf`.
* `ImplementsBoxes`: a call is `Enter`, a return or `^` is `Leave`, an escaped block is `Reenter`, making a
  closure is `Create` with the new upvalues as new boxes, an assignment writes the slot or the
  box, `UpvalueClose` ends a scope, and the walk of a throw stutters.

`DfgRegAllocProofs` (for any finite sets of values and constants, any registers, interpreter slots,
operands and ranges, and any bound on the frame), from `DfgAssumption` (the bounds are natural numbers,
locals are slots, values, constants and the markers `None` and `Saved` differ).

* `AllocatorInvariant`. `Regs`, `Spills` and `Kept` are the agreement of records and machine, for every
  register and every spilled value, also those whose last use is consumed: their slots stay theirs until
  they die. `Operands` and `Inputs` say the same of what the current node reads. `Recovery` describes the
  exit map by what the allocator knows: the constant, the local, the spill slot if there is one, and
  otherwise a register recorded for the value. An eviction and a move keep it because
  `SetForAllSlotsAssociatedWith` reaches exactly the slots whose shadow is the value (`assoc`); a load
  and a duplicate because they write only registers that no record names.
  `NodePhase` says what a node has in each phase, that the register of an output holds no recorded
  value, and that the operand of a SetLocal is the value its slot has.
* `Slots` divides the frame among the free list, the spilled values, the temporaries and the range. It
  is inductive only with `Reserve`: while a range is in place the free list is at least as long as the
  values in registers without a slot, the constants still to be materialized and the output together.
  So `AllocateSpillSlot` takes from the list and the range stays at the end. Every spill
  and every materialization takes one slot and lowers that number by one; births do not raise
  it, because they happen when the range is released. `ReleaseStep` is that release: the outputs take their
  slots, the holes go to the free list and the frame ends after the last output. That a finite set of
  numbers can be listed from the largest down (`FallingExists`) follows from the well-foundedness of `<`.
* Hence `RecordsAreTrue`, `RecoveryIsExact` and `SlotsAreAccounted`.

Only model-checked:

* liveness (`CallCompletes`, `PatchingEnds`, `InsertionEnds`), which needs fairness and ENABLED;
* `GivesUpOnlyWhenFull`. It needs the structure of the graph whose nodes are the slots and whose edges are the
  entries (a component with two cycles has more entries than slots) and an induction along the chain of evictions.

Inductions over data (lists, searches, sums, walks) are made with the least element of a set of naturals,
which follows from the well-foundedness of `<`: the library's induction rules take an operator
as a parameter, which the installed provers cannot instantiate.

## 6. Not modelled

* The lexer and parser (sequential functions of their input), the bytecode builder, the
  arithmetic of primitives, the temporary arena, the driver, benchmarks, third-party code.
* Deegen itself: 64,000 lines that transform LLVM IR when the VM is built. What its inline cache
  and function entry code does at run time is in `JitCallIc` and `InterpCallIc`.
* Generic JIT inline caches: one stub and one jump per insertion and nothing freed, a
  simpler case of `JitCallIc`.
* SPDS objects, the interner and global variables: stacks of free objects and tables
  without deletion, used by one thread.
* The DFG passes other than register allocation, and of the register allocator the nodes
  `Return`, `CreateVariadicRes`, `PrependVariadicRes`, `CreateFunctionObject`, branch decisions,
  and the encoding of exit events. The tier is not entered at this commit.

## 7. Plan

Done: JitCallIc, SpdsPageAllocator, VmHeaps, JitMemoryAllocator, SomBlockCompiler, Upvalues,
SomMethodTable, InterpCallIc, DfgRegAlloc.

Modelling that is left: a composition of `SomBlockCompiler` and `Upvalues` (the contract
of the emitted code); operand slots and inlined loops of the compiler; the register move
generator as a pure definition against parallel assignment; the layout of code regions.

Every safety property of the passing runs except `GivesUpOnlyWhenFull` is a theorem, and it is what is worth
proving next.
