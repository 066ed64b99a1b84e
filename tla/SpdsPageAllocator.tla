-------------------------- MODULE SpdsPageAllocator --------------------------
(***************************************************************************)
(* The page allocator of the short-pointer data structure (SPDS) region:   *)
(* a lock-free stack of free pages (VM::m_spdsPageFreeList, a head pointer *)
(* and a version tag in one 64-bit word), refilled under a mutex, and its  *)
(* client SpdsAllocImpl: the execution thread's allocator, which keeps its *)
(* pages, and temporary arenas, which chain theirs and return them.        *)
(*                                                                         *)
(* Addresses are in pages, relative to the VM base.  The page [a-1, a) is  *)
(* named by its end a, as in the code, so pages are -1, -2, ... (the page  *)
(* that ends at 0 is never used) and 1 is the end-of-list sentinel.  The   *)
(* link of page a is the 32-bit word just below address a.                 *)
(*                                                                         *)
(* One action per access to shared memory, so the accesses of all threads  *)
(* interleave.  The acquire/release orders of the code make the links      *)
(* written before a push visible to whoever reads the pushed head.         *)
(***************************************************************************)
EXTENDS Integers, FiniteSets

CONSTANTS
    Arenas,      \* threads that use a SpdsAllocImpl<VM, true> (temporary arena)
    Permanent,   \* threads that use a SpdsAllocImpl<VM, false>
    AllocSize,   \* x_allocationSize: most pages mapped at once
    RegionSize,  \* -INT_MIN: pages of the SPDS region
    TagMod,      \* 2^width of the version tag
    MaxOps,      \* bound: calls the threads make in a behaviour
    None         \* no thread; also a word that holds client data, not a link

Threads == Arenas \cup Permanent
Sentinel == 1

ASSUME SpdsAssumption ==
    /\ Arenas \cap Permanent = {}
    /\ AllocSize \in Nat \ {0} /\ RegionSize \in Nat \ {0, 1}
    /\ MaxOps \in Nat /\ TagMod \in Nat /\ TagMod > MaxOps
    /\ None \notin Threads /\ None \notin Int

VARIABLES
    freeList,   \* m_spdsPageFreeList: [tag, head]
    limit,      \* m_spdsPageAllocLimit
    link,       \* the last word of every page
    mutex,      \* holder of m_spdsAllocationMutex, or None
    aborted,    \* VM_FAIL_IF ended the process
    pc,         \* per thread: the step it is about to take
    expected,   \* per thread: taggedValue, the snapshot its CAS compares with
    newHead,    \* per thread: the link it read for its pop
    first,      \* per thread: the page chain it is pushing, first ...
    last,       \* ... and last page
    page,       \* per thread: the page it has obtained, on the way to its caller
    curChunk,   \* per thread: the page m_curChunk points into, or Sentinel
    lastChunk,  \* per thread: m_lastChunkInTheChain
    kept,       \* per permanent thread: pages its allocator used up
    ops         \* calls made so far

shared == <<freeList, limit, link, mutex, aborted>>
client == <<curChunk, lastChunk, kept, ops>>
vars == <<freeList, limit, link, mutex, aborted, pc, expected, newHead, first, last,
          page, curChunk, lastChunk, kept, ops>>

Page == -RegionSize .. -1
NoSnapshot == [tag |-> 0, head |-> Sentinel]   \* local variable out of scope

Init ==
    /\ freeList = NoSnapshot
    /\ limit = -1
    /\ link = [p \in Page |-> None]
    /\ mutex = None
    /\ aborted = FALSE
    /\ pc = [t \in Threads |-> "idle"]
    /\ expected = [t \in Threads |-> NoSnapshot]
    /\ newHead = [t \in Threads |-> None]
    /\ first = [t \in Threads |-> None]
    /\ last = [t \in Threads |-> None]
    /\ page = [t \in Threads |-> None]
    /\ curChunk = [t \in Threads |-> Sentinel]
    /\ lastChunk = [t \in Threads |-> None]
    /\ kept = [t \in Permanent |-> {}]
    /\ ops = 0

At(t, l) == ~aborted /\ pc[t] = l
Goto(t, l) == pc' = [pc EXCEPT ![t] = l]

\* Defect: the tag is not advanced.
TagUnchanged(tag) == tag
NextTag(tag) == (tag + 1) % TagMod

\* m_spdsPageFreeList.load
LoadFreeList(t) == expected' = [expected EXCEPT ![t] = freeList]

\* compare_exchange_weak of the free list: on success head h is installed and
\* control goes to l1; on failure, which may be spurious, the snapshot is
\* refreshed and control goes to l2.
Cas(t, h, l1, l2) ==
    \/ /\ freeList = expected[t]
       /\ freeList' = [tag |-> NextTag(expected[t].tag), head |-> h]
       /\ Goto(t, l1)
       /\ expected' = [expected EXCEPT ![t] = NoSnapshot]
    \/ /\ LoadFreeList(t)
       /\ Goto(t, l2)
       /\ UNCHANGED freeList

-----------------------------------------------------------------------------
(***************************************************************************)
(* SpdsAllocateTryGetFreeListPage: pop a page.                             *)
(***************************************************************************)
\* AllocMemory finds its page used up: SpdsAllocatePage is called.
AllocBegin(t) ==
    /\ At(t, "idle")
    /\ ops < MaxOps
    /\ ops' = ops + 1
    /\ LoadFreeList(t)
    /\ Goto(t, "popNext")
    /\ UNCHANGED <<shared, newHead, first, last, page, curChunk, lastChunk, kept>>

\* Empty list: to the slow path, or once more around its loop.
PopEmpty(t) ==
    /\ At(t, "popNext")
    /\ expected[t].head = Sentinel
    /\ expected' = [expected EXCEPT ![t] = NoSnapshot]
    /\ Goto(t, "tryLock")
    /\ UNCHANGED <<shared, newHead, first, last, page, client>>

\* The head's link is read, whoever owns the head by now.
PopNext(t) ==
    /\ At(t, "popNext")
    /\ expected[t].head # Sentinel
    /\ newHead' = [newHead EXCEPT ![t] = link[expected[t].head]]
    /\ Goto(t, "popCas")
    /\ UNCHANGED <<shared, expected, first, last, page, client>>

PopCas(t) ==
    /\ At(t, "popCas")
    /\ Cas(t, newHead[t], "gotPage", "popNext")
    /\ page' = [page EXCEPT ![t] = IF pc'[t] = "gotPage" THEN expected[t].head ELSE None]
    /\ newHead' = [newHead EXCEPT ![t] = None]
    /\ UNCHANGED <<limit, link, mutex, aborted, first, last, client>>

-----------------------------------------------------------------------------
(***************************************************************************)
(* SpdsPutAllocatedPagesToFreeList: push the chain first .. last.  The     *)
(* first load of the free list is part of the caller's action.             *)
(***************************************************************************)
PushLink(t) ==
    /\ At(t, "pushLink")
    /\ link' = [link EXCEPT ![last[t]] = expected[t].head]
    /\ Goto(t, "pushCas")
    /\ UNCHANGED <<freeList, limit, mutex, aborted, expected, newHead, first, last, page, client>>

\* Either the pages left over by the slow path, which then unlocks, or the
\* chain of an arena that is being destroyed.
PushCas(t) ==
    /\ At(t, "pushCas")
    /\ Cas(t, first[t], IF mutex = t THEN "unlock" ELSE "idle", "pushLink")
    /\ IF pc'[t] = "pushLink"
       THEN UNCHANGED <<first, last>>
       ELSE first' = [first EXCEPT ![t] = None] /\ last' = [last EXCEPT ![t] = None]
    /\ UNCHANGED <<limit, link, mutex, aborted, newHead, page, client>>

-----------------------------------------------------------------------------
(***************************************************************************)
(* SpdsAllocatePageSlowPath.                                               *)
(***************************************************************************)
TryLock(t) ==
    /\ At(t, "tryLock")
    /\ mutex = None
    /\ mutex' = t
    /\ Goto(t, "grow")
    /\ UNCHANGED <<freeList, limit, link, aborted, expected, newHead, first, last, page, client>>

\* try_lock fails: "someone else has took the lock".
TryLockFail(t) ==
    /\ At(t, "tryLock")
    /\ mutex # None
    /\ Goto(t, "blink")
    /\ UNCHANGED <<shared, expected, newHead, first, last, page, client>>

\* The scope of blinkLock: wait for the lock, then drop it and retry the list.
BlinkLock(t) ==
    /\ At(t, "blink")
    /\ mutex = None
    /\ mutex' = t
    /\ Goto(t, "blinkUnlock")
    /\ UNCHANGED <<freeList, limit, link, aborted, expected, newHead, first, last, page, client>>
BlinkUnlock(t) ==
    /\ At(t, "blinkUnlock")
    /\ mutex' = None
    /\ Goto(t, "popRetry")
    /\ UNCHANGED <<freeList, limit, link, aborted, expected, newHead, first, last, page, client>>

PopRetry(t) ==
    /\ At(t, "popRetry")
    /\ LoadFreeList(t)
    /\ Goto(t, "popNext")
    /\ UNCHANGED <<shared, newHead, first, last, page, client>>

\* Pages to map: 1, 2, 4, ... until x_allocationSize is reached.
LengthToAllocate == IF limit > -AllocSize THEN IF limit = 0 THEN 1 ELSE -limit ELSE AllocSize

\* Defect: the new limit is not compared with INT_MIN.
FitsOffByOne(new) == new >= -RegionSize
\* SubWithOverflowCheck, and INT_MIN itself is excluded too.
Fits(new) == new > -RegionSize

\* SpdsAllocatePageSlowPathImpl, when the region is exhausted.
GrowFails(t) ==
    /\ At(t, "grow")
    /\ ~Fits(limit - LengthToAllocate)
    /\ aborted' = TRUE     \* the limit just written is never read
    /\ UNCHANGED <<freeList, limit, link, mutex, pc, expected, newHead, first, last, page, client>>

\* Defect: the page for the caller is pushed with the others.
GrowPushesResult(t) ==
    /\ At(t, "grow")
    /\ Fits(limit - LengthToAllocate)
    /\ LET n == LengthToAllocate
           bottom == limit - n
       IN  /\ limit' = bottom
           /\ page' = [page EXCEPT ![t] = bottom + 1]
           /\ link' = [p \in Page |-> IF p \in bottom + 1 .. limit - 1 THEN p + 1 ELSE link[p]]
           /\ first' = [first EXCEPT ![t] = bottom + 1]
           /\ last' = [last EXCEPT ![t] = limit]
           /\ LoadFreeList(t)
           /\ Goto(t, "pushLink")
    /\ UNCHANGED <<freeList, mutex, aborted, newHead, client>>

\* SpdsAllocatePageSlowPathImpl up to its push: the lowest page goes to the
\* caller, the others are linked in ascending order.
Grow(t) ==
    /\ At(t, "grow")
    /\ Fits(limit - LengthToAllocate)
    /\ LET n == LengthToAllocate
           bottom == limit - n
       IN  /\ limit' = bottom
           /\ page' = [page EXCEPT ![t] = bottom + 1]
           /\ link' = [p \in Page |-> IF p \in bottom + 2 .. limit - 1 THEN p + 1 ELSE link[p]]
           /\ IF n > 1
              THEN /\ first' = [first EXCEPT ![t] = bottom + 2]
                   /\ last' = [last EXCEPT ![t] = limit]
                   /\ LoadFreeList(t)
                   /\ Goto(t, "pushLink")
              ELSE /\ UNCHANGED <<first, last, expected>>
                   /\ Goto(t, "unlock")
    /\ UNCHANGED <<freeList, mutex, aborted, newHead, client>>

Unlock(t) ==
    /\ At(t, "unlock")
    /\ mutex' = None
    /\ Goto(t, "gotPage")
    /\ UNCHANGED <<freeList, limit, link, aborted, expected, newHead, first, last, page, client>>

-----------------------------------------------------------------------------
(***************************************************************************)
(* SpdsAllocImpl.                                                          *)
(***************************************************************************)
\* An arena links its new page to the previous one (Sentinel if none).
GotArenaPage(t) ==
    /\ At(t, "gotPage")
    /\ t \in Arenas
    /\ link' = [link EXCEPT ![page[t]] = curChunk[t]]
    /\ lastChunk' = IF curChunk[t] = Sentinel
                    THEN [lastChunk EXCEPT ![t] = page[t]] ELSE lastChunk
    /\ curChunk' = [curChunk EXCEPT ![t] = page[t]]
    /\ page' = [page EXCEPT ![t] = None]
    /\ Goto(t, "idle")
    /\ UNCHANGED <<freeList, limit, mutex, aborted, expected, newHead, first, last, kept, ops>>

\* The permanent allocator hands out the whole page, link word included, and
\* forgets the page it used before.
GotPermanentPage(t) ==
    /\ At(t, "gotPage")
    /\ t \in Permanent
    /\ link' = [link EXCEPT ![page[t]] = None]
    /\ lastChunk' = IF curChunk[t] = Sentinel
                    THEN [lastChunk EXCEPT ![t] = page[t]] ELSE lastChunk
    /\ curChunk' = [curChunk EXCEPT ![t] = page[t]]
    /\ kept' = [kept EXCEPT ![t] = @ \cup {page[t]}]
    /\ page' = [page EXCEPT ![t] = None]
    /\ Goto(t, "idle")
    /\ UNCHANGED <<freeList, limit, mutex, aborted, expected, newHead, first, last, ops>>

\* ~SpdsAllocImpl of an arena: its chain is pushed.  The thread's next call
\* uses a new arena.
ReturnMemory(t) ==
    /\ At(t, "idle")
    /\ t \in Arenas
    /\ curChunk[t] # Sentinel
    /\ ops < MaxOps
    /\ ops' = ops + 1
    /\ first' = [first EXCEPT ![t] = curChunk[t]]
    /\ last' = [last EXCEPT ![t] = lastChunk[t]]
    /\ curChunk' = [curChunk EXCEPT ![t] = Sentinel]
    /\ lastChunk' = [lastChunk EXCEPT ![t] = None]
    /\ LoadFreeList(t)
    /\ Goto(t, "pushLink")
    /\ UNCHANGED <<shared, newHead, page, kept>>

\* The threads have made all their calls, or the process is gone.
Stopped ==
    /\ aborted \/ (ops = MaxOps /\ \A t \in Threads : pc[t] = "idle")
    /\ UNCHANGED vars

Step(t) ==
    \/ AllocBegin(t) \/ PopRetry(t) \/ PopEmpty(t) \/ PopNext(t) \/ PopCas(t)
    \/ PushLink(t) \/ PushCas(t)
    \/ TryLock(t) \/ TryLockFail(t) \/ BlinkLock(t) \/ BlinkUnlock(t)
    \/ GrowFails(t) \/ Grow(t) \/ Unlock(t)
    \/ GotArenaPage(t) \/ GotPermanentPage(t) \/ ReturnMemory(t)

Next == (\E t \in Threads : Step(t)) \/ Stopped

Spec == Init /\ [][Next]_vars

-----------------------------------------------------------------------------
(***************************************************************************)
(* Correctness.                                                            *)
(***************************************************************************)
\* The pages on the way from a to page z (or to the end).
Follow(a, z) ==
    LET path[i \in 0 .. -limit] ==
          IF i = 0 THEN IF a \in Page THEN {a} ELSE {}
          ELSE LET prev == path[i - 1]
               IN  prev \cup ({link[p] : p \in prev \ {z}} \cap Page)
    IN  path[-limit]

Mapped == limit + 1 .. -1
FreePages == Follow(freeList.head, None)
Pushing(t) == IF first[t] = None THEN {} ELSE Follow(first[t], last[t])
Chained(t) ==
    IF t \in Permanent THEN kept[t]
    ELSE IF curChunk[t] = Sentinel THEN {} ELSE Follow(curChunk[t], lastChunk[t])
InHand(t) == {page[t]} \ {None}
HeldPages(t) == Pushing(t) \cup Chained(t) \cup InHand(t)

ListsTerminate ==
    /\ freeList.head # Sentinel => \E p \in FreePages : link[p] = Sentinel
    /\ \A p \in FreePages : link[p] \in Page \cup {Sentinel}
    /\ \A t \in Threads : first[t] # None => last[t] \in Pushing(t)
    /\ \A t \in Arenas : curChunk[t] # Sentinel =>
         lastChunk[t] \in Chained(t) /\ link[lastChunk[t]] = Sentinel

\* Every mapped page has exactly one place: the free list, or the hands of
\* one thread (obtained, in use, or being pushed).  No page is handed out
\* twice and none is lost, however pops and pushes interleave.  The
\* free list ends at the sentinel and an arena's chain at m_lastChunkInTheChain,
\* so no word holding client data is ever followed.
PagesPartitioned ==
    /\ Mapped = FreePages \cup UNION {HeldPages(t) : t \in Threads}
    /\ \A t \in Threads :
         /\ HeldPages(t) \cap FreePages = {}
         /\ InHand(t) \cap (Pushing(t) \cup Chained(t)) = {}
         /\ Pushing(t) \cap Chained(t) = {}
         /\ \A u \in Threads \ {t} : HeldPages(t) \cap HeldPages(u) = {}
    /\ ListsTerminate

\* The region is grown by one thread at a time, under the mutex, and never
\* reaches the excluded address INT_MIN.
GrowExclusive ==
    /\ \A t \in Threads : pc[t] \in {"grow", "unlock", "blinkUnlock"} => mutex = t
    /\ limit > -RegionSize

\* Every call takes effect at once, between its beginning and its end.
Pages == INSTANCE SpdsPages WITH
            mapped <- Mapped, free <- FreePages, held <- [t \in Threads |-> HeldPages(t)]
PagesSpec == Pages!Spec
=============================================================================
