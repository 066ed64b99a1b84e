-------------------------- MODULE JitMemoryAllocator --------------------------
(***************************************************************************)
(* The allocator of JIT memory.  Small allocations come from 16KB pages of *)
(* equal cells, one cell size ("stepping") per page; the pages of a        *)
(* stepping that have a free cell are chained from m_freeList.  Large      *)
(* allocations are mmap-ed one by one and chained in a circular doubly     *)
(* linked list.  Pages are cut out of reserved address ranges.             *)
(*                                                                         *)
(* Pages and large allocations are named by numbers and model values; an   *)
(* offset into a page is in units of the 16-byte granule.                  *)
(***************************************************************************)
EXTENDS Integers, Sequences, FiniteSets, Functions

CONSTANTS
    SteppingArray,   \* x_jit_mem_alloc_stepping_array
    PageSize,        \* JitMemoryPageHeaderBase::x_pageSize
    HeaderSize,      \* sizeof(JitMemoryPageHeader)
    LargeHeader,     \* sizeof(JitMemoryLargeAllocationHeader)
    OsPage,          \* 4096, the granularity of large allocations
    RangePages,      \* x_reserveRangeSize / x_pageSize
    Large,           \* names for large allocations
    Anchor,          \* m_laAnchor
    Null,            \* nullptr
    Sizes,           \* sizes that clients ask for
    MaxPages         \* bound: pages ever allocated

NumSteppings == Len(SteppingArray)
MaxSmall == SteppingArray[NumSteppings]
Page == 1 .. MaxPages
Offset == HeaderSize .. PageSize - 1

ASSUME JitMemAssumption ==
    /\ SteppingArray \in Seq(Nat \ {0}) /\ SteppingArray # <<>>
    /\ \A i \in 1 .. NumSteppings - 1 : SteppingArray[i] < SteppingArray[i + 1]
    /\ HeaderSize \in Nat \ {0} /\ HeaderSize + MaxSmall <= PageSize
    /\ PageSize \in Nat /\ LargeHeader \in Nat
    /\ OsPage \in Nat \ {0} /\ RangePages \in Nat \ {0} /\ Sizes \subseteq Nat
    /\ MaxPages \in Nat /\ Null \notin Page
    /\ IsFiniteSet(Large) /\ Anchor \notin Large
    /\ Large \cap [page : Page, off : Offset] = {}

VARIABLES
    freeList,      \* m_freeList: per stepping, the first page with a free cell
    nextPage,      \* per page: m_nextPage
    stepping,      \* per page: m_cellSizeStepping (m_cellSize follows from it)
    cellHead,      \* per page: m_freeListHead, 0 if there is no free cell
    cellNext,      \* per page and offset: the link in the first bytes of a free cell
    numAllocated,  \* per page: m_numAllocatedCells
    reservedCur,   \* pages taken from the reserved ranges
    ranges,        \* length of m_unmapList: ranges reserved
    prev, next,    \* m_link of every large allocation and of the anchor
    largeSize,     \* m_size of every large allocation
    used,          \* m_totalUsedMemory
    osUsage,       \* m_totalOsMemoryUsage
    live,          \* history: allocations in the clients' hands
    down           \* Shutdown has run

small == <<freeList, nextPage, stepping, cellHead, cellNext, numAllocated, reservedCur, ranges>>
large == <<prev, next, largeSize>>
vars == <<small, large, used, osUsage, live, down>>

CellSize(p) == SteppingArray[stepping[p]]

\* The nodes of a linked list, met in a walk of n steps from its head.
Linked(head, link, end, n) ==
    LET walk[k \in 0 .. n] ==
          IF k = 0 THEN {head}
          ELSE LET met == walk[k - 1] IN met \cup {link[x] : x \in met \ {end}}
    IN  walk[n] \ {end}

Init ==
    /\ freeList = [i \in 1 .. NumSteppings |-> Null]
    /\ nextPage = [p \in Page |-> Null]
    /\ stepping = [p \in Page |-> 1]
    /\ cellHead = [p \in Page |-> 0]
    /\ cellNext = [p \in Page |-> [o \in Offset |-> 0]]
    /\ numAllocated = [p \in Page |-> 0]
    /\ reservedCur = 0 /\ ranges = 0
    /\ prev = [l \in Large \cup {Anchor} |-> Anchor]
    /\ next = [l \in Large \cup {Anchor} |-> Anchor]
    /\ largeSize = [l \in Large |-> 0]
    /\ used = 0 /\ osUsage = 0
    /\ live = {}
    /\ down = FALSE

-----------------------------------------------------------------------------
\* Defect: the search keeps the half that excludes its answer.
SteppingFromSizeOneTooSmall(size) ==
    LET search[r \in (1 .. NumSteppings) \X (1 .. NumSteppings)] ==
          LET mid == (r[1] + r[2]) \div 2
          IN  IF r[1] >= r[2] THEN r[2]
              ELSE search[IF size <= SteppingArray[mid] THEN <<r[1], mid>> ELSE <<mid, r[2] - 1>>]
    IN  search[<<1, NumSteppings>>]

\* GetJitMemoryAllocatorSteppingFromSmallAllocationSize: binary search.
SteppingFromSize(size) ==
    LET search[r \in {q \in (1 .. NumSteppings) \X (1 .. NumSteppings) : q[1] <= q[2]}] ==
          LET mid == (r[1] + r[2]) \div 2
          IN  IF r[1] = r[2] THEN r[2]
              ELSE search[IF size <= SteppingArray[mid] THEN <<r[1], mid>> ELSE <<mid + 1, r[2]>>]
    IN  search[<<1, NumSteppings>>]

\* Defect: a last cell that does not fit entirely is linked as well.
CellLinkOverrun(size, off) ==
    IF off + size < PageSize THEN off + size ELSE 0
\* JitMemoryPageHeader::Initialize: the link of the fresh cell at off.
CellLink(size, off) ==
    IF off + size + size <= PageSize THEN off + size ELSE 0

\* AllocateNewPageForStepping and AllocateUninitalizedPage: the next page of
\* the reserved range, or the first one of a new range.
NewPage == reservedCur + 1

\* AllocateGivenStepping.  Page p is the head of the stepping's list, or a new
\* page; link and head are its free list before the cell is taken.  The link
\* of a cell that is handed out is the client's to overwrite.
TakeCell(i, p, head, link) ==
    LET left == link[head]
    IN  /\ cellHead' = [cellHead EXCEPT ![p] = left]
        /\ cellNext' = [cellNext EXCEPT ![p] = [link EXCEPT ![head] = 0]]
        /\ numAllocated' = [numAllocated EXCEPT ![p] = @ + 1]
        /\ freeList' = [freeList EXCEPT ![i] = IF left = 0 THEN nextPage[p] ELSE p]
        /\ nextPage' = IF left = 0 THEN [nextPage EXCEPT ![p] = Null] ELSE nextPage
        /\ used' = used + SteppingArray[i]
        /\ live' = live \cup {[page |-> p, off |-> head]}

AllocateFromFreeList(i) ==
    /\ ~down
    /\ freeList[i] # Null
    /\ TakeCell(i, freeList[i], cellHead[freeList[i]], cellNext[freeList[i]])
    /\ UNCHANGED <<stepping, reservedCur, ranges, osUsage, large, down>>

AllocateFromNewPage(i) ==
    /\ ~down
    /\ freeList[i] = Null
    /\ NewPage \in Page
    /\ stepping' = [stepping EXCEPT ![NewPage] = i]
    /\ reservedCur' = NewPage
    /\ ranges' = IF reservedCur = ranges * RangePages THEN ranges + 1 ELSE ranges
    /\ osUsage' = osUsage + PageSize
    /\ TakeCell(i, NewPage, HeaderSize,
                [o \in Offset |->
                   IF (o - HeaderSize) % SteppingArray[i] = 0 /\ o + SteppingArray[i] <= PageSize
                   THEN CellLink(SteppingArray[i], o) ELSE 0])
    /\ UNCHANGED <<large, down>>

RoundUpToOsPage(n) == ((n + OsPage - 1) \div OsPage) * OsPage

\* DoLargeAllocation: the new header goes in right after the anchor.
AllocateLarge(l, wanted) ==
    /\ ~down
    /\ l \notin live
    /\ LET size == RoundUpToOsPage(wanted + LargeHeader)
       IN  /\ largeSize' = [largeSize EXCEPT ![l] = size]
           /\ used' = used + size
           /\ osUsage' = osUsage + size
    /\ next' = [next EXCEPT ![l] = next[Anchor], ![Anchor] = l]
    /\ prev' = [prev EXCEPT ![next[Anchor]] = l, ![l] = Anchor]
    /\ live' = live \cup {l}
    /\ UNCHANGED <<small, down>>

AllocateGivenSize(size) ==
    \/ size > MaxSmall /\ \E l \in Large : AllocateLarge(l, size)
    \/ size <= MaxSmall /\ AllocateFromFreeList(SteppingFromSize(size))
    \/ size <= MaxSmall /\ AllocateFromNewPage(SteppingFromSize(size))

-----------------------------------------------------------------------------
\* Defect: a page that was full is not put back on its list.
FreeSmallForgetsPage(p, off) ==
    /\ ~down
    /\ used' = used - CellSize(p)
    /\ numAllocated' = [numAllocated EXCEPT ![p] = @ - 1]
    /\ cellNext' = [cellNext EXCEPT ![p][off] = cellHead[p]]
    /\ cellHead' = [cellHead EXCEPT ![p] = off]
    /\ live' = live \ {[page |-> p, off |-> off]}
    /\ UNCHANGED <<freeList, nextPage, stepping, reservedCur, ranges, osUsage, large, down>>

\* Free of a cell: JitMemoryPageHeader::FreeCell, and if the page was full it
\* becomes the head of its stepping's list.
FreeSmall(p, off) ==
    /\ ~down
    /\ used' = used - CellSize(p)
    /\ numAllocated' = [numAllocated EXCEPT ![p] = @ - 1]
    /\ cellNext' = [cellNext EXCEPT ![p][off] = cellHead[p]]
    /\ cellHead' = [cellHead EXCEPT ![p] = off]
    /\ IF cellHead[p] = 0
       THEN /\ nextPage' = [nextPage EXCEPT ![p] = freeList[stepping[p]]]
            /\ freeList' = [freeList EXCEPT ![stepping[p]] = p]
       ELSE UNCHANGED <<nextPage, freeList>>
    /\ live' = live \ {[page |-> p, off |-> off]}
    /\ UNCHANGED <<stepping, reservedCur, ranges, osUsage, large, down>>

\* Defect: the memory given back to the OS is not accounted.
FreeLargeNoOsAccounting(l) ==
    /\ ~down
    /\ used' = used - largeSize[l]
    /\ next' = [next EXCEPT ![prev[l]] = next[l]]
    /\ prev' = [prev EXCEPT ![next[l]] = prev[l]]
    /\ live' = live \ {l}
    /\ UNCHANGED <<small, osUsage, largeSize, down>>

\* Free of a large allocation: unlinked, then unmapped.
FreeLarge(l) ==
    /\ ~down
    /\ used' = used - largeSize[l]
    /\ osUsage' = osUsage - largeSize[l]
    /\ next' = [next EXCEPT ![prev[l]] = next[l]]
    /\ prev' = [prev EXCEPT ![next[l]] = prev[l]]
    /\ live' = live \ {l}
    /\ UNCHANGED <<small, largeSize, down>>

Free == \E a \in live :
    \/ a \in Large /\ FreeLarge(a)
    \/ a \notin Large /\ FreeSmall(a.page, a.off)

\* The large allocations that a walk along m_link.next from the anchor meets.
Reach(step) == Linked(step[Anchor], step, Anchor, Cardinality(Large))

\* Shutdown frees every large allocation the list reaches, then every range.
Shutdown ==
    /\ ~down
    /\ LET left == Reach(next)
       IN  /\ used' = used - SumFunctionOnSet(largeSize, left)
           /\ osUsage' = osUsage - SumFunctionOnSet(largeSize, left)
                         + (ranges * RangePages - reservedCur) * PageSize
                         - ranges * RangePages * PageSize
           /\ live' = live \ left
    /\ next' = [next EXCEPT ![Anchor] = Anchor]
    /\ prev' = [prev EXCEPT ![Anchor] = Anchor]
    /\ down' = TRUE
    /\ UNCHANGED <<small, largeSize>>

Next ==
    \/ \E s \in Sizes : AllocateGivenSize(s)
    \/ Free
    \/ Shutdown
    \/ down /\ UNCHANGED vars

Spec == Init /\ [][Next]_vars

-----------------------------------------------------------------------------
(***************************************************************************)
(* Correctness.                                                            *)
(***************************************************************************)
Created == 1 .. reservedCur
Cells(p) == {o \in Offset : (o - HeaderSize) % CellSize(p) = 0 /\ o + CellSize(p) <= PageSize}
FreeCells(p) == Linked(cellHead[p], cellNext[p], 0, PageSize)
LiveCells(p) == {a.off : a \in {b \in live \ Large : b.page = p}}
ListedPages(i) == Linked(freeList[i], nextPage, Null, MaxPages)

\* Every cell of a page is either in a client's hands or on the page's free
\* list, never both and never lost, and no cell reaches past the page.
CellsPartitioned ==
    \A p \in Created :
      /\ FreeCells(p) \cup LiveCells(p) = Cells(p)
      /\ FreeCells(p) \cap LiveCells(p) = {}
      /\ numAllocated[p] = Cardinality(LiveCells(p))

\* The list of a stepping holds exactly the pages of that stepping that have
\* a free cell ("m_freeList[stepping]->HasFreeCell()"; no page with free cells
\* is forgotten), and the circular list of large allocations holds the live
\* ones, in the same order in both directions, so that Shutdown frees each of
\* them once.
AllocListsExact ==
    /\ \A i \in 1 .. NumSteppings :
         ListedPages(i) = {p \in Created : stepping[p] = i /\ cellHead[p] # 0}
    /\ ~down => Reach(next) = live \cap Large
    /\ \A l \in Reach(next) \cup {Anchor} : prev[next[l]] = l /\ next[prev[l]] = l

\* m_totalUsedMemory is what the clients hold, m_totalOsMemoryUsage is what
\* the OS gave, and nothing is left of the latter after Shutdown
\* ("Assert(m_totalOsMemoryUsage == 0)").
MemoryAccounted ==
    LET largeMem == SumFunctionOnSet(largeSize, live \cap Large)
        cellMem == [p \in Created |-> CellSize(p) * Cardinality(LiveCells(p))]
    IN  /\ used = largeMem + SumFunctionOnSet(cellMem, Created)
        /\ osUsage = IF down THEN 0 ELSE largeMem + reservedCur * PageSize

\* An allocation is at least as long as requested, and a smaller stepping
\* would not have been: the binary search returns the tightest cell size.
TightestFit ==
    [][\A s \in Sizes :
         s <= MaxSmall /\ AllocateGivenSize(s) =>
           \E a \in live' \ live :
             LET i == stepping'[a.page]
             IN  s <= SteppingArray[i] /\ (i > 1 => s > SteppingArray[i - 1])]_vars
=============================================================================
