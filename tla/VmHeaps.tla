------------------------------ MODULE VmHeaps ------------------------------
(***************************************************************************)
(* The user heap and the system heap of the VM: two bump allocators over   *)
(* reserved address space, which map more memory when the bump pointer     *)
(* passes the mapped part.  The user heap grows down from                  *)
(* -(VmBaseOffset - UserHeapSize) towards -VmBaseOffset, the system heap   *)
(* grows up from the end of the VM struct towards 2GB.  Addresses are      *)
(* relative to the VM base, in units of the 8-byte allocation granule.     *)
(* Only the execution thread allocates.                                    *)
(***************************************************************************)
EXTENDS Integers

CONSTANTS
    VmBaseOffset,   \* x_vmBaseOffset
    UserHeapSize,   \* x_vmUserHeapSize
    VmSize,         \* sizeof(VM)
    VmPageSize,     \* x_pageSize
    AllocSize,      \* x_allocationSize of the two Bump functions
    Int32Max,       \* numeric_limits<int32_t>::max()
    Uint32Mod,      \* 2^32: wraps m_systemHeapCurPtr
    Lengths         \* lengths of allocations

ASSUME HeapAssumption ==
    /\ VmBaseOffset \in Nat /\ UserHeapSize \in Nat /\ VmSize \in Nat
    /\ VmPageSize \in Nat \ {0} /\ AllocSize \in Nat \ {0}
    /\ VmBaseOffset % AllocSize = 0
    /\ UserHeapSize <= VmBaseOffset
    /\ Int32Max \in Nat /\ Uint32Mod \in Nat /\ AllocSize <= Int32Max
    /\ VmSize + VmPageSize <= Int32Max /\ Int32Max < Uint32Mod
    /\ Lengths \subseteq Nat \ {0}

VARIABLES
    userCur, userLimit,   \* m_userHeapCurPtr, m_userHeapPtrLimit
    sysCur, sysLimit,     \* m_systemHeapCurPtr, m_systemHeapPtrLimit
    userObjs, sysObjs,    \* history: [start, end) of every object handed out
    failed                \* VM_FAIL_IF ended the process

heapVars == <<userCur, userLimit, sysCur, sysLimit, userObjs, sysObjs, failed>>
user == <<userCur, userLimit, userObjs>>
sys == <<sysCur, sysLimit, sysObjs>>

UserTop == -(VmBaseOffset - UserHeapSize)
RoundDown(x, m) == x - (x % m)                          \* x & ~(m - 1)
RoundUp(x, m) == (x + m - 1) - ((x + m - 1) % m)        \* RoundUpToMultipleOf

\* What InitializeVMBase sets up for the two heaps.
InitializeVMBase ==
    /\ userLimit = UserTop
    /\ userCur = UserTop
    /\ sysLimit = RoundUp(VmSize, VmPageSize)
    /\ sysCur = VmSize
    /\ userObjs = {} /\ sysObjs = {}
    /\ failed = FALSE

\* Defect: the memory below the new bump pointer is not mapped.
BumpUserHeapRoundsUp(cur) == RoundUp(cur, AllocSize)
\* BumpUserHeap: the limit mapped to once the bump pointer is at cur.
BumpUserHeap(cur) == RoundDown(cur, AllocSize)

\* Defect: the bump pointer is not stored back.
AllocFromUserHeapKeepsCur(length) ==
    /\ ~failed
    /\ userCur - length >= -VmBaseOffset
    /\ userLimit' = IF userCur - length < userLimit THEN BumpUserHeap(userCur - length) ELSE userLimit
    /\ userObjs' = userObjs \cup {[start |-> userCur - length, end |-> userCur]}
    /\ UNCHANGED <<userCur, failed, sys>>

AllocFromUserHeap(length) ==
    /\ ~failed
    /\ LET cur == userCur - length
       IN  \/ /\ cur >= userLimit
              /\ UNCHANGED <<userLimit, failed>>
              /\ userCur' = cur /\ userObjs' = userObjs \cup {[start |-> cur, end |-> userCur]}
           \/ /\ cur < userLimit /\ cur < -VmBaseOffset
              /\ failed' = TRUE
              /\ UNCHANGED user
           \/ /\ cur < userLimit /\ cur >= -VmBaseOffset
              /\ userLimit' = BumpUserHeap(cur)
              /\ userCur' = cur /\ userObjs' = userObjs \cup {[start |-> cur, end |-> userCur]}
              /\ UNCHANGED failed
    /\ UNCHANGED sys

\* AddWithOverflowCheck on uint32_t
Overflows(length) == sysCur + length >= Uint32Mod
\* BumpSystemHeap's limit, so that rounding up cannot pass Int32Max.
ExceedsTwoGB(cur) == cur > Int32Max - AllocSize

AllocFromSystemHeap(length) ==
    /\ ~failed
    /\ LET cur == (sysCur + length) % Uint32Mod
       IN  \/ /\ Overflows(length) \/ (cur > sysLimit /\ ExceedsTwoGB(cur))
              /\ failed' = TRUE
              /\ UNCHANGED sys
           \/ /\ ~Overflows(length)
              /\ cur <= sysLimit \/ ~ExceedsTwoGB(cur)
              /\ sysLimit' = IF cur > sysLimit THEN RoundUp(cur, AllocSize) ELSE sysLimit
              /\ sysCur' = cur /\ sysObjs' = sysObjs \cup {[start |-> sysCur, end |-> cur]}
              /\ UNCHANGED failed
    /\ UNCHANGED user

HeapNext ==
    \/ \E l \in Lengths : AllocFromUserHeap(l) \/ AllocFromSystemHeap(l)
    \/ failed /\ UNCHANGED heapVars

HeapSpec == InitializeVMBase /\ [][HeapNext]_heapVars

-----------------------------------------------------------------------------
Object == [start : Int, end : Int]
Disjoint(a, b) == a.end <= b.start \/ b.end <= a.start

\* No two objects share memory, and the user heap (which ends where the
\* padding begins) never meets the system heap.
ObjectsDisjoint ==
    /\ \A a, b \in userObjs : a = b \/ Disjoint(a, b)
    /\ \A a, b \in sysObjs : a = b \/ Disjoint(a, b)
    /\ \A a \in userObjs, b \in sysObjs : Disjoint(a, b)

\* Every object lies in mapped memory of its own region: no allocation hands
\* out addresses past the limit the Bump functions have mapped, or outside
\* the address space that was reserved.
ObjectsMapped ==
    /\ \A a \in userObjs : userLimit <= a.start /\ a.end <= UserTop
    /\ userLimit >= -VmBaseOffset
    /\ \A a \in sysObjs : VmSize <= a.start /\ a.end <= sysLimit
    /\ sysLimit <= Int32Max
=============================================================================
