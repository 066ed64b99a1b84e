------------------------------ MODULE SpdsPages ------------------------------
(***************************************************************************)
(* What the SPDS page allocator promises its clients, each call taken as   *)
(* one step: a page that is handed out was free, a page that is given back *)
(* was held by the thread that gives it, and no page is ever lost.         *)
(***************************************************************************)
CONSTANTS Threads

VARIABLES
    mapped,   \* pages of the SPDS region that have been mmap-ed
    free,     \* pages on the free list
    held      \* per thread: pages it has taken and not given back

Init == mapped = {} /\ free = {} /\ held = [t \in Threads |-> {}]

\* A page of the free list is handed out.
Take ==
    LET taken == free \ free' IN
    /\ \E p \in taken : taken = {p}
    /\ free' = free \ taken
    /\ \E t \in Threads : held' = [held EXCEPT ![t] = @ \cup taken]
    /\ UNCHANGED mapped

\* New pages are mapped for a thread that found the free list empty.
Grow ==
    LET new == mapped' \ mapped IN
    /\ new # {} /\ mapped \subseteq mapped'
    /\ UNCHANGED free
    /\ \E t \in Threads : held' = [held EXCEPT ![t] = @ \cup new]

\* Pages go (back) to the free list, all of them at once.
Give ==
    LET back == free' \ free IN
    /\ back # {} /\ free \subseteq free'
    /\ \E t \in Threads : back \subseteq held[t] /\ held' = [held EXCEPT ![t] = @ \ back]
    /\ UNCHANGED mapped

Next == Take \/ Grow \/ Give

Spec == Init /\ [][Next]_<<mapped, free, held>>
=============================================================================
