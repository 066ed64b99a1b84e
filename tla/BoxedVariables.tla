--------------------------- MODULE BoxedVariables ---------------------------
(***************************************************************************)
(* What closures promise about the variables they capture: a captured      *)
(* variable lives in a box that its frame and all closures over it share,  *)
(* for as long as any of them exists.  A slot of the stack holds a value   *)
(* of its own, or refers to a box.                                         *)
(***************************************************************************)
EXTENDS Integers, Sequences

CONSTANTS NumLocals, MaxFrames, Values, Nil

VARIABLES
    depth,      \* number of frames on the stack
    slots,      \* slot -> [box, val]: a box, or 0 and a value
    boxes,      \* value of every box
    captures    \* for every closure, the boxes it refers to (0: none)

vars == <<depth, slots, boxes, captures>>

Slots == 0..(MaxFrames * NumLocals - 1)
Base(f) == (f - 1) * NumLocals
Plain(v) == [box |-> 0, val |-> v]
Boxed(b) == [box |-> b, val |-> Nil]
TopSlots == Base(depth)..(Base(depth + 1) - 1)

Init ==
    /\ depth = 0 /\ boxes = <<>> /\ captures = <<>>
    /\ slots = [a \in Slots |-> Plain(Nil)]

\* A frame is entered: fresh variables, the first of which is 'self'.
Enter(v) ==
    /\ depth < MaxFrames
    /\ depth' = depth + 1
    /\ slots' = [slots EXCEPT ![Base(depth + 1)] = Plain(v)]
    /\ UNCHANGED <<boxes, captures>>

\* The frames above k are left.
Leave(k) ==
    /\ k < depth
    /\ depth' = k
    /\ LET s == slots IN
       slots' = [a \in Slots |-> IF a >= Base(k + 1) THEN Plain(Nil) ELSE s[a]]
    /\ UNCHANGED <<boxes, captures>>

\* The top frame is left and another one is entered in its place.
Reenter(v) ==
    /\ depth > 0
    /\ UNCHANGED <<depth, boxes, captures>>
    /\ LET s == slots IN
       slots' = [a \in Slots |-> IF a = Base(depth) THEN Plain(v)
                                 ELSE IF a > Base(depth) THEN Plain(Nil) ELSE s[a]]

\* A closure is created over slots As of the top frame and over the boxes Bs.
\* Slots that have no box yet get one, with the value they hold.
Capture(As, Bs) ==
    LET new == {a \in As : slots[a].box = 0} IN
    \E order \in [1..Len(boxes') - Len(boxes) -> new] :
        /\ \A a \in new : \E i \in DOMAIN order : order[i] = a
        /\ \A i, j \in DOMAIN order : order[i] = order[j] => i = j
        /\ boxes' = boxes \o [i \in DOMAIN order |-> slots[order[i]].val]
        /\ slots' = [a \in Slots |-> IF a \in new
                                     THEN Boxed(Len(boxes) + CHOOSE i \in DOMAIN order : order[i] = a)
                                     ELSE slots[a]]
        /\ captures' = Append(captures, {slots'[a].box : a \in As} \union Bs)
        /\ UNCHANGED depth

Create ==
    /\ depth > 0
    /\ Len(captures') = Len(captures) + 1
    /\ \E As \in SUBSET TopSlots, Bs \in SUBSET DOMAIN boxes : Capture(As, Bs)

\* The variable in slot a of the top frame, or in box b, is assigned.
PutSlot(a, v) ==
    /\ UNCHANGED <<depth, captures>>
    /\ LET box == slots[a].box IN
       \/ box = 0 /\ slots' = [slots EXCEPT ![a] = Plain(v)] /\ UNCHANGED boxes
       \/ box /= 0 /\ boxes' = [boxes EXCEPT ![box] = v] /\ UNCHANGED slots

PutBox(b, v) ==
    /\ UNCHANGED <<depth, slots, captures>>
    /\ boxes' = [boxes EXCEPT ![b] = v]

\* A scope ends: the slots from a on no longer belong to the captured variables.
EndScope(a) ==
    /\ UNCHANGED <<depth, boxes, captures>>
    /\ LET s == slots
           read(x) == IF s[x].box = 0 THEN s[x].val ELSE boxes[s[x].box]
       IN  slots' = [x \in Slots |-> IF x \in TopSlots /\ x >= a THEN Plain(read(x)) ELSE s[x]]

Next ==
    \/ \E v \in Values : Enter(v)
    \/ \E k \in 0..(depth - 1) : Leave(k)
    \/ \E v \in Values : Reenter(v)
    \/ Create
    \/ depth > 0 /\ \E a \in TopSlots, v \in Values : PutSlot(a, v)
    \/ \E b \in DOMAIN boxes, v \in Values : PutBox(b, v)
    \/ depth > 0 /\ \E a \in TopSlots : EndScope(a)

Spec == Init /\ [][Next]_vars
=============================================================================
