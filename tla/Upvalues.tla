------------------------------ MODULE Upvalues ------------------------------
(***************************************************************************)
(* Captured variables at run time: the sorted list of open upvalues of a   *)
(* coroutine, closures that share them, UpvalueClose, returns, and the     *)
(* non-local return, which finds the frame to return from through the      *)
(* 'self' upvalues of the blocks.                                          *)
(*                                                                         *)
(* The bytecode obeys the compiler's rules: UpvalueClose from local 0 on   *)
(* precedes a return, and a block that can throw, or around one that can,  *)
(* captures 'self' mutably (ThrowChainSelfMutable of SomBlockCompiler).    *)
(* Captures by value (immutable upvalues) leave no trace in this state.    *)
(* A slot is an address: frame f owns slots Base(f) .. Base(f + 1) - 1,    *)
(* and its local 0 is 'self'.                                              *)
(***************************************************************************)
EXTENDS Integers, Sequences, FiniteSets, SequencesExt

CONSTANTS
    NumLocals,     \* slots of a frame
    MaxFrames,     \* bound: frames on the stack
    MaxClosures,   \* bound: closures created
    Values,        \* values of variables
    Nil            \* the value of a fresh local

ASSUME UpvaluesAssumption ==
    /\ NumLocals \in Nat \ {0} /\ MaxFrames \in Nat \ {0} /\ MaxClosures \in Nat
    /\ Nil \in Values

VARIABLES
    frames,        \* stack of frames: the closure a frame runs, 0 for a method
    stack,         \* slot -> value
    upvalues,      \* every Upvalue object
    upvalueList,   \* m_upvalueList of the coroutine: an upvalue, 0 if empty
    closures,      \* every block closure
    throwing       \* curHdr of a non-local return in progress, 0 if there is none

vars == <<frames, stack, upvalues, upvalueList, closures, throwing>>

Slots == 0..(MaxFrames * NumLocals - 1)
Base(f) == (f - 1) * NumLocals
FrameOf(a) == (a \div NumLocals) + 1
Depth == Len(frames)
InFrame(f) == Base(f)..(Base(f + 1) - 1)
UpvalueIds == 1..Len(upvalues)
ClosureIds == 1..Len(closures)

Init ==
    /\ frames = <<>> /\ upvalues = <<>> /\ closures = <<>>
    /\ upvalueList = 0 /\ throwing = 0
    /\ stack = [a \in Slots |-> Nil]

Running == throwing = 0 /\ Depth > 0

-----------------------------------------------------------------------------
\* The nodes of the list h.list in the order of the links m_prev, then 0.
Walk(h) ==
    LET node[n \in 1..(Len(h.uvs) + 1)] ==
            IF n = 1 THEN h.list
            ELSE LET before == node[n - 1] IN IF before = 0 THEN 0 ELSE h.uvs[before].prev
    IN  node
\* The position of the first node whose slot is not above a, or of the end.
Position(h, a) ==
    LET node == Walk(h)
        Stops(n) == node[n] = 0 \/ h.uvs[node[n]].ptr <= a
    IN  CHOOSE n \in DOMAIN node : Stops(n) /\ \A m \in 1..(n - 1) : ~Stops(m)

\* CreateUpvalueImpl: a new upvalue for slot dst, linked in before position i.
\* made collects the upvalues of the closure that is being created.
LinkAt(h, dst, i) ==
    LET node == Walk(h)
        id == Len(h.uvs) + 1
        uvs == Append(h.uvs, [ptr |-> dst, isClosed |-> FALSE, tv |-> Nil, prev |-> node[i]])
    IN  [uvs |-> IF i = 1 THEN uvs ELSE [uvs EXCEPT ![node[i - 1]].prev = id],
         list |-> IF i = 1 THEN id ELSE h.list,
         made |-> Append(h.made, id)]

\* Defect: the new upvalue becomes the head of the list.
CreateUpvalueAtHead(h, dst) ==
    LET i == Position(h, dst)
        u == Walk(h)[i]
    IN  IF u /= 0 /\ h.uvs[u].ptr = dst
        THEN [h EXCEPT !.made = Append(@, u)]
        ELSE LinkAt(h, dst, 1)
\* Upvalue::Create: the upvalue that is open for slot dst, or a new one, linked
\* in so that the list stays sorted from high slots to low ones.
CreateUpvalue(h, dst) ==
    LET i == Position(h, dst)
        u == Walk(h)[i]
    IN  IF u /= 0 /\ h.uvs[u].ptr = dst
        THEN [h EXCEPT !.made = Append(@, u)]
        ELSE LinkAt(h, dst, i)

\* Defect: the value is not copied out of the stack.
CloseWithoutValue(uv) == [uv EXCEPT !.isClosed = TRUE]
\* Upvalue::Close
Close(uv) == [uv EXCEPT !.tv = stack[uv.ptr], !.isClosed = TRUE]

Heap == [uvs |-> upvalues, list |-> upvalueList, made |-> <<>>]

\* The upvalues at the head of the list, up to the first whose slot is below base.
CloseFrom(base) ==
    LET node == Walk(Heap)
        stop == Position(Heap, base - 1)
        closing == {node[i] : i \in 1..(stop - 1)}
    IN  /\ upvalues' = [u \in UpvalueIds |-> IF u \in closing THEN Close(upvalues[u]) ELSE upvalues[u]]
        /\ upvalueList' = node[stop]

\* Defect: the upvalue of the slot base itself stays open.
CloseUpvaluesAbove(base) == CloseFrom(base + 1)
\* CoroutineRuntimeContext::CloseUpvalues
CloseUpvalues(base) == CloseFrom(base)

-----------------------------------------------------------------------------
\* A frame is set up: 'self' is v, the locals are nil (RangeFillNils).
Frame(f, v) == [a \in Slots |-> IF a = Base(f) THEN v
                                ELSE IF a \in InFrame(f) THEN Nil ELSE stack[a]]

\* History: the home of a closure is the frame of the method around it, 0 once
\* that frame is gone; homeSelf is the 'self' of that method.
Homes(k) == [c \in ClosureIds |-> [closures[c] EXCEPT !.home = IF @ > k THEN 0 ELSE @]]

\* A method is called on v; at depth 0 by the C++ side.
CallMethod(v) ==
    /\ throwing = 0 /\ Depth < MaxFrames
    /\ frames' = Append(frames, 0)
    /\ stack' = Frame(Depth + 1, v)
    /\ UNCHANGED <<upvalues, upvalueList, closures, throwing>>

Value(u) == IF upvalues[u].isClosed THEN upvalues[u].tv ELSE stack[upvalues[u].ptr]
CapturedSelf(c) == IF closures[c].self = 0 THEN closures[c].selfVal ELSE Value(closures[c].self)

\* Defect: the block runs with the 'self' of its caller.
CallBlockWithCallersSelf(c) ==
    /\ Running /\ Depth < MaxFrames
    /\ frames' = Append(frames, c)
    /\ stack' = Frame(Depth + 1, stack[Base(Depth)])
    /\ UNCHANGED <<upvalues, upvalueList, closures, throwing>>
\* Block c is called (any code may hold it) with the 'self' it captured.
CallBlock(c) ==
    /\ Running /\ Depth < MaxFrames
    /\ frames' = Append(frames, c)
    /\ stack' = Frame(Depth + 1, CapturedSelf(c))
    /\ UNCHANGED <<upvalues, upvalueList, closures, throwing>>

\* CreateAndFillUpvalues: a block that captures 'self', mutably or by value,
\* and one more variable: local l of the running function (if l > 0), or its
\* parent's upvalue.
NewClosure(selfMutable, l, fromParent) ==
    LET fn == Last(frames)
        h1 == IF selfMutable THEN CreateUpvalue(Heap, Base(Depth)) ELSE Heap
        h2 == IF l = 0 THEN h1 ELSE CreateUpvalue(h1, Base(Depth) + l)
    IN  /\ Running /\ Len(closures) < MaxClosures
        /\ (selfMutable /\ fn /= 0) => closures[fn].self /= 0
        /\ fromParent => l = 0 /\ fn /= 0 /\ closures[fn].uv /= 0
        /\ upvalues' = h2.uvs /\ upvalueList' = h2.list
        /\ closures' = Append(closures,
             [self |-> IF selfMutable THEN h2.made[1] ELSE 0,
              selfVal |-> IF selfMutable THEN Nil ELSE stack[Base(Depth)],
              uv |-> IF fromParent THEN closures[fn].uv ELSE IF l = 0 THEN 0 ELSE Last(h2.made),
              home |-> IF fn = 0 THEN Depth ELSE closures[fn].home,
              homeSelf |-> IF fn = 0 THEN stack[Base(Depth)] ELSE closures[fn].homeSelf])
        /\ UNCHANGED <<frames, stack, throwing>>

\* Mov to a local of the running function.
SetLocal(l, v) ==
    /\ Running
    /\ stack' = [stack EXCEPT ![Base(Depth) + l] = v]
    /\ UNCHANGED <<frames, upvalues, upvalueList, closures, throwing>>

\* UpvaluePut: through m_ptr, to the stack or into the closed upvalue.
UpvaluePut(v) ==
    /\ Running /\ Last(frames) /= 0
    /\ LET u == closures[Last(frames)].uv IN
       /\ u /= 0
       /\ \/ upvalues[u].isClosed /\ upvalues' = [upvalues EXCEPT ![u].tv = v] /\ UNCHANGED stack
          \/ ~upvalues[u].isClosed /\ stack' = [stack EXCEPT ![upvalues[u].ptr] = v] /\ UNCHANGED upvalues
    /\ UNCHANGED <<frames, upvalueList, closures, throwing>>

\* UpvalueClose at the end of an inlined block, whose locals start at l.
UpvalueClose(l) ==
    /\ Running
    /\ CloseUpvalues(Base(Depth) + l)
    /\ UNCHANGED <<frames, stack, closures, throwing>>

\* The bytecode Ret pops the frame and closes nothing itself.
Ret ==
    /\ frames' = Front(frames) /\ closures' = Homes(Depth - 1)
    /\ UNCHANGED <<stack, throwing>>

\* What CompileReturn emits: UpvalueClose from local 0 on, then Ret.  It leaves the
\* UpvalueClose out when no local is flagged as captured, where closing would find
\* nothing to close.  That the flags are right is a contract between compiler and
\* run time; ScopesClose of SomBlockCompiler shows a return for which they are not,
\* and what this module says of returns is said of returns that keep the contract.
CompiledReturn ==
    /\ Running
    /\ CloseUpvalues(Base(Depth))
    /\ Ret

-----------------------------------------------------------------------------
\* SOMThrow in a block: DeegenInternal_ThrowTValueErrorImpl begins its walk.
Throw ==
    /\ Running /\ Last(frames) /= 0 /\ closures[Last(frames)].self /= 0
    /\ throwing' = Depth
    /\ UNCHANGED <<frames, stack, upvalues, upvalueList, closures>>

SelfUpvalue(f) == upvalues[closures[frames[f]].self]

\* Defect: the walk follows the callers, not the creators.
WalkToCaller ==
    /\ throwing /= 0 /\ frames[throwing] /= 0
    /\ ~SelfUpvalue(throwing).isClosed
    /\ throwing' = throwing - 1
    /\ UNCHANGED <<frames, stack, upvalues, upvalueList, closures>>
\* The 'self' upvalue of the block of frame curHdr is open: it points to local 0
\* of the frame that created the block.
WalkToCreator ==
    /\ throwing /= 0 /\ frames[throwing] /= 0
    /\ ~SelfUpvalue(throwing).isClosed
    /\ throwing' = FrameOf(SelfUpvalue(throwing).ptr)
    /\ UNCHANGED <<frames, stack, upvalues, upvalueList, closures>>

\* The walk has reached a method: close its upvalues and return v from it.
ReturnFromHome(v) ==
    /\ throwing /= 0 /\ frames[throwing] = 0
    /\ CloseUpvalues(Base(throwing))
    /\ frames' = SubSeq(frames, 1, throwing - 1) /\ closures' = Homes(throwing - 1)
    /\ stack' = [stack EXCEPT ![Base(throwing)] = v]
    /\ throwing' = 0

\* The 'self' upvalue is closed: the frame of the throwing block is handed to
\* the escapedBlock method of its 'self', which returns for it.
EscapedBlock ==
    /\ throwing /= 0 /\ frames[throwing] /= 0
    /\ SelfUpvalue(throwing).isClosed
    /\ CloseUpvalues(Base(Depth))
    /\ stack' = Frame(Depth, CapturedSelf(frames[Depth]))
    /\ frames' = [frames EXCEPT ![Depth] = 0]
    /\ throwing' = 0
    /\ UNCHANGED closures

Next ==
    \/ \E v \in Values : CallMethod(v)
    \/ \E c \in ClosureIds : CallBlock(c)
    \/ \E selfMutable, fromParent \in BOOLEAN, l \in 0..(NumLocals - 1) :
          NewClosure(selfMutable, l, fromParent)
    \/ \E l \in 1..(NumLocals - 1), v \in Values : SetLocal(l, v)
    \/ \E v \in Values : UpvaluePut(v)
    \/ \E l \in 1..(NumLocals - 1) : UpvalueClose(l)
    \/ CompiledReturn
    \/ Throw
    \/ WalkToCreator
    \/ \E v \in Values : ReturnFromHome(v)
    \/ EscapedBlock

Spec == Init /\ [][Next]_vars

-----------------------------------------------------------------------------
OpenUpvalues == {u \in UpvalueIds : ~upvalues[u].isClosed}
OpenList == Walk(Heap)

\* The type of the state, and what the list is: the open upvalues, each once,
\* sorted strictly from high slots to low ones (the Asserts of Upvalue::Create
\* and CloseUpvalues), then its end.  So there is one upvalue per captured slot.
OpenListExact ==
    /\ upvalueList \in UpvalueIds \union {0}
    /\ \A u \in UpvalueIds : upvalues[u].prev \in UpvalueIds \union {0}
    /\ ToSet(OpenList) = OpenUpvalues \union {0}
    /\ \A i \in UpvalueIds : OpenList[i + 1] /= 0 =>
         upvalues[OpenList[i]].ptr > upvalues[OpenList[i + 1]].ptr

\* An open upvalue points into a frame that is on the stack: neither a return that
\* keeps the contract of CompileReturn nor a non-local one leaves one behind.
OpenInLiveFrame == \A u \in OpenUpvalues : FrameOf(upvalues[u].ptr) <= Depth

\* The walk of a non-local return only ends at a method if that method is the
\* one, in the very activation, around the throwing block.
ReturnsFromOwnHome ==
    throwing /= 0 /\ frames[throwing] = 0 => throwing = closures[Last(frames)].home

\* A block always runs with the 'self' of the method around it, through any
\* number of blocks and after any of their frames is gone.
SelfIsHomeSelf ==
    \A f \in 1..Depth : frames[f] /= 0 => stack[Base(f)] = closures[frames[f]].homeSelf

\* "The method that eventually created the throwing block is no longer on the
\* stack" where the escapedBlock handler is called.
EscapedOnlyIfHomeGone ==
    throwing /= 0 /\ frames[throwing] /= 0 /\ SelfUpvalue(throwing).isClosed
        => closures[Last(frames)].home = 0

\* Captured variables behave like boxes: the open upvalue of a slot is its box,
\* whose value is on the stack until the upvalue is closed.
SlotContents(a) ==
    LET box == {u \in OpenUpvalues : upvalues[u].ptr = a}
    IN  IF a >= Base(Depth + 1) THEN [box |-> 0, val |-> Nil]
        ELSE IF box = {} THEN [box |-> 0, val |-> stack[a]]
        ELSE [box |-> CHOOSE u \in box : TRUE, val |-> Nil]
Boxes == INSTANCE BoxedVariables WITH
    depth <- Depth,
    slots <- [a \in Slots |-> SlotContents(a)],
    boxes <- [u \in UpvalueIds |-> Value(u)],
    captures <- [c \in ClosureIds |-> {closures[c].self, closures[c].uv} \ {0}]
BoxesSpec == Boxes!Spec
=============================================================================
