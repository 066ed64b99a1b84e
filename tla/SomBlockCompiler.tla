-------------------------- MODULE SomBlockCompiler --------------------------
(***************************************************************************)
(* How the SOM compiler translates the scopes of one method: which locals  *)
(* blocks capture, which captures are by value, which blocks can throw,    *)
(* and where UpvalueClose is emitted.  The method is arbitrary: its syntax *)
(* tree is chosen node by node, in the order in which the compiler visits  *)
(* it.  A block whose code is inlined (ifTrue:, whileTrue:, to:do: ...)    *)
(* has a BlockTranslationContext but no function of its own.               *)
(*                                                                         *)
(* History variables record what the emitted code does when it runs: the   *)
(* variables that a closure created by now shares through an upvalue       *)
(* object, and the upvalue objects that outlive their scope.               *)
(***************************************************************************)
EXTENDS Integers, Sequences, FiniteSets, SequencesExt

CONSTANTS
    MaxDepth,   \* bound: contexts nested in each other
    MaxVars     \* bound: locals declared in a method

ASSUME CompilerBounds == MaxDepth \in Nat \ {0} /\ MaxVars \in Nat

VARIABLES
    ctxs,        \* stack of BlockTranslationContexts, the method's first
    vars,        \* every LocalVarInfo of the method
    blocks,      \* history: every translated block that is not inlined
    retLeaks,    \* history: variables still shared with closures at a Ret without
                 \* UpvalueClose, and whether the returning context defines them
    scopeLeaks,  \* history: locals still shared at the end of their inlined block
    done         \* CompileMethod has finalised the upvalue metadata

state == <<ctxs, vars, blocks, retLeaks, scopeLeaks, done>>

Depths == 1..Len(ctxs)
VarIds == 1..Len(vars)
Self == 0                   \* 'self', which is not in the variable map
Top == Len(ctxs)

\* m_owningContext: the function into which the context at depth d is compiled.
OwningContext(d) == CHOOSE o \in 1..d : ~ctxs[o].inlined /\ \A k \in (o + 1)..d : ctxs[k].inlined
\* m_trueParent of the function at depth o; 0 is nullptr.
TrueParent(o) == IF o = 1 THEN 0 ELSE OwningContext(o - 1)

IsTopLevelMethod(d) == d = 1
IsInlinedIntoTopLevelMethod(d) == OwningContext(d) = 1

\* The locals a name can resolve to: those still installed.
Visible == {v \in VarIds : vars[v].live}
\* ResolveVariable: v is a local of the function being compiled.
IsLocal(v) == OwningContext(vars[v].ctx) = OwningContext(Top)

NewContext(inlined) ==
    [inlined |-> inlined, hasCapturedLocal |-> FALSE, containsThrowableBlocks |-> FALSE,
     blockMayThrow |-> FALSE, uvs |-> {}, store |-> 0, dest |-> 0, last |-> FALSE,
     selfShared |-> FALSE, throwsInside |-> FALSE]
NewVar(d) ==
    [ctx |-> d, live |-> TRUE, used |-> FALSE, immutable |-> TRUE,
     captured |-> FALSE, shared |-> FALSE, writtenAfterCapture |-> FALSE]

\* InstallLocalVariables, for a block with n parameters and locals.
Install(vs, d, n) == vs \o [i \in 1..n |-> NewVar(d)]
\* UninstallLocalVariables of the innermost context.
Uninstall(vs) == [v \in DOMAIN vs |-> IF vs[v].ctx = Top THEN [vs[v] EXCEPT !.live = FALSE] ELSE vs[v]]

\* CompileMethod
Init ==
    /\ ctxs = <<NewContext(FALSE)>>
    /\ \E n \in 0..MaxVars : vars = [i \in 1..n |-> NewVar(1)]
    /\ blocks = {} /\ retLeaks = {} /\ scopeLeaks = {}
    /\ done = FALSE

\* Defect: only the innermost function gets the upvalue.
AddUpvalueNotInParents(v, cs) ==
    [d \in DOMAIN cs |->
        [cs[d] EXCEPT !.hasCapturedLocal = @ \/ d = vars[v].ctx,
                      !.uvs = IF d = OwningContext(Top) THEN @ \union {v} ELSE @]]
\* AddUpvalue: every function between the use and the definition of v gets an
\* upvalue for it.
AddUpvalue(v, cs) ==
    [d \in DOMAIN cs |->
        [cs[d] EXCEPT !.hasCapturedLocal = @ \/ d = vars[v].ctx,
                      !.uvs = IF ~cs[d].inlined /\ d > OwningContext(vars[v].ctx)
                              THEN @ \union {v} ELSE @]]

Resolve(v) == ctxs' = IF IsLocal(v) THEN ctxs ELSE AddUpvalue(v, ctxs)

NotifyUse(v) == [vars EXCEPT ![v].used = TRUE]
\* A write in the innermost context.
NotifyWrite(v) ==
    [vars EXCEPT ![v].immutable = @ /\ ~vars[v].used /\ vars[v].ctx = Top]

\* The emitted code stores to v.
Stored(vs, v) == [vs EXCEPT ![v].writtenAfterCapture = @ \/ vs[v].captured]

CanCompile == ~done

\* CompileVarUse: a read of local v, directly or through an upvalue.
CompileVarUse(v) ==
    /\ CanCompile /\ v \in Visible
    /\ vars' = NotifyUse(v)
    /\ Resolve(v)
    /\ UNCHANGED <<blocks, retLeaks, scopeLeaks, done>>

\* CompileAssignation: the right side is compiled before the left side is
\* resolved.  The only form in the last expression of an inlined block, and the
\* one used when the left side is not a local of this function.
CompileAssignation(v) ==
    /\ CanCompile /\ v \in Visible
    /\ vars' = Stored(NotifyWrite(v), v)
    /\ Resolve(v)
    /\ UNCHANGED <<blocks, retLeaks, scopeLeaks, done>>

\* CompileTopLevelAssignation to a local: the left side is resolved first, and
\* the right side is compiled into its slot ...
CompileTopLevelAssignation(v) ==
    /\ CanCompile /\ v \in Visible /\ IsLocal(v)
    /\ ctxs[Top].store = 0 /\ ~ctxs[Top].last
    /\ vars' = NotifyWrite(v)
    /\ ctxs' = [ctxs EXCEPT ![Top].store = v]
    /\ UNCHANGED <<blocks, retLeaks, scopeLeaks, done>>

\* ... which is stored to when the right side has been evaluated.
FinishTopLevelAssignation ==
    /\ CanCompile /\ ctxs[Top].store /= 0
    /\ vars' = Stored(vars, ctxs[Top].store)
    /\ ctxs' = [ctxs EXCEPT ![Top].store = 0]
    /\ UNCHANGED <<blocks, retLeaks, scopeLeaks, done>>

CanNest(n) == CanCompile /\ Len(ctxs) < MaxDepth /\ Len(vars) + n <= MaxVars

\* InlineBlock and CompileNewBlock, up to the body: n parameters and locals.
EnterBlock(inlined, n) ==
    /\ CanNest(n)
    /\ ctxs' = Append(ctxs, NewContext(inlined))
    /\ vars' = Install(vars, Len(ctxs) + 1, n)
    /\ UNCHANGED <<blocks, retLeaks, scopeLeaks, done>>

\* CompileTopLevelAssignation whose right side is a block: NewClosure writes
\* the closure to the slot of v, and captures the closure itself for v.
AssignBlock(v, n) ==
    /\ CanNest(n) /\ v \in Visible /\ IsLocal(v)
    /\ ctxs[Top].store = 0 /\ ~ctxs[Top].last
    /\ ctxs' = Append(ctxs, [NewContext(FALSE) EXCEPT !.dest = v])
    /\ vars' = Install(NotifyWrite(v), Len(ctxs) + 1, n)
    /\ UNCHANGED <<blocks, retLeaks, scopeLeaks, done>>

\* Defect: the 'self' that throwing blocks hold on to is not closed.
MustEmitUpvalueCloseIfCaptured(c) == c.hasCapturedLocal
MustEmitUpvalueCloseBeforeReturn(c) == c.hasCapturedLocal \/ c.containsThrowableBlocks

MustMutablyCaptureSelf(c) == c.containsThrowableBlocks \/ c.blockMayThrow

\* Locals of the function at depth o that closures created so far share with it.
OpenLocals(o) == {v \in Visible : vars[v].shared /\ OwningContext(vars[v].ctx) = o}

\* CompileReturn, after its operand: UpvalueClose from local 0 on if the flags
\* of the innermost context, as known at this point, ask for it; then Ret.
Returning ==
    IF MustEmitUpvalueCloseBeforeReturn(ctxs[Top])
    THEN UNCHANGED retLeaks
    ELSE LET o == OwningContext(Top)
             open == OpenLocals(o) \union (IF ctxs[o].selfShared THEN {Self} ELSE {})
             Own(v) == IF v = Self THEN o = Top ELSE vars[v].ctx = Top
         IN  retLeaks' = retLeaks \union {[var |-> v, own |-> Own(v)] : v \in open}

\* Defect: what an inlined block may throw is forgotten.
PropagateNotInlined(c, d, cs) ==
    [cs EXCEPT ![d].containsThrowableBlocks = @ \/ (~c.inlined /\ MustMutablyCaptureSelf(c))]
\* The end of InlineBlock and of CompileNewBlock: context c was nested in the one at d.
Propagate(c, d, cs) == [cs EXCEPT ![d].containsThrowableBlocks = @ \/ c.blockMayThrow \/ c.containsThrowableBlocks]

LeaveInlined(cs) == ctxs' = Propagate(Last(cs), Top - 1, Front(cs))

\* The end of CompileNewBlock: NewClosure creates an upvalue object for every
\* captured local of the creating function (also for its 'self' if that is
\* captured mutably), and passes on the upvalues that function has itself.
LeaveBlock(cs0) ==
    LET c == Last(cs0)
        o == OwningContext(Top - 1)
        selfMutable == MustMutablyCaptureSelf(c)
        cs == Propagate(c, Top - 1, Front(cs0))
        parentLocal == {v \in c.uvs : OwningContext(vars[v].ctx) = o}
        stored == IF c.dest = 0 THEN vars ELSE Stored(vars, c.dest)
    IN  /\ ctxs' = [cs EXCEPT ![o].selfShared = @ \/ selfMutable]
        /\ vars' = [v \in VarIds |->
                      [Uninstall(stored)[v] EXCEPT !.captured = @ \/ v \in c.uvs,
                                                 !.shared = @ \/ v \in parentLocal]]
        /\ blocks' = blocks \union
             {[selfMutable |-> selfMutable, throwsInside |-> c.throwsInside,
               missingUvs |-> (c.uvs \ parentLocal) \ ctxs[o].uvs]}

NoStore == ctxs[Top].store = 0

\* '^ expr' in a block inlined into the method: a return of the method.
ReturnFromInlinedBlock ==
    /\ CanCompile /\ Top > 1 /\ NoStore /\ ~ctxs[Top].last
    /\ ctxs[Top].inlined /\ IsInlinedIntoTopLevelMethod(Top)
    /\ Returning
    /\ LeaveInlined(ctxs)
    /\ vars' = Uninstall(vars)
    /\ UNCHANGED <<blocks, scopeLeaks, done>>

\* CompileThrow.  A non-local return runs through the 'self' upvalues of the
\* function that throws and of all blocks around it.
Throwing(cs) ==
    [d \in DOMAIN cs |-> [cs[d] EXCEPT !.blockMayThrow = @ \/ d = Len(cs), !.throwsInside = TRUE]]

\* '^ expr' in any other block.
ThrowFromInlinedBlock ==
    /\ CanCompile /\ Top > 1 /\ NoStore /\ ~ctxs[Top].last
    /\ ctxs[Top].inlined /\ ~IsInlinedIntoTopLevelMethod(Top)
    /\ LeaveInlined(Throwing(ctxs))
    /\ vars' = Uninstall(vars)
    /\ UNCHANGED <<blocks, retLeaks, scopeLeaks, done>>

ThrowFromBlock ==
    /\ CanCompile /\ Top > 1 /\ NoStore
    /\ ~ctxs[Top].inlined
    /\ LeaveBlock(Throwing(ctxs))
    /\ UNCHANGED <<retLeaks, scopeLeaks, done>>

\* The last expression of a block is its value.  In an inlined block
\* UpvalueClose comes before it ...
BeginLastOfInlinedBlock ==
    /\ CanCompile /\ Top > 1 /\ NoStore /\ ctxs[Top].inlined /\ ~ctxs[Top].last
    /\ ctxs' = [ctxs EXCEPT ![Top].last = TRUE]
    /\ vars' = IF MustEmitUpvalueCloseBeforeReturn(ctxs[Top])
               THEN [v \in VarIds |-> [vars[v] EXCEPT !.shared = @ /\ vars[v].ctx /= Top]]
               ELSE vars
    /\ UNCHANGED <<blocks, retLeaks, scopeLeaks, done>>

\* ... and nothing after it.
EndInlinedBlock ==
    /\ CanCompile /\ Top > 1 /\ ctxs[Top].last
    /\ scopeLeaks' = scopeLeaks \union {v \in Visible : vars[v].ctx = Top /\ vars[v].shared}
    /\ LeaveInlined(ctxs)
    /\ vars' = Uninstall(vars)
    /\ UNCHANGED <<blocks, retLeaks, done>>

\* A block that is not inlined returns the value of its last expression.
EndBlock ==
    /\ CanCompile /\ Top > 1 /\ NoStore /\ ~ctxs[Top].inlined
    /\ Returning
    /\ LeaveBlock(ctxs)
    /\ UNCHANGED <<scopeLeaks, done>>

\* The end of the method: '^ expr' or an implicit return of 'self'; then
\* CompileMethod fills in the upvalue metadata of all functions.
EndMethod ==
    /\ CanCompile /\ Top = 1 /\ NoStore
    /\ Returning
    /\ done' = TRUE
    /\ UNCHANGED <<ctxs, vars, blocks, scopeLeaks>>

\* The next method of the class.
NextMethod ==
    /\ done
    /\ ctxs' = <<NewContext(FALSE)>>
    /\ \E n \in 0..MaxVars : vars' = [i \in 1..n |-> NewVar(1)]
    /\ blocks' = {} /\ retLeaks' = {} /\ scopeLeaks' = {}
    /\ done' = FALSE

Next ==
    \/ \E v \in VarIds : CompileVarUse(v)
    \/ \E v \in VarIds : CompileAssignation(v)
    \/ \E v \in VarIds : CompileTopLevelAssignation(v)
    \/ FinishTopLevelAssignation
    \/ \E inlined \in BOOLEAN, n \in 0..MaxVars : EnterBlock(inlined, n)
    \/ \E v \in VarIds, n \in 0..MaxVars : AssignBlock(v, n)
    \/ ReturnFromInlinedBlock
    \/ ThrowFromInlinedBlock
    \/ ThrowFromBlock
    \/ BeginLastOfInlinedBlock
    \/ EndInlinedBlock
    \/ EndBlock
    \/ EndMethod
    \/ NextMethod

Spec == Init /\ [][Next]_state

-----------------------------------------------------------------------------
\* DeegenInternal_ThrowTValueErrorImpl reads upvalue 0 of the throwing block and
\* of every block around it as an upvalue object: all of them capture 'self'
\* mutably, however the throw is nested in inlined blocks.
ThrowChainSelfMutable == \A b \in blocks : b.throwsInside => b.selfMutable

\* An upvalue that a block takes from the function that creates it is one that
\* function has: CreateAndFillUpvalues reads it from the parent's upvalues.  The
\* method and the inlined blocks have none (the TestAsserts at the end of
\* CompileMethod and InlineBlock).
ParentHasUpvalue ==
    /\ \A b \in blocks : b.missingUvs = {}
    /\ \A d \in Depths : d = 1 \/ ctxs[d].inlined => ctxs[d].uvs = {}

\* A return compiled in a function's own context, not in an inlined block,
\* leaves no variable of that context, and not 'self', in an open upvalue.
OwnReturnCloses ==
    done => \A l \in retLeaks : l.own => l.var /= Self /\ vars[l.var].immutable

\* "If this or m_hasCapturedLocal is true, the block must create UpvalueClose
\* before it returns": no return of a function leaves one of its variables, or
\* its 'self', in an open upvalue, and neither does the end of an inlined block,
\* whose slots are reused.
ScopesClose ==
    done => /\ \A l \in retLeaks : l.var /= Self /\ vars[l.var].immutable
            /\ \A v \in scopeLeaks : vars[v].immutable

\* "If all writes to the variable happens before all uses to the variable, and
\* all writes are in the block where it is defined, it can be treated as
\* immutable for upvalue purpose": what is captured by value is not written
\* after its capture.
ImmutableIsFinal == done => \A v \in VarIds : vars[v].immutable => ~vars[v].writtenAfterCapture
=============================================================================
