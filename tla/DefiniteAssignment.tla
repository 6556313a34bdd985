------------------------- MODULE DefiniteAssignment -------------------------
(***************************************************************************)
(* The definite-assignment and return-path analysis of the semantic        *)
(* analyzer (src/frontend/semantic.cpp): analyzeFunction and analyzeStmt   *)
(* walk the statements of a function body in source order and maintain     *)
(*                                                                         *)
(*   definiteAssign    the bindings whose every element is assigned        *)
(*                     (definiteAssign_),                                  *)
(*   arrayElemAssign   the elements marked in the per-array masks          *)
(*                     (arrayElemAssign_; an absent mask and an all-zero   *)
(*                     one are indistinguishable to every reader),         *)
(*   scope             the bindings of all open scopes                     *)
(*                     (the union of scopeBindingIds_),                    *)
(*   nextBindingId     nextBindingId_,                                     *)
(*   frames, depth     the C++ activation records of analyzeStmt: which    *)
(*                     part of which statement is being analyzed and the   *)
(*                     snapshots it holds (beforeIf, afterThen, saved,     *)
(*                     afterInit),                                         *)
(*   rejected          some diagnostic has been reported.                  *)
(*                                                                         *)
(* Every action is one statement, or one boundary inside a compound        *)
(* statement, so a behaviour is the analysis of one program, and Next      *)
(* ranges over all programs within the bounds.  Beside the walk runs ONE   *)
(* execution of the program being analyzed (ghost state):                  *)
(*                                                                         *)
(*   mem    the elements that execution has stored so far,                 *)
(*   exec   where it is: "here", at the point the analyzer has reached;    *)
(*          parked at a later point the analyzer has not reached (the      *)
(*          else arm, the join after an if, the exit of a loop, the step   *)
(*          of a for); running a for step it entered by continue; or gone  *)
(*          (it returned, or it took a back edge).                         *)
(*                                                                         *)
(* A loop is analyzed once but runs many times.  The iteration followed is *)
(* arbitrary: on entering a loop, mem becomes any superset that the        *)
(* earlier iterations may have left (stores never undo stores), and an     *)
(* execution that takes the back edge is gone, because its next iteration  *)
(* is one of those already covered.                                        *)
(***************************************************************************)
EXTENDS Naturals

CONSTANTS
  MaxBinding,   \* bound: bindings declared by one function
  MaxDepth,     \* bound: statements nested in one another
  Elem,         \* the element positions of a binding
  Slice         \* the element sets that constant index prefixes can select

ASSUME MaxBindingAssumption == MaxBinding \in Nat
ASSUME MaxDepthAssumption == MaxDepth \in Nat \ {0}
ASSUME ElemAssumption == Elem # {}
ASSUME SliceAssumption == Slice \subseteq SUBSET Elem

VARIABLES
  definiteAssign, arrayElemAssign, scope, arrays, nextBindingId,
  frames, depth, rejected,
  mem, exec, uninitRead

analyzer == <<definiteAssign, arrayElemAssign, scope, arrays, nextBindingId,
              frames, depth, rejected>>
ghost == <<mem, exec, uninitRead>>
vars == <<analyzer, ghost>>

Binding == 1 .. MaxBinding

\* A set of elements for every binding: the masks, or what has been stored.
Elements == [Binding -> SUBSET Elem]
NoElements == [b \in Binding |-> {}]

-----------------------------------------------------------------------------
(* Activation records of analyzeStmt.                                      *)

\* The parts of a statement at which the next child statement is analyzed.
BodySlot == {"block", "then", "else", "whileBody", "forBody"}
Slot == BodySlot \cup {"forInit", "forStep"}

\* The single child of that part has been analyzed.
EndOf(part) ==
  CASE part = "block" -> "block"
    [] part = "then" -> "thenEnd"
    [] part = "else" -> "elseEnd"
    [] part = "whileBody" -> "whileBodyEnd"
    [] part = "forInit" -> "forInitEnd"
    [] part = "forBody" -> "forBodyEnd"
    [] part = "forStep" -> "forStepEnd"

Phase == Slot \cup {"none", "thenEnd", "elseEnd", "whileCond", "whileBodyEnd",
                    "forInitEnd", "forCond", "forBodyEnd", "forStepEnd"}

Frame ==
  [at: Phase,                    \* the part being analyzed
   outer: SUBSET Binding,        \* the bindings visible when a scope was pushed
   before: SUBSET Binding,       \* beforeIf, saved, afterInit
   beforeArrays: Elements,
   afterThen: SUBSET Binding,
   afterThenArrays: Elements,
   thenReturns: BOOLEAN,
   returns: BOOLEAN]             \* a child analyzed here definitely returns

NoFrame ==
  [at |-> "none", outer |-> {}, before |-> {}, beforeArrays |-> NoElements,
   afterThen |-> {}, afterThenArrays |-> NoElements,
   thenReturns |-> FALSE, returns |-> FALSE]

top == frames[depth]

\* A new activation that snapshots the analyzer's state.
Activation(at) ==
  [NoFrame EXCEPT !.at = at, !.outer = scope,
                  !.before = definiteAssign, !.beforeArrays = arrayElemAssign]

\* What a frame becomes when a child statement of it has been analyzed: a
\* block goes on (and returns if any child does), any other part is over.
Completed(f, childReturns) ==
  [f EXCEPT !.at = EndOf(f.at), !.returns = f.returns \/ childReturns]

Push(f) ==
  /\ depth < MaxDepth
  /\ depth' = depth + 1
  /\ frames' = [frames EXCEPT ![depth + 1] = f]

PopInto(childReturns) ==
  /\ depth' = depth - 1
  /\ frames' = [frames EXCEPT ![depth] = NoFrame,
                              ![depth - 1] = Completed(frames[depth - 1],
                                                       childReturns)]

Rephase(f) ==
  /\ frames' = [frames EXCEPT ![depth] = f]
  /\ UNCHANGED depth

\* A statement without child statements.
CompleteStmt(childReturns) ==
  Rephase(Completed(top, childReturns))

StmtAllowed(slots) == depth > 0 /\ top.at \in slots

-----------------------------------------------------------------------------
(* The ghost execution.                                                    *)

Here == [at |-> "here", depth |-> 0]
Gone == [at |-> "gone", depth |-> 0]
InStepAfterContinue == [at |-> "continued", depth |-> 0]
Parked(place, d) == [at |-> place, depth |-> d]

Exec == {Here, Gone, InStepAfterContinue}
          \cup {Parked(p, d) : p \in {"else", "join", "exit", "step"},
                               d \in 1 .. MaxDepth}

Running == exec \in {Here, InStepAfterContinue}

\* The execution stores elements of b, if it runs this statement.
Store(b, elems) ==
  mem' = IF Running THEN [mem EXCEPT ![b] = @ \cup elems] ELSE mem

\* A program with a diagnostic is never run.
Report(bad) ==
  /\ rejected' = (rejected \/ bad)
  /\ exec' = IF rejected \/ bad THEN Gone ELSE exec

\* The loops around the current statement (loopDepth_ counts them).
EnclosingLoops == {d \in 1 .. depth : frames[d].at \in {"whileBody", "forBody"}}

-----------------------------------------------------------------------------
(* Reading: what the analyzer requires of a place before it is loaded.     *)

requireReadableLocal(b) ==
  \/ b \in definiteAssign
  \/ b \in arrays /\ arrayElemAssign[b] = Elem

requireIndexedScalarReadable(b, k) ==
  \/ b \in definiteAssign
  \/ k \in arrayElemAssign[b]

requireSubArraySliceReadable(b, s) ==
  \/ b \in definiteAssign
  \/ s \subseteq arrayElemAssign[b]

\* Loading elements of b in an expression: a refused load is a diagnostic, an
\* accepted one that the execution runs before the store is remembered.
Load(accepted, b, elems) ==
  /\ \/ StmtAllowed(Slot)
     \/ StmtAllowed({"whileCond", "forCond"})
  /\ Report(~accepted)
  /\ uninitRead' = IF accepted /\ Running /\ ~(elems \subseteq mem[b])
                     THEN uninitRead \cup {exec.at} ELSE uninitRead
  /\ UNCHANGED <<definiteAssign, arrayElemAssign, scope, arrays, nextBindingId,
                 frames, depth, mem>>

\* A bare name: a scalar, a whole array, or the operand of &.
ReadName(b) ==
  /\ b \in scope
  /\ Load(requireReadableLocal(b), b, Elem)

\* a[k] with constant indices.
ReadElement(b, k) ==
  /\ b \in scope \cap arrays
  /\ Load(requireIndexedScalarReadable(b, k), b, {k})

\* a[k] that leaves a sub-array, with constant indices.
ReadSlice(b, s) ==
  /\ b \in scope \cap arrays
  /\ Load(requireSubArraySliceReadable(b, s), b, s)

\* a[i] with an index known only at run time.
ReadDynamic(b, k) ==
  /\ b \in scope \cap arrays
  /\ Load(requireReadableLocal(b), b, {k})

-----------------------------------------------------------------------------
(* Statements without child statements.                                    *)

\* declareLocal: a fresh binding id in the current scope.
declareLocal(isArray) ==
  /\ nextBindingId \in Binding
  /\ nextBindingId' = nextBindingId + 1
  /\ scope' = scope \cup {nextBindingId}
  /\ arrays' = IF isArray THEN arrays \cup {nextBindingId} ELSE arrays

\* markArrayBindingFullyAssigned and initArrayElemTrackingForBinding: the mask
\* that an earlier function may have left for the new id is dropped.
resetElements(isArray) ==
  arrayElemAssign' = IF isArray THEN [arrayElemAssign EXCEPT ![nextBindingId] = {}]
                                ELSE arrayElemAssign

\* let [mut] x = e;
LetInit(isArray) ==
  /\ StmtAllowed(BodySlot \cup {"forInit"})
  /\ declareLocal(isArray)
  /\ definiteAssign' = definiteAssign \cup {nextBindingId}
  /\ resetElements(isArray)
  /\ Store(nextBindingId, Elem)
  /\ CompleteStmt(FALSE)
  /\ UNCHANGED <<rejected, exec, uninitRead>>

\* let mut x: T;
LetUninit(isArray) ==
  /\ StmtAllowed(BodySlot \cup {"forInit"})
  /\ declareLocal(isArray)
  /\ resetElements(isArray)
  /\ CompleteStmt(FALSE)
  /\ UNCHANGED <<definiteAssign, rejected, ghost>>

\* x = e;
AssignName(b) ==
  /\ StmtAllowed(Slot)
  /\ b \in scope
  /\ definiteAssign' = definiteAssign \cup {b}
  /\ Store(b, Elem)
  /\ CompleteStmt(FALSE)
  /\ UNCHANGED <<arrayElemAssign, scope, arrays, nextBindingId, rejected,
                 exec, uninitRead>>

\* noteIndexedStoreToLocal, every index constant: mark the element; a mask
\* that becomes full is replaced by the whole binding.
noteConstantStore(b, k) ==
  LET marked == arrayElemAssign[b] \cup {k} IN
    IF marked = Elem
      THEN /\ definiteAssign' = definiteAssign \cup {b}
           /\ arrayElemAssign' = [arrayElemAssign EXCEPT ![b] = {}]
      ELSE /\ arrayElemAssign' = [arrayElemAssign EXCEPT ![b] = marked]
           /\ UNCHANGED definiteAssign

\* noteIndexedStoreToLocal, some index not constant: nothing is known any more.
noteDynamicStore(b) ==
  /\ arrayElemAssign' = [arrayElemAssign EXCEPT ![b] = {}]
  /\ definiteAssign' = definiteAssign \ {b}

\* a[k] = e; the element stored is k in either case.
AssignElement(b, k, isConstant) ==
  /\ StmtAllowed(Slot)
  /\ b \in scope \cap arrays
  /\ IF isConstant THEN noteConstantStore(b, k) ELSE noteDynamicStore(b)
  /\ Store(b, {k})
  /\ CompleteStmt(FALSE)
  /\ UNCHANGED <<scope, arrays, nextBindingId, rejected, exec, uninitRead>>

\* A call of a void function, or a store through a pointer: *p = e; (p points
\* to a binding that was readable when its address was taken).
CallOrStoreThroughPointer ==
  /\ StmtAllowed(Slot)
  /\ CompleteStmt(FALSE)
  /\ UNCHANGED <<definiteAssign, arrayElemAssign, scope, arrays, nextBindingId,
                 rejected, ghost>>

\* return e;
Return ==
  /\ StmtAllowed(BodySlot)
  /\ CompleteStmt(TRUE)
  /\ exec' = IF Running THEN Gone ELSE exec
  /\ UNCHANGED <<definiteAssign, arrayElemAssign, scope, arrays, nextBindingId,
                 rejected, mem, uninitRead>>

\* Where break and continue take the execution from the loop at depth d.
LeaveBody(place, d) ==
  IF place = "step" /\ frames[d].at = "whileBody" THEN Gone ELSE Parked(place, d)

\* break; or continue; inside a loop: the analyzer does nothing, the execution
\* leaves the body of the innermost loop.
LoopControl(place) ==
  /\ StmtAllowed(BodySlot)
  /\ CompleteStmt(FALSE)
  /\ \E d \in EnclosingLoops :
       /\ \A e \in EnclosingLoops : e <= d
       /\ exec' = IF Running THEN LeaveBody(place, d) ELSE exec
  /\ UNCHANGED <<definiteAssign, arrayElemAssign, scope, arrays, nextBindingId,
                 rejected, mem, uninitRead>>

Break == LoopControl("exit")
Continue == LoopControl("step")

\* break; or continue; outside any loop is a diagnostic.
LoopControlOutsideLoop ==
  /\ StmtAllowed(BodySlot)
  /\ EnclosingLoops = {}
  /\ CompleteStmt(FALSE)
  /\ Report(TRUE)
  /\ UNCHANGED <<definiteAssign, arrayElemAssign, scope, arrays, nextBindingId,
                 mem, uninitRead>>

-----------------------------------------------------------------------------
(* Blocks.                                                                 *)

OpenBlock ==
  /\ StmtAllowed(BodySlot)
  /\ Push([NoFrame EXCEPT !.at = "block", !.outer = scope])
  /\ UNCHANGED <<definiteAssign, arrayElemAssign, scope, arrays, nextBindingId,
                 rejected, ghost>>

\* Mutants of popScope: it forgets to erase the assignments, or the masks, of
\* the bindings that leave.
popScopeKeepingAssignments(outer, defined, elems) ==
  /\ scope' = outer
  /\ arrays' = arrays \cap outer
  /\ definiteAssign' = defined
  /\ arrayElemAssign' = [b \in Binding |-> IF b \in scope \ outer THEN {} ELSE elems[b]]

popScopeKeepingMasks(outer, defined, elems) ==
  /\ scope' = outer
  /\ arrays' = arrays \cap outer
  /\ definiteAssign' = defined \ (scope \ outer)
  /\ arrayElemAssign' = elems

\* popScope: the bindings declared since the matching pushScope leave the
\* symbol tables and the analyzer's state.
popScope(outer, defined, elems) ==
  /\ scope' = outer
  /\ arrays' = arrays \cap outer
  /\ definiteAssign' = defined \ (scope \ outer)
  /\ arrayElemAssign' = [b \in Binding |-> IF b \in scope \ outer THEN {} ELSE elems[b]]

CloseBlock ==
  /\ depth > 1
  /\ top.at = "block"
  /\ popScope(top.outer, definiteAssign, arrayElemAssign)
  /\ PopInto(top.returns)
  /\ UNCHANGED <<nextBindingId, rejected, ghost>>

-----------------------------------------------------------------------------
(* if.  The condition has been read as part of the statement; the          *)
(* execution takes one of the arms.                                        *)

OpenIf ==
  /\ StmtAllowed(BodySlot)
  /\ Push(Activation("then"))
  /\ \/ UNCHANGED exec
     \/ Running /\ exec' = Parked("else", depth + 1)
  /\ UNCHANGED <<definiteAssign, arrayElemAssign, scope, arrays, nextBindingId,
                 rejected, mem, uninitRead>>

\* An execution parked at this place of the top statement resumes.
Resume(place) ==
  exec' = IF exec = Parked(place, depth) THEN Here ELSE exec

\* The then arm is done: remember its state, analyze else from before the if.
OpenElse ==
  /\ depth > 0
  /\ top.at = "thenEnd"
  /\ Rephase([top EXCEPT !.at = "else",
                         !.afterThen = definiteAssign,
                         !.afterThenArrays = arrayElemAssign,
                         !.thenReturns = top.returns,
                         !.returns = FALSE])
  /\ definiteAssign' = top.before
  /\ arrayElemAssign' = top.beforeArrays
  /\ exec' = IF Running THEN Parked("join", depth)
             ELSE IF exec = Parked("else", depth) THEN Here ELSE exec
  /\ UNCHANGED <<scope, arrays, nextBindingId, rejected, mem, uninitRead>>

\* Mutants of the merge: an assignment in one arm is enough; or, when both
\* arms return, nothing is known any more.
mergeUniting(before, afterThen, afterElse, hasElse, thenReturns, elseReturns) ==
  CASE thenReturns -> IF hasElse /\ ~elseReturns THEN afterElse ELSE before
    [] ~thenReturns /\ hasElse /\ elseReturns -> afterThen
    [] ~thenReturns /\ ~elseReturns -> afterThen \cup afterElse

mergeForgetting(before, afterThen, afterElse, hasElse, thenReturns, elseReturns) ==
  CASE ~hasElse -> IF thenReturns THEN before ELSE before \cap afterThen
    [] hasElse /\ thenReturns -> IF elseReturns THEN {} ELSE afterElse
    [] hasElse /\ ~thenReturns ->
         IF elseReturns THEN afterThen ELSE afterThen \cap afterElse

mergeDefiniteAssignAfterIf(before, afterThen, afterElse, hasElse, thenReturns, elseReturns) ==
  CASE ~hasElse /\ thenReturns -> before
    [] ~hasElse /\ ~thenReturns -> before \cap afterThen
    [] hasElse /\ thenReturns /\ ~elseReturns -> afterElse
    [] hasElse /\ ~thenReturns /\ elseReturns -> afterThen
    [] hasElse /\ thenReturns /\ elseReturns -> before
    [] hasElse /\ ~thenReturns /\ ~elseReturns -> afterThen \cap afterElse

\* The masks of arrays, full for those that are definitely assigned.
maskOrFull(defined, elems) ==
  [b \in Binding |-> IF b \in defined \cap arrays \cap scope THEN Elem ELSE elems[b]]

bandMasks(masks1, masks2) ==
  [b \in Binding |-> masks1[b] \cap masks2[b]]

\* The masks after the if, before full ones are replaced by their binding.
mergedMasks(before, beforeArrays, afterThen, afterThenArrays, afterElse, afterElseArrays, hasElse, thenReturns, elseReturns) ==
  CASE ~hasElse /\ thenReturns -> beforeArrays
    [] ~hasElse /\ ~thenReturns ->
         bandMasks(maskOrFull(before, beforeArrays),
                   maskOrFull(afterThen, afterThenArrays))
    [] hasElse /\ thenReturns /\ ~elseReturns -> afterElseArrays
    [] hasElse /\ ~thenReturns /\ elseReturns -> afterThenArrays
    [] hasElse /\ thenReturns /\ elseReturns -> beforeArrays
    [] hasElse /\ ~thenReturns /\ ~elseReturns ->
         bandMasks(maskOrFull(afterThen, afterThenArrays),
                   maskOrFull(afterElse, afterElseArrays))

\* mergeArrayElemAssignAfterIf, given the merged definite assignments: masks
\* of assigned bindings are dropped, full masks promote their binding.
mergeArrayElemAssignAfterIf(merged, masks) ==
  LET full == {b \in Binding : masks[b] = Elem}
  IN /\ definiteAssign' = merged \cup full
     /\ arrayElemAssign' =
          [b \in Binding |-> IF b \in merged \cup full THEN {} ELSE masks[b]]

mergeAfterIf(afterThen, afterThenArrays, hasElse, thenReturns, elseReturns) ==
  mergeArrayElemAssignAfterIf(
    mergeDefiniteAssignAfterIf(top.before, afterThen, definiteAssign,
                               hasElse, thenReturns, elseReturns),
    mergedMasks(top.before, top.beforeArrays, afterThen, afterThenArrays,
                definiteAssign, arrayElemAssign,
                hasElse, thenReturns, elseReturns))

\* Mutant of ifReturns: one returning arm is enough.
someArmReturns(hasElse, thenReturns, elseReturns) ==
  hasElse /\ (thenReturns \/ elseReturns)

\* An if returns only when it has two arms and both do.
ifReturns(hasElse, thenReturns, elseReturns) ==
  hasElse /\ thenReturns /\ elseReturns

CloseIf(hasElse) ==
  /\ depth > 1
  /\ IF hasElse
       THEN /\ top.at = "elseEnd"
            /\ mergeAfterIf(top.afterThen, top.afterThenArrays,
                            TRUE, top.thenReturns, top.returns)
            /\ PopInto(ifReturns(TRUE, top.thenReturns, top.returns))
            /\ Resume("join")
       ELSE /\ top.at = "thenEnd"
            /\ mergeAfterIf(definiteAssign, arrayElemAssign,
                            FALSE, top.returns, FALSE)
            /\ PopInto(ifReturns(FALSE, top.returns, FALSE))
            /\ Resume("else")
  /\ UNCHANGED <<scope, arrays, nextBindingId, rejected, mem, uninitRead>>

-----------------------------------------------------------------------------
(* Loops.                                                                  *)

\* The execution arrives at the head of a loop; earlier iterations may have
\* stored more elements of the bindings that are visible there.
ArriveAtHead ==
  IF Running
    THEN \E stored \in [scope -> SUBSET Elem] :
           mem' = [b \in Binding |-> IF b \in scope THEN mem[b] \cup stored[b]
                                    ELSE mem[b]]
    ELSE UNCHANGED mem

\* The condition has been read: the execution runs the body or leaves.
Branch ==
  \/ UNCHANGED exec
  \/ Running /\ exec' = Parked("exit", depth)

\* End of the loop statement: the execution that left the loop goes on after
\* it, one that would iterate again is gone.
LeaveLoop ==
  exec' = CASE exec = Parked("exit", depth) -> Here
            [] exec = Parked("step", depth) \/ Running -> Gone
            [] OTHER -> exec

OpenWhile ==
  /\ StmtAllowed(BodySlot)
  /\ Push(Activation("whileCond"))
  /\ ArriveAtHead
  /\ UNCHANGED <<definiteAssign, arrayElemAssign, scope, arrays, nextBindingId,
                 rejected, exec, uninitRead>>

EnterWhileBody ==
  /\ depth > 0
  /\ top.at = "whileCond"
  /\ Rephase([top EXCEPT !.at = "whileBody"])
  /\ Branch
  /\ UNCHANGED <<definiteAssign, arrayElemAssign, scope, arrays, nextBindingId,
                 rejected, mem, uninitRead>>

\* Mutant of CloseWhile: the state at the end of the body is kept.
CloseWhileKeepingBodyState ==
  /\ depth > 1
  /\ top.at = "whileBodyEnd"
  /\ PopInto(FALSE)
  /\ LeaveLoop
  /\ UNCHANGED <<definiteAssign, arrayElemAssign, scope, arrays, nextBindingId,
                 rejected, mem, uninitRead>>

\* The state after a loop is the one before it.
CloseWhile ==
  /\ depth > 1
  /\ top.at = "whileBodyEnd"
  /\ definiteAssign' = top.before
  /\ arrayElemAssign' = top.beforeArrays
  /\ PopInto(FALSE)
  /\ LeaveLoop
  /\ UNCHANGED <<scope, arrays, nextBindingId, rejected, mem, uninitRead>>

OpenFor ==
  /\ StmtAllowed(BodySlot)
  /\ Push([NoFrame EXCEPT !.at = "forInit", !.outer = scope])
  /\ UNCHANGED <<definiteAssign, arrayElemAssign, scope, arrays, nextBindingId,
                 rejected, ghost>>

\* After the init clause, if there is one.
EnterForHead ==
  /\ depth > 0
  /\ top.at \in {"forInit", "forInitEnd"}
  /\ Rephase([top EXCEPT !.at = "forCond",
                         !.before = definiteAssign,
                         !.beforeArrays = arrayElemAssign])
  /\ ArriveAtHead
  /\ UNCHANGED <<definiteAssign, arrayElemAssign, scope, arrays, nextBindingId,
                 rejected, exec, uninitRead>>

EnterForBody ==
  /\ depth > 0
  /\ top.at = "forCond"
  /\ Rephase([top EXCEPT !.at = "forBody"])
  /\ Branch
  /\ UNCHANGED <<definiteAssign, arrayElemAssign, scope, arrays, nextBindingId,
                 rejected, mem, uninitRead>>

\* The step clause is analyzed in the state at the end of the body.
EnterForStep ==
  /\ depth > 0
  /\ top.at = "forBodyEnd"
  /\ Rephase([top EXCEPT !.at = "forStep", !.returns = FALSE])
  /\ exec' = IF exec = Parked("step", depth) THEN InStepAfterContinue ELSE exec
  /\ UNCHANGED <<definiteAssign, arrayElemAssign, scope, arrays, nextBindingId,
                 rejected, mem, uninitRead>>

\* The state after a for is the one after its init clause.
CloseFor ==
  /\ depth > 1
  /\ top.at \in {"forBodyEnd", "forStepEnd"}
  /\ popScope(top.outer, top.before, top.beforeArrays)
  /\ PopInto(FALSE)
  /\ LeaveLoop
  /\ UNCHANGED <<nextBindingId, rejected, mem, uninitRead>>

-----------------------------------------------------------------------------
(* analyzeFunction.                                                        *)

\* Parameters get the first binding ids and are assigned; then the walk of
\* the body block starts.  arrayElemAssign is not reset.
BeginFunction(count, arrayParameters) ==
  /\ depth = 0
  /\ depth' = 1
  /\ frames' = [frames EXCEPT ![1] =
                  [NoFrame EXCEPT !.at = "block", !.outer = 1 .. count]]
  /\ nextBindingId' = count + 1
  /\ scope' = 1 .. count
  /\ arrays' = arrayParameters
  /\ definiteAssign' = 1 .. count
  /\ mem' = [b \in Binding |-> IF b \in 1 .. count THEN Elem ELSE {}]
  /\ exec' = IF rejected THEN Gone ELSE Here
  /\ UNCHANGED <<arrayElemAssign, rejected, uninitRead>>

\* The body is done: a function that returns a value must return on all paths.
EndFunction(isVoid) ==
  /\ depth = 1
  /\ top.at = "block"
  /\ depth' = 0
  /\ frames' = [frames EXCEPT ![1] = NoFrame]
  /\ popScope({}, definiteAssign, arrayElemAssign)
  /\ rejected' = (rejected \/ (~isVoid /\ ~top.returns))
  /\ exec' = Gone
  /\ mem' = NoElements
  /\ UNCHANGED <<nextBindingId, uninitRead>>

-----------------------------------------------------------------------------

Init ==
  /\ definiteAssign = {} /\ arrayElemAssign = NoElements
  /\ scope = {} /\ arrays = {} /\ nextBindingId = 1
  /\ frames = [d \in 1 .. MaxDepth |-> NoFrame] /\ depth = 0
  /\ rejected = FALSE
  /\ mem = NoElements /\ exec = Gone /\ uninitRead = {}

Reading ==
  \/ \E b \in Binding : ReadName(b)
  \/ \E b \in Binding, k \in Elem : ReadElement(b, k)
  \/ \E b \in Binding, s \in Slice : ReadSlice(b, s)
  \/ \E b \in Binding, k \in Elem : ReadDynamic(b, k)

SimpleStmt ==
  \/ \E isArray \in BOOLEAN : LetInit(isArray)
  \/ \E isArray \in BOOLEAN : LetUninit(isArray)
  \/ \E b \in Binding : AssignName(b)
  \/ \E b \in Binding, k \in Elem, isConstant \in BOOLEAN :
       AssignElement(b, k, isConstant)
  \/ CallOrStoreThroughPointer
  \/ Return
  \/ Break
  \/ Continue
  \/ LoopControlOutsideLoop

CompoundStmt ==
  \/ OpenBlock
  \/ CloseBlock
  \/ OpenIf
  \/ OpenElse
  \/ \E hasElse \in BOOLEAN : CloseIf(hasElse)
  \/ OpenWhile
  \/ EnterWhileBody
  \/ CloseWhile
  \/ OpenFor
  \/ EnterForHead
  \/ EnterForBody
  \/ EnterForStep
  \/ CloseFor

Function ==
  \/ \E count \in 0 .. MaxBinding :
       \E arrayParameters \in SUBSET (1 .. count) :
         BeginFunction(count, arrayParameters)
  \/ \E isVoid \in BOOLEAN : EndFunction(isVoid)

Next == Reading \/ SimpleStmt \/ CompoundStmt \/ Function

Spec == Init /\ [][Next]_vars

-----------------------------------------------------------------------------
(* Properties.                                                             *)

\* Types of the state, and: the analyzer only tracks bindings of open scopes
\* (popScope scrubs the others, so a shadowing name cannot inherit the state
\* of a binding that is gone).
TrackingOK ==
  /\ nextBindingId \in 1 .. MaxBinding + 1
  /\ scope \subseteq 1 .. nextBindingId - 1
  /\ arrays \subseteq scope
  /\ definiteAssign \subseteq scope
  /\ arrayElemAssign \in Elements
  /\ \A b \in Binding \ arrays : arrayElemAssign[b] = {}

FramesOK ==
  /\ frames \in [1 .. MaxDepth -> Frame]
  /\ depth \in 0 .. MaxDepth

GhostOK ==
  /\ rejected \in BOOLEAN
  /\ mem \in Elements
  /\ \A b \in Binding : mem[b] # {} => b < nextBindingId
  /\ exec \in Exec
  /\ uninitRead \subseteq {"here", "continued"}

TypeOK == TrackingOK /\ FramesOK /\ GhostOK

\* A program accepted without diagnostics never loads an element that the
\* execution has not stored, wherever the execution is, except in the step
\* clause of a for that a continue jumped to: every load that
\* requireReadableLocal, requireIndexedScalarReadable or
\* requireSubArraySliceReadable accepts is of stored elements.
NoUninitializedRead == rejected \/ "here" \notin uninitRead

\* The same with no exception: "Semantic analysis guarantees no LoadLocal
\* happens before a store" (docs/design/definite_assignment.md).
NoLoadBeforeStore == rejected \/ uninitRead = {}

\* analyzeStmt says that the statements so far return on all paths only if no
\* execution gets past them: in particular an accepted non-void function never
\* reaches the end of its body.
ReturningCodeIsLeft ==
  \A d \in 1 .. depth :
    frames[d].returns => ~Running /\ exec.depth <= d

\* analyzeFunction does not clear arrayElemAssign_: a function starts without
\* masks only because popScope has scrubbed those of the previous function, and
\* because no snapshot restored on the way brought any back.
CleanBetweenFunctions ==
  depth = 0 => scope = {} /\ definiteAssign = {} /\ arrayElemAssign = NoElements

\* A scalar that is readable before an if or a loop stays readable inside it,
\* in both arms and after it: no path of the analysis forgets an assignment of
\* a scalar (of an array it does: a store with a non-constant index clears it).
Snapshotting == Phase \ {"none", "block", "forInit", "forInitEnd"}
ScalarsStayReadable ==
  \A d \in 1 .. depth :
    frames[d].at \in Snapshotting =>
      frames[d].before \ arrays \subseteq definiteAssign

-----------------------------------------------------------------------------
(* The inductive strengthening of the properties (DefiniteAssignmentProofs).*)

\* Only the top activation can be at the end of a part.
StackInv ==
  \A d \in 1 .. depth :
    /\ frames[d].at # "none"
    /\ d < depth => frames[d].at \in BodySlot

\* A snapshot only mentions bindings that are still in scope, and that will be
\* when the statements nested in it are over.
SnapshotWithin(f, visible) ==
  /\ f.outer \subseteq visible
  /\ f.before \subseteq visible
  /\ f.afterThen \subseteq visible
  /\ \A b \in Binding \ (arrays \cap visible) :
       f.beforeArrays[b] = {} /\ f.afterThenArrays[b] = {}

ScopeInv ==
  /\ depth = 0 => scope = {}
  /\ \A d \in 1 .. depth :
       /\ SnapshotWithin(frames[d], scope)
       /\ \A e \in d + 1 .. depth : SnapshotWithin(frames[d], frames[e].outer)

\* What the analyzer takes for assigned is stored in m.
Covered(m, defined, elems) ==
  /\ \A b \in defined : m[b] = Elem
  /\ \A b \in Binding : elems[b] \subseteq m[b]

\* The phases of a statement while an execution is parked at that place of it.
LoopPhase == {"whileCond", "whileBody", "whileBodyEnd", "forCond",
              "forBody", "forBodyEnd", "forStep", "forStepEnd"}
ParkedPhase(place) ==
  CASE place = "else" -> {"then", "thenEnd"}
    [] place = "join" -> {"else", "elseEnd"}
    [] place = "exit" -> LoopPhase
    [] place = "step" -> {"forBody", "forBodyEnd"}

ParkingInv ==
  /\ exec.depth <= depth
  /\ exec.depth > 0 => frames[exec.depth].at \in ParkedPhase(exec.at)
  /\ exec = InStepAfterContinue =>
       depth > 0 /\ top.at \in {"forStep", "forStepEnd"}

\* The execution is inside the statement at depth d.
Inside(d) == Running \/ d <= exec.depth

\* The state that the analyzer will have when it gets to the execution covers
\* what it has stored.
CoverInv ==
  LET f == frames[exec.depth] IN
  /\ exec = Here => Covered(mem, definiteAssign, arrayElemAssign)
  /\ exec.at = "else" => Covered(mem, f.before, f.beforeArrays)
  /\ exec.at = "join" =>
       ~f.thenReturns /\ Covered(mem, f.afterThen, f.afterThenArrays)
  /\ \A d \in 1 .. depth :
       frames[d].at \in LoopPhase /\ Inside(d) =>
         Covered(mem, frames[d].before, frames[d].beforeArrays)

IInv ==
  /\ TypeOK
  /\ StackInv
  /\ ScopeInv
  /\ ParkingInv
  /\ CoverInv
  /\ ReturningCodeIsLeft
  /\ NoUninitializedRead
=============================================================================
