---------------------- MODULE DefiniteAssignmentProofs ----------------------
(***************************************************************************)
(* Proofs about DefiniteAssignment, for every number of bindings, nesting  *)
(* depth, element set and slices.  The inductive invariant IInv joins      *)
(*                                                                         *)
(*   TrackingOK, FramesOK, GhostOK, StackInv   types and the stack's shape *)
(*   ScopeInv              snapshots only mention bindings still in scope  *)
(*   ParkingInv            an execution is parked where the walk will pass *)
(*   ReturningCodeIsLeft   code said to return has been left               *)
(*   CoverInv              what the analyzer takes for assigned is stored, *)
(*                         in the state it will have where it meets the    *)
(*                         execution again                                 *)
(*   NoUninitializedRead                                                   *)
(*                                                                         *)
(* in this order: each section proves that every step preserves one of     *)
(* them, using the ones before it.                                         *)
(***************************************************************************)
EXTENDS DefiniteAssignment, TLAPS

USE MaxBindingAssumption, MaxDepthAssumption, ElemAssumption, SliceAssumption

-----------------------------------------------------------------------------
(* Activation records.                                                     *)

\* The empty masks are well typed.
LEMMA NoElementsType == NoElements \in Elements
  BY DEF NoElements, Elements

\* The empty activation record is well typed.
LEMMA NoFrameType == NoFrame \in Frame
  BY NoElementsType DEF NoFrame, Frame, Phase, Slot

\* Completing a child of a frame moves it to the end of the part, keeps the
\* snapshots and accumulates whether a child returns.
LEMMA CompletedType ==
  ASSUME NEW f \in Frame, f.at \in Slot, NEW r \in BOOLEAN
  PROVE  /\ Completed(f, r) \in Frame
         /\ Completed(f, r).at = EndOf(f.at)
         /\ Completed(f, r).at # "none"
         /\ Completed(f, r).outer = f.outer
         /\ Completed(f, r).before = f.before
         /\ Completed(f, r).beforeArrays = f.beforeArrays
         /\ Completed(f, r).afterThen = f.afterThen
         /\ Completed(f, r).afterThenArrays = f.afterThenArrays
         /\ Completed(f, r).thenReturns = f.thenReturns
         /\ Completed(f, r).returns <=> f.returns \/ r
  BY DEF Completed, Frame, Phase, Slot, BodySlot, EndOf

\* The plain types of the tracking state, without its relations.
LEMMA TrackingTypes ==
  ASSUME TrackingOK
  PROVE  /\ scope \in SUBSET Binding
         /\ definiteAssign \in SUBSET Binding
         /\ arrays \in SUBSET Binding
         /\ arrayElemAssign \in Elements
  BY DEF TrackingOK, Binding

\* A record pushed for a block or a for is a frame without snapshots.
LEMMA ScopeFrameType ==
  ASSUME NEW part \in Phase, NEW visible \in SUBSET Binding
  PROVE  LET f == [NoFrame EXCEPT !.at = part, !.outer = visible] IN
         /\ f \in Frame
         /\ f.at = part
         /\ f.outer = visible
         /\ f.before = {} /\ f.beforeArrays = NoElements
         /\ f.afterThen = {} /\ f.afterThenArrays = NoElements
         /\ f.thenReturns = FALSE /\ f.returns = FALSE
  BY NoElementsType DEF NoFrame, Frame

\* A record that snapshots the analyzer state is a frame.
LEMMA ActivationType ==
  ASSUME TrackingOK, NEW part \in Phase
  PROVE  /\ Activation(part) \in Frame
         /\ Activation(part).at = part
         /\ Activation(part).outer = scope
         /\ Activation(part).before = definiteAssign
         /\ Activation(part).beforeArrays = arrayElemAssign
         /\ Activation(part).afterThen = {}
         /\ Activation(part).afterThenArrays = NoElements
         /\ Activation(part).thenReturns = FALSE
         /\ Activation(part).returns = FALSE
  BY TrackingTypes, NoElementsType DEF Activation, NoFrame, Frame

\* A statement without children moves its activation to the end of the part.
LEMMA CompleteStmtFrames ==
  ASSUME FramesOK, StackInv, NEW r \in BOOLEAN,
         StmtAllowed(Slot), CompleteStmt(r)
  PROVE  FramesOK' /\ StackInv'
  BY CompletedType DEF CompleteStmt, Rephase, StmtAllowed, FramesOK, StackInv, top

\* Replacing the top record keeps the activation stack well typed.
LEMMA RephaseFrames ==
  ASSUME FramesOK, StackInv, depth > 0, NEW f \in Frame, f.at # "none", Rephase(f)
  PROVE  FramesOK' /\ StackInv'
  BY DEF Rephase, FramesOK, StackInv

\* Pushing a record keeps the activation stack well typed.
LEMMA PushFrames ==
  ASSUME FramesOK, StackInv, StmtAllowed(BodySlot),
         NEW f \in Frame, f.at # "none", Push(f)
  PROVE  FramesOK' /\ StackInv'
  BY DEF Push, FramesOK, StackInv, StmtAllowed, top

\* Popping a record keeps the activation stack well typed.
LEMMA PopFrames ==
  ASSUME FramesOK, StackInv, depth > 1, NEW r \in BOOLEAN, PopInto(r)
  PROVE  FramesOK' /\ StackInv'
<1>1. /\ depth - 1 \in 1 .. MaxDepth /\ depth \in 1 .. MaxDepth
      /\ frames[depth - 1] \in Frame /\ frames[depth - 1].at \in Slot
  BY DEF FramesOK, StackInv, Slot
<1>2. /\ Completed(frames[depth - 1], r) \in Frame
      /\ Completed(frames[depth - 1], r).at # "none"
  BY <1>1, CompletedType
<1>. QED
  BY <1>1, <1>2, NoFrameType DEF PopInto, FramesOK, StackInv

\* Every step of the analyzer preserves the types of the activation stack and
\* the fact that only its top can be at the end of a part.
LEMMA FramesStep ==
  ASSUME IInv, [Next]_vars
  PROVE  FramesOK' /\ StackInv'
<1>. USE DEF IInv, TypeOK
<1>. BodySlot \subseteq Slot
  BY DEF Slot
<1>0. depth > 0 => top \in Frame
  BY DEF FramesOK, top
<1>1. CASE Reading
  BY <1>1 DEF Reading, ReadName, ReadElement, ReadSlice, ReadDynamic, Load,
              FramesOK, StackInv
<1>2. CASE SimpleStmt
  <2>1. PICK r \in BOOLEAN : StmtAllowed(Slot) /\ CompleteStmt(r)
    BY <1>2 DEF SimpleStmt, LetInit, LetUninit, AssignName, AssignElement,
                CallOrStoreThroughPointer, Return, Break, Continue, LoopControl,
                LoopControlOutsideLoop, StmtAllowed, Slot
  <2>. QED BY <2>1, CompleteStmtFrames
<1>3. CASE CompoundStmt
  <2>1. CASE OpenBlock \/ OpenFor
    <3>. DEFINE f(part) == [NoFrame EXCEPT !.at = part, !.outer = scope]
    <3>1. \A part \in {"block", "forInit"} :
            f(part) \in Frame /\ f(part).at # "none"
      BY TrackingTypes, ScopeFrameType DEF Phase, Slot, BodySlot
    <3>2. PICK part \in {"block", "forInit"} : Push(f(part))
      BY <2>1 DEF OpenBlock, OpenFor
    <3>3. StmtAllowed(BodySlot)
      BY <2>1 DEF OpenBlock, OpenFor
    <3>. QED BY <3>1, <3>2, <3>3, PushFrames
  <2>2. CASE OpenIf \/ OpenWhile
    <3>1. PICK part \in {"then", "whileCond"} : Push(Activation(part))
      BY <2>2 DEF OpenIf, OpenWhile
    <3>2. Activation(part) \in Frame /\ Activation(part).at # "none"
      BY ActivationType DEF Phase, Slot, BodySlot
    <3>3. StmtAllowed(BodySlot)
      BY <2>2 DEF OpenIf, OpenWhile
    <3>. QED BY <3>1, <3>2, <3>3, PushFrames
  <2>3. CASE OpenElse
    BY <2>3, <1>0, RephaseFrames, TrackingTypes
       DEF OpenElse, Frame, Phase, Slot, BodySlot
  <2>4. CASE EnterWhileBody \/ EnterForBody
    BY <2>4, <1>0, RephaseFrames
       DEF EnterWhileBody, EnterForBody, Frame, Phase, Slot, BodySlot
  <2>5. CASE EnterForHead
    BY <2>5, <1>0, RephaseFrames, TrackingTypes
       DEF EnterForHead, Frame, Phase, Slot, BodySlot
  <2>6. CASE EnterForStep
    BY <2>6, <1>0, RephaseFrames
       DEF EnterForStep, Frame, Phase, Slot, BodySlot
  <2>7. CASE CloseBlock
    <3>1. top.returns \in BOOLEAN
      BY <2>7, <1>0 DEF CloseBlock, Frame, FramesOK
    <3>. QED BY <2>7, <3>1, PopFrames DEF CloseBlock
  <2>8. ASSUME NEW hasElse \in BOOLEAN, CloseIf(hasElse)
        PROVE  FramesOK' /\ StackInv'
    <3>1. PICK r \in BOOLEAN : PopInto(r)
      BY <2>8 DEF CloseIf, ifReturns
    <3>. QED BY <2>8, <3>1, PopFrames DEF CloseIf
  <2>9. CASE CloseWhile \/ CloseFor
    BY <2>9, PopFrames DEF CloseWhile, CloseFor
  <2>. QED
    BY <1>3, <2>1, <2>2, <2>3, <2>4, <2>5, <2>6, <2>7, <2>8, <2>9 DEF CompoundStmt
<1>4. ASSUME NEW count \in 0 .. MaxBinding, NEW arrayParameters \in SUBSET (1 .. count),
             BeginFunction(count, arrayParameters)
      PROVE  FramesOK' /\ StackInv'
  <2>1. 1 .. count \in SUBSET Binding
    BY DEF Binding
  <2>2. /\ [NoFrame EXCEPT !.at = "block", !.outer = 1 .. count] \in Frame
        /\ [NoFrame EXCEPT !.at = "block", !.outer = 1 .. count].at = "block"
    BY <2>1, ScopeFrameType DEF Phase, Slot, BodySlot
  <2>. QED BY <1>4, <2>2 DEF BeginFunction, FramesOK, StackInv
<1>5. ASSUME NEW isVoid \in BOOLEAN, EndFunction(isVoid)
      PROVE  FramesOK' /\ StackInv'
  BY <1>5, NoFrameType DEF EndFunction, FramesOK, StackInv
<1>6. CASE UNCHANGED vars
  BY <1>6 DEF vars, analyzer, FramesOK, StackInv
<1>. QED
  BY <1>1, <1>2, <1>3, <1>4, <1>5, <1>6 DEF Next, Function

-----------------------------------------------------------------------------
(* Scopes: the analyzer only tracks bindings that are in scope.            *)

\* Replacing the top record preserves the scope discipline when the new
\* record only mentions visible bindings.
LEMMA ScopeRephase ==
  ASSUME FramesOK, ScopeInv, depth > 0,
         NEW f \in Frame, Rephase(f), f.outer = top.outer,
         SnapshotWithin(f, scope)', scope \subseteq scope', arrays \subseteq arrays'
  PROVE  ScopeInv'
<1>1. depth' = depth /\ depth \in 1 .. MaxDepth
  BY DEF Rephase, FramesOK
<1>2. \A e \in 1 .. depth : /\ frames'[e] = IF e = depth THEN f ELSE frames[e]
                            /\ frames'[e].outer = frames[e].outer
  BY <1>1 DEF Rephase, FramesOK, top
<1>. QED
  BY <1>1, <1>2 DEF ScopeInv, SnapshotWithin

\* Pushing a record preserves it when the record only mentions visible bindings.
LEMMA ScopePush ==
  ASSUME FramesOK, ScopeInv, NEW f \in Frame, Push(f), f.outer = scope,
         SnapshotWithin(f, scope), UNCHANGED <<scope, arrays>>
  PROVE  ScopeInv'
<1>1. /\ depth' = depth + 1 /\ depth + 1 \in 1 .. MaxDepth
      /\ \A e \in 1 .. depth + 1 : frames'[e] = IF e = depth + 1 THEN f ELSE frames[e]
  BY DEF Push, FramesOK
<1>. QED
  BY <1>1 DEF ScopeInv, SnapshotWithin, FramesOK

\* Popping a record that restores its outer scope preserves it.
LEMMA ScopePop ==
  ASSUME FramesOK, StackInv, ScopeInv, depth > 1, NEW r \in BOOLEAN, PopInto(r),
         top.outer \subseteq scope', arrays \cap top.outer \subseteq arrays'
  PROVE  ScopeInv'
<1>1. /\ depth' = depth - 1 /\ depth \in 2 .. MaxDepth
      /\ \A e \in 1 .. depth - 1 :
           frames'[e] = IF e = depth - 1 THEN Completed(frames[e], r) ELSE frames[e]
      /\ frames[depth - 1] \in Frame /\ frames[depth - 1].at \in Slot
  BY DEF PopInto, FramesOK, StackInv, Slot
<1>2. \A e \in 1 .. depth - 1 :
        /\ frames'[e].outer = frames[e].outer
        /\ frames'[e].before = frames[e].before
        /\ frames'[e].beforeArrays = frames[e].beforeArrays
        /\ frames'[e].afterThen = frames[e].afterThen
        /\ frames'[e].afterThenArrays = frames[e].afterThenArrays
  BY <1>1, CompletedType
<1>3. \A e \in 1 .. depth - 1 : SnapshotWithin(frames[e], top.outer)
  BY <1>1 DEF ScopeInv, top
<1>. QED
  BY <1>1, <1>2, <1>3 DEF ScopeInv, SnapshotWithin

\* A simple statement, which can only add a binding to the scope, preserves it.
LEMMA ScopeCompleteStmt ==
  ASSUME FramesOK, ScopeInv, StmtAllowed(Slot), NEW r \in BOOLEAN, CompleteStmt(r),
         scope \subseteq scope', arrays \subseteq arrays'
  PROVE  ScopeInv'
<1>1. top \in Frame /\ top.at \in Slot /\ depth \in 1 .. MaxDepth
  BY DEF FramesOK, StmtAllowed, top
<1>2. SnapshotWithin(top, scope)
  BY <1>1 DEF ScopeInv, top
<1>3. PICK f : f = Completed(top, r)
  OBVIOUS
<1>4. f \in Frame /\ f.outer = top.outer /\ SnapshotWithin(f, scope)'
  BY <1>1, <1>2, <1>3, CompletedType DEF SnapshotWithin
<1>. QED
  BY <1>1, <1>3, <1>4, ScopeRephase DEF CompleteStmt

\* So does a step that changes neither the stack nor the scope.
LEMMA ScopeUnchanged ==
  ASSUME ScopeInv, UNCHANGED <<frames, depth, scope, arrays>>
  PROVE  ScopeInv'
BY DEF ScopeInv, SnapshotWithin

\* What an if leaves in the analyzer's state was in one of the states merged.
LEMMA MergeTracking ==
  ASSUME TrackingOK, top.before \subseteq scope, top.beforeArrays \in Elements,
         \A b \in Binding \ arrays : top.beforeArrays[b] = {},
         NEW afterThen, afterThen \subseteq scope,
         NEW afterThenArrays \in Elements,
         \A b \in Binding \ arrays : afterThenArrays[b] = {},
         NEW hasElse \in BOOLEAN, NEW thenReturns \in BOOLEAN, NEW elseReturns \in BOOLEAN,
         mergeAfterIf(afterThen, afterThenArrays, hasElse, thenReturns, elseReturns),
         UNCHANGED <<scope, arrays, nextBindingId>>
  PROVE  TrackingOK'
<1>. DEFINE merged == mergeDefiniteAssignAfterIf(top.before, afterThen, definiteAssign,
                                                 hasElse, thenReturns, elseReturns)
            masks == mergedMasks(top.before, top.beforeArrays, afterThen, afterThenArrays,
                                 definiteAssign, arrayElemAssign,
                                 hasElse, thenReturns, elseReturns)
<1>1. merged \subseteq scope
  BY DEF mergeDefiniteAssignAfterIf, TrackingOK
<1>2. masks \in Elements /\ \A b \in Binding \ arrays : masks[b] = {}
  BY DEF mergedMasks, maskOrFull, bandMasks, TrackingOK, Elements
<1>. HIDE DEF merged, masks
<1>3. mergeArrayElemAssignAfterIf(merged, masks)
  BY DEF mergeAfterIf, merged, masks
<1>4. scope \subseteq Binding
  BY TrackingTypes
<1>. QED
  BY <1>1, <1>2, <1>3, <1>4 DEF mergeArrayElemAssignAfterIf, Elements, TrackingOK

\* A fresh id has no mask to drop.
LEMMA FreshMask ==
  ASSUME TrackingOK, NEW isArray \in BOOLEAN, nextBindingId \in Binding,
         resetElements(isArray)
  PROVE  arrayElemAssign' = arrayElemAssign
<1>1. nextBindingId \notin arrays
  BY DEF TrackingOK, Binding
<1>. QED
  BY <1>1 DEF resetElements, TrackingOK, Elements

\* Every step keeps the tracking state well typed and inside the open scopes.
LEMMA TrackingStep ==
  ASSUME IInv, [Next]_vars
  PROVE  TrackingOK'
<1>a. TrackingOK
  BY DEF IInv, TypeOK
<1>b. depth > 0 => top \in Frame /\ SnapshotWithin(top, scope)
  BY DEF IInv, TypeOK, FramesOK, top, ScopeInv
<1>c. depth \in 0 .. MaxDepth
  BY DEF IInv, TypeOK, FramesOK
<1>d. depth > 1 => depth > 0
  BY <1>c
<1>e. definiteAssign \in SUBSET Binding /\ arrayElemAssign \in Elements
  BY <1>a, TrackingTypes
<1>f. depth = 0 => scope = {}
  BY DEF IInv, ScopeInv
<1>1. CASE Reading
  BY <1>1, <1>a DEF Reading, ReadName, ReadElement, ReadSlice, ReadDynamic, Load,
                    TrackingOK
<1>2. ASSUME NEW isArray \in BOOLEAN, LetInit(isArray) \/ LetUninit(isArray)
      PROVE  TrackingOK'
  <2>1. /\ nextBindingId \in Binding /\ nextBindingId' = nextBindingId + 1
        /\ scope' = scope \cup {nextBindingId}
        /\ arrays' = arrays \/ arrays' = arrays \cup {nextBindingId}
        /\ definiteAssign \subseteq definiteAssign'
        /\ definiteAssign' \subseteq definiteAssign \cup {nextBindingId}
        /\ arrayElemAssign' = arrayElemAssign
    BY <1>2, <1>a, FreshMask DEF LetInit, LetUninit, declareLocal
  <2>2. nextBindingId' \in 1 .. MaxBinding + 1 /\ scope' \subseteq 1 .. nextBindingId' - 1
    BY <2>1, <1>a DEF TrackingOK, Binding
  <2>3. arrays' \subseteq scope' /\ definiteAssign' \subseteq scope'
    BY <2>1, <1>a DEF TrackingOK
  <2>4. \A b \in Binding \ arrays' : arrayElemAssign'[b] = {}
    BY <2>1, <1>a DEF TrackingOK
  <2>. QED BY <2>1, <2>2, <2>3, <2>4, <1>a DEF TrackingOK
<1>3. ASSUME NEW b \in Binding, AssignName(b)
      PROVE  TrackingOK'
  BY <1>3, <1>a DEF AssignName, TrackingOK
<1>4. ASSUME NEW b \in Binding, NEW k \in Elem, NEW isConstant \in BOOLEAN,
             AssignElement(b, k, isConstant)
      PROVE  TrackingOK'
  <2>1. arrayElemAssign[b] \subseteq Elem
    BY <1>a DEF TrackingOK, Elements
  <2>2. PICK elems \in SUBSET Elem : arrayElemAssign' = [arrayElemAssign EXCEPT ![b] = elems]
    BY <1>4, <2>1 DEF AssignElement, noteConstantStore, noteDynamicStore
  <2>3. /\ b \in arrays /\ b \in scope /\ UNCHANGED <<scope, arrays, nextBindingId>>
        /\ definiteAssign' \subseteq definiteAssign \cup {b}
    BY <1>4 DEF AssignElement, noteConstantStore, noteDynamicStore
  <2>4. arrayElemAssign' \in Elements
    BY <2>2, <1>a DEF TrackingOK, Elements
  <2>. QED BY <2>2, <2>3, <2>4, <1>a DEF TrackingOK, Elements
<1>5. CASE CallOrStoreThroughPointer \/ Return \/ Break \/ Continue \/ LoopControlOutsideLoop
  BY <1>5, <1>a DEF CallOrStoreThroughPointer, Return, Break, Continue, LoopControl,
                    LoopControlOutsideLoop, TrackingOK
<1>6. CASE \/ OpenBlock \/ OpenIf \/ OpenWhile \/ OpenFor
           \/ EnterWhileBody \/ EnterForHead \/ EnterForBody \/ EnterForStep
  BY <1>6, <1>a DEF OpenBlock, OpenIf, OpenWhile, OpenFor,
                    EnterWhileBody, EnterForHead, EnterForBody, EnterForStep, TrackingOK
<1>7. CASE CloseBlock \/ CloseFor
  <2>0. depth > 0 /\ top \in Frame /\ SnapshotWithin(top, scope)
    <3>1. depth > 1
      BY <1>7 DEF CloseBlock, CloseFor
    <3>. QED BY <3>1, <1>b, <1>d
  <2>1. PICK defined \in SUBSET Binding, elems \in Elements :
          /\ popScope(top.outer, defined, elems) /\ UNCHANGED nextBindingId
          /\ defined \subseteq scope /\ top.outer \subseteq scope
          /\ \A b \in Binding \ arrays : elems[b] = {}
    <3>1. CASE CloseBlock
      <4>1. /\ popScope(top.outer, definiteAssign, arrayElemAssign)
            /\ UNCHANGED nextBindingId
        BY <3>1 DEF CloseBlock
      <4>2. /\ definiteAssign \subseteq scope /\ top.outer \subseteq scope
            /\ \A b \in Binding \ arrays : arrayElemAssign[b] = {}
        BY <2>0, <1>a DEF SnapshotWithin, TrackingOK
      <4>. QED BY <4>1, <4>2, <1>e
    <3>2. CASE CloseFor
      <4>1. /\ popScope(top.outer, top.before, top.beforeArrays) /\ UNCHANGED nextBindingId
            /\ top.before \in SUBSET Binding /\ top.beforeArrays \in Elements
        BY <3>2, <2>0 DEF CloseFor, Frame
      <4>2. /\ top.before \subseteq scope /\ top.outer \subseteq scope
            /\ \A b \in Binding \ arrays : top.beforeArrays[b] = {}
        BY <2>0 DEF SnapshotWithin
      <4>. QED BY <4>1, <4>2
    <3>. QED BY <1>7, <3>1, <3>2
  <2>2. /\ scope' \subseteq scope /\ arrays' \subseteq scope' /\ definiteAssign' \subseteq scope'
        /\ nextBindingId' = nextBindingId
    BY <2>1, <1>a DEF popScope, TrackingOK
  <2>3. arrayElemAssign' \in Elements /\ \A b \in Binding \ arrays' : arrayElemAssign'[b] = {}
    BY <2>1, <1>a DEF popScope, TrackingOK, Elements
  <2>. QED BY <2>2, <2>3, <1>a DEF TrackingOK
<1>8. CASE OpenElse \/ CloseWhile
  <2>1. top \in Frame /\ SnapshotWithin(top, scope)
    <3>1. depth > 0 \/ depth > 1
      BY <1>8 DEF OpenElse, CloseWhile
    <3>. QED BY <3>1, <1>b, <1>d
  <2>2. /\ definiteAssign' = top.before /\ arrayElemAssign' = top.beforeArrays
        /\ UNCHANGED <<scope, arrays, nextBindingId>>
    BY <1>8 DEF OpenElse, CloseWhile
  <2>3. /\ top.before \subseteq scope /\ top.beforeArrays \in Elements
        /\ \A b \in Binding \ arrays : top.beforeArrays[b] = {}
    BY <2>1 DEF SnapshotWithin, Frame
  <2>. QED BY <1>a, <2>2, <2>3 DEF TrackingOK
<1>9. ASSUME NEW hasElse \in BOOLEAN, CloseIf(hasElse)
      PROVE  TrackingOK'
  <2>1. top \in Frame /\ SnapshotWithin(top, scope)
    BY <1>9, <1>b, <1>c DEF CloseIf
  <2>2. /\ top.before \subseteq scope /\ top.beforeArrays \in Elements
        /\ \A b \in Binding \ arrays : top.beforeArrays[b] = {}
        /\ top.afterThen \subseteq scope /\ top.afterThenArrays \in Elements
        /\ \A b \in Binding \ arrays : top.afterThenArrays[b] = {}
        /\ top.thenReturns \in BOOLEAN /\ top.returns \in BOOLEAN
    BY <2>1 DEF SnapshotWithin, Frame
  <2>3. UNCHANGED <<scope, arrays, nextBindingId>>
    BY <1>9 DEF CloseIf
  <2>4. CASE hasElse
    <3>1. mergeAfterIf(top.afterThen, top.afterThenArrays, TRUE, top.thenReturns, top.returns)
      BY <1>9, <2>4 DEF CloseIf
    <3>2. PICK afterThen \in SUBSET scope, afterThenArrays \in Elements,
               thenReturns \in BOOLEAN, elseReturns \in BOOLEAN :
            /\ afterThen = top.afterThen /\ afterThenArrays = top.afterThenArrays
            /\ thenReturns = top.thenReturns /\ elseReturns = top.returns
      BY <2>2
    <3>3. mergeAfterIf(afterThen, afterThenArrays, hasElse, thenReturns, elseReturns)
      BY <2>4, <3>1, <3>2
    <3>4. \A b \in Binding \ arrays : afterThenArrays[b] = {}
      BY <2>2, <3>2
    <3>. QED
      BY <1>a, <2>2, <2>3, <3>3, <3>4, MergeTracking
  <2>5. CASE ~hasElse
    <3>1. mergeAfterIf(definiteAssign, arrayElemAssign, FALSE, top.returns, FALSE)
      BY <1>9, <2>5 DEF CloseIf
    <3>2. /\ definiteAssign \subseteq scope /\ arrayElemAssign \in Elements
          /\ \A b \in Binding \ arrays : arrayElemAssign[b] = {}
      BY <1>a DEF TrackingOK
    <3>. QED BY <1>a, <2>2, <2>3, <3>1, <3>2, MergeTracking, ZenonT(60)
  <2>. QED BY <2>4, <2>5
<1>10. CASE Function
  <2>1. ASSUME NEW count \in 0 .. MaxBinding, NEW arrayParameters \in SUBSET (1 .. count),
               BeginFunction(count, arrayParameters)
        PROVE  TrackingOK'
    <3>1. /\ nextBindingId' = count + 1 /\ scope' = 1 .. count /\ definiteAssign' = 1 .. count
          /\ arrays' = arrayParameters /\ arrayElemAssign' = arrayElemAssign
      BY <2>1 DEF BeginFunction
    <3>2. \A b \in Binding : arrayElemAssign[b] = {}
      BY <2>1, <1>a, <1>f DEF BeginFunction, TrackingOK
    <3>. QED BY <3>1, <3>2, <1>a DEF TrackingOK
  <2>2. ASSUME NEW isVoid \in BOOLEAN, EndFunction(isVoid)
        PROVE  TrackingOK'
    <3>1. /\ nextBindingId' = nextBindingId /\ scope' = {} /\ arrays' = {} /\ definiteAssign' = {}
          /\ arrayElemAssign' \in Elements /\ \A b \in Binding : arrayElemAssign'[b] = {}
      BY <2>2, <1>a DEF EndFunction, popScope, TrackingOK, Elements
    <3>. QED BY <3>1, <1>a DEF TrackingOK
  <2>. QED BY <1>10, <2>1, <2>2 DEF Function
<1>11. CASE UNCHANGED vars
  BY <1>11, <1>a DEF vars, analyzer, TrackingOK
<1>. QED
  BY <1>1, <1>2, <1>3, <1>4, <1>5, <1>6, <1>7, <1>8, <1>9, <1>10, <1>11
     DEF Next, SimpleStmt, CompoundStmt

\* Facts about the top activation that the proofs below share.
LEMMA TopFacts ==
  ASSUME IInv
  PROVE  /\ TrackingOK /\ FramesOK /\ StackInv /\ ScopeInv /\ GhostOK
         /\ ParkingInv /\ CoverInv /\ ReturningCodeIsLeft /\ NoUninitializedRead
         /\ depth \in 0 .. MaxDepth
         /\ depth > 1 => depth > 0
         /\ depth > 0 => depth \in 1 .. MaxDepth /\ top \in Frame
                         /\ SnapshotWithin(top, scope)
BY DEF IInv, TypeOK, FramesOK, top, ScopeInv

\* Every step preserves the scope discipline of the snapshots.
LEMMA ScopeStep ==
  ASSUME IInv, [Next]_vars
  PROVE  ScopeInv'
<1>a. TrackingOK /\ FramesOK /\ StackInv /\ ScopeInv
  BY TopFacts
<1>b. depth > 0 => top \in Frame /\ SnapshotWithin(top, scope)
  BY TopFacts
<1>c. (depth > 1 => depth > 0) /\ BodySlot \subseteq Slot
  BY TopFacts DEF Slot
<1>d. /\ scope \in SUBSET Binding /\ arrays \subseteq scope
      /\ definiteAssign \subseteq scope /\ definiteAssign \in SUBSET Binding
      /\ arrayElemAssign \in Elements
      /\ \A b \in Binding \ arrays : arrayElemAssign[b] = {}
  BY <1>a, TrackingTypes DEF TrackingOK
<1>1. CASE Reading
  <2>1. UNCHANGED <<frames, depth, scope, arrays>>
    BY <1>1 DEF Reading, ReadName, ReadElement, ReadSlice, ReadDynamic, Load
  <2>. QED BY <2>1, <1>a, ScopeUnchanged
<1>2. CASE SimpleStmt
  <2>1. PICK r \in BOOLEAN : /\ StmtAllowed(Slot) /\ CompleteStmt(r)
                             /\ scope \subseteq scope' /\ arrays \subseteq arrays'
    BY <1>2 DEF SimpleStmt, LetInit, LetUninit, AssignName, AssignElement, declareLocal,
                CallOrStoreThroughPointer, Return, Break, Continue, LoopControl,
                LoopControlOutsideLoop, StmtAllowed, Slot
  <2>. QED BY <2>1, <1>a, ScopeCompleteStmt
<1>3. CASE OpenBlock \/ OpenFor
  <2>. DEFINE f(part) == [NoFrame EXCEPT !.at = part, !.outer = scope]
  <2>1. PICK part \in {"block", "forInit"} : Push(f(part))
    BY <1>3 DEF OpenBlock, OpenFor
  <2>a. part \in Phase
    BY DEF Phase, Slot, BodySlot
  <2>2. /\ f(part) \in Frame /\ f(part).outer = scope
        /\ f(part).before = {} /\ f(part).beforeArrays = NoElements
        /\ f(part).afterThen = {} /\ f(part).afterThenArrays = NoElements
    BY <1>d, <2>a, ScopeFrameType DEF NoFrame
  <2>. HIDE DEF f
  <2>3. SnapshotWithin(f(part), scope)
    BY <2>2 DEF SnapshotWithin, NoElements
  <2>4. UNCHANGED <<scope, arrays>>
    BY <1>3 DEF OpenBlock, OpenFor
  <2>. QED BY <2>1, <2>2, <2>3, <2>4, <1>a, ScopePush
<1>4. CASE OpenIf \/ OpenWhile
  <2>1. PICK part \in {"then", "whileCond"} : Push(Activation(part))
    BY <1>4 DEF OpenIf, OpenWhile
  <2>2. /\ Activation(part) \in Frame /\ Activation(part).outer = scope
        /\ Activation(part).before = definiteAssign
        /\ Activation(part).beforeArrays = arrayElemAssign
        /\ Activation(part).afterThen = {} /\ Activation(part).afterThenArrays = NoElements
    BY <1>a, ActivationType DEF Phase, Slot, BodySlot
  <2>3. SnapshotWithin(Activation(part), scope)
    BY <2>2, <1>d DEF SnapshotWithin, NoElements
  <2>4. UNCHANGED <<scope, arrays>>
    BY <1>4 DEF OpenIf, OpenWhile
  <2>. QED BY <2>1, <2>2, <2>3, <2>4, <1>a, ScopePush
<1>5. CASE OpenElse \/ EnterWhileBody \/ EnterForHead \/ EnterForBody \/ EnterForStep
  <2>1. depth > 0 /\ UNCHANGED <<scope, arrays>>
    BY <1>5 DEF OpenElse, EnterWhileBody, EnterForHead, EnterForBody, EnterForStep
  <2>2. top \in Frame /\ SnapshotWithin(top, scope)
    BY <2>1, <1>b
  <2>3. PICK f \in Frame :
          /\ Rephase(f) /\ f.outer = top.outer
          /\ f.before \in {top.before, definiteAssign}
          /\ f.afterThen \in {top.afterThen, definiteAssign}
          /\ f.beforeArrays \in {top.beforeArrays, arrayElemAssign}
          /\ f.afterThenArrays \in {top.afterThenArrays, arrayElemAssign}
    <3>1. CASE OpenElse
      <4>1. PICK f : /\ Rephase(f)
                     /\ f = [top EXCEPT !.at = "else",
                                      !.afterThen = definiteAssign,
                                      !.afterThenArrays = arrayElemAssign,
                                      !.thenReturns = top.returns,
                                      !.returns = FALSE]
        BY <3>1 DEF OpenElse
      <4>2. f \in Frame
        BY <4>1, <2>2, <1>d DEF Frame, Phase, Slot, BodySlot
      <4>3. /\ f.outer = top.outer
            /\ f.before \in {top.before, definiteAssign}
            /\ f.afterThen \in {top.afterThen, definiteAssign}
            /\ f.beforeArrays \in {top.beforeArrays, arrayElemAssign}
            /\ f.afterThenArrays \in {top.afterThenArrays, arrayElemAssign}
        BY <4>1, <2>2 DEF Frame
      <4>. QED BY <4>1, <4>2, <4>3
    <3>2. CASE EnterWhileBody
      BY <3>2, <2>2 DEF EnterWhileBody, Frame, Phase, Slot, BodySlot
    <3>3. CASE EnterForHead
      <4>1. PICK f : /\ Rephase(f)
                     /\ f = [top EXCEPT !.at = "forCond",
                                      !.before = definiteAssign,
                                      !.beforeArrays = arrayElemAssign]
        BY <3>3 DEF EnterForHead
      <4>2. f \in Frame
        BY <4>1, <2>2, <1>d DEF Frame, Phase, Slot, BodySlot
      <4>3. /\ f.outer = top.outer
            /\ f.before \in {top.before, definiteAssign}
            /\ f.afterThen \in {top.afterThen, definiteAssign}
            /\ f.beforeArrays \in {top.beforeArrays, arrayElemAssign}
            /\ f.afterThenArrays \in {top.afterThenArrays, arrayElemAssign}
        BY <4>1, <2>2 DEF Frame
      <4>. QED BY <4>1, <4>2, <4>3
    <3>4. CASE EnterForBody
      BY <3>4, <2>2 DEF EnterForBody, Frame, Phase, Slot, BodySlot
    <3>5. CASE EnterForStep
      <4>1. PICK f : /\ Rephase(f)
                     /\ f = [top EXCEPT !.at = "forStep", !.returns = FALSE]
        BY <3>5 DEF EnterForStep
      <4>2. f \in Frame
        BY <4>1, <2>2 DEF Frame, Phase, Slot, BodySlot
      <4>3. /\ f.outer = top.outer
            /\ f.before \in {top.before, definiteAssign}
            /\ f.afterThen \in {top.afterThen, definiteAssign}
            /\ f.beforeArrays \in {top.beforeArrays, arrayElemAssign}
            /\ f.afterThenArrays \in {top.afterThenArrays, arrayElemAssign}
        BY <4>1, <2>2 DEF Frame
      <4>. QED BY <4>1, <4>2, <4>3
    <3>. QED BY <1>5, <3>1, <3>2, <3>3, <3>4, <3>5
  <2>4. SnapshotWithin(f, scope)
    BY <2>2, <2>3, <1>d DEF SnapshotWithin
  <2>5. SnapshotWithin(f, scope)'
    BY <2>1, <2>4 DEF SnapshotWithin
  <2>. QED BY <2>1, <2>3, <2>5, <1>a, ScopeRephase
<1>6. CASE CloseBlock \/ CloseFor \/ CloseWhile
  <2>1. depth > 1
    BY <1>6 DEF CloseBlock, CloseFor, CloseWhile
  <2>2. top \in Frame /\ top.outer \subseteq scope
    BY <2>1, <1>b, <1>c DEF SnapshotWithin
  <2>3. top.outer \subseteq scope' /\ arrays \cap top.outer \subseteq arrays'
    BY <1>6, <2>2 DEF CloseBlock, CloseFor, CloseWhile, popScope
  <2>4. PICK r \in BOOLEAN : PopInto(r)
    BY <1>6, <2>2 DEF CloseBlock, CloseFor, CloseWhile, Frame
  <2>. QED BY <2>1, <2>3, <2>4, <1>a, ScopePop
<1>7. ASSUME NEW hasElse \in BOOLEAN, CloseIf(hasElse)
      PROVE  ScopeInv'
  <2>1. depth > 1 /\ UNCHANGED <<scope, arrays>>
    BY <1>7 DEF CloseIf
  <2>2. top.outer \subseteq scope' /\ arrays \cap top.outer \subseteq arrays'
    BY <2>1, <1>b, <1>c DEF SnapshotWithin
  <2>3. PICK r \in BOOLEAN : PopInto(r)
    BY <1>7 DEF CloseIf, ifReturns
  <2>. QED BY <2>1, <2>2, <2>3, <1>a, ScopePop
<1>8. ASSUME NEW count \in 0 .. MaxBinding, NEW arrayParameters \in SUBSET (1 .. count),
             BeginFunction(count, arrayParameters)
      PROVE  ScopeInv'
  <2>. DEFINE f == [NoFrame EXCEPT !.at = "block", !.outer = 1 .. count]
  <2>1. 1 .. count \in SUBSET Binding
    BY DEF Binding
  <2>a. "block" \in Phase
    BY DEF Phase, Slot, BodySlot
  <2>2. /\ f.outer = 1 .. count
        /\ f.before = {} /\ f.beforeArrays = NoElements
        /\ f.afterThen = {} /\ f.afterThenArrays = NoElements
    BY <2>1, <2>a, ScopeFrameType DEF NoFrame
  <2>3. depth' = 1 /\ frames'[1] = f /\ scope' = 1 .. count
    BY <1>8, <1>a DEF BeginFunction, FramesOK
  <2>. HIDE DEF f
  <2>4. SnapshotWithin(f, scope)'
    BY <2>2, <2>3 DEF SnapshotWithin, NoElements
  <2>. QED BY <2>3, <2>4 DEF ScopeInv, SnapshotWithin
<1>9. ASSUME NEW isVoid \in BOOLEAN, EndFunction(isVoid)
      PROVE  ScopeInv'
  BY <1>9 DEF EndFunction, popScope, ScopeInv
<1>10. CASE UNCHANGED vars
  BY <1>10, <1>a, ScopeUnchanged DEF vars, analyzer
<1>. QED
  BY <1>1, <1>2, <1>3, <1>4, <1>5, <1>6, <1>7, <1>8, <1>9, <1>10
     DEF Next, CompoundStmt, Function

-----------------------------------------------------------------------------
(* The ghost execution: its state is well typed and parked where the       *)
(* analyzer will pass.                                                     *)

\* A store keeps the memory well typed, for a binding that has been declared.
LEMMA StoreOK ==
  ASSUME GhostOK, NEW b \in Binding, NEW elems \in SUBSET Elem, Store(b, elems),
         nextBindingId \in Nat, nextBindingId' \in Nat,
         nextBindingId <= nextBindingId', b < nextBindingId'
  PROVE  /\ mem' \in Elements
         /\ \A c \in Binding : mem'[c] # {} => c < nextBindingId'
<1>1. PICK new \in Elements : mem' = new /\ \A c \in Binding : c # b => new[c] = mem[c]
  BY DEF Store, GhostOK, Elements
<1>2. \A c \in Binding : mem[c] # {} => c < nextBindingId
  BY DEF GhostOK
<1>. QED
  BY <1>1, <1>2 DEF Binding

\* Where the execution may be after any step.
LEMMA ExecStep ==
  ASSUME FramesOK, exec \in Exec, Next
  PROVE  exec' \in Exec
<1>1. depth \in 0 .. MaxDepth /\ (depth > 0 => depth \in 1 .. MaxDepth)
      /\ (depth < MaxDepth => depth + 1 \in 1 .. MaxDepth)
  BY DEF FramesOK
<1>2. /\ Here \in Exec /\ Gone \in Exec /\ InStepAfterContinue \in Exec
      /\ \A d \in 1 .. MaxDepth, place \in {"else", "join", "exit", "step"} :
           Parked(place, d) \in Exec
  BY DEF Exec
<1>3. (depth > 1 => depth > 0) /\ EnclosingLoops \subseteq 1 .. MaxDepth
  BY <1>1 DEF EnclosingLoops
<1>4. CASE Reading
  BY <1>4, <1>2 DEF Reading, ReadName, ReadElement, ReadSlice, ReadDynamic, Load, Report
<1>5. CASE SimpleStmt
  <2>1. CASE Break
    BY <2>1, <1>2, <1>3 DEF Break, LoopControl, LeaveBody
  <2>2. CASE Continue
    BY <2>2, <1>2, <1>3 DEF Continue, LoopControl, LeaveBody
  <2>3. CASE ~Break /\ ~Continue
    BY <1>5, <2>3, <1>2 DEF SimpleStmt, LetInit, LetUninit, AssignName, AssignElement,
            CallOrStoreThroughPointer, Return, LoopControlOutsideLoop, Report, ghost
  <2>. QED BY <2>1, <2>2, <2>3
<1>6. CASE CompoundStmt
  <2>1. CASE OpenIf
    BY <2>1, <1>1, <1>2 DEF OpenIf, Push
  <2>2. CASE OpenElse
    BY <2>2, <1>1, <1>2 DEF OpenElse
  <2>3. CASE EnterWhileBody \/ EnterForBody
    BY <2>3, <1>1, <1>2 DEF EnterWhileBody, EnterForBody, Branch
  <2>4. CASE ~OpenIf /\ ~OpenElse /\ ~EnterWhileBody /\ ~EnterForBody
    BY <1>6, <2>4, <1>2 DEF CompoundStmt, OpenBlock, CloseBlock, CloseIf, Resume, OpenWhile,
            CloseWhile, LeaveLoop, OpenFor, EnterForHead, EnterForStep, CloseFor, ghost
  <2>. QED BY <2>1, <2>2, <2>3, <2>4
<1>7. CASE Function
  BY <1>7, <1>2 DEF Function, BeginFunction, EndFunction
<1>. QED BY <1>4, <1>5, <1>6, <1>7 DEF Next

\* Every step keeps the ghost state well typed.
LEMMA GhostStep ==
  ASSUME IInv, [Next]_vars
  PROVE  GhostOK'
<1>a. TrackingOK /\ FramesOK /\ GhostOK /\ rejected \in BOOLEAN /\ exec \in Exec
      /\ mem \in Elements /\ uninitRead \subseteq {"here", "continued"}
  BY TopFacts DEF GhostOK
<1>b. /\ nextBindingId \in Nat
      /\ scope \subseteq Binding /\ (\A b \in scope : b < nextBindingId)
      /\ \A b \in Binding : mem[b] # {} => b < nextBindingId
  BY <1>a, TrackingTypes DEF TrackingOK, GhostOK
<1>c. CASE UNCHANGED vars
  BY <1>a, <1>c DEF vars, analyzer, ghost, GhostOK
<1>d. CASE Next
  <2>1. exec' \in Exec
    BY <1>a, <1>d, ExecStep
  <2>2. rejected' \in BOOLEAN /\ uninitRead' \subseteq {"here", "continued"}
    <3>1. CASE Reading
      <4>1. PICK accepted, b, elems : Load(accepted, b, elems)
        BY <3>1 DEF Reading, ReadName, ReadElement, ReadSlice, ReadDynamic
      <4>2. Running => exec.at \in {"here", "continued"}
        BY DEF Running, Here, InStepAfterContinue
      <4>. QED BY <4>1, <4>2, <1>a DEF Load, Report
    <3>2. CASE SimpleStmt
      BY <1>a, <3>2 DEF SimpleStmt, LetInit, LetUninit, AssignName, AssignElement,
              CallOrStoreThroughPointer, Return, Break, Continue, LoopControl,
              LoopControlOutsideLoop, Report, ghost
    <3>3. CASE CompoundStmt
      BY <1>a, <3>3 DEF CompoundStmt, OpenBlock, CloseBlock, OpenIf,
              OpenElse, CloseIf, OpenWhile, EnterWhileBody, CloseWhile, OpenFor,
              EnterForHead, EnterForBody, EnterForStep, CloseFor, ghost
    <3>4. CASE Function
      <4>1. ASSUME NEW count \in 0 .. MaxBinding, NEW arrayParameters \in SUBSET (1 .. count),
                   BeginFunction(count, arrayParameters)
            PROVE  UNCHANGED <<rejected, uninitRead>>
        BY <4>1 DEF BeginFunction
      <4>2. ASSUME NEW isVoid \in BOOLEAN, EndFunction(isVoid)
            PROVE  UNCHANGED uninitRead /\ rejected' \in BOOLEAN
        BY <4>2 DEF EndFunction
      <4>. QED BY <1>a, <3>4, <4>1, <4>2 DEF Function
    <3>. QED BY <1>d, <3>1, <3>2, <3>3, <3>4 DEF Next
  <2>3. /\ mem' \in Elements
        /\ \A b \in Binding : mem'[b] # {} => b < nextBindingId'
    <3>1. CASE UNCHANGED <<mem, nextBindingId>>
      BY <1>a, <1>b, <3>1
    <3>2. ASSUME NEW isArray \in BOOLEAN, LetInit(isArray) \/ LetUninit(isArray)
          PROVE  /\ mem' \in Elements
                 /\ \A b \in Binding : mem'[b] # {} => b < nextBindingId'
      <4>1. nextBindingId \in Binding /\ nextBindingId' = nextBindingId + 1
        BY <3>2 DEF LetInit, LetUninit, declareLocal
      <4>2. Store(nextBindingId, Elem) \/ mem' = mem
        BY <3>2 DEF LetInit, LetUninit, ghost
      <4>3. /\ nextBindingId' \in Nat /\ nextBindingId <= nextBindingId'
            /\ nextBindingId < nextBindingId' /\ Elem \in SUBSET Elem
        BY <4>1, <1>b
      <4>4. CASE mem' = mem
        BY <4>1, <4>4, <1>a, <1>b DEF Binding
      <4>5. CASE Store(nextBindingId, Elem)
        BY <4>1, <4>3, <4>5, <1>a, <1>b, StoreOK
      <4>. QED BY <4>2, <4>4, <4>5
    <3>3. ASSUME NEW b \in Binding, NEW elems \in SUBSET Elem,
                 b \in scope, Store(b, elems), UNCHANGED nextBindingId
          PROVE  /\ mem' \in Elements
                 /\ \A c \in Binding : mem'[c] # {} => c < nextBindingId'
      BY <3>3, <1>a, <1>b, StoreOK
    <3>4. CASE ArriveAtHead /\ UNCHANGED nextBindingId
      <4>1. ASSUME NEW stored \in [scope -> SUBSET Elem],
                   mem' = [b \in Binding |-> IF b \in scope THEN mem[b] \cup stored[b]
                                            ELSE mem[b]]
            PROVE  /\ mem' \in Elements
                   /\ \A c \in Binding : mem'[c] # {} => c < nextBindingId
        BY <4>1, <1>a, <1>b DEF Elements
      <4>. QED BY <3>4, <4>1, <1>a, <1>b DEF ArriveAtHead
    <3>5. CASE Reading
      BY <3>1, <3>5 DEF Reading, ReadName, ReadElement, ReadSlice, ReadDynamic, Load
    <3>6. CASE SimpleStmt
      <4>1. CASE \/ CallOrStoreThroughPointer \/ Return \/ Break \/ Continue
                 \/ LoopControlOutsideLoop
        BY <3>1, <4>1 DEF CallOrStoreThroughPointer, Return, Break, Continue, LoopControl,
                LoopControlOutsideLoop, ghost
      <4>2. ASSUME NEW b \in Binding, AssignName(b)
            PROVE  /\ mem' \in Elements
                   /\ \A c \in Binding : mem'[c] # {} => c < nextBindingId'
        <5>1. Elem \in SUBSET Elem
          OBVIOUS
        <5>. QED BY <3>3, <4>2, <5>1 DEF AssignName
      <4>3. ASSUME NEW b \in Binding, NEW k \in Elem, NEW isConstant \in BOOLEAN,
                   AssignElement(b, k, isConstant)
            PROVE  /\ mem' \in Elements
                   /\ \A c \in Binding : mem'[c] # {} => c < nextBindingId'
        <5>1. PICK elems \in SUBSET Elem : elems = {k}
          OBVIOUS
        <5>2. b \in scope /\ Store(b, elems) /\ UNCHANGED nextBindingId
          BY <4>3, <5>1 DEF AssignElement
        <5>. QED BY <3>3, <5>2
      <4>. QED BY <3>2, <3>6, <4>1, <4>2, <4>3 DEF SimpleStmt
    <3>7. CASE CompoundStmt
      BY <3>1, <3>4, <3>7 DEF CompoundStmt, OpenBlock, CloseBlock, OpenIf,
              OpenElse, CloseIf, OpenWhile, EnterWhileBody, CloseWhile, OpenFor,
              EnterForHead, EnterForBody, EnterForStep, CloseFor, ghost
    <3>8. CASE Function
      <4>1. ASSUME NEW count \in 0 .. MaxBinding, NEW arrayParameters \in SUBSET (1 .. count),
                   BeginFunction(count, arrayParameters)
            PROVE  /\ mem' \in Elements
                   /\ \A b \in Binding : mem'[b] # {} => b < nextBindingId'
        BY <4>1 DEF BeginFunction, Elements, Binding
      <4>2. ASSUME NEW isVoid \in BOOLEAN, EndFunction(isVoid)
            PROVE  mem' = NoElements
        BY <4>2 DEF EndFunction
      <4>. QED BY <3>8, <4>1, <4>2, NoElementsType DEF Function, NoElements
    <3>. QED BY <1>d, <3>5, <3>6, <3>7, <3>8 DEF Next
  <2>. QED BY <2>1, <2>2, <2>3 DEF GhostOK
<1>. QED BY <1>c, <1>d

-----------------------------------------------------------------------------
(* How each operation on the activation records changes them.              *)

\* What a simple statement does to the stack, frame by frame.
LEMMA CompleteStmtEffect ==
  ASSUME FramesOK, StmtAllowed(Slot), NEW r \in BOOLEAN, CompleteStmt(r)
  PROVE  /\ depth' = depth /\ depth \in 1 .. MaxDepth
         /\ \A d \in 1 .. depth : d # depth => frames'[d] = frames[d]
         /\ top \in Frame /\ top.at \in Slot
         /\ frames'[depth] = Completed(top, r)
BY DEF CompleteStmt, Rephase, StmtAllowed, FramesOK, top

\* What replacing the top record does to the stack, frame by frame.
LEMMA RephaseEffect ==
  ASSUME FramesOK, depth > 0, NEW f \in Frame, Rephase(f)
  PROVE  /\ depth' = depth /\ depth \in 1 .. MaxDepth
         /\ \A d \in 1 .. depth : d # depth => frames'[d] = frames[d]
         /\ frames'[depth] = f
BY DEF Rephase, FramesOK

\* What a push does to the stack, frame by frame.
LEMMA PushEffect ==
  ASSUME FramesOK, NEW f, Push(f)
  PROVE  /\ depth' = depth + 1 /\ depth + 1 \in 1 .. MaxDepth
         /\ \A d \in 1 .. depth : frames'[d] = frames[d]
         /\ frames'[depth + 1] = f
BY DEF Push, FramesOK

\* What a pop does to the stack, frame by frame.
LEMMA PopEffect ==
  ASSUME FramesOK, StackInv, depth > 1, NEW r \in BOOLEAN, PopInto(r)
  PROVE  /\ depth' = depth - 1 /\ depth - 1 \in 1 .. MaxDepth /\ depth \in 1 .. MaxDepth
         /\ \A d \in 1 .. depth - 1 : d # depth - 1 => frames'[d] = frames[d]
         /\ frames[depth - 1] \in Frame /\ frames[depth - 1].at \in Slot
         /\ frames'[depth - 1] = Completed(frames[depth - 1], r)
BY DEF PopInto, FramesOK, StackInv, Slot

\* The end of a part belongs to the same statement as the part.
LEMMA EndOfPhase ==
  ASSUME NEW at \in Slot
  PROVE  /\ \A place \in {"else", "join", "exit", "step"} :
              at \in ParkedPhase(place) => EndOf(at) \in ParkedPhase(place)
         /\ EndOf(at) \in LoopPhase => at \in LoopPhase
         /\ at = "forStep" => EndOf(at) = "forStepEnd"
BY DEF Slot, BodySlot, EndOf, LoopPhase, ParkedPhase

\* Where the execution is, told by the fields of exec.
LEMMA ExecFacts ==
  ASSUME exec \in Exec
  PROVE  /\ exec.depth \in 0 .. MaxDepth
         /\ Running <=> exec.at \in {"here", "continued"}
         /\ exec = Here <=> exec.at = "here"
         /\ exec = InStepAfterContinue <=> exec.at = "continued"
         /\ exec.depth > 0 <=> exec.at \in {"else", "join", "exit", "step"}
         /\ \A place, d : exec = Parked(place, d) <=> exec.at = place /\ exec.depth = d
BY DEF Exec, Running, Here, Gone, InStepAfterContinue, Parked

\* The fields of a parked execution.
LEMMA ParkedFields ==
  /\ Here.at = "here" /\ Here.depth = 0
  /\ Gone.at = "gone" /\ Gone.depth = 0
  /\ InStepAfterContinue.at = "continued" /\ InStepAfterContinue.depth = 0
  /\ \A place, d : Parked(place, d).at = place /\ Parked(place, d).depth = d
BY DEF Here, Gone, InStepAfterContinue, Parked

\* An execution that stays where it is, or is not parked any more.
LEMMA ParkingStill ==
  ASSUME exec \in Exec, FramesOK, ParkingInv,
         exec' = exec \/ exec' = Gone \/ exec' = Here,
         exec' = exec => exec.depth <= depth',
         exec' = exec /\ exec.depth > 0 =>
           frames'[exec.depth].at \in ParkedPhase(exec.at),
         exec' = exec /\ exec.at = "continued" =>
           depth' > 0 /\ frames'[depth'].at \in {"forStep", "forStepEnd"},
         depth' >= 0
  PROVE  ParkingInv'
<1>1. CASE exec' = exec
  BY <1>1, ExecFacts DEF ParkingInv, top
<1>2. CASE exec' = Gone \/ exec' = Here
  <2>1. /\ exec'.depth = 0 /\ exec'.at \in {"here", "gone"}
    BY <1>2, ParkedFields
  <2>2. exec' # InStepAfterContinue
    BY <2>1, ParkedFields
  <2>. QED BY <2>1, <2>2 DEF ParkingInv
<1>. QED BY <1>1, <1>2

\* Every step keeps a parked execution at a place the analyzer will pass.
LEMMA ParkingStep ==
  ASSUME IInv, [Next]_vars
  PROVE  ParkingInv'
<1>a. FramesOK /\ StackInv /\ ParkingInv /\ exec \in Exec /\ depth \in 0 .. MaxDepth
  BY TopFacts DEF GhostOK
<1>b. BodySlot \subseteq Slot /\ (depth > 1 => depth > 0)
  BY <1>a DEF Slot
<1>c. /\ exec.depth \in 0 .. depth
      /\ exec.depth > 0 => /\ exec.depth \in 1 .. depth
                           /\ exec.at \in {"else", "join", "exit", "step"}
                           /\ frames[exec.depth].at \in ParkedPhase(exec.at)
      /\ exec.at = "continued" => exec.depth = 0
                                  /\ depth > 0 /\ top.at \in {"forStep", "forStepEnd"}
      /\ Running <=> exec.at \in {"here", "continued"}
      /\ \A place, d : exec = Parked(place, d) <=> exec.at = place /\ exec.depth = d
  BY <1>a, ExecFacts DEF ParkingInv
<1>1. CASE Reading
  <2>1. UNCHANGED <<frames, depth>> /\ (exec' = exec \/ exec' = Gone)
    BY <1>1 DEF Reading, ReadName, ReadElement, ReadSlice, ReadDynamic, Load, Report
  <2>. QED BY <1>a, <1>c, <2>1, ParkingStill DEF top
<1>2. CASE SimpleStmt
  <2>1. PICK r \in BOOLEAN : StmtAllowed(Slot) /\ CompleteStmt(r)
    BY <1>2 DEF SimpleStmt, LetInit, LetUninit, AssignName, AssignElement,
                CallOrStoreThroughPointer, Return, Break, Continue, LoopControl,
                LoopControlOutsideLoop, StmtAllowed, Slot
  <2>2. /\ depth' = depth /\ depth \in 1 .. MaxDepth
        /\ \A d \in 1 .. depth : d # depth => frames'[d] = frames[d]
        /\ top \in Frame /\ top.at \in Slot
        /\ frames'[depth].at = EndOf(top.at)
    BY <1>a, <2>1, CompleteStmtEffect, CompletedType
  <2>3. ASSUME NEW d \in 1 .. depth, NEW place \in {"else", "join", "exit", "step"},
               frames[d].at \in ParkedPhase(place)
        PROVE  frames'[d].at \in ParkedPhase(place)
    BY <2>2, <2>3, EndOfPhase DEF top
  <2>4. CASE exec' = exec \/ exec' = Gone
    <3>1. exec.at = "continued" => frames'[depth].at \in {"forStep", "forStepEnd"}
      BY <2>2, <1>c, EndOfPhase DEF Slot, BodySlot
    <3>. QED BY <1>a, <1>c, <2>2, <2>3, <2>4, <3>1, ParkingStill
  <2>5. CASE ~(exec' = exec \/ exec' = Gone)
    <3>1. PICK place \in {"exit", "step"} : LoopControl(place) /\ ~UNCHANGED exec /\ exec' # Gone
      BY <1>2, <2>5 DEF SimpleStmt, LetInit, LetUninit, AssignName, AssignElement,
                CallOrStoreThroughPointer, Return, Break, Continue,
                LoopControlOutsideLoop, Report, ghost
    <3>2. PICK d \in EnclosingLoops :
            exec' = Parked(place, d) /\ ~(place = "step" /\ frames[d].at = "whileBody")
      BY <3>1 DEF LoopControl, LeaveBody
    <3>3. d \in 1 .. depth /\ frames[d].at \in ParkedPhase(place)
      BY <3>2 DEF EnclosingLoops, ParkedPhase, LoopPhase
    <3>4. frames'[d].at \in ParkedPhase(place)
      BY <2>3, <3>3
    <3>5. exec'.at = place /\ exec'.depth = d /\ exec' # InStepAfterContinue
      BY <3>2, ParkedFields
    <3>. QED BY <2>2, <3>3, <3>4, <3>5 DEF ParkingInv
  <2>. QED BY <2>4, <2>5
<1>3. CASE OpenBlock \/ OpenIf \/ OpenWhile \/ OpenFor
  <2>1. PICK f : Push(f) /\ (OpenIf => f.at = "then")
    BY <1>3, <1>a, TopFacts, ActivationType
       DEF OpenBlock, OpenIf, OpenWhile, OpenFor, Phase, Slot, BodySlot
  <2>2. /\ depth' = depth + 1 /\ depth + 1 \in 1 .. MaxDepth
        /\ \A d \in 1 .. depth : frames'[d] = frames[d]
        /\ frames'[depth + 1] = f
    BY <1>a, <2>1, PushEffect
  <2>3. exec.at # "continued"
    BY <1>3, <1>c DEF OpenBlock, OpenIf, OpenWhile, OpenFor, StmtAllowed, BodySlot
  <2>4. CASE exec' = exec
    BY <1>a, <1>c, <2>2, <2>3, <2>4, ParkingStill
  <2>5. CASE exec' # exec
    <3>1. OpenIf /\ exec' = Parked("else", depth + 1)
      BY <1>3, <2>5 DEF OpenBlock, OpenIf, OpenWhile, OpenFor, ghost
    <3>2. exec'.at = "else" /\ exec'.depth = depth + 1 /\ exec' # InStepAfterContinue
      BY <3>1, ParkedFields
    <3>. QED BY <2>1, <2>2, <3>1, <3>2 DEF ParkingInv, ParkedPhase
  <2>. QED BY <2>4, <2>5
<1>4. CASE OpenElse
  <2>1. PICK f : Rephase(f) /\ f = [top EXCEPT !.at = "else",
                                               !.afterThen = definiteAssign,
                                               !.afterThenArrays = arrayElemAssign,
                                               !.thenReturns = top.returns,
                                               !.returns = FALSE]
    BY <1>4 DEF OpenElse
  <2>2. depth > 0 /\ top.at = "thenEnd" /\ top \in Frame
    BY <1>4, TopFacts DEF OpenElse
  <2>3. f \in Frame /\ f.at = "else"
    BY <2>1, <2>2, TopFacts, TrackingTypes DEF Frame, Phase, Slot, BodySlot
  <2>4. /\ depth' = depth /\ depth \in 1 .. MaxDepth
        /\ \A d \in 1 .. depth : d # depth => frames'[d] = frames[d]
        /\ frames'[depth] = f
    BY <1>a, <2>1, <2>2, <2>3, RephaseEffect
  <2>5. exec.at # "continued" /\ (exec.depth = depth => exec.at = "else")
    BY <1>c, <2>2 DEF top, ParkedPhase, LoopPhase
  <2>6. CASE exec' = exec \/ exec' = Here
    <3>1. exec' = exec => exec.depth # depth
      BY <1>4, <1>c, <2>2, <2>4, <2>5, ParkedFields DEF OpenElse
    <3>. QED BY <1>a, <1>c, <2>4, <2>5, <2>6, <3>1, ParkingStill
  <2>7. CASE exec' = Parked("join", depth)
    <3>1. exec'.at = "join" /\ exec'.depth = depth /\ exec' # InStepAfterContinue
      BY <2>7, ParkedFields
    <3>. QED BY <2>3, <2>4, <3>1 DEF ParkingInv, ParkedPhase
  <2>. QED BY <1>4, <2>6, <2>7 DEF OpenElse
<1>5. CASE EnterWhileBody \/ EnterForBody
  <2>1. PICK at \in {"whileBody", "forBody"} : Rephase([top EXCEPT !.at = at])
    BY <1>5 DEF EnterWhileBody, EnterForBody
  <2>2. depth > 0 /\ top.at \in {"whileCond", "forCond"} /\ top \in Frame
    BY <1>5, TopFacts DEF EnterWhileBody, EnterForBody
  <2>3. PICK f \in Frame : Rephase(f) /\ f.at = at
    BY <2>1, <2>2 DEF Frame, Phase, Slot, BodySlot
  <2>4. /\ depth' = depth /\ depth \in 1 .. MaxDepth
        /\ \A d \in 1 .. depth : d # depth => frames'[d] = frames[d]
        /\ frames'[depth].at = at
    BY <1>a, <2>2, <2>3, RephaseEffect
  <2>5. exec.at # "continued" /\ (exec.depth = depth => exec.at = "exit")
    BY <1>c, <2>2, <2>4 DEF top, ParkedPhase, LoopPhase
  <2>6. CASE exec' = exec
    <3>1. exec.depth = depth => frames'[exec.depth].at \in ParkedPhase(exec.at)
      BY <2>4, <2>5 DEF ParkedPhase, LoopPhase
    <3>. QED BY <1>a, <1>c, <2>4, <2>5, <2>6, <3>1, ParkingStill
  <2>7. CASE exec' = Parked("exit", depth)
    <3>1. exec'.at = "exit" /\ exec'.depth = depth /\ exec' # InStepAfterContinue
      BY <2>7, ParkedFields
    <3>. QED BY <2>4, <3>1 DEF ParkingInv, ParkedPhase, LoopPhase
  <2>. QED BY <1>5, <2>6, <2>7 DEF EnterWhileBody, EnterForBody, Branch
<1>6. CASE EnterForHead
  <2>1. PICK f : Rephase(f) /\ f = [top EXCEPT !.at = "forCond",
                                               !.before = definiteAssign,
                                               !.beforeArrays = arrayElemAssign]
    BY <1>6 DEF EnterForHead
  <2>2. /\ depth > 0 /\ top.at \in {"forInit", "forInitEnd"} /\ top \in Frame
        /\ exec' = exec
    BY <1>6, TopFacts DEF EnterForHead
  <2>3. f \in Frame
    BY <2>1, <2>2, TopFacts, TrackingTypes DEF Frame, Phase, Slot, BodySlot
  <2>4. /\ depth' = depth /\ depth \in 1 .. MaxDepth
        /\ \A d \in 1 .. depth : d # depth => frames'[d] = frames[d]
    BY <1>a, <2>1, <2>2, <2>3, RephaseEffect
  <2>5. exec.at # "continued" /\ exec.depth # depth
    BY <1>c, <2>2, <2>4 DEF top, ParkedPhase, LoopPhase
  <2>. QED BY <1>a, <1>c, <2>2, <2>4, <2>5, ParkingStill
<1>7. CASE EnterForStep
  <2>1. PICK f : Rephase(f) /\ f = [top EXCEPT !.at = "forStep", !.returns = FALSE]
    BY <1>7 DEF EnterForStep
  <2>2. depth > 0 /\ top.at = "forBodyEnd" /\ top \in Frame
    BY <1>7, TopFacts DEF EnterForStep
  <2>3. f \in Frame /\ f.at = "forStep"
    BY <2>1, <2>2 DEF Frame, Phase, Slot, BodySlot
  <2>4. /\ depth' = depth /\ depth \in 1 .. MaxDepth
        /\ \A d \in 1 .. depth : d # depth => frames'[d] = frames[d]
        /\ frames'[depth].at = "forStep"
    BY <1>a, <2>1, <2>2, <2>3, RephaseEffect
  <2>5. exec.at # "continued" /\ (exec.depth = depth => exec.at \in {"exit", "step"})
    BY <1>c, <2>2, <2>4 DEF top, ParkedPhase, LoopPhase
  <2>6. CASE exec = Parked("step", depth)
    <3>1. exec' = InStepAfterContinue
      BY <1>7, <2>6 DEF EnterForStep
    <3>. QED BY <2>4, <3>1, ParkedFields DEF ParkingInv, top
  <2>7. CASE exec # Parked("step", depth)
    <3>1. exec' = exec /\ (exec.depth = depth => exec.at = "exit")
      BY <1>7, <1>c, <2>5, <2>7 DEF EnterForStep
    <3>2. exec.depth = depth => frames'[exec.depth].at \in ParkedPhase(exec.at)
      BY <2>4, <3>1 DEF ParkedPhase, LoopPhase
    <3>. QED BY <1>a, <1>c, <2>4, <2>5, <3>1, <3>2, ParkingStill
  <2>. QED BY <2>6, <2>7
<1>8. ASSUME NEW r \in BOOLEAN, depth > 1, PopInto(r),
             exec' \in {exec, Here, Gone},
             exec' = exec => exec.depth # depth /\ exec.at # "continued"
      PROVE  ParkingInv'
  <2>1. /\ depth' = depth - 1 /\ depth - 1 \in 1 .. MaxDepth /\ depth \in 1 .. MaxDepth
        /\ \A d \in 1 .. depth - 1 : d # depth - 1 => frames'[d] = frames[d]
        /\ frames[depth - 1].at \in Slot
        /\ frames'[depth - 1].at = EndOf(frames[depth - 1].at)
    BY <1>a, <1>8, PopEffect, CompletedType
  <2>2. exec' = exec => exec.depth \in 0 .. depth - 1
    BY <1>8, <1>c, <2>1
  <2>3. exec' = exec /\ exec.depth > 0 => frames'[exec.depth].at \in ParkedPhase(exec.at)
    BY <1>c, <2>1, <2>2, EndOfPhase
  <2>. QED BY <1>8, <1>a, <2>1, <2>2, <2>3, ParkingStill
<1>9. CASE CloseBlock
  <2>1. depth > 1 /\ top.at = "block" /\ top \in Frame /\ depth \in 1 .. MaxDepth
    BY <1>9, TopFacts DEF CloseBlock
  <2>2. top.returns \in BOOLEAN /\ PopInto(top.returns) /\ exec' = exec
    BY <1>9, <2>1 DEF CloseBlock, Frame, ghost
  <2>3. exec.depth # depth /\ exec.at # "continued"
    BY <1>c, <2>1 DEF top, ParkedPhase, LoopPhase
  <2>. QED BY <1>8, <2>1, <2>2, <2>3
<1>10. ASSUME NEW hasElse \in BOOLEAN, CloseIf(hasElse)
       PROVE  ParkingInv'
  <2>1. PICK r \in BOOLEAN : PopInto(r)
    BY <1>10 DEF CloseIf, ifReturns
  <2>2. PICK place \in {"join", "else"} :
          /\ depth > 1 /\ Resume(place)
          /\ top.at = (IF place = "join" THEN "elseEnd" ELSE "thenEnd")
    BY <1>10 DEF CloseIf
  <2>3. exec.at # "continued" /\ (exec.depth = depth => exec.at = place)
    BY <1>c, <2>2 DEF top, ParkedPhase, LoopPhase
  <2>4. exec' \in {exec, Here} /\ (exec' = exec => exec.depth # depth)
    BY <1>c, <2>2, <2>3, ParkedFields DEF Resume
  <2>. QED BY <1>8, <2>1, <2>2, <2>3, <2>4
<1>11. CASE CloseWhile \/ CloseFor
  <2>1. /\ depth > 1 /\ PopInto(FALSE) /\ LeaveLoop
        /\ top.at \in {"whileBodyEnd", "forBodyEnd", "forStepEnd"}
    BY <1>11 DEF CloseWhile, CloseFor
  <2>2. exec.depth = depth => exec.at \in {"exit", "step"}
    BY <1>c, <2>1 DEF top, ParkedPhase, LoopPhase
  <2>3. /\ exec' \in {exec, Here, Gone}
        /\ exec' = exec => exec.depth # depth /\ exec.at # "continued"
    BY <1>c, <2>1, <2>2, ParkedFields DEF LeaveLoop
  <2>. QED BY <1>8, <2>1, <2>3
<1>12. CASE Function
  <2>1. exec' \in {Here, Gone} /\ depth' \in {0, 1} /\ exec' # InStepAfterContinue
    BY <1>12, ParkedFields DEF Function, BeginFunction, EndFunction
  <2>2. exec'.depth = 0
    BY <2>1, ParkedFields
  <2>. QED BY <2>1, <2>2 DEF ParkingInv
<1>13. CASE UNCHANGED vars
  BY <1>13, <1>a DEF vars, analyzer, ghost, ParkingInv, top
<1>. QED
  BY <1>1, <1>2, <1>3, <1>4, <1>5, <1>6, <1>7, <1>9, <1>10, <1>11, <1>12, <1>13
     DEF Next, CompoundStmt

-----------------------------------------------------------------------------
(* Code that returns is left.                                              *)

\* It is enough that an execution inside returning code does not move on.
LEMMA LeftStill ==
  ASSUME exec \in Exec,
         \A d \in 1 .. depth' :
           frames'[d].returns =>
             exec' = Gone \/ (exec' = exec /\ ~Running /\ exec.depth <= d)
  PROVE  ReturningCodeIsLeft'
<1>1. SUFFICES ASSUME NEW d \in 1 .. depth', frames'[d].returns
               PROVE  ~Running' /\ exec'.depth <= d
  BY DEF ReturningCodeIsLeft
<1>2. CASE exec' = Gone
  BY <1>2 DEF Running, Here, Gone, InStepAfterContinue
<1>3. CASE exec' = exec /\ ~Running /\ exec.depth <= d
  BY <1>3 DEF Running
<1>. QED BY <1>1, <1>2, <1>3

\* Every step preserves that code said to return is left.
LEMMA ReturningStep ==
  ASSUME IInv, [Next]_vars
  PROVE  ReturningCodeIsLeft'
<1>a. FramesOK /\ StackInv /\ exec \in Exec /\ depth \in 0 .. MaxDepth
      /\ BodySlot \subseteq Slot
  BY TopFacts DEF GhostOK, Slot
<1>b. /\ \A d \in 1 .. depth : frames[d].returns => ~Running /\ exec.depth <= d
      /\ exec.depth \in 0 .. depth
  BY TopFacts, ExecFacts DEF GhostOK, ReturningCodeIsLeft, ParkingInv
<1>c. /\ exec.depth > 0 => /\ exec.at \in {"else", "join", "exit", "step"}
                           /\ frames[exec.depth].at \in ParkedPhase(exec.at)
      /\ Running <=> exec.at \in {"here", "continued"}
      /\ \A place, d : exec = Parked(place, d) <=> exec.at = place /\ exec.depth = d
  BY <1>a, TopFacts, ExecFacts DEF ParkingInv
<1>1. CASE Reading
  <2>1. UNCHANGED <<frames, depth>> /\ (exec' = exec \/ exec' = Gone)
    BY <1>1 DEF Reading, ReadName, ReadElement, ReadSlice, ReadDynamic, Load, Report
  <2>. QED BY <1>a, <1>b, <2>1, LeftStill
<1>2. ASSUME NEW r \in BOOLEAN, StmtAllowed(Slot), CompleteStmt(r),
             r => exec' = Gone \/ (exec' = exec /\ ~Running),
             ~Running => exec' = Gone \/ exec' = exec
      PROVE  ReturningCodeIsLeft'
  <2>1. /\ depth' = depth /\ depth \in 1 .. MaxDepth
        /\ \A d \in 1 .. depth : d # depth => frames'[d] = frames[d]
        /\ frames'[depth].returns <=> frames[depth].returns \/ r
    BY <1>a, <1>2, CompleteStmtEffect, CompletedType DEF top
  <2>. QED BY <1>a, <1>b, <1>2, <2>1, LeftStill
<1>3. CASE SimpleStmt
  <2>1. CASE Return
    <3>1. StmtAllowed(Slot) /\ CompleteStmt(TRUE) /\ exec' = IF Running THEN Gone ELSE exec
      BY <2>1, <1>a DEF Return, StmtAllowed
    <3>. QED BY <1>2, <3>1
  <2>2. CASE ~Return
    <3>1. /\ StmtAllowed(Slot) /\ CompleteStmt(FALSE)
          /\ ~Running => exec' = Gone \/ exec' = exec
      BY <1>3, <2>2 DEF SimpleStmt, LetInit, LetUninit, AssignName, AssignElement,
                CallOrStoreThroughPointer, Break, Continue, LoopControl, Report, ghost,
                LoopControlOutsideLoop, StmtAllowed, Slot
    <3>. QED BY <1>2, <3>1
  <2>. QED BY <2>1, <2>2
<1>4. CASE OpenBlock \/ OpenIf \/ OpenWhile \/ OpenFor
  <2>1. PICK f : Push(f) /\ f.returns = FALSE
    <3>1. CASE OpenBlock \/ OpenFor
      <4>1. PICK part : Push([NoFrame EXCEPT !.at = part, !.outer = scope])
        BY <3>1 DEF OpenBlock, OpenFor
      <4>2. [NoFrame EXCEPT !.at = part, !.outer = scope].returns = FALSE
        BY DEF NoFrame
      <4>. QED BY <4>1, <4>2
    <3>2. CASE OpenIf \/ OpenWhile
      <4>1. PICK part : Push(Activation(part))
        BY <3>2 DEF OpenIf, OpenWhile
      <4>2. Activation(part).returns = FALSE
        BY DEF Activation, NoFrame
      <4>. QED BY <4>1, <4>2
    <3>. QED BY <1>4, <3>1, <3>2
  <2>2. /\ depth' = depth + 1
        /\ \A d \in 1 .. depth : frames'[d] = frames[d]
        /\ frames'[depth + 1].returns = FALSE
    BY <1>a, <2>1, PushEffect
  <2>3. ~Running => exec' = exec
    BY <1>4 DEF OpenBlock, OpenIf, OpenWhile, OpenFor, ghost
  <2>. QED BY <1>a, <1>b, <2>2, <2>3, LeftStill
<1>5. ASSUME depth > 0, NEW f \in Frame, Rephase(f),
             f.returns => top.returns,
             ~Running /\ (exec.depth = depth => top.returns) =>
               exec' = exec \/ (f.returns = FALSE /\ exec.depth = depth)
      PROVE  ReturningCodeIsLeft'
  <2>1. /\ depth' = depth /\ depth \in 1 .. MaxDepth
        /\ \A d \in 1 .. depth : d # depth => frames'[d] = frames[d]
        /\ frames'[depth] = f
    BY <1>a, <1>5, RephaseEffect
  <2>2. ASSUME NEW d \in 1 .. depth, frames'[d].returns
        PROVE  exec' = exec /\ ~Running /\ exec.depth <= d
    <3>1. frames[d].returns /\ (d = depth => f.returns)
      BY <1>5, <2>1, <2>2 DEF top
    <3>2. ~Running /\ exec.depth <= d
      BY <1>b, <3>1
    <3>3. CASE d = depth
      BY <1>5, <3>1, <3>2, <3>3 DEF top
    <3>4. CASE d # depth
      <4>1. exec.depth # depth
        BY <3>2, <3>4, <2>1, <1>b
      <4>. QED BY <1>5, <3>2, <4>1
    <3>. QED BY <3>3, <3>4
  <2>. QED BY <1>a, <2>1, <2>2, LeftStill
<1>6. CASE OpenElse
  <2>1. PICK f : Rephase(f) /\ f = [top EXCEPT !.at = "else",
                                               !.afterThen = definiteAssign,
                                               !.afterThenArrays = arrayElemAssign,
                                               !.thenReturns = top.returns,
                                               !.returns = FALSE]
    BY <1>6 DEF OpenElse
  <2>2. depth > 0 /\ top \in Frame
    BY <1>6, TopFacts DEF OpenElse
  <2>3. f \in Frame /\ f.returns = FALSE
    BY <2>1, <2>2, TopFacts, TrackingTypes DEF Frame, Phase, Slot, BodySlot
  <2>4. ~Running /\ exec.depth # depth => exec' = exec
    BY <1>6, <1>c DEF OpenElse
  <2>. QED BY <1>5, <2>1, <2>2, <2>3, <2>4
<1>7. CASE EnterWhileBody \/ EnterForBody \/ EnterForHead
  <2>1. depth > 0 /\ top \in Frame /\ (~Running => exec' = exec)
    BY <1>7, TopFacts DEF EnterWhileBody, EnterForBody, EnterForHead, Branch
  <2>2. PICK f \in Frame : Rephase(f) /\ f.returns = top.returns
    <3>1. CASE EnterForHead
      <4>1. PICK f : Rephase(f) /\ f = [top EXCEPT !.at = "forCond",
                                                   !.before = definiteAssign,
                                                   !.beforeArrays = arrayElemAssign]
        BY <3>1 DEF EnterForHead
      <4>2. f \in Frame
        BY <2>1, <4>1, TopFacts, TrackingTypes DEF Frame, Phase, Slot, BodySlot
      <4>3. f.returns = top.returns
        BY <2>1, <4>1 DEF Frame
      <4>. QED BY <4>1, <4>2, <4>3
    <3>2. CASE EnterWhileBody \/ EnterForBody
      <4>1. PICK at \in {"whileBody", "forBody"} : Rephase([top EXCEPT !.at = at])
        BY <3>2 DEF EnterWhileBody, EnterForBody
      <4>. QED BY <2>1, <4>1 DEF Frame, Phase, Slot, BodySlot
    <3>. QED BY <1>7, <3>1, <3>2
  <2>. QED BY <1>5, <2>1, <2>2
<1>8. CASE EnterForStep
  <2>1. PICK f : Rephase(f) /\ f = [top EXCEPT !.at = "forStep", !.returns = FALSE]
    BY <1>8 DEF EnterForStep
  <2>2. depth > 0 /\ top \in Frame
    BY <1>8, TopFacts DEF EnterForStep
  <2>3. f \in Frame /\ f.returns = FALSE
    BY <2>1, <2>2 DEF Frame, Phase, Slot, BodySlot
  <2>4. exec.depth # depth => exec' = exec
    BY <1>8, <1>c DEF EnterForStep
  <2>. QED BY <1>5, <2>1, <2>2, <2>3, <2>4
<1>9. ASSUME NEW r \in BOOLEAN, depth > 1, PopInto(r),
             r => ~Running /\ exec.depth # depth,
             ~Running /\ exec.depth # depth => exec' = exec
      PROVE  ReturningCodeIsLeft'
  <2>1. /\ depth' = depth - 1 /\ depth - 1 \in 1 .. MaxDepth
        /\ \A d \in 1 .. depth - 1 : d # depth - 1 => frames'[d] = frames[d]
        /\ frames'[depth - 1].returns <=> frames[depth - 1].returns \/ r
    BY <1>a, <1>9, PopEffect, CompletedType
  <2>2. ASSUME NEW d \in 1 .. depth - 1, frames'[d].returns
        PROVE  exec' = exec /\ ~Running /\ exec.depth <= d
    <3>1. frames[d].returns \/ (d = depth - 1 /\ r)
      BY <2>1, <2>2
    <3>2. d \in 1 .. depth
      BY <2>1, <1>a
    <3>3. CASE frames[d].returns
      <4>1. ~Running /\ exec.depth <= d
        BY <1>b, <3>2, <3>3
      <4>2. exec.depth # depth
        BY <4>1, <1>b, <1>a
      <4>. QED BY <1>9, <4>1, <4>2
    <3>4. CASE d = depth - 1 /\ r
      BY <1>9, <3>4, <1>a, <1>b
    <3>. QED BY <3>1, <3>3, <3>4
  <2>. QED BY <1>a, <2>1, <2>2, LeftStill
<1>10. CASE CloseBlock
  <2>1. depth > 1 /\ top.at = "block" /\ top \in Frame /\ depth \in 1 .. MaxDepth
    BY <1>10, TopFacts DEF CloseBlock
  <2>2. top.returns \in BOOLEAN /\ PopInto(top.returns) /\ exec' = exec
    BY <1>10, <2>1 DEF CloseBlock, Frame, ghost
  <2>3. exec.depth # depth
    BY <1>c, <2>1 DEF top, ParkedPhase, LoopPhase
  <2>4. top.returns => ~Running
    BY <1>b, <2>1 DEF top
  <2>. QED BY <1>9, <2>1, <2>2, <2>3, <2>4
<1>11. ASSUME NEW hasElse \in BOOLEAN, CloseIf(hasElse)
       PROVE  ReturningCodeIsLeft'
  <2>1. depth > 1 /\ top \in Frame /\ depth \in 1 .. MaxDepth
    BY <1>11, TopFacts DEF CloseIf
  <2>2. CASE hasElse
    <3>1. /\ PopInto(top.thenReturns /\ top.returns) /\ Resume("join") /\ top.at = "elseEnd"
      BY <1>11, <2>2 DEF CloseIf, ifReturns
    <3>2. PICK r \in BOOLEAN : PopInto(r) /\ (r <=> top.thenReturns /\ top.returns)
      BY <3>1
    <3>3. exec.depth # depth => exec' = exec
      BY <3>1, <1>c DEF Resume
    <3>4. exec.depth = depth => exec.at = "join" /\ ~top.thenReturns
      BY <1>c, <2>1, <3>1, TopFacts DEF top, ParkedPhase, LoopPhase, CoverInv
    <3>5. top.returns => ~Running
      BY <1>b, <2>1 DEF top
    <3>. QED BY <1>9, <2>1, <3>2, <3>3, <3>4, <3>5
  <2>3. CASE ~hasElse
    <3>1. PopInto(FALSE) /\ Resume("else")
      BY <1>11, <2>3 DEF CloseIf, ifReturns
    <3>2. exec.depth # depth => exec' = exec
      BY <3>1, <1>c DEF Resume
    <3>. QED BY <1>9, <2>1, <3>1, <3>2
  <2>. QED BY <2>2, <2>3
<1>12. CASE CloseWhile \/ CloseFor
  <2>1. depth > 1 /\ PopInto(FALSE) /\ LeaveLoop
    BY <1>12 DEF CloseWhile, CloseFor
  <2>2. ~Running /\ exec.depth # depth => exec' = exec
    BY <2>1, <1>c DEF LeaveLoop
  <2>. QED BY <1>9, <2>1, <2>2
<1>13. CASE Function
  <2>1. ASSUME NEW count \in 0 .. MaxBinding, NEW arrayParameters \in SUBSET (1 .. count),
               BeginFunction(count, arrayParameters)
        PROVE  ReturningCodeIsLeft'
    <3>1. depth' = 1 /\ frames'[1].returns = FALSE
      BY <2>1, <1>a DEF BeginFunction, FramesOK, NoFrame
    <3>. QED BY <1>a, <3>1, LeftStill
  <2>2. ASSUME NEW isVoid \in BOOLEAN, EndFunction(isVoid)
        PROVE  ReturningCodeIsLeft'
    BY <2>2 DEF EndFunction, ReturningCodeIsLeft
  <2>. QED BY <1>13, <2>1, <2>2 DEF Function
<1>14. CASE UNCHANGED vars
  BY <1>14, <1>b DEF vars, analyzer, ghost, ReturningCodeIsLeft, Running
<1>. QED
  BY <1>1, <1>3, <1>4, <1>6, <1>7, <1>8, <1>10, <1>11, <1>12, <1>13, <1>14
     DEF Next, CompoundStmt

-----------------------------------------------------------------------------
(* What the analyzer takes for assigned has been stored.                   *)

\* Coverage survives further stores.
LEMMA CoveredMore ==
  ASSUME NEW m \in Elements, NEW more \in Elements, \A b \in Binding : m[b] \subseteq more[b],
         NEW defined \in SUBSET Binding, NEW elems, Covered(m, defined, elems)
  PROVE  Covered(more, defined, elems)
BY DEF Covered, Elements

\* Coverage survives forgetting assignments.
LEMMA CoveredLess ==
  ASSUME NEW m, NEW defined, NEW elems, Covered(m, defined, elems),
         NEW fewer, fewer \subseteq defined,
         NEW less, \A b \in Binding : less[b] \subseteq elems[b]
  PROVE  Covered(m, fewer, less)
BY DEF Covered

\* The fields of the places an execution can be.
LEMMA ExecFields ==
  ASSUME NEW x \in Exec
  PROVE  /\ x.depth \in 0 .. MaxDepth
         /\ x \in {Here, InStepAfterContinue} <=> x.at \in {"here", "continued"}
         /\ x = Here <=> x.at = "here"
         /\ x.at \in {"else", "join", "exit", "step"} => x.depth > 0
BY DEF Exec, Here, Gone, InStepAfterContinue, Parked

\* An execution inside a statement stays inside the statements around it.
LEMMA InsideStill ==
  ASSUME NEW d \in Nat, d > 0,
         exec' \in {exec, Gone} \/ Running \/ d <= exec.depth
  PROVE  Inside(d)' => Inside(d)
<1>1. CASE exec' = exec
  BY <1>1 DEF Inside, Running
<1>2. CASE exec' = Gone
  BY <1>2 DEF Inside, Running, Gone, Here, InStepAfterContinue
<1>. QED BY <1>1, <1>2 DEF Inside

\* A step keeps CoverInv when it covers what the analyzer has if the execution
\* is here, stores no less, and keeps the snapshots except those of activation n,
\* which cover what the execution has stored.
LEMMA CoverStill ==
  ASSUME CoverInv, FramesOK, exec \in Exec, exec' \in Exec, mem \in Elements, mem' \in Elements,
         \A b \in Binding : mem[b] \subseteq mem'[b],
         depth' \in 0 .. MaxDepth, exec'.depth <= depth', NEW n \in Nat,
         exec' = Here => Covered(mem', definiteAssign', arrayElemAssign'),
         exec'.at \in {"else", "join"} /\ exec'.depth # n => exec' = exec,
         \A d \in 1 .. depth' : d # n =>
           /\ d \in 1 .. depth
           /\ frames'[d].before = frames[d].before
           /\ frames'[d].beforeArrays = frames[d].beforeArrays
           /\ frames'[d].afterThen = frames[d].afterThen
           /\ frames'[d].afterThenArrays = frames[d].afterThenArrays
           /\ frames'[d].thenReturns = frames[d].thenReturns
           /\ frames'[d].at \in LoopPhase => frames[d].at \in LoopPhase
           /\ exec' \in {exec, Gone} \/ Running \/ d <= exec.depth,
         exec'.at = "else" /\ exec'.depth = n =>
           Covered(mem', frames'[n].before, frames'[n].beforeArrays),
         exec'.at = "join" /\ exec'.depth = n =>
           ~frames'[n].thenReturns
           /\ Covered(mem', frames'[n].afterThen, frames'[n].afterThenArrays),
         n \in 1 .. depth' /\ frames'[n].at \in LoopPhase /\ Inside(n)' =>
           Covered(mem', frames'[n].before, frames'[n].beforeArrays)
  PROVE  CoverInv'
<1>a. /\ depth \in 0 .. MaxDepth
      /\ \A d \in 1 .. depth : /\ frames[d].before \in SUBSET Binding
                               /\ frames[d].afterThen \in SUBSET Binding
  BY DEF FramesOK, Frame
<1>1. ASSUME exec'.at \in {"else", "join"}, exec'.depth # n
      PROVE  /\ exec' = exec /\ exec.depth \in 1 .. depth /\ exec.depth \in 1 .. depth'
             /\ frames'[exec.depth].before = frames[exec.depth].before
             /\ frames'[exec.depth].beforeArrays = frames[exec.depth].beforeArrays
             /\ frames'[exec.depth].afterThen = frames[exec.depth].afterThen
             /\ frames'[exec.depth].afterThenArrays = frames[exec.depth].afterThenArrays
             /\ frames'[exec.depth].thenReturns = frames[exec.depth].thenReturns
  <2>1. exec'.depth \in 1 .. depth' /\ exec' = exec
    BY <1>1, ExecFields
  <2>. QED BY <1>1, <2>1
<1>2. exec'.at = "else" =>
        Covered(mem', frames'[exec'.depth].before, frames'[exec'.depth].beforeArrays)
  <2>1. CASE exec'.at = "else" /\ exec'.depth # n
    <3>1. Covered(mem, frames[exec.depth].before, frames[exec.depth].beforeArrays)
      BY <1>1, <2>1 DEF CoverInv
    <3>. QED BY <1>a, <1>1, <2>1, <3>1, CoveredMore
  <2>. QED BY <2>1
<1>3. exec'.at = "join" =>
        ~frames'[exec'.depth].thenReturns
        /\ Covered(mem', frames'[exec'.depth].afterThen, frames'[exec'.depth].afterThenArrays)
  <2>1. CASE exec'.at = "join" /\ exec'.depth # n
    <3>1. ~frames[exec.depth].thenReturns
          /\ Covered(mem, frames[exec.depth].afterThen, frames[exec.depth].afterThenArrays)
      BY <1>1, <2>1 DEF CoverInv
    <3>. QED BY <1>a, <1>1, <2>1, <3>1, CoveredMore
  <2>. QED BY <2>1
<1>4. ASSUME NEW d \in 1 .. depth', frames'[d].at \in LoopPhase, Inside(d)'
      PROVE  Covered(mem', frames'[d].before, frames'[d].beforeArrays)
  <2>1. CASE d = n
    BY <1>4, <2>1
  <2>2. CASE d # n
    <3>1. d \in Nat /\ d > 0 /\ d \in 1 .. depth /\ frames[d].at \in LoopPhase
      BY <1>4, <2>2
    <3>2. Inside(d)
      BY <1>4, <2>2, <3>1, InsideStill
    <3>3. Covered(mem, frames[d].before, frames[d].beforeArrays)
      BY <3>1, <3>2 DEF CoverInv
    <3>. QED BY <1>a, <2>2, <3>1, <3>3, CoveredMore
  <2>. QED BY <2>1, <2>2
<1>. QED BY <1>2, <1>3, <1>4 DEF CoverInv

\* After an if, the analyzer's state covers an execution that ran through an arm
\* that does not return, or past an if without else whose arm may return.
LEMMA MergeCovered ==
  ASSUME mem \in Elements, NEW before, NEW beforeArrays, NEW afterThen, NEW afterThenArrays,
         NEW hasElse \in BOOLEAN, NEW thenReturns \in BOOLEAN, NEW elseReturns \in BOOLEAN,
         \/ ~thenReturns /\ Covered(mem, afterThen, afterThenArrays)
         \/ hasElse /\ ~elseReturns /\ Covered(mem, definiteAssign, arrayElemAssign)
         \/ ~hasElse /\ Covered(mem, before, beforeArrays),
         mergeArrayElemAssignAfterIf(
           mergeDefiniteAssignAfterIf(before, afterThen, definiteAssign,
                                      hasElse, thenReturns, elseReturns),
           mergedMasks(before, beforeArrays, afterThen, afterThenArrays,
                       definiteAssign, arrayElemAssign, hasElse, thenReturns, elseReturns))
  PROVE  Covered(mem, definiteAssign', arrayElemAssign')
<1>. DEFINE merged == mergeDefiniteAssignAfterIf(before, afterThen, definiteAssign,
                                                 hasElse, thenReturns, elseReturns)
            masks == mergedMasks(before, beforeArrays, afterThen, afterThenArrays,
                                 definiteAssign, arrayElemAssign,
                                 hasElse, thenReturns, elseReturns)
<1>0. \A defined, elems : Covered(mem, defined, elems) =>
        \A b \in Binding : maskOrFull(defined, elems)[b] \subseteq mem[b]
  BY DEF Covered, maskOrFull
<1>1. \A b \in merged : mem[b] = Elem
  BY DEF mergeDefiniteAssignAfterIf, Covered
<1>2. \A b \in Binding : masks[b] \subseteq mem[b]
  <2>1. CASE ~hasElse /\ thenReturns
    BY <2>1 DEF mergedMasks, Covered
  <2>2. CASE ~hasElse /\ ~thenReturns
    BY <2>2, <1>0 DEF mergedMasks, bandMasks
  <2>3. CASE hasElse /\ thenReturns
    BY <2>3 DEF mergedMasks, Covered
  <2>4. CASE hasElse /\ ~thenReturns /\ elseReturns
    BY <2>4 DEF mergedMasks, Covered
  <2>5. CASE hasElse /\ ~thenReturns /\ ~elseReturns
    BY <2>5, <1>0 DEF mergedMasks, bandMasks
  <2>. QED BY <2>1, <2>2, <2>3, <2>4, <2>5
<1>3. mergeArrayElemAssignAfterIf(merged, masks)
  OBVIOUS
<1>. HIDE DEF merged, masks
<1>4. /\ definiteAssign' = merged \cup {b \in Binding : masks[b] = Elem}
      /\ \A b \in Binding : arrayElemAssign'[b] \subseteq masks[b]
  BY <1>3 DEF mergeArrayElemAssignAfterIf
<1>5. \A b \in Binding : mem[b] \subseteq Elem
  BY DEF Elements
<1>6. \A b \in definiteAssign' : mem[b] = Elem
  <2>1. ASSUME NEW b \in Binding, masks[b] = Elem
        PROVE  mem[b] = Elem
    <3>1. Elem \subseteq mem[b] /\ mem[b] \subseteq Elem
      BY <2>1, <1>2, <1>5
    <3>. QED BY <3>1
  <2>. QED BY <1>1, <1>4, <2>1
<1>7. \A b \in Binding : arrayElemAssign'[b] \subseteq mem[b]
  BY <1>2, <1>4
<1>. QED BY <1>6, <1>7 DEF Covered

\* A store only adds elements, of one binding.
LEMMA StoreEffect ==
  ASSUME mem \in Elements, NEW b \in Binding, NEW elems \in SUBSET Elem, Store(b, elems)
  PROVE  /\ \A c \in Binding : mem[c] \subseteq mem'[c]
         /\ Running => elems \subseteq mem'[b]
BY DEF Store, Elements

\* After a statement without children: where the execution is here, its stores
\* cover the analyzer's state.
LEMMA SimpleCovers ==
  ASSUME IInv, SimpleStmt
  PROVE  /\ \A c \in Binding : mem[c] \subseteq mem'[c]
         /\ exec' = Here => Covered(mem', definiteAssign', arrayElemAssign')
<1>a. /\ mem \in Elements /\ mem' \in Elements /\ nextBindingId \in Nat
      /\ definiteAssign \in SUBSET Binding /\ arrayElemAssign \in Elements
      /\ scope \in SUBSET Binding
  BY GhostStep, TopFacts, TrackingTypes DEF GhostOK, Next, TrackingOK
<1>b. exec = Here => Covered(mem, definiteAssign, arrayElemAssign) /\ Running
  BY TopFacts DEF CoverInv, Running
<1>c. \A m \in Elements : \A b \in Binding : Elem \subseteq m[b] => m[b] = Elem
  <2>1. \A m \in Elements : \A b \in Binding : m[b] \in SUBSET Elem
    BY DEF Elements
  <2>. QED BY <2>1
<1>d. Here # Gone /\ \A place \in {"exit", "step"} : \A d : Parked(place, d) # Here
  BY DEF Here, Gone, Parked
<1>t. TrackingOK
  BY DEF IInv, TypeOK
<1>1. CASE /\ UNCHANGED <<mem, definiteAssign, arrayElemAssign>>
           /\ exec' = Here => exec = Here
  BY <1>1, <1>b
<1>2. ASSUME NEW b \in Binding, Store(b, Elem), UNCHANGED <<arrayElemAssign, exec>>,
             definiteAssign' = definiteAssign \cup {b}
      PROVE  /\ \A c \in Binding : mem[c] \subseteq mem'[c]
             /\ exec' = Here => Covered(mem', definiteAssign', arrayElemAssign')
  <2>1. Elem \in SUBSET Elem
    OBVIOUS
  <2>2. /\ \A c \in Binding : mem[c] \subseteq mem'[c]
        /\ Running => Elem \subseteq mem'[b]
    BY <1>2, <1>a, <2>1, StoreEffect
  <2>3. ASSUME exec = Here
        PROVE  Covered(mem', definiteAssign', arrayElemAssign')
    <3>1. Covered(mem', definiteAssign, arrayElemAssign)
      BY <1>a, <1>b, <2>2, <2>3, CoveredMore
    <3>2. mem'[b] = Elem
      BY <1>a, <1>b, <1>c, <2>2, <2>3
    <3>. QED BY <1>2, <3>1, <3>2 DEF Covered
  <2>. QED BY <1>2, <2>2, <2>3
<1>3. ASSUME NEW isArray \in BOOLEAN, LetInit(isArray)
      PROVE  /\ \A c \in Binding : mem[c] \subseteq mem'[c]
             /\ exec' = Here => Covered(mem', definiteAssign', arrayElemAssign')
  BY <1>2, <1>3, <1>t, FreshMask DEF LetInit, declareLocal
<1>4. ASSUME NEW b \in Binding, AssignName(b)
      PROVE  /\ \A c \in Binding : mem[c] \subseteq mem'[c]
             /\ exec' = Here => Covered(mem', definiteAssign', arrayElemAssign')
  BY <1>2, <1>4 DEF AssignName
<1>5. ASSUME NEW b \in Binding, NEW k \in Elem, NEW isConstant \in BOOLEAN,
             AssignElement(b, k, isConstant)
      PROVE  /\ \A c \in Binding : mem[c] \subseteq mem'[c]
             /\ exec' = Here => Covered(mem', definiteAssign', arrayElemAssign')
  <2>1. PICK elems \in SUBSET Elem : elems = {k}
    OBVIOUS
  <2>2. Store(b, elems) /\ UNCHANGED exec
    BY <1>5, <2>1 DEF AssignElement
  <2>3. /\ \A c \in Binding : mem[c] \subseteq mem'[c]
        /\ Running => k \in mem'[b]
    BY <1>a, <2>1, <2>2, StoreEffect
  <2>4. ASSUME exec = Here
        PROVE  Covered(mem', definiteAssign', arrayElemAssign')
    <3>1. Covered(mem', definiteAssign, arrayElemAssign) /\ k \in mem'[b]
      BY <1>a, <1>b, <2>3, <2>4, CoveredMore
    <3>2. CASE isConstant /\ arrayElemAssign[b] \cup {k} = Elem
      <4>1. /\ definiteAssign' = definiteAssign \cup {b}
            /\ arrayElemAssign' = [arrayElemAssign EXCEPT ![b] = {}]
        BY <1>5, <3>2 DEF AssignElement, noteConstantStore
      <4>2. arrayElemAssign[b] \subseteq mem'[b]
        BY <3>1 DEF Covered
      <4>3. mem'[b] = Elem
        BY <1>a, <1>c, <3>1, <3>2, <4>2
      <4>4. \A c \in Binding : arrayElemAssign'[c] \subseteq arrayElemAssign[c]
        BY <1>a, <4>1 DEF Elements
      <4>. QED BY <3>1, <4>1, <4>3, <4>4 DEF Covered
    <3>3. CASE isConstant /\ arrayElemAssign[b] \cup {k} # Elem
      <4>1. /\ definiteAssign' = definiteAssign
            /\ arrayElemAssign' = [arrayElemAssign EXCEPT ![b] = arrayElemAssign[b] \cup {k}]
        BY <1>5, <3>3 DEF AssignElement, noteConstantStore
      <4>2. \A c \in Binding : arrayElemAssign'[c] \subseteq
                               IF c = b THEN arrayElemAssign[c] \cup {k} ELSE arrayElemAssign[c]
        BY <1>a, <4>1 DEF Elements
      <4>. QED BY <3>1, <4>1, <4>2 DEF Covered
    <3>4. CASE ~isConstant
      <4>1. /\ definiteAssign' = definiteAssign \ {b}
            /\ arrayElemAssign' = [arrayElemAssign EXCEPT ![b] = {}]
        BY <1>5, <3>4 DEF AssignElement, noteDynamicStore
      <4>2. \A c \in Binding : arrayElemAssign'[c] \subseteq arrayElemAssign[c]
        BY <1>a, <4>1 DEF Elements
      <4>. QED BY <3>1, <4>1, <4>2 DEF Covered
    <3>. QED BY <3>2, <3>3, <3>4
  <2>. QED BY <2>2, <2>3, <2>4
<1>6. ASSUME NEW isArray \in BOOLEAN, LetUninit(isArray)
      PROVE  /\ UNCHANGED <<mem, definiteAssign, arrayElemAssign>>
             /\ exec' = exec
  BY <1>6, <1>t, FreshMask DEF LetUninit, declareLocal, ghost
<1>7. CASE CallOrStoreThroughPointer \/ Return \/ LoopControlOutsideLoop \/ Break \/ Continue
  BY <1>1, <1>7, <1>d DEF CallOrStoreThroughPointer, Return, LoopControlOutsideLoop, Report,
          Break, Continue, LoopControl, LeaveBody, ghost
<1>. QED BY <1>1, <1>3, <1>4, <1>5, <1>6, <1>7 DEF SimpleStmt

\* The same for a step that keeps all snapshots.
LEMMA CoverStillAll ==
  ASSUME CoverInv, FramesOK, exec \in Exec, exec' \in Exec, mem \in Elements, mem' \in Elements,
         \A b \in Binding : mem[b] \subseteq mem'[b],
         depth' \in 0 .. MaxDepth, exec'.depth <= depth',
         exec' = Here => Covered(mem', definiteAssign', arrayElemAssign'),
         exec'.at \in {"else", "join"} => exec' = exec,
         \A d \in 1 .. depth' :
           /\ d \in 1 .. depth
           /\ frames'[d].before = frames[d].before
           /\ frames'[d].beforeArrays = frames[d].beforeArrays
           /\ frames'[d].afterThen = frames[d].afterThen
           /\ frames'[d].afterThenArrays = frames[d].afterThenArrays
           /\ frames'[d].thenReturns = frames[d].thenReturns
           /\ frames'[d].at \in LoopPhase => frames[d].at \in LoopPhase
           /\ exec' \in {exec, Gone} \/ Running \/ d <= exec.depth
  PROVE  CoverInv'
<1>1. PICK n \in Nat : n = 0
  OBVIOUS
<1>2. n \notin 1 .. depth' /\ \A d \in 1 .. depth' : d # n
  BY <1>1
<1>3. exec'.at \in {"else", "join"} => exec'.depth # n
  BY <1>1, ExecFields
<1>. QED BY <1>2, <1>3, CoverStill

\* Every step preserves that the analyzer state covers what is stored, at the
\* point where the analyzer meets the execution.
LEMMA CoverStep ==
  ASSUME IInv, [Next]_vars
  PROVE  CoverInv'
<1>a. /\ FramesOK /\ StackInv /\ CoverInv /\ exec \in Exec /\ mem \in Elements
      /\ depth \in 0 .. MaxDepth /\ BodySlot \subseteq Slot
      /\ definiteAssign \in SUBSET Binding /\ arrayElemAssign \in Elements
  BY TopFacts, TrackingTypes DEF GhostOK, Slot
<1>b. exec' \in Exec /\ mem' \in Elements /\ depth' \in 0 .. MaxDepth
  BY GhostStep, FramesStep DEF GhostOK, FramesOK
<1>c. exec'.depth <= depth' /\ exec.depth \in 0 .. depth
  BY <1>a, ParkingStep, TopFacts, ExecFacts DEF ParkingInv
<1>d. /\ exec.depth > 0 => /\ exec.at \in {"else", "join", "exit", "step"}
                           /\ frames[exec.depth].at \in ParkedPhase(exec.at)
      /\ exec.at = "continued" => top.at \in {"forStep", "forStepEnd"}
      /\ Running <=> exec.at \in {"here", "continued"}
      /\ exec = Here <=> exec.at = "here"
      /\ \A place, d : exec = Parked(place, d) <=> exec.at = place /\ exec.depth = d
  BY <1>a, TopFacts, ExecFacts DEF ParkingInv
<1>e. exec = Here => Covered(mem, definiteAssign, arrayElemAssign)
  BY <1>a DEF CoverInv
<1>f. \A d \in 1 .. depth :
        frames[d].at \in LoopPhase /\ (Running \/ d <= exec.depth) =>
          Covered(mem, frames[d].before, frames[d].beforeArrays)
  BY <1>a DEF CoverInv, Inside
<1>g. Here # Gone /\ (\A place, d : Parked(place, d).at = place /\ Parked(place, d).depth = d)
      /\ Gone.at = "gone" /\ Here.at = "here"
  BY ParkedFields
<1>1. CASE Reading
  <2>1. /\ UNCHANGED <<frames, depth, mem, definiteAssign, arrayElemAssign>>
        /\ exec' = exec \/ exec' = Gone
    BY <1>1 DEF Reading, ReadName, ReadElement, ReadSlice, ReadDynamic, Load, Report
  <2>. QED BY <1>a, <1>b, <1>c, <1>e, <1>g, <2>1, CoverStillAll
<1>2. CASE SimpleStmt
  <2>1. PICK r \in BOOLEAN : /\ StmtAllowed(Slot) /\ CompleteStmt(r)
                             /\ exec' \in {exec, Gone} \/ Running
    BY <1>2 DEF SimpleStmt, LetInit, LetUninit, AssignName, AssignElement,
                CallOrStoreThroughPointer, Return, Break, Continue, LoopControl,
                LoopControlOutsideLoop, Report, ghost, StmtAllowed, Slot
  <2>2. /\ depth' = depth /\ depth \in 1 .. MaxDepth
        /\ \A d \in 1 .. depth : d # depth => frames'[d] = frames[d]
        /\ top \in Frame /\ top.at \in Slot /\ top = frames[depth]
        /\ frames'[depth] = Completed(top, r)
    BY <1>a, <2>1, CompleteStmtEffect DEF top
  <2>3. \A d \in 1 .. depth' :
           /\ d \in 1 .. depth
           /\ frames'[d].before = frames[d].before
           /\ frames'[d].beforeArrays = frames[d].beforeArrays
           /\ frames'[d].afterThen = frames[d].afterThen
           /\ frames'[d].afterThenArrays = frames[d].afterThenArrays
           /\ frames'[d].thenReturns = frames[d].thenReturns
           /\ frames'[d].at \in LoopPhase => frames[d].at \in LoopPhase
    BY <2>1, <2>2, CompletedType, EndOfPhase
  <2>4. exec'.at \in {"else", "join"} => exec' = exec
    <3>1. CASE Break \/ Continue
      <4>1. PICK place \in {"exit", "step"} : LoopControl(place)
        BY <3>1 DEF Break, Continue
      <4>2. PICK d : exec' = IF Running THEN LeaveBody(place, d) ELSE exec
        BY <4>1 DEF LoopControl
      <4>3. LeaveBody(place, d).at \notin {"else", "join"}
        BY <1>g DEF LeaveBody
      <4>. QED BY <4>2, <4>3
    <3>2. CASE ~(Break \/ Continue)
      BY <1>2, <1>g, <3>2 DEF SimpleStmt, LetInit, LetUninit, AssignName, AssignElement,
                CallOrStoreThroughPointer, Return, LoopControlOutsideLoop, Report, ghost
    <3>. QED BY <3>1, <3>2
  <2>. QED BY <1>a, <1>b, <1>c, <1>2, <2>1, <2>3, <2>4, SimpleCovers, CoverStillAll
<1>3. CASE OpenBlock \/ OpenFor
  <2>1. PICK f : Push(f) /\ f.at \in {"block", "forInit"}
    <3>1. PICK part \in {"block", "forInit"} : Push([NoFrame EXCEPT !.at = part, !.outer = scope])
      BY <1>3 DEF OpenBlock, OpenFor
    <3>2. [NoFrame EXCEPT !.at = part, !.outer = scope].at = part
      BY DEF NoFrame
    <3>. QED BY <3>1, <3>2
  <2>2. /\ depth' = depth + 1
        /\ \A d \in 1 .. depth : frames'[d] = frames[d]
        /\ frames'[depth + 1] = f /\ f.at \notin LoopPhase
    BY <1>a, <2>1, PushEffect DEF LoopPhase
  <2>3. UNCHANGED <<mem, exec, definiteAssign, arrayElemAssign>>
    BY <1>3 DEF OpenBlock, OpenFor, ghost
  <2>4. depth + 1 \in Nat /\ exec.depth # depth + 1
        /\ \A d \in 1 .. depth' : d # depth + 1 => d \in 1 .. depth
    BY <1>a, <1>c, <2>2
  <2>. QED BY <1>a, <1>b, <1>c, <1>e, <2>2, <2>3, <2>4, CoverStill
<1>4. CASE OpenIf
  <2>1. Push(Activation("then")) /\ UNCHANGED <<mem, definiteAssign, arrayElemAssign>>
        /\ top.at \in BodySlot
    BY <1>4 DEF OpenIf, StmtAllowed
  <2>2. /\ depth' = depth + 1
        /\ \A d \in 1 .. depth : frames'[d] = frames[d]
        /\ frames'[depth + 1] = Activation("then")
    BY <1>a, <2>1, PushEffect
  <2>3. /\ frames'[depth + 1].at \notin LoopPhase
        /\ frames'[depth + 1].before = definiteAssign
        /\ frames'[depth + 1].beforeArrays = arrayElemAssign
    BY <2>2, TopFacts, ActivationType DEF Phase, Slot, BodySlot, LoopPhase
  <2>4. depth + 1 \in Nat /\ exec.depth # depth + 1
        /\ \A d \in 1 .. depth' : d # depth + 1 => d \in 1 .. depth
    BY <1>a, <1>c, <2>2
  <2>5. Running => exec = Here
    BY <1>d, <2>1 DEF BodySlot
  <2>6. exec' = exec \/ (Running /\ exec' = Parked("else", depth + 1))
    BY <1>4 DEF OpenIf
  <2>7. exec' = Here => exec = Here
    BY <2>6, <1>g
  <2>8. exec' # exec => /\ exec'.at = "else" /\ exec'.depth = depth + 1
                        /\ Covered(mem', frames'[depth + 1].before, frames'[depth + 1].beforeArrays)
    BY <1>e, <1>g, <2>1, <2>3, <2>5, <2>6
  <2>9. exec'.at = "join" => exec'.depth # depth + 1
    BY <2>4, <2>8
  <2>. QED
    BY <1>a, <1>b, <1>c, <1>e, <2>1, <2>2, <2>3, <2>4, <2>6, <2>7, <2>8, <2>9, CoverStill
<1>5. CASE OpenWhile
  <2>1. /\ Push(Activation("whileCond")) /\ UNCHANGED <<exec, definiteAssign, arrayElemAssign>>
        /\ top.at \in BodySlot /\ ArriveAtHead
    BY <1>5 DEF OpenWhile, StmtAllowed
  <2>2. /\ depth' = depth + 1
        /\ \A d \in 1 .. depth : frames'[d] = frames[d]
        /\ frames'[depth + 1] = Activation("whileCond")
    BY <1>a, <2>1, PushEffect
  <2>3. /\ frames'[depth + 1].before = definiteAssign
        /\ frames'[depth + 1].beforeArrays = arrayElemAssign
    BY <2>2, TopFacts, ActivationType, ZenonT(60) DEF Phase
  <2>4. depth + 1 \in Nat /\ exec.depth # depth + 1 /\ exec.depth < depth + 1
        /\ \A d \in 1 .. depth' : d # depth + 1 => d \in 1 .. depth
    BY <1>a, <1>c, <2>2
  <2>5. Running => exec = Here
    BY <1>d, <2>1 DEF BodySlot
  <2>6. \A b \in Binding : mem[b] \subseteq mem'[b]
    BY <2>1, <1>a DEF ArriveAtHead
  <2>7. exec = Here => Covered(mem', definiteAssign, arrayElemAssign)
    BY <1>a, <1>b, <1>e, <2>6, CoveredMore
  <2>8. PICK n \in Nat : n = depth + 1
    BY <2>4
  <2>9. Inside(n)' => exec = Here
    BY <2>1, <2>4, <2>5, <2>8, <1>a, <1>c DEF Inside, Running
  <2>. QED
    BY <1>a, <1>b, <1>c, <2>1, <2>2, <2>3, <2>4, <2>6, <2>7, <2>8, <2>9, CoverStill
<1>6. CASE EnterForHead
  <2>1. PICK f : Rephase(f) /\ f = [top EXCEPT !.at = "forCond",
                                               !.before = definiteAssign,
                                               !.beforeArrays = arrayElemAssign]
    BY <1>6 DEF EnterForHead
  <2>2. /\ depth > 0 /\ top.at \in {"forInit", "forInitEnd"} /\ top \in Frame
        /\ ArriveAtHead /\ UNCHANGED <<exec, definiteAssign, arrayElemAssign>>
    BY <1>6, TopFacts DEF EnterForHead
  <2>3. f \in Frame /\ f.before = definiteAssign /\ f.beforeArrays = arrayElemAssign
    <3>1. f \in Frame
      BY <2>1, <2>2, <1>a DEF Frame, Phase, Slot, BodySlot
    <3>2. f.before = definiteAssign /\ f.beforeArrays = arrayElemAssign
      BY <2>1, <2>2 DEF Frame
    <3>. QED BY <3>1, <3>2
  <2>4. /\ depth' = depth /\ depth \in 1 .. MaxDepth
        /\ \A d \in 1 .. depth : d # depth => frames'[d] = frames[d]
        /\ frames'[depth] = f
    BY <1>a, <2>1, <2>2, <2>3, RephaseEffect
  <2>5. exec.at # "continued" /\ exec.depth # depth
    BY <1>d, <2>2, <2>4 DEF top, ParkedPhase, LoopPhase
  <2>6. \A b \in Binding : mem[b] \subseteq mem'[b]
    BY <2>2, <1>a DEF ArriveAtHead
  <2>7. exec = Here => Covered(mem', definiteAssign, arrayElemAssign)
    BY <1>a, <1>b, <1>e, <2>6, CoveredMore
  <2>8. PICK n \in Nat : n = depth
    BY <1>a
  <2>9. Inside(n)' => exec = Here
    BY <2>2, <2>4, <2>5, <2>8, <1>a, <1>c, <1>d DEF Inside, Running
  <2>. QED
    BY <1>a, <1>b, <1>c, <2>2, <2>3, <2>4, <2>5, <2>6, <2>7, <2>8, <2>9, CoverStill
<1>7. CASE EnterWhileBody \/ EnterForBody
  <2>1. PICK at \in {"whileBody", "forBody"} : Rephase([top EXCEPT !.at = at])
    BY <1>7 DEF EnterWhileBody, EnterForBody
  <2>2. /\ depth > 0 /\ top.at \in {"whileCond", "forCond"} /\ top \in Frame /\ Branch
        /\ UNCHANGED <<mem, definiteAssign, arrayElemAssign>>
    BY <1>7, TopFacts DEF EnterWhileBody, EnterForBody
  <2>3. PICK f \in Frame : /\ Rephase(f)
                           /\ f.before = top.before /\ f.beforeArrays = top.beforeArrays
                           /\ f.afterThen = top.afterThen
                           /\ f.afterThenArrays = top.afterThenArrays
                           /\ f.thenReturns = top.thenReturns
    BY <2>1, <2>2 DEF Frame, Phase, Slot, BodySlot
  <2>4. /\ depth' = depth /\ depth \in 1 .. MaxDepth
        /\ \A d \in 1 .. depth : d # depth => frames'[d] = frames[d]
        /\ frames'[depth] = f /\ top = frames[depth] /\ top.at \in LoopPhase
    BY <1>a, <2>2, <2>3, RephaseEffect DEF top, LoopPhase
  <2>5. exec' = exec \/ (Running /\ exec'.at = "exit")
    BY <2>2, <1>g DEF Branch
  <2>6. exec' = Here => exec = Here
    BY <2>5, <1>g
  <2>7. \A d \in 1 .. depth' :
           /\ d \in 1 .. depth
           /\ frames'[d].before = frames[d].before
           /\ frames'[d].beforeArrays = frames[d].beforeArrays
           /\ frames'[d].afterThen = frames[d].afterThen
           /\ frames'[d].afterThenArrays = frames[d].afterThenArrays
           /\ frames'[d].thenReturns = frames[d].thenReturns
           /\ frames'[d].at \in LoopPhase => frames[d].at \in LoopPhase
    BY <2>3, <2>4
  <2>8. exec'.at \in {"else", "join"} => exec' = exec
    BY <2>5
  <2>. QED
    BY <1>a, <1>b, <1>c, <1>e, <2>2, <2>5, <2>6, <2>7, <2>8, CoverStillAll
<1>8. CASE EnterForStep
  <2>1. Rephase([top EXCEPT !.at = "forStep", !.returns = FALSE])
    BY <1>8 DEF EnterForStep
  <2>2. /\ depth > 0 /\ top.at = "forBodyEnd" /\ top \in Frame
        /\ exec' = IF exec = Parked("step", depth) THEN InStepAfterContinue ELSE exec
        /\ UNCHANGED <<mem, definiteAssign, arrayElemAssign>>
    BY <1>8, TopFacts DEF EnterForStep
  <2>3. PICK f \in Frame : /\ Rephase(f)
                           /\ f.before = top.before /\ f.beforeArrays = top.beforeArrays
                           /\ f.afterThen = top.afterThen
                           /\ f.afterThenArrays = top.afterThenArrays
                           /\ f.thenReturns = top.thenReturns
    <3>1. PICK f : f = [top EXCEPT !.at = "forStep", !.returns = FALSE]
      OBVIOUS
    <3>2. f \in Frame
      BY <2>2, <3>1 DEF Frame, Phase, Slot, BodySlot
    <3>3. /\ f.before = top.before /\ f.beforeArrays = top.beforeArrays
          /\ f.afterThen = top.afterThen
          /\ f.afterThenArrays = top.afterThenArrays
          /\ f.thenReturns = top.thenReturns
      BY <2>2, <3>1 DEF Frame
    <3>. QED BY <2>1, <3>1, <3>2, <3>3
  <2>4. /\ depth' = depth /\ depth \in 1 .. MaxDepth
        /\ \A d \in 1 .. depth : d # depth => frames'[d] = frames[d]
        /\ frames'[depth] = f /\ top = frames[depth] /\ top.at \in LoopPhase
    BY <1>a, <2>2, <2>3, RephaseEffect DEF top, LoopPhase
  <2>5. exec' = exec \/ (exec'.at = "continued" /\ exec.depth = depth)
    BY <2>2, <1>d, ParkedFields
  <2>6. exec' = Here => exec = Here
    BY <2>5, <1>g
  <2>7. \A d \in 1 .. depth' :
           /\ d \in 1 .. depth
           /\ frames'[d].before = frames[d].before
           /\ frames'[d].beforeArrays = frames[d].beforeArrays
           /\ frames'[d].afterThen = frames[d].afterThen
           /\ frames'[d].afterThenArrays = frames[d].afterThenArrays
           /\ frames'[d].thenReturns = frames[d].thenReturns
           /\ frames'[d].at \in LoopPhase => frames[d].at \in LoopPhase
           /\ exec' \in {exec, Gone} \/ d <= exec.depth
    BY <2>3, <2>4, <2>5
  <2>8. exec'.at \in {"else", "join"} => exec' = exec
    BY <2>5
  <2>. QED
    BY <1>a, <1>b, <1>c, <1>e, <2>2, <2>6, <2>7, <2>8, CoverStillAll
<1>9. CASE OpenElse
  <2>1. PICK f : Rephase(f) /\ f = [top EXCEPT !.at = "else",
                                               !.afterThen = definiteAssign,
                                               !.afterThenArrays = arrayElemAssign,
                                               !.thenReturns = top.returns,
                                               !.returns = FALSE]
    BY <1>9 DEF OpenElse
  <2>2. /\ depth > 0 /\ top.at = "thenEnd" /\ top \in Frame /\ UNCHANGED mem
        /\ definiteAssign' = top.before /\ arrayElemAssign' = top.beforeArrays
        /\ exec' = IF Running THEN Parked("join", depth)
                   ELSE IF exec = Parked("else", depth) THEN Here ELSE exec
    BY <1>9, TopFacts DEF OpenElse
  <2>3. f \in Frame
    BY <2>1, <2>2, <1>a DEF Frame, Phase, Slot, BodySlot
  <2>4. /\ f.at = "else" /\ f.afterThen = definiteAssign /\ f.afterThenArrays = arrayElemAssign
        /\ f.thenReturns = top.returns
    BY <2>1, <2>2 DEF Frame
  <2>5. /\ depth' = depth /\ depth \in 1 .. MaxDepth
        /\ \A d \in 1 .. depth : d # depth => frames'[d] = frames[d]
        /\ frames'[depth] = f /\ top = frames[depth]
    BY <1>a, <2>1, <2>2, <2>3, RephaseEffect DEF top
  <2>6. /\ Running => exec = Here /\ ~top.returns
        /\ exec.depth = depth => exec.at = "else"
    BY <1>d, <2>2, <2>5, TopFacts DEF ReturningCodeIsLeft, ParkedPhase, LoopPhase
  <2>7. PICK n \in Nat : n = depth
    BY <1>a
  <2>8. CASE Running
    <3>1. exec'.at = "join" /\ exec'.depth = n /\ exec' # Here
      BY <2>2, <2>7, <2>8, <1>g
    <3>2. ~f.thenReturns /\ Covered(mem, f.afterThen, f.afterThenArrays)
      BY <1>e, <2>4, <2>6, <2>8
    <3>3. f.at \notin LoopPhase
      BY <2>4 DEF LoopPhase
    <3>. QED BY <1>a, <1>b, <1>c, <2>2, <2>5, <2>7, <2>8, <3>1, <3>2, <3>3, CoverStill
  <2>9. CASE exec = Parked("else", depth)
    <3>1. exec.at = "else" /\ exec.depth = depth /\ exec' = Here
      BY <1>d, <2>2, <2>9
    <3>2. Covered(mem, top.before, top.beforeArrays)
      BY <1>a, <2>5, <3>1 DEF CoverInv
    <3>3. f.at \notin LoopPhase
      BY <2>4 DEF LoopPhase
    <3>. QED
      BY <1>a, <1>b, <1>c, <1>g, <2>2, <2>5, <2>7, <3>1, <3>2, <3>3, CoverStill
  <2>10. CASE ~Running /\ exec # Parked("else", depth)
    <3>1. exec' = exec /\ exec # Here /\ exec.depth # depth
      BY <1>d, <2>2, <2>6, <2>10
    <3>2. f.at \notin LoopPhase
      BY <2>4 DEF LoopPhase
    <3>. QED
      BY <1>a, <1>b, <1>c, <2>2, <2>5, <2>7, <3>1, <3>2, CoverStill
  <2>. QED BY <2>8, <2>9, <2>10
<1>10. ASSUME NEW r \in BOOLEAN, depth > 1, PopInto(r), mem' = mem,
              exec' \in {exec, Gone} \/ (exec' = Here /\ exec.depth = depth),
              exec' = Here => Covered(mem, definiteAssign', arrayElemAssign')
       PROVE  CoverInv'
  <2>1. /\ depth' = depth - 1 /\ depth - 1 \in 1 .. MaxDepth /\ depth \in 1 .. MaxDepth
        /\ \A d \in 1 .. depth - 1 : d # depth - 1 => frames'[d] = frames[d]
        /\ frames[depth - 1] \in Frame /\ frames[depth - 1].at \in Slot
        /\ frames'[depth - 1] = Completed(frames[depth - 1], r)
    BY <1>a, <1>10, PopEffect
  <2>2. \A d \in 1 .. depth' : d \in 1 .. depth /\ (exec.depth = depth => d <= exec.depth)
    BY <2>1, <1>a
  <2>3. \A d \in 1 .. depth' :
           /\ frames'[d].before = frames[d].before
           /\ frames'[d].beforeArrays = frames[d].beforeArrays
           /\ frames'[d].afterThen = frames[d].afterThen
           /\ frames'[d].afterThenArrays = frames[d].afterThenArrays
           /\ frames'[d].thenReturns = frames[d].thenReturns
           /\ frames'[d].at \in LoopPhase => frames[d].at \in LoopPhase
    BY <2>1, CompletedType, EndOfPhase
  <2>4. exec'.at \in {"else", "join"} => exec' = exec
    BY <1>10, <1>g
  <2>. QED BY <1>a, <1>b, <1>c, <1>10, <2>2, <2>3, <2>4, CoverStillAll
<1>11. CASE CloseBlock
  <2>1. /\ depth > 1 /\ top \in Frame /\ UNCHANGED <<mem, exec>>
        /\ popScope(top.outer, definiteAssign, arrayElemAssign)
    BY <1>11, TopFacts DEF CloseBlock, ghost
  <2>2. top.returns \in BOOLEAN /\ PopInto(top.returns)
    BY <1>11, <2>1 DEF CloseBlock, Frame
  <2>3. /\ definiteAssign' \subseteq definiteAssign
        /\ \A b \in Binding : arrayElemAssign'[b] \subseteq arrayElemAssign[b]
    BY <2>1 DEF popScope
  <2>4. exec' = Here => Covered(mem, definiteAssign', arrayElemAssign')
    BY <1>e, <2>1, <2>3, CoveredLess
  <2>. QED BY <1>10, <2>1, <2>2, <2>4
<1>12. ASSUME NEW hasElse \in BOOLEAN, CloseIf(hasElse)
       PROVE  CoverInv'
  <2>1. /\ depth > 1 /\ mem' = mem /\ top \in Frame /\ depth \in 1 .. MaxDepth
        /\ top = frames[depth]
    BY <1>12, TopFacts DEF CloseIf, top
  <2>2. /\ top.thenReturns \in BOOLEAN /\ top.returns \in BOOLEAN
        /\ Running => ~top.returns
    BY <2>1, TopFacts DEF Frame, ReturningCodeIsLeft
  <2>3. PICK r \in BOOLEAN : PopInto(r)
    BY <1>12 DEF CloseIf, ifReturns
  <2>4. CASE hasElse
    <3>1. /\ mergeAfterIf(top.afterThen, top.afterThenArrays,
                          TRUE, top.thenReturns, top.returns)
          /\ exec' = IF exec = Parked("join", depth) THEN Here ELSE exec
      BY <1>12, <2>4 DEF CloseIf, Resume
    <3>2. exec = Parked("join", depth) =>
            ~top.thenReturns /\ Covered(mem, top.afterThen, top.afterThenArrays)
      BY <1>a, <1>d, <2>1 DEF CoverInv
    <3>3. exec = Here => ~top.returns /\ Covered(mem, definiteAssign, arrayElemAssign)
      BY <1>d, <1>e, <2>2
    <3>4. ASSUME exec' = Here
          PROVE  Covered(mem, definiteAssign', arrayElemAssign')
      <4>1. \/ ~top.thenReturns /\ Covered(mem, top.afterThen, top.afterThenArrays)
            \/ hasElse /\ ~top.returns /\ Covered(mem, definiteAssign, arrayElemAssign)
        BY <2>4, <3>1, <3>2, <3>3, <3>4
      <4>2. mergeAfterIf(top.afterThen, top.afterThenArrays,
                         hasElse, top.thenReturns, top.returns)
        BY <2>4, <3>1
      <4>. QED BY <1>a, <2>2, <4>1, <4>2, MergeCovered DEF mergeAfterIf
    <3>5. exec' = exec \/ (exec' = Here /\ exec.depth = depth)
      BY <1>d, <3>1
    <3>. QED BY <1>10, <2>1, <2>3, <3>4, <3>5
  <2>5. CASE ~hasElse
    <3>1. /\ mergeAfterIf(definiteAssign, arrayElemAssign, FALSE, top.returns, FALSE)
          /\ exec' = IF exec = Parked("else", depth) THEN Here ELSE exec
      BY <1>12, <2>5 DEF CloseIf, Resume
    <3>2. exec = Parked("else", depth) => Covered(mem, top.before, top.beforeArrays)
      BY <1>a, <1>d, <2>1 DEF CoverInv
    <3>3. exec = Here => ~top.returns /\ Covered(mem, definiteAssign, arrayElemAssign)
      BY <1>d, <1>e, <2>2
    <3>4. ASSUME exec' = Here
          PROVE  Covered(mem, definiteAssign', arrayElemAssign')
      <4>1. \/ ~top.returns /\ Covered(mem, definiteAssign, arrayElemAssign)
            \/ ~hasElse /\ Covered(mem, top.before, top.beforeArrays)
        BY <2>5, <3>1, <3>2, <3>3, <3>4
      <4>2. mergeAfterIf(definiteAssign, arrayElemAssign, hasElse, top.returns, FALSE)
        BY <2>5, <3>1
      <4>. QED BY <1>a, <2>2, <4>1, <4>2, MergeCovered DEF mergeAfterIf
    <3>5. exec' = exec \/ (exec' = Here /\ exec.depth = depth)
      BY <1>d, <3>1
    <3>. QED BY <1>10, <2>1, <2>3, <3>4, <3>5
  <2>. QED BY <2>4, <2>5
<1>13. CASE CloseWhile \/ CloseFor
  <2>1. /\ depth > 1 /\ mem' = mem /\ PopInto(FALSE) /\ LeaveLoop
        /\ top.at \in {"whileBodyEnd", "forBodyEnd", "forStepEnd"}
        /\ depth \in 1 .. MaxDepth /\ top = frames[depth] /\ top \in Frame
    BY <1>13, TopFacts DEF CloseWhile, CloseFor, top
  <2>2. /\ definiteAssign' \subseteq top.before
        /\ \A b \in Binding : arrayElemAssign'[b] \subseteq top.beforeArrays[b]
    BY <1>13, <2>1 DEF CloseWhile, CloseFor, popScope
  <2>3. \/ exec' = Here /\ exec = Parked("exit", depth)
        \/ exec' = Gone
        \/ exec' = exec /\ ~Running
    BY <2>1 DEF LeaveLoop
  <2>4. exec = Parked("exit", depth) =>
          exec.depth = depth /\ Covered(mem, top.before, top.beforeArrays)
    BY <1>d, <1>f, <2>1 DEF LoopPhase
  <2>5. exec' = Here => Covered(mem, definiteAssign', arrayElemAssign')
    <3>1. exec' = Here => Covered(mem, top.before, top.beforeArrays)
      BY <1>d, <1>g, <2>3, <2>4
    <3>. QED BY <3>1, <2>2, CoveredLess
  <2>6. exec' \in {exec, Gone} \/ (exec' = Here /\ exec.depth = depth)
    BY <2>3, <2>4
  <2>. QED BY <1>10, <2>1, <2>5, <2>6
<1>14. CASE Function
  <2>1. ASSUME NEW count \in 0 .. MaxBinding, NEW arrayParameters \in SUBSET (1 .. count),
               BeginFunction(count, arrayParameters)
        PROVE  CoverInv'
    <3>0. \A b \in Binding : arrayElemAssign[b] = {}
      BY <2>1, TopFacts DEF BeginFunction, ScopeInv, TrackingOK
    <3>1. /\ depth' = 1 /\ frames'[1].at = "block" /\ exec' \in {Here, Gone}
          /\ definiteAssign' = 1 .. count /\ arrayElemAssign' = arrayElemAssign
          /\ mem' = [b \in Binding |-> IF b \in 1 .. count THEN Elem ELSE {}]
      BY <2>1, <1>a DEF BeginFunction, FramesOK, NoFrame
    <3>2. exec'.at \notin {"else", "join"}
      BY <3>1, <1>g
    <3>3. Covered(mem', definiteAssign', arrayElemAssign')
      BY <3>0, <3>1 DEF Covered, Binding
    <3>4. \A d \in 1 .. depth' : frames'[d].at \notin LoopPhase
      BY <3>1 DEF LoopPhase
    <3>. QED BY <3>2, <3>3, <3>4 DEF CoverInv
  <2>2. ASSUME NEW isVoid \in BOOLEAN, EndFunction(isVoid)
        PROVE  CoverInv'
    <3>1. exec' = Gone /\ depth' = 0
      BY <2>2 DEF EndFunction
    <3>. QED BY <3>1, <1>g DEF CoverInv
  <2>. QED BY <1>14, <2>1, <2>2 DEF Function
<1>15. CASE UNCHANGED vars
  BY <1>15, <1>a DEF vars, analyzer, ghost, CoverInv, Inside, Running
<1>. QED
  BY <1>1, <1>2, <1>3, <1>4, <1>5, <1>6, <1>7, <1>8, <1>9, <1>11, <1>12, <1>13, <1>14, <1>15
     DEF Next, CompoundStmt

-----------------------------------------------------------------------------
(* The properties.                                                         *)

\* A load that the analyzer accepts where the execution is, is of stored elements.
LEMMA AcceptedLoads ==
  ASSUME Covered(mem, definiteAssign, arrayElemAssign), NEW b \in Binding
  PROVE  /\ requireReadableLocal(b) => mem[b] = Elem \/ Elem \subseteq mem[b]
         /\ \A k \in Elem : requireIndexedScalarReadable(b, k) => k \in mem[b]
         /\ \A s \in Slice : requireSubArraySliceReadable(b, s) => s \subseteq mem[b]
<1>1. /\ b \in definiteAssign => mem[b] = Elem
      /\ arrayElemAssign[b] \subseteq mem[b]
  BY DEF Covered
<1>2. requireReadableLocal(b) => mem[b] = Elem \/ Elem \subseteq mem[b]
  BY <1>1 DEF requireReadableLocal
<1>3. ASSUME NEW k \in Elem, requireIndexedScalarReadable(b, k)
      PROVE  k \in mem[b]
  BY <1>1, <1>3 DEF requireIndexedScalarReadable
<1>4. ASSUME NEW s \in Slice, requireSubArraySliceReadable(b, s)
      PROVE  s \subseteq mem[b]
  BY <1>1, <1>4 DEF requireSubArraySliceReadable
<1>. QED BY <1>2, <1>3, <1>4

\* No step makes an accepted load precede its store.
LEMMA NoUninitializedReadStep ==
  ASSUME IInv, [Next]_vars
  PROVE  NoUninitializedRead'
<1>a. exec = Here => Covered(mem, definiteAssign, arrayElemAssign)
  BY TopFacts DEF CoverInv
<1>b. NoUninitializedRead
  BY TopFacts
<1>1. ASSUME NEW accepted, NEW b, NEW elems, Load(accepted, b, elems),
             exec = Here /\ accepted => elems \subseteq mem[b]
      PROVE  NoUninitializedRead'
  <2>1. exec.at = "here" /\ Running => exec = Here
    BY DEF Running, Here, InStepAfterContinue
  <2>. QED BY <1>1, <1>b, <2>1 DEF Load, Report, NoUninitializedRead
<1>2. CASE Reading
  <2>1. ASSUME NEW b \in Binding, ReadName(b)
        PROVE  NoUninitializedRead'
    <3>1. exec = Here /\ requireReadableLocal(b) => Elem \subseteq mem[b]
      BY <1>a, AcceptedLoads
    <3>. QED BY <1>1, <2>1, <3>1 DEF ReadName
  <2>2. ASSUME NEW b \in Binding, NEW k \in Elem, ReadElement(b, k)
        PROVE  NoUninitializedRead'
    <3>1. exec = Here /\ requireIndexedScalarReadable(b, k) => {k} \subseteq mem[b]
      BY <1>a, AcceptedLoads
    <3>. QED BY <1>1, <2>2, <3>1 DEF ReadElement
  <2>3. ASSUME NEW b \in Binding, NEW s \in Slice, ReadSlice(b, s)
        PROVE  NoUninitializedRead'
    <3>1. exec = Here /\ requireSubArraySliceReadable(b, s) => s \subseteq mem[b]
      BY <1>a, AcceptedLoads
    <3>. QED BY <1>1, <2>3, <3>1 DEF ReadSlice
  <2>4. ASSUME NEW b \in Binding, NEW k \in Elem, ReadDynamic(b, k)
        PROVE  NoUninitializedRead'
    <3>1. exec = Here /\ requireReadableLocal(b) => {k} \subseteq mem[b]
      BY <1>a, AcceptedLoads
    <3>. QED BY <1>1, <2>4, <3>1 DEF ReadDynamic
  <2>. QED BY <1>2, <2>1, <2>2, <2>3, <2>4 DEF Reading
<1>3. CASE UNCHANGED <<uninitRead, rejected>> \/ (UNCHANGED uninitRead /\ (rejected => rejected'))
  BY <1>3, <1>b DEF NoUninitializedRead
<1>4. CASE SimpleStmt
  BY <1>3, <1>4 DEF SimpleStmt, LetInit, LetUninit, AssignName, AssignElement,
            CallOrStoreThroughPointer, Return, Break, Continue, LoopControl,
            LoopControlOutsideLoop, Report, ghost
<1>5. CASE CompoundStmt
  BY <1>3, <1>5 DEF CompoundStmt, OpenBlock, CloseBlock, OpenIf, OpenElse, CloseIf, OpenWhile,
            EnterWhileBody, CloseWhile, OpenFor, EnterForHead, EnterForBody, EnterForStep,
            CloseFor, ghost
<1>6. CASE Function
  BY <1>3, <1>6 DEF Function, BeginFunction, EndFunction
<1>7. CASE UNCHANGED vars
  BY <1>3, <1>7 DEF vars, analyzer, ghost
<1>. QED BY <1>2, <1>4, <1>5, <1>6, <1>7 DEF Next

\* The inductive invariant holds initially.
LEMMA InitIInv == Init => IInv
<1>. SUFFICES ASSUME Init PROVE IInv
  OBVIOUS
<1>1. TrackingOK
  BY NoElementsType DEF Init, TrackingOK, NoElements
<1>2. FramesOK /\ StackInv /\ ScopeInv /\ ReturningCodeIsLeft
  BY NoFrameType DEF Init, FramesOK, StackInv, ScopeInv, ReturningCodeIsLeft
<1>3. GhostOK
  <2>1. Gone \in Exec
    BY DEF Exec
  <2>2. \A b \in Binding : NoElements[b] = {}
    BY DEF NoElements
  <2>. QED BY <2>1, <2>2, NoElementsType DEF Init, GhostOK
<1>4. ParkingInv /\ CoverInv
  BY ParkedFields DEF Init, ParkingInv, CoverInv
<1>5. NoUninitializedRead
  BY DEF Init, NoUninitializedRead
<1>. QED BY <1>1, <1>2, <1>3, <1>4, <1>5 DEF IInv, TypeOK

\* Every step preserves the inductive invariant.
LEMMA StepIInv == IInv /\ [Next]_vars => IInv'
BY FramesStep, TrackingStep, ScopeStep, GhostStep, ParkingStep, CoverStep, ReturningStep,
   NoUninitializedReadStep DEF IInv, TypeOK

\* The inductive invariant: what the analyzer takes for assigned has been stored
\* wherever the execution is, or will resume.
THEOREM InductiveInvariant == Spec => []IInv
BY InitIInv, StepIInv, PTL DEF Spec

\* popScope and the snapshots leave only bindings of open scopes in the state of
\* the analyzer, and its activation records stay well formed.
THEOREM TypeCorrect == Spec => []TypeOK
<1>1. IInv => TypeOK
  BY DEF IInv
<1>. QED BY <1>1, InductiveInvariant, PTL

\* requireReadableLocal, requireIndexedScalarReadable and
\* requireSubArraySliceReadable accept only loads of stored elements, in every
\* program, but for the step of a for reached by continue.
THEOREM AcceptedProgramsLoadStoredElements == Spec => []NoUninitializedRead
<1>1. IInv => NoUninitializedRead
  BY DEF IInv
<1>. QED BY <1>1, InductiveInvariant, PTL

\* When analyzeStmt says that a statement returns, no execution gets past it.
THEOREM ReturningStatementsAreLeft == Spec => []ReturningCodeIsLeft
<1>1. IInv => ReturningCodeIsLeft
  BY DEF IInv
<1>. QED BY <1>1, InductiveInvariant, PTL

\* No mask survives a function, although analyzeFunction clears none.
THEOREM FunctionsStartClean == Spec => []CleanBetweenFunctions
<1>1. IInv => CleanBetweenFunctions
  <2>. SUFFICES ASSUME IInv, depth = 0 PROVE CleanBetweenFunctions
    BY DEF CleanBetweenFunctions
  <2>1. TrackingOK /\ scope = {}
    BY TopFacts DEF ScopeInv
  <2>2. definiteAssign = {} /\ \A b \in Binding : arrayElemAssign[b] = {}
    BY <2>1 DEF TrackingOK
  <2>3. arrayElemAssign = NoElements
    BY <2>1, <2>2 DEF TrackingOK, Elements, NoElements
  <2>. QED BY <2>1, <2>2, <2>3 DEF CleanBetweenFunctions
<1>. QED BY <1>1, InductiveInvariant, PTL

-----------------------------------------------------------------------------
(* No path of the analysis forgets an assignment of a scalar.  Alone this  *)
(* is not inductive: the ends of a loop and of an arm replace the state by *)
(* a snapshot, so that the snapshots themselves must hold the scalars of   *)
(* those they are nested in.                                               *)

ElsePhase == {"else", "elseEnd"}

\* The scalars of a snapshot are assigned now, in the snapshots nested in it,
\* and at the end of every then arm that is remembered.
ScalarsKept ==
  \A d \in 1 .. depth : frames[d].at \in Snapshotting =>
    /\ frames[d].before \ arrays \subseteq definiteAssign
    /\ \A e \in d .. depth :
         /\ frames[e].at \in Snapshotting =>
              frames[d].before \ arrays \subseteq frames[e].before
         /\ frames[e].at \in ElsePhase =>
              frames[d].before \ arrays \subseteq frames[e].afterThen

\* The step takes no snapshot in the record at depth d.
SameSnapshots(d) ==
  /\ frames'[d].at \in Snapshotting => frames[d].at \in Snapshotting
  /\ frames'[d].at \in ElsePhase => frames[d].at \in ElsePhase
  /\ frames'[d].before = frames[d].before
  /\ frames'[d].afterThen = frames[d].afterThen

\* Completing a child of a record takes no snapshot.
LEMMA EndOfSnapshotting ==
  ASSUME NEW at \in Slot
  PROVE  /\ EndOf(at) \in Snapshotting => at \in Snapshotting
         /\ EndOf(at) \in ElsePhase => at \in ElsePhase
BY DEF Slot, BodySlot, EndOf, Snapshotting, Phase, ElsePhase

\* A simple statement takes no snapshot.
LEMMA CompleteStmtSnapshots ==
  ASSUME FramesOK, StmtAllowed(Slot), NEW r \in BOOLEAN, CompleteStmt(r)
  PROVE  depth' = depth /\ depth \in Nat /\ \A d \in 1 .. depth : SameSnapshots(d)
<1>1. /\ depth' = depth /\ depth \in 1 .. MaxDepth
      /\ \A d \in 1 .. depth : d # depth => frames'[d] = frames[d]
      /\ top \in Frame /\ top.at \in Slot /\ frames'[depth] = Completed(top, r)
  BY CompleteStmtEffect
<1>2. SameSnapshots(depth)
  BY <1>1, CompletedType, EndOfSnapshotting DEF SameSnapshots, top
<1>. QED BY <1>1, <1>2 DEF SameSnapshots

\* Nor does the end of a compound statement.
LEMMA PopSnapshots ==
  ASSUME FramesOK, StackInv, depth > 1, NEW r \in BOOLEAN, PopInto(r)
  PROVE  /\ depth' = depth - 1 /\ depth \in Nat /\ depth' \in Nat /\ depth' <= depth
         /\ \A d \in 1 .. depth' : SameSnapshots(d)
<1>1. /\ depth' = depth - 1 /\ depth - 1 \in 1 .. MaxDepth /\ depth \in 1 .. MaxDepth
      /\ \A d \in 1 .. depth - 1 : d # depth - 1 => frames'[d] = frames[d]
      /\ frames[depth - 1] \in Frame /\ frames[depth - 1].at \in Slot
      /\ frames'[depth - 1] = Completed(frames[depth - 1], r)
  BY PopEffect
<1>2. SameSnapshots(depth - 1)
  BY <1>1, CompletedType, EndOfSnapshotting DEF SameSnapshots
<1>. QED BY <1>1, <1>2 DEF SameSnapshots

\* A step that takes no snapshot keeps the scalars, if the state after it has
\* those of every snapshot that is left.
LEMMA KeptStill ==
  ASSUME ScalarsKept, depth \in Nat, depth' \in Nat, depth' <= depth,
         \A d \in 1 .. depth' : SameSnapshots(d),
         \A d \in 1 .. depth' : frames[d].at \in Snapshotting =>
           /\ frames[d].before \ arrays' \subseteq frames[d].before \ arrays
           /\ frames[d].before \ arrays \subseteq definiteAssign'
  PROVE  ScalarsKept'
<1>. SUFFICES ASSUME NEW d \in 1 .. depth', frames'[d].at \in Snapshotting
              PROVE  /\ frames'[d].before \ arrays' \subseteq definiteAssign'
                     /\ \A e \in d .. depth' :
                          /\ frames'[e].at \in Snapshotting =>
                               frames'[d].before \ arrays' \subseteq frames'[e].before
                          /\ frames'[e].at \in ElsePhase =>
                               frames'[d].before \ arrays' \subseteq frames'[e].afterThen
  BY Zenon DEF ScalarsKept
<1>1. /\ d \in 1 .. depth /\ frames[d].at \in Snapshotting
      /\ frames'[d].before = frames[d].before
      /\ frames[d].before \ arrays' \subseteq frames[d].before \ arrays
      /\ frames[d].before \ arrays \subseteq definiteAssign'
  BY DEF SameSnapshots
<1>2. \A e \in d .. depth' : e \in d .. depth /\ e \in 1 .. depth'
  OBVIOUS
<1>. QED BY <1>1, <1>2 DEF ScalarsKept, SameSnapshots

\* A step that only changes the top record keeps them, if that record has the
\* scalars of the snapshots around it.
LEMMA KeptTop ==
  ASSUME ScalarsKept, depth \in Nat, depth' \in Nat \ {0}, depth' - 1 <= depth,
         arrays' = arrays,
         \A d \in 1 .. depth' - 1 : SameSnapshots(d),
         \A d \in 1 .. depth' - 1 : frames[d].at \in Snapshotting =>
           /\ frames[d].before \ arrays \subseteq definiteAssign'
           /\ frames'[depth'].at \in Snapshotting =>
                frames[d].before \ arrays \subseteq frames'[depth'].before
           /\ frames'[depth'].at \in ElsePhase =>
                frames[d].before \ arrays \subseteq frames'[depth'].afterThen,
         frames'[depth'].at \in Snapshotting =>
           frames'[depth'].before \ arrays \subseteq definiteAssign',
         frames'[depth'].at \in ElsePhase =>
           frames'[depth'].before \ arrays \subseteq frames'[depth'].afterThen
  PROVE  ScalarsKept'
<1>. SUFFICES ASSUME NEW d \in 1 .. depth', frames'[d].at \in Snapshotting
              PROVE  /\ frames'[d].before \ arrays \subseteq definiteAssign'
                     /\ \A e \in d .. depth' :
                          /\ frames'[e].at \in Snapshotting =>
                               frames'[d].before \ arrays \subseteq frames'[e].before
                          /\ frames'[e].at \in ElsePhase =>
                               frames'[d].before \ arrays \subseteq frames'[e].afterThen
  BY Zenon DEF ScalarsKept
<1>1. CASE d = depth'
  <2>1. \A e \in d .. depth' : e = depth'
    BY <1>1
  <2>. QED BY <1>1, <2>1
<1>2. CASE d # depth'
  <2>1. /\ d \in 1 .. depth' - 1 /\ d \in 1 .. depth
        /\ \A e \in d .. depth' : e = depth' \/ (e \in 1 .. depth' - 1 /\ e \in d .. depth)
    BY <1>2
  <2>2. /\ frames[d].at \in Snapshotting /\ frames'[d].before = frames[d].before
    BY <2>1 DEF SameSnapshots
  <2>. QED BY <2>1, <2>2 DEF ScalarsKept, SameSnapshots
<1>. QED BY <1>1, <1>2

\* The merge after an if keeps what is assigned before it and at the end of
\* its arms.
LEMMA MergeKeeps ==
  ASSUME NEW before, NEW afterThen, NEW afterElse, NEW hasElse \in BOOLEAN,
         NEW thenReturns \in BOOLEAN, NEW elseReturns \in BOOLEAN,
         NEW kept, kept \subseteq before, kept \subseteq afterThen, kept \subseteq afterElse
  PROVE  kept \subseteq mergeDefiniteAssignAfterIf(before, afterThen, afterElse,
                                                  hasElse, thenReturns, elseReturns)
BY DEF mergeDefiniteAssignAfterIf

\* Every step keeps the scalars of every snapshot.
LEMMA ScalarsKeptStep ==
  ASSUME IInv, ScalarsKept, [Next]_vars
  PROVE  ScalarsKept'
<1>a. /\ TrackingOK /\ FramesOK /\ StackInv /\ ScopeInv
      /\ depth \in Nat /\ (depth > 1 => depth > 0) /\ (depth > 0 => top \in Frame)
      /\ depth > 0 => depth \in 1 .. depth /\ top = frames[depth]
  BY TopFacts DEF top
<1>b. \A d \in 1 .. depth : frames[d].at \in Snapshotting =>
        frames[d].before \ arrays \subseteq definiteAssign
  BY Zenon DEF ScalarsKept
<1>c. depth > 0 /\ top.at \in Snapshotting =>
        \A d \in 1 .. depth : frames[d].at \in Snapshotting =>
          frames[d].before \ arrays \subseteq top.before
  BY <1>a DEF ScalarsKept
<1>d. BodySlot \subseteq Slot
  BY DEF Slot
<1>1. CASE Reading \/ UNCHANGED vars
  <2>1. UNCHANGED <<frames, depth, arrays, definiteAssign>>
    BY <1>1, Zenon DEF Reading, ReadName, ReadElement, ReadSlice, ReadDynamic, Load,
                       vars, analyzer
  <2>. QED BY <2>1 DEF ScalarsKept
<1>2. CASE SimpleStmt
  <2>1. PICK r \in BOOLEAN : /\ StmtAllowed(Slot) /\ CompleteStmt(r)
                             /\ arrays \subseteq arrays'
                             /\ definiteAssign \ arrays \subseteq definiteAssign'
    BY <1>2, <1>d
       DEF SimpleStmt, LetInit, LetUninit, AssignName, AssignElement, declareLocal,
           noteConstantStore, noteDynamicStore, CallOrStoreThroughPointer, Return,
           Break, Continue, LoopControl, LoopControlOutsideLoop, StmtAllowed, Slot
  <2>2. depth' = depth /\ \A d \in 1 .. depth : SameSnapshots(d)
    BY <2>1, <1>a, CompleteStmtSnapshots
  <2>3. \A d \in 1 .. depth : frames[d].at \in Snapshotting =>
          /\ frames[d].before \ arrays' \subseteq frames[d].before \ arrays
          /\ frames[d].before \ arrays \subseteq definiteAssign'
    BY <2>1, <1>b
  <2>. QED BY <2>2, <2>3, <1>a, KeptStill
<1>3. CASE OpenBlock \/ OpenFor
  <2>5. PICK part \in {"block", "forInit"} :
          Push([NoFrame EXCEPT !.at = part, !.outer = scope])
    BY <1>3 DEF OpenBlock, OpenFor
  <2>1. PICK f : f = [NoFrame EXCEPT !.at = part, !.outer = scope] /\ Push(f)
    BY <2>5
  <2>a. f.at = part
    BY <2>1 DEF NoFrame
  <2>2. /\ depth' = depth + 1 /\ frames'[depth + 1].at = part
        /\ \A d \in 1 .. depth : frames'[d] = frames[d]
    BY <2>1, <2>a, <1>a, PushEffect
  <2>3. arrays' = arrays /\ definiteAssign' = definiteAssign
    BY <1>3 DEF OpenBlock, OpenFor
  <2>4. part \notin Snapshotting /\ part \notin ElsePhase
    BY DEF Snapshotting, ElsePhase
  <2>. QED BY <2>2, <2>3, <2>4, <1>a, <1>b, KeptTop DEF SameSnapshots
<1>4. CASE OpenIf \/ OpenWhile
  <2>1. PICK part \in {"then", "whileCond"} : Push(Activation(part))
    BY <1>4 DEF OpenIf, OpenWhile
  <2>2. Activation(part).at = part /\ Activation(part).before = definiteAssign
    BY <1>a, ActivationType DEF Phase, Slot, BodySlot
  <2>3. /\ depth' = depth + 1 /\ frames'[depth + 1] = Activation(part)
        /\ \A d \in 1 .. depth : frames'[d] = frames[d]
    BY <2>1, <1>a, PushEffect
  <2>4. arrays' = arrays /\ definiteAssign' = definiteAssign
    BY <1>4 DEF OpenIf, OpenWhile
  <2>5. part \notin ElsePhase
    BY DEF ElsePhase
  <2>. QED BY <2>2, <2>3, <2>4, <2>5, <1>a, <1>b, KeptTop DEF SameSnapshots
<1>5. CASE OpenElse
  <2>1. PICK f : /\ f = [top EXCEPT !.at = "else",
                                    !.afterThen = definiteAssign,
                                    !.afterThenArrays = arrayElemAssign,
                                    !.thenReturns = top.returns,
                                    !.returns = FALSE]
                 /\ Rephase(f) /\ definiteAssign' = top.before /\ arrays' = arrays
                 /\ depth > 0 /\ top.at = "thenEnd"
    BY <1>5 DEF OpenElse
  <2>2. f \in Frame /\ f.before = top.before /\ f.afterThen = definiteAssign
    BY <2>1, <1>a, TrackingTypes DEF Frame, Phase, Slot, BodySlot
  <2>3. /\ depth' = depth /\ frames'[depth] = f
        /\ \A d \in 1 .. depth : d # depth => frames'[d] = frames[d]
    BY <2>1, <2>2, <1>a, RephaseEffect
  <2>4. top.at \in Snapshotting
    BY <2>1 DEF Snapshotting, Phase
  <2>5. \A d \in 1 .. depth : frames[d].at \in Snapshotting =>
          frames[d].before \ arrays \subseteq top.before
    BY <2>1, <2>4, <1>c
  <2>6. top.before \ arrays \subseteq definiteAssign
    BY <2>1, <2>4, <1>a, <1>b
  <2>7. \A d \in 1 .. depth - 1 : d \in 1 .. depth /\ SameSnapshots(d)
    BY <2>3, <1>a DEF SameSnapshots
  <2>. QED BY <2>1, <2>2, <2>3, <2>5, <2>6, <2>7, <1>a, <1>b, KeptTop
<1>6. CASE EnterForHead
  <2>1. PICK f : /\ f = [top EXCEPT !.at = "forCond",
                                    !.before = definiteAssign,
                                    !.beforeArrays = arrayElemAssign]
                 /\ Rephase(f) /\ definiteAssign' = definiteAssign /\ arrays' = arrays
                 /\ depth > 0
    BY <1>6 DEF EnterForHead
  <2>2. f \in Frame /\ f.at = "forCond" /\ f.before = definiteAssign
    BY <2>1, <1>a, TrackingTypes DEF Frame, Phase, Slot, BodySlot
  <2>3. /\ depth' = depth /\ frames'[depth] = f
        /\ \A d \in 1 .. depth : d # depth => frames'[d] = frames[d]
    BY <2>1, <2>2, <1>a, RephaseEffect
  <2>4. \A d \in 1 .. depth - 1 : d \in 1 .. depth /\ SameSnapshots(d)
    BY <2>3, <1>a DEF SameSnapshots
  <2>5. f.at \notin ElsePhase
    BY <2>2 DEF ElsePhase
  <2>. QED BY <2>1, <2>2, <2>3, <2>4, <2>5, <1>a, <1>b, KeptTop
<1>7. CASE EnterWhileBody \/ EnterForBody \/ EnterForStep
  <2>1. PICK f \in Frame :
          /\ Rephase(f) /\ f.at \notin ElsePhase /\ f.before = top.before
          /\ f.afterThen = top.afterThen /\ top.at \in Snapshotting
    BY <1>7, <1>a DEF EnterWhileBody, EnterForBody, EnterForStep, Frame, Phase, Slot,
                      BodySlot, ElsePhase, Snapshotting
  <2>2. depth > 0 /\ arrays' = arrays /\ definiteAssign' = definiteAssign
    BY <1>7 DEF EnterWhileBody, EnterForBody, EnterForStep
  <2>3. /\ depth' = depth /\ frames'[depth] = f
        /\ \A d \in 1 .. depth : d # depth => frames'[d] = frames[d]
    BY <2>1, <2>2, <1>a, RephaseEffect
  <2>4. \A d \in 1 .. depth' : SameSnapshots(d)
    BY <2>1, <2>2, <2>3, <1>a DEF SameSnapshots
  <2>. QED BY <2>2, <2>3, <2>4, <1>a, <1>b, KeptStill
<1>8. CASE CloseBlock \/ CloseWhile \/ CloseFor
  <2>1. depth > 1
    BY <1>8 DEF CloseBlock, CloseFor, CloseWhile
  <2>2. PICK r \in BOOLEAN : PopInto(r)
    BY <1>8, <2>1, <1>a DEF CloseBlock, CloseFor, CloseWhile, Frame
  <2>3. /\ depth' = depth - 1 /\ depth' \in Nat /\ depth' <= depth
        /\ \A d \in 1 .. depth' : SameSnapshots(d)
    BY <2>1, <2>2, <1>a, PopSnapshots
  <2>4. \A d \in 1 .. depth' : d \in 1 .. depth /\ frames[d].before \subseteq top.outer
    BY <2>1, <2>3, <1>a DEF ScopeInv, SnapshotWithin
  <2>5. \A d \in 1 .. depth' : frames[d].at \in Snapshotting =>
          frames[d].before \ arrays \subseteq definiteAssign
          /\ (top.at \in Snapshotting => frames[d].before \ arrays \subseteq top.before)
    BY <2>1, <2>4, <1>a, <1>b, <1>c
  <2>6. /\ \/ arrays' = arrays
           \/ arrays' = arrays \cap top.outer
        /\ \/ definiteAssign' = definiteAssign \ (scope \ top.outer)
           \/ /\ top.at \in Snapshotting
              /\ \/ definiteAssign' = top.before
                 \/ definiteAssign' = top.before \ (scope \ top.outer)
    BY <1>8 DEF CloseBlock, CloseFor, CloseWhile, popScope, Snapshotting, Phase
  <2>7. \A d \in 1 .. depth' : frames[d].at \in Snapshotting =>
          /\ frames[d].before \ arrays' \subseteq frames[d].before \ arrays
          /\ frames[d].before \ arrays \subseteq definiteAssign'
    BY <2>4, <2>5, <2>6
  <2>. QED BY <2>3, <2>7, <1>a, KeptStill
<1>9. ASSUME NEW hasElse \in BOOLEAN, CloseIf(hasElse)
      PROVE  ScalarsKept'
  <2>1. depth > 1 /\ arrays' = arrays /\ top.at \in Snapshotting
    BY <1>9 DEF CloseIf, Snapshotting, Phase
  <2>2. PICK r \in BOOLEAN : PopInto(r)
    BY <1>9 DEF CloseIf, ifReturns
  <2>3. /\ depth' = depth - 1 /\ depth' \in Nat /\ depth' <= depth
        /\ \A d \in 1 .. depth' : SameSnapshots(d)
    BY <2>1, <2>2, <1>a, PopSnapshots
  <2>4. ASSUME NEW d \in 1 .. depth', frames[d].at \in Snapshotting
        PROVE  frames[d].before \ arrays \subseteq definiteAssign'
    <3>1. d \in 1 .. depth /\ depth \in d .. depth
      BY <2>3, <1>a
    <3>2. PICK kept : /\ kept = frames[d].before \ arrays
                      /\ kept \subseteq definiteAssign /\ kept \subseteq top.before
      BY <3>1, <2>1, <2>4, <1>a, <1>b, <1>c
    <3>3. ASSUME hasElse PROVE kept \subseteq definiteAssign'
      <4>1. top.at \in ElsePhase
        BY <1>9, <3>3 DEF CloseIf, ElsePhase
      <4>2. kept \subseteq top.afterThen
        BY <2>4, <3>1, <3>2, <4>1 DEF ScalarsKept, top
      <4>3. /\ mergeAfterIf(top.afterThen, top.afterThenArrays,
                            TRUE, top.thenReturns, top.returns)
            /\ top.thenReturns \in BOOLEAN /\ top.returns \in BOOLEAN
        BY <1>9, <3>3, <2>1, <1>a DEF CloseIf, Frame
      <4>4. /\ kept \subseteq definiteAssign
            /\ kept \subseteq top.before
        BY <3>2
      <4>. QED BY <4>2, <4>3, <4>4, MergeKeeps DEF mergeAfterIf, mergeArrayElemAssignAfterIf
    <3>4. ASSUME ~hasElse PROVE kept \subseteq definiteAssign'
      <4>1. /\ mergeAfterIf(definiteAssign, arrayElemAssign, FALSE, top.returns, FALSE)
            /\ top.returns \in BOOLEAN
        BY <1>9, <3>4, <2>1, <1>a DEF CloseIf, Frame
      <4>2. /\ kept \subseteq definiteAssign
            /\ kept \subseteq top.before
        BY <3>2
      <4>. QED BY <4>1, <4>2, MergeKeeps DEF mergeAfterIf, mergeArrayElemAssignAfterIf
    <3>5. kept \subseteq definiteAssign'
      BY <3>3, <3>4
    <3>. QED BY <3>2, <3>5, Zenon
  <2>. QED BY <2>1, <2>3, <2>4, <1>a, KeptStill
<1>10. ASSUME NEW count \in 0 .. MaxBinding, NEW arrayParameters \in SUBSET (1 .. count),
              BeginFunction(count, arrayParameters)
       PROVE  ScalarsKept'
  <2>1. depth' = 1 /\ frames'[1].at = "block"
    BY <1>10, <1>a DEF BeginFunction, FramesOK, NoFrame
  <2>. QED BY <2>1 DEF ScalarsKept, Snapshotting
<1>11. ASSUME NEW isVoid \in BOOLEAN, EndFunction(isVoid)
       PROVE  ScalarsKept'
  BY <1>11 DEF EndFunction, ScalarsKept
<1>. QED
  BY <1>1, <1>2, <1>3, <1>4, <1>5, <1>6, <1>7, <1>8, <1>9, <1>10, <1>11
     DEF Next, CompoundStmt, Function

\* A scalar that is readable before an if or a loop stays readable inside it,
\* in both arms and after it, whatever is nested in it.
THEOREM ScalarsAreKept == Spec => []ScalarsStayReadable
<1>1. Init => ScalarsKept
  BY DEF Init, ScalarsKept
<1>2. ScalarsKept => ScalarsStayReadable
  BY DEF ScalarsKept, ScalarsStayReadable
<1>3. IInv /\ ScalarsKept /\ [Next]_vars => ScalarsKept'
  BY ScalarsKeptStep
<1>. QED BY <1>1, <1>2, <1>3, InductiveInvariant, PTL DEF Spec
=============================================================================
