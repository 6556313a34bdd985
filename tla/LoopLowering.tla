---------------------------- MODULE LoopLowering ----------------------------
(***************************************************************************)
(* How structured statements become executable code: the typed-IR builder  *)
(* (src/ir/builder.cpp: buildBlockStatements, buildStmt, buildForStmt) and *)
(* the MLIR lowering of blocks, ifs, loops, break, continue and return     *)
(* (src/mlir/textual.cpp: lowerBlock, lowerIf, lowerFallthroughIf,         *)
(* lowerWhile, lowerFallthroughRegionBlock, lowerYieldingReturnBlock).     *)
(*                                                                         *)
(* A behaviour compiles one program and then runs it twice, in lock step:  *)
(* as the language reference says (src), and as the lowered code says      *)
(* (low).  What the two must agree on are their events:                    *)
(*                                                                         *)
(*   an effect (an assignment, a call: anything but control flow),         *)
(*   a condition of an if or of a loop, evaluated with either outcome,     *)
(*   the exit from a loop by break,                                        *)
(*   the end of the function.                                              *)
(*                                                                         *)
(* An event happens only when both machines are at it, so the first        *)
(* disagreement stays.                                                     *)
(*                                                                         *)
(* Expressions, declarations, types and result values are not modelled;    *)
(* functions are void.  Everything recursive is a recursive function.      *)
(***************************************************************************)
EXTENDS Naturals, Sequences, SequencesExt

CONSTANTS
  Programs,     \* the function bodies to compile: sequences of statements
  Labels,       \* the names of effects, of ifs and of loops
  MaxNesting    \* how deep statements are nested in statements

VARIABLES
  program, status,
  src, low,     \* the frames of the two executions, the innermost first
  continued     \* src has passed a continue since the last event

vars == <<program, status, src, low, continued>>

-----------------------------------------------------------------------------
(* Statements, and the operations of the typed IR, which are the           *)
(* statements other than blocks.  An IR block is the sequence of its       *)
(* operations; a return, its terminator, is the last of them.              *)

Effect(id) == [kind |-> "effect", id |-> id]
Break == [kind |-> "break"]
Continue == [kind |-> "continue"]
Return == [kind |-> "return"]
Block(body) == [kind |-> "block", body |-> body]

If(id, then, else, hasElse) ==
  [kind |-> "if", id |-> id, then |-> then, else |-> else, hasElse |-> hasElse]

\* while, and for without its init clause (an effect before the loop): the step
\* is a sequence of effects; conditionCalls if evaluating the condition has
\* effects of its own.
Loop(id, conditionCalls, body, step) ==
  [kind |-> "loop", id |-> id, conditionCalls |-> conditionCalls,
   body |-> body, step |-> step]

Effects == [kind : {"effect"}, id : Labels]
Simple == Effects \cup {Break, Continue, Return}

BlocksOf(bodies) == [kind : {"block"}, body : bodies]
IfsOf(arms) ==
  [kind : {"if"}, id : Labels, then : arms, else : arms, hasElse : BOOLEAN]
LoopsOf(bodies) ==
  [kind : {"loop"}, id : Labels, conditionCalls : BOOLEAN, body : bodies,
   step : Seq(Effects)]

\* The statements with at most n levels of statements in them.
Statements[n \in 0 .. MaxNesting] ==
  IF n = 0 THEN Simple
  ELSE LET nested == Seq(Statements[n - 1])
       IN Simple \cup BlocksOf(nested) \cup IfsOf(nested) \cup LoopsOf(nested)

Code == Seq(Statements[MaxNesting])

ASSUME ProgramsAssumption == MaxNesting \in Nat /\ Programs \subseteq Code

-----------------------------------------------------------------------------
(* The typed-IR builder.                                                   *)

Returns(block) == block # <<>> /\ Last(block).kind = "return"

\* Statements after a return, a break or a continue of the same source block
\* are not built.
StopsBuilding(built, stmt) ==
  Returns(built) \/ stmt.kind \in {"break", "continue"}

\* The operations of one statement; blocks are what is nested in it, built.
buildStmt(stmt, blocks) ==
  CASE stmt.kind = "block" -> blocks[stmt.body]
    [] stmt.kind = "if" ->
         <<If(stmt.id, blocks[stmt.then], blocks[stmt.else], stmt.hasElse)>>
    [] stmt.kind = "loop" ->
         <<Loop(stmt.id, stmt.conditionCalls, blocks[stmt.body], stmt.step)>>
    [] OTHER -> <<stmt>>

buildBlockStatements[stmts \in Code] ==
  IF stmts = <<>> THEN <<>>
  ELSE LET built == buildStmt(Head(stmts), buildBlockStatements)
       IN IF StopsBuilding(built, Head(stmts)) THEN built
          ELSE built \o buildBlockStatements[Tail(stmts)]

-----------------------------------------------------------------------------
(* Lowering.  A region of lowered code is its instructions, how it ended,  *)
(* whether a yield closes it, and whether lowering and the MLIR verifier   *)
(* accepted it so far.  Instructions are effects, ifs and loops over       *)
(* instructions, returns and                                               *)

SetExit(loop) == [kind |-> "setExit", id |-> loop.id]

Complete == "Complete"
IterationClosed == "IterationClosed"
NestedLoopControl == "NestedLoopControlNeedStepAndYield"
Returned == "Returned"      \* lowerOperation emitted a return

Region(code, end, yields, ok) ==
  [code |-> code, end |-> end, yields |-> yields, ok |-> ok]

Rejected == Region(<<>>, Complete, FALSE, FALSE)

\* The region that does this first.
After(code, ok, region) ==
  Region(code \o region.code, region.end, region.yields, ok /\ region.ok)

\* Where a block is lowered: as the body of a function or an arm that returns,
\* as the body of a loop, or in an if of a region; and its innermost active loop.
NoLoop == [kind |-> "none"]
Function == [region |-> "function", loop |-> NoLoop]
Body(loop) == [region |-> "body", loop |-> loop]
Arm(loop) == [region |-> "arm", loop |-> loop]
Places ==
  [region : {"function", "body", "arm"}, loop : LoopsOf(Code) \cup {NoLoop}]

LoopControl == {"break", "continue"}

ControlEnd(place) ==
  IF place.region = "body" THEN IterationClosed ELSE NestedLoopControl

\* break: set the exit flag of the innermost active loop and yield.
lowerBreak(place) == Region(<<SetExit(place.loop)>>, ControlEnd(place), TRUE, TRUE)

\* Mutant of lowerContinue: the step is left to the end of the body.
lowerContinueWithoutStep(place) == Region(<<>>, ControlEnd(place), TRUE, TRUE)

\* continue: directly in the body, run the step; then yield.
lowerContinue(place) ==
  Region(IF place.region = "body" THEN place.loop.step ELSE <<>>,
         ControlEnd(place), TRUE, TRUE)

ifIsFallthroughShape(op) == ~Returns(op.then) /\ (op.hasElse => ~Returns(op.else))

\* Mutant of joinArms: no arm may end in loop control.
joinArmsRejectingControl(op, then, else) ==
  Region(<<If(op.id, then.code, else.code, op.hasElse)>>, Complete, FALSE,
         then.ok /\ else.ok /\ then.end = Complete /\ else.end = Complete)

\* An if whose arms have been lowered: a complete arm gets a yield, the
\* verifier refuses an arm left without one, and two arms may not both end in
\* loop control.
joinArms(op, then, else) ==
  Region(<<If(op.id, then.code, else.code, op.hasElse)>>,
         IF then.end # Complete THEN then.end ELSE else.end,
         FALSE,
         /\ then.ok /\ (then.end = Complete \/ then.yields)
         /\ else.ok /\ (else.end = Complete \/ else.yields)
         /\ then.end = Complete \/ else.end = Complete)

\* An if whose two arms return: none of their operations may.
ReturningIf(op, then, else) ==
  Region(<<If(op.id, then.code, else.code, TRUE), Return>>, Returned, FALSE,
         /\ then.ok /\ then.end = Complete /\ Returns(op.then)
         /\ else.ok /\ else.end = Complete /\ Returns(op.else))

\* The end of a loop body: the step, unless the region closed the iteration.
closeBody(loop, body) ==
  body.code \o (IF body.end = IterationClosed THEN <<>> ELSE loop.step)

lowerWhile(op, body) ==
  Loop(op.id, op.conditionCalls, closeBody(op, body), <<>>)

\* The lowering of a block that starts with op and goes on with rest; regions
\* are the lowered blocks nested in op.  Loop control, in this block or in an if
\* of it, is the last thing lowered, and so is an if that returns, which no
\* region but that of a function may hold.
lowerOperation(op, place, rest, regions) ==
  CASE op.kind = "effect" -> After(<<op>>, TRUE, rest)
    [] op.kind = "loop" ->
         LET body == regions[<<op.body, Body(op)>>]
         IN After(<<lowerWhile(op, body)>>, body.ok, rest)
    [] op.kind = "if" /\ ifIsFallthroughShape(op) ->
         LET joined == joinArms(op, regions[<<op.then, Arm(place.loop)>>],
                                    regions[<<op.else, Arm(place.loop)>>])
         IN IF joined.end # Complete THEN joined
            ELSE After(joined.code, joined.ok, rest)
    [] op.kind = "if" /\ ~ifIsFallthroughShape(op) /\ op.hasElse /\ place = Function ->
         ReturningIf(op, regions[<<op.then, Function>>], regions[<<op.else, Function>>])
    [] op.kind = "break" /\ place.loop # NoLoop -> lowerBreak(place)
    [] op.kind = "continue" /\ place.loop # NoLoop -> lowerContinue(place)
    [] op.kind = "return" /\ place = Function -> Region(<<>>, Complete, FALSE, TRUE)
    [] OTHER -> Rejected

lowerRegion[at \in Code \X Places] ==
  LET block == at[1]
      place == at[2]
  IN IF block = <<>> THEN Region(<<>>, Complete, FALSE, TRUE)
     ELSE lowerOperation(Head(block), place, lowerRegion[<<Tail(block), place>>],
                         lowerRegion)

\* The body of a function, with its terminator.
lowerBlock(block) ==
  LET lowered == lowerRegion[<<block, Function>>]
  IN [ok |-> lowered.ok,
      code |-> IF lowered.end # Returned /\ Returns(block)
                 THEN Append(lowered.code, Return) ELSE lowered.code]

-----------------------------------------------------------------------------
(* Execution.  A frame is what remains to be done in the function or in    *)
(* one iteration of a loop; at its end the condition is evaluated again.   *)
(* A frame of lowered code has the exit flag of its loop.                  *)

Frame(todo, loop) == [todo |-> todo, loop |-> loop]

End == [kind |-> "end"]
Condition(item) == [kind |-> "condition", of |-> item.id]
Left(loop) == [kind |-> "left", of |-> loop.id]
Silent == [kind |-> "silent"]

\* The frames with this to do in the innermost one.
Todo(frames, todo) == [frames EXCEPT ![1].todo = todo]

\* What remains after the head of the innermost frame, with this before it.
Instead(frames, first) == Todo(frames, first \o Tail(frames[1].todo))

AtFrameEnd(frames) == frames[1].todo = <<>>
AtKind(frames, kind) == ~AtFrameEnd(frames) /\ Head(frames[1].todo).kind = kind

\* As the language reference describes it: break exits the innermost loop,
\* continue runs the step of a for and evaluates the condition again.
srcEvent ==
  LET op == Head(src[1].todo) IN
  CASE AtFrameEnd(src) -> IF Len(src) = 1 THEN End ELSE Condition(src[1].loop)
    [] AtKind(src, "effect") -> op
    [] AtKind(src, "if") \/ AtKind(src, "loop") -> Condition(op)
    [] AtKind(src, "break") -> Left(src[1].loop)
    [] AtKind(src, "return") -> End
    [] OTHER -> Silent

Iteration(loop) == Frame(loop.body \o loop.step, loop)

srcAfterCondition(outcome) ==
  LET op == Head(src[1].todo) IN
  CASE AtFrameEnd(src) ->
         IF outcome THEN <<Iteration(src[1].loop)>> \o Tail(src) ELSE Tail(src)
    [] AtKind(src, "if") -> Instead(src, IF outcome THEN op.then ELSE op.else)
    [] AtKind(src, "loop") ->
         IF outcome THEN <<Iteration(op)>> \o Instead(src, <<>>) ELSE Instead(src, <<>>)

\* Mutant of enterLoop: the exit flag is not cleared.
enterLoopKeepingFlag(loop) == [todo |-> <<>>, loop |-> loop, exit |-> TRUE]

\* A loop clears its exit flag when it is entered, before its condition.
enterLoop(loop) == [todo |-> <<>>, loop |-> loop, exit |-> FALSE]

entered ==
  IF AtKind(low, "loop")
    THEN <<enterLoop(Head(low[1].todo))>> \o Instead(low, <<>>) ELSE low

\* The condition of a loop is evaluated, with its effects, even when the exit
\* flag makes it irrelevant.
lowEvent ==
  LET op == Head(low[1].todo)
      frame == entered[1]
  IN CASE AtFrameEnd(entered) ->
            IF Len(entered) = 1 THEN End
            ELSE IF frame.exit /\ ~frame.loop.conditionCalls THEN Left(frame.loop)
            ELSE Condition(frame.loop)
       [] AtKind(low, "effect") -> op
       [] AtKind(low, "if") -> Condition(op)
       [] AtKind(low, "return") -> End
       [] AtKind(low, "setExit") -> Silent

lowAfterCondition(outcome) ==
  LET op == Head(low[1].todo)
      frame == entered[1]
  IN CASE AtFrameEnd(entered) ->
            IF outcome /\ ~frame.exit THEN Todo(entered, frame.loop.body) ELSE Tail(entered)
       [] AtKind(low, "if") -> Instead(low, IF outcome THEN op.then ELSE op.else)

-----------------------------------------------------------------------------

Init ==
  /\ program \in Programs
  /\ status = "source"
  /\ src = <<>> /\ low = <<>>
  /\ continued = FALSE

IR == buildBlockStatements[program]

\* Build the typed IR and lower it; both executions start.
Compile ==
  /\ status = "source"
  /\ LET lowered == lowerBlock(IR)
     IN IF lowered.ok
          THEN /\ status' = "running"
               /\ src' = <<Frame(program, NoLoop)>>
               /\ low' = <<[todo |-> lowered.code, loop |-> NoLoop, exit |-> FALSE]>>
          ELSE /\ status' = "rejected"
               /\ UNCHANGED <<src, low>>
  /\ UNCHANGED <<program, continued>>

\* The source enters a block.
EnterBlock ==
  /\ status = "running"
  /\ AtKind(src, "block")
  /\ src' = Instead(src, Head(src[1].todo).body)
  /\ UNCHANGED <<program, status, low, continued>>

\* The source runs a continue: the step is next.
RunContinue ==
  /\ status = "running"
  /\ AtKind(src, "continue")
  /\ src' = Todo(src, src[1].loop.step)
  /\ continued' = TRUE
  /\ UNCHANGED <<program, status, low>>

\* The frame whose loop an instruction means: the innermost one of that name.
FrameOf(id) ==
  CHOOSE i \in DOMAIN low : /\ low[i].loop # NoLoop /\ low[i].loop.id = id
                            /\ \A j \in 1 .. i - 1 : low[j].loop.id # id

\* The lowered code sets the exit flag of a loop.
RunSetExit ==
  /\ status = "running"
  /\ AtKind(low, "setExit")
  /\ low' = [Instead(low, <<>>) EXCEPT ![FrameOf(Head(low[1].todo).id)].exit = TRUE]
  /\ UNCHANGED <<program, status, src, continued>>

AtEvents == status = "running" /\ srcEvent # Silent /\ lowEvent # Silent
EventsAgree == srcEvent = lowEvent

\* Both machines are at this kind of event.
Both(kind) ==
  /\ AtEvents /\ EventsAgree /\ srcEvent.kind = kind
  /\ continued' = FALSE
  /\ UNCHANGED <<program, status>>

PerformEffect ==
  /\ Both("effect")
  /\ src' = Instead(src, <<>>)
  /\ low' = Instead(low, <<>>)

EvaluateCondition(outcome) ==
  /\ Both("condition")
  /\ src' = srcAfterCondition(outcome)
  /\ low' = lowAfterCondition(outcome)

LeaveLoop ==
  /\ Both("left")
  /\ src' = Tail(src)
  /\ low' = Tail(low)

Next ==
  \/ Compile
  \/ EnterBlock \/ RunContinue \/ RunSetExit
  \/ PerformEffect
  \/ \E outcome \in BOOLEAN : EvaluateCondition(outcome)
  \/ LeaveLoop

Spec == Init /\ [][Next]_vars

-----------------------------------------------------------------------------
(* Properties.                                                             *)

\* The kinds of control of its loop that a block holds: not counting those of
\* loops nested in it.
controls[block \in Code] ==
  IF block = <<>> THEN {}
  ELSE LET op == Head(block) IN
       controls[Tail(block)]
         \cup IF op.kind \in LoopControl THEN {op.kind}
              ELSE IF op.kind = "if" THEN controls[op.then] \cup controls[op.else]
              ELSE {}

\* The analyzer refuses a break or continue outside of a loop.
ASSUME ControlAssumption ==
  \A body \in Programs : controls[buildBlockStatements[body]] = {}

\* The operation is an if that controls the loop in one of these ways.
ControllingIf(op, kinds) ==
  op.kind = "if" /\ (controls[op.then] \cup controls[op.else]) \cap kinds # {}

\* Nothing, not even a return, follows an if that controls the loop; a loop left
\* by break has a condition without effects and, if the break is in an if, no
\* step.
controlIsLast[block \in Code] ==
  block = <<>> \/
    LET op == Head(block) IN
    /\ ControllingIf(op, LoopControl) => Tail(block) = <<>>
    /\ op.kind = "if" => controlIsLast[op.then] /\ controlIsLast[op.else]
    /\ op.kind = "loop" =>
         /\ controlIsLast[op.body]
         /\ "break" \in controls[op.body] => ~op.conditionCalls
         /\ (\E i \in DOMAIN op.body : ControllingIf(op.body[i], {"break"})) =>
              op.step = <<>>
    /\ controlIsLast[Tail(block)]

\* No operation is an if that controls the loop, up to the first operation that
\* does control it.
firstControlIsDirect[block \in Code] ==
  block = <<>> \/
    LET op == Head(block) IN
    /\ ~ControllingIf(op, LoopControl)
    /\ op.kind \notin LoopControl => firstControlIsDirect[Tail(block)]

\* Loop control, up to the first in its block, is at most one if deep in its
\* loop, in one arm of it.
controlIsShallow[block \in Code] ==
  block = <<>> \/
    LET op == Head(block) IN
    /\ op.kind = "if" =>
         /\ controls[op.then] = {} \/ controls[op.else] = {}
         /\ \A arm \in {op.then, op.else} : controlIsShallow[arm] /\ firstControlIsDirect[arm]
    /\ op.kind = "loop" => controlIsShallow[op.body]
    /\ ~(op.kind \in LoopControl \/ ControllingIf(op, LoopControl)) =>
         controlIsShallow[Tail(block)]

\* A return inside an if or a loop.
returnsInside[block \in Code] ==
  block # <<>> /\
    LET op == Head(block)
        nested == CASE op.kind = "if" -> {op.then, op.else}
                    [] op.kind = "loop" -> {op.body}
                    [] OTHER -> {}
    IN \/ \E inner \in nested : Returns(inner) \/ returnsInside[inner]
       \/ returnsInside[Tail(block)]

\* Lowered code does what the source says, event by event and for every outcome
\* of every condition, when each if with a break or continue ends its block and
\* breaks are out of reach of a step or of a condition with effects: no arm,
\* iteration, exit flag or return is confused with another, in nested loops too.
LoweringIsFaithful == AtEvents /\ controlIsLast[IR] => EventsAgree

\* In every program that is lowered: what happens after a continue is what the
\* source says, "For for, the update clause runs before the condition is
\* evaluated again" (docs/reference/language/statements.md), once.
ContinueAdvances == AtEvents /\ continued => EventsAgree

\* Without returns in nested statements, lowering accepts exactly the programs
\* whose loop control (the first in its block) is at most one if deep and in one
\* arm of it; the others end in an exception or in the verifier.
ShallowControlIsLowered ==
  ~returnsInside[IR] /\ status # "source" =>
    (status = "running" <=> controlIsShallow[IR])

\* "branches perform side effects, then execution continues after the if" (the
\* comment on if/else in mlir/textual.cpp): when no loop control was executed,
\* the next event is the next one in the source.
ExecutionContinuesAfterIf ==
  AtEvents /\ ~continued /\ srcEvent.kind # "left" => EventsAgree
=============================================================================
