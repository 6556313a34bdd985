--------------------------- MODULE MCLoopLowering ---------------------------
(* Program families for LoopLowering.  Statements are labelled with their   *)
(* path, so that two effects are never the same event.                      *)
EXTENDS LoopLowering

\* Blocks of at most two statements; Stmts(path) are the statements allowed.
Blocks(path, Stmts(_)) ==
  {<<>>}
    \cup {<<s>> : s \in Stmts(Append(path, 1))}
    \cup {<<s, t>> : s \in Stmts(Append(path, 1)), t \in Stmts(Append(path, 2))}

\* Arms of an if in a loop: an effect or not, then loop control or not; and an
\* if that controls the loop from inside the arm.
Arms(path) ==
  LET before == Effect(Append(path, 1)) IN
  {<<>>, <<before>>, <<Break>>, <<Continue>>, <<before, Break>>, <<before, Continue>>,
   <<If(Append(path, 2), <<Break>>, <<>>, FALSE)>>}

InnerLoops(path) ==
  LET first == Append(path, 1)
      guard(control) == If(Append(path, 2), <<control>>, <<>>, FALSE)
  IN {Loop(path, FALSE, body, step) :
        body \in {<<Effect(first)>>, <<Effect(first), Break>>,
                  <<Effect(first), guard(Break)>>, <<guard(Continue), Effect(first)>>},
        step \in {<<>>, <<Effect(Append(path, 3))>>}}

\* Statements of a loop body.
BodyStmts(path) ==
  {Effect(path), Break, Continue, Block(<<Break>>), Return}
    \cup {If(path, arm, <<>>, FALSE) : arm \in Arms(Append(path, 1))}
    \cup {If(path, arm, other, TRUE) :
            arm \in Arms(Append(path, 1)),
            other \in {<<Effect(Append(path, 2))>>, <<Break>>, <<Continue>>}}
    \cup InnerLoops(path)

\* One loop, then an effect.
LoopPrograms(calls, steps) ==
  {<<Loop(<<1>>, conditionCalls, body, step), Effect(<<2>>)>> :
     conditionCalls \in calls, body \in Blocks(<<1>>, BodyStmts), step \in steps}

NoStep == <<>>
Step == <<Effect(<<1, 3>>)>>

\* Arms that may return.
ReturningArms(path) ==
  LET before == Effect(Append(path, 1)) IN
  {<<before>>, <<Return>>, <<before, Return>>,
   <<If(Append(path, 2), <<Return>>, <<Return>>, TRUE)>>,
   <<If(Append(path, 2), <<before>>, <<>>, FALSE), Return>>}

ReturningStmts(path) ==
  {Effect(path), Return, Block(<<Return>>), Loop(path, FALSE, <<Return>>, <<>>)}
    \cup {If(path, arm, <<>>, FALSE) : arm \in ReturningArms(Append(path, 1))}
    \cup {If(path, arm, other, TRUE) : arm \in ReturningArms(Append(path, 1)),
                                       other \in ReturningArms(Append(path, 2))}

\* Functions whose control flow is ifs and returns.
ReturnPrograms ==
  {Append(body, Effect(<<3>>)) : body \in Blocks(<<>>, ReturningStmts)}

\* Labels are paths.
MCLabels == Seq(1 .. 3)

MCPrograms == LoopPrograms(BOOLEAN, {NoStep, Step}) \cup ReturnPrograms
=============================================================================
