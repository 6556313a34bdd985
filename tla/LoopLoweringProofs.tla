------------------------- MODULE LoopLoweringProofs -------------------------
(***************************************************************************)
(* Proofs about LoopLowering, for every set of programs.                   *)
(***************************************************************************)
EXTENDS LoopLowering, SequenceLemmas

-----------------------------------------------------------------------------
(* The universe of statements, level by level; and that of lowered code,   *)
(* which differs in what is simple.                                        *)

\* The statements over these.
Over(simple, inner) ==
  LET nested == Seq(inner)
  IN simple \cup BlocksOf(nested) \cup IfsOf(nested) \cup LoopsOf(nested)

\* The recursion of Statements, up to a level.
Levels(f, simple, k) ==
  f = [n \in 0 .. k |-> IF n = 0 THEN simple ELSE Over(simple, f[n - 1])]

\* There is such a function.
LEMMA LevelsExist ==
  ASSUME MaxNesting \in Nat, NEW simple
  PROVE  \E f : Levels(f, simple, MaxNesting)
<1>. DEFINE A == {k \in 0 .. MaxNesting : \E f : Levels(f, simple, k)}
<1>1. 0 \in A
  <2>. DEFINE f == [n \in 0 .. 0 |-> simple]
  <2>1. f = [n \in 0 .. 0 |-> IF n = 0 THEN simple ELSE Over(simple, f[n - 1])]
    OBVIOUS
  <2>2. Levels(f, simple, 0)
    BY <2>1, Zenon DEF Levels
  <2>. QED
    BY <2>2
<1>2. ASSUME NEW k \in 0 .. MaxNesting - 1, k \in A
      PROVE  k + 1 \in A
  <2>1. PICK f : Levels(f, simple, k)
    BY <1>2
  <2>. DEFINE g == [n \in 0 .. k + 1 |-> IF n <= k THEN f[n] ELSE Over(simple, f[k])]
  <2>2. \A n \in 0 .. k + 1 : g[n] = IF n = 0 THEN simple ELSE Over(simple, g[n - 1])
    <3>. TAKE n \in 0 .. k + 1
    <3>1. CASE n = 0
      BY <2>1, <3>1 DEF Levels
    <3>2. CASE n \in 1 .. k
      <4>1. g[n] = f[n] /\ g[n - 1] = f[n - 1]
        BY <3>2
      <4>2. f[n] = Over(simple, f[n - 1])
        BY <2>1, <3>2 DEF Levels
      <4>. QED
        BY <3>2, <4>1, <4>2
    <3>3. CASE n = k + 1
      <4>1. g[n] = Over(simple, f[k]) /\ g[n - 1] = f[k] /\ n # 0
        BY <3>3
      <4>. QED
        BY <4>1
    <3>. QED
      BY <3>1, <3>2, <3>3
  <2>3. Levels(g, simple, k + 1)
    <3>. DEFINE h == [n \in 0 .. k + 1 |-> IF n = 0 THEN simple ELSE Over(simple, g[n - 1])]
    <3>1. g = h
      BY <2>2
    <3>. QED
      BY <3>1, Zenon DEF Levels
  <2>. QED
    BY <2>3
<1>3. 0 .. MaxNesting \subseteq A
  <2>. HIDE DEF A
  <2>. QED
    BY <1>1, <1>2, UpToInduction
<1>. QED
  BY <1>3

\* A sequence over a set is one over a larger set.
LEMMA SeqGrows ==
  ASSUME NEW A, NEW B, A \subseteq B
  PROVE  Seq(A) \subseteq Seq(B)
OBVIOUS

\* Sequences of one member, and joined.
LEMMA OneIsSeq ==
  ASSUME NEW A, NEW a \in A
  PROVE  <<a>> \in Seq(A)
OBVIOUS

\* Two lists of one member, joined.
LEMMA PairIsJoined ==
  ASSUME NEW a, NEW b
  PROVE  <<a>> \o <<b>> = <<a, b>>
<1>1. <<a>> \in Seq({a, b}) /\ <<b>> \in Seq({a, b}) /\ Len(<<a>>) = 1 /\ Len(<<b>>) = 1
  OBVIOUS
<1>2. PICK s : s = <<a>> \o <<b>>
  OBVIOUS
<1>3. s \in Seq({a, b}) /\ Len(s) = 2
  BY <1>1, <1>2
<1>4. s[1] = a /\ s[2] = b
  BY <1>1, <1>2
<1>5. s = <<a, b>>
  BY <1>3, <1>4
<1>. QED
  BY <1>2, <1>5, Zenon

\* Joined lists are a list.
LEMMA JoinIsSeq ==
  ASSUME NEW A, NEW s \in Seq(A), NEW t \in Seq(A)
  PROVE  s \o t \in Seq(A)
OBVIOUS

\* What is over less is over more.
LEMMA OverGrows ==
  ASSUME NEW simple, NEW A, NEW B, A \subseteq B
  PROVE  Over(simple, A) \subseteq Over(simple, B)
<1>1. Seq(A) \subseteq Seq(B)
  BY SeqGrows
<1>2. ASSUME NEW C, NEW D, C \subseteq D
      PROVE  BlocksOf(C) \subseteq BlocksOf(D) /\ IfsOf(C) \subseteq IfsOf(D) /\ LoopsOf(C) \subseteq LoopsOf(D)
  BY <1>2 DEF BlocksOf, IfsOf, LoopsOf
<1>3. /\ BlocksOf(Seq(A)) \subseteq BlocksOf(Seq(B))
      /\ IfsOf(Seq(A)) \subseteq IfsOf(Seq(B))
      /\ LoopsOf(Seq(A)) \subseteq LoopsOf(Seq(B))
  BY <1>1, <1>2, Zenon
<1>. QED
  BY <1>3, Zenon DEF Over

\* Levels, one by one, and how they grow.
LEMMA LevelsUnfolded ==
  ASSUME MaxNesting \in Nat, NEW simple, NEW levels, Levels(levels, simple, MaxNesting)
  PROVE  /\ levels[0] = simple
         /\ \A n \in 1 .. MaxNesting : levels[n] = Over(simple, levels[n - 1])
         /\ \A n \in 1 .. MaxNesting : levels[n - 1] \subseteq levels[n]
<1>1. /\ levels[0] = simple
      /\ \A n \in 1 .. MaxNesting : levels[n] = Over(simple, levels[n - 1])
  BY DEF Levels
<1>. DEFINE A == {k \in 0 .. MaxNesting : k < MaxNesting => levels[k] \subseteq levels[k + 1]}
<1>2. 0 \in A
  <2>1. SUFFICES ASSUME 0 < MaxNesting
                 PROVE  levels[0] \subseteq levels[0 + 1]
    OBVIOUS
  <2>2. levels[1] = Over(simple, levels[1 - 1]) /\ levels[0] = simple
    BY <1>1, <2>1
  <2>3. simple \subseteq Over(simple, levels[1 - 1])
    BY Zenon DEF Over
  <2>. QED
    BY <2>2, <2>3
<1>3. ASSUME NEW k \in 0 .. MaxNesting - 1, k \in A
      PROVE  k + 1 \in A
  <2>1. SUFFICES ASSUME k + 1 < MaxNesting
                 PROVE  levels[k + 1] \subseteq levels[(k + 1) + 1]
    BY <1>3
  <2>2. levels[k] \subseteq levels[k + 1]
    BY <1>3
  <2>3. k + 1 \in 1 .. MaxNesting /\ (k + 1) + 1 \in 1 .. MaxNesting
    BY <2>1
  <2>4. /\ levels[k + 1] = Over(simple, levels[(k + 1) - 1])
        /\ levels[(k + 1) + 1] = Over(simple, levels[((k + 1) + 1) - 1])
    BY <1>1, <2>3, Zenon
  <2>5. (k + 1) - 1 = k /\ ((k + 1) + 1) - 1 = k + 1
    OBVIOUS
  <2>. QED
    BY <2>2, <2>4, <2>5, OverGrows
<1>4. 0 .. MaxNesting \subseteq A
  <2>. HIDE DEF A
  <2>. QED
    BY <1>2, <1>3, UpToInduction
<1>5. ASSUME NEW n \in 1 .. MaxNesting
      PROVE  levels[n - 1] \subseteq levels[n]
  <2>1. n - 1 \in A /\ n - 1 < MaxNesting /\ (n - 1) + 1 = n
    BY <1>4
  <2>. QED
    BY <2>1
<1>. QED
  BY <1>1, <1>5

\* Statements are leveled.
LEMMA StatementsAreLeveled ==
  ASSUME MaxNesting \in Nat
  PROVE  Levels(Statements, Simple, MaxNesting)
<1>1. PICK f : Levels(f, Simple, MaxNesting)
  BY LevelsExist
<1>2. Statements = CHOOSE g : Levels(g, Simple, MaxNesting)
  BY Zenon DEF Statements, Levels, Over
<1>. QED
  BY <1>1, <1>2, Zenon

\* Statements, level by level.
LEMMA StatementsUnfolded ==
  ASSUME MaxNesting \in Nat
  PROVE  /\ Statements[0] = Simple
         /\ \A n \in 1 .. MaxNesting : Statements[n] = Over(Simple, Statements[n - 1])
BY StatementsAreLeveled, LevelsUnfolded

\* A level has the statements of the level below it.
LEMMA StatementsGrow ==
  ASSUME MaxNesting \in Nat, NEW n \in 1 .. MaxNesting
  PROVE  Statements[n - 1] \subseteq Statements[n]
BY StatementsAreLeveled, LevelsUnfolded

\* A level has the statements of all lower levels.
LEMMA StatementsGrowTo ==
  ASSUME MaxNesting \in Nat, NEW n \in 0 .. MaxNesting
  PROVE  \A m \in 0 .. n : Statements[m] \subseteq Statements[n]
<1>. DEFINE A == {k \in 0 .. n : \A m \in 0 .. k : Statements[m] \subseteq Statements[k]}
<1>1. 0 \in A
  OBVIOUS
<1>2. ASSUME NEW k \in 0 .. n - 1, k \in A
      PROVE  k + 1 \in A
  <2>1. Statements[k] \subseteq Statements[k + 1]
    <3>1. k + 1 \in 1 .. MaxNesting /\ (k + 1) - 1 = k
      OBVIOUS
    <3>. QED
      BY <3>1, StatementsGrow
  <2>2. ASSUME NEW m \in 0 .. k + 1
        PROVE  Statements[m] \subseteq Statements[k + 1]
    <3>1. CASE m = k + 1
      BY <3>1
    <3>2. CASE m \in 0 .. k
      <4>1. Statements[m] \subseteq Statements[k]
        BY <1>2, <3>2
      <4>. QED
        BY <2>1, <4>1
    <3>. QED
      BY <3>1, <3>2
  <2>. QED
    BY <2>2
<1>3. 0 .. n \subseteq A
  <2>. HIDE DEF A
  <2>. QED
    BY <1>1, <1>2, UpToInduction
<1>4. n \in A
  BY <1>3
<1>. QED
  BY <1>4

\* What is nested in a statement.
Nested(op) ==
  CASE op.kind = "if" -> {op.then, op.else}
    [] op.kind \in {"block", "loop"} -> {op.body}
    [] OTHER -> {}

\* The lists that the recursion over a list goes to.
Inside(block) ==
  IF block = <<>> THEN {} ELSE {Tail(block)} \cup Nested(Head(block))

\* A statement of a level, field by field.
IsStatement(op, nested) ==
  /\ op.kind \in {"effect", "break", "continue", "return", "block", "if", "loop"}
  /\ op.kind = "effect" => op \in Effects
  /\ op.kind = "break" => op = Break
  /\ op.kind = "continue" => op = Continue
  /\ op.kind = "return" => op = Return
  /\ op.kind = "block" => op.body \in nested /\ op = Block(op.body)
  /\ op.kind = "if" =>
       /\ op.id \in Labels /\ op.hasElse \in BOOLEAN
       /\ op.then \in nested /\ op.else \in nested
       /\ op = If(op.id, op.then, op.else, op.hasElse)
  /\ op.kind = "loop" =>
       /\ op.id \in Labels /\ op.conditionCalls \in BOOLEAN
       /\ op.body \in nested /\ op.step \in Seq(Effects)
       /\ op = Loop(op.id, op.conditionCalls, op.body, op.step)

\* The members of a level.
LEMMA StatementsAre ==
  ASSUME NEW A, NEW op \in Over(Simple, A)
  PROVE  IsStatement(op, Seq(A))
<1>1. CASE op \in Effects
  BY <1>1 DEF Effects, IsStatement
<1>2. CASE op \in {Break, Continue, Return}
  BY <1>2 DEF Break, Continue, Return, IsStatement
<1>3. CASE op \in BlocksOf(Seq(A))
  BY <1>3 DEF BlocksOf, Block, IsStatement
<1>4. CASE op \in IfsOf(Seq(A))
  BY <1>4 DEF IfsOf, If, IsStatement
<1>5. CASE op \in LoopsOf(Seq(A))
  BY <1>5 DEF LoopsOf, Loop, IsStatement
<1>. QED
  BY <1>1, <1>2, <1>3, <1>4, <1>5 DEF Over, Simple

\* What is nested in a statement is one level lower.
LEMMA NestedIsLower ==
  ASSUME MaxNesting \in Nat, NEW n \in 0 .. MaxNesting, NEW op \in Statements[n]
  PROVE  \/ Nested(op) = {} /\ op \in Simple /\ n = 0
         \/ n \in 1 .. MaxNesting /\ IsStatement(op, Seq(Statements[n - 1]))
<1>1. CASE n = 0
  <2>1. op \in Simple
    BY <1>1, StatementsUnfolded
  <2>2. Nested(op) = {}
    BY <2>1 DEF Simple, Effects, Break, Continue, Return, Nested
  <2>. QED
    BY <1>1, <2>1, <2>2
<1>2. CASE n # 0
  <2>1. n \in 1 .. MaxNesting
    BY <1>2
  <2>2. op \in Over(Simple, Statements[n - 1])
    BY <2>1, StatementsUnfolded, Zenon
  <2>. QED
    BY <2>1, <2>2, StatementsAre, Zenon
<1>. QED
  BY <1>1, <1>2

-----------------------------------------------------------------------------
(* Induction over lists of statements and what is nested in them.          *)

\* A list of a level is code.
LEMMA LevelsAreCode ==
  ASSUME MaxNesting \in Nat, NEW n \in 0 .. MaxNesting
  PROVE  Seq(Statements[n]) \subseteq Code
<1>1. Statements[n] \subseteq Statements[MaxNesting]
  BY StatementsGrowTo
<1>. QED
  BY <1>1, SeqGrows DEF Code

\* The parts of a list of a level.
LEMMA PartsOfLevel ==
  ASSUME MaxNesting \in Nat, NEW n \in 0 .. MaxNesting, NEW S \in Seq(Statements[n]), S # <<>>
  PROVE  /\ Head(S) \in Statements[n] /\ Tail(S) \in Seq(Statements[n])
         /\ S = <<Head(S)>> \o Tail(S)
         /\ Nested(Head(S)) # {} => n \in 1 .. MaxNesting
         /\ \A T \in Nested(Head(S)) : T \in Seq(Statements[n - 1])
         /\ IsStatement(Head(S), Code)
<1>1. Head(S) \in Statements[n] /\ Tail(S) \in Seq(Statements[n]) /\ S = <<Head(S)>> \o Tail(S)
  OBVIOUS
<1>. DEFINE op == Head(S)
<1>2. CASE Nested(op) = {} /\ op \in Simple /\ n = 0
  <2>1. IsStatement(op, Code)
    BY <1>2 DEF Simple, Effects, Break, Continue, Return, IsStatement
  <2>. QED
    BY <1>1, <1>2, <2>1
<1>3. CASE n \in 1 .. MaxNesting /\ IsStatement(op, Seq(Statements[n - 1]))
  <2>1. \A T \in Nested(op) : T \in Seq(Statements[n - 1])
    BY <1>3 DEF Nested, IsStatement
  <2>2. Seq(Statements[n - 1]) \subseteq Code
    <3>1. n - 1 \in 0 .. MaxNesting
      BY <1>3
    <3>. QED
      BY <3>1, LevelsAreCode
  <2>3. IsStatement(op, Code)
    BY <1>3, <2>2 DEF IsStatement
  <2>. QED
    BY <1>1, <1>3, <2>1, <2>3
<1>4. \/ Nested(op) = {} /\ op \in Simple /\ n = 0
      \/ n \in 1 .. MaxNesting /\ IsStatement(op, Seq(Statements[n - 1]))
  <2>. HIDE DEF op
  <2>. QED
    BY <1>1, NestedIsLower DEF op
<1>. QED
  BY <1>2, <1>3, <1>4

\* The parts of a list.
LEMMA PartsOfCode ==
  ASSUME MaxNesting \in Nat, NEW S \in Code, S # <<>>
  PROVE  /\ Tail(S) \in Code /\ S = <<Head(S)>> \o Tail(S)
         /\ IsStatement(Head(S), Code)
         /\ Nested(Head(S)) \subseteq Code
         /\ Inside(S) = {Tail(S)} \cup Nested(Head(S))
<1>1. MaxNesting \in 0 .. MaxNesting /\ S \in Seq(Statements[MaxNesting])
  BY DEF Code
<1>2. IsStatement(Head(S), Code) /\ Tail(S) \in Code /\ S = <<Head(S)>> \o Tail(S)
  BY <1>1, PartsOfLevel DEF Code
<1>3. Nested(Head(S)) \subseteq Code
  BY <1>2 DEF IsStatement, Nested
<1>. QED
  BY <1>2, <1>3 DEF Inside

\* Induction over code.
LEMMA CodeInduction ==
  ASSUME MaxNesting \in Nat,
         NEW A, \A S \in Code : Inside(S) \subseteq A => S \in A
  PROVE  Code \subseteq A
<1>1. ASSUME NEW n \in 0 .. MaxNesting,
             n > 0 => Seq(Statements[n - 1]) \subseteq A
      PROVE  Seq(Statements[n]) \subseteq A
  <2>. DEFINE L == {l \in Nat : \A S \in Seq(Statements[n]) : Len(S) = l => S \in A}
  <2>1. ASSUME NEW S \in Seq(Statements[n]), Tail(S) \in A \/ S = <<>>
        PROVE  S \in A
    <3>1. S \in Code
      BY LevelsAreCode
    <3>2. CASE S = <<>>
      BY <3>1, <3>2 DEF Inside
    <3>3. CASE S # <<>>
      <4>1. Nested(Head(S)) \subseteq A
        <5>1. /\ Nested(Head(S)) # {} => n \in 1 .. MaxNesting
              /\ \A T \in Nested(Head(S)) : T \in Seq(Statements[n - 1])
          BY <3>3, PartsOfLevel
        <5>. QED
          BY <1>1, <5>1
      <4>. QED
        BY <2>1, <3>1, <3>3, <4>1 DEF Inside
    <3>. QED
      BY <3>2, <3>3
  <2>2. 0 \in L
    <3>1. \A S \in Seq(Statements[n]) : Len(S) = 0 => S = <<>>
      OBVIOUS
    <3>. QED
      BY <2>1, <3>1
  <2>3. \A l \in Nat : l \in L => l + 1 \in L
    <3>. SUFFICES ASSUME NEW l \in Nat, l \in L, NEW S \in Seq(Statements[n]), Len(S) = l + 1
                  PROVE  S \in A
      OBVIOUS
    <3>1. Tail(S) \in Seq(Statements[n]) /\ Len(Tail(S)) = l
      OBVIOUS
    <3>2. Tail(S) \in A
      BY <3>1
    <3>. QED
      BY <2>1, <3>2
  <2>4. Nat \subseteq L
    <3>. HIDE DEF L
    <3>. QED
      BY <2>2, <2>3, NatSetInduction
  <2>5. \A S \in Seq(Statements[n]) : Len(S) \in Nat
    OBVIOUS
  <2>. QED
    BY <2>4, <2>5
<1>. DEFINE B == {n \in 0 .. MaxNesting : Seq(Statements[n]) \subseteq A}
<1>2. 0 \in B
  BY <1>1
<1>3. \A n \in 0 .. MaxNesting - 1 : n \in B => n + 1 \in B
  <2>. SUFFICES ASSUME NEW n \in 0 .. MaxNesting - 1, n \in B
                PROVE  n + 1 \in B
    OBVIOUS
  <2>1. n + 1 \in 0 .. MaxNesting /\ (n + 1) - 1 = n
    OBVIOUS
  <2>2. Seq(Statements[n + 1]) \subseteq A
    BY <1>1, <2>1
  <2>. QED
    BY <2>1, <2>2
<1>4. 0 .. MaxNesting \subseteq B
  <2>. HIDE DEF B
  <2>. QED
    BY <1>2, <1>3, UpToInduction
<1>. QED
  BY <1>4 DEF Code

\* Sets of lists that have with each list all that is inside of it.
Closed(C) == C \subseteq Code /\ \A S \in C : Inside(S) \subseteq C

\* f follows step on a set of lists.
Follows(f, step, C) == \A S \in C : f[S] = step[<<S, f>>]

\* step looks at the function only inside of the list.
LooksInside(step, V) ==
  \A S \in Code : \A f, g \in [Code -> V] :
    (\A T \in Inside(S) : f[T] = g[T]) => step[<<S, f>>] = step[<<S, g>>]

\* Two functions that follow the same step agree where both do.
LEMMA FollowersAgree ==
  ASSUME MaxNesting \in Nat,
         NEW V, NEW step, LooksInside(step, V),
         NEW f \in [Code -> V], NEW C, Closed(C), Follows(f, step, C),
         NEW g \in [Code -> V], NEW D, Closed(D), Follows(g, step, D)
  PROVE  \A S \in C \cap D : f[S] = g[S]
<1>. DEFINE A == {S \in Code : S \in C \cap D => f[S] = g[S]}
<1>1. ASSUME NEW S \in Code, Inside(S) \subseteq A, S \in C \cap D
      PROVE  f[S] = g[S]
  <2>1. \A T \in Inside(S) : f[T] = g[T]
    BY <1>1 DEF Closed
  <2>2. step[<<S, f>>] = step[<<S, g>>]
    BY <2>1, Zenon DEF LooksInside
  <2>. QED
    BY <1>1, <2>2 DEF Follows
<1>2. Code \subseteq A
  <2>1. \A S \in Code : Inside(S) \subseteq A => S \in A
    BY <1>1
  <2>. HIDE DEF A
  <2>. QED
    BY <2>1, CodeInduction
<1>. QED
  BY <1>2 DEF Closed

\* There is a function that follows the step: recursion over code.
LEMMA RecursionOnCode ==
  ASSUME MaxNesting \in Nat,
         NEW V, NEW some \in V, NEW step \in [Code \X [Code -> V] -> V], LooksInside(step, V)
  PROVE  \E f \in [Code -> V] : \A S \in Code : f[S] = step[<<S, f>>]
<1>. DEFINE Solves(f, C, S) == Closed(C) /\ S \in C /\ Follows(f, step, C)
            A == {S \in Code : \E f \in [Code -> V], C \in SUBSET Code : Solves(f, C, S)}
            sol == [S \in A |-> CHOOSE f \in [Code -> V] : \E C \in SUBSET Code : Solves(f, C, S)]
            h == [S \in Code |-> IF S \in A THEN sol[S][S] ELSE some]
<1>1. \A S \in A : sol[S] \in [Code -> V] /\ \E C \in SUBSET Code : Solves(sol[S], C, S)
  <2>. TAKE S \in A
  <2>1. \E f \in [Code -> V] : \E C \in SUBSET Code : Solves(f, C, S)
    OBVIOUS
  <2>2. sol[S] = CHOOSE f \in [Code -> V] : \E C \in SUBSET Code : Solves(f, C, S)
    OBVIOUS
  <2>. HIDE DEF Solves, A, sol
  <2>. QED
    BY <2>1, <2>2, Zenon
<1>2. h \in [Code -> V]
  <2>1. ASSUME NEW S \in Code, S \in A
        PROVE  sol[S][S] \in V
    BY <1>1, <2>1
  <2>. HIDE DEF A, sol
  <2>. QED
    BY <2>1
<1>3. Closed(A)
  <2>1. ASSUME NEW S \in A, NEW T \in Inside(S)
        PROVE  T \in A
    <3>1. PICK f \in [Code -> V], C \in SUBSET Code : Solves(f, C, S)
      OBVIOUS
    <3>2. T \in C
      BY <3>1, <2>1 DEF Closed
    <3>3. Solves(f, C, T)
      BY <3>1, <3>2
    <3>. QED
      BY <3>2, <3>3
  <2>. QED
    BY <2>1 DEF Closed
<1>4. ASSUME NEW S \in A, NEW f \in [Code -> V], NEW C \in SUBSET Code, Solves(f, C, S)
      PROVE  \A T \in C : h[T] = f[T]
  <2>. SUFFICES ASSUME NEW T \in C
                PROVE  h[T] = f[T]
    OBVIOUS
  <2>1. Solves(f, C, T)
    BY <1>4
  <2>2. T \in A
    BY <2>1
  <2>3. PICK D \in SUBSET Code : Solves(sol[T], D, T)
    BY <1>1, <2>2
  <2>4. sol[T] \in [Code -> V] /\ T \in C \cap D
    BY <1>1, <2>2, <2>3
  <2>5. f[T] = sol[T][T]
    <3>1. Closed(C) /\ Follows(f, step, C) /\ Closed(D) /\ Follows(sol[T], step, D)
      BY <2>1, <2>3
    <3>. HIDE DEF sol, Solves, A
    <3>2. \A S1 \in C \cap D : f[S1] = sol[T][S1]
      BY <2>4, <3>1, FollowersAgree
    <3>. QED
      BY <2>4, <3>2
  <2>. QED
    BY <2>2, <2>5
<1>5. Follows(h, step, A)
  <2>. SUFFICES ASSUME NEW S \in A
                PROVE  h[S] = step[<<S, h>>]
    BY DEF Follows
  <2>1. PICK f \in [Code -> V], C \in SUBSET Code : Solves(f, C, S)
    OBVIOUS
  <2>2. \A T \in C : h[T] = f[T]
    BY <2>1, <1>4
  <2>. HIDE DEF h
  <2>3. \A T \in Inside(S) : h[T] = f[T]
    BY <2>1, <2>2 DEF Closed
  <2>4. step[<<S, h>>] = step[<<S, f>>]
    BY <1>2, <2>3, Zenon DEF LooksInside
  <2>5. f[S] = step[<<S, f>>] /\ h[S] = f[S]
    BY <2>1, <2>2 DEF Follows
  <2>. QED
    BY <2>4, <2>5
<1>6. ASSUME NEW S \in Code, Inside(S) \subseteq A
      PROVE  S \in A
  <2>. SUFFICES ASSUME S \notin A
                PROVE  FALSE
    OBVIOUS
  <2>. DEFINE f == [h EXCEPT ![S] = step[<<S, h>>]]
              C == A \cup {S}
  <2>1. f \in [Code -> V]
    BY <1>2
  <2>2. Closed(C)
    BY <1>3, <1>6 DEF Closed
  <2>3. \A T \in A : f[T] = h[T]
    BY <1>2
  <2>4. f[S] = step[<<S, h>>]
    BY <1>2
  <2>. HIDE DEF f, h
  <2>5. \A T \in C : step[<<T, f>>] = step[<<T, h>>]
    <3>. TAKE T \in C
    <3>1. Inside(T) \subseteq A /\ T \in Code
      BY <1>3, <1>6 DEF Closed
    <3>2. \A U \in Inside(T) : f[U] = h[U]
      BY <2>3, <3>1
    <3>. QED
      BY <1>2, <2>1, <3>1, <3>2, Zenon DEF LooksInside
  <2>6. Follows(f, step, C)
    BY <1>5, <2>3, <2>4, <2>5 DEF Follows
  <2>7. Solves(f, C, S)
    BY <2>2, <2>6
  <2>. QED
    BY <2>1, <2>7
<1>7. Code \subseteq A
  <2>. HIDE DEF A
  <2>. QED
    BY <1>6, CodeInduction
<1>. QED
  <2>. HIDE DEF h, A
  <2>. QED
    BY <1>2, <1>5, <1>7 DEF Follows

-----------------------------------------------------------------------------
(* The builder.                                                            *)

\* One turn of buildBlockStatements, given what is built of shorter lists.
BuildStep(f, S) ==
  IF S = <<>> THEN <<>>
  ELSE LET built == buildStmt(Head(S), f)
       IN IF StopsBuilding(built, Head(S)) THEN built ELSE built \o f[Tail(S)]

\* What a statement is built to, one level at a time.
LEMMA StmtIsBuilt ==
  ASSUME MaxNesting \in Nat, NEW n \in 0 .. MaxNesting, NEW op \in Statements[n], NEW f,
         \A T \in Nested(op) : n \in 1 .. MaxNesting /\ f[T] \in Seq(Statements[n - 1])
  PROVE  buildStmt(op, f) \in Seq(Statements[n])
<1>1. IsStatement(op, Code) /\ (Nested(op) = {} => op \in Simple \/ op.kind \notin {"block", "if", "loop"})
  <2>1. CASE n = 0
    <3>1. op \in Simple
      BY <2>1, StatementsUnfolded
    <3>. QED
      BY <3>1 DEF Simple, Effects, Break, Continue, Return, IsStatement
  <2>2. CASE n # 0
    <3>1. n \in 1 .. MaxNesting /\ n - 1 \in 0 .. MaxNesting
      BY <2>2
    <3>2. op \in Over(Simple, Statements[n - 1])
      BY <3>1, StatementsUnfolded, Zenon
    <3>3. IsStatement(op, Seq(Statements[n - 1]))
      BY <3>2, StatementsAre, Zenon
    <3>4. Seq(Statements[n - 1]) \subseteq Code
      BY <3>1, LevelsAreCode
    <3>. QED
      BY <3>3, <3>4 DEF IsStatement, Nested
  <2>. QED
    BY <2>1, <2>2
<1>2. CASE op.kind = "block"
  <2>1. op.body \in Nested(op)
    BY <1>2 DEF Nested
  <2>2. n \in 1 .. MaxNesting /\ f[op.body] \in Seq(Statements[n - 1])
    BY <2>1
  <2>3. Statements[n - 1] \subseteq Statements[n]
    BY <2>2, StatementsGrow
  <2>4. buildStmt(op, f) = f[op.body]
    BY <1>2 DEF buildStmt
  <2>. QED
    BY <2>2, <2>3, <2>4, SeqGrows
<1>3. CASE op.kind = "if"
  <2>1. op.then \in Nested(op) /\ op.else \in Nested(op)
    BY <1>3 DEF Nested
  <2>2. n \in 1 .. MaxNesting /\ {f[op.then], f[op.else]} \subseteq Seq(Statements[n - 1])
    BY <2>1
  <2>3. If(op.id, f[op.then], f[op.else], op.hasElse) \in IfsOf(Seq(Statements[n - 1]))
    BY <1>1, <1>3, <2>2 DEF IfsOf, If, IsStatement
  <2>4. Statements[n] = Over(Simple, Statements[n - 1])
    BY <2>2, StatementsUnfolded, Zenon
  <2>5. buildStmt(op, f) = <<If(op.id, f[op.then], f[op.else], op.hasElse)>>
    BY <1>3 DEF buildStmt
  <2>6. IfsOf(Seq(Statements[n - 1])) \subseteq Over(Simple, Statements[n - 1])
    BY Zenon DEF Over
  <2>. QED
    BY <2>3, <2>4, <2>5, <2>6
<1>4. CASE op.kind = "loop"
  <2>1. op.body \in Nested(op)
    BY <1>4 DEF Nested
  <2>2. n \in 1 .. MaxNesting /\ f[op.body] \in Seq(Statements[n - 1])
    BY <2>1
  <2>3. Loop(op.id, op.conditionCalls, f[op.body], op.step) \in LoopsOf(Seq(Statements[n - 1]))
    BY <1>1, <1>4, <2>2 DEF LoopsOf, Loop, IsStatement
  <2>4. Statements[n] = Over(Simple, Statements[n - 1])
    BY <2>2, StatementsUnfolded, Zenon
  <2>5. buildStmt(op, f) = <<Loop(op.id, op.conditionCalls, f[op.body], op.step)>>
    BY <1>4 DEF buildStmt
  <2>6. LoopsOf(Seq(Statements[n - 1])) \subseteq Over(Simple, Statements[n - 1])
    BY Zenon DEF Over
  <2>. QED
    BY <2>3, <2>4, <2>5, <2>6
<1>5. CASE op.kind \notin {"block", "if", "loop"}
  <2>1. buildStmt(op, f) = <<op>>
    BY <1>5 DEF buildStmt
  <2>. QED
    BY <2>1, OneIsSeq
<1>. QED
  BY <1>2, <1>3, <1>4, <1>5

\* What follows the turns, as long as it stays code, stays at the level.
LEMMA BuiltIsOfLevel ==
  ASSUME MaxNesting \in Nat, NEW f,
         \A S \in Code : BuildStep(f, S) \in Code => f[S] = BuildStep(f, S)
  PROVE  \A S \in Code : /\ f[S] = BuildStep(f, S)
                         /\ \A n \in 0 .. MaxNesting :
                              S \in Seq(Statements[n]) => f[S] \in Seq(Statements[n])
<1>. DEFINE A == {S \in Code : /\ f[S] = BuildStep(f, S)
                               /\ \A n \in 0 .. MaxNesting :
                                    S \in Seq(Statements[n]) => f[S] \in Seq(Statements[n])}
<1>1. ASSUME NEW S \in Code, Inside(S) \subseteq A
      PROVE  S \in A
  <2>1. ASSUME NEW n \in 0 .. MaxNesting, S \in Seq(Statements[n])
        PROVE  BuildStep(f, S) \in Seq(Statements[n])
    <3>1. CASE S = <<>>
      BY <3>1 DEF BuildStep
    <3>2. CASE S # <<>>
      <4>. DEFINE op == Head(S)
      <4>1. op \in Statements[n] /\ Tail(S) \in Seq(Statements[n])
        BY <2>1, <3>2
      <4>2. \A T \in Nested(op) : n \in 1 .. MaxNesting /\ f[T] \in Seq(Statements[n - 1])
        <5>1. /\ Nested(op) # {} => n \in 1 .. MaxNesting
              /\ \A T \in Nested(op) : T \in Seq(Statements[n - 1])
          BY <2>1, <3>2, PartsOfLevel
        <5>2. \A T \in Nested(op) : T \in A
          BY <1>1, <3>2 DEF Inside
        <5>. HIDE DEF op
        <5>. QED
          BY <5>1, <5>2
      <4>3. f[Tail(S)] \in Seq(Statements[n])
        <5>1. Tail(S) \in A
          BY <1>1, <3>2 DEF Inside
        <5>. QED
          BY <4>1, <5>1
      <4>4. buildStmt(op, f) \in Seq(Statements[n])
        <5>. HIDE DEF op
        <5>. QED
          BY <4>1, <4>2, StmtIsBuilt
      <4>5. BuildStep(f, S) \in {buildStmt(op, f), buildStmt(op, f) \o f[Tail(S)]}
        BY <3>2 DEF BuildStep
      <4>6. buildStmt(op, f) \o f[Tail(S)] \in Seq(Statements[n])
        <5>. HIDE DEF op
        <5>. QED
          BY <4>3, <4>4, JoinIsSeq
      <4>. QED
        BY <4>4, <4>5, <4>6, Zenon
    <3>. QED
      BY <3>1, <3>2
  <2>2. S \in Seq(Statements[MaxNesting]) /\ MaxNesting \in 0 .. MaxNesting
    BY DEF Code
  <2>3. BuildStep(f, S) \in Code
    BY <2>1, <2>2 DEF Code
  <2>4. f[S] = BuildStep(f, S)
    BY <2>3
  <2>. QED
    BY <2>1, <2>4
<1>2. Code \subseteq A
  <2>. HIDE DEF A
  <2>. QED
    BY <1>1, CodeInduction
<1>. QED
  BY <1>2

\* The turns look at what is inside of the list.
LEMMA BuildLooksInside ==
  ASSUME MaxNesting \in Nat, NEW S \in Code, NEW f, NEW g,
         \A T \in Inside(S) : f[T] = g[T]
  PROVE  BuildStep(f, S) = BuildStep(g, S)
<1>1. CASE S = <<>>
  BY <1>1 DEF BuildStep
<1>2. CASE S # <<>>
  <2>. DEFINE op == Head(S)
  <2>1. f[Tail(S)] = g[Tail(S)] /\ \A T \in Nested(op) : f[T] = g[T]
    BY <1>2 DEF Inside
  <2>2. buildStmt(op, f) = buildStmt(op, g)
    <3>. HIDE DEF op
    <3>1. CASE op.kind = "block"
      BY <2>1, <3>1 DEF buildStmt, Nested
    <3>2. CASE op.kind = "if"
      <4>1. f[op.then] = g[op.then] /\ f[op.else] = g[op.else]
        BY <2>1, <3>2 DEF Nested
      <4>. QED
        BY <3>2, <4>1 DEF buildStmt
    <3>3. CASE op.kind = "loop"
      <4>1. f[op.body] = g[op.body]
        BY <2>1, <3>3 DEF Nested
      <4>. QED
        BY <3>3, <4>1 DEF buildStmt
    <3>4. CASE op.kind \notin {"block", "if", "loop"}
      BY <3>4 DEF buildStmt
    <3>. QED
      BY <3>1, <3>2, <3>3, <3>4
  <2>. QED
    BY <1>2, <2>1, <2>2 DEF BuildStep
<1>. QED
  BY <1>1, <1>2

\* The builder, one turn at a time; what it builds is code of the same level.
LEMMA BuildUnfolded ==
  ASSUME MaxNesting \in Nat
  PROVE  \A S \in Code :
           /\ buildBlockStatements[S] = BuildStep(buildBlockStatements, S)
           /\ \A n \in 0 .. MaxNesting :
                S \in Seq(Statements[n]) => buildBlockStatements[S] \in Seq(Statements[n])
<1>. DEFINE step == [at \in Code \X [Code -> Code] |->
                       IF BuildStep(at[2], at[1]) \in Code THEN BuildStep(at[2], at[1]) ELSE <<>>]
            Goes(f) == f = [S \in Code |-> BuildStep(f, S)]
<1>1. <<>> \in Code
  BY DEF Code
<1>2. step \in [Code \X [Code -> Code] -> Code]
  BY <1>1
<1>3. \A S \in Code : \A f \in [Code -> Code] :
        step[<<S, f>>] = IF BuildStep(f, S) \in Code THEN BuildStep(f, S) ELSE <<>>
  OBVIOUS
<1>4. LooksInside(step, Code)
  <2>. SUFFICES ASSUME NEW S \in Code, NEW f \in [Code -> Code], NEW g \in [Code -> Code],
                       \A T \in Inside(S) : f[T] = g[T]
                PROVE  step[<<S, f>>] = step[<<S, g>>]
    BY DEF LooksInside
  <2>1. BuildStep(f, S) = BuildStep(g, S)
    BY BuildLooksInside
  <2>. HIDE DEF step
  <2>. QED
    BY <1>3, <2>1
<1>5. PICK f \in [Code -> Code] : \A S \in Code : f[S] = step[<<S, f>>]
  <2>. HIDE DEF step
  <2>. QED
    BY <1>1, <1>2, <1>4, RecursionOnCode
<1>6. \A S \in Code : BuildStep(f, S) \in Code => f[S] = BuildStep(f, S)
  <2>. HIDE DEF step
  <2>. QED
    BY <1>3, <1>5
<1>7. \A S \in Code : f[S] = BuildStep(f, S)
  BY <1>6, BuiltIsOfLevel
<1>8. Goes(f)
  <2>. DEFINE h == [S \in Code |-> BuildStep(f, S)]
  <2>1. f = h
    BY <1>7
  <2>. QED
    BY <2>1
<1>9. buildBlockStatements = CHOOSE g : Goes(g)
  BY Zenon DEF buildBlockStatements, BuildStep
<1>10. Goes(buildBlockStatements)
  <2>. HIDE DEF Goes
  <2>. QED
    BY <1>8, <1>9, Zenon
<1>11. \A S \in Code : buildBlockStatements[S] = BuildStep(buildBlockStatements, S)
  BY <1>10
<1>. QED
  BY <1>11, BuiltIsOfLevel

-----------------------------------------------------------------------------
(* The lowering.                                                           *)

\* The instructions that hold no others, and all of them, level by level.
LowSimple == Effects \cup {Return} \cup [kind : {"setExit"}, id : Labels]
Instructions[n \in 0 .. MaxNesting] ==
  IF n = 0 THEN LowSimple ELSE Over(LowSimple, Instructions[n - 1])

Ends == {Complete, IterationClosed, NestedLoopControl, Returned}
Regions(instructions) ==
  [code : Seq(instructions), end : Ends, yields : BOOLEAN, ok : BOOLEAN]

\* Instructions, level by level.
LEMMA InstructionsUnfolded ==
  ASSUME MaxNesting \in Nat
  PROVE  /\ Instructions[0] = LowSimple
         /\ \A n \in 1 .. MaxNesting : /\ Instructions[n] = Over(LowSimple, Instructions[n - 1])
                                       /\ Instructions[n - 1] \subseteq Instructions[n]
         /\ \A n \in 0 .. MaxNesting : LowSimple \subseteq Instructions[n]
<1>1. Levels(Instructions, LowSimple, MaxNesting)
  <2>1. PICK f : Levels(f, LowSimple, MaxNesting)
    BY LevelsExist
  <2>2. Instructions = CHOOSE g : Levels(g, LowSimple, MaxNesting)
    BY Zenon DEF Instructions, Levels
  <2>. QED
    BY <2>1, <2>2, Zenon
<1>2. /\ Instructions[0] = LowSimple
      /\ \A n \in 1 .. MaxNesting : Instructions[n] = Over(LowSimple, Instructions[n - 1])
      /\ \A n \in 1 .. MaxNesting : Instructions[n - 1] \subseteq Instructions[n]
  BY <1>1, LevelsUnfolded
<1>3. ASSUME NEW n \in 0 .. MaxNesting
      PROVE  LowSimple \subseteq Instructions[n]
  <2>1. CASE n = 0
    BY <1>2, <2>1
  <2>2. CASE n # 0
    <3>1. n \in 1 .. MaxNesting
      BY <2>2
    <3>2. Instructions[n] = Over(LowSimple, Instructions[n - 1])
      BY <1>2, <3>1, Zenon
    <3>3. LowSimple \subseteq Over(LowSimple, Instructions[n - 1])
      BY Zenon DEF Over
    <3>. QED
      BY <3>2, <3>3
  <2>. QED
    BY <2>1, <2>2
<1>. QED
  BY <1>2, <1>3

\* The fields of a region.
LEMMA RegionType ==
  ASSUME NEW A, NEW code \in Seq(A), NEW end \in Ends, NEW yields \in BOOLEAN, NEW ok \in BOOLEAN
  PROVE  Region(code, end, yields, ok) \in Regions(A)
BY DEF Region, Regions

\* The fields of a region.
LEMMA RegionFields ==
  ASSUME NEW code, NEW end, NEW yields, NEW ok
  PROVE  /\ Region(code, end, yields, ok).code = code
         /\ Region(code, end, yields, ok).end = end
         /\ Region(code, end, yields, ok).yields = yields
         /\ Region(code, end, yields, ok).ok = ok
BY DEF Region

\* What comes first.
LEMMA AfterType ==
  ASSUME NEW A, NEW code \in Seq(A), NEW ok, NEW region \in Regions(A)
  PROVE  After(code, ok, region) \in Regions(A)
<1>1. region.code \in Seq(A) /\ region.end \in Ends /\ region.yields \in BOOLEAN
  BY DEF Regions
<1>2. code \o region.code \in Seq(A)
  BY <1>1, JoinIsSeq
<1>3. (ok /\ region.ok) \in BOOLEAN
  OBVIOUS
<1>4. Region(code \o region.code, region.end, region.yields, ok /\ region.ok) \in Regions(A)
  BY <1>1, <1>2, <1>3, RegionType
<1>. QED
  BY <1>4 DEF After

\* A region over less is one over more.
LEMMA RegionsGrow ==
  ASSUME NEW A, NEW B, A \subseteq B
  PROVE  Regions(A) \subseteq Regions(B)
<1>1. Seq(A) \subseteq Seq(B)
  BY SeqGrows
<1>. QED
  BY <1>1 DEF Regions

\* A rejected region is a region.
LEMMA RejectedType ==
  ASSUME NEW A
  PROVE  Rejected \in Regions(A)
<1>1. <<>> \in Seq(A) /\ Complete \in Ends
  BY DEF Ends
<1>. QED
  BY <1>1, RegionType DEF Rejected

\* Where blocks are lowered.
LEMMA PlacesAre ==
  /\ Function \in Places
  /\ \A place \in Places : Arm(place.loop) \in Places
  /\ \A op \in LoopsOf(Code) : Body(op) \in Places /\ Arm(op) \in Places
BY DEF Function, Places, Arm, Body

\* Loops of code are loops.
LEMMA LoopsAre ==
  ASSUME NEW op, op.kind = "loop", IsStatement(op, Code)
  PROVE  op \in LoopsOf(Code)
<1>1. op = Loop(op.id, op.conditionCalls, op.body, op.step)
  BY DEF IsStatement
<1>2. Loop(op.id, op.conditionCalls, op.body, op.step) \in LoopsOf(Code)
  BY DEF IsStatement, Loop, LoopsOf
<1>. QED
  BY <1>1, <1>2

\* Joined arms and returning ifs.
LEMMA IfIsOfLevel ==
  ASSUME MaxNesting \in Nat, NEW n \in 1 .. MaxNesting, NEW op,
         op.id \in Labels, op.hasElse \in BOOLEAN,
         NEW then \in Regions(Instructions[n - 1]), NEW else \in Regions(Instructions[n - 1])
  PROVE  /\ joinArms(op, then, else) \in Regions(Instructions[n])
         /\ ReturningIf(op, then, else) \in Regions(Instructions[n])
<1>1. Instructions[n] = Over(LowSimple, Instructions[n - 1])
  BY InstructionsUnfolded
<1>2. \A h \in BOOLEAN : If(op.id, then.code, else.code, h) \in Instructions[n]
  <2>1. \A h \in BOOLEAN : If(op.id, then.code, else.code, h) \in IfsOf(Seq(Instructions[n - 1]))
    BY DEF Regions, If, IfsOf
  <2>2. IfsOf(Seq(Instructions[n - 1])) \subseteq Over(LowSimple, Instructions[n - 1])
    BY Zenon DEF Over
  <2>. QED
    BY <1>1, <2>1, <2>2
<1>3. Return \in Instructions[n]
  BY InstructionsUnfolded DEF LowSimple
<1>4. <<If(op.id, then.code, else.code, op.hasElse)>> \in Seq(Instructions[n])
  BY <1>2, OneIsSeq
<1>5. <<If(op.id, then.code, else.code, TRUE), Return>> \in Seq(Instructions[n])
  <2>1. <<If(op.id, then.code, else.code, TRUE)>> \in Seq(Instructions[n]) /\ <<Return>> \in Seq(Instructions[n])
    BY <1>2, <1>3, OneIsSeq
  <2>2. <<If(op.id, then.code, else.code, TRUE)>> \o <<Return>> = <<If(op.id, then.code, else.code, TRUE), Return>>
    BY PairIsJoined
  <2>3. <<If(op.id, then.code, else.code, TRUE)>> \o <<Return>> \in Seq(Instructions[n])
    BY <2>1, JoinIsSeq
  <2>. QED
    BY <2>2, <2>3, Zenon
<1>6. then.end \in Ends /\ else.end \in Ends /\ Returned \in Ends
  BY DEF Regions, Ends
<1>7. joinArms(op, then, else) \in Regions(Instructions[n])
  <2>1. (IF then.end # Complete THEN then.end ELSE else.end) \in Ends
    BY <1>6
  <2>. QED
    BY <1>4, <2>1, RegionType DEF joinArms
<1>8. ReturningIf(op, then, else) \in Regions(Instructions[n])
  BY <1>5, <1>6, RegionType DEF ReturningIf
<1>. QED
  BY <1>7, <1>8

\* The code of a loop.
LEMMA LoopIsOfLevel ==
  ASSUME MaxNesting \in Nat, NEW n \in 1 .. MaxNesting, NEW op,
         op.id \in Labels, op.conditionCalls \in BOOLEAN, op.step \in Seq(Effects),
         NEW body \in Regions(Instructions[n - 1])
  PROVE  /\ closeBody(op, body) \in Seq(Instructions[n - 1])
         /\ <<lowerWhile(op, body)>> \in Seq(Instructions[n])
<1>1. LowSimple \subseteq Instructions[n - 1] /\ Instructions[n] = Over(LowSimple, Instructions[n - 1])
  BY InstructionsUnfolded
<1>2. body.code \in Seq(Instructions[n - 1])
  BY DEF Regions
<1>3. closeBody(op, body) \in Seq(Instructions[n - 1])
  <2>1. Effects \subseteq Instructions[n - 1]
    BY <1>1 DEF LowSimple
  <2>2. op.step \in Seq(Instructions[n - 1]) /\ <<>> \in Seq(Instructions[n - 1])
    BY <2>1, SeqGrows
  <2>3. body.code \o op.step \in Seq(Instructions[n - 1]) /\ body.code \o <<>> \in Seq(Instructions[n - 1])
    BY <1>2, <2>2, JoinIsSeq
  <2>. QED
    BY <2>3 DEF closeBody
<1>4. lowerWhile(op, body) \in LoopsOf(Seq(Instructions[n - 1]))
  BY <1>3 DEF lowerWhile, Loop, LoopsOf
<1>5. LoopsOf(Seq(Instructions[n - 1])) \subseteq Over(LowSimple, Instructions[n - 1])
  BY Zenon DEF Over
<1>6. lowerWhile(op, body) \in Instructions[n]
  BY <1>1, <1>4, <1>5
<1>. QED
  BY <1>3, <1>6, OneIsSeq

\* One operation, given the lowered blocks nested in it.
LEMMA OperationIsOfLevel ==
  ASSUME MaxNesting \in Nat, NEW n \in 0 .. MaxNesting, NEW op, IsStatement(op, Code),
         NEW place \in Places, NEW rest \in Regions(Instructions[n]), NEW f,
         \A T \in Nested(op) : /\ n \in 1 .. MaxNesting
                               /\ \A p \in Places : f[<<T, p>>] \in Regions(Instructions[n - 1])
  PROVE  lowerOperation(op, place, rest, f) \in Regions(Instructions[n])
<1>. DEFINE result == lowerOperation(op, place, rest, f)
<1>0. /\ LowSimple \subseteq Instructions[n]
      /\ <<>> \in Seq(Instructions[n])
      /\ Effects \subseteq LowSimple
  BY InstructionsUnfolded DEF LowSimple
<1>r. Rejected \in Regions(Instructions[n])
  BY RejectedType
<1>1. CASE op.kind = "effect"
  <2>1. <<op>> \in Seq(Instructions[n])
    <3>1. op \in Instructions[n]
      BY <1>0, <1>1 DEF IsStatement
    <3>. QED
      BY <3>1, OneIsSeq
  <2>2. result = After(<<op>>, TRUE, rest)
    BY <1>1 DEF lowerOperation
  <2>. QED
    BY <2>1, <2>2, AfterType
<1>2. CASE op.kind = "loop"
  <2>1. op.body \in Nested(op) /\ Body(op) \in Places
    BY <1>2, LoopsAre, PlacesAre DEF Nested
  <2>2. n \in 1 .. MaxNesting /\ f[<<op.body, Body(op)>>] \in Regions(Instructions[n - 1])
    BY <2>1
  <2>3. <<lowerWhile(op, f[<<op.body, Body(op)>>])>> \in Seq(Instructions[n])
    BY <1>2, <2>2, LoopIsOfLevel DEF IsStatement
  <2>4. result = After(<<lowerWhile(op, f[<<op.body, Body(op)>>])>>, f[<<op.body, Body(op)>>].ok, rest)
    BY <1>2 DEF lowerOperation
  <2>. QED
    BY <2>3, <2>4, AfterType
<1>3. CASE op.kind = "if"
  <2>1. op.then \in Nested(op) /\ op.else \in Nested(op) /\ op.id \in Labels /\ op.hasElse \in BOOLEAN
    BY <1>3 DEF Nested, IsStatement
  <2>2. n \in 1 .. MaxNesting
    BY <2>1
  <2>3. \A p \in Places : /\ f[<<op.then, p>>] \in Regions(Instructions[n - 1])
                          /\ f[<<op.else, p>>] \in Regions(Instructions[n - 1])
    BY <2>1
  <2>4. Arm(place.loop) \in Places /\ Function \in Places
    BY PlacesAre
  <2>. DEFINE joined == joinArms(op, f[<<op.then, Arm(place.loop)>>], f[<<op.else, Arm(place.loop)>>])
              returning == ReturningIf(op, f[<<op.then, Function>>], f[<<op.else, Function>>])
  <2>5. joined \in Regions(Instructions[n]) /\ returning \in Regions(Instructions[n])
    BY <2>1, <2>2, <2>3, <2>4, IfIsOfLevel
  <2>6. joined.code \in Seq(Instructions[n])
    BY <2>5 DEF Regions
  <2>7. After(joined.code, joined.ok, rest) \in Regions(Instructions[n])
    <3>. HIDE DEF joined
    <3>. QED
      BY <2>6, AfterType
  <2>8. result \in {joined, After(joined.code, joined.ok, rest), returning, Rejected}
    BY <1>3 DEF lowerOperation
  <2>. QED
    BY <2>5, <2>7, <2>8, <1>r, Zenon
<1>4. CASE op.kind = "break"
  <2>1. CASE place.loop # NoLoop
    <3>1. place.loop.id \in Labels
      BY <2>1 DEF Places, LoopsOf
    <3>2. SetExit(place.loop) \in Instructions[n]
      BY <1>0, <3>1 DEF SetExit, LowSimple
    <3>3. <<SetExit(place.loop)>> \in Seq(Instructions[n])
      BY <3>2, OneIsSeq
    <3>4. ControlEnd(place) \in Ends
      BY DEF ControlEnd, Ends
    <3>5. result = lowerBreak(place)
      BY <1>4, <2>1 DEF lowerOperation
    <3>. QED
      BY <3>3, <3>4, <3>5, RegionType DEF lowerBreak
  <2>2. CASE place.loop = NoLoop
    <3>1. result = Rejected
      BY <1>4, <2>2 DEF lowerOperation
    <3>. QED
      BY <3>1, <1>r
  <2>. QED
    BY <2>1, <2>2
<1>5. CASE op.kind = "continue"
  <2>1. CASE place.loop # NoLoop
    <3>1. place.loop.step \in Seq(Effects)
      BY <2>1 DEF Places, LoopsOf
    <3>2. Effects \subseteq Instructions[n]
      BY <1>0
    <3>3. place.loop.step \in Seq(Instructions[n])
      BY <3>1, <3>2, SeqGrows
    <3>4. ControlEnd(place) \in Ends
      BY DEF ControlEnd, Ends
    <3>5. result = lowerContinue(place)
      BY <1>5, <2>1 DEF lowerOperation
    <3>6. (IF place.region = "body" THEN place.loop.step ELSE <<>>) \in Seq(Instructions[n])
      BY <1>0, <3>3
    <3>. QED
      BY <3>4, <3>5, <3>6, RegionType DEF lowerContinue
  <2>2. CASE place.loop = NoLoop
    <3>1. result = Rejected
      BY <1>5, <2>2 DEF lowerOperation
    <3>. QED
      BY <3>1, <1>r
  <2>. QED
    BY <2>1, <2>2
<1>6. CASE op.kind \in {"return", "block"}
  <2>1. result \in {Region(<<>>, Complete, FALSE, TRUE), Rejected}
    BY <1>6 DEF lowerOperation
  <2>2. Region(<<>>, Complete, FALSE, TRUE) \in Regions(Instructions[n])
    <3>1. Complete \in Ends
      BY DEF Ends
    <3>. QED
      BY <1>0, <3>1, RegionType
  <2>. QED
    BY <2>1, <2>2, <1>r, Zenon
<1>. QED
  BY <1>1, <1>2, <1>3, <1>4, <1>5, <1>6 DEF IsStatement

\* One turn of lowerRegion, given what shorter lists are lowered to.
LowerStep(f, S, place) ==
  IF S = <<>> THEN Region(<<>>, Complete, FALSE, TRUE)
  ELSE lowerOperation(Head(S), place, f[<<Tail(S), place>>], f)

\* What follows the turns, as long as it is code of a machine, stays at the level.
LEMMA LoweredIsOfLevel ==
  ASSUME MaxNesting \in Nat, NEW f,
         \A S \in Code : \A p \in Places :
           LowerStep(f, S, p) \in Regions(Instructions[MaxNesting]) => f[<<S, p>>] = LowerStep(f, S, p)
  PROVE  \A S \in Code : \A p \in Places :
           /\ f[<<S, p>>] = LowerStep(f, S, p)
           /\ \A n \in 0 .. MaxNesting :
                S \in Seq(Statements[n]) => f[<<S, p>>] \in Regions(Instructions[n])
<1>. DEFINE A == {S \in Code : \A p \in Places :
                    /\ f[<<S, p>>] = LowerStep(f, S, p)
                    /\ \A n \in 0 .. MaxNesting :
                         S \in Seq(Statements[n]) => f[<<S, p>>] \in Regions(Instructions[n])}
<1>1. ASSUME NEW S \in Code, Inside(S) \subseteq A
      PROVE  S \in A
  <2>1. ASSUME NEW n \in 0 .. MaxNesting, S \in Seq(Statements[n]), NEW p \in Places
        PROVE  LowerStep(f, S, p) \in Regions(Instructions[n])
    <3>1. CASE S = <<>>
      <4>1. <<>> \in Seq(Instructions[n]) /\ Complete \in Ends
        BY DEF Ends
      <4>2. LowerStep(f, S, p) = Region(<<>>, Complete, FALSE, TRUE)
        BY <3>1 DEF LowerStep
      <4>. QED
        BY <4>1, <4>2, RegionType
    <3>2. CASE S # <<>>
      <4>. DEFINE op == Head(S)
      <4>1. /\ IsStatement(op, Code) /\ Tail(S) \in Seq(Statements[n])
            /\ Nested(op) # {} => n \in 1 .. MaxNesting
            /\ \A T \in Nested(op) : T \in Seq(Statements[n - 1])
        BY <2>1, <3>2, PartsOfLevel
      <4>2. \A T \in Nested(op) : T \in A
        BY <1>1, <3>2 DEF Inside
      <4>3. Tail(S) \in A
        BY <1>1, <3>2 DEF Inside
      <4>4. f[<<Tail(S), p>>] \in Regions(Instructions[n])
        BY <4>1, <4>3
      <4>. HIDE DEF op
      <4>5. \A T \in Nested(op) : /\ n \in 1 .. MaxNesting
                                  /\ \A q \in Places : f[<<T, q>>] \in Regions(Instructions[n - 1])
        <5>. TAKE T \in Nested(op)
        <5>1. n \in 1 .. MaxNesting /\ n - 1 \in 0 .. MaxNesting /\ T \in Seq(Statements[n - 1])
          BY <4>1
        <5>. QED
          BY <4>2, <5>1
      <4>6. lowerOperation(op, p, f[<<Tail(S), p>>], f) \in Regions(Instructions[n])
        BY <4>1, <4>4, <4>5, OperationIsOfLevel
      <4>. QED
        BY <3>2, <4>6 DEF LowerStep, op
    <3>. QED
      BY <3>1, <3>2
  <2>2. S \in Seq(Statements[MaxNesting]) /\ MaxNesting \in 0 .. MaxNesting
    BY DEF Code
  <2>3. \A p \in Places : LowerStep(f, S, p) \in Regions(Instructions[MaxNesting])
    BY <2>1, <2>2
  <2>4. \A p \in Places : f[<<S, p>>] = LowerStep(f, S, p)
    BY <2>3
  <2>. QED
    BY <2>1, <2>4
<1>2. Code \subseteq A
  <2>. HIDE DEF A
  <2>. QED
    BY <1>1, CodeInduction
<1>. QED
  BY <1>2

\* One operation looks only at the lowered blocks nested in it.
LEMMA OperationLooksInside ==
  ASSUME NEW op, IsStatement(op, Code), NEW place \in Places, NEW rest, NEW f, NEW g,
         \A T \in Nested(op) : \A p \in Places : f[<<T, p>>] = g[<<T, p>>]
  PROVE  lowerOperation(op, place, rest, f) = lowerOperation(op, place, rest, g)
<1>1. CASE op.kind = "loop"
  <2>1. op.body \in Nested(op) /\ Body(op) \in Places
    BY <1>1, LoopsAre, PlacesAre DEF Nested
  <2>2. f[<<op.body, Body(op)>>] = g[<<op.body, Body(op)>>]
    BY <2>1
  <2>. QED
    BY <1>1, <2>2 DEF lowerOperation
<1>2. CASE op.kind = "if"
  <2>1. op.then \in Nested(op) /\ op.else \in Nested(op) /\ Arm(place.loop) \in Places /\ Function \in Places
    BY <1>2, PlacesAre DEF Nested
  <2>2. /\ f[<<op.then, Arm(place.loop)>>] = g[<<op.then, Arm(place.loop)>>]
        /\ f[<<op.else, Arm(place.loop)>>] = g[<<op.else, Arm(place.loop)>>]
        /\ f[<<op.then, Function>>] = g[<<op.then, Function>>]
        /\ f[<<op.else, Function>>] = g[<<op.else, Function>>]
    BY <2>1
  <2>. QED
    BY <1>2, <2>2 DEF lowerOperation
<1>3. CASE op.kind \notin {"loop", "if"}
  BY <1>3 DEF lowerOperation
<1>. QED
  BY <1>1, <1>2, <1>3

\* The lowering, one turn at a time; what it makes is code of the same level.
LEMMA LowerUnfolded ==
  ASSUME MaxNesting \in Nat
  PROVE  \A S \in Code : \A p \in Places :
           /\ lowerRegion[<<S, p>>] = LowerStep(lowerRegion, S, p)
           /\ lowerRegion[<<S, p>>] \in Regions(Instructions[MaxNesting])
<1>. DEFINE R == Regions(Instructions[MaxNesting])
            V == [Places -> R]
            pairs(h) == [at \in Code \X Places |-> h[at[1]][at[2]]]
            turn(h, S) == [p \in Places |-> IF LowerStep(pairs(h), S, p) \in R
                                              THEN LowerStep(pairs(h), S, p) ELSE Rejected]
            step == [at \in Code \X [Code -> V] |-> turn(at[2], at[1])]
            Goes(f) == f = [at \in Code \X Places |-> LowerStep(f, at[1], at[2])]
<1>1. Rejected \in R
  BY RejectedType
<1>2. [p \in Places |-> Rejected] \in V
  BY <1>1
<1>3. \A h, S : turn(h, S) \in V
  BY <1>1
<1>4. step \in [Code \X [Code -> V] -> V]
  <2>. HIDE DEF V, turn
  <2>. QED
    BY <1>3
<1>5. \A S \in Code : \A h \in [Code -> V] : step[<<S, h>>] = turn(h, S)
  <2>. HIDE DEF V, turn
  <2>. QED
    OBVIOUS
<1>6. LooksInside(step, V)
  <2>. SUFFICES ASSUME NEW S \in Code, NEW f \in [Code -> V], NEW g \in [Code -> V],
                       \A T \in Inside(S) : f[T] = g[T]
                PROVE  step[<<S, f>>] = step[<<S, g>>]
    BY DEF LooksInside
  <2>1. ASSUME NEW p \in Places
        PROVE  LowerStep(pairs(f), S, p) = LowerStep(pairs(g), S, p)
    <3>1. CASE S = <<>>
      BY <3>1 DEF LowerStep
    <3>2. CASE S # <<>>
      <4>1. /\ Tail(S) \in Code /\ IsStatement(Head(S), Code) /\ Nested(Head(S)) \subseteq Code
            /\ Inside(S) = {Tail(S)} \cup Nested(Head(S))
        BY <3>2, PartsOfCode
      <4>2. \A T \in Inside(S) : \A q \in Places : pairs(f)[<<T, q>>] = pairs(g)[<<T, q>>]
        <5>. TAKE T \in Inside(S)
        <5>. TAKE q \in Places
        <5>1. T \in Code
          BY <4>1
        <5>2. pairs(f)[<<T, q>>] = f[T][q] /\ pairs(g)[<<T, q>>] = g[T][q]
          BY <5>1
        <5>. QED
          BY <5>2
      <4>. HIDE DEF pairs
      <4>3. pairs(f)[<<Tail(S), p>>] = pairs(g)[<<Tail(S), p>>]
        BY <4>1, <4>2
      <4>4. \A rest : lowerOperation(Head(S), p, rest, pairs(f)) = lowerOperation(Head(S), p, rest, pairs(g))
        <5>. TAKE rest
        <5>1. \A T \in Nested(Head(S)) : \A q \in Places : pairs(f)[<<T, q>>] = pairs(g)[<<T, q>>]
          BY <4>1, <4>2
        <5>. QED
          BY <4>1, <5>1, OperationLooksInside
      <4>. QED
        BY <3>2, <4>3, <4>4 DEF LowerStep
    <3>. QED
      BY <3>1, <3>2
  <2>2. turn(f, S) = turn(g, S)
    <3>. HIDE DEF pairs, R
    <3>. QED
      BY <2>1
  <2>. HIDE DEF turn, step
  <2>. QED
    BY <1>5, <2>2
<1>7. PICK h \in [Code -> V] : \A S \in Code : h[S] = step[<<S, h>>]
  <2>. HIDE DEF V, step
  <2>. QED
    BY <1>2, <1>4, <1>6, RecursionOnCode
<1>. DEFINE f == pairs(h)
<1>8. ASSUME NEW S \in Code, NEW p \in Places, LowerStep(f, S, p) \in R
      PROVE  f[<<S, p>>] = LowerStep(f, S, p)
  <2>1. h[S] = turn(h, S)
    <3>. HIDE DEF V, step, turn
    <3>. QED
      BY <1>5, <1>7
  <2>2. f[<<S, p>>] = h[S][p]
    <3>. HIDE DEF V
    <3>. QED
      OBVIOUS
  <2>. HIDE DEF pairs, R
  <2>. QED
    BY <1>8, <2>1, <2>2
<1>9. \A S \in Code : \A p \in Places : f[<<S, p>>] = LowerStep(f, S, p)
  <2>. HIDE DEF f
  <2>1. \A S \in Code : \A p \in Places :
           LowerStep(f, S, p) \in Regions(Instructions[MaxNesting]) => f[<<S, p>>] = LowerStep(f, S, p)
    BY <1>8
  <2>. QED
    BY <2>1, LoweredIsOfLevel
<1>10. Goes(f)
  <2>. DEFINE k == [at \in Code \X Places |-> LowerStep(f, at[1], at[2])]
  <2>1. \A at \in Code \X Places : f[at] = LowerStep(f, at[1], at[2])
    <3>. HIDE DEF f
    <3>. QED
      BY <1>9
  <2>2. f = [at \in Code \X Places |-> f[at]]
    OBVIOUS
  <2>3. f = k
    <3>. HIDE DEF f
    <3>. QED
      BY <2>1, <2>2
  <2>. HIDE DEF f
  <2>. QED
    BY <2>3
<1>11. lowerRegion = CHOOSE g : Goes(g)
  BY Zenon DEF lowerRegion, LowerStep
<1>12. Goes(lowerRegion)
  <2>. HIDE DEF Goes, f
  <2>. QED
    BY <1>10, <1>11, Zenon
<1>13. \A S \in Code : \A p \in Places : lowerRegion[<<S, p>>] = LowerStep(lowerRegion, S, p)
  <2>1. lowerRegion = [at \in Code \X Places |-> LowerStep(lowerRegion, at[1], at[2])]
    BY <1>12
  <2>. TAKE S \in Code
  <2>. TAKE p \in Places
  <2>2. <<S, p>> \in Code \X Places
    OBVIOUS
  <2>. QED
    BY <2>1, <2>2
<1>14. \A S \in Code : \A p \in Places : \A n \in 0 .. MaxNesting :
          S \in Seq(Statements[n]) => lowerRegion[<<S, p>>] \in Regions(Instructions[n])
  BY <1>13, LoweredIsOfLevel
<1>15. \A S \in Code : S \in Seq(Statements[MaxNesting]) /\ MaxNesting \in 0 .. MaxNesting
  BY DEF Code
<1>. QED
  BY <1>13, <1>14, <1>15

-----------------------------------------------------------------------------
(* The predicates on blocks.                                               *)

\* One turn of controls.
ControlsStep(f, block) ==
  IF block = <<>> THEN {}
  ELSE LET op == Head(block) IN
       f[Tail(block)]
         \cup IF op.kind \in LoopControl THEN {op.kind}
              ELSE IF op.kind = "if" THEN f[op.then] \cup f[op.else]
              ELSE {}

\* What a turn asks of the function: its values inside of the list.
LEMMA InsideAre ==
  ASSUME MaxNesting \in Nat, NEW S \in Code, S # <<>>
  PROVE  /\ Tail(S) \in Inside(S)
         /\ Head(S).kind = "if" => Head(S).then \in Inside(S) /\ Head(S).else \in Inside(S)
         /\ Head(S).kind = "loop" => Head(S).body \in Inside(S)
         /\ Inside(S) \subseteq Code
<1>1. Inside(S) = {Tail(S)} \cup Nested(Head(S)) /\ Inside(S) \subseteq Code
  BY PartsOfCode
<1>. QED
  BY <1>1 DEF Nested

\* controls, one turn at a time.
LEMMA ControlsUnfolded ==
  ASSUME MaxNesting \in Nat
  PROVE  \A S \in Code : /\ controls[S] = ControlsStep(controls, S)
                         /\ controls[S] \subseteq LoopControl
<1>. DEFINE V == SUBSET LoopControl
            step == [at \in Code \X [Code -> V] |-> ControlsStep(at[2], at[1])]
            Goes(f) == f = [S \in Code |-> ControlsStep(f, S)]
<1>1. ASSUME NEW S \in Code, NEW f \in [Code -> V]
      PROVE  ControlsStep(f, S) \in V
  <2>1. CASE S = <<>>
    BY <2>1 DEF ControlsStep
  <2>2. CASE S # <<>>
    BY <2>2, InsideAre DEF ControlsStep
  <2>. QED
    BY <2>1, <2>2
<1>2. step \in [Code \X [Code -> V] -> V] /\ {} \in V
  <2>. HIDE DEF V
  <2>1. step \in [Code \X [Code -> V] -> V]
    BY <1>1
  <2>. QED
    BY <2>1 DEF V
<1>3. \A S \in Code : \A f \in [Code -> V] : step[<<S, f>>] = ControlsStep(f, S)
  <2>. HIDE DEF V
  <2>. QED
    OBVIOUS
<1>4. LooksInside(step, V)
  <2>. SUFFICES ASSUME NEW S \in Code, NEW f \in [Code -> V], NEW g \in [Code -> V],
                       \A T \in Inside(S) : f[T] = g[T]
                PROVE  ControlsStep(f, S) = ControlsStep(g, S)
    <3>. HIDE DEF V, step
    <3>. QED
      BY <1>3 DEF LooksInside
  <2>1. CASE S = <<>>
    BY <2>1 DEF ControlsStep
  <2>2. CASE S # <<>>
    <3>1. /\ f[Tail(S)] = g[Tail(S)]
          /\ Head(S).kind = "if" => f[Head(S).then] = g[Head(S).then] /\ f[Head(S).else] = g[Head(S).else]
      BY <2>2, InsideAre
    <3>. QED
      BY <2>2, <3>1 DEF ControlsStep
  <2>. QED
    BY <2>1, <2>2
<1>5. PICK f \in [Code -> V] : \A S \in Code : f[S] = step[<<S, f>>]
  <2>. HIDE DEF V, step
  <2>. QED
    BY <1>2, <1>4, RecursionOnCode
<1>6. Goes(f)
  <2>. DEFINE h == [S \in Code |-> ControlsStep(f, S)]
  <2>1. f = h
    <3>. HIDE DEF V, step
    <3>. QED
      BY <1>3, <1>5
  <2>. QED
    BY <2>1
<1>7. controls = CHOOSE g : Goes(g)
  BY Zenon DEF controls, ControlsStep
<1>8. Goes(controls)
  <2>. HIDE DEF Goes
  <2>. QED
    BY <1>6, <1>7, Zenon
<1>9. \A S \in Code : controls[S] = ControlsStep(controls, S)
  BY <1>8
<1>. DEFINE A == {S \in Code : controls[S] \subseteq LoopControl}
<1>10. ASSUME NEW S \in Code, Inside(S) \subseteq A
       PROVE  S \in A
  <2>1. controls[S] = ControlsStep(controls, S)
    BY <1>9
  <2>2. CASE S = <<>>
    BY <2>1, <2>2 DEF ControlsStep
  <2>3. CASE S # <<>>
    <3>1. /\ controls[Tail(S)] \subseteq LoopControl
          /\ Head(S).kind = "if" => controls[Head(S).then] \subseteq LoopControl /\ controls[Head(S).else] \subseteq LoopControl
      BY <1>10, <2>3, InsideAre
    <3>. QED
      BY <2>1, <2>3, <3>1 DEF ControlsStep
  <2>. QED
    BY <2>2, <2>3
<1>11. Code \subseteq A
  <2>. HIDE DEF A
  <2>. QED
    BY <1>10, CodeInduction
<1>. QED
  BY <1>9, <1>11

\* One turn of controlIsLast.
ControlIsLastStep(f, block) ==
  block = <<>> \/
    LET op == Head(block) IN
    /\ ControllingIf(op, LoopControl) => Tail(block) = <<>>
    /\ op.kind = "if" => f[op.then] /\ f[op.else]
    /\ op.kind = "loop" =>
         /\ f[op.body]
         /\ "break" \in controls[op.body] => ~op.conditionCalls
         /\ (\E i \in DOMAIN op.body : ControllingIf(op.body[i], {"break"})) =>
              op.step = <<>>
    /\ f[Tail(block)]

\* controlIsLast, one turn at a time.
LEMMA ControlIsLastUnfolded ==
  ASSUME MaxNesting \in Nat
  PROVE  \A S \in Code : controlIsLast[S] = ControlIsLastStep(controlIsLast, S)
<1>. DEFINE V == BOOLEAN
            step == [at \in Code \X [Code -> V] |-> ControlIsLastStep(at[2], at[1])]
            Goes(f) == f = [S \in Code |-> ControlIsLastStep(f, S)]
<1>1. \A S, f : ControlIsLastStep(f, S) \in V
  BY DEF ControlIsLastStep
<1>2. step \in [Code \X [Code -> V] -> V] /\ TRUE \in V
  <2>. HIDE DEF V
  <2>1. step \in [Code \X [Code -> V] -> V]
    BY <1>1
  <2>. QED
    BY <2>1 DEF V
<1>3. \A S \in Code : \A f \in [Code -> V] : step[<<S, f>>] = ControlIsLastStep(f, S)
  <2>. HIDE DEF V
  <2>. QED
    OBVIOUS
<1>4. LooksInside(step, V)
  <2>. SUFFICES ASSUME NEW S \in Code, NEW f \in [Code -> V], NEW g \in [Code -> V],
                       \A T \in Inside(S) : f[T] = g[T]
                PROVE  ControlIsLastStep(f, S) = ControlIsLastStep(g, S)
    <3>. HIDE DEF V, step
    <3>. QED
      BY <1>3 DEF LooksInside
  <2>1. CASE S = <<>>
    BY <2>1 DEF ControlIsLastStep
  <2>2. CASE S # <<>>
    <3>1. /\ f[Tail(S)] = g[Tail(S)]
          /\ Head(S).kind = "if" => f[Head(S).then] = g[Head(S).then] /\ f[Head(S).else] = g[Head(S).else]
          /\ Head(S).kind = "loop" => f[Head(S).body] = g[Head(S).body]
      BY <2>2, InsideAre
    <3>. QED
      BY <2>2, <3>1 DEF ControlIsLastStep
  <2>. QED
    BY <2>1, <2>2
<1>5. PICK f \in [Code -> V] : \A S \in Code : f[S] = step[<<S, f>>]
  <2>. HIDE DEF V, step
  <2>. QED
    BY <1>2, <1>4, RecursionOnCode
<1>6. Goes(f)
  <2>. DEFINE h == [S \in Code |-> ControlIsLastStep(f, S)]
  <2>1. f = h
    <3>. HIDE DEF V, step
    <3>. QED
      BY <1>3, <1>5
  <2>. QED
    BY <2>1
<1>7. controlIsLast = CHOOSE g : Goes(g)
  BY Zenon DEF controlIsLast, ControlIsLastStep
<1>8. Goes(controlIsLast)
  <2>. HIDE DEF Goes
  <2>. QED
    BY <1>6, <1>7, Zenon
<1>. QED
  BY <1>8

-----------------------------------------------------------------------------
(* Lists: heads, tails and last members of joined lists.                   *)

\* A list with one more in front.
LEMMA OneInFront ==
  ASSUME NEW A, NEW a \in A, NEW s \in Seq(A)
  PROVE  <<a>> \o s \in Seq(A) /\ <<a>> \o s # <<>> /\ Head(<<a>> \o s) = a /\ Tail(<<a>> \o s) = s
OBVIOUS

\* The head and the tail of joined lists are those of the first.
LEMMA JoinHeadTail ==
  ASSUME NEW A, NEW s \in Seq(A), s # <<>>, NEW t \in Seq(A)
  PROVE  s \o t # <<>> /\ Head(s \o t) = Head(s) /\ Tail(s \o t) = Tail(s) \o t
OBVIOUS

\* Joined lists are empty if both are; nothing joined changes nothing.
LEMMA JoinEmpty ==
  ASSUME NEW A, NEW s \in Seq(A), NEW t \in Seq(A)
  PROVE  /\ s \o t = <<>> <=> s = <<>> /\ t = <<>>
         /\ <<>> \o s = s /\ s \o <<>> = s
OBVIOUS

\* Joining is associative.
LEMMA JoinJoin ==
  ASSUME NEW A, NEW s \in Seq(A), NEW t \in Seq(A), NEW u \in Seq(A)
  PROVE  (s \o t) \o u = s \o (t \o u)
BY Concatenation

\* The last member of joined lists is that of the second.
LEMMA JoinReturns ==
  ASSUME NEW A, NEW s \in Seq(A), NEW t \in Seq(A)
  PROVE  /\ t # <<>> => Last(s \o t) = Last(t) /\ (Returns(s \o t) <=> Returns(t))
         /\ t = <<>> => (Returns(s \o t) <=> Returns(s))
<1>1. CASE t = <<>>
  BY <1>1, JoinEmpty
<1>2. CASE t # <<>>
  <2>1. Last(s \o t) = Last(t)
    BY <1>2 DEF Last
  <2>2. s \o t # <<>>
    BY <1>2, JoinEmpty
  <2>. QED
    BY <1>2, <2>1, <2>2 DEF Returns
<1>. QED
  BY <1>1, <1>2

\* A list of one.
LEMMA OneReturns ==
  ASSUME NEW a
  PROVE  <<a>> # <<>> /\ Last(<<a>>) = a /\ (Returns(<<a>>) <=> a.kind = "return")
         /\ Head(<<a>>) = a /\ Tail(<<a>>) = <<>>
BY DEF Last, Returns

-----------------------------------------------------------------------------
(* What is built, and what it is lowered to, by the first statement.       *)

Built(S) == buildBlockStatements[S]
Low(B, p) == lowerRegion[<<B, p>>]
Items == Instructions[MaxNesting]
LowCode == Seq(Items)

\* A source loop as an operation.
IRLoop(loop) == Loop(loop.id, loop.conditionCalls, Built(loop.body), loop.step)

\* What is built starts with what is built of the first statement.
LEMMA BuiltIsCode ==
  ASSUME MaxNesting \in Nat
  PROVE  /\ <<>> \in Code /\ Built(<<>>) = <<>>
         /\ \A S \in Code : Built(S) \in Code
<1>1. <<>> \in Code
  BY DEF Code
<1>2. Built(<<>>) = <<>>
  BY <1>1, BuildUnfolded DEF Built, BuildStep
<1>3. \A S \in Code : S \in Seq(Statements[MaxNesting]) /\ MaxNesting \in 0 .. MaxNesting
  BY DEF Code
<1>4. \A S \in Code : Built(S) \in Code
  BY <1>3, BuildUnfolded DEF Built, Code
<1>. QED
  BY <1>1, <1>2, <1>4

\* The first statement, by its kind: what is built of it comes first.
LEMMA BuiltCons ==
  ASSUME MaxNesting \in Nat, NEW S \in Code, S # <<>>
  PROVE  LET op == Head(S) IN
         /\ op.kind = "effect" => Built(S) = <<op>> \o Built(Tail(S))
         /\ op.kind = "if" =>
              Built(S) = <<If(op.id, Built(op.then), Built(op.else), op.hasElse)>> \o Built(Tail(S))
         /\ op.kind = "loop" => Built(S) = <<IRLoop(op)>> \o Built(Tail(S))
         /\ op.kind \in {"break", "continue", "return"} => Built(S) = <<op>>
         /\ op.kind = "block" =>
              Built(S) = IF Returns(Built(op.body)) THEN Built(op.body)
                         ELSE Built(op.body) \o Built(Tail(S))
<1>. DEFINE op == Head(S)
            built == buildStmt(op, buildBlockStatements)
<1>1. Built(S) = IF StopsBuilding(built, op) THEN built ELSE built \o Built(Tail(S))
  BY BuildUnfolded DEF Built, BuildStep
<1>. HIDE DEF op
<1>2. CASE op.kind = "effect"
  <2>1. built = <<op>>
    BY <1>2 DEF buildStmt
  <2>2. ~StopsBuilding(built, op)
    BY <1>2, <2>1, OneReturns DEF StopsBuilding
  <2>. QED
    BY <1>1, <1>2, <2>1, <2>2 DEF op
<1>3. CASE op.kind = "if"
  <2>. DEFINE made == If(op.id, Built(op.then), Built(op.else), op.hasElse)
  <2>1. built = <<made>> /\ made.kind = "if"
    BY <1>3 DEF buildStmt, Built, If
  <2>2. ~StopsBuilding(built, op)
    BY <1>3, <2>1, OneReturns DEF StopsBuilding
  <2>. QED
    BY <1>1, <1>3, <2>1, <2>2 DEF op
<1>4. CASE op.kind = "loop"
  <2>1. built = <<IRLoop(op)>> /\ IRLoop(op).kind = "loop"
    BY <1>4 DEF buildStmt, Built, IRLoop, Loop
  <2>2. ~StopsBuilding(built, op)
    BY <1>4, <2>1, OneReturns DEF StopsBuilding
  <2>. QED
    BY <1>1, <1>4, <2>1, <2>2 DEF op
<1>5. CASE op.kind \in {"break", "continue", "return"}
  <2>1. built = <<op>>
    BY <1>5 DEF buildStmt
  <2>2. StopsBuilding(built, op)
    BY <1>5, <2>1, OneReturns DEF StopsBuilding
  <2>. QED
    BY <1>1, <1>5, <2>1, <2>2 DEF op
<1>6. CASE op.kind = "block"
  <2>1. built = Built(op.body)
    BY <1>6 DEF buildStmt, Built
  <2>. QED
    BY <1>1, <1>6, <2>1 DEF op, StopsBuilding
<1>. QED
  BY <1>2, <1>3, <1>4, <1>5, <1>6 DEF op

\* What is lowered starts with the lowered first operation.
LEMMA LowIsRegion ==
  ASSUME MaxNesting \in Nat
  PROVE  /\ \A p \in Places : Low(<<>>, p) = Region(<<>>, Complete, FALSE, TRUE)
         /\ \A B \in Code : \A p \in Places : Low(B, p) \in Regions(Items)
<1>1. <<>> \in Code
  BY DEF Code
<1>. QED
  BY <1>1, LowerUnfolded DEF Low, LowerStep, Items

\* The region of a block, by its first operation.
LEMMA LowCons ==
  ASSUME MaxNesting \in Nat, NEW y, NEW B \in Code, <<y>> \o B \in Code, NEW p \in Places
  PROVE  /\ Low(<<y>> \o B, p) = lowerOperation(y, p, Low(B, p), lowerRegion)
         /\ IsStatement(y, Code) /\ Nested(y) \subseteq Code
         /\ Inside(<<y>> \o B) = {B} \cup Nested(y)
<1>1. <<y>> \o B # <<>> /\ Head(<<y>> \o B) = y /\ Tail(<<y>> \o B) = B
  BY DEF Code
<1>2. Low(<<y>> \o B, p) = LowerStep(lowerRegion, <<y>> \o B, p)
  BY LowerUnfolded DEF Low
<1>. QED
  BY <1>1, <1>2, PartsOfCode DEF Low, LowerStep

\* One operation: either it comes first, as one instruction, or it is the last.
LEMMA OperationShape ==
  ASSUME MaxNesting \in Nat, NEW y, <<y>> \in Code, NEW p \in Places
  PROVE  \/ \E i \in Items, k \in BOOLEAN : \A rest :
              lowerOperation(y, p, rest, lowerRegion) = After(<<i>>, k, rest)
         \/ \E r : /\ \A rest : lowerOperation(y, p, rest, lowerRegion) = r
                   /\ \/ r.end # Complete \/ ~r.ok
                      \/ y.kind = "return" /\ p = Function
<1>. DEFINE shape(rest) == lowerOperation(y, p, rest, lowerRegion)
            nothing == Region(<<>>, Complete, FALSE, TRUE)
<1>1. /\ <<>> \in Code /\ <<y>> \o <<>> \in Code /\ <<y>> \o <<>> = <<y>>
      /\ IsStatement(y, Code)
  <2>1. <<>> \in Code
    BY DEF Code
  <2>2. <<y>> \o <<>> = <<y>>
    OBVIOUS
  <2>. QED
    BY <2>1, <2>2, LowCons
<1>2. shape(nothing) \in Regions(Items)
  BY <1>1, LowCons, LowIsRegion
<1>3. ASSUME NEW i, NEW k, \A rest : shape(rest) = After(<<i>>, k, rest)
      PROVE  i \in Items
  <2>1. shape(nothing).code \in Seq(Items)
    BY <1>2 DEF Regions
  <2>2. shape(nothing) = After(<<i>>, k, nothing)
    BY <1>3
  <2>3. shape(nothing).code = <<i>> \o <<>>
    <3>1. After(<<i>>, k, nothing).code = <<i>> \o nothing.code /\ nothing.code = <<>>
      BY DEF After, Region
    <3>. HIDE DEF shape, nothing
    <3>. QED
      BY <2>2, <3>1
  <2>4. <<i>> \o <<>> = <<i>>
    OBVIOUS
  <2>5. <<i>> \in Seq(Items)
    BY <2>1, <2>3, <2>4
  <2>. QED
    BY <2>5
<1>4. Rejected.ok = FALSE
  BY DEF Rejected, Region
<1>5. CASE y.kind = "effect"
  <2>1. \A rest : shape(rest) = After(<<y>>, TRUE, rest)
    BY <1>5 DEF lowerOperation
  <2>. QED
    BY <1>3, <2>1
<1>6. CASE y.kind = "loop"
  <2>. DEFINE body == lowerRegion[<<y.body, Body(y)>>]
  <2>1. \A rest : shape(rest) = After(<<lowerWhile(y, body)>>, body.ok, rest)
    BY <1>6 DEF lowerOperation
  <2>2. body.ok \in BOOLEAN
    <3>1. y.body \in Code /\ Body(y) \in Places
      BY <1>1, <1>6, LoopsAre, PlacesAre DEF IsStatement
    <3>2. body \in Regions(Items)
      BY <3>1, LowIsRegion DEF Low
    <3>. QED
      BY <3>2 DEF Regions
  <2>. HIDE DEF body, shape
  <2>3. lowerWhile(y, body) \in Items
    BY <1>3, <2>1
  <2>. QED
    BY <2>1, <2>2, <2>3 DEF shape
<1>7. CASE y.kind = "if" /\ ifIsFallthroughShape(y)
  <2>. DEFINE joined == joinArms(y, lowerRegion[<<y.then, Arm(p.loop)>>],
                                    lowerRegion[<<y.else, Arm(p.loop)>>])
              item == If(y.id, lowerRegion[<<y.then, Arm(p.loop)>>].code,
                               lowerRegion[<<y.else, Arm(p.loop)>>].code, y.hasElse)
  <2>1. \A rest : shape(rest) = IF joined.end # Complete THEN joined
                                ELSE After(joined.code, joined.ok, rest)
    BY <1>7 DEF lowerOperation
  <2>2. joined.code = <<item>> /\ joined.ok \in BOOLEAN
    BY DEF joinArms, Region
  <2>. HIDE DEF joined, item, shape
  <2>3. CASE joined.end # Complete
    BY <2>1, <2>3 DEF shape
  <2>4. CASE joined.end = Complete
    <3>1. \A rest : shape(rest) = After(<<item>>, joined.ok, rest)
      BY <2>1, <2>2, <2>4
    <3>2. item \in Items
      BY <1>3, <3>1
    <3>. QED
      BY <2>2, <3>1, <3>2 DEF shape
  <2>. QED
    BY <2>3, <2>4
<1>8. CASE y.kind = "if" /\ ~ifIsFallthroughShape(y)
  <2>. DEFINE r == IF y.hasElse /\ p = Function
                     THEN ReturningIf(y, lowerRegion[<<y.then, Function>>], lowerRegion[<<y.else, Function>>])
                     ELSE Rejected
  <2>1. \A rest : shape(rest) = r
    BY <1>8 DEF lowerOperation
  <2>2. r.end # Complete \/ ~r.ok
    BY <1>4 DEF ReturningIf, Region, Returned, Complete
  <2>. HIDE DEF r, shape
  <2>. QED
    BY <2>1, <2>2 DEF shape
<1>9. CASE y.kind = "break"
  <2>. DEFINE r == IF p.loop # NoLoop THEN lowerBreak(p) ELSE Rejected
  <2>1. \A rest : shape(rest) = r
    BY <1>9 DEF lowerOperation
  <2>2. r.end # Complete \/ ~r.ok
    BY <1>4 DEF lowerBreak, ControlEnd, Region, IterationClosed, NestedLoopControl, Complete
  <2>. HIDE DEF r, shape
  <2>. QED
    BY <2>1, <2>2 DEF shape
<1>10. CASE y.kind = "continue"
  <2>. DEFINE r == IF p.loop # NoLoop THEN lowerContinue(p) ELSE Rejected
  <2>1. \A rest : shape(rest) = r
    BY <1>10 DEF lowerOperation
  <2>2. r.end # Complete \/ ~r.ok
    BY <1>4 DEF lowerContinue, ControlEnd, Region, IterationClosed, NestedLoopControl, Complete
  <2>. HIDE DEF r, shape
  <2>. QED
    BY <2>1, <2>2 DEF shape
<1>11. CASE y.kind \in {"return", "block"}
  <2>. DEFINE r == IF y.kind = "return" /\ p = Function THEN nothing ELSE Rejected
  <2>1. \A rest : shape(rest) = r
    BY <1>11 DEF lowerOperation
  <2>2. r.end # Complete \/ ~r.ok \/ (y.kind = "return" /\ p = Function)
    <3>1. CASE y.kind = "return" /\ p = Function
      BY <3>1
    <3>2. CASE ~(y.kind = "return" /\ p = Function)
      BY <1>4, <3>2
    <3>. QED
      BY <3>1, <3>2
  <2>. HIDE DEF r, shape
  <2>. QED
    BY <2>1, <2>2 DEF shape
<1>. QED
  BY <1>1, <1>5, <1>6, <1>7, <1>8, <1>9, <1>10, <1>11 DEF IsStatement

\* A list with one more statement in front.
LEMMA ConsOfCode ==
  ASSUME MaxNesting \in Nat, NEW y, NEW B \in Code, <<y>> \o B \in Code
  PROVE  /\ <<y>> \o B # <<>> /\ Head(<<y>> \o B) = y /\ Tail(<<y>> \o B) = B
         /\ <<y>> \in Code /\ IsStatement(y, Code) /\ Nested(y) \subseteq Code
         /\ Inside(<<y>> \o B) = {B} \cup Nested(y)
         /\ y.kind # "return" => (Returns(<<y>> \o B) <=> Returns(B))
<1>1. <<y>> \o B # <<>> /\ Head(<<y>> \o B) = y /\ Tail(<<y>> \o B) = B /\ <<y>> \in Code
  BY DEF Code
<1>2. ASSUME y.kind # "return"
      PROVE  Returns(<<y>> \o B) <=> Returns(B)
  <2>1. B \in Seq(Statements[MaxNesting]) /\ <<y>> \in Seq(Statements[MaxNesting])
    BY <1>1 DEF Code
  <2>2. CASE B = <<>>
    <3>1. ~Returns(B)
      BY <2>2 DEF Returns
    <3>. QED
      BY <1>2, <2>1, <2>2, <3>1, JoinReturns, OneReturns
  <2>3. CASE B # <<>>
    BY <2>1, <2>3, JoinReturns
  <2>. QED
    BY <2>2, <2>3
<1>. QED
  BY <1>1, <1>2, PartsOfCode

\* The fields of what comes after something.
LEMMA AfterFields ==
  ASSUME NEW code, NEW k \in BOOLEAN, NEW A, NEW region \in Regions(A)
  PROVE  LET after == After(code, k, region) IN
         /\ after.code = code \o region.code /\ after.end = region.end
         /\ after.yields = region.yields /\ (after.ok <=> k /\ region.ok)
<1>1. region.ok \in BOOLEAN
  BY DEF Regions
<1>. QED
  BY <1>1 DEF After, Region

\* The controls of a list with one more statement in front.
LEMMA ControlsCons ==
  ASSUME MaxNesting \in Nat, NEW y, NEW B \in Code, <<y>> \o B \in Code
  PROVE  /\ controls[B] \subseteq controls[<<y>> \o B]
         /\ y.kind \in LoopControl => y.kind \in controls[<<y>> \o B]
         /\ y.kind = "if" =>
              controls[y.then] \cup controls[y.else] \subseteq controls[<<y>> \o B]
<1>1. controls[<<y>> \o B] = ControlsStep(controls, <<y>> \o B)
  BY ControlsUnfolded
<1>2. <<y>> \o B # <<>> /\ Head(<<y>> \o B) = y /\ Tail(<<y>> \o B) = B
  BY ConsOfCode
<1>3. controls[<<y>> \o B] = controls[B] \cup IF y.kind \in LoopControl THEN {y.kind}
                                               ELSE IF y.kind = "if" THEN controls[y.then] \cup controls[y.else]
                                               ELSE {}
  BY <1>1, <1>2, Zenon DEF ControlsStep
<1>4. "if" \notin LoopControl
  BY DEF LoopControl
<1>. QED
  BY <1>3, <1>4

\* How the region of a block ends: in a function, complete or with a return; in
\* another region with loop control of the block, which is there.
EndFits(B, p) ==
  LET r == Low(B, p) IN
  r.ok =>
    IF p = Function THEN r.end \in {Complete, Returned}
    ELSE IF r.end = Complete THEN ~Returns(B)
    ELSE /\ p.loop # NoLoop /\ controls[B] # {}
         /\ r.end = IF r.yields THEN ControlEnd(p) ELSE NestedLoopControl

\* How a region ended says which loop control its block has.
LEMMA EndsAre ==
  ASSUME MaxNesting \in Nat
  PROVE  \A B \in Code : \A p \in Places : EndFits(B, p)
<1>. DEFINE A == {B \in Code : \A p \in Places : EndFits(B, p)}
<1>1. <<>> \in A
  <2>1. <<>> \in Code
    BY DEF Code
  <2>2. \A p \in Places : EndFits(<<>>, p)
    BY LowIsRegion DEF EndFits, Returns, Region
  <2>. QED
    BY <2>1, <2>2
<1>2. ASSUME NEW y, NEW B \in A, <<y>> \o B \in Code, Nested(y) \subseteq A, NEW p \in Places
      PROVE  EndFits(<<y>> \o B, p)
  <2>. DEFINE C == <<y>> \o B
              op(rest) == lowerOperation(y, p, rest, lowerRegion)
  <2>. SUFFICES EndFits(C, p)
    OBVIOUS
  <2>1. /\ B \in Code /\ C \in Code /\ Low(C, p) = op(Low(B, p))
        /\ IsStatement(y, Code) /\ Low(B, p) \in Regions(Items) /\ EndFits(B, p)
    BY <1>2, LowCons, LowIsRegion
  <2>2. ASSUME NEW i, NEW k \in BOOLEAN, Low(C, p) = After(<<i>>, k, Low(B, p)), y.kind # "return"
        PROVE  EndFits(C, p)
    <3>1. /\ Low(C, p).end = Low(B, p).end /\ Low(C, p).yields = Low(B, p).yields
          /\ Low(C, p).ok => Low(B, p).ok
      BY <2>1, <2>2, AfterFields
    <3>2. Returns(C) <=> Returns(B)
      BY <2>1, <2>2, ConsOfCode
    <3>3. controls[B] \subseteq controls[C]
      BY <2>1, ControlsCons
    <3>. HIDE DEF C
    <3>. QED
      BY <2>1, <3>1, <3>2, <3>3 DEF EndFits
  <2>3. CASE y.kind = "effect"
    <3>1. op(Low(B, p)) = After(<<y>>, TRUE, Low(B, p))
      BY <2>3 DEF lowerOperation
    <3>. QED
      BY <2>1, <2>2, <2>3, <3>1
  <2>4. CASE y.kind = "loop"
    <3>. DEFINE body == lowerRegion[<<y.body, Body(y)>>]
    <3>1. op(Low(B, p)) = After(<<lowerWhile(y, body)>>, body.ok, Low(B, p))
      BY <2>4 DEF lowerOperation
    <3>2. body.ok \in BOOLEAN
      <4>1. y.body \in Code /\ Body(y) \in Places
        BY <2>1, <2>4, LoopsAre, PlacesAre DEF IsStatement
      <4>2. body \in Regions(Items)
        BY <4>1, LowIsRegion DEF Low
      <4>. QED
        BY <4>2 DEF Regions
    <3>. HIDE DEF body, op, C
    <3>. QED
      BY <2>1, <2>2, <2>4, <3>1, <3>2
  <2>5. CASE y.kind = "if" /\ ifIsFallthroughShape(y)
    <3>. DEFINE q == Arm(p.loop)
                t == Low(y.then, q)
                e == Low(y.else, q)
                joined == joinArms(y, t, e)
    <3>1. op(Low(B, p)) = IF joined.end # Complete THEN joined
                          ELSE After(joined.code, joined.ok, Low(B, p))
      BY <2>5 DEF lowerOperation, Low
    <3>2. /\ joined.code = <<If(y.id, t.code, e.code, y.hasElse)>> /\ joined.ok \in BOOLEAN
          /\ joined.end = IF t.end # Complete THEN t.end ELSE e.end
          /\ joined.yields = FALSE
          /\ joined.ok => /\ t.ok /\ (t.end = Complete \/ t.yields)
                          /\ e.ok /\ (e.end = Complete \/ e.yields)
      BY DEF joinArms, Region
    <3>3. q \in Places /\ q # Function /\ q.loop = p.loop /\ ControlEnd(q) = NestedLoopControl
      BY PlacesAre DEF Arm, Function, ControlEnd
    <3>4. EndFits(y.then, q) /\ EndFits(y.else, q)
      <4>1. y.then \in A /\ y.else \in A
        BY <1>2, <2>5 DEF Nested
      <4>. QED
        BY <3>3, <4>1
    <3>5. controls[y.then] \cup controls[y.else] \subseteq controls[C]
      BY <2>1, <2>5, ControlsCons
    <3>6. Function.loop = NoLoop
      BY DEF Function
    <3>. HIDE DEF joined, q, op, C, t, e
    <3>7. CASE joined.end # Complete
      <4>1. Low(C, p) = joined
        BY <2>1, <3>1, <3>7
      <4>2. CASE t.end # Complete
        BY <3>2, <3>3, <3>4, <3>5, <3>6, <3>7, <4>1, <4>2 DEF EndFits, t
      <4>3. CASE t.end = Complete
        BY <3>2, <3>3, <3>4, <3>5, <3>6, <3>7, <4>1, <4>3 DEF EndFits, e
      <4>. QED
        BY <4>2, <4>3
    <3>8. CASE joined.end = Complete
      <4>1. Low(C, p) = After(joined.code, joined.ok, Low(B, p))
        BY <2>1, <3>1, <3>8
      <4>. QED
        BY <2>2, <2>5, <3>2, <4>1
    <3>. QED
      BY <3>7, <3>8
  <2>6. CASE y.kind = "if" /\ ~ifIsFallthroughShape(y)
    <3>1. CASE y.hasElse /\ p = Function
      <4>1. op(Low(B, p)) = ReturningIf(y, lowerRegion[<<y.then, Function>>], lowerRegion[<<y.else, Function>>])
        BY <2>6, <3>1 DEF lowerOperation
      <4>2. op(Low(B, p)).end = Returned
        BY <4>1 DEF ReturningIf, Region
      <4>. QED
        BY <2>1, <3>1, <4>2 DEF EndFits
    <3>2. CASE ~(y.hasElse /\ p = Function)
      <4>1. op(Low(B, p)) = Rejected
        BY <2>6, <3>2 DEF lowerOperation
      <4>2. ~Rejected.ok
        BY DEF Rejected, Region
      <4>. QED
        BY <2>1, <4>1, <4>2 DEF EndFits
    <3>. QED
      BY <3>1, <3>2
  <2>7. CASE y.kind \in {"break", "continue"}
    <3>1. CASE p.loop # NoLoop
      <4>1. op(Low(B, p)) \in {lowerBreak(p), lowerContinue(p)}
        BY <2>7, <3>1 DEF lowerOperation
      <4>2. op(Low(B, p)).end = ControlEnd(p) /\ op(Low(B, p)).yields = TRUE
        BY <4>1 DEF lowerBreak, lowerContinue, Region
      <4>3. p # Function
        BY <3>1 DEF Function
      <4>4. y.kind \in controls[C]
        BY <2>1, <2>7, ControlsCons DEF LoopControl
      <4>5. ControlEnd(p) # Complete
        BY DEF ControlEnd, IterationClosed, NestedLoopControl, Complete
      <4>. HIDE DEF C, op
      <4>. QED
        BY <2>1, <3>1, <4>2, <4>3, <4>4, <4>5 DEF EndFits
    <3>2. CASE p.loop = NoLoop
      <4>1. op(Low(B, p)) = Rejected
        BY <2>7, <3>2 DEF lowerOperation
      <4>2. ~Rejected.ok
        BY DEF Rejected, Region
      <4>. QED
        BY <2>1, <4>1, <4>2 DEF EndFits
    <3>. QED
      BY <3>1, <3>2
  <2>8. CASE y.kind \in {"return", "block"}
    <3>1. op(Low(B, p)) = IF y.kind = "return" /\ p = Function THEN Region(<<>>, Complete, FALSE, TRUE)
                          ELSE Rejected
      BY <2>8 DEF lowerOperation
    <3>2. ~Rejected.ok /\ Region(<<>>, Complete, FALSE, TRUE).end = Complete
      BY DEF Rejected, Region
    <3>. HIDE DEF op, C
    <3>. QED
      BY <2>1, <3>1, <3>2 DEF EndFits
  <2>. QED
    BY <2>1, <2>3, <2>4, <2>5, <2>6, <2>7, <2>8 DEF IsStatement
<1>3. ASSUME NEW S \in Code, Inside(S) \subseteq A
      PROVE  S \in A
  <2>1. CASE S = <<>>
    BY <1>1, <2>1
  <2>2. CASE S # <<>>
    <3>1. /\ S = <<Head(S)>> \o Tail(S) /\ Tail(S) \in A /\ Nested(Head(S)) \subseteq A
      BY <1>3, <2>2, PartsOfCode
    <3>. HIDE DEF A
    <3>2. \A p \in Places : EndFits(<<Head(S)>> \o Tail(S), p)
      BY <1>2, <1>3, <3>1
    <3>. QED
      BY <1>3, <3>1, <3>2 DEF A
  <2>. QED
    BY <2>1, <2>2
<1>4. Code \subseteq A
  <2>. HIDE DEF A
  <2>. QED
    BY <1>3, CodeInduction
<1>. QED
  BY <1>4

-----------------------------------------------------------------------------
(* Joined blocks.                                                          *)

NoReturn(B) == \A i \in DOMAIN B : B[i].kind # "return"
HasIf(B, kinds) == \E i \in DOMAIN B : ControllingIf(B[i], kinds)

\* What is nested in a statement, of controls and of controlIsLast.
OwnControls(y) ==
  IF y.kind \in LoopControl THEN {y.kind}
  ELSE IF y.kind = "if" THEN controls[y.then] \cup controls[y.else] ELSE {}

OwnIsLast(y) ==
  /\ y.kind = "if" => controlIsLast[y.then] /\ controlIsLast[y.else]
  /\ y.kind = "loop" =>
       /\ controlIsLast[y.body]
       /\ "break" \in controls[y.body] => ~y.conditionCalls
       /\ HasIf(y.body, {"break"}) => y.step = <<>>

\* The predicates, statement by statement.
LEMMA PredicatesCons ==
  ASSUME MaxNesting \in Nat, NEW y, NEW B \in Code, <<y>> \o B \in Code
  PROVE  /\ controls[<<y>> \o B] = controls[B] \cup OwnControls(y)
         /\ controlIsLast[<<y>> \o B] <=>
              /\ ControllingIf(y, LoopControl) => B = <<>>
              /\ OwnIsLast(y) /\ controlIsLast[B]
         /\ NoReturn(<<y>> \o B) <=> y.kind # "return" /\ NoReturn(B)
         /\ \A kinds : HasIf(<<y>> \o B, kinds) <=> ControllingIf(y, kinds) \/ HasIf(B, kinds)
<1>1. <<y>> \o B # <<>> /\ Head(<<y>> \o B) = y /\ Tail(<<y>> \o B) = B
  BY ConsOfCode
<1>2. controls[<<y>> \o B] = controls[B] \cup OwnControls(y)
  <2>1. controls[<<y>> \o B] = ControlsStep(controls, <<y>> \o B)
    BY ControlsUnfolded
  <2>. QED
    BY <1>1, <2>1, Zenon DEF ControlsStep, OwnControls
<1>3. controlIsLast[<<y>> \o B] <=>
        /\ ControllingIf(y, LoopControl) => B = <<>>
        /\ OwnIsLast(y) /\ controlIsLast[B]
  <2>1. controlIsLast[<<y>> \o B] = ControlIsLastStep(controlIsLast, <<y>> \o B)
    BY ControlIsLastUnfolded
  <2>. QED
    BY <1>1, <2>1 DEF ControlIsLastStep, OwnIsLast, HasIf
<1>4. /\ DOMAIN (<<y>> \o B) = 1 .. Len(B) + 1 /\ DOMAIN B = 1 .. Len(B) /\ Len(B) \in Nat
      /\ (<<y>> \o B)[1] = y /\ \A i \in 1 .. Len(B) : (<<y>> \o B)[i + 1] = B[i]
  BY DEF Code
<1>. DEFINE C == <<y>> \o B
<1>. HIDE DEF C
<1>5. ASSUME NEW Q
      PROVE  (\E i \in DOMAIN C : C[i] \in Q) <=> y \in Q \/ \E i \in DOMAIN B : B[i] \in Q
  <2>1. ASSUME NEW i \in DOMAIN C, C[i] \in Q, y \notin Q
        PROVE  \E j \in DOMAIN B : B[j] \in Q
    <3>1. i - 1 \in 1 .. Len(B) /\ (i - 1) + 1 = i
      BY <1>4, <2>1 DEF C
    <3>2. C[i] = B[i - 1]
      BY <1>4, <3>1 DEF C
    <3>. QED
      BY <1>4, <2>1, <3>1, <3>2
  <2>2. y \in Q => C[1] \in Q /\ 1 \in DOMAIN C
    BY <1>4 DEF C
  <2>3. ASSUME NEW i \in DOMAIN B, B[i] \in Q
        PROVE  C[i + 1] \in Q /\ i + 1 \in DOMAIN C
    BY <1>4, <2>3 DEF C
  <2>. QED
    BY <2>1, <2>2, <2>3
<1>6. NoReturn(C) <=> y.kind # "return" /\ NoReturn(B)
  <2>. DEFINE Q == {x \in {C[i] : i \in DOMAIN C} \cup {B[i] : i \in DOMAIN B} \cup {y} : x.kind = "return"}
  <2>1. (\E i \in DOMAIN C : C[i].kind = "return") <=> \E i \in DOMAIN C : C[i] \in Q
    OBVIOUS
  <2>2. (\E i \in DOMAIN B : B[i].kind = "return") <=> \E i \in DOMAIN B : B[i] \in Q
    OBVIOUS
  <2>3. y \in Q <=> y.kind = "return"
    OBVIOUS
  <2>. HIDE DEF Q
  <2>4. (\E i \in DOMAIN C : C[i] \in Q) <=> y \in Q \/ \E i \in DOMAIN B : B[i] \in Q
    BY <1>5
  <2>. QED
    BY <2>1, <2>2, <2>3, <2>4 DEF NoReturn
<1>7. ASSUME NEW kinds
      PROVE  HasIf(C, kinds) <=> ControllingIf(y, kinds) \/ HasIf(B, kinds)
  <2>. DEFINE Q == {x \in {C[i] : i \in DOMAIN C} \cup {B[i] : i \in DOMAIN B} \cup {y} : ControllingIf(x, kinds)}
  <2>1. HasIf(C, kinds) <=> \E i \in DOMAIN C : C[i] \in Q
    BY DEF HasIf
  <2>2. HasIf(B, kinds) <=> \E i \in DOMAIN B : B[i] \in Q
    BY DEF HasIf
  <2>3. y \in Q <=> ControllingIf(y, kinds)
    OBVIOUS
  <2>. HIDE DEF Q
  <2>4. (\E i \in DOMAIN C : C[i] \in Q) <=> y \in Q \/ \E i \in DOMAIN B : B[i] \in Q
    BY <1>5
  <2>. QED
    BY <2>1, <2>2, <2>3, <2>4
<1>. QED
  BY <1>2, <1>3, <1>6, <1>7 DEF C

\* The predicates of an empty block.
LEMMA PredicatesEmpty ==
  ASSUME MaxNesting \in Nat
  PROVE  /\ <<>> \in Code /\ controls[<<>>] = {} /\ controlIsLast[<<>>]
         /\ ~Returns(<<>>) /\ NoReturn(<<>>)
<1>1. <<>> \in Code
  BY DEF Code
<1>. QED
  <2>1. controls[<<>>] = {}
    BY <1>1, ControlsUnfolded DEF ControlsStep
  <2>2. controlIsLast[<<>>] = ControlIsLastStep(controlIsLast, <<>>)
    BY <1>1, ControlIsLastUnfolded
  <2>3. ControlIsLastStep(controlIsLast, <<>>)
    BY DEF ControlIsLastStep
  <2>. QED
    BY <1>1, <2>1, <2>2, <2>3 DEF Returns, NoReturn

\* Induction over code by what it starts with.
LEMMA ListInduction ==
  ASSUME MaxNesting \in Nat, NEW A, <<>> \in A,
         \A y : \A B \in Code : <<y>> \o B \in Code /\ B \in A => <<y>> \o B \in A
  PROVE  Code \subseteq A
<1>1. ASSUME NEW S \in Code, Inside(S) \subseteq A
      PROVE  S \in A
  <2>1. CASE S = <<>>
    BY <2>1
  <2>2. CASE S # <<>>
    <3>1. S = <<Head(S)>> \o Tail(S) /\ Tail(S) \in Code /\ Tail(S) \in A
      BY <1>1, <2>2, PartsOfCode
    <3>. QED
      BY <3>1
  <2>. QED
    BY <2>1, <2>2
<1>. QED
  BY <1>1, CodeInduction

\* Joined code is code.
LEMMA CodeJoins ==
  ASSUME MaxNesting \in Nat, NEW A \in Code, NEW B \in Code
  PROVE  /\ A \o B \in Code /\ <<>> \o A = A /\ A \o <<>> = A
         /\ \A C \in Code : (A \o B) \o C = A \o (B \o C)
<1>1. A \o B \in Code /\ <<>> \o A = A /\ A \o <<>> = A
  BY DEF Code
<1>2. \A C \in Code : (A \o B) \o C = A \o (B \o C)
  BY JoinJoin, SMTT(40) DEF Code
<1>. QED
  BY <1>1, <1>2

\* A statement before joined code.
LEMMA ConsJoins ==
  ASSUME MaxNesting \in Nat, NEW y, NEW A \in Code, <<y>> \o A \in Code, NEW B \in Code
  PROVE  /\ <<y>> \o (A \o B) = (<<y>> \o A) \o B
         /\ <<y>> \in Code /\ A \o B \in Code /\ <<y>> \o (A \o B) \in Code
<1>1. <<y>> \in Code
  BY ConsOfCode
<1>2. <<y>> \o (A \o B) = (<<y>> \o A) \o B
  BY <1>1, JoinJoin, SMTT(40) DEF Code
<1>3. (<<y>> \o A) \o B \in Code
  BY JoinIsSeq DEF Code
<1>. QED
  BY <1>1, <1>2, <1>3, CodeJoins

\* The predicates of joined blocks.
LEMMA PredicatesJoined ==
  ASSUME MaxNesting \in Nat, NEW A \in Code, NEW B \in Code
  PROVE  /\ controls[A] \cup controls[B] \subseteq controls[A \o B]
         /\ controlIsLast[A \o B] => controlIsLast[A] /\ controlIsLast[B]
         /\ NoReturn(A) /\ NoReturn(B) => NoReturn(A \o B)
         /\ \A kinds : HasIf(A, kinds) \/ HasIf(B, kinds) => HasIf(A \o B, kinds)
<1>. DEFINE Holds(S) ==
              /\ controls[S] \cup controls[B] \subseteq controls[S \o B]
              /\ controlIsLast[S \o B] => controlIsLast[S] /\ controlIsLast[B]
              /\ NoReturn(S) /\ NoReturn(B) => NoReturn(S \o B)
              /\ \A kinds : HasIf(S, kinds) \/ HasIf(B, kinds) => HasIf(S \o B, kinds)
            G == {S \in Code : Holds(S)}
<1>1. <<>> \in G
  <2>1. <<>> \o B = B /\ DOMAIN <<>> = {}
    BY CodeJoins
  <2>2. Holds(<<>>)
    BY <2>1, PredicatesEmpty DEF HasIf
  <2>. QED
    BY <2>2, PredicatesEmpty
<1>2. ASSUME NEW y, NEW S \in Code, <<y>> \o S \in Code, Holds(S)
      PROVE  Holds(<<y>> \o S)
  <2>1. /\ <<y>> \o (S \o B) = (<<y>> \o S) \o B /\ <<y>> \o (S \o B) \in Code /\ S \o B \in Code
        /\ S \o B = <<>> => S = <<>>
    <3>1. S \o B = <<>> => S = <<>>
      BY JoinEmpty DEF Code
    <3>2. <<y>> \o S \in Code
      BY <1>2
    <3>3. S \o B \in Code
      BY CodeJoins
    <3>4. <<y>> \o (S \o B) = (<<y>> \o S) \o B
      <4>1. <<y>> \in Code
        BY <3>2, ConsOfCode
      <4>. QED
        BY <4>1, JoinJoin, SMTT(40) DEF Code
    <3>5. <<y>> \o (S \o B) \in Code
      BY <3>2, ConsJoins
    <3>. QED
      BY <3>1, <3>3, <3>4, <3>5
  <2>2. /\ controls[<<y>> \o S] = controls[S] \cup OwnControls(y)
        /\ controls[<<y>> \o (S \o B)] = controls[S \o B] \cup OwnControls(y)
    BY <1>2, <2>1, PredicatesCons
  <2>3. /\ controlIsLast[<<y>> \o S] <=>
             (ControllingIf(y, LoopControl) => S = <<>>) /\ OwnIsLast(y) /\ controlIsLast[S]
        /\ controlIsLast[<<y>> \o (S \o B)] <=>
             (ControllingIf(y, LoopControl) => S \o B = <<>>) /\ OwnIsLast(y) /\ controlIsLast[S \o B]
    BY <1>2, <2>1, PredicatesCons
  <2>4. /\ NoReturn(<<y>> \o S) <=> y.kind # "return" /\ NoReturn(S)
        /\ NoReturn(<<y>> \o (S \o B)) <=> y.kind # "return" /\ NoReturn(S \o B)
    BY <1>2, <2>1, PredicatesCons
  <2>5. ASSUME NEW kinds
        PROVE  /\ HasIf(<<y>> \o S, kinds) <=> ControllingIf(y, kinds) \/ HasIf(S, kinds)
               /\ HasIf(<<y>> \o (S \o B), kinds) <=> ControllingIf(y, kinds) \/ HasIf(S \o B, kinds)
    <3>. HIDE DEF Holds
    <3>. QED
      BY <1>2, <2>1, PredicatesCons
  <2>6. controls[<<y>> \o S] \cup controls[B] \subseteq controls[<<y>> \o (S \o B)]
    BY <1>2, <2>2
  <2>7. controlIsLast[<<y>> \o (S \o B)] => controlIsLast[<<y>> \o S] /\ controlIsLast[B]
    BY <1>2, <2>1, <2>3
  <2>8. NoReturn(<<y>> \o S) /\ NoReturn(B) => NoReturn(<<y>> \o (S \o B))
    BY <1>2, <2>4
  <2>9. ASSUME NEW kinds,
               HasIf(<<y>> \o S, kinds) \/ HasIf(B, kinds)
        PROVE  HasIf(<<y>> \o (S \o B), kinds)
    BY <1>2, <2>5, <2>9, Zenon
  <2>. QED
    BY <2>1, <2>6, <2>7, <2>8, <2>9, Zenon
<1>3. Code \subseteq G
  <2>1. \A y : \A S \in Code : <<y>> \o S \in Code /\ S \in G => <<y>> \o S \in G
    BY <1>2
  <2>. HIDE DEF G
  <2>. QED
    BY <1>1, <2>1, ListInduction
<1>. QED
  BY <1>3

\* Without a return it is built of, what is built holds none.
LEMMA ReturnIsLast ==
  ASSUME MaxNesting \in Nat
  PROVE  \A S \in Code : ~Returns(Built(S)) => NoReturn(Built(S))
<1>. DEFINE A == {S \in Code : ~Returns(Built(S)) => NoReturn(Built(S))}
<1>1. ASSUME NEW S \in Code, Inside(S) \subseteq A, ~Returns(Built(S))
      PROVE  NoReturn(Built(S))
  <2>1. CASE S = <<>>
    BY <2>1, BuiltIsCode, PredicatesEmpty
  <2>2. CASE S # <<>>
    <3>. DEFINE op == Head(S)
                B == Built(Tail(S))
    <3>1. IsStatement(op, Code) /\ Tail(S) \in Code /\ B \in Code /\ Built(S) \in Code
      BY <2>2, PartsOfCode, BuiltIsCode
    <3>2. ~Returns(B) => NoReturn(B)
      BY <1>1, <2>2, InsideAre
    <3>3. ASSUME NEW y, y.kind # "return", Built(S) = <<y>> \o B
          PROVE  NoReturn(Built(S))
      <4>1. <<y>> \o B \in Code
        BY <3>1, <3>3
      <4>2. Returns(<<y>> \o B) <=> Returns(B)
        BY <3>1, <3>3, <4>1, ConsOfCode
      <4>3. NoReturn(<<y>> \o B) <=> y.kind # "return" /\ NoReturn(B)
        <5>. HIDE DEF B
        <5>. QED
          BY <3>1, <4>1, PredicatesCons
      <4>. QED
        BY <1>1, <3>2, <3>3, <4>2, <4>3
    <3>4. CASE op.kind = "effect"
      BY <2>2, <3>3, <3>4, BuiltCons
    <3>5. CASE op.kind = "if"
      <4>1. Built(S) = <<If(op.id, Built(op.then), Built(op.else), op.hasElse)>> \o B
        BY <2>2, <3>5, BuiltCons
      <4>2. If(op.id, Built(op.then), Built(op.else), op.hasElse).kind # "return"
        BY DEF If
      <4>. QED
        BY <3>3, <4>1, <4>2
    <3>6. CASE op.kind = "loop"
      <4>1. Built(S) = <<IRLoop(op)>> \o B
        BY <2>2, <3>6, BuiltCons
      <4>2. IRLoop(op).kind # "return"
        BY DEF IRLoop, Loop
      <4>. QED
        BY <3>3, <4>1, <4>2
    <3>7. CASE op.kind \in {"break", "continue", "return"}
      <4>1. Built(S) = <<op>>
        BY <2>2, <3>7, BuiltCons
      <4>2. op.kind # "return"
        BY <1>1, <4>1, OneReturns
      <4>3. DOMAIN <<op>> = {1} /\ <<op>>[1] = op
        OBVIOUS
      <4>. QED
        BY <4>1, <4>2, <4>3 DEF NoReturn
    <3>8. CASE op.kind = "block"
      <4>1. Built(S) = IF Returns(Built(op.body)) THEN Built(op.body) ELSE Built(op.body) \o B
        BY <2>2, <3>8, BuiltCons
      <4>2. op.body \in Inside(S) /\ op.body \in Code /\ Built(op.body) \in Code
        BY <2>2, <3>1, <3>8, PartsOfCode, BuiltIsCode DEF Nested, IsStatement
      <4>3. ~Returns(Built(op.body)) /\ Built(S) = Built(op.body) \o B
        BY <1>1, <4>1
      <4>4. NoReturn(Built(op.body))
        BY <1>1, <4>2, <4>3
      <4>5. ~Returns(B)
        <5>1. CASE B = <<>>
          BY <5>1, PredicatesEmpty
        <5>2. CASE B # <<>>
          <6>. HIDE DEF B, op
          <6>. QED
            BY <1>1, <3>1, <4>2, <4>3, <5>2, JoinReturns DEF Code
        <5>. QED
          BY <5>1, <5>2
      <4>. HIDE DEF B, op
      <4>6. NoReturn(Built(op.body) \o B)
        BY <3>1, <3>2, <4>2, <4>4, <4>5, PredicatesJoined
      <4>. QED
        BY <4>3, <4>6
    <3>. QED
      BY <3>1, <3>4, <3>5, <3>6, <3>7, <3>8 DEF IsStatement
  <2>. QED
    BY <2>1, <2>2
<1>2. Code \subseteq A
  <2>1. \A S \in Code : Inside(S) \subseteq A => S \in A
    BY <1>1
  <2>. HIDE DEF A
  <2>. QED
    BY <2>1, CodeInduction
<1>. QED
  BY <1>2

\* First this, and first that.
LEMMA AfterAfter ==
  ASSUME NEW A, NEW i \in A, NEW k \in BOOLEAN, NEW code \in Seq(A), NEW region \in Regions(A)
  PROVE  /\ After(<<i>>, k, After(code, TRUE, region)) = After(<<i>> \o code, k, region)
         /\ After(<<>>, TRUE, region) = region
<1>1. /\ region.code \in Seq(A) /\ region.ok \in BOOLEAN
      /\ region = [code |-> region.code, end |-> region.end, yields |-> region.yields, ok |-> region.ok]
  BY DEF Regions
<1>2. <<i>> \in Seq(A) /\ <<i>> \o (code \o region.code) = (<<i>> \o code) \o region.code
  BY <1>1, JoinJoin
<1>3. After(<<i>>, k, After(code, TRUE, region)) = After(<<i>> \o code, k, region)
  BY <1>1, <1>2 DEF After, Region
<1>4. <<>> \o region.code = region.code /\ (TRUE /\ region.ok) = region.ok
  BY <1>1
<1>5. After(<<>>, TRUE, region) = region
  <2>1. After(<<>>, TRUE, region)
          = [code |-> region.code, end |-> region.end, yields |-> region.yields, ok |-> region.ok]
    BY <1>4, Zenon DEF After, Region
  <2>. QED
    BY <1>1, <2>1, Zenon
<1>. QED
  BY <1>3, <1>5

\* What a block without a return is lowered to when something follows it: the
\* same if it does not complete, the one after the other if it does.
JoinFits(A, B, p) ==
  LET first == Low(A, p)
      joined == Low(A \o B, p)
  IN /\ first.end # Complete => joined = first
     /\ first.end = Complete /\ first.ok => joined = After(first.code, TRUE, Low(B, p))
     /\ joined.ok => first.ok

\* The region of joined blocks is that of the first, and then that of the second.
LEMMA RegionsJoined ==
  ASSUME MaxNesting \in Nat, NEW B \in Code, NEW p \in Places
  PROVE  \A A \in Code : NoReturn(A) => JoinFits(A, B, p)
<1>. DEFINE G == {A \in Code : NoReturn(A) => JoinFits(A, B, p)}
<1>0. Low(B, p) \in Regions(Items)
  BY LowIsRegion
<1>1. <<>> \in G
  <2>1. Low(<<>>, p) = Region(<<>>, Complete, FALSE, TRUE) /\ <<>> \in Code /\ <<>> \o B = B
    BY LowIsRegion, BuiltIsCode, CodeJoins
  <2>2. After(<<>>, TRUE, Low(B, p)) = Low(B, p)
    <3>1. Return \in Items /\ <<>> \in Seq(Items)
      BY InstructionsUnfolded DEF LowSimple, Items
    <3>. QED
      BY <1>0, <3>1, AfterAfter
  <2>3. JoinFits(<<>>, B, p)
    <3>1. Low(<<>>, p).code = <<>> /\ Low(<<>>, p).end = Complete /\ Low(<<>>, p).ok
      BY <2>1 DEF Region
    <3>2. PICK e \in Code : e = <<>>
      BY <2>1
    <3>3. Low(e \o B, p) = Low(B, p)
      BY <2>1, <3>2
    <3>4. JoinFits(e, B, p)
      BY <2>2, <3>1, <3>2, <3>3 DEF JoinFits
    <3>. QED
      BY <3>2, <3>4
  <2>. QED
    BY <2>1, <2>3
<1>2. ASSUME NEW y, NEW A \in Code, <<y>> \o A \in Code, A \in G, NoReturn(<<y>> \o A)
      PROVE  JoinFits(<<y>> \o A, B, p)
  <2>. DEFINE C == <<y>> \o A
              D == <<y>> \o (A \o B)
              op(rest) == lowerOperation(y, p, rest, lowerRegion)
  <2>1. D = C \o B /\ <<y>> \in Code /\ A \o B \in Code /\ D \in Code
    <3>1. <<y>> \in Code
      BY <1>2, ConsOfCode
    <3>2. <<y>> \o (A \o B) = (<<y>> \o A) \o B
      BY <3>1, JoinJoin, SMTT(40) DEF Code
    <3>3. (<<y>> \o A) \o B \in Code /\ A \o B \in Code
      BY <1>2, CodeJoins
    <3>. QED
      BY <3>1, <3>2, <3>3
  <2>2. y.kind # "return" /\ JoinFits(A, B, p)
    BY <1>2, PredicatesCons
  <2>3. Low(C, p) = op(Low(A, p)) /\ Low(D, p) = op(Low(A \o B, p))
    BY <1>2, <2>1, LowCons
  <2>4. Low(A, p) \in Regions(Items) /\ Low(A \o B, p) \in Regions(Items)
    BY <2>1, LowIsRegion
  <2>5. CASE \E i \in Items, k \in BOOLEAN : \A rest : op(rest) = After(<<i>>, k, rest)
    <3>1. PICK i \in Items, k \in BOOLEAN : \A rest : op(rest) = After(<<i>>, k, rest)
      BY <2>5
    <3>. HIDE DEF op, C, D
    <3>2. Low(C, p) = After(<<i>>, k, Low(A, p)) /\ Low(D, p) = After(<<i>>, k, Low(A \o B, p))
      BY <2>3, <3>1
    <3>3. /\ Low(C, p).code = <<i>> \o Low(A, p).code /\ Low(C, p).end = Low(A, p).end
          /\ Low(C, p).ok <=> k /\ Low(A, p).ok
          /\ Low(D, p).ok <=> k /\ Low(A \o B, p).ok
      <4>1. PICK one : one = <<i>>
        OBVIOUS
      <4>2. /\ After(one, k, Low(A, p)).code = one \o Low(A, p).code
            /\ After(one, k, Low(A, p)).end = Low(A, p).end
            /\ After(one, k, Low(A, p)).ok <=> k /\ Low(A, p).ok
            /\ After(one, k, Low(A \o B, p)).ok <=> k /\ Low(A \o B, p).ok
        BY <2>4 DEF After, Region, Regions
      <4>. QED
        BY <3>2, <4>1, <4>2
    <3>4. CASE Low(A, p).end # Complete
      BY <2>1, <2>2, <3>2, <3>3, <3>4 DEF JoinFits, C
    <3>5. CASE Low(A, p).end = Complete
      <4>1. ASSUME Low(C, p).ok
            PROVE  Low(D, p) = After(Low(C, p).code, TRUE, Low(B, p))
        <5>1. Low(A \o B, p) = After(Low(A, p).code, TRUE, Low(B, p)) /\ k = TRUE
          BY <2>2, <3>3, <3>5, <4>1 DEF JoinFits
        <5>2. Low(A, p).code \in Seq(Items)
          BY <2>4 DEF Regions
        <5>3. After(<<i>>, k, After(Low(A, p).code, TRUE, Low(B, p))) = After(<<i>> \o Low(A, p).code, k, Low(B, p))
          <6>1. PICK one \in Seq(Items) : one = <<i>>
            BY <3>1, OneIsSeq
          <6>2. Low(B, p).code \in Seq(Items)
            BY <1>0 DEF Regions
          <6>3. one \o (Low(A, p).code \o Low(B, p).code) = (one \o Low(A, p).code) \o Low(B, p).code
            BY <5>2, <6>2, Concatenation
          <6>4. After(one, k, After(Low(A, p).code, TRUE, Low(B, p))) = After(one \o Low(A, p).code, k, Low(B, p))
            BY <6>3 DEF After, Region
          <6>. QED
            BY <6>1, <6>4
        <5>. QED
          BY <3>2, <3>3, <5>1, <5>3
      <4>2. Low(D, p).ok => Low(C, p).ok
        BY <2>2, <3>3 DEF JoinFits
      <4>3. Low(C, p).end = Complete
        BY <3>3, <3>5
      <4>. QED
        BY <2>1, <4>1, <4>2, <4>3 DEF JoinFits, C
    <3>. QED
      BY <3>4, <3>5
  <2>6. CASE \E r : /\ \A rest : op(rest) = r
                    /\ r.end # Complete \/ ~r.ok
    <3>1. PICK r : (\A rest : op(rest) = r) /\ (r.end # Complete \/ ~r.ok)
      BY <2>6
    <3>. HIDE DEF op, C, D
    <3>2. Low(C, p) = r /\ Low(D, p) = r
      BY <2>3, <3>1
    <3>. QED
      BY <2>1, <3>1, <3>2 DEF JoinFits, C
  <2>. QED
    <3>. HIDE DEF C
    <3>. QED
      BY <2>1, <2>2, <2>5, <2>6, OperationShape DEF C
<1>3. Code \subseteq G
  <2>1. \A y : \A A \in Code : <<y>> \o A \in Code /\ A \in G => <<y>> \o A \in G
    BY <1>2
  <2>. HIDE DEF G
  <2>. QED
    BY <1>1, <2>1, ListInduction
<1>. QED
  BY <1>3

\* A region that ends with loop control in an arm is at the end of its block, if
\* nothing follows such an if.
LEMMA NestedIsLast ==
  ASSUME MaxNesting \in Nat, NEW B \in Code, NEW p \in Places, p # Function
  PROVE  \A A \in Code :
           /\ Low(A, p).ok /\ Low(A, p).end # Complete /\ ~Low(A, p).yields
           /\ controlIsLast[A \o B]
           => B = <<>> /\ ~Returns(A)
<1>. DEFINE Nests(A) == Low(A, p).ok /\ Low(A, p).end # Complete /\ ~Low(A, p).yields
            G == {A \in Code : Nests(A) /\ controlIsLast[A \o B] => B = <<>> /\ ~Returns(A)}
<1>1. <<>> \in G
  BY LowIsRegion, BuiltIsCode DEF Region
<1>2. ASSUME NEW y, NEW A \in Code, <<y>> \o A \in Code, A \in G,
             Nests(<<y>> \o A), controlIsLast[(<<y>> \o A) \o B]
      PROVE  B = <<>> /\ ~Returns(<<y>> \o A)
  <2>. DEFINE C == <<y>> \o A
              op(rest) == lowerOperation(y, p, rest, lowerRegion)
  <2>1. <<y>> \o (A \o B) = C \o B /\ <<y>> \in Code /\ A \o B \in Code /\ <<y>> \o (A \o B) \in Code
    <3>1. <<y>> \in Code
      BY <1>2, ConsOfCode
    <3>2. <<y>> \o (A \o B) = (<<y>> \o A) \o B
      BY <3>1, JoinJoin, SMTT(40) DEF Code
    <3>3. (<<y>> \o A) \o B \in Code /\ A \o B \in Code
      BY <1>2, CodeJoins
    <3>. QED
      BY <3>1, <3>2, <3>3
  <2>2. /\ ControllingIf(y, LoopControl) => A \o B = <<>>
        /\ controlIsLast[A \o B]
    BY <1>2, <2>1, PredicatesCons
  <2>3. Low(C, p) = op(Low(A, p)) /\ Low(A, p) \in Regions(Items) /\ IsStatement(y, Code)
    BY <1>2, LowCons, LowIsRegion
  <2>4. y.kind # "return" => (Returns(C) <=> Returns(A))
    BY <1>2, ConsOfCode
  <2>5. ASSUME NEW i, NEW k \in BOOLEAN, Low(C, p) = After(<<i>>, k, Low(A, p)), y.kind # "return"
        PROVE  B = <<>> /\ ~Returns(C)
    <3>1. /\ Low(C, p).end = Low(A, p).end /\ Low(C, p).yields = Low(A, p).yields
          /\ Low(C, p).ok => Low(A, p).ok
      BY <2>3, <2>5, AfterFields
    <3>2. Nests(A)
      <4>. HIDE DEF C
      <4>. QED
        BY <1>2, <3>1 DEF C
    <3>. QED
      BY <1>2, <2>2, <2>4, <2>5, <3>2
  <2>6. CASE y.kind \in {"effect", "loop"}
    <3>2. \E i : \E k \in BOOLEAN : op(Low(A, p)) = After(<<i>>, k, Low(A, p))
      <4>1. CASE y.kind = "effect"
        BY <4>1 DEF lowerOperation
      <4>2. CASE y.kind = "loop"
        <5>. DEFINE body == lowerRegion[<<y.body, Body(y)>>]
        <5>1. op(Low(A, p)) = After(<<lowerWhile(y, body)>>, body.ok, Low(A, p))
          BY <4>2 DEF lowerOperation
        <5>2. body.ok \in BOOLEAN
          <6>1. y.body \in Code /\ Body(y) \in Places
            BY <2>3, <4>2, LoopsAre, PlacesAre DEF IsStatement
          <6>2. body \in Regions(Items)
            BY <6>1, LowIsRegion DEF Low
          <6>. QED
            BY <6>2 DEF Regions
        <5>. HIDE DEF body, op
        <5>. QED
          BY <5>1, <5>2
      <4>. QED
        BY <2>6, <4>1, <4>2
    <3>. HIDE DEF op, C
    <3>. QED
      BY <2>3, <2>5, <2>6, <3>2 DEF C
  <2>7. CASE y.kind = "if" /\ ifIsFallthroughShape(y)
    <3>. DEFINE q == Arm(p.loop)
                t == Low(y.then, q)
                e == Low(y.else, q)
                joined == joinArms(y, t, e)
    <3>1. op(Low(A, p)) = IF joined.end # Complete THEN joined
                          ELSE After(joined.code, joined.ok, Low(A, p))
      BY <2>7 DEF lowerOperation, Low
    <3>2. /\ joined.code = <<If(y.id, t.code, e.code, y.hasElse)>> /\ joined.ok \in BOOLEAN
          /\ joined.end = IF t.end # Complete THEN t.end ELSE e.end
          /\ joined.ok => t.ok /\ e.ok
      BY DEF joinArms, Region
    <3>3. q \in Places /\ q # Function /\ y.then \in Code /\ y.else \in Code
      BY <2>3, <2>7, PlacesAre DEF Arm, Function, IsStatement
    <3>4. EndFits(y.then, q) /\ EndFits(y.else, q)
      BY <3>3, EndsAre
    <3>. HIDE DEF joined, op, C, q
    <3>5. CASE joined.end # Complete
      <4>1. Low(C, p) = joined
        BY <2>3, <3>1, <3>5
      <4>2. t.ok /\ e.ok
        BY <1>2, <3>2, <4>1 DEF C
      <4>3. controls[y.then] # {} \/ controls[y.else] # {}
        BY <3>2, <3>3, <3>4, <3>5, <4>2 DEF EndFits
      <4>4. controls[y.then] \subseteq LoopControl /\ controls[y.else] \subseteq LoopControl
        BY <3>3, ControlsUnfolded
      <4>5. ControllingIf(y, LoopControl)
        BY <2>7, <4>3, <4>4 DEF ControllingIf
      <4>6. A = <<>> /\ B = <<>>
        BY <2>2, <4>5, JoinEmpty DEF Code
      <4>. QED
        BY <2>4, <2>7, <4>6, PredicatesEmpty DEF C
    <3>6. CASE joined.end = Complete
      <4>1. Low(C, p) = After(joined.code, joined.ok, Low(A, p))
        BY <2>3, <3>1, <3>6
      <4>. QED
        BY <2>5, <2>7, <3>2, <4>1 DEF C
    <3>. QED
      BY <3>5, <3>6
  <2>8. CASE y.kind = "if" /\ ~ifIsFallthroughShape(y)
    <3>1. op(Low(A, p)) = Rejected
      BY <2>8 DEF lowerOperation
    <3>2. ~Rejected.ok
      BY DEF Rejected, Region
    <3>. QED
      BY <1>2, <2>3, <3>1, <3>2
  <2>9. CASE y.kind \in {"break", "continue", "return", "block"}
    <3>1. op(Low(A, p)) \in {lowerBreak(p), lowerContinue(p), Rejected}
      BY <2>9 DEF lowerOperation
    <3>2. op(Low(A, p)).yields \/ ~op(Low(A, p)).ok
      BY <3>1 DEF lowerBreak, lowerContinue, Rejected, Region
    <3>. QED
      BY <1>2, <2>3, <3>2
  <2>. QED
    BY <2>3, <2>6, <2>7, <2>8, <2>9 DEF IsStatement
<1>3. Code \subseteq G
  <2>1. \A y : \A A \in Code : <<y>> \o A \in Code /\ A \in G => <<y>> \o A \in G
    BY <1>2
  <2>. HIDE DEF G
  <2>. QED
    BY <1>1, <2>1, ListInduction
<1>. QED
  BY <1>3

-----------------------------------------------------------------------------
(* What the two executions still have to do, in a function or in one       *)
(* iteration of a loop.                                                    *)

SrcLoops == LoopsOf(Code) \cup {NoLoop}

\* The region of a loop's body, and the loop of lowered code.
BodyRegion(loop) == Low(Built(loop.body), Body(IRLoop(loop)))
LowLoop(loop) == lowerWhile(IRLoop(loop), BodyRegion(loop))

\* Where a list of the source is lowered that is in this loop and in no other.
PlacesIn(loop) ==
  IF loop = NoLoop THEN {Function, Arm(NoLoop)}
  ELSE {Body(IRLoop(loop)), Arm(IRLoop(loop))}

\* Breaks are out of reach of a condition with effects and of the step.
BreaksFit(B, p, loop) ==
  /\ "break" \in controls[B] => ~loop.conditionCalls
  /\ "break" \in controls[B] /\ p.region = "arm" => loop.step = <<>>
  /\ HasIf(B, {"break"}) /\ p.region = "body" => loop.step = <<>>

\* The list X is lowered, and lowered code goes on after it.
FlowsOn(X, p) ==
  /\ Low(Built(X), p).ok /\ controlIsLast[Built(X)]
  /\ Low(Built(X), p).end = Complete
  /\ p = Function => ~Returns(Built(X))

\* The list X is lowered, and this is all that its function, or its iteration,
\* still does.
EndsWith(X, p, loop, code) ==
  /\ Low(Built(X), p).ok /\ controlIsLast[Built(X)]
  /\ \/ /\ p = Function /\ Low(Built(X), p).end = Complete /\ Returns(Built(X))
        /\ code = Low(Built(X), p).code \o <<Return>>
     \/ /\ p = Function /\ Low(Built(X), p).end = Returned
        /\ code = Low(Built(X), p).code
     \/ /\ p # Function /\ loop # NoLoop /\ BreaksFit(Built(X), p, loop)
        /\ Low(Built(X), p).end = ControlEnd(p) /\ Low(Built(X), p).yields
        /\ code = closeBody(loop, Low(Built(X), p))

\* The list X is lowered, and an arm of it, not X itself, ends the iteration.
Holds(X, p, loop) ==
  /\ Low(Built(X), p).ok /\ controlIsLast[Built(X)]
  /\ p # Function /\ loop # NoLoop /\ BreaksFit(Built(X), p, loop)
  /\ Low(Built(X), p).end = NestedLoopControl /\ ~Low(Built(X), p).yields

In(R, todo, code) == <<todo, code>> \in R

\* After X the source goes on with T; the code has all of X, and what goes with T.
Pends(R, loop, X, p, T, code) ==
  \/ /\ FlowsOn(X, p)
     /\ \E rest \in LowCode : In(R, T, rest) /\ code = Low(Built(X), p).code \o rest
  \/ EndsWith(X, p, loop, code)
  \/ /\ Holds(X, p, loop)
     /\ In(R, T, loop.step) /\ code = Low(Built(X), p).code \o loop.step

IsClosed(R, loop) ==
  /\ \A E \in Seq(Effects) : In(R, E, E)
  /\ \A X, T \in Code : \A p \in PlacesIn(loop) : \A code \in LowCode :
       Pends(R, loop, X, p, T, code) => In(R, X \o T, code)

\* What goes with what, of source and code, in an iteration of a loop: what must.
Pairs == Code \X LowCode
Pending(loop) == {pair \in Pairs : \A R \in SUBSET Pairs : IsClosed(R, loop) => pair \in R}

\* Where lists are.
LEMMA PlacesInAre ==
  ASSUME MaxNesting \in Nat, NEW loop \in SrcLoops, NEW p \in PlacesIn(loop)
  PROVE  /\ p \in Places /\ Arm(p.loop) \in PlacesIn(loop) /\ Arm(p.loop) # Function
         /\ Arm(p.loop).loop = p.loop
         /\ p.region = "body" => ControlEnd(p) = IterationClosed
         /\ p.region # "body" => ControlEnd(p) = NestedLoopControl
         /\ p = Function => loop = NoLoop
         /\ p # Function => p.region \in {"body", "arm"}
         /\ p.loop = NoLoop <=> loop = NoLoop
         /\ loop # NoLoop => /\ p.loop.step = loop.step /\ p.loop.id = loop.id
                             /\ loop \in LoopsOf(Code) /\ p.loop = IRLoop(loop)
                             /\ IRLoop(loop) \in LoopsOf(Code)
<1>1. CASE loop = NoLoop
  <2>1. p \in {Function, Arm(NoLoop)} /\ Function \in Places /\ Function.loop = NoLoop
    BY <1>1, PlacesAre DEF PlacesIn, Function
  <2>2. Arm(NoLoop) \in Places /\ Arm(NoLoop).loop = NoLoop /\ Arm(NoLoop) # Function
        /\ Arm(NoLoop).region = "arm" /\ Function.region = "function"
    BY <2>1, PlacesAre DEF Arm, Function
  <2>. QED
    BY <1>1, <2>1, <2>2 DEF PlacesIn, ControlEnd
<1>2. CASE loop # NoLoop
  <2>1. loop \in LoopsOf(Code)
    BY <1>2 DEF SrcLoops
  <2>2. /\ loop.id \in Labels /\ loop.conditionCalls \in BOOLEAN /\ loop.body \in Code
        /\ loop.step \in Seq(Effects) /\ Built(loop.body) \in Code
    <3>1. loop.body \in Code
      BY <2>1 DEF LoopsOf
    <3>. QED
      BY <2>1, <3>1, BuiltIsCode DEF LoopsOf
  <2>3. PICK y : y = IRLoop(loop)
    OBVIOUS
  <2>4. y \in LoopsOf(Code) /\ y.step = loop.step /\ y.id = loop.id /\ y.kind = "loop"
    BY <2>2, <2>3 DEF IRLoop, Loop, LoopsOf
  <2>5. Body(y) \in Places /\ Arm(y) \in Places /\ y # NoLoop
    BY <2>4, PlacesAre DEF NoLoop
  <2>6. /\ Body(y).loop = y /\ Arm(y).loop = y /\ Body(y).region = "body" /\ Arm(y).region = "arm"
        /\ Function.region = "function"
    BY DEF Body, Arm, Function
  <2>7. p \in {Body(y), Arm(y)} /\ Arm(p.loop) = Arm(y) /\ Arm(y) \in PlacesIn(loop)
    BY <1>2, <2>3, <2>6 DEF PlacesIn
  <2>. QED
    BY <1>2, <2>1, <2>3, <2>4, <2>5, <2>6, <2>7 DEF ControlEnd
<1>. QED
  BY <1>1, <1>2

\* Effects are code on both sides.
LEMMA EffectsAreCode ==
  ASSUME MaxNesting \in Nat
  PROVE  /\ Seq(Effects) \subseteq Code /\ Seq(Effects) \subseteq LowCode
         /\ <<>> \in Seq(Effects) /\ Return \in Items /\ <<Return>> \in LowCode
         /\ <<>> \in Code /\ <<>> \in LowCode
<1>1. Simple \subseteq Statements[MaxNesting]
  <2>1. CASE MaxNesting = 0
    BY <2>1, StatementsUnfolded
  <2>2. CASE MaxNesting # 0
    <3>1. MaxNesting \in 1 .. MaxNesting
      BY <2>2
    <3>. QED
      BY <3>1, StatementsUnfolded DEF Over
  <2>. QED
    BY <2>1, <2>2
<1>2. Effects \subseteq Statements[MaxNesting] /\ Effects \subseteq Items /\ Return \in Items
  BY <1>1, InstructionsUnfolded DEF Simple, LowSimple, Items
<1>3. <<Return>> \in LowCode
  BY <1>2, OneIsSeq DEF LowCode
<1>. QED
  BY <1>2, <1>3, SeqGrows DEF Code, LowCode

\* Code stays code, joined.
LEMMA LowCodeJoins ==
  /\ \A A, B \in LowCode : A \o B \in LowCode
  /\ \A A \in LowCode : <<>> \o A = A /\ A \o <<>> = A
  /\ \A A, B, C \in LowCode : (A \o B) \o C = A \o (B \o C)
<1>1. \A A, B \in LowCode : A \o B \in LowCode
  BY JoinIsSeq DEF LowCode
<1>. QED
  BY <1>1, Concatenation DEF LowCode

\* The code of a region.
LEMMA RegionIs ==
  ASSUME MaxNesting \in Nat, NEW X \in Code, NEW p \in Places
  PROVE  /\ Built(X) \in Code /\ Low(Built(X), p) \in Regions(Items)
         /\ Low(Built(X), p).code \in LowCode /\ Low(Built(X), p).end \in Ends
         /\ Low(Built(X), p).yields \in BOOLEAN /\ Low(Built(X), p).ok \in BOOLEAN
<1>1. Low(Built(X), p) \in Regions(Items)
  BY BuiltIsCode, LowIsRegion
<1>. QED
  BY <1>1, BuiltIsCode DEF Regions, LowCode

\* More pairs, more pends.
LEMMA PendsGrows ==
  ASSUME NEW R, NEW Q, R \subseteq Q, NEW loop, NEW X, NEW p, NEW T, NEW code,
         Pends(R, loop, X, p, T, code)
  PROVE  Pends(Q, loop, X, p, T, code)
<1>1. \A S, C : In(R, S, C) => In(Q, S, C)
  BY DEF In
<1>. QED
  BY <1>1 DEF Pends

\* The pairs have the rules they are the least set of.
LEMMA PendingIsClosed ==
  ASSUME NEW loop, MaxNesting \in Nat
  PROVE  /\ Pending(loop) \subseteq Pairs
         /\ \A R \in SUBSET Pairs : IsClosed(R, loop) => Pending(loop) \subseteq R
         /\ IsClosed(Pending(loop), loop)
<1>1. Pending(loop) \subseteq Pairs /\ \A R \in SUBSET Pairs : IsClosed(R, loop) => Pending(loop) \subseteq R
  BY DEF Pending
<1>2. ASSUME NEW S \in Code, NEW C \in LowCode,
             \A R \in SUBSET Pairs : IsClosed(R, loop) => In(R, S, C)
      PROVE  In(Pending(loop), S, C)
  <2>1. <<S, C>> \in Pairs
    BY DEF Pairs
  <2>. QED
    BY <1>2, <2>1 DEF Pending, In
<1>3. ASSUME NEW E \in Seq(Effects)
      PROVE  In(Pending(loop), E, E)
  <2>1. E \in Code /\ E \in LowCode
    BY EffectsAreCode
  <2>. QED
    BY <1>2, <2>1 DEF IsClosed
<1>4. ASSUME NEW X \in Code, NEW T \in Code, NEW p \in PlacesIn(loop), NEW code \in LowCode,
             Pends(Pending(loop), loop, X, p, T, code)
      PROVE  In(Pending(loop), X \o T, code)
  <2>1. X \o T \in Code
    BY CodeJoins
  <2>2. ASSUME NEW R \in SUBSET Pairs, IsClosed(R, loop)
        PROVE  In(R, X \o T, code)
    <3>1. Pends(R, loop, X, p, T, code)
      BY <1>1, <1>4, <2>2, PendsGrows
    <3>. QED
      BY <2>2, <3>1 DEF IsClosed
  <2>. QED
    BY <1>2, <2>1, <2>2
<1>. QED
  BY <1>1, <1>3, <1>4 DEF IsClosed

\* A closed set, without those pairs that no rule gives, is closed.
LEMMA PendingIs ==
  ASSUME MaxNesting \in Nat, NEW loop \in SrcLoops, NEW S, NEW C, In(Pending(loop), S, C)
  PROVE  /\ S \in Code /\ C \in LowCode
         /\ \/ S \in Seq(Effects) /\ C = S
            \/ \E X \in Code \ {<<>>} : \E T \in Code : \E p \in PlacesIn(loop) :
                 S = X \o T /\ Pends(Pending(loop), loop, X, p, T, C)
<1>. DEFINE P == Pending(loop)
            Given(s, c) ==
              \/ s \in Seq(Effects) /\ c = s
              \/ \E X \in Code \ {<<>>} : \E T \in Code : \E p \in PlacesIn(loop) :
                   s = X \o T /\ Pends(P, loop, X, p, T, c)
            Q == {pair \in P : Given(pair[1], pair[2])}
<1>. HIDE DEF P
<1>1. P \subseteq Pairs /\ IsClosed(P, loop)
  BY PendingIsClosed DEF P
<1>2. \A s, c : In(Q, s, c) <=> In(P, s, c) /\ Given(s, c)
  <2>. HIDE DEF Given
  <2>. QED
    BY DEF In
<1>3. Q \in SUBSET Pairs /\ Q \subseteq P
  BY <1>1
<1>. HIDE DEF Q
<1>4. ASSUME NEW E \in Seq(Effects)
      PROVE  In(Q, E, E)
  BY <1>1, <1>2 DEF IsClosed
<1>5. ASSUME NEW X \in Code, NEW T \in Code, NEW p \in PlacesIn(loop), NEW code \in LowCode,
             Pends(Q, loop, X, p, T, code)
      PROVE  In(Q, X \o T, code)
  <2>1. Pends(P, loop, X, p, T, code)
    BY <1>3, <1>5, PendsGrows
  <2>2. In(P, X \o T, code)
    BY <1>1, <2>1 DEF IsClosed
  <2>3. CASE X # <<>>
    <3>1. Given(X \o T, code)
      BY <2>1, <2>3
    <3>. HIDE DEF Given
    <3>. QED
      BY <1>2, <2>2, <3>1
  <2>4. CASE X = <<>>
    <3>1. p \in Places /\ X \o T = T
      BY <2>4, PlacesInAre, CodeJoins
    <3>2. Low(Built(X), p) = Region(<<>>, Complete, FALSE, TRUE) /\ Built(X) = <<>>
      BY <2>4, <3>1, LowIsRegion, BuiltIsCode
    <3>3. /\ Low(Built(X), p).end = Complete /\ Low(Built(X), p).code = <<>>
          /\ Low(Built(X), p).yields = FALSE /\ ~Returns(Built(X))
      BY <3>2 DEF Region, Returns
    <3>4. ~EndsWith(X, p, loop, code) /\ ~Holds(X, p, loop)
      BY <3>3 DEF EndsWith, Holds, Complete, Returned, NestedLoopControl
    <3>5. PICK rest \in LowCode : In(Q, T, rest) /\ code = <<>> \o rest
      BY <1>5, <3>3, <3>4 DEF Pends
    <3>6. <<>> \o rest = rest
      BY LowCodeJoins
    <3>. QED
      BY <3>1, <3>5, <3>6
  <2>. QED
    BY <2>3, <2>4
<1>6. IsClosed(Q, loop)
  BY <1>4, <1>5 DEF IsClosed
<1>7. In(Q, S, C) /\ <<S, C>> \in Pairs
  BY <1>1, <1>3, <1>6, PendingIsClosed DEF In, P
<1>8. S \in Code /\ C \in LowCode
  BY <1>7 DEF Pairs
<1>9. Given(S, C)
  <2>. HIDE DEF Given
  <2>. QED
    BY <1>2, <1>7
<1>. QED
  BY <1>8, <1>9 DEF P

\* The code of X is this code and then that of Y.
StartsWith(X, first, k, Y, p) ==
  /\ first \in LowCode /\ k \in BOOLEAN
  /\ Low(Built(X), p) = After(first, k, Low(Built(Y), p))
  /\ Returns(Built(X)) <=> Returns(Built(Y))
  /\ controls[Built(Y)] \subseteq controls[Built(X)]
  /\ HasIf(Built(Y), {"break"}) => HasIf(Built(X), {"break"})
  /\ controlIsLast[Built(X)] => controlIsLast[Built(Y)]

\* What is left of X after that is Y.
LEMMA PendsRest ==
  ASSUME MaxNesting \in Nat, NEW loop \in SrcLoops, NEW p \in PlacesIn(loop),
         NEW X \in Code, NEW Y \in Code, NEW first, NEW k, StartsWith(X, first, k, Y, p),
         NEW R, NEW T, NEW code, Pends(R, loop, X, p, T, code)
  PROVE  k /\ \E rest \in LowCode : code = first \o rest /\ Pends(R, loop, Y, p, T, rest)
<1>0. /\ first \in LowCode /\ k \in BOOLEAN
      /\ Low(Built(X), p) = After(first, k, Low(Built(Y), p))
      /\ Returns(Built(X)) <=> Returns(Built(Y))
      /\ controls[Built(Y)] \subseteq controls[Built(X)]
      /\ HasIf(Built(Y), {"break"}) => HasIf(Built(X), {"break"})
      /\ controlIsLast[Built(X)] => controlIsLast[Built(Y)]
  BY DEF StartsWith
<1>. DEFINE x == Low(Built(X), p)
            y == Low(Built(Y), p)
<1>1. p \in Places /\ y \in Regions(Items) /\ y.code \in LowCode /\ y.ok \in BOOLEAN
  BY PlacesInAre, RegionIs
<1>2. /\ x.code = first \o y.code /\ x.end = y.end /\ x.yields = y.yields
      /\ x.ok <=> k /\ y.ok
  <2>. HIDE DEF y
  <2>. QED
    BY <1>0, <1>1 DEF After, Region, Regions, y
<1>3. /\ x.ok /\ controlIsLast[Built(X)]
      /\ k /\ y.ok /\ controlIsLast[Built(Y)]
  <2>1. x.ok /\ controlIsLast[Built(X)]
    BY DEF Pends, FlowsOn, EndsWith, Holds
  <2>. QED
    BY <1>0, <1>2, <2>1
<1>4. BreaksFit(Built(X), p, loop) => BreaksFit(Built(Y), p, loop)
  BY <1>0 DEF BreaksFit
<1>. HIDE DEF x, y
<1>8. \A t \in LowCode : (first \o y.code) \o t = first \o (y.code \o t) /\ y.code \o t \in LowCode
  <2>1. PICK c \in LowCode : c = y.code
    BY <1>1
  <2>2. first \in LowCode
    BY <1>0
  <2>3. \A t \in LowCode : (first \o c) \o t = first \o (c \o t) /\ c \o t \in LowCode
    BY <2>2, LowCodeJoins, Zenon
  <2>. QED
    BY <2>1, <2>3, Zenon
<1>5. CASE FlowsOn(X, p) /\ \E rest \in LowCode : In(R, T, rest) /\ code = x.code \o rest
  <2>1. PICK rest \in LowCode : In(R, T, rest) /\ code = x.code \o rest
    BY <1>5
  <2>2. PICK d \in LowCode : d = y.code \o rest /\ code = first \o d
    <3>1. (first \o y.code) \o rest = first \o (y.code \o rest) /\ y.code \o rest \in LowCode
      BY <1>8, <2>1, Zenon
    <3>2. code = (first \o y.code) \o rest
      BY <1>0, <1>1, <1>2, <2>1, Zenon
    <3>. QED
      BY <3>1, <3>2, Zenon
  <2>3. FlowsOn(Y, p)
    BY <1>0, <1>2, <1>3, <1>5 DEF FlowsOn, x, y
  <2>4. Pends(R, loop, Y, p, T, d)
    BY <2>1, <2>2, <2>3 DEF Pends, y
  <2>. QED
    BY <1>3, <2>2, <2>4
<1>6. CASE EndsWith(X, p, loop, code)
  <2>1. CASE p = Function /\ x.end = Complete /\ Returns(Built(X)) /\ code = x.code \o <<Return>>
    <3>0. PICK last \in LowCode : last = <<Return>>
      BY EffectsAreCode
    <3>1. PICK d \in LowCode : d = y.code \o last /\ code = first \o d
      <4>1. (first \o y.code) \o last = first \o (y.code \o last) /\ y.code \o last \in LowCode
        BY <1>8, <2>1, <3>0, Zenon
      <4>2. code = (first \o y.code) \o last
        BY <1>0, <1>1, <1>2, <2>1, <3>0, Zenon
      <4>. QED
        BY <4>1, <4>2, Zenon
    <3>2. EndsWith(Y, p, loop, d)
      BY <1>0, <1>2, <1>3, <2>1, <3>0, <3>1 DEF EndsWith, x, y
    <3>. QED
      BY <1>3, <3>1, <3>2 DEF Pends
  <2>2. CASE p = Function /\ x.end = Returned /\ code = x.code
    <3>1. EndsWith(Y, p, loop, y.code)
      BY <1>0, <1>2, <1>3, <2>2 DEF EndsWith, x, y
    <3>. QED
      BY <1>0, <1>1, <1>2, <1>3, <2>2, <3>1 DEF Pends
  <2>3. CASE /\ p # Function /\ loop # NoLoop /\ BreaksFit(Built(X), p, loop)
             /\ x.end = ControlEnd(p) /\ x.yields /\ code = closeBody(loop, x)
    <3>. DEFINE last == IF x.end = IterationClosed THEN <<>> ELSE loop.step
    <3>1. loop.step \in Seq(Effects)
      BY <2>3, PlacesInAre DEF LoopsOf
    <3>2. last \in LowCode
      BY <3>1, EffectsAreCode
    <3>3. closeBody(loop, x) = x.code \o last /\ closeBody(loop, y) = y.code \o last
      BY <1>2 DEF closeBody
    <3>. HIDE DEF last
    <3>4. code = first \o closeBody(loop, y) /\ closeBody(loop, y) \in LowCode
      <4>1. code = x.code \o last
        BY <2>3, <3>3
      <4>2. PICK d \in LowCode : d = y.code \o last /\ code = first \o d
        <5>1. (first \o y.code) \o last = first \o (y.code \o last) /\ y.code \o last \in LowCode
          BY <1>8, <3>2, <4>1, Zenon
        <5>2. code = (first \o y.code) \o last
          BY <1>0, <1>1, <1>2, <3>2, <4>1, Zenon
        <5>. QED
          BY <5>1, <5>2, Zenon
      <4>. QED
        BY <3>3, <4>2
    <3>5. EndsWith(Y, p, loop, closeBody(loop, y))
      BY <1>0, <1>2, <1>3, <1>4, <2>3 DEF EndsWith, x, y
    <3>. QED
      BY <1>3, <3>4, <3>5 DEF Pends
  <2>. QED
    BY <1>6, <2>1, <2>2, <2>3 DEF EndsWith, x
<1>7. CASE Holds(X, p, loop) /\ In(R, T, loop.step) /\ code = x.code \o loop.step
  <2>1. loop.step \in Seq(Effects)
    BY <1>7, PlacesInAre DEF LoopsOf, Holds
  <2>2. loop.step \in LowCode
    BY <2>1, EffectsAreCode
  <2>3. PICK d \in LowCode : d = y.code \o loop.step /\ code = first \o d
    <3>1. (first \o y.code) \o loop.step = first \o (y.code \o loop.step) /\ y.code \o loop.step \in LowCode
      BY <1>8, <1>7, <2>2, Zenon
    <3>2. code = (first \o y.code) \o loop.step
      BY <1>0, <1>1, <1>2, <1>7, <2>2, Zenon
    <3>. QED
      BY <3>1, <3>2, Zenon
  <2>4. Holds(Y, p, loop)
    BY <1>0, <1>2, <1>3, <1>4, <1>7 DEF Holds, x, y
  <2>. QED
    BY <1>3, <1>7, <2>3, <2>4 DEF Pends, y
<1>. QED
  BY <1>5, <1>6, <1>7 DEF Pends, x

\* The rules, one by one.
LEMMA PendingHas ==
  ASSUME MaxNesting \in Nat, NEW loop \in SrcLoops
  PROVE  /\ \A E \in Seq(Effects) : In(Pending(loop), E, E)
         /\ \A X, T \in Code : \A p \in PlacesIn(loop) : \A code \in LowCode :
              Pends(Pending(loop), loop, X, p, T, code) => In(Pending(loop), X \o T, code)
BY PendingIsClosed DEF IsClosed

\* A list of which nothing is built changes nothing.
LEMMA NothingPends ==
  ASSUME MaxNesting \in Nat, NEW loop \in SrcLoops, NEW p \in PlacesIn(loop),
         NEW Y \in Code, Built(Y) = <<>>, NEW T, NEW code, In(Pending(loop), T, code)
  PROVE  In(Pending(loop), Y \o T, code)
<1>1. T \in Code /\ code \in LowCode
  BY PendingIs
<1>2. p \in Places
  BY PlacesInAre
<1>3. /\ Low(Built(Y), p).end = Complete /\ Low(Built(Y), p).code = <<>>
      /\ Low(Built(Y), p).ok /\ ~Returns(Built(Y)) /\ controlIsLast[Built(Y)]
  BY <1>2, LowIsRegion, PredicatesEmpty DEF Region
<1>4. <<>> \o code = code
  BY <1>1, LowCodeJoins
<1>5. Pends(Pending(loop), loop, Y, p, T, code)
  BY <1>1, <1>3, <1>4 DEF Pends, FlowsOn
<1>. QED
  BY <1>1, <1>5, PendingHas

\* When the code of X is an instruction and then the code of the tail of X.
LEMMA PendsTail ==
  ASSUME MaxNesting \in Nat, NEW loop \in SrcLoops, NEW p \in PlacesIn(loop),
         NEW X \in Code, X # <<>>, NEW y, y.kind # "return",
         Built(X) = <<y>> \o Built(Tail(X)),
         NEW i \in Items, NEW k \in BOOLEAN,
         Low(Built(X), p) = After(<<i>>, k, Low(Built(Tail(X)), p)),
         NEW T \in Code, NEW code, Pends(Pending(loop), loop, X, p, T, code)
  PROVE  /\ k /\ controlIsLast[Built(X)]
         /\ \E rest \in LowCode : code = <<i>> \o rest /\ In(Pending(loop), Tail(X) \o T, rest)
<1>1. Tail(X) \in Code /\ Built(X) \in Code /\ Built(Tail(X)) \in Code
  BY PartsOfCode, BuiltIsCode
<1>. DEFINE B == Built(Tail(X))
<1>2. <<y>> \o B \in Code
  BY <1>1
<1>3. PICK first \in LowCode : first = <<i>>
  BY OneIsSeq DEF LowCode
<1>4. Returns(Built(X)) <=> Returns(B)
  BY <1>1, <1>2, ConsOfCode
<1>5. /\ controls[B] \subseteq controls[Built(X)]
      /\ controlIsLast[Built(X)] => controlIsLast[B]
  <2>. HIDE DEF B
  <2>1. /\ controls[<<y>> \o B] = controls[B] \cup OwnControls(y)
        /\ controlIsLast[<<y>> \o B] => controlIsLast[B]
    BY <1>1, <1>2, PredicatesCons DEF B
  <2>. QED
    BY <2>1 DEF B
<1>6. HasIf(B, {"break"}) => HasIf(Built(X), {"break"})
  <2>. HIDE DEF B
  <2>1. HasIf(<<y>> \o B, {"break"}) <=> ControllingIf(y, {"break"}) \/ HasIf(B, {"break"})
    BY <1>1, <1>2, PredicatesCons DEF B
  <2>. QED
    BY <2>1 DEF B
<1>7. k /\ \E rest \in LowCode : code = first \o rest /\ Pends(Pending(loop), loop, Tail(X), p, T, rest)
  <2>1. Low(Built(X), p) = After(first, k, Low(Built(Tail(X)), p))
    BY <1>3
  <2>. HIDE DEF Pending
  <2>. QED
    <3>1. StartsWith(X, first, k, Tail(X), p)
      BY <1>4, <1>5, <1>6, <2>1 DEF StartsWith
    <3>. QED
      BY <1>1, <3>1, PendsRest
<1>8. \A rest \in LowCode : Pends(Pending(loop), loop, Tail(X), p, T, rest)
                            => In(Pending(loop), Tail(X) \o T, rest)
  BY <1>1, PendingHas
<1>9. controlIsLast[Built(X)]
  BY DEF Pends, FlowsOn, EndsWith, Holds
<1>. QED
  BY <1>3, <1>7, <1>8, <1>9

\* In a block: first what is in it, then what comes after it.
LEMMA BlockPends ==
  ASSUME MaxNesting \in Nat, NEW loop \in SrcLoops, NEW p \in PlacesIn(loop),
         NEW X \in Code, X # <<>>, Head(X).kind = "block",
         NEW T \in Code, NEW code, Pends(Pending(loop), loop, X, p, T, code)
  PROVE  /\ Head(X).body \in Code
         /\ Pends(Pending(loop), loop, Head(X).body, p, Tail(X) \o T, code)
<1>. DEFINE b == Head(X).body
            B == Built(b)
            D == Built(Tail(X))
            r == Low(B, p)
            x == Low(Built(X), p)
            P == Pending(loop)
<1>1. /\ b \in Code /\ Tail(X) \in Code /\ B \in Code /\ D \in Code /\ Built(X) \in Code
      /\ p \in Places /\ Tail(X) \o T \in Code
  <2>1. b \in Code /\ Tail(X) \in Code
    BY PartsOfCode DEF IsStatement
  <2>. QED
    BY <2>1, BuiltIsCode, PlacesInAre, CodeJoins
<1>2. Built(X) = IF Returns(B) THEN B ELSE B \o D
  BY BuiltCons
<1>3. x.ok /\ controlIsLast[Built(X)]
  BY DEF Pends, FlowsOn, EndsWith, Holds
<1>4. r \in Regions(Items) /\ r.code \in LowCode
  BY <1>1, RegionIs
<1>. HIDE DEF P
<1>5. CASE Returns(B)
  <2>1. Built(X) = B
    BY <1>2, <1>5
  <2>2. ~FlowsOn(X, p)
    <3>1. EndFits(B, p)
      BY <1>1, EndsAre
    <3>. QED
      BY <1>3, <1>5, <2>1, <3>1 DEF FlowsOn, EndFits
  <2>3. ~Holds(X, p, loop)
    <3>1. B \o <<>> = B /\ <<>> \in Code
      BY <1>1, CodeJoins, EffectsAreCode
    <3>2. p # Function => ~(r.ok /\ r.end # Complete /\ ~r.yields /\ controlIsLast[B])
      BY <1>1, <1>5, <3>1, NestedIsLast
    <3>. QED
      BY <2>1, <3>2 DEF Holds, Complete, NestedLoopControl
  <2>4. EndsWith(X, p, loop, code)
    BY <2>2, <2>3 DEF Pends
  <2>5. EndsWith(b, p, loop, code)
    BY <2>1, <2>4 DEF EndsWith
  <2>. QED
    BY <1>1, <2>5 DEF Pends
<1>6. CASE ~Returns(B)
  <2>. HIDE DEF B, D, r
  <2>1. Built(X) = B \o D
    BY <1>2, <1>6
  <2>2. JoinFits(B, D, p)
    <3>1. NoReturn(B)
      BY <1>1, <1>6, ReturnIsLast DEF B
    <3>. QED
      BY <1>1, <3>1, RegionsJoined
  <2>3. /\ controls[B] \subseteq controls[Built(X)] /\ controls[D] \subseteq controls[Built(X)]
        /\ controlIsLast[B] /\ controlIsLast[D]
        /\ HasIf(B, {"break"}) => HasIf(Built(X), {"break"})
        /\ HasIf(D, {"break"}) => HasIf(Built(X), {"break"})
    <3>1. /\ controls[B] \cup controls[D] \subseteq controls[B \o D]
          /\ controlIsLast[B \o D] => controlIsLast[B] /\ controlIsLast[D]
          /\ \A kinds : HasIf(B, kinds) \/ HasIf(D, kinds) => HasIf(B \o D, kinds)
      BY <1>1, PredicatesJoined
    <3>. QED
      BY <1>3, <2>1, <3>1
  <2>4. r.ok
    BY <1>3, <2>1, <2>2 DEF JoinFits, r
  <2>5. CASE r.end = Complete
    <3>1. x = After(r.code, TRUE, Low(D, p))
      BY <2>1, <2>2, <2>4, <2>5 DEF JoinFits, r
    <3>2. Returns(Built(X)) <=> Returns(D)
      <4>1. CASE D = <<>>
        <5>1. B \o D = B
          BY <1>1, <4>1, CodeJoins
        <5>. QED
          BY <1>6, <2>1, <4>1, <5>1, PredicatesEmpty
      <4>2. CASE D # <<>>
        BY <1>1, <2>1, <4>2, JoinReturns DEF Code
      <4>. QED
        BY <4>1, <4>2
    <3>0. PICK k \in BOOLEAN : k = TRUE
      OBVIOUS
    <3>a. PICK first \in LowCode : first = r.code
      BY <1>4
    <3>3. StartsWith(X, first, k, Tail(X), p)
      BY <1>4, <2>3, <3>0, <3>a, <3>1, <3>2 DEF StartsWith, D
    <3>4. k /\ \E rest \in LowCode : code = first \o rest /\ Pends(P, loop, Tail(X), p, T, rest)
      BY <1>1, <3>3, PendsRest DEF P
    <3>. PICK rest \in LowCode : code = r.code \o rest /\ Pends(P, loop, Tail(X), p, T, rest)
      BY <3>a, <3>4
    <3>5. In(P, Tail(X) \o T, rest)
      BY <1>1, <3>4, PendingHas DEF P
    <3>6. FlowsOn(b, p)
      BY <1>6, <2>3, <2>4, <2>5 DEF FlowsOn, r, B
    <3>7. Pends(P, loop, b, p, Tail(X) \o T, code)
      BY <3>4, <3>5, <3>6 DEF Pends, r, B
    <3>. QED
      BY <1>1, <3>7 DEF P
  <2>6. CASE r.end # Complete
    <3>1. x = r
      BY <2>1, <2>2, <2>6 DEF JoinFits, r
    <3>2. BreaksFit(Built(X), p, loop) => BreaksFit(B, p, loop)
      BY <2>3 DEF BreaksFit
    <3>3. CASE EndsWith(X, p, loop, code)
      <4>1. EndsWith(b, p, loop, code)
        BY <2>3, <2>4, <2>6, <3>1, <3>2, <3>3 DEF EndsWith, r, B
      <4>. QED
        BY <1>1, <4>1 DEF Pends
    <3>4. CASE Holds(X, p, loop) /\ In(P, T, loop.step) /\ code = x.code \o loop.step
      <4>1. D = <<>>
        <5>1. p # Function /\ ~r.yields /\ controlIsLast[B \o D]
          BY <1>3, <2>1, <3>1, <3>4 DEF Holds
        <5>. QED
          BY <1>1, <2>4, <2>6, <5>1, NestedIsLast DEF r
      <4>2. In(P, Tail(X) \o T, loop.step)
        BY <1>1, <3>4, <4>1, NothingPends DEF P, D
      <4>3. Holds(b, p, loop)
        BY <2>3, <2>4, <3>1, <3>2, <3>4 DEF Holds, r, B
      <4>4. Pends(P, loop, b, p, Tail(X) \o T, code)
        BY <3>1, <3>4, <4>2, <4>3 DEF Pends, r, B
      <4>. QED
        BY <1>1, <4>4 DEF P
    <3>5. ~FlowsOn(X, p)
      BY <2>6, <3>1 DEF FlowsOn
    <3>. QED
      BY <3>3, <3>4, <3>5 DEF Pends, P
  <2>. QED
    BY <2>5, <2>6
<1>. QED
  BY <1>5, <1>6

\* How a pair starts.
LEMMA PendingHead ==
  ASSUME MaxNesting \in Nat, NEW loop \in SrcLoops, NEW S, NEW C, In(Pending(loop), S, C)
  PROVE  /\ S \in Code /\ C \in LowCode
         /\ \/ S \in Seq(Effects) /\ C = S
            \/ \E X \in Code \ {<<>>} : \E T \in Code : \E p \in PlacesIn(loop) :
                 /\ S # <<>> /\ Head(X) = Head(S) /\ Tail(S) = Tail(X) \o T
                 /\ IsStatement(Head(S), Code) /\ Tail(X) \in Code
                 /\ Pends(Pending(loop), loop, X, p, T, C)
<1>. DEFINE P == Pending(loop)
<1>. HIDE DEF P
<1>1. S \in Code /\ C \in LowCode
  BY PendingIs
<1>2. ASSUME NEW X \in Code \ {<<>>}, NEW T \in Code, NEW p \in PlacesIn(loop),
             S = X \o T, Pends(P, loop, X, p, T, C)
      PROVE  /\ S # <<>> /\ Head(X) = Head(S) /\ Tail(S) = Tail(X) \o T
             /\ IsStatement(Head(S), Code) /\ Tail(X) \in Code
  <2>1. S # <<>> /\ Head(X) = Head(S) /\ Tail(S) = Tail(X) \o T
    <3>1. X \o T # <<>> /\ Head(X \o T) = Head(X) /\ Tail(X \o T) = Tail(X) \o T
      BY <1>2, JoinHeadTail DEF Code
    <3>. QED
      BY <1>2, <3>1
  <2>2. IsStatement(Head(X), Code) /\ Tail(X) \in Code
    BY <1>2, PartsOfCode
  <2>. QED
    BY <2>1, <2>2
<1>3. CASE S \in Seq(Effects) /\ C = S
  BY <1>1, <1>3
<1>4. CASE \E X \in Code \ {<<>>} : \E T \in Code : \E p \in PlacesIn(loop) :
             S = X \o T /\ Pends(P, loop, X, p, T, C)
  <2>1. PICK X \in Code \ {<<>>} : \E T \in Code : \E p \in PlacesIn(loop) :
             S = X \o T /\ Pends(P, loop, X, p, T, C)
    BY <1>4
  <2>2. PICK T \in Code, p \in PlacesIn(loop) : S = X \o T /\ Pends(P, loop, X, p, T, C)
    BY <2>1
  <2>3. /\ S # <<>> /\ Head(X) = Head(S) /\ Tail(S) = Tail(X) \o T
        /\ IsStatement(Head(S), Code) /\ Tail(X) \in Code
    BY <1>2, <2>2
  <2>. QED
    BY <1>1, <2>2, <2>3 DEF P
<1>. QED
  BY <1>3, <1>4, PendingIs DEF P

\* At the end of the source, the code ends.
LEMMA EndPends ==
  ASSUME MaxNesting \in Nat, NEW loop \in SrcLoops, NEW C, In(Pending(loop), <<>>, C)
  PROVE  C = <<>>
BY PendingHead

\* At a block: the code is that of what is in the block, and then of the rest.
LEMMA AtBlock ==
  ASSUME MaxNesting \in Nat, NEW loop \in SrcLoops, NEW S, NEW C, In(Pending(loop), S, C),
         S # <<>>, Head(S).kind = "block"
  PROVE  In(Pending(loop), Head(S).body \o Tail(S), C)
<1>. DEFINE P == Pending(loop)
<1>. HIDE DEF P
<1>1. S \notin Seq(Effects)
  <2>1. S \in Seq(Effects) => Head(S) \in Effects
    OBVIOUS
  <2>. QED
    BY <2>1 DEF Effects
<1>2. PICK X \in Code \ {<<>>}, T \in Code, p \in PlacesIn(loop) :
        /\ Head(X) = Head(S) /\ Tail(S) = Tail(X) \o T /\ Tail(X) \in Code
        /\ Pends(P, loop, X, p, T, C)
  BY <1>1, PendingHead DEF P
<1>3. Head(X).body \in Code /\ Pends(P, loop, Head(X).body, p, Tail(X) \o T, C)
  BY <1>2, BlockPends DEF P
<1>4. Tail(X) \o T \in Code /\ C \in LowCode
  BY <1>2, CodeJoins, PendingHead
<1>5. PICK U \in Code : U = Tail(X) \o T
  BY <1>4
<1>. QED
  BY <1>2, <1>3, <1>4, <1>5, PendingHas DEF P

\* The first instruction of code is an instruction.
LEMMA FirstIsItem ==
  ASSUME NEW i, NEW c \in LowCode, <<i>> \o c \in LowCode
  PROVE  i \in Items
<1>. DEFINE s == <<i>> \o c
<1>1. Len(s) = Len(c) + 1 /\ s[1] = i /\ Len(c) \in Nat
  BY DEF LowCode
<1>2. s \in Seq(Items)
  BY DEF LowCode
<1>. HIDE DEF s
<1>3. 1 \in DOMAIN s
  BY <1>1, <1>2
<1>. QED
  BY <1>1, <1>2, <1>3

\* When the first statement is built to one operation, and that is lowered to
\* one instruction, before what its tail is lowered to.
LEMMA AtFirst ==
  ASSUME MaxNesting \in Nat, NEW loop \in SrcLoops, NEW p \in PlacesIn(loop),
         NEW X \in Code, X # <<>>, NEW y, y.kind # "return",
         Built(X) = <<y>> \o Built(Tail(X)),
         NEW i, NEW k \in BOOLEAN,
         lowerOperation(y, p, Low(Built(Tail(X)), p), lowerRegion)
           = After(<<i>>, k, Low(Built(Tail(X)), p)),
         NEW T \in Code, NEW C, Pends(Pending(loop), loop, X, p, T, C)
  PROVE  /\ k /\ controlIsLast[Built(X)] /\ i \in Items
         /\ C \in LowCode /\ C # <<>> /\ Head(C) = i /\ Tail(C) \in LowCode
         /\ In(Pending(loop), Tail(X) \o T, Tail(C))
<1>. DEFINE D == Built(Tail(X))
            P == Pending(loop)
<1>. HIDE DEF P
<1>1. Tail(X) \in Code /\ D \in Code /\ Built(X) \in Code /\ p \in Places
  BY PartsOfCode, BuiltIsCode, PlacesInAre
<1>2. Low(Built(X), p) = After(<<i>>, k, Low(D, p))
  <2>1. <<y>> \o D \in Code
    BY <1>1
  <2>2. Low(<<y>> \o D, p) = lowerOperation(y, p, Low(D, p), lowerRegion)
    <3>. HIDE DEF D
    <3>. QED
      BY <1>1, <2>1, LowCons
  <2>. QED
    BY <2>2
<1>3. i \in Items
  <2>1. Low(Built(X), p).code \in LowCode /\ Low(D, p).code \in LowCode
    BY <1>1, RegionIs
  <2>2. Low(Built(X), p).code = <<i>> \o Low(D, p).code
    BY <1>2 DEF After, Region
  <2>. QED
    BY <2>1, <2>2, FirstIsItem
<1>4. /\ k /\ controlIsLast[Built(X)]
      /\ \E rest \in LowCode : C = <<i>> \o rest /\ In(P, Tail(X) \o T, rest)
  BY <1>2, <1>3, PendsTail DEF P
<1>5. PICK rest \in LowCode : C = <<i>> \o rest /\ In(P, Tail(X) \o T, rest)
  BY <1>4
<1>6. C \in LowCode /\ C # <<>> /\ Head(C) = i /\ Tail(C) = rest
  BY <1>3, <1>5, OneInFront DEF LowCode
<1>. QED
  BY <1>3, <1>4, <1>5, <1>6 DEF P

\* At an effect: the code is at it too.
LEMMA AtEffect ==
  ASSUME MaxNesting \in Nat, NEW loop \in SrcLoops, NEW S, NEW C, In(Pending(loop), S, C),
         S # <<>>, Head(S).kind = "effect"
  PROVE  /\ C # <<>> /\ Head(C) = Head(S) /\ Tail(C) \in LowCode
         /\ In(Pending(loop), Tail(S), Tail(C))
<1>. DEFINE P == Pending(loop)
<1>. HIDE DEF P
<1>1. CASE S \in Seq(Effects) /\ C = S
  <2>1. Tail(S) \in Seq(Effects)
    BY <1>1
  <2>. QED
    BY <1>1, <2>1, PendingHas, EffectsAreCode
<1>2. CASE ~(S \in Seq(Effects) /\ C = S)
  <2>1. PICK X \in Code \ {<<>>}, T \in Code, p \in PlacesIn(loop) :
          /\ Head(X) = Head(S) /\ Tail(S) = Tail(X) \o T /\ Tail(X) \in Code
          /\ Pends(P, loop, X, p, T, C)
    BY <1>2, PendingHead DEF P
  <2>. DEFINE y == Head(S)
  <2>2. Built(X) = <<y>> \o Built(Tail(X))
    BY <2>1, BuiltCons
  <2>3. PICK k \in BOOLEAN : k = TRUE
    OBVIOUS
  <2>4. lowerOperation(y, p, Low(Built(Tail(X)), p), lowerRegion)
          = After(<<y>>, k, Low(Built(Tail(X)), p))
    BY <2>3 DEF lowerOperation
  <2>. HIDE DEF y
  <2>5. /\ C # <<>> /\ Head(C) = y /\ Tail(C) \in LowCode
        /\ In(P, Tail(X) \o T, Tail(C))
    <3>1. y.kind # "return"
      BY DEF y
    <3>. QED
      BY <2>1, <2>2, <2>4, <3>1, AtFirst DEF P
  <2>. QED
    BY <2>1, <2>5 DEF P, y
<1>. QED
  BY <1>1, <1>2

\* A loop whose iterations are executed faithfully.
GoodLoop(loop) ==
  /\ loop \in LoopsOf(Code)
  /\ BodyRegion(loop).ok /\ controlIsLast[Built(loop.body)]
  /\ "break" \in controls[Built(loop.body)] => ~loop.conditionCalls
  /\ HasIf(Built(loop.body), {"break"}) => loop.step = <<>>

\* At a loop.
LEMMA AtLoop ==
  ASSUME MaxNesting \in Nat, NEW loop \in SrcLoops, NEW S, NEW C, In(Pending(loop), S, C),
         S # <<>>, Head(S).kind = "loop"
  PROVE  /\ C # <<>> /\ Head(C) = LowLoop(Head(S)) /\ Tail(C) \in LowCode
         /\ Head(C) \in Items
         /\ In(Pending(loop), Tail(S), Tail(C)) /\ GoodLoop(Head(S))
<1>. DEFINE P == Pending(loop)
            op == Head(S)
            y == IRLoop(op)
<1>. HIDE DEF P
<1>1. S \notin Seq(Effects)
  <2>1. S \in Seq(Effects) => Head(S) \in Effects
    OBVIOUS
  <2>. QED
    BY <2>1 DEF Effects
<1>2. PICK X \in Code \ {<<>>}, T \in Code, p \in PlacesIn(loop) :
        /\ Head(X) = op /\ Tail(S) = Tail(X) \o T /\ Tail(X) \in Code
        /\ IsStatement(op, Code) /\ Pends(P, loop, X, p, T, C)
  BY <1>1, PendingHead DEF P
<1>3. /\ op \in LoopsOf(Code) /\ op.body \in Code /\ Built(op.body) \in Code
      /\ op.conditionCalls \in BOOLEAN /\ op.step \in Seq(Effects)
  BY <1>2, LoopsAre, BuiltIsCode DEF IsStatement
<1>4. /\ y.kind = "loop" /\ y.body = Built(op.body) /\ y.step = op.step
      /\ y.conditionCalls = op.conditionCalls
  BY DEF IRLoop, Loop
<1>5. Built(X) = <<y>> \o Built(Tail(X))
  BY <1>2, BuiltCons
<1>. DEFINE k == BodyRegion(op).ok
<1>6. lowerOperation(y, p, Low(Built(Tail(X)), p), lowerRegion)
        = After(<<LowLoop(op)>>, k, Low(Built(Tail(X)), p))
  BY <1>4 DEF lowerOperation, LowLoop, BodyRegion, Low
<1>7. k \in BOOLEAN
  <2>1. y \in LoopsOf(Code)
    BY <1>3 DEF IRLoop, Loop, LoopsOf
  <2>2. Body(y) \in Places
    BY <2>1, PlacesAre
  <2>. QED
    BY <1>3, <2>2, RegionIs DEF BodyRegion
<1>. HIDE DEF op, y, k
<1>8. /\ k /\ controlIsLast[Built(X)] /\ LowLoop(op) \in Items
      /\ C # <<>> /\ Head(C) = LowLoop(op) /\ Tail(C) \in LowCode
      /\ In(P, Tail(X) \o T, Tail(C))
  BY <1>2, <1>4, <1>5, <1>6, <1>7, AtFirst DEF P
<1>9. OwnIsLast(y)
  <2>. DEFINE D == Built(Tail(X))
  <2>1. D \in Code /\ <<y>> \o D \in Code
    BY <1>2, <1>5, BuiltIsCode
  <2>. HIDE DEF D
  <2>2. controlIsLast[<<y>> \o D] => OwnIsLast(y)
    BY <2>1, PredicatesCons
  <2>. QED
    BY <1>5, <1>8, <2>2 DEF D
<1>10. GoodLoop(op)
  BY <1>3, <1>4, <1>8, <1>9 DEF GoodLoop, OwnIsLast, k
<1>. QED
  BY <1>2, <1>8, <1>10 DEF P, op

\* A list of one operation, lowered.
LEMMA LowOne ==
  ASSUME MaxNesting \in Nat, NEW y, <<y>> \in Code, NEW p \in Places
  PROVE  /\ Low(<<y>>, p) = lowerOperation(y, p, Low(<<>>, p), lowerRegion)
         /\ controls[<<y>>] = OwnControls(y)
<1>1. <<y>> \o <<>> = <<y>> /\ <<>> \in Code
  BY CodeJoins, EffectsAreCode
<1>. PICK e \in Code : e = <<>>
  BY <1>1
<1>2. <<y>> \o e \in Code /\ <<y>> \o e = <<y>>
  BY <1>1
<1>3. Low(<<y>> \o e, p) = lowerOperation(y, p, Low(e, p), lowerRegion)
  BY <1>2, LowCons
<1>4. controls[<<y>> \o e] = controls[e] \cup OwnControls(y)
  BY <1>2, PredicatesCons
<1>. QED
  BY <1>2, <1>3, <1>4, PredicatesEmpty

\* At a break or a continue.
LEMMA AtControl ==
  ASSUME MaxNesting \in Nat, NEW loop \in SrcLoops, NEW S, NEW C, In(Pending(loop), S, C),
         S # <<>>, Head(S).kind \in LoopControl
  PROVE  /\ loop # NoLoop
         /\ \E p \in PlacesIn(loop) :
              /\ p.region \in {"body", "arm"}
              /\ C = closeBody(loop, IF Head(S).kind = "break" THEN lowerBreak(p) ELSE lowerContinue(p))
              /\ Head(S).kind = "break" =>
                   ~loop.conditionCalls /\ (p.region = "arm" => loop.step = <<>>)
<1>. DEFINE P == Pending(loop)
            y == Head(S)
<1>. HIDE DEF P
<1>1. S \notin Seq(Effects)
  <2>1. S \in Seq(Effects) => Head(S) \in Effects
    OBVIOUS
  <2>. QED
    BY <2>1 DEF Effects, LoopControl
<1>2. PICK X \in Code \ {<<>>}, T \in Code, p \in PlacesIn(loop) :
        Head(X) = y /\ Pends(P, loop, X, p, T, C)
  BY <1>1, PendingHead DEF P
<1>3. Built(X) = <<y>> /\ <<y>> \in Code /\ p \in Places
  <2>1. Built(X) = <<y>>
    BY <1>2, BuiltCons DEF LoopControl
  <2>. QED
    BY <1>2, <2>1, BuiltIsCode, PlacesInAre
<1>. DEFINE x == Low(Built(X), p)
<1>4. x.ok
  BY <1>2 DEF Pends, FlowsOn, EndsWith, Holds
<1>. DEFINE region == IF y.kind = "break" THEN lowerBreak(p) ELSE lowerContinue(p)
<1>5. p.loop # NoLoop /\ x = region
  <2>1. x = lowerOperation(y, p, Low(<<>>, p), lowerRegion)
    BY <1>3, LowOne
  <2>2. lowerOperation(y, p, Low(<<>>, p), lowerRegion) = IF p.loop # NoLoop THEN region ELSE Rejected
    BY DEF lowerOperation, LoopControl
  <2>3. ~Rejected.ok
    BY DEF Rejected, Region
  <2>. QED
    BY <1>4, <2>1, <2>2, <2>3
<1>6. loop # NoLoop /\ p # Function /\ p.region \in {"body", "arm"}
  BY <1>5, PlacesInAre
<1>7. region.end = ControlEnd(p) /\ region.yields
  BY DEF lowerBreak, lowerContinue, Region
<1>8. ControlEnd(p) # Complete /\ ControlEnd(p) # Returned
  BY DEF ControlEnd, Complete, Returned, IterationClosed, NestedLoopControl
<1>9. EndsWith(X, p, loop, C)
  BY <1>2, <1>5, <1>7, <1>8 DEF Pends, FlowsOn, Holds
<1>10. C = closeBody(loop, region) /\ BreaksFit(Built(X), p, loop)
  BY <1>5, <1>6, <1>9 DEF EndsWith
<1>11. y.kind = "break" => "break" \in controls[Built(X)]
  BY <1>3, LowOne DEF OwnControls, LoopControl
<1>. QED
  BY <1>6, <1>10, <1>11 DEF BreaksFit

\* At a break: the code sets the exit flag of the loop, and that is all.
LEMMA AtBreak ==
  ASSUME MaxNesting \in Nat, NEW loop \in SrcLoops, NEW S, NEW C, In(Pending(loop), S, C),
         S # <<>>, Head(S).kind = "break"
  PROVE  loop # NoLoop /\ ~loop.conditionCalls /\ C = <<SetExit(loop)>>
<1>1. PICK p \in PlacesIn(loop) :
        /\ loop # NoLoop /\ p.region \in {"body", "arm"} /\ C = closeBody(loop, lowerBreak(p))
        /\ ~loop.conditionCalls /\ (p.region = "arm" => loop.step = <<>>)
  BY AtControl DEF LoopControl
<1>2. SetExit(p.loop) = SetExit(loop)
  BY <1>1, PlacesInAre DEF SetExit
<1>3. lowerBreak(p).code = <<SetExit(loop)>> /\ lowerBreak(p).end = ControlEnd(p)
  BY <1>2 DEF lowerBreak, Region
<1>4. ControlEnd(p) # IterationClosed => loop.step = <<>>
  BY <1>1, PlacesInAre
<1>5. <<SetExit(loop)>> \o <<>> = <<SetExit(loop)>>
  OBVIOUS
<1>6. closeBody(loop, lowerBreak(p)) = <<SetExit(loop)>> \o <<>>
  BY <1>3, <1>4 DEF closeBody
<1>. QED
  BY <1>1, <1>5, <1>6

\* At a continue: the step is all that is left of the iteration.
LEMMA AtContinue ==
  ASSUME MaxNesting \in Nat, NEW loop \in SrcLoops, NEW S, NEW C, In(Pending(loop), S, C),
         S # <<>>, Head(S).kind = "continue"
  PROVE  loop # NoLoop /\ C = loop.step
<1>1. PICK p \in PlacesIn(loop) :
        loop # NoLoop /\ p.region \in {"body", "arm"} /\ C = closeBody(loop, lowerContinue(p))
  BY AtControl DEF LoopControl
<1>2. loop.step \in LowCode /\ p.loop.step = loop.step
  BY <1>1, PlacesInAre, EffectsAreCode DEF LoopsOf
<1>3. /\ lowerContinue(p).code = IF p.region = "body" THEN loop.step ELSE <<>>
      /\ lowerContinue(p).end = ControlEnd(p)
  BY <1>2 DEF lowerContinue, Region
<1>4. loop.step \o <<>> = loop.step /\ <<>> \o loop.step = loop.step
  BY <1>2, LowCodeJoins
<1>5. CASE p.region = "body"
  <2>1. closeBody(loop, lowerContinue(p)) = loop.step \o <<>>
    BY <1>3, <1>5, PlacesInAre DEF closeBody
  <2>. QED
    BY <1>1, <1>4, <2>1
<1>6. CASE p.region = "arm"
  <2>1. ControlEnd(p) # IterationClosed
    BY <1>6 DEF ControlEnd, NestedLoopControl, IterationClosed
  <2>2. closeBody(loop, lowerContinue(p)) = <<>> \o loop.step
    BY <1>3, <1>6, <2>1 DEF closeBody
  <2>. QED
    BY <1>1, <1>4, <2>2
<1>. QED
  BY <1>1, <1>5, <1>6

\* At a return: so is the code.
LEMMA AtReturn ==
  ASSUME MaxNesting \in Nat, NEW loop \in SrcLoops, NEW S, NEW C, In(Pending(loop), S, C),
         S # <<>>, Head(S).kind = "return"
  PROVE  C # <<>> /\ Head(C) = Return
<1>. DEFINE P == Pending(loop)
            y == Head(S)
<1>. HIDE DEF P
<1>1. S \notin Seq(Effects)
  <2>1. S \in Seq(Effects) => Head(S) \in Effects
    OBVIOUS
  <2>. QED
    BY <2>1 DEF Effects
<1>2. PICK X \in Code \ {<<>>}, T \in Code, p \in PlacesIn(loop) :
        Head(X) = y /\ Pends(P, loop, X, p, T, C)
  BY <1>1, PendingHead DEF P
<1>3. Built(X) = <<y>> /\ <<y>> \in Code /\ p \in Places
  <2>1. Built(X) = <<y>>
    BY <1>2, BuiltCons
  <2>. QED
    BY <1>2, <2>1, BuiltIsCode, PlacesInAre
<1>. DEFINE x == Low(Built(X), p)
<1>4. x.ok
  BY <1>2 DEF Pends, FlowsOn, EndsWith, Holds
<1>5. p = Function /\ x = Region(<<>>, Complete, FALSE, TRUE)
  <2>1. x = lowerOperation(y, p, Low(<<>>, p), lowerRegion)
    BY <1>3, LowOne
  <2>2. lowerOperation(y, p, Low(<<>>, p), lowerRegion)
          = IF p = Function THEN Region(<<>>, Complete, FALSE, TRUE) ELSE Rejected
    BY DEF lowerOperation
  <2>3. ~Rejected.ok
    BY DEF Rejected, Region
  <2>. QED
    BY <1>4, <2>1, <2>2, <2>3
<1>6. x.code = <<>> /\ x.end = Complete /\ Complete # Returned
  BY <1>5 DEF Region, Complete, Returned
<1>7. Returns(Built(X))
  BY <1>3, OneReturns
<1>8. C = <<>> \o <<Return>>
  BY <1>2, <1>5, <1>6, <1>7 DEF Pends, FlowsOn, EndsWith, Holds
<1>9. <<>> \o <<Return>> = <<Return>>
  OBVIOUS
<1>. QED
  BY <1>8, <1>9, OneReturns

\* What an arm is lowered to, and then the rest of the code, goes with the arm
\* and then the rest of the source.
LEMMA ArmPends ==
  ASSUME MaxNesting \in Nat, NEW loop \in SrcLoops, NEW q \in PlacesIn(loop),
         NEW Z \in Code, NEW U \in Code, NEW rest \in LowCode,
         \/ FlowsOn(Z, q) /\ In(Pending(loop), U, rest)
         \/ EndsWith(Z, q, loop, Low(Built(Z), q).code \o rest)
  PROVE  In(Pending(loop), Z \o U, Low(Built(Z), q).code \o rest)
<1>1. q \in Places
  BY PlacesInAre
<1>2. Low(Built(Z), q).code \in LowCode
  BY <1>1, RegionIs
<1>3. Low(Built(Z), q).code \o rest \in LowCode
  BY <1>2, LowCodeJoins
<1>4. Pends(Pending(loop), loop, Z, q, U, Low(Built(Z), q).code \o rest)
  BY DEF Pends
<1>. QED
  BY <1>3, <1>4, PendingHas

\* At an if, each of whose arms lowers to what goes on or returns.
LEMMA AtIf ==
  ASSUME MaxNesting \in Nat, NEW loop \in SrcLoops, NEW S, NEW C, In(Pending(loop), S, C),
         S # <<>>, Head(S).kind = "if"
  PROVE  /\ C # <<>> /\ Head(C).kind = "if" /\ Head(C).id = Head(S).id /\ Tail(C) \in LowCode
         /\ In(Pending(loop), Head(S).then \o Tail(S), Head(C).then \o Tail(C))
         /\ In(Pending(loop), Head(S).else \o Tail(S), Head(C).else \o Tail(C))
<1>. DEFINE P == Pending(loop)
            op == Head(S)
            y == If(op.id, Built(op.then), Built(op.else), op.hasElse)
<1>. HIDE DEF P
<1>1. S \notin Seq(Effects)
  <2>1. S \in Seq(Effects) => Head(S) \in Effects
    OBVIOUS
  <2>. QED
    BY <2>1 DEF Effects
<1>2. PICK X \in Code \ {<<>>}, T \in Code, p \in PlacesIn(loop) :
        /\ Head(X) = op /\ Tail(S) = Tail(X) \o T /\ Tail(X) \in Code
        /\ IsStatement(op, Code) /\ Pends(P, loop, X, p, T, C)
  BY <1>1, PendingHead DEF P
<1>. DEFINE D == Built(Tail(X))
            x == Low(Built(X), p)
            q == Arm(p.loop)
            t == Low(Built(op.then), q)
            e == Low(Built(op.else), q)
            joined == joinArms(y, t, e)
            i == If(op.id, t.code, e.code, op.hasElse)
<1>3. /\ op.then \in Code /\ op.else \in Code /\ op.hasElse \in BOOLEAN
      /\ D \in Code /\ Built(X) \in Code /\ p \in Places
      /\ Built(op.then) \in Code /\ Built(op.else) \in Code
      /\ q \in PlacesIn(loop) /\ q \in Places /\ q # Function /\ q.loop = p.loop
      /\ C \in LowCode
  <2>1. op.then \in Code /\ op.else \in Code /\ op.hasElse \in BOOLEAN
    BY <1>2 DEF IsStatement
  <2>2. p \in Places /\ q \in PlacesIn(loop) /\ q # Function /\ q.loop = p.loop
    BY <1>2, PlacesInAre
  <2>3. q \in Places
    BY <2>2, PlacesInAre
  <2>. QED
    BY <1>2, <2>1, <2>2, <2>3, BuiltIsCode, PendingHead DEF P
<1>4. /\ y.kind = "if" /\ y.id = op.id /\ y.then = Built(op.then) /\ y.else = Built(op.else)
      /\ y.hasElse = op.hasElse
      /\ i.kind = "if" /\ i.id = op.id /\ i.then = t.code /\ i.else = e.code
  BY DEF If
<1>5. Built(X) = <<y>> \o D
  BY <1>2, BuiltCons
<1>6. t \in Regions(Items) /\ e \in Regions(Items) /\ t.code \in LowCode /\ e.code \in LowCode
  BY <1>3, RegionIs
<1>7. /\ x.ok /\ controlIsLast[Built(X)]
      /\ x = lowerOperation(y, p, Low(D, p), lowerRegion)
  <2>1. x.ok /\ controlIsLast[Built(X)]
    BY <1>2 DEF Pends, FlowsOn, EndsWith, Holds
  <2>2. <<y>> \o D \in Code
    BY <1>3, <1>5
  <2>. HIDE DEF D, y
  <2>3. Low(<<y>> \o D, p) = lowerOperation(y, p, Low(D, p), lowerRegion)
    BY <1>3, <2>2, LowCons
  <2>. QED
    BY <1>5, <2>1, <2>3
<1>8. /\ controlIsLast[Built(op.then)] /\ controlIsLast[Built(op.else)]
      /\ ControllingIf(y, LoopControl) => D = <<>>
      /\ controls[Built(X)] = controls[D] \cup OwnControls(y)
      /\ \A kinds : ControllingIf(y, kinds) => HasIf(Built(X), kinds)
  <2>. HIDE DEF D
  <2>1. <<y>> \o D \in Code
    BY <1>3, <1>5
  <2>. HIDE DEF y
  <2>2. /\ controls[<<y>> \o D] = controls[D] \cup OwnControls(y)
        /\ controlIsLast[<<y>> \o D] =>
             (ControllingIf(y, LoopControl) => D = <<>>) /\ OwnIsLast(y)
        /\ \A kinds : ControllingIf(y, kinds) => HasIf(<<y>> \o D, kinds)
    BY <1>3, <2>1, PredicatesCons
  <2>. QED
    BY <1>4, <1>5, <1>7, <2>2 DEF OwnIsLast
<1>9. OwnControls(y) = controls[Built(op.then)] \cup controls[Built(op.else)]
  BY <1>4 DEF OwnControls, LoopControl
<1>10. /\ joined.code = <<i>> /\ joined.ok \in BOOLEAN /\ joined.yields = FALSE
       /\ joined.end = IF t.end # Complete THEN t.end ELSE e.end
       /\ joined.ok => /\ t.ok /\ (t.end = Complete \/ t.yields)
                       /\ e.ok /\ (e.end = Complete \/ e.yields)
  BY <1>4 DEF joinArms, Region
<1>11. EndFits(Built(op.then), q) /\ EndFits(Built(op.else), q)
  BY <1>3, EndsAre
<1>12. ifIsFallthroughShape(y) =>
         x = IF joined.end # Complete THEN joined ELSE After(joined.code, joined.ok, Low(D, p))
  BY <1>4, <1>7 DEF lowerOperation, Low
<1>. HIDE DEF op, D, y, x, t, e, i, q, joined
<1>13. CASE ifIsFallthroughShape(y) /\ joined.end = Complete
  <2>. DEFINE k == joined.ok
  <2>1. lowerOperation(y, p, Low(D, p), lowerRegion) = After(<<i>>, k, Low(D, p))
    BY <1>7, <1>10, <1>12, <1>13
  <2>2. k \in BOOLEAN /\ y.kind # "return"
    BY <1>4, <1>10
  <2>. HIDE DEF k
  <2>3. /\ k /\ C # <<>> /\ Head(C) = i /\ Tail(C) \in LowCode
        /\ In(P, Tail(X) \o T, Tail(C))
    BY <1>2, <1>5, <2>1, <2>2, AtFirst DEF P, D
  <2>4. FlowsOn(op.then, q) /\ FlowsOn(op.else, q)
    BY <1>3, <1>8, <1>10, <1>13, <2>3 DEF FlowsOn, k, t, e
  <2>5. PICK U \in Code : U = Tail(X) \o T
    BY <1>2, CodeJoins
  <2>6. /\ In(P, op.then \o U, t.code \o Tail(C))
        /\ In(P, op.else \o U, e.code \o Tail(C))
    BY <1>3, <2>3, <2>4, <2>5, ArmPends DEF P, t, e
  <2>. QED
    BY <1>2, <1>4, <2>3, <2>5, <2>6 DEF P, op
<1>14. CASE ifIsFallthroughShape(y) /\ joined.end # Complete
  <2>1. x = joined
    BY <1>12, <1>14
  <2>2. /\ t.ok /\ (t.end = Complete \/ t.yields)
        /\ e.ok /\ (e.end = Complete \/ e.yields)
        /\ x.end # Complete /\ x.yields = FALSE
    BY <1>7, <1>10, <1>14, <2>1
  <2>3. /\ t.end # Complete => /\ p.loop # NoLoop /\ controls[Built(op.then)] # {}
                               /\ t.end = ControlEnd(q)
        /\ e.end # Complete => /\ p.loop # NoLoop /\ controls[Built(op.else)] # {}
                               /\ e.end = ControlEnd(q)
    BY <1>3, <1>11, <2>2 DEF EndFits, t, e
  <2>4. p.loop # NoLoop /\ controls[Built(op.then)] \cup controls[Built(op.else)] # {}
    BY <1>10, <1>14, <2>3
  <2>5. /\ loop # NoLoop /\ p # Function /\ p.region \in {"body", "arm"}
        /\ loop.step \in LowCode
    <3>1. loop # NoLoop /\ p # Function /\ p.region \in {"body", "arm"}
      BY <1>2, <2>4, PlacesInAre DEF Function
    <3>. QED
      BY <1>2, <3>1, PlacesInAre, EffectsAreCode DEF LoopsOf
  <2>6. /\ In(P, T, loop.step) /\ BreaksFit(Built(X), p, loop)
        /\ C = x.code \o loop.step
    BY <1>2, <2>2, <2>5 DEF Pends, FlowsOn, EndsWith, Holds, x
  <2>7. D = <<>>
    <3>1. /\ controls[Built(op.then)] \subseteq LoopControl
          /\ controls[Built(op.else)] \subseteq LoopControl
      BY <1>3, ControlsUnfolded
    <3>2. ControllingIf(y, LoopControl)
      BY <1>4, <2>4, <3>1 DEF ControllingIf
    <3>. QED
      BY <1>8, <3>2
  <2>8. PICK U \in Code : U = Tail(X) \o T
    BY <1>2, CodeJoins
  <2>9. In(P, U, loop.step)
    BY <1>2, <2>6, <2>7, <2>8, NothingPends DEF P, D
  <2>10. C # <<>> /\ Head(C) = i /\ Tail(C) = loop.step
    <3>1. C = <<i>> \o loop.step
      BY <1>10, <2>1, <2>6
    <3>2. i \in Items
      BY <1>3, <2>5, <3>1, FirstIsItem
    <3>. QED
      BY <2>5, <3>1, <3>2, OneInFront DEF LowCode
  <2>11. q.region = "arm" /\ ControlEnd(q) = NestedLoopControl
    BY DEF q, Arm, ControlEnd
  <2>12. ASSUME NEW z \in {op.then, op.else}, NEW r, r = Low(Built(z), q),
                r.ok, r.end = Complete \/ r.yields, controlIsLast[Built(z)],
                r.end # Complete => r.end = ControlEnd(q)
         PROVE  In(P, z \o U, r.code \o loop.step)
    <3>0. z \in Code
      BY <1>3
    <3>1. CASE r.end = Complete
      <4>1. FlowsOn(z, q)
        BY <1>3, <2>12, <3>1 DEF FlowsOn
      <4>. QED
        BY <1>3, <2>5, <2>9, <2>12, <3>0, <4>1, ArmPends DEF P
    <3>2. CASE r.end # Complete
      <4>1. "break" \in controls[Built(z)] => ~loop.conditionCalls /\ loop.step = <<>>
        <5>1. SUFFICES ASSUME "break" \in controls[Built(z)]
                       PROVE  ~loop.conditionCalls /\ loop.step = <<>>
          OBVIOUS
        <5>2. "break" \in controls[Built(X)]
          BY <1>8, <1>9, <5>1
        <5>3. ControllingIf(y, {"break"})
          BY <1>4, <5>1 DEF ControllingIf
        <5>4. HasIf(Built(X), {"break"})
          BY <1>8, <5>3
        <5>. QED
          BY <2>5, <2>6, <5>2, <5>4 DEF BreaksFit
      <4>2. BreaksFit(Built(z), q, loop)
        BY <2>11, <4>1 DEF BreaksFit
      <4>3. closeBody(loop, r) = r.code \o loop.step
        BY <2>11, <2>12, <3>2 DEF closeBody, NestedLoopControl, IterationClosed
      <4>4. EndsWith(z, q, loop, r.code \o loop.step)
        BY <1>3, <2>5, <2>12, <3>2, <4>2, <4>3 DEF EndsWith
      <4>. QED
        BY <1>3, <2>5, <2>8, <2>12, <3>0, <4>4, ArmPends DEF P
    <3>. QED
      BY <3>1, <3>2
  <2>13. In(P, op.then \o U, t.code \o loop.step)
    BY <1>8, <2>2, <2>3, <2>12 DEF t
  <2>14. In(P, op.else \o U, e.code \o loop.step)
    BY <1>8, <2>2, <2>3, <2>12 DEF e
  <2>. QED
    BY <1>2, <1>4, <2>5, <2>8, <2>10, <2>13, <2>14 DEF P, op
<1>15. CASE ~ifIsFallthroughShape(y)
  <2>. DEFINE f == Low(Built(op.then), Function)
              g == Low(Built(op.else), Function)
  <2>1. op.hasElse /\ p = Function /\ x = ReturningIf(y, f, g)
    <3>1. x = IF y.hasElse /\ p = Function THEN ReturningIf(y, f, g) ELSE Rejected
      BY <1>4, <1>7, <1>15 DEF lowerOperation, Low
    <3>2. ~Rejected.ok
      BY DEF Rejected, Region
    <3>. QED
      BY <1>4, <1>7, <3>1, <3>2
  <2>2. p \in PlacesIn(loop) /\ Function \in PlacesIn(loop)
    BY <1>2, <2>1
  <2>. DEFINE j == If(op.id, f.code, g.code, TRUE)
  <2>3. /\ x.code = <<j, Return>> /\ x.end = Returned
        /\ f.ok /\ f.end = Complete /\ Returns(Built(op.then))
        /\ g.ok /\ g.end = Complete /\ Returns(Built(op.else))
    <3>. HIDE DEF f, g
    <3>1. PICK m : m = If(y.id, f.code, g.code, TRUE)
      OBVIOUS
    <3>2. x.code = <<m, Return>> /\ x.end = Returned
      BY <2>1, <3>1 DEF ReturningIf, Region
    <3>3. x.ok => /\ f.ok /\ f.end = Complete /\ Returns(y.then)
                  /\ g.ok /\ g.end = Complete /\ Returns(y.else)
      BY <2>1 DEF ReturningIf, Region
    <3>. QED
      BY <1>4, <1>7, <3>1, <3>2, <3>3
  <2>4. C = <<j, Return>>
    BY <1>2, <2>1, <2>3 DEF Pends, FlowsOn, EndsWith, Holds, Complete, Returned, x
  <2>5. /\ C # <<>> /\ Head(C) = j /\ Tail(C) = <<Return>> /\ <<Return>> \in LowCode
        /\ j.kind = "if" /\ j.id = op.id /\ j.then = f.code /\ j.else = g.code
    BY <2>4, EffectsAreCode DEF If
  <2>6. /\ EndsWith(op.then, Function, loop, f.code \o <<Return>>)
        /\ EndsWith(op.else, Function, loop, g.code \o <<Return>>)
    BY <1>8, <2>3 DEF EndsWith
  <2>7. PICK U \in Code : U = Tail(X) \o T
    BY <1>2, CodeJoins
  <2>8. PICK rest \in LowCode : rest = <<Return>>
    BY <2>5
  <2>9. /\ In(P, op.then \o U, f.code \o rest)
        /\ In(P, op.else \o U, g.code \o rest)
    BY <1>3, <2>2, <2>6, <2>7, <2>8, ArmPends DEF P
  <2>. HIDE DEF j, f, g
  <2>. QED
    BY <1>2, <2>5, <2>7, <2>8, <2>9 DEF P, op
<1>. QED
  BY <1>13, <1>14, <1>15

\* A list of effects starts with one.
LEMMA HeadIsEffect == \A s \in Seq(Effects) : s # <<>> => Head(s).kind = "effect"
<1>1. \A s \in Seq(Effects) : s # <<>> => Head(s) \in Effects
  OBVIOUS
<1>. QED
  BY <1>1 DEF Effects

\* Code that starts with the exit flag is lowered from a break, and is nothing
\* else.
LEMMA ExitIsAlone ==
  ASSUME MaxNesting \in Nat, NEW B \in Code, NEW p \in Places,
         Low(B, p).ok, Low(B, p).code # <<>>, Head(Low(B, p).code).kind = "setExit"
  PROVE  /\ p.loop # NoLoop /\ Low(B, p).code = <<SetExit(p.loop)>>
         /\ Low(B, p).end = ControlEnd(p) /\ Low(B, p).yields /\ "break" \in controls[B]
<1>. DEFINE x == Low(B, p)
<1>1. B # <<>>
  <2>1. B = <<>> => x.code = <<>>
    BY LowIsRegion DEF Region
  <2>. QED
    BY <2>1
<1>. DEFINE y == Head(B)
            A == Tail(B)
            rest == Low(A, p)
<1>2. /\ B = <<y>> \o A /\ A \in Code /\ IsStatement(y, Code)
      /\ rest \in Regions(Items) /\ rest.code \in LowCode /\ x.code \in LowCode
  <2>1. B = <<y>> \o A /\ A \in Code /\ IsStatement(y, Code)
    BY <1>1, PartsOfCode
  <2>2. rest \in Regions(Items) /\ x \in Regions(Items)
    BY <2>1, LowIsRegion
  <2>. QED
    BY <2>1, <2>2 DEF Regions, LowCode
<1>3. x = lowerOperation(y, p, rest, lowerRegion)
  <2>1. <<y>> \o A \in Code
    BY <1>2
  <2>. HIDE DEF y, A
  <2>2. Low(<<y>> \o A, p) = lowerOperation(y, p, Low(A, p), lowerRegion)
    BY <1>2, <2>1, LowCons
  <2>. QED
    BY <1>2, <2>2
<1>4. ASSUME NEW i, NEW k, x = After(<<i>>, k, rest), i.kind # "setExit"
      PROVE  FALSE
  <2>1. x.code = <<i>> \o rest.code
    BY <1>4 DEF After, Region
  <2>2. i \in Items
    BY <1>2, <2>1, FirstIsItem
  <2>3. Head(x.code) = i
    BY <1>2, <2>1, <2>2, OneInFront DEF LowCode
  <2>. QED
    BY <1>4, <2>3
<1>. DEFINE Op == lowerOperation(y, p, rest, lowerRegion)
<1>5. y.kind # "effect"
  <2>1. y.kind = "effect" => Op = After(<<y>>, TRUE, rest)
    BY DEF lowerOperation
  <2>. HIDE DEF x, y, rest
  <2>. QED
    BY <1>3, <1>4, <2>1
<1>6. y.kind # "loop"
  <2>. DEFINE body == lowerRegion[<<y.body, Body(y)>>]
              i == lowerWhile(y, body)
  <2>1. y.kind = "loop" => Op = After(<<i>>, body.ok, rest)
    BY DEF lowerOperation
  <2>2. i.kind = "loop"
    BY DEF lowerWhile, Loop
  <2>. HIDE DEF x, y, rest, i, body
  <2>. QED
    BY <1>3, <1>4, <2>1, <2>2
<1>7. y.kind # "if"
  <2>1. SUFFICES ASSUME y.kind = "if"
                 PROVE  FALSE
    OBVIOUS
  <2>2. CASE ifIsFallthroughShape(y)
    <3>. DEFINE t == Low(y.then, Arm(p.loop))
                e == Low(y.else, Arm(p.loop))
                joined == joinArms(y, t, e)
                i == If(y.id, t.code, e.code, y.hasElse)
    <3>1. Op = IF joined.end # Complete THEN joined ELSE After(joined.code, joined.ok, rest)
      BY <2>1, <2>2 DEF lowerOperation, Low
    <3>2. joined.code = <<i>> /\ i.kind = "if"
      BY DEF joinArms, Region, If
    <3>. HIDE DEF x, y, rest, joined, i
    <3>3. x = joined \/ x = After(<<i>>, joined.ok, rest)
      BY <1>3, <3>1, <3>2
    <3>4. x = joined => FALSE
      BY <3>2, OneReturns DEF x
    <3>. QED
      BY <1>4, <3>2, <3>3, <3>4
  <2>3. CASE ~ifIsFallthroughShape(y)
    <3>. DEFINE t == lowerRegion[<<y.then, Function>>]
                e == lowerRegion[<<y.else, Function>>]
                i == If(y.id, t.code, e.code, TRUE)
    <3>1. Op \in {ReturningIf(y, t, e), Rejected}
      BY <2>1, <2>3 DEF lowerOperation
    <3>2. ~Rejected.ok
      BY DEF Rejected, Region
    <3>3. x = ReturningIf(y, t, e)
      BY <1>3, <3>1, <3>2
    <3>. HIDE DEF t, e, x
    <3>4. i.kind = "if"
      BY DEF If
    <3>. HIDE DEF i
    <3>5. x.code = <<i, Return>>
      BY <3>3 DEF ReturningIf, Region, i
    <3>6. Head(x.code) = i
      BY <3>5
    <3>7. Head(x.code).kind = "setExit"
      BY DEF x
    <3>. QED
      BY <3>4, <3>6, <3>7
  <2>. QED
    BY <2>2, <2>3
<1>8. y.kind \notin {"return", "block"}
  <2>1. y.kind \in {"return", "block"} => Op \in {Region(<<>>, Complete, FALSE, TRUE), Rejected}
    BY DEF lowerOperation
  <2>2. ~Rejected.ok /\ Region(<<>>, Complete, FALSE, TRUE).code = <<>>
    BY DEF Rejected, Region
  <2>. QED
    BY <1>3, <2>1, <2>2
<1>9. CASE y.kind \in LoopControl
  <2>1. p.loop # NoLoop /\ x \in {lowerBreak(p), lowerContinue(p)}
        /\ (y.kind = "continue" => x = lowerContinue(p))
    <3>1. Op = IF p.loop # NoLoop THEN IF y.kind = "break" THEN lowerBreak(p) ELSE lowerContinue(p)
               ELSE Rejected
      BY <1>9 DEF lowerOperation, LoopControl
    <3>2. ~Rejected.ok
      BY DEF Rejected, Region
    <3>. QED
      BY <1>3, <3>1, <3>2
  <2>2. x # lowerContinue(p)
    <3>1. p.loop.step \in Seq(Effects)
      BY <2>1 DEF Places, LoopsOf
    <3>2. lowerContinue(p).code \in Seq(Effects)
      <4>1. lowerContinue(p).code = IF p.region = "body" THEN p.loop.step ELSE <<>>
        BY DEF lowerContinue, Region
      <4>. QED
        BY <3>1, <4>1
    <3>3. \A s \in Seq(Effects) : s # <<>> => Head(s).kind = "effect"
      BY HeadIsEffect
    <3>. QED
      BY <3>2, <3>3
  <2>3. y.kind = "break"
    BY <1>9, <2>1, <2>2 DEF LoopControl
  <2>4. y.kind \in controls[B]
    <3>. HIDE DEF y, A
    <3>1. controls[<<y>> \o A] = controls[A] \cup OwnControls(y)
      BY <1>2, PredicatesCons
    <3>. QED
      BY <1>2, <1>9, <3>1 DEF OwnControls
  <2>5. x.code = <<SetExit(p.loop)>> /\ x.end = ControlEnd(p) /\ x.yields
    BY <2>1, <2>2 DEF lowerBreak, Region
  <2>. QED
    BY <2>1, <2>3, <2>4, <2>5
<1>. QED
  BY <1>2, <1>5, <1>6, <1>7, <1>8, <1>9 DEF IsStatement, LoopControl

\* Code that goes with a list of the source, and starts with an exit flag: it
\* sets that of the loop, and is nothing else.
ExitFits(loop, C) ==
  C # <<>> /\ Head(C).kind = "setExit" => loop # NoLoop /\ C = <<SetExit(loop)>>

\* Such code goes with no list but one at a break.
LEMMA AtSetExit ==
  ASSUME MaxNesting \in Nat, NEW loop \in SrcLoops, NEW S, NEW C, In(Pending(loop), S, C)
  PROVE  ExitFits(loop, C)
<1>. DEFINE P == Pending(loop)
            Q == {pair \in P : ExitFits(loop, pair[2])}
<1>. HIDE DEF P
<1>1. P \subseteq Pairs /\ IsClosed(P, loop)
  BY PendingIsClosed DEF P
<1>2. \A s, c : In(Q, s, c) <=> In(P, s, c) /\ ExitFits(loop, c)
  BY DEF In
<1>3. Q \in SUBSET Pairs /\ Q \subseteq P
  BY <1>1
<1>. HIDE DEF Q
<1>4. \A E \in Seq(Effects) : ExitFits(loop, E)
  BY HeadIsEffect DEF ExitFits
<1>5. \A E \in Seq(Effects) : In(Q, E, E)
  BY <1>1, <1>2, <1>4 DEF IsClosed
<1>6. ASSUME NEW X \in Code, NEW T \in Code, NEW p \in PlacesIn(loop), NEW code \in LowCode,
             Pends(Q, loop, X, p, T, code)
      PROVE  In(Q, X \o T, code)
  <2>1. In(P, X \o T, code)
    <3>1. Pends(P, loop, X, p, T, code)
      BY <1>3, <1>6, PendsGrows
    <3>. QED
      BY <1>1, <3>1 DEF IsClosed
  <2>. DEFINE x == Low(Built(X), p)
  <2>2. p \in Places /\ Built(X) \in Code /\ x.code \in LowCode
    BY PlacesInAre, RegionIs
  <2>3. x.ok
    BY <1>6 DEF Pends, FlowsOn, EndsWith, Holds
  <2>4. x.code # <<>> /\ Head(x.code).kind = "setExit" =>
          /\ p.loop # NoLoop /\ x.code = <<SetExit(p.loop)>>
          /\ x.end = ControlEnd(p) /\ x.yields /\ "break" \in controls[Built(X)]
    BY <2>2, <2>3, ExitIsAlone
  <2>5. ControlEnd(p) # Complete /\ ControlEnd(p) # Returned
    BY DEF ControlEnd, Complete, Returned, IterationClosed, NestedLoopControl
  <2>6. ASSUME NEW rest \in LowCode, code = x.code \o rest, code # <<>>, Head(code).kind = "setExit"
        PROVE  IF x.code = <<>> THEN code = rest ELSE Head(x.code).kind = "setExit"
    <3>1. CASE x.code = <<>>
      <4>1. <<>> \o rest = rest
        BY LowCodeJoins
      <4>. QED
        BY <2>6, <3>1, <4>1
    <3>2. CASE x.code # <<>>
      <4>1. Head(x.code \o rest) = Head(x.code)
        BY <2>2, <3>2, JoinHeadTail DEF LowCode
      <4>. QED
        BY <2>6, <3>2, <4>1
    <3>. QED
      BY <3>1, <3>2
  <2>. HIDE DEF x
  <2>7. SUFFICES ASSUME code # <<>>, Head(code).kind = "setExit"
                 PROVE  loop # NoLoop /\ code = <<SetExit(loop)>>
    BY <1>2, <2>1 DEF ExitFits
  <2>8. CASE FlowsOn(X, p) /\ \E rest \in LowCode : In(Q, T, rest) /\ code = x.code \o rest
    <3>1. PICK rest \in LowCode : In(Q, T, rest) /\ code = x.code \o rest
      BY <2>8
    <3>2. x.code = <<>>
      BY <2>4, <2>5, <2>6, <2>7, <2>8, <3>1 DEF FlowsOn, x
    <3>3. code = rest
      BY <2>6, <2>7, <3>1, <3>2
    <3>. QED
      BY <1>2, <2>7, <3>1, <3>3 DEF ExitFits
  <2>9. CASE EndsWith(X, p, loop, code)
    <3>1. CASE x.end = Complete /\ code = x.code \o <<Return>>
      <4>1. PICK rest \in LowCode : rest = <<Return>> /\ Head(rest).kind = "return"
        BY EffectsAreCode DEF Return
      <4>2. x.code = <<>>
        BY <2>4, <2>5, <2>6, <2>7, <3>1, <4>1
      <4>3. code = rest
        BY <2>6, <2>7, <3>1, <4>1, <4>2
      <4>. QED
        BY <2>7, <4>1, <4>3
    <3>2. CASE x.end = Returned /\ code = x.code
      BY <2>4, <2>5, <2>7, <3>2
    <3>3. CASE /\ p # Function /\ loop # NoLoop /\ BreaksFit(Built(X), p, loop)
               /\ code = closeBody(loop, x)
      <4>. DEFINE last == IF x.end = IterationClosed THEN <<>> ELSE loop.step
      <4>1. /\ last \in Seq(Effects) /\ last \in LowCode /\ code = x.code \o last
            /\ p.loop.id = loop.id /\ p.region \in {"body", "arm"}
        <5>1. loop.step \in Seq(Effects)
          BY <3>3, PlacesInAre DEF LoopsOf
        <5>2. last \in Seq(Effects)
          BY <5>1
        <5>3. p.loop.id = loop.id /\ p.region \in {"body", "arm"}
          BY <3>3, PlacesInAre
        <5>4. code = x.code \o last
          BY <3>3 DEF closeBody
        <5>. QED
          BY <5>2, <5>3, <5>4, EffectsAreCode
      <4>2. p.region = "body" => ControlEnd(p) = IterationClosed
        BY PlacesInAre
      <4>3. x.code # <<>>
        <5>. HIDE DEF last
        <5>. QED
          BY <2>6, <2>7, <4>1, HeadIsEffect
      <4>4. /\ x.code = <<SetExit(p.loop)>> /\ x.end = ControlEnd(p)
            /\ "break" \in controls[Built(X)]
        <5>. HIDE DEF last
        <5>. QED
          BY <2>4, <2>6, <2>7, <4>1, <4>3
      <4>5. last = <<>>
        BY <3>3, <4>1, <4>2, <4>4 DEF BreaksFit
      <4>6. x.code \o <<>> = x.code
        BY <2>2, LowCodeJoins DEF x
      <4>7. SetExit(p.loop) = SetExit(loop)
        BY <4>1 DEF SetExit
      <4>. QED
        BY <3>3, <4>1, <4>4, <4>5, <4>6, <4>7
    <3>. QED
      BY <2>9, <3>1, <3>2, <3>3 DEF EndsWith, x
  <2>10. CASE Holds(X, p, loop) /\ code = x.code \o loop.step
    <3>1. loop.step \in Seq(Effects) /\ loop.step \in LowCode
      <4>1. loop.step \in Seq(Effects)
        BY <2>10, PlacesInAre DEF LoopsOf, Holds
      <4>. QED
        BY <4>1, EffectsAreCode
    <3>2. x.code # <<>> => x.yields
      BY <2>4, <2>6, <2>7, <2>10, <3>1
    <3>3. x.code = <<>> => code = loop.step
      BY <2>6, <2>7, <2>10, <3>1
    <3>. QED
      BY <2>7, <2>10, <3>1, <3>2, <3>3, HeadIsEffect DEF Holds, x
  <2>. QED
    BY <1>6, <2>8, <2>9, <2>10 DEF Pends, x
<1>7. IsClosed(Q, loop)
  BY <1>5, <1>6 DEF IsClosed
<1>8. In(Q, S, C)
  BY <1>3, <1>7, PendingIsClosed DEF In, P
<1>. QED
  BY <1>2, <1>8

\* An iteration: the body and the step go with the body of the lowered loop.
LEMMA IterationPends ==
  ASSUME MaxNesting \in Nat, NEW loop, GoodLoop(loop)
  PROVE  /\ loop \in SrcLoops /\ loop # NoLoop
         /\ In(Pending(loop), loop.body \o loop.step, LowLoop(loop).body)
         /\ LowLoop(loop).id = loop.id /\ LowLoop(loop).kind = "loop"
         /\ LowLoop(loop).conditionCalls = loop.conditionCalls
<1>. DEFINE p == Body(IRLoop(loop))
            x == BodyRegion(loop)
<1>1. /\ loop \in LoopsOf(Code) /\ loop.body \in Code /\ loop.step \in Seq(Effects)
      /\ loop.step \in Code /\ loop.step \in LowCode /\ loop \in SrcLoops /\ loop # NoLoop
  <2>1. loop \in LoopsOf(Code)
    BY DEF GoodLoop
  <2>2. loop.body \in Code /\ loop.step \in Seq(Effects) /\ loop.kind = "loop"
    BY <2>1 DEF LoopsOf
  <2>. QED
    BY <2>1, <2>2, EffectsAreCode DEF SrcLoops, NoLoop
<1>2. p \in PlacesIn(loop) /\ p.region = "body"
  BY <1>1 DEF PlacesIn, Body
<1>3. /\ p \in Places /\ p # Function /\ p.loop # NoLoop /\ ControlEnd(p) = IterationClosed
      /\ IRLoop(loop).step = loop.step
  BY <1>1, <1>2, PlacesInAre DEF Body, Function
<1>4. /\ x = Low(Built(loop.body), p) /\ x.code \in LowCode /\ x.end \in Ends
      /\ x.yields \in BOOLEAN /\ Built(loop.body) \in Code
  BY <1>1, <1>3, RegionIs DEF BodyRegion
<1>5. /\ x.ok /\ controlIsLast[Built(loop.body)]
      /\ BreaksFit(Built(loop.body), p, loop)
  BY <1>2 DEF GoodLoop, BreaksFit
<1>6. EndFits(Built(loop.body), p)
  BY <1>3, <1>4, EndsAre
<1>7. /\ LowLoop(loop).body = closeBody(loop, x) /\ LowLoop(loop).id = loop.id
      /\ LowLoop(loop).kind = "loop" /\ LowLoop(loop).conditionCalls = loop.conditionCalls
  <2>1. closeBody(IRLoop(loop), x) = closeBody(loop, x)
    BY <1>3 DEF closeBody
  <2>2. IRLoop(loop).id = loop.id /\ IRLoop(loop).conditionCalls = loop.conditionCalls
    BY DEF IRLoop, Loop
  <2>. HIDE DEF x
  <2>. QED
    BY <2>1, <2>2 DEF LowLoop, lowerWhile, Loop, x
<1>8. In(Pending(loop), loop.step, loop.step)
  BY <1>1, PendingHas
<1>. HIDE DEF x, p
<1>9. closeBody(loop, x) \in LowCode
  <2>1. CASE x.end = IterationClosed
    <3>1. closeBody(loop, x) = x.code \o <<>>
      BY <2>1 DEF closeBody
    <3>. QED
      BY <1>4, <3>1, LowCodeJoins
  <2>2. CASE x.end # IterationClosed
    <3>1. closeBody(loop, x) = x.code \o loop.step
      BY <2>2 DEF closeBody
    <3>. QED
      BY <1>1, <1>4, <3>1, LowCodeJoins
  <2>. QED
    BY <2>1, <2>2
<1>10. Pends(Pending(loop), loop, loop.body, p, loop.step, closeBody(loop, x))
  <2>1. CASE x.end = Complete
    <3>1. closeBody(loop, x) = x.code \o loop.step
      BY <2>1 DEF closeBody, Complete, IterationClosed
    <3>2. FlowsOn(loop.body, p)
      BY <1>3, <1>4, <1>5, <2>1 DEF FlowsOn
    <3>. QED
      BY <1>1, <1>4, <1>8, <3>1, <3>2 DEF Pends
  <2>2. CASE x.end # Complete /\ x.yields
    <3>1. x.end = ControlEnd(p)
      BY <1>3, <1>4, <1>5, <1>6, <2>2 DEF EndFits
    <3>2. EndsWith(loop.body, p, loop, closeBody(loop, x))
      BY <1>1, <1>3, <1>4, <1>5, <2>2, <3>1 DEF EndsWith
    <3>. QED
      BY <3>2 DEF Pends
  <2>3. CASE x.end # Complete /\ ~x.yields
    <3>1. x.end = NestedLoopControl
      BY <1>3, <1>4, <1>5, <1>6, <2>3 DEF EndFits
    <3>2. Holds(loop.body, p, loop)
      BY <1>1, <1>3, <1>4, <1>5, <2>3, <3>1 DEF Holds
    <3>3. closeBody(loop, x) = x.code \o loop.step
      BY <3>1 DEF closeBody, NestedLoopControl, IterationClosed
    <3>. QED
      BY <1>4, <1>8, <3>2, <3>3 DEF Pends
  <2>. QED
    BY <1>4, <2>1, <2>2, <2>3
<1>. QED
  BY <1>1, <1>2, <1>7, <1>9, <1>10, PendingHas

\* A function: the program goes with what it is lowered to.
LEMMA ProgramPends ==
  ASSUME MaxNesting \in Nat, NEW S \in Code,
         lowerBlock(Built(S)).ok, controlIsLast[Built(S)]
  PROVE  In(Pending(NoLoop), S, lowerBlock(Built(S)).code)
<1>. DEFINE x == Low(Built(S), Function)
            C == lowerBlock(Built(S)).code
<1>1. /\ NoLoop \in SrcLoops /\ Function \in PlacesIn(NoLoop) /\ Function \in Places
      /\ <<>> \in Seq(Effects) /\ <<>> \in Code /\ <<>> \in LowCode /\ <<Return>> \in LowCode
  BY PlacesAre, EffectsAreCode DEF SrcLoops, PlacesIn
<1>2. x.code \in LowCode /\ Built(S) \in Code /\ x \in Regions(Items)
  BY <1>1, RegionIs
<1>3. /\ x.ok
      /\ C = IF x.end # Returned /\ Returns(Built(S)) THEN Append(x.code, Return) ELSE x.code
  BY DEF lowerBlock, Low
<1>4. Append(x.code, Return) = x.code \o <<Return>>
  BY <1>2, EffectsAreCode DEF LowCode
<1>5. x.end \in {Complete, Returned} /\ Complete # Returned
  <2>1. EndFits(Built(S), Function)
    BY <1>1, <1>2, EndsAre
  <2>. QED
    BY <1>3, <2>1 DEF EndFits, Complete, Returned
<1>. HIDE DEF x, C
<1>6. C \in LowCode
  <2>1. x.code \o <<Return>> \in LowCode
    BY <1>1, <1>2, LowCodeJoins
  <2>. QED
    BY <1>2, <1>3, <1>4, <2>1
<1>7. Pends(Pending(NoLoop), NoLoop, S, Function, <<>>, C)
  <2>1. CASE x.end = Complete /\ ~Returns(Built(S))
    <3>1. FlowsOn(S, Function)
      BY <1>3, <2>1 DEF FlowsOn, x
    <3>2. x.code \o <<>> = x.code
      BY <1>2, LowCodeJoins
    <3>3. C = x.code \o <<>>
      BY <1>3, <2>1, <3>2
    <3>4. In(Pending(NoLoop), <<>>, <<>>)
      BY <1>1, PendingHas
    <3>. QED
      BY <1>1, <3>1, <3>3, <3>4 DEF Pends, x
  <2>2. CASE x.end = Complete /\ Returns(Built(S))
    <3>1. EndsWith(S, Function, NoLoop, C)
      BY <1>3, <1>4, <1>5, <2>2 DEF EndsWith, x
    <3>. QED
      BY <3>1 DEF Pends
  <2>3. CASE x.end = Returned
    <3>1. EndsWith(S, Function, NoLoop, C)
      BY <1>3, <2>3 DEF EndsWith, x
    <3>. QED
      BY <3>1 DEF Pends
  <2>. QED
    BY <1>5, <2>1, <2>2, <2>3
<1>8. S \o <<>> = S
  BY CodeJoins
<1>9. In(Pending(NoLoop), S \o <<>>, C)
  BY <1>1, <1>6, <1>7, PendingHas
<1>. QED
  BY <1>8, <1>9 DEF C

-----------------------------------------------------------------------------
(* The frames of the two executions.                                       *)

SrcFrames == [todo : Code, loop : SrcLoops]
LowFrames == [todo : LowCode, loop : Items \cup {NoLoop}, exit : BOOLEAN]

\* What a frame of lowered code owes the source: with its exit flag set it is
\* as if it had yet to set it.
Due(s, l) == IF l.exit THEN <<SetExit(s.loop)>> ELSE l.todo

\* The loop of two frames.
LoopsMatch(s, l) ==
  IF s.loop = NoLoop THEN l.loop = NoLoop
  ELSE GoodLoop(s.loop) /\ l.loop = LowLoop(s.loop)

FramesMatch(s, l) ==
  /\ s \in SrcFrames /\ l \in LowFrames
  /\ LoopsMatch(s, l)
  /\ In(Pending(s.loop), s.todo, Due(s, l))
  /\ l.exit => l.todo = <<>> /\ s.loop # NoLoop

\* The frames of two executions that agree; the outermost is the function's.
Matched(ss, ls) ==
  /\ ss \in Seq(SrcFrames) /\ ls \in Seq(LowFrames)
  /\ ss # <<>> /\ Len(ss) = Len(ls)
  /\ \A i \in 1 .. Len(ss) : FramesMatch(ss[i], ls[i])
  /\ \A i \in 1 .. Len(ss) : ss[i].loop = NoLoop <=> i = Len(ss)

\* The innermost frames match.
LEMMA InnermostMatch ==
  ASSUME NEW ss, NEW ls, Matched(ss, ls)
  PROVE  /\ ss \in Seq(SrcFrames) /\ ls \in Seq(LowFrames) /\ ss # <<>> /\ ls # <<>>
         /\ Len(ss) = Len(ls) /\ Len(ss) \in Nat \ {0} /\ FramesMatch(ss[1], ls[1])
         /\ ss[1].loop = NoLoop <=> Len(ss) = 1
         /\ ss[1] \in SrcFrames /\ ls[1] \in LowFrames
<1>1. ss \in Seq(SrcFrames) /\ ls \in Seq(LowFrames) /\ ss # <<>> /\ Len(ss) = Len(ls)
  BY DEF Matched
<1>2. Len(ss) \in Nat \ {0} /\ ls # <<>> /\ 1 \in 1 .. Len(ss)
  BY <1>1
<1>3. FramesMatch(ss[1], ls[1]) /\ (ss[1].loop = NoLoop <=> 1 = Len(ss))
  BY <1>2 DEF Matched
<1>. QED
  BY <1>1, <1>2, <1>3 DEF FramesMatch

\* The innermost frames are replaced.
LEMMA MatchedInstead ==
  ASSUME NEW ss, NEW ls, Matched(ss, ls), NEW s, NEW l, FramesMatch(s, l),
         s.loop = ss[1].loop
  PROVE  Matched([ss EXCEPT ![1] = s], [ls EXCEPT ![1] = l])
<1>. DEFINE tt == [ss EXCEPT ![1] = s]
            ms == [ls EXCEPT ![1] = l]
<1>1. ss \in Seq(SrcFrames) /\ ls \in Seq(LowFrames) /\ ss # <<>> /\ Len(ss) = Len(ls)
  BY DEF Matched
<1>2. s \in SrcFrames /\ l \in LowFrames
  BY DEF FramesMatch
<1>3. /\ tt \in Seq(SrcFrames) /\ ms \in Seq(LowFrames)
      /\ Len(tt) = Len(ss) /\ Len(ms) = Len(ls) /\ tt # <<>>
  BY <1>1, <1>2
<1>4. /\ \A i \in 1 .. Len(ss) : tt[i] = IF i = 1 THEN s ELSE ss[i]
      /\ \A i \in 1 .. Len(ss) : ms[i] = IF i = 1 THEN l ELSE ls[i]
  BY <1>1
<1>5. 1 \in 1 .. Len(ss)
  BY <1>1
<1>. HIDE DEF tt, ms
<1>6. \A i \in 1 .. Len(tt) : FramesMatch(tt[i], ms[i])
  BY <1>3, <1>4 DEF Matched
<1>7. \A i \in 1 .. Len(tt) : tt[i].loop = NoLoop <=> i = Len(tt)
  BY <1>3, <1>4, <1>5 DEF Matched
<1>8. Matched(tt, ms)
  BY <1>1, <1>3, <1>6, <1>7 DEF Matched
<1>. QED
  BY <1>8 DEF tt, ms

\* A loop is entered.
LEMMA MatchedPush ==
  ASSUME NEW ss, NEW ls, Matched(ss, ls), NEW s, NEW l, FramesMatch(s, l),
         s.loop # NoLoop
  PROVE  Matched(<<s>> \o ss, <<l>> \o ls)
<1>. DEFINE tt == <<s>> \o ss
            ms == <<l>> \o ls
<1>1. ss \in Seq(SrcFrames) /\ ls \in Seq(LowFrames) /\ ss # <<>> /\ Len(ss) = Len(ls)
  BY DEF Matched
<1>2. s \in SrcFrames /\ l \in LowFrames
  BY DEF FramesMatch
<1>3. /\ tt \in Seq(SrcFrames) /\ ms \in Seq(LowFrames)
      /\ Len(tt) = Len(ss) + 1 /\ Len(ms) = Len(ls) + 1 /\ tt # <<>>
  <2>1. <<s>> \in Seq(SrcFrames) /\ <<l>> \in Seq(LowFrames) /\ Len(<<s>>) = 1 /\ Len(<<l>>) = 1
    BY <1>2
  <2>2. tt \in Seq(SrcFrames) /\ Len(tt) = Len(ss) + 1
    BY <1>1, <2>1
  <2>3. ms \in Seq(LowFrames) /\ Len(ms) = Len(ls) + 1
    BY <1>1, <2>1
  <2>4. tt # <<>>
    BY <1>1, OneInFront
  <2>. QED
    BY <2>2, <2>3, <2>4
<1>4. /\ \A i \in 1 .. Len(ss) + 1 : tt[i] = IF i = 1 THEN s ELSE ss[i - 1]
      /\ \A i \in 1 .. Len(ss) + 1 : ms[i] = IF i = 1 THEN l ELSE ls[i - 1]
  <2>1. \A i \in 1 .. Len(ss) + 1 : tt[i] = IF i = 1 THEN s ELSE ss[i - 1]
    BY <1>1, <1>2
  <2>2. \A i \in 1 .. Len(ls) + 1 : ms[i] = IF i = 1 THEN l ELSE ls[i - 1]
    BY <1>1, <1>2
  <2>. QED
    BY <1>1, <2>1, <2>2
<1>5. Len(ss) \in Nat \ {0}
  BY <1>1
<1>. HIDE DEF tt, ms
<1>6. ASSUME NEW i \in 1 .. Len(tt)
      PROVE  FramesMatch(tt[i], ms[i]) /\ (tt[i].loop = NoLoop <=> i = Len(tt))
  <2>1. CASE i = 1
    BY <1>3, <1>4, <1>5, <2>1
  <2>2. CASE i # 1
    <3>1. i - 1 \in 1 .. Len(ss) /\ i \in 1 .. Len(ss) + 1
      BY <1>3, <1>5, <2>2
    <3>2. tt[i] = ss[i - 1] /\ ms[i] = ls[i - 1]
      BY <1>4, <2>2, <3>1
    <3>3. FramesMatch(ss[i - 1], ls[i - 1]) /\ (ss[i - 1].loop = NoLoop <=> i - 1 = Len(ss))
      BY <3>1 DEF Matched
    <3>. QED
      BY <1>3, <1>5, <3>1, <3>2, <3>3
  <2>. QED
    BY <2>1, <2>2
<1>7. Matched(tt, ms)
  BY <1>1, <1>3, <1>6 DEF Matched
<1>. QED
  BY <1>7 DEF tt, ms

\* A loop is left.
LEMMA MatchedPop ==
  ASSUME NEW ss, NEW ls, Matched(ss, ls), Len(ss) # 1
  PROVE  Matched(Tail(ss), Tail(ls))
<1>. DEFINE tt == Tail(ss)
            ms == Tail(ls)
<1>1. ss \in Seq(SrcFrames) /\ ls \in Seq(LowFrames) /\ ss # <<>> /\ Len(ss) = Len(ls)
  BY DEF Matched
<1>2. Len(ss) \in Nat /\ Len(ss) > 1 /\ ls # <<>>
  BY <1>1
<1>3. /\ tt \in Seq(SrcFrames) /\ ms \in Seq(LowFrames)
      /\ Len(tt) = Len(ss) - 1 /\ Len(ms) = Len(ls) - 1 /\ tt # <<>>
  <2>1. tt \in Seq(SrcFrames) /\ Len(tt) = Len(ss) - 1
    BY <1>1
  <2>2. ms \in Seq(LowFrames) /\ Len(ms) = Len(ls) - 1
    BY <1>1, <1>2
  <2>3. tt # <<>>
    <3>. HIDE DEF tt
    <3>. QED
      BY <1>2, <2>1
  <2>. QED
    BY <2>1, <2>2, <2>3
<1>4. /\ \A i \in 1 .. Len(ss) - 1 : tt[i] = ss[i + 1]
      /\ \A i \in 1 .. Len(ss) - 1 : ms[i] = ls[i + 1]
  BY <1>1, <1>2
<1>. HIDE DEF tt, ms
<1>5. ASSUME NEW i \in 1 .. Len(tt)
      PROVE  FramesMatch(tt[i], ms[i]) /\ (tt[i].loop = NoLoop <=> i = Len(tt))
  <2>1. i + 1 \in 1 .. Len(ss) /\ i \in 1 .. Len(ss) - 1
    BY <1>2, <1>3
  <2>2. tt[i] = ss[i + 1] /\ ms[i] = ls[i + 1]
    BY <1>4, <2>1
  <2>3. FramesMatch(ss[i + 1], ls[i + 1]) /\ (ss[i + 1].loop = NoLoop <=> i + 1 = Len(ss))
    BY <2>1 DEF Matched
  <2>. QED
    BY <1>2, <1>3, <2>1, <2>2, <2>3
<1>6. Matched(tt, ms)
  BY <1>1, <1>3, <1>5 DEF Matched
<1>. QED
  BY <1>6 DEF tt, ms

\* Other things to do in the innermost frame.
LEMMA TodoIs ==
  ASSUME NEW frames, NEW t
  PROVE  Todo(frames, t) = [frames EXCEPT ![1] = [frames[1] EXCEPT !.todo = t]]
BY DEF Todo

\* Both machines go on, to what goes together.
LEMMA MatchedTodo ==
  ASSUME MaxNesting \in Nat, NEW ss, NEW ls, Matched(ss, ls), ~ls[1].exit,
         NEW S, NEW C, In(Pending(ss[1].loop), S, C)
  PROVE  Matched(Todo(ss, S), Todo(ls, C))
<1>. DEFINE s == [ss[1] EXCEPT !.todo = S]
            l == [ls[1] EXCEPT !.todo = C]
<1>1. FramesMatch(ss[1], ls[1]) /\ ss[1] \in SrcFrames /\ ls[1] \in LowFrames
  BY InnermostMatch
<1>2. S \in Code /\ C \in LowCode
  <2>1. ss[1].loop \in SrcLoops
    BY <1>1 DEF SrcFrames
  <2>. QED
    BY <2>1, PendingIs
<1>3. /\ s \in SrcFrames /\ l \in LowFrames
      /\ s.loop = ss[1].loop /\ l.loop = ls[1].loop /\ ~l.exit /\ s.todo = S /\ l.todo = C
  BY <1>1, <1>2 DEF SrcFrames, LowFrames
<1>4. LoopsMatch(s, l) /\ Due(s, l) = C
  BY <1>1, <1>3 DEF FramesMatch, LoopsMatch, Due
<1>. HIDE DEF s, l
<1>5. FramesMatch(s, l)
  BY <1>3, <1>4 DEF FramesMatch
<1>6. Matched([ss EXCEPT ![1] = s], [ls EXCEPT ![1] = l])
  BY <1>3, <1>5, MatchedInstead
<1>. QED
  BY <1>6, TodoIs DEF s, l

\* The source alone goes on, to what goes with the same code.
LEMMA MatchedSilently ==
  ASSUME MaxNesting \in Nat, NEW ss, NEW ls, Matched(ss, ls),
         NEW S, In(Pending(ss[1].loop), S, Due(ss[1], ls[1]))
  PROVE  Matched(Todo(ss, S), ls)
<1>. DEFINE s == [ss[1] EXCEPT !.todo = S]
            l == ls[1]
<1>1. /\ FramesMatch(ss[1], l) /\ ss[1] \in SrcFrames /\ l \in LowFrames
      /\ ls \in Seq(LowFrames) /\ ls # <<>>
  BY InnermostMatch
<1>2. S \in Code
  <2>1. ss[1].loop \in SrcLoops
    BY <1>1 DEF SrcFrames
  <2>. QED
    BY <2>1, PendingIs
<1>3. s \in SrcFrames /\ s.loop = ss[1].loop /\ s.todo = S
  BY <1>1, <1>2 DEF SrcFrames
<1>4. LoopsMatch(s, l) /\ Due(s, l) = Due(ss[1], l)
  BY <1>1, <1>3 DEF FramesMatch, LoopsMatch, Due
<1>5. [ls EXCEPT ![1] = l] = ls
  BY <1>1
<1>. HIDE DEF s, l
<1>6. FramesMatch(s, l)
  BY <1>1, <1>3, <1>4 DEF FramesMatch, l
<1>7. Matched([ss EXCEPT ![1] = s], [ls EXCEPT ![1] = l])
  BY <1>3, <1>6, MatchedInstead
<1>. QED
  BY <1>5, <1>7, TodoIs DEF s

\* What the source may be at.
LEMMA KindsAre ==
  ASSUME MaxNesting \in Nat, NEW loop \in SrcLoops, NEW S, NEW C, In(Pending(loop), S, C),
         S # <<>>
  PROVE  Head(S).kind \in {"effect", "if", "loop", "block", "break", "continue", "return"}
<1>1. CASE S \in Seq(Effects)
  BY <1>1, HeadIsEffect
<1>2. CASE S \notin Seq(Effects)
  <2>1. IsStatement(Head(S), Code)
    BY <1>2, PendingHead
  <2>. QED
    BY <2>1 DEF IsStatement
<1>. QED
  BY <1>1, <1>2

\* The event of the source, by what it is at.
LEMMA SrcEventIs ==
  LET op == Head(src[1].todo) IN
  /\ src[1].todo = <<>> =>
       srcEvent = IF Len(src) = 1 THEN End ELSE Condition(src[1].loop)
  /\ src[1].todo # <<>> =>
       /\ op.kind = "effect" => srcEvent = op
       /\ op.kind \in {"if", "loop"} => srcEvent = Condition(op)
       /\ op.kind = "break" => srcEvent = Left(src[1].loop)
       /\ op.kind = "return" => srcEvent = End
       /\ op.kind \in {"block", "continue"} => srcEvent = Silent
BY DEF srcEvent, AtKind, AtFrameEnd

\* The event of lowered code, by what it is at.
LEMMA LowEventIs ==
  ASSUME low \in Seq(LowFrames), low # <<>>
  PROVE
    LET op == Head(low[1].todo) IN
    /\ low[1].todo = <<>> =>
         lowEvent = IF Len(low) = 1 THEN End
                    ELSE IF low[1].exit /\ ~low[1].loop.conditionCalls THEN Left(low[1].loop)
                    ELSE Condition(low[1].loop)
    /\ low[1].todo # <<>> =>
         /\ op.kind = "effect" => lowEvent = op
         /\ op.kind = "if" => lowEvent = Condition(op)
         /\ op.kind = "loop" => lowEvent = Condition(op)
         /\ op.kind = "return" => lowEvent = End
         /\ op.kind = "setExit" => lowEvent = Silent
<1>. DEFINE op == Head(low[1].todo)
<1>1. CASE low[1].todo = <<>>
  <2>1. entered = low
    BY <1>1 DEF entered, AtKind, AtFrameEnd
  <2>. QED
    BY <1>1, <2>1 DEF lowEvent, AtKind, AtFrameEnd
<1>2. CASE low[1].todo # <<>> /\ op.kind # "loop"
  <2>1. entered = low
    BY <1>2 DEF entered, AtKind, AtFrameEnd
  <2>. QED
    BY <1>2, <2>1 DEF lowEvent, AtKind, AtFrameEnd
<1>3. CASE low[1].todo # <<>> /\ op.kind = "loop"
  <2>1. entered = <<enterLoop(op)>> \o Instead(low, <<>>)
    BY <1>3 DEF entered, AtKind, AtFrameEnd
  <2>2. Len(Instead(low, <<>>)) = Len(low) /\ Len(low) \in Nat \ {0}
        /\ \E F : Instead(low, <<>>) \in Seq(F)
    <3>. DEFINE f == [low[1] EXCEPT !.todo = <<>> \o Tail(low[1].todo)]
    <3>1. Instead(low, <<>>) = [low EXCEPT ![1] = f]
      BY TodoIs DEF Instead
    <3>2. [low EXCEPT ![1] = f] \in Seq(LowFrames \cup {f}) /\ Len([low EXCEPT ![1] = f]) = Len(low)
      <4>. HIDE DEF f
      <4>. QED
        OBVIOUS
    <3>. QED
      BY <3>1, <3>2
  <2>3. PICK rest : rest = Instead(low, <<>>)
    OBVIOUS
  <2>4. entered[1] = enterLoop(op) /\ Len(entered) # 1
    BY <2>1, <2>2, <2>3
  <2>5. enterLoop(op).todo = <<>> /\ ~enterLoop(op).exit /\ enterLoop(op).loop = op
    BY DEF enterLoop
  <2>. QED
    BY <1>3, <2>4, <2>5 DEF lowEvent, AtKind, AtFrameEnd, Condition
<1>. QED
  BY <1>1, <1>2, <1>3

\* With its exit flag set, lowered code has passed a break that the source is
\* still at, or before which only blocks are.
LEMMA ExitIsBreak ==
  ASSUME MaxNesting \in Nat, NEW s \in SrcFrames, NEW l, FramesMatch(s, l), l.exit
  PROVE  /\ s.todo # <<>> /\ Head(s.todo).kind \in {"block", "break"} /\ s.loop # NoLoop
         /\ s.loop \in LoopsOf(Code) /\ GoodLoop(s.loop) /\ l.loop = LowLoop(s.loop)
         /\ l.todo = <<>>
<1>. DEFINE loop == s.loop
            S == s.todo
            C == <<SetExit(loop)>>
<1>1. /\ loop \in SrcLoops /\ loop # NoLoop /\ loop \in LoopsOf(Code)
      /\ GoodLoop(loop) /\ l.loop = LowLoop(loop) /\ l.todo = <<>>
  BY DEF FramesMatch, LoopsMatch, SrcFrames, SrcLoops
<1>2. In(Pending(loop), S, C)
  BY DEF FramesMatch, Due
<1>3. C # <<>> /\ Head(C).kind = "setExit"
  BY DEF SetExit
<1>. HIDE DEF C
<1>4. S # <<>>
  BY <1>1, <1>2, <1>3, EndPends
<1>5. Head(S).kind # "effect"
  BY <1>1, <1>2, <1>3, <1>4, AtEffect
<1>6. Head(S).kind # "if"
  BY <1>1, <1>2, <1>3, <1>4, AtIf
<1>7. Head(S).kind # "loop"
  <2>1. CASE Head(S).kind = "loop"
    <3>1. Head(C) = LowLoop(Head(S)) /\ GoodLoop(Head(S))
      BY <1>1, <1>2, <1>4, <2>1, AtLoop
    <3>2. LowLoop(Head(S)).kind = "loop"
      BY <3>1, IterationPends
    <3>. QED
      BY <1>3, <3>1, <3>2
  <2>. QED
    BY <2>1
<1>8. Head(S).kind # "return"
  <2>1. Return.kind = "return"
    BY DEF Return
  <2>. QED
    BY <1>1, <1>2, <1>3, <1>4, <2>1, AtReturn
<1>9. Head(S).kind # "continue"
  <2>1. loop.step \in Seq(Effects)
    BY <1>1 DEF LoopsOf
  <2>. QED
    BY <1>1, <1>2, <1>3, <1>4, <2>1, AtContinue, HeadIsEffect
<1>10. Head(S).kind \in {"block", "break"}
  BY <1>1, <1>2, <1>4, <1>5, <1>6, <1>7, <1>8, <1>9, KindsAre
<1>. QED
  BY <1>1, <1>4, <1>10

\* Two machines whose frames match, both at an event, are at the same event.
LEMMA EventsMatch ==
  ASSUME MaxNesting \in Nat, Matched(src, low), srcEvent # Silent, lowEvent # Silent
  PROVE  srcEvent = lowEvent
<1>. DEFINE s == src[1]
            l == low[1]
            loop == s.loop
            S == s.todo
            C == l.todo
<1>1. /\ low \in Seq(LowFrames) /\ low # <<>> /\ Len(src) = Len(low)
      /\ FramesMatch(s, l) /\ s \in SrcFrames /\ l \in LowFrames
      /\ loop = NoLoop <=> Len(src) = 1
  BY InnermostMatch
<1>2. loop \in SrcLoops
  BY <1>1 DEF SrcFrames
<1>3. CASE l.exit
  <2>1. /\ S # <<>> /\ Head(S).kind \in {"block", "break"} /\ loop # NoLoop /\ GoodLoop(loop)
        /\ l.loop = LowLoop(loop) /\ C = <<>>
    BY <1>1, <1>3, ExitIsBreak
  <2>2. Head(S).kind = "break"
    BY <2>1, SrcEventIs
  <2>3. In(Pending(loop), S, Due(s, l))
    BY <1>1 DEF FramesMatch
  <2>4. ~loop.conditionCalls
    BY <1>2, <2>1, <2>2, <2>3, AtBreak
  <2>5. LowLoop(loop).id = loop.id /\ LowLoop(loop).conditionCalls = loop.conditionCalls
    BY <2>1, IterationPends
  <2>6. srcEvent = Left(loop)
    BY <2>1, <2>2, SrcEventIs
  <2>7. lowEvent = Left(l.loop)
    BY <1>1, <1>3, <2>1, <2>4, <2>5, LowEventIs
  <2>. QED
    BY <2>1, <2>5, <2>6, <2>7 DEF Left
<1>4. CASE ~l.exit
  <2>1. In(Pending(loop), S, C)
    BY <1>1, <1>4 DEF FramesMatch, Due
  <2>2. CASE S = <<>>
    <3>1. C = <<>>
      BY <1>2, <2>1, <2>2, EndPends
    <3>2. srcEvent = IF Len(src) = 1 THEN End ELSE Condition(loop)
      BY <2>2, SrcEventIs
    <3>3. lowEvent = IF Len(low) = 1 THEN End ELSE Condition(l.loop)
      BY <1>1, <1>4, <3>1, LowEventIs
    <3>4. Len(src) # 1 => l.loop.id = loop.id
      <4>1. Len(src) # 1 => GoodLoop(loop) /\ l.loop = LowLoop(loop)
        BY <1>1 DEF FramesMatch, LoopsMatch
      <4>. QED
        BY <4>1, IterationPends
    <3>. QED
      BY <1>1, <3>2, <3>3, <3>4 DEF Condition
  <2>3. CASE S # <<>> /\ Head(S).kind = "effect"
    <3>1. C # <<>> /\ Head(C) = Head(S)
      <4>. HIDE DEF loop, S, C
      <4>. QED
        BY <1>2, <2>1, <2>3, AtEffect
    <3>. QED
      BY <1>1, <2>3, <3>1, SrcEventIs, LowEventIs
  <2>4. CASE S # <<>> /\ Head(S).kind = "if"
    <3>1. C # <<>> /\ Head(C).kind = "if" /\ Head(C).id = Head(S).id
      BY <1>2, <2>1, <2>4, AtIf
    <3>2. srcEvent = Condition(Head(S)) /\ lowEvent = Condition(Head(C))
      BY <1>1, <2>4, <3>1, SrcEventIs, LowEventIs
    <3>. QED
      BY <3>1, <3>2 DEF Condition
  <2>5. CASE S # <<>> /\ Head(S).kind = "loop"
    <3>1. C # <<>> /\ Head(C) = LowLoop(Head(S)) /\ GoodLoop(Head(S))
      <4>. HIDE DEF loop, S, C
      <4>. QED
        BY <1>2, <2>1, <2>5, AtLoop
    <3>2. Head(C).kind = "loop" /\ Head(C).id = Head(S).id
      BY <3>1, IterationPends
    <3>3. srcEvent = Condition(Head(S)) /\ lowEvent = Condition(Head(C))
      BY <1>1, <2>5, <3>1, <3>2, SrcEventIs, LowEventIs
    <3>. QED
      BY <3>2, <3>3 DEF Condition
  <2>6. CASE S # <<>> /\ Head(S).kind = "break"
    <3>1. C = <<SetExit(loop)>>
      BY <1>2, <2>1, <2>6, AtBreak
    <3>2. C # <<>> /\ Head(C).kind = "setExit"
      BY <3>1 DEF SetExit
    <3>. QED
      BY <1>1, <3>2, LowEventIs
  <2>7. CASE S # <<>> /\ Head(S).kind = "return"
    <3>1. C # <<>> /\ Head(C).kind = "return"
      BY <1>2, <2>1, <2>7, AtReturn DEF Return
    <3>. QED
      BY <1>1, <2>7, <3>1, SrcEventIs, LowEventIs
  <2>8. CASE S # <<>> /\ Head(S).kind \in {"block", "continue"}
    BY <2>8, SrcEventIs
  <2>. QED
    BY <1>2, <2>1, <2>2, <2>3, <2>4, <2>5, <2>6, <2>7, <2>8, KindsAre
<1>. QED
  BY <1>1, <1>3, <1>4 DEF LowFrames

\* The first thing to do in the innermost frame is done.
LEMMA InsteadIs ==
  ASSUME NEW A, NEW frames, frames[1].todo \in Seq(A), frames[1].todo # <<>>
  PROVE  Instead(frames, <<>>) = Todo(frames, Tail(frames[1].todo))
<1>1. PICK x \in Seq(A) : x = frames[1].todo
  OBVIOUS
<1>2. PICK t : t = Tail(x)
  OBVIOUS
<1>3. t \in Seq(A)
  BY <1>1, <1>2
<1>4. <<>> \o t = t
  BY <1>3
<1>5. Instead(frames, <<>>) = Todo(frames, <<>> \o t)
  BY <1>1, <1>2, Zenon DEF Instead
<1>6. Instead(frames, <<>>) = Todo(frames, t)
  BY <1>4, <1>5, Zenon
<1>. QED
  BY <1>1, <1>2, <1>6, Zenon

\* The frames keep matching when the source enters a block.
LEMMA EnterBlockMatches ==
  ASSUME MaxNesting \in Nat, Matched(src, low), EnterBlock
  PROVE  Matched(src', low')
<1>. DEFINE s == src[1]
            S == s.todo
<1>1. FramesMatch(s, low[1]) /\ s \in SrcFrames
  BY InnermostMatch
<1>2. s.loop \in SrcLoops /\ S \in Code /\ In(Pending(s.loop), S, Due(s, low[1]))
  BY <1>1 DEF SrcFrames, FramesMatch
<1>3. S # <<>> /\ Head(S).kind = "block" /\ low' = low
      /\ src' = Instead(src, Head(S).body)
  BY DEF EnterBlock, AtKind, AtFrameEnd
<1>4. In(Pending(s.loop), Head(S).body \o Tail(S), Due(s, low[1]))
  <2>. HIDE DEF s, S
  <2>. QED
    BY <1>2, <1>3, AtBlock
<1>5. PICK U : U = Head(S).body \o Tail(S)
  OBVIOUS
<1>6. In(Pending(s.loop), U, Due(s, low[1]))
  BY <1>4, <1>5, Zenon
<1>7. src' = Todo(src, U)
  BY <1>3, <1>5, Zenon DEF Instead
<1>8. Matched(Todo(src, U), low)
  BY <1>6, MatchedSilently
<1>. QED
  BY <1>3, <1>7, <1>8

\* The frames keep matching when the source runs a continue.
LEMMA RunContinueMatches ==
  ASSUME MaxNesting \in Nat, Matched(src, low), RunContinue
  PROVE  Matched(src', low')
<1>. DEFINE s == src[1]
            S == s.todo
<1>1. FramesMatch(s, low[1]) /\ s \in SrcFrames
  BY InnermostMatch
<1>2. s.loop \in SrcLoops /\ S \in Code /\ In(Pending(s.loop), S, Due(s, low[1]))
  BY <1>1 DEF SrcFrames, FramesMatch
<1>3. S # <<>> /\ Head(S).kind = "continue" /\ low' = low /\ src' = Todo(src, s.loop.step)
  BY DEF RunContinue, AtKind, AtFrameEnd
<1>4. s.loop # NoLoop /\ Due(s, low[1]) = s.loop.step
  <2>. HIDE DEF s, S
  <2>. QED
    BY <1>2, <1>3, AtContinue
<1>5. s.loop.step \in Seq(Effects)
  BY <1>2, <1>4 DEF SrcLoops, LoopsOf
<1>6. In(Pending(s.loop), s.loop.step, Due(s, low[1]))
  BY <1>2, <1>4, <1>5, PendingHas
<1>7. Matched(Todo(src, s.loop.step), low)
  BY <1>6, MatchedSilently
<1>. QED
  BY <1>3, <1>7

\* The frames keep matching when lowered code sets an exit flag: it is that of
\* its own loop, and then there is nothing else to do in the iteration.
LEMMA RunSetExitMatches ==
  ASSUME MaxNesting \in Nat, Matched(src, low), RunSetExit
  PROVE  Matched(src', low')
<1>. DEFINE s == src[1]
            l == low[1]
            C == l.todo
<1>1. /\ FramesMatch(s, l) /\ s \in SrcFrames /\ l \in LowFrames /\ low \in Seq(LowFrames)
      /\ low # <<>> /\ src \in Seq(SrcFrames) /\ src # <<>>
  BY InnermostMatch
<1>2. /\ C # <<>> /\ Head(C).kind = "setExit" /\ src' = src
      /\ low' = [Instead(low, <<>>) EXCEPT ![FrameOf(Head(C).id)].exit = TRUE]
  BY DEF RunSetExit, AtKind, AtFrameEnd
<1>3. /\ ~l.exit /\ Due(s, l) = C /\ s.loop \in SrcLoops /\ s.todo \in Code /\ C \in LowCode
      /\ In(Pending(s.loop), s.todo, C)
  BY <1>1, <1>2 DEF FramesMatch, Due, SrcFrames, LowFrames
<1>4. s.loop # NoLoop /\ C = <<SetExit(s.loop)>>
  BY <1>2, <1>3, AtSetExit DEF ExitFits
<1>5. Head(C).id = s.loop.id /\ Tail(C) = <<>>
  BY <1>4 DEF SetExit
<1>6. l.loop # NoLoop /\ l.loop.id = s.loop.id
  <2>1. GoodLoop(s.loop) /\ l.loop = LowLoop(s.loop)
    BY <1>1, <1>4 DEF FramesMatch, LoopsMatch
  <2>2. LowLoop(s.loop).kind = "loop" /\ LowLoop(s.loop).id = s.loop.id
    BY <2>1, IterationPends
  <2>. QED
    BY <2>1, <2>2 DEF NoLoop
<1>7. FrameOf(Head(C).id) = 1
  <2>. DEFINE fits(i) == /\ low[i].loop # NoLoop /\ low[i].loop.id = Head(C).id
                         /\ \A j \in 1 .. i - 1 : low[j].loop.id # Head(C).id
  <2>1. 1 \in DOMAIN low
    BY <1>1
  <2>2. fits(1)
    BY <1>5, <1>6
  <2>3. \A i \in DOMAIN low : fits(i) => i = 1
    <3>. SUFFICES ASSUME NEW i \in DOMAIN low, i # 1
                  PROVE  ~ fits(i)
      OBVIOUS
    <3>1. 1 \in 1 .. i - 1
      BY <1>1
    <3>. QED
      BY <1>5, <1>6, <3>1
  <2>4. FrameOf(Head(C).id) = CHOOSE i \in DOMAIN low : fits(i)
    BY DEF FrameOf
  <2>. HIDE DEF fits
  <2>. QED
    BY <2>1, <2>2, <2>3, <2>4
<1>8. Instead(low, <<>>) = [low EXCEPT ![1] = [l EXCEPT !.todo = <<>>]]
  <2>1. Instead(low, <<>>) = Todo(low, <<>>)
    BY <1>2, <1>3, <1>5, InsteadIs DEF LowCode
  <2>. QED
    BY <2>1, TodoIs
<1>. DEFINE m == [l EXCEPT !.todo = <<>>, !.exit = TRUE]
<1>9. low' = [low EXCEPT ![1] = m]
  <2>. DEFINE k == [l EXCEPT !.todo = <<>>]
  <2>1. low' = [[low EXCEPT ![1] = k] EXCEPT ![1].exit = TRUE]
    BY <1>2, <1>7, <1>8
  <2>2. [k EXCEPT !.exit = TRUE] = m
    BY <1>1 DEF LowFrames
  <2>. HIDE DEF k, m
  <2>3. [[low EXCEPT ![1] = k] EXCEPT ![1].exit = TRUE]
          = [low EXCEPT ![1] = [k EXCEPT !.exit = TRUE]]
    BY <1>1
  <2>. QED
    BY <2>1, <2>2, <2>3
<1>10. m \in LowFrames /\ m.exit /\ m.todo = <<>> /\ m.loop = l.loop
  BY <1>1, EffectsAreCode DEF LowFrames
<1>11. FramesMatch(s, m)
  <2>1. Due(s, m) = C
    BY <1>4, <1>10 DEF Due
  <2>2. LoopsMatch(s, m)
    BY <1>1, <1>10 DEF FramesMatch, LoopsMatch
  <2>. HIDE DEF m
  <2>. QED
    BY <1>1, <1>3, <1>4, <1>10, <2>1, <2>2 DEF FramesMatch
<1>. HIDE DEF m
<1>12. [src EXCEPT ![1] = s] = src
  BY <1>1
<1>13. Matched([src EXCEPT ![1] = s], [low EXCEPT ![1] = m])
  BY <1>11, MatchedInstead
<1>. QED
  BY <1>2, <1>9, <1>12, <1>13

\* What the source is at, by its event.
LEMMA EventKinds ==
  ASSUME MaxNesting \in Nat, Matched(src, low)
  PROVE  LET S == src[1].todo IN
         /\ srcEvent.kind = "effect" => S # <<>> /\ Head(S).kind = "effect"
         /\ srcEvent.kind = "left" => S # <<>> /\ Head(S).kind = "break"
         /\ srcEvent.kind = "condition" =>
              \/ S = <<>> /\ Len(src) # 1
              \/ S # <<>> /\ Head(S).kind \in {"if", "loop"}
<1>. DEFINE s == src[1]
            S == s.todo
            op == Head(S)
<1>1. FramesMatch(s, low[1]) /\ s \in SrcFrames
  BY InnermostMatch
<1>2. s.loop \in SrcLoops /\ In(Pending(s.loop), S, Due(s, low[1]))
  BY <1>1 DEF SrcFrames, FramesMatch
<1>3. S # <<>> =>
        op.kind \in {"effect", "if", "loop", "block", "break", "continue", "return"}
  <2>. HIDE DEF s, S
  <2>. QED
    BY <1>2, KindsAre
<1>4. /\ \A x : Condition(x).kind = "condition" /\ Left(x).kind = "left"
      /\ End.kind = "end" /\ Silent.kind = "silent"
  BY DEF Condition, Left, End, Silent
<1>5. CASE S = <<>>
  BY <1>4, <1>5, SrcEventIs
<1>6. CASE S # <<>>
  <2>1. CASE op.kind = "effect"
    BY <1>6, <2>1, SrcEventIs
  <2>2. CASE op.kind \in {"if", "loop"}
    BY <1>4, <1>6, <2>2, SrcEventIs
  <2>3. CASE op.kind = "break"
    BY <1>4, <1>6, <2>3, SrcEventIs
  <2>4. CASE op.kind \in {"return", "block", "continue"}
    <3>1. srcEvent = End \/ srcEvent = Silent
      BY <1>6, <2>4, SrcEventIs
    <3>. QED
      BY <1>4, <3>1
  <2>. QED
    BY <1>3, <1>6, <2>1, <2>2, <2>3, <2>4
<1>. QED
  BY <1>5, <1>6

\* The frames keep matching when both machines perform an effect.
LEMMA PerformEffectMatches ==
  ASSUME MaxNesting \in Nat, Matched(src, low), PerformEffect
  PROVE  Matched(src', low')
<1>. DEFINE s == src[1]
            S == s.todo
            C == low[1].todo
<1>1. FramesMatch(s, low[1]) /\ s \in SrcFrames
  BY InnermostMatch
<1>2. s.loop \in SrcLoops /\ S \in Code
  BY <1>1 DEF SrcFrames
<1>3. S # <<>> /\ Head(S).kind = "effect"
  BY EventKinds DEF PerformEffect, Both
<1>4. src' = Instead(src, <<>>) /\ low' = Instead(low, <<>>)
  BY DEF PerformEffect
<1>5. ~low[1].exit
  BY <1>1, <1>3, ExitIsBreak
<1>6. In(Pending(s.loop), S, C)
  BY <1>1, <1>5 DEF FramesMatch, Due
<1>7. C \in LowCode
  BY <1>2, <1>6, PendingIs
<1>8. C # <<>> /\ In(Pending(s.loop), Tail(S), Tail(C))
  <2>. HIDE DEF s, S, C
  <2>. QED
    BY <1>2, <1>3, <1>6, AtEffect
<1>9. Matched(Todo(src, Tail(S)), Todo(low, Tail(C)))
  <2>1. PICK T, U : T = Tail(S) /\ U = Tail(C)
    OBVIOUS
  <2>2. Matched(Todo(src, T), Todo(low, U))
    BY <1>5, <1>8, <2>1, MatchedTodo
  <2>. QED
    BY <2>1, <2>2
<1>10. Instead(src, <<>>) = Todo(src, Tail(S)) /\ Instead(low, <<>>) = Todo(low, Tail(C))
  BY <1>2, <1>3, <1>7, <1>8, InsteadIs DEF Code, LowCode
<1>. QED
  BY <1>4, <1>9, <1>10

\* The frames keep matching when both machines leave a loop.
LEMMA LeaveLoopMatches ==
  ASSUME MaxNesting \in Nat, Matched(src, low), LeaveLoop
  PROVE  Matched(src', low')
<1>. DEFINE s == src[1]
            S == s.todo
<1>1. /\ FramesMatch(s, low[1]) /\ s \in SrcFrames
      /\ s.loop = NoLoop <=> Len(src) = 1
  BY InnermostMatch
<1>2. s.loop \in SrcLoops /\ In(Pending(s.loop), S, Due(s, low[1]))
  BY <1>1 DEF SrcFrames, FramesMatch
<1>3. S # <<>> /\ Head(S).kind = "break"
  BY EventKinds DEF LeaveLoop, Both
<1>4. s.loop # NoLoop
  BY <1>2, <1>3, AtBreak
<1>5. src' = Tail(src) /\ low' = Tail(low)
  BY DEF LeaveLoop
<1>. QED
  BY <1>1, <1>4, <1>5, MatchedPop

\* The frames keep matching at the end of an iteration, when the condition of
\* the loop is evaluated.
LEMMA IterationMatches ==
  ASSUME MaxNesting \in Nat, Matched(src, low), NEW outcome \in BOOLEAN,
         src[1].todo = <<>>, Len(src) # 1
  PROVE  Matched(srcAfterCondition(outcome), lowAfterCondition(outcome))
<1>. DEFINE s == src[1]
            l == low[1]
            loop == s.loop
<1>1. /\ FramesMatch(s, l) /\ s \in SrcFrames /\ l \in LowFrames
      /\ src \in Seq(SrcFrames) /\ src # <<>>
      /\ loop = NoLoop <=> Len(src) = 1
  BY InnermostMatch
<1>2. loop \in SrcLoops /\ GoodLoop(loop) /\ l.loop = LowLoop(loop)
  BY <1>1 DEF FramesMatch, LoopsMatch, SrcFrames
<1>3. ~l.exit
  BY <1>1, ExitIsBreak
<1>4. l.todo = <<>>
  <2>1. In(Pending(loop), <<>>, l.todo)
    BY <1>1, <1>3 DEF FramesMatch, Due
  <2>. QED
    BY <1>2, <2>1, EndPends
<1>5. entered = low
  BY <1>4 DEF entered, AtKind, AtFrameEnd
<1>6. lowAfterCondition(outcome) = IF outcome THEN Todo(low, l.loop.body) ELSE Tail(low)
  BY <1>3, <1>4, <1>5 DEF lowAfterCondition, AtKind, AtFrameEnd
<1>7. srcAfterCondition(outcome)
        = IF outcome THEN <<Iteration(loop)>> \o Tail(src) ELSE Tail(src)
  BY DEF srcAfterCondition, AtKind, AtFrameEnd
<1>8. CASE outcome
  <2>1. PICK U : U = loop.body \o loop.step
    OBVIOUS
  <2>2. In(Pending(loop), U, l.loop.body)
    <3>1. In(Pending(loop), loop.body \o loop.step, LowLoop(loop).body)
      BY <1>2, IterationPends
    <3>. QED
      BY <1>2, <2>1, <3>1, Zenon
  <2>3. Matched(Todo(src, U), Todo(low, l.loop.body))
    BY <1>3, <2>2, MatchedTodo
  <2>4. <<Iteration(loop)>> \o Tail(src) = Todo(src, U)
    <3>. DEFINE f == [s EXCEPT !.todo = U]
    <3>1. Iteration(loop) = [todo |-> U, loop |-> loop]
      BY <2>1, Zenon DEF Iteration, Frame
    <3>2. f = [todo |-> U, loop |-> loop]
      BY <1>1 DEF SrcFrames
    <3>3. Todo(src, U) = [src EXCEPT ![1] = f]
      BY TodoIs
    <3>. HIDE DEF f
    <3>4. <<f>> \o Tail(src) = [src EXCEPT ![1] = f]
      BY <1>1
    <3>. QED
      BY <3>1, <3>2, <3>3, <3>4, Zenon
  <2>. QED
    BY <1>6, <1>7, <1>8, <2>3, <2>4, Zenon
<1>9. CASE ~outcome
  <2>1. srcAfterCondition(outcome) = Tail(src) /\ lowAfterCondition(outcome) = Tail(low)
    BY <1>6, <1>7, <1>9, Zenon
  <2>2. Matched(Tail(src), Tail(low))
    BY MatchedPop
  <2>. QED
    BY <2>1, <2>2, Zenon
<1>. QED
  BY <1>8, <1>9

\* The frames keep matching when the condition of an if is evaluated.
LEMMA IfMatches ==
  ASSUME MaxNesting \in Nat, Matched(src, low), NEW outcome \in BOOLEAN,
         src[1].todo # <<>>, Head(src[1].todo).kind = "if"
  PROVE  Matched(srcAfterCondition(outcome), lowAfterCondition(outcome))
<1>. DEFINE s == src[1]
            S == s.todo
            C == low[1].todo
            arm == IF outcome THEN Head(S).then ELSE Head(S).else
            lowArm == IF outcome THEN Head(C).then ELSE Head(C).else
<1>1. FramesMatch(s, low[1]) /\ s \in SrcFrames
  BY InnermostMatch
<1>2. s.loop \in SrcLoops
  BY <1>1 DEF SrcFrames
<1>3. ~low[1].exit
  BY <1>1, ExitIsBreak
<1>4. In(Pending(s.loop), S, C)
  BY <1>1, <1>3 DEF FramesMatch, Due
<1>5. /\ C # <<>> /\ Head(C).kind = "if"
      /\ In(Pending(s.loop), Head(S).then \o Tail(S), Head(C).then \o Tail(C))
      /\ In(Pending(s.loop), Head(S).else \o Tail(S), Head(C).else \o Tail(C))
  <2>1. S # <<>> /\ Head(S).kind = "if"
    OBVIOUS
  <2>. HIDE DEF s, S, C
  <2>. QED
    BY <1>2, <1>4, <2>1, AtIf
<1>6. In(Pending(s.loop), arm \o Tail(S), lowArm \o Tail(C))
  BY <1>5, Zenon
<1>7. srcAfterCondition(outcome) = Instead(src, arm)
  BY DEF srcAfterCondition, AtKind, AtFrameEnd
<1>8. lowAfterCondition(outcome) = Instead(low, lowArm)
  <2>1. entered = low
    BY <1>5 DEF entered, AtKind, AtFrameEnd
  <2>. QED
    BY <1>5, <2>1 DEF lowAfterCondition, AtKind, AtFrameEnd
<1>. HIDE DEF arm, lowArm
<1>9. PICK T : T = arm \o Tail(S)
  OBVIOUS
<1>10. PICK U : U = lowArm \o Tail(C)
  OBVIOUS
<1>11. Instead(src, arm) = Todo(src, T) /\ Instead(low, lowArm) = Todo(low, U)
  BY <1>9, <1>10, Zenon DEF Instead
<1>12. In(Pending(s.loop), T, U)
  BY <1>6, <1>9, <1>10, Zenon
<1>13. Matched(Todo(src, T), Todo(low, U))
  BY <1>3, <1>12, MatchedTodo
<1>. QED
  BY <1>7, <1>8, <1>11, <1>13, Zenon

\* A frame on top of others: with other things to do, and taken away.
LEMMA PushedFrame ==
  ASSUME NEW l \in LowFrames, NEW b \in LowCode, NEW ls \in Seq(LowFrames)
  PROVE  /\ Todo(<<l>> \o ls, b) = <<[l EXCEPT !.todo = b]>> \o ls
         /\ Tail(<<l>> \o ls) = ls /\ (<<l>> \o ls)[1] = l
<1>. DEFINE m == [l EXCEPT !.todo = b]
<1>1. m \in LowFrames
  BY DEF LowFrames
<1>2. (<<l>> \o ls)[1] = l /\ Tail(<<l>> \o ls) = ls
  BY OneInFront
<1>3. Todo(<<l>> \o ls, b) = [<<l>> \o ls EXCEPT ![1] = m]
  BY <1>2, TodoIs
<1>. HIDE DEF m
<1>4. [<<l>> \o ls EXCEPT ![1] = m] = <<m>> \o ls
  <2>1. PICK k : k = <<l>> \o ls
    OBVIOUS
  <2>2. k \in Seq(LowFrames) /\ k # <<>> /\ Tail(k) = ls
    BY <2>1, OneInFront
  <2>3. [k EXCEPT ![1] = m] = <<m>> \o Tail(k)
    BY <1>1, <2>2
  <2>. QED
    BY <2>1, <2>2, <2>3, Zenon
<1>. QED
  BY <1>2, <1>3, <1>4 DEF m

\* The frames keep matching when a loop is entered or passed.
LEMMA LoopMatches ==
  ASSUME MaxNesting \in Nat, Matched(src, low), NEW outcome \in BOOLEAN,
         src[1].todo # <<>>, Head(src[1].todo).kind = "loop"
  PROVE  Matched(srcAfterCondition(outcome), lowAfterCondition(outcome))
<1>. DEFINE s == src[1]
            S == s.todo
            C == low[1].todo
            op == Head(S)
<1>1. FramesMatch(s, low[1]) /\ s \in SrcFrames
  BY InnermostMatch
<1>2. s.loop \in SrcLoops /\ S \in Code
  BY <1>1 DEF SrcFrames
<1>3. ~low[1].exit
  BY <1>1, ExitIsBreak
<1>4. In(Pending(s.loop), S, C)
  BY <1>1, <1>3 DEF FramesMatch, Due
<1>5. C \in LowCode
  BY <1>2, <1>4, PendingIs
<1>6. /\ C # <<>> /\ Head(C) = LowLoop(op) /\ Head(C) \in Items
      /\ In(Pending(s.loop), Tail(S), Tail(C)) /\ GoodLoop(op)
  <2>1. S # <<>> /\ Head(S).kind = "loop"
    OBVIOUS
  <2>. HIDE DEF s, S, C
  <2>. QED
    BY <1>2, <1>4, <2>1, AtLoop
<1>7. /\ op \in SrcLoops /\ op # NoLoop
      /\ In(Pending(op), op.body \o op.step, LowLoop(op).body)
      /\ LowLoop(op).kind = "loop"
  BY <1>6, IterationPends
<1>8. PICK ss : ss = Instead(src, <<>>)
  OBVIOUS
<1>9. PICK ls : ls = Instead(low, <<>>)
  OBVIOUS
<1>10. Matched(ss, ls)
  <2>1. ss = Todo(src, Tail(S)) /\ ls = Todo(low, Tail(C))
    BY <1>2, <1>5, <1>6, <1>8, <1>9, InsteadIs DEF Code, LowCode
  <2>2. PICK T, U : T = Tail(S) /\ U = Tail(C)
    OBVIOUS
  <2>3. Matched(Todo(src, T), Todo(low, U))
    BY <1>3, <1>6, <2>2, MatchedTodo
  <2>. QED
    BY <2>1, <2>2, <2>3
<1>11. ls \in Seq(LowFrames) /\ ls # <<>>
  BY <1>10, InnermostMatch
<1>. DEFINE f == enterLoop(LowLoop(op))
            m == [f EXCEPT !.todo = LowLoop(op).body]
<1>12. PICK B : B = op.body \o op.step
  OBVIOUS
<1>13. In(Pending(op), B, LowLoop(op).body)
  BY <1>7, <1>12, Zenon
<1>14. B \in Code /\ LowLoop(op).body \in LowCode
  BY <1>7, <1>13, PendingIs
<1>15. /\ f \in LowFrames /\ m \in LowFrames /\ m.todo = LowLoop(op).body /\ ~m.exit
       /\ m.loop = LowLoop(op) /\ f.todo = <<>> /\ ~f.exit /\ f.loop = LowLoop(op)
  BY <1>6, <1>14, EffectsAreCode DEF enterLoop, LowFrames
<1>16. entered = <<f>> \o ls
  BY <1>6, <1>7, <1>9, Zenon DEF entered, AtKind, AtFrameEnd
<1>17. lowAfterCondition(outcome) = IF outcome THEN <<m>> \o ls ELSE ls
  <2>. HIDE DEF f
  <2>1. /\ Todo(<<f>> \o ls, f.loop.body) = <<m>> \o ls
        /\ Tail(<<f>> \o ls) = ls /\ (<<f>> \o ls)[1] = f
    <3>1. PICK b : b = LowLoop(op).body
      OBVIOUS
    <3>2. f \in LowFrames /\ b \in LowCode /\ f.loop.body = b
      BY <1>14, <1>15, <3>1
    <3>3. /\ Todo(<<f>> \o ls, b) = <<[f EXCEPT !.todo = b]>> \o ls
          /\ Tail(<<f>> \o ls) = ls /\ (<<f>> \o ls)[1] = f
      <4>1. PICK g : g = f
        OBVIOUS
      <4>2. /\ Todo(<<g>> \o ls, b) = <<[g EXCEPT !.todo = b]>> \o ls
            /\ Tail(<<g>> \o ls) = ls /\ (<<g>> \o ls)[1] = g
        BY <1>11, <3>2, <4>1, PushedFrame
      <4>. QED
        BY <4>1, <4>2, Zenon
    <3>. QED
      BY <3>1, <3>2, <3>3, Zenon
  <2>2. /\ Todo(entered, entered[1].loop.body) = <<m>> \o ls
        /\ Tail(entered) = ls /\ entered[1] = f
    BY <1>16, <2>1, Zenon
  <2>3. /\ AtFrameEnd(entered) /\ ~entered[1].exit
        /\ ~AtKind(low, "if")
    BY <1>6, <1>7, <1>15, <2>2 DEF AtFrameEnd, AtKind
  <2>4. lowAfterCondition(outcome)
          = IF outcome THEN Todo(entered, entered[1].loop.body) ELSE Tail(entered)
    BY <2>3 DEF lowAfterCondition
  <2>. QED
    BY <2>2, <2>4, Zenon
<1>18. srcAfterCondition(outcome) = IF outcome THEN <<Iteration(op)>> \o ss ELSE ss
  <2>1. AtKind(src, "loop") /\ ~AtKind(src, "if") /\ ~AtFrameEnd(src)
    BY DEF AtKind, AtFrameEnd
  <2>2. srcAfterCondition(outcome)
          = IF outcome THEN <<Iteration(op)>> \o Instead(src, <<>>) ELSE Instead(src, <<>>)
    BY <2>1 DEF srcAfterCondition
  <2>. QED
    BY <1>8, <2>2, Zenon
<1>19. Matched(<<Iteration(op)>> \o ss, <<m>> \o ls)
  <2>1. PICK g : g = Iteration(op)
    OBVIOUS
  <2>2. g = [todo |-> B, loop |-> op]
    BY <1>12, <2>1, Zenon DEF Iteration, Frame
  <2>3. g \in SrcFrames /\ g.loop = op /\ g.todo = B
    BY <1>7, <1>14, <2>2 DEF SrcFrames
  <2>. HIDE DEF m
  <2>4. FramesMatch(g, m)
    BY <1>6, <1>7, <1>13, <1>15, <2>3 DEF FramesMatch, LoopsMatch, Due
  <2>5. Matched(<<g>> \o ss, <<m>> \o ls)
    BY <1>7, <1>10, <2>3, <2>4, MatchedPush
  <2>. QED
    BY <2>1, <2>5, Zenon
<1>. QED
  BY <1>10, <1>17, <1>18, <1>19, Zenon

\* The frames keep matching when both machines evaluate a condition.
LEMMA EvaluateConditionMatches ==
  ASSUME MaxNesting \in Nat, Matched(src, low),
         NEW outcome \in BOOLEAN, EvaluateCondition(outcome)
  PROVE  Matched(src', low')
<1>1. srcEvent.kind = "condition"
      /\ src' = srcAfterCondition(outcome) /\ low' = lowAfterCondition(outcome)
  BY DEF EvaluateCondition, Both
<1>2. \/ src[1].todo = <<>> /\ Len(src) # 1
      \/ src[1].todo # <<>> /\ Head(src[1].todo).kind \in {"if", "loop"}
  BY <1>1, EventKinds
<1>3. Matched(srcAfterCondition(outcome), lowAfterCondition(outcome))
  BY <1>2, IterationMatches, IfMatches, LoopMatches
<1>. QED
  BY <1>1, <1>3

-----------------------------------------------------------------------------
(* The theorem.                                                            *)

\* Only programs are compiled, and in a program that controlIsLast the frames
\* match for as long as it runs.
MatchedInv ==
  /\ program \in Programs
  /\ status \in {"source", "running", "rejected"}
  /\ status = "running" /\ controlIsLast[IR] => Matched(src, low)

\* The frames match when both executions start.
LEMMA CompileMatches ==
  ASSUME MaxNesting \in Nat, program \in Code, Compile, status' = "running",
         controlIsLast[IR]
  PROVE  Matched(src', low')
<1>. DEFINE lowered == lowerBlock(Built(program))
            s == Frame(program, NoLoop)
            l == [todo |-> lowered.code, loop |-> NoLoop, exit |-> FALSE]
<1>1. IR = Built(program)
  BY DEF IR, Built
<1>2. lowered.ok /\ src' = <<s>> /\ low' = <<l>>
  BY <1>1 DEF Compile
<1>3. In(Pending(NoLoop), program, lowered.code)
  BY <1>1, <1>2, ProgramPends
<1>4. NoLoop \in SrcLoops
  BY DEF SrcLoops
<1>5. lowered.code \in LowCode
  BY <1>3, <1>4, PendingIs
<1>. HIDE DEF lowered
<1>6. s \in SrcFrames /\ l \in LowFrames /\ s.loop = NoLoop /\ s.todo = program
      /\ l.loop = NoLoop /\ ~l.exit /\ l.todo = lowered.code
  BY <1>4, <1>5 DEF Frame, SrcFrames, LowFrames
<1>. HIDE DEF s, l
<1>7. FramesMatch(s, l)
  BY <1>3, <1>6 DEF FramesMatch, LoopsMatch, Due
<1>8. /\ <<s>> \in Seq(SrcFrames) /\ <<l>> \in Seq(LowFrames)
      /\ Len(<<s>>) = 1 /\ Len(<<l>>) = 1 /\ <<s>> # <<>> /\ <<s>>[1] = s /\ <<l>>[1] = l
  BY <1>6
<1>9. Matched(<<s>>, <<l>>)
  BY <1>6, <1>7, <1>8 DEF Matched
<1>. QED
  BY <1>2, <1>9

\* The frames match for as long as both machines run.
LEMMA MatchedInvHolds == Spec => []MatchedInv
<1>1. Init => MatchedInv
  BY DEF Init, MatchedInv
<1>2. MatchedInv /\ [Next]_vars => MatchedInv'
  <2>. SUFFICES ASSUME MatchedInv, [Next]_vars
                PROVE  MatchedInv'
    OBVIOUS
  <2>1. MaxNesting \in Nat /\ program \in Code
    BY ProgramsAssumption DEF MatchedInv
  <2>2. program' = program /\ (IR)' = IR
    BY DEF Next, vars, Compile, EnterBlock, RunContinue, RunSetExit, PerformEffect,
           EvaluateCondition, LeaveLoop, Both, IR
  <2>3. status' \in {"source", "running", "rejected"}
    BY DEF MatchedInv, Next, vars, Compile, EnterBlock, RunContinue, RunSetExit,
           PerformEffect, EvaluateCondition, LeaveLoop, Both
  <2>. SUFFICES ASSUME status' = "running", controlIsLast[IR]
                PROVE  Matched(src', low')
    BY <2>2, <2>3 DEF MatchedInv
  <2>4. CASE Compile
    BY <2>1, <2>4, CompileMatches
  <2>5. ASSUME ~Compile
        PROVE  Matched(src, low)
    <3>1. status' = status
      BY <2>5 DEF Next, vars, EnterBlock, RunContinue, RunSetExit, PerformEffect,
                  EvaluateCondition, LeaveLoop, Both
    <3>. QED
      BY <3>1 DEF MatchedInv
  <2>6. CASE ~Compile
    <3>1. CASE EnterBlock
      BY <2>1, <2>5, <2>6, <3>1, EnterBlockMatches
    <3>2. CASE RunContinue
      BY <2>1, <2>5, <2>6, <3>2, RunContinueMatches
    <3>3. CASE RunSetExit
      BY <2>1, <2>5, <2>6, <3>3, RunSetExitMatches
    <3>4. CASE PerformEffect
      BY <2>1, <2>5, <2>6, <3>4, PerformEffectMatches
    <3>5. ASSUME NEW outcome \in BOOLEAN, EvaluateCondition(outcome)
          PROVE  Matched(src', low')
      BY <2>1, <2>5, <2>6, <3>5, EvaluateConditionMatches
    <3>6. CASE LeaveLoop
      BY <2>1, <2>5, <2>6, <3>6, LeaveLoopMatches
    <3>7. CASE UNCHANGED vars
      BY <2>5, <2>6, <3>7 DEF vars
    <3>. QED
      BY <2>6, <3>1, <3>2, <3>3, <3>4, <3>5, <3>6, <3>7 DEF Next
  <2>. QED
    BY <2>4, <2>6
<1>. QED
  BY <1>1, <1>2, PTL DEF Spec

\* Lowered code does what the source says, for every program in which each if
\* with a break or continue ends its block, and breaks are out of reach of a
\* step or of a condition with effects.
THEOREM LoweredAsWritten == Spec => []LoweringIsFaithful
<1>1. MatchedInv => LoweringIsFaithful
  <2>. SUFFICES ASSUME MatchedInv, AtEvents, controlIsLast[IR]
                PROVE  EventsAgree
    BY DEF LoweringIsFaithful
  <2>1. MaxNesting \in Nat
    BY ProgramsAssumption
  <2>2. Matched(src, low) /\ srcEvent # Silent /\ lowEvent # Silent
    BY DEF MatchedInv, AtEvents
  <2>. QED
    BY <2>1, <2>2, EventsMatch DEF EventsAgree
<1>. QED
  BY <1>1, MatchedInvHolds, PTL

-----------------------------------------------------------------------------
(* What is lowered at all.                                                 *)

\* Code as it is built: without blocks, and with a return at the end only.
flat[block \in Code] ==
  block = <<>> \/
    LET op == Head(block) IN
    /\ op.kind # "block"
    /\ op.kind = "return" => Tail(block) = <<>>
    /\ op.kind = "if" => flat[op.then] /\ flat[op.else]
    /\ op.kind = "loop" => flat[op.body]
    /\ flat[Tail(block)]

\* One turn of flat.
FlatStep(f, block) ==
  block = <<>> \/
    LET op == Head(block) IN
    /\ op.kind # "block"
    /\ op.kind = "return" => Tail(block) = <<>>
    /\ op.kind = "if" => f[op.then] /\ f[op.else]
    /\ op.kind = "loop" => f[op.body]
    /\ f[Tail(block)]

\* One turn of controlIsShallow.
ShallowStep(f, block) ==
  block = <<>> \/
    LET op == Head(block) IN
    /\ op.kind = "if" =>
         /\ controls[op.then] = {} \/ controls[op.else] = {}
         /\ \A arm \in {op.then, op.else} : f[arm] /\ firstControlIsDirect[arm]
    /\ op.kind = "loop" => f[op.body]
    /\ ~(op.kind \in LoopControl \/ ControllingIf(op, LoopControl)) => f[Tail(block)]

\* One turn of firstControlIsDirect.
DirectStep(f, block) ==
  block = <<>> \/
    LET op == Head(block) IN
    /\ ~ControllingIf(op, LoopControl)
    /\ op.kind \notin LoopControl => f[Tail(block)]

\* One turn of returnsInside.
ReturnsStep(f, block) ==
  block # <<>> /\
    LET op == Head(block)
        nested == CASE op.kind = "if" -> {op.then, op.else}
                    [] op.kind = "loop" -> {op.body}
                    [] OTHER -> {}
    IN \/ \E inner \in nested : Returns(inner) \/ f[inner]
       \/ f[Tail(block)]

\* flat, one turn at a time.
LEMMA FlatUnfolded ==
  ASSUME MaxNesting \in Nat
  PROVE  \A S \in Code : flat[S] = FlatStep(flat, S)
<1>. DEFINE V == BOOLEAN
            step == [at \in Code \X [Code -> V] |-> FlatStep(at[2], at[1])]
            Goes(f) == f = [S \in Code |-> FlatStep(f, S)]
<1>1. \A S, f : FlatStep(f, S) \in V
  BY DEF FlatStep
<1>2. step \in [Code \X [Code -> V] -> V] /\ TRUE \in V
  <2>. HIDE DEF V
  <2>1. step \in [Code \X [Code -> V] -> V]
    BY <1>1
  <2>. QED
    BY <2>1 DEF V
<1>3. \A S \in Code : \A f \in [Code -> V] : step[<<S, f>>] = FlatStep(f, S)
  <2>. HIDE DEF V
  <2>. QED
    OBVIOUS
<1>4. LooksInside(step, V)
  <2>. SUFFICES ASSUME NEW S \in Code, NEW f \in [Code -> V], NEW g \in [Code -> V],
                       \A T \in Inside(S) : f[T] = g[T]
                PROVE  FlatStep(f, S) = FlatStep(g, S)
    <3>. HIDE DEF V, step
    <3>. QED
      BY <1>3 DEF LooksInside
  <2>1. CASE S = <<>>
    BY <2>1 DEF FlatStep
  <2>2. CASE S # <<>>
    <3>1. /\ f[Tail(S)] = g[Tail(S)]
          /\ Head(S).kind = "if" => f[Head(S).then] = g[Head(S).then] /\ f[Head(S).else] = g[Head(S).else]
          /\ Head(S).kind = "loop" => f[Head(S).body] = g[Head(S).body]
      BY <2>2, InsideAre
    <3>. QED
      BY <2>2, <3>1 DEF FlatStep
  <2>. QED
    BY <2>1, <2>2
<1>5. PICK f \in [Code -> V] : \A S \in Code : f[S] = step[<<S, f>>]
  <2>. HIDE DEF V, step
  <2>. QED
    BY <1>2, <1>4, RecursionOnCode
<1>6. Goes(f)
  <2>. DEFINE h == [S \in Code |-> FlatStep(f, S)]
  <2>1. f = h
    <3>. HIDE DEF V, step
    <3>. QED
      BY <1>3, <1>5
  <2>. QED
    BY <2>1
<1>7. flat = CHOOSE g : Goes(g)
  BY Zenon DEF flat, FlatStep
<1>8. Goes(flat)
  <2>. HIDE DEF Goes
  <2>. QED
    BY <1>6, <1>7, Zenon
<1>. QED
  BY <1>8

\* controlIsShallow, one turn at a time.
LEMMA ShallowUnfolded ==
  ASSUME MaxNesting \in Nat
  PROVE  \A S \in Code : controlIsShallow[S] = ShallowStep(controlIsShallow, S)
<1>. DEFINE V == BOOLEAN
            step == [at \in Code \X [Code -> V] |-> ShallowStep(at[2], at[1])]
            Goes(f) == f = [S \in Code |-> ShallowStep(f, S)]
<1>1. \A S, f : ShallowStep(f, S) \in V
  BY DEF ShallowStep
<1>2. step \in [Code \X [Code -> V] -> V] /\ TRUE \in V
  <2>. HIDE DEF V
  <2>1. step \in [Code \X [Code -> V] -> V]
    BY <1>1
  <2>. QED
    BY <2>1 DEF V
<1>3. \A S \in Code : \A f \in [Code -> V] : step[<<S, f>>] = ShallowStep(f, S)
  <2>. HIDE DEF V
  <2>. QED
    OBVIOUS
<1>4. LooksInside(step, V)
  <2>. SUFFICES ASSUME NEW S \in Code, NEW f \in [Code -> V], NEW g \in [Code -> V],
                       \A T \in Inside(S) : f[T] = g[T]
                PROVE  ShallowStep(f, S) = ShallowStep(g, S)
    <3>. HIDE DEF V, step
    <3>. QED
      BY <1>3 DEF LooksInside
  <2>1. CASE S = <<>>
    BY <2>1 DEF ShallowStep
  <2>2. CASE S # <<>>
    <3>1. /\ f[Tail(S)] = g[Tail(S)]
          /\ Head(S).kind = "if" => f[Head(S).then] = g[Head(S).then] /\ f[Head(S).else] = g[Head(S).else]
          /\ Head(S).kind = "loop" => f[Head(S).body] = g[Head(S).body]
      BY <2>2, InsideAre
    <3>. QED
      BY <2>2, <3>1 DEF ShallowStep
  <2>. QED
    BY <2>1, <2>2
<1>5. PICK f \in [Code -> V] : \A S \in Code : f[S] = step[<<S, f>>]
  <2>. HIDE DEF V, step
  <2>. QED
    BY <1>2, <1>4, RecursionOnCode
<1>6. Goes(f)
  <2>. DEFINE h == [S \in Code |-> ShallowStep(f, S)]
  <2>1. f = h
    <3>. HIDE DEF V, step
    <3>. QED
      BY <1>3, <1>5
  <2>. QED
    BY <2>1
<1>7. controlIsShallow = CHOOSE g : Goes(g)
  BY Zenon DEF controlIsShallow, ShallowStep
<1>8. Goes(controlIsShallow)
  <2>. HIDE DEF Goes
  <2>. QED
    BY <1>6, <1>7, Zenon
<1>. QED
  BY <1>8

\* firstControlIsDirect, one turn at a time.
LEMMA DirectUnfolded ==
  ASSUME MaxNesting \in Nat
  PROVE  \A S \in Code : firstControlIsDirect[S] = DirectStep(firstControlIsDirect, S)
<1>. DEFINE V == BOOLEAN
            step == [at \in Code \X [Code -> V] |-> DirectStep(at[2], at[1])]
            Goes(f) == f = [S \in Code |-> DirectStep(f, S)]
<1>1. \A S, f : DirectStep(f, S) \in V
  BY DEF DirectStep
<1>2. step \in [Code \X [Code -> V] -> V] /\ TRUE \in V
  <2>. HIDE DEF V
  <2>1. step \in [Code \X [Code -> V] -> V]
    BY <1>1
  <2>. QED
    BY <2>1 DEF V
<1>3. \A S \in Code : \A f \in [Code -> V] : step[<<S, f>>] = DirectStep(f, S)
  <2>. HIDE DEF V
  <2>. QED
    OBVIOUS
<1>4. LooksInside(step, V)
  <2>. SUFFICES ASSUME NEW S \in Code, NEW f \in [Code -> V], NEW g \in [Code -> V],
                       \A T \in Inside(S) : f[T] = g[T]
                PROVE  DirectStep(f, S) = DirectStep(g, S)
    <3>. HIDE DEF V, step
    <3>. QED
      BY <1>3 DEF LooksInside
  <2>1. CASE S = <<>>
    BY <2>1 DEF DirectStep
  <2>2. CASE S # <<>>
    <3>1. /\ f[Tail(S)] = g[Tail(S)]
          /\ Head(S).kind = "if" => f[Head(S).then] = g[Head(S).then] /\ f[Head(S).else] = g[Head(S).else]
          /\ Head(S).kind = "loop" => f[Head(S).body] = g[Head(S).body]
      BY <2>2, InsideAre
    <3>. QED
      BY <2>2, <3>1 DEF DirectStep
  <2>. QED
    BY <2>1, <2>2
<1>5. PICK f \in [Code -> V] : \A S \in Code : f[S] = step[<<S, f>>]
  <2>. HIDE DEF V, step
  <2>. QED
    BY <1>2, <1>4, RecursionOnCode
<1>6. Goes(f)
  <2>. DEFINE h == [S \in Code |-> DirectStep(f, S)]
  <2>1. f = h
    <3>. HIDE DEF V, step
    <3>. QED
      BY <1>3, <1>5
  <2>. QED
    BY <2>1
<1>7. firstControlIsDirect = CHOOSE g : Goes(g)
  BY Zenon DEF firstControlIsDirect, DirectStep
<1>8. Goes(firstControlIsDirect)
  <2>. HIDE DEF Goes
  <2>. QED
    BY <1>6, <1>7, Zenon
<1>. QED
  BY <1>8

\* returnsInside, one turn at a time.
LEMMA ReturnsInsideUnfolded ==
  ASSUME MaxNesting \in Nat
  PROVE  \A S \in Code : returnsInside[S] = ReturnsStep(returnsInside, S)
<1>. DEFINE V == BOOLEAN
            step == [at \in Code \X [Code -> V] |-> ReturnsStep(at[2], at[1])]
            Goes(f) == f = [S \in Code |-> ReturnsStep(f, S)]
<1>1. \A S, f : ReturnsStep(f, S) \in V
  BY DEF ReturnsStep
<1>2. step \in [Code \X [Code -> V] -> V] /\ TRUE \in V
  <2>. HIDE DEF V
  <2>1. step \in [Code \X [Code -> V] -> V]
    BY <1>1
  <2>. QED
    BY <2>1 DEF V
<1>3. \A S \in Code : \A f \in [Code -> V] : step[<<S, f>>] = ReturnsStep(f, S)
  <2>. HIDE DEF V
  <2>. QED
    OBVIOUS
<1>4. LooksInside(step, V)
  <2>. SUFFICES ASSUME NEW S \in Code, NEW f \in [Code -> V], NEW g \in [Code -> V],
                       \A T \in Inside(S) : f[T] = g[T]
                PROVE  ReturnsStep(f, S) = ReturnsStep(g, S)
    <3>. HIDE DEF V, step
    <3>. QED
      BY <1>3 DEF LooksInside
  <2>1. CASE S = <<>>
    BY <2>1 DEF ReturnsStep
  <2>2. CASE S # <<>>
    <3>1. /\ f[Tail(S)] = g[Tail(S)]
          /\ Head(S).kind = "if" => f[Head(S).then] = g[Head(S).then] /\ f[Head(S).else] = g[Head(S).else]
          /\ Head(S).kind = "loop" => f[Head(S).body] = g[Head(S).body]
      BY <2>2, InsideAre
    <3>. QED
      BY <2>2, <3>1 DEF ReturnsStep
  <2>. QED
    BY <2>1, <2>2
<1>5. PICK f \in [Code -> V] : \A S \in Code : f[S] = step[<<S, f>>]
  <2>. HIDE DEF V, step
  <2>. QED
    BY <1>2, <1>4, RecursionOnCode
<1>6. Goes(f)
  <2>. DEFINE h == [S \in Code |-> ReturnsStep(f, S)]
  <2>1. f = h
    <3>. HIDE DEF V, step
    <3>. QED
      BY <1>3, <1>5
  <2>. QED
    BY <2>1
<1>7. returnsInside = CHOOSE g : Goes(g)
  BY Zenon DEF returnsInside, ReturnsStep
<1>8. Goes(returnsInside)
  <2>. HIDE DEF Goes
  <2>. QED
    BY <1>6, <1>7, Zenon
<1>. QED
  BY <1>8

\* These predicates, statement by statement.
LEMMA ShapesCons ==
  ASSUME MaxNesting \in Nat, NEW y, NEW B \in Code, <<y>> \o B \in Code
  PROVE  /\ flat[<<y>> \o B] <=>
              /\ y.kind # "block" /\ (y.kind = "return" => B = <<>>)
              /\ y.kind = "if" => flat[y.then] /\ flat[y.else]
              /\ y.kind = "loop" => flat[y.body]
              /\ flat[B]
         /\ controlIsShallow[<<y>> \o B] <=>
              /\ y.kind = "if" =>
                   /\ controls[y.then] = {} \/ controls[y.else] = {}
                   /\ \A arm \in {y.then, y.else} :
                        controlIsShallow[arm] /\ firstControlIsDirect[arm]
              /\ y.kind = "loop" => controlIsShallow[y.body]
              /\ ~(y.kind \in LoopControl \/ ControllingIf(y, LoopControl)) => controlIsShallow[B]
         /\ firstControlIsDirect[<<y>> \o B] <=>
              ~ControllingIf(y, LoopControl)
                /\ (y.kind \notin LoopControl => firstControlIsDirect[B])
         /\ ~returnsInside[<<y>> \o B] =>
              /\ y.kind = "if" => /\ ~Returns(y.then) /\ ~returnsInside[y.then]
                                  /\ ~Returns(y.else) /\ ~returnsInside[y.else]
              /\ y.kind = "loop" => ~Returns(y.body) /\ ~returnsInside[y.body]
              /\ ~returnsInside[B]
<1>. DEFINE C == <<y>> \o B
<1>1. C # <<>> /\ Head(C) = y /\ Tail(C) = B /\ C \in Code
  BY ConsOfCode
<1>. HIDE DEF C
<1>2. flat[C] = FlatStep(flat, C)
  BY <1>1, FlatUnfolded
<1>3. flat[C] <=>
        /\ y.kind # "block" /\ (y.kind = "return" => B = <<>>)
        /\ y.kind = "if" => flat[y.then] /\ flat[y.else]
        /\ y.kind = "loop" => flat[y.body]
        /\ flat[B]
  BY <1>1, <1>2 DEF FlatStep
<1>4. controlIsShallow[C] = ShallowStep(controlIsShallow, C)
  BY <1>1, ShallowUnfolded
<1>5. controlIsShallow[C] <=>
        /\ y.kind = "if" =>
             /\ controls[y.then] = {} \/ controls[y.else] = {}
             /\ \A arm \in {y.then, y.else} :
                  controlIsShallow[arm] /\ firstControlIsDirect[arm]
        /\ y.kind = "loop" => controlIsShallow[y.body]
        /\ ~(y.kind \in LoopControl \/ ControllingIf(y, LoopControl)) => controlIsShallow[B]
  BY <1>1, <1>4 DEF ShallowStep
<1>6. firstControlIsDirect[C] = DirectStep(firstControlIsDirect, C)
  BY <1>1, DirectUnfolded
<1>7. firstControlIsDirect[C] <=>
        ~ControllingIf(y, LoopControl)
          /\ (y.kind \notin LoopControl => firstControlIsDirect[B])
  BY <1>1, <1>6 DEF DirectStep
<1>8. returnsInside[C] = ReturnsStep(returnsInside, C)
  BY <1>1, ReturnsInsideUnfolded
<1>9. ~returnsInside[C] =>
        /\ y.kind = "if" => /\ ~Returns(y.then) /\ ~returnsInside[y.then]
                            /\ ~Returns(y.else) /\ ~returnsInside[y.else]
        /\ y.kind = "loop" => ~Returns(y.body) /\ ~returnsInside[y.body]
        /\ ~returnsInside[B]
  BY <1>1, <1>8 DEF ReturnsStep
<1>. QED
  BY <1>3, <1>5, <1>7, <1>9 DEF C

\* Of an empty block.
LEMMA ShapesEmpty ==
  ASSUME MaxNesting \in Nat
  PROVE  <<>> \in Code /\ flat[<<>>] /\ controlIsShallow[<<>>] /\ firstControlIsDirect[<<>>]
<1>1. <<>> \in Code
  BY DEF Code
<1>2. /\ flat[<<>>] = FlatStep(flat, <<>>)
      /\ controlIsShallow[<<>>] = ShallowStep(controlIsShallow, <<>>)
      /\ firstControlIsDirect[<<>>] = DirectStep(firstControlIsDirect, <<>>)
  BY <1>1, FlatUnfolded, ShallowUnfolded, DirectUnfolded
<1>3. /\ FlatStep(flat, <<>>) /\ ShallowStep(controlIsShallow, <<>>)
      /\ DirectStep(firstControlIsDirect, <<>>)
  BY DEF FlatStep, ShallowStep, DirectStep
<1>. QED
  BY <1>1, <1>2, <1>3

\* Joined code is flat.
LEMMA FlatJoined ==
  ASSUME MaxNesting \in Nat, NEW B \in Code, flat[B]
  PROVE  \A A \in Code : flat[A] /\ ~Returns(A) => flat[A \o B]
<1>. DEFINE G == {A \in Code : flat[A] /\ ~Returns(A) => flat[A \o B]}
<1>1. <<>> \in G
  BY ShapesEmpty, CodeJoins
<1>2. ASSUME NEW y, NEW S \in Code, <<y>> \o S \in Code, S \in G,
             flat[<<y>> \o S], ~Returns(<<y>> \o S)
      PROVE  flat[(<<y>> \o S) \o B]
  <2>1. /\ <<y>> \o (S \o B) = (<<y>> \o S) \o B
        /\ S \o B \in Code /\ <<y>> \o (S \o B) \in Code
    <3>1. <<y>> \o S \in Code
      BY <1>2
    <3>2. S \o B \in Code
      BY CodeJoins
    <3>3. <<y>> \o (S \o B) = (<<y>> \o S) \o B
      <4>1. <<y>> \in Code
        BY <3>1, ConsOfCode
      <4>. QED
        BY <4>1, JoinJoin, SMTT(40) DEF Code
    <3>4. <<y>> \o (S \o B) \in Code
      BY <3>1, ConsJoins
    <3>. QED
      BY <3>2, <3>3, <3>4
  <2>2. /\ y.kind # "block" /\ (y.kind = "return" => S = <<>>)
        /\ y.kind = "if" => flat[y.then] /\ flat[y.else]
        /\ y.kind = "loop" => flat[y.body]
        /\ flat[S]
    BY <1>2, ShapesCons
  <2>3. y.kind # "return"
    <3>1. CASE y.kind = "return"
      <4>1. S = <<>> /\ <<y>> \o <<>> = <<y>>
        BY <2>2, <3>1
      <4>2. Returns(<<y>>)
        BY <3>1, OneReturns
      <4>. QED
        BY <1>2, <4>1, <4>2
    <3>. QED
      BY <3>1
  <2>4. ~Returns(S)
    BY <1>2, <2>3, ConsOfCode
  <2>5. flat[S \o B]
    BY <1>2, <2>2, <2>4
  <2>6. PICK T \in Code : T = S \o B
    BY <2>1
  <2>7. <<y>> \o T \in Code /\ flat[T]
    BY <2>1, <2>5, <2>6, Zenon
  <2>8. flat[<<y>> \o T]
    BY <2>2, <2>3, <2>7, ShapesCons
  <2>. QED
    BY <2>1, <2>6, <2>8, Zenon
<1>3. Code \subseteq G
  <2>1. \A y : \A S \in Code : <<y>> \o S \in Code /\ S \in G => <<y>> \o S \in G
    BY <1>2
  <2>. HIDE DEF G
  <2>. QED
    BY <1>1, <2>1, ListInduction
<1>. QED
  BY <1>3

\* What is built is flat.
LEMMA BuiltIsFlat ==
  ASSUME MaxNesting \in Nat
  PROVE  \A S \in Code : flat[Built(S)]
<1>. DEFINE A == {S \in Code : flat[Built(S)]}
<1>1. ASSUME NEW S \in Code, Inside(S) \subseteq A
      PROVE  flat[Built(S)]
  <2>1. CASE S = <<>>
    BY <2>1, BuiltIsCode, ShapesEmpty
  <2>2. CASE S # <<>>
    <3>. DEFINE op == Head(S)
    <3>1. Inside(S) = {Tail(S)} \cup Nested(op) /\ IsStatement(op, Code) /\ Tail(S) \in Code
      BY <2>2, PartsOfCode
    <3>2. flat[Built(Tail(S))] /\ Built(Tail(S)) \in Code /\ Built(S) \in Code
      BY <1>1, <3>1, BuiltIsCode
    <3>3. /\ op.kind = "if" => flat[Built(op.then)] /\ flat[Built(op.else)]
          /\ op.kind \in {"loop", "block"} => flat[Built(op.body)] /\ op.body \in Code
      BY <1>1, <3>1 DEF Nested
    <3>4. PICK T \in Code : T = Built(Tail(S))
      BY <3>2
    <3>5. ASSUME NEW y, Built(S) = <<y>> \o T, y.kind # "block", y.kind # "return",
                 y.kind = "if" => flat[y.then] /\ flat[y.else],
                 y.kind = "loop" => flat[y.body]
          PROVE  flat[Built(S)]
      <4>1. <<y>> \o T \in Code /\ flat[T]
        BY <3>2, <3>4, <3>5, Zenon
      <4>2. flat[<<y>> \o T]
        BY <3>5, <4>1, ShapesCons
      <4>. QED
        BY <3>5, <4>2, Zenon
    <3>6. CASE op.kind = "effect"
      <4>1. Built(S) = <<op>> \o T
        BY <2>2, <3>4, <3>6, BuiltCons
      <4>. QED
        BY <3>5, <3>6, <4>1
    <3>7. CASE op.kind = "if"
      <4>1. PICK y : y = If(op.id, Built(op.then), Built(op.else), op.hasElse)
        OBVIOUS
      <4>2. Built(S) = <<y>> \o T
        BY <2>2, <3>4, <3>7, <4>1, BuiltCons
      <4>3. y.kind = "if" /\ y.then = Built(op.then) /\ y.else = Built(op.else)
        BY <4>1 DEF If
      <4>. QED
        BY <3>3, <3>5, <3>7, <4>2, <4>3
    <3>8. CASE op.kind = "loop"
      <4>1. PICK y : y = IRLoop(op)
        OBVIOUS
      <4>2. Built(S) = <<y>> \o T
        BY <2>2, <3>4, <3>8, <4>1, BuiltCons
      <4>3. y.kind = "loop" /\ y.body = Built(op.body)
        BY <4>1 DEF IRLoop, Loop
      <4>. QED
        BY <3>3, <3>5, <3>8, <4>2, <4>3
    <3>9. CASE op.kind \in {"break", "continue", "return"}
      <4>1. Built(S) = <<op>> /\ <<op>> \o <<>> = <<op>>
        <5>1. Built(S) = <<op>>
          BY <2>2, <3>9, BuiltCons, Zenon
        <5>. QED
          BY <5>1
      <4>2. <<op>> \o <<>> \in Code
        BY <3>2, <4>1
      <4>3. flat[<<op>> \o <<>>]
        BY <3>9, <4>2, ShapesCons, ShapesEmpty
      <4>. QED
        BY <4>1, <4>3, Zenon
    <3>10. CASE op.kind = "block"
      <4>1. Built(S) = IF Returns(Built(op.body)) THEN Built(op.body)
                       ELSE Built(op.body) \o Built(Tail(S))
        BY <2>2, <3>10, BuiltCons
      <4>2. PICK X \in Code : X = Built(op.body)
        BY <3>3, <3>10, BuiltIsCode
      <4>3. flat[X] /\ (~Returns(X) => flat[X \o T])
        BY <3>2, <3>3, <3>4, <3>10, <4>2, FlatJoined
      <4>4. Built(S) = IF Returns(X) THEN X ELSE X \o T
        BY <3>4, <4>1, <4>2, Zenon
      <4>. QED
        BY <4>3, <4>4
    <3>. QED
      BY <3>1, <3>6, <3>7, <3>8, <3>9, <3>10 DEF IsStatement
  <2>. QED
    BY <2>1, <2>2
<1>2. Code \subseteq A
  <2>1. \A S \in Code : Inside(S) \subseteq A => S \in A
    BY <1>1
  <2>. HIDE DEF A
  <2>. QED
    BY <2>1, CodeInduction
<1>. QED
  BY <1>2

-----------------------------------------------------------------------------
(* Which regions are accepted.                                             *)

\* How a block is lowered, and what its shape says of that.
ShapeFits(B, p) ==
  LET r == Low(B, p) IN
  /\ r.ok <=> controlIsShallow[B]
  /\ controlIsShallow[B] =>
       /\ r.end = Complete <=> controls[B] = {}
       /\ (r.end = Complete \/ r.yields) <=> firstControlIsDirect[B]

\* Where a block may be lowered: returns are for functions, loop control is for
\* loops.
MayBeAt(B, p) ==
  (p = Function \/ ~Returns(B)) /\ (p.loop = NoLoop => controls[B] = {})

Shaped(B) ==
  flat[B] /\ ~returnsInside[B] => \A p \in Places : MayBeAt(B, p) => ShapeFits(B, p)

\* A statement that is lowered as one instruction before the rest, and has no
\* loop control.
LEMMA FirstIsShaped ==
  ASSUME MaxNesting \in Nat, NEW y, NEW B \in Code, <<y>> \o B \in Code,
         NEW p \in Places, ShapeFits(B, p),
         NEW code, NEW k \in BOOLEAN,
         Low(<<y>> \o B, p) = After(code, k, Low(B, p)),
         controls[<<y>> \o B] = controls[B],
         controlIsShallow[<<y>> \o B] <=> k /\ controlIsShallow[B],
         firstControlIsDirect[<<y>> \o B] <=> firstControlIsDirect[B]
  PROVE  ShapeFits(<<y>> \o B, p)
<1>. DEFINE C == <<y>> \o B
            r == Low(C, p)
            s == Low(B, p)
<1>1. s \in Regions(Items) /\ r = After(code, k, s)
  BY LowIsRegion
<1>. HIDE DEF r, s
<1>2. r.end = s.end /\ r.yields = s.yields /\ (r.ok <=> k /\ s.ok)
  <2>1. s.ok \in BOOLEAN
    BY <1>1 DEF Regions
  <2>. QED
    BY <1>1, <2>1 DEF After, Region
<1>3. /\ s.ok <=> controlIsShallow[B]
      /\ controlIsShallow[B] =>
           /\ s.end = Complete <=> controls[B] = {}
           /\ (s.end = Complete \/ s.yields) <=> firstControlIsDirect[B]
  BY DEF ShapeFits, s
<1>. HIDE DEF C
<1>4. /\ r.ok <=> controlIsShallow[C]
      /\ controlIsShallow[C] =>
           /\ r.end = Complete <=> controls[C] = {}
           /\ (r.end = Complete \/ r.yields) <=> firstControlIsDirect[C]
  BY <1>2, <1>3 DEF C
<1>. QED
  BY <1>4 DEF ShapeFits, r, C

\* An if whose arms are lowered.
LEMMA IfIsShaped ==
  ASSUME MaxNesting \in Nat, NEW y, NEW B \in Code, <<y>> \o B \in Code,
         y.kind = "if", ifIsFallthroughShape(y),
         NEW p \in Places, ShapeFits(B, p),
         y.then \in Code, y.else \in Code,
         ShapeFits(y.then, Arm(p.loop)), ShapeFits(y.else, Arm(p.loop))
  PROVE  ShapeFits(<<y>> \o B, p)
<1>. DEFINE C == <<y>> \o B
            then == Low(y.then, Arm(p.loop))
            else == Low(y.else, Arm(p.loop))
            joined == joinArms(y, then, else)
            own == controls[y.then] \cup controls[y.else]
            fine == /\ controls[y.then] = {} \/ controls[y.else] = {}
                    /\ controlIsShallow[y.then] /\ firstControlIsDirect[y.then]
                    /\ controlIsShallow[y.else] /\ firstControlIsDirect[y.else]
<1>1. Low(C, p) = IF joined.end # Complete THEN joined ELSE After(joined.code, joined.ok, Low(B, p))
  <2>1. Low(C, p) = lowerOperation(y, p, Low(B, p), lowerRegion)
    BY LowCons
  <2>. QED
    BY <2>1 DEF lowerOperation, Low
<1>2. Arm(p.loop) \in Places /\ then \in Regions(Items) /\ else \in Regions(Items)
  BY PlacesAre, LowIsRegion
<1>3. /\ joined.end = IF then.end # Complete THEN then.end ELSE else.end
      /\ joined.yields = FALSE
      /\ joined.ok <=> /\ then.ok /\ (then.end = Complete \/ then.yields)
                       /\ else.ok /\ (else.end = Complete \/ else.yields)
                       /\ then.end = Complete \/ else.end = Complete
      /\ joined.ok \in BOOLEAN
  <2>. HIDE DEF then, else
  <2>. QED
    BY DEF joinArms, Region
<1>4. /\ then.ok <=> controlIsShallow[y.then]
      /\ controlIsShallow[y.then] =>
           /\ then.end = Complete <=> controls[y.then] = {}
           /\ (then.end = Complete \/ then.yields) <=> firstControlIsDirect[y.then]
      /\ else.ok <=> controlIsShallow[y.else]
      /\ controlIsShallow[y.else] =>
           /\ else.end = Complete <=> controls[y.else] = {}
           /\ (else.end = Complete \/ else.yields) <=> firstControlIsDirect[y.else]
  BY DEF ShapeFits
<1>. HIDE DEF then, else, joined
<1>5. (joined.ok <=> fine) /\ (fine => (joined.end = Complete <=> own = {}))
  BY <1>3, <1>4
<1>6. /\ controls[y.then] \subseteq LoopControl /\ controls[y.else] \subseteq LoopControl
      /\ y.kind \notin LoopControl
  BY ControlsUnfolded DEF LoopControl
<1>7. /\ ControllingIf(y, LoopControl) <=> own # {}
      /\ controls[C] = controls[B] \cup own
  <2>1. ControllingIf(y, LoopControl) <=> own # {}
    BY <1>6 DEF ControllingIf
  <2>2. controls[C] = controls[B] \cup OwnControls(y)
    BY PredicatesCons
  <2>. QED
    BY <1>6, <2>1, <2>2 DEF OwnControls
<1>8. /\ controlIsShallow[C] <=> fine /\ (own = {} => controlIsShallow[B])
      /\ firstControlIsDirect[C] <=> own = {} /\ firstControlIsDirect[B]
  <2>1. /\ controlIsShallow[C] <=>
             /\ y.kind = "if" =>
                  /\ controls[y.then] = {} \/ controls[y.else] = {}
                  /\ \A arm \in {y.then, y.else} :
                       controlIsShallow[arm] /\ firstControlIsDirect[arm]
             /\ y.kind = "loop" => controlIsShallow[y.body]
             /\ ~(y.kind \in LoopControl \/ ControllingIf(y, LoopControl)) => controlIsShallow[B]
        /\ firstControlIsDirect[C] <=>
             ~ControllingIf(y, LoopControl)
               /\ (y.kind \notin LoopControl => firstControlIsDirect[B])
    BY ShapesCons, Zenon
  <2>. HIDE DEF C
  <2>. QED
    BY <1>6, <1>7, <2>1
<1>. HIDE DEF C, own, fine
<1>9. CASE joined.end # Complete
  <2>1. Low(C, p) = joined
    BY <1>1, <1>9
  <2>2. /\ joined.ok <=> controlIsShallow[C]
        /\ controlIsShallow[C] =>
             /\ joined.end = Complete <=> controls[C] = {}
             /\ (joined.end = Complete \/ joined.yields) <=> firstControlIsDirect[C]
    <3>1. fine => own # {}
      BY <1>5, <1>9
    <3>2. own # {} => controls[C] # {}
      BY <1>7
    <3>. QED
      BY <1>3, <1>5, <1>8, <1>9, <3>1, <3>2
  <2>3. ShapeFits(C, p)
    BY <2>1, <2>2 DEF ShapeFits
  <2>. QED
    BY <2>3 DEF C
<1>10. CASE joined.end = Complete /\ fine
  <2>1. own = {} /\ joined.ok
    BY <1>5, <1>10
  <2>2. Low(C, p) = After(joined.code, joined.ok, Low(B, p))
    BY <1>1, <1>10
  <2>3. /\ controls[C] = controls[B]
        /\ controlIsShallow[C] <=> joined.ok /\ controlIsShallow[B]
        /\ firstControlIsDirect[C] <=> firstControlIsDirect[B]
    BY <1>7, <1>8, <1>10, <2>1
  <2>. QED
    BY <1>3, <2>2, <2>3, FirstIsShaped DEF C
<1>11. CASE joined.end = Complete /\ ~fine
  <2>1. ~joined.ok /\ ~controlIsShallow[C]
    BY <1>5, <1>8, <1>11
  <2>2. Low(C, p) = After(joined.code, joined.ok, Low(B, p)) /\ Low(B, p) \in Regions(Items)
    BY <1>1, <1>11, LowIsRegion
  <2>3. ~Low(C, p).ok
    <3>1. \A code, r : ~After(code, joined.ok, r).ok
      BY <2>1 DEF After, Region
    <3>. QED
      BY <2>2, <3>1
  <2>4. ShapeFits(C, p)
    BY <2>1, <2>3 DEF ShapeFits
  <2>. QED
    BY <2>4 DEF C
<1>. QED
  BY <1>9, <1>10, <1>11

\* Every flat block without returns in its ifs and loops is accepted if loop
\* control is shallow in it.
LEMMA AllIsShaped ==
  ASSUME MaxNesting \in Nat
  PROVE  \A B \in Code : Shaped(B)
<1>. DEFINE A == {B \in Code : Shaped(B)}
<1>1. ASSUME NEW p \in Places
      PROVE  ShapeFits(<<>>, p)
  <2>1. Low(<<>>, p) = Region(<<>>, Complete, FALSE, TRUE)
    BY LowIsRegion
  <2>. QED
    <3>1. Low(<<>>, p).ok = TRUE /\ Low(<<>>, p).end = Complete
      BY <2>1 DEF Region
    <3>. QED
      BY <3>1, ShapesEmpty, PredicatesEmpty DEF ShapeFits
<1>2. ASSUME NEW y, NEW B \in A, <<y>> \o B \in Code, Nested(y) \subseteq A,
             flat[<<y>> \o B], ~returnsInside[<<y>> \o B],
             NEW p \in Places, MayBeAt(<<y>> \o B, p)
      PROVE  ShapeFits(<<y>> \o B, p)
  <2>. DEFINE C == <<y>> \o B
  <2>1. /\ B \in Code /\ C \in Code /\ IsStatement(y, Code)
        /\ Low(C, p) = lowerOperation(y, p, Low(B, p), lowerRegion)
        /\ Low(B, p) \in Regions(Items)
    BY <1>2, LowCons, LowIsRegion
  <2>2. /\ y.kind # "block" /\ (y.kind = "return" => B = <<>>)
        /\ y.kind = "if" => flat[y.then] /\ flat[y.else]
        /\ y.kind = "loop" => flat[y.body]
        /\ flat[B]
    BY <1>2, <2>1, ShapesCons, Zenon
  <2>3. /\ y.kind = "if" => /\ ~Returns(y.then) /\ ~returnsInside[y.then]
                            /\ ~Returns(y.else) /\ ~returnsInside[y.else]
        /\ y.kind = "loop" => ~Returns(y.body) /\ ~returnsInside[y.body]
        /\ ~returnsInside[B]
    BY <1>2, <2>1, ShapesCons, Zenon
  <2>4. /\ controls[C] = controls[B] \cup OwnControls(y)
        /\ controlIsShallow[C] <=>
             /\ y.kind = "if" =>
                  /\ controls[y.then] = {} \/ controls[y.else] = {}
                  /\ \A arm \in {y.then, y.else} :
                       controlIsShallow[arm] /\ firstControlIsDirect[arm]
             /\ y.kind = "loop" => controlIsShallow[y.body]
             /\ ~(y.kind \in LoopControl \/ ControllingIf(y, LoopControl)) => controlIsShallow[B]
        /\ firstControlIsDirect[C] <=>
             ~ControllingIf(y, LoopControl)
               /\ (y.kind \notin LoopControl => firstControlIsDirect[B])
    BY <2>1, PredicatesCons, ShapesCons, Zenon
  <2>5. y.kind # "return" => (Returns(C) <=> Returns(B))
    BY <2>1, ConsOfCode
  <2>6. y.kind # "return" => ShapeFits(B, p)
    <3>1. y.kind # "return" => MayBeAt(B, p)
      BY <1>2, <2>4, <2>5 DEF MayBeAt
    <3>2. Shaped(B)
      BY <1>2
    <3>. QED
      BY <2>2, <2>3, <3>1, <3>2 DEF Shaped
  <2>7. \A T \in Nested(y) : T \in Code /\ Shaped(T)
    BY <1>2
  <2>. HIDE DEF C, A
  <2>8. CASE y.kind = "effect"
    <3>1. Low(C, p) = After(<<y>>, TRUE, Low(B, p))
      BY <2>1, <2>8 DEF lowerOperation
    <3>2. /\ controls[C] = controls[B]
          /\ controlIsShallow[C] <=> TRUE /\ controlIsShallow[B]
          /\ firstControlIsDirect[C] <=> firstControlIsDirect[B]
      BY <2>4, <2>8 DEF OwnControls, LoopControl, ControllingIf
    <3>. QED
      BY <2>1, <2>6, <2>8, <3>1, <3>2, FirstIsShaped DEF C
  <2>9. CASE y.kind = "loop"
    <3>1. y.body \in Nested(y) /\ Body(y) \in Places /\ Body(y).loop # NoLoop
      <4>1. y \in LoopsOf(Code)
        BY <2>1, <2>9, LoopsAre
      <4>2. y # NoLoop
        BY <2>9 DEF NoLoop
      <4>. QED
        BY <2>9, <4>1, <4>2, PlacesAre DEF Nested, Body
    <3>2. ShapeFits(y.body, Body(y))
      <4>1. MayBeAt(y.body, Body(y))
        BY <2>3, <2>9, <3>1 DEF MayBeAt
      <4>. QED
        BY <2>2, <2>3, <2>7, <2>9, <3>1, <4>1 DEF Shaped
    <3>3. PICK body : body = Low(y.body, Body(y))
      OBVIOUS
    <3>4. Low(C, p) = After(<<lowerWhile(y, body)>>, body.ok, Low(B, p))
      BY <2>1, <2>9, <3>3 DEF lowerOperation, Low
    <3>5. body.ok \in BOOLEAN /\ (body.ok <=> controlIsShallow[y.body])
      <4>1. body \in Regions(Items)
        BY <2>7, <3>1, <3>3, LowIsRegion
      <4>. QED
        BY <3>2, <3>3, <4>1 DEF Regions, ShapeFits
    <3>6. /\ controls[C] = controls[B]
          /\ controlIsShallow[C] <=> body.ok /\ controlIsShallow[B]
          /\ firstControlIsDirect[C] <=> firstControlIsDirect[B]
      BY <2>4, <2>9, <3>5 DEF OwnControls, LoopControl, ControllingIf
    <3>. QED
      BY <2>1, <2>6, <2>9, <3>4, <3>5, <3>6, FirstIsShaped DEF C
  <2>10. CASE y.kind = "if"
    <3>1. /\ y.then \in Nested(y) /\ y.else \in Nested(y)
          /\ Arm(p.loop) \in Places /\ Arm(p.loop).loop = p.loop
      BY <2>10, PlacesAre DEF Nested, Arm
    <3>2. controls[y.then] \cup controls[y.else] \subseteq controls[C]
      BY <2>4, <2>10 DEF OwnControls, LoopControl
    <3>3. MayBeAt(y.then, Arm(p.loop)) /\ MayBeAt(y.else, Arm(p.loop))
      <4>1. p.loop = NoLoop => controls[C] = {}
        BY <1>2 DEF MayBeAt, C
      <4>. QED
        BY <2>3, <2>10, <3>1, <3>2, <4>1 DEF MayBeAt
    <3>4. ShapeFits(y.then, Arm(p.loop)) /\ ShapeFits(y.else, Arm(p.loop))
      BY <2>2, <2>3, <2>7, <2>10, <3>1, <3>3 DEF Shaped
    <3>5. ifIsFallthroughShape(y)
      BY <2>3, <2>10 DEF ifIsFallthroughShape
    <3>. QED
      BY <2>1, <2>6, <2>7, <2>10, <3>1, <3>4, <3>5, IfIsShaped DEF C
  <2>11. CASE y.kind \in LoopControl
    <3>1. controls[C] # {} /\ controlIsShallow[C] /\ firstControlIsDirect[C]
      BY <2>4, <2>11 DEF OwnControls, LoopControl, ControllingIf
    <3>2. p.loop # NoLoop
      BY <1>2, <3>1 DEF MayBeAt, C
    <3>3. /\ Low(C, p).ok /\ Low(C, p).yields
          /\ Low(C, p).end = ControlEnd(p)
      <4>1. CASE y.kind = "break"
        <5>1. Low(C, p) = lowerBreak(p)
          BY <2>1, <3>2, <4>1 DEF lowerOperation
        <5>. QED
          BY <5>1 DEF lowerBreak, Region
      <4>2. CASE y.kind = "continue"
        <5>1. Low(C, p) = lowerContinue(p)
          BY <2>1, <3>2, <4>2 DEF lowerOperation
        <5>. QED
          BY <5>1 DEF lowerContinue, Region
      <4>. QED
        BY <2>11, <4>1, <4>2 DEF LoopControl
    <3>4. ControlEnd(p) # Complete
      BY DEF ControlEnd, IterationClosed, NestedLoopControl, Complete
    <3>5. ShapeFits(C, p)
      BY <3>1, <3>3, <3>4 DEF ShapeFits
    <3>. QED
      BY <3>5 DEF C
  <2>12. CASE y.kind = "return"
    <3>1. B = <<>> /\ C = <<y>>
      BY <2>2, <2>12 DEF C
    <3>2. Returns(C)
      BY <2>12, <3>1, OneReturns
    <3>3. p = Function
      BY <1>2, <3>2 DEF MayBeAt, C
    <3>4. Low(C, p) = Region(<<>>, Complete, FALSE, TRUE)
      BY <2>1, <2>12, <3>3 DEF lowerOperation
    <3>5. controls[C] = {} /\ controlIsShallow[C] /\ firstControlIsDirect[C]
      BY <2>4, <2>12, <3>1, ShapesEmpty, PredicatesEmpty DEF OwnControls, LoopControl, ControllingIf
    <3>6. ShapeFits(C, p)
      <4>1. Low(C, p).ok = TRUE /\ Low(C, p).end = Complete
        BY <3>4 DEF Region
      <4>. QED
        BY <3>5, <4>1 DEF ShapeFits
    <3>. QED
      BY <3>6 DEF C
  <2>. QED
    BY <2>1, <2>2, <2>8, <2>9, <2>10, <2>11, <2>12 DEF IsStatement, LoopControl
<1>3. ASSUME NEW S \in Code, Inside(S) \subseteq A
      PROVE  S \in A
  <2>1. CASE S = <<>>
    BY <1>1, <2>1 DEF Shaped
  <2>2. CASE S # <<>>
    <3>1. /\ S = <<Head(S)>> \o Tail(S) /\ Tail(S) \in Code
          /\ Inside(S) = {Tail(S)} \cup Nested(Head(S))
      BY <2>2, PartsOfCode
    <3>2. PICK y, B : y = Head(S) /\ B = Tail(S)
      OBVIOUS
    <3>3. S = <<y>> \o B /\ B \in A /\ Nested(y) \subseteq A
      BY <1>3, <3>1, <3>2
    <3>. HIDE DEF A
    <3>4. Shaped(S)
      BY <1>2, <3>3 DEF Shaped
    <3>. QED
      BY <3>4 DEF A
  <2>. QED
    BY <2>1, <2>2
<1>4. Code \subseteq A
  <2>. HIDE DEF A
  <2>. QED
    BY <1>3, CodeInduction
<1>. QED
  BY <1>4

\* Programs without returns in nested statements, as they are lowered.
LEMMA ShallowIsLowered ==
  ASSUME NEW body \in Programs, ~returnsInside[Built(body)]
  PROVE  lowerBlock(Built(body)).ok <=> controlIsShallow[Built(body)]
<1>. DEFINE B == Built(body)
<1>1. MaxNesting \in Nat /\ body \in Code
  BY ProgramsAssumption
<1>2. B \in Code /\ flat[B]
  BY <1>1, BuiltIsCode, BuiltIsFlat
<1>3. controls[B] = {}
  BY ControlAssumption DEF Built
<1>. HIDE DEF B
<1>4. Function \in Places /\ MayBeAt(B, Function)
  BY <1>3, PlacesAre DEF MayBeAt
<1>5. ShapeFits(B, Function)
  BY <1>1, <1>2, <1>4, AllIsShaped DEF Shaped, B
<1>6. lowerBlock(B).ok = Low(B, Function).ok
  BY DEF lowerBlock, Low
<1>. QED
  BY <1>5, <1>6 DEF ShapeFits, B

\* A program is running if it was lowered, and rejected if not.
StatusInv ==
  /\ program \in Programs
  /\ status \in {"source", "running", "rejected"}
  /\ status = "running" => lowerBlock(IR).ok
  /\ status = "rejected" => ~lowerBlock(IR).ok

\* In every behaviour.
LEMMA StatusInvHolds == Spec => []StatusInv
<1>1. Init => StatusInv
  BY DEF Init, StatusInv
<1>2. StatusInv /\ [Next]_vars => StatusInv'
  <2>. SUFFICES ASSUME StatusInv, [Next]_vars
                PROVE  StatusInv'
    OBVIOUS
  <2>1. CASE Compile
    <3>1. program' = program /\ IR' = IR
      BY <2>1 DEF Compile, IR
    <3>2. lowerBlock(IR)' = lowerBlock(IR)
      BY <3>1 DEF lowerBlock
    <3>3. status' = IF lowerBlock(IR).ok THEN "running" ELSE "rejected"
      BY <2>1 DEF Compile
    <3>. QED
      BY <3>1, <3>2, <3>3 DEF StatusInv
  <2>2. CASE UNCHANGED <<program, status>>
    <3>1. IR' = IR
      BY <2>2 DEF IR
    <3>2. lowerBlock(IR)' = lowerBlock(IR)
      BY <3>1 DEF lowerBlock
    <3>. QED
      BY <2>2, <3>2 DEF StatusInv
  <2>3. Compile \/ UNCHANGED <<program, status>>
    BY DEF Next, vars, EnterBlock, RunContinue, RunSetExit, PerformEffect,
           EvaluateCondition, LeaveLoop, Both
  <2>. QED
    BY <2>1, <2>2, <2>3
<1>. QED
  BY <1>1, <1>2, PTL DEF Spec

\* ShallowControlIsLowered, for every set of programs: without returns in nested
\* statements, textual.cpp lowers exactly the programs whose loop control is at
\* most one if deep and in one arm of it.
THEOREM ShallowIsAccepted == Spec => []ShallowControlIsLowered
<1>1. StatusInv => ShallowControlIsLowered
  <2>1. SUFFICES ASSUME StatusInv, ~returnsInside[IR], status # "source"
                 PROVE  status = "running" <=> controlIsShallow[IR]
    BY DEF ShallowControlIsLowered
  <2>2. lowerBlock(IR).ok <=> controlIsShallow[IR]
    BY <2>1, ShallowIsLowered DEF StatusInv, IR, Built
  <2>. QED
    BY <2>1, <2>2 DEF StatusInv
<1>. QED
  BY <1>1, StatusInvHolds, PTL
=============================================================================
