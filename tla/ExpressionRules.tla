-------------------------- MODULE ExpressionRules --------------------------
(***************************************************************************)
(* What the language reference says of expressions (docs/reference/        *)
(* language/expressions.md and types.md): which types one may have, and    *)
(* what it computes.  The properties compare ExpressionLowering with it.   *)
(***************************************************************************)
EXTENDS ExpressionLowering

-----------------------------------------------------------------------------
(* The types an expression may have, from the inside to the outside: an    *)
(* integer literal has every type it fits.                                 *)

IntegerTypes == {I32, U32}
Numeric == IntegerTypes \cup {F64}
Conditions == IntegerTypes \cup {Bool}

\* The value of an expression of literals and operators that stays within the signed
\* numbers, as a set of at most one.
LiteralNumbers == 0 .. maxIntegerValue(I32)

Exactly(op, v, l, r) ==
  CASE op = "+" -> v = l + r
    [] op = "-" -> v = l - r
    [] op = "*" -> v = l * r
    [] op = "/" -> r /= 0 /\ v \in LiteralNumbers /\ v * r <= l /\ l < (v + 1) * r
    [] op = "%" -> r /= 0 /\ v < r /\ \E q \in LiteralNumbers : l = q * r + v
    [] op = "<<" -> r < Width /\ v = l * 2 ^ r
    [] op = ">>" -> r < Width /\ v * 2 ^ r <= l /\ l < (v + 1) * 2 ^ r
    [] op = "&" -> v = l & r
    [] op = "|" -> v = l | r
    [] op = "^" -> v = l ^^ r
    [] OTHER -> FALSE

RECURSIVE LiteralValue(_)
LiteralValue(e) ==
  CASE e.form = "int" -> {e.value} \cap LiteralNumbers
    [] e.form = "binary" ->
         {v \in LiteralNumbers : \E l \in LiteralValue(e.x), r \in LiteralValue(e.y) : Exactly(e.op, v, l, r)}
    [] OTHER -> {}

\* The value of an expression of literals, whatever the size of a literal alone; and the
\* constant value of a shift count: also that of a constant whose initializer is such an
\* expression.
LiteralOf(e) == IF e.form = "int" THEN {e.value} ELSE LiteralValue(e)

ConstantCount(e, scope) ==
  IF e.form = "name" /\ e.name \in DOMAIN scope /\ scope[e.name].isConst
  THEN UNION {LiteralOf(c.init) : c \in {c \in ToSet(program.consts) : c.name = e.name}}
  ELSE LiteralOf(e)

\* A constant shift count is smaller than the width of the shifted type.
CountFits(e, scope) == \A n \in ConstantCount(e, scope) : n < Width

RECURSIVE TypesOf(_, _)
TypesOf(e, scope) ==
  CASE e.form = "int" -> {t \in IntegerTypes : e.value <= maxIntegerValue(t)}
    [] e.form = "float" -> {F64}
    [] e.form = "bool" -> {Bool}
    [] e.form = "str" -> {StrType}
    [] e.form = "name" -> IF e.name \in DOMAIN scope THEN {scope[e.name].type} ELSE {}
    [] e.form = "call" ->
         IF /\ e.name \in DOMAIN Functions
            /\ Len(e.args) = Len(Functions[e.name].params)
            /\ \A i \in DOMAIN e.args : Functions[e.name].params[i] \in TypesOf(e.args[i], scope)
         THEN {Functions[e.name].result} ELSE {}
    [] e.form = "unary" ->
         LET of == TypesOf(e.x, scope)
         IN  (CASE e.op = "&" ->
                    IF e.x.form = "name" /\ e.x.name \in DOMAIN scope /\ scope[e.x.name].mutable
                    THEN {PointerTo(t) : t \in of \cap (Numeric \cup {Bool})} ELSE {}
               [] e.op = "*" -> {pointee(t) : t \in {t \in of : isPointer(t)}}
               [] e.op = "!" -> IF of \cap Conditions /= {} THEN {Bool} ELSE {}
               [] e.op = "-" -> of \cap Numeric
               [] e.op = "~" -> of \cap IntegerTypes)
    [] e.form = "binary" ->
         LET l == TypesOf(e.x, scope)
             r == TypesOf(e.y, scope)
         IN  (CASE e.op \in Logical -> IF l \cap Conditions /= {} /\ r \cap Conditions /= {} THEN {Bool} ELSE {}
               [] e.op \in Comparisons -> IF l \cap r \cap Numeric /= {} THEN {Bool} ELSE {}
               [] e.op \in Equalities -> IF (l \cap r) \ {Void} /= {} THEN {Bool} ELSE {}
               [] e.op \in Arithmetic \ {"%"} -> l \cap r \cap Numeric
               [] e.op \in Shifts -> IF CountFits(e.y, scope) THEN l \cap r \cap IntegerTypes ELSE {}
               [] OTHER -> l \cap r \cap IntegerTypes)
    [] e.form = "array" ->
         LET elements == {TypesOf(e.args[i], scope) : i \in DOMAIN e.args}
         IN  {ArrayType(t, Len(e.args)) : t \in {t \in UNION elements \ {Void, StrType} : ~isPointer(t) /\ \A s \in elements : t \in s}}
    [] e.form = "index" ->
         IF TypesOf(e.y, scope) \cap IntegerTypes = {} THEN {}
         ELSE {afterIndex(t) : t \in {t \in TypesOf(e.x, scope) :
                 isFixedArray(t) /\ \A v \in LiteralValue(e.y) : v < Head(t.dims)}}

\* Of the types it may have, the one it has where nothing else is asked: a literal is an i32.
Default(types) ==
  IF I32 \in types THEN I32 ELSE IF types = {} THEN Invalid ELSE CHOOSE t \in types : TRUE

-----------------------------------------------------------------------------
(* What an expression of a type computes: numbers with their signs, the    *)
(* calls made on the way, and whether the reference defines the result.    *)

Decode(type, v) == IF isInteger(type) THEN numberOf(type, v) ELSE v
Encode(type, v) == IF isInteger(type) THEN bitsOf(v) ELSE v
Wrap(type, n) == Decode(type, bitsOf(n))

Truth(v) == IF v THEN 1 ELSE 0
Result(v, made, defined) == [value |-> v, calls |-> made, defined |-> defined]

\* Division as in the reference: towards zero, so that the remainder has the sign of n.
Divided(n, d) ==
  CHOOSE q \in -(2 ^ Width) .. 2 ^ Width :
    LET r == n - q * d
    IN  /\ r \in (IF d < 0 THEN d + 1 ELSE 1 - d) .. (IF d < 0 THEN -d - 1 ELSE d - 1)
        /\ r = 0 \/ (r < 0) = (n < 0)

ArithmeticValue(op, type, l, r) ==
  LET count == bitsOf(r)
  IN  CASE isFloat(type) -> Opaque
        [] op = "+" -> Wrap(type, l + r)
        [] op = "-" -> Wrap(type, l - r)
        [] op = "*" -> Wrap(type, l * r)
        [] op = "/" -> Divided(l, r)
        [] op = "%" -> l - r * Divided(l, r)
        [] op = "&" -> Wrap(type, bitsOf(l) & bitsOf(r))
        [] op = "|" -> Wrap(type, bitsOf(l) | bitsOf(r))
        [] op = "^" -> Wrap(type, bitsOf(l) ^^ bitsOf(r))
        [] op = "<<" -> Wrap(type, l * 2 ^ count)
        [] op = ">>" -> l \div 2 ^ count

\* Division by zero and shifts by the width or more are not defined.  The least integer
\* divided by -1 is left out too: signed arithmetic wraps (types.md:55), but arith.divsi
\* does not define it.
ArithmeticDefined(op, type, l, r) ==
  \/ isFloat(type)
  \/ /\ op \in {"/", "%"} => r /= 0 /\ (isSigned(type) => ~(l = -(2 ^ (Width - 1)) /\ r = -1))
     /\ op \in Shifts => bitsOf(r) < Width

\* An index is one of the array; one of an unsigned type is left out here when it is
\* above the signed numbers: the lowering extends its sign.
IndexDefined(i, n) == i >= 0 /\ i < n /\ i < 2 ^ (Width - 1)

\* The values so far and one more, of which value is kept.
Then(sofar, v, value) == IF v.defined THEN Result(Append(sofar.value, value), v.calls, TRUE) ELSE Result(0, v.calls, FALSE)

\* Operands are evaluated from left to right; made are the calls made before.
RECURSIVE Eval(_, _, _, _)
Eval(e, type, scope, made) ==
  LET default(x) == Default(TypesOf(x, scope))
      globals == [n \in {n \in DOMAIN scope : scope[n].isConst} |-> scope[n]]
      sequence(es, typeAt(_)) ==
        FoldLeft(LAMBDA acc, i :
                   LET v == Eval(es[i], typeAt(i), scope, acc.calls)
                   IN  IF acc.defined THEN Then(acc, v, v.value) ELSE acc,
                 Result(<<>>, made, TRUE), [i \in DOMAIN es |-> i])
  IN  CASE e.form = "int" -> Result(e.value, made, TRUE)
        [] e.form \in {"float", "str"} -> Result(Opaque, made, TRUE)
        [] e.form = "bool" -> Result(e.value, made, TRUE)
        [] e.form = "name" ->
             IF scope[e.name].isConst
             THEN Eval((CHOOSE c \in ToSet(program.consts) : c.name = e.name).init, type, globals, made)
             ELSE Result(Decode(type, world.locals[e.name]), made, TRUE)
        [] e.form = "call" ->
             LET f == Functions[e.name]
                 args == sequence(e.args, LAMBDA i : f.params[i])
                 made2 == Append(args.calls, <<e.name>> \o [i \in DOMAIN args.value |-> Encode(f.params[i], args.value[i])])
             IN  IF args.defined
                 THEN Result(IF f.result = Void THEN 0 ELSE Decode(f.result, world.results[e.name]), made2, TRUE)
                 ELSE args
        [] e.form = "unary" /\ e.op = "&" -> Result(e.x.name, made, TRUE)
        [] e.form = "unary" /\ e.op /= "&" ->
             LET of == CASE e.op = "*" -> PointerTo(type) [] e.op = "!" -> default(e.x) [] OTHER -> type
                 x == Eval(e.x, of, scope, made)
             IN  IF ~x.defined THEN x
                 ELSE Result(CASE e.op = "*" -> Decode(type, world.locals[x.value])
                               [] e.op = "!" -> Truth(x.value = 0)
                               [] e.op = "-" -> IF isFloat(type) THEN Opaque ELSE Wrap(type, -x.value)
                               [] e.op = "~" -> Wrap(type, -x.value - 1), x.calls, TRUE)
        [] e.form = "binary" /\ e.op \in Logical ->
             LET x == Eval(e.x, default(e.x), scope, made)
                 y == Eval(e.y, default(e.y), scope, x.calls)
                 decided == IF e.op = "&&" THEN x.value = 0 ELSE x.value /= 0
             IN  IF ~x.defined THEN x
                 ELSE IF decided THEN Result(Truth(x.value /= 0), x.calls, TRUE)
                 ELSE IF ~y.defined THEN y
                 ELSE Result(Truth(y.value /= 0), y.calls, TRUE)
        [] e.form = "binary" /\ e.op \notin Logical ->
             LET of == IF e.op \in Comparisons \cup Equalities
                       THEN Default(TypesOf(e.x, scope) \cap TypesOf(e.y, scope)) ELSE type
                 both == sequence(<<e.x, e.y>>, LAMBDA i : of)
             IN  IF ~both.defined THEN both
                 ELSE IF e.op \in Comparisons \cup Equalities
                 THEN Result(Truth(isFloat(of) \/ compare(e.op, both.value[1], both.value[2])), both.calls, TRUE)
                 ELSE IF ArithmeticDefined(e.op, of, both.value[1], both.value[2])
                 THEN Result(ArithmeticValue(e.op, of, both.value[1], both.value[2]), both.calls, TRUE)
                 ELSE Result(0, both.calls, FALSE)
        [] e.form = "array" ->
             LET elements == sequence(e.args, LAMBDA i : afterIndex(type))
             IN  [elements EXCEPT !.value = [i \in DOMAIN @ |-> Encode(afterIndex(type), @[i])]]
        [] e.form = "index" ->
             LET base == Eval(e.x, default(e.x), scope, made)
                 index == Eval(e.y, default(e.y), scope, base.calls)
             IN  IF ~base.defined THEN base ELSE IF ~index.defined THEN index
                 ELSE IF IndexDefined(index.value, Len(base.value))
                 THEN Result(Decode(type, base.value[index.value + 1]), index.calls, TRUE)
                 ELSE Result(0, index.calls, FALSE)

-----------------------------------------------------------------------------
(* What the properties need to know of a program                           *)

Scope == functionScope(program)
Globals == constScope(program)
Statement == program.stmt

RECURSIVE Parts(_)
Parts(e) ==
  {e} \cup (CASE e.form \in {"call", "array"} -> UNION {Parts(e.args[i]) : i \in DOMAIN e.args}
             [] e.form = "unary" -> Parts(e.x)
             [] e.form \in {"binary", "index"} -> Parts(e.x) \cup Parts(e.y)
             [] OTHER -> {})

\* The expressions of the statement, in the order they are evaluated in.
Operands ==
  CASE Statement.kind = "store" -> Statement.indices \o <<Statement.e>>
    [] Statement.kind = "put" -> <<Statement.x, Statement.e>>
    [] OTHER -> <<Statement.e>>

StatementParts == UNION {Parts(Operands[i]) : i \in DOMAIN Operands}
Inits == {c.init : c \in ToSet(program.consts)}

Named(e) == {n.name : n \in {n \in Parts(e) : n.form = "name"}}
ConstsNamedBy(n) == Named((CHOOSE c \in ToSet(program.consts) : c.name = n).init) \cap DOMAIN Globals

\* The constants a use of any of ns leads to, and those the statement uses.
Reached(ns) ==
  LET more(reached) == reached \cup UNION {ConstsNamedBy(n) : n \in reached}
  IN  FoldLeft(LAMBDA acc, c : more(acc), ns, program.consts)

UsedConsts ==
  Reached({n \in UNION {Named(Operands[i]) : i \in DOMAIN Operands} : n \in DOMAIN Scope /\ Scope[n].isConst})

UsedInits == {c.init : c \in {c \in ToSet(program.consts) : c.name \in UsedConsts}}

\* The first operand is a literal, whose type comes from outside of the expression.
RECURSIVE LiteralLed(_)
LiteralLed(e) ==
  CASE e.form \in {"int", "float"} -> TRUE
    [] e.form = "unary" -> e.op \in {"-", "~"} /\ LiteralLed(e.x)
    [] e.form = "binary" -> e.op \notin Logical \cup Comparisons \cup Equalities /\ LiteralLed(e.x)
    [] e.form = "array" -> e.args /= <<>> /\ LiteralLed(e.args[1])
    [] OTHER -> FALSE

\* The types the place of the value may have: void is none that a value is kept in.
PlaceTakes(t) ==
  CASE Statement.kind = "let" -> t /= Void /\ (t = Statement.type \/ (Statement.type = NoType /\ validateDecl(t)))
    [] Statement.kind = "assign" -> t = Locals[Statement.name].type
    [] Statement.kind = "store" -> t = elementScalarType(Locals[Statement.name].type)
    [] Statement.kind = "put" -> ~isPointer(t) /\ PointerTo(t) \in TypesOf(Statement.x, Scope)
    [] Statement.kind = "return" -> t = program.fn.result /\ t /= Void
    [] Statement.kind = "if" -> t \in Conditions
    [] Statement.kind = "call" -> t = Void

\* A place that can be stored to: a mutable local, and an index for each dimension.
PlaceIsWritable ==
  CASE Statement.kind = "assign" -> Locals[Statement.name].mutable
    [] Statement.kind = "store" ->
         /\ Locals[Statement.name].mutable
         /\ LET place == FoldLeft(Index, Name(Statement.name), Statement.indices)
            IN  {t \in TypesOf(place, Scope) : ~isFixedArray(t)} /= {}
    [] OTHER -> TRUE

\* The analyzer types from the left to the right: without a type from outside, an
\* operand that begins with a literal is taken as an i32 before the other is looked at.
TypedFromTheLeft(e) ==
  \A p \in Parts(e) :
    /\ p.form = "int" => p.value \in LiteralNumbers
    /\ (p.form = "binary" /\ p.op \notin Logical /\ LiteralLed(p.x)) => LiteralValue(p) /= {}
    /\ p.form = "array" => ~LiteralLed(p)
    /\ p.form = "index" => ~LiteralLed(p.x)

\* Only literals, names of constants and operators make an initializer constant; && and
\* || only over literals.
ConstantForm(e) ==
  \A p \in Parts(e) :
    /\ p.form \notin {"call", "index"}
    /\ p.form = "binary" /\ p.op \in Logical => {p.x.form, p.y.form} \subseteq {"int", "bool"}

-----------------------------------------------------------------------------
(* Properties                                                              *)

\* An array literal of pointers, whose type is inferred as an array of what they point to.
ListsPointers ==
  \E p \in StatementParts : p.form = "array" /\ \E i \in DOMAIN p.args : \E t \in TypesOf(p.args[i], Scope) : isPointer(t)

\* A constant shift count that is too large, where semantic.cpp:2397 knows no value of the
\* count or of what is shifted: a count is compared with the width only when both are known.
ShiftsUnchecked ==
  LET unchecked(parts, scope) ==
        \E p \in parts : /\ p.form = "binary" /\ p.op \in Shifts /\ ~CountFits(p.y, scope)
                         /\ LiteralOf(p.x) = {} \/ LiteralOf(p.y) = {}
  IN  unchecked(StatementParts, Scope) \/ \E i \in Inits : unchecked(Parts(i), Globals)

\* The result of a void function as a value: in a local of the type void, which is refused
\* only where the type is inferred, or compared with another one.
UsesVoid ==
  \/ Statement.kind = "let" /\ Statement.type = Void
  \/ \E p \in StatementParts : /\ p.form = "binary" /\ p.op \in Equalities
                               /\ Void \in TypesOf(p.x, Scope) \cap TypesOf(p.y, Scope)

\* What semantic.cpp accepts is well typed in the sense of the reference, from the
\* inside out: the statement's value has the type its place takes, and the initializer of
\* each constant has the type it declares; except for array literals of pointers, the
\* shift counts that are not checked and void as a value (analyzeExpr and its callers).
AcceptedIsWellTyped ==
  (stage = "accepted" /\ ~ListsPointers /\ ~ShiftsUnchecked /\ ~UsesVoid) =>
    /\ info.type \in TypesOf(Statement.e, Scope)
    /\ PlaceTakes(info.type)
    /\ PlaceIsWritable
    /\ \A c \in ToSet(program.consts) : c.type \in TypesOf(c.init, Globals)

\* And no well typed program is rejected, but for what the left-to-right typing asks of
\* literals and for what a constant is made of (analyzeExpr, collectItems).
WellTypedIsAccepted ==
  stage = "rejected" =>
    ~ /\ \E t \in TypesOf(Statement.e, Scope) : PlaceTakes(t)
      /\ PlaceIsWritable
      /\ \A i \in DOMAIN Operands : TypedFromTheLeft(Operands[i])
      /\ \A c \in ToSet(program.consts) :
           /\ c.type \in TypesOf(c.init, Globals) /\ validateDecl(c.type) /\ ~isPointer(c.type)
           /\ TypedFromTheLeft(c.init) /\ ConstantForm(c.init)
           /\ c.name \notin DOMAIN Functions \cup {program.fn.name}
      /\ \A i, j \in DOMAIN program.consts : program.consts[i].name = program.consts[j].name => i = j
      /\ program.fn.name \notin DOMAIN Functions
      /\ validateDecl(program.fn.result) /\ ~isPointer(program.fn.result)
      /\ program.fn.name = "main" => program.fn.result \in {Void, I32}

\* A value the analyzer takes as known (for an index, a shift, a division by it, or a
\* constant initializer) is the one the expression computes, on every path and without a
\* call; except that ~ on a signed literal is masked to a non-negative number.
ConstantsAreEvaluated ==
  stage = "accepted" =>
    LET masked(e, type) == type /= U32 /\ \E p \in Parts(e) : p.form = "unary" /\ p.op = "~"
        agrees(e, said, scope) ==
          (known(said) /\ ~masked(e, said.type)) => Eval(e, said.type, scope, <<>>) = Result(said.value, <<>>, TRUE)
    IN  /\ agrees(Statement.e, info, Scope)
        /\ \A c \in ToSet(program.consts) : agrees(c.init, analyzeExpr(c.init, c.type, Globals), Globals)

\* All operations of a block, those of the arms of its logical operators included.
RECURSIVE AllOps(_)
AllOps(ops) ==
  ToSet(ops) \cup UNION {AllOps(op.then.ops) \cup AllOps(op.else.ops) : op \in {op \in ToSet(ops) : op.kind = "ShortCircuit"}}

\* A comparison that begins with a literal, for a local without a type annotation.
ComparesFromLiteral(s) ==
  /\ s.kind = "let" /\ s.type = NoType
  /\ s.e.form = "binary" /\ s.e.op \in Comparisons \cup Equalities /\ LiteralLed(s.e.x)

\* The builder types expressions anew, with inferExprType and the types it passes down: it
\* comes to the analyzer's type for the statement's value and for each constant, and to
\* one type for both operands, which the lowering relies on; except in a `let` without a
\* type whose comparison begins with a literal, which inferExprType gives the type bool.
PassesAgreeOnTypes ==
  stage = "built" =>
    /\ Statement.kind /= "call" => Last(Last(code.body).args).type = info.type
    /\ \A n \in DOMAIN code.consts : code.consts[n].result.type = Globals[n].type
    /\ \A op \in AllOps(code.body) \cup UNION {AllOps(code.consts[n].ops) : n \in DOMAIN code.consts} :
         (op.kind = "Binary" /\ ~ComparesFromLiteral(Statement)) =>
           op.args[1].type = op.args[2].type /\ op.args[1].type /= Invalid

\* An array literal where no type is passed down, or the call of a void function as a value.
BuilderRefuses ==
  LET all == StatementParts \cup UNION {Parts(i) : i \in Inits}
      values == IF Statement.kind = "call" THEN all \ {Statement.e} ELSE all
  IN  \/ \E p \in all : p.form \in {"index", "binary"} /\ p.x.form = "array"
      \/ \E p \in values : p.form = "call" /\ Functions[p.name].result = Void

\* A comparison of what is no number or bool, an integer as the condition of an if, a str
\* that is kept or passed on, a comparison that begins with a literal and has no type
\* annotation, pointers in an array, or the row of an array where a function takes or
\* returns an array.
LoweringRefuses ==
  LET comparesOther(parts, scope) ==
        \E p \in parts : /\ p.form = "binary" /\ p.op \in Equalities
                         /\ ~(TypesOf(p.x, scope) \cup TypesOf(p.y, scope) \subseteq Numeric \cup {Bool})
      isRow(e) == e.form = "index" /\ \E t \in TypesOf(e, Scope) : isFixedArray(t)
  IN  \/ comparesOther(StatementParts, Scope)
      \/ \E p \in StatementParts : p.form = "call" /\ \E i \in DOMAIN p.args : isRow(p.args[i])
      \/ Statement.kind = "return" /\ isRow(Statement.e)
      \/ (Statement.kind = "if" /\ isInteger(info.type))
      \/ (info.type = StrType /\ Statement.kind \in {"let", "assign", "return"})
      \/ \E p \in StatementParts : /\ p.form = "call" /\ ~Functions[p.name].builtin
                                  /\ StrType \in ToSet(Functions[p.name].params)
      \/ ComparesFromLiteral(Statement) \/ ListsPointers
      \/ \E i \in UsedInits : comparesOther(Parts(i), Globals)
      \/ \E i \in UsedInits : \E p \in Parts(i) : p.form \in {"call", "index", "str"}

Cyclic == \E n \in UsedConsts : n \in Reached(ConstsNamedBy(n))

\* What the analyzer accepts is compiled, but for the shapes above, for which builder.cpp
\* or textual.cpp throws, and for a constant that names itself, which is replayed for ever.
AcceptedIsCompiled ==
  /\ stage = "thrown" => BuilderRefuses \/ LoweringRefuses
  /\ stage = "endless" => Cyclic
  /\ stage = "running" => ~BuilderRefuses /\ ~LoweringRefuses /\ ~Cyclic

\* A used constant with a logical operator whose right operand is not defined: both are
\* evaluated when the constant is replayed.
EvaluatesBoth ==
  \E i \in UsedInits : \E p \in Parts(i) :
    p.form = "binary" /\ p.op \in Logical /\ ~Eval(p.y, Default(TypesOf(p.y, Globals)), Globals, <<>>).defined

\* An array is returned by reference, and only the constants of literals, and what
\* another function returns, outlive the function.
ReturnsItsStorage ==
  LET literals(e) == \A p \in Parts(e) : p.form \in {"int", "float", "bool", "array"}
      global == {c.name : c \in {c \in ToSet(program.consts) : literals(c.init)}} \ DOMAIN Locals
  IN  /\ Statement.kind = "return" /\ isFixedArray(info.type)
      /\ Statement.e.form \in {"array", "name"}
      /\ Statement.e.form = "name" => Statement.e.name \notin global

\* The value of each operand of the statement, in order, as the reference has it.
Written ==
  LET s == Statement
      placeType == [Locals[s.name].type EXCEPT !.dims = <<Last(@)>>]
      place == FoldLeft(Index, Name(s.name), Front(s.indices))
      parts ==
        CASE s.kind = "store" ->
               <<<<place, placeType>>, <<Last(s.indices), Default(TypesOf(Last(s.indices), Scope))>>, <<s.e, info.type>>>>
          [] s.kind = "put" -> <<<<s.x, PointerTo(info.type)>>, <<s.e, info.type>>>>
          [] OTHER -> <<<<s.e, info.type>>>>
  IN  FoldLeft(LAMBDA acc, p :
                 LET v == Eval(p[1], p[2], Scope, acc.calls)
                 IN  IF acc.defined THEN Then(acc, v, Encode(p[2], v.value)) ELSE acc,
               Result(<<>>, <<>>, TRUE), parts)

\* Where the reference defines what a statement computes, the compiled program computes
\* it, with the sign its type says, and makes the same calls with the same arguments in
\* the order they are written in, those of a skipped operand of && and || not; except for
\* the constants and the returned arrays above (buildExpr, lowerShortCircuit, lowerBinary, lowerConstInitializer).
ComputedAsWritten ==
  (stage \in {"done", "undefined"} /\ Written.defined /\ ~EvaluatesBoth /\ ~ReturnsItsStorage) =>
      /\ stage = "done"
      /\ calls = Written.calls
      /\ Statement.kind = "call" \/ Tail(effect) = Written.value
=============================================================================
