------------------------- MODULE ExpressionLowering -------------------------
(***************************************************************************)
(* One statement with its expressions, and the module constants it names,  *)
(* from the source to what the compiled program does:                      *)
(*                                                                         *)
(*   frontend/semantic.cpp  collection of the names, analysis (Expressions)*)
(*   ir/builder.cpp         buildStmt, buildExpr, inferExprType            *)
(*   mlir/textual.cpp       the lowering of each operation, and the replay *)
(*                          of a constant where it is used                 *)
(*                                                                         *)
(* The lowering emits one machine operation per IR operation, so the       *)
(* execution goes through the IR operations, one action each.  Values are  *)
(* those of MLIR: an integer is its bits, without a sign.  print and       *)
(* println are the subject of FormatText, control flow of LoopLowering,    *)
(* definite assignment of DefiniteAssignment: here every local holds a     *)
(* value.                                                                  *)
(***************************************************************************)
EXTENDS Expressions, SequencesExt

CONSTANTS
  Programs,   \* the programs looked at, in families: sets of [consts, fn, stmt]
  Worlds      \* what locals hold and calls return: [locals, results]

VARIABLES
  stage,      \* "source", "accepted", "rejected", "built", "thrown", "endless", "running", "done", "undefined"
  program,
  world,
  info,       \* what the analyzer says of the expression of the statement
  code,       \* the IR: the function body, and a block for each constant
  frames,     \* the blocks being executed, the innermost last
  calls,      \* the calls made so far, with their arguments
  effect      \* what the statement did at its end: <<what, values ...>>

vars == <<stage, program, world, info, code, frames, calls, effect>>

-----------------------------------------------------------------------------
(* semantic.cpp: names, constants and the statements with an expression    *)

LocalScope == [n \in DOMAIN Locals |-> [type |-> Locals[n].type, isConst |-> FALSE, mutable |-> Locals[n].mutable]]

constScope(p) == [n \in {c.name : c \in ToSet(p.consts)} |->
                    [type |-> (CHOOSE c \in ToSet(p.consts) : c.name = n).type, isConst |-> TRUE, mutable |-> FALSE]]

\* A local hides a constant of its name.
functionScope(p) == LocalScope @@ constScope(p)

validateDecl(t) ==
  /\ isFixedArray(t) => t.kind \notin {"void", "str", "invalid"} /\ \A i \in DOMAIN t.dims : t.dims[i] > 0
  /\ isPointer(t) => ~isFixedArray(t) /\ t.kind \notin {"void", "str", "invalid"}

\* Functions and constants share one namespace; built-ins cannot be redefined.
collectItems(p) ==
  LET names == <<p.fn.name>> \o [i \in DOMAIN p.consts |-> p.consts[i].name]
  IN  /\ \A i, j \in DOMAIN names : names[i] = names[j] => i = j
      /\ ToSet(names) \cap DOMAIN Functions = {}
      /\ \A t \in {p.fn.result} \cup {c.type : c \in ToSet(p.consts)} : validateDecl(t) /\ ~isPointer(t)

validateMain(fn) == fn.name = "main" => fn.result \in {Void, I32}

analyzeConstDecl(c, scope) ==
  LET init == analyzeExpr(c.init, c.type, scope)
  IN  init.ok /\ sameType(c.type, init.type) /\ init.isConstant

\* The last index of a store reaches a scalar of the array.
analyzeStore(s, scope) ==
  LET type == Locals[s.name].type
      base(n) == [type EXCEPT !.dims = SubSeq(@, n, Len(@))]
      index(n) == analyzeIndex(ExprInfo(base(n), FALSE, Unknown, TRUE), analyzeExpr(s.indices[n], I32, scope))
      elem == elementScalarType(type)
      value == analyzeExpr(s.e, elem, scope)
  IN  [value EXCEPT !.ok = /\ value.ok /\ sameType(elem, value.type)
                           /\ Locals[s.name].mutable
                           /\ Len(s.indices) = Len(type.dims)
                           /\ \A n \in DOMAIN s.indices : index(n).ok]

\* A value for a place of a type that is given.
analyzeFor(type, e, scope, also) ==
  LET value == analyzeExpr(e, type, scope)
  IN  [value EXCEPT !.ok = @ /\ sameType(type, value.type) /\ also]

analyzeStmt(s, fn, scope) ==
  CASE s.kind = "let" /\ s.type /= NoType -> analyzeFor(s.type, s.e, scope, validateDecl(s.type))
    [] s.kind = "let" /\ s.type = NoType ->
         LET init == analyzeExpr(s.e, NoType, scope)
         IN  [init EXCEPT !.ok = @ /\ init.type \notin {Void, Invalid} /\ validateDecl(init.type)]
    [] s.kind = "assign" -> analyzeFor(Locals[s.name].type, s.e, scope, Locals[s.name].mutable)
    [] s.kind = "store" -> analyzeStore(s, scope)
    [] s.kind = "put" ->
         LET ptr == analyzeExpr(s.x, NoType, scope)
         IN  analyzeFor(pointee(ptr.type), s.e, scope, ptr.ok /\ isPointer(ptr.type))
    [] s.kind = "return" -> analyzeFor(fn.result, s.e, scope, fn.result /= Void)
    [] s.kind = "if" ->
         LET condition == analyzeExpr(s.e, NoType, scope)
         IN  [condition EXCEPT !.ok = @ /\ canBeCondition(condition.type)]
    [] s.kind = "call" ->
         LET call == analyzeExpr(s.e, NoType, scope)
         IN  [call EXCEPT !.ok = @ /\ call.type = Void]

-----------------------------------------------------------------------------
(* builder.cpp.  A builder b holds the block it appends to, the next value *)
(* id, and the value of the expression built last; ok is lost when the     *)
(* builder throws.                                                         *)

Builder(inConst, scope) ==
  [ops |-> <<>>, next |-> 0, ref |-> [id |-> -1, type |-> Invalid], ok |-> TRUE, const |-> inConst, scope |-> scope]

append(b, op) == [b EXCEPT !.ops = Append(@, op)]
throw(b) == [b EXCEPT !.ok = FALSE]

\* An operation with a result, which is the value of what is built.
emit(b, type, op) ==
  LET ref == [id |-> b.next, type |-> type]
  IN  [append(b, op @@ [res |-> ref]) EXCEPT !.next = @ + 1, !.ref = ref]

literal(b, kind, type, v) == emit(b, type, [kind |-> kind, args |-> <<>>, value |-> v])

appendUnaryBang(b, v) == emit(b, Bool, [kind |-> "Unary", op |-> "!", args |-> <<v>>])

\* Mutant of coerceConditionLikeToBool: an integer is taken as it is.
coerceNothing(b, v) ==
  IF v.type = Bool \/ isInteger(v.type) THEN [b EXCEPT !.ref = v] ELSE throw(b)

coerceConditionLikeToBool(b, v) ==
  IF v.type = Bool THEN [b EXCEPT !.ref = v]
  ELSE IF isInteger(v.type)
  THEN LET once == appendUnaryBang(b, v) IN appendUnaryBang(once, once.ref)
  ELSE throw(b)

\* A block of its own for a value: what build adds to an empty block, and the value.
nested(b, build(_)) ==
  LET inner == build([b EXCEPT !.ops = <<>>])
  IN  [block |-> [ops |-> inner.ops, result |-> inner.ref], b |-> [inner EXCEPT !.ops = b.ops]]

\* The value every block of a logical operator has when the right operand is skipped.
skipped(op, b) == nested(b, LAMBDA inner : literal(inner, "BoolLiteral", Bool, IF op = "&&" THEN 0 ELSE 1))

\* Mutant of shortCircuit: the arms of || are those of &&.
shortCircuitAsAnd(op, b, left, right, other) ==
  emit(b, Bool, [kind |-> "ShortCircuit", args |-> <<left>>, then |-> right, else |-> other])

shortCircuit(op, b, left, right, other) ==
  emit(b, Bool,
       [kind |-> "ShortCircuit", args |-> <<left>>,
        then |-> IF op = "&&" THEN right ELSE other,
        else |-> IF op = "&&" THEN other ELSE right])

\* The type of an expression, without building it.
RECURSIVE inferExprType(_, _, _)
inferExprType(e, expected, scope) ==
  CASE e.form = "int" -> valueOr(expected, I32)
    [] e.form = "float" -> valueOr(expected, F64)
    [] e.form = "bool" -> Bool
    [] e.form = "str" -> StrType
    [] e.form = "name" -> scope[e.name].type
    [] e.form = "call" -> Functions[e.name].result
    [] e.form = "unary" ->
         (CASE e.op = "&" -> PointerTo(scope[e.x.name].type)
            [] e.op = "*" -> pointee(inferExprType(e.x, NoType, scope))
            [] e.op = "!" -> Bool
            [] OTHER -> inferExprType(e.x, expected, scope))
    [] e.form = "binary" ->
         IF e.op \in Logical \cup Comparisons \cup Equalities THEN Bool ELSE inferExprType(e.x, expected, scope)
    [] e.form = "array" ->
         IF isFixedArray(expected) THEN expected
         ELSE IF e.args = <<>> THEN Invalid
         ELSE inferredArray(inferExprType(e.args[1], NoType, scope), Len(e.args))
    [] e.form = "index" -> afterIndex(inferExprType(e.x, NoType, scope))

\* A call is "discarded" when it is a statement, which needs no value.
RECURSIVE buildExpr(_, _, _)
buildExpr(e, expected, b) ==
  LET \* expressions built one after the other, each in its type, and their values
      all(es, type(_)) ==
        FoldLeft(LAMBDA acc, i : LET done == buildExpr(es[i], type(i), acc.b)
                                 IN  [b |-> done, refs |-> Append(acc.refs, done.ref)],
                 [b |-> b, refs |-> <<>>], [i \in DOMAIN es |-> i])
      number(kind, type, isNumber, v) == literal(b, kind, IF isNumber THEN type ELSE Invalid, v)
  IN  CASE e.form = "int" ->
             number("IntegerLiteral", valueOr(expected, I32), isInteger(valueOr(expected, I32)), e.value)
        [] e.form = "float" ->
             number("FloatLiteral", valueOr(expected, F64), isFloat(valueOr(expected, F64)), Opaque)
        [] e.form = "bool" -> literal(b, "BoolLiteral", Bool, e.value)
        [] e.form = "str" -> literal(b, "StringLiteral", StrType, Opaque)
        [] e.form = "name" ->
             LET s == b.scope[e.name]
             IN  emit(b, s.type, [kind |-> IF s.isConst THEN "LoadConst" ELSE "LoadLocal", args |-> <<>>, name |-> e.name])
        [] e.form \in {"call", "discarded"} ->
             LET args == all(e.args, LAMBDA i : Functions[e.name].params[i])
                 op == [kind |-> "Call", name |-> e.name, args |-> args.refs]
             IN  IF Functions[e.name].result /= Void THEN emit(args.b, Functions[e.name].result, op)
                 ELSE IF e.form = "discarded" THEN append(args.b, op)
                 ELSE throw(append(args.b, op))
        [] e.form = "unary" /\ e.op = "&" ->
             emit(b, PointerTo(b.scope[e.x.name].type), [kind |-> "AddressOfLocal", args |-> <<>>, name |-> e.x.name])
        [] e.form = "unary" /\ e.op /= "&" ->
             LET x == buildExpr(e.x, IF e.op = "!" THEN NoType ELSE expected, b)
             IN  IF e.op = "*" THEN emit(x, pointee(x.ref.type), [kind |-> "PointerLoad", args |-> <<x.ref>>])
                 ELSE IF e.op = "!" THEN appendUnaryBang(x, x.ref)
                 ELSE emit(x, x.ref.type, [kind |-> "Unary", op |-> e.op, args |-> <<x.ref>>])
        [] e.form = "binary" /\ e.op \notin Logical ->
             LET l == buildExpr(e.x, expected, b)
                 r == buildExpr(e.y, l.ref.type, l)
             IN  emit(r, IF e.op \in Comparisons \cup Equalities THEN Bool ELSE l.ref.type,
                      [kind |-> "Binary", op |-> e.op, args |-> <<l.ref, r.ref>>])
        [] e.form = "binary" /\ e.op \in Logical /\ b.const ->
             LET l == buildExpr(e.x, NoType, b)
                 r == buildExpr(e.y, NoType, l)
                 lb == coerceConditionLikeToBool(r, l.ref)
                 rb == coerceConditionLikeToBool(lb, r.ref)
             IN  emit(rb, Bool, [kind |-> "Binary", op |-> e.op, args |-> <<lb.ref, rb.ref>>])
        [] e.form = "binary" /\ e.op \in Logical /\ ~b.const ->
             LET l == buildExpr(e.x, NoType, b)
                 other == skipped(e.op, l)
                 right(inner) == LET v == buildExpr(e.y, NoType, inner) IN coerceConditionLikeToBool(v, v.ref)
                 arm == nested(other.b, right)
             IN  shortCircuit(e.op, arm.b, l.ref, arm.block, other.block)
        [] e.form = "array" ->
             IF isFixedArray(expected)
             THEN LET elements == all(e.args, LAMBDA i : afterIndex(expected))
                  IN  emit(elements.b, expected, [kind |-> "ArrayLiteral", args |-> elements.refs])
             ELSE throw(b)
        [] e.form = "index" ->
             LET base == buildExpr(e.x, NoType, b)
                 index == buildExpr(e.y, I32, base)
                 load == emit(index, afterIndex(base.ref.type), [kind |-> "IndexLoad", args |-> <<base.ref, index.ref>>])
             IN  IF isFixedArray(base.ref.type) THEN load ELSE throw(index)

\* The place a store goes to: the array with all indices but the last applied.
storePlace(s, b) ==
  buildExpr(FoldLeft(Index, Name(s.name), SubSeq(s.indices, 1, Len(s.indices) - 1)), NoType, b)

buildStmt(s, fn, b) ==
  LET value(type, then(_, _)) == LET v == buildExpr(s.e, type, b) IN then(v, v.ref)
      ending(kind, args) == [kind |-> kind, args |-> args]
  IN  CASE s.kind = "let" ->
             value(IF s.type /= NoType THEN s.type ELSE inferExprType(s.e, NoType, b.scope),
                   LAMBDA v, ref : append(v, ending("DeclareLocal", <<ref>>)))
        [] s.kind = "assign" ->
             value(Locals[s.name].type, LAMBDA v, ref : append(v, ending("StoreLocal", <<ref>>)))
        [] s.kind = "store" ->
             LET base == storePlace(s, b)
                 index == buildExpr(Last(s.indices), I32, base)
                 v == buildExpr(s.e, elementScalarType(base.ref.type), index)
             IN  append(v, ending("IndexStore", <<base.ref, index.ref, v.ref>>))
        [] s.kind = "put" ->
             LET ptr == buildExpr(s.x, NoType, b)
                 v == buildExpr(s.e, pointee(ptr.ref.type), ptr)
             IN  append(v, ending("PointerStore", <<ptr.ref, v.ref>>))
        [] s.kind = "return" -> value(fn.result, LAMBDA v, ref : append(v, ending("ReturnValue", <<ref>>)))
        [] s.kind = "if" -> value(NoType, LAMBDA v, ref : append(v, ending("If", <<ref>>)))
        [] s.kind = "call" -> buildExpr([s.e EXCEPT !.form = "discarded"], NoType, b)

buildConst(c, scope) ==
  LET b == buildExpr(c.init, c.type, Builder(TRUE, scope)) IN [ops |-> b.ops, result |-> b.ref, ok |-> b.ok]

-----------------------------------------------------------------------------
(* textual.cpp: which operations are lowered.  A str is not among the      *)
(* values of the lowering, so an operation that looks it up there throws.  *)

isValue(ref) == ref.type /= StrType
conditionLike(ref) == ref.type = Bool \/ isInteger(ref.type)

\* A literal that was built in a type it cannot have has none.
lowerNumber(op) == op.res.type /= Invalid

lowerUnary(op) ==
  LET type == op.args[1].type
  IN  CASE op.op = "-" -> isNumeric(type)
        [] op.op = "~" -> isInteger(type)
        [] op.op = "!" -> type = Bool \/ isInteger(type)

\* Mutant of lowerBinary: && and || are left to the control flow, of which a constant has none.
lowerBinaryWithoutLogical(op, replaying) ==
  LET type == op.args[1].type
  IN  CASE isFloat(type) -> op.op \in {"+", "-", "*", "/"} \cup Comparisons \cup Equalities
        [] op.op \in Logical -> FALSE
        [] OTHER -> isScalar(type) /\ \A i \in {1, 2} : isValue(op.args[i])

\* && and || are lowered here for a constant only; a comparison of arrays or pointers is
\* an operation that MLIR refuses.
lowerBinary(op, replaying) ==
  LET type == op.args[1].type
  IN  CASE isFloat(type) -> op.op \in {"+", "-", "*", "/"} \cup Comparisons \cup Equalities
        [] op.op \in Logical -> replaying
        [] OTHER -> isScalar(type) /\ \A i \in {1, 2} : isValue(op.args[i])

\* MLIR refuses to store an element of another type.
lowerArrayLiteral(op) == \A i \in DOMAIN op.args : op.args[i].type = afterIndex(op.res.type) /\ isValue(op.args[i])

\* A row of an array is a view of it, whose type no parameter and no result has.
row(op) == op.kind = "IndexLoad" /\ isFixedArray(op.res.type)
crossesCalls(ref, rows) == isValue(ref) /\ ref \notin rows

lowerCall(op, rows) == Functions[op.name].builtin \/ \A i \in DOMAIN op.args : crossesCalls(op.args[i], rows)

\* An operation of a function body.  The value of a condition goes to scf.if as it is, and
\* MLIR refuses there what is not a bool.
lowerOperation(op, rows) ==
  CASE op.kind \in {"BoolLiteral", "StringLiteral", "LoadLocal", "AddressOfLocal"} -> TRUE
    [] op.kind \in {"IntegerLiteral", "FloatLiteral"} -> lowerNumber(op)
    [] op.kind = "Unary" -> lowerUnary(op)
    [] op.kind = "Binary" -> lowerBinary(op, FALSE)
    [] op.kind = "Call" -> lowerCall(op, rows)
    [] op.kind = "ReturnValue" -> crossesCalls(op.args[1], rows)
    [] op.kind = "ArrayLiteral" -> lowerArrayLiteral(op)
    [] op.kind = "If" -> op.args[1].type = Bool
    [] OTHER -> \A i \in DOMAIN op.args : isValue(op.args[i])

\* An operation of the initializer of a constant.
replayOperation(op) ==
  CASE op.kind = "BoolLiteral" -> TRUE
    [] op.kind = "ArrayLiteral" -> lowerArrayLiteral(op)
    [] op.kind \in {"IntegerLiteral", "FloatLiteral"} -> lowerNumber(op)
    [] op.kind = "Unary" -> lowerUnary(op)
    [] op.kind = "Binary" -> lowerBinary(op, TRUE)
    [] OTHER -> FALSE

\* What becomes of the operations in their order: the first that is not lowered decides.
\* replayed are the constants whose initializers are being replayed around them.
RECURSIVE lowerOps(_, _, _)
lowerOps(ops, replayed, consts) ==
  LET rows == {op.res : op \in {op \in ToSet(ops) : row(op)}}
      both(s, t) == IF s = "lowered" THEN t ELSE s
      one(op) ==
        CASE op.kind = "LoadConst" ->
               IF op.name \in replayed THEN "endless"
               ELSE lowerOps(consts[op.name].ops, replayed \cup {op.name}, consts)
          [] op.kind = "ShortCircuit" ->
               IF conditionLike(op.args[1])
               THEN both(lowerOps(op.then.ops, replayed, consts), lowerOps(op.else.ops, replayed, consts))
               ELSE "thrown"
          [] OTHER ->
               IF (IF replayed = {} THEN lowerOperation(op, rows) ELSE replayOperation(op)) THEN "lowered" ELSE "thrown"
  IN  FoldLeft(LAMBDA acc, op : IF acc = "lowered" THEN one(op) ELSE acc, "lowered", ops)

-----------------------------------------------------------------------------
(* What the machine operations do                                          *)

bitsOf(n) == n % 2 ^ Width
signedOf(bits) == IF bits >= 2 ^ (Width - 1) THEN bits - 2 ^ Width ELSE bits
numberOf(type, bits) == IF isUnsignedInteger(type) THEN bits ELSE signedOf(bits)

Undefined == [defined |-> FALSE, value |-> 0]
Defined(v) == [defined |-> TRUE, value |-> v]
truth(holds) == Defined(IF holds THEN 1 ELSE 0)

\* The quotient towards zero.
quotient(l, r) ==
  LET abs(n) == IF n < 0 THEN -n ELSE n
  IN  IF (l < 0) = (r < 0) THEN abs(l) \div abs(r) ELSE -(abs(l) \div abs(r))

\* arith.divsi and arith.remsi are undefined for zero, and for the least number by -1.
divide(type, l, r) ==
  LET n == numberOf(type, l)
      d == numberOf(type, r)
      q == quotient(n, d)
  IN  IF d = 0 \/ (isSigned(type) /\ q = 2 ^ (Width - 1)) THEN Undefined
      ELSE Defined([div |-> bitsOf(q), rem |-> bitsOf(n - d * q)])

\* The shifts are undefined for counts of Width and more.
shiftRight(type, l, r) == bitsOf(numberOf(type, l) \div 2 ^ r)

compare(op, l, r) ==
  CASE op = "<" -> l < r
    [] op = "<=" -> l <= r
    [] op = ">" -> l > r
    [] op = ">=" -> l >= r
    [] op = "==" -> l = r
    [] op = "!=" -> l /= r

\* Floats have one value, and every comparison of them holds.
binaryValue(op, type, l, r) ==
  CASE isFloat(type) -> IF op \in Arithmetic THEN Defined(Opaque) ELSE truth(TRUE)
    [] op = "+" -> Defined(bitsOf(l + r))
    [] op = "-" -> Defined(bitsOf(l - r))
    [] op = "*" -> Defined(bitsOf(l * r))
    [] op = "/" -> LET q == divide(type, l, r) IN IF q.defined THEN Defined(q.value.div) ELSE q
    [] op = "%" -> LET q == divide(type, l, r) IN IF q.defined THEN Defined(q.value.rem) ELSE q
    [] op \in {"&", "&&"} -> Defined(l & r)
    [] op \in {"|", "||"} -> Defined(l | r)
    [] op = "^" -> Defined(l ^^ r)
    [] op = "<<" -> IF r >= Width THEN Undefined ELSE Defined(bitsOf(l * 2 ^ r))
    [] op = ">>" -> IF r >= Width THEN Undefined ELSE Defined(shiftRight(type, l, r))
    [] op \in Equalities -> truth(compare(op, l, r))
    [] op \in Comparisons -> truth(compare(op, numberOf(type, l), numberOf(type, r)))

unaryValue(op, type, v) ==
  CASE op = "-" -> IF isFloat(type) THEN Opaque ELSE bitsOf(-v)
    [] op = "~" -> v ^^ (2 ^ Width - 1)
    [] op = "!" -> IF v = 0 THEN 1 ELSE 0

\* An index is cast with its sign, whatever its type, and nothing checks it at run time.
elementAt(array, index) ==
  LET i == signedOf(index) IN IF i \in 0 .. Len(array) - 1 THEN Defined(array[i + 1]) ELSE Undefined

\* The result of an operation that neither calls nor branches, v being its operands.
operationValue(op, v) ==
  CASE op.kind = "IntegerLiteral" -> Defined(bitsOf(op.value))
    [] op.kind \in {"FloatLiteral", "BoolLiteral", "StringLiteral"} -> Defined(op.value)
    [] op.kind = "LoadLocal" -> Defined(world.locals[op.name])
    [] op.kind = "AddressOfLocal" -> Defined(op.name)
    [] op.kind = "PointerLoad" -> Defined(world.locals[v[1]])
    [] op.kind = "Unary" -> Defined(unaryValue(op.op, op.args[1].type, v[1]))
    [] op.kind = "Binary" -> binaryValue(op.op, op.args[1].type, v[1], v[2])
    [] op.kind = "ArrayLiteral" -> Defined(v)
    [] op.kind = "IndexLoad" -> elementAt(v[1], v[2])

-----------------------------------------------------------------------------
Endings == {"DeclareLocal", "StoreLocal", "IndexStore", "PointerStore", "ReturnValue", "If"}
NoInfo == ExprInfo(Invalid, FALSE, Unknown, FALSE)
NoCode == [body |-> <<>>, consts |-> <<>>]

Init ==
  /\ stage = "source"
  /\ \E family \in Programs : program \in family
  /\ world \in Worlds
  /\ info = NoInfo
  /\ code = NoCode
  /\ frames = <<>>
  /\ calls = <<>>
  /\ effect = <<>>

\* The analyzer goes through the whole module before the builder begins.
Analyze ==
  LET scope == functionScope(program)
      result == analyzeStmt(program.stmt, program.fn, scope)
      ok == /\ collectItems(program)
            /\ validateMain(program.fn)
            /\ \A c \in ToSet(program.consts) : analyzeConstDecl(c, constScope(program))
            /\ result.ok
  IN  /\ stage = "source"
      /\ stage' = IF ok THEN "accepted" ELSE "rejected"
      /\ info' = result
      /\ UNCHANGED <<program, world, code, frames, calls, effect>>

Build ==
  LET blocks == [n \in DOMAIN constScope(program) |->
                   buildConst(CHOOSE c \in ToSet(program.consts) : c.name = n, constScope(program))]
      body == buildStmt(program.stmt, program.fn, Builder(FALSE, functionScope(program)))
  IN  /\ stage = "accepted"
      /\ stage' = IF body.ok /\ \A n \in DOMAIN blocks : blocks[n].ok THEN "built" ELSE "thrown"
      /\ code' = [body |-> body.ops, consts |-> blocks]
      /\ UNCHANGED <<program, world, info, frames, calls, effect>>

Frame(ops, env, result) == [ops |-> ops, pc |-> 1, env |-> env, result |-> result]

Lower ==
  LET outcome == lowerOps(code.body, {}, code.consts)
  IN  /\ stage = "built"
      /\ stage' = IF outcome = "lowered" THEN "running" ELSE outcome
      /\ frames' = IF outcome = "lowered" THEN <<Frame(code.body, <<>>, [id |-> -1, type |-> Invalid])>> ELSE <<>>
      /\ UNCHANGED <<program, world, info, code, calls, effect>>

top == Last(frames)
running == stage = "running" /\ top.pc <= Len(top.ops)
current == top.ops[top.pc]
operands == [i \in DOMAIN current.args |-> top.env[current.args[i].id]]

bindValue(frame, ref, v) == [frame EXCEPT !.env = (ref.id :> v) @@ @, !.pc = @ + 1]
advanced(v) == Front(frames) \o <<bindValue(top, current.res, v)>>

\* Literals, loads, operators: an undefined one ends what can be said of the program.
Operate ==
  /\ running
  /\ current.kind \notin Endings \cup {"Call", "ShortCircuit", "LoadConst"}
  /\ LET result == operationValue(current, operands)
     IN  IF result.defined
         THEN frames' = advanced(result.value) /\ UNCHANGED stage
         ELSE stage' = "undefined" /\ UNCHANGED frames
  /\ UNCHANGED <<program, world, info, code, calls, effect>>

CallFunction ==
  /\ running
  /\ current.kind = "Call"
  /\ calls' = Append(calls, <<current.name>> \o operands)
  /\ frames' = IF "res" \in DOMAIN current THEN advanced(world.results[current.name])
               ELSE [frames EXCEPT ![Len(frames)].pc = @ + 1]
  /\ UNCHANGED <<stage, program, world, info, code, effect>>

\* scf.if: one of the two blocks gives the value.
EnterArm ==
  /\ running
  /\ current.kind = "ShortCircuit"
  /\ LET arm == IF operands[1] /= 0 THEN current.then ELSE current.else
     IN  frames' = Append(frames, Frame(arm.ops, top.env, arm.result))
  /\ UNCHANGED <<stage, program, world, info, code, calls, effect>>

\* The initializer is replayed with values of its own.
EnterConst ==
  /\ running
  /\ current.kind = "LoadConst"
  /\ LET init == code.consts[current.name] IN frames' = Append(frames, Frame(init.ops, <<>>, init.result))
  /\ UNCHANGED <<stage, program, world, info, code, calls, effect>>

LeaveBlock ==
  LET outer == frames[Len(frames) - 1]
  IN  /\ stage = "running" /\ top.pc > Len(top.ops) /\ Len(frames) > 1
      /\ frames' = Front(Front(frames)) \o <<bindValue(outer, outer.ops[outer.pc].res, top.env[top.result.id])>>
      /\ UNCHANGED <<stage, program, world, info, code, calls, effect>>

\* An array of literals is a global, and other array constants are built where they are used.
isGlobal(const) == \A op \in ToSet(const.ops) : op.kind \in {"IntegerLiteral", "FloatLiteral", "BoolLiteral", "ArrayLiteral"}

\* The storage an array refers to is a slot of the function, and ends with it.
endsWithFunction(ref) ==
  \E op \in {op \in ToSet(code.body) : "res" \in DOMAIN op} :
    /\ op.res = ref /\ isFixedArray(ref.type)
    /\ op.kind \in {"LoadLocal", "ArrayLiteral"} \/ (op.kind = "LoadConst" /\ ~isGlobal(code.consts[op.name]))

\* The statement has its values: it declares, stores, returns or branches.  A call that
\* is a statement has nothing left to do.
FinishStatement ==
  /\ stage = "running"
  /\ \/ running /\ current.kind \in Endings /\ effect' = <<current.kind>> \o operands
     \/ Len(frames) = 1 /\ top.pc > Len(top.ops) /\ effect' = <<"Call">>
  /\ stage' = IF running /\ current.kind = "ReturnValue" /\ endsWithFunction(current.args[1]) THEN "undefined" ELSE "done"
  /\ UNCHANGED <<program, world, info, code, frames, calls>>

Next == Analyze \/ Build \/ Lower \/ Operate \/ CallFunction \/ EnterArm \/ EnterConst \/ LeaveBlock \/ FinishStatement

Spec == Init /\ [][Next]_vars
=============================================================================
