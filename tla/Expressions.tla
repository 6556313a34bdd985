---------------------------- MODULE Expressions ----------------------------
(***************************************************************************)
(* The expressions of nex, their types, and what frontend/semantic.cpp     *)
(* says of them: whether they are accepted, their type, and the value the  *)
(* analyzer knows for those it takes as constant.                          *)
(*                                                                         *)
(* Integers have Width bits: i32 stands for every signed and u32 for every *)
(* unsigned type.  An expression is a tree of records; parentheses leave   *)
(* no trace in it.                                                         *)
(***************************************************************************)
EXTENDS Integers, Sequences, FiniteSets, Bitwise

CONSTANTS
  Width,      \* the bits of an integer
  Locals,     \* the local variables in scope: name -> [type, mutable]
  Functions   \* the signatures: name -> [params, result, builtin]

ASSUME WidthAssumption == Width \in Nat \ {0, 1}

-----------------------------------------------------------------------------
(* Syntax                                                                  *)

Lit(n) == [form |-> "int", value |-> n]
FloatLit == [form |-> "float"]
BoolLit(v) == [form |-> "bool", value |-> v]   \* 0 or 1
StrLit == [form |-> "str"]
Name(n) == [form |-> "name", name |-> n]
Call(f, args) == [form |-> "call", name |-> f, args |-> args]
Unary(op, x) == [form |-> "unary", op |-> op, x |-> x]
Binary(op, x, y) == [form |-> "binary", op |-> op, x |-> x, y |-> y]
ArrayOf(elements) == [form |-> "array", args |-> elements]
Index(x, y) == [form |-> "index", x |-> x, y |-> y]

Arithmetic == {"+", "-", "*", "/", "%"}
Bitwise3 == {"&", "|", "^"}
Shifts == {"<<", ">>"}
Comparisons == {"<", "<=", ">", ">="}
Equalities == {"==", "!="}
Logical == {"&&", "||"}

-----------------------------------------------------------------------------
(* Types                                                                   *)

Scalar(kind) == [kind |-> kind, dims |-> <<>>, ptr |-> 0]
I32 == Scalar("i32")
U32 == Scalar("u32")
F64 == Scalar("f64")
Bool == Scalar("bool")
StrType == Scalar("str")
Void == Scalar("void")
Invalid == Scalar("invalid")
NoType == Scalar("none")   \* no type expected

ArrayType(t, n) == [t EXCEPT !.dims = <<n>> \o @]
inferredArray(t, n) == [ArrayType(t, n) EXCEPT !.ptr = 0]
PointerTo(t) == [t EXCEPT !.ptr = 1]
pointee(t) == [t EXCEPT !.ptr = 0]

isFixedArray(t) == t.dims /= <<>>
isPointer(t) == t.ptr > 0
isScalar(t) == ~isFixedArray(t) /\ ~isPointer(t)
isInteger(t) == isScalar(t) /\ t.kind \in {"i32", "u32"}
isFloat(t) == isScalar(t) /\ t.kind = "f64"
isNumeric(t) == isInteger(t) \/ isFloat(t)
isSigned(t) == t.kind = "i32"
isUnsignedInteger(t) == t.kind = "u32"
afterIndex(t) == IF t.dims = <<>> THEN t ELSE [t EXCEPT !.dims = Tail(@)]
elementScalarType(t) == [t EXCEPT !.dims = <<>>]

Opaque == 0   \* the one value of a float, and of a str

maxIntegerValue(t) == 2 ^ (IF isSigned(t) THEN Width - 1 ELSE Width) - 1

sameType(s, t) == s = Invalid \/ t = Invalid \/ s = t
canBeCondition(t) == t \in {Bool, Invalid} \/ isInteger(t)
valueOr(expected, default) == IF expected = NoType THEN default ELSE expected

-----------------------------------------------------------------------------
(* analyzeExpr.  An ExprInfo is the type of an expression, whether it is   *)
(* constant and its value, if known; ok says that nothing in it was        *)
(* diagnosed.  A scope gives the type of each name and whether it is a     *)
(* module constant.                                                        *)

Unknown == -1

ExprInfo(type, constant, value, ok) == [type |-> type, isConstant |-> constant, value |-> value, ok |-> ok]
Diagnosed == ExprInfo(Invalid, FALSE, Unknown, FALSE)
known(info) == info.isConstant /\ info.value /= Unknown

analyzeInteger(n, expected) ==
  LET type == valueOr(expected, I32)
  IN  IF isInteger(type) THEN ExprInfo(type, TRUE, n, n <= maxIntegerValue(type)) ELSE Diagnosed

analyzeFloat(expected) == ExprInfo(valueOr(expected, F64), TRUE, Unknown, isFloat(valueOr(expected, F64)))

analyzeName(name, scope) ==
  IF name \in DOMAIN scope THEN ExprInfo(scope[name].type, scope[name].isConst, Unknown, TRUE) ELSE Diagnosed

analyzeAddressOf(x, scope) ==
  IF x.form = "name" /\ x.name \in DOMAIN scope
  THEN LET s == scope[x.name]
       IN  ExprInfo(PointerTo(s.type), FALSE, Unknown,
                    ~s.isConst /\ s.mutable /\ isScalar(s.type) /\ s.type \notin {StrType, Void})
  ELSE Diagnosed

\* The elements were analyzed in the type they are to have.  The type of an array that is
\* inferred has only the kind of its first element: an element that is a pointer is lost.
analyzeArrayLiteral(infos, expected) ==
  LET n == Len(infos)
      allConst == \A i \in 1 .. n : infos[i].isConstant
      allOk == \A i \in 1 .. n : infos[i].ok
      alike(t) == \A i \in 1 .. n : sameType(t, infos[i].type)
  IN  IF isFixedArray(expected)
      THEN ExprInfo(expected, allConst, Unknown,
                    allOk /\ n = Head(expected.dims) /\ alike(afterIndex(expected)))
      ELSE IF n = 0 \/ infos[1].type \in {Void, StrType, Invalid}
      THEN Diagnosed
      ELSE ExprInfo(inferredArray(infos[1].type, n), allConst, Unknown, allOk /\ alike(infos[1].type))

\* Mutant of analyzeIndex: a known index may be one past the end.
analyzeIndexUpTo(base, index) ==
  IF isFixedArray(base.type)
  THEN ExprInfo(afterIndex(base.type), FALSE, Unknown,
                /\ base.ok /\ index.ok
                /\ isInteger(index.type)
                /\ known(index) => index.value <= Head(base.type.dims))
  ELSE Diagnosed

\* A chain of indices is walked one dimension at a time.
analyzeIndex(base, index) ==
  IF isFixedArray(base.type)
  THEN ExprInfo(afterIndex(base.type), FALSE, Unknown,
                /\ base.ok /\ index.ok
                /\ isInteger(index.type)
                /\ known(index) => index.value < Head(base.type.dims))
  ELSE Diagnosed

\* The arguments were analyzed in the types of the parameters.
analyzeCallExpr(f, infos) ==
  IF f \in DOMAIN Functions
  THEN ExprInfo(Functions[f].result, FALSE, Unknown,
                /\ Len(infos) = Len(Functions[f].params)
                /\ \A i \in DOMAIN infos : infos[i].ok /\ sameType(Functions[f].params[i], infos[i].type))
  ELSE Diagnosed

analyzeUnaryExpr(op, x) ==
  CASE op = "*" ->
         IF isPointer(x.type) THEN ExprInfo(pointee(x.type), FALSE, Unknown, x.ok) ELSE Diagnosed
    [] op = "!" -> ExprInfo(Bool, x.isConstant, Unknown, x.ok /\ canBeCondition(x.type))
    [] op = "-" -> ExprInfo(x.type, x.isConstant, Unknown, x.ok /\ isNumeric(x.type))
    [] op = "~" ->
         LET max == maxIntegerValue(x.type)
         IN  ExprInfo(x.type, x.isConstant,
                      IF known(x) /\ isInteger(x.type) THEN max - (x.value & max) ELSE Unknown,
                      x.ok /\ isInteger(x.type))

\* Mutant of foldLogical: the right operand decides too, although the left one is evaluated first.
foldLogicalFromEither(op, l, r) ==
  LET decides(v) == IF op = "&&" THEN v = 0 ELSE v /= 0
      truth(v) == IF v /= 0 THEN 1 ELSE 0
  IN  CASE known(l) /\ decides(l.value) -> truth(l.value)
        [] known(r) /\ decides(r.value) -> truth(r.value)
        [] known(l) /\ ~decides(l.value) /\ known(r) -> truth(r.value)
        [] OTHER -> Unknown

\* What && and || are known to be, by the left operand alone or by both.
foldLogical(op, l, r) ==
  LET decides(v) == IF op = "&&" THEN v = 0 ELSE v /= 0
      truth(v) == IF v /= 0 THEN 1 ELSE 0
  IN  CASE known(l) /\ decides(l.value) -> truth(l.value)
        [] known(l) /\ ~decides(l.value) /\ known(r) -> truth(r.value)
        [] OTHER -> Unknown

\* Arithmetic on two known values: the value, or a diagnostic, or neither.
analyzeConstantArithmetic(op, type, lhs, rhs) ==
  LET max == maxIntegerValue(type)
      overflow == [value |-> Unknown, ok |-> FALSE]
      is(v) == [value |-> v, ok |-> TRUE]
  IN  CASE op = "+" -> IF rhs > max \/ lhs > max - rhs THEN overflow ELSE is(lhs + rhs)
        [] op = "-" -> IF lhs < rhs THEN [value |-> Unknown, ok |-> isSigned(type)] ELSE is(lhs - rhs)
        [] op = "*" -> IF rhs /= 0 /\ lhs > max \div rhs THEN overflow ELSE is(lhs * rhs)
        [] op = "/" -> IF rhs = 0 THEN overflow ELSE is(lhs \div rhs)
        [] op = "%" -> IF rhs = 0 THEN overflow ELSE is(lhs % rhs)
        [] op = "&" -> is(lhs & rhs)
        [] op = "|" -> is(lhs | rhs)
        [] op = "^" -> is(lhs ^^ rhs)
        [] op = "<<" ->
             IF rhs >= Width \/ lhs > max \div 2 ^ rhs THEN overflow ELSE is((lhs * 2 ^ rhs) & max)
        [] op = ">>" -> IF rhs >= Width THEN overflow ELSE is(lhs \div 2 ^ rhs)

\* The operand rules of an operator that keeps, or compares, the type of its operands.
operandsFit(op, l, r) ==
  /\ l.ok /\ r.ok
  /\ op \in Arithmetic \cup Comparisons => isNumeric(l.type) /\ isNumeric(r.type)
  /\ op = "%" => ~isFloat(l.type) /\ ~isFloat(r.type)
  /\ op \in Bitwise3 \cup Shifts => isInteger(l.type) /\ isInteger(r.type)
  /\ sameType(l.type, r.type)

analyzeBinaryExpr(op, l, r) ==
  IF op \in Logical
  THEN LET v == foldLogical(op, l, r)
       IN  ExprInfo(Bool, v /= Unknown, v,
                    l.ok /\ r.ok /\ canBeCondition(l.type) /\ canBeCondition(r.type))
  ELSE IF op \in Comparisons \cup Equalities
  THEN ExprInfo(Bool, l.isConstant /\ r.isConstant, Unknown, operandsFit(op, l, r))
  ELSE IF known(l) /\ known(r) /\ isInteger(l.type)
  THEN LET a == analyzeConstantArithmetic(op, l.type, l.value, r.value)
       IN  ExprInfo(l.type, TRUE, a.value, a.ok /\ operandsFit(op, l, r))
  ELSE ExprInfo(l.type, l.isConstant /\ r.isConstant, Unknown, operandsFit(op, l, r))

\* Mutant of parameterType: the last argument is analyzed without a type.
parameterTypeButLast(f, i) ==
  IF f \in DOMAIN Functions /\ i < Len(Functions[f].params) THEN Functions[f].params[i] ELSE NoType

\* The type the i-th argument of a call is analyzed in.
parameterType(f, i) ==
  IF f \in DOMAIN Functions /\ i <= Len(Functions[f].params) THEN Functions[f].params[i] ELSE NoType

RECURSIVE analyzeExpr(_, _, _)
analyzeExpr(e, expected, scope) ==
  LET in(x, type) == analyzeExpr(x, type, scope)
  IN  CASE e.form = "int" -> analyzeInteger(e.value, expected)
        [] e.form = "float" -> analyzeFloat(expected)
        [] e.form = "bool" -> ExprInfo(Bool, TRUE, e.value, TRUE)
        [] e.form = "str" -> ExprInfo(StrType, TRUE, Unknown, TRUE)
        [] e.form = "name" -> analyzeName(e.name, scope)
        [] e.form = "call" ->
             analyzeCallExpr(e.name, [i \in DOMAIN e.args |-> in(e.args[i], parameterType(e.name, i))])
        [] e.form = "unary" ->
             IF e.op = "&" THEN analyzeAddressOf(e.x, scope)
             ELSE analyzeUnaryExpr(e.op, in(e.x, IF e.op = "!" THEN NoType ELSE expected))
        [] e.form = "binary" ->
             LET logical == e.op \in Logical
                 l == in(e.x, IF logical THEN NoType ELSE expected)
                 r == in(e.y, IF logical THEN NoType ELSE l.type)
             IN  analyzeBinaryExpr(e.op, l, r)
        [] e.form = "array" ->
             LET first == IF isFixedArray(expected) THEN afterIndex(expected)
                          ELSE IF e.args = <<>> THEN Invalid ELSE in(e.args[1], NoType).type
                 element(i) == IF i = 1 /\ ~isFixedArray(expected) THEN NoType ELSE first
             IN  analyzeArrayLiteral([i \in DOMAIN e.args |-> in(e.args[i], element(i))], expected)
        [] e.form = "index" -> analyzeIndex(in(e.x, NoType), in(e.y, I32))
=============================================================================
