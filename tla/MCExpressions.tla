---------------------------- MODULE MCExpressions ----------------------------
(***************************************************************************)
(* Statements over every operator, with operands of every type; constants  *)
(* with every value of three bits; and nested expressions whose calls show *)
(* the order of evaluation.                                                *)
(***************************************************************************)
EXTENDS ExpressionRules

MCLocals ==
  LET local(type, mutable) == [type |-> type, mutable |-> mutable]
  IN  [x |-> local(I32, TRUE), y |-> local(U32, FALSE), b |-> local(Bool, TRUE), d |-> local(F64, TRUE),
       p |-> local(PointerTo(I32), FALSE), a |-> local(ArrayType(I32, 2), TRUE),
       m |-> local(ArrayType(ArrayType(I32, 2), 2), TRUE), w |-> local(ArrayType(Bool, 6), FALSE)]

MCFunctions ==
  LET function(params, result, builtin) == [params |-> params, result |-> result, builtin |-> builtin]
  IN  [f |-> function(<<I32>>, I32, FALSE), g |-> function(<<>>, Bool, FALSE), v |-> function(<<>>, Void, FALSE),
       h |-> function(<<ArrayType(I32, 2), U32>>, U32, FALSE), k |-> function(<<>>, ArrayType(I32, 2), FALSE), say |-> function(<<StrType>>, Void, FALSE),
       parse |-> function(<<StrType>>, I32, TRUE), readln |-> function(<<>>, StrType, TRUE)]

\* Two worlds, which take the two ways through g() and b; x is -2 and then 3.
MCWorlds ==
  LET world1(x, y, b, g) ==
        [locals |-> [x |-> x, y |-> y, b |-> b, d |-> Opaque, p |-> "x", a |-> <<3, 4>>,
                     m |-> <<<<1, 2>>, <<5, 6>>>>, w |-> <<1, 0, 0, 1, 1, 0>>],
         results |-> [f |-> 1, g |-> g, v |-> 0, h |-> y, k |-> <<7, y>>, say |-> 0, parse |-> 7, readln |-> Opaque]]
  IN  {world1(6, 5, 0, 1), world1(3, 1, 1, 0)}

-----------------------------------------------------------------------------
(* Statements *)

Let(type, e) == [kind |-> "let", type |-> type, e |-> e]
Assign(n, e) == [kind |-> "assign", name |-> n, e |-> e]
Store(n, indices, e) == [kind |-> "store", name |-> n, indices |-> indices, e |-> e]
Put(x, e) == [kind |-> "put", x |-> x, e |-> e]
Return(e) == [kind |-> "return", e |-> e]
If(e) == [kind |-> "if", e |-> e]
CallOf(e) == [kind |-> "call", e |-> e]

Const(n, type, init) == [name |-> n, type |-> type, init |-> init]
Fn(n, result) == [name |-> n, result |-> result]
Program(consts, fn, stmt) == [consts |-> consts, fn |-> fn, stmt |-> stmt]
InMain(stmt) == Program(<<Const("C", I32, Lit(2))>>, Fn("main", Void), stmt)

AllOperators == Arithmetic \cup Bitwise3 \cup Shifts \cup Comparisons \cup Equalities \cup Logical
UnaryOperators == {"-", "~", "!", "&", "*"}

\* Every operator on operands of every type, in places of every type.
Leaves ==
  {Lit(1), Lit(5), FloatLit, BoolLit(1), StrLit, Call("g", <<>>), Call("v", <<>>), ArrayOf(<<Lit(1), Lit(2)>>)}
    \cup {Name(n) : n \in {"x", "y", "b", "d", "p", "a", "w", "C", "undeclared"}}

Shallow ==
  {Leaves \cup {Unary(o, l) : o \in UnaryOperators, l \in Leaves},
    {Binary(o, l, r) : o \in AllOperators, l \in Leaves, r \in Leaves},
    {Index(l, r) : l \in Leaves, r \in Leaves},
    {ArrayOf(<<l, r>>) : l \in Leaves, r \in Leaves},
    {Call(f, <<l>>) : f \in {"f", "g", "say", "parse", "unknown"}, l \in Leaves},
    {Call("h", <<l, r>>) : l \in Leaves, r \in Leaves}}

Typing == {{InMain(Let(t, e)) : t \in {NoType, U32, Bool}, e \in shallow} : shallow \in Shallow}

\* The other statements, and operands of two operators.
Operators == {"+", "<", "==", "&&", "<<"}
Inner ==
  {Lit(1), Name("x"), Name("y"), Name("C"), Unary("-", Lit(1)), Unary("~", Name("y")), Unary("!", Name("x")),
   Unary("*", Name("p")), Unary("*", Unary("&", Name("x"))), Index(Name("a"), Lit(1)), Index(Name("a"), Name("y")), Index(Name("m"), Lit(0)),
   Index(ArrayOf(<<Name("y"), Lit(1)>>), Lit(0)), Binary("+", Name("y"), Lit(1)), Binary("+", Lit(1), Lit(1)),
   Binary("+", Lit(1), Name("y")), Binary("<", Name("d"), FloatLit), Binary("||", Name("b"), Name("x")),
   Call("f", <<Binary("*", Name("x"), Name("x"))>>), Call("parse", <<Call("readln", <<>>)>>)}
Deep ==
  UNION {
    {Binary(o, l, r) : o \in Operators, l \in Inner, r \in Inner},
    {Index(l, r) : l \in Inner, r \in Inner}}

Arrays == {Name("a"), Name("A"), Call("k", <<>>), ArrayOf(<<Name("x"), Lit(1)>>), Index(Name("m"), Lit(1))}

Statements ==
  LET values == Inner \cup Leaves
      indices == {Lit(1), Lit(2), Name("y"), Name("b"), Call("f", <<Lit(3)>>)}
  IN  {{InMain(Let(NoType, e)) : e \in Deep},
        {InMain(If(e)) : e \in UNION {Deep, Leaves}},
        {InMain(Let(t, e)) : t \in {I32, Void, StrType, F64, PointerTo(I32), ArrayType(I32, 2), ArrayType(StrType, 1)}, e \in values},
        {InMain(Assign(n, e)) : n \in {"x", "y", "a", "d"}, e \in values},
        {InMain(Store("a", <<i>>, e)) : i \in indices, e \in values},
        {InMain(Store("m", is, e)) : is \in {<<i>> : i \in indices} \cup {<<i, j>> : i \in indices, j \in indices}, e \in values},
        {InMain(Put(x, e)) : x \in {Name("p"), Name("x"), Unary("&", Name("x")), Unary("&", Name("b"))}, e \in values},
        {InMain(CallOf(Call(n, <<e>>))) : n \in {"f", "say"}, e \in values},
        {InMain(CallOf(Call("v", <<>>)))},
        {Program(<<Const("C", I32, Lit(2)), Const("A", ArrayType(I32, 2), ArrayOf(<<c, Lit(1)>>))>>, Fn("other", ArrayType(I32, 2)), Return(e)) :
           c \in {Lit(3), Name("C"), Unary("-", Lit(3))}, e \in values \cup Arrays},
        {InMain(Let(U32, Call("h", <<e, Lit(1)>>))) : e \in Arrays},
        {InMain(Let(t, Index(e, Name("x")))) : t \in {NoType, I32}, e \in Arrays},
        {Program(<<>>, Fn(n, t), Return(e)) : n \in {"main", "other", "g"}, t \in {Void, I32, U32, StrType, PointerTo(I32)}, e \in values}}

\* The values of constants, all of them for one operator.
Literals == {Lit(n) : n \in 0 .. 7}
OneOperator ==
  UNION {
    Literals,
    {Unary(o, l) : o \in {"-", "~", "!"}, l \in Literals},
    {Binary(o, l, r) : o \in AllOperators, l \in Literals, r \in Literals}}
TwoOperators ==
  UNION {
    {Binary(o, Binary(q, l, r), Lit(2)) : o \in AllOperators, q \in AllOperators, l \in {Lit(1), Lit(3)}, r \in {Lit(0), Lit(2)}},
    {Binary(o, Unary(q, l), r) : o \in AllOperators, q \in {"-", "~", "!"}, l \in {Lit(1), Lit(3)}, r \in {Lit(0), Lit(2)}}}

ConstantValues ==
  {Program(<<Const("C", t, e)>>, Fn("main", Void), Let(NoType, Name("C"))) : t \in {I32, U32, Bool}, e \in UNION {OneOperator, TwoOperators}}

\* Constants that name each other, and what && and || hide in one.
Hidden == {Call("g", <<>>), Index(Name("A"), Lit(0)), Binary("==", StrLit, StrLit), Binary("==", Binary("/", Lit(1), Lit(0)), Lit(1)),
           Binary("==", Binary("/", Lit(1), Name("C")), Lit(1)), Name("D"), BoolLit(1)}
NumberInits == {Lit(0), Name("C"), Name("D"), Unary("-", Name("N")), Binary("+", Name("N"), Name("C")), Call("f", <<Lit(1)>>), Name("x")}
BoolInits ==
  {Binary(o, BoolLit(k), e) : o \in Logical, k \in {0, 1}, e \in Hidden}
    \cup {Binary("<", Name("C"), Name("N")), Unary("!", Name("D")), Name("C")}
ConstUses ==
  {Let(NoType, Name("C")), If(Name("D")), Let(NoType, Binary("/", Name("x"), Name("N"))), Let(NoType, Binary("<<", Name("x"), Name("N"))), If(Binary("&&", Name("b"), Name("D"))),
   Let(NoType, Index(Name("A"), Lit(1))), Let(NoType, Lit(1))}

Constants ==
  {{Program(<<Const("C", I32, c), Const("N", I32, n), Const("D", Bool, e), Const("A", ArrayType(I32, 2), ArrayOf(<<Name("C"), Lit(1)>>))>>,
           Fn("main", Void), s) : c \in NumberInits, n \in {Lit(3), Name("C"), Name("N")}, e \in BoolInits, s \in ConstUses},
    {Program(<<Const("C", I32, Lit(1)), Const(n, t, e)>>, Fn("main", Void), s) :
            s \in {Let(NoType, Name("D")), Let(NoType, Call("parse", <<Name("D")>>))},
            n \in {"C", "f", "main", "x", "D"}, t \in {Void, StrType, I32, Bool, PointerTo(I32), ArrayType(StrType, 1)}, e \in Leaves}}

\* Calls in an order that shows.
Tests == {Name("b"), Call("g", <<>>), Binary("<", Call("f", <<Lit(1)>>), Name("x")), BoolLit(0)}
Decisions == {Binary(o, l, r) : o \in Logical, l \in Tests, r \in Tests}
Operands1 == {Call("f", <<Lit(n)>>) : n \in {1, 2}} \cup {Lit(1), Name("x")}

Effects ==
  {{InMain(If(Binary(o, c, t))) : o \in Logical, c \in Decisions, t \in Tests},
    {InMain(Let(Bool, Binary(o, t, c))) : o \in Logical, c \in Decisions, t \in Tests},
    {InMain(Let(I32, Binary(o, l, r))) : o \in {"-", "/", "%", ">>"}, l \in Operands1, r \in Operands1},
    {InMain(If(Binary("==", Index(Index(Name("m"), i), j), k))) : i \in Operands1, j \in Operands1, k \in Operands1},
    {InMain(Let(U32, Call("h", <<ArrayOf(<<l, r>>), Call("h", <<Name("a"), Binary("+", Name("y"), Lit(1))>>)>>))) : l \in Operands1, r \in Operands1},
    {InMain(Store("m", <<i, j>>, k)) : i \in Operands1, j \in Operands1, k \in Operands1},
    {InMain(Put(Unary("&", Name("x")), Binary("+", l, r))) : l \in Operands1, r \in Operands1},
    {InMain(CallOf(Call("v", <<>>)))}}

MCPrograms == UNION {Typing, Statements, {ConstantValues}, Constants, Effects}
=============================================================================
