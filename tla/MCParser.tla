------------------------------ MODULE MCParser ------------------------------
(***************************************************************************)
(* Texts for the front end: short texts of arbitrary characters, the texts *)
(* of small programs, and programs with one token changed.                 *)
(***************************************************************************)
EXTENDS Parser

Chars(s) == [i \in 1 .. Len(s) |-> SubSeq(s, i, i)]

MCAlpha == Range(Chars("abcdefghijklmnopqrstuvwxyzABCDEFGHIJKLMNOPQRSTUVWXYZ"))

-----------------------------------------------------------------------------
(* Arbitrary characters.                                                   *)

Strings(alphabet, length) == UNION {[1 .. n -> alphabet] : n \in 0 .. length}

MCShortTexts ==
  Strings({"a", "f", "n", "0", "1", "_", "@", " ", "-", ">", "=", "/", "*", "{", ";", Quote}, 2)
    \cup Strings({"0", "1", "8", "x", "e", ".", "+", "a"}, 4)
    \cup Strings({Quote, Backslash, "n", "a", "\n"}, 5)
    \cup Strings({"/", "*", "\n", "a"}, 5)
    \cup Strings({"<", "=", ">", "&", "|", "-", "!"}, 3)

-----------------------------------------------------------------------------
(* Programs of the grammar.                                                *)

Name(x) == Leaf("Identifier", x)
One == Leaf("IntegerLiteral", "1")
Str == Leaf("StringLiteral", Quote \o "s" \o Quote)
Binary(op, x, y) == [node |-> "binary", op |-> op, left |-> x, right |-> y]
Unary(op, x) == [node |-> "unary", op |-> op, operand |-> x]
Paren(x) == [node |-> "paren", inner |-> x]
CallOf(f, args) == [node |-> "call", callee |-> f, arguments |-> args]
IndexOf(a, i) == [node |-> "index", base |-> a, index |-> i]
Array(es) == [node |-> "array", elements |-> es]

BinaryOperators == UNION Range(DocumentedLevels)

\* a p b q c, grouped as documented.
Chain(p, q) ==
  LET left == Binary(q, Binary(p, Name("a"), One), Name("c"))
  IN IF Looseness(left.left) <= Looseness(left) THEN left
     ELSE Binary(p, Name("a"), Binary(q, One, Name("c")))

Chains == {Chain(p, q) : p \in BinaryOperators, q \in BinaryOperators}

Tight ==
  {Unary(p, Unary(q, Name("a"))) : p \in {"-", "!", "~", "&", "*"}, q \in {"!", "*"}}
    \cup {Unary("*", IndexOf(CallOf(Name("f"), <<One, Name("a")>>), One)),
          Binary("&", Unary("&", Name("a")), Unary("&", One)),
          Binary("-", Name("a"), Unary("-", One)),
          IndexOf(Paren(Binary("+", One, Name("a"))), Str),
          Array(<<>>), Array(<<Array(<<One>>), Str>>),
          CallOf(CallOf(Name("f"), <<>>), <<Paren(Name("a"))>>),
          IndexOf(IndexOf(Array(<<One, One>>), Name("a")), Leaf("true", "true")),
          Leaf("FloatLiteral", "1.5e3"), Leaf("IntegerLiteral", "0x1F")}

Types ==
  {[kind |-> k, arrayDimensions |-> dims, pointerDepth |-> depth] :
     k \in {"i32", "bool", "u8"}, dims \in {<<>>, <<2>>, <<2, 3>>}, depth \in {0}}
    \cup {[kind |-> "f64", arrayDimensions |-> <<>>, pointerDepth |-> n] : n \in 0 .. 2}
    \cup {[kind |-> "i32", arrayDimensions |-> <<2>>, pointerDepth |-> 1]}

I32 == Scalar("i32")
Untyped == Scalar("Invalid")
LetOf(mut, type, init) ==
  [node |-> "let", isMutable |-> mut, name |-> "a", type |-> type, init |-> init]
Block(body) == [node |-> "block", statements |-> body]
IfOf(then, else) ==
  [node |-> "if", condition |-> Name("a"), thenBranch |-> then, elseBranch |-> else]
For(init, condition, step, body) ==
  [node |-> "for", init |-> init, condition |-> condition, step |-> step, body |-> body]

Break == [node |-> "break"]
Simple == {Break, [node |-> "continue"], [node |-> "return", value |-> Null],
           [node |-> "return", value |-> One], Block(<<>>),
           CallStmt(CallOf(Name("f"), <<One>>)), Assign(Name("a"), One),
           Assign(Unary("*", Name("a")), One), Assign(IndexOf(Name("a"), One), One),
           LetOf(TRUE, I32, Null), LetOf(TRUE, Untyped, One), LetOf(FALSE, I32, One)}

\* The else belongs to the inner if.
Nested ==
  {IfOf(s, Null) : s \in Simple} \cup {IfOf(Break, s) : s \in Simple}
    \cup {IfOf(IfOf(Break, Block(<<>>)), Null), IfOf(Block(<<IfOf(Break, Null)>>), Break),
          [node |-> "while", condition |-> Name("a"), body |-> IfOf(Break, Break)],
          Block(<<Break, Block(<<Break>>), Break>>)}
    \cup {For(init, condition, step, body) :
            init \in {Null, LetOf(FALSE, Untyped, One), Assign(Name("a"), One)},
            condition \in {Null, Name("a")},
            step \in {Null, Assign(Name("a"), One), CallStmt(CallOf(Name("f"), <<>>))},
            body \in {Break, Block(<<>>)}}

Const(type, init) == [node |-> "const", name |-> "k", type |-> type, init |-> init]
Fn(parameters, type, body) ==
  [node |-> "fn", name |-> "g", parameters |-> parameters, returnType |-> type,
   body |-> Block(body)]
Parameter(x, type) == [name |-> x, type |-> type]

Programs ==
  {<<Const(I32, e)>> : e \in Chains \cup Tight}
    \cup {<<Const(type, One), Fn(<<>>, type, <<>>)>> : type \in Types}
    \cup {<<Fn(<<Parameter("a", I32), Parameter("b", type)>>, Scalar("void"), <<>>)>> : type \in Types}
    \cup {<<Fn(<<>>, Scalar("void"), <<s>>)>> : s \in Simple \cup Nested}
    \cup {<<Fn(<<Parameter("a", I32)>>, I32, <<Break, Break>>), Const(I32, One)>>, <<>>}

\* Characters of a piece, and pieces with something between them.
PieceChars(piece) ==
  IF "length" \in DOMAIN piece THEN Chars(ToString(piece.length)) ELSE Chars(piece.text)

Spread(pieces, between) ==
  FlattenSeq([i \in DOMAIN pieces |-> PieceChars(pieces[i]) \o between])

PiecesOf(program) == FlattenSeq([i \in DOMAIN program |-> Text(program[i])])

\* Every program with blanks between its tokens, some with comments.
Rendered ==
  {[text |-> Spread(PiecesOf(program), <<" ">>), unit |-> program] : program \in Programs}
    \cup {[text |-> Spread(PiecesOf(program), Chars("/*a*/")), unit |-> program] :
            program \in {p \in Programs : Len(p) # 1}}

MCIntended ==
  [t \in {pair.text : pair \in Rendered} |-> (CHOOSE pair \in Rendered : pair.text = t).unit]

-----------------------------------------------------------------------------
(* One token deleted, replaced or inserted.                                *)

Bases ==
  {<<"fn", "f", "(", "a", ":", "*", "i32", ",", "b", ":", "[", "i32", ";", "2", "]", ")", "->",
     "void", "{", "return", ";", "}">>,
   <<"fn", "f", "(", ")", "->", "i32", "{", "let", "mut", "x", "=", "1", ";",
     "if", "(", "x", ")", "{", "break", ";", "}", "else", "x", "=", "-", "1", ";", "}">>,
   <<"fn", "f", "(", ")", "->", "i32", "{", "for", "(", "let", "i", "=", "0", ";", "i", "<", "2",
     ";", "i", "=", "i", "+", "1", ")", "f", "(", "i", ",", "2", ")", ";", "}">>,
   <<"const", "k", ":", "i32", "=", "[", "1", ",", "2", "]", "[", "0", "]", ";",
     "const", "j", ":", "bool", "=", "!", "k", "*", "(", "2", "+", "k", ")", ";">>}

Intruders == {")", "}", "{", ";", ",", "=", "]", "*", "fn", "const", "else", "x", "1", "@"}
Lengths == {"0", "08", "010", "0x10", "999", "1.5"}

Edits(base) ==
  LET n == Len(base)
      Put(i, j, middle) == SubSeq(base, 1, i - 1) \o middle \o SubSeq(base, j, n)
  IN {Put(i, i + 1, <<>>) : i \in 1 .. n}
       \cup {Put(i, i + 1, <<t>>) : i \in 1 .. n, t \in Intruders}
       \cup {Put(i, i, <<t>>) : i \in 1 .. n, t \in {",", ";", ")", "x", "="}}
       \cup {Put(i, i + 1, <<t>>) : i \in {k \in 1 .. n : base[k] = "2"}, t \in Lengths}
       \cup {SubSeq(base, 1, i) : i \in 1 .. n}

EditedTexts ==
  {FlattenSeq([i \in DOMAIN edit |-> Chars(edit[i]) \o <<" ">>]) : edit \in UNION {Edits(b) : b \in Bases}}

MCTexts == MCShortTexts \cup DOMAIN MCIntended \cup EditedTexts
=============================================================================
