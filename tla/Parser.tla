-------------------------------- MODULE Parser --------------------------------
(***************************************************************************)
(* The parser (src/frontend/parser.cpp), fed by the lexer: from the text   *)
(* of a program to its tree, or to a rejection.  One action is one turn of *)
(* the loop of Parser::parseTranslationUnit.                               *)
(*                                                                         *)
(* A parse function takes a state r of the parser and returns the state in *)
(* which it leaves the parser: at is current_, status says whether a       *)
(* syntax error was reported or an exception thrown, tree is the result.   *)
(* A node of the tree is a record that names its class; Null is nullptr.   *)
(***************************************************************************)
EXTENDS Lexer

CONSTANTS
  MaxUnsigned,  \* the largest unsigned long long
  Intended      \* a function from texts that are programs to their trees

VARIABLES
  position,     \* current_ of the parser
  unit          \* TranslationUnit::items

vars == <<lexerVars, position, unit>>

Null == [node |-> "null"]

Got(r, tree) == [r EXCEPT !.tree = tree]
Error(r) == [r EXCEPT !.status = IF @ = "throws" THEN @ ELSE "error"]
Throw(r) == [r EXCEPT !.status = "throws"]
Fails(r) == Got(Error(r), Null)

kind(r) == tokens[r.at].kind
textAt(r) == tokens[r.at].text
isAtEnd(r) == kind(r) = "EndOfFile"
check(r, k) == kind(r) = k

\* advance() returns the token it passes; at the end, the one before.
advance(r) == IF isAtEnd(r) THEN r ELSE [r EXCEPT !.at = @ + 1]
advanced(r) == tokens[IF isAtEnd(r) THEN r.at - 1 ELSE r.at]

\* Mutant of expect: a missing token goes unnoticed.
expectNothing(r, k) == IF check(r, k) THEN advance(r) ELSE r

\* A missing token is reported, and nothing is consumed.
expect(r, k) == IF check(r, k) THEN advance(r) ELSE Error(r)

\* The functions that call one another, by the rule of the grammar that each parses.
RECURSIVE parse(_, _)

-----------------------------------------------------------------------------
(* Integer literals.                                                       *)

Numerals == <<"0", "1", "2", "3", "4", "5", "6", "7", "8", "9", "a", "b", "c", "d", "e", "f">>
Capitals == <<"A", "B", "C", "D", "E", "F">>
digitValue(c) ==
  IF c \in Range(Numerals) THEN (CHOOSE i \in 1 .. 16 : Numerals[i] = c) - 1
  ELSE IF c \in Range(Capitals) THEN (CHOOSE i \in 1 .. 6 : Capitals[i] = c) + 9
  ELSE 99

valueIn(radix, s) == FoldLeft(LAMBDA v, c : v * radix + digitValue(c), 0, s)

HasHexPrefix(s) == Len(s) > 2 /\ s[1] = "0" /\ s[2] \in {"x", "X"}

\* std::stoull(s, &consumed, 0): the radix comes from the prefix, the number ends
\* at the first character that is no digit of it.
stoull(s) ==
  LET radix == IF HasHexPrefix(s) THEN 16 ELSE IF s[1] = "0" THEN 8 ELSE 10
      first == IF radix = 16 THEN 3 ELSE 1
      end == CHOOSE j \in first .. Len(s) + 1 :
               /\ j > Len(s) \/ digitValue(s[j]) >= radix
               /\ \A k \in first .. j - 1 : digitValue(s[k]) < radix
  IN [value |-> valueIn(radix, SubSeq(s, first, end - 1)), consumed |-> end - 1]

\* parseUnsignedInteger of the analyzer: std::from_chars in base 16 or 10.
parseUnsignedInteger(s) ==
  IF HasHexPrefix(s) THEN valueIn(16, SubSeq(s, 3, Len(s))) ELSE valueIn(10, s)

spelling(token) == SubSeq(text, token.start, token.end - 1)

-----------------------------------------------------------------------------
(* Types.                                                                  *)

TypeNames == {"i8", "i16", "i32", "i64", "u8", "u16", "u32", "u64", "f32", "f64", "str"}

builtinTypeKind(token) ==
  IF token.kind \in {"bool", "void"} THEN token.kind
  ELSE IF token.kind = "Identifier" /\ token.text \in TypeNames THEN token.text
  ELSE "Invalid"

Scalar(k) == [kind |-> k, arrayDimensions |-> <<>>, pointerDepth |-> 0]

\* The length is read from the text of the token that stands in its place: without
\* a digit there, or with too many, stoull throws.
arrayType(inner, length, close) ==
  LET s == spelling(tokens[length.at])
      read == stoull(s)
      hasDigits == s # <<>> /\ s[1] \in Digit
      good == /\ read.consumed = Len(s) /\ read.value # 0
              /\ inner.tree.kind \notin {"Invalid", "void", "str"}
      after == IF ~hasDigits \/ read.value > MaxUnsigned THEN Throw(close)
               ELSE IF good THEN close ELSE Error(close)
  IN Got(after, [inner.tree EXCEPT
                   !.arrayDimensions = IF hasDigits THEN <<read.value>> \o @ ELSE @])

parseType(r) ==
  CASE check(r, "*") ->
         LET inner == parse("type", advance(r))
         IN Got(inner, [inner.tree EXCEPT !.pointerDepth = @ + 1])
    [] check(r, "[") ->
         LET inner == parse("type", advance(r))
             length == expect(inner, ";")
         IN arrayType(inner, length, expect(expect(length, "IntegerLiteral"), "]"))
    [] OTHER ->
         LET type == Got(advance(r), Scalar(builtinTypeKind(advanced(r))))
         IN IF type.tree.kind = "Invalid" THEN Error(type) ELSE type

-----------------------------------------------------------------------------
(* Expressions.                                                            *)

Levels == <<{"||"}, {"&&"}, {"|"}, {"^"}, {"&"}, {"==", "!="}, {"<", "<=", ">", ">="},
            {"<<", ">>"}, {"+", "-"}, {"*", "/", "%"}>>

\* Mutant of binaryPrecedence: & and && have changed places.
binaryPrecedenceSwapped(k) ==
  IF k = "&" THEN 2 ELSE IF k = "&&" THEN 5
  ELSE IF \E l \in DOMAIN Levels : k \in Levels[l]
    THEN CHOOSE l \in DOMAIN Levels : k \in Levels[l] ELSE 0

binaryPrecedence(k) ==
  IF \E l \in DOMAIN Levels : k \in Levels[l]
    THEN CHOOSE l \in DOMAIN Levels : k \in Levels[l] ELSE 0

PrefixOperators == {"-", "!", "~", "&", "*"}
Leaves == {"IntegerLiteral", "FloatLiteral", "StringLiteral", "true", "false", "Identifier"}

Leaf(k, spelled) == [node |-> k, text |-> spelled]

RECURSIVE parseExpr(_, _), climb(_, _), postfix(_), list(_, _, _)

parseExpr(r, minPrecedence) == climb(parse("unary", r), minPrecedence)

\* The loop of parseExpr.
climb(left, minPrecedence) ==
  LET precedence == binaryPrecedence(kind(left))
      right == parseExpr(advance(left), precedence + 1)
  IN IF precedence < minPrecedence THEN left
     ELSE climb(Got(right, [node |-> "binary", op |-> kind(left),
                            left |-> left.tree, right |-> right.tree]),
                minPrecedence)

\* An expression that is missing is reported; a token is lost for it.
parsePrimaryExpr(r) ==
  CASE kind(r) \in Leaves -> Got(advance(r), Leaf(kind(r), textAt(r)))
    [] check(r, "[") ->
         LET first == advance(r)
             elements == IF check(first, "]") THEN Got(first, <<>>)
                         ELSE list(first, "element", <<>>)
         IN Got(expect(elements, "]"), [node |-> "array", elements |-> elements.tree])
    [] check(r, "(") ->
         LET inner == parse("expr", advance(r))
         IN Got(expect(inner, ")"), [node |-> "paren", inner |-> inner.tree])
    [] OTHER -> Got(Error(advance(r)), Leaf("Identifier", "<error>"))

parseUnaryExpr(r) ==
  IF kind(r) \in PrefixOperators
    THEN LET operand == parse("unary", advance(r))
         IN Got(operand, [node |-> "unary", op |-> kind(r), operand |-> operand.tree])
    ELSE postfix(parsePrimaryExpr(r))

parseArgumentList(r) == IF check(r, ")") THEN Got(r, <<>>) ELSE list(r, "argument", <<>>)

\* The loop of parsePostfixExpr.
postfix(base) ==
  CASE check(base, "(") ->
         LET arguments == parseArgumentList(advance(base))
         IN postfix(Got(expect(arguments, ")"),
                        [node |-> "call", callee |-> base.tree, arguments |-> arguments.tree]))
    [] check(base, "[") ->
         LET index == parse("expr", advance(base))
         IN postfix(Got(expect(index, "]"),
                        [node |-> "index", base |-> base.tree, index |-> index.tree]))
    [] OTHER -> base

parseParameter(r) ==
  LET type == parse("type", expect(expect(r, "Identifier"), ":"))
  IN Got(type, [name |-> textAt(r), type |-> type.tree])

\* The loops over arguments, parameters and array elements: a comma may not be
\* the last token.
list(r, what, found) ==
  IF what # "element" /\ isAtEnd(r) THEN Got(r, found)
  ELSE
    LET item == IF what = "parameter" THEN parseParameter(r) ELSE parse("expr", r)
        items == Append(found, item.tree)
        comma == advance(item)
    IN IF ~check(item, ",") THEN Got(item, items)
       ELSE IF check(comma, IF what = "element" THEN "]" ELSE ")")
         THEN Got(Error(comma), items)
         ELSE list(comma, what, items)

parseParameterList(r) == IF check(r, ")") THEN Got(r, <<>>) ELSE list(r, "parameter", <<>>)

-----------------------------------------------------------------------------
(* Statements.                                                             *)

IsPlace(e) == e.node \in {"Identifier", "index"} \/ (e.node = "unary" /\ e.op = "*")

Assign(target, value) == [node |-> "assign", target |-> target, value |-> value]
CallStmt(call) == [node |-> "callStmt", call |-> call]

\* An assignment or a call up to its closing token: ; or, in a for, ).
assignmentOrCall(r, closing) ==
  LET lhs == parse("unary", r)
      rhs == parse("expr", advance(lhs))
  IN IF check(lhs, "=")
       THEN LET end == expect(rhs, closing)
            IN IF IsPlace(lhs.tree) THEN Got(end, Assign(lhs.tree, rhs.tree)) ELSE Fails(end)
       ELSE LET end == expect(lhs, closing)
            IN IF lhs.tree.node = "call" THEN Got(end, CallStmt(lhs.tree)) ELSE Fails(end)

parseAssignmentOrCallStmt(r) == assignmentOrCall(r, ";")

parseForStepClause(r) == IF check(r, ")") THEN Got(r, Null) ELSE assignmentOrCall(r, ")")

parseLetStmt(r) ==
  LET first == advance(r)
      isMutable == check(first, "mut")
      name == IF isMutable THEN advance(first) ELSE first
      named == expect(name, "Identifier")
      type == IF check(named, ":") THEN parse("type", advance(named)) ELSE Got(named, Scalar("Invalid"))
      init == IF check(type, "=") THEN parse("expr", advance(type))
              ELSE IF isMutable THEN Got(type, Null) ELSE Fails(type)
  IN Got(expect(init, ";"), [node |-> "let", isMutable |-> isMutable, name |-> textAt(name),
                             type |-> type.tree, init |-> init.tree])

parseReturnStmt(r) ==
  LET first == advance(r)
      value == parse("expr", first)
  IN IF check(first, ";") THEN Got(advance(first), [node |-> "return", value |-> Null])
     ELSE Got(expect(value, ";"), [node |-> "return", value |-> value.tree])

parseLoopControl(r) == Got(expect(advance(r), ";"), [node |-> kind(r)])

\* ( condition )
parseCondition(r) ==
  LET condition == parseExpr(expect(r, "("), 1) IN Got(expect(condition, ")"), condition.tree)

\* After an init clause that failed: past the next semicolon.
skipClause(r) ==
  LET stop == CHOOSE j \in r.at .. Len(tokens) :
                /\ tokens[j].kind \in {";", "EndOfFile"}
                /\ \A k \in r.at .. j - 1 : tokens[k].kind \notin {";", "EndOfFile"}
  IN advance([r EXCEPT !.at = stop])

parseForInit(r) ==
  IF check(r, ";") THEN Got(advance(r), Null)
  ELSE IF check(r, "let") THEN parseLetStmt(r)
  ELSE LET init == parseAssignmentOrCallStmt(r)
       IN IF init.tree = Null THEN skipClause(init) ELSE init

parseForCondition(r) ==
  LET condition == parse("expr", r)
  IN IF check(r, ";") THEN Got(advance(r), Null) ELSE Got(expect(condition, ";"), condition.tree)

\* Mutant of ExpressionStart: no statement starts with a dereference.
ExpressionStartWithoutStar == Leaves \cup {"(", "[", "-", "~", "!"}

ExpressionStart == Leaves \cup {"(", "[", "-", "~", "!", "*"}

\* A token is lost after a failed statement, unless it closes the block.
recover(r) == IF check(r, "}") THEN r ELSE advance(r)

RECURSIVE statements(_, _)

parseBlockStmt(r) ==
  LET body == statements(expect(r, "{"), <<>>)
  IN Got(expect(body, "}"), [node |-> "block", statements |-> body.tree])

statements(r, found) ==
  IF isAtEnd(r) \/ check(r, "}") THEN Got(r, found)
  ELSE LET stmt == parse("stmt", r)
       IN IF stmt.tree = Null THEN statements(recover(stmt), found)
          ELSE statements(stmt, Append(found, stmt.tree))

parseIfStmt(r) ==
  LET condition == parseCondition(advance(r))
      thenBranch == parse("stmt", condition)
      elseBranch == IF check(thenBranch, "else") THEN parse("stmt", advance(thenBranch))
                    ELSE Got(thenBranch, Null)
  IN Got(elseBranch, [node |-> "if", condition |-> condition.tree,
                      thenBranch |-> thenBranch.tree, elseBranch |-> elseBranch.tree])

parseWhileStmt(r) ==
  LET condition == parseCondition(advance(r))
      body == parse("stmt", condition)
  IN Got(body, [node |-> "while", condition |-> condition.tree, body |-> body.tree])

\* A step consumes the ) itself; without a step the ) is still there.
parseForStmt(r) ==
  LET init == parseForInit(expect(advance(r), "("))
      condition == parseForCondition(init)
      step == parseForStepClause(condition)
      body == parse("stmt", IF step.tree = Null THEN expect(step, ")") ELSE step)
  IN Got(body, [node |-> "for", init |-> init.tree, condition |-> condition.tree,
                step |-> step.tree, body |-> body.tree])

parseStmt(r) ==
  CASE check(r, "{") -> parseBlockStmt(r)
    [] check(r, "let") -> parseLetStmt(r)
    [] check(r, "return") -> parseReturnStmt(r)
    [] kind(r) \in {"break", "continue"} -> parseLoopControl(r)
    [] check(r, "if") -> parseIfStmt(r)
    [] check(r, "while") -> parseWhileStmt(r)
    [] check(r, "for") -> parseForStmt(r)
    [] kind(r) \in ExpressionStart -> parseAssignmentOrCallStmt(r)
    [] OTHER -> Fails(r)

-----------------------------------------------------------------------------
(* Items.                                                                  *)

parseFunctionDecl(r) ==
  LET name == advance(r)
      parameters == parseParameterList(expect(expect(name, "Identifier"), "("))
      returnType == parse("type", expect(expect(parameters, ")"), "->"))
      body == parseBlockStmt(returnType)
  IN Got(body, [node |-> "fn", name |-> textAt(name), parameters |-> parameters.tree,
                returnType |-> returnType.tree, body |-> body.tree])

parseConstDecl(r) ==
  LET name == advance(r)
      type == parse("type", expect(expect(name, "Identifier"), ":"))
      init == parse("expr", expect(type, "="))
  IN Got(expect(init, ";"), [node |-> "const", name |-> textAt(name),
                             type |-> type.tree, init |-> init.tree])

parseItem(r) ==
  IF check(r, "fn") THEN parseFunctionDecl(r)
  ELSE IF check(r, "const") THEN parseConstDecl(r) ELSE Fails(r)

parse(rule, r) ==
  CASE rule = "type" -> parseType(r)
    [] rule = "unary" -> parseUnaryExpr(r)
    [] rule = "expr" -> parseExpr(r, 1)
    [] rule = "stmt" -> parseStmt(r)
    [] rule = "item" -> parseItem(r)

Here == [at |-> position, status |-> "ok", tree |-> Null]

Parsing == phase = "parse" /\ ~isAtEnd(Here)

\* An item, or the exception of a missing array length, which nobody catches
\* before main.
ParseItem ==
  /\ Parsing
  /\ LET item == parse("item", Here)
     IN /\ item.tree # Null
        /\ unit' = Append(unit, item.tree)
        /\ position' = item.at
        /\ rejected' = (rejected \/ item.status # "ok")
        /\ phase' = IF item.status = "throws" THEN "usage" ELSE phase
  /\ UNCHANGED <<text, current, tokens>>

\* Mutant of SkipToken: the token stays where it is.
SkipTokenInPlace ==
  /\ Parsing
  /\ parse("item", Here).tree = Null
  /\ rejected' = TRUE
  /\ UNCHANGED <<phase, text, current, tokens, position, unit>>

\* A token that starts no item.
SkipToken ==
  /\ Parsing
  /\ parse("item", Here).tree = Null
  /\ position' = advance(parse("item", Here)).at
  /\ rejected' = TRUE
  /\ UNCHANGED <<phase, text, current, tokens, unit>>

EndOfUnit ==
  /\ phase = "parse" /\ isAtEnd(Here)
  /\ phase' = "done"
  /\ UNCHANGED <<text, current, tokens, rejected, position, unit>>

-----------------------------------------------------------------------------

Init == LexerInit /\ position = 1 /\ unit = <<>>

\* The compiler goes on with the tree, or has printed its usage.
Finished == phase \in {"done", "usage"} /\ UNCHANGED vars

Next ==
  \/ LexerNext /\ UNCHANGED <<position, unit>>
  \/ ParseItem \/ SkipToken \/ EndOfUnit
  \/ Finished

Spec == Init /\ [][Next]_vars

-----------------------------------------------------------------------------
(* The text of a tree, piece by piece: what the grammar of                 *)
(* docs/reference/language says stands for each node.                      *)

T(spelled) == <<[text |-> spelled]>>

Stars(n) == [i \in 1 .. n |-> [text |-> "*"]]

\* A type with both dimensions and pointers does not tell which came first.
TypeText(type) ==
  LET dims == type.arrayDimensions
      n == Len(dims)
  IN Stars(type.pointerDepth) \o [i \in 1 .. n |-> [text |-> "["]] \o T(type.kind)
       \o FlattenSeq([i \in 1 .. n |-> T(";") \o <<[length |-> dims[n + 1 - i]]>> \o T("]")])

RECURSIVE Text(_), Separated(_)

Separated(nodes) ==
  IF nodes = <<>> THEN <<>>
  ELSE Text(Head(nodes)) \o FlattenSeq([i \in 1 .. Len(nodes) - 1 |-> T(",") \o Text(nodes[i + 1])])

ParameterText(p) == T(p.name) \o T(":") \o TypeText(p.type)

ParametersText(ps) ==
  FlattenSeq([i \in DOMAIN ps |-> (IF i > 1 THEN T(",") ELSE <<>>) \o ParameterText(ps[i])])

\* A statement in the header of a for has no closing token of its own.
Clause(stmt) ==
  CASE stmt.node = "assign" -> Text(stmt.target) \o T("=") \o Text(stmt.value)
    [] stmt.node = "callStmt" -> Text(stmt.call)
    [] OTHER -> <<>>

LetText(l) ==
  T("let") \o (IF l.isMutable THEN T("mut") ELSE <<>>) \o T(l.name)
    \o (IF l.type = Scalar("Invalid") THEN <<>> ELSE T(":") \o TypeText(l.type))
    \o (IF l.init = Null THEN <<>> ELSE T("=") \o Text(l.init)) \o T(";")

ForText(f) ==
  T("for") \o T("(")
    \o (IF f.init # Null /\ f.init.node = "let" THEN LetText(f.init) ELSE Clause(f.init) \o T(";"))
    \o Text(f.condition) \o T(";") \o Clause(f.step) \o T(")") \o Text(f.body)

Text(n) ==
  CASE n.node = "null" -> <<>>
    [] n.node \in Leaves -> T(n.text)
    [] n.node = "paren" -> T("(") \o Text(n.inner) \o T(")")
    [] n.node = "array" -> T("[") \o Separated(n.elements) \o T("]")
    [] n.node = "unary" -> T(n.op) \o Text(n.operand)
    [] n.node = "binary" -> Text(n.left) \o T(n.op) \o Text(n.right)
    [] n.node = "call" -> Text(n.callee) \o T("(") \o Separated(n.arguments) \o T(")")
    [] n.node = "index" -> Text(n.base) \o T("[") \o Text(n.index) \o T("]")
    [] n.node \in {"assign", "callStmt"} -> Clause(n) \o T(";")
    [] n.node \in {"break", "continue"} -> T(n.node) \o T(";")
    [] n.node = "return" -> T("return") \o Text(n.value) \o T(";")
    [] n.node = "let" -> LetText(n)
    [] n.node = "block" -> T("{") \o FlattenSeq([i \in DOMAIN n.statements |-> Text(n.statements[i])])
                             \o T("}")
    [] n.node = "if" -> T("if") \o T("(") \o Text(n.condition) \o T(")") \o Text(n.thenBranch)
                          \o (IF n.elseBranch = Null THEN <<>> ELSE T("else") \o Text(n.elseBranch))
    [] n.node = "while" -> T("while") \o T("(") \o Text(n.condition) \o T(")") \o Text(n.body)
    [] n.node = "for" -> ForText(n)
    [] n.node = "fn" -> T("fn") \o T(n.name) \o T("(") \o ParametersText(n.parameters) \o T(")")
                          \o T("->") \o TypeText(n.returnType) \o Text(n.body)
    [] n.node = "const" -> T("const") \o T(n.name) \o T(":") \o TypeText(n.type)
                             \o T("=") \o Text(n.init) \o T(";")

UnitText == FlattenSeq([i \in DOMAIN unit |-> Text(unit[i])])

\* The nodes of a tree, and the types written in it.
RECURSIVE Expressions(_)
Expressions(n) ==
  LET Below(children) == UNION {Expressions(c) : c \in children} IN
  CASE n.node \in Leaves \cup {"null", "break", "continue"} -> {n}
    [] n.node = "paren" -> {n} \cup Below({n.inner})
    [] n.node = "array" -> {n} \cup Below(Range(n.elements))
    [] n.node = "unary" -> {n} \cup Below({n.operand})
    [] n.node = "binary" -> {n} \cup Below({n.left, n.right})
    [] n.node = "call" -> {n} \cup Below({n.callee} \cup Range(n.arguments))
    [] n.node = "index" -> {n} \cup Below({n.base, n.index})
    [] n.node = "assign" -> Below({n.target, n.value})
    [] n.node = "callStmt" -> Below({n.call})
    [] n.node = "return" -> Below({n.value})
    [] n.node \in {"let", "const"} -> Below({n.init})
    [] n.node = "block" -> Below(Range(n.statements))
    [] n.node = "if" -> Below({n.condition, n.thenBranch, n.elseBranch})
    [] n.node = "while" -> Below({n.condition, n.body})
    [] n.node = "for" -> Below({n.init, n.condition, n.step, n.body})
    [] n.node = "fn" -> Below({n.body})

-----------------------------------------------------------------------------
(* Properties.                                                             *)

Accepted == phase = "done" /\ ~rejected

Reads(piece, token) ==
  IF "length" \in DOMAIN piece
    THEN token.kind = "IntegerLiteral" /\ stoull(spelling(token)).value = piece.length
    ELSE piece.text = token.text

PointerToArray ==
  \E n \in 2 .. Len(tokens) : tokens[n].kind = "[" /\ tokens[n - 1].kind = "*"

\* A program that is accepted is its tree and nothing else: written out again, the
\* tree gives the tokens of the text one by one, so nothing was skipped, invented or
\* moved (parseTranslationUnit and its recovery, parseStmt, the lists).  The tree
\* does not tell *[T; N] from [*T; N], which the analyzer refuses both.
AcceptedIsItsText ==
  Accepted /\ ~PointerToArray =>
    /\ Len(UnitText) = Len(tokens) - 1
    /\ \A n \in DOMAIN UnitText : Reads(UnitText[n], tokens[n])

\* What binds tighter, docs/reference/language/expressions.md, "Operator Precedence",
\* from the tightest level of binary operators to the loosest.
DocumentedLevels ==
  <<{"*", "/", "%"}, {"+", "-"}, {"<<", ">>"}, {"<", ">", "<=", ">="}, {"==", "!="}, {"&"},
    {"^"}, {"|"}, {"&&"}, {"||"}>>

Looseness(n) ==
  IF n.node # "binary" THEN 0
  ELSE CHOOSE l \in DOMAIN DocumentedLevels : n.op \in DocumentedLevels[l]

\* Operators group as documented (parseExpr and binaryPrecedence): the left operand is
\* no looser than its operator, the right one tighter, and the operand of a prefix
\* operator is no binary expression.
PrecedenceIsRespected ==
  Accepted => \A n \in UNION {Expressions(item) : item \in Range(unit)} :
    /\ n.node = "binary" =>
         Looseness(n.left) <= Looseness(n) /\ Looseness(n.right) < Looseness(n)
    /\ n.node = "unary" => n.operand.node # "binary"
    /\ n.node = "call" => n.callee.node \notin {"binary", "unary"}
    /\ n.node = "index" => n.base.node \notin {"binary", "unary"}

\* The text of a program of the grammar is accepted, and parsed to that program
\* (parseItem, parseStmt, parseExpr, parseType).
GrammarIsAccepted ==
  phase \in {"done", "usage"} /\ text \in DOMAIN Intended =>
    Accepted /\ unit = Intended[text]

\* Whatever the text, every turn of a loop of the lexer and of the parser consumes
\* something of it, up to the end; as no state is a deadlock, the front end ends
\* (tokenize, advance and parseTranslationUnit; parser.cpp:32 "This keeps the parser
\* from looping forever after an error").
EveryTurnAdvances ==
  [][\/ current' > current
     \/ position' > position
     \/ phase' # phase]_vars

\* A literal that both read is one number for the analyzer and for the parser and the
\* lowering, which read it alike (docs/design/frontend_contract.md:46 "decimal integer
\* literals").
LiteralsKeepTheirValue ==
  \A n \in DOMAIN tokens :
    LET digits == spelling(tokens[n])
    IN /\ tokens[n].kind = "IntegerLiteral" /\ ~rejected
       /\ stoull(digits).consumed = Len(digits)
       => stoull(digits).value = parseUnsignedInteger(digits)
=============================================================================
