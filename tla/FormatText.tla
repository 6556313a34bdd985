----------------------------- MODULE FormatText -----------------------------
(***************************************************************************)
(* A print or println of a program, from its string literal in the source  *)
(* to the text on stdout, and a parse of a text:                           *)
(*                                                                         *)
(*   frontend/string_literal_decode.cpp  decodes a literal and splits a    *)
(*                                       format string                     *)
(*   frontend/semantic.cpp               analyzeFormatPrintCall            *)
(*   mlir/textual.cpp                    findStringLiteralRaw,             *)
(*                                       lowerFormattedPrintBuiltin        *)
(*   runtime/nex_runtime.c               Numbers                           *)
(*                                                                         *)
(* One action is the analysis of the call, its lowering, one call of the   *)
(* runtime by the compiled program, or the parse of a text by the runtime. *)
(* The function around the call is a tree of IR operations in which the    *)
(* operation "literal" is the call's first argument.                       *)
(***************************************************************************)
EXTENDS Numbers, FiniteSets, SequencesExt

CONSTANTS
  Programs,    \* the calls looked at, with the functions around them
  Inputs,      \* the texts parsed
  MaxNesting   \* how deep the blocks of a function are nested

VARIABLES
  stage,      \* "source", "accepted", "rejected", "lowered", "thrown", "input", "parsed"
  call,
  body,
  pieces,     \* the calls of the runtime to come
  output,     \* the texts written by the calls already made
  input,
  result      \* of each parse function on input

vars == <<stage, call, body, pieces, output, input, result>>

-----------------------------------------------------------------------------
(* string_literal_decode.cpp                                               *)

\* The lexer has seen to it that an escape sequence is complete and known.
Escaped(c) == IF c = "n" THEN "\n" ELSE IF c = "t" THEN "\t" ELSE IF c = "r" THEN "\r" ELSE c

\* What is between the quotes, after each character.
decodeLoop(raw) ==
  LET after[i \in 0 .. Len(raw)] ==
        IF i = 0 THEN [decoded |-> <<>>, escape |-> FALSE]
        ELSE LET before == after[i - 1]
             IN IF before.escape
                THEN [decoded |-> Append(before.decoded, Escaped(raw[i])), escape |-> FALSE]
                ELSE IF raw[i] = "\\" THEN [decoded |-> before.decoded, escape |-> TRUE]
                ELSE [decoded |-> Append(before.decoded, raw[i]), escape |-> FALSE]
  IN after

decodeStringLiteralContent(raw) == decodeLoop(raw)[Len(raw)].decoded

\* The number that decimal digits denote.  from_chars gives it; what does not fit an
\* unsigned is beyond MaxPrecision as well.
Denoted(digits) ==
  LET value[n \in 0 .. Len(digits)] ==
        IF n = 0 THEN 0 ELSE 10 * value[n - 1] + DigitValue(digits[n])
  IN value[Len(digits)]

NoHole == [kind |-> "none", precision |-> 0, last |-> 0]
Hole(kind, precision, last) == [kind |-> kind, precision |-> precision, last |-> last]
At(s, i, c) == i <= Len(s) /\ s[i] = c

\* {:.N} or {:.Nf} at position i.
fixedHole(s, i) ==
  LET cursor == skipDigits(s, i + 3)
      close == IF At(s, cursor, "f") THEN cursor + 1 ELSE cursor
      precision == Denoted(SubSeq(s, i + 3, cursor - 1))
  IN IF cursor > i + 3 /\ At(s, close, "}") /\ precision <= MaxPrecision
     THEN Hole("fixed", precision, close) ELSE NoHole

\* Mutant of baseHole: any letter is taken for a base.
baseHoleOfAnyLetter(s, i) ==
  IF At(s, i + 1, ":") /\ At(s, i + 3, "}")
  THEN Hole(IF s[i + 2] = "X" THEN "X" ELSE IF s[i + 2] = "b" THEN "b" ELSE "x", 0, i + 3)
  ELSE NoHole

baseHole(s, i) ==
  IF At(s, i + 1, ":") /\ At(s, i + 3, "}") /\ s[i + 2] \in {"x", "X", "b"}
  THEN Hole(s[i + 2], 0, i + 3) ELSE NoHole

\* The placeholder that begins at position i; {:. goes on with a precision or fails.
holeAt(s, i) ==
  IF At(s, i + 1, "}") THEN Hole("default", 0, i + 1)
  ELSE IF At(s, i + 1, ":") /\ At(s, i + 2, ".") THEN fixedHole(s, i)
  ELSE baseHole(s, i)

Invalid == [ok |-> FALSE, literals |-> <<>>, holes |-> <<>>, start |-> 1]

\* The parts after each character; start is behind the last placeholder.
parseLoop(s) ==
  LET after[i \in 0 .. Len(s)] ==
        IF i = 0 THEN [ok |-> TRUE, literals |-> <<>>, holes |-> <<>>, start |-> 1]
        ELSE LET before == after[i - 1]
                 hole == holeAt(s, i)
             IN IF ~before.ok \/ i < before.start \/ s[i] # "{" THEN before
                ELSE IF hole = NoHole THEN Invalid
                ELSE [ok |-> TRUE, start |-> hole.last + 1, holes |-> Append(before.holes, hole),
                      literals |-> Append(before.literals, SubSeq(s, before.start, i - 1))]
  IN after

parseFormatString(s) ==
  LET parts == parseLoop(s)[Len(s)]
  IN IF ~parts.ok THEN Invalid
     ELSE [parts EXCEPT !.literals = Append(@, SubSeq(s, parts.start, Len(s)))]

-----------------------------------------------------------------------------
(* The analyzer.                                                           *)

Integers == {"i32", "i64", "u32", "u64"}
isUnsignedInteger(type) == type \in {"u32", "u64"}

isFormatSubstitutionType(type) == type \in Integers \cup {"f64", "bool", "str"}

\* An argument of a type fits a placeholder.
fits(type, hole) ==
  /\ isFormatSubstitutionType(type)
  /\ hole.kind = "fixed" => type = "f64"
  /\ hole.kind \in {"x", "X", "b"} => type \in Integers

\* Mutant of arityFits: arguments may be missing.
arityFitsLoosely(arguments, holes) == arguments <= holes

arityFits(arguments, holes) == arguments = holes

\* The verdict on a call.  A literal in parentheses is not a literal here.
analyzeFormatPrintCall(c) ==
  IF c.first # "literal" THEN c.arguments = <<>>
  ELSE LET parts == parseFormatString(decodeStringLiteralContent(c.raw))
       IN /\ parts.ok
          /\ arityFits(Len(c.arguments), Len(parts.holes))
          /\ \A i \in 1 .. Len(c.arguments) \cap 1 .. Len(parts.holes) :
               fits(c.arguments[i].type, parts.holes[i])

Analyze ==
  /\ stage = "source"
  /\ stage' = IF analyzeFormatPrintCall(call) THEN "accepted" ELSE "rejected"
  /\ UNCHANGED <<call, body, pieces, output, input, result>>

-----------------------------------------------------------------------------
(* The lowering.                                                           *)

\* No if and no short-circuit operation comes before operation i of a block.
isPassed(block, i) == \A j \in 1 .. i - 1 : block[j].kind # "if"

blocksOf(op) == {op.blocks[b] : b \in DOMAIN op.blocks}

\* The search for the operation of a literal goes through the arms of the first if or
\* short-circuit operation of a block, and not behind it: the blocks that it comes to.
scanned(function) ==
  LET entered(block) == UNION {blocksOf(block[i]) : i \in {i \in DOMAIN block : isPassed(block, i)}}
      blocks[n \in 0 .. MaxNesting] ==
        IF n = 0 THEN {function} ELSE UNION {entered(block) : block \in blocks[n - 1]}
  IN blocks

scan(function) ==
  \E n \in 0 .. MaxNesting : \E block \in scanned(function)[n] : \E i \in DOMAIN block :
    block[i].kind = "literal" /\ isPassed(block, i)

\* The blocks in a block, by how deep they are in it.
Within(block) ==
  LET blocks[n \in 0 .. MaxNesting] ==
        IF n = 0 THEN {block}
        ELSE UNION {UNION {blocksOf(outer[i]) : i \in DOMAIN outer} : outer \in blocks[n - 1]}
  IN blocks

HoldsCall(block) ==
  \E n \in 0 .. MaxNesting : \E inner \in Within(block)[n] : \E i \in DOMAIN inner :
    inner[i].kind = "literal"

\* The builder drops parentheses: their literal is found like any other.
findStringLiteralRaw(c, function) == c.first \in {"literal", "paren"} /\ scan(function)

\* A call of the runtime: its number is the 64 bits of an integer, a float in units or
\* a bool.
Piece(fn, number, text, precision) ==
  [fn |-> fn, number |-> number, text |-> text, precision |-> precision]
PrintStr(text) == Piece("print_str", 0, text, 0)

\* A segment that is empty is not printed.
Segment(text) == IF text = <<>> THEN <<>> ELSE <<PrintStr(text)>>

width(type) == IF type \in {"i32", "u32"} THEN IntBits ELSE Bits

\* Mutant of widenIntegerArgumentToI64: every integer is extended with zeros.
widenWithZeros(argument) == argument.number % TwoTo[width(argument.type)]

\* extui or extsi of the bits of a register.
widenIntegerArgumentToI64(argument) ==
  LET w == width(argument.type)
      register == argument.number % TwoTo[w]
  IN IF ~isUnsignedInteger(argument.type) /\ register >= TwoTo[w - 1]
     THEN register + Modulus - TwoTo[w] ELSE register

lowerOneFormatArgument(argument, hole) ==
  CASE argument.type = "bool" -> Piece("print_bool", argument.number, <<>>, 0)
    [] argument.type = "str" -> PrintStr(argument.text)
    [] argument.type \in Integers ->
         Piece(IF hole.kind \in {"x", "X", "b"} THEN hole.kind
               ELSE IF isUnsignedInteger(argument.type) THEN "print_u64" ELSE "print_i64",
               widenIntegerArgumentToI64(argument), <<>>, 0)
    [] argument.type = "f64" ->
         Piece("print_f64", argument.number, argument.text,
               IF hole.kind = "fixed" THEN hole.precision ELSE DefaultPrecision)

\* The calls of the runtime for a call of print: each placeholder after the text before it.
lowerHoles(parts, arguments) ==
  LET lowered(i) == Segment(parts.literals[i])
                      \o <<lowerOneFormatArgument(arguments[i], parts.holes[i])>>
  IN FlattenSeq([i \in DOMAIN parts.holes |-> lowered(i)])

Newline(c) == IF c.newline THEN <<PrintStr(<<"\n">>)>> ELSE <<>>

lowerFormattedPrintBuiltin(c, parts) ==
  lowerHoles(parts, c.arguments) \o Segment(parts.literals[Len(parts.holes) + 1]) \o Newline(c)

\* A str without format.
lowerDynamicPrint(c, text) == <<PrintStr(text)>> \o Newline(c)

\* What cannot be lowered is met as a logic_error.
Lower ==
  /\ stage = "accepted"
  /\ LET text == decodeStringLiteralContent(call.raw)
         parts == parseFormatString(text)
         found == findStringLiteralRaw(call, body)
         lowered == IF found THEN parts.ok /\ Len(call.arguments) = Len(parts.holes)
                    ELSE call.arguments = <<>>
     IN /\ stage' = IF lowered THEN "lowered" ELSE "thrown"
        /\ pieces' = IF ~lowered THEN <<>>
                     ELSE IF found THEN lowerFormattedPrintBuiltin(call, parts)
                     ELSE lowerDynamicPrint(call, text)
  /\ UNCHANGED <<call, body, output, input, result>>

-----------------------------------------------------------------------------
(* The compiled program.                                                   *)

\* The texts that a call of the runtime may write.
Written(piece) ==
  CASE piece.fn = "print_str" -> {piece.text}
    [] piece.fn = "print_bool" -> {print_bool(piece.number = 1)}
    [] piece.fn = "print_i64" -> {print_i64(piece.number)}
    [] piece.fn = "print_u64" -> {print_u64_decimal(piece.number)}
    [] piece.fn = "x" -> {print_u64_base(piece.number, 16, LowerDigits)}
    [] piece.fn = "X" -> {print_u64_base(piece.number, 16, UpperDigits)}
    [] piece.fn = "b" -> {print_u64_base(piece.number, 2, LowerDigits)}
    [] piece.fn = "print_f64" -> print_f64_fixed(piece.number, piece.text, piece.precision)

Write ==
  /\ stage = "lowered" /\ pieces # <<>>
  /\ \E text \in Written(Head(pieces)) : output' = Append(output, text)
  /\ pieces' = Tail(pieces)
  /\ UNCHANGED <<stage, call, body, input, result>>

firstLine(text) ==
  LET end == CHOOSE j \in 1 .. Len(text) + 1 :
               (\A k \in 1 .. j - 1 : text[k] # "\n") /\ (j <= Len(text) => text[j] = "\n")
  IN SubSeq(text, 1, end - 1)

\* The first line that was printed is the input of a program that parses it.
ReadBack ==
  /\ stage = "lowered" /\ pieces = <<>>
  /\ stage' = "input"
  /\ input' = firstLine(FlattenSeq(output))
  /\ UNCHANGED <<call, body, pieces, output, result>>

ParseText ==
  /\ stage = "input"
  /\ stage' = "parsed"
  /\ result' = [i32 |-> parse_i32(input), u64 |-> parse_u64(input), bool |-> parse_bool(input)]
  /\ UNCHANGED <<call, body, pieces, output, input>>

-----------------------------------------------------------------------------

Absolute(n) == IF n < 0 THEN 0 - n ELSE n

\* The numbers of a type.
numbersOf(type) ==
  IF type = "bool" THEN {0, 1}
  ELSE IF type \in {"i32", "i64"} THEN (0 - TwoTo[width(type) - 1]) .. TwoTo[width(type) - 1] - 1
  ELSE IF type \in {"u32", "u64"} THEN 0 .. TwoTo[width(type)] - 1
  ELSE {v \in Int : IsFloat(Absolute(v))}

ArgumentValues == [type : STRING, number : Int, text : Seq(STRING)]

\* The arguments have types, and the literal is somewhere in the function.
ASSUME ProgramsAssumption ==
  /\ MaxNesting \in Nat
  /\ \A p \in Programs :
       /\ p.call.first \in STRING /\ p.call.raw \in Seq(STRING) /\ p.call.newline \in BOOLEAN
       /\ p.call.arguments \in Seq(ArgumentValues)
       /\ \A i \in DOMAIN p.call.arguments :
            p.call.arguments[i].number \in numbersOf(p.call.arguments[i].type)
       /\ HoldsCall(p.body)

ASSUME InputsAssumption == Inputs \subseteq Seq(STRING)

NoCall == [first |-> "none", raw |-> <<>>, arguments |-> <<>>, newline |-> FALSE]
NoResult == [i32 |-> Failed, u64 |-> Failed, bool |-> Failed]

Init ==
  /\ pieces = <<>> /\ output = <<>> /\ result = NoResult
  /\ \/ stage = "source" /\ input = <<>> /\ \E p \in Programs : call = p.call /\ body = p.body
     \/ stage = "input" /\ call = NoCall /\ body = <<>> /\ input \in Inputs

Next == Analyze \/ Lower \/ Write \/ ReadBack \/ ParseText

Spec == Init /\ [][Next]_vars

-----------------------------------------------------------------------------
(* Properties.                                                             *)

AllDigits(text) == \A i \in DOMAIN text : IsDigit(text[i])

\* The text from position i to the last of a hole is its placeholder
\* (docs/reference/language/builtins_and_io.md).
Spells(s, i, hole) ==
  \/ /\ hole.kind = "default" /\ hole.precision = 0 /\ hole.last = i + 1
     /\ s[i + 1] = "}"
  \/ /\ hole.kind \in {"x", "X", "b"} /\ hole.precision = 0 /\ hole.last = i + 3
     /\ s[i + 1] = ":" /\ s[i + 2] = hole.kind /\ s[i + 3] = "}"
  \/ /\ hole.kind = "fixed" /\ hole.last >= i + 4
     /\ s[i + 1] = ":" /\ s[i + 2] = "." /\ s[hole.last] = "}"
     /\ \E end \in {hole.last - 2, hole.last - 1} :
          /\ i + 3 <= end /\ AllDigits(SubSeq(s, i + 3, end))
          /\ end = hole.last - 2 => s[hole.last - 1] = "f"
          /\ hole.precision = Denoted(SubSeq(s, i + 3, end))

Kinds == {"default", "x", "X", "b", "fixed"}

Placeholders(s, i) ==
  {hole \in [kind : Kinds, precision : 0 .. MaxPrecision, last : i + 1 .. Len(s)] :
     Spells(s, i, hole)}

NoBrace(text) == \A i \in DOMAIN text : text[i] # "{"

\* The placeholder before part k of a format string ends here, and part k there.
EndOf(parts, k) == IF k = 0 THEN 0 ELSE parts.holes[k].last
OpenOf(parts, k) == EndOf(parts, k - 1) + Len(parts.literals[k]) + 1

\* Part k is the text up to a brace, and hole k the placeholder that begins with it.
PartIsRead(s, parts, k) ==
  /\ parts.literals[k] = SubSeq(s, EndOf(parts, k - 1) + 1, OpenOf(parts, k) - 1)
  /\ NoBrace(parts.literals[k])

HoleIsRead(s, parts, k) ==
  s[OpenOf(parts, k)] = "{" /\ parts.holes[k] \in Placeholders(s, OpenOf(parts, k))

IsRead(s, parts) ==
  /\ parts.ok <=> \A i \in DOMAIN s : s[i] = "{" => Placeholders(s, i) # {}
  /\ parts.ok =>
       /\ Len(parts.literals) = Len(parts.holes) + 1
       /\ OpenOf(parts, Len(parts.literals)) = Len(s) + 1
       /\ \A k \in DOMAIN parts.literals : PartIsRead(s, parts, k)
       /\ \A k \in DOMAIN parts.holes : HoleIsRead(s, parts, k)

\* A format string is accepted when every brace that opens begins a placeholder, and
\* its parts are the placeholders in their order and the text between them
\* (parseFormatString).
FormatStringsAreRead ==
  stage \in {"accepted", "rejected"} =>
    LET s == decodeStringLiteralContent(call.raw)
    IN IsRead(s, parseFormatString(s))

\* The call comes after an if, && or || of a block that it is in.
IsBehindIf(function) ==
  \E n \in 0 .. MaxNesting : \E block \in Within(function)[n] :
    \E j \in DOMAIN block : \E i \in 1 .. j - 1 :
      /\ block[i].kind = "if"
      /\ block[j].kind = "literal" \/ \E inner \in blocksOf(block[j]) : HoldsCall(inner)

\* The calls that the analyzer accepts are lowered (lowerFormattedPrintBuiltin): all of
\* them but a literal in parentheses and a call behind an if.
PlainCallsAreLowered ==
  stage = "thrown" => call.first = "paren" \/ IsBehindIf(body)

\* The powers of a base.
PowersOf(base) ==
  LET power[n \in 0 .. Bits] == IF n = 0 THEN 1 ELSE power[n - 1] * base
  IN power

\* The digits of a number, each from its place.
DigitsAt(n, base, digits) ==
  LET power == PowersOf(base)
      length == CHOOSE k \in 1 .. Bits : n < power[k] /\ (k = 1 \/ n >= power[k - 1])
  IN [i \in 1 .. length |-> digits[((n \div power[length - i]) % base) + 1]]

\* A float with its places as a whole number.
Scaled(units, places) == units * TenTo[places]

\* However it is rounded, a uint64_t holds it.
IsConvertible(units, places) ==
  (TwoTo[SignificandBits] + 4) * Scaled(units, places) < TwoTo[SignificandBits] * (Modulus * One)

\* Where it is so small that doubles have a place for its half.
InRange(units, places) == Scaled(units, places) + Half < TwoTo[SignificandBits - 1] * One

\* The decimal number with some places that is nearest to a float, half of one up.
Nearest(units, places) ==
  CHOOSE n \in 0 .. U64Max :
    n * One <= Scaled(units, places) + Half /\ Scaled(units, places) + Half < (n + 1) * One

\* The nearest number, or the next one when the float lies below the half before it by no
\* more than the sum can be rounded.
Neighbours(units, places) ==
  LET n == Nearest(units, places)
      gap == (n + 1) * One - (Scaled(units, places) + Half)
  IN {n} \cup {m \in {n + 1} : TwoTo[SignificandBits - 1] * gap <= m * One}

\* The numbers that are off by no more than four parts in 2^SignificandBits.
Near(units, places) ==
  {m \in 0 .. U64Max :
     TwoTo[SignificandBits] * Absolute(m * One - Scaled(units, places)) <= 4 * Scaled(units, places)}

\* What a float may be printed as.
Printable(units, places) ==
  IF InRange(units, places) THEN Neighbours(units, places) ELSE Near(units, places)

\* The text an argument stands for in the output.
Rendered(argument, hole) ==
  LET v == argument.number
      minus == IF v < 0 THEN <<"-">> ELSE <<>>
  IN CASE argument.type = "str" -> argument.text
       [] argument.type = "bool" -> IF v = 1 THEN True ELSE False
       [] argument.type \in Integers /\ hole.kind = "default" ->
            minus \o DigitsAt(Absolute(v), 10, LowerDigits)
       [] argument.type \in Integers /\ hole.kind # "default" ->
            DigitsAt(v % Modulus, IF hole.kind = "b" THEN 2 ELSE 16,
                     IF hole.kind = "X" THEN UpperDigits ELSE LowerDigits)
       [] OTHER -> <<>>

\* The text of a call with each placeholder replaced by its argument.
Expansion(c, s) ==
  LET parts == parseFormatString(s)
      expanded(i) == parts.literals[i] \o Rendered(c.arguments[i], parts.holes[i])
      end == IF c.newline THEN <<"\n">> ELSE <<>>
  IN IF c.first # "literal" THEN s \o end
     ELSE FlattenSeq([i \in DOMAIN parts.holes |-> expanded(i)])
            \o parts.literals[Len(parts.holes) + 1] \o end

WithoutFloats(c) == \A i \in DOMAIN c.arguments : c.arguments[i].type # "f64"

\* Every call but one with a float writes its text with each placeholder replaced by its
\* argument: in decimal, or the two's complement of 64 bits in its base; then the
\* newline (lowerFormattedPrintBuiltin, print_i64, print_u64_base).
OutputIsTheExpansion ==
  stage = "lowered" /\ pieces = <<>> /\ WithoutFloats(call) =>
    FlattenSeq(output) = Expansion(call, decodeStringLiteralContent(call.raw))

\* A float is printed as the nearest number with the places asked for: never the one
\* below it, and the one above it only when the float is so near to the half that adding
\* 0.5 may round to it.  Above 2^(SignificandBits - 1), where doubles have no place for the
\* half, it is printed within four parts in 2^SignificandBits (print_f64_fixed).
FloatsAreRounded ==
  stage = "lowered" /\ pieces # <<>> /\ Head(pieces).fn = "print_f64" =>
    LET units == Head(pieces).number
        places == Head(pieces).precision
    IN Head(pieces).text = <<>> /\ IsConvertible(Absolute(units), places) =>
         \A text \in Written(Head(pieces)) :
           LET sign == IF units < 0 THEN 1 ELSE 0
               point == Len(text) - places
               digits == IF places = 0 THEN SubSeq(text, sign + 1, Len(text))
                         ELSE SubSeq(text, sign + 1, point - 1)
                                \o SubSeq(text, point + 1, Len(text))
           IN /\ sign = 1 => text[1] = "-"
              /\ places > 0 => text[point] = "." /\ sign + 1 <= point - 1
              /\ AllDigits(digits)
              /\ Denoted(digits) \in Printable(Absolute(units), places)

Spaces(text, i, j) == \A k \in i .. j : text[k] = " "

\* The digits from i to j, then spaces, are the rest of a text.
EndsWithDigits(text, i, j) ==
  i <= j /\ AllDigits(SubSeq(text, i, j)) /\ Spaces(text, j + 1, Len(text))

Ranges(text) == (DOMAIN text) \X (DOMAIN text)

\* The numbers that a text is, without and with a sign.
UnsignedNumbers(text) ==
  {Denoted(SubSeq(text, p[1], p[2])) :
     p \in {p \in Ranges(text) : Spaces(text, 1, p[1] - 1) /\ EndsWithDigits(text, p[1], p[2])}}

SignedNumbers(text) ==
  {IF text[p[1]] = "-" THEN 0 - Denoted(SubSeq(text, p[1] + 1, p[2]))
   ELSE Denoted(SubSeq(text, p[1] + 1, p[2])) :
     p \in {p \in Ranges(text) : /\ Spaces(text, 1, p[1] - 1) /\ text[p[1]] \in {"-", "+"}
                                 /\ EndsWithDigits(text, p[1] + 1, p[2])}}

\* A text is parsed when it is one of the numbers, and as that one.
IsExactly(parsed, numbers) ==
  (parsed.ok <=> numbers # {}) /\ (parsed.ok => parsed.value \in numbers)

\* A text is parsed as a number exactly when it is one: spaces, a sign for an i32, at
\* least one digit, spaces, and a value that the type holds (parse_u64_ascii,
\* nex_runtime_parse_i32).
ParsesAreExact ==
  stage = "parsed" =>
    /\ IsExactly(result.u64, UnsignedNumbers(input) \cap 0 .. U64Max)
    /\ IsExactly(result.i32, (UnsignedNumbers(input) \cup SignedNumbers(input)) \cap
                               (0 - TwoTo[IntBits - 1]) .. TwoTo[IntBits - 1] - 1)

\* An i32, u64 or bool that was printed by itself is read back as the value it was
\* (nex_runtime_print_i64, nex_runtime_print_u64, print_bool and their parsers).
NumbersAreReadBack ==
  stage = "parsed" /\ call.raw = <<"{", "}">> /\ Len(call.arguments) = 1 =>
    LET argument == call.arguments[1]
    IN /\ argument.type = "i32" => result.i32 = Parsed(argument.number)
       /\ argument.type = "u64" => result.u64 = Parsed(argument.number)
       /\ argument.type = "bool" => result.bool = Parsed(argument.number)
=============================================================================
