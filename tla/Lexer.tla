-------------------------------- MODULE Lexer --------------------------------
(***************************************************************************)
(* The lexer (src/frontend/lexer.cpp): Lexer::tokenize turns the text of a *)
(* program into tokens.  One action is one turn of its loops: one piece of *)
(* trivia skipped, or one token.                                           *)
(*                                                                         *)
(* The text is a sequence of characters, each a string of length one;      *)
(* positions are numbered from 1.  The kind of an operator or a keyword is *)
(* its spelling; the other kinds are Identifier, IntegerLiteral,           *)
(* FloatLiteral, StringLiteral and EndOfFile.  A token is the span from    *)
(* start up to, but without, end.                                          *)
(***************************************************************************)
EXTENDS Naturals, Sequences, SequencesExt, FiniteSets

CONSTANTS
  Texts,      \* the texts to compile
  AsciiAlpha  \* the letters that occur in them, without '_'

VARIABLES
  phase,      \* "lex", then what follows
  text,
  current,    \* current_
  tokens,
  rejected    \* some diagnostic has been reported

lexerVars == <<phase, text, current, tokens, rejected>>

Digit == {"0", "1", "2", "3", "4", "5", "6", "7", "8", "9"}
HexLetter == {"a", "b", "c", "d", "e", "f", "A", "B", "C", "D", "E", "F"}
Space == {" ", "\t", "\n", "\r"}
Quote == "\""
Backslash == "\\"
Escapable == {Quote, Backslash, "n", "t", "r"}

isIdentifierStart(c) == c \in AsciiAlpha \cup {"_"}
isIdentifierContinue(c) == isIdentifierStart(c) \/ c \in Digit
isHexDigit(c) == c \in Digit \cup HexLetter

Keywords == {"bool", "break", "const", "continue", "else", "false", "for", "fn",
             "if", "let", "mut", "return", "true", "void", "while"}

keywordKind(spelling) == IF spelling \in Keywords THEN spelling ELSE "Identifier"

\* Operators of two characters, and those of one.
Doubles == {<<"-", ">">>, <<"!", "=">>, <<"=", "=">>, <<"<", "=">>, <<"<", "<">>,
            <<">", "=">>, <<">", ">">>, <<"&", "&">>, <<"|", "|">>}
Singles == {"+", "-", "*", "/", "%", "!", "~", "=", "<", ">", "&", "|", "^",
            "(", ")", "[", "]", "{", "}", ",", ";", ":"}

ASSUME TextsAssumption == Texts \subseteq Seq(STRING)
\* Letters have no other role.
ASSUME LettersAssumption ==
  AsciiAlpha \cap (Digit \cup Space \cup Singles \cup {Quote, Backslash, "_", ".", "NUL"}) = {}

-----------------------------------------------------------------------------

\* Past the end a peek sees '\0', which is no character of any text.
peek(i) == IF i <= Len(text) THEN text[i] ELSE "NUL"

Spelling(start, end) == FoldLeft(LAMBDA s, c : s \o c, "", SubSeq(text, start, end - 1))

\* The positions of some characters.
At(chars) == {i \in DOMAIN text : text[i] \in chars}

\* The first position from i on that is one of the stops, or the end of the text.
Until(i, stops) ==
  CHOOSE j \in i .. Len(text) + 1 :
    /\ j > Len(text) \/ j \in stops
    /\ \A k \in i .. j - 1 : k \notin stops

Emit(kind, end) ==
  /\ tokens' = Append(tokens, [kind |-> kind, text |-> Spelling(current, end),
                               start |-> current, end |-> end])
  /\ current' = end
  /\ UNCHANGED <<phase, text>>

Skip(end) ==
  /\ current' = end
  /\ UNCHANGED <<phase, text, tokens>>

Lexing == phase = "lex" /\ current <= Len(text)

-----------------------------------------------------------------------------
(* Trivia.                                                                 *)

SkipWhitespace ==
  /\ Lexing
  /\ peek(current) \in Space
  /\ Skip(current + 1)
  /\ UNCHANGED rejected

\* Up to the newline, which is whitespace.
SkipLineComment ==
  /\ Lexing
  /\ peek(current) = "/" /\ peek(current + 1) = "/"
  /\ Skip(Until(current, At({"\n"})))
  /\ UNCHANGED rejected

\* Block comments do not nest; one that is not closed takes the rest of the text.
SkipBlockComment ==
  /\ Lexing
  /\ peek(current) = "/" /\ peek(current + 1) = "*"
  /\ LET close == Until(current + 2, {i \in At({"*"}) : peek(i + 1) = "/"})
     IN IF close > Len(text)
          THEN Skip(close) /\ rejected' = TRUE
          ELSE Skip(close + 2) /\ UNCHANGED rejected

-----------------------------------------------------------------------------
(* Tokens.                                                                 *)

lexIdentifierOrKeyword ==
  /\ Lexing
  /\ isIdentifierStart(peek(current))
  /\ LET end == Until(current, {i \in DOMAIN text : ~isIdentifierContinue(text[i])})
     IN Emit(keywordKind(Spelling(current, end)), end)
  /\ UNCHANGED rejected

DigitsFrom(i) == Until(i, {j \in DOMAIN text : text[j] \notin Digit})

IsHex == peek(current) = "0" /\ peek(current + 1) \in {"x", "X"}

lexHexLiteral ==
  /\ Lexing
  /\ IsHex
  /\ LET end == Until(current + 2, {i \in DOMAIN text : ~isHexDigit(text[i])})
     IN /\ Emit("IntegerLiteral", end)
        /\ rejected' = (rejected \/ end = current + 2)

\* Where the fraction that may follow the integer part ends.
fractionEnd(i) ==
  IF peek(i) = "." /\ peek(i + 1) \in Digit THEN DigitsFrom(i + 1) ELSE i

HasExponent(i) == peek(i) \in {"e", "E"}
exponentStart(i) == IF peek(i + 1) \in {"+", "-"} THEN i + 2 ELSE i + 1

lexDecimalLiteral ==
  /\ Lexing
  /\ peek(current) \in Digit /\ ~IsHex
  /\ LET integerEnd == DigitsFrom(current)
         fraction == fractionEnd(integerEnd)
         exponent == exponentStart(fraction)
         end == IF HasExponent(fraction) THEN DigitsFrom(exponent) ELSE fraction
     IN /\ Emit(IF end = integerEnd THEN "IntegerLiteral" ELSE "FloatLiteral", end)
        /\ rejected' = (rejected \/ (HasExponent(fraction) /\ end = exponent))

\* Is the character at i escaped, in a string that starts at current?  It is when
\* an odd number of backslashes stands before it.
Escaped(i) ==
  \E j \in current .. i - 2 :
    /\ text[j] # Backslash
    /\ \A k \in j + 1 .. i - 1 : text[k] = Backslash
    /\ (i - 1 - j) % 2 = 1

\* The raw spelling is kept; a string ends at its quote, at a line end or at the
\* end of the text, and only the first is no error.
lexStringLiteral ==
  /\ Lexing
  /\ peek(current) = Quote
  /\ LET last == Until(current + 1, {i \in At({Quote, "\n", "\r"}) : ~Escaped(i)})
         end == IF last > Len(text) THEN last ELSE last + 1
         badEscape == \E i \in current + 1 .. end - 1 : Escaped(i) /\ text[i] \notin Escapable
     IN /\ Emit("StringLiteral", end)
        /\ rejected' = (rejected \/ peek(last) # Quote \/ badEscape)

StartsComment == peek(current) = "/" /\ peek(current + 1) \in {"/", "*"}

\* Mutant of lexOperator: the second character is not looked at.
lexOperatorShort ==
  /\ Lexing
  /\ ~StartsComment
  /\ peek(current) \in Singles
  /\ Emit(peek(current), current + 1)
  /\ UNCHANGED rejected

lexOperator ==
  /\ Lexing
  /\ ~StartsComment
  /\ LET pair == <<peek(current), peek(current + 1)>>
     IN \/ pair \in Doubles /\ Emit(pair[1] \o pair[2], current + 2)
        \/ pair \notin Doubles /\ peek(current) \in Singles /\ Emit(peek(current), current + 1)
  /\ UNCHANGED rejected

\* A character that starts no token leaves an EndOfFile token in its place.
lexUnsupported ==
  /\ Lexing
  /\ LET c == peek(current)
     IN /\ ~isIdentifierStart(c)
        /\ c \notin Digit \cup Space \cup Singles \cup {Quote}
  /\ Emit("EndOfFile", current + 1)
  /\ rejected' = TRUE

EndOfText ==
  /\ phase = "lex"
  /\ current > Len(text)
  /\ phase' = "parse"
  /\ tokens' = Append(tokens, [kind |-> "EndOfFile", text |-> "",
                               start |-> current, end |-> current])
  /\ UNCHANGED <<text, current, rejected>>

-----------------------------------------------------------------------------

LexerInit ==
  /\ phase = "lex"
  /\ text \in Texts
  /\ current = 1
  /\ tokens = <<>>
  /\ rejected = FALSE

LexerNext ==
  \/ SkipWhitespace \/ SkipLineComment \/ SkipBlockComment
  \/ lexIdentifierOrKeyword \/ lexHexLiteral \/ lexDecimalLiteral
  \/ lexStringLiteral \/ lexOperator \/ lexUnsupported
  \/ EndOfText

\* A step of the lexer, or one of what follows it, which does not come back to it.
LexerStep == LexerNext \/ (phase # "lex" /\ phase' # "lex")

LexerSpec == LexerInit /\ [][LexerStep]_lexerVars

-----------------------------------------------------------------------------
(* The lexemes of docs/reference/language: whether the characters of t     *)
(* from i up to, but without, e are one.                                   *)

AllIn(t, i, e, chars) == \A k \in i .. e - 1 : t[k] \in chars

IsOperator(t, i, e) ==
  \/ e = i + 1 /\ t[i] \in Singles
  \/ e = i + 2 /\ <<t[i], t[i + 1]>> \in Doubles

IsName(t, i, e) == isIdentifierStart(t[i]) /\ \A k \in i + 1 .. e - 1 : isIdentifierContinue(t[k])

IsDigits(t, i, e) == i < e /\ AllIn(t, i, e, Digit)

IsHexadecimal(t, i, e) ==
  /\ i + 2 < e
  /\ t[i] = "0" /\ t[i + 1] \in {"x", "X"}
  /\ \A k \in i + 2 .. e - 1 : isHexDigit(t[k])

IsFraction(t, p, f) == f = p \/ (t[p] = "." /\ IsDigits(t, p + 1, f))

IsExponent(t, f, e) ==
  \/ e = f
  \/ /\ t[f] \in {"e", "E"}
     /\ \/ IsDigits(t, f + 1, e)
        \/ f + 2 < e /\ t[f + 1] \in {"+", "-"} /\ IsDigits(t, f + 2, e)

\* Digits, then a fraction and an exponent, which may be absent.
IsDecimal(t, i, e) ==
  /\ AllIn(t, i, e, Digit \cup {".", "e", "E", "+", "-"})
  /\ \E p \in i + 1 .. e : /\ IsDigits(t, i, p)
                           /\ \E f \in p .. e : IsFraction(t, p, f) /\ IsExponent(t, f, e)

\* The backslashes that begin an escape are those of escapes.
IsString(t, i, e) ==
  /\ i + 1 < e /\ t[i] = Quote /\ t[e - 1] = Quote
  /\ \E escapes \in SUBSET {k \in i + 1 .. e - 2 : t[k] = Backslash} :
       \A k \in i + 1 .. e - 2 :
         IF k \in escapes
           THEN k + 1 < e - 1 /\ k + 1 \notin escapes /\ t[k + 1] \in Escapable
           ELSE k - 1 \in escapes \/ t[k] \notin {Quote, Backslash, "\n", "\r"}

IsLexeme(t, i, e) ==
  \/ IsOperator(t, i, e)
  \/ IsName(t, i, e)
  \/ IsHexadecimal(t, i, e)
  \/ IsDecimal(t, i, e)
  \/ IsString(t, i, e)

\* In a text without a lexical error every token is a lexeme, no longer lexeme starts at
\* its place, and it does not overlap the token before it ("maximal munch",
\* lexIdentifierOrKeyword, the literals and the operators of lexToken).  Each token is
\* looked at in the state that it is the last one.
TokensAreLongest ==
  phase = "lex" /\ ~rejected /\ tokens # <<>> =>
    LET token == Last(tokens) IN
    /\ token.start < token.end
    /\ IsLexeme(text, token.start, token.end)
    /\ \A e \in token.end + 1 .. Len(text) + 1 : ~IsLexeme(text, token.start, e)
    /\ \A n \in 1 .. Len(tokens) - 1 : tokens[n].end <= token.start
=============================================================================
