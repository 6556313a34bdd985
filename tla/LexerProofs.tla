----------------------------- MODULE LexerProofs -----------------------------
(***************************************************************************)
(* Proofs about Lexer: in a text without a lexical error every token is    *)
(* the longest lexeme at its place.                                        *)
(***************************************************************************)
EXTENDS Lexer, SequenceLemmas

\* Characters that begin a name begin nothing else, nor do they go on a number.
LEMMA NameCharacters ==
  \A c : isIdentifierStart(c) => c \notin Digit /\ c \notin Singles /\ c # Quote
BY LettersAssumption DEF isIdentifierStart, Digit, Space, Singles, Quote

\* Digits begin numbers only.
LEMMA DigitCharacters ==
  \A c \in Digit : /\ c \notin Singles /\ c # Quote /\ ~isIdentifierStart(c)
                   /\ c \notin {".", "x", "X", "e", "E", "+", "-"}
BY LettersAssumption DEF isIdentifierStart, Digit, Space, Singles, Quote

\* A quote begins strings only.
LEMMA QuoteCharacters ==
  Quote \notin Singles /\ Quote \notin Digit /\ ~isIdentifierStart(Quote)
BY LettersAssumption DEF isIdentifierStart, Digit, Space, Singles, Quote

\* An operator of two characters begins with one of one.
LEMMA DoubleCharacters ==
  \A c, d : <<c, d>> \in Doubles => c \in Singles /\ d # "NUL"
BY DEF Doubles, Singles

\* The first of some stops, or the end of the text.
LEMMA UntilIs ==
  ASSUME text \in Seq(STRING), NEW i \in 1 .. Len(text) + 1, NEW stops
  PROVE  /\ Until(i, stops) \in i .. Len(text) + 1
         /\ Until(i, stops) > Len(text) \/ Until(i, stops) \in stops
         /\ \A k \in i .. Until(i, stops) - 1 : k \notin stops
<1>1. PICK n \in Nat : n = Len(text)
  OBVIOUS
<1>2. PICK S : S = {j \in i .. n + 1 : j > n \/ j \in stops}
  OBVIOUS
<1>3. S \subseteq Nat /\ S # {}
  <2>1. n + 1 \in S
    BY <1>1, <1>2
  <2>. QED
    BY <1>1, <1>2, <2>1
<1>4. PICK j \in S : \A k \in S : j <= k
  BY <1>3, LeastExists
<1>5. /\ j \in i .. n + 1 /\ (j > n \/ j \in stops)
      /\ \A k \in i .. j - 1 : k \notin stops
  BY <1>1, <1>2, <1>4
<1>6. \E x \in i .. n + 1 : (x > n \/ x \in stops) /\ \A k \in i .. x - 1 : k \notin stops
  BY <1>5
<1>. QED
  BY <1>1, <1>6, Zenon DEF Until

-----------------------------------------------------------------------------
(* Lexemes, by their first character.                                      *)

\* The longest lexeme from i on ends at e.
IsLongest(t, i, e) ==
  /\ i < e /\ IsLexeme(t, i, e)
  /\ \A f \in e + 1 .. Len(t) + 1 : ~IsLexeme(t, i, f)

\* A decimal literal begins with a digit.
LEMMA DecimalBegins ==
  ASSUME NEW t, NEW i \in Nat, NEW f \in Nat, IsDecimal(t, i, f)
  PROVE  t[i] \in Digit
<1>1. PICK p \in i + 1 .. f : IsDigits(t, i, p)
  BY DEF IsDecimal
<1>. QED
  BY <1>1 DEF IsDigits, AllIn

\* What begins with a letter is a name.
LEMMA LexemeOfName ==
  ASSUME NEW t, NEW i \in Nat, NEW f \in Nat, isIdentifierStart(t[i]), IsLexeme(t, i, f)
  PROVE  IsName(t, i, f)
<1>1. t[i] \notin Digit /\ t[i] \notin Singles /\ t[i] # Quote
  BY NameCharacters
<1>2. ~IsOperator(t, i, f)
  BY <1>1, DoubleCharacters DEF IsOperator
<1>3. "0" \in Digit
  BY DEF Digit
<1>. QED
  BY <1>1, <1>2, <1>3, DecimalBegins DEF IsLexeme, IsHexadecimal, IsString

\* What begins with a digit is a number.
LEMMA LexemeOfDigit ==
  ASSUME NEW t, NEW i \in Nat, NEW f \in Nat, t[i] \in Digit, IsLexeme(t, i, f)
  PROVE  IsHexadecimal(t, i, f) \/ IsDecimal(t, i, f)
<1>1. ~isIdentifierStart(t[i]) /\ t[i] \notin Singles /\ t[i] # Quote
  BY DigitCharacters
<1>2. ~IsOperator(t, i, f)
  BY <1>1, DoubleCharacters DEF IsOperator
<1>. QED
  BY <1>1, <1>2 DEF IsLexeme, IsName, IsString

\* What begins with a quote is a string.
LEMMA LexemeOfQuote ==
  ASSUME NEW t, NEW i \in Nat, NEW f \in Nat, t[i] = Quote, IsLexeme(t, i, f)
  PROVE  IsString(t, i, f)
<1>1. ~isIdentifierStart(t[i]) /\ t[i] \notin Singles /\ t[i] \notin Digit
  BY QuoteCharacters
<1>2. ~IsOperator(t, i, f)
  BY <1>1, DoubleCharacters DEF IsOperator
<1>3. "0" \in Digit
  BY DEF Digit
<1>. QED
  BY <1>1, <1>2, <1>3, DecimalBegins DEF IsLexeme, IsName, IsHexadecimal

\* What begins with an operator is one.
LEMMA LexemeOfOperator ==
  ASSUME NEW t, NEW i \in Nat, NEW f \in Nat, t[i] \in Singles, IsLexeme(t, i, f)
  PROVE  IsOperator(t, i, f)
<1>1. ~isIdentifierStart(t[i]) /\ t[i] # Quote /\ t[i] \notin Digit
  BY NameCharacters, DigitCharacters, QuoteCharacters
<1>2. "0" \in Digit
  BY DEF Digit
<1>. QED
  BY <1>1, <1>2, DecimalBegins DEF IsLexeme, IsName, IsString, IsHexadecimal

-----------------------------------------------------------------------------
(* The longest ones.                                                       *)

\* A name ends where its characters do.
LEMMA LongestName ==
  ASSUME NEW t \in Seq(STRING), NEW i \in 1 .. Len(t), NEW e \in i .. Len(t) + 1,
         isIdentifierStart(t[i]),
         \A k \in i .. e - 1 : isIdentifierContinue(t[k]),
         e > Len(t) \/ ~isIdentifierContinue(t[e])
  PROVE  IsLongest(t, i, e)
<1>1. PICK n \in Nat : n = Len(t)
  OBVIOUS
<1>2. i < e
  BY <1>1 DEF isIdentifierContinue
<1>3. IsName(t, i, e)
  BY <1>1 DEF IsName
<1>4. ASSUME NEW f \in e + 1 .. n + 1, IsLexeme(t, i, f)
      PROVE  FALSE
  <2>1. IsName(t, i, f)
    BY <1>1, <1>4, LexemeOfName
  <2>2. e \in i + 1 .. f - 1 /\ e <= n
    BY <1>1, <1>2
  <2>. QED
    BY <1>1, <2>1, <2>2 DEF IsName
<1>. QED
  BY <1>1, <1>2, <1>3, <1>4 DEF IsLongest, IsLexeme

\* A hexadecimal literal ends where its digits do.
LEMMA LongestHexadecimal ==
  ASSUME NEW t \in Seq(STRING), NEW i \in 1 .. Len(t), NEW e \in i + 3 .. Len(t) + 1,
         t[i] = "0", t[i + 1] \in {"x", "X"},
         \A k \in i + 2 .. e - 1 : isHexDigit(t[k]),
         e > Len(t) \/ ~isHexDigit(t[e])
  PROVE  IsLongest(t, i, e)
<1>1. PICK n \in Nat : n = Len(t)
  OBVIOUS
<1>2. IsHexadecimal(t, i, e)
  BY <1>1 DEF IsHexadecimal
<1>3. ASSUME NEW f \in e + 1 .. n + 1, IsLexeme(t, i, f)
      PROVE  FALSE
  <2>1. CASE IsHexadecimal(t, i, f)
    <3>1. e \in i + 2 .. f - 1 /\ e <= n
      BY <1>1
    <3>. QED
      BY <1>1, <2>1, <3>1 DEF IsHexadecimal
  <2>2. CASE IsDecimal(t, i, f)
    <3>1. i + 1 \in i .. f - 1
      BY <1>1
    <3>2. t[i + 1] \in Digit \cup {".", "e", "E", "+", "-"}
      BY <2>2, <3>1, Zenon DEF IsDecimal, AllIn
    <3>. QED
      BY <3>2 DEF Digit
  <2>3. "0" \in Digit
    BY DEF Digit
  <2>. QED
    BY <1>1, <1>3, <2>1, <2>2, <2>3, LexemeOfDigit
<1>. QED
  BY <1>1, <1>2, <1>3 DEF IsLongest, IsLexeme

\* An operator of two characters is longer than one of one.
LEMMA LongestOperator ==
  ASSUME NEW t \in Seq(STRING), NEW i \in 1 .. Len(t), NEW e \in {i + 1, i + 2}, e <= Len(t) + 1,
         t[i] \in Singles, e = i + 2 <=> (i < Len(t) /\ <<t[i], t[i + 1]>> \in Doubles)
  PROVE  IsLongest(t, i, e)
<1>1. PICK n \in Nat : n = Len(t)
  OBVIOUS
<1>2. IsOperator(t, i, e)
  BY <1>1 DEF IsOperator
<1>3. ASSUME NEW f \in e + 1 .. n + 1, IsLexeme(t, i, f)
      PROVE  FALSE
  <2>1. IsOperator(t, i, f)
    BY <1>1, <1>3, LexemeOfOperator
  <2>. QED
    BY <1>1, <2>1 DEF IsOperator
<1>. QED
  BY <1>1, <1>2, <1>3 DEF IsLongest, IsLexeme

-----------------------------------------------------------------------------
(* Decimal literals.                                                       *)

\* The digits from i on end at e.
DigitRun(t, i, e) ==
  /\ i <= e /\ e <= Len(t) + 1
  /\ AllIn(t, i, e, Digit)
  /\ e > Len(t) \/ t[e] \notin Digit

\* DigitsFrom finds the end of the digits.
LEMMA DigitRunIs ==
  ASSUME text \in Seq(STRING), NEW i \in 1 .. Len(text) + 1
  PROVE  DigitRun(text, i, DigitsFrom(i)) /\ DigitsFrom(i) \in i .. Len(text) + 1
<1>1. PICK stops : stops = {j \in DOMAIN text : text[j] \notin Digit}
  OBVIOUS
<1>2. PICK e : e = DigitsFrom(i)
  OBVIOUS
<1>3. PICK n \in Nat : n = Len(text) /\ DOMAIN text = 1 .. n
  OBVIOUS
<1>4. /\ e \in i .. n + 1 /\ (e > n \/ e \in stops)
      /\ \A k \in i .. e - 1 : k \notin stops
  BY <1>1, <1>2, <1>3, UntilIs DEF DigitsFrom
<1>5. \A k \in i .. e - 1 : text[k] \in Digit
  BY <1>1, <1>3, <1>4
<1>. QED
  BY <1>1, <1>2, <1>3, <1>4, <1>5 DEF DigitRun, AllIn

\* Digits from i on end there or before, and before it only a digit follows them.
LEMMA DigitsInRun ==
  ASSUME NEW t \in Seq(STRING), NEW i \in Nat, NEW e \in Nat, DigitRun(t, i, e),
         NEW f \in Nat, IsDigits(t, i, f), f <= Len(t) + 1
  PROVE  f <= e /\ (f # e => f < e /\ t[f] \in Digit)
<1>1. PICK n \in Nat : n = Len(t)
  OBVIOUS
<1>2. ~(e < f)
  BY <1>1 DEF DigitRun, IsDigits, AllIn
<1>3. ASSUME f < e
      PROVE  t[f] \in Digit
  BY <1>3 DEF DigitRun, IsDigits, AllIn
<1>. QED
  BY <1>2, <1>3

\* The fraction of fractionEnd, and the exponent of lexDecimalLiteral when it has digits.
HasFraction(t, p) == p + 1 <= Len(t) /\ t[p] = "." /\ t[p + 1] \in Digit

FractionTo(t, p, q) ==
  \/ HasFraction(t, p) /\ DigitRun(t, p + 1, q)
  \/ ~HasFraction(t, p) /\ q = p

Signed(t, q) == q + 1 <= Len(t) /\ t[q + 1] \in {"+", "-"}

ExponentTo(t, q, e) ==
  \/ /\ q <= Len(t) /\ t[q] \in {"e", "E"}
     /\ \/ Signed(t, q) /\ DigitRun(t, q + 2, e) /\ q + 2 < e
        \/ ~Signed(t, q) /\ DigitRun(t, q + 1, e) /\ q + 1 < e
  \/ ~(q <= Len(t) /\ t[q] \in {"e", "E"}) /\ e = q

\* A fraction that follows the same digits is that one, or it ends inside it.
LEMMA FractionInRun ==
  ASSUME NEW t \in Seq(STRING), NEW p \in Nat, NEW q \in Nat, FractionTo(t, p, q),
         NEW f \in Nat, IsFraction(t, p, f), f <= Len(t) + 1
  PROVE  f <= q /\ (f # q => f < q /\ (t[f] \in Digit \/ t[f] = "."))
<1>1. PICK n \in Nat : n = Len(t)
  OBVIOUS
<1>2. CASE HasFraction(t, p) /\ DigitRun(t, p + 1, q)
  <2>1. CASE f = p
    BY <1>1, <1>2, <2>1 DEF HasFraction, DigitRun
  <2>2. CASE IsDigits(t, p + 1, f)
    BY <1>1, <1>2, <2>2, DigitsInRun
  <2>. QED
    BY <2>1, <2>2 DEF IsFraction
<1>3. CASE ~HasFraction(t, p) /\ q = p
  <2>1. CASE f = p
    BY <1>3, <2>1
  <2>2. CASE t[p] = "." /\ IsDigits(t, p + 1, f)
    BY <1>1, <1>3, <2>2 DEF HasFraction, IsDigits, AllIn
  <2>. QED
    BY <2>1, <2>2 DEF IsFraction
<1>. QED
  BY <1>2, <1>3 DEF FractionTo

\* An exponent that follows the same fraction ends there or before.
LEMMA ExponentInRun ==
  ASSUME NEW t \in Seq(STRING), NEW q \in Nat, NEW e \in Nat, ExponentTo(t, q, e),
         NEW f \in Nat, IsExponent(t, q, f), f <= Len(t) + 1
  PROVE  f <= e
<1>1. PICK n \in Nat : n = Len(t)
  OBVIOUS
<1>2. q <= e
  BY <1>1 DEF ExponentTo
<1>3. CASE f = q
  BY <1>2, <1>3
<1>4. CASE t[q] \in {"e", "E"} /\ IsDigits(t, q + 1, f)
  <2>1. t[q + 1] \in Digit /\ q + 1 <= n
    BY <1>1, <1>4 DEF IsDigits, AllIn
  <2>2. ~Signed(t, q)
    BY <2>1, DigitCharacters DEF Signed
  <2>3. DigitRun(t, q + 1, e)
    BY <1>1, <1>4, <2>1, <2>2 DEF ExponentTo
  <2>. QED
    BY <1>1, <1>4, <2>3, DigitsInRun
<1>5. CASE t[q] \in {"e", "E"} /\ f > q + 2 /\ t[q + 1] \in {"+", "-"} /\ IsDigits(t, q + 2, f)
  <2>1. Signed(t, q) /\ q <= n
    BY <1>1, <1>5 DEF Signed
  <2>2. DigitRun(t, q + 2, e)
    BY <1>1, <1>5, <2>1 DEF ExponentTo
  <2>. QED
    BY <1>1, <1>5, <2>2, DigitsInRun
<1>. QED
  BY <1>3, <1>4, <1>5 DEF IsExponent

\* A decimal literal is as long as its parts.
LEMMA LongestDecimal ==
  ASSUME NEW t \in Seq(STRING), NEW i \in 1 .. Len(t), NEW p \in Nat, NEW q \in Nat, NEW e \in Nat,
         t[i] \in Digit, DigitRun(t, i, p), FractionTo(t, p, q), ExponentTo(t, q, e),
         ~(t[i] = "0" /\ i < Len(t) /\ t[i + 1] \in {"x", "X"})
  PROVE  IsLongest(t, i, e) /\ e <= Len(t) + 1
<1>1. PICK n \in Nat : n = Len(t)
  OBVIOUS
<1>2. i < p /\ p <= n + 1
  BY <1>1 DEF DigitRun
<1>3. p <= q /\ q <= n + 1
  BY <1>1, <1>2 DEF FractionTo, DigitRun
<1>4. q <= e /\ e <= n + 1
  BY <1>1, <1>3 DEF ExponentTo, DigitRun
<1>5. IsDecimal(t, i, e)
  <2>1. IsDigits(t, i, p)
    BY <1>2 DEF DigitRun, IsDigits
  <2>2. IsFraction(t, p, q)
    BY <1>1, <1>2 DEF FractionTo, HasFraction, IsFraction, IsDigits, DigitRun
  <2>3. IsExponent(t, q, e)
    BY <1>1, <1>3 DEF ExponentTo, Signed, IsExponent, IsDigits, DigitRun
  <2>4. AllIn(t, i, e, Digit \cup {".", "e", "E", "+", "-"})
    <3>1. \A k \in i .. p - 1 : t[k] \in Digit
      BY DEF DigitRun, AllIn
    <3>2. \A k \in p .. q - 1 : t[k] \in Digit \cup {"."}
      BY <1>1, <1>2 DEF FractionTo, HasFraction, DigitRun, AllIn
    <3>3. \A k \in q .. e - 1 : t[k] \in Digit \cup {"e", "E", "+", "-"}
      BY <1>1, <1>3 DEF ExponentTo, Signed, DigitRun, AllIn
    <3>4. \A k \in i .. e - 1 : k \in i .. p - 1 \/ k \in p .. q - 1 \/ k \in q .. e - 1
      BY <1>1, <1>2, <1>3, <1>4
    <3>. QED
      BY <3>1, <3>2, <3>3, <3>4 DEF AllIn
  <2>5. p \in i + 1 .. e /\ q \in p .. e
    BY <1>1, <1>2, <1>3, <1>4
  <2>. QED
    BY <2>1, <2>2, <2>3, <2>4, <2>5, Zenon DEF IsDecimal
<1>6. ASSUME NEW f \in e + 1 .. n + 1, IsLexeme(t, i, f)
      PROVE  FALSE
  <2>1. IsDecimal(t, i, f)
    <3>1. ~IsHexadecimal(t, i, f)
      BY <1>1 DEF IsHexadecimal
    <3>. QED
      BY <1>1, <1>6, <3>1, LexemeOfDigit
  <2>2. PICK x \in i + 1 .. f : IsDigits(t, i, x) /\ \E y \in x .. f : IsFraction(t, x, y) /\ IsExponent(t, y, f)
    BY <2>1 DEF IsDecimal
  <2>3. PICK y \in x .. f : IsFraction(t, x, y) /\ IsExponent(t, y, f)
    BY <2>2
  <2>4. x <= p /\ (x # p => x < p /\ t[x] \in Digit) /\ x \in Nat /\ y \in Nat /\ f \in Nat
    BY <1>1, <2>2, DigitsInRun
  <2>5. y > x => t[x] = "."
    BY <2>3 DEF IsFraction
  <2>6. f > y => t[y] \in {"e", "E"}
    BY <2>3, <2>4 DEF IsExponent
  <2>7. e < f /\ f <= n + 1
    BY <1>1, <1>4
  <2>8. x = p
    BY <1>1, <1>2, <1>3, <1>4, <2>3, <2>4, <2>5, <2>6, <2>7, DigitCharacters
  <2>9. y <= q /\ (y # q => y < q /\ (t[y] \in Digit \/ t[y] = "."))
    BY <1>1, <2>3, <2>4, <2>7, <2>8, FractionInRun
  <2>10. y = q
    BY <1>1, <1>4, <2>4, <2>6, <2>7, <2>9, DigitCharacters
  <2>. QED
    BY <1>1, <1>4, <2>3, <2>4, <2>7, <2>10, ExponentInRun
<1>. QED
  BY <1>1, <1>2, <1>3, <1>4, <1>5, <1>6 DEF IsLongest, IsLexeme

-----------------------------------------------------------------------------
(* String literals.                                                        *)

\* Escaped, for a string of t that starts at i.
EscapedIn(t, i, k) ==
  \E j \in i .. k - 2 :
    /\ t[j] # Backslash
    /\ \A m \in j + 1 .. k - 1 : t[m] = Backslash
    /\ (k - 1 - j) % 2 = 1

\* A character is escaped when the one before it is a backslash that is not.
LEMMA EscapedNext ==
  ASSUME NEW t, NEW i \in Nat, t[i] = Quote, NEW k \in Nat, i < k
  PROVE  EscapedIn(t, i, k + 1) <=> t[k] = Backslash /\ ~EscapedIn(t, i, k)
<1>0. Quote # Backslash
  BY DEF Quote, Backslash
<1>1. ASSUME EscapedIn(t, i, k + 1)
      PROVE  t[k] = Backslash /\ ~EscapedIn(t, i, k)
  <2>1. PICK j \in i .. k - 1 : /\ t[j] # Backslash
                                /\ \A m \in j + 1 .. k : t[m] = Backslash
                                /\ (k - j) % 2 = 1
    BY <1>1 DEF EscapedIn
  <2>2. t[k] = Backslash
    BY <2>1
  <2>3. ASSUME NEW l \in i .. k - 2, t[l] # Backslash,
               \A m \in l + 1 .. k - 1 : t[m] = Backslash, (k - 1 - l) % 2 = 1
        PROVE  FALSE
    <3>1. ~(j < l) /\ ~(l < j)
      BY <2>1, <2>3
    <3>. QED
      BY <2>1, <2>3, <3>1
  <2>. QED
    BY <2>2, <2>3 DEF EscapedIn
<1>2. ASSUME t[k] = Backslash, ~EscapedIn(t, i, k)
      PROVE  EscapedIn(t, i, k + 1)
  <2>1. PICK D : D = {d \in 1 .. k - i : t[k - d] # Backslash}
    OBVIOUS
  <2>2. D \subseteq Nat /\ D # {}
    <3>1. PICK x \in 1 .. k - i : k - x = i
      OBVIOUS
    <3>2. t[k - x] # Backslash
      BY <1>0, <3>1
    <3>3. x \in D
      BY <2>1, <3>2, Zenon
    <3>4. D \subseteq 1 .. k - i
      BY <2>1, Zenon
    <3>. QED
      BY <3>3, <3>4
  <2>3. PICK d \in D : \A x \in D : d <= x
    BY <2>2, LeastExists
  <2>4. PICK j \in i .. k - 1 : j = k - d
    BY <2>1
  <2>5. t[j] # Backslash
    BY <2>1, <2>4
  <2>6. ASSUME NEW m \in j + 1 .. k - 1
        PROVE  t[m] = Backslash
    <3>1. k - m \in 1 .. k - i /\ k - m < d /\ k - (k - m) = m
      BY <2>1, <2>4
    <3>2. k - m \notin D
      BY <2>1, <2>3, <3>1
    <3>. QED
      BY <2>1, <3>1, <3>2
  <2>7. (k - j) % 2 = 1
    <3>1. SUFFICES ASSUME (k - j) % 2 # 1
                   PROVE  FALSE
      OBVIOUS
    <3>2. (k - j) % 2 = 0 /\ k - j >= 1
      BY <3>1
    <3>3. j \in i .. k - 2 /\ (k - 1 - j) % 2 = 1
      BY <3>2
    <3>. QED
      BY <1>2, <2>5, <2>6, <3>3 DEF EscapedIn
  <2>8. \A m \in j + 1 .. k : t[m] = Backslash
    BY <1>2, <2>6
  <2>9. j \in i .. (k + 1) - 2 /\ (k + 1) - 1 = k /\ (k + 1) - 1 - j = k - j
    BY <2>4
  <2>. QED
    BY <2>5, <2>7, <2>8, <2>9 DEF EscapedIn
<1>. QED
  BY <1>1, <1>2

\* The first character of a string is not escaped.
LEMMA EscapedFirst ==
  ASSUME NEW t, NEW i \in Nat
  PROVE  ~EscapedIn(t, i, i + 1)
BY DEF EscapedIn

\* The string from i on ends, with its quote, before e; every escape in it is allowed.
StringTo(t, i, e) ==
  /\ i + 1 < e /\ t[i] = Quote /\ t[e - 1] = Quote /\ ~EscapedIn(t, i, e - 1)
  /\ \A k \in i + 1 .. e - 2 :
       /\ t[k] \in {Quote, "\n", "\r"} => EscapedIn(t, i, k)
       /\ EscapedIn(t, i, k) => t[k] \in Escapable

\* Such a string is a lexeme.
LEMMA StringIsLexeme ==
  ASSUME NEW t, NEW i \in Nat, NEW e \in Nat, StringTo(t, i, e)
  PROVE  IsString(t, i, e)
<1>1. i + 1 < e /\ t[i] = Quote /\ t[e - 1] = Quote /\ ~EscapedIn(t, i, e - 1)
  BY DEF StringTo
<1>2. PICK escapes : escapes = {k \in i + 1 .. e - 2 : t[k] = Backslash /\ ~EscapedIn(t, i, k)}
  OBVIOUS
<1>3. escapes \in SUBSET {k \in i + 1 .. e - 2 : t[k] = Backslash}
  BY <1>2
<1>4. ASSUME NEW k \in i + 1 .. e - 2, k \in escapes
      PROVE  k + 1 < e - 1 /\ k + 1 \notin escapes /\ t[k + 1] \in Escapable
  <2>1. EscapedIn(t, i, k + 1)
    BY <1>1, <1>2, <1>4, EscapedNext
  <2>2. k + 1 # e - 1
    BY <1>1, <2>1
  <2>3. k + 1 < e - 1 /\ k + 1 \in i + 1 .. e - 2
    BY <2>2
  <2>. QED
    BY <1>2, <2>1, <2>3 DEF StringTo
<1>5. ASSUME NEW k \in i + 1 .. e - 2, k \notin escapes
      PROVE  k - 1 \in escapes \/ t[k] \notin {Quote, Backslash, "\n", "\r"}
  <2>1. SUFFICES ASSUME t[k] \in {Quote, Backslash, "\n", "\r"}
                 PROVE  k - 1 \in escapes
    OBVIOUS
  <2>2. EscapedIn(t, i, k)
    BY <1>2, <1>5, <2>1 DEF StringTo
  <2>3. k # i + 1
    BY <2>2, EscapedFirst
  <2>4. PICK l \in i + 1 .. e - 2 : l = k - 1 /\ l + 1 = k
    BY <2>3
  <2>5. t[l] = Backslash /\ ~EscapedIn(t, i, l)
    BY <1>1, <2>2, <2>4, EscapedNext
  <2>. QED
    BY <1>2, <2>4, <2>5
<1>. QED
  BY <1>1, <1>3, <1>4, <1>5 DEF IsString

\* What IsString says of the escapes of a string that ends at f.
AreEscapes(t, i, f, escapes) ==
  /\ escapes \in SUBSET {k \in i + 1 .. f - 2 : t[k] = Backslash}
  /\ \A k \in i + 1 .. f - 2 :
       IF k \in escapes
         THEN k + 1 < f - 1 /\ k + 1 \notin escapes /\ t[k + 1] \in Escapable
         ELSE k - 1 \in escapes \/ t[k] \notin {Quote, Backslash, "\n", "\r"}

\* The backslashes that begin an escape are those that are not escaped.
LEMMA EscapesAre ==
  ASSUME NEW t, NEW i \in Nat, NEW f \in Nat, t[i] = Quote,
         NEW escapes, AreEscapes(t, i, f, escapes)
  PROVE  \A k \in i + 1 .. f - 2 : k \in escapes <=> t[k] = Backslash /\ ~EscapedIn(t, i, k)
<1>. USE DEF AreEscapes
<1>. DEFINE A == {d \in Nat : i + 1 + d <= f - 2 =>
                    (i + 1 + d \in escapes
                       <=> t[i + 1 + d] = Backslash /\ ~EscapedIn(t, i, i + 1 + d))}
<1>1. 0 \in A
  <2>1. SUFFICES ASSUME i + 1 <= f - 2
                 PROVE  i + 1 \in escapes <=> t[i + 1] = Backslash /\ ~EscapedIn(t, i, i + 1)
    OBVIOUS
  <2>2. i \notin escapes /\ i + 1 \in i + 1 .. f - 2 /\ (i + 1) - 1 = i
    BY <2>1
  <2>. QED
    BY <2>2, EscapedFirst
<1>2. ASSUME NEW d \in Nat, d \in A
      PROVE  d + 1 \in A
  <2>1. SUFFICES ASSUME i + 1 + (d + 1) <= f - 2
                 PROVE  i + 1 + (d + 1) \in escapes
                          <=> /\ t[i + 1 + (d + 1)] = Backslash
                              /\ ~EscapedIn(t, i, i + 1 + (d + 1))
    OBVIOUS
  <2>2. PICK k \in i + 1 .. f - 2 : k = i + 1 + d /\ k + 1 = i + 1 + (d + 1)
    BY <2>1
  <2>3. PICK l \in i + 1 .. f - 2 : l = k + 1 /\ l - 1 = k
    BY <2>1, <2>2
  <2>4. k \in escapes <=> t[k] = Backslash /\ ~EscapedIn(t, i, k)
    BY <1>2, <2>1, <2>2
  <2>5. EscapedIn(t, i, l) <=> t[k] = Backslash /\ ~EscapedIn(t, i, k)
    BY <2>2, <2>3, EscapedNext
  <2>6. k \in escapes => l \notin escapes
    BY <2>3
  <2>7. l \notin escapes => k \in escapes \/ t[l] # Backslash
    BY <2>3
  <2>8. l \in escapes => t[l] = Backslash
    OBVIOUS
  <2>9. l \in escapes <=> t[l] = Backslash /\ ~EscapedIn(t, i, l)
    BY <2>4, <2>5, <2>6, <2>7, <2>8
  <2>. QED
    BY <2>2, <2>3, <2>9
<1>3. Nat \subseteq A
  <2>. HIDE DEF A
  <2>. QED
    BY <1>1, <1>2, NatSetInduction
<1>. QED
  <2>. TAKE k \in i + 1 .. f - 2
  <2>1. PICK d \in Nat : k = i + 1 + d
    <3>1. k - (i + 1) \in Nat /\ k = i + 1 + (k - (i + 1))
      OBVIOUS
    <3>. QED
      BY <3>1
  <2>2. d \in A
    BY <1>3
  <2>. QED
    BY <2>1, <2>2

\* A string ends at its first quote that is not escaped.
LEMMA LongestString ==
  ASSUME NEW t \in Seq(STRING), NEW i \in 1 .. Len(t), NEW e \in 1 .. Len(t) + 1, StringTo(t, i, e)
  PROVE  IsLongest(t, i, e)
<1>1. PICK n \in Nat : n = Len(t)
  OBVIOUS
<1>2. IsString(t, i, e) /\ i + 1 < e /\ t[i] = Quote /\ t[e - 1] = Quote /\ ~EscapedIn(t, i, e - 1)
  BY StringIsLexeme DEF StringTo
<1>3. ASSUME NEW f \in e + 1 .. n + 1, IsLexeme(t, i, f)
      PROVE  FALSE
  <2>1. IsString(t, i, f)
    BY <1>1, <1>2, <1>3, LexemeOfQuote
  <2>2. PICK escapes : AreEscapes(t, i, f, escapes)
    BY <2>1 DEF IsString, AreEscapes
  <2>3. \A k \in i + 1 .. f - 2 : k \in escapes <=> t[k] = Backslash /\ ~EscapedIn(t, i, k)
    <3>1. i \in Nat /\ f \in Nat
      BY <1>1
    <3>. QED
      BY <1>2, <2>2, <3>1, EscapesAre, Zenon
  <2>4. PICK last \in i + 1 .. f - 2 : last = e - 1
    BY <1>1, <1>2, <1>3
  <2>5. last \notin escapes
    BY <1>2, <2>2, <2>4 DEF AreEscapes, Quote, Backslash
  <2>6. last - 1 \in escapes
    BY <1>2, <2>2, <2>4, <2>5 DEF AreEscapes
  <2>7. PICK k \in i + 1 .. f - 2 : k = last - 1 /\ last = k + 1
    BY <2>2, <2>6 DEF AreEscapes
  <2>8. t[k] = Backslash /\ ~EscapedIn(t, i, k) /\ k \in Nat /\ i \in Nat /\ i < k
    BY <1>1, <2>3, <2>6, <2>7
  <2>9. EscapedIn(t, i, k + 1)
    BY <1>2, <2>8, EscapedNext
  <2>. QED
    BY <1>2, <2>4, <2>7, <2>9
<1>. QED
  BY <1>1, <1>2, <1>3 DEF IsLongest, IsLexeme

-----------------------------------------------------------------------------
(* The steps of the lexer.                                                 *)

\* The tokens ts of t lie one after the other, all before the position here; in a text
\* that has had no error so far each of them is a longest lexeme.
TokensFit(t, ts, here, clean) ==
  /\ ts \in Seq({ts[n] : n \in DOMAIN ts})
  /\ \A n \in DOMAIN ts : /\ ts[n].end \in 1 .. here
                          /\ \A m \in 1 .. n - 1 : ts[m].end <= ts[n].start
  /\ clean => \A n \in DOMAIN ts : IsLongest(t, ts[n].start, ts[n].end)

\* What every step keeps, as long as the lexer runs.
IInv ==
  phase = "lex" =>
    /\ text \in Seq(STRING)
    /\ current \in 1 .. Len(text) + 1
    /\ rejected \in BOOLEAN
    /\ TokensFit(text, tokens, current, ~rejected)

\* A sequence is one of its own members.
LEMMA OwnMembers ==
  ASSUME NEW S, NEW s \in Seq(S)
  PROVE  s \in Seq({s[n] : n \in DOMAIN s})
<1>1. PICK n \in Nat : n = Len(s) /\ s \in [1 .. n -> S]
  OBVIOUS
<1>2. s \in [1 .. n -> {s[m] : m \in DOMAIN s}]
  BY <1>1
<1>. QED
  BY <1>2, FunctionIsSeq

\* Trivia moves the position on.
LEMMA PositionMoved ==
  ASSUME NEW t, NEW ts, NEW here \in Nat, NEW next \in Nat, here <= next,
         NEW clean, NEW still, still => clean, TokensFit(t, ts, here, clean)
  PROVE  TokensFit(t, ts, next, still)
BY DEF TokensFit

\* A token is added where the position is.
LEMMA TokenAdded ==
  ASSUME NEW t, NEW ts, NEW here \in Nat \ {0}, NEW next \in Nat, here <= next,
         NEW clean, NEW still, TokensFit(t, ts, here, clean),
         NEW token, token.start = here, token.end = next,
         still => clean /\ IsLongest(t, here, next)
  PROVE  TokensFit(t, Append(ts, token), next, still)
<1>1. PICK S : S = {ts[n] : n \in DOMAIN ts} \cup {token}
  OBVIOUS
<1>2. ts \in Seq(S)
  BY <1>1 DEF TokensFit
<1>3. PICK n \in Nat : n = Len(ts) /\ DOMAIN ts = 1 .. n
  BY <1>2
<1>4. PICK us : us = Append(ts, token)
  OBVIOUS
<1>5. us \in Seq(S) /\ DOMAIN us = 1 .. n + 1 /\ us[n + 1] = token /\ \A m \in 1 .. n : us[m] = ts[m]
  BY <1>1, <1>2, <1>3, <1>4
<1>6. us \in Seq({us[m] : m \in DOMAIN us})
  BY <1>5, OwnMembers
<1>7. ASSUME NEW m \in 1 .. n + 1
      PROVE  us[m].end \in 1 .. next /\ \A l \in 1 .. m - 1 : us[l].end <= us[m].start
  <2>1. \A l \in 1 .. n : us[l].end \in 1 .. here
    BY <1>3, <1>5 DEF TokensFit
  <2>2. CASE m = n + 1
    BY <1>5, <2>1, <2>2
  <2>3. CASE m \in 1 .. n
    <3>1. us[m] = ts[m] /\ \A l \in 1 .. m - 1 : us[l] = ts[l]
      BY <1>5, <2>3
    <3>2. \A l \in 1 .. m - 1 : ts[l].end <= ts[m].start
      BY <1>3, <2>3 DEF TokensFit
    <3>3. us[m].end \in 1 .. next
      BY <2>1, <2>3
    <3>. QED
      BY <3>1, <3>2, <3>3
  <2>. QED
    BY <2>2, <2>3
<1>8. ASSUME still, NEW m \in 1 .. n + 1
      PROVE  IsLongest(t, us[m].start, us[m].end)
  BY <1>3, <1>5, <1>8 DEF TokensFit
<1>. QED
  BY <1>4, <1>5, <1>6, <1>7, <1>8 DEF TokensFit

\* Emit, without what the token says.
Emits(end) ==
  /\ \E token : token.start = current /\ token.end = end /\ tokens' = Append(tokens, token)
  /\ current' = end
  /\ UNCHANGED <<phase, text>>

\* A step that emits a token keeps the invariant, if the token is a longest lexeme or an
\* error is reported.
LEMMA EmitStep ==
  ASSUME IInv, Lexing, NEW end \in 1 .. Len(text) + 1, current < end, Emits(end),
         rejected' \in BOOLEAN, ~rejected' => ~rejected /\ IsLongest(text, current, end)
  PROVE  IInv' /\ current' > current
<1>1. PICK token : token.start = current /\ token.end = end /\ tokens' = Append(tokens, token)
  BY DEF Emits
<1>2. /\ text \in Seq(STRING) /\ current \in 1 .. Len(text) + 1 /\ current \in Nat \ {0}
      /\ TokensFit(text, tokens, current, ~rejected)
  BY DEF IInv, Lexing
<1>3. text' = text /\ current' = end /\ end \in Nat /\ current <= end
  BY <1>2 DEF Emits
<1>4. TokensFit(text, Append(tokens, token), end, ~rejected')
  BY <1>1, <1>2, <1>3, TokenAdded
<1>. QED
  BY <1>1, <1>2, <1>3, <1>4 DEF IInv

\* A step that skips trivia keeps it.
LEMMA SkipStep ==
  ASSUME IInv, Lexing, NEW end \in 1 .. Len(text) + 1, current < end, Skip(end),
         rejected' \in BOOLEAN, rejected => rejected'
  PROVE  IInv' /\ current' > current
<1>1. /\ text \in Seq(STRING) /\ current \in 1 .. Len(text) + 1 /\ current \in Nat
      /\ TokensFit(text, tokens, current, ~rejected)
  BY DEF IInv, Lexing
<1>2. text' = text /\ current' = end /\ end \in Nat /\ tokens' = tokens
  BY <1>1 DEF Skip
<1>3. TokensFit(text, tokens, end, ~rejected')
  BY <1>1, <1>2, PositionMoved
<1>. QED
  BY <1>1, <1>2, <1>3 DEF IInv

\* What a step of the lexer begins with.
LEMMA AtCharacter ==
  ASSUME IInv, Lexing
  PROVE  /\ text \in Seq(STRING) /\ Len(text) \in Nat /\ DOMAIN text = 1 .. Len(text)
         /\ current \in 1 .. Len(text) /\ peek(current) = text[current]
         /\ rejected \in BOOLEAN
BY DEF IInv, Lexing, peek

\* lexIdentifierOrKeyword keeps it.
LEMMA StepIdentifierOrKeyword ==
  ASSUME IInv, lexIdentifierOrKeyword
  PROVE  IInv' /\ current' > current
<1>1. Lexing
  BY DEF lexIdentifierOrKeyword
<1>2. /\ text \in Seq(STRING) /\ Len(text) \in Nat /\ DOMAIN text = 1 .. Len(text)
      /\ current \in 1 .. Len(text) /\ peek(current) = text[current]
      /\ rejected \in BOOLEAN
  BY <1>1, AtCharacter
<1>3. PICK stops : stops = {k \in DOMAIN text : ~isIdentifierContinue(text[k])}
  OBVIOUS
<1>4. PICK end : end = Until(current, stops)
  OBVIOUS
<1>5. /\ end \in current .. Len(text) + 1 /\ (end > Len(text) \/ end \in stops)
      /\ \A k \in current .. end - 1 : k \notin stops
  BY <1>2, <1>4, UntilIs
<1>6. isIdentifierStart(text[current])
  BY <1>2 DEF lexIdentifierOrKeyword
<1>7. IsLongest(text, current, end)
  <2>1. \A k \in current .. end - 1 : isIdentifierContinue(text[k])
    BY <1>2, <1>3, <1>5
  <2>2. end > Len(text) \/ ~isIdentifierContinue(text[end])
    BY <1>3, <1>5
  <2>. QED
    BY <1>2, <1>5, <1>6, <2>1, <2>2, LongestName
<1>8. Emits(end) /\ rejected' = rejected
  BY <1>3, <1>4 DEF lexIdentifierOrKeyword, Emit, Emits
<1>9. end \in 1 .. Len(text) + 1 /\ current < end
  BY <1>2, <1>5, <1>7 DEF IsLongest
<1>. QED
  BY <1>1, <1>2, <1>7, <1>8, <1>9, EmitStep

\* So does trivia: blanks,
LEMMA StepSkipWhitespace ==
  ASSUME IInv, SkipWhitespace
  PROVE  IInv' /\ current' > current
<1>1. Lexing
  BY DEF SkipWhitespace
<1>2. /\ text \in Seq(STRING) /\ Len(text) \in Nat /\ DOMAIN text = 1 .. Len(text)
      /\ current \in 1 .. Len(text) /\ peek(current) = text[current]
      /\ rejected \in BOOLEAN
  BY <1>1, AtCharacter
<1>3. Skip(current + 1) /\ rejected' = rejected
  BY DEF SkipWhitespace
<1>. QED
  BY <1>1, <1>2, <1>3, SkipStep

\* comments up to the end of the line,
LEMMA StepSkipLineComment ==
  ASSUME IInv, SkipLineComment
  PROVE  IInv' /\ current' > current
<1>1. Lexing
  BY DEF SkipLineComment
<1>2. /\ text \in Seq(STRING) /\ Len(text) \in Nat /\ DOMAIN text = 1 .. Len(text)
      /\ current \in 1 .. Len(text) /\ peek(current) = text[current]
      /\ rejected \in BOOLEAN
  BY <1>1, AtCharacter
<1>3. PICK stops : stops = At({"\n"})
  OBVIOUS
<1>4. PICK end : end = Until(current, stops)
  OBVIOUS
<1>5. end \in current .. Len(text) + 1 /\ (end > Len(text) \/ end \in stops)
  BY <1>2, <1>4, UntilIs
<1>6. Skip(end) /\ rejected' = rejected
  BY <1>3, <1>4 DEF SkipLineComment
<1>7. current < end
  BY <1>2, <1>3, <1>5 DEF SkipLineComment, At
<1>. QED
  BY <1>1, <1>2, <1>5, <1>6, <1>7, SkipStep

\* and the others, closed or not.
LEMMA StepSkipBlockComment ==
  ASSUME IInv, SkipBlockComment
  PROVE  IInv' /\ current' > current
<1>1. Lexing
  BY DEF SkipBlockComment
<1>2. /\ text \in Seq(STRING) /\ Len(text) \in Nat /\ DOMAIN text = 1 .. Len(text)
      /\ current \in 1 .. Len(text) /\ peek(current) = text[current]
      /\ rejected \in BOOLEAN
  BY <1>1, AtCharacter
<1>3. PICK stops : stops = {k \in At({"*"}) : peek(k + 1) = "/"}
  OBVIOUS
<1>4. PICK close : close = Until(current + 2, stops)
  OBVIOUS
<1>5. current + 1 <= Len(text)
  BY <1>2 DEF SkipBlockComment, peek
<1>6. close \in current + 2 .. Len(text) + 1 /\ (close > Len(text) \/ close \in stops)
  BY <1>2, <1>4, <1>5, UntilIs
<1>7. CASE close > Len(text)
  <2>1. Skip(close) /\ rejected' = TRUE
    BY <1>3, <1>4, <1>7 DEF SkipBlockComment
  <2>. QED
    BY <1>1, <1>2, <1>6, <2>1, SkipStep
<1>8. CASE ~(close > Len(text))
  <2>1. close + 1 <= Len(text)
    BY <1>2, <1>3, <1>6, <1>8 DEF peek
  <2>2. PICK end : end = close + 2
    OBVIOUS
  <2>3. Skip(end) /\ rejected' = rejected
    BY <1>3, <1>4, <1>8, <2>2 DEF SkipBlockComment
  <2>4. end \in 1 .. Len(text) + 1 /\ current < end
    BY <1>2, <1>6, <2>1, <2>2
  <2>. QED
    BY <1>1, <1>2, <2>3, <2>4, SkipStep
<1>. QED
  BY <1>7, <1>8

\* lexHexLiteral keeps it; without digits it reports an error.
LEMMA StepHexLiteral ==
  ASSUME IInv, lexHexLiteral
  PROVE  IInv' /\ current' > current
<1>1. Lexing
  BY DEF lexHexLiteral
<1>2. /\ text \in Seq(STRING) /\ Len(text) \in Nat /\ DOMAIN text = 1 .. Len(text)
      /\ current \in 1 .. Len(text) /\ peek(current) = text[current]
      /\ rejected \in BOOLEAN
  BY <1>1, AtCharacter
<1>3. PICK stops : stops = {k \in DOMAIN text : ~isHexDigit(text[k])}
  OBVIOUS
<1>4. PICK end : end = Until(current + 2, stops)
  OBVIOUS
<1>5. /\ current + 1 <= Len(text)
      /\ text[current] = "0" /\ text[current + 1] \in {"x", "X"}
  BY <1>2 DEF lexHexLiteral, IsHex, peek
<1>6. /\ end \in current + 2 .. Len(text) + 1 /\ (end > Len(text) \/ end \in stops)
      /\ \A k \in current + 2 .. end - 1 : k \notin stops
  BY <1>2, <1>4, <1>5, UntilIs
<1>7. ASSUME end # current + 2
      PROVE  IsLongest(text, current, end)
  <2>1. \A k \in current + 2 .. end - 1 : isHexDigit(text[k])
    BY <1>2, <1>3, <1>6
  <2>2. end > Len(text) \/ ~isHexDigit(text[end])
    BY <1>3, <1>6
  <2>3. end \in current + 3 .. Len(text) + 1
    BY <1>2, <1>6, <1>7
  <2>. QED
    BY <1>2, <1>5, <2>1, <2>2, <2>3, LongestHexadecimal
<1>8. Emits(end) /\ rejected' = (rejected \/ end = current + 2)
  BY <1>3, <1>4 DEF lexHexLiteral, Emit, Emits
<1>9. end \in 1 .. Len(text) + 1 /\ current < end
  BY <1>2, <1>6
<1>. QED
  BY <1>1, <1>2, <1>7, <1>8, <1>9, EmitStep

\* fractionEnd finds the fraction.
LEMMA FractionIs ==
  ASSUME text \in Seq(STRING), NEW p \in 1 .. Len(text) + 1
  PROVE  fractionEnd(p) \in p .. Len(text) + 1 /\ FractionTo(text, p, fractionEnd(p))
<1>1. peek(p) = "." /\ peek(p + 1) \in Digit <=> HasFraction(text, p)
  BY DEF HasFraction, peek, Digit
<1>2. CASE HasFraction(text, p)
  <2>1. p + 1 \in 1 .. Len(text) + 1
    BY <1>2 DEF HasFraction
  <2>. QED
    BY <1>1, <1>2, <2>1, DigitRunIs DEF fractionEnd, FractionTo
<1>3. CASE ~HasFraction(text, p)
  BY <1>1, <1>3 DEF fractionEnd, FractionTo
<1>. QED
  BY <1>2, <1>3

\* lexDecimalLiteral finds the exponent, if that has digits.
LEMMA ExponentIs ==
  ASSUME text \in Seq(STRING), NEW q \in 1 .. Len(text) + 1, NEW e,
         e = IF HasExponent(q) THEN DigitsFrom(exponentStart(q)) ELSE q
  PROVE  /\ e \in q .. Len(text) + 1
         /\ ~(HasExponent(q) /\ e = exponentStart(q)) => ExponentTo(text, q, e)
<1>1. HasExponent(q) <=> q <= Len(text) /\ text[q] \in {"e", "E"}
  BY DEF HasExponent, peek
<1>2. exponentStart(q) = IF Signed(text, q) THEN q + 2 ELSE q + 1
  BY DEF exponentStart, Signed, peek
<1>3. CASE HasExponent(q)
  <2>1. PICK x : x = exponentStart(q)
    OBVIOUS
  <2>2. x \in q + 1 .. Len(text) + 1
    BY <1>1, <1>2, <1>3, <2>1 DEF Signed
  <2>3. DigitRun(text, x, e) /\ e \in x .. Len(text) + 1
    BY <1>3, <2>1, <2>2, DigitRunIs
  <2>. QED
    BY <1>1, <1>2, <1>3, <2>1, <2>2, <2>3 DEF ExponentTo
<1>4. CASE ~HasExponent(q)
  BY <1>1, <1>4 DEF ExponentTo
<1>. QED
  BY <1>3, <1>4

\* lexDecimalLiteral keeps it.
LEMMA StepDecimalLiteral ==
  ASSUME IInv, lexDecimalLiteral
  PROVE  IInv' /\ current' > current
<1>1. Lexing
  BY DEF lexDecimalLiteral
<1>2. /\ text \in Seq(STRING) /\ Len(text) \in Nat /\ DOMAIN text = 1 .. Len(text)
      /\ current \in 1 .. Len(text) /\ peek(current) = text[current]
      /\ rejected \in BOOLEAN
  BY <1>1, AtCharacter
<1>3. text[current] \in Digit /\ ~IsHex
  BY <1>2 DEF lexDecimalLiteral
<1>4. PICK p : p = DigitsFrom(current)
  OBVIOUS
<1>5. PICK q : q = fractionEnd(p)
  OBVIOUS
<1>6. PICK end : end = IF HasExponent(q) THEN DigitsFrom(exponentStart(q)) ELSE q
  OBVIOUS
<1>7. p \in current .. Len(text) + 1 /\ DigitRun(text, current, p)
  BY <1>2, <1>4, DigitRunIs
<1>8. q \in p .. Len(text) + 1 /\ FractionTo(text, p, q)
  BY <1>2, <1>5, <1>7, FractionIs
<1>9. /\ end \in q .. Len(text) + 1
      /\ ~(HasExponent(q) /\ end = exponentStart(q)) => ExponentTo(text, q, end)
  BY <1>2, <1>6, <1>7, <1>8, ExponentIs
<1>10. ~(text[current] = "0" /\ current < Len(text) /\ text[current + 1] \in {"x", "X"})
  BY <1>2, <1>3 DEF IsHex, peek
<1>11. ASSUME ~(HasExponent(q) /\ end = exponentStart(q))
       PROVE  IsLongest(text, current, end)
  BY <1>2, <1>3, <1>7, <1>8, <1>9, <1>10, <1>11, LongestDecimal
<1>12. Emits(end) /\ rejected' = (rejected \/ (HasExponent(q) /\ end = exponentStart(q)))
  BY <1>4, <1>5, <1>6 DEF lexDecimalLiteral, Emit, Emits
<1>13. end \in 1 .. Len(text) + 1 /\ current < end
  <2>1. current < p
    BY <1>2, <1>3, <1>7 DEF DigitRun
  <2>. QED
    BY <1>2, <1>7, <1>8, <1>9, <2>1
<1>. QED
  BY <1>1, <1>2, <1>11, <1>12, <1>13, EmitStep

\* lexStringLiteral keeps it: the string ends at the first quote that is not escaped.
LEMMA StepStringLiteral ==
  ASSUME IInv, lexStringLiteral
  PROVE  IInv' /\ current' > current
<1>1. Lexing
  BY DEF lexStringLiteral
<1>2. /\ text \in Seq(STRING) /\ Len(text) \in Nat /\ DOMAIN text = 1 .. Len(text)
      /\ current \in 1 .. Len(text) /\ peek(current) = text[current]
      /\ rejected \in BOOLEAN
  BY <1>1, AtCharacter
<1>3. text[current] = Quote
  BY <1>2 DEF lexStringLiteral
<1>4. PICK stops : stops = {k \in At({Quote, "\n", "\r"}) : ~Escaped(k)}
  OBVIOUS
<1>5. PICK last : last = Until(current + 1, stops)
  OBVIOUS
<1>6. PICK end : end = IF last > Len(text) THEN last ELSE last + 1
  OBVIOUS
<1>7. /\ last \in current + 1 .. Len(text) + 1 /\ (last > Len(text) \/ last \in stops)
      /\ \A k \in current + 1 .. last - 1 : k \notin stops
  BY <1>2, <1>5, UntilIs
<1>8. Emits(end)
  <2>1. \E kind : Emit(kind, end)
    BY <1>4, <1>5, <1>6, Zenon DEF lexStringLiteral
  <2>. QED
    BY <2>1 DEF Emit, Emits
<1>9. rejected' = (\/ rejected \/ peek(last) # Quote
                   \/ \E k \in current + 1 .. end - 1 : Escaped(k) /\ text[k] \notin Escapable)
  BY <1>4, <1>5, <1>6, Zenon DEF lexStringLiteral
<1>10. end \in 1 .. Len(text) + 1 /\ current < end
  BY <1>2, <1>6, <1>7
<1>11. \A k : Escaped(k) <=> EscapedIn(text, current, k)
  BY DEF Escaped, EscapedIn
<1>12. ASSUME peek(last) = Quote,
              \A k \in current + 1 .. end - 1 : Escaped(k) => text[k] \in Escapable
       PROVE  IsLongest(text, current, end)
  <2>1. last <= Len(text) /\ end = last + 1 /\ text[last] = Quote
    <3>1. last <= Len(text)
      BY <1>12 DEF peek, Quote
    <3>. QED
      BY <1>2, <1>6, <1>7, <1>12, <3>1 DEF peek
  <2>2. ~EscapedIn(text, current, last)
    BY <1>4, <1>7, <1>11, <2>1
  <2>3. ASSUME NEW k \in current + 1 .. last - 1
        PROVE  /\ text[k] \in {Quote, "\n", "\r"} => EscapedIn(text, current, k)
               /\ EscapedIn(text, current, k) => text[k] \in Escapable
    <3>1. k \in DOMAIN text /\ k \notin stops /\ k \in current + 1 .. end - 1
      BY <1>2, <1>7, <2>1
    <3>2. text[k] \in {Quote, "\n", "\r"} => EscapedIn(text, current, k)
      BY <1>4, <1>11, <3>1 DEF At
    <3>3. EscapedIn(text, current, k) => text[k] \in Escapable
      BY <1>11, <1>12, <3>1
    <3>. QED
      BY <3>2, <3>3
  <2>4. StringTo(text, current, end)
    BY <1>2, <1>3, <1>7, <2>1, <2>2, <2>3 DEF StringTo
  <2>. QED
    BY <1>2, <1>10, <2>4, LongestString
<1>. QED
  BY <1>1, <1>2, <1>8, <1>9, <1>10, <1>12, EmitStep

\* lexOperator keeps it.
LEMMA StepOperator ==
  ASSUME IInv, lexOperator
  PROVE  IInv' /\ current' > current
<1>1. Lexing
  BY DEF lexOperator
<1>2. /\ text \in Seq(STRING) /\ Len(text) \in Nat /\ DOMAIN text = 1 .. Len(text)
      /\ current \in 1 .. Len(text) /\ peek(current) = text[current]
      /\ rejected \in BOOLEAN
  BY <1>1, AtCharacter
<1>3. PICK pair : pair = <<peek(current), peek(current + 1)>>
  OBVIOUS
<1>4. PICK end : end = IF pair \in Doubles THEN current + 2 ELSE current + 1
  OBVIOUS
<1>5. Emits(end) /\ rejected' = rejected
  BY <1>3, <1>4 DEF lexOperator, Emit, Emits
<1>6. text[current] \in Singles
  BY <1>2, <1>3, DoubleCharacters DEF lexOperator
<1>7. pair \in Doubles <=> current < Len(text) /\ <<text[current], text[current + 1]>> \in Doubles
  BY <1>2, <1>3, DoubleCharacters DEF peek
<1>8. end \in {current + 1, current + 2} /\ end <= Len(text) + 1 /\ end \in 1 .. Len(text) + 1
  BY <1>2, <1>4, <1>7
<1>9. end = current + 2 <=> current < Len(text) /\ <<text[current], text[current + 1]>> \in Doubles
  BY <1>2, <1>4, <1>7
<1>10. IsLongest(text, current, end)
  BY <1>2, <1>6, <1>8, <1>9, LongestOperator
<1>. QED
  BY <1>1, <1>2, <1>5, <1>8, <1>10, EmitStep

\* lexUnsupported keeps it, since it reports an error.
LEMMA StepUnsupported ==
  ASSUME IInv, lexUnsupported
  PROVE  IInv' /\ current' > current
<1>1. Lexing
  BY DEF lexUnsupported
<1>2. /\ text \in Seq(STRING) /\ Len(text) \in Nat /\ DOMAIN text = 1 .. Len(text)
      /\ current \in 1 .. Len(text) /\ peek(current) = text[current]
      /\ rejected \in BOOLEAN
  BY <1>1, AtCharacter
<1>3. PICK end : end = current + 1
  OBVIOUS
<1>4. Emits(end) /\ rejected' = TRUE
  BY <1>3 DEF lexUnsupported, Emit, Emits
<1>. QED
  BY <1>1, <1>2, <1>3, <1>4, EmitStep

-----------------------------------------------------------------------------

\* No turn of the lexer leaves its position where it was.
Advances == phase = "lex" => current' > current \/ phase' # "lex"

\* It holds before the first token.
LEMMA IInvInit == LexerInit => IInv
<1>1. SUFFICES ASSUME LexerInit
               PROVE  IInv
  OBVIOUS
<1>2. text \in Seq(STRING)
  BY <1>1, TextsAssumption DEF LexerInit
<1>3. TokensFit(text, tokens, current, ~rejected)
  BY <1>1 DEF LexerInit, TokensFit
<1>4. current \in 1 .. Len(text) + 1
  BY <1>1, <1>2 DEF LexerInit
<1>. QED
  BY <1>1, <1>2, <1>3, <1>4 DEF LexerInit, IInv

\* Every step keeps it, and moves the position on.
LEMMA IInvStep == IInv /\ [LexerStep]_lexerVars => IInv' /\ [Advances]_lexerVars
<1>1. SUFFICES ASSUME IInv, [LexerStep]_lexerVars
               PROVE  IInv' /\ [Advances]_lexerVars
  OBVIOUS
<1>. USE DEF Advances
<1>2. CASE SkipWhitespace
  BY <1>1, <1>2, StepSkipWhitespace
<1>3. CASE SkipLineComment
  BY <1>1, <1>3, StepSkipLineComment
<1>4. CASE SkipBlockComment
  BY <1>1, <1>4, StepSkipBlockComment
<1>5. CASE lexIdentifierOrKeyword
  BY <1>1, <1>5, StepIdentifierOrKeyword
<1>6. CASE lexHexLiteral
  BY <1>1, <1>6, StepHexLiteral
<1>7. CASE lexDecimalLiteral
  BY <1>1, <1>7, StepDecimalLiteral
<1>8. CASE lexStringLiteral
  BY <1>1, <1>8, StepStringLiteral
<1>9. CASE lexOperator
  BY <1>1, <1>9, StepOperator
<1>10. CASE lexUnsupported
  BY <1>1, <1>10, StepUnsupported
<1>11. CASE EndOfText
  BY <1>11 DEF EndOfText, IInv
<1>12. CASE phase # "lex" /\ phase' # "lex"
  BY <1>12 DEF IInv
<1>13. CASE UNCHANGED lexerVars
  BY <1>1, <1>13 DEF lexerVars, IInv
<1>. QED
  BY <1>1, <1>2, <1>3, <1>4, <1>5, <1>6, <1>7, <1>8, <1>9, <1>10, <1>11, <1>12, <1>13, Zenon
     DEF LexerStep, LexerNext

\* It says of the last token what TokensAreLongest does.
LEMMA IInvLongest == IInv => TokensAreLongest
<1>1. SUFFICES ASSUME IInv, phase = "lex", ~rejected, tokens # <<>>
               PROVE  LET token == Last(tokens) IN
                      /\ token.start < token.end
                      /\ IsLexeme(text, token.start, token.end)
                      /\ \A e \in token.end + 1 .. Len(text) + 1 : ~IsLexeme(text, token.start, e)
                      /\ \A n \in 1 .. Len(tokens) - 1 : tokens[n].end <= token.start
  BY DEF TokensAreLongest
<1>2. TokensFit(text, tokens, current, TRUE)
  BY <1>1 DEF IInv
<1>3. PICK k : k \in DOMAIN tokens /\ k = Len(tokens)
  BY <1>1, <1>2 DEF TokensFit
<1>4. Last(tokens) = tokens[k]
  BY <1>3 DEF Last
<1>5. IsLongest(text, tokens[k].start, tokens[k].end)
  BY <1>2, <1>3 DEF TokensFit
<1>6. \A n \in 1 .. Len(tokens) - 1 : tokens[n].end <= tokens[k].start
  BY <1>2, <1>3 DEF TokensFit
<1>. QED
  BY <1>4, <1>5, <1>6 DEF IsLongest

\* Whatever the texts are: in a text without a lexical error every token is the longest
\* lexeme at its place, and it does not overlap the one before it (Lexer::lexToken).
THEOREM TokensAreMaximal == LexerSpec => []TokensAreLongest
<1>. QED
  BY IInvInit, IInvStep, IInvLongest, PTL DEF LexerSpec

\* Every turn of Lexer::tokenize consumes a part of the text, errors included, or is the
\* last one: the lexer ends on every text.
THEOREM LexerAdvances == LexerSpec => [][Advances]_lexerVars
<1>. QED
  BY IInvInit, IInvStep, PTL DEF LexerSpec

=============================================================================
