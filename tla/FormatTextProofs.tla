--------------------------- MODULE FormatTextProofs ---------------------------
(***************************************************************************)
(* Proofs about Numbers and FormatText.                                    *)
(***************************************************************************)
EXTENDS FormatText, SequenceLemmas

-----------------------------------------------------------------------------
(* The powers of two.                                                      *)

Positive == Nat \ {0}

\* The exponents of the table, which go on behind those of uint64_t.
LEMMA Exponents ==
  /\ Bits \in Nat /\ SignificandBits \in Nat \ {0} /\ FractionBits \in Nat \ {0}
  /\ MaxExponent \in Nat /\ MaxExponent = Bits + SignificandBits + FractionBits
  BY WidthAssumption DEF MaxExponent

\* They double.
LEMMA AllPowers ==
  /\ TwoTo \in [0 .. MaxExponent -> Positive]
  /\ TwoTo[0] = 1
  /\ \A n \in 1 .. MaxExponent : TwoTo[n] = 2 * TwoTo[n - 1]
<1>. DEFINE step == [x \in (1 .. MaxExponent) \X Positive |-> 2 * x[2]]
            Doubles(g) == g = [n \in 0 .. MaxExponent |-> IF n = 0 THEN 1 ELSE 2 * g[n - 1]]
<1>0. MaxExponent \in Nat
  BY Exponents
<1>1. step \in [(1 .. MaxExponent) \X Positive -> Positive] /\ 1 \in Positive
  BY DEF Positive
<1>2. PICK f : IsRecursive(f, MaxExponent, Positive, 1, step)
  <2>. HIDE DEF step
  <2>. QED
    BY <1>0, <1>1, RecursionExists
<1>3. f \in [0 .. MaxExponent -> Positive] /\ f[0] = 1
  BY <1>2 DEF IsRecursive
<1>4. \A i \in 1 .. MaxExponent : f[i] = 2 * f[i - 1]
  <2>1. \A i \in 1 .. MaxExponent : f[i - 1] \in Positive
    BY <1>0, <1>3
  <2>2. \A i \in 1 .. MaxExponent : f[i] = step[<<i, f[i - 1]>>]
    BY <1>2, Zenon DEF IsRecursive
  <2>. QED
    BY <2>1, <2>2
<1>5. Doubles(f)
  BY <1>0, <1>3, <1>4
<1>6. TwoTo = CHOOSE g : Doubles(g)
  BY DEF TwoTo
<1>7. Doubles(TwoTo)
  <2>. HIDE DEF Doubles
  <2>. QED
    BY <1>5, <1>6
<1>8. PICK g : g = TwoTo
  OBVIOUS
<1>9. Doubles(g)
  BY <1>7, <1>8
<1>10. DOMAIN g = 0 .. MaxExponent /\ g = [i \in DOMAIN g |-> g[i]] /\ g[0] = 1
  BY <1>0, <1>9
<1>11. \A n \in 1 .. MaxExponent : g[n] = 2 * g[n - 1]
  BY <1>0, <1>9
<1>12. \A n \in 0 .. MaxExponent : g[n] \in Positive
  <2>. DEFINE S == {n \in Nat : g[n] \in Positive}
  <2>1. 0 \in S
    BY <1>1, <1>10
  <2>2. \A n \in 0 .. MaxExponent - 1 : n \in S => n + 1 \in S
    <3>1. \A n \in 0 .. MaxExponent - 1 : n + 1 \in 1 .. MaxExponent /\ (n + 1) - 1 = n
      BY <1>0
    <3>2. \A n \in 0 .. MaxExponent - 1 : g[n + 1] = 2 * g[n]
      BY <1>11, <3>1
    <3>. QED
      BY <3>2 DEF Positive
  <2>. HIDE DEF S
  <2>3. 0 .. MaxExponent \subseteq S
    BY <1>0, <2>1, <2>2, UpToInduction
  <2>. QED
    BY <2>3 DEF S
<1>. QED
  BY <1>8, <1>10, <1>11, <1>12

\* The powers that are numbers of a uint64_t, and the number of its values.
LEMMA Powers ==
  /\ \A n \in 0 .. Bits : TwoTo[n] \in Positive
  /\ TwoTo[0] = 1
  /\ \A n \in 1 .. Bits : TwoTo[n] = 2 * TwoTo[n - 1]
<1>1. 0 .. Bits \subseteq 0 .. MaxExponent /\ 1 .. Bits \subseteq 1 .. MaxExponent
  BY Exponents
<1>2. \A n \in 0 .. MaxExponent : TwoTo[n] \in Positive
  BY AllPowers
<1>. QED
  BY <1>1, <1>2, AllPowers, Zenon

\* The powers of ten that print_f64_fixed scales with.
LEMMA PowersOfTen ==
  /\ TenTo \in [0 .. MaxPrecision -> Positive]
  /\ TenTo[0] = 1
  /\ \A n \in 1 .. MaxPrecision : TenTo[n] = 10 * TenTo[n - 1]
<1>. DEFINE step == [x \in (1 .. MaxPrecision) \X Positive |-> 10 * x[2]]
            Multiplies(g) == g = [n \in 0 .. MaxPrecision |-> IF n = 0 THEN 1 ELSE 10 * g[n - 1]]
<1>0. MaxPrecision \in Nat
  BY WidthAssumption
<1>1. step \in [(1 .. MaxPrecision) \X Positive -> Positive] /\ 1 \in Positive
  BY DEF Positive
<1>2. PICK f : IsRecursive(f, MaxPrecision, Positive, 1, step)
  <2>. HIDE DEF step
  <2>. QED
    BY <1>0, <1>1, RecursionExists
<1>3. f \in [0 .. MaxPrecision -> Positive] /\ f[0] = 1
  BY <1>2 DEF IsRecursive
<1>4. \A i \in 1 .. MaxPrecision : f[i] = 10 * f[i - 1]
  <2>1. \A i \in 1 .. MaxPrecision : f[i - 1] \in Positive
    BY <1>0, <1>3
  <2>2. \A i \in 1 .. MaxPrecision : f[i] = step[<<i, f[i - 1]>>]
    BY <1>2, Zenon DEF IsRecursive
  <2>. QED
    BY <2>1, <2>2
<1>5. Multiplies(f)
  BY <1>0, <1>3, <1>4
<1>6. TenTo = CHOOSE g : Multiplies(g)
  BY DEF TenTo
<1>7. Multiplies(TenTo)
  <2>. HIDE DEF Multiplies
  <2>. QED
    BY <1>5, <1>6
<1>8. PICK g : g = TenTo
  OBVIOUS
<1>9. Multiplies(g)
  BY <1>7, <1>8
<1>10. DOMAIN g = 0 .. MaxPrecision /\ g = [i \in DOMAIN g |-> g[i]] /\ g[0] = 1
  BY <1>0, <1>9
<1>11. \A n \in 1 .. MaxPrecision : g[n] = 10 * g[n - 1]
  BY <1>0, <1>9
<1>12. \A n \in 0 .. MaxPrecision : g[n] \in Positive
  <2>. DEFINE S == {n \in Nat : g[n] \in Positive}
  <2>1. 0 \in S
    BY <1>1, <1>10
  <2>2. \A n \in 0 .. MaxPrecision - 1 : n \in S => n + 1 \in S
    <3>1. \A n \in 0 .. MaxPrecision - 1 : n + 1 \in 1 .. MaxPrecision /\ (n + 1) - 1 = n
      BY <1>0
    <3>2. \A n \in 0 .. MaxPrecision - 1 : g[n + 1] = 10 * g[n]
      BY <1>11, <3>1
    <3>. QED
      BY <3>2 DEF Positive
  <2>. HIDE DEF S
  <2>3. 0 .. MaxPrecision \subseteq S
    BY <1>0, <2>1, <2>2, UpToInduction
  <2>. QED
    BY <2>3 DEF S
<1>. QED
  BY <1>8, <1>10, <1>11, <1>12

\* A greater exponent gives a greater power.
LEMMA PowersGrow ==
  ASSUME NEW m \in 0 .. MaxExponent, NEW n \in m .. MaxExponent
  PROVE  TwoTo[m] <= TwoTo[n]
<1>. DEFINE S == {k \in Nat : m + k <= MaxExponent => TwoTo[m] <= TwoTo[m + k]}
<1>0. MaxExponent \in Nat /\ \A k \in 0 .. MaxExponent : TwoTo[k] \in Nat
  BY Exponents, AllPowers DEF Positive
<1>1. 0 \in S
  BY <1>0
<1>2. ASSUME NEW k \in Nat, k \in S
      PROVE  k + 1 \in S
  <2>1. SUFFICES ASSUME m + (k + 1) <= MaxExponent
                 PROVE  TwoTo[m] <= TwoTo[m + (k + 1)]
    OBVIOUS
  <2>2. m + (k + 1) \in 1 .. MaxExponent /\ (m + (k + 1)) - 1 = m + k /\ m + k \in 0 .. MaxExponent /\ m + k <= MaxExponent
    BY <1>0, <2>1
  <2>3. TwoTo[m + (k + 1)] = 2 * TwoTo[m + k]
    BY <2>2, AllPowers
  <2>4. TwoTo[m] <= TwoTo[m + k]
    BY <1>2, <2>2
  <2>. QED
    BY <1>0, <2>2, <2>3, <2>4
<1>3. Nat \subseteq S
  <2>. HIDE DEF S
  <2>. QED
    BY <1>1, <1>2, NatSetInduction
<1>4. n - m \in Nat /\ m + (n - m) = n /\ n <= MaxExponent
  BY <1>0
<1>5. n - m \in S
  BY <1>3, <1>4
<1>. QED
  BY <1>4, <1>5

\* The number of values of uint64_t; a number that has one of them keeps it.
LEMMA Wrapping ==
  /\ Modulus \in Nat \ {0} /\ U64Max \in Nat
  /\ \A n \in 0 .. U64Max : U64(n) = n
<1>1. Modulus \in Nat \ {0}
  BY WidthAssumption, Powers DEF Positive, Modulus
<1>2. \A a, b \in Nat : a < b => a % b = a
  OBVIOUS
<1>. QED
  BY <1>1, <1>2 DEF U64, U64Max

\* Division by two or more at least halves a number.
LEMMA Halved ==
  ASSUME NEW a \in Nat, NEW b \in Nat, b >= 2
  PROVE  /\ a \div b \in Nat /\ 2 * (a \div b) <= a
         /\ a % b \in 0 .. b - 1
         /\ a = (a \div b) * b + (a % b)
<1>1. PICK q \in Int : q = a \div b
  OBVIOUS
<1>2. a % b \in 0 .. b - 1 /\ a = q * b + (a % b)
  BY <1>1
<1>3. q >= 0
  BY <1>1
<1>4. q * b >= 2 * q
  BY <1>3
<1>. QED
  BY <1>1, <1>2, <1>3, <1>4

-----------------------------------------------------------------------------
(* Printing.                                                               *)

\* left has the value before the first turn of the loop, and after each one.
IsRemaining(left, value, base) ==
  /\ left[0] = value
  /\ \A n \in 0 .. Bits : left[n] \in 0 .. value
  /\ \A n \in 1 .. Bits : left[n] = left[n - 1] \div base

\* What is left is as the loop leaves it.
LEMMA Remaining ==
  ASSUME NEW value \in Nat, NEW base \in Nat, base >= 2
  PROVE  IsRemaining(remaining(value, base), value, base)
<1>. DEFINE step == [x \in (1 .. Bits) \X Nat |-> x[2] \div base]
            Divides(g) == g = [n \in 0 .. Bits |-> IF n = 0 THEN value ELSE g[n - 1] \div base]
<1>0. Bits \in Nat
  BY WidthAssumption
<1>1. step \in [(1 .. Bits) \X Nat -> Nat]
  BY Halved
<1>2. PICK f : IsRecursive(f, Bits, Nat, value, step)
  <2>. HIDE DEF step
  <2>. QED
    BY <1>0, <1>1, RecursionExists
<1>3. f \in [0 .. Bits -> Nat] /\ f[0] = value
  BY <1>2 DEF IsRecursive
<1>4. \A i \in 1 .. Bits : f[i] = f[i - 1] \div base
  <2>1. \A i \in 1 .. Bits : f[i - 1] \in Nat
    BY <1>0, <1>3
  <2>2. \A i \in 1 .. Bits : f[i] = step[<<i, f[i - 1]>>]
    BY <1>2, Zenon DEF IsRecursive
  <2>. QED
    BY <2>1, <2>2
<1>5. Divides(f)
  BY <1>0, <1>3, <1>4
<1>6. remaining(value, base) = CHOOSE g : Divides(g)
  BY DEF remaining
<1>7. Divides(remaining(value, base))
  <2>. HIDE DEF Divides
  <2>. QED
    BY <1>5, <1>6
<1>8. PICK g : g = remaining(value, base)
  OBVIOUS
<1>9. Divides(g)
  BY <1>7, <1>8
<1>10. g[0] = value
  BY <1>0, <1>9
<1>11. \A n \in 1 .. Bits : g[n] = g[n - 1] \div base
  BY <1>0, <1>9
<1>12. \A n \in 0 .. Bits : g[n] \in 0 .. value
  <2>. DEFINE S == {n \in Nat : g[n] \in 0 .. value}
  <2>1. 0 \in S
    BY <1>10
  <2>2. \A n \in 0 .. Bits - 1 : n \in S => n + 1 \in S
    <3>1. \A n \in 0 .. Bits - 1 : n + 1 \in 1 .. Bits /\ (n + 1) - 1 = n
      BY <1>0
    <3>2. \A n \in 0 .. Bits - 1 : g[n + 1] = g[n] \div base
      BY <1>11, <3>1
    <3>3. \A a \in 0 .. value : a \div base \in 0 .. value
      BY Halved
    <3>. QED
      BY <3>2, <3>3
  <2>. HIDE DEF S
  <2>3. 0 .. Bits \subseteq S
    BY <1>0, <2>1, <2>2, UpToInduction
  <2>. QED
    BY <2>3 DEF S
<1>. QED
  BY <1>8, <1>10, <1>11, <1>12 DEF IsRemaining

\* A turn at least halves the value: after n turns it fits n bits less, and after Bits
\* turns nothing is left.
LEMMA NothingRemains ==
  ASSUME NEW value \in 0 .. U64Max, NEW base \in Nat, base >= 2, NEW left,
         IsRemaining(left, value, base)
  PROVE  /\ \A n \in 0 .. Bits : left[n] < TwoTo[Bits - n]
         /\ left[Bits] = 0
<1>. DEFINE S == {n \in Nat : left[n] < TwoTo[Bits - n]}
<1>0. Bits \in Nat /\ \A n \in 0 .. Bits : TwoTo[n] \in Nat
  BY WidthAssumption, Powers DEF Positive
<1>1. 0 \in S
  BY <1>0, Wrapping DEF U64Max, Modulus, IsRemaining
<1>2. ASSUME NEW n \in 0 .. Bits - 1, n \in S
      PROVE  n + 1 \in S
  <2>1. n + 1 \in 1 .. Bits /\ (n + 1) - 1 = n /\ n \in 0 .. Bits
    BY <1>0
  <2>2. left[n + 1] = left[n] \div base /\ left[n] \in Nat /\ left[n + 1] \in Nat
    BY <1>0, <2>1 DEF IsRemaining
  <2>3. 2 * left[n + 1] <= left[n]
    BY <2>2, Halved
  <2>4. Bits - n \in 1 .. Bits /\ (Bits - n) - 1 = Bits - (n + 1)
    BY <1>0
  <2>5. TwoTo[Bits - n] = 2 * TwoTo[Bits - (n + 1)]
    BY <2>4, Powers
  <2>6. TwoTo[Bits - (n + 1)] \in Nat
    BY <1>0, <2>4
  <2>. QED
    BY <1>2, <2>2, <2>3, <2>5, <2>6
<1>3. \A n \in 0 .. Bits : left[n] < TwoTo[Bits - n]
  <2>. HIDE DEF S
  <2>1. 0 .. Bits \subseteq S
    BY <1>0, <1>1, <1>2, UpToInduction
  <2>. QED
    BY <2>1 DEF S
<1>. QED
  BY <1>0, <1>3, Powers DEF IsRemaining

\* The loop of print_u64_base makes this many turns.
IsTurns(turns, left) ==
  turns \in 0 .. Bits /\ left[turns] = 0 /\ \A m \in 0 .. turns - 1 : left[m] # 0

\* A loop that ends has a last turn.
LEMMA TurnsExist ==
  ASSUME NEW left, left[Bits] = 0
  PROVE  \E turns : IsTurns(turns, left)
<1>0. Bits \in Nat
  BY WidthAssumption
<1>. DEFINE S == {n \in 0 .. Bits : left[n] = 0}
<1>1. S \subseteq Nat /\ S # {}
  BY <1>0
<1>2. PICK n \in S : \A m \in S : n <= m
  <2>. HIDE DEF S
  <2>. QED
    BY <1>1, LeastExists
<1>3. \A m \in 0 .. n - 1 : left[m] # 0
  BY <1>0, <1>2
<1>. QED
  BY <1>2, <1>3 DEF IsTurns

\* The loop takes the digits of what is left; the last turn's is the first.
TakesDigits(left, turns, value, base, digits) ==
  /\ IsRemaining(left, value, base) /\ IsTurns(turns, left) /\ turns >= 1
  /\ digitsOf(value, base, digits) =
       [i \in 1 .. turns |-> digits[(left[turns - i] % base) + 1]]

\* The digits are taken off one by one until nothing is left.
LEMMA DigitsTaken ==
  ASSUME NEW value \in 1 .. U64Max, NEW base \in Nat, base >= 2, NEW digits
  PROVE  \E left, turns : TakesDigits(left, turns, value, base, digits)
<1>1. PICK left : left = remaining(value, base)
  OBVIOUS
<1>2. value \in Nat /\ value \in 0 .. U64Max /\ value # 0
  BY Wrapping
<1>3. IsRemaining(left, value, base)
  BY <1>1, <1>2, Remaining
<1>4. left[Bits] = 0
  BY <1>2, <1>3, NothingRemains
<1>5. PICK turns : turns = turnsOf(left)
  OBVIOUS
<1>6. IsTurns(turns, left)
  <2>1. \E n \in 0 .. Bits : left[n] = 0 /\ \A m \in 0 .. n - 1 : left[m] # 0
    BY <1>4, TurnsExist DEF IsTurns
  <2>. QED
    BY <1>5, <2>1 DEF IsTurns, turnsOf
<1>7. turns >= 1
  BY <1>2, <1>3, <1>6 DEF IsTurns, IsRemaining
<1>8. digitsOf(value, base, digits) = [i \in 1 .. turns |-> digits[(left[turns - i] % base) + 1]]
  BY <1>1, <1>5, Zenon DEF digitsOf
<1>. QED
  BY <1>3, <1>6, <1>7, <1>8, Zenon DEF TakesDigits

\* v has the values of the first 0, 1, .. n characters of data from i on, read as digits.
ReadsAs(v, data, i, n, base, digits) ==
  /\ v \in [0 .. n -> Nat] /\ v[0] = 0
  /\ \A k \in 1 .. n : \E d \in 0 .. base - 1 :
       data[i + k - 1] = digits[d + 1] /\ v[k] = v[k - 1] * base + d

\* The n characters of data from i on are the digits of value.
Denotes(data, i, n, base, digits, value) ==
  \E v : ReadsAs(v, data, i, n, base, digits) /\ v[n] = value

DigitsBelow(base, digits) == {digits[d + 1] : d \in 0 .. base - 1}

\* text is the shortest numeral of value, and fits the buffer of the loop.
IsNumeral(text, value, base, digits) ==
  /\ text \in Seq(DigitsBelow(base, digits)) /\ Len(text) \in 1 .. Bits
  /\ Denotes(text, 1, Len(text), base, digits, value)
  /\ value # 0 => text[1] # "0"

Alphabets == {LowerDigits, UpperDigits}

\* Only the first digit of an alphabet is zero.
LEMMA AlphabetsHaveDigits ==
  \A digits \in Alphabets :
    /\ digits[1] = "0"
    /\ \A d \in 1 .. 15 : digits[d + 1] # "0"
<1>1. LowerDigits[1] = "0" /\ \A e \in 2 .. 16 : LowerDigits[e] # "0"
  BY DEF LowerDigits
<1>2. UpperDigits[1] = "0" /\ \A e \in 2 .. 16 : UpperDigits[e] # "0"
  BY DEF UpperDigits
<1>3. \A d \in 1 .. 15 : d + 1 \in 2 .. 16
  OBVIOUS
<1>. QED
  BY <1>1, <1>2, <1>3, Zenon DEF Alphabets

\* print_u64_base and print_u64_decimal print the shortest numeral of every number that
\* a uint64_t holds, with at most as many digits as a uint64_t has bits: their buffers
\* are not overrun.
THEOREM PrintsNumerals ==
  ASSUME NEW value \in 0 .. U64Max, NEW base \in 2 .. 16, NEW digits \in Alphabets
  PROVE  IsNumeral(print_u64_base(value, base, digits), value, base, digits)
<1>0. Bits \in Nat /\ Bits >= 1
  BY WidthAssumption
<1>1. CASE value = 0
  <2>1. PICK text : text = <<"0">>
    OBVIOUS
  <2>2. text[1] = "0" /\ Len(text) = 1
    BY <2>1
  <2>3. PICK v : v = [k \in 0 .. 1 |-> 0]
    OBVIOUS
  <2>4. v \in [0 .. 1 -> Nat] /\ v[0] = 0 /\ v[1] = 0
    BY <2>3
  <2>5. digits[0 + 1] = "0" /\ 0 \in 0 .. base - 1
    <3>1. 0 + 1 = 1
      OBVIOUS
    <3>2. digits[1] = "0"
      BY AlphabetsHaveDigits
    <3>. QED
      BY <3>1, <3>2
  <2>6. \A k \in 1 .. 1 : text[1 + k - 1] = digits[0 + 1] /\ v[k] = v[k - 1] * base + 0
    BY <2>2, <2>4, <2>5
  <2>7. ReadsAs(v, text, 1, 1, base, digits)
    BY <2>4, <2>5, <2>6, Zenon DEF ReadsAs
  <2>8. text \in Seq(DigitsBelow(base, digits))
    <3>1. "0" \in DigitsBelow(base, digits)
      BY <2>5, Zenon DEF DigitsBelow
    <3>. QED
      BY <2>1, <3>1
  <2>9. IsNumeral(text, 0, base, digits)
    BY <1>0, <2>2, <2>4, <2>7, <2>8 DEF IsNumeral, Denotes
  <2>. QED
    BY <1>1, <2>1, <2>9 DEF print_u64_base
<1>2. CASE value # 0
  <2>1. value \in 1 .. U64Max /\ value \in Nat /\ base \in Nat /\ base >= 2
    BY <1>2, Wrapping
  <2>2. PICK left, turns :
          /\ IsRemaining(left, value, base) /\ IsTurns(turns, left) /\ turns >= 1
          /\ digitsOf(value, base, digits) =
               [i \in 1 .. turns |-> digits[(left[turns - i] % base) + 1]]
    <3>1. \E left, turns : TakesDigits(left, turns, value, base, digits)
      BY <2>1, DigitsTaken
    <3>. QED
      BY <3>1, Zenon DEF TakesDigits
  <2>3. PICK text : text = print_u64_base(value, base, digits)
    OBVIOUS
  <2>4. text = [i \in 1 .. turns |-> digits[(left[turns - i] % base) + 1]]
    BY <1>2, <2>2, <2>3 DEF print_u64_base
  <2>5. turns \in 1 .. Bits
    BY <1>0, <2>2 DEF IsTurns
  <2>6. \A i \in 0 .. turns : left[turns - i] \in Nat
    BY <1>0, <2>1, <2>2, <2>5 DEF IsRemaining
  <2>7. \A a \in Nat : a % base \in 0 .. base - 1 /\ a = (a \div base) * base + (a % base)
    BY <2>1, Halved
  <2>8. \A i \in 1 .. turns : left[turns - (i - 1)] = left[turns - i] \div base
    <3>1. \A i \in 1 .. turns : turns - (i - 1) \in 1 .. Bits /\ (turns - (i - 1)) - 1 = turns - i
      BY <1>0, <2>5
    <3>. QED
      BY <2>2, <3>1 DEF IsRemaining
  <2>9. \A i \in 1 .. turns : \E d \in 0 .. base - 1 :
          d = left[turns - i] % base /\ left[turns - i] = left[turns - (i - 1)] * base + d
    <3>1. \A i \in 1 .. turns : left[turns - i] \in Nat
      BY <2>6
    <3>. QED
      BY <2>7, <2>8, <3>1, Zenon
  <2>10. \A i \in 1 .. turns : \E d \in 0 .. base - 1 :
           text[i] = digits[d + 1] /\ left[turns - i] = left[turns - (i - 1)] * base + d
    BY <2>4, <2>9
  <2>11. text \in Seq(DigitsBelow(base, digits)) /\ Len(text) = turns
    <3>1. \A i \in 1 .. turns : text[i] \in DigitsBelow(base, digits)
      BY <2>10, Zenon DEF DigitsBelow
    <3>2. text \in [1 .. turns -> DigitsBelow(base, digits)] /\ turns \in Nat
      BY <2>4, <2>5, <3>1
    <3>. QED
      BY <3>2, FunctionIsSeq, Zenon
  <2>12. Denotes(text, 1, turns, base, digits, value)
    <3>1. PICK v : v = [k \in 0 .. turns |-> left[turns - k]]
      OBVIOUS
    <3>2. v \in [0 .. turns -> Nat]
      BY <2>6, <3>1
    <3>3. v[0] = 0 /\ v[turns] = value
      BY <2>2, <2>5, <3>1 DEF IsTurns, IsRemaining
    <3>4. \A k \in 1 .. turns : /\ 1 + k - 1 = k
                                /\ v[k] = left[turns - k] /\ v[k - 1] = left[turns - (k - 1)]
      BY <2>5, <3>1
    <3>5. \A k \in 1 .. turns : \E d \in 0 .. base - 1 :
            text[1 + k - 1] = digits[d + 1] /\ v[k] = v[k - 1] * base + d
      BY <2>10, <3>4
    <3>6. ReadsAs(v, text, 1, turns, base, digits)
      BY <3>2, <3>3, <3>5, Zenon DEF ReadsAs
    <3>. QED
      BY <3>3, <3>6 DEF Denotes
  <2>13. text[1] # "0"
    <3>1. turns - 1 \in 0 .. turns - 1 /\ 1 \in 1 .. turns /\ turns - (1 - 1) = turns
      BY <2>5
    <3>2. left[turns - 1] # 0 /\ left[turns] = 0
      BY <2>2, <3>1 DEF IsTurns
    <3>3. PICK d \in 0 .. base - 1 : text[1] = digits[d + 1] /\ left[turns - 1] = left[turns] * base + d
      BY <2>10, <3>1
    <3>4. d \in 1 .. 15
      BY <3>2, <3>3
    <3>. QED
      BY <3>3, <3>4, AlphabetsHaveDigits
  <2>. QED
    BY <2>3, <2>5, <2>11, <2>12, <2>13 DEF IsNumeral
<1>. QED
  BY <1>1, <1>2

\* A turn of the decimal loop takes more than three bits of the value: a uint64_t of 64
\* bits has 22 digits at the most, and the 32 characters of the buffers of
\* print_u64_decimal are enough.
THEOREM DecimalIsShort ==
  \A value \in 0 .. U64Max : 3 * (Len(print_u64_decimal(value)) - 1) < Bits
<1>. SUFFICES ASSUME NEW value \in 0 .. U64Max
              PROVE  3 * (Len(print_u64_decimal(value)) - 1) < Bits
  OBVIOUS
<1>0. Bits \in Nat /\ Bits >= 1
  BY WidthAssumption
<1>1. CASE value = 0
  <2>1. print_u64_decimal(value) = <<"0">>
    BY <1>1 DEF print_u64_decimal, print_u64_base
  <2>2. Len(<<"0">>) = 1
    OBVIOUS
  <2>. QED
    BY <1>0, <2>1, <2>2
<1>2. CASE value # 0
  <2>1. value \in 1 .. U64Max /\ value \in Nat
    BY <1>2, Wrapping
  <2>2. PICK left, turns :
          /\ IsRemaining(left, value, 10) /\ IsTurns(turns, left) /\ turns >= 1
          /\ digitsOf(value, 10, LowerDigits) =
               [i \in 1 .. turns |-> LowerDigits[(left[turns - i] % 10) + 1]]
    <3>1. 10 \in Nat /\ 10 >= 2
      OBVIOUS
    <3>2. \E left, turns : TakesDigits(left, turns, value, 10, LowerDigits)
      BY <2>1, <3>1, DigitsTaken
    <3>. QED
      BY <3>2, Zenon DEF TakesDigits
  <2>3. turns \in 1 .. Bits
    BY <1>0, <2>2 DEF IsTurns
  <2>4. Len(print_u64_decimal(value)) = turns
    <3>1. print_u64_decimal(value) = [i \in 1 .. turns |-> LowerDigits[(left[turns - i] % 10) + 1]]
      BY <1>2, <2>2 DEF print_u64_decimal, print_u64_base
    <3>. QED
      BY <2>3, <3>1
  <2>5. \A n \in 0 .. Bits : left[n] \in Nat /\ TwoTo[n] \in Nat
    BY <2>1, <2>2, Powers DEF IsRemaining, Positive
  <2>. DEFINE S == {n \in Nat : 3 * n < Bits /\ left[n] < TwoTo[Bits - 3 * n]}
  <2>6. 0 \in S
    <3>1. left[0] = value /\ value < TwoTo[Bits]
      BY <2>2, Wrapping DEF IsRemaining, U64Max, Modulus
    <3>. QED
      BY <1>0, <3>1
  <2>7. \A n \in 0 .. (turns - 1) - 1 : n \in S => n + 1 \in S
    <3>. SUFFICES ASSUME NEW n \in 0 .. (turns - 1) - 1, 3 * n < Bits, left[n] < TwoTo[Bits - 3 * n]
                  PROVE  3 * (n + 1) < Bits /\ left[n + 1] < TwoTo[Bits - 3 * (n + 1)]
      OBVIOUS
    <3>1. n + 1 \in 1 .. Bits /\ n + 1 \in 0 .. turns - 1 /\ (n + 1) - 1 = n /\ n \in 0 .. Bits
      BY <1>0, <2>3
    <3>2. left[n + 1] = left[n] \div 10 /\ left[n + 1] # 0
      BY <2>2, <3>1 DEF IsRemaining, IsTurns
    <3>3. left[n] \in Nat /\ left[n + 1] \in Nat /\ 10 * left[n + 1] <= left[n] /\ left[n] >= 10
      BY <2>5, <3>1, <3>2
    <3>4. PICK k \in 1 .. Bits : k = Bits - 3 * n
      BY <1>0
    <3>5. TwoTo[k] > 10 /\ left[n] < TwoTo[k]
      BY <2>5, <3>3, <3>4
    <3>6. k >= 4
      <4>1. TwoTo[0] = 1 /\ (1 <= Bits => TwoTo[1] = 2 * TwoTo[0])
        BY <1>0, Powers
      <4>2. 2 <= Bits => TwoTo[2] = 2 * TwoTo[1]
        BY <1>0, Powers
      <4>3. 3 <= Bits => TwoTo[3] = 2 * TwoTo[2]
        BY <1>0, Powers
      <4>. QED
        BY <1>0, <3>5, <4>1, <4>2, <4>3
    <3>7. TwoTo[k] = 8 * TwoTo[k - 3] /\ TwoTo[k - 3] \in Nat
      <4>1. /\ k \in 1 .. Bits /\ k - 1 \in 1 .. Bits /\ k - 2 \in 1 .. Bits
            /\ (k - 1) - 1 = k - 2 /\ (k - 2) - 1 = k - 3 /\ k - 3 \in 0 .. Bits
        BY <1>0, <3>6
      <4>2. TwoTo[k] = 2 * TwoTo[k - 1]
        BY <4>1, Powers
      <4>3. TwoTo[k - 1] = 2 * TwoTo[k - 2]
        BY <4>1, Powers
      <4>4. TwoTo[k - 2] = 2 * TwoTo[k - 3]
        BY <4>1, Powers
      <4>. QED
        BY <2>5, <4>1, <4>2, <4>3, <4>4
    <3>8. Bits - 3 * (n + 1) = k - 3 /\ 3 * (n + 1) < Bits
      BY <1>0, <3>4, <3>6
    <3>9. left[n + 1] < TwoTo[k - 3]
      BY <3>3, <3>5, <3>7
    <3>. QED
      BY <3>8, <3>9
  <2>8. 0 .. turns - 1 \subseteq S
    <3>1. turns - 1 \in Nat
      BY <2>3
    <3>. HIDE DEF S
    <3>. QED
      BY <2>6, <2>7, <3>1, UpToInduction
  <2>9. 3 * (turns - 1) < Bits
    BY <2>3, <2>8
  <2>. QED
    BY <2>4, <2>9
<1>. QED
  BY <1>1, <1>2

-----------------------------------------------------------------------------
(* Parsing.                                                                *)

\* The decimal digits, and the values that the code gives them.
LEMMA DecimalDigits ==
  /\ \A c : IsDigit(c) <=> \E d \in 0 .. 9 : c = LowerDigits[d + 1]
  /\ \A c : IsDigit(c) => \E d \in 0 .. 9 : c = LowerDigits[d + 1] /\ DigitValue(c) = d
  /\ \A d \in 0 .. 9 : DigitValue(LowerDigits[d + 1]) = d
<1>1. \A c : IsDigit(c) <=> \E d \in 0 .. 9 : c = LowerDigits[d + 1]
  <2>1. \A e \in 1 .. 10 : e - 1 \in 0 .. 9 /\ (e - 1) + 1 = e
    OBVIOUS
  <2>2. \A d \in 0 .. 9 : d + 1 \in 1 .. 10
    OBVIOUS
  <2>. QED
    BY <2>1, <2>2, Zenon DEF IsDigit
<1>2. \A d \in 1 .. 10, e \in 1 .. 16 :
        LowerDigits[d] \in {LowerDigits[e], UpperDigits[e]} <=> e = d
  BY DEF LowerDigits, UpperDigits
<1>3. \A d \in 1 .. 10 : DigitValue(LowerDigits[d]) = d - 1
  <2>. SUFFICES ASSUME NEW d \in 1 .. 10
                PROVE  DigitValue(LowerDigits[d]) = d - 1
    OBVIOUS
  <2>1. PICK x : x = CHOOSE e \in 1 .. 16 : LowerDigits[d] \in {LowerDigits[e], UpperDigits[e]}
    OBVIOUS
  <2>2. d \in 1 .. 16
    OBVIOUS
  <2>3. x = d
    BY <1>2, <2>1, <2>2, Zenon
  <2>. QED
    BY <2>1, <2>3, Zenon DEF DigitValue
<1>4. \A d \in 0 .. 9 : d + 1 \in 1 .. 10 /\ (d + 1) - 1 = d
  OBVIOUS
<1>5. \A d \in 0 .. 9 : DigitValue(LowerDigits[d + 1]) = d
  BY <1>3, <1>4
<1>. QED
  BY <1>1, <1>5, Zenon

\* j is the first position from i up to n + 1 that is not in P.
IsFirstOutside(j, i, n, P) ==
  j \in i .. n + 1 /\ (\A k \in i .. j - 1 : k \in P) /\ (j <= n => j \notin P)

\* There is one first position outside of a set.
LEMMA FirstOutside ==
  ASSUME NEW n \in Nat, NEW i \in 1 .. n + 1, NEW P
  PROVE  \E j : /\ IsFirstOutside(j, i, n, P)
                /\ \A l : IsFirstOutside(l, i, n, P) => l = j
<1>. USE DEF IsFirstOutside
<1>. DEFINE S == {j \in i .. n + 1 : j <= n => j \notin P}
<1>1. n + 1 \in S /\ S \subseteq Nat
  OBVIOUS
<1>2. PICK j \in S : \A k \in S : j <= k
  <2>. HIDE DEF S
  <2>. QED
    BY <1>1, LeastExists
<1>3. \A k \in i .. j - 1 : k \in P
  BY <1>2
<1>4. ASSUME NEW l, IsFirstOutside(l, i, n, P)
      PROVE  l = j
  <2>1. ~(l < j)
    BY <1>2, <1>4
  <2>2. ~(j < l)
    BY <1>2, <1>4
  <2>3. j \in Int /\ l \in Int
    BY <1>1, <1>4
  <2>. QED
    BY <2>1, <2>2, <2>3
<1>. QED
  BY <1>2, <1>3, <1>4

\* j is the first position from i on that is no space, or no digit.
SpacesEnd(data, i, j) ==
  /\ j \in i .. Len(data) + 1
  /\ \A k \in i .. j - 1 : ascii_is_space(data[k])
  /\ j <= Len(data) => ~ascii_is_space(data[j])

DigitsEnd(data, i, j) ==
  /\ j \in i .. Len(data) + 1
  /\ \A k \in i .. j - 1 : IsDigit(data[k])
  /\ j <= Len(data) => ~IsDigit(data[j])

\* skipSpaces answers the end of the spaces.
LEMMA SpacesAreSkipped ==
  ASSUME NEW data, Len(data) \in Nat, NEW i \in 1 .. Len(data) + 1
  PROVE  \A j : SpacesEnd(data, i, j) <=> j = skipSpaces(data, i)
<1>1. PICK n \in Nat : n = Len(data)
  OBVIOUS
<1>2. PICK P : P = {k \in Nat : ascii_is_space(data[k])}
  OBVIOUS
<1>3. \A j : SpacesEnd(data, i, j) <=> IsFirstOutside(j, i, n, P)
  BY <1>1, <1>2 DEF SpacesEnd, IsFirstOutside
<1>4. PICK j : SpacesEnd(data, i, j) /\ \A l : SpacesEnd(data, i, l) => l = j
  BY <1>1, <1>3, FirstOutside
<1>5. SpacesEnd(data, i, skipSpaces(data, i))
  BY <1>4, Zenon DEF SpacesEnd, skipSpaces
<1>. QED
  BY <1>4, <1>5, Zenon

\* skipDigits answers the end of the digits.
LEMMA DigitsAreSkipped ==
  ASSUME NEW data, Len(data) \in Nat, NEW i \in 1 .. Len(data) + 1
  PROVE  \A j : DigitsEnd(data, i, j) <=> j = skipDigits(data, i)
<1>1. PICK n \in Nat : n = Len(data)
  OBVIOUS
<1>2. PICK P : P = {k \in Nat : IsDigit(data[k])}
  OBVIOUS
<1>3. \A j : DigitsEnd(data, i, j) <=> IsFirstOutside(j, i, n, P)
  BY <1>1, <1>2 DEF DigitsEnd, IsFirstOutside
<1>4. PICK j : DigitsEnd(data, i, j) /\ \A l : DigitsEnd(data, i, l) => l = j
  BY <1>1, <1>3, FirstOutside
<1>5. DigitsEnd(data, i, skipDigits(data, i))
  BY <1>4, Zenon DEF DigitsEnd, skipDigits
<1>. QED
  BY <1>4, <1>5, Zenon

\* The guard of the digit loop: it stops exactly when a uint64_t does not hold the value.
LEMMA OverflowIsSeen ==
  ASSUME NEW value \in 0 .. U64Max, NEW d \in 0 .. 9
  PROVE  overflows(value, d) <=> value * 10 + d > U64Max
BY Wrapping DEF overflows

\* f has the values of the digit loop on the n digits from i on.
IsValueRead(f, data, i, n) ==
  /\ f[0] = 0
  /\ \A k \in 0 .. n : f[k] \in 0 .. U64Max
  /\ \A k \in 1 .. n : \E d \in 0 .. 9 :
       /\ data[i + k - 1] = LowerDigits[d + 1] /\ DigitValue(data[i + k - 1]) = d
       /\ f[k] = U64(f[k - 1] * 10 + d)

\* The value of the digits, wrapped at each of them.
LEMMA ValuesRead ==
  ASSUME NEW data, Len(data) \in Nat, NEW i \in 1 .. Len(data) + 1
  PROVE  IsValueRead(valueRead(data, i), data, i, skipDigits(data, i) - i)
<1>1. PICK n : n = skipDigits(data, i) - i
  OBVIOUS
<1>2. DigitsEnd(data, i, skipDigits(data, i))
  BY DigitsAreSkipped
<1>3. n \in Nat /\ \A k \in 1 .. n : IsDigit(data[i + k - 1])
  BY <1>1, <1>2 DEF DigitsEnd
<1>4. \A k \in 1 .. n : \E d \in 0 .. 9 :
        data[i + k - 1] = LowerDigits[d + 1] /\ DigitValue(data[i + k - 1]) = d
  BY <1>3, DecimalDigits, Zenon
<1>5. \A a \in Nat, d \in 0 .. 9 : U64(a * 10 + d) \in 0 .. U64Max
  BY Wrapping DEF U64, U64Max
<1>. DEFINE T == 0 .. U64Max
            step == [x \in (1 .. n) \X T |-> U64(x[2] * 10 + DigitValue(data[i + x[1] - 1]))]
            Reads(g) == g = [k \in 0 .. n |-> IF k = 0 THEN 0
                                ELSE U64(g[k - 1] * 10 + DigitValue(data[i + k - 1]))]
<1>6. 0 \in T /\ T \subseteq Nat
  BY Wrapping
<1>7. step \in [(1 .. n) \X T -> T]
  BY <1>4, <1>5, <1>6
<1>8. PICK f : IsRecursive(f, n, T, 0, step)
  <2>. HIDE DEF step, T
  <2>. QED
    BY <1>3, <1>6, <1>7, RecursionExists
<1>9. f \in [0 .. n -> T] /\ f[0] = 0
  BY <1>8 DEF IsRecursive
<1>10. \A k \in 1 .. n : f[k] = U64(f[k - 1] * 10 + DigitValue(data[i + k - 1]))
  <2>1. \A k \in 1 .. n : f[k - 1] \in T
    BY <1>3, <1>9
  <2>2. \A k \in 1 .. n : f[k] = step[<<k, f[k - 1]>>]
    BY <1>8, Zenon DEF IsRecursive
  <2>. QED
    BY <2>1, <2>2
<1>11. Reads(f)
  BY <1>3, <1>9, <1>10
<1>12. valueRead(data, i) = CHOOSE g : Reads(g)
  BY <1>1 DEF valueRead
<1>13. Reads(valueRead(data, i))
  <2>. HIDE DEF Reads
  <2>. QED
    BY <1>11, <1>12
<1>14. PICK g : g = valueRead(data, i)
  OBVIOUS
<1>15. Reads(g)
  BY <1>13, <1>14
<1>16. g[0] = 0
  BY <1>3, <1>15
<1>17. \A k \in 1 .. n : g[k] = U64(g[k - 1] * 10 + DigitValue(data[i + k - 1]))
  BY <1>3, <1>15
<1>18. \A k \in 0 .. n : g[k] \in 0 .. U64Max
  <2>. DEFINE S == {k \in Nat : g[k] \in 0 .. U64Max}
  <2>1. 0 \in S
    BY <1>6, <1>16
  <2>2. \A k \in 0 .. n - 1 : k \in S => k + 1 \in S
    <3>1. \A k \in 0 .. n - 1 : k + 1 \in 1 .. n /\ (k + 1) - 1 = k
      BY <1>3
    <3>2. \A k \in 0 .. n - 1 : \E d \in 0 .. 9 : g[k + 1] = U64(g[k] * 10 + d)
      BY <1>4, <1>17, <3>1
    <3>3. \A k \in 0 .. n - 1 : g[k] \in 0 .. U64Max => g[k + 1] \in 0 .. U64Max
      BY <1>5, <1>6, <3>2, Zenon
    <3>. QED
      BY <3>3
  <2>. HIDE DEF S
  <2>3. 0 .. n \subseteq S
    BY <1>3, <2>1, <2>2, UpToInduction
  <2>. QED
    BY <2>3 DEF S
<1>19. IsValueRead(g, data, i, n)
  BY <1>4, <1>16, <1>17, <1>18, Zenon DEF IsValueRead
<1>. QED
  BY <1>1, <1>14, <1>19

\* The values of the first characters grow.
LEMMA ValuesGrow ==
  ASSUME NEW v, NEW data, NEW i, NEW n \in Nat, NEW digits, ReadsAs(v, data, i, n, 10, digits)
  PROVE  \A k \in 0 .. n : v[k] <= v[n]
<1>1. \A k \in 0 .. n : v[k] \in Nat
  BY DEF ReadsAs
<1>2. \A k \in 1 .. n : v[k - 1] <= v[k]
  <2>1. \A k \in 1 .. n : k - 1 \in 0 .. n /\ k \in 0 .. n
    OBVIOUS
  <2>2. \A a \in Nat, d \in 0 .. 10 - 1 : a <= a * 10 + d
    OBVIOUS
  <2>3. \A k \in 1 .. n : \E d \in 0 .. 10 - 1 : v[k] = v[k - 1] * 10 + d
    BY Zenon DEF ReadsAs
  <2>. QED
    BY <1>1, <2>1, <2>2, <2>3
<1>. DEFINE S == {k \in Nat : k <= n => v[n - k] <= v[n]}
<1>3. 0 \in S
  BY <1>1
<1>4. \A k \in 0 .. n - 1 : k \in S => k + 1 \in S
  <2>. SUFFICES ASSUME NEW k \in 0 .. n - 1, v[n - k] <= v[n]
                PROVE  v[n - (k + 1)] <= v[n]
    OBVIOUS
  <2>1. n - k \in 1 .. n /\ (n - k) - 1 = n - (k + 1)
    OBVIOUS
  <2>2. v[n - (k + 1)] <= v[n - k]
    BY <1>2, <2>1
  <2>3. v[n - (k + 1)] \in Nat /\ v[n - k] \in Nat /\ v[n] \in Nat
    BY <1>1
  <2>. QED
    BY <2>2, <2>3
<1>5. 0 .. n \subseteq S
  <2>. HIDE DEF S
  <2>. QED
    BY <1>3, <1>4, UpToInduction
<1>6. \A k \in 0 .. n : n - k \in 0 .. n /\ n - (n - k) = k
  OBVIOUS
<1>. QED
  BY <1>5, <1>6

\* The digit loop reads the number that the digits denote, and fails when a uint64_t
\* does not hold it.
LEMMA DigitsAreRead ==
  ASSUME NEW data, Len(data) \in Nat, NEW i \in 1 .. Len(data) + 1
  PROVE  /\ readDigits(data, i).at = skipDigits(data, i)
         /\ readDigits(data, i).value \in 0 .. U64Max
         /\ \A value \in 0 .. U64Max :
              readDigits(data, i).ok /\ readDigits(data, i).value = value <=>
                Denotes(data, i, skipDigits(data, i) - i, 10, LowerDigits, value)
<1>1. PICK n, f, r : n = skipDigits(data, i) - i /\ f = valueRead(data, i) /\ r = readDigits(data, i)
  OBVIOUS
<1>2. n \in Nat
  <2>1. DigitsEnd(data, i, skipDigits(data, i))
    BY DigitsAreSkipped
  <2>. QED
    BY <1>1, <2>1 DEF DigitsEnd
<1>3. IsValueRead(f, data, i, n)
  BY <1>1, ValuesRead
<1>4. /\ r.ok <=> \A k \in 1 .. n : ~overflows(f[k - 1], DigitValue(data[i + k - 1]))
      /\ r.at = skipDigits(data, i)
      /\ r.value = f[n]
  BY <1>1 DEF readDigits
<1>5. U64Max \in Nat /\ \A m \in 0 .. U64Max : U64(m) = m
  BY Wrapping
<1>6. \A k \in 0 .. n : f[k] \in 0 .. U64Max
  BY <1>3 DEF IsValueRead
<1>7. \A k \in 1 .. n : \E d \in 0 .. 9 :
        /\ data[i + k - 1] = LowerDigits[d + 1]
        /\ f[k] = U64(f[k - 1] * 10 + d)
        /\ overflows(f[k - 1], DigitValue(data[i + k - 1])) <=> f[k - 1] * 10 + d > U64Max
  <2>1. \A k \in 1 .. n : f[k - 1] \in 0 .. U64Max
    BY <1>2, <1>6
  <2>2. \A k \in 1 .. n : \E d \in 0 .. 9 :
          /\ data[i + k - 1] = LowerDigits[d + 1]
          /\ f[k] = U64(f[k - 1] * 10 + d)
          /\ DigitValue(data[i + k - 1]) = d
    BY <1>3, Zenon DEF IsValueRead
  <2>3. \A a \in 0 .. U64Max, d \in 0 .. 9 : overflows(a, d) <=> a * 10 + d > U64Max
    BY OverflowIsSeen
  <2>. SUFFICES ASSUME NEW k \in 1 .. n
                PROVE  \E d \in 0 .. 9 :
                         /\ data[i + k - 1] = LowerDigits[d + 1]
                         /\ f[k] = U64(f[k - 1] * 10 + d)
                         /\ overflows(f[k - 1], DigitValue(data[i + k - 1])) <=> f[k - 1] * 10 + d > U64Max
    OBVIOUS
  <2>4. PICK d \in 0 .. 9 : /\ data[i + k - 1] = LowerDigits[d + 1]
                            /\ f[k] = U64(f[k - 1] * 10 + d)
                            /\ DigitValue(data[i + k - 1]) = d
    BY <2>2
  <2>5. overflows(f[k - 1], d) <=> f[k - 1] * 10 + d > U64Max
    BY <2>1, <2>3
  <2>. QED
    BY <2>4, <2>5
<1>8. ASSUME r.ok
      PROVE  Denotes(data, i, n, 10, LowerDigits, f[n])
  <2>1. \A k \in 1 .. n : \E d \in 0 .. 10 - 1 :
          data[i + k - 1] = LowerDigits[d + 1] /\ f[k] = f[k - 1] * 10 + d
    <3>1. \A k \in 1 .. n : f[k - 1] \in Nat
      BY <1>2, <1>5, <1>6
    <3>2. \A k \in 1 .. n : \E d \in 0 .. 9 :
            /\ data[i + k - 1] = LowerDigits[d + 1]
            /\ f[k] = U64(f[k - 1] * 10 + d)
            /\ ~(f[k - 1] * 10 + d > U64Max)
      BY <1>4, <1>7, <1>8, Zenon
    <3>3. \A a \in Nat, d \in 0 .. 9 : ~(a * 10 + d > U64Max) => U64(a * 10 + d) = a * 10 + d
      BY <1>5
    <3>4. 10 - 1 = 9
      OBVIOUS
    <3>5. \A k \in 1 .. n : \E d \in 0 .. 9 :
            data[i + k - 1] = LowerDigits[d + 1] /\ f[k] = f[k - 1] * 10 + d
      <4>. SUFFICES ASSUME NEW k \in 1 .. n
                    PROVE  \E d \in 0 .. 9 :
                             data[i + k - 1] = LowerDigits[d + 1] /\ f[k] = f[k - 1] * 10 + d
        OBVIOUS
      <4>1. PICK d \in 0 .. 9 : /\ data[i + k - 1] = LowerDigits[d + 1]
                                /\ f[k] = U64(f[k - 1] * 10 + d)
                                /\ ~(f[k - 1] * 10 + d > U64Max)
        BY <3>2
      <4>2. U64(f[k - 1] * 10 + d) = f[k - 1] * 10 + d
        BY <3>1, <3>3, <4>1
      <4>. QED
        BY <4>1, <4>2
    <3>. QED
      BY <3>4, <3>5
  <2>2. PICK v : v = [k \in 0 .. n |-> f[k]]
    OBVIOUS
  <2>3. v \in [0 .. n -> Nat]
    BY <1>5, <1>6, <2>2
  <2>4. v[0] = 0 /\ v[n] = f[n]
    BY <1>2, <1>3, <2>2 DEF IsValueRead
  <2>5. \A k \in 1 .. n : v[k] = f[k] /\ v[k - 1] = f[k - 1]
    BY <1>2, <2>2
  <2>6. ReadsAs(v, data, i, n, 10, LowerDigits)
    BY <2>1, <2>3, <2>4, <2>5, Zenon DEF ReadsAs
  <2>. QED
    BY <2>4, <2>6, Zenon DEF Denotes
<1>9. ASSUME NEW value \in 0 .. U64Max, Denotes(data, i, n, 10, LowerDigits, value)
      PROVE  r.ok /\ f[n] = value
  <2>1. PICK v : ReadsAs(v, data, i, n, 10, LowerDigits) /\ v[n] = value
    BY <1>9 DEF Denotes
  <2>2. \A k \in 0 .. n : v[k] \in 0 .. U64Max
    <3>1. \A k \in 0 .. n : v[k] <= v[n]
      BY <1>2, <2>1, ValuesGrow
    <3>2. \A k \in 0 .. n : v[k] \in Nat
      BY <2>1 DEF ReadsAs
    <3>. QED
      BY <1>5, <2>1, <3>1, <3>2
  <2>3. \A d, e \in 0 .. 9 : LowerDigits[d + 1] = LowerDigits[e + 1] => d = e
    BY DecimalDigits, Zenon
  <2>4. \A k \in 1 .. n : \E d \in 0 .. 9 :
          /\ v[k] = v[k - 1] * 10 + d
          /\ f[k] = U64(f[k - 1] * 10 + d)
          /\ overflows(f[k - 1], DigitValue(data[i + k - 1])) <=> f[k - 1] * 10 + d > U64Max
    <3>1. \A k \in 1 .. n : \E d \in 0 .. 9 :
            data[i + k - 1] = LowerDigits[d + 1] /\ v[k] = v[k - 1] * 10 + d
      <4>1. 10 - 1 = 9
        OBVIOUS
      <4>. QED
        BY <2>1, <4>1, Zenon DEF ReadsAs
    <3>. SUFFICES ASSUME NEW k \in 1 .. n
                  PROVE  \E d \in 0 .. 9 :
                           /\ v[k] = v[k - 1] * 10 + d
                           /\ f[k] = U64(f[k - 1] * 10 + d)
                           /\ overflows(f[k - 1], DigitValue(data[i + k - 1])) <=> f[k - 1] * 10 + d > U64Max
      OBVIOUS
    <3>2. PICK d \in 0 .. 9 : data[i + k - 1] = LowerDigits[d + 1] /\ v[k] = v[k - 1] * 10 + d
      BY <3>1
    <3>3. PICK e \in 0 .. 9 :
            /\ data[i + k - 1] = LowerDigits[e + 1]
            /\ f[k] = U64(f[k - 1] * 10 + e)
            /\ overflows(f[k - 1], DigitValue(data[i + k - 1])) <=> f[k - 1] * 10 + e > U64Max
      BY <1>7
    <3>4. d = e
      BY <2>3, <3>2, <3>3, Zenon
    <3>. QED
      BY <3>2, <3>3, <3>4
  <2>5. \A k \in 0 .. n : f[k] = v[k]
    <3>. DEFINE S == {k \in Nat : f[k] = v[k]}
    <3>1. 0 \in S
      BY <1>3, <2>1 DEF IsValueRead, ReadsAs
    <3>2. \A k \in 0 .. n - 1 : k \in S => k + 1 \in S
      <4>. SUFFICES ASSUME NEW k \in 0 .. n - 1, f[k] = v[k]
                    PROVE  f[k + 1] = v[k + 1]
        OBVIOUS
      <4>1. k + 1 \in 1 .. n /\ (k + 1) - 1 = k /\ k + 1 \in 0 .. n
        BY <1>2
      <4>2. PICK d \in 0 .. 9 : v[k + 1] = v[k] * 10 + d /\ f[k + 1] = U64(f[k] * 10 + d)
        BY <2>4, <4>1
      <4>. QED
        BY <1>5, <2>2, <4>1, <4>2
    <3>. HIDE DEF S
    <3>3. 0 .. n \subseteq S
      BY <1>2, <3>1, <3>2, UpToInduction
    <3>. QED
      BY <3>3 DEF S
  <2>6. \A k \in 1 .. n : ~overflows(f[k - 1], DigitValue(data[i + k - 1]))
    <3>1. \A k \in 1 .. n : f[k - 1] = v[k - 1] /\ v[k] \in 0 .. U64Max
      BY <1>2, <2>2, <2>5
    <3>2. \A m \in 0 .. U64Max : ~(m > U64Max)
      BY <1>5
    <3>. QED
      BY <2>4, <3>1, <3>2, Zenon
  <2>. QED
    BY <1>2, <1>4, <2>1, <2>5, <2>6
<1>10. \A value \in 0 .. U64Max :
         r.ok /\ r.value = value <=> Denotes(data, i, n, 10, LowerDigits, value)
  BY <1>4, <1>8, <1>9, Zenon
<1>11. r.value \in 0 .. U64Max
  BY <1>2, <1>4, <1>6
<1>. QED
  BY <1>1, <1>4, <1>10, <1>11, Zenon

\* From i on data has the digits of value, one at least, and then only spaces.
NumberFrom(data, i, value) ==
  \E n \in 1 .. Len(data) + 1 - i :
    /\ Denotes(data, i, n, 10, LowerDigits, value)
    /\ \A k \in i + n .. Len(data) : ascii_is_space(data[k])

\* A digit is no space and no sign.
LEMMA DigitIsNoSpace ==
  \A c : IsDigit(c) => ~ascii_is_space(c) /\ c \notin {"-", "+"}
<1>1. \A e \in 1 .. 10 : LowerDigits[e] \in {"0", "1", "2", "3", "4", "5", "6", "7", "8", "9"}
  BY DEF LowerDigits
<1>2. " " \notin {"0", "1", "2", "3", "4", "5", "6", "7", "8", "9"}
  BY Zenon
<1>3. "-" \notin {"0", "1", "2", "3", "4", "5", "6", "7", "8", "9"}
  BY Zenon
<1>4. "+" \notin {"0", "1", "2", "3", "4", "5", "6", "7", "8", "9"}
  BY Zenon
<1>. QED
  BY <1>1, <1>2, <1>3, <1>4, Zenon DEF IsDigit, ascii_is_space

\* Each byte that a number is denoted by is a digit.
LEMMA DenotedAreDigits ==
  ASSUME NEW data, NEW i, NEW n, NEW value, Denotes(data, i, n, 10, LowerDigits, value)
  PROVE  \A k \in 1 .. n : IsDigit(data[i + k - 1])
<1>1. \A k \in 1 .. n : \E d \in 0 .. 10 - 1 : data[i + k - 1] = LowerDigits[d + 1]
  BY Zenon DEF Denotes, ReadsAs
<1>2. 10 - 1 = 9
  OBVIOUS
<1>. QED
  BY <1>1, <1>2, DecimalDigits

\* What follows the leading spaces is read as a number exactly when it is one.
LEMMA NumberIsRead ==
  ASSUME NEW data, Len(data) \in Nat, NEW i \in 1 .. Len(data) + 1
  PROVE  /\ readNumber(data, i) # Failed =>
              \E value \in 0 .. U64Max : readNumber(data, i) = Parsed(value)
         /\ \A value \in 0 .. U64Max :
              readNumber(data, i) = Parsed(value) <=> NumberFrom(data, i, value)
<1>1. PICK l, r, e : l = Len(data) /\ r = readDigits(data, i) /\ e = skipDigits(data, i)
  OBVIOUS
<1>2. /\ l \in Nat /\ e \in i .. l + 1 /\ r.at = e /\ r.value \in 0 .. U64Max
      /\ \A value \in 0 .. U64Max :
           r.ok /\ r.value = value <=> Denotes(data, i, e - i, 10, LowerDigits, value)
  <2>1. DigitsEnd(data, i, e)
    BY <1>1, DigitsAreSkipped
  <2>2. e \in i .. l + 1
    BY <1>1, <2>1 DEF DigitsEnd
  <2>. QED
    BY <1>1, <2>2, DigitsAreRead
<1>3. e \in 1 .. Len(data) + 1
  BY <1>1, <1>2
<1>4. readNumber(data, i) =
        IF r.ok /\ e > i /\ skipSpaces(data, e) = l + 1 THEN Parsed(r.value) ELSE Failed
  BY <1>1, <1>2 DEF readNumber
<1>5. \A a : Parsed(a) # Failed /\ \A b : Parsed(a) = Parsed(b) => a = b
  BY DEF Parsed, Failed
<1>6. ASSUME NEW value \in 0 .. U64Max, readNumber(data, i) = Parsed(value)
      PROVE  NumberFrom(data, i, value)
  <2>1. r.ok /\ e > i /\ skipSpaces(data, e) = l + 1 /\ r.value = value
    BY <1>4, <1>5, <1>6
  <2>2. Denotes(data, i, e - i, 10, LowerDigits, value)
    BY <1>2, <2>1
  <2>3. SpacesEnd(data, e, l + 1)
    BY <1>3, <2>1, SpacesAreSkipped
  <2>4. \A k \in e .. l : ascii_is_space(data[k])
    BY <1>2, <2>3 DEF SpacesEnd
  <2>5. PICK n : n = e - i
    OBVIOUS
  <2>6. n \in 1 .. l + 1 - i /\ i + n = e
    BY <1>2, <2>1, <2>5
  <2>. QED
    BY <1>1, <2>2, <2>4, <2>5, <2>6 DEF NumberFrom
<1>7. ASSUME NEW value \in 0 .. U64Max, NumberFrom(data, i, value)
      PROVE  readNumber(data, i) = Parsed(value)
  <2>1. PICK n \in 1 .. l + 1 - i : /\ Denotes(data, i, n, 10, LowerDigits, value)
                                    /\ \A k \in i + n .. l : ascii_is_space(data[k])
    BY <1>1, <1>7 DEF NumberFrom
  <2>2. \A k \in i .. (i + n) - 1 : IsDigit(data[k])
    <3>1. \A k \in 1 .. n : IsDigit(data[i + k - 1])
      BY <2>1, DenotedAreDigits
    <3>2. \A k \in i .. (i + n) - 1 : k - i + 1 \in 1 .. n /\ i + (k - i + 1) - 1 = k
      BY <1>2
    <3>. QED
      BY <3>1, <3>2
  <2>3. DigitsEnd(data, i, i + n)
    <3>1. i + n \in i .. l + 1
      BY <1>2
    <3>2. i + n <= l => ~IsDigit(data[i + n])
      <4>1. i + n <= l => i + n \in i + n .. l
        BY <1>2
      <4>. QED
        BY <2>1, <4>1, DigitIsNoSpace
    <3>. QED
      BY <1>1, <2>2, <3>1, <3>2 DEF DigitsEnd
  <2>4. e = i + n
    BY <1>1, <2>3, DigitsAreSkipped
  <2>5. e - i = n /\ e > i
    BY <1>2, <2>4
  <2>6. r.ok /\ r.value = value
    BY <1>2, <2>1, <2>5
  <2>7. SpacesEnd(data, e, l + 1)
    BY <1>1, <1>2, <2>1, <2>4 DEF SpacesEnd
  <2>8. skipSpaces(data, e) = l + 1
    BY <1>3, <2>7, SpacesAreSkipped
  <2>. QED
    BY <1>4, <2>5, <2>6, <2>8
<1>. QED
  BY <1>2, <1>4, <1>6, <1>7

\* A number begins with a digit.
LEMMA NumberBegins ==
  ASSUME NEW data, Len(data) \in Nat, NEW i \in 1 .. Len(data) + 1, NEW value,
         NumberFrom(data, i, value)
  PROVE  i <= Len(data) /\ IsDigit(data[i])
<1>1. PICK n \in 1 .. Len(data) + 1 - i : Denotes(data, i, n, 10, LowerDigits, value)
  BY DEF NumberFrom
<1>2. 1 \in 1 .. n /\ i + 1 - 1 = i
  OBVIOUS
<1>. QED
  BY <1>1, <1>2, DenotedAreDigits

\* data has only spaces before i.
SpacesBefore(data, i) == \A k \in 1 .. i - 1 : ascii_is_space(data[k])

\* The parser begins at the first byte that is not a space.
LEMMA StartIsFound ==
  ASSUME NEW data, Len(data) \in Nat
  PROVE  /\ skipSpaces(data, 1) \in 1 .. Len(data) + 1
         /\ SpacesBefore(data, skipSpaces(data, 1))
         /\ \A i \in 1 .. Len(data) :
              SpacesBefore(data, i) /\ ~ascii_is_space(data[i]) => skipSpaces(data, 1) = i
<1>1. \A j : SpacesEnd(data, 1, j) <=> j = skipSpaces(data, 1)
  BY SpacesAreSkipped
<1>2. \A i \in 1 .. Len(data) :
        SpacesBefore(data, i) /\ ~ascii_is_space(data[i]) => SpacesEnd(data, 1, i)
  BY DEF SpacesEnd, SpacesBefore
<1>3. SpacesEnd(data, 1, skipSpaces(data, 1))
  BY <1>1
<1>4. skipSpaces(data, 1) \in 1 .. Len(data) + 1 /\ SpacesBefore(data, skipSpaces(data, 1))
  BY <1>3 DEF SpacesEnd, SpacesBefore
<1>. QED
  BY <1>1, <1>2, <1>4, Zenon

\* A text is read as a number of a uint64_t exactly when it is the digits of that number
\* between spaces (parse_u64_ascii, nex_runtime_parse_u64): no digit is dropped, and a
\* number too large for a uint64_t is refused, not wrapped.
THEOREM ParseU64IsExact ==
  ASSUME NEW S, NEW data \in Seq(S)
  PROVE  /\ parse_u64(data) # Failed =>
              \E value \in 0 .. U64Max : parse_u64(data) = Parsed(value)
         /\ \A value \in 0 .. U64Max :
              parse_u64(data) = Parsed(value) <=>
                \E i \in 1 .. Len(data) : SpacesBefore(data, i) /\ NumberFrom(data, i, value)
<1>1. Len(data) \in Nat
  OBVIOUS
<1>2. PICK s : s = skipSpaces(data, 1)
  OBVIOUS
<1>3. /\ s \in 1 .. Len(data) + 1 /\ SpacesBefore(data, s)
      /\ \A i \in 1 .. Len(data) : SpacesBefore(data, i) /\ ~ascii_is_space(data[i]) => s = i
  BY <1>1, <1>2, StartIsFound
<1>4. parse_u64(data) = readNumber(data, s)
  BY <1>2 DEF parse_u64
<1>5. ASSUME NEW value \in 0 .. U64Max
      PROVE  NumberFrom(data, s, value) <=>
               \E i \in 1 .. Len(data) : SpacesBefore(data, i) /\ NumberFrom(data, i, value)
  <2>1. ASSUME NumberFrom(data, s, value)
        PROVE  s \in 1 .. Len(data)
    <3>1. s <= Len(data)
      BY <1>1, <1>3, <2>1, NumberBegins
    <3>. QED
      BY <1>1, <1>3, <3>1
  <2>2. ASSUME NEW i \in 1 .. Len(data), SpacesBefore(data, i), NumberFrom(data, i, value)
        PROVE  s = i
    <3>1. i \in 1 .. Len(data) + 1
      BY <1>1
    <3>2. ~ascii_is_space(data[i])
      BY <1>1, <2>2, <3>1, NumberBegins, DigitIsNoSpace
    <3>. QED
      BY <1>3, <2>2, <3>2
  <2>. QED
    BY <1>3, <2>1, <2>2, Zenon
<1>6. /\ readNumber(data, s) # Failed =>
           \E value \in 0 .. U64Max : readNumber(data, s) = Parsed(value)
      /\ \A value \in 0 .. U64Max : readNumber(data, s) = Parsed(value) <=> NumberFrom(data, s, value)
  BY <1>1, <1>3, NumberIsRead
<1>. QED
  BY <1>4, <1>5, <1>6, Zenon

\* The numbers of an int32_t.
I32s == -TwoTo[IntBits - 1] .. TwoTo[IntBits - 1] - 1

\* An int32_t fits into the wider integers, with either sign.
LEMMA I32sAreSmall ==
  TwoTo[IntBits - 1] \in 1 .. U64Max /\ 2 * TwoTo[Bits - 1] = Modulus /\ TwoTo[IntBits - 1] <= TwoTo[Bits - 1]
<1>1. Bits \in 1 .. Bits /\ Bits - 1 \in 0 .. Bits /\ IntBits - 1 \in 0 .. Bits /\ Bits - 1 \in IntBits - 1 .. Bits
  BY WidthAssumption
<1>2. TwoTo[IntBits - 1] <= TwoTo[Bits - 1]
  BY <1>1, Exponents, PowersGrow
<1>3. TwoTo[Bits] = 2 * TwoTo[Bits - 1]
  BY <1>1, Powers
<1>4. TwoTo[IntBits - 1] \in Positive /\ TwoTo[Bits - 1] \in Positive
  BY <1>1, Powers
<1>. QED
  BY <1>2, <1>3, <1>4 DEF Positive, U64Max, Modulus

\* From i on data has value with or without a sign, and then only spaces.
SignedNumberFrom(data, i, value) ==
  \/ NumberFrom(data, i, value)
  \/ data[i] = "+" /\ NumberFrom(data, i + 1, value)
  \/ data[i] = "-" /\ NumberFrom(data, i + 1, 0 - value)

\* A sign is no space, and the signs differ.
LEMMA SignIsNoSpace == ~ascii_is_space("+") /\ ~ascii_is_space("-") /\ "+" # "-"
BY Zenon DEF ascii_is_space

\* What is read behind a sign is not negative.
LEMMA NumberFromIsNat ==
  ASSUME NEW data, NEW i \in Nat, NEW value, Len(data) \in Nat, NumberFrom(data, i, value)
  PROVE  value \in Nat
<1>1. PICK n \in 1 .. Len(data) + 1 - i : Denotes(data, i, n, 10, LowerDigits, value)
  BY DEF NumberFrom
<1>2. n \in 0 .. n
  OBVIOUS
<1>. QED
  BY <1>1, <1>2 DEF Denotes, ReadsAs

\* A text is read as a number of an int32_t exactly when it is the digits of that number,
\* with a sign or without one, between spaces (nex_runtime_parse_i32): the least number
\* is read, and one out of range is refused.
THEOREM ParseI32IsExact ==
  ASSUME NEW S, NEW data \in Seq(S)
  PROVE  /\ parse_i32(data) # Failed => \E value \in I32s : parse_i32(data) = Parsed(value)
         /\ \A value \in I32s :
              parse_i32(data) = Parsed(value) <=>
                \E i \in 1 .. Len(data) : SpacesBefore(data, i) /\ SignedNumberFrom(data, i, value)
<1>1. PICK l, s, h : l = Len(data) /\ s = skipSpaces(data, 1) /\ h = TwoTo[IntBits - 1]
  OBVIOUS
<1>2. l \in Nat /\ Len(data) \in Nat
  BY <1>1
<1>3. /\ s \in 1 .. l + 1 /\ SpacesBefore(data, s)
      /\ \A i \in 1 .. l : SpacesBefore(data, i) /\ ~ascii_is_space(data[i]) => s = i
  BY <1>1, <1>2, StartIsFound
<1>4. h \in 1 .. U64Max /\ U64Max \in Nat /\ I32s = -h .. h - 1
  BY <1>1, I32sAreSmall, Wrapping DEF I32s
<1>5. /\ \A a : Parsed(a).ok /\ Parsed(a).value = a
      /\ ~Failed.ok
      /\ \A a, b : Parsed(a) = Parsed(b) => a = b
      /\ \A a : Parsed(a) # Failed
  BY DEF Parsed, Failed
<1>. DEFINE signed == s <= l /\ data[s] \in {"-", "+"}
            negative == signed /\ data[s] = "-"
            t == IF signed THEN s + 1 ELSE s
            number == readNumber(data, t)
            limit == IF negative THEN h ELSE h - 1
            outcome == IF negative THEN 0 - number.value ELSE number.value
<1>6. parse_i32(data) = IF ~number.ok \/ number.value > limit THEN Failed ELSE Parsed(outcome)
  BY <1>1 DEF parse_i32, limitOf
<1>7. t \in 1 .. l + 1
  BY <1>2, <1>3
<1>8. /\ number # Failed => \E m \in 0 .. U64Max : number = Parsed(m)
      /\ \A m \in 0 .. U64Max : number = Parsed(m) <=> NumberFrom(data, t, m)
  BY <1>1, <1>2, <1>7, NumberIsRead
<1>9. ASSUME NEW value \in I32s
      PROVE  parse_i32(data) = Parsed(value) <=>
               s <= l /\ NumberFrom(data, t, IF negative THEN 0 - value ELSE value)
  <2>1. PICK m : m = IF negative THEN 0 - value ELSE value
    OBVIOUS
  <2>2. m \in Int /\ m <= limit /\ m <= U64Max
    BY <1>4, <2>1
  <2>3. ASSUME parse_i32(data) = Parsed(value)
        PROVE  s <= l /\ NumberFrom(data, t, m)
    <3>1. number.ok /\ outcome = value
      BY <1>5, <1>6, <2>3
    <3>2. PICK k \in 0 .. U64Max : number = Parsed(k)
      BY <1>5, <1>8, <3>1
    <3>3. k = m
      BY <1>4, <1>5, <2>1, <3>1, <3>2
    <3>4. NumberFrom(data, t, m)
      BY <1>8, <3>2, <3>3
    <3>5. t <= l
      BY <1>1, <1>2, <1>7, <3>4, NumberBegins
    <3>. QED
      BY <1>2, <1>3, <3>4, <3>5
  <2>4. ASSUME NumberFrom(data, t, m)
        PROVE  parse_i32(data) = Parsed(value)
    <3>1. m \in Nat
      BY <1>2, <1>7, <2>4, NumberFromIsNat
    <3>2. m \in 0 .. U64Max
      BY <1>4, <2>2, <3>1
    <3>3. number = Parsed(m)
      BY <1>8, <2>4, <3>2
    <3>4. number.ok /\ number.value = m
      BY <1>5, <3>3
    <3>5. ~(m > limit)
      BY <1>4, <2>2
    <3>6. outcome = value
      BY <1>4, <2>1, <3>4
    <3>. QED
      BY <1>6, <3>4, <3>5, <3>6
  <2>. QED
    BY <2>1, <2>3, <2>4
<1>10. ASSUME NEW value \in I32s
       PROVE  s <= l /\ NumberFrom(data, t, IF negative THEN 0 - value ELSE value) <=>
                s <= l /\ SignedNumberFrom(data, s, value)
  <2>1. ASSUME s <= l, data[s] \in {"-", "+"}, NEW m
        PROVE  ~NumberFrom(data, s, m)
    BY <1>1, <1>2, <1>3, <2>1, NumberBegins, DigitIsNoSpace
  <2>2. CASE s <= l /\ data[s] = "-"
    BY <2>1, <2>2, SignIsNoSpace DEF SignedNumberFrom
  <2>3. CASE s <= l /\ data[s] = "+"
    BY <2>1, <2>3, SignIsNoSpace DEF SignedNumberFrom
  <2>4. CASE ~signed
    BY <2>4 DEF SignedNumberFrom
  <2>. QED
    BY <2>2, <2>3, <2>4
<1>11. ASSUME NEW value \in I32s
       PROVE  s <= l /\ SignedNumberFrom(data, s, value) <=>
                \E i \in 1 .. l : SpacesBefore(data, i) /\ SignedNumberFrom(data, i, value)
  <2>1. ASSUME NEW i \in 1 .. l, SpacesBefore(data, i), SignedNumberFrom(data, i, value)
        PROVE  s = i
    <3>1. i \in 1 .. Len(data) + 1
      BY <1>1, <1>2
    <3>2. ~ascii_is_space(data[i])
      <4>1. CASE NumberFrom(data, i, value)
        BY <1>2, <3>1, <4>1, NumberBegins, DigitIsNoSpace
      <4>2. CASE data[i] \in {"-", "+"}
        BY <4>2, SignIsNoSpace
      <4>. QED
        BY <2>1, <4>1, <4>2 DEF SignedNumberFrom
    <3>. QED
      BY <1>3, <2>1, <3>2
  <2>2. s <= l => s \in 1 .. l
    BY <1>2, <1>3
  <2>3. \A i \in 1 .. l : i <= l
    BY <1>2
  <2>. QED
    BY <1>3, <2>1, <2>2, <2>3, Zenon
<1>12. parse_i32(data) # Failed => \E value \in I32s : parse_i32(data) = Parsed(value)
  <2>. SUFFICES ASSUME parse_i32(data) # Failed
                PROVE  \E value \in I32s : parse_i32(data) = Parsed(value)
    OBVIOUS
  <2>1. number.ok /\ ~(number.value > limit) /\ parse_i32(data) = Parsed(outcome)
    BY <1>6
  <2>2. PICK m \in 0 .. U64Max : number = Parsed(m)
    BY <1>5, <1>8, <2>1
  <2>3. number.value = m
    BY <1>5, <2>2
  <2>4. outcome \in -h .. h - 1
    BY <1>4, <2>1, <2>3
  <2>. QED
    BY <1>4, <2>1, <2>4
<1>. HIDE DEF signed, negative, t, number, limit, outcome
<1>. QED
  BY <1>1, <1>9, <1>10, <1>11, <1>12

-----------------------------------------------------------------------------
(* What is printed is read back.                                           *)

\* What is printed in decimal is a numeral of the value.
LEMMA DecimalNumeral ==
  ASSUME NEW value \in 0 .. U64Max
  PROVE  IsNumeral(print_u64_decimal(value), value, 10, LowerDigits)
<1>1. LowerDigits \in Alphabets /\ 10 \in 2 .. 16
  BY DEF Alphabets
<1>. QED
  BY <1>1, PrintsNumerals, Zenon DEF print_u64_decimal

\* A uint64_t printed in decimal is read back as the number it was
\* (nex_runtime_print_u64, nex_runtime_parse_u64).
THEOREM U64IsReadBack ==
  \A value \in 0 .. U64Max : parse_u64(print_u64_decimal(value)) = Parsed(value)
<1>. SUFFICES ASSUME NEW value \in 0 .. U64Max
              PROVE  parse_u64(print_u64_decimal(value)) = Parsed(value)
  OBVIOUS
<1>1. PICK text : text = print_u64_decimal(value)
  OBVIOUS
<1>2. IsNumeral(text, value, 10, LowerDigits)
  BY <1>1, DecimalNumeral
<1>3. PICK S : text \in Seq(S)
  BY <1>2 DEF IsNumeral
<1>4. PICK n \in Nat : n = Len(text) /\ n >= 1 /\ Denotes(text, 1, n, 10, LowerDigits, value)
  BY <1>2, <1>3 DEF IsNumeral
<1>5. NumberFrom(text, 1, value)
  <2>1. n \in 1 .. Len(text) + 1 - 1 /\ \A k \in 1 + n .. Len(text) : FALSE
    BY <1>4
  <2>. QED
    BY <1>4, <2>1, Zenon DEF NumberFrom
<1>6. 1 \in 1 .. Len(text) /\ SpacesBefore(text, 1)
  BY <1>4 DEF SpacesBefore
<1>. QED
  BY <1>1, <1>3, <1>5, <1>6, ParseU64IsExact

\* An int32_t is printed as an int64_t, which is read back as the number it was
\* (nex_runtime_print_i64, nex_runtime_parse_i32): the least number too, although its
\* magnitude is not an int32_t.
THEOREM I32IsReadBack ==
  \A value \in I32s : parse_i32(print_i64(U64(value))) = Parsed(value)
<1>. SUFFICES ASSUME NEW value \in I32s
              PROVE  parse_i32(print_i64(U64(value))) = Parsed(value)
  OBVIOUS
<1>1. PICK h, q : h = TwoTo[IntBits - 1] /\ q = TwoTo[Bits - 1]
  OBVIOUS
<1>2. /\ h \in 1 .. q /\ q \in Nat /\ Modulus = 2 * q /\ U64Max = 2 * q - 1
      /\ value \in -h .. h - 1
  <2>1. Modulus \in Nat /\ TwoTo[Bits - 1] \in Nat
    BY WidthAssumption, Wrapping, Powers DEF Positive
  <2>. QED
    BY <1>1, <2>1, I32sAreSmall DEF I32s, U64Max
<1>3. \A n \in 0 .. U64Max : U64(n) = n
  BY Wrapping
<1>4. CASE value >= 0
  <2>1. value \in 0 .. U64Max /\ value < q
    BY <1>2, <1>4
  <2>2. PICK text : text = print_i64(U64(value))
    OBVIOUS
  <2>3. text = print_u64_decimal(value)
    BY <1>1, <1>3, <2>1, <2>2 DEF print_i64
  <2>4. IsNumeral(text, value, 10, LowerDigits)
    BY <2>1, <2>3, DecimalNumeral
  <2>5. PICK S : text \in Seq(S)
    BY <2>4 DEF IsNumeral
  <2>6. PICK n \in Nat : n = Len(text) /\ n >= 1 /\ Denotes(text, 1, n, 10, LowerDigits, value)
    BY <2>4, <2>5 DEF IsNumeral
  <2>7. NumberFrom(text, 1, value)
    <3>1. n \in 1 .. Len(text) + 1 - 1 /\ \A k \in 1 + n .. Len(text) : FALSE
      BY <2>6
    <3>. QED
      BY <2>6, <3>1, Zenon DEF NumberFrom
  <2>8. 1 \in 1 .. Len(text) /\ SpacesBefore(text, 1) /\ SignedNumberFrom(text, 1, value)
    BY <2>6, <2>7 DEF SpacesBefore, SignedNumberFrom
  <2>. QED
    BY <2>2, <2>5, <2>8, ParseI32IsExact
<1>5. CASE value < 0
  <2>1. PICK m : m = 0 - value
    OBVIOUS
  <2>2. m \in 1 .. U64Max /\ m \in 0 .. U64Max
    BY <1>2, <1>5, <2>1
  <2>3. U64(value) = 2 * q + value
    <3>1. \A b \in Nat \ {0} : \A a \in -b .. -1 : a % b = b + a
      OBVIOUS
    <3>2. Modulus \in Nat \ {0} /\ value \in -Modulus .. -1
      BY <1>2, <1>5
    <3>. QED
      BY <1>2, <3>1, <3>2 DEF U64
  <2>4. PICK text, number : text = print_i64(U64(value)) /\ number = print_u64_decimal(m)
    OBVIOUS
  <2>5. text = <<"-">> \o number
    <3>1. ~(U64(value) < q) /\ (U64Max - U64(value)) + 1 = m
      BY <1>2, <2>1, <2>3
    <3>2. U64((U64Max - U64(value)) + 1) = m
      BY <1>3, <2>2, <3>1
    <3>. QED
      BY <1>1, <2>4, <3>1, <3>2 DEF print_i64
  <2>6. IsNumeral(number, m, 10, LowerDigits)
    BY <2>2, <2>4, DecimalNumeral
  <2>7. PICK S : number \in Seq(S) /\ "-" \in S
    <3>1. PICK T : number \in Seq(T)
      BY <2>6 DEF IsNumeral
    <3>2. number \in Seq(T \cup {"-"})
      BY <3>1, SeqMonotonic
    <3>. QED
      BY <3>2
  <2>8. PICK n \in Nat : n = Len(number) /\ n >= 1 /\ Denotes(number, 1, n, 10, LowerDigits, m)
    BY <2>6, <2>7 DEF IsNumeral
  <2>9. /\ text \in Seq(S) /\ Len(text) = n + 1 /\ text[1] = "-"
        /\ \A k \in 1 .. n : text[k + 1] = number[k]
    BY <2>5, <2>7, <2>8
  <2>10. Denotes(text, 2, n, 10, LowerDigits, m)
    <3>1. PICK v : ReadsAs(v, number, 1, n, 10, LowerDigits) /\ v[n] = m
      BY <2>8 DEF Denotes
    <3>2. \A k \in 1 .. n : text[2 + k - 1] = number[1 + k - 1]
      <4>1. \A k \in 1 .. n : 2 + k - 1 = k + 1 /\ 1 + k - 1 = k
        BY <2>8
      <4>. QED
        BY <2>9, <4>1
    <3>3. ReadsAs(v, text, 2, n, 10, LowerDigits)
      BY <3>1, <3>2, Zenon DEF ReadsAs
    <3>. QED
      BY <3>1, <3>3, Zenon DEF Denotes
  <2>11. NumberFrom(text, 2, m)
    <3>1. n \in 1 .. Len(text) + 1 - 2 /\ \A k \in 2 + n .. Len(text) : FALSE
      BY <2>8, <2>9
    <3>. QED
      BY <2>10, <3>1, Zenon DEF NumberFrom
  <2>12. 1 \in 1 .. Len(text) /\ SpacesBefore(text, 1) /\ SignedNumberFrom(text, 1, value)
    <3>1. 1 + 1 = 2
      OBVIOUS
    <3>2. SignedNumberFrom(text, 1, value)
      BY <2>1, <2>9, <2>11, <3>1 DEF SignedNumberFrom
    <3>. QED
      BY <2>8, <2>9, <3>2 DEF SpacesBefore
  <2>. QED
    BY <2>4, <2>9, <2>12, ParseI32IsExact
<1>. QED
  BY <1>2, <1>4, <1>5

-----------------------------------------------------------------------------
(* Texts.                                                                  *)

\* The characters.  All of them are strings, but the provers do not know that of those
\* that the definitions write.
Chars ==
  STRING \cup {"\n", "\t", "\r", "-", "."}
    \cup {LowerDigits[d] : d \in 1 .. 16} \cup {UpperDigits[d] : d \in 1 .. 16}
    \cup {"t", "r", "u", "e", "f", "a", "l", "s"}

Text == Seq(Chars)

-----------------------------------------------------------------------------
(* Decoding.                                                               *)

Decoding == [decoded : Text, escape : BOOLEAN]

\* One turn of the loop on a character.
Decoded(state, c) ==
  IF state.escape THEN [decoded |-> Append(state.decoded, Escaped(c)), escape |-> FALSE]
  ELSE IF c = "\\" THEN [decoded |-> state.decoded, escape |-> TRUE]
  ELSE [decoded |-> Append(state.decoded, c), escape |-> FALSE]

\* A turn leaves the text one.
LEMMA TurnsDecode ==
  ASSUME NEW state \in Decoding, NEW c \in Chars
  PROVE  Decoded(state, c) \in Decoding
<1>1. Escaped(c) \in Chars
  BY DEF Escaped, Chars
<1>2. \A x \in Chars : Append(state.decoded, x) \in Text
  BY DEF Decoding, Text
<1>3. state.decoded \in Text
  BY DEF Decoding
<1>4. \A t \in Text : /\ [decoded |-> t, escape |-> TRUE] \in Decoding
                    /\ [decoded |-> t, escape |-> FALSE] \in Decoding
  BY DEF Decoding
<1>5. CASE state.escape
  BY <1>1, <1>2, <1>4, <1>5, Zenon DEF Decoded
<1>6. CASE ~state.escape /\ c = "\\"
  BY <1>3, <1>4, <1>6, Zenon DEF Decoded
<1>7. CASE ~state.escape /\ c # "\\"
  BY <1>2, <1>4, <1>7, Zenon DEF Decoded
<1>. QED
  BY <1>5, <1>6, <1>7, Zenon

\* The loop of the decoder.
NothingDecoded == [decoded |-> <<>>, escape |-> FALSE]

\* Its state before the first byte, and from each byte to the next.
LEMMA DecodeLoop ==
  ASSUME NEW raw \in Text
  PROVE  /\ decodeLoop(raw)[0] = NothingDecoded /\ NothingDecoded \in Decoding
         /\ \A i \in 1 .. Len(raw) : decodeLoop(raw)[i] = Decoded(decodeLoop(raw)[i - 1], raw[i])
<1>1. PICK n \in Nat : n = Len(raw)
  BY DEF Text
<1>2. \A i \in 1 .. n : raw[i] \in Chars
  BY <1>1 DEF Text
<1>. DEFINE base == [decoded |-> <<>>, escape |-> FALSE]
            step == [x \in (1 .. n) \X Decoding |-> Decoded(x[2], raw[x[1]])]
            Turns(g) == g = [i \in 0 .. n |-> IF i = 0 THEN base ELSE Decoded(g[i - 1], raw[i])]
<1>3. base \in Decoding
  BY DEF Decoding, Text
<1>4. step \in [(1 .. n) \X Decoding -> Decoding]
  BY <1>2, TurnsDecode
<1>5. PICK f : IsRecursive(f, n, Decoding, base, step)
  <2>. HIDE DEF step, base
  <2>. QED
    BY <1>3, <1>4, RecursionExists
<1>6. f \in [0 .. n -> Decoding] /\ f[0] = base
  <2>. HIDE DEF step, base
  <2>. QED
    BY <1>5 DEF IsRecursive
<1>7. \A i \in 1 .. n : f[i] = Decoded(f[i - 1], raw[i])
  <2>1. \A i \in 1 .. n : f[i - 1] \in Decoding
    BY <1>6
  <2>2. \A i \in 1 .. n : f[i] = step[<<i, f[i - 1]>>]
    <3>. HIDE DEF step, base
    <3>. QED
      BY <1>5, Zenon DEF IsRecursive
  <2>. QED
    BY <2>1, <2>2
<1>8. Turns(f)
  <2>. HIDE DEF base
  <2>. QED
    BY <1>6, <1>7
<1>9. decodeLoop(raw) = CHOOSE h : Turns(h)
  BY <1>1, Zenon DEF decodeLoop, Decoded
<1>10. PICK g : g = decodeLoop(raw)
  OBVIOUS
<1>11. Turns(g)
  <2>. HIDE DEF Turns
  <2>. QED
    BY <1>8, <1>9, <1>10
<1>. HIDE DEF base
<1>12. g[0] = base /\ \A i \in 1 .. n : g[i] = Decoded(g[i - 1], raw[i])
  BY <1>11
<1>13. base = NothingDecoded
  BY DEF base, NothingDecoded
<1>. QED
  BY <1>1, <1>3, <1>10, <1>12, <1>13, Zenon

\* What a literal decodes to is a text.
LEMMA DecodedIsText ==
  ASSUME NEW raw \in Text
  PROVE  decodeStringLiteralContent(raw) \in Text
<1>1. PICK n \in Nat : n = Len(raw)
  BY DEF Text
<1>2. \A i \in 1 .. n : raw[i] \in Chars
  BY <1>1 DEF Text
<1>3. PICK g : g = decodeLoop(raw)
  OBVIOUS
<1>4. /\ g[0] = NothingDecoded /\ NothingDecoded \in Decoding
      /\ \A i \in 1 .. n : g[i] = Decoded(g[i - 1], raw[i])
  BY <1>1, <1>3, DecodeLoop
<1>. DEFINE S == {i \in Nat : g[i] \in Decoding}
<1>5. 0 \in S
  BY <1>4
<1>6. ASSUME NEW i \in 0 .. n - 1, i \in S
      PROVE  i + 1 \in S
  <2>1. i + 1 \in 1 .. n /\ (i + 1) - 1 = i /\ i + 1 \in Nat
    OBVIOUS
  <2>2. g[i + 1] = Decoded(g[i], raw[i + 1]) /\ raw[i + 1] \in Chars
    BY <1>2, <1>4, <2>1
  <2>3. g[i + 1] \in Decoding
    BY <1>6, <2>2, TurnsDecode
  <2>. QED
    BY <2>1, <2>3
<1>7. 0 .. n \subseteq S
  <2>. HIDE DEF S
  <2>. QED
    BY <1>5, <1>6, UpToInduction
<1>8. g[n] \in Decoding
  BY <1>7
<1>. QED
  BY <1>1, <1>3, <1>8 DEF decodeStringLiteralContent, Decoding

-----------------------------------------------------------------------------
(* The number that digits denote.                                          *)

\* The digits of a text have values.
LEMMA DigitsHaveValues ==
  ASSUME NEW S, NEW text \in Seq(S), AllDigits(text)
  PROVE  \A k \in 1 .. Len(text) : /\ IsDigit(text[k])
                                   /\ DigitValue(text[k]) \in 0 .. 9
                                   /\ text[k] = LowerDigits[DigitValue(text[k]) + 1]
<1>1. \A k \in 1 .. Len(text) : IsDigit(text[k])
  BY DEF AllDigits
<1>. QED
  BY <1>1, DecimalDigits, ZenonT(60)

\* value has the values of the first characters of a text.
IsDenoting(value, text, n) ==
  value[0] = 0 /\ \A k \in 1 .. n : value[k] = 10 * value[k - 1] + DigitValue(text[k])

\* The recursion of Denoted is defined.
LEMMA DenotedUnfolded ==
  ASSUME NEW S, NEW text \in Seq(S), AllDigits(text)
  PROVE  \E value : IsDenoting(value, text, Len(text)) /\ Denoted(text) = value[Len(text)]
<1>1. PICK n \in Nat : n = Len(text)
  OBVIOUS
<1>2. \A k \in 1 .. n : DigitValue(text[k]) \in 0 .. 9
  BY <1>1, DigitsHaveValues
<1>. DEFINE step == [x \in (1 .. n) \X Nat |-> 10 * x[2] + DigitValue(text[x[1]])]
            Turns(g) == g = [k \in 0 .. n |-> IF k = 0 THEN 0 ELSE 10 * g[k - 1] + DigitValue(text[k])]
<1>3. step \in [(1 .. n) \X Nat -> Nat]
  <2>1. ASSUME NEW k \in 1 .. n, NEW m \in Nat
        PROVE  10 * m + DigitValue(text[k]) \in Nat
    <3>1. PICK d \in 0 .. 9 : d = DigitValue(text[k])
      BY <1>2
    <3>2. 10 * m + d \in Nat
      OBVIOUS
    <3>. QED
      BY <3>1, <3>2
  <2>. QED
    BY <2>1
<1>4. PICK f : IsRecursive(f, n, Nat, 0, step)
  <2>. HIDE DEF step
  <2>. QED
    BY <1>3, RecursionExists
<1>5. f \in [0 .. n -> Nat] /\ f[0] = 0
  BY <1>4 DEF IsRecursive
<1>6. \A k \in 1 .. n : f[k] = 10 * f[k - 1] + DigitValue(text[k])
  <2>1. \A k \in 1 .. n : f[k - 1] \in Nat
    BY <1>5
  <2>2. \A k \in 1 .. n : f[k] = step[<<k, f[k - 1]>>]
    BY <1>4, Zenon DEF IsRecursive
  <2>. QED
    BY <2>1, <2>2
<1>7. Turns(f)
  BY <1>5, <1>6
<1>8. PICK g : g = CHOOSE h : Turns(h)
  OBVIOUS
<1>9. Turns(g)
  <2>. HIDE DEF Turns
  <2>. QED
    BY <1>7, <1>8
<1>10. Denoted(text) = g[n]
  <2>1. (CHOOSE h : h = [k \in 0 .. Len(text) |->
                            IF k = 0 THEN 0 ELSE 10 * h[k - 1] + DigitValue(text[k])])[Len(text)] = g[n]
    BY <1>1, <1>8, Zenon
  <2>. QED
    BY <2>1 DEF Denoted
<1>11. IsDenoting(g, text, n)
  <2>1. g[0] = 0
    BY <1>9
  <2>2. \A k \in 1 .. n : g[k] = 10 * g[k - 1] + DigitValue(text[k])
    BY <1>9
  <2>. QED
    BY <2>1, <2>2 DEF IsDenoting
<1>. QED
  BY <1>1, <1>10, <1>11

\* Denoted is the number that digits denote, and the only one.
LEMMA DenotedIsDenoted ==
  ASSUME NEW S, NEW text \in Seq(S), AllDigits(text)
  PROVE  /\ Denoted(text) \in Nat
         /\ Denotes(text, 1, Len(text), 10, LowerDigits, Denoted(text))
<1>1. PICK n \in Nat : n = Len(text)
  OBVIOUS
<1>2. PICK value : IsDenoting(value, text, n) /\ Denoted(text) = value[n]
  BY <1>1, DenotedUnfolded
<1>3. \A k \in 1 .. n : /\ DigitValue(text[k]) \in 0 .. 9
                        /\ text[k] = LowerDigits[DigitValue(text[k]) + 1]
  BY <1>1, DigitsHaveValues
<1>. DEFINE A == {k \in Nat : value[k] \in Nat}
<1>4. 0 .. n \subseteq A
  <2>1. 0 \in A
    BY <1>2 DEF IsDenoting
  <2>2. ASSUME NEW k \in 0 .. n - 1, k \in A
        PROVE  k + 1 \in A
    <3>1. k + 1 \in 1 .. n /\ (k + 1) - 1 = k
      OBVIOUS
    <3>2. value[k + 1] = 10 * value[k] + DigitValue(text[k + 1])
      BY <1>2, <3>1 DEF IsDenoting
    <3>3. PICK d \in 0 .. 9 : d = DigitValue(text[k + 1])
      BY <1>3, <3>1
    <3>4. PICK a \in Nat : a = value[k]
      BY <2>2
    <3>5. value[k + 1] = 10 * a + d
      BY <3>2, <3>3, <3>4
    <3>. QED
      BY <3>1, <3>5
  <2>. HIDE DEF A
  <2>. QED
    BY <2>1, <2>2, UpToInduction
<1>5. \A k \in 0 .. n : value[k] \in Nat
  BY <1>4
<1>6. PICK v : v = [k \in 0 .. n |-> value[k]]
  OBVIOUS
<1>7. v \in [0 .. n -> Nat] /\ v[0] = 0 /\ v[n] = value[n]
  BY <1>2, <1>5, <1>6 DEF IsDenoting
<1>8. ASSUME NEW k \in 1 .. n
      PROVE  \E d \in 0 .. 10 - 1 : text[1 + k - 1] = LowerDigits[d + 1] /\ v[k] = v[k - 1] * 10 + d
  <2>1. k \in 0 .. n /\ k - 1 \in 0 .. n /\ 1 + k - 1 = k /\ 10 - 1 = 9
    OBVIOUS
  <2>2. v[k] = value[k] /\ v[k - 1] = value[k - 1] /\ value[k - 1] \in Nat
    BY <1>5, <1>6, <2>1
  <2>3. PICK d \in 0 .. 9 : d = DigitValue(text[k])
    BY <1>3
  <2>4. value[k] = value[k - 1] * 10 + d
    BY <1>2, <2>2, <2>3 DEF IsDenoting
  <2>. QED
    BY <1>3, <2>1, <2>2, <2>3, <2>4
<1>9. ReadsAs(v, text, 1, n, 10, LowerDigits)
  BY <1>7, <1>8, Zenon DEF ReadsAs
<1>10. Denotes(text, 1, n, 10, LowerDigits, value[n])
  BY <1>7, <1>9, Zenon DEF Denotes
<1>11. value[n] \in Nat
  BY <1>5
<1>. QED
  BY <1>1, <1>2, <1>10, <1>11

\* A text that denotes a number in decimal is digits, and denotes no other.
LEMMA DenotedIsUnique ==
  ASSUME NEW S, NEW text \in Seq(S), NEW value,
         Denotes(text, 1, Len(text), 10, LowerDigits, value)
  PROVE  AllDigits(text) /\ Denoted(text) = value
<1>1. PICK n \in Nat : n = Len(text) /\ DOMAIN text = 1 .. n
  OBVIOUS
<1>2. AllDigits(text)
  <2>1. \A k \in 1 .. n : IsDigit(text[1 + k - 1])
    BY <1>1, DenotedAreDigits
  <2>2. \A k \in 1 .. n : 1 + k - 1 = k
    OBVIOUS
  <2>. QED
    BY <1>1, <2>1, <2>2 DEF AllDigits
<1>3. PICK f : IsDenoting(f, text, n) /\ Denoted(text) = f[n]
  BY <1>1, <1>2, DenotedUnfolded
<1>4. PICK v : ReadsAs(v, text, 1, n, 10, LowerDigits) /\ v[n] = value
  BY <1>1 DEF Denotes
<1>5. ASSUME NEW k \in 1 .. n, f[k - 1] = v[k - 1]
      PROVE  f[k] = v[k]
  <2>1. PICK d \in 0 .. 10 - 1 : text[1 + k - 1] = LowerDigits[d + 1] /\ v[k] = v[k - 1] * 10 + d
    BY <1>4, Zenon DEF ReadsAs
  <2>2. d \in 0 .. 9 /\ 1 + k - 1 = k /\ k - 1 \in 0 .. n
    OBVIOUS
  <2>3. DigitValue(text[k]) = d
    BY <2>1, <2>2, DecimalDigits
  <2>4. v[k - 1] \in Nat
    BY <1>4, <2>2, Zenon DEF ReadsAs
  <2>5. f[k] = 10 * f[k - 1] + d
    BY <1>3, <2>3 DEF IsDenoting
  <2>. QED
    BY <1>5, <2>1, <2>2, <2>4, <2>5
<1>6. GoAlike(f, v, n)
  BY <1>3, <1>4, <1>5, Zenon DEF GoAlike, IsDenoting, ReadsAs
<1>7. n \in 0 .. n
  OBVIOUS
<1>8. f[n] = v[n]
  BY <1>6, <1>7, RecursionUnique, Zenon
<1>. QED
  BY <1>2, <1>3, <1>4, <1>8

\* Digits denote the same in a text and by themselves.
LEMMA DenotesInside ==
  ASSUME NEW S, NEW text \in Seq(S), NEW i \in 1 .. Len(text) + 1, NEW n \in 0 .. Len(text) + 1 - i
  PROVE  /\ SubSeq(text, i, i + n - 1) \in Seq(S) /\ Len(SubSeq(text, i, i + n - 1)) = n
         /\ \A k \in 1 .. n : SubSeq(text, i, i + n - 1)[k] = text[i + k - 1]
         /\ \A value : Denotes(text, i, n, 10, LowerDigits, value) <=>
                         Denotes(SubSeq(text, i, i + n - 1), 1, n, 10, LowerDigits, value)
<1>1. PICK sub : sub = SubSeq(text, i, i + n - 1)
  OBVIOUS
<1>2. sub \in Seq(S) /\ Len(sub) = n /\ \A k \in 1 .. n : sub[k] = text[i + k - 1]
  <2>1. PICK j \in Int : j = i + n - 1
    OBVIOUS
  <2>2. j <= Len(text) /\ i >= 1
    BY <2>1
  <2>3. \A k \in i .. j : text[k] \in S
    BY <2>2
  <2>4. i \in Int
    OBVIOUS
  <2>5. /\ SubSeq(text, i, j) \in Seq(S)
        /\ Len(SubSeq(text, i, j)) = IF i <= j THEN j - i + 1 ELSE 0
        /\ \A k \in 1 .. j - i + 1 : SubSeq(text, i, j)[k] = text[i + k - 1]
    BY <2>3, <2>4, SubSeqProperties
  <2>6. j - i + 1 = n /\ (IF i <= j THEN j - i + 1 ELSE 0) = n
    BY <2>1
  <2>. QED
    BY <1>1, <2>1, <2>5, <2>6, Zenon
<1>3. \A k \in 1 .. n : sub[1 + k - 1] = text[i + k - 1]
  <2>1. \A k \in 1 .. n : 1 + k - 1 = k
    OBVIOUS
  <2>. QED
    BY <1>2, <2>1
<1>4. \A v : ReadsAs(v, text, i, n, 10, LowerDigits) <=> ReadsAs(v, sub, 1, n, 10, LowerDigits)
  BY <1>3, Zenon DEF ReadsAs
<1>5. \A value : Denotes(text, i, n, 10, LowerDigits, value) <=> Denotes(sub, 1, n, 10, LowerDigits, value)
  BY <1>4, Zenon DEF Denotes
<1>. QED
  BY <1>1, <1>2, <1>5, Zenon

\* A part of a text.
LEMMA Parts ==
  ASSUME NEW S, NEW text \in Seq(S), NEW i \in 1 .. Len(text) + 1, NEW j \in i - 1 .. Len(text)
  PROVE  /\ SubSeq(text, i, j) \in Seq(S) /\ Len(SubSeq(text, i, j)) = j + 1 - i
         /\ \A k \in 1 .. j + 1 - i : SubSeq(text, i, j)[k] = text[i + k - 1]
         /\ \A P : (\A k \in 1 .. j + 1 - i : SubSeq(text, i, j)[k] \in P) <=> \A k \in i .. j : text[k] \in P
<1>1. PICK n \in 0 .. Len(text) + 1 - i : n = j + 1 - i /\ i + n - 1 = j
  OBVIOUS
<1>2. /\ SubSeq(text, i, j) \in Seq(S) /\ Len(SubSeq(text, i, j)) = n
      /\ \A k \in 1 .. n : SubSeq(text, i, j)[k] = text[i + k - 1]
  BY <1>1, DenotesInside
<1>3. ASSUME NEW P
      PROVE  (\A k \in 1 .. n : text[i + k - 1] \in P) <=> \A k \in i .. j : text[k] \in P
  <2>1. ASSUME \A k \in 1 .. n : text[i + k - 1] \in P, NEW k \in i .. j
        PROVE  text[k] \in P
    <3>1. k + 1 - i \in 1 .. n /\ i + (k + 1 - i) - 1 = k
      BY <1>1
    <3>2. text[i + (k + 1 - i) - 1] \in P
      BY <2>1, <3>1, Zenon
    <3>. QED
      BY <3>1, <3>2
  <2>2. \A k \in 1 .. n : i + k - 1 \in i .. j
    BY <1>1
  <2>. QED
    BY <2>1, <2>2, Zenon
<1>. QED
  BY <1>1, <1>2, <1>3, Zenon

\* A part of a text is digits when the bytes of the part are.
LEMMA PartsOfDigits ==
  ASSUME NEW S, NEW text \in Seq(S), NEW i \in 1 .. Len(text) + 1, NEW j \in i - 1 .. Len(text)
  PROVE  AllDigits(SubSeq(text, i, j)) <=> \A k \in i .. j : IsDigit(text[k])
<1>. DEFINE D == {LowerDigits[d] : d \in 1 .. 10}
<1>1. PICK sub : sub = SubSeq(text, i, j)
  OBVIOUS
<1>2. sub \in Seq(S) /\ Len(sub) = j + 1 - i
  BY <1>1, Parts
<1>3. DOMAIN sub = 1 .. j + 1 - i
  BY <1>2
<1>4. (\A k \in 1 .. j + 1 - i : sub[k] \in D) <=> \A k \in i .. j : text[k] \in D
  <2>. HIDE DEF D
  <2>. QED
    BY <1>1, Parts
<1>. QED
  BY <1>1, <1>3, <1>4, Zenon DEF AllDigits, IsDigit

-----------------------------------------------------------------------------
(* Format strings.                                                         *)

\* A brace is no digit, and neither is what ends a placeholder.
LEMMA BracesAreNoDigits == ~IsDigit("{") /\ ~IsDigit("}") /\ ~IsDigit("f")
<1>. DEFINE Decimal == {"0", "1", "2", "3", "4", "5", "6", "7", "8", "9"}
<1>1. \A e \in 1 .. 10 : LowerDigits[e] \in Decimal
  BY DEF LowerDigits
<1>2. "{" \notin Decimal
  BY Zenon
<1>3. "}" \notin Decimal
  BY Zenon
<1>4. "f" \notin Decimal
  BY Zenon
<1>. QED
  BY <1>1, <1>2, <1>3, <1>4, Zenon DEF IsDigit

\* The fixed float at position i, its digits up to cursor and its brace at close.
FixedAt(s, i, cursor, close) ==
  IF /\ cursor > i + 3 /\ At(s, close, "}")
     /\ Denoted(SubSeq(s, i + 3, cursor - 1)) <= MaxPrecision
  THEN Hole("fixed", Denoted(SubSeq(s, i + 3, cursor - 1)), close) ELSE NoHole

FixedEnd(s, i, cursor, close) ==
  /\ cursor \in i + 3 .. Len(s) + 1 /\ DigitsEnd(s, i + 3, cursor)
  /\ cursor = skipDigits(s, i + 3)
  /\ close = IF At(s, cursor, "f") THEN cursor + 1 ELSE cursor

\* What fixedHole answers: a placeholder that ends at close, or none.
LEMMA FixedHoles ==
  ASSUME NEW s \in Text, NEW i \in 1 .. Len(s), i + 2 <= Len(s)
  PROVE  \E cursor, close :
           FixedEnd(s, i, cursor, close) /\ fixedHole(s, i) = FixedAt(s, i, cursor, close)
<1>1. PICK cursor : cursor = skipDigits(s, i + 3)
  OBVIOUS
<1>2. PICK close : close = IF At(s, cursor, "f") THEN cursor + 1 ELSE cursor
  OBVIOUS
<1>3. Len(s) \in Nat /\ i + 3 \in 1 .. Len(s) + 1
  BY DEF Text
<1>4. DigitsEnd(s, i + 3, cursor)
  BY <1>1, <1>3, DigitsAreSkipped
<1>5. FixedEnd(s, i, cursor, close)
  BY <1>1, <1>2, <1>4 DEF FixedEnd, DigitsEnd
<1>6. fixedHole(s, i) = FixedAt(s, i, cursor, close)
  <2>. DEFINE c == skipDigits(s, i + 3)
              e == IF At(s, c, "f") THEN c + 1 ELSE c
  <2>1. fixedHole(s, i) = FixedAt(s, i, c, e)
    BY DEF fixedHole, FixedAt
  <2>2. c = cursor /\ e = close
    BY <1>1, <1>2, Zenon
  <2>. QED
    BY <2>1, <2>2, Zenon
<1>. QED
  BY <1>5, <1>6, Zenon

\* The digits of a precision.
LEMMA PrecisionDigits ==
  ASSUME NEW s \in Text, NEW i \in 1 .. Len(s), NEW cursor, NEW close,
         FixedEnd(s, i, cursor, close), cursor > i + 3
  PROVE  /\ AllDigits(SubSeq(s, i + 3, cursor - 1))
         /\ Denoted(SubSeq(s, i + 3, cursor - 1)) \in Nat
<1>1. Len(s) \in Nat
  BY DEF Text
<1>2. i + 3 \in 1 .. Len(s) + 1 /\ cursor - 1 \in (i + 3) - 1 .. Len(s)
  BY <1>1 DEF FixedEnd
<1>3. PICK sub : sub = SubSeq(s, i + 3, cursor - 1)
  OBVIOUS
<1>4. sub \in Text
  BY <1>2, <1>3, Parts DEF Text
<1>5. AllDigits(sub)
  BY <1>2, <1>3, PartsOfDigits DEF FixedEnd, DigitsEnd, Text
<1>. QED
  BY <1>3, <1>4, <1>5, DenotedIsDenoted DEF Text

\* Which of the placeholders may begin at position i.
DefaultAt(s, i) == i + 1 <= Len(s) /\ s[i + 1] = "}"
BaseAt(s, i) ==
  i + 3 <= Len(s) /\ s[i + 1] = ":" /\ s[i + 2] \in {"x", "X", "b"} /\ s[i + 3] = "}"
PointAt(s, i) == i + 2 <= Len(s) /\ s[i + 1] = ":" /\ s[i + 2] = "."

\* The one that parseFormatString finds.
LEMMA HoleFound ==
  ASSUME NEW s \in Text, NEW i \in 1 .. Len(s)
  PROVE  /\ DefaultAt(s, i) => holeAt(s, i) = Hole("default", 0, i + 1)
         /\ BaseAt(s, i) => holeAt(s, i) = Hole(s[i + 2], 0, i + 3)
         /\ PointAt(s, i) => holeAt(s, i) = fixedHole(s, i)
         /\ ~DefaultAt(s, i) /\ ~BaseAt(s, i) /\ ~PointAt(s, i) => holeAt(s, i) = NoHole
<1>1. PICK n \in Nat : n = Len(s)
  BY DEF Text
<1>2. /\ i + 3 <= n => i + 1 <= n /\ i + 2 <= n
      /\ i + 2 <= n => i + 1 <= n
  BY <1>1
<1>3. "}" # ":" /\ "." # "x" /\ "." # "X" /\ "." # "b"
  OBVIOUS
<1>. USE DEF DefaultAt, BaseAt, PointAt, holeAt, baseHole, At
<1>4. DefaultAt(s, i) => holeAt(s, i) = Hole("default", 0, i + 1)
  BY Zenon
<1>5. BaseAt(s, i) => holeAt(s, i) = Hole(s[i + 2], 0, i + 3)
  BY <1>1, <1>2, <1>3
<1>6. PointAt(s, i) => holeAt(s, i) = fixedHole(s, i)
  BY <1>1, <1>2, <1>3, Zenon
<1>7. ~DefaultAt(s, i) /\ ~BaseAt(s, i) /\ ~PointAt(s, i) => holeAt(s, i) = NoHole
  BY <1>1, <1>2, Zenon
<1>. QED
  BY <1>4, <1>5, <1>6, <1>7, Zenon

\* A fixed float is a placeholder.
LEMMA FixedIsPlaceholder ==
  ASSUME NEW s \in Text, NEW i \in 1 .. Len(s), PointAt(s, i), fixedHole(s, i) # NoHole
  PROVE  fixedHole(s, i) \in Placeholders(s, i)
<1>1. PICK n \in Nat : n = Len(s) /\ i + 2 <= n
  BY DEF Text, PointAt
<1>2. PICK cursor, close :
        FixedEnd(s, i, cursor, close) /\ fixedHole(s, i) = FixedAt(s, i, cursor, close)
  BY <1>1, FixedHoles
<1>3. PICK p : p = Denoted(SubSeq(s, i + 3, cursor - 1))
  OBVIOUS
<1>4. /\ cursor > i + 3 /\ At(s, close, "}") /\ p <= MaxPrecision
      /\ fixedHole(s, i) = Hole("fixed", p, close)
  BY <1>2, <1>3, Zenon DEF FixedAt
<1>5. AllDigits(SubSeq(s, i + 3, cursor - 1)) /\ p \in 0 .. MaxPrecision
  <2>1. p \in Nat /\ AllDigits(SubSeq(s, i + 3, cursor - 1))
    BY <1>2, <1>3, <1>4, PrecisionDigits
  <2>2. p <= MaxPrecision
    BY <1>4, Zenon
  <2>3. p \in 0 .. MaxPrecision
    BY <2>1, <2>2, WidthAssumption
  <2>. QED
    BY <2>1, <2>3, Zenon
<1>6. /\ close \in i + 1 .. n /\ close >= i + 4 /\ s[close] = "}"
      /\ cursor - 1 \in {close - 2, close - 1} /\ i + 3 <= cursor - 1
      /\ cursor - 1 = close - 2 => s[close - 1] = "f"
  <2>1. cursor \in i + 3 .. n + 1 /\ (close = IF At(s, cursor, "f") THEN cursor + 1 ELSE cursor)
    BY <1>1, <1>2, Zenon DEF FixedEnd
  <2>2. cursor > i + 3 /\ close <= n /\ s[close] = "}"
    BY <1>1, <1>4, Zenon DEF At
  <2>3. CASE At(s, cursor, "f")
    <3>1. close = cursor + 1 /\ s[cursor] = "f"
      BY <2>1, <2>3, Zenon DEF At
    <3>2. i \in Nat /\ i >= 1
      BY <1>1
    <3>3. cursor \in i + 3 .. n + 1 /\ cursor > i + 3 /\ close <= n
      BY <2>1, <2>2, Zenon
    <3>4. /\ close \in i + 1 .. n /\ close >= i + 4
          /\ cursor - 1 = close - 2 /\ i + 3 <= cursor - 1 /\ close - 1 = cursor
      BY <3>1, <3>2, <3>3
    <3>. QED
      BY <2>2, <3>1, <3>4, Zenon
  <2>4. CASE ~At(s, cursor, "f")
    <3>1. close = cursor
      BY <2>1, <2>4, Zenon
    <3>2. i \in Nat /\ i >= 1
      BY <1>1
    <3>3. cursor \in i + 3 .. n + 1 /\ cursor > i + 3 /\ close <= n
      BY <2>1, <2>2, Zenon
    <3>4. /\ close \in i + 1 .. n /\ close >= i + 4
          /\ cursor - 1 = close - 1 /\ i + 3 <= cursor - 1 /\ close - 1 # close - 2
      BY <3>1, <3>2, <3>3
    <3>. QED
      BY <2>2, <3>4, Zenon
  <2>. QED
    BY <2>3, <2>4, Zenon
<1>7. PICK hole : hole = [kind |-> "fixed", precision |-> p, last |-> close]
  OBVIOUS
<1>8. hole \in [kind : Kinds, precision : 0 .. MaxPrecision, last : i + 1 .. Len(s)]
  <2>1. "fixed" \in Kinds
    BY Zenon DEF Kinds
  <2>. QED
    BY <1>1, <1>5, <1>6, <1>7, <2>1
<1>9. hole.kind = "fixed" /\ hole.precision = p /\ hole.last = close
  BY <1>7
<1>10. Spells(s, i, hole)
  BY <1>3, <1>5, <1>6, <1>9, Zenon DEF Spells, PointAt
<1>11. hole = fixedHole(s, i)
  BY <1>4, <1>7, Zenon DEF Hole
<1>. QED
  BY <1>8, <1>10, <1>11, Zenon DEF Placeholders

\* Where a fixed float is, fixedHole finds one.
LEMMA FixedIsFound ==
  ASSUME NEW s \in Text, NEW i \in 1 .. Len(s), NEW hole \in Placeholders(s, i), hole.kind = "fixed"
  PROVE  PointAt(s, i) /\ fixedHole(s, i) # NoHole
<1>1. PICK n \in Nat : n = Len(s)
  BY DEF Text
<1>2. PICK last \in i + 1 .. n : last = hole.last
  BY <1>1 DEF Placeholders
<1>3. hole.precision \in 0 .. MaxPrecision
  BY DEF Placeholders
<1>4. Spells(s, i, hole)
  BY Zenon DEF Placeholders
<1>5. /\ last >= i + 4 /\ s[i + 1] = ":" /\ s[i + 2] = "." /\ s[last] = "}"
      /\ \E end \in {last - 2, last - 1} :
           /\ i + 3 <= end /\ AllDigits(SubSeq(s, i + 3, end))
           /\ end = last - 2 => s[last - 1] = "f"
           /\ hole.precision = Denoted(SubSeq(s, i + 3, end))
  <2>1. hole.kind # "default" /\ hole.kind \notin {"x", "X", "b"}
    OBVIOUS
  <2>. QED
    BY <1>2, <1>4, <2>1, Zenon DEF Spells
<1>6. PICK end \in {last - 2, last - 1} :
        /\ i + 3 <= end /\ AllDigits(SubSeq(s, i + 3, end))
        /\ end = last - 2 => s[last - 1] = "f"
        /\ hole.precision = Denoted(SubSeq(s, i + 3, end))
  BY <1>5
<1>16. last >= i + 4 /\ i \in Nat /\ last <= n
  <2>1. last >= i + 4
    BY <1>5, Zenon
  <2>. QED
    BY <1>1, <2>1
<1>17. i + 2 <= Len(s)
  BY <1>1, <1>16
<1>7. PointAt(s, i) /\ i + 2 <= Len(s)
  BY <1>5, <1>17, Zenon DEF PointAt
<1>8. PICK cursor, close :
        FixedEnd(s, i, cursor, close) /\ fixedHole(s, i) = FixedAt(s, i, cursor, close)
  BY <1>7, FixedHoles
<1>9. cursor = end + 1
  <2>1. i + 3 \in 1 .. n + 1 /\ end \in (i + 3) - 1 .. n /\ end + 1 \in i + 3 .. n + 1 /\ (end + 1) - 1 = end
    BY <1>1, <1>2, <1>6
  <2>2. \A k \in i + 3 .. end : IsDigit(s[k])
    BY <1>1, <1>6, <2>1, PartsOfDigits DEF Text
  <2>3. ~IsDigit(s[end + 1])
    <3>1. CASE end = last - 2
      <4>1. end + 1 = last - 1
        BY <1>2, <3>1
      <4>. QED
        BY <1>6, <3>1, <4>1, BracesAreNoDigits
    <3>2. CASE end = last - 1
      <4>1. end + 1 = last
        BY <1>2, <3>2
      <4>. QED
        BY <1>5, <4>1, BracesAreNoDigits
    <3>. QED
      BY <1>6, <3>1, <3>2
  <2>4. DigitsEnd(s, i + 3, end + 1)
    BY <1>1, <2>1, <2>2, <2>3 DEF DigitsEnd
  <2>. QED
    BY <1>1, <1>8, <2>1, <2>4, DigitsAreSkipped DEF FixedEnd
<1>10. close = last
  <2>1. CASE end = last - 2
    <3>1. At(s, cursor, "f") /\ cursor + 1 = last
      BY <1>1, <1>2, <1>6, <1>9, <2>1 DEF At
    <3>. QED
      BY <1>8, <3>1 DEF FixedEnd
  <2>2. CASE end = last - 1
    <3>2. cursor = last
      BY <1>9, <2>2
    <3>3. s[last] = "}" /\ "}" # "f"
      BY <1>5
    <3>1. cursor = last /\ ~At(s, cursor, "f")
      BY <3>2, <3>3, Zenon DEF At
    <3>. QED
      BY <1>8, <3>1 DEF FixedEnd
  <2>. QED
    BY <1>6, <2>1, <2>2
<1>11. cursor > i + 3 /\ cursor - 1 = end /\ At(s, close, "}")
  <2>1. end >= i + 3
    BY <1>6, Zenon
  <2>2. end + 1 > i + 3 /\ (end + 1) - 1 = end /\ last <= Len(s)
    BY <1>1, <1>16, <2>1
  <2>. QED
    BY <1>5, <1>9, <1>10, <2>2, Zenon DEF At
<1>12. hole.precision <= MaxPrecision
  BY <1>3, WidthAssumption
<1>13. fixedHole(s, i) = Hole("fixed", hole.precision, last)
  BY <1>6, <1>8, <1>10, <1>11, <1>12, Zenon DEF FixedAt
<1>14. "fixed" # "none"
  OBVIOUS
<1>15. fixedHole(s, i).kind = "fixed" /\ NoHole.kind = "none"
  BY <1>13 DEF Hole, NoHole
<1>. QED
  BY <1>7, <1>14, <1>15, Zenon

\* A hole is found at a position exactly when there is a placeholder, and it is that one.
LEMMA HoleIsPlaceholder ==
  ASSUME NEW s \in Text, NEW i \in 1 .. Len(s)
  PROVE  /\ holeAt(s, i) # NoHole => holeAt(s, i) \in Placeholders(s, i)
         /\ Placeholders(s, i) # {} => holeAt(s, i) # NoHole
<1>1. PICK n \in Nat : n = Len(s)
  BY DEF Text
<1>2. PICK f : f = holeAt(s, i)
  OBVIOUS
<1>11. i \in Nat /\ i >= 1
  BY <1>1
<1>3. 0 \in 0 .. MaxPrecision
  BY WidthAssumption
<1>4. \A kind \in {"default", "x", "X", "b"} : Hole(kind, 0, i) # NoHole /\ kind \in Kinds /\ kind # "none"
  BY DEF Hole, NoHole, Kinds
<1>5. \A kind \in Kinds : \A last : Hole(kind, 0, last) # NoHole
  <2>. SUFFICES ASSUME NEW kind \in Kinds, NEW last
                PROVE  Hole(kind, 0, last) # NoHole
    OBVIOUS
  <2>1. kind # "none"
    BY DEF Kinds
  <2>2. Hole(kind, 0, last).kind = kind /\ NoHole.kind = "none"
    BY DEF Hole, NoHole
  <2>. QED
    BY <2>1, <2>2, Zenon
<1>6. ASSUME NEW kind \in Kinds, NEW last \in i + 1 .. n
      PROVE  /\ Hole(kind, 0, last) \in [kind : Kinds, precision : 0 .. MaxPrecision, last : i + 1 .. Len(s)]
             /\ Hole(kind, 0, last).kind = kind /\ Hole(kind, 0, last).precision = 0
             /\ Hole(kind, 0, last).last = last
  BY <1>1, <1>3 DEF Hole
<1>7. CASE DefaultAt(s, i)
  <2>1. f = Hole("default", 0, i + 1) /\ "default" \in Kinds /\ i + 1 \in i + 1 .. n
    <3>1. i + 1 \in i + 1 .. n
      <4>1. i + 1 <= n
        BY <1>1, <1>7, Zenon DEF DefaultAt
      <4>. QED
        BY <1>11, <4>1
    <3>2. f = Hole("default", 0, i + 1)
      BY <1>2, <1>7, HoleFound
    <3>. QED
      BY <1>4, <3>1, <3>2, Zenon
  <2>2. f \in [kind : Kinds, precision : 0 .. MaxPrecision, last : i + 1 .. Len(s)]
    BY <1>6, <2>1, Zenon
  <2>3. f.kind = "default" /\ f.precision = 0 /\ f.last = i + 1
    BY <1>6, <2>1, Zenon
  <2>4. Spells(s, i, f)
    BY <1>7, <2>3, Zenon DEF Spells, DefaultAt
  <2>5. f # NoHole
    BY <1>5, <2>1, Zenon
  <2>. QED
    BY <1>2, <2>2, <2>4, <2>5, Zenon DEF Placeholders
<1>8. CASE BaseAt(s, i)
  <2>1. f = Hole(s[i + 2], 0, i + 3) /\ s[i + 2] \in Kinds /\ i + 3 \in i + 1 .. n
    <3>1. i + 3 \in i + 1 .. n
      <4>1. i + 3 <= n
        BY <1>1, <1>8, Zenon DEF BaseAt
      <4>. QED
        BY <1>11, <4>1
    <3>2. f = Hole(s[i + 2], 0, i + 3)
      BY <1>2, <1>8, HoleFound
    <3>3. s[i + 2] \in {"x", "X", "b"}
      BY <1>8, Zenon DEF BaseAt
    <3>. QED
      BY <1>4, <3>1, <3>2, <3>3, Zenon
  <2>2. f \in [kind : Kinds, precision : 0 .. MaxPrecision, last : i + 1 .. Len(s)]
    BY <1>6, <2>1, Zenon
  <2>3. f.kind = s[i + 2] /\ f.precision = 0 /\ f.last = i + 3
    BY <1>6, <2>1, Zenon
  <2>4. Spells(s, i, f)
    BY <1>8, <2>3, Zenon DEF Spells, BaseAt
  <2>5. f # NoHole
    BY <1>5, <2>1, Zenon
  <2>. QED
    BY <1>2, <2>2, <2>4, <2>5, Zenon DEF Placeholders
<1>9. CASE PointAt(s, i)
  <2>1. f = fixedHole(s, i)
    BY <1>2, <1>9, HoleFound
  <2>2. f # NoHole => f \in Placeholders(s, i)
    BY <1>9, <2>1, FixedIsPlaceholder
  <2>3. ASSUME NEW hole \in Placeholders(s, i)
        PROVE  f # NoHole
    <3>1. CASE hole.kind = "fixed"
      BY <2>1, <2>3, <3>1, FixedIsFound
    <3>2. CASE hole.kind # "fixed"
      <4>1. s[i + 1] = ":" /\ s[i + 2] = "." /\ Spells(s, i, hole)
        BY <1>9, <2>3, Zenon DEF PointAt, Placeholders
      <4>2. ":" # "}" /\ "." # "x" /\ "." # "X" /\ "." # "b"
        OBVIOUS
      <4>3. s[i + 1] # "}" /\ \A kind \in {"x", "X", "b"} : s[i + 2] # kind
        BY <4>1, <4>2, Zenon
      <4>. QED
        BY <3>2, <4>1, <4>3, Zenon DEF Spells
    <3>. QED
      BY <3>1, <3>2, Zenon
  <2>. QED
    BY <1>2, <2>2, <2>3, Zenon
<1>10. CASE ~DefaultAt(s, i) /\ ~BaseAt(s, i) /\ ~PointAt(s, i)
  <2>1. f = NoHole
    BY <1>2, <1>10, HoleFound
  <2>2. ASSUME NEW hole \in Placeholders(s, i)
        PROVE  FALSE
    <3>1. PICK last \in i + 1 .. n : last = hole.last
      BY <1>1, <2>2 DEF Placeholders
    <3>2. Spells(s, i, hole)
      BY <2>2, Zenon DEF Placeholders
    <3>3. CASE hole.kind = "fixed"
      BY <1>10, <2>2, <3>3, FixedIsFound
    <3>4. CASE hole.last = i + 1 /\ s[i + 1] = "}"
      <4>1. i + 1 <= Len(s)
        <5>1. last = i + 1
          BY <3>1, <3>4, Zenon
        <5>. QED
          BY <1>1, <5>1
      <4>. QED
        BY <1>10, <3>4, <4>1, Zenon DEF DefaultAt
    <3>5. CASE /\ hole.kind \in {"x", "X", "b"} /\ hole.last = i + 3
               /\ s[i + 1] = ":" /\ s[i + 2] = hole.kind /\ s[i + 3] = "}"
      <4>1. i + 3 <= Len(s)
        <5>1. last = i + 3
          BY <3>1, <3>5, Zenon
        <5>. QED
          BY <1>1, <5>1
      <4>. QED
        BY <1>10, <3>5, <4>1, Zenon DEF BaseAt
    <3>. QED
      BY <3>2, <3>3, <3>4, <3>5, Zenon DEF Spells
  <2>. QED
    BY <1>2, <2>1, <2>2, Zenon
<1>. QED
  BY <1>7, <1>8, <1>9, <1>10, Zenon

\* No brace opens in a placeholder, and it begins with one.
LEMMA PlaceholdersHaveNoBrace ==
  ASSUME NEW s \in Text, NEW i \in 1 .. Len(s), NEW hole \in Placeholders(s, i)
  PROVE  /\ hole.last \in i + 1 .. Len(s)
         /\ \A j \in i + 1 .. hole.last : s[j] # "{"
<1>1. PICK n \in Nat : n = Len(s)
  BY DEF Text
<1>2. PICK last \in i + 1 .. n : last = hole.last
  BY <1>1 DEF Placeholders
<1>3. Spells(s, i, hole)
  BY Zenon DEF Placeholders
<1>4. ASSUME NEW j \in i + 1 .. last
      PROVE  s[j] # "{"
  <2>1. CASE last = i + 1 /\ s[i + 1] = "}"
    <3>1. j = i + 1
      <4>1. last = i + 1
        BY <2>1, Zenon
      <4>. QED
        BY <1>1, <4>1
    <3>2. "{" # "}"
      OBVIOUS
    <3>. QED
      BY <2>1, <3>1, <3>2, Zenon
  <2>2. CASE /\ last = i + 3 /\ s[i + 2] \in {"x", "X", "b"}
             /\ s[i + 1] = ":" /\ s[i + 3] = "}"
    <3>1. j = i + 1 \/ j = i + 2 \/ j = i + 3
      <4>1. last = i + 3
        BY <2>2, Zenon
      <4>. QED
        BY <1>1, <4>1
    <3>2. "{" # ":" /\ "{" # "}" /\ "{" # "x" /\ "{" # "X" /\ "{" # "b"
      OBVIOUS
    <3>. QED
      BY <2>2, <3>1, <3>2, Zenon
  <2>3. CASE /\ s[i + 1] = ":" /\ s[i + 2] = "." /\ s[last] = "}"
             /\ \E end \in {last - 2, last - 1} :
                  /\ i + 3 <= end /\ AllDigits(SubSeq(s, i + 3, end))
                  /\ end = last - 2 => s[last - 1] = "f"
    <3>1. PICK end \in {last - 2, last - 1} :
            /\ i + 3 <= end /\ AllDigits(SubSeq(s, i + 3, end))
            /\ end = last - 2 => s[last - 1] = "f"
      BY <2>3, Zenon
    <3>2. i + 3 <= end /\ end \in Int /\ i \in Nat /\ i >= 1
      BY <1>1, <3>1
    <3>3. i + 3 \in 1 .. n + 1 /\ end \in (i + 3) - 1 .. n
      BY <1>1, <3>2
    <3>4. \A k \in i + 3 .. end : IsDigit(s[k])
      BY <1>1, <3>1, <3>3, PartsOfDigits DEF Text
    <3>5. \/ j = i + 1 \/ j = i + 2 \/ j \in i + 3 .. end \/ j = last
          \/ j = last - 1 /\ end = last - 2
      BY <1>4, <3>1, <3>2
    <3>6. "{" # ":" /\ "{" # "." /\ "{" # "}" /\ "{" # "f"
      OBVIOUS
    <3>7. CASE j \in i + 3 .. end
      BY <3>4, <3>7, BracesAreNoDigits, Zenon
    <3>8. CASE j = i + 1 \/ j = i + 2 \/ j = last
      BY <2>3, <3>6, <3>8, Zenon
    <3>9. CASE j = last - 1 /\ end = last - 2
      BY <3>1, <3>6, <3>9, Zenon
    <3>. QED
      BY <3>5, <3>7, <3>8, <3>9, Zenon
  <2>. QED
    BY <1>2, <1>3, <2>1, <2>2, <2>3, Zenon DEF Spells
<1>. QED
  BY <1>1, <1>2, <1>4, Zenon

Holes == [kind : Kinds, precision : 0 .. MaxPrecision, last : Nat]
ParseStates == [ok : BOOLEAN, literals : Seq(Text), holes : Seq(Holes), start : Nat \ {0}]

\* One turn of the loop at position i.
Parsing(s, before, i) ==
  IF ~before.ok \/ i < before.start \/ s[i] # "{" THEN before
  ELSE IF holeAt(s, i) = NoHole THEN Invalid
  ELSE [ok |-> TRUE, start |-> holeAt(s, i).last + 1, holes |-> Append(before.holes, holeAt(s, i)),
        literals |-> Append(before.literals, SubSeq(s, before.start, i - 1))]

\* Each placeholder is a hole as the parser makes them.
LEMMA PlaceholdersAreHoles ==
  ASSUME NEW s \in Text, NEW i \in 1 .. Len(s)
  PROVE  Placeholders(s, i) \subseteq Holes
<1>1. PICK n \in Nat : n = Len(s)
  BY DEF Text
<1>. SUFFICES ASSUME NEW hole \in Placeholders(s, i)
              PROVE  hole \in Holes
  OBVIOUS
<1>2. hole \in [kind : Kinds, precision : 0 .. MaxPrecision, last : i + 1 .. Len(s)]
  BY Zenon DEF Placeholders
<1>3. i + 1 .. Len(s) \subseteq Nat
  BY <1>1
<1>. QED
  BY <1>2, <1>3 DEF Holes

\* new is seq with x at the end.
IsAppended(new, seq, x, S) ==
  /\ new \in Seq(S) /\ Len(new) = Len(seq) + 1
  /\ new[Len(seq) + 1] = x
  /\ \A k \in 1 .. Len(seq) : new[k] = seq[k]

\* Append appends.
LEMMA Appending ==
  \A S : \A seq \in Seq(S), x \in S : IsAppended(Append(seq, x), seq, x, S)
BY AppendProperties DEF IsAppended

\* after is the state after a turn that finds a placeholder behind a text.
HasFound(s, i, before, hole, literal, after) ==
  /\ after \in ParseStates /\ after.ok /\ after.start = hole.last + 1
  /\ literal = SubSeq(s, before.start, i - 1)
  /\ literal \in Text /\ Len(literal) = i - before.start
  /\ \A k \in 1 .. i - before.start : literal[k] = s[before.start + k - 1]
  /\ IsAppended(after.holes, before.holes, hole, Holes)
  /\ IsAppended(after.literals, before.literals, literal, Text)

\* The state after a turn that finds a placeholder.
LEMMA TurnFinds ==
  ASSUME NEW s \in Text, NEW before \in ParseStates, NEW i \in 1 .. Len(s), before.start <= i,
         NEW hole \in Placeholders(s, i), NEW literal, literal = SubSeq(s, before.start, i - 1),
         NEW after, after = [ok |-> TRUE, start |-> hole.last + 1, holes |-> Append(before.holes, hole),
                             literals |-> Append(before.literals, literal)]
  PROVE  HasFound(s, i, before, hole, literal, after)
<1>1. PICK n \in Nat : n = Len(s)
  BY DEF Text
<1>2. PICK start \in Nat \ {0} : start = before.start /\ start <= i
  BY DEF ParseStates
<1>3. PICK j : j = i - 1
  OBVIOUS
<1>4. start \in 1 .. n + 1 /\ j \in start - 1 .. n /\ j + 1 - start = i - start
  BY <1>1, <1>2, <1>3
<1>5. /\ literal \in Text /\ Len(literal) = i - start
      /\ \A k \in 1 .. i - start : literal[k] = s[start + k - 1]
  <2>1. start \in 1 .. Len(s) + 1 /\ j \in start - 1 .. Len(s)
    BY <1>1, <1>4, Zenon
  <2>2. s \in Seq(Chars)
    BY DEF Text
  <2>3. /\ SubSeq(s, start, j) \in Seq(Chars) /\ Len(SubSeq(s, start, j)) = j + 1 - start
        /\ \A k \in 1 .. j + 1 - start : SubSeq(s, start, j)[k] = s[start + k - 1]
    BY <2>1, <2>2, Parts
  <2>4. literal = SubSeq(s, start, j)
    BY <1>2, <1>3, Zenon
  <2>. QED
    BY <1>4, <2>3, <2>4, Zenon DEF Text
<1>6. hole \in Holes /\ hole.last + 1 \in Nat \ {0}
  <2>1. hole \in Holes
    BY PlaceholdersAreHoles
  <2>. QED
    BY <2>1 DEF Holes
<1>7. IsAppended(Append(before.holes, hole), before.holes, hole, Holes)
  <2>1. before.holes \in Seq(Holes)
    BY DEF ParseStates
  <2>. QED
    BY <1>6, <2>1, Appending, Zenon
<1>8. IsAppended(Append(before.literals, literal), before.literals, literal, Text)
  <2>1. before.literals \in Seq(Text)
    BY DEF ParseStates
  <2>. QED
    BY <1>5, <2>1, Appending, Zenon
<1>9. /\ after.ok /\ after.start = hole.last + 1
      /\ after.holes = Append(before.holes, hole) /\ after.literals = Append(before.literals, literal)
  BY Zenon
<1>10. after \in ParseStates
  <2>1. after.holes \in Seq(Holes) /\ after.literals \in Seq(Text)
    BY <1>7, <1>8, <1>9, Zenon DEF IsAppended
  <2>. QED
    BY <1>6, <1>9, <2>1 DEF ParseStates
<1>. QED
  BY <1>2, <1>5, <1>7, <1>8, <1>9, <1>10, Zenon DEF HasFound

\* Every turn leaves a state of the parser.
LEMMA TurnsParse ==
  ASSUME NEW s \in Text, NEW before \in ParseStates, NEW i \in 1 .. Len(s)
  PROVE  Parsing(s, before, i) \in ParseStates
<1>1. Invalid \in ParseStates
  BY DEF Invalid, ParseStates
<1>2. CASE before.start <= i /\ holeAt(s, i) # NoHole
  <2>1. PICK hole \in Placeholders(s, i) : hole = holeAt(s, i)
    BY <1>2, HoleIsPlaceholder
  <2>2. PICK literal : literal = SubSeq(s, before.start, i - 1)
    OBVIOUS
  <2>3. PICK after : after = [ok |-> TRUE, start |-> hole.last + 1, holes |-> Append(before.holes, hole),
                              literals |-> Append(before.literals, literal)]
    OBVIOUS
  <2>4. after \in ParseStates
    BY <1>2, <2>2, <2>3, TurnFinds DEF HasFound
  <2>. QED
    BY <1>1, <2>1, <2>2, <2>3, <2>4, Zenon DEF Parsing
<1>3. before.start <= i \/ i < before.start
  BY DEF ParseStates
<1>. QED
  BY <1>1, <1>2, <1>3, Zenon DEF Parsing

\* The states of the loop are those of its turns.
LEMMA ParseLoop ==
  ASSUME NEW s \in Text
  PROVE  /\ parseLoop(s)[0] = [ok |-> TRUE, literals |-> <<>>, holes |-> <<>>, start |-> 1]
         /\ \A i \in 1 .. Len(s) : parseLoop(s)[i] = Parsing(s, parseLoop(s)[i - 1], i)
<1>1. PICK n \in Nat : n = Len(s)
  BY DEF Text
<1>. DEFINE base == [ok |-> TRUE, literals |-> <<>>, holes |-> <<>>, start |-> 1]
            step == [x \in (1 .. n) \X ParseStates |-> Parsing(s, x[2], x[1])]
            Turns(g) == g = [i \in 0 .. n |-> IF i = 0 THEN base ELSE Parsing(s, g[i - 1], i)]
<1>2. base \in ParseStates
  BY DEF ParseStates
<1>3. step \in [(1 .. n) \X ParseStates -> ParseStates]
  BY <1>1, TurnsParse
<1>4. PICK f : IsRecursive(f, n, ParseStates, base, step)
  <2>. HIDE DEF step, base
  <2>. QED
    BY <1>2, <1>3, RecursionExists
<1>5. f \in [0 .. n -> ParseStates] /\ f[0] = base
  <2>. HIDE DEF step, base
  <2>. QED
    BY <1>4 DEF IsRecursive
<1>6. \A i \in 1 .. n : f[i] = Parsing(s, f[i - 1], i)
  <2>1. \A i \in 1 .. n : f[i - 1] \in ParseStates
    BY <1>5
  <2>2. \A i \in 1 .. n : f[i] = step[<<i, f[i - 1]>>]
    <3>. HIDE DEF step, base
    <3>. QED
      BY <1>4, Zenon DEF IsRecursive
  <2>. QED
    BY <2>1, <2>2
<1>7. Turns(f)
  <2>. HIDE DEF base
  <2>. QED
    BY <1>5, <1>6
<1>8. parseLoop(s) = CHOOSE h : Turns(h)
  BY <1>1, Zenon DEF parseLoop, Parsing
<1>9. PICK g : g = parseLoop(s)
  OBVIOUS
<1>10. Turns(g)
  <2>. HIDE DEF Turns
  <2>. QED
    BY <1>7, <1>8, <1>9
<1>. HIDE DEF base
<1>11. g[0] = base /\ \A i \in 1 .. n : g[i] = Parsing(s, g[i - 1], i)
  BY <1>10
<1>. QED
  BY <1>1, <1>9, <1>11, Zenon DEF base

\* What is read is not changed by what is read later.
LEMMA ReadIsKept ==
  ASSUME NEW s, NEW before, NEW after, NEW m \in Nat,
         \A k \in 1 .. m : after.holes[k] = before.holes[k],
         \A k \in 1 .. m : after.literals[k] = before.literals[k],
         NEW k \in 1 .. m
  PROVE  /\ EndOf(after, k) = EndOf(before, k)
         /\ OpenOf(after, k) = OpenOf(before, k)
         /\ PartIsRead(s, before, k) => PartIsRead(s, after, k)
         /\ HoleIsRead(s, before, k) => HoleIsRead(s, after, k)
<1>1. k - 1 = 0 \/ k - 1 \in 1 .. m
  OBVIOUS
<1>2. k # 0
  OBVIOUS
<1>3. EndOf(after, k) = EndOf(before, k)
  BY <1>2, Zenon DEF EndOf
<1>4. EndOf(after, k - 1) = EndOf(before, k - 1)
  BY <1>1, Zenon DEF EndOf
<1>5. OpenOf(after, k) = OpenOf(before, k)
  BY <1>4, Zenon DEF OpenOf
<1>. QED
  BY <1>3, <1>4, <1>5, Zenon DEF PartIsRead, HoleIsRead

\* The loop has read s up to position i.
IsParsed(s, i, state) ==
  /\ state \in ParseStates
  /\ ~state.ok => \E j \in 1 .. Len(s) : s[j] = "{" /\ Placeholders(s, j) = {}
  /\ state.ok =>
       /\ \A j \in 1 .. i : s[j] = "{" => Placeholders(s, j) # {}
       /\ Len(state.literals) = Len(state.holes)
       /\ state.start = EndOf(state, Len(state.holes)) + 1 /\ state.start \in 1 .. Len(s) + 1
       /\ \A j \in state.start .. i : s[j] # "{"
       /\ \A j \in i + 1 .. state.start - 1 : s[j] # "{"
       /\ \A k \in 1 .. Len(state.holes) : PartIsRead(s, state, k) /\ HoleIsRead(s, state, k)

\* A turn looks for a placeholder at position i.
LooksAt(s, i, before) == before.ok /\ before.start <= i /\ s[i] = "{"

\* A turn that finds a placeholder reads it, and the text before it.
LEMMA PlaceholderIsRead ==
  ASSUME NEW s \in Text, NEW i \in 1 .. Len(s), NEW before, IsParsed(s, i - 1, before),
         LooksAt(s, i, before), NEW hole \in Placeholders(s, i),
         NEW literal, NEW after, HasFound(s, i, before, hole, literal, after)
  PROVE  IsParsed(s, i, after)
<1>1. PICK n \in Nat : n = Len(s)
  BY DEF Text
<1>2. PICK m \in Nat : m = Len(before.holes)
  <2>1. before \in ParseStates
    BY Zenon DEF IsParsed
  <2>2. before.holes \in Seq(Holes)
    BY <2>1 DEF ParseStates
  <2>. QED
    BY <2>2
<1>3. /\ before \in ParseStates
      /\ \A j \in 1 .. i - 1 : s[j] = "{" => Placeholders(s, j) # {}
      /\ Len(before.literals) = m
      /\ before.start = EndOf(before, m) + 1 /\ before.start \in 1 .. n + 1
      /\ \A j \in before.start .. i - 1 : s[j] # "{"
      /\ \A k \in 1 .. m : PartIsRead(s, before, k) /\ HoleIsRead(s, before, k)
  BY <1>1, <1>2, Zenon DEF IsParsed, LooksAt
<1>4. PICK start \in 1 .. n + 1 : start = before.start /\ start <= i
  BY <1>3, Zenon DEF LooksAt
<1>5. literal = SubSeq(s, before.start, i - 1)
  BY Zenon DEF HasFound
<1>6. /\ after \in ParseStates /\ after.ok /\ after.start = hole.last + 1
      /\ literal \in Text /\ Len(literal) = i - before.start
      /\ \A k \in 1 .. i - before.start : literal[k] = s[before.start + k - 1]
      /\ IsAppended(after.holes, before.holes, hole, Holes)
      /\ IsAppended(after.literals, before.literals, literal, Text)
  BY Zenon DEF HasFound
<1>7. /\ Len(after.holes) = m + 1 /\ Len(after.literals) = m + 1
      /\ after.holes[m + 1] = hole /\ after.literals[m + 1] = literal
      /\ \A k \in 1 .. m : after.holes[k] = before.holes[k]
      /\ \A k \in 1 .. m : after.literals[k] = before.literals[k]
  BY <1>2, <1>3, <1>6, Zenon DEF IsAppended
<1>8. PICK last \in i + 1 .. n : last = hole.last /\ \A j \in i + 1 .. last : s[j] # "{"
  BY <1>1, PlaceholdersHaveNoBrace
<1>9. \A k \in 1 .. m : PartIsRead(s, after, k) /\ HoleIsRead(s, after, k)
  BY <1>3, <1>7, ReadIsKept
<1>10. EndOf(after, m) = start - 1
  <2>1. EndOf(before, m) = start - 1
    <3>1. EndOf(before, m) \in Int
      <4>1. before.holes \in Seq(Holes)
        BY <1>3 DEF ParseStates
      <4>2. m # 0 => before.holes[m] \in Holes
        BY <1>2, <4>1
      <4>3. m # 0 => before.holes[m].last \in Int
        BY <4>2 DEF Holes
      <4>. QED
        BY <4>3 DEF EndOf
    <3>2. start = EndOf(before, m) + 1
      BY <1>3, <1>4, Zenon
    <3>. QED
      BY <3>1, <3>2
  <2>2. CASE m = 0
    BY <2>1, <2>2, Zenon DEF EndOf
  <2>3. CASE m # 0
    <3>1. m \in 1 .. m
      BY <2>3
    <3>2. EndOf(after, m) = EndOf(before, m)
      BY <1>7, <3>1, ReadIsKept
    <3>. QED
      BY <2>1, <3>2
  <2>. QED
    BY <2>2, <2>3
<1>11. OpenOf(after, m + 1) = i
  <2>1. (m + 1) - 1 = m /\ start - 1 + (i - start) + 1 = i
    BY <1>4
  <2>2. OpenOf(after, m + 1) = EndOf(after, m) + Len(literal) + 1
    BY <1>7, <2>1, Zenon DEF OpenOf
  <2>3. Len(literal) = i - start
    BY <1>4, <1>6, Zenon
  <2>. QED
    BY <1>10, <2>1, <2>2, <2>3, Zenon
<1>12. PartIsRead(s, after, m + 1) /\ HoleIsRead(s, after, m + 1)
  <2>1. (m + 1) - 1 = m /\ (start - 1) + 1 = start
    BY <1>4
  <2>2. after.literals[m + 1] = SubSeq(s, EndOf(after, (m + 1) - 1) + 1, OpenOf(after, m + 1) - 1)
    BY <1>4, <1>5, <1>7, <1>10, <1>11, <2>1, Zenon
  <2>3. NoBrace(literal)
    <3>1. DOMAIN literal = 1 .. i - start
      BY <1>4, <1>6 DEF Text
    <3>2. \A k \in 1 .. i - start : start + k - 1 \in start .. i - 1
      BY <1>4
    <3>. QED
      BY <1>3, <1>4, <1>6, <3>1, <3>2, Zenon DEF NoBrace
  <2>. QED
    BY <1>7, <1>11, <2>2, <2>3, Zenon DEF PartIsRead, HoleIsRead, LooksAt
<1>13. \A k \in 1 .. m + 1 : PartIsRead(s, after, k) /\ HoleIsRead(s, after, k)
  <2>1. \A k \in 1 .. m + 1 : k \in 1 .. m \/ k = m + 1
    OBVIOUS
  <2>. QED
    BY <1>9, <1>12, <2>1, Zenon
<1>14. \A j \in 1 .. i : s[j] = "{" => Placeholders(s, j) # {}
  <2>1. \A j \in 1 .. i : j \in 1 .. i - 1 \/ j = i
    BY <1>1
  <2>. QED
    BY <1>3, <2>1, Zenon
<1>15. /\ after.start = EndOf(after, m + 1) + 1 /\ after.start \in 1 .. n + 1
       /\ \A j \in after.start .. i : FALSE
       /\ \A j \in i + 1 .. after.start - 1 : s[j] # "{"
  <2>1. m + 1 # 0 /\ last + 1 \in 1 .. n + 1 /\ (last + 1) - 1 = last
    BY <1>1
  <2>2. EndOf(after, m + 1) = last
    BY <1>7, <1>8, <2>1, Zenon DEF EndOf
  <2>3. after.start = last + 1
    BY <1>6, <1>8, Zenon
  <2>4. \A j \in last + 1 .. i : FALSE
    BY <1>1
  <2>. QED
    BY <1>8, <2>1, <2>2, <2>3, <2>4, Zenon
<1>. QED
  BY <1>1, <1>6, <1>7, <1>13, <1>14, <1>15, Zenon DEF IsParsed

\* A turn of the parser keeps the text up to it parsed.
LEMMA TurnReads ==
  ASSUME NEW s \in Text, NEW i \in 1 .. Len(s), NEW before, IsParsed(s, i - 1, before)
  PROVE  IsParsed(s, i, Parsing(s, before, i))
<1>1. PICK n \in Nat : n = Len(s)
  BY DEF Text
<1>2. before \in ParseStates
  BY DEF IsParsed
<1>3. CASE ~before.ok
  <2>1. Parsing(s, before, i) = before
    BY <1>3, Zenon DEF Parsing
  <2>. QED
    BY <1>3, <2>1, Zenon DEF IsParsed
<1>4. CASE before.ok /\ (i < before.start \/ s[i] # "{")
  <2>1. Parsing(s, before, i) = before
    BY <1>4, Zenon DEF Parsing
  <2>2. PICK start \in 1 .. n + 1 : start = before.start
    BY <1>1, <1>4 DEF IsParsed
  <2>3. /\ \A j \in start .. i - 1 : s[j] # "{"
        /\ \A j \in (i - 1) + 1 .. start - 1 : s[j] # "{"
        /\ \A j \in 1 .. i - 1 : s[j] = "{" => Placeholders(s, j) # {}
    BY <1>4, <2>2, Zenon DEF IsParsed
  <2>4. s[i] # "{"
    <3>1. CASE i < start
      <4>1. i \in (i - 1) + 1 .. start - 1
        BY <1>1, <3>1
      <4>. QED
        BY <2>3, <4>1, Zenon
    <3>. QED
      BY <1>4, <2>2, <3>1, Zenon
  <2>5. /\ \A j \in start .. i : j \in start .. i - 1 \/ j = i
        /\ \A j \in i + 1 .. start - 1 : j \in (i - 1) + 1 .. start - 1
        /\ \A j \in 1 .. i : j \in 1 .. i - 1 \/ j = i
    BY <1>1
  <2>6. /\ \A j \in start .. i : s[j] # "{"
        /\ \A j \in i + 1 .. start - 1 : s[j] # "{"
        /\ \A j \in 1 .. i : s[j] = "{" => Placeholders(s, j) # {}
    BY <2>3, <2>4, <2>5, Zenon
  <2>. QED
    BY <1>4, <2>1, <2>2, <2>6, Zenon DEF IsParsed
<1>5. CASE before.ok /\ ~(i < before.start) /\ s[i] = "{"
  <2>1. CASE holeAt(s, i) = NoHole
    <3>1. Parsing(s, before, i) = Invalid
      BY <1>5, <2>1, Zenon DEF Parsing
    <3>2. Placeholders(s, i) = {}
      BY <2>1, HoleIsPlaceholder, Zenon
    <3>3. Invalid \in ParseStates /\ ~Invalid.ok
      BY DEF Invalid, ParseStates
    <3>. QED
      BY <1>5, <3>1, <3>2, <3>3, Zenon DEF IsParsed
  <2>2. CASE holeAt(s, i) # NoHole
    <3>1. PICK hole \in Placeholders(s, i) : hole = holeAt(s, i)
      BY <2>2, HoleIsPlaceholder
    <3>6. PICK literal : literal = SubSeq(s, before.start, i - 1)
      OBVIOUS
    <3>2. PICK after : after = [ok |-> TRUE, start |-> hole.last + 1, holes |-> Append(before.holes, hole),
                                literals |-> Append(before.literals, literal)]
      OBVIOUS
    <3>3. Parsing(s, before, i) = after
      BY <1>5, <2>2, <3>1, <3>2, <3>6, Zenon DEF Parsing
    <3>4. before.start <= i
      <4>1. PICK start \in Nat : start = before.start
        BY <1>2 DEF ParseStates
      <4>2. ~(i < start)
        BY <1>5, <4>1, Zenon
      <4>3. start <= i
        BY <1>1, <4>2
      <4>. QED
        BY <4>1, <4>3
    <3>5. IsParsed(s, i, after)
      <4>1. HasFound(s, i, before, hole, literal, after)
        BY <1>2, <3>2, <3>4, <3>6, TurnFinds
      <4>. QED
        <5>1. LooksAt(s, i, before)
          BY <1>5, <3>4, Zenon DEF LooksAt
        <5>. QED
          BY <4>1, <5>1, PlaceholderIsRead
    <3>. QED
      BY <3>3, <3>5, Zenon
  <2>. QED
    BY <2>1, <2>2, Zenon
<1>. QED
  BY <1>3, <1>4, <1>5, Zenon

\* After each turn the text up to it is parsed.
LEMMA LoopReads ==
  ASSUME NEW s \in Text
  PROVE  \A i \in 0 .. Len(s) : IsParsed(s, i, parseLoop(s)[i])
<1>1. PICK n \in Nat : n = Len(s)
  BY DEF Text
<1>2. PICK g : g = parseLoop(s)
  OBVIOUS
<1>3. /\ g[0] = [ok |-> TRUE, literals |-> <<>>, holes |-> <<>>, start |-> 1]
      /\ \A i \in 1 .. n : g[i] = Parsing(s, g[i - 1], i)
  BY <1>1, <1>2, ParseLoop, Zenon
<1>. DEFINE A == {i \in Nat : IsParsed(s, i, g[i])}
<1>4. 0 \in A
  <2>1. PICK base : base = [ok |-> TRUE, literals |-> <<>>, holes |-> <<>>, start |-> 1]
    OBVIOUS
  <2>2. base \in ParseStates /\ base.ok = TRUE /\ base.start = 1 /\ Len(base.literals) = 0 /\ Len(base.holes) = 0
    BY <2>1 DEF ParseStates
  <2>3. EndOf(base, 0) + 1 = 1
    BY DEF EndOf
  <2>4. 1 \in 1 .. n + 1 /\ (\A j \in 1 .. 0 : FALSE) /\ (\A j \in 0 + 1 .. 1 - 1 : FALSE)
    OBVIOUS
  <2>5. IsParsed(s, 0, base)
    BY <1>1, <2>2, <2>3, <2>4, Zenon DEF IsParsed
  <2>. QED
    BY <1>3, <2>1, <2>5, Zenon
<1>5. ASSUME NEW i \in 0 .. n - 1, i \in A
      PROVE  i + 1 \in A
  <2>1. i + 1 \in 1 .. n /\ (i + 1) - 1 = i /\ i + 1 \in Nat
    OBVIOUS
  <2>2. g[i + 1] = Parsing(s, g[i], i + 1)
    BY <1>3, <2>1, Zenon
  <2>3. IsParsed(s, (i + 1) - 1, g[i])
    BY <1>5, <2>1
  <2>4. IsParsed(s, i + 1, Parsing(s, g[i], i + 1))
    BY <1>1, <2>1, <2>3, TurnReads
  <2>. QED
    BY <2>1, <2>2, <2>4
<1>6. 0 .. n \subseteq A
  <2>. HIDE DEF A
  <2>. QED
    BY <1>4, <1>5, UpToInduction
<1>. QED
  BY <1>1, <1>2, <1>6

\* What is left of the text is the last part.
LEMMA RestIsRead ==
  ASSUME NEW s \in Text, NEW state, IsParsed(s, Len(s), state), state.ok = TRUE,
         NEW parts, parts.ok = TRUE, parts.holes = state.holes,
         IsAppended(parts.literals, state.literals, SubSeq(s, state.start, Len(s)), Text)
  PROVE  IsRead(s, parts) /\ parts.literals \in Seq(Text) /\ parts.holes \in Seq(Holes)
<1>1. PICK n \in Nat : n = Len(s)
  BY DEF Text
<1>2. state.holes \in Seq(Holes) /\ state \in ParseStates
  <2>1. state \in ParseStates
    BY DEF IsParsed
  <2>. QED
    BY <2>1 DEF ParseStates
<1>3. PICK m \in Nat : m = Len(state.holes) /\ DOMAIN state.holes = 1 .. m
  BY <1>2
<1>4. /\ \A j \in 1 .. n : s[j] = "{" => Placeholders(s, j) # {}
      /\ Len(state.literals) = m
      /\ state.start = EndOf(state, m) + 1 /\ state.start \in 1 .. n + 1
      /\ \A j \in state.start .. n : s[j] # "{"
      /\ \A k \in 1 .. m : PartIsRead(s, state, k) /\ HoleIsRead(s, state, k)
  BY <1>1, <1>3, Zenon DEF IsParsed
<1>5. PICK start \in 1 .. n + 1 : start = state.start
  BY <1>4
<1>6. PICK literal : literal = SubSeq(s, state.start, Len(s))
  OBVIOUS
<1>7. /\ parts.literals \in Seq(Text) /\ Len(parts.literals) = m + 1
      /\ parts.literals[m + 1] = literal
      /\ \A k \in 1 .. m : parts.literals[k] = state.literals[k]
  BY <1>4, <1>6, Zenon DEF IsAppended
<1>8. /\ literal \in Text /\ Len(literal) = n + 1 - start
      /\ \A k \in 1 .. n + 1 - start : literal[k] = s[start + k - 1]
  <2>1. start \in 1 .. Len(s) + 1 /\ n \in start - 1 .. Len(s)
    BY <1>1
  <2>2. literal = SubSeq(s, start, n)
    BY <1>1, <1>5, <1>6, Zenon
  <2>3. /\ SubSeq(s, start, n) \in Text /\ Len(SubSeq(s, start, n)) = n + 1 - start
        /\ \A k \in 1 .. n + 1 - start : SubSeq(s, start, n)[k] = s[start + k - 1]
    BY <2>1, Parts DEF Text
  <2>. QED
    BY <2>2, <2>3, Zenon
<1>9. \A k \in 1 .. m : PartIsRead(s, parts, k) /\ HoleIsRead(s, parts, k)
  <2>1. \A k \in 1 .. m : parts.holes[k] = state.holes[k]
    BY Zenon
  <2>. QED
    BY <1>4, <1>7, <2>1, ReadIsKept
<1>10. EndOf(parts, m) = start - 1
  <2>1. EndOf(parts, m) = EndOf(state, m)
    BY Zenon DEF EndOf
  <2>2. EndOf(state, m) \in Int
    <3>1. m # 0 => state.holes[m] \in Holes
      BY <1>2, <1>3
    <3>2. m # 0 => state.holes[m].last \in Int
      BY <3>1 DEF Holes
    <3>. QED
      BY <3>2 DEF EndOf
  <2>3. start = EndOf(state, m) + 1
    BY <1>4, <1>5, Zenon
  <2>. QED
    BY <2>1, <2>2, <2>3
<1>11. OpenOf(parts, m + 1) = n + 1
  <2>1. (m + 1) - 1 = m /\ start - 1 + (n + 1 - start) + 1 = n + 1
    OBVIOUS
  <2>2. OpenOf(parts, m + 1) = EndOf(parts, m) + Len(literal) + 1
    BY <1>7, <2>1, Zenon DEF OpenOf
  <2>. QED
    BY <1>8, <1>10, <2>1, <2>2, Zenon
<1>12. PartIsRead(s, parts, m + 1)
  <2>1. (m + 1) - 1 = m /\ (start - 1) + 1 = start /\ (n + 1) - 1 = n
    OBVIOUS
  <2>2. parts.literals[m + 1] = SubSeq(s, EndOf(parts, (m + 1) - 1) + 1, OpenOf(parts, m + 1) - 1)
    BY <1>1, <1>5, <1>6, <1>7, <1>10, <1>11, <2>1, Zenon
  <2>3. NoBrace(literal)
    <3>1. DOMAIN literal = 1 .. n + 1 - start
      BY <1>8 DEF Text
    <3>2. \A k \in 1 .. n + 1 - start : start + k - 1 \in start .. n
      OBVIOUS
    <3>. QED
      BY <1>4, <1>5, <1>8, <3>1, <3>2, Zenon DEF NoBrace
  <2>. QED
    BY <1>7, <2>2, <2>3, Zenon DEF PartIsRead
<1>13. DOMAIN parts.literals = 1 .. m + 1 /\ DOMAIN s = 1 .. n
  BY <1>1, <1>7 DEF Text
<1>14. \A k \in 1 .. m + 1 : PartIsRead(s, parts, k)
  <2>1. \A k \in 1 .. m + 1 : k \in 1 .. m \/ k = m + 1
    OBVIOUS
  <2>. QED
    BY <1>9, <1>12, <2>1, Zenon
<1>. QED
  BY <1>1, <1>2, <1>3, <1>4, <1>7, <1>9, <1>11, <1>13, <1>14, Zenon DEF IsRead

\* A format string is read: the placeholders and the text between them, or no parts when
\* a brace opens no placeholder (parseFormatString).
THEOREM FormatsAreRead ==
  ASSUME NEW s \in Text
  PROVE  /\ IsRead(s, parseFormatString(s))
         /\ parseFormatString(s).ok \in BOOLEAN
         /\ parseFormatString(s).literals \in Seq(Text)
         /\ parseFormatString(s).holes \in Seq(Holes)
<1>1. PICK n \in Nat : n = Len(s) /\ DOMAIN s = 1 .. n
  BY DEF Text
<1>2. PICK state : state = parseLoop(s)[n]
  OBVIOUS
<1>3. IsParsed(s, n, state)
  <2>1. n \in 0 .. n
    OBVIOUS
  <2>. QED
    BY <1>1, <1>2, <2>1, LoopReads
<1>4. state \in ParseStates
  BY <1>3 DEF IsParsed
<1>5. state.ok \in BOOLEAN
  BY <1>4 DEF ParseStates
<1>6. CASE state.ok = FALSE
  <2>1. parseFormatString(s) = Invalid
    BY <1>1, <1>2, <1>6, Zenon DEF parseFormatString
  <2>2. Invalid.ok = FALSE /\ Invalid.literals \in Seq(Text) /\ Invalid.holes \in Seq(Holes)
    BY DEF Invalid
  <2>3. \E j \in 1 .. n : s[j] = "{" /\ Placeholders(s, j) = {}
    BY <1>1, <1>3, <1>6, Zenon DEF IsParsed
  <2>4. IsRead(s, Invalid)
    BY <1>1, <2>2, <2>3, Zenon DEF IsRead
  <2>. QED
    BY <2>1, <2>2, <2>4, Zenon
<1>7. CASE state.ok = TRUE
  <2>1. PICK literal : literal = SubSeq(s, state.start, Len(s))
    OBVIOUS
  <2>2. PICK parts : parts = [state EXCEPT !.literals = Append(@, literal)]
    OBVIOUS
  <2>3. parseFormatString(s) = parts
    BY <1>1, <1>2, <1>7, <2>1, <2>2 DEF parseFormatString
  <2>4. /\ parts.ok = TRUE /\ parts.holes = state.holes
        /\ parts.literals = Append(state.literals, literal)
    BY <1>4, <1>7, <2>2 DEF ParseStates
  <2>5. literal \in Text
    <3>1. PICK start \in 1 .. n + 1 : start = state.start
      BY <1>1, <1>3, <1>7, Zenon DEF IsParsed
    <3>2. start \in 1 .. Len(s) + 1 /\ n \in start - 1 .. Len(s)
      BY <1>1
    <3>3. SubSeq(s, start, n) \in Text
      BY <3>2, Parts DEF Text
    <3>. QED
      BY <1>1, <2>1, <3>1, <3>3
  <2>6. state.literals \in Seq(Text)
    BY <1>4 DEF ParseStates
  <2>7. IsAppended(parts.literals, state.literals, literal, Text)
    BY <2>4, <2>5, <2>6, Appending, Zenon
  <2>8. IsRead(s, parts) /\ parts.literals \in Seq(Text) /\ parts.holes \in Seq(Holes)
    BY <1>1, <1>3, <1>7, <2>1, <2>4, <2>7, RestIsRead
  <2>. QED
    BY <2>3, <2>4, <2>8, Zenon
<1>. QED
  BY <1>5, <1>6, <1>7, Zenon

-----------------------------------------------------------------------------
(* The calls.                                                              *)

Stages == {"source", "accepted", "rejected", "lowered", "thrown", "input", "parsed"}

\* A call of a program, with the function around it.
IsProgram(c, function) == \E p \in Programs : c = p.call /\ function = p.body

\* What is known of the arguments of a call, and of what is told apart of it.
IsCall(c) ==
  /\ c.raw \in Text /\ c.newline \in BOOLEAN
  /\ c.arguments \in Seq([type : STRING, number : Int, text : Text])
  /\ \A i \in DOMAIN c.arguments : c.arguments[i].number \in numbersOf(c.arguments[i].type)

\* A text of strings is a text.
LEMMA StringsAreText == Seq(STRING) \subseteq Text
<1>. SUFFICES ASSUME NEW s \in Seq(STRING)
              PROVE  s \in Text
  OBVIOUS
<1>1. STRING \subseteq Chars
  BY DEF Chars
<1>2. Len(s) \in Nat /\ s \in [1 .. Len(s) -> STRING]
  OBVIOUS
<1>3. s \in [1 .. Len(s) -> Chars]
  BY <1>1, <1>2
<1>. QED
  BY <1>2, <1>3, FunctionIsSeq, Zenon DEF Text

\* The calls of the programs are calls.
LEMMA ProgramsHaveCalls ==
  ASSUME NEW p \in Programs
  PROVE  IsCall(p.call)
<1>1. /\ p.call.raw \in Seq(STRING) /\ p.call.newline \in BOOLEAN
      /\ p.call.arguments \in Seq(ArgumentValues)
      /\ \A i \in DOMAIN p.call.arguments :
           p.call.arguments[i].number \in numbersOf(p.call.arguments[i].type)
  BY ProgramsAssumption, Zenon
<1>2. PICK arguments \in Seq(ArgumentValues) : arguments = p.call.arguments
  BY <1>1
<1>3. arguments \in [1 .. Len(arguments) -> [type : STRING, number : Int, text : Text]]
  <2>1. arguments \in [1 .. Len(arguments) -> ArgumentValues]
    OBVIOUS
  <2>2. ArgumentValues \subseteq [type : STRING, number : Int, text : Text]
    BY StringsAreText DEF ArgumentValues
  <2>. QED
    BY <2>1, <2>2
<1>4. arguments \in Seq([type : STRING, number : Int, text : Text])
  <2>1. Len(arguments) \in Nat
    OBVIOUS
  <2>. QED
    BY <1>3, <2>1, FunctionIsSeq, Zenon
<1>. QED
  BY <1>1, <1>2, <1>4, StringsAreText, Zenon DEF IsCall

\* The call looked at is one of a program, until its output is parsed; a text may be
\* parsed without one.
CallInv ==
  /\ stage \in Stages
  /\ IsProgram(call, body) \/ (call = NoCall /\ stage \in {"input", "parsed"})

\* The state begins with a program of the set, or with no call.
LEMMA CallInit == Init => CallInv
BY Zenon DEF Init, CallInv, IsProgram, Stages

\* No step changes the program.
LEMMA CallNext == CallInv /\ [Next]_vars => CallInv'
<1>. SUFFICES ASSUME CallInv, [Next]_vars
              PROVE  CallInv'
  OBVIOUS
<1>1. CASE Analyze
  BY <1>1 DEF Analyze, CallInv, IsProgram, Stages
<1>2. CASE Lower
  BY <1>2 DEF Lower, CallInv, IsProgram, Stages
<1>3. CASE Write
  BY <1>3 DEF Write, CallInv, IsProgram, Stages
<1>4. CASE ReadBack
  BY <1>4 DEF ReadBack, CallInv, IsProgram, Stages
<1>5. CASE ParseText
  BY <1>5 DEF ParseText, CallInv, IsProgram, Stages
<1>6. CASE UNCHANGED vars
  BY <1>6 DEF vars, CallInv, IsProgram, Stages
<1>. QED
  BY <1>1, <1>2, <1>3, <1>4, <1>5, <1>6 DEF Next

\* The invariant gives a call, and the text of its literal.
LEMMA CallIsKnown ==
  ASSUME IsProgram(call, body)
  PROVE  IsCall(call) /\ decodeStringLiteralContent(call.raw) \in Text
<1>1. PICK p \in Programs : call = p.call
  BY DEF IsProgram
<1>2. IsCall(call)
  BY <1>1, ProgramsHaveCalls
<1>3. call.raw \in Text
  BY <1>2 DEF IsCall
<1>. QED
  BY <1>2, <1>3, DecodedIsText

\* The call looked at is one of a program, until its output is parsed.
THEOREM CallsAreKept == Spec => []CallInv
<1>. QED
  BY CallInit, CallNext, PTL DEF Spec

\* A format string is accepted when every brace that opens begins a placeholder, and
\* its parts are the placeholders in their order and the text between them
\* (parseFormatString).
THEOREM FormatStringsAreAlwaysRead == Spec => []FormatStringsAreRead
<1>1. CallInv => FormatStringsAreRead
  <2>. SUFFICES ASSUME CallInv, stage \in {"accepted", "rejected"}
                PROVE  IsRead(decodeStringLiteralContent(call.raw),
                              parseFormatString(decodeStringLiteralContent(call.raw)))
    BY Zenon DEF FormatStringsAreRead
  <2>1. IsProgram(call, body)
    BY DEF CallInv
  <2>2. PICK s \in Text : s = decodeStringLiteralContent(call.raw)
    BY <2>1, CallIsKnown
  <2>3. IsRead(s, parseFormatString(s))
    BY FormatsAreRead
  <2>. QED
    BY <2>2, <2>3, Zenon
<1>. QED
  BY <1>1, CallsAreKept, PTL

-----------------------------------------------------------------------------
(* Parsing a text.                                                         *)

\* The digits of a position of a text are its number there (parse_u64_ascii).
LEMMA NumbersAreDenoted ==
  ASSUME NEW text \in Text, NEW i \in 1 .. Len(text) + 1, NEW value
  PROVE  NumberFrom(text, i, value) <=>
           \E j \in 1 .. Len(text) :
             EndsWithDigits(text, i, j) /\ value = Denoted(SubSeq(text, i, j))
<1>1. PICK l \in Nat : l = Len(text)
  BY DEF Text
<1>2. \A j \in i .. l : SubSeq(text, i, j) \in Text /\ Len(SubSeq(text, i, j)) = j + 1 - i
  <2>. SUFFICES ASSUME NEW j \in i .. l
                PROVE  SubSeq(text, i, j) \in Text /\ Len(SubSeq(text, i, j)) = j + 1 - i
    OBVIOUS
  <2>1. i \in 1 .. Len(text) + 1 /\ j \in i - 1 .. Len(text)
    BY <1>1
  <2>. QED
    BY <2>1, Parts DEF Text
<1>3. \A j \in i .. l : Denotes(text, i, j + 1 - i, 10, LowerDigits, value) <=>
                          /\ AllDigits(SubSeq(text, i, j))
                          /\ value = Denoted(SubSeq(text, i, j))
  <2>. SUFFICES ASSUME NEW j \in i .. l
                PROVE  Denotes(text, i, j + 1 - i, 10, LowerDigits, value) <=>
                         AllDigits(SubSeq(text, i, j)) /\ value = Denoted(SubSeq(text, i, j))
    OBVIOUS
  <2>1. PICK n \in 0 .. l + 1 - i : n = j + 1 - i
    OBVIOUS
  <2>2. PICK part \in Text : part = SubSeq(text, i, j) /\ Len(part) = n
    BY <1>2, <2>1
  <2>3. Denotes(text, i, n, 10, LowerDigits, value) <=> Denotes(part, 1, n, 10, LowerDigits, value)
    <3>1. i + n - 1 = j /\ n \in 0 .. Len(text) + 1 - i
      BY <1>1, <2>1
    <3>2. \A v : Denotes(text, i, n, 10, LowerDigits, v) <=>
                   Denotes(SubSeq(text, i, i + n - 1), 1, n, 10, LowerDigits, v)
      BY <3>1, DenotesInside DEF Text
    <3>. QED
      BY <2>2, <3>1, <3>2, Zenon
  <2>4. Denotes(part, 1, Len(part), 10, LowerDigits, value) => AllDigits(part) /\ Denoted(part) = value
    BY DenotedIsUnique DEF Text
  <2>5. AllDigits(part) => Denotes(part, 1, Len(part), 10, LowerDigits, Denoted(part))
    BY DenotedIsDenoted DEF Text
  <2>. QED
    BY <2>1, <2>2, <2>3, <2>4, <2>5, Zenon
<1>4. ASSUME NumberFrom(text, i, value)
      PROVE  \E j \in 1 .. l : EndsWithDigits(text, i, j) /\ value = Denoted(SubSeq(text, i, j))
  <2>1. PICK n \in 1 .. l + 1 - i : /\ Denotes(text, i, n, 10, LowerDigits, value)
                                    /\ \A k \in i + n .. l : ascii_is_space(text[k])
    BY <1>1, <1>4, Zenon DEF NumberFrom
  <2>2. PICK j \in i .. l : j = i + n - 1 /\ n = j + 1 - i /\ i <= j /\ j + 1 = i + n /\ j \in 1 .. l
    OBVIOUS
  <2>3. AllDigits(SubSeq(text, i, j)) /\ value = Denoted(SubSeq(text, i, j))
    BY <1>3, <2>1, <2>2, Zenon
  <2>4. Spaces(text, j + 1, Len(text))
    BY <1>1, <2>1, <2>2, Zenon DEF Spaces, ascii_is_space
  <2>. QED
    BY <2>2, <2>3, <2>4, Zenon DEF EndsWithDigits
<1>5. ASSUME NEW j \in 1 .. l, EndsWithDigits(text, i, j), value = Denoted(SubSeq(text, i, j))
      PROVE  NumberFrom(text, i, value)
  <2>1. i <= j /\ AllDigits(SubSeq(text, i, j)) /\ Spaces(text, j + 1, Len(text))
    BY <1>5, Zenon DEF EndsWithDigits
  <2>2. PICK n \in 1 .. l + 1 - i : n = j + 1 - i /\ j + 1 = i + n /\ j \in i .. l
    BY <2>1
  <2>3. Denotes(text, i, n, 10, LowerDigits, value)
    BY <1>3, <1>5, <2>1, <2>2, Zenon
  <2>4. \A k \in i + n .. l : ascii_is_space(text[k])
    BY <1>1, <2>1, <2>2, Zenon DEF Spaces, ascii_is_space
  <2>. QED
    BY <1>1, <2>2, <2>3, <2>4, Zenon DEF NumberFrom
<1>. QED
  BY <1>1, <1>4, <1>5, Zenon

\* Positions make pairs.
LEMMA PairsExist ==
  \A S : \A i \in S : \A j \in S : \E p \in S \X S : p[1] = i /\ p[2] = j
<1>. SUFFICES ASSUME NEW S, NEW i \in S, NEW j \in S
              PROVE  \E p \in S \X S : p[1] = i /\ p[2] = j
  OBVIOUS
<1>1. <<i, j>> \in S \X S /\ <<i, j>>[1] = i /\ <<i, j>>[2] = j
  OBVIOUS
<1>. QED
  BY <1>1

\* The numbers without a sign that a text is.
LEMMA UnsignedAreNumbers ==
  ASSUME NEW text \in Text, NEW value
  PROVE  value \in UnsignedNumbers(text) <=>
           \E i \in 1 .. Len(text) : SpacesBefore(text, i) /\ NumberFrom(text, i, value)
<1>1. PICK l \in Nat : l = Len(text) /\ DOMAIN text = 1 .. l
  BY DEF Text
<1>2. value \in UnsignedNumbers(text) <=>
        \E i \in 1 .. l : /\ SpacesBefore(text, i)
                          /\ \E j \in 1 .. l : /\ EndsWithDigits(text, i, j)
                                               /\ value = Denoted(SubSeq(text, i, j))
  <2>1. \A i : Spaces(text, 1, i - 1) <=> SpacesBefore(text, i)
    BY Zenon DEF Spaces, SpacesBefore, ascii_is_space
  <2>2. Ranges(text) = (1 .. l) \X (1 .. l)
    BY <1>1 DEF Ranges
  <2>3. \A p \in (1 .. l) \X (1 .. l) : p[1] \in 1 .. l /\ p[2] \in 1 .. l
    OBVIOUS
  <2>4. \A i \in 1 .. l : \A j \in 1 .. l : \E p \in (1 .. l) \X (1 .. l) : p[1] = i /\ p[2] = j
    <3>1. PICK S : S = 1 .. l
      OBVIOUS
    <3>2. \A i \in S : \A j \in S : \E p \in S \X S : p[1] = i /\ p[2] = j
      BY PairsExist
    <3>. QED
      BY <3>1, <3>2, ZenonT(60)
  <2>. QED
    <3>1. value \in UnsignedNumbers(text) <=>
            \E p \in (1 .. l) \X (1 .. l) :
              /\ SpacesBefore(text, p[1]) /\ EndsWithDigits(text, p[1], p[2])
              /\ value = Denoted(SubSeq(text, p[1], p[2]))
      <4>1. UnsignedNumbers(text) =
              {Denoted(SubSeq(text, p[1], p[2])) :
                 p \in {p \in (1 .. l) \X (1 .. l) :
                          Spaces(text, 1, p[1] - 1) /\ EndsWithDigits(text, p[1], p[2])}}
        BY <2>2, Zenon DEF UnsignedNumbers
      <4>. QED
        BY <2>1, <4>1
    <3>2. ASSUME value \in UnsignedNumbers(text)
          PROVE  \E i \in 1 .. l : /\ SpacesBefore(text, i)
                                   /\ \E j \in 1 .. l : /\ EndsWithDigits(text, i, j)
                                                        /\ value = Denoted(SubSeq(text, i, j))
      BY <2>3, <3>1, <3>2, Zenon
    <3>3. ASSUME NEW i \in 1 .. l, SpacesBefore(text, i), NEW j \in 1 .. l,
                 EndsWithDigits(text, i, j), value = Denoted(SubSeq(text, i, j))
          PROVE  value \in UnsignedNumbers(text)
      <4>1. PICK p \in (1 .. l) \X (1 .. l) : p[1] = i /\ p[2] = j
        BY <2>4, Zenon
      <4>2. /\ SpacesBefore(text, p[1]) /\ EndsWithDigits(text, p[1], p[2])
            /\ value = Denoted(SubSeq(text, p[1], p[2]))
        BY <3>3, <4>1, Zenon
      <4>. QED
        BY <3>1, <4>2, Zenon
    <3>. QED
      BY <3>2, <3>3, Zenon
<1>3. \A i \in 1 .. l : i \in 1 .. Len(text) + 1
  BY <1>1
<1>. QED
  BY <1>1, <1>2, <1>3, NumbersAreDenoted, Zenon

\* The numbers with a sign that a text is.
LEMMA SignedAreNumbers ==
  ASSUME NEW text \in Text, NEW value \in Int
  PROVE  value \in SignedNumbers(text) <=>
           \E i \in 1 .. Len(text) :
             /\ SpacesBefore(text, i)
             /\ \/ text[i] = "+" /\ NumberFrom(text, i + 1, value)
                \/ text[i] = "-" /\ NumberFrom(text, i + 1, 0 - value)
<1>1. PICK l \in Nat : l = Len(text) /\ DOMAIN text = 1 .. l
  BY DEF Text
<1>. DEFINE Signed(i, n) == IF text[i] = "-" THEN 0 - n ELSE n
<1>2. value \in SignedNumbers(text) <=>
        \E i \in 1 .. l : /\ SpacesBefore(text, i)
                          /\ text[i] \in {"-", "+"}
                          /\ \E j \in 1 .. l : /\ EndsWithDigits(text, i + 1, j)
                                               /\ value = Signed(i, Denoted(SubSeq(text, i + 1, j)))
  <2>1. \A i : Spaces(text, 1, i - 1) <=> SpacesBefore(text, i)
    BY Zenon DEF Spaces, SpacesBefore, ascii_is_space
  <2>2. Ranges(text) = (1 .. l) \X (1 .. l)
    BY <1>1 DEF Ranges
  <2>3. \A p \in (1 .. l) \X (1 .. l) : p[1] \in 1 .. l /\ p[2] \in 1 .. l
    OBVIOUS
  <2>4. \A i \in 1 .. l : \A j \in 1 .. l : \E p \in (1 .. l) \X (1 .. l) : p[1] = i /\ p[2] = j
    <3>1. PICK S : S = 1 .. l
      OBVIOUS
    <3>2. \A i \in S : \A j \in S : \E p \in S \X S : p[1] = i /\ p[2] = j
      BY PairsExist
    <3>. QED
      BY <3>1, <3>2, ZenonT(60)
  <2>5. SignedNumbers(text) =
          {Signed(p[1], Denoted(SubSeq(text, p[1] + 1, p[2]))) :
             p \in {p \in (1 .. l) \X (1 .. l) :
                      /\ SpacesBefore(text, p[1]) /\ text[p[1]] \in {"-", "+"}
                      /\ EndsWithDigits(text, p[1] + 1, p[2])}}
    BY <2>1, <2>2, Zenon DEF SignedNumbers
  <2>. HIDE DEF Signed
  <2>6. value \in SignedNumbers(text) <=>
          \E p \in (1 .. l) \X (1 .. l) :
            /\ SpacesBefore(text, p[1]) /\ text[p[1]] \in {"-", "+"}
            /\ EndsWithDigits(text, p[1] + 1, p[2])
            /\ value = Signed(p[1], Denoted(SubSeq(text, p[1] + 1, p[2])))
    BY <2>5
  <2>7. ASSUME value \in SignedNumbers(text)
        PROVE  \E i \in 1 .. l : /\ SpacesBefore(text, i)
                                 /\ text[i] \in {"-", "+"}
                                 /\ \E j \in 1 .. l :
                                      /\ EndsWithDigits(text, i + 1, j)
                                      /\ value = Signed(i, Denoted(SubSeq(text, i + 1, j)))
    BY <2>3, <2>6, <2>7, Zenon
  <2>8. ASSUME NEW i \in 1 .. l, SpacesBefore(text, i), text[i] \in {"-", "+"}, NEW j \in 1 .. l,
               EndsWithDigits(text, i + 1, j), value = Signed(i, Denoted(SubSeq(text, i + 1, j)))
        PROVE  value \in SignedNumbers(text)
    <3>1. PICK p \in (1 .. l) \X (1 .. l) : p[1] = i /\ p[2] = j
      BY <2>4, Zenon
    <3>2. /\ SpacesBefore(text, p[1]) /\ text[p[1]] \in {"-", "+"}
          /\ EndsWithDigits(text, p[1] + 1, p[2])
          /\ value = Signed(p[1], Denoted(SubSeq(text, p[1] + 1, p[2])))
      BY <2>8, <3>1, Zenon
    <3>. QED
      BY <2>6, <3>2, Zenon
  <2>. QED
    BY <2>7, <2>8, Zenon
<1>3. ASSUME NEW i \in 1 .. l, NEW j \in 1 .. l, EndsWithDigits(text, i + 1, j)
      PROVE  Denoted(SubSeq(text, i + 1, j)) \in Nat
  <2>1. i + 1 <= j /\ AllDigits(SubSeq(text, i + 1, j))
    BY <1>3, Zenon DEF EndsWithDigits
  <2>2. i + 1 \in 1 .. Len(text) + 1 /\ j \in (i + 1) - 1 .. Len(text)
    BY <1>1, <2>1
  <2>3. SubSeq(text, i + 1, j) \in Text
    BY <2>2, Parts DEF Text
  <2>. QED
    BY <2>1, <2>3, DenotedIsDenoted DEF Text
<1>4. \A i \in 1 .. l : \A v : NumberFrom(text, i + 1, v) <=>
        \E j \in 1 .. l : EndsWithDigits(text, i + 1, j) /\ v = Denoted(SubSeq(text, i + 1, j))
  <2>. SUFFICES ASSUME NEW i \in 1 .. l, NEW v
                PROVE  NumberFrom(text, i + 1, v) <=>
                         \E j \in 1 .. l : /\ EndsWithDigits(text, i + 1, j)
                                           /\ v = Denoted(SubSeq(text, i + 1, j))
    OBVIOUS
  <2>1. PICK k \in 1 .. Len(text) + 1 : k = i + 1
    BY <1>1
  <2>2. NumberFrom(text, k, v) <=>
          \E j \in 1 .. Len(text) : EndsWithDigits(text, k, j) /\ v = Denoted(SubSeq(text, k, j))
    BY NumbersAreDenoted
  <2>. QED
    BY <1>1, <2>1, <2>2, Zenon
<1>5. ASSUME NEW i \in 1 .. l, text[i] \in {"-", "+"}
      PROVE  (\E j \in 1 .. l : /\ EndsWithDigits(text, i + 1, j)
                                /\ value = Signed(i, Denoted(SubSeq(text, i + 1, j))))
             <=> \/ text[i] = "+" /\ NumberFrom(text, i + 1, value)
                 \/ text[i] = "-" /\ NumberFrom(text, i + 1, 0 - value)
  <2>1. CASE text[i] = "-"
    <3>1. \A n \in Nat : value = 0 - n <=> 0 - value = n
      OBVIOUS
    <3>2. \A j \in 1 .. l : EndsWithDigits(text, i + 1, j) =>
            (value = 0 - Denoted(SubSeq(text, i + 1, j)) <=> 0 - value = Denoted(SubSeq(text, i + 1, j)))
      BY <1>3, <3>1, Zenon
    <3>3. "-" # "+"
      OBVIOUS
    <3>. QED
      BY <1>4, <2>1, <3>2, <3>3, Zenon
  <2>2. CASE text[i] = "+"
    <3>1. "-" # "+"
      OBVIOUS
    <3>. QED
      BY <1>4, <2>2, <3>1, Zenon
  <2>. QED
    BY <1>5, <2>1, <2>2
<1>6. "-" \in {"-", "+"} /\ "+" \in {"-", "+"}
  OBVIOUS
<1>. HIDE DEF Signed
<1>. QED
  BY <1>1, <1>2, <1>5, <1>6, Zenon

\* A text is parsed exactly when it is one of the numbers of a type.
LEMMA ParsedExactly ==
  ASSUME NEW parsed, NEW range, NEW numbers,
         parsed # Failed => \E value \in range : parsed = Parsed(value),
         \A value \in range : parsed = Parsed(value) <=> value \in numbers
  PROVE  IsExactly(parsed, numbers \cap range)
<1>1. \A value : Parsed(value).ok = TRUE /\ Parsed(value).value = value
  BY DEF Parsed
<1>2. Failed.ok = FALSE
  BY DEF Failed
<1>3. CASE parsed = Failed
  <2>1. \A value : parsed # Parsed(value)
    BY <1>1, <1>2, <1>3, Zenon
  <2>2. numbers \cap range = {}
    BY <2>1
  <2>. QED
    BY <1>2, <1>3, <2>2, Zenon DEF IsExactly
<1>4. CASE parsed # Failed
  <2>1. PICK value \in range : parsed = Parsed(value)
    BY <1>4
  <2>2. value \in numbers \cap range
    BY <2>1
  <2>. QED
    BY <1>1, <2>1, <2>2, Zenon DEF IsExactly
<1>. QED
  BY <1>3, <1>4

\* A text is parsed as a number exactly when it is one: spaces, a sign for an i32, at
\* least one digit, spaces, and a value that the type holds (parse_u64_ascii,
\* nex_runtime_parse_i32).
THEOREM TextsAreParsed ==
  ASSUME NEW text \in Text
  PROVE  /\ IsExactly(parse_u64(text), UnsignedNumbers(text) \cap 0 .. U64Max)
         /\ IsExactly(parse_i32(text), (UnsignedNumbers(text) \cup SignedNumbers(text)) \cap
                        (0 - TwoTo[IntBits - 1]) .. TwoTo[IntBits - 1] - 1)
<1>1. IsExactly(parse_u64(text), UnsignedNumbers(text) \cap (0 .. U64Max))
  <2>1. /\ parse_u64(text) # Failed => \E value \in 0 .. U64Max : parse_u64(text) = Parsed(value)
        /\ \A value \in 0 .. U64Max :
             parse_u64(text) = Parsed(value) <=>
               \E i \in 1 .. Len(text) : SpacesBefore(text, i) /\ NumberFrom(text, i, value)
    BY ParseU64IsExact DEF Text
  <2>2. \A value \in 0 .. U64Max : parse_u64(text) = Parsed(value) <=> value \in UnsignedNumbers(text)
    BY <2>1, UnsignedAreNumbers, Zenon
  <2>. QED
    BY <2>1, <2>2, ParsedExactly, Zenon
<1>2. IsExactly(parse_i32(text), (UnsignedNumbers(text) \cup SignedNumbers(text)) \cap I32s)
  <2>1. /\ parse_i32(text) # Failed => \E value \in I32s : parse_i32(text) = Parsed(value)
        /\ \A value \in I32s :
             parse_i32(text) = Parsed(value) <=>
               \E i \in 1 .. Len(text) : SpacesBefore(text, i) /\ SignedNumberFrom(text, i, value)
    BY ParseI32IsExact DEF Text
  <2>2. \A value \in I32s : value \in Int
    BY DEF I32s
  <2>3. \A value \in I32s : parse_i32(text) = Parsed(value) <=>
                              value \in UnsignedNumbers(text) \cup SignedNumbers(text)
    <3>1. \A value \in I32s :
            value \in UnsignedNumbers(text) \cup SignedNumbers(text) <=>
              \/ \E i \in 1 .. Len(text) : SpacesBefore(text, i) /\ NumberFrom(text, i, value)
              \/ \E i \in 1 .. Len(text) :
                   /\ SpacesBefore(text, i)
                   /\ \/ text[i] = "+" /\ NumberFrom(text, i + 1, value)
                      \/ text[i] = "-" /\ NumberFrom(text, i + 1, 0 - value)
      BY <2>2, UnsignedAreNumbers, SignedAreNumbers, Zenon
    <3>. QED
      BY <2>1, <3>1, Zenon DEF SignedNumberFrom
  <2>. QED
    BY <2>1, <2>3, ParsedExactly, Zenon
<1>3. I32s = (0 - TwoTo[IntBits - 1]) .. TwoTo[IntBits - 1] - 1
  <2>1. TwoTo[IntBits - 1] \in Int
    BY I32sAreSmall
  <2>. QED
    BY <2>1 DEF I32s
<1>. QED
  BY <1>1, <1>2, <1>3, Zenon

-----------------------------------------------------------------------------
(* Printing a number.                                                      *)

\* power has the powers of a base.
IsPowers(power, base) ==
  /\ power \in [0 .. Bits -> Positive]
  /\ power[0] = 1
  /\ \A k \in 1 .. Bits : power[k] = power[k - 1] * base

\* The recursion of PowersOf is defined.
LEMMA PowersAreBuilt ==
  ASSUME NEW base \in 2 .. 16
  PROVE  IsPowers(PowersOf(base), base)
<1>. DEFINE step == [x \in (1 .. Bits) \X Positive |-> x[2] * base]
            Turns(g) == g = [k \in 0 .. Bits |-> IF k = 0 THEN 1 ELSE g[k - 1] * base]
<1>1. Bits \in Nat
  BY WidthAssumption
<1>2. step \in [(1 .. Bits) \X Positive -> Positive] /\ 1 \in Positive
  <2>1. \A m \in Positive : m * base \in Positive
    BY DEF Positive
  <2>. QED
    BY <2>1 DEF Positive
<1>3. PICK f : IsRecursive(f, Bits, Positive, 1, step)
  <2>. HIDE DEF step
  <2>. QED
    BY <1>1, <1>2, RecursionExists
<1>4. f \in [0 .. Bits -> Positive] /\ f[0] = 1
  BY <1>3 DEF IsRecursive
<1>5. \A k \in 1 .. Bits : f[k] = f[k - 1] * base
  <2>1. \A k \in 1 .. Bits : f[k - 1] \in Positive
    BY <1>1, <1>4
  <2>2. \A k \in 1 .. Bits : f[k] = step[<<k, f[k - 1]>>]
    BY <1>3, Zenon DEF IsRecursive
  <2>. QED
    BY <2>1, <2>2
<1>6. Turns(f)
  BY <1>4, <1>5
<1>7. PICK g : g = CHOOSE h : Turns(h)
  OBVIOUS
<1>8. Turns(g)
  <2>. HIDE DEF Turns
  <2>. QED
    BY <1>6, <1>7
<1>9. g[0] = 1 /\ \A k \in 1 .. Bits : g[k] = g[k - 1] * base
  <2>1. \A k \in 0 .. Bits : g[k] = IF k = 0 THEN 1 ELSE g[k - 1] * base
    BY <1>8, Zenon
  <2>2. 0 \in 0 .. Bits /\ \A k \in 1 .. Bits : k \in 0 .. Bits /\ k # 0
    BY <1>1
  <2>. QED
    BY <2>1, <2>2, Zenon
<1>10. \A k \in 0 .. Bits : f[k] = g[k]
  <2>1. GoAlike(f, g, Bits)
    BY <1>4, <1>5, <1>9 DEF GoAlike
  <2>. QED
    BY <1>1, <2>1, RecursionUnique
<1>11. g \in [0 .. Bits -> Positive]
  BY <1>4, <1>8, <1>10
<1>12. PowersOf(base) = g
  BY <1>7, Zenon DEF PowersOf
<1>. QED
  BY <1>9, <1>11, <1>12, Zenon DEF IsPowers

\* A number is its quotient and a rest.
LEMMA Division ==
  ASSUME NEW a \in Nat, NEW d \in Nat \ {0}
  PROVE  a \div d \in Nat /\ \E r \in 0 .. d - 1 : a = (a \div d) * d + r
OBVIOUS

\* The quotient is known by the multiples around a number.
LEMMA Quotient ==
  ASSUME NEW a \in Nat, NEW d \in Nat \ {0}, NEW q \in Nat, q * d <= a, a < (q + 1) * d
  PROVE  a \div d = q
<1>1. PICK p \in Nat : p = a \div d
  OBVIOUS
<1>2. PICK r \in 0 .. d - 1 : a = p * d + r
  BY <1>1
<1>3. ~(p > q)
  <2>. SUFFICES ASSUME p >= q + 1
                PROVE  FALSE
    OBVIOUS
  <2>1. PICK e \in Nat : p = q + 1 + e
    <3>1. p - (q + 1) \in Nat /\ p = q + 1 + (p - (q + 1))
      OBVIOUS
    <3>. QED
      BY <3>1
  <2>2. p * d = (q + 1) * d + e * d /\ e * d >= 0
    BY <2>1
  <2>. QED
    BY <1>2, <2>2
<1>4. ~(p < q)
  <2>. SUFFICES ASSUME q >= p + 1
                PROVE  FALSE
    OBVIOUS
  <2>1. PICK e \in Nat : q = p + 1 + e
    <3>1. q - (p + 1) \in Nat /\ q = p + 1 + (q - (p + 1))
      OBVIOUS
    <3>. QED
      BY <3>1
  <2>2. q * d = p * d + d + e * d /\ e * d >= 0
    BY <2>1
  <2>. QED
    BY <1>2, <2>2
<1>. QED
  BY <1>1, <1>3, <1>4

\* A turn of the loop divides by the next power.
LEMMA QuotientOfQuotient ==
  ASSUME NEW a \in Nat, NEW p \in Nat \ {0}, NEW b \in Nat \ {0}, NEW l \in Nat,
         l * p <= a, a < (l + 1) * p
  PROVE  (l \div b) * (p * b) <= a /\ a < ((l \div b) + 1) * (p * b)
<1>1. PICK q \in Nat : q = l \div b
  OBVIOUS
<1>2. PICK r \in 0 .. b - 1 : l = q * b + r
  BY <1>1, Division, Zenon
<1>3. l * p = q * (p * b) + r * p /\ r * p >= 0
  <2>1. (q * b + r) * p = q * (p * b) + r * p
    OBVIOUS
  <2>. QED
    BY <1>2, <2>1
<1>4. (q + 1) * (p * b) = (l + 1) * p + (b - 1 - r) * p /\ (b - 1 - r) * p >= 0
  <2>1. (q + 1) * (p * b) = (q * b + r + 1) * p + (b - 1 - r) * p
    OBVIOUS
  <2>. QED
    BY <1>2, <2>1
<1>. QED
  BY <1>1, <1>3, <1>4

\* What is left after some turns is the quotient by a power of the base.
LEMMA RemainingAreQuotients ==
  ASSUME NEW n \in Nat, NEW base \in 2 .. 16, NEW left, IsRemaining(left, n, base),
         NEW power, IsPowers(power, base)
  PROVE  \A k \in 0 .. Bits : /\ left[k] \in Nat
                              /\ left[k] = n \div power[k]
                              /\ left[k] = 0 <=> n < power[k]
<1>1. Bits \in Nat
  BY WidthAssumption
<1>2. /\ left[0] = n /\ \A k \in 0 .. Bits : left[k] \in Nat
      /\ \A k \in 1 .. Bits : left[k] = left[k - 1] \div base
  BY DEF IsRemaining
<1>3. /\ power[0] = 1 /\ \A k \in 0 .. Bits : power[k] \in Nat \ {0}
      /\ \A k \in 1 .. Bits : power[k] = power[k - 1] * base
  BY DEF IsPowers, Positive
<1>. DEFINE A == {k \in Nat : left[k] * power[k] <= n /\ n < (left[k] + 1) * power[k]}
<1>4. 0 \in A
  BY <1>2, <1>3
<1>5. ASSUME NEW k \in 0 .. Bits - 1, k \in A
      PROVE  k + 1 \in A
  <2>1. k + 1 \in 1 .. Bits /\ (k + 1) - 1 = k /\ k \in 0 .. Bits
    BY <1>1
  <2>2. left[k + 1] = left[k] \div base /\ power[k + 1] = power[k] * base
    BY <1>2, <1>3, <2>1, Zenon
  <2>3. left[k] \in Nat /\ power[k] \in Nat \ {0} /\ base \in Nat \ {0}
    BY <1>2, <1>3, <2>1
  <2>4. /\ (left[k] \div base) * (power[k] * base) <= n
        /\ n < ((left[k] \div base) + 1) * (power[k] * base)
    BY <1>5, <2>3, QuotientOfQuotient
  <2>. QED
    BY <2>2, <2>4
<1>6. 0 .. Bits \subseteq A
  <2>. HIDE DEF A
  <2>. QED
    BY <1>1, <1>4, <1>5, UpToInduction
<1>7. ASSUME NEW k \in 0 .. Bits
      PROVE  left[k] = n \div power[k] /\ (left[k] = 0 <=> n < power[k])
  <2>1. PICK l \in Nat, p \in Nat \ {0} : l = left[k] /\ p = power[k]
    BY <1>2, <1>3
  <2>2. l * p <= n /\ n < (l + 1) * p
    BY <1>6, <2>1
  <2>3. n \div p = l
    BY <2>2, Quotient
  <2>4. l = 0 => n < p
    BY <2>2
  <2>5. ~(l >= 1 /\ n < p)
    <3>. SUFFICES ASSUME l >= 1, n < p
                  PROVE  FALSE
      OBVIOUS
    <3>1. PICK e \in Nat : l = e + 1
      <4>1. l - 1 \in Nat /\ l = (l - 1) + 1
        OBVIOUS
      <4>. QED
        BY <4>1
    <3>2. l * p = e * p + p /\ e * p >= 0
      BY <3>1
    <3>. QED
      BY <2>2, <3>2
  <2>. QED
    BY <2>1, <2>3, <2>4, <2>5
<1>. QED
  BY <1>2, <1>7

\* Nothing is left after a turn that leaves nothing.
LEMMA NothingIsLeft ==
  ASSUME NEW n \in Nat, NEW base \in 2 .. 16, NEW left, IsRemaining(left, n, base),
         NEW k \in 0 .. Bits, left[k] = 0, NEW m \in k .. Bits
  PROVE  left[m] = 0
<1>1. Bits \in Nat
  BY WidthAssumption
<1>2. \A j \in 1 .. Bits : left[j] = left[j - 1] \div base
  BY DEF IsRemaining
<1>. DEFINE A == {j \in Nat : left[k + j] = 0}
<1>3. 0 \in A
  OBVIOUS
<1>4. ASSUME NEW j \in 0 .. (Bits - k) - 1, j \in A
      PROVE  j + 1 \in A
  <2>1. k + (j + 1) \in 1 .. Bits /\ (k + (j + 1)) - 1 = k + j
    BY <1>1
  <2>2. left[k + (j + 1)] = left[k + j] \div base
    BY <1>2, <2>1
  <2>. QED
    BY <1>4, <2>2
<1>5. Bits - k \in Nat /\ m - k \in 0 .. Bits - k /\ k + (m - k) = m
  BY <1>1
<1>6. 0 .. Bits - k \subseteq A
  <2>. HIDE DEF A
  <2>. QED
    BY <1>3, <1>4, <1>5, UpToInduction
<1>. QED
  BY <1>5, <1>6

\* The place of the first digit of a number.
IsLength(k, n, power) == n < power[k] /\ (k = 1 \/ n >= power[k - 1])

\* The digits that print_u64_base prints are those of their places, for every number that
\* a uint64_t holds.
THEOREM DigitsArePrinted ==
  ASSUME NEW n \in 0 .. U64Max, NEW base \in 2 .. 16, NEW digits \in Alphabets
  PROVE  DigitsAt(n, base, digits) = print_u64_base(n, base, digits)
<1>1. Bits \in Nat /\ Bits >= 1 /\ n \in Nat /\ base \in Nat /\ base >= 2
  BY WidthAssumption, Wrapping
<1>. DEFINE power == PowersOf(base)
            length == CHOOSE k \in 1 .. Bits : IsLength(k, n, power)
<1>2. IsPowers(power, base)
  BY PowersAreBuilt
<1>4. DigitsAt(n, base, digits) =
        [i \in 1 .. length |-> digits[((n \div power[length - i]) % base) + 1]]
  BY Zenon DEF DigitsAt, IsLength
<1>. HIDE DEF power
<1>3. power[0] = 1 /\ \A k \in 0 .. Bits : power[k] \in Nat \ {0}
  BY <1>2 DEF IsPowers, Positive
<1>5. \A l \in 1 .. Bits : IsLength(l, n, power) /\ (\A k \in 1 .. Bits : IsLength(k, n, power) => k = l)
                            => length = l
  OBVIOUS
<1>. HIDE DEF length
<1>6. CASE n = 0
  <2>1. IsLength(1, n, power) /\ 1 \in 1 .. Bits
    BY <1>1, <1>3, <1>6 DEF IsLength
  <2>2. \A k \in 1 .. Bits : IsLength(k, n, power) => k = 1
    <3>. SUFFICES ASSUME NEW k \in 1 .. Bits, k # 1, n >= power[k - 1]
                  PROVE  FALSE
      BY DEF IsLength
    <3>1. power[k - 1] \in Nat \ {0}
      BY <1>1, <1>3
    <3>. QED
      BY <1>6, <3>1
  <2>3. length = 1
    BY <1>5, <2>1, <2>2, Zenon
  <2>4. digits[1] = "0"
    BY AlphabetsHaveDigits
  <2>5. DigitsAt(n, base, digits) = [i \in 1 .. 1 |-> "0"]
    <3>1. \A i \in 1 .. 1 : ((n \div power[1 - i]) % base) + 1 = 1
      <4>1. (0 \div 1) = 0
        OBVIOUS
      <4>. QED
        BY <1>1, <1>3, <1>6, <4>1
    <3>. QED
      BY <1>4, <2>3, <2>4, <3>1
  <2>6. [i \in 1 .. 1 |-> "0"] = <<"0">>
    OBVIOUS
  <2>. QED
    BY <1>6, <2>5, <2>6, Zenon DEF print_u64_base
<1>7. CASE n # 0
  <2>1. n \in 1 .. U64Max
    BY <1>1, <1>7
  <2>2. PICK left, turns :
          /\ IsRemaining(left, n, base) /\ IsTurns(turns, left) /\ turns >= 1
          /\ digitsOf(n, base, digits) = [i \in 1 .. turns |-> digits[(left[turns - i] % base) + 1]]
    <3>1. \E left, turns : TakesDigits(left, turns, n, base, digits)
      BY <1>1, <2>1, DigitsTaken
    <3>. QED
      BY <3>1, Zenon DEF TakesDigits
  <2>3. \A k \in 0 .. Bits : left[k] = n \div power[k] /\ (left[k] = 0 <=> n < power[k])
    BY <1>1, <1>2, <2>2, RemainingAreQuotients
  <2>4. turns \in 1 .. Bits /\ left[turns] = 0 /\ \A m \in 0 .. turns - 1 : left[m] # 0
    BY <1>1, <2>2 DEF IsTurns
  <2>5. IsLength(turns, n, power)
    <3>1. turns \in 0 .. Bits /\ turns - 1 \in 0 .. Bits /\ turns - 1 \in 0 .. turns - 1
      BY <1>1, <2>4
    <3>2. power[turns] \in Nat /\ power[turns - 1] \in Nat
      BY <1>3, <3>1
    <3>3. n < power[turns] /\ ~(n < power[turns - 1])
      BY <2>3, <2>4, <3>1
    <3>. QED
      BY <1>1, <3>2, <3>3 DEF IsLength
  <2>6. \A k \in 1 .. Bits : IsLength(k, n, power) => k = turns
    <3>. SUFFICES ASSUME NEW k \in 1 .. Bits, IsLength(k, n, power)
                  PROVE  k = turns
      OBVIOUS
    <3>1. k \in 0 .. Bits /\ k - 1 \in 0 .. Bits /\ power[k] \in Nat /\ power[k - 1] \in Nat
      BY <1>1, <1>3
    <3>2. left[k] = 0
      BY <2>3, <3>1 DEF IsLength
    <3>3. k >= turns
      BY <2>4, <3>1, <3>2
    <3>4. ~(k > turns)
      <4>. SUFFICES ASSUME k > turns
                    PROVE  FALSE
        OBVIOUS
      <4>1. k - 1 \in turns .. Bits /\ turns \in 0 .. Bits /\ k # 1
        BY <2>4, <3>1
      <4>2. left[k - 1] = 0
        BY <1>1, <2>2, <2>4, <4>1, NothingIsLeft, SMTT(40)
      <4>3. n < power[k - 1]
        BY <2>3, <3>1, <4>2
      <4>. QED
        BY <1>1, <3>1, <4>1, <4>3 DEF IsLength
    <3>. QED
      BY <2>4, <3>3, <3>4
  <2>7. length = turns
    BY <1>5, <2>4, <2>5, <2>6, Zenon
  <2>8. \A i \in 1 .. turns : left[turns - i] = n \div power[turns - i]
    BY <1>1, <2>3, <2>4
  <2>9. DigitsAt(n, base, digits) = digitsOf(n, base, digits)
    BY <1>4, <2>2, <2>7, <2>8
  <2>. QED
    BY <1>7, <2>9, Zenon DEF print_u64_base
<1>. QED
  BY <1>6, <1>7

-----------------------------------------------------------------------------
(* The calls of the runtime.                                               *)

\* What each call of the runtime writes.
LEMMA WrittenBy ==
  \A piece :
    /\ piece.fn = "print_str" => Written(piece) = {piece.text}
    /\ piece.fn = "print_bool" => Written(piece) = {print_bool(piece.number = 1)}
    /\ piece.fn = "print_i64" => Written(piece) = {print_i64(piece.number)}
    /\ piece.fn = "print_u64" => Written(piece) = {print_u64_decimal(piece.number)}
    /\ piece.fn = "x" => Written(piece) = {print_u64_base(piece.number, 16, LowerDigits)}
    /\ piece.fn = "X" => Written(piece) = {print_u64_base(piece.number, 16, UpperDigits)}
    /\ piece.fn = "b" => Written(piece) = {print_u64_base(piece.number, 2, LowerDigits)}
    /\ piece.fn = "print_f64" =>
         Written(piece) = print_f64_fixed(piece.number, piece.text, piece.precision)
BY DEF Written

\* The rest of a number that is in range, and of one below it.
LEMMA Rests ==
  ASSUME NEW t \in Nat \ {0}
  PROVE  /\ \A v \in 0 .. t - 1 : v % t = v
         /\ \A v \in (0 - t) .. -1 : v % t = v + t
OBVIOUS

\* The halves of the values of a register.
LEMMA Halves ==
  ASSUME NEW w \in {IntBits, Bits}
  PROVE  /\ TwoTo[w - 1] \in Nat \ {0} /\ TwoTo[w] = 2 * TwoTo[w - 1] /\ TwoTo[w] \in Nat \ {0}
         /\ TwoTo[w - 1] <= TwoTo[Bits - 1]
         /\ TwoTo[Bits - 1] \in 2 .. U64Max /\ Modulus = 2 * TwoTo[Bits - 1]
<1>1. w \in 1 .. Bits /\ w - 1 \in 0 .. Bits /\ Bits - 1 \in w - 1 .. Bits /\ Bits - 1 \in 1 .. Bits
  BY WidthAssumption
<1>2. TwoTo[w - 1] \in Positive /\ TwoTo[w] = 2 * TwoTo[w - 1]
  BY <1>1, Powers
<1>3. TwoTo[w - 1] <= TwoTo[Bits - 1]
  BY <1>1, Exponents, PowersGrow
<1>4. Modulus = 2 * TwoTo[Bits - 1] /\ TwoTo[Bits - 1] \in Nat
  BY I32sAreSmall, <1>1, Powers DEF Positive
<1>5. TwoTo[Bits - 1] >= 2
  <2>1. (Bits - 1) - 1 \in 0 .. Bits /\ TwoTo[Bits - 1] = 2 * TwoTo[(Bits - 1) - 1]
    <3>1. Bits \in Nat
      BY WidthAssumption
    <3>2. (Bits - 1) - 1 \in 0 .. Bits
      BY <1>1, <3>1
    <3>. QED
      BY <1>1, <3>2, Powers
  <2>2. TwoTo[(Bits - 1) - 1] \in Positive
    BY <2>1, Powers
  <2>. QED
    BY <2>1, <2>2 DEF Positive
<1>6. TwoTo[w] \in Nat \ {0} /\ TwoTo[w - 1] \in Nat \ {0}
  BY <1>2 DEF Positive
<1>. QED
  BY <1>2, <1>3, <1>4, <1>5, <1>6 DEF U64Max

\* An integer is widened to the 64 bits of its value (widenIntegerArgumentToI64): a
\* negative one to those from the middle on.
LEMMA IntegersAreWidened ==
  ASSUME NEW argument, NEW v \in Int, argument.number = v,
         argument.type \in Integers, v \in numbersOf(argument.type)
  PROVE  /\ widenIntegerArgumentToI64(argument) \in 0 .. U64Max
         /\ widenIntegerArgumentToI64(argument) = v % Modulus
         /\ v >= 0 => widenIntegerArgumentToI64(argument) = v
         /\ ~isUnsignedInteger(argument.type) /\ v >= 0 => v < TwoTo[Bits - 1]
         /\ v < 0 => /\ ~isUnsignedInteger(argument.type)
                     /\ widenIntegerArgumentToI64(argument) = v + Modulus
                     /\ 0 - v \in 0 .. TwoTo[Bits - 1]
<1>1. PICK w \in {IntBits, Bits} : w = width(argument.type)
  BY DEF width
<1>2. PICK h \in Nat \ {0}, t \in Nat \ {0}, q \in 2 .. U64Max :
        /\ h = TwoTo[w - 1] /\ t = TwoTo[w] /\ q = TwoTo[Bits - 1]
        /\ t = 2 * h /\ h <= q /\ Modulus = 2 * q
  BY Halves
<1>3. Modulus \in Nat \ {0} /\ U64Max = 2 * q - 1 /\ U64Max \in Nat
  BY <1>2, Wrapping DEF U64Max
<1>4. /\ \A n \in 0 .. t - 1 : n % t = n
      /\ \A n \in (0 - t) .. -1 : n % t = n + t
  BY Rests
<1>5. /\ \A n \in 0 .. Modulus - 1 : n % Modulus = n
      /\ \A n \in (0 - Modulus) .. -1 : n % Modulus = n + Modulus
  BY <1>3, Rests
<1>6. widenIntegerArgumentToI64(argument) =
        IF ~isUnsignedInteger(argument.type) /\ (v % t) >= h THEN (v % t) + (Modulus - t) ELSE v % t
  <2>1. TwoTo[width(argument.type)] = t /\ TwoTo[width(argument.type) - 1] = h
    BY <1>1, <1>2, Zenon
  <2>2. PICK r : r = argument.number % TwoTo[width(argument.type)]
    OBVIOUS
  <2>3. r = v % t
    BY <2>1, <2>2, Zenon
  <2>4. widenIntegerArgumentToI64(argument) =
          IF ~isUnsignedInteger(argument.type) /\ r >= h THEN r + (Modulus - t) ELSE r
    BY <2>1, <2>2, Zenon DEF widenIntegerArgumentToI64
  <2>. QED
    BY <2>3, <2>4, Zenon
<1>7. CASE argument.type \in {"u32", "u64"}
  <2>1. isUnsignedInteger(argument.type)
    BY <1>7 DEF isUnsignedInteger
  <2>2. v \in 0 .. t - 1
    BY <1>1, <1>2, <1>7 DEF numbersOf
  <2>3. widenIntegerArgumentToI64(argument) = v % t
    BY <1>6, <2>1, Zenon
  <2>4. v % t = v /\ v \in 0 .. U64Max /\ v \in 0 .. Modulus - 1 /\ ~(v < 0)
    <3>1. v % t = v
      BY <1>4, <2>2, Zenon
    <3>2. t <= 2 * q /\ Modulus - 1 = 2 * q - 1 /\ U64Max = 2 * q - 1
      BY <1>2, <1>3
    <3>3. v \in 0 .. 2 * q - 1 /\ ~(v < 0)
      BY <2>2, <3>2
    <3>. QED
      BY <3>1, <3>2, <3>3, Zenon
  <2>5. v % Modulus = v
    BY <1>5, <2>4
  <2>. QED
    BY <2>1, <2>3, <2>4, <2>5, Zenon
<1>8. CASE argument.type \in {"i32", "i64"}
  <2>1. ~isUnsignedInteger(argument.type)
    BY <1>8 DEF isUnsignedInteger
  <2>2. v \in (0 - h) .. h - 1
    BY <1>1, <1>2, <1>8 DEF numbersOf
  <2>3. widenIntegerArgumentToI64(argument) = IF (v % t) >= h THEN (v % t) + (Modulus - t) ELSE v % t
    BY <1>6, <2>1, Zenon
  <2>4. CASE v >= 0
    <3>1. v % t = v
      BY <1>2, <1>4, <2>2, <2>4
    <3>2. ~((v % t) >= h) /\ v \in 0 .. U64Max /\ v \in 0 .. Modulus - 1 /\ v < q /\ ~(v < 0)
      <4>1. h <= q /\ Modulus - 1 = 2 * q - 1 /\ U64Max = 2 * q - 1
        BY <1>2, <1>3
      <4>2. ~(v >= h) /\ v \in 0 .. 2 * q - 1 /\ v < q /\ ~(v < 0)
        BY <2>2, <2>4, <4>1
      <4>. QED
        BY <3>1, <4>1, <4>2, Zenon
    <3>3. widenIntegerArgumentToI64(argument) = v
      BY <2>3, <3>1, <3>2, Zenon
    <3>4. v % Modulus = v
      BY <1>5, <3>2
    <3>. QED
      BY <1>2, <3>2, <3>3, <3>4, Zenon
  <2>5. CASE v < 0
    <3>1. v % t = v + t
      BY <1>2, <1>4, <2>2, <2>5
    <3>2. /\ (v % t) >= h /\ (v + t) + (Modulus - t) = v + Modulus
          /\ v + Modulus \in 0 .. U64Max /\ v \in (0 - Modulus) .. -1 /\ 0 - v \in 0 .. q
          /\ ~(v >= 0)
      BY <1>2, <1>3, <2>2, <2>5, <3>1
    <3>3. widenIntegerArgumentToI64(argument) = v + Modulus
      BY <2>3, <3>1, <3>2
    <3>4. v % Modulus = v + Modulus
      BY <1>5, <3>2
    <3>. QED
      BY <1>2, <2>1, <3>2, <3>3, <3>4, Zenon
  <2>. QED
    BY <2>4, <2>5
<1>. QED
  BY <1>7, <1>8 DEF Integers

\* What is printed for a number is a text.
LEMMA NumeralsAreText ==
  ASSUME NEW n \in 0 .. U64Max
  PROVE  /\ \A base \in 2 .. 16, digits \in Alphabets : print_u64_base(n, base, digits) \in Text
         /\ print_u64_decimal(n) \in Text
         /\ print_i64(n) \in Text
<1>1. ASSUME NEW m \in 0 .. U64Max, NEW base \in 2 .. 16, NEW digits \in Alphabets
      PROVE  print_u64_base(m, base, digits) \in Text
  <2>1. print_u64_base(m, base, digits) \in Seq(DigitsBelow(base, digits))
    BY PrintsNumerals DEF IsNumeral
  <2>2. DigitsBelow(base, digits) \subseteq Chars
    <3>. SUFFICES ASSUME NEW d \in 0 .. base - 1
                  PROVE  digits[d + 1] \in Chars
      BY Zenon DEF DigitsBelow
    <3>1. d + 1 \in 1 .. 16
      OBVIOUS
    <3>. QED
      BY <3>1, Zenon DEF Alphabets, Chars
  <2>. QED
    BY <2>1, <2>2, SeqMonotonic DEF Text
<1>2. ASSUME NEW m \in 0 .. U64Max
      PROVE  print_u64_decimal(m) \in Text
  <2>1. 10 \in 2 .. 16 /\ LowerDigits \in Alphabets
    BY DEF Alphabets
  <2>. QED
    BY <1>1, <2>1 DEF print_u64_decimal
<1>3. print_i64(n) \in Text
  <2>1. CASE n < TwoTo[Bits - 1]
    BY <1>2, <2>1 DEF print_i64
  <2>2. CASE ~(n < TwoTo[Bits - 1])
    <3>1. PICK m : m = U64((U64Max - n) + 1)
      OBVIOUS
    <3>2. m \in 0 .. U64Max
      <4>1. U64Max - n + 1 \in Nat /\ Modulus \in Nat \ {0} /\ U64Max = Modulus - 1
        BY Wrapping DEF U64Max
      <4>2. \A a \in Nat : \A b \in Nat \ {0} : a % b \in 0 .. b - 1
        OBVIOUS
      <4>3. (U64Max - n) + 1 \in Nat
        BY <4>1
      <4>. QED
        BY <3>1, <4>1, <4>2, <4>3 DEF U64
    <3>3. print_u64_decimal(m) \in Text
      BY <1>2, <3>2
    <3>4. <<"-">> \in Text
      BY DEF Text, Chars
    <3>5. \A s, t \in Text : s \o t \in Text
      BY DEF Text
    <3>6. print_i64(n) = <<"-">> \o print_u64_decimal(m)
      BY <2>2, <3>1, Zenon DEF print_i64
    <3>. QED
      BY <3>3, <3>4, <3>5, <3>6, Zenon
  <2>. QED
    BY <2>1, <2>2
<1>. QED
  BY <1>1, <1>2, <1>3

\* The arguments of a call.
Arguments == [type : STRING, number : Int, text : Text]

\* The text that an argument stands for is a text, and is all that is written for it.
LEMMA ArgumentsAreRendered ==
  ASSUME NEW argument \in Arguments, argument.number \in numbersOf(argument.type),
         NEW hole \in Holes, fits(argument.type, hole), argument.type # "f64"
  PROVE  /\ Rendered(argument, hole) \in Text
         /\ lowerOneFormatArgument(argument, hole).fn # "print_f64"
         /\ Written(lowerOneFormatArgument(argument, hole)) = {Rendered(argument, hole)}
<1>1. PICK piece : piece = lowerOneFormatArgument(argument, hole)
  OBVIOUS
<1>2. PICK v \in Int : v = argument.number
  BY DEF Arguments
<1>3. PICK r : r = Rendered(argument, hole)
  OBVIOUS
<1>4. argument.text \in Text
  BY DEF Arguments
<1>5. CASE argument.type = "str"
  <2>1. piece = PrintStr(argument.text)
    BY <1>1, <1>5 DEF lowerOneFormatArgument, Integers
  <2>2. piece.fn = "print_str" /\ piece.text = argument.text
    BY <2>1 DEF PrintStr, Piece
  <2>3. r = argument.text
    BY <1>3, <1>5 DEF Rendered, Integers
  <2>4. piece.fn # "print_f64"
    BY <2>2
  <2>8. Written(piece) = {piece.text}
    BY <2>2, WrittenBy
  <2>. QED
    BY <1>1, <1>3, <1>4, <2>2, <2>3, <2>4, <2>8, Zenon
<1>6. CASE argument.type = "bool"
  <2>1. piece = Piece("print_bool", argument.number, <<>>, 0)
    BY <1>1, <1>6 DEF lowerOneFormatArgument, Integers
  <2>2. piece.fn = "print_bool" /\ piece.number = v
    BY <1>2, <2>1 DEF Piece
  <2>3. r = IF v = 1 THEN True ELSE False
    BY <1>2, <1>3, <1>6 DEF Rendered, Integers
  <2>4. piece.fn # "print_f64"
    BY <2>2
  <2>5. r = print_bool(piece.number = 1)
    BY <2>2, <2>3, Zenon DEF print_bool
  <2>6. True \in Text /\ False \in Text
    BY DEF True, False, Text, Chars
  <2>7. r \in Text
    BY <2>3, <2>6, Zenon
  <2>8. Written(piece) = {print_bool(piece.number = 1)}
    BY <2>2, WrittenBy
  <2>. QED
    BY <1>1, <1>3, <2>2, <2>4, <2>5, <2>7, <2>8, Zenon
<1>7. CASE argument.type \in Integers
  <2>1. PICK u \in 0 .. U64Max :
          /\ u = widenIntegerArgumentToI64(argument)
          /\ u = v % Modulus
          /\ v >= 0 => u = v
          /\ ~isUnsignedInteger(argument.type) /\ v >= 0 => v < TwoTo[Bits - 1]
          /\ v < 0 => ~isUnsignedInteger(argument.type) /\ u = v + Modulus /\ 0 - v \in 0 .. TwoTo[Bits - 1]
    BY <1>2, <1>7, IntegersAreWidened
  <2>2. PICK q \in 2 .. U64Max : q = TwoTo[Bits - 1] /\ Modulus = 2 * q /\ U64Max = 2 * q - 1
    <3>1. Bits \in {IntBits, Bits}
      OBVIOUS
    <3>2. TwoTo[Bits - 1] \in 2 .. U64Max /\ Modulus = 2 * TwoTo[Bits - 1]
      BY <3>1, Halves
    <3>. QED
      BY <3>2 DEF U64Max
  <2>3. /\ argument.type # "bool" /\ argument.type # "str"
        /\ hole.kind \in {"default", "x", "X", "b"}
    <3>1. argument.type # "bool" /\ argument.type # "str"
      BY <1>7 DEF Integers
    <3>2. hole.kind \in Kinds /\ hole.kind # "fixed"
      BY DEF fits, Holes
    <3>. QED
      BY <3>1, <3>2 DEF Kinds
  <2>4. piece = Piece(IF hole.kind \in {"x", "X", "b"} THEN hole.kind
                      ELSE IF isUnsignedInteger(argument.type) THEN "print_u64" ELSE "print_i64",
                      u, <<>>, 0)
    <3>1. lowerOneFormatArgument(argument, hole) =
            Piece(IF hole.kind \in {"x", "X", "b"} THEN hole.kind
                  ELSE IF isUnsignedInteger(argument.type) THEN "print_u64" ELSE "print_i64",
                  widenIntegerArgumentToI64(argument), <<>>, 0)
      BY <1>7, <2>3 DEF lowerOneFormatArgument
    <3>. QED
      BY <1>1, <2>1, <3>1, Zenon
  <2>5. CASE hole.kind = "default"
    <3>1. hole.kind \notin {"x", "X", "b"}
      BY <2>5
    <3>2. PICK minus : minus = IF v < 0 THEN <<"-">> ELSE <<>>
      OBVIOUS
    <3>3. r = minus \o DigitsAt(Absolute(v), 10, LowerDigits)
      <4>1. r = (IF argument.number < 0 THEN <<"-">> ELSE <<>>)
                  \o DigitsAt(Absolute(argument.number), 10, LowerDigits)
        BY <1>3, <1>7, <2>3, <2>5 DEF Rendered
      <4>. QED
        BY <1>2, <3>2, <4>1, Zenon
    <3>4. Absolute(v) \in 0 .. U64Max
      BY <2>1, <2>2 DEF Absolute
    <3>5. r = minus \o print_u64_decimal(Absolute(v))
      <4>1. 10 \in 2 .. 16 /\ LowerDigits \in Alphabets
        BY DEF Alphabets
      <4>2. DigitsAt(Absolute(v), 10, LowerDigits) = print_u64_base(Absolute(v), 10, LowerDigits)
        BY <3>4, <4>1, DigitsArePrinted
      <4>. QED
        BY <3>3, <4>2, Zenon DEF print_u64_decimal
    <3>6. CASE isUnsignedInteger(argument.type)
      <4>1. piece.fn = "print_u64" /\ piece.number = u
        <5>1. piece = Piece("print_u64", u, <<>>, 0)
          BY <2>4, <3>1, <3>6, Zenon
        <5>. QED
          BY <5>1 DEF Piece
      <4>2. v >= 0
        BY <2>1, <3>6
      <4>3. Absolute(v) = u /\ ~(v < 0)
        BY <2>1, <4>2 DEF Absolute
      <4>4. print_u64_decimal(u) \in Text
        BY NumeralsAreText
      <4>5. \A t \in Text : <<>> \o t = t
        BY DEF Text
      <4>6. r = print_u64_decimal(u)
        BY <3>2, <3>5, <4>3, <4>4, <4>5, Zenon
      <4>7. piece.fn # "print_f64"
        BY <4>1
      <4>. QED
        BY <1>1, <1>3, <4>1, <4>4, <4>6, <4>7, WrittenBy, ZenonT(60)
    <3>7. CASE ~isUnsignedInteger(argument.type)
      <4>1. piece.fn = "print_i64" /\ piece.number = u
        <5>1. piece = Piece("print_i64", u, <<>>, 0)
          BY <2>4, <3>1, <3>7, Zenon
        <5>. QED
          BY <5>1 DEF Piece
      <4>2. r = print_i64(u)
        <5>1. CASE v >= 0
          <6>1. Absolute(v) = u /\ ~(v < 0)
            BY <2>1, <5>1 DEF Absolute
          <6>2. u < TwoTo[Bits - 1]
            BY <2>1, <3>7, <5>1, Zenon
          <6>3. print_u64_decimal(u) \in Text
            BY NumeralsAreText
          <6>4. \A t \in Text : <<>> \o t = t
            BY DEF Text
          <6>5. r = print_u64_decimal(u)
            BY <3>2, <3>5, <6>1, <6>3, <6>4, Zenon
          <6>. QED
            BY <6>2, <6>5, Zenon DEF print_i64
        <5>2. CASE v < 0
          <6>1. u = v + Modulus /\ 0 - v \in 0 .. q
            BY <2>1, <2>2, <5>2
          <6>2. ~(u < q) /\ (U64Max - u) + 1 = 0 - v /\ 0 - v \in 0 .. U64Max
            BY <2>2, <5>2, <6>1
          <6>3. U64((U64Max - u) + 1) = 0 - v
            BY <6>2, Wrapping
          <6>4. Absolute(v) = 0 - v
            BY <5>2 DEF Absolute
          <6>. QED
            BY <2>2, <3>2, <3>5, <5>2, <6>2, <6>3, <6>4, Zenon DEF print_i64
        <5>. QED
          BY <5>1, <5>2
      <4>3. r \in Text
        BY <4>2, NumeralsAreText
      <4>4. piece.fn # "print_f64"
        BY <4>1
      <4>. QED
        BY <1>1, <1>3, <4>1, <4>2, <4>3, <4>4, WrittenBy, ZenonT(60)
    <3>. QED
      BY <3>6, <3>7
  <2>6. CASE hole.kind \in {"x", "X", "b"}
    <3>1. PICK base, digits : /\ base = (IF hole.kind = "b" THEN 2 ELSE 16)
                              /\ digits = (IF hole.kind = "X" THEN UpperDigits ELSE LowerDigits)
      OBVIOUS
    <3>2. base \in 2 .. 16 /\ digits \in Alphabets
      BY <3>1 DEF Alphabets
    <3>3. r = DigitsAt(u, base, digits)
      <4>1. hole.kind # "default"
        BY <2>6
      <4>2. r = DigitsAt(argument.number % Modulus, IF hole.kind = "b" THEN 2 ELSE 16,
                         IF hole.kind = "X" THEN UpperDigits ELSE LowerDigits)
        BY <1>3, <1>7, <2>3, <4>1 DEF Rendered
      <4>. QED
        BY <1>2, <2>1, <3>1, <4>2, Zenon
    <3>4. r = print_u64_base(u, base, digits)
      BY <3>2, <3>3, DigitsArePrinted
    <3>5. piece.fn = hole.kind /\ piece.number = u
      <4>1. piece = Piece(hole.kind, u, <<>>, 0)
        BY <2>4, <2>6, Zenon
      <4>. QED
        BY <4>1 DEF Piece
    <3>6. hole.kind # "print_f64"
      BY <2>6
    <3>7. r \in Text
      BY <3>2, <3>4, NumeralsAreText
    <3>8. Written(piece) = {print_u64_base(u, base, digits)}
      <4>1. CASE hole.kind = "x"
        <5>1. base = 16 /\ digits = LowerDigits
          BY <3>1, <4>1
        <5>. QED
          BY <3>5, <4>1, <5>1, WrittenBy, Zenon
      <4>2. CASE hole.kind = "X"
        <5>1. base = 16 /\ digits = UpperDigits
          BY <3>1, <4>2
        <5>. QED
          BY <3>5, <4>2, <5>1, WrittenBy, Zenon
      <4>3. CASE hole.kind = "b"
        <5>1. base = 2 /\ digits = LowerDigits
          BY <3>1, <4>3
        <5>. QED
          BY <3>5, <4>3, <5>1, WrittenBy, Zenon
      <4>. QED
        BY <2>6, <4>1, <4>2, <4>3, Zenon
    <3>. QED
      BY <1>1, <1>3, <3>4, <3>5, <3>6, <3>7, <3>8, Zenon
  <2>. QED
    BY <2>3, <2>5, <2>6, Zenon
<1>8. argument.type \in {"str", "bool"} \cup Integers
  BY DEF fits, isFormatSubstitutionType
<1>. QED
  BY <1>5, <1>6, <1>7, <1>8, Zenon

\* The whole and the places of a float are texts.
LEMMA WholesAreText ==
  ASSUME NEW a \in 0 .. U64Max, NEW precision \in 0 .. MaxPrecision
  PROVE  /\ a \div TenTo[precision] \in 0 .. U64Max
         /\ print_u64_decimal(a \div TenTo[precision]) \in Text
<1>1. a \in Nat
  BY Wrapping
<1>2. PICK p \in Nat \ {0} : p = TenTo[precision]
  BY PowersOfTen DEF Positive
<1>3. PICK q \in Nat, r \in 0 .. p - 1 : q = a \div p /\ a = q * p + r
  BY <1>1, Division
<1>4. PICK e \in Nat : p = e + 1
  <2>1. p - 1 \in Nat /\ p = (p - 1) + 1
    OBVIOUS
  <2>. QED
    BY <2>1
<1>5. q * p = q * e + q /\ q * e >= 0
  BY <1>4
<1>6. q <= a
  BY <1>1, <1>3, <1>5
<1>7. q \in 0 .. U64Max
  BY <1>1, <1>6, Wrapping
<1>. QED
  BY <1>2, <1>3, <1>7, NumeralsAreText

\* The digits printed behind the point are a text.
LEMMA PlacesAreText ==
  ASSUME NEW a \in 0 .. U64Max, NEW precision \in 0 .. MaxPrecision
  PROVE  print_zero_padded_u64(a % TenTo[precision], precision) \in Text
<1>1. PICK r \in Nat : r = a % TenTo[precision]
  <2>1. PICK p \in Nat \ {0} : p = TenTo[precision]
    BY PowersOfTen DEF Positive
  <2>2. a % p \in Nat
    BY Wrapping
  <2>. QED
    BY <2>1, <2>2
<1>2. \A i \in 1 .. precision : LowerDigits[((r \div TenTo[precision - i]) % 10) + 1] \in Chars
  <2>. SUFFICES ASSUME NEW i \in 1 .. precision
                PROVE  LowerDigits[((r \div TenTo[precision - i]) % 10) + 1] \in Chars
    OBVIOUS
  <2>1. PICK p \in Nat \ {0} : p = TenTo[precision - i]
    BY PowersOfTen, WidthAssumption DEF Positive
  <2>2. PICK d \in 1 .. 16 : d = ((r \div p) % 10) + 1
    <3>1. r \div p \in Nat
      BY Division
    <3>2. \A n \in Nat : (n % 10) + 1 \in 1 .. 16
      OBVIOUS
    <3>. QED
      BY <3>1, <3>2
  <2>3. LowerDigits[d] \in Chars
    BY Zenon DEF Chars
  <2>. QED
    BY <2>1, <2>2, <2>3, Zenon
<1>3. PICK f : f = [i \in 1 .. precision |-> LowerDigits[((r \div TenTo[precision - i]) % 10) + 1]]
  OBVIOUS
<1>4. f \in [1 .. precision -> Chars] /\ precision \in Nat
  BY <1>2, <1>3
<1>5. f \in Text
  BY <1>4, FunctionIsSeq, Zenon DEF Text
<1>. QED
  BY <1>1, <1>3, <1>5, Zenon DEF print_zero_padded_u64

-----------------------------------------------------------------------------
(* Floats.                                                                 *)

\* r is half a distance u away from k at most, with no multiple of u in between.
IsRoundedBy(k, u, r) ==
  /\ r \in Nat /\ 2 * (r - k) <= u /\ 2 * (k - r) <= u
  /\ \A c \in Nat : (c * u <= k => c * u <= r) /\ (k <= c * u => r <= c * u)
  /\ u = 1 => r = k

\* The nearest multiple is that.
LEMMA NearestMultiples ==
  ASSUME NEW k \in Nat, NEW u \in Nat \ {0}, NEW r, r = nearestMultiple(k, u)
  PROVE  IsRoundedBy(k, u, r)
<1>1. PICK l \in Nat, s \in 0 .. u - 1 : l = k \div u /\ k = l * u + s
  BY Division
<1>2. k % u = s
  <2>1. PICK w \in Nat, t \in 0 .. u - 1 : t = k % u /\ k = w * u + t
    OBVIOUS
  <2>2. w * u <= k /\ k < (w + 1) * u
    <3>1. (w + 1) * u = w * u + u
      OBVIOUS
    <3>. QED
      BY <2>1, <3>1
  <2>3. w = l
    BY <1>1, <2>2, Quotient
  <2>4. PICK x \in Nat : x = l * u
    OBVIOUS
  <2>. QED
    BY <1>1, <2>1, <2>3, <2>4
<1>3. PICK isUp \in BOOLEAN : isUp <=> 2 * s > u \/ (2 * s = u /\ l % 2 = 1)
  OBVIOUS
<1>4. r = (IF isUp THEN l + 1 ELSE l) * u
  BY <1>1, <1>2, <1>3, Zenon DEF nearestMultiple
<1>5. PICK m \in Nat : m = l * u
  OBVIOUS
<1>6. (l + 1) * u = m + u
  BY <1>5
<1>7. r = IF isUp THEN m + u ELSE m
  BY <1>4, <1>5, <1>6, Zenon
<1>8. k = m + s /\ (isUp => 2 * s >= u) /\ (~isUp => 2 * s <= u)
  BY <1>1, <1>3, <1>5
<1>9. ASSUME NEW c \in Nat
      PROVE  (c * u <= k => c * u <= r) /\ (k <= c * u => r <= c * u)
  <2>1. CASE c <= l
    <3>1. PICK d \in Nat : l = c + d
      <4>1. l - c \in Nat /\ l = c + (l - c)
        BY <2>1
      <4>. QED
        BY <4>1
    <3>2. PICK x \in Nat, y \in Nat : x = c * u /\ y = d * u /\ m = x + y
      <4>1. (c + d) * u = c * u + d * u /\ c * u \in Nat /\ d * u \in Nat
        OBVIOUS
      <4>. QED
        BY <1>5, <3>1, <4>1
    <3>3. k <= x => s = 0 /\ y = 0
      BY <1>8, <3>2
    <3>4. k <= x => ~isUp
      BY <1>8, <3>3
    <3>. QED
      BY <1>7, <3>2, <3>3, <3>4
  <2>2. CASE c > l
    <3>1. PICK d \in Nat : c = (l + 1) + d
      <4>1. c - (l + 1) \in Nat /\ c = (l + 1) + (c - (l + 1))
        BY <2>2
      <4>. QED
        BY <4>1
    <3>2. PICK x \in Nat, y \in Nat : x = c * u /\ y = d * u /\ x = (m + u) + y
      <4>1. ((l + 1) + d) * u = (l + 1) * u + d * u /\ d * u \in Nat
        OBVIOUS
      <4>. QED
        BY <1>6, <3>1, <4>1
    <3>3. ~(x <= k) /\ r <= x
      BY <1>7, <1>8, <3>2
    <3>. QED
      BY <3>2, <3>3
  <2>. QED
    BY <2>1, <2>2
<1>10. r \in Nat /\ 2 * (r - k) <= u /\ 2 * (k - r) <= u
  BY <1>7, <1>8
<1>11. u = 1 => r = k
  BY <1>7, <1>8
<1>. QED
  BY <1>9, <1>10, <1>11, Zenon DEF IsRoundedBy

\* The distance between the neighbours of a number.
LEMMA Ulps ==
  ASSUME NEW units \in Nat
  PROVE  \E e \in 0 .. Bits + FractionBits :
           /\ ulp(units) = TwoTo[e]
           /\ units < TwoTo[SignificandBits + e] \/ e = Bits + FractionBits
           /\ e > 0 => units >= TwoTo[SignificandBits + (e - 1)]
<1>1. PICK top \in Nat : top = Bits + FractionBits
  BY Exponents
<1>2. PICK p \in Nat : p = SignificandBits
  BY Exponents
<1>. DEFINE Fits(e) == units < TwoTo[p + e] \/ e = top
<1>3. PICK S : S = {e \in 0 .. top : Fits(e)}
  OBVIOUS
<1>4. \A d \in 0 .. top : TwoTo[p + d] \in Nat
  <2>1. \A d \in 0 .. top : p + d \in 0 .. MaxExponent
    BY <1>1, <1>2, Exponents
  <2>. QED
    BY <2>1, AllPowers DEF Positive
<1>5. PICK e \in S : \A d \in S : e <= d
  <2>1. S \subseteq Nat /\ top \in S
    BY <1>3
  <2>. QED
    BY <2>1, LeastExists
<1>6. e \in 0 .. top /\ Fits(e) /\ \A d \in 0 .. e - 1 : units >= TwoTo[p + d]
  <2>1. e \in 0 .. top /\ Fits(e)
    BY <1>3
  <2>2. ASSUME NEW d \in 0 .. e - 1
        PROVE  units >= TwoTo[p + d]
    <3>1. d \in 0 .. top /\ ~(e <= d)
      BY <2>1
    <3>2. ~Fits(d)
      BY <1>3, <1>5, <3>1
    <3>. QED
      BY <1>4, <3>1, <3>2
  <2>. QED
    BY <2>1, <2>2
<1>. DEFINE IsLeast(x) == Fits(x) /\ \A d \in 0 .. x - 1 : units >= TwoTo[p + d]
<1>7. PICK x : x = CHOOSE y \in 0 .. top : IsLeast(y)
  OBVIOUS
<1>8. x \in 0 .. top /\ IsLeast(x)
  <2>1. \E y \in 0 .. top : IsLeast(y)
    BY <1>6
  <2>. HIDE DEF IsLeast
  <2>. QED
    BY <1>7, <2>1
<1>9. ulp(units) = TwoTo[x]
  BY <1>1, <1>2, <1>7, Zenon DEF ulp
<1>10. x > 0 => x - 1 \in 0 .. x - 1
  BY <1>8
<1>. QED
  BY <1>1, <1>2, <1>8, <1>9, <1>10

\* A power is a multiple of a smaller one.
LEMMA PowersDivide ==
  ASSUME NEW m \in 0 .. MaxExponent, NEW n \in 0 .. MaxExponent, m + n <= MaxExponent
  PROVE  TwoTo[m + n] = TwoTo[m] * TwoTo[n]
<1>. DEFINE S == {k \in Nat : k <= n => TwoTo[m + k] = TwoTo[m] * TwoTo[k]}
<1>0. MaxExponent \in Nat /\ \A k \in 0 .. MaxExponent : TwoTo[k] \in Nat
  BY Exponents, AllPowers DEF Positive
<1>1. 0 \in S
  <2>1. TwoTo[0] = 1 /\ m + 0 = m
    BY <1>0, AllPowers
  <2>. QED
    BY <1>0, <2>1
<1>2. ASSUME NEW k \in 0 .. n - 1, k \in S
      PROVE  k + 1 \in S
  <2>1. PICK a \in Nat, b \in Nat : a = TwoTo[m] /\ b = TwoTo[k] /\ TwoTo[m + k] = a * b
    BY <1>0, <1>2
  <2>2. TwoTo[m + (k + 1)] = 2 * TwoTo[m + k] /\ TwoTo[k + 1] = 2 * TwoTo[k]
    <3>1. PICK i \in 1 .. MaxExponent : i = m + (k + 1) /\ i - 1 = m + k
      BY <1>0
    <3>2. PICK j \in 1 .. MaxExponent : j = k + 1 /\ j - 1 = k
      BY <1>0
    <3>. QED
      BY <3>1, <3>2, AllPowers, Zenon
  <2>3. 2 * (a * b) = a * (2 * b)
    OBVIOUS
  <2>4. TwoTo[m + (k + 1)] = TwoTo[m] * TwoTo[k + 1]
    BY <2>1, <2>2, <2>3, Zenon
  <2>. QED
    BY <2>4
<1>3. 0 .. n \subseteq S
  <2>1. n \in Nat
    BY <1>0
  <2>. HIDE DEF S
  <2>. QED
    BY <1>1, <1>2, <2>1, UpToInduction
<1>4. n \in 0 .. n
  BY <1>0
<1>. QED
  BY <1>3, <1>4

\* A result is off by at most a part in 2^SignificandBits, and does not leave the space
\* between two multiples of a power that are short enough to be floats.
LEMMA NearestFloats ==
  ASSUME NEW units \in Nat
  PROVE  /\ nearestFloat(units) \in Nat
         /\ TwoTo[SignificandBits] * (nearestFloat(units) - units) <= units
         /\ TwoTo[SignificandBits] * (units - nearestFloat(units)) <= units
         /\ \A f \in 0 .. Bits + FractionBits : \A c \in 0 .. TwoTo[SignificandBits] :
              /\ c * TwoTo[f] <= units => c * TwoTo[f] <= nearestFloat(units)
              /\ units <= c * TwoTo[f] => nearestFloat(units) <= c * TwoTo[f]
<1>0. \A k \in 0 .. MaxExponent : TwoTo[k] \in Nat \ {0}
  BY AllPowers DEF Positive
<1>1. PICK e \in 0 .. Bits + FractionBits :
           /\ ulp(units) = TwoTo[e]
           /\ units < TwoTo[SignificandBits + e] \/ e = Bits + FractionBits
           /\ e > 0 => units >= TwoTo[SignificandBits + (e - 1)]
  BY Ulps
<1>2. e \in 0 .. MaxExponent /\ SignificandBits \in 0 .. MaxExponent
      /\ SignificandBits - 1 \in 0 .. MaxExponent /\ e + SignificandBits \in 0 .. MaxExponent
  BY Exponents
<1>3. PICK u \in Nat \ {0} : u = TwoTo[e]
  BY <1>0, <1>2
<1>4. PICK p \in Nat \ {0} : p = TwoTo[SignificandBits - 1] /\ TwoTo[SignificandBits] = 2 * p
  <2>1. SignificandBits \in 1 .. MaxExponent
    BY Exponents
  <2>. QED
    BY <1>0, <1>2, <2>1, AllPowers
<1>5. PICK r : r = nearestFloat(units)
  OBVIOUS
<1>6. /\ r \in Nat /\ 2 * (r - units) <= u /\ 2 * (units - r) <= u
      /\ \A c \in Nat : (c * u <= units => c * u <= r) /\ (units <= c * u => r <= c * u)
      /\ u = 1 => r = units
  <2>1. r = nearestMultiple(units, u)
    BY <1>1, <1>3, <1>5, Zenon DEF nearestFloat
  <2>2. IsRoundedBy(units, u, r)
    BY <2>1, NearestMultiples
  <2>. QED
    BY <2>2, Zenon DEF IsRoundedBy
<1>7. e > 0 => p * u <= units
  <2>. SUFFICES ASSUME e > 0
                PROVE  p * u <= units
    OBVIOUS
  <2>1. PICK d \in 0 .. MaxExponent : d = SignificandBits - 1
    BY <1>2
  <2>2. d + e = SignificandBits + (e - 1) /\ d + e <= MaxExponent
    BY <1>2, <2>1, Exponents
  <2>3. TwoTo[d + e] = TwoTo[d] * TwoTo[e]
    BY <1>2, <2>2, PowersDivide
  <2>. QED
    BY <1>1, <1>3, <1>4, <2>1, <2>2, <2>3, Zenon
<1>8. e = 0 => r = units
  BY <1>3, <1>6, AllPowers
<1>9. (2 * p) * (r - units) <= units /\ (2 * p) * (units - r) <= units
  <2>1. CASE e = 0
    <3>1. r - units = 0 /\ units - r = 0
      BY <1>6, <1>8, <2>1
    <3>2. (2 * p) * 0 = 0
      OBVIOUS
    <3>. QED
      BY <3>1, <3>2
  <2>2. CASE e > 0
    <3>1. PICK x \in Int : x = r - units
      BY <1>6
    <3>2. 2 * x <= u /\ 2 * (0 - x) <= u
      BY <1>6, <3>1
    <3>3. p * (2 * x) <= p * u /\ p * (2 * (0 - x)) <= p * u
      <4>1. \A a, b \in Int : a <= b => p * a <= p * b
        OBVIOUS
      <4>. QED
        BY <3>2, <4>1
    <3>4. p * (2 * x) = (2 * p) * x /\ p * (2 * (0 - x)) = (2 * p) * (0 - x)
      OBVIOUS
    <3>5. p * u \in Nat /\ p * u <= units
      BY <1>7, <2>2
    <3>6. units - r = 0 - x
      BY <1>6, <3>1
    <3>7. (2 * p) * x \in Int /\ (2 * p) * (0 - x) \in Int
      OBVIOUS
    <3>8. (2 * p) * x <= units /\ (2 * p) * (0 - x) <= units
      <4>1. PICK a \in Int, b \in Int, d \in Nat : a = (2 * p) * x /\ b = (2 * p) * (0 - x) /\ d = p * u
        BY <3>5, <3>7
      <4>2. a <= d /\ b <= d /\ d <= units
        BY <3>3, <3>4, <3>5, <4>1, Zenon
      <4>3. a <= units /\ b <= units
        BY <4>2
      <4>. QED
        BY <4>1, <4>3, Zenon
    <3>. QED
      BY <3>1, <3>6, <3>8, Zenon
  <2>3. e = 0 \/ e > 0
    OBVIOUS
  <2>. QED
    BY <2>1, <2>2, <2>3
<1>10. ASSUME NEW f \in 0 .. Bits + FractionBits, NEW c \in 0 .. 2 * p
       PROVE  /\ c * TwoTo[f] <= units => c * TwoTo[f] <= r
              /\ units <= c * TwoTo[f] => r <= c * TwoTo[f]
  <2>0. f \in 0 .. MaxExponent /\ c \in Nat
    BY Exponents
  <2>1. CASE e <= f
    <3>1. PICK d \in 0 .. MaxExponent : f = e + d
      <4>1. f - e \in 0 .. MaxExponent /\ f = e + (f - e)
        BY <2>0, <2>1, Exponents
      <4>. QED
        BY <4>1
    <3>2. TwoTo[f] = TwoTo[e] * TwoTo[d]
      BY <1>2, <2>0, <3>1, PowersDivide, Exponents
    <3>3. PICK q \in Nat : q = TwoTo[d]
      BY <1>0
    <3>4. c * TwoTo[f] = (c * q) * u /\ c * q \in Nat
      <4>1. c * (u * q) = (c * q) * u /\ c * q \in Nat
        BY <2>0
      <4>. QED
        BY <1>3, <3>2, <3>3, <4>1, Zenon
    <3>. QED
      BY <1>6, <3>4, Zenon
  <2>2. CASE e > f
    <3>1. PICK d \in 0 .. MaxExponent : e = (f + 1) + d /\ (f + 1) \in 1 .. MaxExponent
      <4>1. e - (f + 1) \in 0 .. MaxExponent /\ e = (f + 1) + (e - (f + 1)) /\ (f + 1) \in 1 .. MaxExponent
        BY <1>2, <2>0, <2>2, Exponents
      <4>. QED
        BY <4>1
    <3>2. PICK g \in Nat \ {0} : g = TwoTo[f]
      BY <1>0, <2>0
    <3>3. TwoTo[f + 1] = 2 * g
      <4>1. (f + 1) - 1 = f
        BY <2>0
      <4>. QED
        BY <3>1, <3>2, <4>1, AllPowers
    <3>4. PICK q \in Nat \ {0} : q = TwoTo[d]
      BY <1>0
    <3>5. u = (2 * g) * q
      <4>1. f + 1 \in 0 .. MaxExponent /\ (f + 1) + d <= MaxExponent
        BY <1>2, <3>1
      <4>2. TwoTo[(f + 1) + d] = TwoTo[f + 1] * TwoTo[d]
        BY <4>1, PowersDivide
      <4>. QED
        BY <1>3, <3>1, <3>3, <3>4, <4>2, Zenon
    <3>6. 2 * g <= u
      BY <3>5
    <3>7. c * g <= p * u
      <4>1. c * g <= (2 * p) * g
        BY <2>0
      <4>2. (2 * p) * g = p * (2 * g)
        OBVIOUS
      <4>3. p * (2 * g) <= p * u
        BY <3>6
      <4>4. PICK x \in Nat, y \in Nat, z \in Nat : x = c * g /\ y = (2 * p) * g /\ z = p * u
        BY <2>0
      <4>5. x <= y /\ y <= z
        BY <4>1, <4>2, <4>3, <4>4, Zenon
      <4>. QED
        BY <4>4, <4>5
    <3>8. p * u <= units /\ p * u <= r /\ (units <= p * u => r <= p * u)
      BY <1>6, <1>7, <2>2
    <3>9. PICK x \in Nat, y \in Nat : x = c * g /\ y = p * u
      BY <2>0
    <3>10. (x <= units => x <= r) /\ (units <= x => r <= x)
      BY <1>6, <3>7, <3>8, <3>9
    <3>. QED
      BY <3>2, <3>9, <3>10, Zenon
  <2>. QED
    BY <1>2, <2>0, <2>1, <2>2
<1>. QED
  BY <1>4, <1>5, <1>6, <1>9, <1>10, Zenon

\* One half and one, and the numbers that a float has place for.
LEMMA HalfAndOne ==
  \E h \in Nat \ {0}, q \in Nat \ {0} :
    /\ h = Half /\ One = 2 * h /\ TwoTo[FractionBits] = One /\ TwoTo[FractionBits - 1] = Half
    /\ q = TwoTo[SignificandBits - 1] /\ TwoTo[SignificandBits] = 2 * q /\ q <= U64Max /\ q >= 2
<1>1. FractionBits \in 1 .. MaxExponent /\ SignificandBits \in 1 .. MaxExponent
      /\ FractionBits - 1 \in 0 .. MaxExponent /\ SignificandBits - 1 \in 0 .. MaxExponent
      /\ Bits - 1 \in SignificandBits - 1 .. MaxExponent /\ Bits \in 1 .. MaxExponent
      /\ Bits - 1 \in 0 .. MaxExponent
  BY Exponents, WidthAssumption
<1>2. PICK h \in Nat \ {0}, q \in Nat \ {0}, b \in Nat \ {0} :
        h = TwoTo[FractionBits - 1] /\ q = TwoTo[SignificandBits - 1] /\ b = TwoTo[Bits - 1]
  BY <1>1, AllPowers DEF Positive
<1>3. TwoTo[FractionBits] = 2 * h /\ TwoTo[SignificandBits] = 2 * q /\ TwoTo[Bits] = 2 * b
  BY <1>1, <1>2, AllPowers
<1>4. q <= b
  BY <1>1, <1>2, PowersGrow
<1>5. q <= U64Max
  BY <1>2, <1>3, <1>4 DEF U64Max, Modulus
<1>6. q >= 2
  <2>1. PICK i \in 1 .. MaxExponent : i = SignificandBits - 1
    BY Exponents, WidthAssumption
  <2>2. TwoTo[i] = 2 * TwoTo[i - 1] /\ TwoTo[i - 1] \in Nat \ {0}
    <3>1. i - 1 \in 0 .. MaxExponent
      BY Exponents
    <3>. QED
      BY <3>1, AllPowers DEF Positive
  <2>. QED
    BY <1>2, <2>1, <2>2
<1>. QED
  BY <1>2, <1>3, <1>5, <1>6, Zenon DEF Half, One

\* A sum between two whole numbers is converted to the first, or to the second when it is
\* so near to it that it may be rounded.
LEMMA SumsAreConverted ==
  ASSUME NEW s \in Nat, NEW n \in Nat, n + 1 <= TwoTo[SignificandBits - 1],
         n * One <= s, s <= (n + 1) * One
  PROVE  \/ Converted(nearestFloat(s)) = {n}
         \/ /\ Converted(nearestFloat(s)) = {n + 1}
            /\ TwoTo[SignificandBits] * ((n + 1) * One - s) <= (n + 1) * One
<1>1. PICK h \in Nat \ {0}, q \in Nat \ {0} :
        /\ h = Half /\ One = 2 * h /\ TwoTo[FractionBits] = One /\ TwoTo[FractionBits - 1] = Half
        /\ q = TwoTo[SignificandBits - 1] /\ TwoTo[SignificandBits] = 2 * q /\ q <= U64Max
  BY HalfAndOne
<1>2. PICK one \in Nat \ {0} : one = One
  BY <1>1
<1>3. PICK r \in Nat :
        /\ r = nearestFloat(s)
        /\ (2 * q) * (r - s) <= s
        /\ \A c \in 0 .. 2 * q : (c * one <= s => c * one <= r) /\ (s <= c * one => r <= c * one)
  <2>1. FractionBits \in 0 .. Bits + FractionBits
    BY Exponents
  <2>2. /\ nearestFloat(s) \in Nat
        /\ TwoTo[SignificandBits] * (nearestFloat(s) - s) <= s
        /\ \A f \in 0 .. Bits + FractionBits : \A c \in 0 .. TwoTo[SignificandBits] :
              /\ c * TwoTo[f] <= s => c * TwoTo[f] <= nearestFloat(s)
              /\ s <= c * TwoTo[f] => nearestFloat(s) <= c * TwoTo[f]
    BY NearestFloats
  <2>. QED
    BY <1>1, <1>2, <2>1, <2>2, Zenon
<1>4. n \in 0 .. 2 * q /\ n + 1 \in 0 .. 2 * q /\ n <= U64Max /\ n + 1 <= U64Max
  <2>1. n + 1 <= q
    BY <1>1
  <2>2. U64Max \in Nat
    BY Wrapping
  <2>. QED
    BY <1>1, <2>1, <2>2
<1>5. n * one <= r /\ r <= (n + 1) * one
  BY <1>2, <1>3, <1>4, Zenon
<1>6. PICK m \in Nat : m = (n + 1) * one
  OBVIOUS
<1>7. CASE r < m
  <2>1. r \div one = n
    BY <1>5, <1>6, <1>7, Quotient
  <2>. QED
    BY <1>2, <1>3, <1>4, <2>1, Zenon DEF Converted
<1>8. CASE r = m
  <2>1. r \div one = n + 1
    <3>1. (n + 1 + 1) * one = m + one /\ n + 1 \in Nat
      BY <1>6
    <3>2. (n + 1) * one <= r /\ r < (n + 1 + 1) * one
      BY <1>6, <1>8, <3>1
    <3>. QED
      BY <3>1, <3>2, Quotient
  <2>2. Converted(r) = {n + 1}
    BY <1>2, <1>4, <2>1, Zenon DEF Converted
  <2>3. (2 * q) * (m - s) <= m
    <3>1. s <= m
      BY <1>2, <1>6
    <3>2. PICK d \in Int : d = (2 * q) * (m - s)
      BY <1>6
    <3>3. d <= s
      BY <1>3, <1>8, <3>2
    <3>. QED
      BY <3>1, <3>2, <3>3
  <2>. QED
    BY <1>1, <1>2, <1>3, <1>6, <2>2, <2>3, Zenon
<1>9. r < m \/ r = m
  BY <1>5, <1>6
<1>. QED
  BY <1>7, <1>8, <1>9

\* What is converted is a number.
LEMMA SumsAreNumbers ==
  ASSUME NEW magnitude \in Nat, NEW scale \in Nat \ {0}
  PROVE  rounded(magnitude, scale) \subseteq Nat
<1>1. PICK x \in Nat, h \in Nat : x = magnitude * scale /\ h = Half
  <2>1. magnitude * scale \in Nat
    OBVIOUS
  <2>. QED
    BY <2>1, HalfAndOne
<1>2. \A k \in Nat : nearestFloat(k) \in Nat
  BY NearestFloats
<1>3. nearestFloat(x) + h \in Nat /\ x + h \in Nat
  BY <1>2
<1>. QED
  BY <1>1, <1>2, <1>3 DEF rounded

\* It is converted to something.
LEMMA NumbersAreConverted ==
  ASSUME NEW sum \in Nat
  PROVE  Converted(sum) # {} /\ Converted(sum) \subseteq 0 .. U64Max
<1>1. PICK one \in Nat \ {0} : one = One
  BY HalfAndOne
<1>2. PICK q \in Nat : q = sum \div one
  BY Division
<1>3. Converted(sum) = IF q <= U64Max THEN {q} ELSE 0 .. U64Max
  BY <1>1, <1>2, Zenon DEF Converted
<1>. QED
  BY <1>3, Wrapping, SMTT(40)

\* What is printed for a float is a text, and there is one.
LEMMA FloatsAreTexts ==
  ASSUME NEW units \in Int, NEW name \in Text, NEW precision \in 0 .. MaxPrecision
  PROVE  /\ print_f64_fixed(units, name, precision) # {}
         /\ print_f64_fixed(units, name, precision) \subseteq Text
<1>1. CASE name # <<>>
  <2>1. print_f64_fixed(units, name, precision) = {name}
    BY <1>1, Zenon DEF print_f64_fixed
  <2>. QED
    BY <2>1
<1>2. CASE name = <<>>
  <2>1. PICK scale \in Nat \ {0} : scale = TenTo[precision]
    BY PowersOfTen DEF Positive
  <2>2. PICK magnitude \in Nat : magnitude = IF units < 0 THEN 0 - units ELSE units
    OBVIOUS
  <2>3. PICK values : values = UNION {Converted(sum) : sum \in rounded(magnitude, scale)}
    OBVIOUS
  <2>4. values # {} /\ values \subseteq 0 .. U64Max
    <3>1. \A sum \in rounded(magnitude, scale) :
             Converted(sum) # {} /\ Converted(sum) \subseteq 0 .. U64Max
      BY <2>1, <2>2, SumsAreNumbers, NumbersAreConverted
    <3>2. rounded(magnitude, scale) # {}
      BY Zenon DEF rounded
    <3>. QED
      BY <2>3, <3>1, <3>2
  <2>5. PICK sign \in Text : sign = IF units < 0 THEN <<"-">> ELSE <<>>
    <3>1. <<"-">> \in Text /\ <<>> \in Text
      BY DEF Text, Chars
    <3>. QED
      BY <3>1
  <2>6. \A v \in 0 .. U64Max : print_u64_decimal(v \div scale) \in Text
    BY <2>1, WholesAreText, Zenon
  <2>7. \A v \in 0 .. U64Max : print_zero_padded_u64(v % scale, precision) \in Text
    BY <2>1, PlacesAreText, Zenon
  <2>8. print_f64_fixed(units, name, precision) =
          {sign \o print_u64_decimal(v \div scale)
             \o (IF precision = 0 THEN <<>> ELSE <<".">> \o print_zero_padded_u64(v % scale, precision)) :
             v \in values}
    BY <1>2, <2>1, <2>2, <2>3, <2>5, Zenon DEF print_f64_fixed
  <2>9. \A s, t \in Text : s \o t \in Text
    BY DEF Text
  <2>10. <<".">> \in Text /\ <<>> \in Text
    BY DEF Text, Chars
  <2>11. \A v \in 0 .. U64Max :
           sign \o print_u64_decimal(v \div scale)
             \o (IF precision = 0 THEN <<>> ELSE <<".">> \o print_zero_padded_u64(v % scale, precision))
           \in Text
    BY <2>6, <2>7, <2>9, <2>10, Zenon
  <2>12. print_f64_fixed(units, name, precision) # {}
    BY <2>4, <2>8
  <2>13. print_f64_fixed(units, name, precision) \subseteq Text
    BY <2>4, <2>8, <2>11, Zenon
  <2>. QED
    BY <2>12, <2>13, Zenon
<1>. QED
  BY <1>1, <1>2

\* The one text that a call of the runtime writes, if it is not for a float.
Sole(piece) == CHOOSE text : text \in Written(piece)

Functions == {"print_str", "print_bool", "print_i64", "print_u64", "x", "X", "b", "print_f64"}

\* The calls of the runtime that a program makes.
RuntimeCalls ==
  {piece \in [fn : Functions, number : Int, text : Text, precision : 0 .. MaxPrecision] :
     /\ Written(piece) # {} /\ Written(piece) \subseteq Text
     /\ piece.fn # "print_f64" => Written(piece) = {Sole(piece)}}

\* The sole text of a call is a text.
LEMMA SoleIsText ==
  ASSUME NEW piece \in RuntimeCalls
  PROVE  Sole(piece) \in Text /\ Sole(piece) \in Written(piece)
BY DEF Sole, RuntimeCalls

\* A call that writes one text.
LEMMA OneText ==
  ASSUME NEW piece, NEW text \in Text, Written(piece) = {text},
         piece \in [fn : Functions, number : Int, text : Text, precision : 0 .. MaxPrecision]
  PROVE  piece \in RuntimeCalls /\ Sole(piece) = text
<1>1. Sole(piece) = text
  BY DEF Sole
<1>2. Written(piece) # {} /\ Written(piece) \subseteq Text /\ Written(piece) = {Sole(piece)}
  BY <1>1
<1>. QED
  BY <1>1, <1>2, Zenon DEF RuntimeCalls

\* The call that prints a text.
LEMMA StringsAreCalls ==
  ASSUME NEW text \in Text
  PROVE  /\ PrintStr(text) \in RuntimeCalls /\ PrintStr(text).fn # "print_f64"
         /\ Sole(PrintStr(text)) = text
<1>1. PICK piece : piece = PrintStr(text)
  OBVIOUS
<1>2. piece.fn = "print_str" /\ piece.text = text
  BY <1>1 DEF PrintStr, Piece
<1>3. piece \in [fn : Functions, number : Int, text : Text, precision : 0 .. MaxPrecision]
  <2>1. 0 \in 0 .. MaxPrecision /\ "print_str" \in Functions
    BY WidthAssumption DEF Functions
  <2>. QED
    BY <1>1, <2>1 DEF PrintStr, Piece
<1>4. Written(piece) = {text}
  BY <1>2, WrittenBy
<1>5. piece.fn # "print_f64"
  BY <1>2
<1>. QED
  BY <1>1, <1>3, <1>4, <1>5, OneText

\* The call for an argument.
LEMMA ArgumentsAreCalls ==
  ASSUME NEW argument \in Arguments, argument.number \in numbersOf(argument.type),
         NEW hole \in Holes, fits(argument.type, hole)
  PROVE  /\ lowerOneFormatArgument(argument, hole) \in RuntimeCalls
         /\ argument.type # "f64" =>
              /\ lowerOneFormatArgument(argument, hole).fn # "print_f64"
              /\ Sole(lowerOneFormatArgument(argument, hole)) = Rendered(argument, hole)
<1>1. PICK piece : piece = lowerOneFormatArgument(argument, hole)
  OBVIOUS
<1>2. argument.text \in Text /\ argument.number \in Int
  BY DEF Arguments
<1>3. argument.type \in {"str", "bool", "f64"} \cup Integers
  BY DEF fits, isFormatSubstitutionType
<1>4. <<>> \in Text /\ 0 \in 0 .. MaxPrecision /\ 0 \in Int
  BY WidthAssumption DEF Text
<1>5. piece \in [fn : Functions, number : Int, text : Text, precision : 0 .. MaxPrecision]
  <2>1. CASE argument.type = "str"
    <3>1. piece = PrintStr(argument.text)
      BY <1>1, <2>1 DEF lowerOneFormatArgument, Integers
    <3>. QED
      BY <1>2, <3>1, StringsAreCalls DEF RuntimeCalls
  <2>2. CASE argument.type = "bool"
    <3>1. piece = Piece("print_bool", argument.number, <<>>, 0)
      BY <1>1, <2>2 DEF lowerOneFormatArgument, Integers
    <3>2. "print_bool" \in Functions
      BY DEF Functions
    <3>. QED
      BY <1>2, <1>4, <3>1, <3>2 DEF Piece
  <2>3. CASE argument.type \in Integers
    <3>1. PICK u \in 0 .. U64Max : u = widenIntegerArgumentToI64(argument)
      BY <1>2, <2>3, IntegersAreWidened
    <3>2. PICK fn : fn = IF hole.kind \in {"x", "X", "b"} THEN hole.kind
                         ELSE IF isUnsignedInteger(argument.type) THEN "print_u64" ELSE "print_i64"
      OBVIOUS
    <3>3. fn \in Functions
      <4>1. fn \in {"x", "X", "b", "print_u64", "print_i64"}
        BY <3>2
      <4>. QED
        BY <4>1 DEF Functions
    <3>4. piece = Piece(fn, u, <<>>, 0)
      <4>1. piece = Piece(IF hole.kind \in {"x", "X", "b"} THEN hole.kind
                          ELSE IF isUnsignedInteger(argument.type) THEN "print_u64" ELSE "print_i64",
                          widenIntegerArgumentToI64(argument), <<>>, 0)
        BY <1>1, <2>3 DEF lowerOneFormatArgument, Integers
      <4>. QED
        BY <3>1, <3>2, <4>1, Zenon
    <3>5. u \in Int
      OBVIOUS
    <3>. QED
      BY <1>4, <3>3, <3>4, <3>5 DEF Piece
  <2>4. CASE argument.type = "f64"
    <3>1. PICK p \in 0 .. MaxPrecision : p = IF hole.kind = "fixed" THEN hole.precision ELSE DefaultPrecision
      BY WidthAssumption DEF Holes
    <3>2. piece = Piece("print_f64", argument.number, argument.text, p)
      BY <1>1, <2>4, <3>1 DEF lowerOneFormatArgument, Integers
    <3>3. "print_f64" \in Functions
      BY DEF Functions
    <3>. QED
      BY <1>2, <3>2, <3>3 DEF Piece
  <2>. QED
    BY <1>3, <2>1, <2>2, <2>3, <2>4, Zenon
<1>6. CASE argument.type = "f64"
  <2>1. piece.fn = "print_f64"
    BY <1>1, <1>6 DEF lowerOneFormatArgument, Integers, Piece
  <2>2. Written(piece) = print_f64_fixed(piece.number, piece.text, piece.precision)
    BY <2>1, WrittenBy
  <2>3. piece.number \in Int /\ piece.text \in Text /\ piece.precision \in 0 .. MaxPrecision
    BY <1>5
  <2>4. Written(piece) # {} /\ Written(piece) \subseteq Text
    BY <2>2, <2>3, FloatsAreTexts
  <2>. QED
    BY <1>1, <1>5, <1>6, <2>1, <2>4, Zenon DEF RuntimeCalls
<1>7. CASE argument.type # "f64"
  <2>1. /\ Rendered(argument, hole) \in Text /\ piece.fn # "print_f64"
        /\ Written(piece) = {Rendered(argument, hole)}
    BY <1>1, <1>7, ArgumentsAreRendered
  <2>. QED
    BY <1>1, <1>5, <2>1, OneText
<1>. QED
  BY <1>6, <1>7

-----------------------------------------------------------------------------
(* What a sequence of calls writes.                                        *)

\* The texts of calls of the runtime, and all of them one after the other.
Texts(ps) == [i \in DOMAIN ps |-> Sole(ps[i])]
Says(ps) == FlattenSeq(Texts(ps))

\* Each call writes a text.
LEMMA TextsAreTexts ==
  ASSUME NEW ps \in Seq(RuntimeCalls)
  PROVE  /\ Texts(ps) \in Seq(Text) /\ Len(Texts(ps)) = Len(ps)
         /\ \A i \in 1 .. Len(ps) : Texts(ps)[i] = Sole(ps[i])
         /\ Says(ps) \in Text
<1>1. PICK n \in Nat : n = Len(ps) /\ DOMAIN ps = 1 .. n
  OBVIOUS
<1>2. PICK f : f = [i \in 1 .. n |-> Sole(ps[i])]
  OBVIOUS
<1>3. \A i \in 1 .. n : Sole(ps[i]) \in Text
  <2>1. \A i \in 1 .. n : ps[i] \in RuntimeCalls
    BY <1>1
  <2>. QED
    BY <2>1, SoleIsText
<1>4. f \in [1 .. n -> Text] /\ \A i \in 1 .. n : f[i] = Sole(ps[i])
  BY <1>2, <1>3
<1>5. f \in Seq(Text) /\ Len(f) = n
  BY <1>4, FunctionIsSeq, Zenon
<1>6. Texts(ps) = f
  BY <1>1, <1>2, Zenon DEF Texts
<1>7. FlattenSeq(f) \in Text
  BY <1>5, FlattenType DEF Text
<1>. QED
  BY <1>1, <1>4, <1>5, <1>6, <1>7, Zenon DEF Says

\* No call writes nothing, and one its text.
LEMMA SaysOne ==
  /\ Says(<<>>) = <<>>
  /\ \A piece \in RuntimeCalls : Says(<<piece>>) = Sole(piece)
<1>1. Texts(<<>>) = <<>>
  BY DEF Texts
<1>2. ASSUME NEW piece \in RuntimeCalls
      PROVE  Says(<<piece>>) = Sole(piece)
  <2>1. PICK t \in Text : t = Sole(piece)
    BY SoleIsText
  <2>2. Texts(<<piece>>) = <<t>>
    BY <2>1 DEF Texts
  <2>3. <<t>> \in Seq(Text) /\ <<t>> # <<>> /\ Head(<<t>>) = t /\ Tail(<<t>>) = <<>>
    OBVIOUS
  <2>4. FlattenSeq(<<t>>) = t \o FlattenSeq(<<>>)
    BY <2>3, FlattenHeadTail DEF Text
  <2>5. t \o <<>> = t
    BY DEF Text
  <2>. QED
    BY <2>1, <2>2, <2>4, <2>5, FlattenEmpty, Zenon DEF Says
<1>. QED
  BY <1>1, <1>2, FlattenEmpty, Zenon DEF Says

\* Calls after calls write their texts after them.
LEMMA SaysBoth ==
  ASSUME NEW ps \in Seq(RuntimeCalls), NEW qs \in Seq(RuntimeCalls)
  PROVE  Says(ps \o qs) = Says(ps) \o Says(qs)
<1>1. PICK rs \in Seq(RuntimeCalls) : rs = ps \o qs
  BY ConcatProperties
<1>2. PICK m \in Nat, n \in Nat : m = Len(ps) /\ n = Len(qs)
  OBVIOUS
<1>3. /\ Len(rs) = m + n
      /\ \A i \in 1 .. m + n : rs[i] = IF i <= m THEN ps[i] ELSE qs[i - m]
  BY <1>1, <1>2, ConcatProperties
<1>4. PICK s \in Seq(Text), t \in Seq(Text), u \in Seq(Text) :
        s = Texts(ps) /\ t = Texts(qs) /\ u = Texts(rs)
  BY TextsAreTexts
<1>5. /\ Len(s) = m /\ \A i \in 1 .. m : s[i] = Sole(ps[i])
      /\ Len(t) = n /\ \A i \in 1 .. n : t[i] = Sole(qs[i])
      /\ Len(u) = m + n /\ \A i \in 1 .. m + n : u[i] = Sole(rs[i])
  BY <1>2, <1>3, <1>4, TextsAreTexts
<1>6. PICK v \in Seq(Text) : v = s \o t
  BY ConcatProperties
<1>7. /\ Len(v) = m + n
      /\ \A i \in 1 .. m + n : v[i] = IF i <= m THEN s[i] ELSE t[i - m]
  BY <1>5, <1>6, ConcatProperties
<1>8. ASSUME NEW i \in 1 .. m + n
      PROVE  u[i] = v[i]
  <2>1. CASE i <= m
    <3>1. i \in 1 .. m
      BY <2>1
    <3>. QED
      BY <1>3, <1>5, <1>7, <2>1, <3>1, ZenonT(60)
  <2>2. CASE ~(i <= m)
    <3>1. i - m \in 1 .. n
      BY <2>2
    <3>. QED
      BY <1>3, <1>5, <1>7, <2>2, <3>1, Zenon
  <2>. QED
    BY <2>1, <2>2
<1>9. u = v
  <2>1. \A i \in 1 .. Len(u) : u[i] = v[i]
    BY <1>5, <1>8, Zenon
  <2>2. Len(u) = Len(v)
    BY <1>5, <1>7, Zenon
  <2>. QED
    BY <2>1, <2>2, SeqEqual
<1>10. FlattenSeq(s \o t) = FlattenSeq(s) \o FlattenSeq(t)
  BY FlattenConcatenation DEF Text
<1>. QED
  BY <1>1, <1>4, <1>6, <1>9, <1>10, Zenon DEF Says

\* The first call writes first.
LEMMA SaysFirst ==
  ASSUME NEW ps \in Seq(RuntimeCalls), ps # <<>>
  PROVE  /\ Head(ps) \in RuntimeCalls /\ Tail(ps) \in Seq(RuntimeCalls)
         /\ Says(ps) = Sole(Head(ps)) \o Says(Tail(ps))
<1>1. PICK piece \in RuntimeCalls : piece = Head(ps)
  OBVIOUS
<1>2. PICK rest \in Seq(RuntimeCalls) : rest = Tail(ps)
  BY HeadTailProperties
<1>3. ps = <<piece>> \o rest
  BY <1>1, <1>2
<1>4. <<piece>> \in Seq(RuntimeCalls)
  OBVIOUS
<1>5. Says(<<piece>> \o rest) = Says(<<piece>>) \o Says(rest)
  BY <1>4, SaysBoth
<1>6. Says(<<piece>>) = Sole(piece)
  BY SaysOne
<1>. QED
  BY <1>1, <1>2, <1>3, <1>5, <1>6, Zenon

\* Groups of calls write what each of them writes.
LEMMA SaysAll ==
  ASSUME NEW pss \in Seq(Seq(RuntimeCalls)), NEW tt \in Seq(Text), Len(tt) = Len(pss),
         \A i \in 1 .. Len(pss) : tt[i] = Says(pss[i])
  PROVE  FlattenSeq(pss) \in Seq(RuntimeCalls) /\ Says(FlattenSeq(pss)) = FlattenSeq(tt)
<1>1. PICK n \in Nat : n = Len(pss)
  OBVIOUS
<1>2. PICK f : IsPrefixes(f, RuntimeCalls, pss)
  BY PrefixesExist
<1>3. PICK g : IsPrefixes(g, Chars, tt)
  BY PrefixesExist DEF Text
<1>4. /\ f \in [0 .. n -> Seq(RuntimeCalls)] /\ f[0] = <<>>
      /\ \A i \in 1 .. n : f[i] = f[i - 1] \o pss[i]
  BY <1>1, <1>2, Zenon DEF IsPrefixes
<1>5. g[0] = <<>> /\ \A i \in 1 .. n : g[i] = g[i - 1] \o Says(pss[i])
  BY <1>1, <1>3, Zenon DEF IsPrefixes
<1>. DEFINE A == {i \in Nat : Says(f[i]) = g[i]}
<1>6. 0 \in A
  BY <1>4, <1>5, SaysOne
<1>7. ASSUME NEW i \in 0 .. n - 1, i \in A
      PROVE  i + 1 \in A
  <2>1. i + 1 \in 1 .. n /\ (i + 1) - 1 = i /\ i \in 0 .. n /\ i + 1 \in Nat
    OBVIOUS
  <2>2. f[i] \in Seq(RuntimeCalls)
    BY <1>4, <2>1, Zenon
  <2>3. pss[i + 1] \in Seq(RuntimeCalls)
    BY <1>1, <2>1
  <2>4. f[i + 1] = f[i] \o pss[i + 1] /\ g[i + 1] = g[i] \o Says(pss[i + 1])
    BY <1>4, <1>5, <2>1, Zenon
  <2>5. Says(f[i] \o pss[i + 1]) = Says(f[i]) \o Says(pss[i + 1])
    BY <2>2, <2>3, SaysBoth
  <2>6. Says(f[i]) = g[i]
    BY <1>7
  <2>7. Says(f[i + 1]) = g[i + 1]
    BY <2>4, <2>5, <2>6, Zenon
  <2>. QED
    BY <2>1, <2>7
<1>8. Says(f[n]) = g[n]
  <2>. HIDE DEF A
  <2>1. 0 .. n \subseteq A
    BY <1>6, <1>7, UpToInduction
  <2>2. n \in A
    BY <2>1
  <2>. QED
    BY <2>2 DEF A
<1>9. FlattenSeq(pss) = f[n] /\ f[n] \in Seq(RuntimeCalls)
  <2>1. n \in 0 .. n
    OBVIOUS
  <2>. QED
    BY <1>1, <1>2, <1>4, <2>1, FlattenIsLastPrefix, Zenon
<1>10. FlattenSeq(tt) = g[n]
  <2>1. tt \in Seq(Seq(Chars))
    BY DEF Text
  <2>. QED
    BY <1>1, <1>3, <2>1, FlattenIsLastPrefix, Zenon
<1>. QED
  BY <1>8, <1>9, <1>10, Zenon

\* The calls of the runtime but those for floats: each writes its sole text.
PlainCalls == {piece \in RuntimeCalls : piece.fn # "print_f64"}

\* They are calls of the runtime, and write their sole text.
LEMMA PlainAreCalls ==
  /\ Seq(PlainCalls) \subseteq Seq(RuntimeCalls)
  /\ \A piece \in PlainCalls : Written(piece) = {Sole(piece)}
<1>1. PlainCalls \subseteq RuntimeCalls
  BY DEF PlainCalls
<1>2. Seq(PlainCalls) \subseteq Seq(RuntimeCalls)
  BY <1>1, SeqMonotonic
<1>3. \A piece \in PlainCalls : Written(piece) = {Sole(piece)}
  BY Zenon DEF PlainCalls, RuntimeCalls
<1>. QED
  BY <1>2, <1>3

\* A text between placeholders is written, also the empty one that no call is made for.
LEMMA SegmentsAreWritten ==
  ASSUME NEW text \in Text
  PROVE  /\ Segment(text) \in Seq(PlainCalls) /\ Says(Segment(text)) = text
         /\ <<PrintStr(text)>> \in Seq(PlainCalls) /\ Says(<<PrintStr(text)>>) = text
<1>1. PICK piece \in PlainCalls : piece = PrintStr(text) /\ Sole(piece) = text
  BY StringsAreCalls DEF PlainCalls
<1>2. <<piece>> \in Seq(PlainCalls) /\ <<>> \in Seq(PlainCalls)
  OBVIOUS
<1>3. piece \in RuntimeCalls
  BY DEF PlainCalls
<1>4. Says(<<piece>>) = text
  BY <1>1, <1>3, SaysOne, Zenon
<1>5. Segment(text) = IF text = <<>> THEN <<>> ELSE <<piece>>
  BY <1>1, Zenon DEF Segment
<1>. QED
  BY <1>1, <1>2, <1>4, <1>5, SaysOne, Zenon

\* The newline of println.
EndOfLine(c) == IF c.newline THEN <<"\n">> ELSE <<>>

\* The call for it writes it.
LEMMA NewlinesAreWritten ==
  ASSUME NEW c, IsCall(c)
  PROVE  Newline(c) \in Seq(PlainCalls) /\ Says(Newline(c)) = EndOfLine(c) /\ EndOfLine(c) \in Text
<1>1. <<"\n">> \in Text /\ <<>> \in Text
  BY DEF Text, Chars
<1>2. <<PrintStr(<<"\n">>)>> \in Seq(PlainCalls) /\ Says(<<PrintStr(<<"\n">>)>>) = <<"\n">>
  BY <1>1, SegmentsAreWritten
<1>3. <<>> \in Seq(PlainCalls) /\ Says(<<>>) = <<>>
  BY SaysOne
<1>. QED
  BY <1>1, <1>2, <1>3, Zenon DEF Newline, EndOfLine

\* A call and the parts of its format string fit together.
FitTogether(parts, arguments) ==
  /\ parts.holes \in Seq(Holes) /\ parts.literals \in Seq(Text)
  /\ Len(parts.literals) = Len(parts.holes) + 1
  /\ arguments \in Seq(Arguments) /\ Len(arguments) = Len(parts.holes)
  /\ \A i \in 1 .. Len(arguments) :
       arguments[i].number \in numbersOf(arguments[i].type) /\ fits(arguments[i].type, parts.holes[i])

\* The text up to a placeholder and the argument for it.
Expanded(parts, arguments, i) == parts.literals[i] \o Rendered(arguments[i], parts.holes[i])

\* The placeholders are lowered to calls that write the text before each and its argument.
LEMMA HolesAreLowered ==
  ASSUME NEW parts, NEW arguments, FitTogether(parts, arguments)
  PROVE  /\ lowerHoles(parts, arguments) \in Seq(RuntimeCalls)
         /\ (\A i \in 1 .. Len(arguments) : arguments[i].type # "f64") =>
              /\ lowerHoles(parts, arguments) \in Seq(PlainCalls)
              /\ [i \in DOMAIN parts.holes |-> Expanded(parts, arguments, i)] \in Seq(Text)
              /\ Says(lowerHoles(parts, arguments)) =
                   FlattenSeq([i \in DOMAIN parts.holes |-> Expanded(parts, arguments, i)])
<1>1. PICK n \in Nat : n = Len(parts.holes) /\ DOMAIN parts.holes = 1 .. n
  BY DEF FitTogether
<1>2. Len(arguments) = n /\ Len(parts.literals) = n + 1
  BY <1>1, Zenon DEF FitTogether
<1>. DEFINE Lowered(i) == Segment(parts.literals[i])
                            \o <<lowerOneFormatArgument(arguments[i], parts.holes[i])>>
<1>3. lowerHoles(parts, arguments) = FlattenSeq([i \in 1 .. n |-> Lowered(i)])
  BY <1>1, Zenon DEF lowerHoles
<1>4. ASSUME NEW i \in 1 .. n
      PROVE  /\ parts.literals[i] \in Text /\ arguments[i] \in Arguments /\ parts.holes[i] \in Holes
             /\ arguments[i].number \in numbersOf(arguments[i].type)
             /\ fits(arguments[i].type, parts.holes[i])
  <2>1. i \in 1 .. n + 1
    OBVIOUS
  <2>2. parts.literals \in Seq(Text) /\ parts.holes \in Seq(Holes) /\ arguments \in Seq(Arguments)
    BY Zenon DEF FitTogether
  <2>3. parts.literals[i] \in Text
    BY <1>2, <2>1, <2>2
  <2>4. arguments[i] \in Arguments /\ parts.holes[i] \in Holes
    BY <1>1, <1>2, <2>2
  <2>. QED
    BY <1>2, <2>3, <2>4, Zenon DEF FitTogether
<1>5. ASSUME NEW i \in 1 .. n
      PROVE  /\ Lowered(i) \in Seq(RuntimeCalls)
             /\ arguments[i].type # "f64" =>
                  /\ Lowered(i) \in Seq(PlainCalls)
                  /\ Expanded(parts, arguments, i) \in Text
                  /\ Says(Lowered(i)) = Expanded(parts, arguments, i)
  <2>1. PICK piece \in RuntimeCalls :
          /\ piece = lowerOneFormatArgument(arguments[i], parts.holes[i])
          /\ arguments[i].type # "f64" =>
               piece.fn # "print_f64" /\ Sole(piece) = Rendered(arguments[i], parts.holes[i])
    BY <1>4, ArgumentsAreCalls
  <2>2. PICK segment \in Seq(PlainCalls) :
          segment = Segment(parts.literals[i]) /\ Says(segment) = parts.literals[i]
    BY <1>4, SegmentsAreWritten
  <2>3. segment \in Seq(RuntimeCalls)
    BY PlainAreCalls
  <2>4. <<piece>> \in Seq(RuntimeCalls)
    OBVIOUS
  <2>5. segment \o <<piece>> \in Seq(RuntimeCalls)
    BY <2>3, <2>4, ConcatProperties
  <2>6. Says(segment \o <<piece>>) = parts.literals[i] \o Sole(piece)
    BY <2>2, <2>3, <2>4, SaysBoth, SaysOne
  <2>7. Sole(piece) \in Text
    BY SoleIsText
  <2>8. parts.literals[i] \o Sole(piece) \in Text
    BY <1>4, <2>7 DEF Text
  <2>9. Lowered(i) = segment \o <<piece>>
    BY <2>1, <2>2, Zenon
  <2>10. piece.fn # "print_f64" => segment \o <<piece>> \in Seq(PlainCalls)
    <3>. SUFFICES ASSUME piece.fn # "print_f64"
                  PROVE  segment \o <<piece>> \in Seq(PlainCalls)
      OBVIOUS
    <3>1. piece \in PlainCalls
      BY DEF PlainCalls
    <3>2. <<piece>> \in Seq(PlainCalls)
      BY <3>1
    <3>. QED
      BY <3>2, ConcatProperties
  <2>. HIDE DEF Lowered
  <2>. QED
    BY <2>1, <2>5, <2>6, <2>8, <2>9, <2>10, Zenon DEF Expanded
<1>6. PICK pss : pss = [i \in 1 .. n |-> Lowered(i)]
  OBVIOUS
<1>. HIDE DEF Lowered
<1>7. \A i \in 1 .. n : pss[i] = Lowered(i)
  BY <1>6
<1>8. pss \in Seq(Seq(RuntimeCalls)) /\ Len(pss) = n
  <2>1. pss \in [1 .. n -> Seq(RuntimeCalls)]
    BY <1>5, <1>6
  <2>. QED
    BY <2>1, FunctionIsSeq, Zenon
<1>9. lowerHoles(parts, arguments) \in Seq(RuntimeCalls)
  <2>1. FlattenSeq(pss) \in Seq(RuntimeCalls)
    BY <1>8, FlattenType
  <2>. QED
    BY <1>3, <1>6, <2>1, Zenon
<1>10. ASSUME \A i \in 1 .. Len(arguments) : arguments[i].type # "f64"
       PROVE  /\ lowerHoles(parts, arguments) \in Seq(PlainCalls)
              /\ [i \in DOMAIN parts.holes |-> Expanded(parts, arguments, i)] \in Seq(Text)
              /\ Says(lowerHoles(parts, arguments)) =
                   FlattenSeq([i \in DOMAIN parts.holes |-> Expanded(parts, arguments, i)])
  <2>1. PICK tt : tt = [i \in 1 .. n |-> Expanded(parts, arguments, i)]
    OBVIOUS
  <2>2. \A i \in 1 .. n : /\ Lowered(i) \in Seq(PlainCalls)
                          /\ Expanded(parts, arguments, i) \in Text
                          /\ Says(Lowered(i)) = Expanded(parts, arguments, i)
    BY <1>2, <1>5, <1>10, Zenon
  <2>3. tt \in [1 .. n -> Text] /\ \A i \in 1 .. n : tt[i] = Expanded(parts, arguments, i)
    BY <2>1, <2>2
  <2>4. tt \in Seq(Text) /\ Len(tt) = n
    BY <2>3, FunctionIsSeq, Zenon
  <2>5. \A i \in 1 .. Len(pss) : tt[i] = Says(pss[i])
    BY <1>7, <1>8, <2>2, <2>3, Zenon
  <2>6. Says(FlattenSeq(pss)) = FlattenSeq(tt)
    BY <1>8, <2>4, <2>5, SaysAll
  <2>7. FlattenSeq(pss) \in Seq(PlainCalls)
    <3>1. pss \in [1 .. n -> Seq(PlainCalls)]
      BY <1>6, <2>2
    <3>2. pss \in Seq(Seq(PlainCalls))
      BY <3>1, FunctionIsSeq, Zenon
    <3>. QED
      BY <3>2, FlattenType
  <2>8. tt = [i \in DOMAIN parts.holes |-> Expanded(parts, arguments, i)]
    BY <1>1, <2>1, Zenon
  <2>. QED
    BY <1>3, <1>6, <2>4, <2>6, <2>7, <2>8, Zenon
<1>. QED
  BY <1>9, <1>10

-----------------------------------------------------------------------------
(* The lowering of a call.                                                 *)

\* The expansion of a call, without its end of line.
Expanding(parts, arguments) ==
  FlattenSeq([i \in DOMAIN parts.holes |-> Expanded(parts, arguments, i)])
    \o parts.literals[Len(parts.holes) + 1]

\* A format string without placeholders is its own text.
LEMMA NoHolesToExpand ==
  ASSUME NEW s \in Text, NEW parts, parts = parseFormatString(s), parts.ok = TRUE,
         Len(parts.holes) = 0
  PROVE  \A arguments : Expanding(parts, arguments) = s
<1>1. /\ IsRead(s, parts) /\ parts.literals \in Seq(Text) /\ parts.holes \in Seq(Holes)
  BY FormatsAreRead
<1>2. PICK n \in Nat : n = Len(s)
  BY DEF Text
<1>3. /\ Len(parts.literals) = Len(parts.holes) + 1
      /\ OpenOf(parts, Len(parts.literals)) = Len(s) + 1
      /\ \A k \in DOMAIN parts.literals : PartIsRead(s, parts, k)
  BY <1>1, Zenon DEF IsRead
<1>4. Len(parts.literals) = 1 /\ DOMAIN parts.literals = 1 .. 1
  BY <1>1, <1>3
<1>5. OpenOf(parts, 1) = n + 1 /\ PartIsRead(s, parts, 1)
  <2>1. 1 \in 1 .. 1
    OBVIOUS
  <2>. QED
    BY <1>2, <1>3, <1>4, <2>1, Zenon
<1>6. parts.literals[1] = SubSeq(s, 1, n)
  <2>1. 1 - 1 = 0 /\ 0 + 1 = 1 /\ (n + 1) - 1 = n
    OBVIOUS
  <2>2. EndOf(parts, 1 - 1) = 0
    BY <2>1, Zenon DEF EndOf
  <2>. QED
    BY <1>5, <2>1, <2>2, Zenon DEF PartIsRead
<1>7. SubSeq(s, 1, n) = s
  BY <1>2, SubSeqFull DEF Text
<1>8. parts.holes = <<>> /\ DOMAIN parts.holes = {}
  BY <1>1
<1>. SUFFICES ASSUME NEW arguments
              PROVE  Expanding(parts, arguments) = s
  OBVIOUS
<1>9. [i \in DOMAIN parts.holes |-> Expanded(parts, arguments, i)] = <<>>
  BY <1>8
<1>10. <<>> \o s = s
  BY DEF Text
<1>11. Len(parts.holes) + 1 = 1
  OBVIOUS
<1>. QED
  BY <1>6, <1>7, <1>9, <1>10, <1>11, FlattenEmpty, Zenon DEF Expanding

\* A call that the analyzer accepts fits its format string (analyzeFormatPrintCall).
LEMMA AcceptedFits ==
  ASSUME NEW c, IsCall(c), analyzeFormatPrintCall(c), c.first = "literal",
         NEW parts, parts = parseFormatString(decodeStringLiteralContent(c.raw))
  PROVE  parts.ok = TRUE /\ FitTogether(parts, c.arguments)
<1>1. PICK s \in Text : s = decodeStringLiteralContent(c.raw)
  BY DecodedIsText DEF IsCall
<1>2. parts = parseFormatString(s)
  BY <1>1, Zenon
<1>3. /\ IsRead(s, parts) /\ parts.ok \in BOOLEAN
      /\ parts.literals \in Seq(Text) /\ parts.holes \in Seq(Holes)
  BY <1>2, FormatsAreRead
<1>4. /\ parts.ok /\ Len(c.arguments) = Len(parts.holes)
      /\ \A i \in 1 .. Len(c.arguments) \cap 1 .. Len(parts.holes) :
           fits(c.arguments[i].type, parts.holes[i])
  BY Zenon DEF analyzeFormatPrintCall, arityFits
<1>5. parts.ok = TRUE
  BY <1>3, <1>4
<1>6. Len(parts.literals) = Len(parts.holes) + 1
  BY <1>3, <1>4, Zenon DEF IsRead
<1>7. c.arguments \in Seq(Arguments)
  BY Zenon DEF IsCall, Arguments
<1>8. \A i \in 1 .. Len(c.arguments) : c.arguments[i].number \in numbersOf(c.arguments[i].type)
  <2>1. DOMAIN c.arguments = 1 .. Len(c.arguments)
    BY <1>7
  <2>. QED
    BY <2>1, Zenon DEF IsCall
<1>9. \A i \in 1 .. Len(c.arguments) : fits(c.arguments[i].type, parts.holes[i])
  <2>1. (1 .. Len(c.arguments)) \cap (1 .. Len(parts.holes)) = 1 .. Len(c.arguments)
    BY <1>4
  <2>. QED
    BY <1>4, <2>1, Zenon
<1>. QED
  BY <1>3, <1>4, <1>5, <1>6, <1>7, <1>8, <1>9, Zenon DEF FitTogether

\* No argument fits no placeholder.
LEMMA NothingFits ==
  ASSUME NEW parts, parts.holes \in Seq(Holes), parts.literals \in Seq(Text),
         Len(parts.literals) = Len(parts.holes) + 1, Len(parts.holes) = 0
  PROVE  FitTogether(parts, <<>>)
<1>1. <<>> \in Seq(Arguments) /\ Len(<<>>) = 0 /\ \A i \in 1 .. 0 : FALSE
  OBVIOUS
<1>. QED
  BY <1>1 DEF FitTogether

\* The calls of the runtime for a call that fits write its expansion
\* (lowerFormattedPrintBuiltin).
LEMMA FormattedIsWritten ==
  ASSUME NEW c, IsCall(c), NEW parts, FitTogether(parts, c.arguments)
  PROVE  /\ lowerFormattedPrintBuiltin(c, parts) \in Seq(RuntimeCalls)
         /\ WithoutFloats(c) =>
              /\ lowerFormattedPrintBuiltin(c, parts) \in Seq(PlainCalls)
              /\ Expanding(parts, c.arguments) \in Text
              /\ Says(lowerFormattedPrintBuiltin(c, parts)) = Expanding(parts, c.arguments) \o EndOfLine(c)
<1>1. PICK n \in Nat : n = Len(parts.holes) /\ Len(parts.literals) = n + 1
  BY DEF FitTogether
<1>2. PICK text \in Text : text = parts.literals[n + 1]
  BY <1>1 DEF FitTogether
<1>3. PICK segment \in Seq(PlainCalls) : segment = Segment(text) /\ Says(segment) = text
  BY SegmentsAreWritten
<1>4. PICK newline \in Seq(PlainCalls) :
        newline = Newline(c) /\ Says(newline) = EndOfLine(c) /\ EndOfLine(c) \in Text
  BY NewlinesAreWritten
<1>5. segment \in Seq(RuntimeCalls) /\ newline \in Seq(RuntimeCalls)
  BY PlainAreCalls
<1>6. PICK holes \in Seq(RuntimeCalls) : holes = lowerHoles(parts, c.arguments)
  BY HolesAreLowered
<1>7. lowerFormattedPrintBuiltin(c, parts) = (holes \o segment) \o newline
  BY <1>1, <1>2, <1>3, <1>4, <1>6, Zenon DEF lowerFormattedPrintBuiltin
<1>8. PICK both \in Seq(RuntimeCalls) : both = holes \o segment
  BY <1>5, ConcatProperties
<1>9. both \o newline \in Seq(RuntimeCalls)
  BY <1>5, ConcatProperties
<1>10. ASSUME WithoutFloats(c)
       PROVE  /\ both \o newline \in Seq(PlainCalls)
              /\ Expanding(parts, c.arguments) \in Text
              /\ Says(both \o newline) = Expanding(parts, c.arguments) \o EndOfLine(c)
  <2>1. \A i \in 1 .. Len(c.arguments) : c.arguments[i].type # "f64"
    <3>1. DOMAIN c.arguments = 1 .. Len(c.arguments)
      BY DEF FitTogether
    <3>. QED
      BY <1>10, <3>1, Zenon DEF WithoutFloats
  <2>2. PICK tt \in Seq(Text) : tt = [i \in DOMAIN parts.holes |-> Expanded(parts, c.arguments, i)]
    BY <2>1, HolesAreLowered, Zenon
  <2>3. holes \in Seq(PlainCalls) /\ Says(holes) = FlattenSeq(tt)
    BY <1>6, <2>1, <2>2, HolesAreLowered, Zenon
  <2>4. both \in Seq(PlainCalls)
    BY <1>8, <2>3, ConcatProperties
  <2>5. both \o newline \in Seq(PlainCalls)
    BY <2>4, ConcatProperties
  <2>6. Expanding(parts, c.arguments) = FlattenSeq(tt) \o text
    BY <1>1, <1>2, <2>2, Zenon DEF Expanding
  <2>7. FlattenSeq(tt) \in Text
    BY FlattenType DEF Text
  <2>8. Says(both) = FlattenSeq(tt) \o text
    BY <1>3, <1>5, <1>8, <2>3, SaysBoth
  <2>9. Says(both \o newline) = Says(both) \o EndOfLine(c)
    BY <1>4, <1>5, SaysBoth
  <2>10. FlattenSeq(tt) \o text \in Text
    BY <2>7, ConcatProperties DEF Text
  <2>. QED
    BY <2>5, <2>6, <2>8, <2>9, <2>10, Zenon
<1>. QED
  BY <1>7, <1>8, <1>9, <1>10, Zenon

\* What the lowering of a call takes, and the calls that it makes of it.
IsLowered(c, function) ==
  LET parts == parseFormatString(decodeStringLiteralContent(c.raw))
  IN IF findStringLiteralRaw(c, function) THEN parts.ok /\ Len(c.arguments) = Len(parts.holes)
     ELSE c.arguments = <<>>

CallsOf(c, function) ==
  LET text == decodeStringLiteralContent(c.raw)
  IN IF findStringLiteralRaw(c, function) THEN lowerFormattedPrintBuiltin(c, parseFormatString(text))
     ELSE lowerDynamicPrint(c, text)

\* What an accepted call is lowered to writes its expansion.
LEMMA AcceptedIsWritten ==
  ASSUME NEW c, NEW function, IsCall(c), analyzeFormatPrintCall(c), IsLowered(c, function)
  PROVE  /\ CallsOf(c, function) \in Seq(RuntimeCalls)
         /\ WithoutFloats(c) =>
              /\ CallsOf(c, function) \in Seq(PlainCalls)
              /\ Expansion(c, decodeStringLiteralContent(c.raw)) \in Text
              /\ Says(CallsOf(c, function)) = Expansion(c, decodeStringLiteralContent(c.raw))
<1>1. PICK s \in Text : s = decodeStringLiteralContent(c.raw)
  BY DecodedIsText DEF IsCall
<1>2. PICK parts : parts = parseFormatString(s)
  OBVIOUS
<1>3. /\ IsRead(s, parts) /\ parts.ok \in BOOLEAN
      /\ parts.literals \in Seq(Text) /\ parts.holes \in Seq(Holes)
  BY <1>2, FormatsAreRead
<1>4. EndOfLine(c) \in Text
  BY NewlinesAreWritten
<1>5. Expansion(c, s) = IF c.first # "literal" THEN s \o EndOfLine(c)
                        ELSE Expanding(parts, c.arguments) \o EndOfLine(c)
  BY <1>2, Zenon DEF Expansion, Expanding, Expanded, EndOfLine
<1>6. \A t, u \in Text : t \o u \in Text
  BY DEF Text
<1>7. c.first = "literal" => parts.ok = TRUE /\ FitTogether(parts, c.arguments)
  BY <1>1, <1>2, AcceptedFits
<1>8. c.first # "literal" => c.arguments = <<>>
  BY Zenon DEF analyzeFormatPrintCall
<1>9. Len(<<>>) = 0
  OBVIOUS
<1>10. CASE findStringLiteralRaw(c, function)
  <2>1. parts.ok /\ Len(c.arguments) = Len(parts.holes)
    BY <1>1, <1>2, <1>10, Zenon DEF IsLowered
  <2>2. CallsOf(c, function) = lowerFormattedPrintBuiltin(c, parts)
    BY <1>1, <1>2, <1>10, Zenon DEF CallsOf
  <2>3. parts.ok = TRUE
    BY <1>3, <2>1
  <2>4. c.first # "literal" => Len(parts.holes) = 0
    BY <1>8, <1>9, <2>1, Zenon
  <2>5. c.first # "literal" => Expanding(parts, c.arguments) = s
    BY <1>2, <2>3, <2>4, NoHolesToExpand
  <2>6. FitTogether(parts, c.arguments)
    <3>1. Len(parts.literals) = Len(parts.holes) + 1
      BY <1>3, <2>1, Zenon DEF IsRead
    <3>. QED
      BY <1>3, <1>7, <1>8, <2>4, <3>1, NothingFits, Zenon
  <2>7. /\ lowerFormattedPrintBuiltin(c, parts) \in Seq(RuntimeCalls)
        /\ WithoutFloats(c) =>
             /\ lowerFormattedPrintBuiltin(c, parts) \in Seq(PlainCalls)
             /\ Expanding(parts, c.arguments) \in Text
             /\ Says(lowerFormattedPrintBuiltin(c, parts)) = Expanding(parts, c.arguments) \o EndOfLine(c)
    BY <2>6, FormattedIsWritten
  <2>. QED
    BY <1>1, <1>4, <1>5, <1>6, <2>2, <2>5, <2>7, Zenon
<1>11. CASE ~findStringLiteralRaw(c, function)
  <2>1. c.arguments = <<>>
    BY <1>11, Zenon DEF IsLowered
  <2>2. CallsOf(c, function) = <<PrintStr(s)>> \o Newline(c)
    BY <1>1, <1>11, Zenon DEF CallsOf, lowerDynamicPrint
  <2>3. PICK first \in Seq(PlainCalls) : first = <<PrintStr(s)>> /\ Says(first) = s
    BY SegmentsAreWritten
  <2>4. PICK newline \in Seq(PlainCalls) : newline = Newline(c) /\ Says(newline) = EndOfLine(c)
    BY NewlinesAreWritten
  <2>5. first \in Seq(RuntimeCalls) /\ newline \in Seq(RuntimeCalls)
    BY PlainAreCalls
  <2>6. first \o newline \in Seq(PlainCalls) /\ first \o newline \in Seq(RuntimeCalls)
    BY <2>5, ConcatProperties
  <2>7. Says(first \o newline) = s \o EndOfLine(c)
    BY <2>3, <2>4, <2>5, SaysBoth
  <2>8. c.first = "literal" => Expanding(parts, c.arguments) = s
    <3>. SUFFICES ASSUME c.first = "literal"
                  PROVE  Expanding(parts, c.arguments) = s
      OBVIOUS
    <3>1. Len(parts.holes) = 0 /\ parts.ok = TRUE
      BY <1>7, <1>9, <2>1, Zenon DEF FitTogether
    <3>. QED
      BY <1>2, <3>1, NoHolesToExpand
  <2>9. Expansion(c, s) = s \o EndOfLine(c)
    BY <1>5, <2>8, Zenon
  <2>. QED
    BY <1>1, <1>4, <1>6, <2>2, <2>3, <2>4, <2>6, <2>7, <2>9, Zenon
<1>. QED
  BY <1>10, <1>11

-----------------------------------------------------------------------------
(* The output.                                                             *)

\* A call of the runtime that is made adds the text that it wrote.
LEMMA CallsAreMade ==
  ASSUME NEW written \in Seq(Text), NEW ps \in Seq(RuntimeCalls), ps # <<>>,
         NEW text \in Written(Head(ps))
  PROVE  /\ Append(written, text) \in Seq(Text) /\ Tail(ps) \in Seq(RuntimeCalls)
         /\ ps \in Seq(PlainCalls) =>
              /\ Tail(ps) \in Seq(PlainCalls)
              /\ FlattenSeq(Append(written, text)) \o Says(Tail(ps)) = FlattenSeq(written) \o Says(ps)
<1>1. PICK piece \in RuntimeCalls : piece = Head(ps)
  OBVIOUS
<1>2. PICK rest \in Seq(RuntimeCalls) : rest = Tail(ps)
  BY HeadTailProperties
<1>3. text \in Text
  BY <1>1, Zenon DEF RuntimeCalls
<1>4. Append(written, text) \in Seq(Text)
  BY <1>3, AppendProperties
<1>5. ASSUME ps \in Seq(PlainCalls)
      PROVE  /\ rest \in Seq(PlainCalls)
             /\ FlattenSeq(Append(written, text)) \o Says(rest) = FlattenSeq(written) \o Says(ps)
  <2>1. Head(ps) \in PlainCalls /\ Tail(ps) \in Seq(PlainCalls)
    BY <1>5, HeadTailProperties
  <2>2. text = Sole(piece)
    BY <1>1, <2>1, PlainAreCalls, Zenon
  <2>3. Says(ps) = text \o Says(rest)
    BY <1>1, <1>2, <2>2, SaysFirst, Zenon
  <2>4. written \in Seq(Seq(Chars)) /\ text \in Seq(Chars)
    BY <1>3 DEF Text
  <2>5. FlattenSeq(Append(written, text)) = FlattenSeq(written) \o text
    BY <2>4, FlattenAppend
  <2>6. FlattenSeq(written) \in Seq(Chars) /\ Says(rest) \in Seq(Chars)
    BY <2>4, FlattenType, TextsAreTexts DEF Text
  <2>7. (FlattenSeq(written) \o text) \o Says(rest) = FlattenSeq(written) \o (text \o Says(rest))
    <3>1. PICK s \in Seq(Chars), u \in Seq(Chars) : s = FlattenSeq(written) /\ u = Says(rest)
      BY <2>6
    <3>2. (s \o text) \o u = s \o (text \o u)
      BY <2>4, Concatenation, SMTT(40)
    <3>. QED
      BY <3>1, <3>2, Zenon
  <2>. QED
    BY <1>2, <2>1, <2>3, <2>5, <2>7, Zenon
<1>. QED
  BY <1>2, <1>4, <1>5, Zenon

\* The first line of a text goes to its first newline, or to the end.
IsLineEnd(text, j) ==
  (\A k \in 1 .. j - 1 : text[k] # "\n") /\ (j <= Len(text) => text[j] = "\n")

\* The first line is the text up to the first newline, or the whole.
LEMMA LinesEnd ==
  ASSUME NEW text \in Text
  PROVE  /\ firstLine(text) \in Text
         /\ \A j \in 1 .. Len(text) + 1 :
              IsLineEnd(text, j) => firstLine(text) = SubSeq(text, 1, j - 1)
<1>1. PICK n \in Nat : n = Len(text)
  BY DEF Text
<1>2. \E j \in 1 .. n + 1 : IsLineEnd(text, j)
  <2>1. CASE \E j \in 1 .. n : text[j] = "\n"
    <3>. DEFINE S == {j \in Nat : j \in 1 .. n /\ text[j] = "\n"}
    <3>1. S \subseteq Nat /\ S # {}
      BY <2>1
    <3>. HIDE DEF S
    <3>2. PICK j \in S : \A i \in S : j <= i
      BY <3>1, LeastExists
    <3>. USE DEF S
    <3>3. j \in 1 .. n + 1 /\ text[j] = "\n"
      BY <3>2
    <3>4. \A k \in 1 .. j - 1 : text[k] # "\n"
      <4>. SUFFICES ASSUME NEW k \in 1 .. j - 1, text[k] = "\n"
                    PROVE  FALSE
        OBVIOUS
      <4>1. k \in Nat /\ k \in 1 .. n /\ ~(j <= k)
        BY <3>2
      <4>. QED
        BY <3>2, <4>1
    <3>. QED
      BY <3>3, <3>4, Zenon DEF IsLineEnd
  <2>2. CASE \A j \in 1 .. n : text[j] # "\n"
    <3>1. n + 1 \in 1 .. n + 1 /\ (n + 1) - 1 = n /\ ~(n + 1 <= n)
      OBVIOUS
    <3>. QED
      BY <1>1, <2>2, <3>1, Zenon DEF IsLineEnd
  <2>. QED
    BY <2>1, <2>2
<1>3. \A i, j \in 1 .. n + 1 : IsLineEnd(text, i) /\ IsLineEnd(text, j) => i = j
  <2>1. \A i, j \in 1 .. n + 1 : IsLineEnd(text, i) /\ IsLineEnd(text, j) => ~(i < j)
    <3>. SUFFICES ASSUME NEW i \in 1 .. n + 1, NEW j \in 1 .. n + 1,
                         IsLineEnd(text, i), IsLineEnd(text, j), i < j
                  PROVE  FALSE
      OBVIOUS
    <3>1. i \in 1 .. j - 1 /\ i <= n
      OBVIOUS
    <3>. QED
      BY <1>1, <3>1, Zenon DEF IsLineEnd
  <2>. QED
    BY <2>1
<1>. DEFINE e == CHOOSE j \in 1 .. n + 1 : IsLineEnd(text, j)
<1>4. e \in 1 .. n + 1 /\ IsLineEnd(text, e)
  BY <1>2, Zenon
<1>5. firstLine(text) = SubSeq(text, 1, e - 1)
  BY <1>1, Zenon DEF firstLine, IsLineEnd
<1>. HIDE DEF e
<1>6. SubSeq(text, 1, e - 1) \in Text
  <2>1. 1 \in 1 .. Len(text) + 1 /\ e - 1 \in 1 - 1 .. Len(text)
    BY <1>1, <1>4
  <2>. QED
    BY <2>1, Parts DEF Text
<1>. QED
  BY <1>1, <1>3, <1>4, <1>5, <1>6, Zenon

\* What is parsed of a text.
Results(text) == [i32 |-> parse_i32(text), u64 |-> parse_u64(text), bool |-> parse_bool(text)]

\* The text that a call stands for.
TextOf(c) == Expansion(c, decodeStringLiteralContent(c.raw))

\* What is known in a stage of a call c in a function, of the calls ps still to be made,
\* of the texts written, of the text that is parsed and of what is parsed of it: what was
\* written and what is still to be written are the expansion of the call.
IsReached(st, c, function, ps, written, text, parsed) ==
  /\ written \in Seq(Text) /\ ps \in Seq(RuntimeCalls)
  /\ st \in {"source", "accepted"} => written = <<>>
  /\ st \in {"accepted", "lowered", "thrown"} => analyzeFormatPrintCall(c)
  /\ st = "thrown" => ~IsLowered(c, function)
  /\ st = "lowered" /\ WithoutFloats(c) =>
       ps \in Seq(PlainCalls) /\ FlattenSeq(written) \o Says(ps) = TextOf(c)
  /\ st \in {"input", "parsed"} =>
       /\ text \in Text
       /\ c # NoCall => /\ IsCall(c) /\ analyzeFormatPrintCall(c)
                        /\ WithoutFloats(c) => TextOf(c) \in Text /\ text = firstLine(TextOf(c))
  /\ st = "parsed" => parsed = Results(text)

OutputInv == IsReached(stage, call, body, pieces, output, input, result)

\* Nothing is written before a call is looked at.
LEMMA OutputInit == Init => OutputInv
<1>. SUFFICES ASSUME Init
              PROVE  OutputInv
  OBVIOUS
<1>1. pieces = <<>> /\ output = <<>>
  BY DEF Init
<1>2. stage = "source" \/ (stage = "input" /\ call = NoCall /\ input \in Inputs)
  BY DEF Init
<1>3. stage = "input" => input \in Text /\ call = NoCall
  BY <1>2, InputsAssumption, StringsAreText
<1>4. <<>> \in Seq(Text) /\ <<>> \in Seq(RuntimeCalls)
  OBVIOUS
<1>5. stage \notin {"accepted", "lowered", "thrown", "parsed"}
  BY <1>2
<1>. QED
  BY <1>1, <1>2, <1>3, <1>4, <1>5 DEF OutputInv, IsReached

\* An accepted call is lowered to calls that write its expansion, or met as an error.
LEMMA LoweringReaches ==
  ASSUME NEW c, NEW function, NEW ps, NEW written, NEW text, NEW parsed,
         IsCall(c), IsReached("accepted", c, function, ps, written, text, parsed)
  PROVE  /\ IsLowered(c, function) =>
              IsReached("lowered", c, function, CallsOf(c, function), written, text, parsed)
         /\ ~IsLowered(c, function) => IsReached("thrown", c, function, <<>>, written, text, parsed)
<1>1. written = <<>> /\ written \in Seq(Text) /\ analyzeFormatPrintCall(c)
  BY DEF IsReached
<1>2. ASSUME IsLowered(c, function)
      PROVE  IsReached("lowered", c, function, CallsOf(c, function), written, text, parsed)
  <2>1. /\ CallsOf(c, function) \in Seq(RuntimeCalls)
        /\ WithoutFloats(c) =>
             /\ CallsOf(c, function) \in Seq(PlainCalls)
             /\ TextOf(c) \in Text
             /\ Says(CallsOf(c, function)) = TextOf(c)
    BY <1>1, <1>2, AcceptedIsWritten DEF TextOf
  <2>2. \A t \in Text : <<>> \o t = t
    BY DEF Text
  <2>3. WithoutFloats(c) => FlattenSeq(written) \o Says(CallsOf(c, function)) = TextOf(c)
    BY <1>1, <2>1, <2>2, FlattenEmpty, Zenon
  <2>4. "lowered" \notin {"source", "accepted"} /\ "lowered" \notin {"input", "parsed"}
        /\ "lowered" # "thrown" /\ "lowered" # "parsed"
    OBVIOUS
  <2>. QED
    BY <1>1, <2>1, <2>3, <2>4, Zenon DEF IsReached
<1>3. ASSUME ~IsLowered(c, function)
      PROVE  IsReached("thrown", c, function, <<>>, written, text, parsed)
  <2>1. <<>> \in Seq(RuntimeCalls)
    OBVIOUS
  <2>2. "thrown" \notin {"source", "accepted"} /\ "thrown" \notin {"input", "parsed"}
        /\ "thrown" # "lowered" /\ "thrown" # "parsed"
    OBVIOUS
  <2>. QED
    BY <1>1, <1>3, <2>1, <2>2, Zenon DEF IsReached
<1>. QED
  BY <1>2, <1>3

\* A call of the runtime keeps what was written and is to be written together.
LEMMA WritingReaches ==
  ASSUME NEW c, NEW function, NEW ps, NEW written, NEW text, NEW parsed, ps # <<>>,
         NEW new \in Written(Head(ps)),
         IsReached("lowered", c, function, ps, written, text, parsed)
  PROVE  IsReached("lowered", c, function, Tail(ps), Append(written, new), text, parsed)
<1>1. written \in Seq(Text) /\ ps \in Seq(RuntimeCalls) /\ analyzeFormatPrintCall(c)
  BY DEF IsReached
<1>2. WithoutFloats(c) => ps \in Seq(PlainCalls) /\ FlattenSeq(written) \o Says(ps) = TextOf(c)
  BY Zenon DEF IsReached
<1>3. /\ Append(written, new) \in Seq(Text) /\ Tail(ps) \in Seq(RuntimeCalls)
      /\ ps \in Seq(PlainCalls) =>
           /\ Tail(ps) \in Seq(PlainCalls)
           /\ FlattenSeq(Append(written, new)) \o Says(Tail(ps)) = FlattenSeq(written) \o Says(ps)
  BY <1>1, CallsAreMade
<1>4. "lowered" \notin {"source", "accepted"} /\ "lowered" \notin {"input", "parsed"}
      /\ "lowered" # "thrown" /\ "lowered" # "parsed"
  OBVIOUS
<1>. QED
  BY <1>1, <1>2, <1>3, <1>4, Zenon DEF IsReached

\* When no call is left, the expansion is written, and its first line is parsed.
LEMMA ReadingReaches ==
  ASSUME NEW c, NEW function, NEW written, NEW text, NEW parsed, IsCall(c),
         IsReached("lowered", c, function, <<>>, written, text, parsed)
  PROVE  /\ WithoutFloats(c) => FlattenSeq(written) = TextOf(c)
         /\ IsReached("input", c, function, <<>>, written, firstLine(FlattenSeq(written)), parsed)
<1>1. PICK all \in Text : all = FlattenSeq(written)
  <2>1. written \in Seq(Seq(Chars))
    BY DEF IsReached, Text
  <2>. QED
    BY <2>1, FlattenType DEF Text
<1>2. all \o <<>> = all /\ <<>> \in Seq(RuntimeCalls)
  BY DEF Text
<1>3. WithoutFloats(c) => all = TextOf(c)
  BY <1>1, <1>2, SaysOne, Zenon DEF IsReached
<1>4. firstLine(all) \in Text
  BY LinesEnd
<1>5. "input" \notin {"source", "accepted"} /\ "input" \notin {"accepted", "lowered", "thrown"}
      /\ "input" # "thrown" /\ "input" # "parsed" /\ "input" # "lowered"
      /\ "lowered" \in {"accepted", "lowered", "thrown"}
  OBVIOUS
<1>6. analyzeFormatPrintCall(c) /\ written \in Seq(Text)
  BY <1>5, Zenon DEF IsReached
<1>7. WithoutFloats(c) => TextOf(c) \in Text /\ firstLine(all) = firstLine(TextOf(c))
  BY <1>3, Zenon
<1>8. IsReached("input", c, function, <<>>, written, firstLine(all), parsed)
  BY <1>2, <1>4, <1>5, <1>6, <1>7, Zenon DEF IsReached
<1>. QED
  BY <1>1, <1>3, <1>8, Zenon

\* Every action leads to what is known in its stage.
LEMMA OutputNext == CallInv /\ OutputInv /\ [Next]_vars => OutputInv'
<1>. SUFFICES ASSUME CallInv, OutputInv, [Next]_vars
              PROVE  OutputInv'
  OBVIOUS
<1>. USE DEF OutputInv
<1>1. CASE Analyze
  <2>1. /\ stage = "source" /\ pieces' = pieces /\ output' = output
        /\ stage' = IF analyzeFormatPrintCall(call) THEN "accepted" ELSE "rejected"
        /\ call' = call /\ body' = body /\ input' = input /\ result' = result
    BY <1>1 DEF Analyze
  <2>2. output = <<>> /\ output \in Seq(Text) /\ pieces \in Seq(RuntimeCalls)
    BY <2>1 DEF IsReached
  <2>3. stage' = "accepted" => analyzeFormatPrintCall(call)
    BY <2>1
  <2>4. stage' \in {"accepted", "rejected"}
    BY <2>1
  <2>5. stage' \notin {"lowered", "thrown", "input", "parsed"}
    BY <2>4
  <2>. QED
    BY <2>1, <2>2, <2>3, <2>5 DEF IsReached
<1>2. CASE Lower
  <2>1. /\ stage = "accepted" /\ output' = output
        /\ call' = call /\ body' = body /\ input' = input /\ result' = result
    BY <1>2 DEF Lower
  <2>2. /\ stage' = IF IsLowered(call, body) THEN "lowered" ELSE "thrown"
        /\ pieces' = IF IsLowered(call, body) THEN CallsOf(call, body) ELSE <<>>
    BY <1>2, Zenon DEF Lower, IsLowered, CallsOf
  <2>3. IsProgram(call, body)
    BY <2>1 DEF CallInv
  <2>4. IsCall(call)
    BY <2>3, CallIsKnown
  <2>5. IsReached("accepted", call, body, pieces, output, input, result)
    BY <2>1, Zenon
  <2>6. /\ IsLowered(call, body) =>
             IsReached("lowered", call, body, CallsOf(call, body), output, input, result)
        /\ ~IsLowered(call, body) => IsReached("thrown", call, body, <<>>, output, input, result)
    BY <2>4, <2>5, LoweringReaches
  <2>. QED
    BY <2>1, <2>2, <2>6, Zenon
<1>3. CASE Write
  <2>1. /\ stage = "lowered" /\ pieces # <<>> /\ stage' = stage /\ pieces' = Tail(pieces)
        /\ call' = call /\ body' = body /\ input' = input /\ result' = result
    BY <1>3 DEF Write
  <2>2. PICK new \in Written(Head(pieces)) : output' = Append(output, new)
    BY <1>3 DEF Write
  <2>3. IsReached("lowered", call, body, pieces, output, input, result)
    BY <2>1, Zenon
  <2>4. IsReached("lowered", call, body, Tail(pieces), Append(output, new), input, result)
    BY <2>1, <2>3, WritingReaches
  <2>. QED
    BY <2>1, <2>2, <2>4, Zenon
<1>4. CASE ReadBack
  <2>1. /\ stage = "lowered" /\ pieces = <<>> /\ stage' = "input" /\ pieces' = pieces
        /\ input' = firstLine(FlattenSeq(output)) /\ output' = output
        /\ call' = call /\ body' = body /\ result' = result
    BY <1>4 DEF ReadBack
  <2>2. IsProgram(call, body)
    BY <2>1 DEF CallInv
  <2>3. IsCall(call)
    BY <2>2, CallIsKnown
  <2>4. IsReached("lowered", call, body, <<>>, output, input, result)
    BY <2>1, Zenon
  <2>5. IsReached("input", call, body, <<>>, output, firstLine(FlattenSeq(output)), result)
    BY <2>3, <2>4, ReadingReaches
  <2>. QED
    BY <2>1, <2>5, Zenon
<1>5. CASE ParseText
  <2>1. /\ stage = "input" /\ stage' = "parsed" /\ result' = Results(input)
        /\ call' = call /\ body' = body /\ pieces' = pieces /\ output' = output /\ input' = input
    BY <1>5 DEF ParseText, Results
  <2>. QED
    BY <2>1 DEF IsReached
<1>6. CASE UNCHANGED vars
  BY <1>6, Zenon DEF vars
<1>. QED
  BY <1>1, <1>2, <1>3, <1>4, <1>5, <1>6 DEF Next

\* In every stage the texts written and those to be written are known.
THEOREM OutputsAreKnown == Spec => [](CallInv /\ OutputInv)
<1>1. Init => CallInv /\ OutputInv
  BY CallInit, OutputInit
<1>2. CallInv /\ OutputInv /\ [Next]_vars => CallInv' /\ OutputInv'
  BY CallNext, OutputNext
<1>. QED
  BY <1>1, <1>2, PTL DEF Spec

\* Every call but one with a float writes its text with each placeholder replaced by its
\* argument: in decimal, or the two's complement of 64 bits in its base; then the
\* newline (lowerFormattedPrintBuiltin, print_i64, print_u64_base).
THEOREM OutputIsAlwaysTheExpansion == Spec => []OutputIsTheExpansion
<1>1. CallInv /\ OutputInv => OutputIsTheExpansion
  <2>. SUFFICES ASSUME CallInv, OutputInv, stage = "lowered", pieces = <<>>, WithoutFloats(call)
                PROVE  FlattenSeq(output) = TextOf(call)
    BY Zenon DEF OutputIsTheExpansion, TextOf
  <2>1. IsProgram(call, body)
    BY DEF CallInv
  <2>2. IsCall(call)
    BY <2>1, CallIsKnown
  <2>3. IsReached("lowered", call, body, <<>>, output, input, result)
    BY Zenon DEF OutputInv
  <2>. QED
    BY <2>2, <2>3, ReadingReaches
<1>. QED
  BY <1>1, OutputsAreKnown, PTL

\* A text is parsed as a number exactly when it is one: spaces, a sign for an i32, at
\* least one digit, spaces, and a value that the type holds (parse_u64_ascii,
\* nex_runtime_parse_i32).
THEOREM ParsesAreAlwaysExact == Spec => []ParsesAreExact
<1>1. OutputInv => ParsesAreExact
  <2>. SUFFICES ASSUME OutputInv, stage = "parsed"
                PROVE  /\ IsExactly(result.u64, UnsignedNumbers(input) \cap 0 .. U64Max)
                       /\ IsExactly(result.i32, (UnsignedNumbers(input) \cup SignedNumbers(input)) \cap
                                       (0 - TwoTo[IntBits - 1]) .. TwoTo[IntBits - 1] - 1)
    BY Zenon DEF ParsesAreExact
  <2>1. input \in Text /\ result = Results(input)
    BY DEF OutputInv, IsReached
  <2>2. result.u64 = parse_u64(input) /\ result.i32 = parse_i32(input)
    BY <2>1 DEF Results
  <2>3. /\ IsExactly(parse_u64(input), UnsignedNumbers(input) \cap 0 .. U64Max)
        /\ IsExactly(parse_i32(input), (UnsignedNumbers(input) \cup SignedNumbers(input)) \cap
                        (0 - TwoTo[IntBits - 1]) .. TwoTo[IntBits - 1] - 1)
    BY <2>1, TextsAreParsed
  <2>. QED
    BY <2>2, <2>3, Zenon
<1>. QED
  BY <1>1, OutputsAreKnown, PTL

-----------------------------------------------------------------------------
(* Reading back what was printed.                                          *)

\* The format string that is a placeholder alone is its own decoding.
Alone == <<"{", "}">>

\* A pair, one after the other.
LEMMA PairsAppend == \A a, b : Append(<<a>>, b) = <<a, b>>
<1>. SUFFICES ASSUME NEW a, NEW b
              PROVE  Append(<<a>>, b) = <<a, b>>
  OBVIOUS
<1>1. PICK S : a \in S /\ b \in S
  <2>1. a \in {a, b} /\ b \in {a, b}
    OBVIOUS
  <2>. QED
    BY <2>1, Zenon
<1>2. <<a, b>> \in Seq(S) /\ Append(<<a>>, b) \in Seq(S)
  BY <1>1
<1>3. /\ Len(Append(<<a>>, b)) = 2 /\ Len(<<a, b>>) = 2
      /\ Append(<<a>>, b)[1] = a /\ Append(<<a>>, b)[2] = b
  BY <1>1
<1>4. \A i \in 1 .. 2 : Append(<<a>>, b)[i] = <<a, b>>[i]
  BY <1>3
<1>. QED
  BY <1>2, <1>3, <1>4, SeqEqual

\* What is decoded of it.
LEMMA AloneIsDecoded ==
  ASSUME Alone \in Text
  PROVE  decodeStringLiteralContent(Alone) = Alone
<1>1. Len(Alone) = 2 /\ Alone[1] = "{" /\ Alone[2] = "}"
  BY DEF Alone
<1>2. PICK g : g = decodeLoop(Alone)
  OBVIOUS
<1>3. g[0] = NothingDecoded /\ g[1] = Decoded(g[0], "{") /\ g[2] = Decoded(g[1], "}")
  <2>1. 1 \in 1 .. 2 /\ 2 \in 1 .. 2 /\ 1 - 1 = 0 /\ 2 - 1 = 1
    OBVIOUS
  <2>. QED
    BY <1>1, <1>2, <2>1, DecodeLoop, Zenon
<1>4. /\ "{" # "\\" /\ "}" # "\\"
      /\ Append(<<>>, "{") = <<"{">> /\ Append(<<"{">>, "}") = <<"{", "}">>
  <2>1. Append(<<>>, "{") = <<"{">>
    OBVIOUS
  <2>2. "{" # "\\" /\ "}" # "\\"
    BY Zenon
  <2>. QED
    BY <2>1, <2>2, PairsAppend
<1>5. g[1] = [decoded |-> <<"{">>, escape |-> FALSE]
  <2>1. PICK d : d = NothingDecoded
    OBVIOUS
  <2>2. d.escape = FALSE /\ d.decoded = <<>>
    BY <2>1 DEF NothingDecoded
  <2>. QED
    BY <1>3, <1>4, <2>1, <2>2, Zenon DEF Decoded
<1>6. g[2] = [decoded |-> Alone, escape |-> FALSE]
  <2>1. PICK d : d = [decoded |-> <<"{">>, escape |-> FALSE]
    OBVIOUS
  <2>2. d.escape = FALSE /\ d.decoded = <<"{">>
    BY <2>1
  <2>. QED
    BY <1>3, <1>4, <1>5, <2>1, <2>2, Zenon DEF Decoded, Alone
<1>7. g[2].decoded = Alone
  BY <1>6
<1>. QED
  BY <1>1, <1>2, <1>7, Zenon DEF decodeStringLiteralContent

\* It is read as the default placeholder, with no text around it.
LEMMA AloneIsRead ==
  ASSUME NEW parts, IsRead(Alone, parts), parts.ok = TRUE,
         parts.holes \in Seq(Holes), parts.literals \in Seq(Text), Len(parts.holes) = 1
  PROVE  /\ parts.holes[1].kind = "default"
         /\ parts.literals[1] = <<>> /\ parts.literals[2] = <<>>
<1>1. Len(Alone) = 2
  BY DEF Alone
<1>2. /\ Len(parts.literals) = Len(parts.holes) + 1
      /\ OpenOf(parts, Len(parts.literals)) = Len(Alone) + 1
      /\ \A k \in DOMAIN parts.holes : HoleIsRead(Alone, parts, k)
  BY Zenon DEF IsRead
<1>3. PICK holes \in Seq(Holes), literals \in Seq(Text) : holes = parts.holes /\ literals = parts.literals
  OBVIOUS
<1>4. Len(literals) = 2 /\ DOMAIN holes = 1 .. 1
  BY <1>2, <1>3
<1>5. HoleIsRead(Alone, parts, 1) /\ OpenOf(parts, 2) = 3
  <2>1. 1 \in 1 .. 1 /\ 2 + 1 = 3
    OBVIOUS
  <2>. QED
    BY <1>1, <1>2, <1>3, <1>4, <2>1, Zenon
<1>6. PICK hole \in Holes : hole = holes[1]
  <2>1. \A i \in 1 .. 1 : holes[i] \in Holes
    BY <1>4, Members, Zenon
  <2>. QED
    BY <2>1
<1>7. PICK one \in Text, two \in Text : one = literals[1] /\ two = literals[2]
  <2>1. \A i \in 1 .. 2 : literals[i] \in Text
    BY <1>4, Members, Zenon
  <2>. QED
    BY <2>1
<1>8. PICK m \in Nat, n \in Nat : m = Len(one) /\ n = Len(two)
  BY DEF Text
<1>9. OpenOf(parts, 1) = m + 1 /\ OpenOf(parts, 2) = hole.last + n + 1
  <2>1. EndOf(parts, 1 - 1) = 0 /\ EndOf(parts, 2 - 1) = hole.last
    <3>1. 1 - 1 = 0 /\ 2 - 1 = 1 /\ 1 # 0
      OBVIOUS
    <3>. QED
      BY <1>3, <1>6, <3>1, Zenon DEF EndOf
  <2>2. 0 + m = m
    OBVIOUS
  <2>. QED
    BY <1>3, <1>7, <1>8, <2>1, <2>2, Zenon DEF OpenOf
<1>10. hole \in Placeholders(Alone, m + 1)
  BY <1>3, <1>5, <1>6, <1>9, Zenon DEF HoleIsRead
<1>11. hole.last \in (m + 1) + 1 .. 2 /\ Spells(Alone, m + 1, hole)
  BY <1>1, <1>10 DEF Placeholders
<1>12. m = 0 /\ hole.last = 2
  BY <1>11
<1>13. n = 0
  BY <1>5, <1>9, <1>12
<1>14. hole.kind = "default"
  <2>1. hole.last # (m + 1) + 3 /\ ~(hole.last >= (m + 1) + 4)
    BY <1>12
  <2>. QED
    BY <1>11, <2>1, Zenon DEF Spells
<1>15. one = <<>> /\ two = <<>>
  <2>1. \A t \in Text : Len(t) = 0 => t = <<>>
    BY DEF Text
  <2>. QED
    BY <1>8, <1>12, <1>13, <2>1
<1>. QED
  BY <1>3, <1>6, <1>7, <1>14, <1>15, Zenon

\* A numeral is one line.
OneLine == Seq(Chars \ {"\n"})

\* So are all that print an integer in decimal.
LEMMA NumeralsAreOneLine ==
  ASSUME NEW n \in 0 .. U64Max
  PROVE  print_u64_decimal(n) \in OneLine /\ print_i64(n) \in OneLine
<1>1. ASSUME NEW m \in 0 .. U64Max
      PROVE  print_u64_decimal(m) \in OneLine
  <2>1. print_u64_decimal(m) \in Seq(DigitsBelow(10, LowerDigits))
    BY DecimalNumeral DEF IsNumeral
  <2>2. DigitsBelow(10, LowerDigits) \subseteq Chars \ {"\n"}
    <3>. SUFFICES ASSUME NEW d \in 0 .. 9
                  PROVE  LowerDigits[d + 1] \in Chars \ {"\n"}
      BY DEF DigitsBelow
    <3>1. d + 1 \in 1 .. 16
      OBVIOUS
    <3>2. LowerDigits[d + 1] \in Chars
      BY <3>1, Zenon DEF Chars
    <3>3. LowerDigits[d + 1] # "\n"
      BY DEF LowerDigits
    <3>. QED
      BY <3>2, <3>3
  <2>. QED
    BY <2>1, <2>2, SeqMonotonic DEF OneLine
<1>2. print_i64(n) \in OneLine
  <2>1. CASE n < TwoTo[Bits - 1]
    BY <1>1, <2>1 DEF print_i64
  <2>2. CASE ~(n < TwoTo[Bits - 1])
    <3>1. PICK m : m = U64((U64Max - n) + 1)
      OBVIOUS
    <3>2. m \in 0 .. U64Max
      <4>1. Modulus \in Nat \ {0} /\ U64Max = Modulus - 1
        BY Wrapping DEF U64Max
      <4>2. \A a \in Nat : \A b \in Nat \ {0} : a % b \in 0 .. b - 1
        OBVIOUS
      <4>3. (U64Max - n) + 1 \in Nat
        BY <4>1
      <4>. QED
        BY <3>1, <4>1, <4>2, <4>3 DEF U64
    <3>3. print_u64_decimal(m) \in OneLine
      BY <1>1, <3>2
    <3>4. <<"-">> \in OneLine
      BY DEF OneLine, Chars
    <3>5. \A s, t \in OneLine : s \o t \in OneLine
      BY DEF OneLine
    <3>6. print_i64(n) = <<"-">> \o print_u64_decimal(m)
      BY <2>2, <3>1, Zenon DEF print_i64
    <3>. QED
      BY <3>3, <3>4, <3>5, <3>6, Zenon
  <2>. QED
    BY <2>1, <2>2
<1>. QED
  BY <1>1, <1>2

\* A line and the end of one are that line.
LEMMA LinesAreReadBack ==
  ASSUME NEW line \in OneLine
  PROVE  firstLine(line) = line /\ firstLine(line \o <<"\n">>) = line
<1>1. PICK n \in Nat : n = Len(line)
  BY DEF OneLine
<1>2. \A k \in 1 .. n : line[k] # "\n" /\ line[k] \in Chars
  BY <1>1 DEF OneLine
<1>3. line \in Text
  BY SeqMonotonic DEF OneLine, Text
<1>4. n + 1 \in 1 .. n + 1 /\ (n + 1) - 1 = n /\ ~(n + 1 <= n)
  OBVIOUS
<1>5. firstLine(line) = line
  <2>1. IsLineEnd(line, n + 1)
    BY <1>1, <1>2, <1>4, Zenon DEF IsLineEnd
  <2>2. firstLine(line) = SubSeq(line, 1, n)
    BY <1>1, <1>3, <1>4, <2>1, LinesEnd, Zenon
  <2>. QED
    BY <1>1, <1>3, <2>2, SubSeqFull DEF Text
<1>6. firstLine(line \o <<"\n">>) = line
  <2>1. PICK text \in Text : text = line \o <<"\n">>
    <3>1. <<"\n">> \in Text
      BY DEF Text, Chars
    <3>2. \A t, u \in Text : t \o u \in Text
      BY DEF Text
    <3>. QED
      BY <1>3, <3>1, <3>2
  <2>2. Len(text) = n + 1 /\ text[n + 1] = "\n" /\ \A k \in 1 .. n : text[k] = line[k]
    BY <1>1, <1>3, <2>1 DEF Text
  <2>3. IsLineEnd(text, n + 1)
    BY <1>2, <1>4, <2>2, Zenon DEF IsLineEnd
  <2>4. n + 1 \in 1 .. Len(text) + 1
    BY <2>2
  <2>5. firstLine(text) = SubSeq(text, 1, n)
    BY <1>4, <2>3, <2>4, LinesEnd, Zenon
  <2>6. SubSeq(text, 1, n) = line
    <3>1. 1 \in 1 .. Len(text) + 1 /\ n \in 1 - 1 .. Len(text)
      BY <2>2
    <3>2. PICK part \in Text : part = SubSeq(text, 1, n)
      BY <3>1, Parts DEF Text
    <3>3. Len(part) = n + 1 - 1 /\ \A k \in 1 .. n + 1 - 1 : part[k] = text[1 + k - 1]
      BY <3>1, <3>2, Parts DEF Text
    <3>4. Len(part) = n /\ \A k \in 1 .. n : part[k] = line[k]
      BY <2>2, <3>3
    <3>. QED
      BY <1>1, <1>3, <3>2, <3>4, SeqEqual DEF Text
  <2>. QED
    BY <2>1, <2>5, <2>6, Zenon
<1>. QED
  BY <1>5, <1>6

\* A call of print with a placeholder alone writes its argument, and the newline.
LEMMA AloneIsWritten ==
  ASSUME NEW c, IsCall(c), analyzeFormatPrintCall(c), c.raw = Alone, Len(c.arguments) = 1
  PROVE  \E argument \in Arguments, hole \in Holes :
           /\ argument = c.arguments[1] /\ argument.number \in numbersOf(argument.type)
           /\ fits(argument.type, hole) /\ hole.kind = "default"
           /\ argument.type # "f64" =>
                WithoutFloats(c) /\ TextOf(c) = Rendered(argument, hole) \o EndOfLine(c)
<1>1. c.first = "literal"
  <2>1. Len(<<>>) # 1
    OBVIOUS
  <2>. QED
    BY <2>1, Zenon DEF analyzeFormatPrintCall
<1>2. decodeStringLiteralContent(c.raw) = Alone /\ Alone \in Text
  <2>1. Alone \in Text
    BY Zenon DEF IsCall
  <2>. QED
    BY <2>1, AloneIsDecoded, Zenon
<1>3. PICK parts : parts = parseFormatString(Alone)
  OBVIOUS
<1>4. parts.ok = TRUE /\ FitTogether(parts, c.arguments)
  BY <1>1, <1>2, <1>3, AcceptedFits
<1>5. PICK arguments \in Seq(Arguments) : arguments = c.arguments
  BY <1>4, Zenon DEF FitTogether
<1>6. PICK holes \in Seq(Holes), literals \in Seq(Text) :
        holes = parts.holes /\ literals = parts.literals
  BY <1>4, Zenon DEF FitTogether
<1>7. Len(holes) = 1 /\ Len(arguments) = 1
  BY <1>4, <1>5, <1>6, Zenon DEF FitTogether
<1>8. IsRead(Alone, parts)
  BY <1>2, <1>3, FormatsAreRead
<1>9. /\ holes[1].kind = "default"
      /\ literals[1] = <<>> /\ literals[2] = <<>>
  BY <1>4, <1>6, <1>7, <1>8, AloneIsRead
<1>10. 1 \in 1 .. 1 /\ 1 + 1 = 2
  OBVIOUS
<1>11. PICK argument \in Arguments, hole \in Holes : argument = arguments[1] /\ hole = holes[1]
  BY <1>7, <1>10, Members, Zenon
<1>12. argument.number \in numbersOf(argument.type) /\ fits(argument.type, hole)
  BY <1>4, <1>5, <1>6, <1>7, <1>10, <1>11, Zenon DEF FitTogether
<1>13. DOMAIN holes = 1 .. 1 /\ DOMAIN arguments = 1 .. 1
  BY <1>7, Members, Zenon
<1>14. ASSUME argument.type # "f64"
       PROVE  WithoutFloats(c) /\ TextOf(c) = Rendered(argument, hole) \o EndOfLine(c)
  <2>1. WithoutFloats(c)
    <3>1. \A i \in 1 .. 1 : i = 1
      OBVIOUS
    <3>. QED
      BY <1>5, <1>11, <1>13, <1>14, <3>1, Zenon DEF WithoutFloats
  <2>2. PICK r \in Text : r = Rendered(argument, hole)
    BY <1>12, <1>14, ArgumentsAreRendered
  <2>3. \A t \in Text : <<>> \o t = t /\ t \o <<>> = t
    BY DEF Text
  <2>4. Expanded(parts, c.arguments, 1) = r
    BY <1>5, <1>6, <1>9, <1>11, <2>2, <2>3, Zenon DEF Expanded
  <2>5. [i \in DOMAIN parts.holes |-> Expanded(parts, c.arguments, i)] = <<r>>
    <3>. DEFINE E(i) == Expanded(parts, c.arguments, i)
    <3>1. E(1) = r /\ DOMAIN parts.holes = 1 .. 1
      BY <1>6, <1>13, <2>4
    <3>. HIDE DEF E
    <3>2. [i \in DOMAIN parts.holes |-> E(i)] = <<r>>
      BY <3>1
    <3>. QED
      BY <3>2 DEF E
  <2>6. FlattenSeq(<<r>>) = r
    <3>1. <<r>> \in Seq(Text) /\ <<r>> # <<>> /\ Head(<<r>>) = r /\ Tail(<<r>>) = <<>>
      OBVIOUS
    <3>2. FlattenSeq(<<r>>) = r \o FlattenSeq(<<>>)
      BY <3>1, FlattenHeadTail DEF Text
    <3>. QED
      BY <2>3, <3>2, FlattenEmpty, Zenon
  <2>7. Expanding(parts, c.arguments) = r
    <3>1. parts.literals[Len(parts.holes) + 1] = <<>>
      BY <1>6, <1>7, <1>9, <1>10, Zenon
    <3>. QED
      BY <2>3, <2>5, <2>6, <3>1, Zenon DEF Expanding
  <2>8. TextOf(c) = Expanding(parts, c.arguments) \o EndOfLine(c)
    BY <1>1, <1>2, <1>3, Zenon DEF TextOf, Expansion, Expanding, Expanded, EndOfLine
  <2>. QED
    BY <2>1, <2>2, <2>7, <2>8, Zenon
<1>. QED
  BY <1>5, <1>9, <1>11, <1>12, <1>14, Zenon

\* The first line of what is written is the argument.
LEMMA LineOfAlone ==
  ASSUME NEW c, IsCall(c), NEW line \in OneLine, TextOf(c) = line \o EndOfLine(c)
  PROVE  firstLine(TextOf(c)) = line
<1>1. line \in Text
  BY SeqMonotonic DEF OneLine, Text
<1>2. line \o <<>> = line
  BY <1>1 DEF Text
<1>3. EndOfLine(c) \in {<<>>, <<"\n">>}
  BY DEF EndOfLine
<1>. QED
  BY <1>2, <1>3, LinesAreReadBack, Zenon

\* What an integer or a bool is read back as.
LEMMA RenderedIsReadBack ==
  ASSUME NEW argument \in Arguments, argument.number \in numbersOf(argument.type),
         NEW hole \in Holes, fits(argument.type, hole), hole.kind = "default"
  PROVE  /\ argument.type = "i32" =>
              /\ Rendered(argument, hole) \in OneLine
              /\ parse_i32(Rendered(argument, hole)) = Parsed(argument.number)
         /\ argument.type = "u64" =>
              /\ Rendered(argument, hole) \in OneLine
              /\ parse_u64(Rendered(argument, hole)) = Parsed(argument.number)
         /\ argument.type = "bool" =>
              /\ Rendered(argument, hole) \in OneLine
              /\ parse_bool(Rendered(argument, hole)) = Parsed(argument.number)
<1>1. PICK v \in Int : v = argument.number
  BY DEF Arguments
<1>2. PICK piece : piece = lowerOneFormatArgument(argument, hole)
  OBVIOUS
<1>3. argument.type # "f64" => Written(piece) = {Rendered(argument, hole)}
  BY <1>2, ArgumentsAreRendered
<1>4. hole.kind \notin {"x", "X", "b"}
  OBVIOUS
<1>5. CASE argument.type = "i32"
  <2>1. argument.type \in Integers /\ ~isUnsignedInteger(argument.type)
    BY <1>5 DEF Integers, isUnsignedInteger
  <2>2. PICK u : u = widenIntegerArgumentToI64(argument)
    OBVIOUS
  <2>3. u \in 0 .. U64Max /\ u = U64(v)
    BY <1>1, <2>1, <2>2, IntegersAreWidened DEF U64
  <2>4. piece.fn = "print_i64" /\ piece.number = u
    <3>1. piece = Piece("print_i64", widenIntegerArgumentToI64(argument), <<>>, 0)
      BY <1>2, <1>4, <1>5, <2>1 DEF lowerOneFormatArgument, Integers
    <3>2. piece = Piece("print_i64", u, <<>>, 0)
      BY <2>2, <3>1, Zenon
    <3>. QED
      BY <3>2 DEF Piece
  <2>5. Written(piece) = {print_i64(u)}
    BY <2>4, WrittenBy
  <2>6. Rendered(argument, hole) = print_i64(U64(v))
    <3>1. argument.type # "f64"
      BY <1>5
    <3>. QED
      BY <1>3, <2>3, <2>5, <3>1, Zenon
  <2>7. v \in I32s
    <3>1. argument.type # "bool" /\ argument.type \in {"i32", "i64"} /\ width(argument.type) = IntBits
      BY <1>5 DEF width
    <3>2. v \in (0 - TwoTo[IntBits - 1]) .. TwoTo[IntBits - 1] - 1
      BY <1>1, <3>1, Zenon DEF numbersOf
    <3>3. TwoTo[IntBits - 1] \in Int
      BY I32sAreSmall
    <3>. QED
      BY <3>2, <3>3 DEF I32s
  <2>8. print_i64(u) \in OneLine
    BY <2>3, NumeralsAreOneLine
  <2>9. argument.type # "u64" /\ argument.type # "bool"
    BY <1>5
  <2>. QED
    BY <1>1, <2>3, <2>6, <2>7, <2>8, <2>9, I32IsReadBack, Zenon
<1>6. CASE argument.type = "u64"
  <2>1. argument.type \in Integers /\ isUnsignedInteger(argument.type)
    BY <1>6 DEF Integers, isUnsignedInteger
  <2>2. PICK u : u = widenIntegerArgumentToI64(argument)
    OBVIOUS
  <2>3. u \in 0 .. U64Max /\ (v < 0 => ~isUnsignedInteger(argument.type)) /\ (v >= 0 => u = v)
    BY <1>1, <2>1, <2>2, IntegersAreWidened
  <2>4. u = v
    BY <2>1, <2>3
  <2>5. piece.fn = "print_u64" /\ piece.number = u
    <3>1. piece = Piece("print_u64", widenIntegerArgumentToI64(argument), <<>>, 0)
      BY <1>2, <1>4, <1>6, <2>1 DEF lowerOneFormatArgument, Integers
    <3>2. piece = Piece("print_u64", u, <<>>, 0)
      BY <2>2, <3>1, Zenon
    <3>. QED
      BY <3>2 DEF Piece
  <2>6. Written(piece) = {print_u64_decimal(u)}
    BY <2>5, WrittenBy
  <2>7. Rendered(argument, hole) = print_u64_decimal(u)
    <3>1. argument.type # "f64"
      BY <1>6
    <3>. QED
      BY <1>3, <2>6, <3>1, Zenon
  <2>8. print_u64_decimal(u) \in OneLine
    BY <2>3, NumeralsAreOneLine
  <2>9. argument.type # "i32" /\ argument.type # "bool"
    BY <1>6
  <2>10. parse_u64(print_u64_decimal(u)) = Parsed(u)
    BY <2>3, U64IsReadBack
  <2>. QED
    BY <1>1, <2>4, <2>7, <2>8, <2>9, <2>10, Zenon
<1>7. CASE argument.type = "bool"
  <2>1. Rendered(argument, hole) = IF v = 1 THEN True ELSE False
    BY <1>1, <1>7 DEF Rendered, Integers
  <2>2. v \in {0, 1}
    BY <1>1, <1>7, Zenon DEF numbersOf
  <2>3. True \in OneLine /\ False \in OneLine
    BY DEF True, False, OneLine, Chars
  <2>4. False # True /\ False # <<"1">>
    BY DEF True, False
  <2>5. parse_bool(True) = Parsed(1)
    BY Zenon DEF parse_bool
  <2>6. parse_bool(False) = Parsed(0)
    BY <2>4, Zenon DEF parse_bool
  <2>7. (IF v = 1 THEN True ELSE False) \in OneLine
        /\ parse_bool(IF v = 1 THEN True ELSE False) = Parsed(v)
    <3>1. CASE v = 1
      BY <2>3, <2>5, <3>1, Zenon
    <3>2. CASE v = 0
      <4>1. v # 1
        BY <3>2
      <4>. QED
        BY <2>3, <2>6, <3>2, <4>1, Zenon
    <3>. QED
      BY <2>2, <3>1, <3>2
  <2>8. argument.type # "i32" /\ argument.type # "u64"
    BY <1>7
  <2>. QED
    BY <1>1, <2>1, <2>7, <2>8, Zenon
<1>. QED
  BY <1>5, <1>6, <1>7, Zenon

\* An i32, u64 or bool that was printed by itself is read back as the value it was
\* (nex_runtime_print_i64, nex_runtime_print_u64, print_bool and their parsers).
THEOREM NumbersAreAlwaysReadBack == Spec => []NumbersAreReadBack
<1>1. OutputInv => NumbersAreReadBack
  <2>. SUFFICES ASSUME OutputInv, stage = "parsed", call.raw = Alone, Len(call.arguments) = 1
                PROVE  LET argument == call.arguments[1]
                       IN /\ argument.type = "i32" => result.i32 = Parsed(argument.number)
                          /\ argument.type = "u64" => result.u64 = Parsed(argument.number)
                          /\ argument.type = "bool" => result.bool = Parsed(argument.number)
    BY Zenon DEF NumbersAreReadBack, Alone
  <2>1. PICK c : c = call
    OBVIOUS
  <2>2. c # NoCall
    <3>1. NoCall.raw = <<>>
      BY DEF NoCall
    <3>2. <<>> # Alone
      BY DEF Alone
    <3>. QED
      BY <2>1, <3>1, <3>2, Zenon
  <2>3. stage \in {"input", "parsed"}
    OBVIOUS
  <2>4. /\ result = Results(input) /\ IsCall(c) /\ analyzeFormatPrintCall(c)
        /\ WithoutFloats(c) => TextOf(c) \in Text /\ input = firstLine(TextOf(c))
    BY <2>1, <2>2, <2>3, Zenon DEF OutputInv, IsReached
  <2>5. /\ result.i32 = parse_i32(input) /\ result.u64 = parse_u64(input)
        /\ result.bool = parse_bool(input)
    BY <2>4 DEF Results
  <2>6. PICK argument \in Arguments, hole \in Holes :
          /\ argument = c.arguments[1] /\ argument.number \in numbersOf(argument.type)
          /\ fits(argument.type, hole) /\ hole.kind = "default"
          /\ argument.type # "f64" =>
               WithoutFloats(c) /\ TextOf(c) = Rendered(argument, hole) \o EndOfLine(c)
    BY <2>1, <2>4, AloneIsWritten
  <2>7. PICK r : r = Rendered(argument, hole)
    OBVIOUS
  <2>8. /\ argument.type = "i32" => r \in OneLine /\ parse_i32(r) = Parsed(argument.number)
        /\ argument.type = "u64" => r \in OneLine /\ parse_u64(r) = Parsed(argument.number)
        /\ argument.type = "bool" => r \in OneLine /\ parse_bool(r) = Parsed(argument.number)
    BY <2>6, <2>7, RenderedIsReadBack
  <2>9. argument.type # "f64" /\ r \in OneLine => input = r
    <3>. SUFFICES ASSUME argument.type # "f64", r \in OneLine
                  PROVE  input = r
      OBVIOUS
    <3>1. TextOf(c) = r \o EndOfLine(c) /\ WithoutFloats(c)
      BY <2>6, <2>7, Zenon
    <3>2. firstLine(TextOf(c)) = r
      BY <2>4, <3>1, LineOfAlone
    <3>. QED
      BY <2>4, <3>1, <3>2, Zenon
  <2>10. /\ argument.type = "i32" => argument.type # "f64"
         /\ argument.type = "u64" => argument.type # "f64"
         /\ argument.type = "bool" => argument.type # "f64"
    OBVIOUS
  <2>. QED
    BY <2>1, <2>5, <2>6, <2>8, <2>9, <2>10, Zenon
<1>. QED
  BY <1>1, OutputsAreKnown, PTL

-----------------------------------------------------------------------------
(* The search for the literal.                                             *)

\* The blocks in the operations of a block: in all, or in those that are passed.
Into(block, all) ==
  UNION {blocksOf(block[i]) : i \in {i \in DOMAIN block : all \/ isPassed(block, i)}}

\* And in those of some blocks.
Deeper(blocks, all) == UNION {Into(block, all) : block \in blocks}

\* f[k] are the blocks that are k deep in a block, down to n.
IsNest(f, block, all, n) ==
  f = [k \in 0 .. n |-> IF k = 0 THEN {block} ELSE Deeper(f[k - 1], all)]

\* They exist.
LEMMA NestsExist ==
  ASSUME NEW block, NEW all, NEW n \in Nat
  PROVE  \E f : IsNest(f, block, all, n)
<1>. DEFINE S == {m \in Nat : \E f : IsNest(f, block, all, m)}
<1>1. 0 \in S
  <2>1. PICK f : f = [k \in 0 .. 0 |-> {block}]
    OBVIOUS
  <2>2. f = [k \in 0 .. 0 |-> IF k = 0 THEN {block} ELSE Deeper(f[k - 1], all)]
    BY <2>1
  <2>3. \E g : IsNest(g, block, all, 0)
    BY <2>2, Zenon DEF IsNest
  <2>. QED
    BY <2>3
<1>2. ASSUME NEW m \in 0 .. n - 1, m \in S
      PROVE  m + 1 \in S
  <2>1. PICK f : IsNest(f, block, all, m)
    BY <1>2
  <2>2. \A k \in 0 .. m : f[k] = IF k = 0 THEN {block} ELSE Deeper(f[k - 1], all)
    BY <2>1 DEF IsNest
  <2>3. PICK g : g = [k \in 0 .. m + 1 |-> IF k = m + 1 THEN Deeper(f[m], all) ELSE f[k]]
    OBVIOUS
  <2>4. \A k \in 0 .. m : g[k] = f[k]
    BY <2>3
  <2>5. ASSUME NEW k \in 0 .. m + 1
        PROVE  g[k] = IF k = 0 THEN {block} ELSE Deeper(g[k - 1], all)
    <3>1. CASE k = m + 1
      <4>1. k \in 0 .. m + 1 /\ k - 1 = m /\ m \in 0 .. m /\ k # 0
        BY <3>1
      <4>2. g[k] = Deeper(f[m], all)
        BY <2>3, <3>1
      <4>. QED
        BY <2>4, <4>1, <4>2, Zenon
    <3>2. CASE k # m + 1 /\ k # 0
      <4>1. k \in 0 .. m /\ k - 1 \in 0 .. m
        BY <3>2
      <4>. QED
        BY <2>2, <2>4, <3>2, <4>1, Zenon
    <3>3. CASE k # m + 1 /\ k = 0
      <4>1. k \in 0 .. m
        BY <3>3
      <4>. QED
        BY <2>2, <2>4, <3>3, <4>1, Zenon
    <3>. QED
      BY <3>1, <3>2, <3>3
  <2>6. g = [k \in 0 .. m + 1 |-> IF k = 0 THEN {block} ELSE Deeper(g[k - 1], all)]
    BY <2>3, <2>5
  <2>7. \E h : IsNest(h, block, all, m + 1)
    BY <2>6, Zenon DEF IsNest
  <2>. QED
    BY <2>7
<1>3. n \in S
  <2>. HIDE DEF S
  <2>1. 0 .. n \subseteq S
    BY <1>1, <1>2, UpToInduction
  <2>. QED
    BY <2>1
<1>. QED
  BY <1>3

\* The blocks in a block, and those that the search comes to.
LEMMA BlocksAreNests ==
  ASSUME NEW block
  PROVE  IsNest(Within(block), block, TRUE, MaxNesting) /\ IsNest(scanned(block), block, FALSE, MaxNesting)
<1>1. MaxNesting \in Nat
  BY ProgramsAssumption
<1>2. IsNest(Within(block), block, TRUE, MaxNesting)
  <2>. DEFINE Inner(outer) == UNION {blocksOf(outer[i]) : i \in DOMAIN outer}
              Goes(f) == f = [n \in 0 .. MaxNesting |->
                  IF n = 0 THEN {block} ELSE UNION {Inner(outer) : outer \in f[n - 1]}]
  <2>1. \A outer : Into(outer, TRUE) = Inner(outer)
    <3>. SUFFICES ASSUME NEW outer
                  PROVE  Into(outer, TRUE) = Inner(outer)
      OBVIOUS
    <3>1. {i \in DOMAIN outer : TRUE \/ isPassed(outer, i)} = DOMAIN outer
      OBVIOUS
    <3>. QED
      BY <3>1, Zenon DEF Into
  <2>2. \A blocks : Deeper(blocks, TRUE) = UNION {Inner(outer) : outer \in blocks}
    <3>. HIDE DEF Inner
    <3>. QED
      BY <2>1, Zenon DEF Deeper
  <2>3. \A f : Goes(f) <=> IsNest(f, block, TRUE, MaxNesting)
    <3>. HIDE DEF Inner
    <3>. QED
      BY <2>2, Zenon DEF IsNest
  <2>4. \E f : Goes(f)
    <3>1. \E f : IsNest(f, block, TRUE, MaxNesting)
      BY <1>1, NestsExist
    <3>. HIDE DEF Goes
    <3>. QED
      BY <2>3, <3>1, Zenon
  <2>5. Within(block) = CHOOSE f : Goes(f)
    BY Zenon DEF Within
  <2>. HIDE DEF Goes
  <2>6. Goes(Within(block))
    BY <2>4, <2>5, Zenon
  <2>. QED
    BY <2>3, <2>6, Zenon
<1>3. IsNest(scanned(block), block, FALSE, MaxNesting)
  <2>. DEFINE Entered(b) == UNION {blocksOf(b[i]) : i \in {i \in DOMAIN b : isPassed(b, i)}}
              Goes(f) == f = [n \in 0 .. MaxNesting |->
                  IF n = 0 THEN {block} ELSE UNION {Entered(b) : b \in f[n - 1]}]
  <2>1. \A outer : Into(outer, FALSE) = Entered(outer)
    <3>. SUFFICES ASSUME NEW outer
                  PROVE  Into(outer, FALSE) = Entered(outer)
      OBVIOUS
    <3>1. {i \in DOMAIN outer : FALSE \/ isPassed(outer, i)} = {i \in DOMAIN outer : isPassed(outer, i)}
      OBVIOUS
    <3>. QED
      BY <3>1, Zenon DEF Into
  <2>2. \A blocks : Deeper(blocks, FALSE) = UNION {Entered(b) : b \in blocks}
    <3>. HIDE DEF Entered
    <3>. QED
      BY <2>1, Zenon DEF Deeper
  <2>3. \A f : Goes(f) <=> IsNest(f, block, FALSE, MaxNesting)
    <3>. HIDE DEF Entered
    <3>. QED
      BY <2>2, Zenon DEF IsNest
  <2>4. \E f : Goes(f)
    <3>1. \E f : IsNest(f, block, FALSE, MaxNesting)
      BY <1>1, NestsExist
    <3>. HIDE DEF Goes
    <3>. QED
      BY <2>3, <3>1, Zenon
  <2>5. scanned(block) = CHOOSE f : Goes(f)
    BY Zenon DEF scanned
  <2>. HIDE DEF Goes
  <2>6. Goes(scanned(block))
    BY <2>4, <2>5, Zenon
  <2>. QED
    BY <2>3, <2>6, Zenon
<1>. QED
  BY <1>2, <1>3

\* Each layer of them is in the one before it.
LEMMA Layers ==
  ASSUME NEW block
  PROVE  /\ Within(block)[0] = {block} /\ scanned(block)[0] = {block}
         /\ \A n \in 1 .. MaxNesting :
              /\ Within(block)[n] = Deeper(Within(block)[n - 1], TRUE)
              /\ scanned(block)[n] = Deeper(scanned(block)[n - 1], FALSE)
<1>1. MaxNesting \in Nat
  BY ProgramsAssumption
<1>2. ASSUME NEW f, NEW all, IsNest(f, block, all, MaxNesting)
      PROVE  f[0] = {block} /\ \A n \in 1 .. MaxNesting : f[n] = Deeper(f[n - 1], all)
  <2>1. \A n \in 0 .. MaxNesting : f[n] = IF n = 0 THEN {block} ELSE Deeper(f[n - 1], all)
    BY <1>2 DEF IsNest
  <2>2. 0 \in 0 .. MaxNesting /\ \A n \in 1 .. MaxNesting : n \in 0 .. MaxNesting /\ n # 0
    BY <1>1
  <2>. QED
    BY <2>1, <2>2, Zenon
<1>. QED
  BY <1>2, BlocksAreNests, Zenon

\* One more turn of either scan goes one block deeper.
LEMMA NextLayer ==
  ASSUME NEW block, NEW m \in Nat, m + 1 \in 1 .. MaxNesting
  PROVE  /\ Within(block)[m + 1] = Deeper(Within(block)[m], TRUE)
         /\ scanned(block)[m + 1] = Deeper(scanned(block)[m], FALSE)
<1>1. PICK n \in 1 .. MaxNesting : n = m + 1
  OBVIOUS
<1>2. n - 1 = m
  BY <1>1
<1>. QED
  BY <1>1, <1>2, Layers, Zenon

\* What is deep in a block is less deep in one of the blocks of its operations.
LEMMA LessDeep ==
  ASSUME NEW block, NEW n \in 1 .. MaxNesting, NEW inner \in Within(block)[n]
  PROVE  \E child \in Into(block, TRUE) : inner \in Within(child)[n - 1]
<1>1. MaxNesting \in Nat
  BY ProgramsAssumption
<1>. DEFINE S == {m \in Nat : m + 1 \in 1 .. MaxNesting =>
                    \A i \in Within(block)[m + 1] :
                      \E child \in Into(block, TRUE) : i \in Within(child)[m]}
<1>2. 0 \in S
  <2>1. ASSUME 1 \in 1 .. MaxNesting, NEW i \in Within(block)[1]
        PROVE  \E child \in Into(block, TRUE) : i \in Within(child)[0]
    <3>1. Within(block)[1] = Deeper(Within(block)[1 - 1], TRUE) /\ Within(block)[0] = {block}
      BY <2>1, Layers
    <3>2. 1 - 1 = 0
      OBVIOUS
    <3>3. i \in Deeper({block}, TRUE)
      BY <2>1, <3>1, <3>2, Zenon
    <3>4. i \in Into(block, TRUE)
      BY <3>3, Zenon DEF Deeper
    <3>5. i \in Within(i)[0]
      BY Layers, Zenon
    <3>. QED
      BY <3>4, <3>5
  <2>2. 0 + 1 = 1
    OBVIOUS
  <2>3. 0 + 1 \in 1 .. MaxNesting =>
          \A i \in Within(block)[0 + 1] : \E child \in Into(block, TRUE) : i \in Within(child)[0]
    BY <2>1, <2>2, Zenon
  <2>. QED
    BY <2>3
<1>3. ASSUME NEW m \in 0 .. n - 1, m \in S
      PROVE  m + 1 \in S
  <2>1. ASSUME (m + 1) + 1 \in 1 .. MaxNesting, NEW i \in Within(block)[(m + 1) + 1]
        PROVE  \E child \in Into(block, TRUE) : i \in Within(child)[m + 1]
    <3>1. ((m + 1) + 1) - 1 = m + 1 /\ (m + 1) - 1 = m /\ m + 1 \in 1 .. MaxNesting
      BY <1>1, <2>1
    <3>2. Within(block)[(m + 1) + 1] = Deeper(Within(block)[m + 1], TRUE)
      <4>1. PICK q \in Nat : q = m + 1
        OBVIOUS
      <4>2. q + 1 \in 1 .. MaxNesting
        BY <2>1, <4>1
      <4>3. Within(block)[q + 1] = Deeper(Within(block)[q], TRUE)
        BY <4>2, NextLayer
      <4>. QED
        BY <4>1, <4>3, Zenon
    <3>3. PICK outer \in Within(block)[m + 1] : i \in Into(outer, TRUE)
      BY <2>1, <3>2, Zenon DEF Deeper
    <3>4. PICK child \in Into(block, TRUE) : outer \in Within(child)[m]
      BY <1>3, <3>1, <3>3
    <3>5. Within(child)[m + 1] = Deeper(Within(child)[m], TRUE)
      <4>1. m \in Nat /\ m + 1 \in 1 .. MaxNesting
        BY <3>1
      <4>. QED
        BY <4>1, NextLayer, Zenon
    <3>6. i \in Within(child)[m + 1]
      BY <3>3, <3>4, <3>5, Zenon DEF Deeper
    <3>. QED
      BY <3>6
  <2>2. m + 1 \in Nat
    OBVIOUS
  <2>. QED
    BY <2>1, <2>2
<1>4. n - 1 \in S
  <2>. HIDE DEF S
  <2>1. n \in Nat /\ n - 1 \in 0 .. n
    OBVIOUS
  <2>2. 0 .. n \subseteq S
    BY <1>2, <1>3, <2>1, UpToInduction
  <2>. QED
    BY <2>1, <2>2
<1>5. (n - 1) + 1 = n
  OBVIOUS
<1>. QED
  BY <1>4, <1>5

\* The search finds the literal of a call that is not behind an if (findStringLiteralRaw).
LEMMA LiteralIsFound ==
  ASSUME NEW function, HoldsCall(function), ~IsBehindIf(function)
  PROVE  scan(function)
<1>1. MaxNesting \in Nat
  BY ProgramsAssumption
<1>10. PICK n \in 0 .. MaxNesting :
         \E inner \in Within(function)[n] : \E at \in DOMAIN inner : inner[at].kind = "literal"
  BY Zenon DEF HoldsCall
<1>2. PICK inner, at : /\ inner \in Within(function)[n]
                      /\ at \in DOMAIN inner /\ inner[at].kind = "literal"
  BY <1>10, Zenon
<1>3. ASSUME NEW m \in 0 .. MaxNesting, NEW block \in Within(function)[m], NEW i \in DOMAIN block,
             block[i].kind = "literal" \/ \E child \in blocksOf(block[i]) : HoldsCall(child)
      PROVE  isPassed(block, i)
  BY <1>3, Zenon DEF isPassed, IsBehindIf
<1>. DEFINE S == {m \in Nat : m <= n =>
                    \E block : /\ block \in Within(function)[m] /\ block \in scanned(function)[m]
                               /\ inner \in Within(block)[n - m]}
<1>4. 0 \in S
  <2>1. function \in Within(function)[0] /\ function \in scanned(function)[0]
    BY Layers
  <2>2. n - 0 = n
    OBVIOUS
  <2>3. \E block : /\ block \in Within(function)[0] /\ block \in scanned(function)[0]
                   /\ inner \in Within(block)[n - 0]
    BY <1>2, <2>1, <2>2, Zenon
  <2>. QED
    BY <2>3
<1>5. ASSUME NEW m \in 0 .. n - 1, m \in S
      PROVE  m + 1 \in S
  <2>1. PICK block : /\ block \in Within(function)[m] /\ block \in scanned(function)[m]
                     /\ inner \in Within(block)[n - m]
    BY <1>5
  <2>2. /\ n - m \in 1 .. MaxNesting /\ (n - m) - 1 = n - (m + 1) /\ m + 1 \in 1 .. MaxNesting
        /\ (m + 1) - 1 = m /\ m \in 0 .. MaxNesting /\ n - (m + 1) \in 0 .. MaxNesting
    BY <1>1
  <2>3. PICK child \in Into(block, TRUE) : inner \in Within(child)[n - (m + 1)]
    BY <2>1, <2>2, LessDeep, Zenon
  <2>4. PICK i \in DOMAIN block : child \in blocksOf(block[i])
    BY <2>3, Zenon DEF Into
  <2>5. HoldsCall(child)
    BY <1>2, <2>2, <2>3, Zenon DEF HoldsCall
  <2>6. isPassed(block, i)
    BY <1>3, <2>1, <2>2, <2>4, <2>5, Zenon
  <2>7. child \in Into(block, FALSE)
    BY <2>4, <2>6, Zenon DEF Into
  <2>8. child \in Within(function)[m + 1] /\ child \in scanned(function)[m + 1]
    <3>1. /\ Within(function)[m + 1] = Deeper(Within(function)[m], TRUE)
          /\ scanned(function)[m + 1] = Deeper(scanned(function)[m], FALSE)
      <4>1. m \in Nat /\ m + 1 \in 1 .. MaxNesting
        BY <2>2
      <4>. QED
        BY <4>1, NextLayer, Zenon
    <3>. QED
      BY <2>1, <2>3, <2>7, <3>1, Zenon DEF Deeper
  <2>9. m + 1 \in Nat
    OBVIOUS
  <2>. QED
    BY <2>3, <2>8, <2>9
<1>6. n \in S
  <2>. HIDE DEF S
  <2>1. n \in Nat /\ n \in 0 .. n
    OBVIOUS
  <2>2. 0 .. n \subseteq S
    BY <1>4, <1>5, <2>1, UpToInduction
  <2>. QED
    BY <2>1, <2>2
<1>7. PICK block : /\ block \in Within(function)[n] /\ block \in scanned(function)[n]
                   /\ inner \in Within(block)[n - n]
  BY <1>6
<1>8. block = inner
  <2>1. n - n = 0
    OBVIOUS
  <2>. QED
    BY <1>7, <2>1, Layers, Zenon
<1>9. isPassed(inner, at)
  BY <1>2, <1>3, Zenon
<1>. QED
  BY <1>2, <1>7, <1>8, <1>9, Zenon DEF scan

\* An accepted call that cannot be lowered is in parentheses or behind an if.
LEMMA NotLowered ==
  ASSUME NEW c, NEW function, HoldsCall(function), analyzeFormatPrintCall(c),
         ~IsLowered(c, function)
  PROVE  c.first = "paren" \/ IsBehindIf(function)
<1>. SUFFICES ASSUME c.first # "paren", ~IsBehindIf(function)
              PROVE  FALSE
  OBVIOUS
<1>1. scan(function)
  BY LiteralIsFound
<1>2. CASE c.first = "literal"
  <2>1. c.first \in {"literal", "paren"}
    BY <1>2
  <2>. QED
    BY <1>1, <1>2, <2>1, Zenon
      DEF analyzeFormatPrintCall, arityFits, IsLowered, findStringLiteralRaw
<1>3. CASE c.first # "literal"
  <2>1. c.first \notin {"literal", "paren"}
    BY <1>3
  <2>. QED
    BY <1>3, <2>1, Zenon DEF analyzeFormatPrintCall, IsLowered, findStringLiteralRaw
<1>. QED
  BY <1>2, <1>3

\* The calls that the analyzer accepts are lowered (lowerFormattedPrintBuiltin): all of
\* them but a literal in parentheses and a call behind an if.
THEOREM PlainCallsAreAlwaysLowered == Spec => []PlainCallsAreLowered
<1>1. CallInv /\ OutputInv => PlainCallsAreLowered
  <2>. SUFFICES ASSUME CallInv, OutputInv, stage = "thrown"
                PROVE  call.first = "paren" \/ IsBehindIf(body)
    BY Zenon DEF PlainCallsAreLowered
  <2>1. IsProgram(call, body)
    BY DEF CallInv
  <2>2. HoldsCall(body)
    BY <2>1, ProgramsAssumption, Zenon DEF IsProgram
  <2>3. stage \in {"accepted", "lowered", "thrown"}
    OBVIOUS
  <2>4. analyzeFormatPrintCall(call) /\ ~IsLowered(call, body)
    BY <2>3, Zenon DEF OutputInv, IsReached
  <2>. QED
    BY <2>2, <2>4, NotLowered, Zenon
<1>. QED
  BY <1>1, OutputsAreKnown, PTL

-----------------------------------------------------------------------------
(* Rounding floats.                                                        *)

\* A power of ten is a multiple of ten times each one below it.
LEMMA PowersOfTenDivide ==
  ASSUME NEW n \in 0 .. MaxPrecision, NEW k \in 0 .. n - 1
  PROVE  \E m \in Nat : TenTo[n] = m * (10 * TenTo[k])
<1>1. MaxPrecision \in Nat
  BY WidthAssumption
<1>2. PICK p \in Nat : p = TenTo[k]
  <2>1. k \in 0 .. MaxPrecision
    BY <1>1
  <2>. QED
    BY <2>1, PowersOfTen DEF Positive
<1>. DEFINE S == {e \in Nat : k + 1 + e <= n => \E m \in Nat : TenTo[k + 1 + e] = m * (10 * p)}
<1>3. 0 \in S
  <2>1. k + 1 \in 1 .. MaxPrecision /\ (k + 1) - 1 = k /\ k + 1 + 0 = k + 1
    BY <1>1
  <2>2. TenTo[k + 1] = 10 * p
    BY <1>2, <2>1, PowersOfTen
  <2>3. TenTo[k + 1 + 0] = 1 * (10 * p)
    BY <2>1, <2>2
  <2>. QED
    BY <2>3
<1>4. ASSUME NEW e \in 0 .. n - 1, e \in S
      PROVE  e + 1 \in S
  <2>. SUFFICES ASSUME k + 1 + (e + 1) <= n
                PROVE  \E m \in Nat : TenTo[k + 1 + (e + 1)] = m * (10 * p)
    OBVIOUS
  <2>1. PICK m \in Nat : TenTo[k + 1 + e] = m * (10 * p)
    BY <1>4
  <2>2. PICK i \in 1 .. MaxPrecision : i = k + 1 + (e + 1) /\ i - 1 = k + 1 + e
    BY <1>1
  <2>3. TenTo[i] = 10 * TenTo[i - 1]
    BY PowersOfTen
  <2>4. 10 * (m * (10 * p)) = (10 * m) * (10 * p)
    OBVIOUS
  <2>5. TenTo[k + 1 + (e + 1)] = (10 * m) * (10 * p)
    BY <2>1, <2>2, <2>3, <2>4, Zenon
  <2>. QED
    BY <2>5
<1>5. PICK e \in 0 .. n : n = k + 1 + e
  <2>1. n - (k + 1) \in 0 .. n /\ n = k + 1 + (n - (k + 1))
    OBVIOUS
  <2>. QED
    BY <2>1
<1>6. e \in S
  <2>. HIDE DEF S
  <2>1. 0 .. n \subseteq S
    BY <1>3, <1>4, UpToInduction
  <2>. QED
    BY <2>1
<1>. QED
  BY <1>2, <1>5, <1>6

\* A division by ten times a number is one by ten more.
LEMMA TenthOfQuotient ==
  ASSUME NEW a \in Nat, NEW p \in Nat \ {0}
  PROVE  a \div p = (a \div (10 * p)) * 10 + ((a \div p) % 10) /\ (a \div p) % 10 \in 0 .. 9
<1>1. PICK l \in Nat, r \in 0 .. p - 1 : l = a \div p /\ a = l * p + r
  BY Division
<1>2. l * p <= a /\ a < (l + 1) * p
  <2>1. (l + 1) * p = l * p + p
    OBVIOUS
  <2>. QED
    BY <1>1, <2>1
<1>3. PICK q \in Nat : q = l \div 10
  OBVIOUS
<1>4. PICK s \in Nat \ {0} : s = p * 10 /\ s = 10 * p
  OBVIOUS
<1>5. q * s <= a /\ a < (q + 1) * s
  <2>1. 10 \in Nat \ {0}
    OBVIOUS
  <2>. QED
    BY <1>2, <1>3, <1>4, <2>1, QuotientOfQuotient, Zenon
<1>6. a \div s = q
  BY <1>5, Quotient
<1>7. l = q * 10 + (l % 10) /\ l % 10 \in 0 .. 9
  BY <1>3
<1>. QED
  BY <1>1, <1>4, <1>6, <1>7, Zenon

\* The digit at a place below a multiple of the power is the same in the rest by it.
LEMMA DigitsOfRests ==
  ASSUME NEW a \in Nat, NEW p \in Nat \ {0}, NEW m \in Nat, m * (10 * p) # 0
  PROVE  ((a % (m * (10 * p))) \div p) % 10 = (a \div p) % 10
<1>1. PICK s \in Nat \ {0} : s = m * (10 * p)
  OBVIOUS
<1>2. PICK w \in Nat, v \in 0 .. s - 1 : v = a % s /\ a = w * s + v
  OBVIOUS
<1>3. PICK l \in Nat, r \in 0 .. p - 1 : l = v \div p /\ v = l * p + r
  <2>1. v \in Nat
    OBVIOUS
  <2>. QED
    BY <2>1, Division
<1>4. PICK x \in Nat : x = w * m
  OBVIOUS
<1>5. PICK q \in Nat : q = 10 * x + l
  OBVIOUS
<1>6. a = q * p + r
  <2>1. w * (m * (10 * p)) = (10 * (w * m)) * p
    OBVIOUS
  <2>2. (10 * x) * p + l * p = (10 * x + l) * p
    OBVIOUS
  <2>3. w * s = (10 * x) * p
    BY <1>1, <1>4, <2>1
  <2>. QED
    BY <1>2, <1>3, <1>5, <2>2, <2>3
<1>7. a \div p = q
  <2>1. (q + 1) * p = q * p + p
    OBVIOUS
  <2>2. q * p <= a /\ a < (q + 1) * p
    BY <1>6, <2>1
  <2>. QED
    BY <2>2, Quotient
<1>8. q % 10 = l % 10
  BY <1>5
<1>. QED
  BY <1>1, <1>2, <1>3, <1>7, <1>8, Zenon

\* The quotients of a number by the powers of ten, from the last place on.
LEMMA PlacesOfTen ==
  ASSUME NEW a \in Nat, NEW places \in 0 .. MaxPrecision
  PROVE  /\ \A j \in 0 .. places : TenTo[j] \in Nat \ {0} /\ a \div TenTo[j] \in Nat
         /\ a \div TenTo[0] = a
         /\ \A j \in 0 .. places - 1 :
              \E d \in 0 .. 9 :
                /\ d = ((a % TenTo[places]) \div TenTo[j]) % 10
                /\ a \div TenTo[j] = (a \div TenTo[j + 1]) * 10 + d
<1>1. MaxPrecision \in Nat
  BY WidthAssumption
<1>2. \A j \in 0 .. MaxPrecision : TenTo[j] \in Nat \ {0}
  BY PowersOfTen DEF Positive
<1>3. \A j \in 0 .. places : TenTo[j] \in Nat \ {0} /\ a \div TenTo[j] \in Nat
  <2>. SUFFICES ASSUME NEW j \in 0 .. places
                PROVE  TenTo[j] \in Nat \ {0} /\ a \div TenTo[j] \in Nat
    OBVIOUS
  <2>1. PICK p \in Nat \ {0} : p = TenTo[j]
    BY <1>1, <1>2
  <2>. QED
    BY <2>1, Division
<1>4. a \div TenTo[0] = a
  <2>1. a \div 1 = a
    OBVIOUS
  <2>. QED
    BY <2>1, PowersOfTen, Zenon
<1>5. ASSUME NEW j \in 0 .. places - 1
      PROVE  \E d \in 0 .. 9 :
                /\ d = ((a % TenTo[places]) \div TenTo[j]) % 10
                /\ a \div TenTo[j] = (a \div TenTo[j + 1]) * 10 + d
  <2>1. j \in 0 .. MaxPrecision /\ j + 1 \in 1 .. MaxPrecision /\ (j + 1) - 1 = j
        /\ places \in 0 .. MaxPrecision
    BY <1>1
  <2>2. PICK p \in Nat \ {0} : p = TenTo[j]
    BY <1>2, <2>1
  <2>3. TenTo[j + 1] = 10 * p
    BY <2>1, <2>2, PowersOfTen
  <2>4. PICK m \in Nat : TenTo[places] = m * (10 * p)
    BY <2>2, PowersOfTenDivide
  <2>5. m * (10 * p) # 0
    <3>1. TenTo[places] # 0
      BY <1>2
    <3>. QED
      BY <2>4, <3>1
  <2>6. ((a % TenTo[places]) \div p) % 10 = (a \div p) % 10
    <3>1. ((a % (m * (10 * p))) \div p) % 10 = (a \div p) % 10
      BY <2>5, DigitsOfRests, Zenon
    <3>. QED
      BY <2>4, <3>1, Zenon
  <2>7. PICK d \in 0 .. 9 : d = (a \div p) % 10 /\ a \div p = (a \div (10 * p)) * 10 + d
    BY TenthOfQuotient
  <2>. QED
    BY <2>2, <2>3, <2>6, <2>7, Zenon
<1>. QED
  BY <1>3, <1>4, <1>5

\* The digits of the whole, and behind them the places, are the number of places.
LEMMA PlacesAreDenoted ==
  ASSUME NEW a \in 0 .. U64Max, NEW places \in 0 .. MaxPrecision,
         NEW whole \in Text, NEW rest \in Text,
         whole = print_u64_decimal(a \div TenTo[places]),
         rest = print_zero_padded_u64(a % TenTo[places], places)
  PROVE  /\ Len(whole) \in Nat \ {0} /\ Len(rest) = places
         /\ AllDigits(whole \o rest) /\ Denoted(whole \o rest) = a
<1>0. MaxPrecision \in Nat /\ a \in Nat
  BY WidthAssumption, Wrapping
<1>1. /\ \A j \in 0 .. places : TenTo[j] \in Nat \ {0} /\ a \div TenTo[j] \in Nat
      /\ a \div TenTo[0] = a
      /\ \A j \in 0 .. places - 1 :
           \E d \in 0 .. 9 :
             /\ d = ((a % TenTo[places]) \div TenTo[j]) % 10
             /\ a \div TenTo[j] = (a \div TenTo[j + 1]) * 10 + d
  BY <1>0, PlacesOfTen
<1>2. PICK w \in 0 .. U64Max : w = a \div TenTo[places]
  BY WholesAreText
<1>3. IsNumeral(whole, w, 10, LowerDigits)
  BY <1>2, DecimalNumeral
<1>4. PICK k \in Nat \ {0} : k = Len(whole) /\ Denotes(whole, 1, k, 10, LowerDigits, w)
  <2>1. Len(whole) \in 1 .. Bits /\ Bits \in Nat
    BY <1>3, WidthAssumption DEF IsNumeral
  <2>. QED
    BY <1>3, <2>1 DEF IsNumeral
<1>5. /\ Len(rest) = places
      /\ \A i \in 1 .. places : rest[i] = LowerDigits[(((a % TenTo[places]) \div TenTo[places - i]) % 10) + 1]
  <2>1. rest = [i \in 1 .. places |-> LowerDigits[(((a % TenTo[places]) \div TenTo[places - i]) % 10) + 1]]
    BY Zenon DEF print_zero_padded_u64
  <2>2. DOMAIN rest = 1 .. places
    BY <2>1
  <2>3. Len(rest) = places
    BY <2>2 DEF Text
  <2>. QED
    BY <2>1, <2>3
<1>6. PICK all \in Text : all = whole \o rest
  BY ConcatProperties DEF Text
<1>7. /\ Len(all) = k + places
      /\ \A i \in 1 .. k : all[i] = whole[i]
      /\ \A i \in 1 .. places : all[k + i] = rest[i]
  <2>1. Len(whole) = k /\ Len(rest) = places /\ whole \in Seq(Chars) /\ rest \in Seq(Chars)
    BY <1>4, <1>5 DEF Text
  <2>2. Len(whole \o rest) = k + places
    BY <2>1, ConcatProperties
  <2>3. \A i \in 1 .. k : (whole \o rest)[i] = whole[i]
    BY <2>1
  <2>4. ASSUME NEW i \in 1 .. places
        PROVE  (whole \o rest)[k + i] = rest[i]
    BY <1>4, <2>1
  <2>. QED
    BY <1>6, <2>2, <2>3, <2>4
<1>8. PICK v : ReadsAs(v, whole, 1, k, 10, LowerDigits) /\ v[k] = w
  BY <1>4 DEF Denotes
<1>9. PICK u : u = [i \in 0 .. k + places |-> IF i <= k THEN v[i] ELSE a \div TenTo[places - (i - k)]]
  OBVIOUS
<1>10. /\ \A i \in 0 .. k : u[i] = v[i] /\ v[i] \in Nat
       /\ \A i \in 0 .. places : u[k + i] = a \div TenTo[places - i] /\ u[k + i] \in Nat
  <2>1. \A i \in 0 .. k : v[i] \in Nat
    BY <1>8, Zenon DEF ReadsAs
  <2>2. \A i \in 0 .. k : u[i] = v[i]
    BY <1>9
  <2>3. ASSUME NEW i \in 0 .. places
        PROVE  u[k + i] = a \div TenTo[places - i] /\ u[k + i] \in Nat
    <3>1. CASE i = 0
      <4>1. k + i = k /\ k \in 0 .. k /\ places - i = places
        BY <3>1
      <4>. QED
        BY <1>2, <1>8, <2>1, <2>2, <4>1, Zenon
    <3>2. CASE i # 0
      <4>1. k + i \in 0 .. k + places /\ ~(k + i <= k) /\ (k + i) - k = i /\ places - i \in 0 .. places
        BY <3>2
      <4>2. u[k + i] = a \div TenTo[places - ((k + i) - k)]
        BY <1>9, <4>1
      <4>. QED
        BY <1>1, <4>1, <4>2, Zenon
    <3>. QED
      BY <3>1, <3>2
  <2>. QED
    BY <2>1, <2>2, <2>3, Zenon
<1>11. ASSUME NEW i \in 1 .. k + places
       PROVE  /\ u[i] \in Nat
              /\ \E d \in 0 .. 10 - 1 : all[1 + i - 1] = LowerDigits[d + 1] /\ u[i] = u[i - 1] * 10 + d
  <2>1. CASE i <= k
    <3>1. i \in 1 .. k /\ i \in 0 .. k /\ i - 1 \in 0 .. k /\ 1 + i - 1 = i
      BY <2>1
    <3>2. \E d \in 0 .. 10 - 1 : whole[1 + i - 1] = LowerDigits[d + 1] /\ v[i] = v[i - 1] * 10 + d
      BY <1>8, <3>1, Zenon DEF ReadsAs
    <3>. QED
      BY <1>7, <1>10, <3>1, <3>2, Zenon
  <2>2. CASE ~(i <= k)
    <3>1. PICK e \in 1 .. places : i = k + e
      <4>1. i - k \in 1 .. places /\ i = k + (i - k)
        BY <2>2
      <4>. QED
        BY <4>1
    <3>2. PICK j \in 0 .. places - 1 : j = places - e /\ j + 1 = places - (e - 1)
      OBVIOUS
    <3>3. PICK d \in 0 .. 9 : /\ d = ((a % TenTo[places]) \div TenTo[j]) % 10
                              /\ a \div TenTo[j] = (a \div TenTo[j + 1]) * 10 + d
      BY <1>1
    <3>4. e \in 0 .. places /\ e - 1 \in 0 .. places /\ i - 1 = k + (e - 1) /\ 1 + i - 1 = k + e
          /\ 10 - 1 = 9
      BY <3>1
    <3>5. u[i] = a \div TenTo[j] /\ u[i] \in Nat
      BY <1>10, <3>1, <3>2, <3>4, Zenon
    <3>6. u[i - 1] = a \div TenTo[j + 1]
      BY <1>10, <3>2, <3>4, Zenon
    <3>7. all[1 + i - 1] = LowerDigits[d + 1]
      <4>1. rest[e] = LowerDigits[d + 1]
        BY <1>5, <3>2, <3>3, Zenon
      <4>. QED
        BY <1>7, <3>4, <4>1, Zenon
    <3>8. u[i] = u[i - 1] * 10 + d
      BY <3>3, <3>5, <3>6, Zenon
    <3>. QED
      BY <3>4, <3>5, <3>7, <3>8, Zenon
  <2>. QED
    BY <2>1, <2>2
<1>12. u \in [0 .. k + places -> Nat] /\ u[0] = 0 /\ u[k + places] = a
  <2>1. 0 \in 0 .. k /\ places \in 0 .. places /\ places - places = 0
    OBVIOUS
  <2>2. v[0] = 0
    BY <1>8 DEF ReadsAs
  <2>3. u[0] = 0
    BY <1>10, <2>1, <2>2, Zenon
  <2>4. u[k + places] = a
    BY <1>1, <1>10, <2>1, Zenon
  <2>5. \A i \in 0 .. k + places : i = 0 \/ i \in 1 .. k + places
    OBVIOUS
  <2>6. \A i \in 0 .. k + places : u[i] \in Nat
    BY <1>11, <2>3, <2>5
  <2>. QED
    BY <1>9, <2>3, <2>4, <2>6
<1>13. Denotes(all, 1, Len(all), 10, LowerDigits, a)
  BY <1>7, <1>11, <1>12, Zenon DEF Denotes, ReadsAs
<1>14. AllDigits(all) /\ Denoted(all) = a
  BY <1>13, DenotedIsUnique DEF Text
<1>. QED
  BY <1>4, <1>5, <1>6, <1>14, Zenon

\* The numbers that a float in range may be printed as are the nearest and the next.
LEMMA NearestIsKnown ==
  ASSUME NEW magnitude \in Nat, NEW places \in 0 .. MaxPrecision, InRange(magnitude, places)
  PROVE  \E x \in Nat, n \in Nat :
           /\ x = magnitude * TenTo[places]
           /\ n + 1 <= TwoTo[SignificandBits - 1] /\ n + 1 <= U64Max
           /\ n * One <= x + Half /\ x + Half < (n + 1) * One
           /\ n \in Neighbours(magnitude, places)
           /\ TwoTo[SignificandBits - 1] * ((n + 1) * One - (x + Half)) <= (n + 1) * One
                => n + 1 \in Neighbours(magnitude, places)
<1>1. PICK h \in Nat \ {0}, q \in Nat \ {0} :
        /\ h = Half /\ One = 2 * h /\ TwoTo[FractionBits] = One /\ TwoTo[FractionBits - 1] = Half
        /\ q = TwoTo[SignificandBits - 1] /\ TwoTo[SignificandBits] = 2 * q /\ q <= U64Max
  BY HalfAndOne
<1>2. PICK one \in Nat \ {0} : one = One
  BY <1>1
<1>3. PICK x \in Nat : x = magnitude * TenTo[places] /\ x = Scaled(magnitude, places)
  <2>1. PICK p \in Nat : p = TenTo[places]
    BY PowersOfTen DEF Positive
  <2>2. magnitude * p \in Nat
    OBVIOUS
  <2>. QED
    BY <2>1, <2>2 DEF Scaled
<1>4. PICK y \in Nat : y = x + h /\ y = Scaled(magnitude, places) + Half
  BY <1>1, <1>3
<1>5. y < q * one
  BY <1>1, <1>2, <1>4, Zenon DEF InRange
<1>6. PICK n \in Nat, r \in 0 .. one - 1 : n = y \div one /\ y = n * one + r
  BY Division
<1>7. n * one <= y /\ y < (n + 1) * one
  <2>1. (n + 1) * one = n * one + one
    OBVIOUS
  <2>. QED
    BY <1>6, <2>1
<1>8. n + 1 <= q
  <2>. SUFFICES ASSUME q <= n
                PROVE  FALSE
    BY <1>6
  <2>1. PICK a \in Nat, b \in Nat : a = q * one /\ b = n * one
    OBVIOUS
  <2>2. a <= b
    BY <2>1
  <2>. QED
    BY <1>5, <1>7, <2>1, <2>2
<1>9. \A m \in 0 .. U64Max : m * one <= y /\ y < (m + 1) * one <=> m = n
  <2>1. \A m \in Nat : m * one <= y /\ y < (m + 1) * one => y \div one = m
    BY Quotient
  <2>2. 0 .. U64Max \subseteq Nat
    OBVIOUS
  <2>. QED
    BY <1>6, <1>7, <2>1, <2>2, Zenon
<1>10. n \in 0 .. U64Max /\ n + 1 <= U64Max
  BY <1>1, <1>8, Wrapping
<1>11. Nearest(magnitude, places) = n
  <2>. DEFINE P(m) == m * one <= y /\ y < (m + 1) * one
  <2>1. \A m \in 0 .. U64Max : P(m) <=> m = n
    BY <1>9
  <2>2. Nearest(magnitude, places) = CHOOSE m \in 0 .. U64Max : P(m)
    BY <1>2, <1>4, Zenon DEF Nearest
  <2>. HIDE DEF P
  <2>. QED
    BY <1>10, <2>1, <2>2
<1>12. Neighbours(magnitude, places) =
         {n} \cup {m \in {n + 1} : TwoTo[SignificandBits - 1] * ((n + 1) * One - (x + Half)) <= m * One}
  BY <1>1, <1>3, <1>4, <1>11, Zenon DEF Neighbours
<1>13. /\ n \in Neighbours(magnitude, places)
       /\ TwoTo[SignificandBits - 1] * ((n + 1) * One - (x + Half)) <= (n + 1) * One
            => n + 1 \in Neighbours(magnitude, places)
  <2>. DEFINE P(m) == TwoTo[SignificandBits - 1] * ((n + 1) * One - (x + Half)) <= m * One
  <2>1. Neighbours(magnitude, places) = {n} \cup {m \in {n + 1} : P(m)}
    BY <1>12
  <2>2. P(n + 1) => n + 1 \in {n} \cup {m \in {n + 1} : P(m)}
    OBVIOUS
  <2>3. n \in {n} \cup {m \in {n + 1} : P(m)}
    OBVIOUS
  <2>. QED
    BY <2>1, <2>2, <2>3, Zenon
<1>. QED
  BY <1>1, <1>2, <1>3, <1>4, <1>7, <1>8, <1>10, <1>13, Zenon

\* The conversion of a float in range truncates to the nearest number or to the next.
LEMMA RoundedIsNearest ==
  ASSUME NEW magnitude \in Nat, NEW places \in 0 .. MaxPrecision, InRange(magnitude, places),
         NEW sum \in rounded(magnitude, TenTo[places])
  PROVE  \E a \in 0 .. U64Max : Converted(sum) = {a} /\ a \in Neighbours(magnitude, places)
<1>1. PICK h \in Nat \ {0}, q \in Nat \ {0} :
        /\ h = Half /\ One = 2 * h /\ TwoTo[FractionBits] = One /\ TwoTo[FractionBits - 1] = Half
        /\ q = TwoTo[SignificandBits - 1] /\ TwoTo[SignificandBits] = 2 * q /\ q <= U64Max
  BY HalfAndOne
<1>2. PICK one \in Nat \ {0} : one = One /\ one = 2 * h
  BY <1>1
<1>3. PICK x \in Nat, n \in Nat :
           /\ x = magnitude * TenTo[places]
           /\ n + 1 <= q /\ n + 1 <= U64Max
           /\ n * one <= x + h /\ x + h < (n + 1) * one
           /\ n \in Neighbours(magnitude, places)
           /\ q * ((n + 1) * one - (x + h)) <= (n + 1) * one => n + 1 \in Neighbours(magnitude, places)
  BY <1>1, <1>2, NearestIsKnown, Zenon
<1>4. PICK g \in Nat : g = (n + 1) * one /\ n * one = g - one
  <2>1. (n + 1) * one \in Nat /\ n * one = (n + 1) * one - one
    OBVIOUS
  <2>. QED
    BY <2>1
<1>5. n \in 0 .. U64Max /\ n + 1 \in 0 .. U64Max /\ n \in Neighbours(magnitude, places)
  BY <1>3, Wrapping
<1>6. q * (g - (x + h)) <= g => n + 1 \in Neighbours(magnitude, places)
  BY <1>3, <1>4, Zenon
<1>7. ASSUME NEW s \in Nat, n * one <= s, s <= g, sum = nearestFloat(s),
             (2 * q) * (g - s) <= g => q * (g - (x + h)) <= g
      PROVE  \E a \in 0 .. U64Max : Converted(sum) = {a} /\ a \in Neighbours(magnitude, places)
  <2>1. \/ Converted(nearestFloat(s)) = {n}
        \/ /\ Converted(nearestFloat(s)) = {n + 1}
           /\ TwoTo[SignificandBits] * ((n + 1) * One - s) <= (n + 1) * One
    <3>1. /\ n + 1 <= TwoTo[SignificandBits - 1]
          /\ n * One <= s /\ s <= (n + 1) * One
      BY <1>1, <1>2, <1>3, <1>4, <1>7, Zenon
    <3>. QED
      BY <3>1, SumsAreConverted
  <2>2. \/ Converted(sum) = {n}
        \/ Converted(sum) = {n + 1} /\ (2 * q) * (g - s) <= g
    BY <1>1, <1>2, <1>4, <1>7, <2>1, Zenon
  <2>. QED
    BY <1>5, <1>6, <1>7, <2>2, Zenon
<1>8. CASE sum = nearestFloat(x + h)
  <2>1. x + h \in Nat /\ x + h <= g /\ n * one <= x + h
    BY <1>3, <1>4
  <2>2. (2 * q) * (g - (x + h)) <= g => q * (g - (x + h)) <= g
    <3>1. PICK d \in Int : d = q * (g - (x + h))
      OBVIOUS
    <3>2. (2 * q) * (g - (x + h)) = 2 * d
      BY <3>1
    <3>. QED
      BY <1>4, <3>1, <3>2
  <2>. QED
    BY <1>7, <1>8, <2>1, <2>2
<1>9. CASE sum = nearestFloat(nearestFloat(x) + h)
  <2>1. PICK r \in Nat :
        /\ r = nearestFloat(x)
        /\ (2 * q) * (r - x) <= x
        /\ \A c \in 0 .. 2 * q : (c * h <= x => c * h <= r) /\ (x <= c * h => r <= c * h)
    <3>1. FractionBits - 1 \in 0 .. Bits + FractionBits
      BY Exponents
    <3>2. /\ nearestFloat(x) \in Nat
          /\ TwoTo[SignificandBits] * (nearestFloat(x) - x) <= x
          /\ \A f \in 0 .. Bits + FractionBits : \A c \in 0 .. TwoTo[SignificandBits] :
                /\ c * TwoTo[f] <= x => c * TwoTo[f] <= nearestFloat(x)
                /\ x <= c * TwoTo[f] => nearestFloat(x) <= c * TwoTo[f]
      BY NearestFloats
    <3>. QED
      BY <1>1, <3>1, <3>2, Zenon
  <2>2. r + h <= g
    <3>1. 2 * n + 1 \in 0 .. 2 * q
      BY <1>3
    <3>2. (2 * n + 1) * h = g - h
      <4>1. (n + 1) * (2 * h) = (2 * n + 1) * h + h
        OBVIOUS
      <4>. QED
        BY <1>2, <1>4, <4>1
    <3>3. x <= g - h
      BY <1>3, <1>4
    <3>4. r <= g - h
      BY <2>1, <3>1, <3>2, <3>3, Zenon
    <3>. QED
      BY <3>4
  <2>3. n * one <= r + h
    <3>1. CASE n = 0
      BY <3>1
    <3>2. CASE n # 0
      <4>1. PICK c \in 0 .. 2 * q : c = 2 * n - 1
        BY <1>3, <3>2
      <4>2. c * h = n * one - h
        <5>1. (2 * n - 1) * h = n * (2 * h) - h
          OBVIOUS
        <5>. QED
          BY <1>2, <4>1, <5>1
      <4>3. n * one - h <= x
        BY <1>3, <1>4
      <4>4. n * one - h <= r
        BY <2>1, <4>2, <4>3, Zenon
      <4>. QED
        BY <1>4, <4>4
    <3>. QED
      BY <3>1, <3>2
  <2>4. (2 * q) * (g - (r + h)) <= g => q * (g - (x + h)) <= g
    <3>. SUFFICES ASSUME (2 * q) * (g - (r + h)) <= g
                  PROVE  q * (g - (x + h)) <= g
      OBVIOUS
    <3>1. PICK d \in Int, e \in Int : d = (2 * q) * (g - (r + h)) /\ e = (2 * q) * (r - x)
      OBVIOUS
    <3>2. PICK f \in Int : f = q * (g - (x + h))
      OBVIOUS
    <3>3. d + e = 2 * f
      <4>1. (2 * q) * (g - (r + h)) + (2 * q) * (r - x) = 2 * (q * (g - (x + h)))
        OBVIOUS
      <4>. QED
        BY <3>1, <3>2, <4>1
    <3>4. x <= g /\ d <= g /\ e <= x
      BY <1>3, <1>4, <2>1, <3>1
    <3>. QED
      BY <3>2, <3>3, <3>4
  <2>5. r + h \in Nat
    OBVIOUS
  <2>6. sum = nearestFloat(r + h)
    BY <1>9, <2>1, Zenon
  <2>. QED
    BY <1>7, <2>2, <2>3, <2>4, <2>5, <2>6
<1>. QED
  BY <1>1, <1>3, <1>8, <1>9, Zenon DEF rounded

\* A sum that is off by D parts in 2q is converted to a number near to what was added to a
\* half, when that is so great that a float has no place for the half.
LEMMA FarSumsAreNear ==
  ASSUME NEW x \in Nat, NEW h \in Nat \ {0}, NEW q \in Nat, q >= 2, NEW r \in Nat,
         NEW D \in Int, D = (2 * q) * (r - (x + h)), 4 * D <= 9 * x + 4 * h, 4 * (0 - D) <= 9 * x + 4 * h,
         q * (2 * h) <= x + h, NEW a \in Nat, a = r \div (2 * h)
  PROVE  (2 * q) * Absolute(a * (2 * h) - x) <= 4 * x
<1>1. PICK one \in Nat \ {0} : one = 2 * h
  OBVIOUS
<1>2. PICK rest \in 0 .. one - 1 : r = a * one + rest
  BY <1>1, Division
<1>3. PICK y \in Nat : y = a * one /\ r = y + rest
  BY <1>2
<1>4. PICK w \in Nat : w = (2 * q) * h /\ w <= x + h /\ 4 * h <= w
  <2>1. q * (2 * h) = (2 * q) * h /\ 4 * h <= (2 * q) * h /\ (2 * q) * h \in Nat
    OBVIOUS
  <2>. QED
    BY <2>1
<1>5. PICK z \in -h .. h : z = y + h - r
  BY <1>1, <1>2, <1>3
<1>6. PICK v \in Int : v = (2 * q) * z /\ v <= w /\ 0 - v <= w
  <2>1. (2 * q) * z <= (2 * q) * h /\ (2 * q) * (0 - h) <= (2 * q) * z /\ (2 * q) * z \in Int
    <3>1. \A b, c \in Int : b <= c => (2 * q) * b <= (2 * q) * c
      OBVIOUS
    <3>2. z <= h /\ 0 - h <= z /\ z \in Int /\ h \in Int /\ 0 - h \in Int
      OBVIOUS
    <3>3. (2 * q) * z \in Int
      BY <3>2
    <3>. QED
      BY <3>1, <3>2, <3>3, Zenon
  <2>2. (2 * q) * (0 - h) = 0 - w
    BY <1>4
  <2>. QED
    BY <1>4, <2>1, <2>2
<1>7. PICK d \in Int : d = y - x
  OBVIOUS
<1>8. PICK g \in Int : g = (2 * q) * d /\ g = D + v
  <2>1. (2 * q) * d = (2 * q) * (r - (x + h)) + (2 * q) * z
    <3>1. d = (r - (x + h)) + z
      BY <1>5, <1>7
    <3>2. \A b, c \in Int : (2 * q) * (b + c) = (2 * q) * b + (2 * q) * c
      OBVIOUS
    <3>3. r - (x + h) \in Int /\ z \in Int
      OBVIOUS
    <3>. QED
      BY <3>1, <3>2, <3>3, Zenon
  <2>2. (2 * q) * d \in Int
    OBVIOUS
  <2>. QED
    BY <1>6, <2>1, <2>2
<1>9. g <= 4 * x /\ 0 - g <= 4 * x
  <2>1. 3 * h <= x
    BY <1>4
  <2>2. 4 * g <= (9 * x + 4 * h) + 4 * (x + h) /\ 4 * (0 - g) <= (9 * x + 4 * h) + 4 * (x + h)
    BY <1>4, <1>6, <1>8
  <2>. QED
    BY <2>1, <2>2
<1>10. (2 * q) * (0 - d) = 0 - g
  BY <1>8
<1>11. a * (2 * h) - x = d
  BY <1>1, <1>3, <1>7, Zenon
<1>. QED
  BY <1>8, <1>9, <1>10, <1>11 DEF Absolute

\* What an operation makes of a number is off by a part in 2q.
LEMMA FloatsAreNear ==
  ASSUME NEW k \in Nat, NEW q \in Nat, TwoTo[SignificandBits] = 2 * q
  PROVE  \E r \in Nat : r = nearestFloat(k) /\ (2 * q) * (r - k) <= k /\ (2 * q) * (k - r) <= k
<1>1. /\ nearestFloat(k) \in Nat
      /\ TwoTo[SignificandBits] * (nearestFloat(k) - k) <= k
      /\ TwoTo[SignificandBits] * (k - nearestFloat(k)) <= k
  BY NearestFloats
<1>. QED
  BY <1>1, Zenon

\* A float beyond the range is converted to a number near to it.
LEMMA RoundedIsNear ==
  ASSUME NEW magnitude \in Nat, NEW places \in 0 .. MaxPrecision,
         ~InRange(magnitude, places), IsConvertible(magnitude, places),
         NEW sum \in rounded(magnitude, TenTo[places])
  PROVE  \E a \in 0 .. U64Max : Converted(sum) = {a} /\ a \in Near(magnitude, places)
<1>1. PICK h \in Nat \ {0}, q \in Nat \ {0} :
        /\ h = Half /\ One = 2 * h /\ TwoTo[FractionBits] = One /\ TwoTo[FractionBits - 1] = Half
        /\ q = TwoTo[SignificandBits - 1] /\ TwoTo[SignificandBits] = 2 * q /\ q <= U64Max /\ q >= 2
  BY HalfAndOne
<1>2. PICK x \in Nat : x = magnitude * TenTo[places] /\ x = Scaled(magnitude, places)
  <2>1. PICK p \in Nat : p = TenTo[places]
    BY PowersOfTen DEF Positive
  <2>2. magnitude * p \in Nat
    OBVIOUS
  <2>. QED
    BY <2>1, <2>2 DEF Scaled
<1>3. q * (2 * h) <= x + h
  <2>1. ~(x + h < q * (2 * h))
    BY <1>1, <1>2, Zenon DEF InRange
  <2>2. PICK w \in Nat : w = q * (2 * h)
    OBVIOUS
  <2>. QED
    BY <2>1, <2>2
<1>4. PICK modulus \in Nat : modulus = Modulus /\ U64Max = modulus - 1
  BY Wrapping DEF U64Max
<1>5. (2 * q + 4) * x < (2 * q) * (modulus * (2 * h))
  BY <1>1, <1>2, <1>4, Zenon DEF IsConvertible
<1>6. \E r \in Nat, D \in Int :
        /\ sum = r /\ D = (2 * q) * (r - (x + h))
        /\ 4 * D <= 9 * x + 4 * h /\ 4 * (0 - D) <= 9 * x + 4 * h
  <2>1. CASE sum = nearestFloat(x + h)
    <3>1. PICK r \in Nat : /\ r = nearestFloat(x + h)
                           /\ (2 * q) * (r - (x + h)) <= x + h /\ (2 * q) * ((x + h) - r) <= x + h
      <4>1. x + h \in Nat
        OBVIOUS
      <4>. QED
        BY <1>1, <4>1, FloatsAreNear
    <3>2. PICK D \in Int : D = (2 * q) * (r - (x + h)) /\ (2 * q) * ((x + h) - r) = 0 - D
      OBVIOUS
    <3>3. D <= x + h /\ 0 - D <= x + h
      BY <3>1, <3>2
    <3>4. 4 * D <= 9 * x + 4 * h /\ 4 * (0 - D) <= 9 * x + 4 * h
      BY <3>3
    <3>. QED
      BY <2>1, <3>1, <3>2, <3>4
  <2>2. CASE sum = nearestFloat(nearestFloat(x) + h)
    <3>1. PICK t \in Nat : /\ t = nearestFloat(x)
                           /\ (2 * q) * (t - x) <= x /\ (2 * q) * (x - t) <= x
      BY <1>1, FloatsAreNear
    <3>2. PICK r \in Nat : /\ r = nearestFloat(t + h)
                           /\ (2 * q) * (r - (t + h)) <= t + h /\ (2 * q) * ((t + h) - r) <= t + h
      <4>1. t + h \in Nat
        OBVIOUS
      <4>. QED
        BY <1>1, <4>1, FloatsAreNear
    <3>3. PICK c \in Int : c = (2 * q) * (t - x) /\ (2 * q) * (x - t) = 0 - c /\ c <= x /\ 0 - c <= x
      <4>1. (2 * q) * (t - x) \in Int /\ (2 * q) * (x - t) = 0 - (2 * q) * (t - x)
        OBVIOUS
      <4>. QED
        BY <3>1, <4>1
    <3>4. PICK b \in Int : /\ b = (2 * q) * (r - (t + h)) /\ (2 * q) * ((t + h) - r) = 0 - b
                           /\ b <= t + h /\ 0 - b <= t + h
      <4>1. (2 * q) * (r - (t + h)) \in Int /\ (2 * q) * ((t + h) - r) = 0 - (2 * q) * (r - (t + h))
        OBVIOUS
      <4>. QED
        BY <3>2, <4>1
    <3>5. PICK D \in Int : D = (2 * q) * (r - (x + h)) /\ D = b + c
      <4>1. (2 * q) * (r - (x + h)) = (2 * q) * (r - (t + h)) + (2 * q) * (t - x)
        <5>1. \A i, j \in Int : (2 * q) * (i + j) = (2 * q) * i + (2 * q) * j
          OBVIOUS
        <5>2. r - (x + h) = (r - (t + h)) + (t - x) /\ r - (t + h) \in Int /\ t - x \in Int
          OBVIOUS
        <5>. QED
          BY <5>1, <5>2, Zenon
      <4>2. (2 * q) * (r - (x + h)) \in Int
        OBVIOUS
      <4>. QED
        BY <3>3, <3>4, <4>1, <4>2
    <3>6. 4 * t <= 5 * x
      <4>1. CASE t <= x
        BY <4>1
      <4>2. CASE t > x
        <5>1. PICK e \in Nat : e = t - x
          BY <4>2
        <5>2. 4 * e <= (2 * q) * e
          BY <1>1
        <5>3. (2 * q) * e <= x
          BY <3>1, <5>1, Zenon
        <5>4. PICK f \in Nat : f = (2 * q) * e
          OBVIOUS
        <5>. QED
          BY <5>1, <5>2, <5>3, <5>4
      <4>. QED
        BY <4>1, <4>2
    <3>7. 4 * D <= 9 * x + 4 * h /\ 4 * (0 - D) <= 9 * x + 4 * h
      BY <3>3, <3>4, <3>5, <3>6
    <3>8. sum = r
      BY <1>1, <2>2, <3>1, <3>2, Zenon
    <3>. QED
      BY <3>5, <3>7, <3>8
  <2>. QED
    BY <1>1, <1>2, <2>1, <2>2, Zenon DEF rounded
<1>7. PICK r \in Nat, D \in Int :
        /\ sum = r /\ D = (2 * q) * (r - (x + h))
        /\ 4 * D <= 9 * x + 4 * h /\ 4 * (0 - D) <= 9 * x + 4 * h
  BY <1>6
<1>8. PICK a \in Nat : a = r \div (2 * h)
  <2>1. 2 * h \in Nat \ {0}
    OBVIOUS
  <2>. QED
    BY <2>1, Division
<1>9. (2 * q) * Absolute(a * (2 * h) - x) <= 4 * x
  BY <1>1, <1>3, <1>7, <1>8, FarSumsAreNear
<1>10. a < modulus
  <2>. SUFFICES ASSUME modulus <= a
                PROVE  FALSE
    BY <1>4
  <2>1. PICK y \in Nat : y = a * (2 * h)
    OBVIOUS
  <2>2. (2 * q) * (y - x) <= 4 * x
    <3>1. y - x <= Absolute(y - x) /\ Absolute(y - x) \in Int /\ y - x \in Int
      BY DEF Absolute
    <3>2. \A i, j \in Int : i <= j => (2 * q) * i <= (2 * q) * j
      OBVIOUS
    <3>3. (2 * q) * (y - x) <= (2 * q) * Absolute(y - x)
      BY <3>1, <3>2, Zenon
    <3>4. PICK i \in Int, j \in Int : i = (2 * q) * (y - x) /\ j = (2 * q) * Absolute(y - x)
      BY <3>1
    <3>5. j <= 4 * x
      BY <1>9, <2>1, <3>4, Zenon
    <3>6. i <= j
      BY <3>3, <3>4, Zenon
    <3>. QED
      BY <3>4, <3>5, <3>6
  <2>3. (2 * q) * y <= (2 * q + 4) * x
    <3>1. (2 * q) * (y - x) = (2 * q) * y - (2 * q) * x /\ (2 * q + 4) * x = (2 * q) * x + 4 * x
      OBVIOUS
    <3>2. PICK i \in Int, j \in Int : i = (2 * q) * y /\ j = (2 * q) * x
      OBVIOUS
    <3>. QED
      BY <2>2, <3>1, <3>2
  <2>4. modulus * (2 * h) <= y
    BY <2>1
  <2>5. (2 * q) * (modulus * (2 * h)) <= (2 * q) * y
    <3>1. PICK m \in Nat : m = modulus * (2 * h)
      BY <1>4
    <3>. QED
      BY <2>4, <3>1
  <2>6. PICK i \in Int, j \in Int, k \in Int :
          i = (2 * q) * (modulus * (2 * h)) /\ j = (2 * q) * y /\ k = (2 * q + 4) * x
    BY <1>4
  <2>. QED
    BY <1>5, <2>3, <2>5, <2>6
<1>11. a \in 0 .. U64Max /\ a <= U64Max
  BY <1>4, <1>10
<1>12. Converted(sum) = {a}
  BY <1>1, <1>7, <1>8, <1>11, Zenon DEF Converted
<1>13. a \in Near(magnitude, places)
  BY <1>1, <1>2, <1>9, <1>11, Zenon DEF Near
<1>. QED
  BY <1>11, <1>12, <1>13

\* The conversion of a float truncates to a number that it may be printed as.
LEMMA RoundedIsPrintable ==
  ASSUME NEW magnitude \in Nat, NEW places \in 0 .. MaxPrecision, IsConvertible(magnitude, places),
         NEW sum \in rounded(magnitude, TenTo[places])
  PROVE  \E a \in 0 .. U64Max : Converted(sum) = {a} /\ a \in Printable(magnitude, places)
<1>1. CASE InRange(magnitude, places)
  BY <1>1, RoundedIsNearest, Zenon DEF Printable
<1>2. CASE ~InRange(magnitude, places)
  BY <1>2, RoundedIsNear, Zenon DEF Printable
<1>. QED
  BY <1>1, <1>2

\* What stands between two texts.
LEMMA Middle ==
  ASSUME NEW before \in Text, NEW text \in Text, NEW behind \in Text
  PROVE  /\ before \o text \o behind \in Text
         /\ Len(before \o text \o behind) = Len(before) + Len(text) + Len(behind)
         /\ SubSeq(before \o text \o behind, Len(before) + 1, Len(before) + Len(text)) = text
<1>1. PICK a \in Nat, b \in Nat, c \in Nat : a = Len(before) /\ b = Len(text) /\ c = Len(behind)
  BY DEF Text
<1>2. PICK all \in Text : all = before \o text \o behind
  <2>1. \A s, t \in Text : s \o t \in Text
    BY DEF Text
  <2>. QED
    BY <2>1, Zenon
<1>3. Len(all) = a + b + c /\ \A i \in 1 .. b : all[a + i] = text[i]
  BY <1>1, <1>2 DEF Text
<1>4. a + 1 \in 1 .. Len(all) + 1 /\ a + b \in (a + 1) - 1 .. Len(all)
  BY <1>3
<1>5. PICK i \in 1 .. Len(all) + 1 : i = a + 1
  BY <1>4
<1>10. PICK j \in i - 1 .. Len(all) : j = a + b
  BY <1>4, <1>5
<1>9. PICK part \in Text : part = SubSeq(all, i, j)
  BY Parts DEF Text
<1>6. Len(part) = (a + b) + 1 - (a + 1)
      /\ \A k \in 1 .. (a + b) + 1 - (a + 1) : part[k] = all[(a + 1) + k - 1]
  <2>1. Len(part) = j + 1 - i /\ \A k \in 1 .. j + 1 - i : part[k] = all[i + k - 1]
    BY <1>9, Parts DEF Text
  <2>. QED
    BY <1>5, <1>10, <2>1, Zenon
<1>7. Len(part) = b /\ \A k \in 1 .. b : part[k] = text[k]
  <2>1. (a + b) + 1 - (a + 1) = b /\ \A k \in 1 .. b : (a + 1) + k - 1 = a + k
    OBVIOUS
  <2>. QED
    BY <1>3, <1>6, <2>1, Zenon
<1>8. part = text
  BY <1>1, <1>7, SeqEqual DEF Text
<1>. QED
  BY <1>1, <1>2, <1>3, <1>5, <1>8, <1>9, <1>10, Zenon

\* What is printed for a float: a sign, the whole, and behind a point the places.
LEMMA FloatsAreWritten ==
  ASSUME NEW units \in Int, NEW places \in 0 .. MaxPrecision,
         IsConvertible(Absolute(units), places),
         NEW text \in print_f64_fixed(units, <<>>, places)
  PROVE  \E a \in 0 .. U64Max, sign \in Text, whole \in Text, rest \in Text :
           /\ a \in Printable(Absolute(units), places)
           /\ sign = (IF units < 0 THEN <<"-">> ELSE <<>>)
           /\ whole = print_u64_decimal(a \div TenTo[places])
           /\ rest = print_zero_padded_u64(a % TenTo[places], places)
           /\ text = sign \o whole \o (IF places = 0 THEN <<>> ELSE <<".">> \o rest)
<1>1. PICK magnitude \in Nat : magnitude = Absolute(units)
  BY DEF Absolute
<1>3. magnitude = IF units < 0 THEN 0 - units ELSE units
  BY <1>1 DEF Absolute
<1>4. PICK scaled \in UNION {Converted(sum) : sum \in rounded(magnitude, TenTo[places])} :
        text = (IF units < 0 THEN <<"-">> ELSE <<>>) \o print_u64_decimal(scaled \div TenTo[places])
                 \o (IF places = 0 THEN <<>>
                     ELSE <<".">> \o print_zero_padded_u64(scaled % TenTo[places], places))
  BY <1>3, Zenon DEF print_f64_fixed
<1>2. PICK sum \in rounded(magnitude, TenTo[places]) : scaled \in Converted(sum)
  OBVIOUS
<1>5. PICK a \in 0 .. U64Max : scaled = a /\ a \in Printable(magnitude, places)
  <2>1. IsConvertible(magnitude, places)
    BY <1>1
  <2>2. PICK a \in 0 .. U64Max : Converted(sum) = {a} /\ a \in Printable(magnitude, places)
    BY <2>1, RoundedIsPrintable
  <2>. QED
    BY <1>2, <2>2
<1>6. (IF units < 0 THEN <<"-">> ELSE <<>>) \in Text
  <2>1. <<"-">> \in Text /\ <<>> \in Text
    BY DEF Text, Chars
  <2>. QED
    BY <2>1, Zenon
<1>7. print_u64_decimal(a \div TenTo[places]) \in Text
  BY WholesAreText
<1>8. print_zero_padded_u64(a % TenTo[places], places) \in Text
  BY PlacesAreText
<1>. QED
  BY <1>1, <1>4, <1>5, <1>6, <1>7, <1>8, Zenon

\* A number printed without places is a sign and its whole.
LEMMA WithoutPoint ==
  ASSUME NEW sign \in Text, NEW whole \in Text, NEW rest \in Text, Len(rest) = 0,
         NEW text, text = sign \o whole \o <<>>
  PROVE  /\ SubSeq(text, Len(sign) + 1, Len(text)) = whole \o rest
         /\ \A i \in 1 .. Len(sign) : text[i] = sign[i]
<1>1. <<>> \in Text /\ rest = <<>> /\ whole \o <<>> = whole
  BY Concatenation DEF Text
<1>2. /\ Len(text) = Len(sign) + Len(whole) + 0
      /\ SubSeq(text, Len(sign) + 1, Len(sign) + Len(whole)) = whole
  <2>1. Len(<<>>) = 0
    OBVIOUS
  <2>. QED
    BY <1>1, <2>1, Middle
<1>3. Len(text) = Len(sign) + Len(whole)
  BY <1>2 DEF Text
<1>4. \A i \in 1 .. Len(sign) : text[i] = sign[i]
  BY DEF Text
<1>. QED
  BY <1>1, <1>2, <1>3, <1>4, Zenon

\* A text is a sign, the whole of a number, a point and the places of it.
HasPoint(text, sign, whole, rest) ==
  /\ Len(text) = Len(sign) + Len(whole) + 1 + Len(rest)
  /\ text[Len(sign) + Len(whole) + 1] = "."
  /\ SubSeq(text, Len(sign) + 1, Len(sign) + Len(whole)) = whole
  /\ SubSeq(text, Len(sign) + Len(whole) + 2, Len(text)) = rest
  /\ \A i \in 1 .. Len(sign) : text[i] = sign[i]

\* A number printed with places is that.
LEMMA WithPoint ==
  ASSUME NEW sign \in Text, NEW whole \in Text, NEW rest \in Text,
         NEW text, text = sign \o whole \o (<<".">> \o rest)
  PROVE  HasPoint(text, sign, whole, rest)
<1>1. PICK a \in Nat, b \in Nat, c \in Nat : a = Len(sign) /\ b = Len(whole) /\ c = Len(rest)
  BY DEF Text
<1>2. PICK point \in Text : point = <<".">> /\ Len(point) = 1 /\ point[1] = "."
  <2>1. <<".">> \in Text
    BY DEF Text, Chars
  <2>2. Len(<<".">>) = 1 /\ <<".">>[1] = "."
    OBVIOUS
  <2>. QED
    BY <2>1, <2>2, Zenon
<1>3. PICK behind \in Text : behind = point \o rest /\ Len(behind) = 1 + c /\ behind[1] = "."
  <2>1. point \o rest \in Text /\ Len(point \o rest) = 1 + c /\ (point \o rest)[1] = "."
    BY <1>1, <1>2 DEF Text
  <2>. QED
    BY <2>1, Zenon
<1>4. PICK before \in Text : before = sign \o whole \o point
  <2>1. sign \o whole \o point \in Text
    BY DEF Text
  <2>. QED
    BY <2>1, Zenon
<1>5. Len(before) = a + b + 1
  BY <1>1, <1>2, <1>4 DEF Text
<1>6. text = sign \o whole \o behind
  BY <1>2, <1>3, Zenon
<1>7. /\ text \in Text /\ Len(text) = a + b + (1 + c)
      /\ SubSeq(text, a + 1, a + b) = whole
  <2>1. /\ sign \o whole \o behind \in Text
        /\ Len(sign \o whole \o behind) = Len(sign) + Len(whole) + Len(behind)
        /\ SubSeq(sign \o whole \o behind, Len(sign) + 1, Len(sign) + Len(whole)) = whole
    BY Middle
  <2>. QED
    BY <1>1, <1>3, <1>6, <2>1, Zenon
<1>8. text[a + b + 1] = "." /\ \A i \in 1 .. a : text[i] = sign[i]
  BY <1>1, <1>3, <1>6 DEF Text
<1>9. text = before \o rest \o <<>>
  <2>1. \A s, t, u \in Text : (s \o t) \o u = s \o (t \o u)
    BY Concatenation DEF Text
  <2>2. sign \o whole \in Text /\ before \o rest \in Text
    BY DEF Text
  <2>3. (sign \o whole) \o (point \o rest) = ((sign \o whole) \o point) \o rest
    <3>. DEFINE both == sign \o whole
    <3>1. both \in Text
      BY <2>2
    <3>. HIDE DEF both
    <3>2. (both \o point) \o rest = both \o (point \o rest)
      BY <2>1, <3>1
    <3>. QED
      BY <3>2, Zenon DEF both
  <2>4. before \o rest \o <<>> = before \o rest
    BY <2>2, Concatenation DEF Text
  <2>. QED
    BY <1>3, <1>4, <1>6, <2>3, <2>4, Zenon
<1>10. SubSeq(text, Len(before) + 1, Len(before) + Len(rest)) = rest
  <2>1. <<>> \in Text
    BY DEF Text
  <2>2. SubSeq(before \o rest \o <<>>, Len(before) + 1, Len(before) + Len(rest)) = rest
    BY <2>1, Middle
  <2>. QED
    BY <1>9, <2>2, Zenon
<1>11. /\ Len(before) + 1 = a + b + 2 /\ Len(before) + Len(rest) = a + b + (1 + c)
       /\ a + b + 1 + c = a + b + (1 + c)
  BY <1>1, <1>5
<1>. QED
  BY <1>1, <1>7, <1>8, <1>10, <1>11, Zenon DEF HasPoint

\* What a float should be printed as.
IsRounded(units, places, text) ==
  LET sign == IF units < 0 THEN 1 ELSE 0
      point == Len(text) - places
      digits == IF places = 0 THEN SubSeq(text, sign + 1, Len(text))
                ELSE SubSeq(text, sign + 1, point - 1)
                       \o SubSeq(text, point + 1, Len(text))
  IN /\ sign = 1 => text[1] = "-"
     /\ places > 0 => text[point] = "." /\ sign + 1 <= point - 1
     /\ AllDigits(digits)
     /\ Denoted(digits) \in Printable(Absolute(units), places)

\* A float is printed as a number that it may be printed as, with the places
\* asked for.
LEMMA FloatIsRounded ==
  ASSUME NEW units \in Int, NEW places \in 0 .. MaxPrecision,
         IsConvertible(Absolute(units), places),
         NEW text \in print_f64_fixed(units, <<>>, places)
  PROVE  IsRounded(units, places, text)
<1>1. PICK a \in 0 .. U64Max, sign \in Text, whole \in Text, rest \in Text :
        /\ a \in Printable(Absolute(units), places)
        /\ sign = (IF units < 0 THEN <<"-">> ELSE <<>>)
        /\ whole = print_u64_decimal(a \div TenTo[places])
        /\ rest = print_zero_padded_u64(a % TenTo[places], places)
        /\ text = sign \o whole \o (IF places = 0 THEN <<>> ELSE <<".">> \o rest)
  BY FloatsAreWritten, ZenonT(60)
<1>2. /\ Len(whole) \in Nat \ {0} /\ Len(rest) = places
      /\ AllDigits(whole \o rest) /\ Denoted(whole \o rest) = a
  BY <1>1, PlacesAreDenoted
<1>3. PICK n \in {0, 1} :
        n = (IF units < 0 THEN 1 ELSE 0) /\ Len(sign) = n /\ (n = 1 => sign[1] = "-")
  <2>1. units < 0 => Len(sign) = 1 /\ sign[1] = "-"
    BY <1>1
  <2>2. ~(units < 0) => Len(sign) = 0
    BY <1>1
  <2>. QED
    BY <2>1, <2>2
<1>4. PICK m \in Nat \ {0} : m = Len(whole)
  BY <1>2
<1>5. places \in Nat
  BY WidthAssumption
<1>8. AllDigits(whole \o rest) /\ Denoted(whole \o rest) \in Printable(Absolute(units), places)
  BY <1>1, <1>2, Zenon
<1>6. CASE places = 0
  <2>1. /\ SubSeq(text, n + 1, Len(text)) = whole \o rest
        /\ \A i \in 1 .. n : text[i] = sign[i]
    BY <1>1, <1>2, <1>3, <1>6, WithoutPoint
  <2>2. n = 1 => text[1] = "-"
    BY <1>3, <2>1
  <2>3. ~(places > 0)
    BY <1>6
  <2>. QED
    BY <1>3, <1>6, <1>8, <2>1, <2>2, <2>3, Zenon DEF IsRounded
<1>7. CASE places # 0
  <2>1. text = sign \o whole \o (<<".">> \o rest)
    BY <1>1, <1>7, Zenon
  <2>2. /\ Len(text) = n + m + 1 + places
        /\ text[n + m + 1] = "."
        /\ SubSeq(text, n + 1, n + m) = whole
        /\ SubSeq(text, n + m + 2, Len(text)) = rest
        /\ \A i \in 1 .. n : text[i] = sign[i]
    <3>1. HasPoint(text, sign, whole, rest)
      BY <2>1, WithPoint, Zenon
    <3>. QED
      BY <1>2, <1>3, <1>4, <3>1, Zenon DEF HasPoint
  <2>3. /\ Len(text) - places = n + m + 1
        /\ (n + m + 1) - 1 = n + m /\ (n + m + 1) + 1 = n + m + 2 /\ n + 1 <= n + m
    BY <1>5, <2>2
  <2>4. n = 1 => text[1] = "-"
    BY <1>3, <2>2
  <2>5. /\ SubSeq(text, n + 1, (Len(text) - places) - 1) = whole
        /\ SubSeq(text, (Len(text) - places) + 1, Len(text)) = rest
        /\ text[Len(text) - places] = "."
        /\ n + 1 <= (Len(text) - places) - 1
    BY <2>2, <2>3, Zenon
  <2>. QED
    BY <1>3, <1>7, <1>8, <2>4, <2>5, ZenonT(60) DEF IsRounded
<1>. QED
  BY <1>6, <1>7

\* A float is printed as the nearest number with the places asked for: never the one
\* below it, and the one above it only when the float is so near to the half that adding
\* 0.5 may round to it.  Above 2^(SignificandBits - 1), where doubles have no place for the
\* half, it is printed within four parts in 2^SignificandBits (print_f64_fixed).
THEOREM FloatsAreAlwaysRounded == Spec => []FloatsAreRounded
<1>1. OutputInv => FloatsAreRounded
  <2>. SUFFICES ASSUME OutputInv, pieces # <<>>, Head(pieces).fn = "print_f64",
                       Head(pieces).text = <<>>,
                       IsConvertible(Absolute(Head(pieces).number), Head(pieces).precision),
                       NEW text \in Written(Head(pieces))
                PROVE  IsRounded(Head(pieces).number, Head(pieces).precision, text)
    BY Zenon DEF FloatsAreRounded, IsRounded
  <2>1. pieces \in Seq(RuntimeCalls)
    BY Zenon DEF OutputInv, IsReached
  <2>2. PICK piece \in RuntimeCalls : piece = Head(pieces)
    BY <2>1
  <2>3. piece \in [fn : Functions, number : Int, text : Text, precision : 0 .. MaxPrecision]
    BY <2>2, Zenon DEF RuntimeCalls
  <2>4. piece.number \in Int /\ piece.precision \in 0 .. MaxPrecision
    BY <2>3
  <2>5. text \in print_f64_fixed(piece.number, <<>>, piece.precision)
    BY <2>2, WrittenBy, Zenon
  <2>. QED
    BY <2>2, <2>4, <2>5, FloatIsRounded, Zenon
<1>. QED
  BY <1>1, OutputsAreKnown, PTL
=============================================================================
