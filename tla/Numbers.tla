------------------------------- MODULE Numbers -------------------------------
(***************************************************************************)
(* Numbers as text: the printing and parsing functions of                  *)
(* runtime/nex_runtime.c.  A text is a sequence of characters, a uint64_t  *)
(* a number below 2^Bits.  Arithmetic wraps where the code's does.         *)
(*                                                                         *)
(* A float is a whole number of units of 2^-FractionBits, the least double *)
(* above nought, an infinity or not a number.  Arithmetic on floats is     *)
(* that of IEEE 754: every result is rounded to the nearest float, and to  *)
(* the even one of two.  A compiler may contract a product and a sum into  *)
(* one operation, which is rounded once (C11 6.5 8), and a conversion to   *)
(* uint64_t is undefined out of range: a function that does either gives   *)
(* the set of its outcomes.                                                *)
(***************************************************************************)
EXTENDS Integers, Sequences

CONSTANTS
  Bits,             \* of uint64_t: 64
  IntBits,          \* of int32_t: 32
  SignificandBits,  \* of double: 53
  FractionBits,     \* of double: 1074
  MaxPrecision,     \* of a fixed float: 18
  DefaultPrecision  \* of print_f64: 6

ASSUME WidthAssumption ==
  /\ Bits \in Nat /\ IntBits \in 1 .. Bits - 1
  /\ SignificandBits \in 2 .. Bits /\ FractionBits \in Nat \ {0}
  /\ MaxPrecision \in Nat /\ DefaultPrecision \in 0 .. MaxPrecision

\* The powers of two, up to where no float is converted to uint64_t.
MaxExponent == Bits + SignificandBits + FractionBits
TwoTo[n \in 0 .. MaxExponent] == IF n = 0 THEN 1 ELSE 2 * TwoTo[n - 1]

Modulus == TwoTo[Bits]
U64Max == Modulus - 1
U64(n) == n % Modulus

\* pow10_u64 does not wrap.
TenTo[n \in 0 .. MaxPrecision] == IF n = 0 THEN 1 ELSE 10 * TenTo[n - 1]

ASSUME PrecisionAssumption == TenTo[MaxPrecision] < Modulus

LowerDigits == <<"0", "1", "2", "3", "4", "5", "6", "7", "8", "9", "a", "b", "c", "d", "e", "f">>
UpperDigits == <<"0", "1", "2", "3", "4", "5", "6", "7", "8", "9", "A", "B", "C", "D", "E", "F">>

\* The digits of a spelling, which is all that the value of a text needs.
DigitValue(c) == (CHOOSE d \in 1 .. 16 : c \in {LowerDigits[d], UpperDigits[d]}) - 1
IsDigit(c) == c \in {LowerDigits[d] : d \in 1 .. 10}

-----------------------------------------------------------------------------
(* Printing.                                                               *)

\* What is left of the value after each turn of the loop that takes its digits.
remaining(value, base) ==
  LET left[n \in 0 .. Bits] == IF n = 0 THEN value ELSE left[n - 1] \div base
  IN left

\* The turns that it makes.
turnsOf(left) == CHOOSE n \in 0 .. Bits : left[n] = 0 /\ \A m \in 0 .. n - 1 : left[m] # 0

\* That loop takes the digits from the right, the next one turns them round.
digitsOf(value, base, digits) ==
  LET left == remaining(value, base)
      turns == turnsOf(left)
  IN [i \in 1 .. turns |-> digits[(left[turns - i] % base) + 1]]

print_u64_base(value, base, digits) ==
  IF value = 0 THEN <<"0">> ELSE digitsOf(value, base, digits)

print_u64_decimal(u) == print_u64_base(u, 10, LowerDigits)

\* ~uv + 1 is computed in uint64_t.
print_i64(uv) ==
  IF uv < TwoTo[Bits - 1] THEN print_u64_decimal(uv)
  ELSE <<"-">> \o print_u64_decimal(U64((U64Max - uv) + 1))

True == <<"t", "r", "u", "e">>
False == <<"f", "a", "l", "s", "e">>
print_bool(v) == IF v THEN True ELSE False

print_zero_padded_u64(value, width) ==
  [i \in 1 .. width |-> LowerDigits[((value \div TenTo[width - i]) % 10) + 1]]

\* One and a half, in units.
One == TwoTo[FractionBits]
Half == TwoTo[FractionBits - 1]

\* The distance between floats as great as a number of units: there are SignificandBits
\* bits from the first that is set, and none below a unit.
ulp(units) ==
  TwoTo[CHOOSE e \in 0 .. Bits + FractionBits :
          /\ units < TwoTo[SignificandBits + e] \/ e = Bits + FractionBits
          /\ \A d \in 0 .. e - 1 : units >= TwoTo[SignificandBits + d]]

\* The multiple of a distance that is nearest to a number, the even one of two.
nearestMultiple(n, distance) ==
  LET below == n \div distance
      rest == n % distance
      isUp == 2 * rest > distance \/ (2 * rest = distance /\ below % 2 = 1)
  IN (IF isUp THEN below + 1 ELSE below) * distance

\* The result of an operation on doubles whose exact result is a number of units.
nearestFloat(units) == nearestMultiple(units, ulp(units))

IsFloat(units) == nearestFloat(units) = units

\* (double)scale is exact: 5^18 is less than 2^53.
ASSUME ScaleAssumption == \A n \in 0 .. MaxPrecision : IsFloat(TenTo[n] * One)

\* (uint64_t)rounded
Converted(units) ==
  LET truncated == units \div One
  IN IF truncated <= U64Max THEN {truncated} ELSE 0 .. U64Max

\* Mutant of rounded: nothing is added before the conversion truncates.
roundedDown(magnitude, scale) == {nearestFloat(magnitude * scale)}

\* value * scale + 0.5, the product rounded by itself or contracted with the sum.
rounded(magnitude, scale) ==
  {nearestFloat(nearestFloat(magnitude * scale) + Half), nearestFloat(magnitude * scale + Half)}

\* name is that of a float that is no number, or empty.
print_f64_fixed(units, name, precision) ==
  LET scale == TenTo[precision]
      sign == IF units < 0 THEN <<"-">> ELSE <<>>
      magnitude == IF units < 0 THEN 0 - units ELSE units
      fraction(scaled) ==
        IF precision = 0 THEN <<>>
        ELSE <<".">> \o print_zero_padded_u64(scaled % scale, precision)
  IN IF name # <<>> THEN {name}
     ELSE {sign \o print_u64_decimal(scaled \div scale) \o fraction(scaled) :
             scaled \in UNION {Converted(sum) : sum \in rounded(magnitude, scale)}}

-----------------------------------------------------------------------------
(* Parsing.                                                                *)

ascii_is_space(c) == c = " "

\* The first position from i on that is not a space, and the first that is no digit.
skipSpaces(data, i) ==
  CHOOSE j \in i .. Len(data) + 1 :
    /\ \A k \in i .. j - 1 : ascii_is_space(data[k])
    /\ j <= Len(data) => ~ascii_is_space(data[j])

skipDigits(data, i) ==
  CHOOSE j \in i .. Len(data) + 1 :
    /\ \A k \in i .. j - 1 : IsDigit(data[k])
    /\ j <= Len(data) => ~IsDigit(data[j])

\* Mutant of overflows: the digit is forgotten in the bound.
overflowsLate(value, digit) == value > U64Max \div 10

overflows(value, digit) == value > (U64Max - digit) \div 10

\* The value after each turn of the digit loop.
valueRead(data, i) ==
  LET value[n \in 0 .. skipDigits(data, i) - i] ==
        IF n = 0 THEN 0 ELSE U64(value[n - 1] * 10 + DigitValue(data[i + n - 1]))
  IN value

\* The digit loop, up to the position after the digits; stops where it would overflow.
readDigits(data, i) ==
  LET end == skipDigits(data, i)
      value == valueRead(data, i)
  IN [ok |-> \A n \in 1 .. end - i : ~overflows(value[n - 1], DigitValue(data[i + n - 1])),
      at |-> end,
      value |-> value[end - i]]

Failed == [ok |-> FALSE, value |-> 0]
Parsed(value) == [ok |-> TRUE, value |-> value]

\* Digits from i on, then spaces, then the end.
readNumber(data, i) ==
  LET digits == readDigits(data, i)
  IN IF digits.ok /\ digits.at > i /\ skipSpaces(data, digits.at) = Len(data) + 1
     THEN Parsed(digits.value) ELSE Failed

parse_u64(data) == readNumber(data, skipSpaces(data, 1))

\* Mutant of limitOf: the least number is taken for out of range.
limitOfMagnitude(negative) == TwoTo[IntBits - 1] - 1

limitOf(negative) == IF negative THEN TwoTo[IntBits - 1] ELSE TwoTo[IntBits - 1] - 1

parse_i32(data) ==
  LET start == skipSpaces(data, 1)
      signed == start <= Len(data) /\ data[start] \in {"-", "+"}
      negative == signed /\ data[start] = "-"
      number == readNumber(data, IF signed THEN start + 1 ELSE start)
  IN IF ~number.ok \/ number.value > limitOf(negative) THEN Failed
     ELSE Parsed(IF negative THEN 0 - number.value ELSE number.value)

parse_bool(data) ==
  IF data \in {True, <<"1">>} THEN Parsed(1) ELSE IF data \in {False, <<"0">>} THEN Parsed(0) ELSE Failed
=============================================================================
