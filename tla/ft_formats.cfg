SPECIFICATION Spec
CONSTANTS
  Bits = 8
  IntBits = 6
  SignificandBits = 5
  FractionBits = 6
  MaxPrecision = 2
  DefaultPrecision = 1
  Alphabet = {"a", "{", "}", ":", ".", "x", "b", "f", "1"}
  MaxRaw = 4
  MaxFragments = 2
  MaxInput = 4
  MaxNesting = 2
  Programs <- MCPrograms
  Inputs <- MCInputs
INVARIANTS FormatStringsAreRead PlainCallsAreLowered OutputIsTheExpansion FloatsAreRounded ParsesAreExact NumbersAreReadBack
CHECK_DEADLOCK FALSE
