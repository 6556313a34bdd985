SPECIFICATION Spec
CONSTANTS
  Texts <- MCShortTexts
  AsciiAlpha <- MCAlpha
  MaxUnsigned = 255
  Intended <- MCIntended
INVARIANT LiteralsKeepTheirValue
CHECK_DEADLOCK FALSE
