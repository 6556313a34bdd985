SPECIFICATION Spec
CONSTANTS
  Texts <- MCTexts
  AsciiAlpha <- MCAlpha
  MaxUnsigned = 255
  Intended <- MCIntended
INVARIANTS TokensAreLongest AcceptedIsItsText PrecedenceIsRespected GrammarIsAccepted
PROPERTY EveryTurnAdvances
