SPECIFICATION Spec
CONSTANTS
  a = a
  b = b
  p = p
  nl = nl
  cr = cr
  nul = nul
  Char = {a, b, p}
  NewLine = nl
  CarriageReturn = cr
  Nul = nul
  BufferSize = 3
  MaxInput = 4
  Stdins <- AllStdins
  Literal <- Printed
  MaxPieces = 2
  MaxHeld = 2
  MaxCalls = 3
INVARIANTS TypeOK OutputIsWhatWasAsked NoByteLost ShortLinesAreReadWhole InputOkReportsInput
PROPERTY BuiltinsReturn
CHECK_DEADLOCK FALSE
