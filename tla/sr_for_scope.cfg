SPECIFICATION Spec
CONSTANTS
  Name = {x, y}
  Global = {y}
  x = x
  y = y
  MaxBinding = 2
  MaxDepth = 3
CONSTRAINT UsualLets
INVARIANT NamesResolveAlike
