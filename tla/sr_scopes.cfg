SPECIFICATION Spec
CONSTANTS
  Name = {x, y}
  Global = {y}
  x = x
  y = y
  MaxBinding = 3
  MaxDepth = 4
CONSTRAINT Accepted
INVARIANTS TypeOK OnlyForLocalsLeak VisibleSlotsAreLive
