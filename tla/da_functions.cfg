SPECIFICATION Spec
CONSTANTS
  MaxBinding = 2
  MaxDepth = 3
  Elem = {0, 1}
  Slice <- MCSlice
CONSTRAINT AcceptedAndSmall
INVARIANTS TypeOK IInv NoUninitializedRead ReturningCodeIsLeft ScalarsStayReadable CleanBetweenFunctions
