SPECIFICATION Spec
CONSTANTS
  MaxBinding = 1
  MaxDepth = 3
  Elem = {0}
  Slice <- MCSlice
CONSTRAINT Accepted
INVARIANT NoLoadBeforeStore
