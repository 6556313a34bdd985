SPECIFICATION Spec
CONSTANTS
  Programs <- MCPrograms
  Labels <- MCLabels
  MaxNesting = 4
INVARIANT ExecutionContinuesAfterIf
CHECK_DEADLOCK FALSE
