SPECIFICATION Spec
CONSTANTS
  Programs <- MCPrograms
  Labels <- MCLabels
  MaxNesting = 4
INVARIANTS LoweringIsFaithful ContinueAdvances ShallowControlIsLowered
CHECK_DEADLOCK FALSE
