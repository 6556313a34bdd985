SPECIFICATION Spec
CONSTANTS
  Width = 3
  Locals <- MCLocals
  Functions <- MCFunctions
  Programs <- MCPrograms
  Worlds <- MCWorlds
INVARIANTS AcceptedIsWellTyped WellTypedIsAccepted ConstantsAreEvaluated PassesAgreeOnTypes AcceptedIsCompiled ComputedAsWritten
CHECK_DEADLOCK FALSE
