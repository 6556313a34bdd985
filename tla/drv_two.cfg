SPECIFICATION MCSpec
CONSTANTS
  d1 = d1
  d2 = d2
  Drivers = {d1, d2}
  Outputs = {"a.out", "b.out"}
  IrNames = {"ir1", "ir2"}
  ObjectNames = {"o1", "o2"}
  None = None
  Empty = Empty
  Broken = Broken
INVARIANTS TypeOK FilesAreOwn GuardedFilesAreRemoved
PROPERTIES ImplementsCompilation DriversEnd
CHECK_DEADLOCK FALSE
