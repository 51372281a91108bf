SPECIFICATION Spec
CONSTANTS
  Size = 5
  PipeSize = 2
  Faults <- OnlyPanic
  EmptyReads = FALSE
INVARIANT WaitsForTheCopy
CHECK_DEADLOCK FALSE
