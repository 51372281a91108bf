SPECIFICATION Spec
CONSTANTS
  Size = 5
  PipeSize = 2
  Faults <- SomeFault
  EmptyReads = TRUE
INVARIANT ErrorAtStop
CHECK_DEADLOCK FALSE
