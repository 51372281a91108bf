SPECIFICATION Spec
CONSTANTS
  Size = 5
  PipeSize = 2
  Faults <- NoFaults
  EmptyReads = FALSE
INVARIANT OnePipeful
CHECK_DEADLOCK FALSE
