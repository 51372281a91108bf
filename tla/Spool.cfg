SPECIFICATION Spec
CONSTANTS
  Size = 5
  PipeSize = 2
  Faults <- AllFaults
  EmptyReads = FALSE
INVARIANTS Intact NeverShort NoEarlyEnd ErrorAtStop MemoryBound
PROPERTIES ImplementsStream EndIsFinal Drains Answers StopsWhenDropped
\* A reader that has dropped the content leaves nothing to do.
CHECK_DEADLOCK FALSE
