SPECIFICATION Spec
CONSTANTS
  Header = 2
  Sizes <- MCSizes
  MaxParts = 2
  Cancels <- OnlyNext
INVARIANT NeverMispositioned
CHECK_DEADLOCK FALSE
