SPECIFICATION Spec
CONSTANTS
  Header = 2
  Sizes <- MCSizes
  MaxBody = 6
  Limit = 8
INVARIANT RejectsABatch
CHECK_DEADLOCK FALSE
