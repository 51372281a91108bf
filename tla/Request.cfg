SPECIFICATION Spec
CONSTANTS
  Header = 2
  Sizes <- MCSizes
  MaxBody = 9
  Limit = 7
INVARIANTS NeverPolledAfterEnd StatusTellsWhy WholeOrFailed
PROPERTY IsAnswered
\* A request that has been answered leaves nothing to do.
CHECK_DEADLOCK FALSE
