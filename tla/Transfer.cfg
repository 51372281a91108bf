SPECIFICATION Spec
CONSTANTS
  Header = 2
  Sizes <- MCSizes
  MaxParts = 2
  Cancels <- MCCancels
INVARIANTS TypeOK WholeUnlessPoisoned AtBoundary OwnContent MismatchIsExact EndsBetweenFlowFiles NothingLost
PROPERTY EndIsTold
\* A reader that has come to the end has nothing left to do.
CHECK_DEADLOCK FALSE
