SPECIFICATION ExchangeSpec
CONSTANTS
  Asked <- MCAsked
  Chunk = 1
  Kinds <- MCKinds
  MaxBytes = 6
  ResponseSize = 6
  RequestSize = 5
  RequestSocket = 2
  ResponseSocket = 2
INVARIANT StallsAsDocumented
PROPERTY Completes
\* The documented deadlock is among the behaviours.
CHECK_DEADLOCK FALSE
