SPECIFICATION Spec
CONSTANTS
  empty = empty
  a = a
  b = b
  word = word
  long = long
  Keys <- MCKeys
  KeyLen <- MCKeyLen
  Lengths <- MCLengths
  ContentSizes <- MCContentSizes
  MaxCount = 3
  ReserveAhead = 2
  LongForm = 3
  Top = 8
  NoLimit = NoLimit
  NoKey = NoKey
  AnyLimits <- MCLimits
INVARIANTS BackedByBytes BuffersWithinTotal AgreesWithCheck StopsAtTheContent
\* The call returns.
CHECK_DEADLOCK FALSE
