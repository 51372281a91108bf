SPECIFICATION Spec
CONSTANTS
  Parents <- MCParents
  KeySets <- MCKeySets
  Adjustable = {"split.total"}
  MaxAdjusted = 1
  MaxParts = 3
  Decimal <- MCDecimal
  Splits <- MCSplits
  MaxContent = 1
  MaxHandled = 1
INVARIANTS NothingInherited MergesTheWhole LooksLikeTheParent ArrivesAsSent TruncationIsTold
PROPERTY Settles
\* A set that has been merged, or not, leaves nothing to do.
CHECK_DEADLOCK FALSE
