CONSTANTS
  MaxSize = 3
  MaxLosses = 2
SPECIFICATION FairSpec
INVARIANTS TypeOK AllOrNothing CalledIffDurable SessionLeftClean
PROPERTIES TransactionEnds
\* The transaction ends.
CHECK_DEADLOCK FALSE
