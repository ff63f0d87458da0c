CONSTANTS
  Sockets = {k1}
  Sizes = {1, 2, 3}
  FirstCapacity = 1
  Capacity = 2
  MaxBlocks = 6
  None = None
SPECIFICATION FairSpec
INVARIANTS TypeOK ConnectionsCounted
PROPERTIES WireIsStream DelayedCloseDrains SentArrives ClosedLeaves
CHECK_DEADLOCK FALSE
