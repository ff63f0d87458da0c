CONSTANTS
  Sockets = {k1}
  Sizes = {1}
  FirstCapacity = 1
  Capacity = 2
  MaxBlocks = 3
  None = None
SPECIFICATION FairSpec
PROPERTY DelayedCloseCloses
CHECK_DEADLOCK FALSE
