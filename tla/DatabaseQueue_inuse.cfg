CONSTANTS
  NumWorkers = 1
  MaxOps = 1
SPECIFICATION Spec
INVARIANT InUseIsOpen
CHECK_DEADLOCK FALSE
