SPECIFICATION FairSpec
CONSTANTS
  accA = accA  accB = accB  accC = accC  accG = accG
  a1 = a1  a2 = a2  b1 = b1  c1 = c1  g1 = g1
  None = None
  Sessions = {a1, a2, g1}
  Accounts = {accA, accG}
  Account <- MCAccount
  Regular = {a1, a2}
  Limits = {0, 1}
  Tolerance = 1
  MaxTime = 0
  UintMod = 16
  BelowZero = 0
  Racing = {a1, a2}
INVARIANTS TypeOK QueueWellFormed NobodyForgotten FlagMeansWaiting
PROPERTIES ClosedIsFreed
CHECK_DEADLOCK FALSE
