SPECIFICATION Spec
CONSTANTS
  accA = accA  accB = accB  accC = accC  accG = accG
  a1 = a1  a2 = a2  b1 = b1  c1 = c1  g1 = g1
  None = None
  Sessions = {a1, a2}
  Accounts = {accA}
  Account <- MCAccount
  Regular = {a1, a2}
  Limits = {1}
  Tolerance = 1
  MaxTime = 3
  UintMod = 16
  BelowZero = 0
  Racing = {}
INVARIANTS ToleranceExpires
CHECK_DEADLOCK FALSE
