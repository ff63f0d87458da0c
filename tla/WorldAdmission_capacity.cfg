SPECIFICATION Spec
CONSTANTS
  accA = accA  accB = accB  accC = accC  accG = accG
  a1 = a1  a2 = a2  b1 = b1  c1 = c1  g1 = g1
  None = None
  Sessions = {a1, a2, b1, c1}
  Accounts = {accA, accB, accC}
  Account <- MCAccount
  Regular = {a1, a2, b1, c1}
  Limits = {1}
  Tolerance = 1
  MaxTime = 1
  UintMod = 16
  BelowZero = 0
  Racing = {}
INVARIANTS NoUnderflow
PROPERTIES FirstComeFirstServed LimitRespected
SYMMETRY Alike
CHECK_DEADLOCK FALSE
