CONSTANTS
  p1 = p1
  p2 = p2
  p3 = p3
  i1 = i1
  Players = {p1, p2}
  Items = {i1}
  None = None
  Half = 1000
  Start = 2
  Present = {p1, p2}
  Owner <- MCOwner
  MailCost = 1
  Deposit = 1
  CutRate = 50
  Prices = {1}
  Offers <- MCOneOffer
  Sums = {0, 1}
  Crossing = FALSE
  MaxMoney = 5
  LogTrade = TRUE
  MaxMail = 2
  MaxAuction = 1
  MaxQueue = 2
  MaxCrashes = 1
  MaxEarned = 1
  MaxLogins = 1
SPECIFICATION Spec
INVARIANTS Balanced OneHolder MemoryAgrees IdsFresh
PROPERTIES CodIsPaid
\* The bounds on letters, auctions and log-ins are reached.
CHECK_DEADLOCK FALSE
