CONSTANTS
  p1 = p1
  p2 = p2
  p3 = p3
  i1 = i1
  Players = {p1, p2}
  Items = {i1}
  None = None
  Half = 1000
  Start = 3
  Present = {p1, p2}
  Owner <- MCOwner
  MailCost = 1
  Deposit = 1
  CutRate = 50
  Prices = {1, 2}
  Offers <- MCOffers
  Sums = {}
  Crossing = FALSE
  MaxMoney = 5
  LogTrade = FALSE
  MaxMail = 3
  MaxAuction = 1
  MaxQueue = 2
  MaxCrashes = 1
  MaxEarned = 0
  MaxLogins = 1
SPECIFICATION Spec
INVARIANTS OneHolder
\* The bounds on letters, auctions and log-ins are reached.
CHECK_DEADLOCK FALSE
