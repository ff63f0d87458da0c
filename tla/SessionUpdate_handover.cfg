CONSTANTS
  Maps = {m1, m2}
  None = None
  Crossing = FALSE
SPECIFICATION FairSpec
INVARIANTS TypeOK HandedOver Exclusive
PROPERTIES ClosedIsDropped LogoutEnds
\* The session ends.
CHECK_DEADLOCK FALSE
