SPECIFICATION Spec
CONSTANTS
  r1 = r1
  t1 = t1
  t2 = t2
  c1 = c1
  c2 = c2
  n1 = n1
  n2 = n2
  NONE = NONE
  Requests = {r1}
  Links = {t1}
  Calls = {c1, c2}
  Amounts = {1, 2}
  Names = {n1}
  MaxPayouts = 2
CHECK_DEADLOCK FALSE
SYMMETRY Symmetry
INVARIANTS AcceptedOfferStands PaidMeansMoneyOut SerialPayoutsWithinOffer RestockIsTrue
PROPERTY KeepsPurchasePromise
