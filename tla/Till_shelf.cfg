SPECIFICATION Spec
CONSTANTS
  t1 = t1
  t2 = t2
  a1 = a1
  a2 = a2
  a3 = a3
  b1 = b1
  p1 = p1
  p2 = p2
  d1 = d1
  d2 = d2
  r1 = r1
  r2 = r2
  NONE = NONE
  Tickets = {t1, t2}
  Attempts = {a1, b1}
  TicketOf <- MCTicketOf
  Products = {p1, p2}
  Lines <- MCLines
  OpeningStock <- MCShortShelf
  OpeningCost <- MCOpeningCost
  Deliveries = {d1, d2}
  DeliveryOf <- MCDeliveryOf
  Refunders = {r1, r2}
  Amounts = {1, 2}
  MaxFaults = 1
CHECK_DEADLOCK FALSE
INVARIANTS ShelfMatches RefundsWithinSale CostWithinPrices
