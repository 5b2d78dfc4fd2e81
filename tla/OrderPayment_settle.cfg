SPECIFICATION Spec
CONSTANTS
  o1 = o1
  o2 = o2
  hook1 = hook1
  hook2 = hook2
  poll1 = poll1
  clerk1 = clerk1
  clerk2 = clerk2
  NONE = NONE
  Orders = {o1, o2}
  Hooks = {hook1}
  Polls = {poll1}
  Clerks = {clerk1}
  Total = 2
  Amounts = {}
  Restocks = {}
  OpeningStock = 1
  MaxAborts = 0
CHECK_DEADLOCK FALSE
SYMMETRY Symmetry
INVARIANT ShelfMatchesOrders
INVARIANT PaidMeansMoney
PROPERTY ClosedMeansSentBack
