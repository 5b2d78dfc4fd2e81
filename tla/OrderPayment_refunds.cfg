SPECIFICATION Spec
CONSTANTS
  o1 = o1
  o2 = o2
  hook1 = hook1
  hook2 = hook2
  poll1 = poll1
  clerk1 = clerk1
  clerk2 = clerk2
  NONE = NONE
  Orders = {o1}
  Hooks = {hook1}
  Polls = {}
  Clerks = {clerk1, clerk2}
  Total = 2
  Amounts = {1}
  Restocks = {TRUE, FALSE}
  OpeningStock = 1
  MaxAborts = 0
CHECK_DEADLOCK FALSE
SYMMETRY Symmetry
INVARIANT BookedWithinTotal
INVARIANT IndInv
