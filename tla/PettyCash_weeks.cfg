SPECIFICATION Spec
CONSTANTS
  k1 = k1
  k2 = k2
  c1 = c1
  c2 = c2
  b1 = b1
  NONE = NONE
  WeekLen = 2
  LastDay = 2
  Clerks = {k1, k2}
  Closers = {c1}
  Bookings = {b1}
  Amounts = {1}
  MaxSlips = 3
CHECK_DEADLOCK FALSE
SYMMETRY Symmetry
INVARIANTS TypeOK BooksMatchTin NeverOverspent StragglersBounded
