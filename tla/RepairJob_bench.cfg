SPECIFICATION Spec
CONSTANTS
  j1 = j1
  j2 = j2
  b1 = b1
  p1 = p1
  p2 = p2
  p3 = p3
  m1 = m1
  m2 = m2
  NONE = NONE
  Jobs = {j1, j2}
  Bookings = {b1}
  BookingOf <- MCBookingOf
  Converted = {j1, j2}
  MailIn = {j1, j2}
  Prices <- MCPrices
  Payers = {p1, p2}
  PaidFor <- MCPaidFor
  Calls <- MCCalls
  AtTill = {p1}
  Staff = {m1}
  Trusted = {m1}
CHECK_DEADLOCK FALSE
INVARIANTS HandedOverIsPaid RefundsWithinPaid PaymentStatusIsEarned BookingShowsAJob
PROPERTIES CancelReturnsPaid
