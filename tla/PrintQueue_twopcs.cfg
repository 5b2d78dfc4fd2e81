SPECIFICATION Spec
CONSTANTS
  a1 = a1
  a2 = a2
  h1 = h1
  h2 = h2
  s1 = s1
  s2 = s2
  NONE = NONE
  Jobs = {1}
  Receipts = {1}
  Agents = {a1, a2}
  Hosts = {h1, h2}
  TokenOf <- TwoPCs
  Staff = {s1}
  MaxAttempts = 2
  MaxBoots <- FirstCut
  MaxAnswers = 1
CHECK_DEADLOCK FALSE
INVARIANTS IndInv ReceiptPrintBound ReceiptRetryBound
PROPERTIES AckMeansPaper KeepsReceiptPromise
