SPECIFICATION FairSpec
CONSTANTS
  a1 = a1
  a2 = a2
  h1 = h1
  h2 = h2
  s1 = s1
  s2 = s2
  NONE = NONE
  Jobs = {1, 2}
  Receipts = {1}
  Agents = {a1}
  Hosts = {h1}
  TokenOf <- OnePC
  Staff = {s1}
  MaxAttempts = 1
  MaxBoots <- FirstCut
  MaxAnswers = 0
CHECK_DEADLOCK FALSE
INVARIANTS RefusalsAreTrue FirstPrintIsMarked
PROPERTY JobSettles
