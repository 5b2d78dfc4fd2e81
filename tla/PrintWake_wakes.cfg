SPECIFICATION FairSpec
CONSTANTS
  j1 = j1
  j2 = j2
  i1 = i1
  i2 = i2
  q1 = q1
  q2 = q2
  NONE = NONE
  Jobs = {j1}
  Processes = {i1, i2}
  Requests = {q1, q2}
  MaxNaps = 1
  MaxQueued = 2
  MaxCrashes = 1
CHECK_DEADLOCK FALSE
INVARIANTS TypeOK ListenersAreParked
PROPERTIES  JobIsSeen RequestsEnd
