SPECIFICATION Spec
CONSTANTS
  Calls = {c1, c2}
  c1 = c1
  c2 = c2
  Limit = 1
  Duration = 2
  RequestTimeout = 1
  MaxAttempts = 1
  MaxSweeps = 1
  MaxTime = 5
INVARIANTS
  FixedWindowRate
CHECK_DEADLOCK FALSE
