SPECIFICATION FairSpec
CONSTANTS
  Calls = {c1, c2}
  c1 = c1
  c2 = c2
  Limit = 2
  Duration = 2
  RequestTimeout = 1
  MaxAttempts = 2
  MaxSweeps = 1
  MaxTime = 4
INVARIANTS
  TypeOK
  BudgetPerWindow
  RateBound
PROPERTIES
  KeepsPromise
  EventuallyServed
CHECK_DEADLOCK FALSE
