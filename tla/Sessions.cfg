SPECIFICATION Spec
CONSTANTS
  Requests = {r1, r2}
  r1 = r1
  r2 = r2
  StaleReads = TRUE
  MaxTokens = 3
  MaxFailures = 1
SYMMETRY Symmetry
INVARIANTS
  TypeOK
  AnsweredTokenStored
  OldTokenInvalidated
  SessionKept
  NoLateRefreshUnlessStale
CHECK_DEADLOCK FALSE
