SPECIFICATION Spec
CONSTANTS
  Requests = {r1}
  r1 = r1
  StaleReads = FALSE
  MaxTokens = 2
  MaxFailures = 0
SYMMETRY Symmetry
INVARIANTS
  LogoutRevokes
CHECK_DEADLOCK FALSE
