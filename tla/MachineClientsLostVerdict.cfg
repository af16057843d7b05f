SPECIFICATION Spec
CONSTANTS
  Admins = {a1}
  Maps = {m1}
  a1 = a1
  m1 = m1
  NoMap = NoMap
  MaxSecretRounds = 2
  StaleReads = FALSE
  MaxSecrets = 3
  MaxLost = 1
INVARIANTS
  ExactVerdicts
CHECK_DEADLOCK FALSE
