SPECIFICATION Spec
CONSTANTS
  Admins = {a1, a2}
  Maps = {m1, m2}
  a1 = a1
  a2 = a2
  m1 = m1
  m2 = m2
  NoMap = NoMap
  MaxSecretRounds = 2
  StaleReads = TRUE
  MaxSecrets = 4
  MaxLost = 1
SYMMETRY Symmetry
VIEW WithoutInUse
INVARIANTS
  TypeOK
  RoundsAreLatest
  AnsweredSecretWritten
  ExactUnlessStale
  RevokedNotRotatedUnlessStale
  WrittenOnce
PROPERTIES
  RevocationPermanent
  AudiencesAsAsked
  KeepsRecord
CHECK_DEADLOCK FALSE
