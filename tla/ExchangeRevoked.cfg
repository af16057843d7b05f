SPECIFICATION ExchangeSpec
CONSTANTS
  Admins = {a1}
  a1 = a1
  Callers = {c1}
  c1 = c1
  shop = shop
  games = games
  read = read
  write = write
  Audiences <- TwoAudiences
  Maps <- TwoMaps
  Watched <- Shopping
  NoMap = NoMap
  MaxSecretRounds = 2
  StaleReads = TRUE
  MaxSecrets = 1
  MaxLost = 0
  Limit = 1
  Duration = 2
  RequestTimeout = 1
  Lifetime = 2
  MaxSweeps = 0
  MaxTime = 0
PROPERTIES
  RevokedRefused
CHECK_DEADLOCK FALSE
