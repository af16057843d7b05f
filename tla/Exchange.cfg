SPECIFICATION ExchangeSpec
CONSTANTS
  Admins = {a1}
  a1 = a1
  Callers = {c1}
  c1 = c1
  shop = shop
  games = games
  read = read
  write = write
  Audiences <- OneAudience
  Maps <- ShopOrNothing
  Watched <- Shopping
  NoMap = NoMap
  MaxSecretRounds = 1
  StaleReads = TRUE
  MaxSecrets = 2
  MaxLost = 0
  Limit = 1
  Duration = 2
  RequestTimeout = 1
  Lifetime = 1
  MaxSweeps = 1
  MaxTime = 2
VIEW WithoutAnswers
INVARIANTS
  ExchangeTypeOK
  TokensRunOut
  GuessesLimited
CHECK_DEADLOCK FALSE
