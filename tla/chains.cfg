SPECIFICATION Spec
CONSTANTS
  near = near
  t = t
  v1 = v1
  v2 = v2
  c1 = c1
  c2 = c2
  Chains <- OneChain
  Tokens = {t}
  TokensOf <- ItsToken
  Callers = {c1, c2}
  Viewers = {v1, v2}
  InPosition = {t}
  MaxApis = 2
  MaxCount = 2
  MaxHolds = 4
  MaxCaches = 2
  Restarts = TRUE
CHECK_DEADLOCK FALSE
SYMMETRY Interchangeable
INVARIANTS
  ViewersKeepTheirChain
  CachedIsCounted
  QuietIsSubscribed
