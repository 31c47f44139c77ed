SPECIFICATION FairSpec
CONSTANTS
  n1 = n1
  n2 = n2
  p1 = p1
  p2 = p2
  p3 = p3
  a1 = a1
  t1 = t1
  t2 = t2
  Notifs = {n1, n2}
  Providers = {p1, p2, p3}
  Rank <- ThreeProviders
  Strategy = "round_robin"
  MaxAttempts = 1
  Addresses = {a1}
  Address <- SameAddress
  Tokens <- TwoTokens
  Push = TRUE
  RRPeriod = 6
  Faults = {}
INVARIANT DeadTokensGo
PROPERTY EveryDispatchSettles
CHECK_DEADLOCK FALSE
