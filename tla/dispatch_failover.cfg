SPECIFICATION Spec
CONSTANTS
  n1 = n1
  n2 = n2
  p1 = p1
  p2 = p2
  p3 = p3
  a1 = a1
  t1 = t1
  t2 = t2
  Notifs = {n1, n2}
  Providers = {p1, p2}
  Rank <- TwoProviders
  Strategy = "priority"
  MaxAttempts = 2
  Addresses = {a1}
  Address <- SameAddress
  Tokens <- NoTokens
  Push = FALSE
  RRPeriod = 2
  Faults <- DbAndCrash
INVARIANTS TypeOK RecordsTellTheTruth DeadLettersAreExhausted BouncesSuppress PriorityOrder
PROPERTIES FinalAnswer KeepsPromise SuppressedStaysSilent
CHECK_DEADLOCK FALSE
