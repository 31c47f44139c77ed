SPECIFICATION FairSpec
CONSTANTS
  c1 = c1
  c2 = c2
  Callers = {c1, c2}
  FailureThreshold = 2
  ResetTimeout = 2
  OpenTTL = 5
  ClosedTTL = 6
  Faults <- AllFaults
INVARIANTS TypeOK NoSpuriousTrip
PROPERTY Recovers
