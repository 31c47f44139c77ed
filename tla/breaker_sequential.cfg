SPECIFICATION Spec
CONSTANTS
  c1 = c1
  c2 = c2
  Callers = {c1}
  FailureThreshold = 3
  ResetTimeout = 3
  OpenTTL = 7
  ClosedTTL = 9
  Faults = {"redis", "crash"}
PROPERTY ImplementsBreaker
