SPECIFICATION Spec
CONSTANTS
  c1 = c1
  c2 = c2
  Callers = {c1, c2}
  FailureThreshold = 1
  ResetTimeout = 1
  OpenTTL = 3
  ClosedTTL = 4
  Faults = {}
INVARIANT SingleProbe
