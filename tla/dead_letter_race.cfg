SPECIFICATION Spec
CONSTANTS
  l1 = l1
  r1 = r1
  r2 = r2
  Letters = {l1}
  Requests = {r1, r2}
  Faults = {}
INVARIANT RetriedOnce
