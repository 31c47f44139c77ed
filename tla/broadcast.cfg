SPECIFICATION Spec
CONSTANTS
  m1 = m1
  m2 = m2
  m3 = m3
  r1 = r1
  r2 = r2
  e1 = e1
  e2 = e2
  None = None
  Members = {m1, m2, m3}
  Created <- Times
  Movers = {m1}
  Requests = {r1, r2}
  Executors = {e1, e2}
  PageSize = 2
  MaxFaults = 1
INVARIANTS TypeOK CountTrue SentOnce NobodyLeftOut
SYMMETRY Symmetry
CHECK_DEADLOCK FALSE
