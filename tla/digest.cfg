SPECIFICATION Spec
CONSTANTS
  i1 = i1
  i2 = i2
  e1 = e1
  e2 = e2
  p1 = p1
  p2 = p2
  Restarted = {i2}
  Poller <- PollEach
  Instances = {i1, i2}
  Events = {e1, e2}
  Polls = {p1, p2}
  MaxCount = 2
  Window = 2
  Grace = 2
  LockTTL = 2
  Consumer = {"resolves", "rejects"}
  Recurring = FALSE
  Faults <- AllFaults
VIEW View
SYMMETRY Symmetry
INVARIANTS TypeOK DeliveredOnce NothingForgotten NothingExpires
