SPECIFICATION Spec
CONSTANTS
  i1 = i1
  i2 = i2
  e1 = e1
  e2 = e2
  p1 = p1
  p2 = p2
  Restarted = {}
  Poller <- OnePoll
  Instances = {i1}
  Events = {e1, e2}
  Polls = {p1}
  MaxCount = 2
  Window = 2
  Grace = 2
  LockTTL = 1
  Consumer = {"resolves"}
  Recurring = FALSE
  Faults = {}
INVARIANT BatchHandled
