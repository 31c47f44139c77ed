SPECIFICATION MCSpec
CONSTANTS
  i1 = i1
  i2 = i2
  Instances = {i1, i2}
  Nowhere = Nowhere
  MaxConnects = 2
  MaxActions = 3
  MaxReloads = 1
  MaxSize = 2
  MaxEntries = 4
  CatchUpLimit = 1
  MaxPolls = 2
  MaxErrors = 1
SYMMETRY Symmetry
VIEW View
INVARIANTS RealtimeTypeOK NothingLost LastActionWins SocketsAccountedFor SeenOnce NothingMissed
CHECK_DEADLOCK FALSE
