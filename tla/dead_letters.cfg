SPECIFICATION ResendSpec
CONSTANTS
  l1 = l1
  r1 = r1
  r2 = r2
  app = app
  email = email
  wanting = wanting
  refusing = refusing
  bounced = bounced
  muted = muted
  Letters = {l1}
  Requests = {r1, r2}
  Faults <- DbAndCrash
  Calls = {r1, r2, app}
  Channels = {email}
  Kind <- MCKind
  Limited = {email}
  Limit = 1
  Profiles = {wanting, refusing, bounced, muted}
  Rows <- MCRows
  MaxStray = 1
  Outages <- RedisAndRows
SYMMETRY Symmetry
INVARIANTS ResendTypeOK DeliveredOnce WishesHeld RateLimitHeld SentOnceUnlessRaced RetriedWasSent NotStuckRetrying
