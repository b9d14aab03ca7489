SPECIFICATION FairSpec
CONSTANTS
  NoWorker = NoWorker
  NoRow = NoRow
  Rows = {r1}
  InviteRows = {}
  Workers = {w1, w2}
  MaxAttempts = 3
  Lease = 2
  Backoffs = {1}
  MaxMessages = 2
  Capacity = 2
  Prompt = FALSE
  Deadlines = TRUE
  Crashes = TRUE
INVARIANTS
  TypeOK
  LeaseExclusion
PROPERTIES
  KeepsPromise
  PendingIsPickedUp
CHECK_DEADLOCK FALSE
