SPECIFICATION FairSpec
CONSTANTS
  NoWorker = NoWorker
  NoRow = NoRow
  Rows = {r1, i1}
  InviteRows = {i1}
  Workers = {w1}
  MaxAttempts = 2
  Lease = 2
  Backoffs = {1}
  MaxMessages = 1
  Capacity = 1
  Prompt = TRUE
  Deadlines = FALSE
  Crashes = FALSE
PROPERTY EveryRowSettles
CHECK_DEADLOCK FALSE
