SPECIFICATION Spec
CONSTANTS
  NoWorker = NoWorker
  NoRow = NoRow
  Rows = {i1}
  InviteRows = {i1}
  Workers = {w1}
  MaxAttempts = 2
  Lease = 2
  Backoffs = {1}
  MaxMessages = 1
  Capacity = 2
  Prompt = TRUE
  Deadlines = TRUE
  Crashes = FALSE
INVARIANT RetryableWork
CHECK_DEADLOCK FALSE
