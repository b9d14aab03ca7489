SPECIFICATION Spec
CONSTANTS
  None = None
  Emails = {a, b}
  Invites = {i1, i2}
  Sessions = {s1, s2}
  Requests = {q1, q2}
  Unbound = FALSE
  CleanupBatch = 2
PROPERTY ReuseIsDetected
CHECK_DEADLOCK FALSE
