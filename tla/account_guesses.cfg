SPECIFICATION Spec
CONSTANTS
  None = None
  Codes = {c1, c2}
  Links = {t1}
  Passwords = {p1}
  Sessions = {s1}
  Requests = {q1, q2}
  MaxAttempts = 2
  MaxVersion = 1
  MaxLost = 0
SYMMETRY Symmetry
INVARIANT FailedAttemptsLimited
CHECK_DEADLOCK FALSE
