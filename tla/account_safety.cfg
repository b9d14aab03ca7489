SPECIFICATION Spec
CONSTANTS
  None = None
  Codes = {c1, c2}
  Links = {t1, t2}
  Passwords = {p1, p2}
  Sessions = {s1}
  Requests = {q1, q2}
  MaxAttempts = 2
  MaxVersion = 2
  MaxLost = 1
SYMMETRY Symmetry
INVARIANTS
  TypeOK
  SignInProvesPassword
  GuessesBounded
PROPERTIES
  PasswordChangeEndsSessions
  ActivationSpendsItsCode
  ResetEndsEveryLink
CHECK_DEADLOCK FALSE
