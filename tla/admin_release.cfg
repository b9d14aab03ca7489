SPECIFICATION Spec
CONSTANTS
  None = None
  Factors = {f1, f2}
  KeyVersions = {k1, k2}
  Servers = {n1, n2}
  Sessions = {s1}
  Requests = {q1, q2}
  MaxAge = 0
  MaxVersion = 2
  MaxTime = 1
SYMMETRY Symmetry
CONSTRAINT Combined
INVARIANTS
  TypeOK
  CodesAcceptedOnce
  AdminKeepsAFactor
  ReadableFactors
  ReadinessStaysTrue
PROPERTIES
  RevokedStaysRevoked
CHECK_DEADLOCK FALSE
