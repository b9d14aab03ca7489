SPECIFICATION Spec
CONSTANTS
  None = None
  Emails = {a, b}
  Invites = {i1, i2}
  Sessions = {s1, s2}
  Requests = {q1, q2}
  Unbound = TRUE
  CleanupBatch = 1
SYMMETRY Symmetry
INVARIANTS
  TypeOK
  OneLiveInvitePerEmail
  RegistrationIsAtomic
  ConsumedMeansRedeemed
  EvidenceIsTrue
PROPERTY ClosedInvitesStayClosed
CHECK_DEADLOCK FALSE
