SPECIFICATION FairSpec
CONSTANTS
  None = None
  Emails = {a}
  Invites = {i1, i2}
  Sessions = {s1, s2}
  Requests = {q1}
  Unbound = FALSE
  CleanupBatch = 1
INVARIANT BoundInvitesHideReuse
PROPERTIES
  SessionsMoveOn
  SessionsAreErased
CHECK_DEADLOCK FALSE
