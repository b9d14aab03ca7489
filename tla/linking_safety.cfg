SPECIFICATION Spec
CONSTANTS
  None = None
  Providers = {google, github}
  Subjects = {x, y}
  Intents = {i1, i2}
  Sessions = {s1}
  Requests = {q1, q2}
  MaxVersion = 2
SYMMETRY Symmetry
INVARIANTS
  TypeOK
  OneAccountPerProvider
  IntentClaimedOnce
  NoSessionAhead
PROPERTY LinkKeepsItsSession
CHECK_DEADLOCK FALSE
