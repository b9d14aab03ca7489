SPECIFICATION Spec
CONSTANTS
  None = None
  k1 = k1
  nobody = nobody
  Users = {u1}
  Clients = {k1}
  Uris = {x, y}
  Scopes = {"openid", "email"}
  Granted <- MCGranted
  Verifiers = {v1}
  Codes = {a1}
  Requests = {q1, q2}
  Addresses = {}
  Unknown = nobody
  Host = "development"
  Upstash = FALSE
  Limit <- MCLimit
  MaxHits = 2
SYMMETRY Symmetry
CONSTRAINT Combined
INVARIANTS
  TypeOK
  OneTokenPerCode
  TokensFollowConsent
  RedirectsAreRegistered
  LimitersAgree
PROPERTY KeepsPromise
CHECK_DEADLOCK FALSE
