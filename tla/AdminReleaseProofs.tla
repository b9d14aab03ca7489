------------------------- MODULE AdminReleaseProofs -------------------------
(* Safety of administrators, keys and releases for any number of factors, key *)
(* versions, servers, sessions and concurrent requests: codes and factors, and *)
(* what every instance can read while the keyrings in use overlap.             *)
EXTENDS AdminRelease, TLAPS

\* Every instance was started with a complete environment.
DeployedSound == Deployed \subseteq Configured

\* While the keyrings overlap, whatever will be written next can be read by all, so
\* that what is stored stays readable for all who could read it when they started
\* or looked.  The live check looks at the keys fifth.
KeysSound ==
    shared =>
      /\ KeysShared
      /\ \A k \in Deployed : StoredKeys \subseteq k.keys
      /\ gate.mode = "live" /\ gate.passed >= 5 => StoredKeys \subseteq gate.env.keys

Serving(r) == "server" \in DOMAIN r

\* A request ends with its server.
RequestsServed ==
    \A q \in Requests : Serving(request[q]) => Up(request[q].server)

\* The history of proofs is what the rows remember.
CodesSound ==
    /\ CodesAcceptedOnce
    /\ \A f \in Factors : proof.latest[f] = factor[f].last

\* Once the live check has looked at the administrators, nobody is exempted.
ReadySound == gate.mode = "live" /\ gate.passed >= 4 => ~user.exempt

IInv ==
    /\ TypeOK /\ DeployedSound /\ KeysSound /\ RequestsServed /\ CodesSound
    /\ AdminKeepsAFactor /\ ReadySound

----------------------------------------------------------------------------
(* The records *)

LEMMA UserFields ==
  ASSUME NEW u \in UserRow
  PROVE  /\ u.exempt \in BOOLEAN /\ u.version \in Nat /\ u.enrolled \in BOOLEAN
         /\ u.role \in {"USER", "ADMIN"}
BY DEF UserRow

LEMMA FactorFields ==
  ASSUME NEW r \in FactorRow
  PROVE  /\ r.status \in Statuses /\ r.key \in KeyVersions \cup {None}
         /\ r.last \in Nat \cup {None}
         /\ [r EXCEPT !.status = "REVOKED"] \in FactorRow
         /\ [r EXCEPT !.status = "REVOKED"].status = "REVOKED"
         /\ [r EXCEPT !.status = "REVOKED"].key = r.key
         /\ [r EXCEPT !.status = "REVOKED"].last = r.last
         /\ \A s \in Nat :
               LET a == [r EXCEPT !.status = "ACTIVE", !.last = s] IN
               a \in FactorRow /\ a.status = "ACTIVE" /\ a.last = s /\ a.key = r.key
BY DEF FactorRow, Statuses

LEMMA EnrolledFields ==
  ASSUME NEW key \in KeyVersions
  PROVE  /\ Enrolled(key) \in FactorRow /\ Enrolled(key).status = "PENDING"
         /\ Enrolled(key).key = key /\ Enrolled(key).last = None
BY DEF Enrolled, FactorRow, Statuses

LEMMA NoFactorFields ==
  /\ NoFactor \in FactorRow /\ NoFactor.status = "UNUSED" /\ NoFactor.last = None
BY DEF NoFactor, FactorRow, Statuses

\* The fields of a request by the place it has come to.
LEMMA ProgressFields ==
  ASSUME NEW r \in Progress
  PROVE  /\ Serving(r) => r.server \in Servers
         /\ r.at \in {"enroll", "prove", "look"} =>
               Serving(r) /\ r.version \in Nat
         /\ r.at = "create" => Serving(r) /\ r.active \in BOOLEAN
         /\ r.at \in {"verify", "refresh", "assert"} =>
               Serving(r) /\ r.version \in Nat /\ r.factor \in Factors
         /\ r.at = "claim" =>
               /\ r.factor \in Factors /\ r.seen \in {"PENDING", "ACTIVE"}
               /\ r.step \in Nat
BY DEF Progress, Idle, Serving

\* The places a request goes on to keep the rest of it.
LEMMA ProgressAdvances ==
  ASSUME NEW r \in Progress
  PROVE  /\ r.at = "enroll" =>
               LET m == [r EXCEPT !.at = "prove"] IN
               m \in Progress /\ m.server = r.server
         /\ r.at = "prove" =>
               LET m == [r EXCEPT !.at = "look"] IN
               m \in Progress /\ m.server = r.server
         /\ r.at \in {"verify", "refresh"} =>
               LET m == [r EXCEPT !.at = "assert"] IN
               m \in Progress /\ m.server = r.server
BY DEF Progress, Idle

LEMMA ProgressMakes ==
  /\ Idle \in Progress /\ ~Serving(Idle)
  /\ \A v \in Nat, n \in Servers :
        LET m == [at |-> "enroll", version |-> v, server |-> n] IN
        m \in Progress /\ m.server = n
  /\ \A v \in Nat, n \in Servers, f \in Factors, op \in {"verify", "refresh"} :
        LET m == [at |-> op, version |-> v, server |-> n, factor |-> f] IN
        m \in Progress /\ m.server = n
  /\ \A n \in Servers, a \in BOOLEAN :
        LET m == [at |-> "create", server |-> n, active |-> a] IN
        m \in Progress /\ m.server = n
  /\ \A f \in Factors, st \in {"PENDING", "ACTIVE"}, s \in Nat :
        LET m == [at |-> "claim", factor |-> f, seen |-> st, step |-> s] IN
        m \in Progress /\ ~Serving(m)
BY DEF Progress, Idle, Serving

----------------------------------------------------------------------------
(* What a step does to the requests *)

\* One request goes on, and if a server has it, that server is up.
Moves(q, to) ==
    /\ to \in Progress
    /\ Serving(to) => Up(to.server)
    /\ request' = [request EXCEPT ![q] = to]

LEMMA RequestMoves ==
  ASSUME TypeOK, RequestsServed, NEW q \in Requests, RequestStep(q)
  PROVE  \E to \in Progress : Moves(q, to)
<1>0. request[q] \in Progress /\ user.version \in Nat /\ now \in Nat
  BY UserFields DEF TypeOK, MfaTypeOK
<1>1. ASSUME NEW s \in Sessions, NEW n \in Servers, StartEnroll(q, s, n)
      PROVE  \E to \in Progress : Moves(q, to)
  <2> DEFINE m == [at |-> "enroll", version |-> cookie[s], server |-> n]
  <2>1. m \in Progress /\ m.server = n
    BY <1>0, <1>1, ProgressMakes DEF StartEnroll
  <2>2. request' = [request EXCEPT ![q] = m] /\ Up(n)
    BY <1>1 DEF StartEnroll, Go
  <2> HIDE DEF m
  <2> QED
    BY <2>1, <2>2 DEF Moves
<1>2. ASSUME NEW s \in Sessions, NEW n \in Servers, NEW f \in Factors,
             NEW op \in {"verify", "refresh"}, StartAssertion(q, s, n, f, op)
      PROVE  \E to \in Progress : Moves(q, to)
  <2> DEFINE m == [at |-> op, version |-> cookie[s], server |-> n, factor |-> f]
  <2>1. m \in Progress /\ m.server = n
    BY <1>0, <1>2, ProgressMakes DEF StartAssertion
  <2>2. request' = [request EXCEPT ![q] = m] /\ Up(n)
    BY <1>2 DEF StartAssertion, Go
  <2> HIDE DEF m
  <2> QED
    BY <2>1, <2>2 DEF Moves
<1>3. ASSUME NEW m \in Progress, Serving(request[q]), m.server = request[q].server,
             request' = [request EXCEPT ![q] = m]
      PROVE  \E to \in Progress : Moves(q, to)
  BY <1>3 DEF Moves, RequestsServed
<1>4. CASE AuthorizeEnroll(q)
  <2> DEFINE m == [request[q] EXCEPT !.at = "prove"]
  <2>1. m \in Progress /\ m.server = request[q].server /\ Serving(request[q])
    BY <1>0, <1>4, ProgressAdvances, ProgressFields DEF AuthorizeEnroll, At
  <2>2. request' = [request EXCEPT ![q] = m]
    BY <1>4 DEF AuthorizeEnroll, Go
  <2> HIDE DEF m
  <2> QED
    BY <1>3, <2>1, <2>2
<1>5. CASE AuthorizeAssertion(q)
  <2> DEFINE m == [request[q] EXCEPT !.at = "assert"]
  <2>1. m \in Progress /\ m.server = request[q].server /\ Serving(request[q])
    BY <1>0, <1>5, ProgressAdvances, ProgressFields DEF AuthorizeAssertion
  <2>2. request' = [request EXCEPT ![q] = m]
    BY <1>5 DEF AuthorizeAssertion, Go
  <2> HIDE DEF m
  <2> QED
    BY <1>3, <2>1, <2>2
<1>6. CASE ProveActor(q)
  <2> DEFINE m == [request[q] EXCEPT !.at = "look"]
  <2>1. m \in Progress /\ m.server = request[q].server /\ Serving(request[q])
    BY <1>0, <1>6, ProgressAdvances, ProgressFields DEF ProveActor, At
  <2>2. request' = [request EXCEPT ![q] = m]
    BY <1>6 DEF ProveActor, Go
  <2> HIDE DEF m
  <2> QED
    BY <1>3, <2>1, <2>2
<1>7. ASSUME NEW step \in CodeSteps, ReadFactor(q, step)
      PROVE  \E to \in Progress : Moves(q, to)
  <2> DEFINE f == request[q].factor
             m == [at |-> "claim", factor |-> f, seen |-> factor[f].status, step |-> step]
  <2>1. /\ f \in Factors /\ factor[f].status \in {"PENDING", "ACTIVE"} /\ step \in Nat
    BY <1>0, <1>7, ProgressFields DEF ReadFactor, At, CodeSteps
  <2>2. m \in Progress /\ ~Serving(m)
    BY <2>1, ProgressMakes
  <2>3. request' = [request EXCEPT ![q] = m]
    BY <1>7 DEF ReadFactor, Go
  <2> HIDE DEF m
  <2> QED
    BY <2>2, <2>3 DEF Moves
<1>8. ASSUME request' = [request EXCEPT ![q] = Idle]
      PROVE  \E to \in Progress : Moves(q, to)
  BY <1>8, ProgressMakes DEF Moves
<1>9. ASSUME (\E f \in Factors : EnrollFactor(q, f)) \/ ClaimStep(q) \/ Deny(q)
      PROVE  request' = [request EXCEPT ![q] = Idle]
  BY <1>9 DEF EnrollFactor, ClaimStep, Deny, Go
<1>10. CASE LookForActive(q)
  <2> DEFINE a == InStatus("ACTIVE") # {}
             m == [at |-> "create", server |-> request[q].server, active |-> a]
  <2>1. Serving(request[q]) /\ request[q].server \in Servers /\ a \in BOOLEAN
    BY <1>0, <1>10, ProgressFields DEF LookForActive, At
  <2>2. request' = [request EXCEPT ![q] = m]
    BY <1>10 DEF LookForActive, Go
  <2> HIDE DEF a
  <2>3. m \in Progress /\ m.server = request[q].server
    BY <2>1, ProgressMakes
  <2> HIDE DEF m
  <2> QED
    BY <1>3, <2>1, <2>2, <2>3
<1> QED
  BY <1>1, <1>2, <1>4, <1>5, <1>6, <1>7, <1>8, <1>9, <1>10 DEF RequestStep

----------------------------------------------------------------------------
(* What a step does to the factors and their user *)

UserKept ==
    /\ user' \in UserRow
    /\ user'.role = user.role /\ user'.exempt = user.exempt
    /\ user'.enrolled = user.enrolled

Rests == factor' = factor /\ proof' = proof /\ UserKept

Creates(f, key) ==
    /\ factor[f] = NoFactor
    /\ key \in KeyVersions /\ key \in WriteKeys
    /\ factor' = [factor EXCEPT ![f] = Enrolled(key)]
    /\ proof' = proof /\ UserKept

\* A factor in use is proved by a step it was not proved with; others may be revoked.
Proves(f, step) ==
    /\ factor[f].status \in {"PENDING", "ACTIVE"}
    /\ factor[f].last # None => factor[f].last < step
    /\ factor' \in [Factors -> FactorRow]
    /\ factor'[f].status = "ACTIVE" /\ factor'[f].last = step
    /\ factor'[f].key = factor[f].key
    /\ \A g \in Factors \ {f} :
          /\ factor'[g].key = factor[g].key /\ factor'[g].last = factor[g].last
          /\ \/ factor'[g].status = factor[g].status
             \/ factor[g].status = "ACTIVE" /\ factor'[g].status = "REVOKED"
    /\ Spend(f, step)
    /\ user' \in UserRow /\ user'.enrolled
    /\ ~user.exempt => ~user'.exempt

RowsStep ==
    \/ Rests
    \/ \E f \in Factors, key \in KeyVersions : Creates(f, key)
    \/ \E f \in Factors, step \in Nat : Proves(f, step)

LEMMA UserMoves ==
  ASSUME NEW u \in UserRow
  PROVE  /\ LET w == [u EXCEPT !.strong = None, !.version = @ + 1] IN
            /\ w \in UserRow
            /\ w.role = u.role /\ w.exempt = u.exempt /\ w.enrolled = u.enrolled
         /\ LET w == [u EXCEPT !.version = @ + 1, !.strong = None] IN
            /\ w \in UserRow
            /\ w.role = u.role /\ w.exempt = u.exempt /\ w.enrolled = u.enrolled
         /\ \A t \in Nat :
               LET w == [u EXCEPT !.strong = t, !.enrolled = TRUE] IN
               w \in UserRow /\ w.enrolled /\ w.exempt = u.exempt
         /\ \A t \in Nat, m \in BOOLEAN :
               LET w == [u EXCEPT !.role = "ADMIN", !.exempt = FALSE, !.enrolled = TRUE,
                                  !.strong = t, !.manages = m, !.booted = TRUE,
                                  !.version = @ + 1] IN
               w \in UserRow /\ w.enrolled /\ ~w.exempt
<1> DEFINE n == u.version + 1
<1>1. n \in Nat
  BY DEF UserRow
<1> HIDE DEF n
<1>2. LET w == [u EXCEPT !.strong = None, !.version = n] IN
      /\ w \in UserRow
      /\ w.role = u.role /\ w.exempt = u.exempt /\ w.enrolled = u.enrolled
  BY <1>1 DEF UserRow
<1>3. LET w == [u EXCEPT !.version = n, !.strong = None] IN
      /\ w \in UserRow
      /\ w.role = u.role /\ w.exempt = u.exempt /\ w.enrolled = u.enrolled
  BY <1>1 DEF UserRow
<1>4. ASSUME NEW t \in Nat
      PROVE  LET w == [u EXCEPT !.strong = t, !.enrolled = TRUE] IN
             w \in UserRow /\ w.enrolled /\ w.exempt = u.exempt
  BY DEF UserRow
<1>5. ASSUME NEW t \in Nat, NEW m \in BOOLEAN
      PROVE  LET w == [u EXCEPT !.role = "ADMIN", !.exempt = FALSE, !.enrolled = TRUE,
                                !.strong = t, !.manages = m, !.booted = TRUE,
                                !.version = n] IN
             w \in UserRow /\ w.enrolled /\ ~w.exempt
  BY <1>1 DEF UserRow
<1> QED
  BY <1>2, <1>3, <1>4, <1>5 DEF n

LEMMA Deploys ==
  ASSUME DeployedSound, NEW n \in Servers, Up(n)
  PROVE  ring[n] \in Deployed /\ ring[n].write \in KeyVersions /\ ring[n].write \in WriteKeys
<1>1. ring[n] \in Deployed
  BY DEF Up, Deployed
<1>2. ring[n].write \in WriteKeys
  BY <1>1 DEF WriteKeys
<1>3. ring[n].keys \subseteq KeyVersions /\ ring[n].write \in ring[n].keys
  BY <1>1 DEF DeployedSound, Configured, Keyring
<1> QED
  BY <1>1, <1>2, <1>3

LEMMA EnrollCreates ==
  ASSUME TypeOK, DeployedSound, RequestsServed, NEW q \in Requests, NEW f \in Factors,
         EnrollFactor(q, f)
  PROVE  \E key \in KeyVersions : Creates(f, key)
<1> DEFINE key == ring[request[q].server].write
<1>1. Serving(request[q]) /\ request[q].server \in Servers
  BY ProgressFields DEF EnrollFactor, At, TypeOK, MfaTypeOK
<1>2. Up(request[q].server)
  BY <1>1 DEF RequestsServed
<1>3. key \in KeyVersions /\ key \in WriteKeys
  BY <1>1, <1>2, Deploys
<1>4. UserKept
  BY UserMoves DEF EnrollFactor, UserKept, TypeOK, MfaTypeOK
<1>5. factor[f] = NoFactor /\ factor' = [factor EXCEPT ![f] = Enrolled(key)]
      /\ proof' = proof
  BY DEF EnrollFactor
<1> HIDE DEF key
<1> QED
  BY <1>3, <1>4, <1>5 DEF Creates

LEMMA ClaimProves ==
  ASSUME TypeOK, NEW q \in Requests, ClaimStep(q)
  PROVE  \E f \in Factors, step \in Nat : Proves(f, step)
<1> DEFINE f == request[q].factor
           step == request[q].step
           seen == request[q].seen
<1>1. f \in Factors /\ step \in Nat /\ seen \in {"PENDING", "ACTIVE"}
  BY ProgressFields DEF ClaimStep, At, TypeOK, MfaTypeOK
<1>2. /\ factor[f].status = seen /\ Unspent(f, step)
      /\ factor' = Activated(f, step, seen) /\ Spend(f, step)
      /\ user' = [user EXCEPT !.strong = now, !.enrolled = TRUE]
  BY DEF ClaimStep
<1>3. user' \in UserRow /\ user'.enrolled /\ (~user.exempt => ~user'.exempt)
  BY <1>2, UserMoves, UserFields DEF TypeOK, MfaTypeOK
<1> HIDE DEF f, step, seen
<1>4. \A g \in Factors : factor[g] \in FactorRow
  BY DEF TypeOK, MfaTypeOK
<1> DEFINE mine == [factor[f] EXCEPT !.status = "ACTIVE", !.last = step]
           gone(g) == [factor[g] EXCEPT !.status = "REVOKED"]
<1>5. /\ mine \in FactorRow /\ mine.status = "ACTIVE" /\ mine.last = step
      /\ mine.key = factor[f].key
  BY <1>1, <1>4, FactorFields
<1>6. \A g \in Factors :
         /\ gone(g) \in FactorRow /\ gone(g).status = "REVOKED"
         /\ gone(g).key = factor[g].key /\ gone(g).last = factor[g].last
  BY <1>4, FactorFields
<1>7. /\ \A g \in Factors \ {f} :
            \/ factor'[g] = factor[g]
            \/ factor[g].status = "ACTIVE" /\ factor'[g] = gone(g)
      /\ factor'[f] = mine
      /\ factor' = [g \in Factors |-> factor'[g]]
  BY <1>1, <1>2 DEF Activated
<1> HIDE DEF mine, gone
<1>8. factor' \in [Factors -> FactorRow]
  BY <1>1, <1>4, <1>5, <1>6, <1>7
<1>9. \A g \in Factors \ {f} :
         /\ factor'[g].key = factor[g].key /\ factor'[g].last = factor[g].last
         /\ \/ factor'[g].status = factor[g].status
            \/ factor[g].status = "ACTIVE" /\ factor'[g].status = "REVOKED"
  BY <1>6, <1>7
<1> QED
  BY <1>1, <1>2, <1>3, <1>5, <1>7, <1>8, <1>9 DEF Proves, Unspent

LEMMA BootstrapProves ==
  ASSUME TypeOK, NEW k \in Configured, NEW f \in Factors, NEW step \in CodeSteps,
         NEW m \in BOOLEAN, ActivateBootstrap(k, f, step, m)
  PROVE  Proves(f, step) /\ step \in Nat
<1>1. step \in Nat
  BY DEF CodeSteps, TypeOK, MfaTypeOK
<1>2. factor[f] \in FactorRow
  BY DEF TypeOK, MfaTypeOK
<1> DEFINE mine == [factor[f] EXCEPT !.status = "ACTIVE", !.last = step]
<1>3. /\ mine \in FactorRow /\ mine.status = "ACTIVE" /\ mine.last = step
      /\ mine.key = factor[f].key
  BY <1>1, <1>2, FactorFields
<1>4. factor' = [factor EXCEPT ![f] = mine]
  BY DEF ActivateBootstrap, TypeOK, MfaTypeOK
<1> HIDE DEF mine
<1>5. factor' \in [Factors -> FactorRow] /\ factor'[f] = mine
      /\ \A g \in Factors \ {f} : factor'[g] = factor[g]
  BY <1>3, <1>4 DEF TypeOK, MfaTypeOK
<1>6. user' \in UserRow /\ user'.enrolled /\ ~user'.exempt
  BY UserMoves DEF ActivateBootstrap, TypeOK, MfaTypeOK
<1>7. factor[f].status = "PENDING" /\ factor[f].last = None /\ Spend(f, step)
  BY DEF ActivateBootstrap, InStatus
<1> QED
  BY <1>1, <1>3, <1>5, <1>6, <1>7 DEF Proves

LEMMA AdminRows ==
  ASSUME TypeOK, DeployedSound, RequestsServed, AdminStep(Configured)
  PROVE  RowsStep
<1>0. user \in UserRow
  BY DEF TypeOK, MfaTypeOK
<1>1. ASSUME UNCHANGED <<user, factor, proof>>
      PROVE  RowsStep
  BY <1>0, <1>1 DEF RowsStep, Rests, UserKept
<1>2. ASSUME NEW s \in Sessions, SignIn(s)
      PROVE  RowsStep
  BY <1>1, <1>2 DEF SignIn
<1>3. CASE PasswordChanged
  BY <1>0, <1>3, UserMoves DEF PasswordChanged, RowsStep, Rests, UserKept
<1>4. CASE Tick \/ \E k \in Configured : CheckBootstrap(k)
  BY <1>1, <1>4 DEF Tick, CheckBootstrap
<1>5. ASSUME NEW q \in Requests, RequestStep(q)
      PROVE  RowsStep
  <2>1. ASSUME NEW f \in Factors, EnrollFactor(q, f)
        PROVE  RowsStep
    BY <2>1, EnrollCreates DEF RowsStep
  <2>2. CASE ClaimStep(q)
    BY <2>2, ClaimProves DEF RowsStep
  <2>3. \/ \E f \in Factors : EnrollFactor(q, f)
        \/ ClaimStep(q)
        \/ UNCHANGED <<user, factor, proof>>
    BY <1>5 DEF RequestStep, StartEnroll, StartAssertion, AuthorizeEnroll,
       AuthorizeAssertion, ProveActor, LookForActive, ReadFactor, Deny
  <2> QED
    BY <1>1, <2>1, <2>2, <2>3
<1>6. ASSUME NEW f \in Factors, PrepareBootstrap(f)
      PROVE  RowsStep
  <2>1. script \in KeyVersions /\ script \in WriteKeys
    BY <1>6 DEF PrepareBootstrap, WriteKeys, TypeOK, MfaTypeOK
  <2>2. CASE factor' = factor
    BY <1>1, <1>6, <2>2 DEF PrepareBootstrap
  <2>3. CASE factor[f] = NoFactor /\ factor' = [factor EXCEPT ![f] = Enrolled(script)]
    BY <1>0, <1>6, <2>1, <2>3 DEF PrepareBootstrap, RowsStep, Creates, UserKept
  <2> QED
    BY <1>6, <2>2, <2>3 DEF PrepareBootstrap
<1>7. ASSUME NEW k \in Configured, NEW f \in Factors, NEW step \in CodeSteps,
             NEW m \in BOOLEAN, ActivateBootstrap(k, f, step, m)
      PROVE  RowsStep
  BY <1>7, BootstrapProves DEF RowsStep
<1> QED
  BY <1>2, <1>3, <1>4, <1>5, <1>6, <1>7 DEF AdminStep

----------------------------------------------------------------------------
(* What such a step preserves *)

RowsTyped ==
    /\ user \in UserRow
    /\ factor \in [Factors -> FactorRow]
    /\ proof \in [latest: [Factors -> Nat \cup {None}], reused: BOOLEAN]
    /\ \A f \in Factors : factor[f].status # "UNUSED" => factor[f].key \in KeyVersions

RowsSound == RowsTyped /\ CodesSound /\ AdminKeepsAFactor

NothingReturns ==
    \A f \in Factors : factor[f].status = "REVOKED" => factor'[f].status = "REVOKED"

\* What is stored afterwards was stored before, or somebody wrote it.
StoresWritten == StoredKeys' \subseteq StoredKeys \cup WriteKeys

RowsKept ==
    RowsSound' /\ NothingReturns /\ StoresWritten /\ (~user.exempt => ~user'.exempt)

LEMMA RestsKeeps ==
  ASSUME RowsSound, Rests
  PROVE  RowsKept
BY DEF RowsKept, RowsSound, Rests, UserKept, RowsTyped, CodesSound, CodesAcceptedOnce,
   AdminKeepsAFactor, InStatus, NothingReturns, StoresWritten, StoredKeys

LEMMA CreatesKeeps ==
  ASSUME RowsSound, NEW f \in Factors, NEW key \in KeyVersions, Creates(f, key)
  PROVE  RowsKept
<1> DEFINE row == Enrolled(key)
<1>1. /\ row \in FactorRow /\ row.status = "PENDING" /\ row.key = key
      /\ row.last = None
  BY EnrolledFields
<1>2. factor[f].status = "UNUSED" /\ factor[f].last = None
  BY NoFactorFields DEF Creates
<1>3. factor' = [factor EXCEPT ![f] = row] /\ proof' = proof /\ UserKept /\ key \in WriteKeys
  BY DEF Creates
<1> HIDE DEF row
<1>4. factor' \in [Factors -> FactorRow] /\ factor'[f] = row
      /\ \A g \in Factors \ {f} : factor'[g] = factor[g]
  BY <1>1, <1>3 DEF RowsSound, RowsTyped
<1>5. RowsTyped'
  BY <1>1, <1>3, <1>4 DEF RowsSound, RowsTyped, UserKept
<1>6. CodesSound'
  BY <1>1, <1>2, <1>3, <1>4 DEF RowsSound, CodesSound, CodesAcceptedOnce
<1>7. AdminKeepsAFactor'
  <2>1. InStatus("ACTIVE") \subseteq InStatus("ACTIVE")'
    BY <1>2, <1>4 DEF InStatus
  <2> QED
    BY <1>3, <2>1 DEF RowsSound, AdminKeepsAFactor, UserKept
<1>8. NothingReturns
  BY <1>2, <1>4 DEF NothingReturns
<1>9. StoresWritten
  <2>1. ASSUME NEW g \in Factors, factor'[g].status # "UNUSED"
        PROVE  factor'[g].key \in StoredKeys \cup WriteKeys
    BY <1>1, <1>3, <1>4, <2>1 DEF StoredKeys
  <2> QED
    BY <2>1 DEF StoresWritten, StoredKeys
<1> QED
  BY <1>3, <1>5, <1>6, <1>7, <1>8, <1>9 DEF RowsKept, RowsSound, UserKept

LEMMA ProvesKeeps ==
  ASSUME RowsSound, NEW f \in Factors, NEW step \in Nat, Proves(f, step)
  PROVE  RowsKept
<1>1. /\ factor' \in [Factors -> FactorRow]
      /\ factor'[f].status = "ACTIVE" /\ factor'[f].last = step
      /\ factor'[f].key = factor[f].key
      /\ factor[f].status \in {"PENDING", "ACTIVE"}
      /\ user' \in UserRow /\ user'.enrolled /\ (~user.exempt => ~user'.exempt)
  BY DEF Proves
<1>2. \A g \in Factors \ {f} :
         /\ factor'[g].key = factor[g].key /\ factor'[g].last = factor[g].last
         /\ \/ factor'[g].status = factor[g].status
            \/ factor[g].status = "ACTIVE" /\ factor'[g].status = "REVOKED"
  BY DEF Proves
<1>3. /\ proof.latest \in [Factors -> Nat \cup {None}] /\ proof.latest[f] = factor[f].last
      /\ ~proof.reused
  BY DEF RowsSound, RowsTyped, CodesSound, CodesAcceptedOnce
<1>4. proof.latest[f] # None => proof.latest[f] \in Nat /\ proof.latest[f] < step
  BY <1>3 DEF Proves
<1>5. /\ proof' = [latest |-> [proof.latest EXCEPT ![f] = step], reused |-> FALSE]
  <2>1. ~(proof.reused \/ (proof.latest[f] # None /\ step <= proof.latest[f]))
    BY <1>3, <1>4
  <2> QED
    BY <2>1 DEF Proves, Spend
<1>6. RowsTyped'
  <2>1. \A g \in Factors : factor'[g].status # "UNUSED" => factor'[g].key \in KeyVersions
    BY <1>1, <1>2 DEF RowsSound, RowsTyped
  <2> QED
    BY <1>1, <1>3, <1>5, <2>1 DEF RowsTyped
<1>7. CodesSound'
  BY <1>1, <1>2, <1>3, <1>5 DEF RowsSound, CodesSound, CodesAcceptedOnce
<1>8. AdminKeepsAFactor'
  <2>1. f \in InStatus("ACTIVE")'
    BY <1>1 DEF InStatus
  <2> QED
    BY <1>1, <2>1 DEF AdminKeepsAFactor
<1>9. NothingReturns
  BY <1>1, <1>2 DEF NothingReturns
<1>10. StoresWritten
  <2>1. ASSUME NEW g \in Factors, factor'[g].status # "UNUSED"
        PROVE  factor'[g].key \in StoredKeys
    <3>1. factor[g].status # "UNUSED" /\ factor'[g].key = factor[g].key
      BY <1>1, <1>2, <2>1
    <3> QED
      BY <3>1 DEF StoredKeys
  <2> QED
    BY <2>1 DEF StoresWritten, StoredKeys
<1> QED
  BY <1>1, <1>6, <1>7, <1>8, <1>9, <1>10 DEF RowsKept, RowsSound

----------------------------------------------------------------------------
(* The invariant *)

LEMMA Parts ==
  ASSUME TypeOK, CodesSound, AdminKeepsAFactor
  PROVE  RowsSound
BY DEF RowsSound, RowsTyped, TypeOK, MfaTypeOK

LEMMA RowsStepKeeps ==
  ASSUME RowsSound, RowsStep
  PROVE  RowsKept
BY RestsKeeps, CreatesKeeps, ProvesKeeps DEF RowsStep

LEMMA InitSound == ReleaseInit => IInv
<1> SUFFICES ASSUME ReleaseInit
             PROVE  IInv
  OBVIOUS
<1>1. TypeOK
  <2>1. user \in UserRow
    BY DEF ReleaseInit, Init, NewUser, UserRow
  <2>2. factor \in [Factors -> FactorRow] /\ \A f \in Factors : factor[f].status = "UNUSED"
    BY NoFactorFields DEF ReleaseInit, Init
  <2>3. Idle \in Progress
    BY ProgressMakes
  <2>4. Down \in Keyring
    BY DEF Down, Keyring
  <2>5. NoGate \in [mode: Modes \cup {"none"}, passed: Nat, env: Keyring]
    BY <2>4 DEF NoGate
  <2> QED
    BY <2>1, <2>2, <2>3, <2>4, <2>5 DEF ReleaseInit, Init, TypeOK, MfaTypeOK
<1>2. Deployed = {} /\ Checked = {}
  BY DEF ReleaseInit, Init, Deployed, Checked, NoGate
<1>3. DeployedSound /\ KeysSound
  BY <1>2 DEF ReleaseInit, NoGate, DeployedSound, KeysSound, KeysShared
<1>4. RequestsServed
  BY ProgressMakes DEF ReleaseInit, Init, RequestsServed
<1>5. CodesSound
  BY NoFactorFields DEF ReleaseInit, Init, CodesSound, CodesAcceptedOnce
<1>6. AdminKeepsAFactor
  BY DEF ReleaseInit, Init, AdminKeepsAFactor, NewUser
<1>7. ReadySound
  BY DEF ReleaseInit, ReadySound, NoGate
<1> QED
  BY <1>1, <1>3, <1>4, <1>5, <1>6, <1>7 DEF IInv

\* What a step may do about keys: store those that somebody writes with, and let an
\* instance start or a live check go on that can read all that is stored.
LEMMA KeysKept ==
  ASSUME IInv, shared' = (shared /\ KeysShared'), StoresWritten,
         \A k \in Deployed' :
            k \in Deployed \/ (k \in Configured /\ StoredKeys' \subseteq k.keys),
         gate'.mode = "live" /\ gate'.passed >= 5 =>
            \/ gate.mode = "live" /\ gate.passed >= 5 /\ gate'.env = gate.env
            \/ StoredKeys' \subseteq gate'.env.keys
  PROVE  DeployedSound' /\ KeysSound' /\ shared' \in BOOLEAN
<1>1. DeployedSound'
  BY DEF IInv, DeployedSound, Configured, Keyring
<1>2. ASSUME shared'
      PROVE  /\ KeysShared'
             /\ \A k \in Deployed' : StoredKeys' \subseteq k.keys
             /\ gate'.mode = "live" /\ gate'.passed >= 5 => StoredKeys' \subseteq gate'.env.keys
  <2>1. shared /\ KeysShared'
    BY <1>2
  <2>2. /\ \A k \in Deployed \cup Checked : WriteKeys \subseteq k.keys
        /\ \A k \in Deployed : StoredKeys \subseteq k.keys
        /\ gate.mode = "live" /\ gate.passed >= 5 => StoredKeys \subseteq gate.env.keys
    BY <2>1 DEF IInv, KeysSound, KeysShared
  <2>3. gate.mode = "live" => WriteKeys \subseteq gate.env.keys
    BY <2>2 DEF Checked
  <2>4. \A k \in Deployed' : StoredKeys' \subseteq k.keys
    BY <2>2 DEF StoresWritten
  <2>5. gate'.mode = "live" /\ gate'.passed >= 5 => StoredKeys' \subseteq gate'.env.keys
    BY <2>2, <2>3 DEF StoresWritten
  <2> QED
    BY <2>1, <2>4, <2>5
<1>3. KeysSound'
  BY <1>2 DEF KeysSound
<1> QED
  BY <1>1, <1>3 DEF IInv, TypeOK

\* What an administrator's step leaves alone, and what it does to the rest.
LEMMA AdminFrame ==
  ASSUME AdminStep(Configured)
  PROVE  /\ ring' = ring
         /\ script' \in {None, script} \/ \E k \in Configured : script' = k.write
         /\ now' \in {now, now + 1}
         /\ \/ cookie' = cookie
            \/ \E s \in Sessions : cookie' = [cookie EXCEPT ![s] = user.version]
         /\ request' = request \/ \E q \in Requests : RequestStep(q)
<1>1. ASSUME NEW q \in Requests, RequestStep(q)
      PROVE  UNCHANGED <<ring, script, now, cookie>>
  BY <1>1 DEF RequestStep, StartEnroll, StartAssertion, AuthorizeEnroll,
     AuthorizeAssertion, ProveActor, LookForActive, EnrollFactor, ReadFactor,
     ClaimStep, Deny
<1> QED
  BY <1>1 DEF AdminStep, SignIn, PasswordChanged, Tick, CheckBootstrap,
     PrepareBootstrap, ActivateBootstrap

LEMMA AdminStepKeeps ==
  ASSUME IInv, AdminStep(Configured), UNCHANGED releaseVars,
         shared' = (shared /\ KeysShared')
  PROVE  IInv'
<1>1. RowsKept /\ ring' = ring /\ boot' = boot /\ gate' = gate
  BY AdminFrame, AdminRows, Parts, RowsStepKeeps DEF IInv, releaseVars
<1>2. \/ request' = request
      \/ \E q \in Requests, to \in Progress : Moves(q, to)
  BY AdminFrame, RequestMoves DEF IInv
<1>3. request' \in [Requests -> Progress] /\ RequestsServed'
  <2>1. CASE request' = request
    BY <1>1, <2>1 DEF IInv, TypeOK, MfaTypeOK, RequestsServed, Up
  <2>2. ASSUME NEW q \in Requests, NEW to \in Progress, Moves(q, to)
        PROVE  request' \in [Requests -> Progress] /\ RequestsServed'
    <3>1. /\ request' = [request EXCEPT ![q] = to] /\ request \in [Requests -> Progress]
          /\ Serving(to) => Up(to.server)
      BY <2>2 DEF Moves, IInv, TypeOK, MfaTypeOK
    <3>2. \A r \in Requests :
             request'[r] = IF r = q THEN to ELSE request[r]
      BY <3>1
    <3> QED
      BY <1>1, <3>1, <3>2 DEF IInv, RequestsServed, Up
  <2> QED
    BY <1>2, <2>1, <2>2
<1>4. now' \in Nat /\ cookie' \in [Sessions -> Nat \cup {None}]
  <2>1. now \in Nat /\ cookie \in [Sessions -> Nat \cup {None}] /\ user.version \in Nat
    BY UserFields DEF IInv, TypeOK, MfaTypeOK
  <2> QED
    BY <2>1, AdminFrame
<1>5. script' \in KeyVersions \cup {None}
  BY AdminFrame DEF IInv, TypeOK, MfaTypeOK, Configured, Keyring
<1>6. DeployedSound' /\ KeysSound' /\ shared' \in BOOLEAN
  <2>1. Deployed' = Deployed
    BY <1>1 DEF Deployed
  <2>2. StoresWritten
    BY <1>1 DEF RowsKept
  <2> QED
    BY <1>1, <2>1, <2>2, KeysKept
<1>7. TypeOK'
  BY <1>1, <1>3, <1>4, <1>5, <1>6
  DEF IInv, TypeOK, MfaTypeOK, RowsKept, RowsSound, RowsTyped
<1>8. ReadySound'
  BY <1>1 DEF IInv, ReadySound, RowsKept
<1> QED
  BY <1>1, <1>3, <1>6, <1>7, <1>8 DEF IInv, RowsKept, RowsSound

\* The live check looks at the administrators fourth and the keys last, of five.
LEMMA LiveOrder ==
  /\ Checks("live")[4] = "admins" /\ Checks("live")[5] = "keys"
  /\ Len(Checks("live")) = 5
BY DEF Checks, LiveChecks

\* A step that leaves the rows alone leaves alone what speaks of rows only.
LEMMA RowsAlone ==
  ASSUME IInv, UNCHANGED <<user, factor, proof>>
  PROVE  CodesSound' /\ AdminKeepsAFactor' /\ StoresWritten
BY DEF IInv, CodesSound, CodesAcceptedOnce, AdminKeepsAFactor, InStatus, StoresWritten,
   StoredKeys

\* What the gate may do.
GateMoves ==
  \/ \E mode \in Startable : \E env \in Environments(mode) : StartGate(mode, env)
  \/ PassCheck \/ FailCheck

LEMMA GateKeeps ==
  ASSUME IInv, GateMoves, shared' = (shared /\ KeysShared')
  PROVE  IInv'
<1>0. UNCHANGED <<vars, boot>>
  BY DEF GateMoves, StartGate, PassCheck, FailCheck
<1>1. \/ /\ gate' \in [mode: Modes \cup {"none"}, passed: Nat, env: Keyring]
         /\ gate'.passed = 0
      \/ PassCheck
  <2>1. Down \in Keyring
    BY DEF Down, Keyring
  <2>2. \A mode \in Startable : mode \in Modes /\ Environments(mode) \subseteq Keyring
    BY <2>1 DEF Startable, Environments, Configured
  <2> QED
    BY <2>1, <2>2 DEF GateMoves, StartGate, FailCheck, NoGate
<1>2. /\ gate' \in [mode: Modes \cup {"none"}, passed: Nat, env: Keyring]
      /\ ReadySound'
      /\ gate'.mode = "live" /\ gate'.passed >= 5 =>
            \/ gate.mode = "live" /\ gate.passed >= 5 /\ gate'.env = gate.env
            \/ StoredKeys \subseteq gate'.env.keys
  <2>1. CASE /\ gate' \in [mode: Modes \cup {"none"}, passed: Nat, env: Keyring]
             /\ gate'.passed = 0
    BY <2>1 DEF ReadySound
  <2>2. CASE PassCheck
    <3> DEFINE n == gate.passed + 1
    <3>1. n \in Nat /\ gate.passed \in Nat
          /\ gate \in [mode: Modes \cup {"none"}, passed: Nat, env: Keyring]
      BY DEF IInv, TypeOK
    <3>2. Holds(Checks(gate.mode)[n])
      BY <2>2 DEF PassCheck
    <3>3. gate' = [gate EXCEPT !.passed = n]
      BY <2>2 DEF PassCheck
    <3>4. gate.mode = "live" /\ n = 4 => ~user.exempt
      BY <3>2, LiveOrder DEF Holds, AdminsReady
    <3>5. gate.mode = "live" /\ n = 5 => StoredKeys \subseteq gate.env.keys
      BY <3>2, LiveOrder DEF Holds, KeysReady
    <3> HIDE DEF n
    <3>6. /\ gate' \in [mode: Modes \cup {"none"}, passed: Nat, env: Keyring]
          /\ gate'.mode = gate.mode /\ gate'.passed = n /\ gate'.env = gate.env
      BY <3>1, <3>3
    <3>7. user' = user /\ (gate.mode = "live" /\ n > 4 => ~user.exempt)
      BY <1>0, <3>1 DEF n, IInv, ReadySound, vars
    <3>8. n >= 5 => n = 5 \/ gate.passed >= 5
      BY <3>1 DEF n
    <3> QED
      BY <3>1, <3>4, <3>5, <3>6, <3>7, <3>8 DEF IInv, ReadySound
  <2> QED
    BY <1>1, <2>1, <2>2
<1>3. /\ RequestsServed' /\ CodesSound' /\ AdminKeepsAFactor' /\ StoresWritten
      /\ Deployed' = Deployed /\ StoredKeys' = StoredKeys
  BY <1>0, RowsAlone DEF IInv, Up, RequestsServed, Deployed, StoredKeys, vars
<1>4. DeployedSound' /\ KeysSound' /\ shared' \in BOOLEAN
  BY <1>2, <1>3, KeysKept
<1>5. TypeOK'
  BY <1>0, <1>2, <1>4 DEF IInv, TypeOK, MfaTypeOK, vars
<1> QED
  BY <1>2, <1>3, <1>4, <1>5 DEF IInv

\* Starts and stops leave alone whatever does not mention instances.
LEMMA RingKeeps ==
  ASSUME IInv, UNCHANGED <<user, factor, now, cookie, script, proof, gate>>,
         shared' = (shared /\ KeysShared'),
         ring' \in [Servers -> Keyring], boot' \in [Servers -> Keyring],
         request' \in [Requests -> Progress], RequestsServed',
         \A k \in Deployed' :
            k \in Deployed \/ (k \in Configured /\ StoredKeys \subseteq k.keys)
  PROVE  IInv'
<1>1. CodesSound' /\ AdminKeepsAFactor' /\ StoresWritten /\ StoredKeys' = StoredKeys
  BY RowsAlone DEF StoredKeys
<1>2. DeployedSound' /\ KeysSound' /\ shared' \in BOOLEAN
  BY <1>1, KeysKept
<1>3. TypeOK' /\ ReadySound'
  BY <1>2 DEF IInv, TypeOK, MfaTypeOK, ReadySound
<1> QED
  BY <1>1, <1>2, <1>3 DEF IInv

LEMMA ServersKeep ==
  ASSUME IInv, NEW n \in Servers,
         (\E k \in Configured : PassStartup(n, k)) \/ BeginServing(n) \/ StopServer(n),
         shared' = (shared /\ KeysShared')
  PROVE  IInv'
<1>0. /\ ring \in [Servers -> Keyring] /\ boot \in [Servers -> Keyring]
      /\ request \in [Requests -> Progress]
      /\ Idle \in Progress /\ ~Serving(Idle) /\ Down \in Keyring
  BY ProgressMakes DEF IInv, TypeOK, MfaTypeOK, Keyring, Down
<1>1. ASSUME NEW k \in Configured, PassStartup(n, k)
      PROVE  IInv'
  <2>1. /\ k \in Keyring /\ StoredKeys \subseteq k.keys
        /\ boot' = [boot EXCEPT ![n] = k]
        /\ UNCHANGED <<user, factor, now, cookie, script, proof, gate, ring, request>>
    BY <1>1 DEF PassStartup, StartupGate, KeysReady, Configured, vars
  <2>2. /\ boot' \in [Servers -> Keyring]
        /\ \A m \in Servers : boot'[m] \in {boot[m], k}
    BY <1>0, <2>1
  <2>3. Deployed' \subseteq Deployed \cup {k}
    BY <2>1, <2>2 DEF Deployed
  <2>4. RequestsServed'
    BY <2>1 DEF IInv, RequestsServed, Up
  <2> QED
    BY <1>0, <2>1, <2>2, <2>3, <2>4, RingKeeps
<1>2. CASE BeginServing(n)
  <2>1. /\ boot[n] # Down
        /\ ring' = [ring EXCEPT ![n] = boot[n]] /\ boot' = [boot EXCEPT ![n] = Down]
        /\ UNCHANGED <<user, factor, now, cookie, script, proof, gate, request>>
    BY <1>2 DEF BeginServing, mfaVars
  <2>2. /\ ring' \in [Servers -> Keyring] /\ boot' \in [Servers -> Keyring]
        /\ \A m \in Servers : /\ ring'[m] \in {ring[m], boot[m]}
                              /\ boot'[m] \in {boot[m], Down}
                              /\ ring[m] # Down => ring'[m] # Down
    BY <1>0, <2>1
  <2>3. Deployed' \subseteq Deployed
    BY <2>2 DEF Deployed
  <2>4. RequestsServed'
    <3>1. \A q \in Requests : Serving(request[q]) => request[q].server \in Servers
      BY <1>0, ProgressFields
    <3> QED
      BY <2>1, <2>2, <3>1 DEF IInv, RequestsServed, Up
  <2> QED
    BY <1>0, <2>1, <2>2, <2>3, <2>4, RingKeeps
<1>3. CASE StopServer(n)
  <2>1. /\ ring' = [ring EXCEPT ![n] = Down] /\ boot' = [boot EXCEPT ![n] = Down]
        /\ request' = [q \in Requests |->
               IF Serving(request[q]) /\ request[q].server = n
               THEN Idle ELSE request[q]]
        /\ UNCHANGED <<user, factor, now, cookie, script, proof, gate>>
    BY <1>3 DEF StopServer, Serving
  <2>2. /\ ring' \in [Servers -> Keyring] /\ boot' \in [Servers -> Keyring]
        /\ \A m \in Servers : /\ ring'[m] \in {ring[m], Down}
                              /\ boot'[m] \in {boot[m], Down}
                              /\ m # n => ring'[m] = ring[m]
    BY <1>0, <2>1
  <2>3. /\ request' \in [Requests -> Progress]
        /\ \A q \in Requests :
              \/ request'[q] = Idle
              \/ request'[q] = request[q] /\ (Serving(request[q]) => request[q].server # n)
    BY <1>0, <2>1
  <2>4. Deployed' \subseteq Deployed
    BY <2>2 DEF Deployed
  <2>5. RequestsServed'
    <3>1. ASSUME NEW q \in Requests, Serving(request[q])'
          PROVE  Up(request[q].server)'
      <4>1. /\ request'[q] = request[q] /\ request[q].server # n
            /\ Serving(request[q]) /\ request[q].server \in Servers
        BY <1>0, <2>3, <3>1, ProgressFields DEF Serving
      <4> QED
        BY <2>2, <3>1, <4>1 DEF IInv, RequestsServed, Up
    <3> QED
      BY <3>1 DEF RequestsServed
  <2> QED
    BY <2>1, <2>2, <2>3, <2>4, <2>5, RingKeeps
<1> QED
  BY <1>1, <1>2, <1>3

LEMMA NextSound ==
  ASSUME IInv, [Next]_allVars
  PROVE  IInv'
<1>1. CASE UNCHANGED allVars
  <2> USE <1>1 DEF allVars
  <2>1. TypeOK' /\ RequestsServed' /\ CodesSound' /\ AdminKeepsAFactor' /\ ReadySound'
    BY DEF IInv, TypeOK, MfaTypeOK, RequestsServed, Up, CodesSound, CodesAcceptedOnce,
       AdminKeepsAFactor, InStatus, ReadySound
  <2>2. DeployedSound' /\ KeysSound'
    BY DEF IInv, DeployedSound, KeysSound, KeysShared, Deployed, Checked, WriteKeys,
       StoredKeys
  <2> QED
    BY <2>1, <2>2 DEF IInv
<1>2. CASE Next
  BY <1>2, AdminStepKeeps, GateKeeps, ServersKeep DEF Next, ReleaseStep, GateMoves
<1> QED
  BY <1>1, <1>2

----------------------------------------------------------------------------
(* The theorems *)

THEOREM Invariance == Spec => []IInv
BY InitSound, NextSound, PTL DEF Spec

\* Every variable keeps the type it is written with.
THEOREM TypeCorrect == Spec => []TypeOK
<1>1. IInv => TypeOK
  BY DEF IInv
<1> QED
  BY <1>1, Invariance, PTL

\* A TOTP code proves its holder once, through HTTP or the bootstrap, whatever
\* interleaves (ClaimStep, ActivateBootstrap).
THEOREM CodesProveOnce == Spec => []CodesAcceptedOnce
<1>1. IInv => CodesAcceptedOnce
  BY DEF IInv, CodesSound
<1> QED
  BY <1>1, Invariance, PTL

\* An administrator who is not exempted always has a factor in force, so that
\* the database's deferred trigger never fires (Activated, EnrollFactor).
THEOREM AdminsStayProtected == Spec => []AdminKeepsAFactor
<1>1. IInv => AdminKeepsAFactor
  BY DEF IInv
<1> QED
  BY <1>1, Invariance, PTL

\* While the keyrings in use overlap, every instance can read every stored factor, and
\* so can the environment that a live check passed, for any number of instances,
\* keys and rollouts, whatever is stored between a gate and what it lets through
\* (validateStoredAdminMfaKeyVersions, runAdminMfaStartupReadiness).
THEOREM FactorsStayReadable == Spec => []ReadableFactors
<1>1. IInv => ReadableFactors
  <2>1. \A n \in Servers : Up(n) => ring[n] \in Deployed
    BY DEF Up, Deployed
  <2> QED
    BY <2>1, LiveOrder DEF IInv, KeysSound, ReadableFactors, Passed
<1> QED
  BY <1>1, Invariance, PTL

\* A live check that passed is not undone by what administrators do after it
\* looked at them (validateAdminMfaReleaseReadiness).
THEOREM ReleasesStayReady == Spec => []ReadinessStaysTrue
<1>1. IInv => ReadinessStaysTrue
  BY LiveOrder DEF IInv, ReadySound, ReadinessStaysTrue, Passed, AdminKeepsAFactor
<1> QED
  BY <1>1, Invariance, PTL

\* A revoked factor stays revoked: a claim is made only on the status that was
\* read (ClaimStep).
THEOREM RevocationIsFinal == Spec => RevokedStaysRevoked
<1>1. ASSUME IInv, [Next]_allVars
      PROVE  [NothingReturns]_vars
  <2>1. CASE AdminStep(Configured)
    <3>1. RowsKept
      BY <1>1, <2>1, AdminRows, Parts, RowsStepKeeps DEF IInv
    <3> QED
      BY <3>1 DEF RowsKept
  <2>2. CASE factor' = factor
    BY <2>2 DEF NothingReturns
  <2>3. AdminStep(Configured) \/ factor' = factor
    BY <1>1 DEF Next, ReleaseStep, allVars, vars, mfaVars, StartGate, PassCheck, FailCheck,
       PassStartup, BeginServing, StopServer
  <2> QED
    BY <2>1, <2>2, <2>3
<1>2. [NothingReturns]_vars <=>
      [\A f \in Factors : factor[f].status = "REVOKED" => factor'[f].status = "REVOKED"]_vars
  BY DEF NothingReturns
<1> QED
  BY <1>1, <1>2, Invariance, PTL DEF Spec, RevokedStaysRevoked

============================================================================
