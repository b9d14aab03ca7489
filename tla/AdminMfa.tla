------------------------------- MODULE AdminMfa -------------------------------
(* One administrator's TOTP factors and elevation: enrolment, verification and *)
(* refresh over HTTP, and the bootstrap script that promotes the user.         *)
(* Requests interleave between their database statements; a transaction's      *)
(* conditional update and what follows it under the row's lock are one step.   *)
(* Time is counted in TOTP steps.  The user is ACTIVE throughout: nothing in   *)
(* the code suspends an administrator.                                         *)
EXTENDS Integers, FiniteSets

CONSTANTS
  None,
  Factors,      \* ids of admin_mfa_factors rows, each created at most once
  KeyVersions,  \* versions of the secret-encryption keyring
  Servers,      \* running instances of the application
  Sessions,     \* browsers of the administrator
  Requests,     \* HTTP requests in progress
  MaxAge,       \* ADMIN_ELEVATION_MAX_AGE_SECONDS, in TOTP steps
  MaxVersion,   \* bound on sessionVersion
  MaxTime       \* bound on the clock

ASSUME AdminMfaAssumption ==
    /\ None \notin Factors \cup KeyVersions \cup Nat
    /\ MaxAge \in Nat /\ MaxVersion \in Nat /\ MaxTime \in Nat

VARIABLES
  user,     \* the users row, with its capability grant and legacy exemption
  factor,   \* [factor -> its admin_mfa_factors row]
  now,      \* the present TOTP step
  cookie,   \* [session -> the sessionVersion in its JWT]
  request,  \* [request -> what it remembers between its statements]
  script,   \* the key version the bootstrap script has encrypted with, or None
  ring,     \* [server -> the keyring it was started with]
  proof     \* the latest step each factor was proved with, and whether one was
            \* taken that was not later (history)

mfaVars == <<user, factor, now, cookie, request, script, proof>>
vars == <<user, factor, now, cookie, request, script, ring, proof>>

NoFactor == [status |-> "UNUSED", key |-> None, last |-> None]
Down == [keys |-> {}, write |-> None]
Idle == [at |-> "idle"]

\* A user to be promoted, or an administrator of before MFA, exempted by the
\* migration that made MFA mandatory.
NewUser(admin) ==
    [role |-> IF admin THEN "ADMIN" ELSE "USER", exempt |-> admin, version |-> 0,
     strong |-> None, enrolled |-> FALSE, manages |-> FALSE, booted |-> FALSE]

Init ==
    /\ \E admin \in BOOLEAN : user = NewUser(admin)
    /\ factor = [f \in Factors |-> NoFactor]
    /\ now = 0
    /\ cookie = [s \in Sessions |-> None]
    /\ request = [q \in Requests |-> Idle]
    /\ script = None
    /\ ring = [n \in Servers |-> Down]
    /\ proof = [latest |-> [f \in Factors |-> None], reused |-> FALSE]

-------------------------------------------------------------------------------
(* Rows, keys and codes *)

InStatus(st) == {f \in Factors : factor[f].status = st}

At(q, place) == request[q].at = place
Go(q, r) == request' = [request EXCEPT ![q] = r]

CanBump == user.version < MaxVersion

Up(n) == ring[n] # Down

\* keyForVersion: a version the server's keyring lacks fails closed.
CanRead(n, key) == key \in ring[n].keys

\* matchingTotpStep: a code stands for the step it was derived from (hotp), and those
\* of one step before or after the present one match.
CodeSteps == {s \in 0..now + 1 : s >= now - 1}

\* evaluateAdminElevation, for the capability to manage factors; its two callers
\* differ in what they audit.
Elevated(version) ==
    /\ user.role = "ADMIN" /\ user.version = version
    /\ user.manages
    /\ InStatus("ACTIVE") # {}
    /\ user.strong # None /\ now - user.strong \in 0..MaxAge

\* Mutant: a later code is not asked for.
Unspent_Any(f, step) == TRUE

\* The claim's condition on lastUsedStep.
Unspent(f, step) == factor[f].last # None => factor[f].last < step

Spend(f, step) ==
    proof' = [latest |-> [proof.latest EXCEPT ![f] = step],
              reused |-> \/ proof.reused
                         \/ proof.latest[f] # None /\ step <= proof.latest[f]]

Enrolled(key) == [status |-> "PENDING", key |-> key, last |-> None]

-------------------------------------------------------------------------------
(* Sign-in, the password and time *)

\* The session callback and the HTTP handlers accept only the user's version.
SignIn(s) ==
    /\ cookie' = [cookie EXCEPT ![s] = user.version]
    /\ UNCHANGED <<user, factor, now, request, script, ring, proof>>

\* A password change or reset ends the sessions and the elevation.
PasswordChanged ==
    /\ CanBump
    /\ user' = [user EXCEPT !.version = @ + 1, !.strong = None]
    /\ UNCHANGED <<factor, now, cookie, request, script, ring, proof>>

Tick ==
    /\ now < MaxTime
    /\ now' = now + 1
    /\ UNCHANGED <<user, factor, cookie, request, script, ring, proof>>

-------------------------------------------------------------------------------
(* HTTP handlers *)

\* getServerSession: the session is checked as the request comes in.
StartEnroll(q, s, n) ==
    /\ At(q, "idle") /\ Up(n)
    /\ cookie[s] = user.version
    /\ Go(q, [at |-> "enroll", version |-> cookie[s], server |-> n])
    /\ UNCHANGED <<user, factor, now, cookie, script, ring, proof>>

StartAssertion(q, s, n, f, op) ==
    /\ At(q, "idle") /\ Up(n)
    /\ cookie[s] = user.version
    /\ Go(q, [at |-> op, version |-> cookie[s], server |-> n, factor |-> f])
    /\ UNCHANGED <<user, factor, now, cookie, script, ring, proof>>

\* The user's row after CSRF and the limiters: the session must still be of
\* its version, or of the one before when it verifies the replacement that
\* moved the version on.
CurrentActor(q) ==
    /\ user.role = "ADMIN"
    /\ \/ user.version = request[q].version
       \/ /\ At(q, "verify")
          /\ user.version = request[q].version + 1
          /\ factor[request[q].factor].status = "PENDING"

AuthorizeEnroll(q) ==
    /\ At(q, "enroll") /\ CurrentActor(q)
    /\ Go(q, [request[q] EXCEPT !.at = "prove"])
    /\ UNCHANGED <<user, factor, now, cookie, script, ring, proof>>

AuthorizeAssertion(q) ==
    /\ request[q].at \in {"verify", "refresh"} /\ CurrentActor(q)
    /\ Go(q, [request[q] EXCEPT !.at = "assert"])
    /\ UNCHANGED <<user, factor, now, cookie, script, ring, proof>>

\* Enrolment's transaction: whoever has an ACTIVE factor must be elevated; for
\* the first factor the present password proves the actor.
ProveActor(q) ==
    /\ At(q, "prove")
    /\ InStatus("ACTIVE") # {} => Elevated(request[q].version)
    /\ Go(q, [request[q] EXCEPT !.at = "look"])
    /\ UNCHANGED <<user, factor, now, cookie, script, ring, proof>>

\* enrollAdminMfaFactor looks for the ACTIVE factor again, without a lock: one that
\* is activated from here on is not seen ...
LookForActive(q) ==
    /\ At(q, "look")
    /\ Go(q, [at |-> "create", server |-> request[q].server,
              active |-> InStatus("ACTIVE") # {}])
    /\ UNCHANGED <<user, factor, now, cookie, script, ring, proof>>

\* Mutant: the factor in force is revoked as soon as its replacement starts.
EnrollFactor_Revokes(q, f) ==
    /\ At(q, "create") /\ CanBump
    /\ InStatus("PENDING") = {}
    /\ factor[f] = NoFactor
    /\ factor' = [g \in Factors |->
          IF g = f THEN Enrolled(ring[request[q].server].write)
          ELSE IF factor[g].status = "ACTIVE" THEN [factor[g] EXCEPT !.status = "REVOKED"]
          ELSE factor[g]]
    /\ user' = IF request[q].active
               THEN [user EXCEPT !.strong = None, !.version = @ + 1]
               ELSE user
    /\ Go(q, Idle)
    /\ UNCHANGED <<now, cookie, script, ring, proof>>

\* Mutant: the row does not say which key its secret is encrypted with.
EnrollFactor_NoKey(q, f) ==
    /\ At(q, "create") /\ CanBump
    /\ InStatus("PENDING") = {}
    /\ factor[f] = NoFactor
    /\ factor' = [factor EXCEPT ![f] = Enrolled(None)]
    /\ user' = user
    /\ Go(q, Idle)
    /\ UNCHANGED <<now, cookie, script, ring, proof>>

\* ... and stores the new one: replacing one that was seen ends the sessions and the
\* elevation, and the factor itself stays in force.  A second PENDING factor
\* fails on its unique index and undoes the rest.
EnrollFactor(q, f) ==
    /\ At(q, "create") /\ CanBump
    /\ InStatus("PENDING") = {}
    /\ factor[f] = NoFactor
    /\ factor' = [factor EXCEPT ![f] = Enrolled(ring[request[q].server].write)]
    /\ user' = IF request[q].active
               THEN [user EXCEPT !.strong = None, !.version = @ + 1]
               ELSE user
    /\ Go(q, Idle)
    /\ UNCHANGED <<now, cookie, script, ring, proof>>

\* verifyAdminMfaFactor's read: the factor must not be revoked, its secret
\* readable, and the code of a step around now.
ReadFactor(q, step) ==
    /\ At(q, "assert")
    /\ LET f == request[q].factor
       IN /\ factor[f].status \in {"PENDING", "ACTIVE"}
          /\ CanRead(request[q].server, factor[f].key)
          /\ step \in CodeSteps
          /\ Go(q, [at |-> "claim", factor |-> f, seen |-> factor[f].status,
                    step |-> step])
    /\ UNCHANGED <<user, factor, now, cookie, script, ring, proof>>

\* What a PENDING factor's first proof leaves of the others.
Activated(f, step, seen) ==
    [g \in Factors |->
       IF g = f THEN [factor[f] EXCEPT !.status = "ACTIVE", !.last = step]
       ELSE IF seen = "PENDING" /\ factor[g].status = "ACTIVE"
            THEN [factor[g] EXCEPT !.status = "REVOKED"]
       ELSE factor[g]]

\* Mutant: the claim asks only for the step, not for the status that was read.
ClaimStep_AnyStatus(q) ==
    /\ At(q, "claim")
    /\ LET f == request[q].factor step == request[q].step
       IN /\ Unspent(f, step)
          /\ factor' = Activated(f, step, request[q].seen)
          /\ Spend(f, step)
    /\ user' = [user EXCEPT !.strong = now, !.enrolled = TRUE]
    /\ Go(q, Idle)
    /\ UNCHANGED <<now, cookie, script, ring>>

\* ... and its writes: the step is claimed while the factor has the status that
\* was read, a replacement revokes what it replaces, and the user is elevated.
ClaimStep(q) ==
    /\ At(q, "claim")
    /\ LET f == request[q].factor step == request[q].step
       IN /\ factor[f].status = request[q].seen /\ Unspent(f, step)
          /\ factor' = Activated(f, step, request[q].seen)
          /\ Spend(f, step)
    /\ user' = [user EXCEPT !.strong = now, !.enrolled = TRUE]
    /\ Go(q, Idle)
    /\ UNCHANGED <<now, cookie, script, ring>>

\* A refusal at any point: CSRF, a limiter, an unmet condition, a failed
\* statement or the end of its server.  Its transaction leaves nothing.
Deny(q) ==
    /\ ~At(q, "idle")
    /\ Go(q, Idle)
    /\ UNCHANGED <<user, factor, now, cookie, script, ring, proof>>

-------------------------------------------------------------------------------
(* The bootstrap script, run with the operator's keyring k *)

\* prepare's read: nobody bootstrapped, and nobody with a factor; the secret is
\* encrypted next, outside of any transaction.
CheckBootstrap(k) ==
    /\ script = None /\ k.write \in k.keys
    /\ ~user.booted /\ InStatus("ACTIVE") \cup InStatus("PENDING") = {}
    /\ script' = k.write
    /\ UNCHANGED <<user, factor, now, cookie, request, ring, proof>>

\* ... and its transaction, which fails on a second PENDING factor.
PrepareBootstrap(f) ==
    /\ script # None
    /\ script' = None
    /\ IF InStatus("PENDING") = {}
       THEN factor[f] = NoFactor /\ factor' = [factor EXCEPT ![f] = Enrolled(script)]
       ELSE UNCHANGED factor
    /\ UNCHANGED <<user, now, cookie, request, ring, proof>>

\* activate is serializable and holds the user's row: whichever PENDING factor
\* there is proves the identity, and everything else follows from it.
ActivateBootstrap(k, f, step, manages) ==
    /\ ~user.booted /\ CanBump
    /\ InStatus("PENDING") = {f} /\ factor[f].last = None
    /\ factor[f].key \in k.keys
    /\ step \in CodeSteps
    /\ factor' = [factor EXCEPT ![f].status = "ACTIVE", ![f].last = step]
    /\ Spend(f, step)
    /\ user' = [user EXCEPT !.role = "ADMIN", !.exempt = FALSE, !.enrolled = TRUE,
                            !.strong = now, !.manages = manages, !.booted = TRUE,
                            !.version = @ + 1]
    /\ UNCHANGED <<now, cookie, request, script, ring>>

-------------------------------------------------------------------------------

RequestStep(q) ==
    \/ \E s \in Sessions, n \in Servers : StartEnroll(q, s, n)
    \/ \E s \in Sessions, n \in Servers, f \in Factors, op \in {"verify", "refresh"} :
          StartAssertion(q, s, n, f, op)
    \/ AuthorizeEnroll(q) \/ AuthorizeAssertion(q)
    \/ ProveActor(q) \/ LookForActive(q)
    \/ \E f \in Factors : EnrollFactor(q, f)
    \/ \E step \in CodeSteps : ReadFactor(q, step)
    \/ ClaimStep(q)
    \/ Deny(q)

\* The keyrings an operator may run the script with are a parameter.
AdminStep(keyrings) ==
    \/ \E s \in Sessions : SignIn(s)
    \/ PasswordChanged \/ Tick
    \/ \E q \in Requests : RequestStep(q)
    \/ \E k \in keyrings : CheckBootstrap(k)
    \/ \E f \in Factors : PrepareBootstrap(f)
    \/ \E k \in keyrings, f \in Factors, step \in CodeSteps, m \in BOOLEAN :
          ActivateBootstrap(k, f, step, m)

-------------------------------------------------------------------------------
(* Properties *)

Statuses == {"UNUSED", "PENDING", "ACTIVE", "REVOKED"}
UserRow == [role: {"USER", "ADMIN"}, exempt: BOOLEAN, version: Nat,
            strong: Nat \cup {None}, enrolled: BOOLEAN, manages: BOOLEAN,
            booted: BOOLEAN]
FactorRow == [status: Statuses, key: KeyVersions \cup {None}, last: Nat \cup {None}]
Keyring == [keys: SUBSET KeyVersions, write: KeyVersions \cup {None}]
Progress ==
    {Idle}
    \cup [at: {"enroll", "prove", "look"}, version: Nat, server: Servers]
    \cup [at: {"create"}, server: Servers, active: BOOLEAN]
    \cup [at: {"verify", "refresh", "assert"}, version: Nat, server: Servers,
          factor: Factors]
    \cup [at: {"claim"}, factor: Factors, seen: {"PENDING", "ACTIVE"}, step: Nat]

MfaTypeOK ==
    /\ user \in UserRow
    /\ factor \in [Factors -> FactorRow]
    /\ now \in Nat
    /\ cookie \in [Sessions -> Nat \cup {None}]
    /\ request \in [Requests -> Progress]
    /\ script \in KeyVersions \cup {None}
    /\ ring \in [Servers -> Keyring]
    /\ proof \in [latest: [Factors -> Nat \cup {None}], reused: BOOLEAN]
    /\ \A f \in Factors : factor[f].status # "UNUSED" => factor[f].key \in KeyVersions

\* A one-time code proves its holder once: neither two assertions at the same
\* time, nor an assertion beside the bootstrap, nor a clock that has not moved
\* on lets it be taken again.
CodesAcceptedOnce == ~proof.reused

\* An administrator who is not exempted has an ACTIVE factor, through every
\* replacement and whatever fails half-way: the database's deferred trigger
\* (chk_admin_mfa_capability) never has to undo a transaction of the code.
AdminKeepsAFactor ==
    user.role = "ADMIN" /\ ~user.exempt =>
        user.enrolled /\ InStatus("ACTIVE") # {}

\* A factor once revoked never comes back, though an assertion may have read
\* it before its replacement was verified.
RevokedStaysRevoked ==
    [][\A f \in Factors : factor[f].status = "REVOKED" =>
          factor'[f].status = "REVOKED"]_vars

===============================================================================
