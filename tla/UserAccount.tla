---------------------------- MODULE UserAccount ----------------------------
(***************************************************************************)
(* One user's row and what guards it: emailed verification codes, password *)
(* sign-in, JWT sessions and their revalidation, password reset and        *)
(* change, and the deletion of the account.                                *)
(*                                                                         *)
(* Requests interleave between their database calls.  A statement that     *)
(* carries its condition in its WHERE clause is one step; so is the rest   *)
(* of a transaction once it holds the user's row lock.  A code or a link   *)
(* that outlives its time is marked by an event, never rewritten.  Rate    *)
(* limiters stand in front of every operation: a denied request changes    *)
(* nothing here (RateLimit models the buckets).  bcrypt and HMAC compare   *)
(* equal exactly on equal inputs.                                          *)
(***************************************************************************)
EXTENDS Integers, FiniteSets

CONSTANTS
  Codes,        \* six-digit codes
  Links,        \* password reset tokens, each drawn at most once
  Passwords,    \* passwords
  Sessions,     \* browsers, each with one session cookie
  Requests,     \* requests being served
  None,         \* SQL NULL, no value
  MaxAttempts,  \* wrong codes that spend a code (5)
  MaxVersion,   \* bound on sessionVersion
  MaxLost       \* bound on requests that die half-way

ASSUME ConstantsOK ==
  /\ None \notin Codes \cup Links \cup Passwords \cup Nat
  /\ MaxAttempts \in Nat \ {0}
  /\ MaxVersion \in Nat
  /\ MaxLost \in Nat
  /\ IsFiniteSet(Requests)

VARIABLES
  user,     \* the users row
  code,     \* its verification_tokens row
  link,     \* password_reset_tokens rows
  cookie,   \* the JWT each browser holds
  request,  \* what each request remembers between its database calls
  lost,     \* requests that died half-way (history, bounded)
  guesses   \* wrong codes compared with the present code (history)

vars == <<user, code, link, cookie, request, lost, guesses>>

Statuses == {"INACTIVE", "ACTIVE", "GONE"}

NoCode == [value |-> None, age |-> "new", attempts |-> 0]

NoCookie == [version |-> None, by |-> "nobody", secret |-> None]

Resting == [pc |-> "idle", saw |-> None, secret |-> None, version |-> 0]

\* A registered user, not yet verified.
NewUser ==
  [status |-> "INACTIVE", verified |-> FALSE, hash |-> None, legacy |-> FALSE,
   version |-> 0, pinned |-> TRUE]

\* One that predates registration by invite: the migration made every user ACTIVE,
\* verified or not, copied the legacy password to the hash and left it set.
LegacyUser(p, v) ==
  [status |-> "ACTIVE", verified |-> v, hash |-> p, legacy |-> TRUE,
   version |-> 0, pinned |-> FALSE]

\* bootstrapCreateActiveUser on an empty development database: only new hashes.
\* Run again over a user it has created, it would replace the hash and keep the
\* sessionVersion; it is disabled in production, and its rerun is not modelled.
SeededUser(p) ==
  [status |-> "ACTIVE", verified |-> TRUE, hash |-> p, legacy |-> FALSE,
   version |-> 0, pinned |-> FALSE]

Init ==
  /\ \/ user = NewUser
     \/ \E p \in Passwords : user = SeededUser(p)
     \/ \E p \in Passwords, v \in BOOLEAN : user = LegacyUser(p, v)
  /\ code = NoCode
  /\ link = [t \in Links |-> "UNUSED"]
  /\ cookie = [s \in Sessions |-> NoCookie]
  /\ request = [q \in Requests |-> Resting]
  /\ lost = 0
  /\ guesses = 0

----------------------------------------------------------------------------
(* Helpers *)

At(q, pc) == request[q].pc = pc

Go(q, pc) == request' = [request EXCEPT ![q].pc = pc]

Finish(q) == request' = [request EXCEPT ![q] = Resting]

Exists == user.status # "GONE"

CanBump == user.version < MaxVersion

\* The jwt and session callbacks: a session counts while its user is ACTIVE
\* and still has the sessionVersion it was issued for.
LiveSession(s) ==
  user.status = "ACTIVE" /\ cookie[s].version = user.version

\* Mutant: the new password leaves the sessions alone.
WithPassword_SameVersion(p) == [user EXCEPT !.hash = p]

\* The update of a reset or a change: the new hash, and every session out.
WithPassword(p) == [user EXCEPT !.hash = p, !.version = @ + 1]

\* createVerificationToken: one row per email, replaced with its counter.
Fresh(c) == [value |-> c, age |-> "new", attempts |-> 0]

----------------------------------------------------------------------------
(* Verification codes *)

\* The outbox worker's delivery of an EMAIL_VERIFICATION row, and its retries.
MailCode(c) ==
  /\ Exists
  /\ code' = Fresh(c)
  /\ guesses' = 0
  /\ UNCHANGED <<user, link, cookie, request, lost>>

\* resendVerificationToken's reads: the user, then the last code's cooldown.
ResendCheck(q) ==
  /\ At(q, "idle")
  /\ Exists /\ ~user.verified
  /\ code.value = None \/ code.age # "new"
  /\ Go(q, "resend")
  /\ UNCHANGED <<user, code, link, cookie, lost, guesses>>

\* ... and its upsert, which fails when another email holds the same code:
\* the token column is unique over all emails.
ResendIssue(q, c) ==
  /\ At(q, "resend")
  /\ \/ code' = Fresh(c) /\ guesses' = 0
     \/ UNCHANGED <<code, guesses>>
  /\ Finish(q)
  /\ UNCHANGED <<user, link, cookie, lost>>

\* The code's cooldown ends, then the code does (2 and 10 minutes).
CodeAges ==
  /\ code.value # None
  /\ \E a \in {<<"new", "cooled">>, <<"cooled", "expired">>} :
       code.age = a[1] /\ code' = [code EXCEPT !.age = a[2]]
  /\ UNCHANGED <<user, link, cookie, request, lost, guesses>>

\* consumeVerificationToken's reads in its transaction: the code must be the
\* present one, unexpired, and its user INACTIVE and unverified.
VerifyMatch(q, c, p) ==
  /\ At(q, "idle")
  /\ code.value = c /\ code.age # "expired"
  /\ user.status = "INACTIVE" /\ ~user.verified
  /\ request' = [request EXCEPT ![q].pc = "activate", ![q].saw = c,
                                ![q].secret = p]
  /\ UNCHANGED <<user, code, link, cookie, lost, guesses>>

\* ... a code that is not the present one goes on to be counted.
VerifyMiss(q, c) ==
  /\ At(q, "idle")
  /\ code.value # c
  /\ guesses' = IF code.value # None /\ code.age # "expired"
                THEN guesses + 1 ELSE guesses
  /\ Go(q, "miss")
  /\ UNCHANGED <<user, code, link, cookie, lost>>

\* Mutant: losing the code on the way does not roll the activation back.
VerifyActivate_NoRollback(q) ==
  /\ At(q, "activate")
  /\ CanBump
  /\ IF user.status = "INACTIVE" /\ ~user.verified
     THEN /\ user' = [user EXCEPT !.status = "ACTIVE", !.verified = TRUE,
                                  !.hash = request[q].secret, !.legacy = FALSE,
                                  !.version = @ + 1]
          /\ IF code.value = request[q].saw
             THEN code' = NoCode /\ guesses' = 0
             ELSE UNCHANGED <<code, guesses>>
          /\ request' = [request EXCEPT ![q].pc = "verified", ![q].saw = None]
     ELSE Finish(q) /\ UNCHANGED <<user, code, guesses>>
  /\ UNCHANGED <<link, cookie, lost>>

\* ... its writes: activate the user while it is INACTIVE and unverified, then
\* delete the code that was matched; without it everything rolls back.
VerifyActivate(q) ==
  /\ At(q, "activate")
  /\ CanBump
  /\ IF /\ user.status = "INACTIVE" /\ ~user.verified
        /\ code.value = request[q].saw
     THEN /\ user' = [user EXCEPT !.status = "ACTIVE", !.verified = TRUE,
                                  !.hash = request[q].secret, !.legacy = FALSE,
                                  !.version = @ + 1]
          /\ code' = NoCode
          /\ guesses' = 0
          /\ request' = [request EXCEPT ![q].pc = "verified", ![q].saw = None]
     ELSE Finish(q) /\ UNCHANGED <<user, code, guesses>>
  /\ UNCHANGED <<link, cookie, lost>>

\* The verify route reads the user again and issues a session for the version
\* it finds now.
VerifySession(q, s) ==
  /\ At(q, "verified")
  /\ cookie' = IF user.status = "ACTIVE"
               THEN [cookie EXCEPT ![s] = [version |-> user.version,
                       by |-> "verify", secret |-> request[q].secret]]
               ELSE cookie
  /\ Finish(q)
  /\ UNCHANGED <<user, code, link, lost, guesses>>

\* A miss, outside the transaction: read the active code, ...
MissRead(q) ==
  /\ At(q, "miss")
  /\ IF code.value # None /\ code.age # "expired"
     THEN request' = [request EXCEPT ![q].pc = "count", ![q].saw = code.value]
     ELSE Finish(q)
  /\ UNCHANGED <<user, code, link, cookie, lost, guesses>>

\* Mutant: the counter counts down.
MissCount_Down(q) ==
  /\ At(q, "count")
  /\ IF code.value = request[q].saw
     THEN /\ code' = [code EXCEPT !.attempts = @ - 1]
          /\ request' = [request EXCEPT ![q] = Resting]
     ELSE Finish(q) /\ UNCHANGED code
  /\ UNCHANGED <<user, link, cookie, lost, guesses>>

\* ... count the attempt on it (the update throws when it was replaced), ...
MissCount(q) ==
  /\ At(q, "count")
  /\ IF code.value = request[q].saw
     THEN /\ code' = [code EXCEPT !.attempts = @ + 1]
          /\ request' = [request EXCEPT ![q] = IF code.attempts + 1 >= MaxAttempts
                THEN [Resting EXCEPT !.pc = "purge"] ELSE Resting]
     ELSE Finish(q) /\ UNCHANGED code
  /\ UNCHANGED <<user, link, cookie, lost, guesses>>

\* Mutant: a spent code is left in place.
MissPurge_Kept(q) ==
  /\ At(q, "purge")
  /\ Finish(q)
  /\ UNCHANGED <<user, code, link, cookie, lost, guesses>>

\* ... and delete the email's code, whichever it is by now, once spent.
MissPurge(q) ==
  /\ At(q, "purge")
  /\ code' = NoCode
  /\ guesses' = 0
  /\ Finish(q)
  /\ UNCHANGED <<user, link, cookie, lost>>

----------------------------------------------------------------------------
(* Password sign-in *)

\* authorize: one read of the row decides and supplies the session's version.
Authorize(q, p) ==
  /\ At(q, "idle")
  /\ user.status = "ACTIVE" /\ user.verified /\ user.hash = p
  /\ request' = [request EXCEPT ![q].pc = "authorized", ![q].secret = p,
                                ![q].version = user.version]
  /\ UNCHANGED <<user, code, link, cookie, lost, guesses>>

\* Mutant: the jwt callback takes the version it reads instead of comparing.
IssueJwt_Adopts(q, s) ==
  /\ At(q, "authorized")
  /\ cookie' = IF user.status = "ACTIVE"
               THEN [cookie EXCEPT ![s] = [version |-> user.version,
                       by |-> "signin", secret |-> request[q].secret]]
               ELSE [cookie EXCEPT ![s] = NoCookie]
  /\ Finish(q)
  /\ UNCHANGED <<user, code, link, lost, guesses>>

\* The jwt callback at sign-in reads the row again: a version that moved on
\* since authorize leaves a rejected token in the browser.
IssueJwt(q, s) ==
  /\ At(q, "authorized")
  /\ cookie' = IF user.status = "ACTIVE" /\ user.version = request[q].version
               THEN [cookie EXCEPT ![s] = [version |-> request[q].version,
                       by |-> "signin", secret |-> request[q].secret]]
               ELSE [cookie EXCEPT ![s] = NoCookie]
  /\ Finish(q)
  /\ UNCHANGED <<user, code, link, lost, guesses>>

----------------------------------------------------------------------------
(* Password reset *)

\* requestPasswordReset: only a user with a legacy password gets a link.
RequestReset(q) ==
  /\ At(q, "idle")
  /\ Exists /\ user.legacy
  /\ Go(q, "clear")
  /\ UNCHANGED <<user, code, link, cookie, lost, guesses>>

\* createPasswordResetToken, first statement: delete the email's links.
ClearLinks(q) ==
  /\ At(q, "clear")
  /\ link' = [t \in Links |-> IF link[t] = "UNUSED" THEN "UNUSED" ELSE "DELETED"]
  /\ Go(q, "create")
  /\ UNCHANGED <<user, code, cookie, lost, guesses>>

\* ... and second: create one.  A failing mail leaves it in place.
CreateLink(q, t) ==
  /\ At(q, "create")
  /\ link[t] = "UNUSED"
  /\ link' = [link EXCEPT ![t] = "LIVE"]
  /\ Finish(q)
  /\ UNCHANGED <<user, code, cookie, lost, guesses>>

LinkExpires(t) ==
  /\ link[t] = "LIVE"
  /\ link' = [link EXCEPT ![t] = "EXPIRED"]
  /\ UNCHANGED <<user, code, cookie, request, lost, guesses>>

\* resetPassword, and consumePasswordResetToken's reads of link and user.
ReadLink(q, t, p) ==
  /\ At(q, "idle")
  /\ link[t] = "LIVE" /\ Exists
  /\ request' = [request EXCEPT ![q].pc = "reset", ![q].saw = t,
                                ![q].secret = p]
  /\ UNCHANGED <<user, code, link, cookie, lost, guesses>>

\* Mutant: only the link that was used is deleted.
ResetPassword_OneLink(q) ==
  /\ At(q, "reset")
  /\ CanBump
  /\ IF Exists
     THEN /\ user' = WithPassword(request[q].secret)
          /\ link' = [link EXCEPT ![request[q].saw] = "DELETED"]
     ELSE UNCHANGED <<user, link>>
  /\ Finish(q)
  /\ UNCHANGED <<code, cookie, lost, guesses>>

\* ... and its transaction, which asks nothing of the link again.
ResetPassword(q) ==
  /\ At(q, "reset")
  /\ CanBump
  /\ IF Exists
     THEN /\ user' = WithPassword(request[q].secret)
          /\ link' = [t \in Links |->
                        IF link[t] = "UNUSED" THEN "UNUSED" ELSE "DELETED"]
     ELSE UNCHANGED <<user, link>>
  /\ Finish(q)
  /\ UNCHANGED <<code, cookie, lost, guesses>>

----------------------------------------------------------------------------
(* Account settings: each begins with the session callback's verdict *)

SettingsSteps == {"change", "profile", "delete"}

StartSettings(q, s, pc) ==
  /\ At(q, "idle")
  /\ LiveSession(s)
  /\ Go(q, pc)
  /\ UNCHANGED <<user, code, link, cookie, lost, guesses>>

\* changePassword compares the present password with the row it reads ...
ComparePassword(q, old, new) ==
  /\ At(q, "change")
  /\ IF Exists /\ user.hash = old
     THEN request' = [request EXCEPT ![q].pc = "rewrite", ![q].secret = new]
     ELSE Finish(q)
  /\ UNCHANGED <<user, code, link, cookie, lost, guesses>>

\* ... and then writes, on no condition.
ChangePassword(q) ==
  /\ At(q, "rewrite")
  /\ CanBump
  /\ user' = IF Exists THEN WithPassword(request[q].secret) ELSE user
  /\ Finish(q)
  /\ UNCHANGED <<code, link, cookie, lost, guesses>>

\* updateProfile: one transaction on the name and the profile, which nothing
\* here reads; it fails when the user is gone.
UpdateProfile(q) ==
  /\ At(q, "profile")
  /\ Finish(q)
  /\ UNCHANGED <<user, code, link, cookie, lost, guesses>>

\* completeOnboarding: the same rows, by way of the onboarding form.
CompleteOnboarding(q) ==
  /\ At(q, "profile")
  /\ Finish(q)
  /\ UNCHANGED <<user, code, link, cookie, lost, guesses>>

\* deleteAccount: the row goes, and its profile with it, unless an invite (ON
\* DELETE RESTRICT) or an audit event (immutable) still names the user.
DeleteAccount(q) ==
  /\ At(q, "delete")
  /\ user' = IF Exists /\ ~user.pinned
             THEN [user EXCEPT !.status = "GONE"] ELSE user
  /\ Finish(q)
  /\ UNCHANGED <<code, link, cookie, lost, guesses>>

\* The process dies, or a statement fails: nothing more of the request runs.
Die(q) ==
  /\ ~At(q, "idle")
  /\ lost < MaxLost
  /\ lost' = lost + 1
  /\ Finish(q)
  /\ UNCHANGED <<user, code, link, cookie, guesses>>

----------------------------------------------------------------------------
(* Specification *)

VerifyStep(q) ==
  \/ ResendCheck(q)
  \/ \E c \in Codes : ResendIssue(q, c) \/ VerifyMiss(q, c)
  \/ \E c \in Codes, p \in Passwords : VerifyMatch(q, c, p)
  \/ VerifyActivate(q)
  \/ \E s \in Sessions : VerifySession(q, s)
  \/ MissRead(q) \/ MissCount(q) \/ MissPurge(q)

PasswordStep(q) ==
  \/ \E p \in Passwords : Authorize(q, p)
  \/ \E s \in Sessions : IssueJwt(q, s)
  \/ RequestReset(q) \/ ClearLinks(q)
  \/ \E t \in Links : CreateLink(q, t)
  \/ \E t \in Links, p \in Passwords : ReadLink(q, t, p)
  \/ ResetPassword(q)

SettingsStep(q) ==
  \/ \E s \in Sessions, pc \in SettingsSteps : StartSettings(q, s, pc)
  \/ \E old, new \in Passwords : ComparePassword(q, old, new)
  \/ ChangePassword(q) \/ UpdateProfile(q) \/ CompleteOnboarding(q)
  \/ DeleteAccount(q)

Next ==
  \/ \E c \in Codes : MailCode(c)
  \/ CodeAges
  \/ \E t \in Links : LinkExpires(t)
  \/ \E q \in Requests :
       VerifyStep(q) \/ PasswordStep(q) \/ SettingsStep(q) \/ Die(q)

Spec == Init /\ [][Next]_vars

----------------------------------------------------------------------------
(* Properties *)

Ages == {"new", "cooled", "expired"}

Steps == {"idle", "resend", "activate", "verified", "miss", "count", "purge",
          "authorized", "clear", "create", "reset", "rewrite"} \cup SettingsSteps

UserRow == [status : Statuses, verified : BOOLEAN, hash : Passwords \cup {None},
            legacy : BOOLEAN, version : Nat, pinned : BOOLEAN]

CodeRow == [value : Codes \cup {None}, age : Ages, attempts : Nat]

Jwt == [version : Nat \cup {None}, by : {"nobody", "verify", "signin"},
        secret : Passwords \cup {None}]

Memory == [pc : Steps, saw : Codes \cup Links \cup {None},
           secret : Passwords \cup {None}, version : Nat]

\* Every row and every request holds values of its columns.
TypeOK ==
  /\ user \in UserRow
  /\ code \in CodeRow
  /\ link \in [Links -> {"UNUSED", "LIVE", "EXPIRED", "DELETED"}]
  /\ cookie \in [Sessions -> Jwt]
  /\ request \in [Requests -> Memory]
  /\ lost \in Nat
  /\ guesses \in Nat

\* A session that came from password sign-in and still counts was opened with
\* the password the user has now: authorize and the jwt callback read the row
\* twice, and a change in between must not be signed in over.
SignInProvesPassword ==
  \A s \in Sessions :
    LiveSession(s) /\ cookie[s].by = "signin" => cookie[s].secret = user.hash

\* Whatever replaces the password (activation, reset or change) leaves no
\* session of before it alive.
PasswordChangeEndsSessions ==
  [][user'.hash # user.hash => \A s \in Sessions : ~LiveSession(s)']_vars

\* A user is activated only together with the deletion of the code that was
\* matched, however a resend or a spent counter moves under the transaction.
ActivationSpendsItsCode ==
  [][~user.verified /\ user'.verified =>
       /\ code'.value = None
       /\ \E q \in Requests : At(q, "activate") /\ request[q].saw = code.value]_vars

\* docs/SECURITY.md:39: "Maximum five failed attempts per active token."  The
\* code breaks it: the comparison, the count and the deletion of a spent code are
\* statements of their own, so wrong codes that come in together are all compared.
FailedAttemptsLimited == guesses <= MaxAttempts

\* What is left of that promise: a code is compared with fewer wrong ones than it
\* may be, one more for each request that runs beside, and for each that died
\* before it counted.
GuessesBounded ==
  guesses <= MaxAttempts - 1 + Cardinality(Requests) + lost

\* A reset leaves no other link alive, of those a race has left beside it.
ResetEndsEveryLink ==
  [][\A q \in Requests :
       At(q, "reset") /\ user'.version # user.version =>
         \/ request'[q] = request[q]
         \/ \A t \in Links : link'[t] # "LIVE"]_vars

============================================================================
