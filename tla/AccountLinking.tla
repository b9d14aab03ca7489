--------------------------- MODULE AccountLinking ---------------------------
(***************************************************************************)
(* Linking a Google or GitHub account to a signed-in user, signing in      *)
(* through a linked account, and disconnecting one.                        *)
(*                                                                         *)
(* One user's rows are kept.  Other users matter only through the unique   *)
(* key (provider, provider subject): whether one of them holds a subject   *)
(* is chosen freely where the code asks.  The user is ACTIVE throughout:   *)
(* nothing suspends a user, and one with an intent has an audit event that *)
(* keeps it from being deleted.  Requests interleave between their         *)
(* database calls and the calls to the provider; the sessions are JWTs     *)
(* that count while their sessionVersion is the user's.  UserAccount       *)
(* models how a password is changed and a password session opened; here    *)
(* each is one step.  CSRF, origin, rate limits and a provider without     *)
(* configuration deny a request before it changes anything, and a denial   *)
(* only adds an audit event.                                               *)
(***************************************************************************)
EXTENDS Naturals, FiniteSets

CONSTANTS
  Providers,   \* "google" and "github"
  Subjects,    \* provider subjects
  Intents,     \* link intents, each named by its state nonce
  Sessions,    \* browsers, each with one session cookie
  Requests,    \* requests being served
  None,        \* no value
  MaxVersion   \* bound on sessionVersion

ASSUME ConstantsOK ==
  /\ None \notin Providers \cup Subjects \cup Intents
  /\ MaxVersion \in Nat

VARIABLES
  user,      \* the users row: sessionVersion, passwordHash, legacy password
  accounts,  \* the user's accounts rows, <<provider, subject>>
  intent,    \* account_link_intents rows
  cookie,    \* the JWT each browser holds
  request    \* what each request remembers between its steps

vars == <<user, accounts, intent, cookie, request>>

NoIntent ==
  [status |-> "ABSENT", expired |-> FALSE, provider |-> None, version |-> 0]

NoCookie == [version |-> None, by |-> "nobody"]

Resting ==
  [pc |-> "idle", browser |-> None, jwt |-> NoCookie, provider |-> None,
   intent |-> None, subject |-> None, older |-> {}]

Init ==
  /\ \/ /\ \E l \in BOOLEAN : user = [version |-> 0, hash |-> TRUE, legacy |-> l]
        /\ accounts = {}
     \/ /\ user = [version |-> 0, hash |-> FALSE, legacy |-> FALSE]
        /\ \E x \in Providers \X Subjects : accounts = {x}
  /\ intent = [i \in Intents |-> NoIntent]
  /\ cookie = [s \in Sessions |-> NoCookie]
  /\ request = [q \in Requests |-> Resting]

----------------------------------------------------------------------------
(* Helpers *)

At(q, pc) == request[q].pc = pc

Go(q, pc) == request' = [request EXCEPT ![q].pc = pc]

Finish(q) == request' = [request EXCEPT ![q] = Resting]

GoIf(q, ok, pc) == IF ok THEN Go(q, pc) ELSE Finish(q)

CanBump == user.version < MaxVersion

\* The jwt callback: the session has the user's present sessionVersion.
LiveSession(s) == cookie[s].version = user.version

Connected(p) == \E x \in accounts : x[1] = p

Open(i) == intent[i].status = "OPEN" /\ ~intent[i].expired

\* recent: a password session proves the password again, a social one was
\* opened within the last five minutes.
Recent(jwt, proved) ==
  jwt.by = "social" \/ (jwt.by = "password" /\ proved /\ user.hash)

----------------------------------------------------------------------------
(* Signing in, and what else moves the user's row *)

PasswordSignIn(s) ==
  /\ user.hash
  /\ cookie' = [cookie EXCEPT ![s] = [version |-> user.version,
                                           by |-> "password"]]
  /\ UNCHANGED <<user, accounts, intent, request>>

\* allowSocialSignIn: the subject is linked to this user.
SocialGate(q, p, x) ==
  /\ At(q, "idle")
  /\ <<p, x>> \in accounts
  /\ request' = [request EXCEPT ![q].pc = "gated", ![q].provider = p,
                                ![q].subject = x]
  /\ UNCHANGED <<user, accounts, intent, cookie>>

\* Mutant: the adapter links the subject when it finds no account for it.
SocialSignIn_Links(q, s) ==
  LET x == <<request[q].provider, request[q].subject>> IN
  /\ At(q, "gated")
  /\ accounts' = accounts \cup {x}
  /\ cookie' = [cookie EXCEPT ![s] = [version |-> user.version, by |-> "social"]]
  /\ Finish(q)
  /\ UNCHANGED <<user, intent>>

\* The adapter then looks the account up again; when it is gone, creating a
\* user or linking one throws.
SocialSignIn(q, s) ==
  LET x == <<request[q].provider, request[q].subject>> IN
  /\ At(q, "gated")
  /\ cookie' = IF x \in accounts
               THEN [cookie EXCEPT ![s] = [version |-> user.version, by |-> "social"]]
               ELSE cookie
  /\ Finish(q)
  /\ UNCHANGED <<user, accounts, intent>>

\* A social session's lastAuthAt is no longer within LINK_REAUTH_FRESHNESS_MS.
SignInAges(s) ==
  /\ cookie[s].by = "social"
  /\ cookie' = [cookie EXCEPT ![s].by = "aged"]
  /\ UNCHANGED <<user, accounts, intent, request>>

\* changePassword and consumePasswordResetToken, as this module sees them.
PasswordChanged ==
  /\ user.hash /\ CanBump
  /\ user' = [user EXCEPT !.version = @ + 1]
  /\ UNCHANGED <<accounts, intent, cookie, request>>

----------------------------------------------------------------------------
(* Starting a link *)

\* startLink: the session's facts are read once and carried along.
StartLink(q, s, p) ==
  /\ At(q, "idle")
  /\ LiveSession(s)
  /\ request' = [request EXCEPT ![q].pc = "start", ![q].jwt = cookie[s],
                                ![q].provider = p]
  /\ UNCHANGED <<user, accounts, intent, cookie>>

\* createAccountLinkIntent: the user is unchanged since, and has
\* re-authenticated, ...
CheckUser(q, proved) ==
  /\ At(q, "start")
  /\ GoIf(q, /\ user.version = request[q].jwt.version
              /\ Recent(request[q].jwt, proved), "unlinked")
  /\ UNCHANGED <<user, accounts, intent, cookie>>

\* ... has no account of this provider yet, ...
CheckUnlinked(q) ==
  /\ At(q, "unlinked")
  /\ GoIf(q, ~Connected(request[q].provider), "create")
  /\ UNCHANGED <<user, accounts, intent, cookie>>

\* ... and consumes the open intents of its provider: in one transaction, though the
\* first statement finds only those that were there before it, ...
RevokeIntents(q) ==
  /\ At(q, "create")
  /\ request' = [request EXCEPT ![q].pc = "insert",
       ![q].older = {j \in Intents : /\ intent[j].provider = request[q].provider
                                     /\ intent[j].status = "OPEN"}]
  /\ UNCHANGED <<user, accounts, intent, cookie>>

\* ... and the second creates the new one: two links of one provider started
\* together leave two open intents.
CreateIntent(q, i) ==
  /\ At(q, "insert")
  /\ intent[i].status = "ABSENT"
  /\ intent' = [j \in Intents |->
       IF j = i THEN [status |-> "OPEN", expired |-> FALSE,
                      provider |-> request[q].provider,
                      version |-> request[q].jwt.version]
       ELSE IF j \in request[q].older THEN [intent[j] EXCEPT !.status = "CONSUMED"]
       ELSE intent[j]]
  /\ request' = [request EXCEPT ![q].pc = "url", ![q].intent = i, ![q].older = {}]
  /\ UNCHANGED <<user, accounts, cookie>>

\* startAccountLinkFlow answers with the provider's URL; when none can be
\* built, revokeFailedIntent consumes the intent again.
BuildUrl(q, ok) ==
  /\ At(q, "url")
  /\ intent' = IF ok \/ intent[request[q].intent].status # "OPEN" THEN intent
               ELSE [intent EXCEPT ![request[q].intent].status = "CONSUMED"]
  /\ Finish(q)
  /\ UNCHANGED <<user, accounts, cookie>>

IntentExpires(i) ==
  /\ Open(i)
  /\ intent' = [intent EXCEPT ![i].expired = TRUE]
  /\ UNCHANGED <<user, accounts, cookie, request>>

----------------------------------------------------------------------------
(* The provider's callback *)

\* handleLinkCallback: a live session; its successor is planned from it.
StartCallback(q, s, i) ==
  /\ At(q, "idle")
  /\ LiveSession(s)
  /\ intent[i].status # "ABSENT"
  /\ request' = [request EXCEPT ![q].pc = "read", ![q].browser = s,
                                ![q].jwt = cookie[s], ![q].intent = i]
  /\ UNCHANGED <<user, accounts, intent, cookie>>

\* completeAccountLink reads the intent with its user: open, and
\* of the session's version and the user's.
ReadIntent(q) ==
  LET i == request[q].intent IN
  /\ At(q, "read")
  /\ IF /\ Open(i)
        /\ intent[i].version = request[q].jwt.version
        /\ intent[i].version = user.version
     THEN request' = [request EXCEPT ![q].pc = "claim",
                                     ![q].provider = intent[i].provider]
     ELSE Finish(q)
  /\ UNCHANGED <<user, accounts, intent, cookie>>

\* Mutant: the claim does not ask for an unconsumed intent.
ClaimIntent_Again(q) ==
  LET i == request[q].intent IN
  /\ At(q, "claim")
  /\ GoIf(q, ~intent[i].expired, "exchange")
  /\ intent' = IF ~intent[i].expired
               THEN [intent EXCEPT ![i].status = "CONSUMED"] ELSE intent
  /\ UNCHANGED <<user, accounts, cookie>>

\* ... claims it in one conditional update, ...
ClaimIntent(q) ==
  LET i == request[q].intent IN
  /\ At(q, "claim")
  /\ GoIf(q, Open(i), "exchange")
  /\ intent' = IF Open(i) THEN [intent EXCEPT ![i].status = "CONSUMED"] ELSE intent
  /\ UNCHANGED <<user, accounts, cookie>>

\* Mutant: a provider's error is taken for a subject.
ExchangeCode_Unchecked(q, x) ==
  /\ At(q, "exchange")
  /\ request' = [request EXCEPT ![q].pc = "collide", ![q].subject = x]
  /\ UNCHANGED <<user, accounts, intent, cookie>>

\* ... asks the provider for the subject, which may answer an error, ...
ExchangeCode(q, x) ==
  /\ At(q, "exchange")
  /\ IF x = None THEN Finish(q)
     ELSE request' = [request EXCEPT ![q].pc = "collide", ![q].subject = x]
  /\ UNCHANGED <<user, accounts, intent, cookie>>

\* ... looks for an account of that subject, this user's or another's, ...
CheckCollision(q, held) ==
  /\ At(q, "collide")
  /\ GoIf(q, ~held /\ <<request[q].provider, request[q].subject>> \notin accounts,
           "link")
  /\ UNCHANGED <<user, accounts, intent, cookie>>

\* Mutant: the transaction does not ask for the intent's sessionVersion.
CommitLink_AnyVersion(q, held) ==
  LET x == <<request[q].provider, request[q].subject>> IN
  /\ At(q, "link")
  /\ CanBump
  /\ IF x \notin accounts /\ ~held
     THEN /\ accounts' = accounts \cup {x}
          /\ user' = [user EXCEPT !.version = @ + 1]
          /\ Go(q, "answer")
     ELSE Finish(q) /\ UNCHANGED <<user, accounts>>
  /\ UNCHANGED <<intent, cookie>>

\* ... and commits: the account under its unique key, and the user's next
\* sessionVersion on condition of the intent's; either failing undoes both.
CommitLink(q, held) ==
  LET x == <<request[q].provider, request[q].subject>> IN
  /\ At(q, "link")
  /\ CanBump
  /\ IF /\ x \notin accounts /\ ~held
        /\ user.version = intent[request[q].intent].version
     THEN /\ accounts' = accounts \cup {x}
          /\ user' = [user EXCEPT !.version = @ + 1]
          /\ Go(q, "answer")
     ELSE Finish(q) /\ UNCHANGED <<user, accounts>>
  /\ UNCHANGED <<intent, cookie>>

\* planLinkSessionRotation: the successor of the session that linked.
Rotated(jwt) == [jwt EXCEPT !.version = @ + 1]

\* Mutant: the planned cookie is set whatever became of the link.
AnswerCallback_Always(q) ==
  /\ \E pc \in {"read", "claim", "exchange", "collide", "link", "answer"} : At(q, pc)
  /\ cookie' = [cookie EXCEPT ![request[q].browser] = Rotated(request[q].jwt)]
  /\ Finish(q)
  /\ UNCHANGED <<user, accounts, intent>>

\* The answer sets the planned cookie after a link only, and may be lost.
AnswerCallback(q) ==
  /\ At(q, "answer")
  /\ \/ cookie' = [cookie EXCEPT ![request[q].browser] = Rotated(request[q].jwt)]
     \/ UNCHANGED cookie
  /\ Finish(q)
  /\ UNCHANGED <<user, accounts, intent>>

----------------------------------------------------------------------------
(* Disconnecting *)

StartDisconnect(q, s, p) ==
  /\ At(q, "idle")
  /\ LiveSession(s)
  /\ request' = [request EXCEPT ![q].pc = "guard", ![q].provider = p]
  /\ UNCHANGED <<user, accounts, intent, cookie>>

\* disconnectProvider's lockout guard: another provider, or the legacy
\* password column (not the hash that sign-in uses) ...
GuardLockout(q) ==
  /\ At(q, "guard")
  /\ GoIf(q, \/ user.legacy
              \/ \E p \in Providers \ {request[q].provider} : Connected(p), "delete")
  /\ UNCHANGED <<user, accounts, intent, cookie>>

\* ... and the deletion, which does not ask again.
DeleteProvider(q) ==
  /\ At(q, "delete")
  /\ accounts' = {x \in accounts : x[1] # request[q].provider}
  /\ Finish(q)
  /\ UNCHANGED <<user, intent, cookie>>

\* The process dies, or a statement fails: nothing more of the request runs.
Die(q) ==
  /\ ~At(q, "idle")
  /\ Finish(q)
  /\ UNCHANGED <<user, accounts, intent, cookie>>

----------------------------------------------------------------------------
(* Specification *)

SessionStep(s) == PasswordSignIn(s) \/ SignInAges(s)

StartStep(q) ==
  \/ \E s \in Sessions, p \in Providers :
       StartLink(q, s, p) \/ StartDisconnect(q, s, p)
  \/ \E s \in Sessions, i \in Intents : StartCallback(q, s, i)
  \/ \E p \in Providers, x \in Subjects : SocialGate(q, p, x)

RequestStep(q) ==
  \/ \E s \in Sessions : SocialSignIn(q, s)
  \/ \E b \in BOOLEAN :
       \/ CheckUser(q, b) \/ BuildUrl(q, b)
       \/ CheckCollision(q, b) \/ CommitLink(q, b)
  \/ CheckUnlinked(q) \/ RevokeIntents(q)
  \/ \E i \in Intents : CreateIntent(q, i)
  \/ ReadIntent(q) \/ ClaimIntent(q)
  \/ \E x \in Subjects \cup {None} : ExchangeCode(q, x)
  \/ AnswerCallback(q)
  \/ GuardLockout(q) \/ DeleteProvider(q)
  \/ Die(q)

Next ==
  \/ \E s \in Sessions : SessionStep(s)
  \/ PasswordChanged
  \/ \E i \in Intents : IntentExpires(i)
  \/ \E q \in Requests : StartStep(q) \/ RequestStep(q)

Spec == Init /\ [][Next]_vars

----------------------------------------------------------------------------
(* Properties *)

Steps == {"idle", "gated", "start", "unlinked", "create", "insert", "url", "read",
          "claim", "exchange", "collide", "link", "answer", "guard", "delete"}

UserRow == [version : Nat, hash : BOOLEAN, legacy : BOOLEAN]

IntentRow == [status : {"ABSENT", "OPEN", "CONSUMED"}, expired : BOOLEAN,
              provider : Providers \cup {None}, version : Nat]

Jwt == [version : Nat \cup {None}, by : {"nobody", "password", "social", "aged"}]

Memory == [pc : Steps, browser : Sessions \cup {None}, jwt : Jwt,
           provider : Providers \cup {None}, intent : Intents \cup {None},
           subject : Subjects \cup {None}, older : SUBSET Intents]

\* Every row and every request holds values of its columns.
TypeOK ==
  /\ user \in UserRow
  /\ accounts \subseteq Providers \X Subjects
  /\ intent \in [Intents -> IntentRow]
  /\ cookie \in [Sessions -> Jwt]
  /\ request \in [Requests -> Memory]

\* The user never has two accounts of one provider, although no key forbids
\* it and two links of one provider may be started side by side: completing
\* the first moves the sessionVersion the second was started under.
OneAccountPerProvider ==
  \A x, y \in accounts : x[1] = y[1] => x = y

\* An intent is carried past its claim by one request only, however often the
\* provider's redirect is replayed.
Claimed(q) ==
  \E pc \in {"exchange", "collide", "link", "answer"} : At(q, pc)

IntentClaimedOnce ==
  \A q, r \in Requests :
    /\ Claimed(q) => intent[request[q].intent].status = "CONSUMED"
    /\ Claimed(q) /\ Claimed(r) /\ request[q].intent = request[r].intent => q = r

\* No cookie runs ahead of the user's sessionVersion: one that did would come
\* alive when the next password change reached it.
NoSessionAhead ==
  \A s \in Sessions : cookie[s].version # None => cookie[s].version <= user.version

\* An account is added by an intent only, whose session is still the user's:
\* since it re-authenticated no password change and no other link came between.
LinkKeepsItsSession ==
  [][\A x \in accounts' \ accounts :
       \E q \in Requests :
         /\ At(q, "link")
         /\ x = <<request[q].provider, request[q].subject>>
         /\ intent[request[q].intent].version = user.version
         /\ user'.version = user.version + 1]_vars

============================================================================
