------------------------- MODULE InviteRegistration -------------------------
(***************************************************************************)
(* Invite-gated registration: admins issue, resend and revoke invites; an  *)
(* invitee exchanges the emailed token for a short-lived registration      *)
(* session and registers through it; the registration transaction consumes *)
(* the session, creates the INACTIVE user, redeems the invite and inserts  *)
(* the verification email's outbox row, or does none of it.                *)
(*                                                                         *)
(* Requests interleave between their database calls.  Each transaction is  *)
(* one step: the admin ones are serializable, and the registration one     *)
(* takes its row and unique-index locks in conditional writes it holds to  *)
(* its end.  Expiry is an event: an invite or session that outlived its    *)
(* expiresAt is marked, never rewritten.  A user is named by its email,    *)
(* which the schema keeps unique and no operation changes.                 *)
(***************************************************************************)
EXTENDS Naturals, FiniteSets

CONSTANTS
  Emails,        \* normalized email addresses, and the users that hold them
  Invites,       \* invite ids
  Sessions,      \* registration session handles
  Requests,      \* exchange and registration requests being served
  None,          \* SQL NULL
  Unbound,       \* TRUE: createInvite is also called with email null
  CleanupBatch   \* sessions one cleanup run may erase (3 batches of 100)

ASSUME ConstantsOK ==
  /\ None \notin Emails \cup Invites \cup Sessions
  /\ Unbound \in BOOLEAN
  /\ CleanupBatch \in Nat \ {0}

VARIABLES
  invite,     \* the invites table
  session,    \* the registration_sessions table
  users,      \* emails that have a users row
  delivered,  \* invites that have an INVITATION_DELIVERY outbox row
  verifying,  \* users that have an EMAIL_VERIFICATION outbox row
  evidence,   \* invites with an invite.reuse_detected audit event
  request     \* what each request remembers between its database calls

vars == <<invite, session, users, delivered, verifying, evidence, request>>

NoInvite ==
  [status |-> "ABSENT", email |-> None, expired |-> FALSE, by |-> None]

NoSession ==
  [status |-> "ABSENT", invite |-> None, email |-> None, expired |-> FALSE]

Resting == [pc |-> "idle", invite |-> None, session |-> None, email |-> None]

Init ==
  /\ invite = [i \in Invites |-> NoInvite]
  /\ session = [s \in Sessions |-> NoSession]
  /\ users = {}
  /\ delivered = {}
  /\ verifying = {}
  /\ evidence = {}
  /\ request = [q \in Requests |-> Resting]

----------------------------------------------------------------------------
(* Helpers *)

Live(i) == invite[i].status = "ISSUED" /\ ~invite[i].expired

Issued(e) ==
  [status |-> "ISSUED", email |-> e, expired |-> FALSE, by |-> None]

\* Mutant: redemption does not ask for an ISSUED, unexpired invite.
Redeemable_AnyStatus(s) == invite[session[s].invite].email = session[s].email

\* redeemInviteInTx, by the session's token hash or else its invite's id: the
\* invite is ISSUED, unexpired and bound as the session is (a null email only
\* matches a null email), and is read back as REDEEMED.
Redeemable(s) ==
  LET i == session[s].invite IN Live(i) /\ invite[i].email = session[s].email

Finish(q) == request' = [request EXCEPT ![q] = Resting]

----------------------------------------------------------------------------
(* Admin operations, in serializable transactions, and account deletion *)

\* Mutant: issue does not look for a live invite first.
Issue_Unchecked(i, e) ==
  /\ invite[i].status = "ABSENT"
  /\ invite' = [invite EXCEPT ![i] = Issued(e)]
  /\ delivered' = delivered \cup {i}
  /\ UNCHANGED <<session, users, verifying, evidence, request>>

\* issue: an email with a live invite gets no second one; the new invite and
\* its delivery row commit together.
Issue(i, e) ==
  /\ invite[i].status = "ABSENT"
  /\ ~ \E j \in Invites : Live(j) /\ invite[j].email = e
  /\ invite' = [invite EXCEPT ![i] = Issued(e)]
  /\ delivered' = delivered \cup {i}
  /\ UNCHANGED <<session, users, verifying, evidence, request>>

\* createInvite, the library entry: no check, no delivery row, email null.
CreateUnboundInvite(i) ==
  /\ Unbound
  /\ invite[i].status = "ABSENT"
  /\ invite' = [invite EXCEPT ![i] = Issued(None)]
  /\ UNCHANGED <<session, users, delivered, verifying, evidence, request>>

\* revokeInviteInTx: anything but a live invite is left alone.
Revoke(i) ==
  /\ Live(i)
  /\ invite' = [invite EXCEPT ![i].status = "REVOKED"]
  /\ UNCHANGED <<session, users, delivered, verifying, evidence, request>>

\* resend: revoke a live, email-bound invite and issue its successor.
Resend(i, j) ==
  /\ Live(i)
  /\ invite[i].email # None
  /\ invite[j].status = "ABSENT"
  /\ invite' = [invite EXCEPT ![i].status = "REVOKED",
                              ![j] = Issued(invite[i].email)]
  /\ delivered' = delivered \cup {j}
  /\ UNCHANGED <<session, users, verifying, evidence, request>>

\* trustedCreateUser: an INACTIVE user without an invite.
TrustedCreateUser(e) ==
  /\ e \notin users
  /\ users' = users \cup {e}
  /\ UNCHANGED <<invite, session, delivered, verifying, evidence, request>>

\* Mutant: the deletion does not stop at the redeemer's foreign key.
DeleteAccount_Unrestricted(e) ==
  /\ e \in users
  /\ users' = users \ {e}
  /\ verifying' = verifying \ {e}
  /\ UNCHANGED <<invite, session, delivered, evidence, request>>

\* deleteAccount: a user that redeemed an invite is kept by its foreign key
\* (ON DELETE RESTRICT); an outbox row outlives its recipient (SET NULL).
DeleteAccount(e) ==
  /\ e \in users
  /\ \A i \in Invites : invite[i].by # e
  /\ users' = users \ {e}
  /\ verifying' = verifying \ {e}
  /\ UNCHANGED <<invite, session, delivered, evidence, request>>

----------------------------------------------------------------------------
(* Exchanging the emailed token for a registration session *)

\* lookupInviteByToken: only a live invite is known to the request.
LookupInvite(q, i) ==
  /\ request[q].pc = "idle"
  /\ invite[i].status # "ABSENT"
  /\ request' = [request EXCEPT ![q].pc = "exchanging",
                                ![q].invite = IF Live(i) THEN i ELSE None]
  /\ UNCHANGED <<invite, session, users, delivered, verifying, evidence>>

\* A known invite gets a PENDING session, an unknown one a DECOY.  What the
\* invite has become since the lookup is not looked at again.
CreateSession(q, s) ==
  LET i == request[q].invite IN
  /\ request[q].pc = "exchanging"
  /\ session[s].status = "ABSENT"
  /\ session' = [session EXCEPT ![s] =
       IF i = None
       THEN [NoSession EXCEPT !.status = "DECOY"]
       ELSE [NoSession EXCEPT !.status = "PENDING", !.invite = i,
                              !.email = invite[i].email]]
  /\ Finish(q)
  /\ UNCHANGED <<invite, users, delivered, verifying, evidence>>

----------------------------------------------------------------------------
(* Registering *)

\* The session is read while Turnstile answers, the submitted email compared
\* with the one it is bound to, and the clock read against which the
\* transaction will compare its expiry.
ReadSession(q, s, e) ==
  /\ request[q].pc = "idle"
  /\ session[s].status \in {"PENDING", "CONSUMED"}
  /\ ~session[s].expired
  /\ session[s].email \in {None, e}
  /\ request' = [request EXCEPT ![q].pc = "registering",
                                ![q].session = s, ![q].email = e]
  /\ UNCHANGED <<invite, session, users, delivered, verifying, evidence>>

\* Mutant: only a session that was consumed before is refused.
SessionConsumable_Unerased(s) == session[s].status # "CONSUMED"

\* The registration transaction: session, then user, then invite, then outbox.
\* The first of the writes that does not match rolls all of them back.
SessionConsumable(s) == session[s].status = "PENDING"

EmailFree(e) == e \notin users

RegisterCommits(q) ==
  LET s == request[q].session
      i == session[s].invite
      e == request[q].email IN
  /\ request[q].pc = "registering"
  /\ SessionConsumable(s) /\ EmailFree(e) /\ Redeemable(s)
  /\ session' = [session EXCEPT ![s].status = "CONSUMED"]
  /\ users' = users \cup {e}
  /\ invite' = [invite EXCEPT ![i] = [@ EXCEPT !.status = "REDEEMED", !.by = e]]
  /\ verifying' = verifying \cup {e}
  /\ Finish(q)
  /\ UNCHANGED <<delivered, evidence>>

\* Mutant: any invite that cannot be redeemed counts as reused.
RegisterDetectsReuse_AnyStatus(q) ==
  LET s == request[q].session IN
  /\ request[q].pc = "registering"
  /\ SessionConsumable(s) /\ EmailFree(request[q].email) /\ ~Redeemable(s)
  /\ request' = [request EXCEPT ![q].pc = "reuse"]
  /\ UNCHANGED <<invite, session, users, delivered, verifying, evidence>>

\* Mutant: the invite is redeemed before the user is created.
RegisterDetectsReuse_BeforeUser(q) ==
  LET s == request[q].session IN
  /\ request[q].pc = "registering"
  /\ SessionConsumable(s) /\ ~Redeemable(s)
  /\ invite[session[s].invite].status = "REDEEMED"
  /\ request' = [request EXCEPT ![q].pc = "reuse"]
  /\ UNCHANGED <<invite, session, users, delivered, verifying, evidence>>

\* A redeemed invite aborts the transaction with the reuse signal ...
RegisterDetectsReuse(q) ==
  LET s == request[q].session IN
  /\ request[q].pc = "registering"
  /\ SessionConsumable(s) /\ EmailFree(request[q].email) /\ ~Redeemable(s)
  /\ invite[session[s].invite].status = "REDEEMED"
  /\ request' = [request EXCEPT ![q].pc = "reuse"]
  /\ UNCHANGED <<invite, session, users, delivered, verifying, evidence>>

\* Mutant: the evidence names the request's invite, which it never looked up.
RecordReuse_WrongInvite(q) ==
  /\ request[q].pc = "reuse"
  /\ evidence' = evidence \cup {request[q].invite}
  /\ Finish(q)
  /\ UNCHANGED <<invite, session, users, delivered, verifying>>

\* ... and evidence is written outside it; the write itself may fail.
RecordReuse(q) ==
  /\ request[q].pc = "reuse"
  /\ evidence' \in {evidence, evidence \cup {session[request[q].session].invite}}
  /\ Finish(q)
  /\ UNCHANGED <<invite, session, users, delivered, verifying>>

\* Every other denial: a failed check, limit, deadline or transaction.
Denied(q) ==
  \/ ~SessionConsumable(request[q].session)
  \/ ~EmailFree(request[q].email)
  \/ /\ ~Redeemable(request[q].session)
     /\ invite[session[request[q].session].invite].status # "REDEEMED"

\* Mutant: a denial does not roll the consumed session back.
RegisterDenied_NoRollback(q) ==
  LET s == request[q].session IN
  /\ request[q].pc = "registering"
  /\ Denied(q)
  /\ session' = [session EXCEPT ![s].status = IF @ = "PENDING" THEN "CONSUMED" ELSE @]
  /\ Finish(q)
  /\ UNCHANGED <<invite, users, delivered, verifying, evidence>>

RegisterDenied(q) ==
  /\ request[q].pc = "registering"
  /\ Denied(q)
  /\ Finish(q)
  /\ UNCHANGED <<invite, session, users, delivered, verifying, evidence>>

\* runAdmissionLimiters, Turnstile, the deadlines or a crash end the request
\* early; the answer is the same generic failure.
GiveUp(q) ==
  /\ request[q].pc # "idle"
  /\ Finish(q)
  /\ UNCHANGED <<invite, session, users, delivered, verifying, evidence>>

----------------------------------------------------------------------------
(* Time and cleanup *)

InviteExpires(i) ==
  /\ Live(i)
  /\ invite' = [invite EXCEPT ![i].expired = TRUE]
  /\ UNCHANGED <<session, users, delivered, verifying, evidence, request>>

SessionExpires(s) ==
  /\ session[s].status \in {"PENDING", "DECOY", "CONSUMED"}
  /\ ~session[s].expired
  /\ session' = [session EXCEPT ![s].expired = TRUE]
  /\ UNCHANGED <<invite, users, delivered, verifying, evidence, request>>

\* Mutant: DECOY sessions are never erased.
Cleanup_KeepsDecoys ==
  LET present == {s \in Sessions : session[s].status \in {"PENDING", "CONSUMED"}}
      expired == {s \in present : session[s].expired} IN
  \E S \in SUBSET expired :
    /\ S # {}
    /\ Cardinality(S) <= CleanupBatch
    /\ session' = [s \in Sessions |->
                     IF s \in S THEN [session[s] EXCEPT !.status = "DELETED"]
                     ELSE session[s]]
    /\ UNCHANGED <<invite, users, delivered, verifying, evidence, request>>

\* runRegistrationSessionCleanup: every expired session, and the CONSUMED ones
\* past a grace of a minute (any of them may be), up to the batch limit.
Cleanup ==
  LET present == {s \in Sessions : session[s].status \notin {"ABSENT", "DELETED"}}
      expired == {s \in present : session[s].expired}
      consumed == {s \in present : session[s].status = "CONSUMED"} IN
  \E S \in SUBSET (expired \cup consumed) :
    /\ S # {}
    /\ Cardinality(S) <= CleanupBatch
    /\ expired \subseteq S \/ Cardinality(S) = CleanupBatch
    /\ session' = [s \in Sessions |->
                     IF s \in S THEN [session[s] EXCEPT !.status = "DELETED"]
                     ELSE session[s]]
    /\ UNCHANGED <<invite, users, delivered, verifying, evidence, request>>

----------------------------------------------------------------------------

AccountStep ==
  \/ \E i \in Invites, e \in Emails : Issue(i, e)
  \/ \E i \in Invites : CreateUnboundInvite(i) \/ Revoke(i)
  \/ \E i, j \in Invites : Resend(i, j)
  \/ \E e \in Emails : TrustedCreateUser(e) \/ DeleteAccount(e)

RequestStep(q) ==
  \/ \E i \in Invites : LookupInvite(q, i)
  \/ \E s \in Sessions : CreateSession(q, s)
  \/ \E s \in Sessions, e \in Emails : ReadSession(q, s, e)
  \/ RegisterCommits(q) \/ RegisterDetectsReuse(q) \/ RecordReuse(q)
  \/ RegisterDenied(q) \/ GiveUp(q)

TimeStep ==
  \/ \E i \in Invites : InviteExpires(i)
  \/ \E s \in Sessions : SessionExpires(s)
  \/ Cleanup

Next ==
  \/ AccountStep
  \/ \E q \in Requests : RequestStep(q)
  \/ TimeStep

Spec == Init /\ [][Next]_vars

(* Sessions do run out, and the cleanup is run again and again.             *)
Fairness ==
  /\ \A s \in Sessions : WF_vars(SessionExpires(s))
  /\ WF_vars(Cleanup)

FairSpec == Spec /\ Fairness

----------------------------------------------------------------------------
(* Properties *)

InviteRecord ==
  [status : {"ABSENT", "ISSUED", "REDEEMED", "REVOKED"},
   email : Emails \cup {None}, expired : BOOLEAN, by : Emails \cup {None}]

SessionRecord ==
  [status : {"ABSENT", "PENDING", "DECOY", "CONSUMED", "DELETED"},
   invite : Invites \cup {None}, email : Emails \cup {None}, expired : BOOLEAN]

RequestRecord ==
  [pc : {"idle", "exchanging", "registering", "reuse"},
   invite : Invites \cup {None}, session : Sessions \cup {None},
   email : Emails \cup {None}]

(* Every variable keeps its type. *)
TypeOK ==
  /\ invite \in [Invites -> InviteRecord]
  /\ session \in [Sessions -> SessionRecord]
  /\ users \subseteq Emails
  /\ delivered \subseteq Invites
  /\ verifying \subseteq Emails
  /\ evidence \subseteq Invites
  /\ request \in [Requests -> RequestRecord]

(* An email never has two invites that could still be redeemed, however     *)
(* issue, resend, revoke, expiry and redemption interleave.                 *)
OneLiveInvitePerEmail ==
  \A i, j \in Invites :
    Live(i) /\ Live(j) /\ invite[i].email = invite[j].email
            /\ invite[i].email # None
    => i = j

(* Registration is all or nothing: each redeemed invite names one existing  *)
(* user, of the email it was bound to and through no other invite, and just *)
(* these users have a verification email in the outbox.                     *)
RegistrationIsAtomic ==
  /\ \A i \in Invites :
       IF invite[i].status = "REDEEMED"
       THEN /\ invite[i].by \in users
            /\ invite[i].email \in {None, invite[i].by}
            /\ invite[i].by \in verifying
       ELSE invite[i].by = None
  /\ \A i, j \in Invites :
       invite[i].by = invite[j].by /\ invite[i].by # None => i = j
  /\ \A e \in Emails :
       e \in verifying => \E i \in Invites : invite[i].by = e

(* A consumed session stands for the one redemption of its invite: of all   *)
(* the sessions exchanged for a token, at most one is ever consumed, and a  *)
(* registration that fails leaves its session unconsumed.                   *)
ConsumedMeansRedeemed ==
  \A s \in Sessions : session[s].status = "CONSUMED" =>
    /\ invite[session[s].invite].status = "REDEEMED"
    /\ \A t \in Sessions \ {s} :
         session[t].invite = session[s].invite => session[t].status # "CONSUMED"

(* Reuse evidence accuses no one wrongly: it is recorded only for an invite *)
(* that has been redeemed.                                                  *)
EvidenceIsTrue == \A i \in evidence : invite[i].status = "REDEEMED"

(* Every invite that admins issue is bound to an email, registering through *)
(* it creates that email's user, and users come before invites in the       *)
(* registration transaction: with these invites no reuse is ever recorded.  *)
BoundInvitesHideReuse == ~Unbound => evidence = {}

(* A redeemed or revoked invite is never reopened, and who redeemed it is   *)
(* never rewritten ("without reopening terminal states", revokeInvite.ts).  *)
ClosedInvitesStayClosed ==
  [][\A i \in Invites :
       invite[i].status \in {"REDEEMED", "REVOKED"} => UNCHANGED invite[i]]_vars

(* A registration session only moves on, whatever a request read of it      *)
(* before: one the cleanup has erased is not consumed nor brought back, a    *)
(* decoy is never consumed, no step changes what a session is bound to, and *)
(* its expiry is not taken back.                                            *)
SessionMovesOn(s, new) ==
  LET old == session[s] IN
  old.status # "ABSENT" =>
    /\ new.invite = old.invite /\ new.email = old.email
    /\ old.expired => new.expired
    /\ new.status # old.status =>
         \/ new.status = "CONSUMED" /\ old.status = "PENDING"
         \/ new.status = "DELETED"

SessionsMoveOn == [][\A s \in Sessions : SessionMovesOn(s, session'[s])]_vars

(* Whatever a registration session came to, its row is erased in the end.   *)
SessionsAreErased ==
  \A s \in Sessions : session[s].status # "ABSENT" ~> session[s].status = "DELETED"

(* "Tokens are ... reuse-detectable" (PACKET-02): whoever tries to register *)
(* with a usable session for an invite that is already redeemed sets off    *)
(* the reuse signal.                                                        *)
ReuseIsDetected ==
  [][\A q \in Requests :
       /\ request[q].pc = "registering" /\ RegisterDenied(q)
       /\ SessionConsumable(request[q].session)
       => invite[session[request[q].session].invite].status # "REDEEMED"]_vars
============================================================================
