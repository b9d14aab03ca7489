---------------------------- MODULE OutboxEmail ----------------------------
(***************************************************************************)
(* The transactional email outbox (features/auth/server/outbox): rows that *)
(* a registration or an admin invite commits, claimed under a lease and a  *)
(* claim token by serverless invocations, delivered through the email      *)
(* provider, and settled as SENT, retried with a back-off, or given up as  *)
(* FAILED.  Rows reach a worker through a QStash message or through the    *)
(* daily cron, which publishes each due row and, when that fails, delivers *)
(* it itself until its deadline aborts it.                                 *)
(*                                                                         *)
(* Time is relative: a row's lease and back-off, and what a worker has     *)
(* left of the lease it took, count down to 0 with every Tick.             *)
(***************************************************************************)
EXTENDS Naturals, FiniteSets

CONSTANTS
  Rows,         \* outbox_emails ids
  InviteRows,   \* those of event type INVITATION_DELIVERY
  Workers,      \* invocations of processOutboxEmailMessage
  NoWorker,     \* no claim token
  NoRow,        \* an idle invocation has no row
  MaxAttempts,  \* MAX_OUTBOX_ATTEMPTS (5 in the code)
  Lease,        \* CLAIM_LEASE_MS, in ticks
  Backoffs,     \* the back-offs calculateBackoff may return, in ticks
  MaxMessages,  \* bound: QStash messages in flight for one row
  Capacity,     \* OUTBOX_CRON_DELIVERY_CAPACITY (60 in the code)
  Prompt,       \* TRUE: no delivery outlives the lease it was claimed with
  Deadlines,    \* TRUE: a drain may run into OUTBOX_CRON_DEADLINE_MS
  Crashes       \* TRUE: an invocation may be killed at any point

ASSUME ConstantsOK ==
  /\ InviteRows \subseteq Rows
  /\ NoWorker \notin Workers
  /\ NoRow \notin Rows
  /\ MaxAttempts \in Nat \ {0}
  /\ Lease \in Nat \ {0}
  /\ Backoffs \subseteq Nat \ {0}
  /\ MaxMessages \in Nat
  /\ Capacity \in Nat \ {0}
  /\ Prompt \in BOOLEAN
  /\ Deadlines \in BOOLEAN
  /\ Crashes \in BOOLEAN

VARIABLES
  row,        \* the outbox_emails table
  worker,     \* what each invocation remembers between its database calls
  cron,       \* the drain: "idle", "draining" or "aborted" (its AbortSignal)
  found,      \* rows the drain read and has not handed out yet
  queued,     \* QStash messages on their way, per row
  inviteLive, \* the invite behind an invite row is ISSUED and unexpired
  codeOwner,  \* the worker whose one-time code the user's token row holds
  codeMailed, \* that code is in an email the provider accepted
  accepted    \* the provider accepted some email for the row

vars == <<row, worker, cron, found, queued, inviteLive,
          codeOwner, codeMailed, accepted>>

Absent == [status |-> "ABSENT", attempts |-> 0, token |-> NoWorker,
           lease |-> 0, wait |-> 0, cipher |-> FALSE]

Idle == [pc |-> "idle", job |-> NoRow, snap |-> 0, left |-> 0, src |-> "none"]

Init ==
  /\ row = [r \in Rows |-> Absent]
  /\ worker = [w \in Workers |-> Idle]
  /\ cron = "idle"
  /\ found = {}
  /\ queued = [r \in Rows |-> 0]
  /\ inviteLive = [r \in Rows |-> r \in InviteRows]
  /\ codeOwner = [r \in Rows |-> NoWorker]
  /\ codeMailed = [r \in Rows |-> FALSE]
  /\ accepted = [r \in Rows |-> FALSE]

----------------------------------------------------------------------------
(* Helpers *)

Open(r) == row[r].status \in {"PENDING", "CLAIMED"}

Settled(r) == row[r].status \in {"SENT", "FAILED"}

Busy(w) == worker[w].pc # "idle"

\* Mutant: the writes are not fenced by the claim token.
Owns_NoFence(w) == row[worker[w].job].status = "CLAIMED"

Owns(w) ==          \* where { id, claimToken, status: CLAIMED } matches
  /\ row[worker[w].job].status = "CLAIMED"
  /\ row[worker[w].job].token = w

\* Mutant: the claim ignores a running lease.
Claimable_NoLease(r) == Open(r) /\ row[r].wait = 0

\* CLAIM_DUE_OUTBOX_EMAIL_SQL; a null nextAttemptAt or leaseExpiresAt is 0.
Claimable(r) ==
  /\ Open(r)
  /\ row[r].wait = 0
  /\ row[r].lease = 0

\* Mutant: a null nextAttemptAt is not due.
Due_NullMissed(r) ==
  row[r].status = "PENDING" /\ row[r].wait = 0 /\ row[r].attempts > 0

\* The cron's findDueRows: PENDING only.
Due(r) == row[r].status = "PENDING" /\ row[r].wait = 0

\* signal.throwIfAborted() does not fire: only cron deliveries have a signal.
NotAborted(w) == worker[w].src = "cron" => cron = "draining"

CronWorkers == {w \in Workers : worker[w].src = "cron"}

Step(w, from, to) ==
  /\ worker[w].pc = from
  /\ worker' = [worker EXCEPT ![w].pc = to]

Stop(w) == worker' = [worker EXCEPT ![w] = Idle]

\* A publish that QStash takes (beyond MaxMessages it changes nothing) ...
Publish(r) ==
  queued' = [queued EXCEPT ![r] = IF @ < MaxMessages THEN @ + 1 ELSE @]

\* ... or that it deduplicates or that never reaches it.
MayPublish(r) == Publish(r) \/ UNCHANGED queued

----------------------------------------------------------------------------
(* Where rows come from *)

\* The creating transaction commits, then a registration publishes the row
\* and ignores a failure; an admin invite leaves it to the cron.
Create(r) ==
  /\ row[r].status = "ABSENT"
  /\ row' = [row EXCEPT ![r] = [@ EXCEPT !.status = "PENDING",
                                         !.cipher = r \in InviteRows]]
  /\ IF r \in InviteRows THEN UNCHANGED queued ELSE MayPublish(r)
  /\ UNCHANGED <<worker, cron, found, inviteLive, codeOwner, codeMailed, accepted>>

\* The invite is revoked, redeemed or expires.
InviteDies(r) ==
  /\ row[r].status # "ABSENT"
  /\ inviteLive[r]
  /\ inviteLive' = [inviteLive EXCEPT ![r] = FALSE]
  /\ UNCHANGED <<row, worker, cron, found, queued, codeOwner, codeMailed, accepted>>

----------------------------------------------------------------------------
(* One invocation of processOutboxEmailMessage *)

\* Mutant: the claim does not set leaseExpiresAt.
Claim_LeaseNotSet(w, r, src) ==
  \/ /\ Claimable(r)
     /\ row' = [row EXCEPT ![r] = [@ EXCEPT !.status = "CLAIMED", !.token = w]]
     /\ worker' = [worker EXCEPT ![w] =
                     [pc |-> "claimed", job |-> r, snap |-> row[r].attempts,
                      left |-> Lease, src |-> src]]
  \/ /\ ~Claimable(r)
     /\ UNCHANGED <<row, worker>>

\* claimDueOutboxEmail: one transaction; a row that is not claimable is skipped.
Claim(w, r, src) ==
  \/ /\ Claimable(r)
     /\ row' = [row EXCEPT ![r] = [@ EXCEPT !.status = "CLAIMED",
                                            !.token = w, !.lease = Lease]]
     /\ worker' = [worker EXCEPT ![w] =
                     [pc |-> "claimed", job |-> r, snap |-> row[r].attempts,
                      left |-> Lease, src |-> src]]
  \/ /\ ~Claimable(r)
     /\ UNCHANGED <<row, worker>>

\* The worker endpoint receives a message; QStash delivers at least once.
Receive(w, r) ==
  /\ ~Busy(w)
  /\ queued[r] > 0
  /\ queued' \in {queued, [queued EXCEPT ![r] = @ - 1]}
  /\ Claim(w, r, "qstash")
  /\ UNCHANGED <<cron, found, inviteLive, codeOwner, codeMailed, accepted>>

\* The endpoint answers 401 (rate limit, secret) until QStash gives up.
Refuse(r) ==
  /\ queued[r] > 0
  /\ queued' = [queued EXCEPT ![r] = @ - 1]
  /\ UNCHANGED <<row, worker, cron, found, inviteLive, codeOwner, codeMailed, accepted>>

\* deliverVerificationEmail: a fresh code replaces the recipient's last one.
MintCode(w) ==
  LET r == worker[w].job IN
  /\ NotAborted(w)
  /\ Step(w, "claimed", "ready")
  /\ r \notin InviteRows
  /\ codeOwner' = [codeOwner EXCEPT ![r] = w]
  /\ codeMailed' = [codeMailed EXCEPT ![r] = FALSE]
  /\ UNCHANGED <<row, cron, found, queued, inviteLive, accepted>>

\* deliverInvitationEmail: the invite must still be live.
CheckInvite(w) ==
  LET r == worker[w].job IN
  /\ NotAborted(w)
  /\ Step(w, "claimed", IF inviteLive[r] THEN "ready" ELSE "failing")
  /\ r \in InviteRows
  /\ UNCHANGED <<row, cron, found, queued, inviteLive, codeOwner, codeMailed, accepted>>

\* Missing recipient or key, a refusal, or a timeout before acceptance; an
\* error that an abort causes is not recorded.
DeliveryFails(w) ==
  /\ NotAborted(w)
  /\ Step(w, "claimed", "failing") \/ Step(w, "ready", "failing")
  /\ UNCHANGED <<row, cron, found, queued, inviteLive, codeOwner, codeMailed, accepted>>

ProviderAccepts(w) ==
  LET r == worker[w].job IN
  /\ NotAborted(w)
  /\ Step(w, "ready", "accepted")
  /\ accepted' = [accepted EXCEPT ![r] = TRUE]
  /\ codeMailed' = [codeMailed EXCEPT ![r] = @ \/ codeOwner[r] = w]
  /\ UNCHANGED <<row, cron, found, queued, inviteLive, codeOwner>>

\* EMAIL_SEND_TIMEOUT: the email is out but the answer came too late.
AnswerLost(w) ==
  /\ NotAborted(w)
  /\ Step(w, "accepted", "failing")
  /\ UNCHANGED <<row, cron, found, queued, inviteLive, codeOwner, codeMailed, accepted>>

\* Mutant: the row is settled before the provider has accepted its email.
FinalizeSent_BeforeAcceptance(w) ==
  LET r == worker[w].job IN
  /\ worker[w].pc \in {"ready", "accepted"}
  /\ Owns(w)
  /\ row' = [row EXCEPT ![r] = [@ EXCEPT !.status = "SENT", !.token = NoWorker,
                                         !.lease = 0, !.cipher = FALSE]]
  /\ Stop(w)
  /\ UNCHANGED <<cron, found, queued, inviteLive, codeOwner, codeMailed, accepted>>

\* finalizeOutboxEmailSent; the abort may come after its last check.
FinalizeSent(w) ==
  LET r == worker[w].job IN
  /\ worker[w].pc = "accepted"
  /\ \/ /\ Owns(w)
        /\ row' = [row EXCEPT ![r] = [@ EXCEPT !.status = "SENT",
                                               !.token = NoWorker, !.lease = 0,
                                               !.cipher = FALSE]]
     \/ ~Owns(w) /\ UNCHANGED row
  /\ Stop(w)
  /\ UNCHANGED <<cron, found, queued, inviteLive, codeOwner, codeMailed, accepted>>

\* Mutant: one attempt too many.
FailedOnce_OneMore(r, attempts, backoff) ==
  IF attempts > MaxAttempts
  THEN [row[r] EXCEPT !.status = "FAILED", !.attempts = attempts,
                      !.token = NoWorker, !.lease = 0, !.wait = 0,
                      !.cipher = FALSE]
  ELSE [row[r] EXCEPT !.status = "PENDING", !.attempts = attempts,
                      !.token = NoWorker, !.lease = 0, !.wait = backoff]

\* Mutant: the terminal failure keeps the encrypted token.
FailedOnce_KeepsCipher(r, attempts, backoff) ==
  [row[r] EXCEPT !.status = IF attempts >= MaxAttempts THEN "FAILED" ELSE "PENDING",
                 !.attempts = attempts, !.token = NoWorker, !.lease = 0,
                 !.wait = IF attempts >= MaxAttempts THEN 0 ELSE backoff]

\* Mutant: a retry does not go back to PENDING.
FailedOnce_KeepsClaim(r, attempts, backoff) ==
  [row[r] EXCEPT !.status = IF attempts >= MaxAttempts THEN "FAILED" ELSE "CLAIMED",
                 !.attempts = attempts, !.token = NoWorker, !.lease = 0,
                 !.wait = IF attempts >= MaxAttempts THEN 0 ELSE backoff,
                 !.cipher = @ /\ attempts < MaxAttempts]

\* The row after one more failure, as recordOutboxEmailFailure writes it.
FailedOnce(r, attempts, backoff) ==
  IF attempts >= MaxAttempts
  THEN [row[r] EXCEPT !.status = "FAILED", !.attempts = attempts,
                      !.token = NoWorker, !.lease = 0, !.wait = 0,
                      !.cipher = FALSE]
  ELSE [row[r] EXCEPT !.status = "PENDING", !.attempts = attempts,
                      !.token = NoWorker, !.lease = 0, !.wait = backoff]

\* recordOutboxEmailFailure counts from the attempts read at claim time; the
\* abort may come after its last check.
RecordFailure(w) ==
  LET r == worker[w].job IN
  /\ worker[w].pc = "failing"
  /\ \/ /\ Owns(w)
        /\ \E backoff \in Backoffs :
             row' = [row EXCEPT ![r] = FailedOnce(r, worker[w].snap + 1, backoff)]
     \/ ~Owns(w) /\ UNCHANGED row
  /\ Stop(w)
  /\ UNCHANGED <<cron, found, queued, inviteLive, codeOwner, codeMailed, accepted>>

\* The invocation is killed; QStash delivers its message again or gives up.
Crash(w) ==
  /\ Crashes
  /\ worker[w].src = "qstash"
  /\ Stop(w)
  /\ MayPublish(worker[w].job)
  /\ UNCHANGED <<row, cron, found, inviteLive, codeOwner, codeMailed, accepted>>

----------------------------------------------------------------------------
(* The daily cron: drainDueOutboxEmails *)

CronFind ==
  LET due == {r \in Rows : Due(r)} IN
  /\ cron = "idle"
  /\ due # {}
  /\ cron' = "draining"
  /\ found' \in {S \in SUBSET due :
                   /\ Cardinality(S) <= Capacity
                   /\ S = due \/ Cardinality(S) = Capacity}
  /\ UNCHANGED <<row, worker, queued, inviteLive, codeOwner, codeMailed, accepted>>

CronPublish(r) ==
  /\ cron = "draining"
  /\ r \in found
  /\ found' = found \ {r}
  /\ Publish(r)
  /\ UNCHANGED <<row, worker, cron, inviteLive, codeOwner, codeMailed, accepted>>

\* Upstash-Deduplication-Id matches a message QStash took before.
CronPublishDeduplicated(r) ==
  /\ cron = "draining"
  /\ r \in found
  /\ found' = found \ {r}
  /\ UNCHANGED <<row, worker, cron, queued, inviteLive, codeOwner, codeMailed, accepted>>

\* The publish failed, or its answer was lost: deliver in this invocation.
CronFallback(w, r) ==
  /\ cron = "draining"
  /\ r \in found
  /\ ~Busy(w)
  /\ found' = found \ {r}
  /\ MayPublish(r)
  /\ Claim(w, r, "cron")
  /\ UNCHANGED <<cron, inviteLive, codeOwner, codeMailed, accepted>>

CronDeadline ==
  /\ Deadlines
  /\ cron = "draining"
  /\ found # {} \/ CronWorkers # {}
  /\ cron' = "aborted"
  /\ found' = {}
  /\ UNCHANGED <<row, worker, queued, inviteLive, codeOwner, codeMailed, accepted>>

\* An aborted delivery returns "stale" and leaves its row as it is.
AbortExit(w) ==
  /\ cron = "aborted"
  /\ worker[w].src = "cron"
  /\ Stop(w)
  /\ UNCHANGED <<row, cron, found, queued, inviteLive, codeOwner, codeMailed, accepted>>

CronDone ==
  /\ cron # "idle"
  /\ found = {}
  /\ CronWorkers = {}
  /\ cron' = "idle"
  /\ UNCHANGED <<row, worker, found, queued, inviteLive, codeOwner, codeMailed, accepted>>

\* The drain's invocation is killed, with every delivery it runs.
CronCrash ==
  /\ Crashes
  /\ cron # "idle"
  /\ cron' = "idle"
  /\ found' = {}
  /\ worker' = [w \in Workers |-> IF w \in CronWorkers THEN Idle ELSE worker[w]]
  /\ UNCHANGED <<row, queued, inviteLive, codeOwner, codeMailed, accepted>>

----------------------------------------------------------------------------
(* Time *)

Less(n) == IF n = 0 THEN 0 ELSE n - 1

Tick ==
  /\ Prompt => \A w \in Workers : Busy(w) => worker[w].left > 1
  /\ row' = [r \in Rows |-> [row[r] EXCEPT !.lease = Less(@), !.wait = Less(@)]]
  /\ worker' = [w \in Workers |-> [worker[w] EXCEPT !.left = Less(@)]]
  /\ UNCHANGED <<cron, found, queued, inviteLive, codeOwner, codeMailed, accepted>>

----------------------------------------------------------------------------

WorkerStep(w) ==
  \/ MintCode(w) \/ CheckInvite(w) \/ DeliveryFails(w)
  \/ ProviderAccepts(w) \/ AnswerLost(w)
  \/ FinalizeSent(w) \/ RecordFailure(w)
  \/ AbortExit(w)

HandOut(r) == CronPublish(r) \/ \E w \in Workers : CronFallback(w, r)

Next ==
  \/ \E r \in Rows : Create(r) \/ InviteDies(r) \/ Refuse(r)
  \/ \E w \in Workers : WorkerStep(w) \/ Crash(w)
  \/ \E w \in Workers, r \in Rows : Receive(w, r)
  \/ \E r \in Rows : HandOut(r) \/ CronPublishDeduplicated(r)
  \/ CronFind \/ CronDeadline \/ CronDone \/ CronCrash
  \/ Tick

Spec == Init /\ [][Next]_vars

(* An invocation that is not killed runs on; the cron keeps being called;   *)
(* time passes; the drain does not miss a row it keeps finding for ever; and *)
(* QStash does not lose every message it takes for a row.                   *)
Fairness ==
  /\ \A w \in Workers : WF_vars(WorkerStep(w))
  /\ WF_vars(CronFind) /\ WF_vars(CronDone) /\ WF_vars(Tick)
  /\ \A r \in Rows : SF_vars(HandOut(r)) /\ SF_vars(\E w \in Workers : Receive(w, r))

FairSpec == Spec /\ Fairness

----------------------------------------------------------------------------
(* Properties *)

RowRecord ==
  [status : {"ABSENT", "PENDING", "CLAIMED", "SENT", "FAILED"},
   attempts : 0..MaxAttempts, token : Workers \cup {NoWorker},
   lease : 0..Lease, wait : Nat, cipher : BOOLEAN]

WorkerRecord ==
  [pc : {"idle", "claimed", "ready", "accepted", "failing"},
   job : Rows \cup {NoRow}, snap : 0..MaxAttempts,
   left : 0..Lease, src : {"none", "qstash", "cron"}]

(* Every variable keeps its type. *)
TypeOK ==
  /\ row \in [Rows -> RowRecord]
  /\ worker \in [Workers -> WorkerRecord]
  /\ cron \in {"idle", "draining", "aborted"}
  /\ found \subseteq Rows
  /\ queued \in [Rows -> 0..MaxMessages]
  /\ inviteLive \in [Rows -> BOOLEAN]
  /\ codeOwner \in [Rows -> Workers \cup {NoWorker}]
  /\ codeMailed \in [Rows -> BOOLEAN]
  /\ accepted \in [Rows -> BOOLEAN]

(* Two deliveries of one row overlap only after a lease ran out: of any two *)
(* invocations on a row, at most one still has lease time left.             *)
LeaseExclusion ==
  \A v, w \in Workers :
    /\ v # w
    /\ Busy(v) /\ Busy(w)
    /\ worker[v].job = worker[w].job
    => worker[v].left = 0 \/ worker[w].left = 0

(* The encrypted invite token is kept as long as a retry may need it and    *)
(* erased when the row settles (PACKET-02, Binding Decisions); a settled    *)
(* row holds no claim, and FAILED means the attempts are used up.           *)
ErasedExactlyWhenSettled ==
  \A r \in Rows :
    /\ row[r].cipher <=> Open(r) /\ r \in InviteRows
    /\ Settled(r) => row[r].token = NoWorker /\ row[r].lease = 0
    /\ row[r].status = "FAILED" <=> row[r].attempts = MaxAttempts

(* What a row's status comes to in the abstract outbox.                     *)
PhaseOf(status) ==
  CASE status = "ABSENT" -> "none"
    [] status = "SENT" -> "sent"
    [] status = "FAILED" -> "failed"
    [] OTHER -> "open"

Promise == INSTANCE OutboxPromise WITH
  phase <- [r \in Rows |-> PhaseOf(row[r].status)],
  tries <- [r \in Rows |-> row[r].attempts]

(* The outbox keeps its promise per row: settled at most once, SENT only    *)
(* after an accepted email, and no failure of a stale worker lost or        *)
(* counted twice, whatever claims, crashes and aborts interleave.           *)
KeepsPromise == Promise!Spec

(* If no delivery outlives its lease, a row is in one worker's hands at a   *)
(* time.                                                                    *)
OneWorkerPerRow ==
  Prompt => \A v, w \in Workers :
    Busy(v) /\ Busy(w) /\ worker[v].job = worker[w].job => v = w

(* If no delivery outlives its lease, a verification row marked SENT has    *)
(* mailed the very code the database holds: the user can activate with it.  *)
(* The user's own resend request (auth/verify/resend.ts), which writes a    *)
(* newer code without touching the outbox, is outside this module.          *)
SentCodeUsable ==
  Prompt => \A r \in Rows \ InviteRows :
    row[r].status = "SENT" => codeMailed[r]

(* A row waiting for delivery is always picked up, crashes and a lossy      *)
(* QStash notwithstanding: the cron finds it again.                         *)
PendingIsPickedUp ==
  \A r \in Rows : row[r].status = "PENDING" ~> row[r].status # "PENDING"

(* Without crashes and aborts every row that was opened is settled.         *)
EveryRowSettles ==
  \A r \in Rows : Open(r) ~> Settled(r)

(* "Email outage leaves retryable outbox work" (PACKET-02 acceptance): an   *)
(* unsettled row that no one is working on, with its timers run out and no  *)
(* message on its way, is one the cron will find.                           *)
RetryableWork ==
  \A r \in Rows :
    /\ Claimable(r)
    /\ queued[r] = 0
    /\ \A w \in Workers : worker[w].job # r
    => Due(r)
============================================================================
