------------------------- MODULE OutboxEmailProofs -------------------------
(* Safety of the email outbox, and that it implements OutboxPromise, for    *)
(* any number of rows, workers, attempts, messages and ticks.               *)
EXTENDS OutboxEmail, TLAPS

\* A row and what happened to it agree.
RowSound(r) ==
  /\ row[r].status # "CLAIMED" => row[r].token = NoWorker /\ row[r].lease = 0
  /\ row[r].status = "FAILED" <=> row[r].attempts = MaxAttempts
  /\ row[r].cipher <=> Open(r) /\ r \in InviteRows
  /\ row[r].status = "SENT" => accepted[r]

RowsSound == \A r \in Rows : RowSound(r)

\* A busy worker knows its row as it is for as long as it owns it, and has no
\* lease time left once it does not.
WorkerSound(w) ==
  LET r == worker[w].job IN
  Busy(w) =>
    /\ r \in Rows
    /\ row[r].status # "ABSENT"
    /\ Owns(w) => worker[w].left = row[r].lease /\ worker[w].snap = row[r].attempts
    /\ ~Owns(w) => worker[w].left = 0
    /\ worker[w].pc = "accepted" => accepted[r]
    /\ Prompt => worker[w].left # 0

WorkersSound == \A w \in Workers : WorkerSound(w)

\* Without stalls, a worker that sends a code sends the current one.
CodeSound(r) ==
  /\ row[r].status = "SENT" => codeMailed[r]
  /\ \A w \in Workers : worker[w].job = r =>
       /\ worker[w].pc = "ready" => codeOwner[r] = w
       /\ worker[w].pc = "accepted" => codeMailed[r]

CodesSound == Prompt => \A r \in Rows \ InviteRows : CodeSound(r)

IInv == TypeOK /\ RowsSound /\ WorkersSound /\ CodesSound

----------------------------------------------------------------------------
(* What each step does to rows, workers, codes and acceptances *)

Quiet == UNCHANGED <<row, worker, codeOwner, codeMailed, accepted>>

Claims(w, r, src) ==
  /\ ~Busy(w)
  /\ Claimable(r)
  /\ row' = [row EXCEPT ![r] = [@ EXCEPT !.status = "CLAIMED",
                                         !.token = w, !.lease = Lease]]
  /\ worker' = [worker EXCEPT ![w] =
                  [pc |-> "claimed", job |-> r, snap |-> row[r].attempts,
                   left |-> Lease, src |-> src]]
  /\ UNCHANGED <<codeOwner, codeMailed, accepted>>

\* Workers that stop without a write: crashed, aborted, or fenced off.
Abandons(S) ==
  /\ worker' = [w \in Workers |-> IF w \in S THEN Idle ELSE worker[w]]
  /\ UNCHANGED <<row, codeOwner, codeMailed, accepted>>

\* A worker that goes on without a write: to its send, or to its failure.
Moves(w, to) ==
  /\ Busy(w)
  /\ to = "ready" => worker[w].job \in InviteRows
  /\ worker' = [worker EXCEPT ![w].pc = to]
  /\ UNCHANGED <<row, codeOwner, codeMailed, accepted>>

LEMMA StopAbandons ==
  ASSUME TypeOK, NEW w \in Workers, Stop(w),
         UNCHANGED <<row, codeOwner, codeMailed, accepted>>
  PROVE  Abandons({w})
BY DEF TypeOK, Stop, Abandons

\* Every step is one of ten kinds.
LEMMA StepKinds ==
  ASSUME TypeOK, [Next]_vars
  PROVE  \/ Quiet
         \/ Tick
         \/ \E r \in Rows : Create(r)
         \/ \E w \in Workers, r \in Rows, src \in {"qstash", "cron"} :
              Claims(w, r, src)
         \/ \E w \in Workers : MintCode(w) \/ ProviderAccepts(w)
         \/ \E w \in Workers, to \in {"ready", "failing"} : Moves(w, to)
         \/ \E w \in Workers : Owns(w) /\ (FinalizeSent(w) \/ RecordFailure(w))
         \/ \E S \in SUBSET Workers : Abandons(S)
<1>1. ASSUME NEW r \in Rows, Create(r) \/ InviteDies(r) \/ Refuse(r)
      PROVE  Create(r) \/ Quiet
  BY <1>1 DEF InviteDies, Refuse, Quiet
<1>2. ASSUME NEW w \in Workers, WorkerStep(w)
      PROVE  \/ MintCode(w) \/ ProviderAccepts(w)
             \/ \E to \in {"ready", "failing"} : Moves(w, to)
             \/ Owns(w) /\ (FinalizeSent(w) \/ RecordFailure(w))
             \/ Abandons({w})
  <2>1. CASE CheckInvite(w) \/ DeliveryFails(w) \/ AnswerLost(w)
    <3>1. CASE CheckInvite(w)
      <4>1. CASE inviteLive[worker[w].job]
        BY <3>1, <4>1 DEF CheckInvite, Step, Moves, Busy
      <4>2. CASE ~inviteLive[worker[w].job]
        BY <3>1, <4>2 DEF CheckInvite, Step, Moves, Busy
      <4> QED
        BY <4>1, <4>2
    <3>2. CASE DeliveryFails(w)
      <4>1. Moves(w, "failing")
        BY <3>2 DEF DeliveryFails, Step, Moves, Busy
      <4> QED
        BY <4>1
    <3>3. CASE AnswerLost(w)
      <4>1. Moves(w, "failing")
        BY <3>3 DEF AnswerLost, Step, Moves, Busy
      <4> QED
        BY <4>1
    <3> QED
      BY <2>1, <3>1, <3>2, <3>3
  <2>2. CASE FinalizeSent(w) /\ ~Owns(w)
    BY <2>2, StopAbandons DEF FinalizeSent
  <2>3. CASE RecordFailure(w) /\ ~Owns(w)
    BY <2>3, StopAbandons DEF RecordFailure
  <2>4. CASE AbortExit(w)
    BY <2>4, StopAbandons DEF AbortExit
  <2> QED
    BY <1>2, <2>1, <2>2, <2>3, <2>4 DEF WorkerStep
<1>3. ASSUME NEW w \in Workers, Crash(w)
      PROVE  Abandons({w})
  BY <1>3, StopAbandons DEF Crash
<1>4. ASSUME NEW w \in Workers, NEW r \in Rows, Receive(w, r)
      PROVE  Quiet \/ Claims(w, r, "qstash")
  BY <1>4 DEF Receive, Claim, Claims, Quiet
<1>5. ASSUME NEW r \in Rows, HandOut(r) \/ CronPublishDeduplicated(r)
      PROVE  Quiet \/ \E w \in Workers : Claims(w, r, "cron")
  BY <1>5 DEF HandOut, CronPublish, CronPublishDeduplicated, CronFallback,
     Claim, Claims, Quiet
<1>6. CASE CronFind \/ CronDeadline \/ CronDone
  BY <1>6 DEF CronFind, CronDeadline, CronDone, Quiet
<1>7. CASE CronCrash
  BY <1>7 DEF CronCrash, Abandons, CronWorkers
<1>8. CASE UNCHANGED vars
  BY <1>8 DEF vars, Quiet
<1> QED
  BY <1>1, <1>2, <1>3, <1>4, <1>5, <1>6, <1>7, <1>8 DEF Next

----------------------------------------------------------------------------
(* Types *)

\* A well-typed row or worker record stays so when a field is written.
LEMMA RowFields ==
  ASSUME NEW v \in RowRecord
  PROVE  /\ v.attempts \in 0..MaxAttempts /\ v.lease \in 0..Lease /\ v.wait \in Nat
         /\ \A x \in {"PENDING", "CLAIMED", "SENT", "FAILED"} :
              [v EXCEPT !.status = x] \in RowRecord
         /\ \A x \in 0..MaxAttempts : [v EXCEPT !.attempts = x] \in RowRecord
         /\ \A x \in Workers \cup {NoWorker} : [v EXCEPT !.token = x] \in RowRecord
         /\ \A x \in 0..Lease : [v EXCEPT !.lease = x] \in RowRecord
         /\ \A x \in Nat : [v EXCEPT !.wait = x] \in RowRecord
         /\ \A x \in BOOLEAN : [v EXCEPT !.cipher = x] \in RowRecord
BY DEF RowRecord

LEMMA WorkerFields ==
  ASSUME NEW v \in WorkerRecord
  PROVE  /\ v.left \in 0..Lease /\ v.snap \in 0..MaxAttempts
         /\ \A x \in {"ready", "accepted", "failing"} :
              [v EXCEPT !.pc = x] \in WorkerRecord
         /\ \A x \in 0..Lease : [v EXCEPT !.left = x] \in WorkerRecord
BY DEF WorkerRecord

LEMMA NewRecords ==
  /\ Absent \in RowRecord
  /\ Idle \in WorkerRecord
  /\ \A r \in Rows, n \in 0..MaxAttempts, src \in {"qstash", "cron"} :
       [pc |-> "claimed", job |-> r, snap |-> n, left |-> Lease, src |-> src]
         \in WorkerRecord
BY ConstantsOK DEF Absent, Idle, RowRecord, WorkerRecord

\* One more failure keeps the row well typed.
LEMMA FailedOnceType ==
  ASSUME NEW r \in Rows, row[r] \in RowRecord, NEW backoff \in Backoffs,
         NEW n \in 0..MaxAttempts
  PROVE  FailedOnce(r, n, backoff) \in RowRecord
<1>1. 0 \in 0..Lease /\ 0 \in Nat /\ backoff \in Nat
  BY ConstantsOK
<1>2. CASE n >= MaxAttempts
  BY <1>1, <1>2, RowFields DEF FailedOnce
<1>3. CASE ~(n >= MaxAttempts)
  BY <1>1, <1>3, RowFields DEF FailedOnce
<1> QED
  BY <1>2, <1>3

LEMMA LessType ==
  ASSUME NEW n \in Nat
  PROVE  /\ Less(n) \in Nat /\ Less(n) <= n
         /\ n = 0 => Less(n) = 0
         /\ n > 1 => Less(n) # 0
BY DEF Less

\* Only RecordFailure needs more than types to keep them: a row in a worker's
\* hands has an attempt left.
LEMMA SnapBound ==
  ASSUME TypeOK, RowsSound, WorkersSound, NEW w \in Workers, Busy(w), Owns(w)
  PROVE  /\ worker[w].job \in Rows
         /\ worker[w].snap = row[worker[w].job].attempts
         /\ worker[w].snap + 1 \in 0..MaxAttempts
<1>1. /\ worker[w].job \in Rows
      /\ worker[w].snap = row[worker[w].job].attempts
  BY DEF WorkersSound, WorkerSound
<1>2. /\ row[worker[w].job].attempts \in 0..MaxAttempts
      /\ row[worker[w].job].attempts # MaxAttempts
  BY <1>1, RowFields DEF TypeOK, RowsSound, RowSound, Owns
<1> QED
  BY <1>1, <1>2, ConstantsOK

LEMMA TypeStep ==
  ASSUME TypeOK, RowsSound, WorkersSound, [Next]_vars
  PROVE  TypeOK'
<1> USE DEF TypeOK
<1>0. 0 \in 0..Lease /\ Lease \in 0..Lease /\ MaxMessages \in Nat
  BY ConstantsOK
<1>1. ASSUME NEW r \in Rows, Create(r) \/ InviteDies(r) \/ Refuse(r)
      PROVE  TypeOK'
  <2>1. CASE Create(r)
    <3>1. [row[r] EXCEPT !.status = "PENDING", !.cipher = r \in InviteRows]
            \in RowRecord
      <4>1. [row[r] EXCEPT !.status = "PENDING"] \in RowRecord
        BY RowFields
      <4>2. (r \in InviteRows) \in BOOLEAN
        OBVIOUS
      <4> QED
        BY <4>1, <4>2, RowFields, Zenon
    <3>2. queued' \in [Rows -> 0..MaxMessages]
      BY <2>1, <1>0 DEF Create, MayPublish, Publish
    <3> QED
      BY <2>1, <3>1, <3>2 DEF Create
  <2>2. CASE InviteDies(r)
    BY <2>2 DEF InviteDies
  <2>3. CASE Refuse(r)
    BY <2>3, <1>0 DEF Refuse
  <2> QED
    BY <1>1, <2>1, <2>2, <2>3
<1>2. ASSUME NEW w \in Workers, WorkerStep(w) \/ Crash(w)
      PROVE  TypeOK'
  <2> USE NewRecords DEF Step, Stop
  <2>1. CASE MintCode(w)
    BY <2>1, WorkerFields DEF MintCode
  <2>2. CASE CheckInvite(w) \/ DeliveryFails(w) \/ AnswerLost(w)
    <3>1. PICK to \in {"ready", "failing"} :
            worker' = [worker EXCEPT ![w].pc = to]
      BY <2>2 DEF CheckInvite, DeliveryFails, AnswerLost
    <3> QED
      BY <2>2, <3>1, WorkerFields DEF CheckInvite, DeliveryFails, AnswerLost
  <2>3. CASE ProviderAccepts(w)
    BY <2>3, WorkerFields DEF ProviderAccepts
  <2>4. CASE FinalizeSent(w)
    <3>1. worker[w].job \in Rows
      BY <2>4 DEF FinalizeSent, WorkersSound, WorkerSound, Busy
    <3>2. [row[worker[w].job] EXCEPT !.status = "SENT", !.token = NoWorker,
                                     !.lease = 0, !.cipher = FALSE]
            \in RowRecord
      BY <1>0, <3>1, RowFields
    <3> QED
      BY <2>4, <3>1, <3>2 DEF FinalizeSent
  <2>5. CASE RecordFailure(w)
    <3>1. CASE Owns(w)
      <4>1. PICK backoff \in Backoffs :
              row' = [row EXCEPT ![worker[w].job] =
                        FailedOnce(worker[w].job, worker[w].snap + 1, backoff)]
        BY <2>5, <3>1 DEF RecordFailure
      <4>2. FailedOnce(worker[w].job, worker[w].snap + 1, backoff) \in RowRecord
        BY <2>5, <3>1, SnapBound, FailedOnceType DEF RecordFailure, Busy
      <4> QED
        BY <2>5, <4>1, <4>2 DEF RecordFailure
    <3>2. CASE ~Owns(w)
      BY <2>5, <3>2 DEF RecordFailure
    <3> QED
      BY <3>1, <3>2
  <2>6. CASE AbortExit(w)
    BY <2>6 DEF AbortExit
  <2>7. CASE Crash(w)
    BY <2>7, <1>0 DEF Crash, MayPublish, Publish
  <2> QED
    BY <1>2, <2>1, <2>2, <2>3, <2>4, <2>5, <2>6, <2>7 DEF WorkerStep
<1>3. ASSUME NEW w \in Workers, NEW r \in Rows, NEW src \in {"qstash", "cron"},
             Claim(w, r, src)
      PROVE  row' \in [Rows -> RowRecord] /\ worker' \in [Workers -> WorkerRecord]
  <2>1. row[r].attempts \in 0..MaxAttempts
    BY RowFields
  <2>2. [row[r] EXCEPT !.status = "CLAIMED", !.token = w, !.lease = Lease]
          \in RowRecord
    BY <1>0, RowFields
  <2>3. [pc |-> "claimed", job |-> r, snap |-> row[r].attempts,
         left |-> Lease, src |-> src] \in WorkerRecord
    BY <2>1, NewRecords
  <2> QED
    BY <1>3, <2>2, <2>3 DEF Claim
<1>4. ASSUME NEW w \in Workers, NEW r \in Rows, Receive(w, r)
      PROVE  TypeOK'
  <2>1. queued' \in [Rows -> 0..MaxMessages]
    BY <1>4, <1>0 DEF Receive
  <2> QED
    BY <1>3, <1>4, <2>1 DEF Receive
<1>5. ASSUME NEW r \in Rows, HandOut(r) \/ CronPublishDeduplicated(r)
      PROVE  TypeOK'
  <2>1. CASE CronPublish(r) \/ CronPublishDeduplicated(r)
    BY <2>1, <1>0 DEF CronPublish, CronPublishDeduplicated, Publish
  <2>2. ASSUME NEW w \in Workers, CronFallback(w, r)
        PROVE  TypeOK'
    <3>1. queued' \in [Rows -> 0..MaxMessages]
      BY <2>2, <1>0 DEF CronFallback, MayPublish, Publish
    <3> QED
      BY <1>3, <2>2, <3>1 DEF CronFallback
  <2> QED
    BY <1>5, <2>1, <2>2 DEF HandOut
<1>6. CASE CronFind \/ CronDeadline \/ CronDone
  BY <1>6 DEF CronFind, CronDeadline, CronDone
<1>7. CASE CronCrash
  BY <1>7, NewRecords DEF CronCrash
<1>8. CASE Tick
  <2>1. \A n \in Nat : Less(n) \in Nat /\ Less(n) <= n
    BY LessType
  <2>2. \A n \in 0..Lease : Less(n) \in 0..Lease
    BY <2>1, ConstantsOK
  <2>3. \A r \in Rows :
          [row[r] EXCEPT !.lease = Less(@), !.wait = Less(@)] \in RowRecord
    BY <2>1, <2>2, RowFields
  <2>4. \A w \in Workers : [worker[w] EXCEPT !.left = Less(@)] \in WorkerRecord
    BY <2>2, WorkerFields
  <2> QED
    BY <1>8, <2>3, <2>4 DEF Tick
<1>9. CASE UNCHANGED vars
  BY <1>9 DEF vars
<1> QED
  BY <1>1, <1>2, <1>4, <1>5, <1>6, <1>7, <1>8, <1>9 DEF Next

----------------------------------------------------------------------------
(* The steps that write rows, field by field *)

LEMMA CreateReads ==
  ASSUME TypeOK, NEW r \in Rows, Create(r)
  PROVE  /\ row[r].status = "ABSENT"
         /\ \A x \in Rows \ {r} : row'[x] = row[x]
         /\ row'[r].status = "PENDING" /\ row'[r].cipher = (r \in InviteRows)
         /\ row'[r].token = row[r].token /\ row'[r].lease = row[r].lease
         /\ row'[r].attempts = row[r].attempts
         /\ UNCHANGED <<worker, codeOwner, codeMailed, accepted>>
<1>1. row[r] \in RowRecord
  BY DEF TypeOK
<1>2. row'[r] = [row[r] EXCEPT !.status = "PENDING", !.cipher = r \in InviteRows]
  BY DEF TypeOK, Create
<1> QED
  BY <1>1, <1>2 DEF Create, TypeOK, RowRecord

LEMMA ClaimsReads ==
  ASSUME TypeOK, NEW w \in Workers, NEW r \in Rows, NEW src \in {"qstash", "cron"},
         Claims(w, r, src)
  PROVE  /\ Open(r) /\ row[r].lease = 0 /\ ~Busy(w)
         /\ \A x \in Rows \ {r} : row'[x] = row[x]
         /\ row'[r].status = "CLAIMED" /\ row'[r].token = w
         /\ row'[r].lease = Lease
         /\ row'[r].attempts = row[r].attempts /\ row'[r].cipher = row[r].cipher
         /\ \A v \in Workers \ {w} : worker'[v] = worker[v]
         /\ worker'[w].pc = "claimed" /\ worker'[w].job = r
         /\ worker'[w].snap = row[r].attempts /\ worker'[w].left = Lease
         /\ UNCHANGED <<codeOwner, codeMailed, accepted>>
<1>1. row[r] \in RowRecord
  BY DEF TypeOK
<1>2. row'[r] = [row[r] EXCEPT !.status = "CLAIMED", !.token = w, !.lease = Lease]
  BY DEF TypeOK, Claims
<1>3. worker'[w] = [pc |-> "claimed", job |-> r, snap |-> row[r].attempts,
                    left |-> Lease, src |-> src]
  BY DEF TypeOK, Claims
<1>4. /\ \A x \in Rows \ {r} : row'[x] = row[x]
      /\ \A v \in Workers \ {w} : worker'[v] = worker[v]
  BY DEF TypeOK, Claims
<1>5. /\ row'[r].status = "CLAIMED" /\ row'[r].token = w
      /\ row'[r].lease = Lease
      /\ row'[r].attempts = row[r].attempts /\ row'[r].cipher = row[r].cipher
  BY <1>1, <1>2 DEF RowRecord
<1> QED
  BY <1>3, <1>4, <1>5 DEF Claims, Claimable

LEMMA SentReads ==
  ASSUME TypeOK, WorkersSound, NEW w \in Workers, Owns(w), FinalizeSent(w)
  PROVE  LET r == worker[w].job IN
         /\ r \in Rows /\ accepted[r]
         /\ \A x \in Rows \ {r} : row'[x] = row[x]
         /\ row'[r].status = "SENT" /\ row'[r].token = NoWorker
         /\ row'[r].lease = 0 /\ row'[r].cipher = FALSE
         /\ row'[r].attempts = row[r].attempts
         /\ \A v \in Workers \ {w} : worker'[v] = worker[v]
         /\ worker'[w] = Idle
         /\ UNCHANGED <<codeOwner, codeMailed, accepted>>
<1> DEFINE r == worker[w].job
<1>1. r \in Rows /\ accepted[r]
  BY DEF FinalizeSent, WorkersSound, WorkerSound, Busy
<1>2. row'[r] = [row[r] EXCEPT !.status = "SENT", !.token = NoWorker,
                               !.lease = 0, !.cipher = FALSE]
  BY <1>1 DEF FinalizeSent, TypeOK
<1>3. row[r] \in RowRecord
  BY <1>1 DEF TypeOK
<1>4. /\ row'[r].status = "SENT" /\ row'[r].token = NoWorker
      /\ row'[r].lease = 0 /\ row'[r].cipher = FALSE
      /\ row'[r].attempts = row[r].attempts
  BY <1>2, <1>3 DEF RowRecord
<1>5. /\ \A x \in Rows \ {r} : row'[x] = row[x]
      /\ \A v \in Workers \ {w} : worker'[v] = worker[v]
      /\ worker'[w] = Idle
      /\ UNCHANGED <<codeOwner, codeMailed, accepted>>
  BY <1>1 DEF FinalizeSent, Stop, TypeOK
<1> QED
  BY <1>1, <1>4, <1>5

LEMMA FailureReads ==
  ASSUME TypeOK, RowsSound, WorkersSound, NEW w \in Workers, Owns(w),
         RecordFailure(w)
  PROVE  LET r == worker[w].job
             n == row[r].attempts + 1 IN
         /\ r \in Rows /\ n \in 0..MaxAttempts
         /\ \A x \in Rows \ {r} : row'[x] = row[x]
         /\ row'[r].status = IF n = MaxAttempts THEN "FAILED" ELSE "PENDING"
         /\ row'[r].token = NoWorker /\ row'[r].lease = 0
         /\ row'[r].cipher = IF n = MaxAttempts THEN FALSE ELSE row[r].cipher
         /\ row'[r].attempts = n
         /\ \A v \in Workers \ {w} : worker'[v] = worker[v]
         /\ worker'[w] = Idle
         /\ UNCHANGED <<codeOwner, codeMailed, accepted>>
<1> DEFINE r == worker[w].job
           n == row[r].attempts + 1
<1>1. /\ r \in Rows /\ worker[w].snap + 1 = n /\ n \in 0..MaxAttempts
  BY SnapBound DEF RecordFailure, Busy
<1>2. PICK backoff \in Backoffs : row' = [row EXCEPT ![r] = FailedOnce(r, n, backoff)]
  BY <1>1 DEF RecordFailure
<1>3. row'[r] = FailedOnce(r, n, backoff) /\ row[r] \in RowRecord
  BY <1>1, <1>2 DEF TypeOK
<1> HIDE DEF n
<1>4. ASSUME n = MaxAttempts
      PROVE  /\ row'[r].status = "FAILED" /\ row'[r].attempts = n
             /\ row'[r].token = NoWorker /\ row'[r].lease = 0
             /\ row'[r].cipher = FALSE
  <2>1. n >= MaxAttempts
    BY <1>4, ConstantsOK
  <2>2. row'[r] = [row[r] EXCEPT !.status = "FAILED", !.attempts = n,
                                 !.token = NoWorker, !.lease = 0, !.wait = 0,
                                 !.cipher = FALSE]
    BY <1>3, <2>1 DEF FailedOnce
  <2> QED
    BY <1>3, <1>4, <2>2 DEF RowRecord
<1>5. ASSUME n # MaxAttempts
      PROVE  /\ row'[r].status = "PENDING" /\ row'[r].attempts = n
             /\ row'[r].token = NoWorker /\ row'[r].lease = 0
             /\ row'[r].cipher = row[r].cipher
  <2>1. ~(n >= MaxAttempts)
    BY <1>1, <1>5, ConstantsOK
  <2>2. row'[r] = [row[r] EXCEPT !.status = "PENDING", !.attempts = n,
                                 !.token = NoWorker, !.lease = 0, !.wait = backoff]
    BY <1>3, <2>1 DEF FailedOnce
  <2> QED
    BY <1>3, <2>2 DEF RowRecord
<1>6. /\ \A x \in Rows \ {r} : row'[x] = row[x]
      /\ \A v \in Workers \ {w} : worker'[v] = worker[v]
      /\ worker'[w] = Idle
      /\ UNCHANGED <<codeOwner, codeMailed, accepted>>
  BY <1>1, <1>2 DEF RecordFailure, Stop, TypeOK
<1> QED
  BY <1>1, <1>4, <1>5, <1>6 DEF n

LEMMA TickReads ==
  ASSUME TypeOK, Tick
  PROVE  /\ \A r \in Rows :
              /\ row'[r].status = row[r].status /\ row'[r].token = row[r].token
              /\ row'[r].attempts = row[r].attempts
              /\ row'[r].cipher = row[r].cipher
              /\ row'[r].lease = Less(row[r].lease)
         /\ \A w \in Workers :
              /\ worker'[w].pc = worker[w].pc /\ worker'[w].job = worker[w].job
              /\ worker'[w].snap = worker[w].snap
              /\ worker'[w].left = Less(worker[w].left)
         /\ Prompt => \A w \in Workers : Busy(w) => worker[w].left > 1
         /\ UNCHANGED <<codeOwner, codeMailed, accepted>>
<1>1. \A r \in Rows :
        row'[r] = [row[r] EXCEPT !.lease = Less(@), !.wait = Less(@)]
  BY DEF Tick
<1>2. \A w \in Workers : worker'[w] = [worker[w] EXCEPT !.left = Less(@)]
  BY DEF Tick
<1>3. ASSUME NEW r \in Rows
      PROVE  /\ row'[r].status = row[r].status /\ row'[r].token = row[r].token
             /\ row'[r].attempts = row[r].attempts
             /\ row'[r].cipher = row[r].cipher
             /\ row'[r].lease = Less(row[r].lease)
  <2> DEFINE lease == Less(row[r].lease)
             wait == Less(row[r].wait)
  <2>1. row[r] \in RowRecord
    BY DEF TypeOK
  <2>2. row'[r] = [row[r] EXCEPT !.lease = lease, !.wait = wait]
    BY <1>1
  <2> HIDE DEF lease, wait
  <2>3. /\ row'[r].status = row[r].status /\ row'[r].token = row[r].token
        /\ row'[r].attempts = row[r].attempts
        /\ row'[r].cipher = row[r].cipher
        /\ row'[r].lease = lease
    BY <2>1, <2>2 DEF RowRecord
  <2> QED
    BY <2>3 DEF lease
<1>4. ASSUME NEW w \in Workers
      PROVE  /\ worker'[w].pc = worker[w].pc /\ worker'[w].job = worker[w].job
             /\ worker'[w].snap = worker[w].snap
             /\ worker'[w].left = Less(worker[w].left)
  <2> DEFINE left == Less(worker[w].left)
  <2>1. worker[w] \in WorkerRecord
    BY DEF TypeOK
  <2>2. worker'[w] = [worker[w] EXCEPT !.left = left]
    BY <1>2
  <2> HIDE DEF left
  <2>3. /\ worker'[w].pc = worker[w].pc /\ worker'[w].job = worker[w].job
        /\ worker'[w].snap = worker[w].snap
        /\ worker'[w].left = left
    BY <2>1, <2>2 DEF WorkerRecord
  <2> QED
    BY <2>3 DEF left
<1> QED
  BY <1>3, <1>4 DEF Tick

\* A step that writes only how far a worker is.
LEMMA PcReads ==
  ASSUME TypeOK, NEW w \in Workers, NEW to \in {"ready", "accepted", "failing"},
         worker' = [worker EXCEPT ![w].pc = to]
  PROVE  /\ worker'[w].pc = to /\ worker'[w].job = worker[w].job
         /\ worker'[w].snap = worker[w].snap /\ worker'[w].left = worker[w].left
         /\ \A v \in Workers \ {w} : worker'[v] = worker[v]
BY DEF TypeOK, WorkerRecord

----------------------------------------------------------------------------
(* The invariant *)

LEMMA InitIInv == Init => IInv
<1> SUFFICES ASSUME Init PROVE IInv
  OBVIOUS
<1> USE ConstantsOK DEF Init
<1>1. TypeOK
  BY NewRecords DEF TypeOK
<1>2. RowsSound
  BY DEF RowsSound, RowSound, Absent, Open
<1>3. WorkersSound
  BY DEF WorkersSound, WorkerSound, Busy, Idle
<1>4. CodesSound
  BY DEF CodesSound, CodeSound, Absent, Idle
<1> QED
  BY <1>1, <1>2, <1>3, <1>4 DEF IInv

LEMMA RowsStep ==
  ASSUME IInv, [Next]_vars
  PROVE  RowsSound'
<1> USE DEF IInv
<1>1. CASE Quiet
  BY <1>1 DEF Quiet, RowsSound, RowSound, Open
<1>2. CASE Tick
  <2>1. \A r \in Rows : row[r].lease = 0 => Less(row[r].lease) = 0
    BY LessType
  <2> QED
    BY <1>2, <2>1, TickReads DEF RowsSound, RowSound, Open
<1>3. ASSUME NEW r \in Rows, Create(r) PROVE RowsSound'
  <2>1. ASSUME NEW x \in Rows, x # r PROVE RowSound(x)'
    BY <1>3, <2>1, CreateReads DEF RowsSound, RowSound, Open
  <2>2. RowSound(r)'
    BY <1>3, CreateReads DEF RowsSound, RowSound, Open
  <2> QED
    BY <2>1, <2>2 DEF RowsSound, RowSound
<1>4. ASSUME NEW w \in Workers, NEW r \in Rows, NEW src \in {"qstash", "cron"},
             Claims(w, r, src)
      PROVE  RowsSound'
  BY <1>4, ClaimsReads DEF RowsSound, RowSound, Open
<1>5. ASSUME NEW w \in Workers, MintCode(w) \/ ProviderAccepts(w)
      PROVE  RowsSound'
  <2>1. /\ row' = row
        /\ \A r \in Rows : accepted[r] => accepted'[r]
    BY <1>5 DEF MintCode, ProviderAccepts, TypeOK
  <2> QED
    BY <2>1 DEF RowsSound, RowSound, Open
<1>6. ASSUME NEW w \in Workers, NEW to \in {"ready", "failing"}, Moves(w, to)
      PROVE  RowsSound'
  BY <1>6 DEF Moves, RowsSound, RowSound, Open
<1>7. ASSUME NEW w \in Workers, Owns(w), FinalizeSent(w)
      PROVE  RowsSound'
  <2> DEFINE r == worker[w].job
  <2>1. /\ r \in Rows /\ accepted[r]
        /\ \A x \in Rows \ {r} : row'[x] = row[x]
        /\ row'[r].status = "SENT" /\ row'[r].token = NoWorker
        /\ row'[r].lease = 0 /\ row'[r].cipher = FALSE
        /\ row'[r].attempts = row[r].attempts
        /\ accepted' = accepted
    BY <1>7, SentReads
  <2>2. row[r].status = "CLAIMED"
    BY <1>7 DEF Owns
  <2> HIDE DEF r
  <2> QED
    BY <2>1, <2>2 DEF RowsSound, RowSound, Open
<1>8. ASSUME NEW w \in Workers, Owns(w), RecordFailure(w)
      PROVE  RowsSound'
  <2>1. PICK r \in Rows, n \in 0..MaxAttempts :
          /\ row[r].status = "CLAIMED"
          /\ \A x \in Rows \ {r} : row'[x] = row[x]
          /\ row'[r].status = IF n = MaxAttempts THEN "FAILED" ELSE "PENDING"
          /\ row'[r].token = NoWorker /\ row'[r].lease = 0
          /\ row'[r].cipher = IF n = MaxAttempts THEN FALSE ELSE row[r].cipher
          /\ row'[r].attempts = n
          /\ accepted' = accepted
    BY <1>8, FailureReads DEF Owns
  <2>2. ASSUME NEW x \in Rows, x # r PROVE RowSound(x)'
    BY <2>1, <2>2 DEF RowsSound, RowSound, Open
  <2>3. RowSound(r)'
    <3>1. CASE n = MaxAttempts
      BY <2>1, <3>1 DEF RowSound, Open
    <3>2. CASE n # MaxAttempts
      BY <2>1, <3>2 DEF RowsSound, RowSound, Open
    <3> QED
      BY <3>1, <3>2
  <2> QED
    BY <2>2, <2>3 DEF RowsSound
<1>9. ASSUME NEW S \in SUBSET Workers, Abandons(S)
      PROVE  RowsSound'
  BY <1>9 DEF Abandons, RowsSound, RowSound, Open
<1> QED
  BY <1>1, <1>2, <1>3, <1>4, <1>5, <1>6, <1>7, <1>8, <1>9, StepKinds

LEMMA WorkersStep ==
  ASSUME IInv, [Next]_vars
  PROVE  WorkersSound'
<1> USE DEF IInv
<1> SUFFICES ASSUME NEW v \in Workers PROVE WorkerSound(v)'
  BY DEF WorkersSound
<1>0. WorkerSound(v)
  BY DEF WorkersSound
<1>1. CASE Quiet
  BY <1>0, <1>1 DEF Quiet, WorkerSound, Busy, Owns
<1>2. CASE Tick
  <2>1. ASSUME Busy(v)
        PROVE  /\ worker[v].left \in Nat
               /\ Prompt => worker[v].left > 1
               /\ worker[v].job \in Rows
    <3>1. worker[v].left \in Nat
      <4>1. worker[v] \in WorkerRecord
        BY DEF TypeOK
      <4>2. worker[v].left \in 0..Lease
        BY <4>1, WorkerFields
      <4> QED
        BY <4>2, ConstantsOK
    <3>2. Prompt => worker[v].left > 1
      BY <1>2, <2>1, TickReads
    <3>3. worker[v].job \in Rows
      BY <1>0, <2>1 DEF WorkerSound
    <3> QED
      BY <3>1, <3>2, <3>3
  <2>2. ASSUME Busy(v)
        PROVE  /\ worker[v].left = 0 => Less(worker[v].left) = 0
               /\ Prompt => Less(worker[v].left) # 0
    BY <2>1, <2>2, LessType
  <2> QED
    BY <1>0, <1>2, <2>1, <2>2, TickReads DEF WorkerSound, Busy, Owns
<1>3. ASSUME NEW r \in Rows, Create(r) PROVE WorkerSound(v)'
  BY <1>0, <1>3, CreateReads DEF WorkerSound, Busy, Owns
<1>4. ASSUME NEW w \in Workers, NEW r \in Rows, NEW src \in {"qstash", "cron"},
             Claims(w, r, src)
      PROVE  WorkerSound(v)'
  <2>1. CASE v = w
    BY <1>4, <2>1, ClaimsReads, ConstantsOK DEF WorkerSound, Busy, Owns
  <2>2. CASE v # w
    BY <1>0, <1>4, <2>2, ClaimsReads DEF WorkerSound, Busy, Owns
  <2> QED
    BY <2>1, <2>2
<1>5. ASSUME NEW w \in Workers, MintCode(w)
      PROVE  WorkerSound(v)'
  <2>1. /\ row' = row /\ accepted' = accepted /\ worker[w].pc = "claimed"
        /\ worker' = [worker EXCEPT ![w].pc = "ready"]
    BY <1>5 DEF MintCode, Step
  <2> QED
    BY <1>0, <2>1, PcReads DEF WorkerSound, Busy, Owns
<1>6. ASSUME NEW w \in Workers, ProviderAccepts(w)
      PROVE  WorkerSound(v)'
  <2>1. /\ row' = row /\ worker[w].pc = "ready"
        /\ worker' = [worker EXCEPT ![w].pc = "accepted"]
        /\ accepted' = [accepted EXCEPT ![worker[w].job] = TRUE]
    BY <1>6 DEF ProviderAccepts, Step
  <2>2. /\ worker[w].job \in Rows
        /\ accepted'[worker[w].job]
        /\ \A x \in Rows : accepted[x] => accepted'[x]
    BY <2>1 DEF WorkersSound, WorkerSound, Busy, TypeOK
  <2> QED
    BY <1>0, <2>1, <2>2, PcReads DEF WorkerSound, Busy, Owns
<1>7. ASSUME NEW w \in Workers, NEW to \in {"ready", "failing"}, Moves(w, to)
      PROVE  WorkerSound(v)'
  BY <1>0, <1>7, PcReads DEF Moves, WorkerSound, Busy, Owns
<1>8. ASSUME NEW w \in Workers, Owns(w), FinalizeSent(w) \/ RecordFailure(w)
      PROVE  WorkerSound(v)'
  <2> DEFINE r == worker[w].job
  <2>1. /\ r \in Rows
        /\ \A x \in Rows \ {r} : row'[x] = row[x]
        /\ row'[r].status \in {"SENT", "FAILED", "PENDING"}
        /\ \A x \in Workers \ {w} : worker'[x] = worker[x]
        /\ worker'[w] = Idle
        /\ accepted' = accepted
    BY <1>8, SentReads, FailureReads
  <2>2. row[r].status = "CLAIMED" /\ row[r].token = w
    BY <1>8 DEF Owns
  <2> HIDE DEF r
  <2>3. CASE v = w
    BY <2>1, <2>3 DEF WorkerSound, Busy, Idle
  <2>4. CASE v # w
    BY <1>0, <2>1, <2>2, <2>4 DEF WorkerSound, Busy, Owns
  <2> QED
    BY <2>3, <2>4
<1>9. ASSUME NEW S \in SUBSET Workers, Abandons(S)
      PROVE  WorkerSound(v)'
  BY <1>0, <1>9 DEF Abandons, WorkerSound, Busy, Owns, Idle
<1> QED
  BY <1>1, <1>2, <1>3, <1>4, <1>5, <1>6, <1>7, <1>8, <1>9, StepKinds

\* Two busy workers on one row are told apart by who owns it.
LEMMA SoleOwner ==
  ASSUME TypeOK, WorkersSound, Prompt, NEW v \in Workers, NEW w \in Workers,
         Busy(v), Busy(w), worker[v].job = worker[w].job
  PROVE  v = w /\ Owns(w)
<1>1. Owns(v) /\ Owns(w)
  BY DEF WorkersSound, WorkerSound
<1> QED
  BY <1>1 DEF Owns

LEMMA CodesStep ==
  ASSUME IInv, [Next]_vars, Prompt, NEW r \in Rows \ InviteRows
  PROVE  CodeSound(r)'
<1> USE DEF IInv
<1>0. CodeSound(r)
  BY DEF CodesSound
<1>1. CASE Quiet
  BY <1>0, <1>1 DEF Quiet, CodeSound
<1>2. CASE Tick
  BY <1>0, <1>2, TickReads DEF CodeSound
<1>3. ASSUME NEW x \in Rows, Create(x) PROVE CodeSound(r)'
  BY <1>0, <1>3, CreateReads DEF CodeSound
<1>4. ASSUME NEW w \in Workers, NEW x \in Rows, NEW src \in {"qstash", "cron"},
             Claims(w, x, src)
      PROVE  CodeSound(r)'
  BY <1>0, <1>4, ClaimsReads DEF CodeSound
<1>5. ASSUME NEW w \in Workers, MintCode(w)
      PROVE  CodeSound(r)'
  <2>1. PICK x \in Rows :
          /\ worker[w].job = x /\ Busy(w) /\ worker[w].pc = "claimed"
          /\ row' = row
          /\ worker' = [worker EXCEPT ![w].pc = "ready"]
          /\ codeOwner' = [codeOwner EXCEPT ![x] = w]
          /\ codeMailed' = [codeMailed EXCEPT ![x] = FALSE]
    BY <1>5 DEF MintCode, Step, Busy, WorkersSound, WorkerSound
  <2>2. CASE x = r
    <3>1. row[r].status # "SENT"
      BY <2>1, <2>2, SoleOwner DEF Owns
    <3>2. \A v \in Workers : worker[v].job = r /\ Busy(v) => v = w
      BY <2>1, <2>2, SoleOwner
    <3>3. codeOwner'[r] = w
      BY <2>1, <2>2 DEF TypeOK
    <3> QED
      BY <2>1, <2>2, <3>1, <3>2, <3>3, PcReads DEF CodeSound, Busy
  <2>3. CASE x # r
    <3>1. codeOwner'[r] = codeOwner[r] /\ codeMailed'[r] = codeMailed[r]
      BY <2>1, <2>3 DEF TypeOK
    <3> QED
      BY <1>0, <2>1, <2>3, <3>1, PcReads DEF CodeSound
  <2> QED
    BY <2>2, <2>3
<1>6. ASSUME NEW w \in Workers, ProviderAccepts(w)
      PROVE  CodeSound(r)'
  <2>1. PICK x \in Rows :
          /\ worker[w].job = x /\ worker[w].pc = "ready"
          /\ row' = row /\ codeOwner' = codeOwner
          /\ worker' = [worker EXCEPT ![w].pc = "accepted"]
          /\ codeMailed' = [codeMailed EXCEPT ![x] = @ \/ codeOwner[x] = w]
    BY <1>6 DEF ProviderAccepts, Step, Busy, WorkersSound, WorkerSound
  <2>2. codeMailed[r] => codeMailed'[r]
    BY <2>1 DEF TypeOK
  <2>3. x = r => codeMailed'[r]
    BY <1>0, <2>1 DEF TypeOK, CodeSound
  <2> QED
    BY <1>0, <2>1, <2>2, <2>3, PcReads DEF CodeSound
<1>7. ASSUME NEW w \in Workers, NEW to \in {"ready", "failing"}, Moves(w, to)
      PROVE  CodeSound(r)'
  BY <1>0, <1>7, PcReads DEF Moves, CodeSound
<1>8. ASSUME NEW w \in Workers, Owns(w), FinalizeSent(w)
      PROVE  CodeSound(r)'
  <2>1. PICK x \in Rows :
          /\ worker[w].job = x /\ worker[w].pc = "accepted"
          /\ \A y \in Rows \ {x} : row'[y] = row[y]
          /\ \A y \in Workers \ {w} : worker'[y] = worker[y]
          /\ worker'[w] = Idle
          /\ codeOwner' = codeOwner /\ codeMailed' = codeMailed
    BY <1>8, SentReads DEF FinalizeSent
  <2> QED
    BY <1>0, <2>1 DEF CodeSound, Idle
<1>9. ASSUME NEW w \in Workers, Owns(w), RecordFailure(w)
      PROVE  CodeSound(r)'
  <2>1. PICK x \in Rows :
          /\ \A y \in Rows \ {x} : row'[y] = row[y]
          /\ row'[x].status \in {"FAILED", "PENDING"}
          /\ \A y \in Workers \ {w} : worker'[y] = worker[y]
          /\ worker'[w] = Idle
          /\ codeOwner' = codeOwner /\ codeMailed' = codeMailed
    BY <1>9, FailureReads
  <2> QED
    BY <1>0, <2>1 DEF CodeSound, Idle
<1>10. ASSUME NEW S \in SUBSET Workers, Abandons(S)
      PROVE  CodeSound(r)'
  BY <1>0, <1>10 DEF Abandons, CodeSound, Idle
<1> QED
  BY <1>1, <1>2, <1>3, <1>4, <1>5, <1>6, <1>7, <1>8, <1>9, <1>10, StepKinds

LEMMA NextIInv == IInv /\ [Next]_vars => IInv'
<1> SUFFICES ASSUME IInv, [Next]_vars PROVE IInv'
  OBVIOUS
<1>1. TypeOK'
  BY TypeStep DEF IInv
<1>2. CodesSound'
  BY CodesStep DEF CodesSound
<1> QED
  BY <1>1, <1>2, RowsStep, WorkersStep DEF IInv

----------------------------------------------------------------------------

\* The invariant holds throughout.
THEOREM Invariance == Spec => []IInv
BY InitIInv, NextIInv, PTL DEF Spec

\* Every variable keeps its type.
THEOREM TypeCorrect == Spec => []TypeOK
<1>1. IInv => TypeOK
  BY DEF IInv
<1> QED
  BY <1>1, Invariance, PTL

\* Of two invocations delivering one row, at most one has lease time left.
THEOREM ExclusiveLease == Spec => []LeaseExclusion
<1>1. IInv => LeaseExclusion
  BY DEF IInv, LeaseExclusion, WorkersSound, WorkerSound, Owns
<1> QED
  BY <1>1, Invariance, PTL

\* The invite token is erased with the row's settlement and not before, and a
\* row is given up exactly when its attempts are used up.
THEOREM ErasedWhenSettled == Spec => []ErasedExactlyWhenSettled
<1>1. IInv => ErasedExactlyWhenSettled
  BY DEF IInv, ErasedExactlyWhenSettled, RowsSound, RowSound, Settled, Open
<1> QED
  BY <1>1, Invariance, PTL

\* Without stalled deliveries a row is in one worker's hands at a time.
THEOREM SoleWorker == Spec => []OneWorkerPerRow
<1>1. IInv => OneWorkerPerRow
  BY SoleOwner DEF IInv, OneWorkerPerRow
<1> QED
  BY <1>1, Invariance, PTL

\* Without stalled deliveries the code a SENT row mailed is the current one.
THEOREM UsableCode == Spec => []SentCodeUsable
<1>1. IInv => SentCodeUsable
  BY DEF IInv, SentCodeUsable, CodesSound, CodeSound
<1> QED
  BY <1>1, Invariance, PTL

----------------------------------------------------------------------------
(* Refinement *)

LEMMA InitPromise == Init => Promise!Init
BY DEF Init, Promise!Init, Absent, PhaseOf

\* A step that moves no row between phases and counts no try is a stutter.
LEMMA Stutter ==
  ASSUME accepted' = accepted,
         \A r \in Rows : /\ PhaseOf(row'[r].status) = PhaseOf(row[r].status)
                         /\ row'[r].attempts = row[r].attempts
  PROVE  UNCHANGED Promise!vars
BY DEF Promise!vars

LEMMA StepPromise ==
  ASSUME IInv, [Next]_vars
  PROVE  [Promise!Next]_(Promise!vars)
<1> USE DEF IInv
<1>1. CASE Quiet
  BY <1>1, Stutter DEF Quiet
<1>2. CASE Tick
  BY <1>2, TickReads, Stutter
<1>3. ASSUME NEW r \in Rows, Create(r) PROVE Promise!Open(r)
  <2>1. /\ row[r].status = "ABSENT" /\ row'[r].status = "PENDING"
        /\ row'[r].attempts = row[r].attempts
        /\ \A x \in Rows \ {r} : row'[x] = row[x]
        /\ accepted' = accepted
    BY <1>3, CreateReads
  <2> QED
    BY <2>1 DEF Promise!Open, PhaseOf
<1>4. ASSUME NEW w \in Workers, NEW r \in Rows, NEW src \in {"qstash", "cron"},
             Claims(w, r, src)
      PROVE  UNCHANGED Promise!vars
  BY <1>4, ClaimsReads, Stutter DEF Open, PhaseOf
<1>5. ASSUME NEW w \in Workers, MintCode(w)
      PROVE  UNCHANGED Promise!vars
  BY <1>5, Stutter DEF MintCode
<1>6. ASSUME NEW w \in Workers, ProviderAccepts(w)
      PROVE  \E r \in Rows : Promise!Accept(r)
  <2>1. PICK r \in Rows : /\ row[r].status # "ABSENT" /\ row' = row
                          /\ accepted' = [accepted EXCEPT ![r] = TRUE]
    BY <1>6 DEF ProviderAccepts, Step, Busy, WorkersSound, WorkerSound
  <2>2. row[r].status \in {"PENDING", "CLAIMED", "SENT", "FAILED"}
    BY <2>1 DEF TypeOK, RowRecord
  <2>3. Promise!Accept(r)
    BY <2>1, <2>2 DEF Promise!Accept, PhaseOf
  <2> QED
    BY <2>3
<1>7. ASSUME NEW w \in Workers, NEW to \in {"ready", "failing"}, Moves(w, to)
      PROVE  UNCHANGED Promise!vars
  BY <1>7, Stutter DEF Moves
<1>8. ASSUME NEW w \in Workers, Owns(w), FinalizeSent(w)
      PROVE  \E r \in Rows : Promise!Settle(r)
  <2>1. PICK r \in Rows :
          /\ row[r].status = "CLAIMED" /\ row'[r].status = "SENT"
          /\ row'[r].attempts = row[r].attempts
          /\ \A x \in Rows \ {r} : row'[x] = row[x]
          /\ accepted[r] /\ accepted' = accepted
    BY <1>8, SentReads DEF Owns
  <2>2. Promise!Settle(r)
    BY <2>1 DEF Promise!Settle, PhaseOf
  <2> QED
    BY <2>2
<1>9. ASSUME NEW w \in Workers, Owns(w), RecordFailure(w)
      PROVE  \E r \in Rows : Promise!Fail(r)
  <2>1. PICK r \in Rows, n \in 0..MaxAttempts :
          /\ row[r].status = "CLAIMED" /\ n = row[r].attempts + 1
          /\ row'[r].status = IF n = MaxAttempts THEN "FAILED" ELSE "PENDING"
          /\ row'[r].attempts = n
          /\ \A x \in Rows \ {r} : row'[x] = row[x]
          /\ accepted' = accepted
    BY <1>9, FailureReads DEF Owns
  <2>2. n >= MaxAttempts <=> n = MaxAttempts
    BY ConstantsOK
  <2>3. PhaseOf(row[r].status) = "open"
    BY <2>1 DEF PhaseOf
  <2>4. PhaseOf(row'[r].status) = IF n >= MaxAttempts THEN "failed" ELSE "open"
    BY <2>1, <2>2 DEF PhaseOf
  <2>5. Promise!Fail(r)
    BY <2>1, <2>3, <2>4 DEF Promise!Fail
  <2> QED
    BY <2>5
<1>10. ASSUME NEW S \in SUBSET Workers, Abandons(S)
      PROVE  UNCHANGED Promise!vars
  BY <1>10, Stutter DEF Abandons
<1> QED
  BY <1>1, <1>2, <1>3, <1>4, <1>5, <1>6, <1>7, <1>8, <1>9, <1>10, StepKinds
     DEF Promise!Next

\* The outbox implements its promise: no interleaving of claims, crashes,
\* aborts and stale workers settles a row twice, marks it SENT without an
\* accepted email, or loses or double-counts a recorded failure.
THEOREM Refinement == Spec => KeepsPromise
<1>1. Init => Promise!Init
  BY InitPromise
<1>2. IInv /\ [Next]_vars => [Promise!Next]_(Promise!vars)
  BY StepPromise
<1> QED
  BY <1>1, <1>2, Invariance, PTL DEF Spec, KeepsPromise, Promise!Spec
============================================================================
