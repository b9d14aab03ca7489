--------------------------- MODULE OutboxPromise ---------------------------
(***************************************************************************)
(* What the transactional email outbox promises about each of its rows,   *)
(* with no worker, lease, message or clock in sight:                       *)
(*   - a row opens once and is settled at most once, as sent or as failed; *)
(*   - it is sent only after the mail provider accepted an email for it;   *)
(*   - every recorded failure counts exactly one try, no try is lost, and  *)
(*     the row is given up exactly at the last try.                        *)
(* A late worker may still get an email accepted after the row settled:    *)
(* delivery is at least once.                                              *)
(***************************************************************************)
EXTENDS Naturals

CONSTANTS Rows, MaxAttempts

VARIABLES phase,     \* "none", "open", "sent" or "failed"
          tries,     \* failures recorded so far
          accepted   \* has the provider accepted an email for the row?

vars == <<phase, tries, accepted>>

Init ==
  /\ phase = [r \in Rows |-> "none"]
  /\ tries = [r \in Rows |-> 0]
  /\ accepted = [r \in Rows |-> FALSE]

Open(r) ==
  /\ phase[r] = "none"
  /\ phase' = [phase EXCEPT ![r] = "open"]
  /\ UNCHANGED <<tries, accepted>>

Accept(r) ==
  /\ phase[r] # "none"
  /\ accepted' = [accepted EXCEPT ![r] = TRUE]
  /\ UNCHANGED <<phase, tries>>

Settle(r) ==
  /\ phase[r] = "open"
  /\ accepted[r]
  /\ phase' = [phase EXCEPT ![r] = "sent"]
  /\ UNCHANGED <<tries, accepted>>

Fail(r) ==
  /\ phase[r] = "open"
  /\ tries' = [tries EXCEPT ![r] = @ + 1]
  /\ phase' = [phase EXCEPT ![r] =
                 IF tries[r] + 1 >= MaxAttempts THEN "failed" ELSE "open"]
  /\ UNCHANGED accepted

Next == \E r \in Rows : Open(r) \/ Accept(r) \/ Settle(r) \/ Fail(r)

Spec == Init /\ [][Next]_vars
============================================================================
