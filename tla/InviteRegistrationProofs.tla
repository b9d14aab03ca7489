---------------------- MODULE InviteRegistrationProofs ----------------------
(* Safety of invite-gated registration, for every set of invites, sessions, *)
(* requests and emails.                                                     *)
EXTENDS InviteRegistration, TLAPS

\* What a session row remembers about the invite it was exchanged for.
SessionsBound ==
  \A s \in Sessions :
    session[s].status \in {"PENDING", "CONSUMED"} =>
      /\ session[s].invite \in Invites
      /\ invite[session[s].invite].status # "ABSENT"
      /\ session[s].email = invite[session[s].invite].email

\* What a request may rely on when it resumes after a database call.
RequestsBound ==
  \A q \in Requests :
    LET i == request[q].invite
        s == request[q].session IN
    /\ request[q].pc = "exchanging" /\ i # None => invite[i].status # "ABSENT"
    /\ request[q].pc = "registering" =>
         /\ s \in Sessions
         /\ session[s].status # "ABSENT"
         /\ request[q].email \in Emails
         /\ session[s].email \in {None, request[q].email}
    /\ request[q].pc = "reuse" =>
         /\ s \in Sessions
         /\ session[s].status # "ABSENT"
         /\ session[s].invite \in Invites
         /\ invite[session[s].invite].status = "REDEEMED"

\* Without unbound invites every issued one names its email, and no request
\* ever sees the reuse signal.
NoReuseSeen ==
  ~Unbound =>
    /\ \A i \in Invites : invite[i].status # "ABSENT" => invite[i].email # None
    /\ \A q \in Requests : request[q].pc # "reuse"
    /\ evidence = {}

IInv ==
  /\ TypeOK
  /\ SessionsBound
  /\ RequestsBound
  /\ OneLiveInvitePerEmail
  /\ RegistrationIsAtomic
  /\ ConsumedMeansRedeemed
  /\ EvidenceIsTrue
  /\ NoReuseSeen

----------------------------------------------------------------------------

LEMMA InitIInv == Init => IInv
BY ConstantsOK DEF Init, IInv, TypeOK, SessionsBound, RequestsBound,
   OneLiveInvitePerEmail, RegistrationIsAtomic, ConsumedMeansRedeemed,
   EvidenceIsTrue, NoReuseSeen, InviteRecord, SessionRecord, RequestRecord,
   NoInvite, NoSession, Resting, Live

\* The rows and the request records that the actions write are well typed.
LEMMA RowTypes ==
  /\ \A e \in Emails \cup {None} : Issued(e) \in InviteRecord
  /\ \A v \in InviteRecord :
       /\ v.email \in Emails \cup {None}
       /\ [v EXCEPT !.status = "REVOKED"] \in InviteRecord
       /\ \A e \in Emails :
            [v EXCEPT !.status = "REDEEMED", !.by = e] \in InviteRecord
       /\ [v EXCEPT !.expired = TRUE] \in InviteRecord
  /\ [NoSession EXCEPT !.status = "DECOY"] \in SessionRecord
  /\ \A i \in Invites, e \in Emails \cup {None} :
       [NoSession EXCEPT !.status = "PENDING", !.invite = i, !.email = e]
         \in SessionRecord
  /\ \A v \in SessionRecord :
       /\ [v EXCEPT !.status = "CONSUMED"] \in SessionRecord
       /\ [v EXCEPT !.status = "DELETED"] \in SessionRecord
       /\ [v EXCEPT !.expired = TRUE] \in SessionRecord
  /\ Resting \in RequestRecord
  /\ \A v \in RequestRecord :
       /\ v.invite \in Invites \cup {None}
       /\ \A i \in Invites \cup {None} :
            [v EXCEPT !.pc = "exchanging", !.invite = i] \in RequestRecord
       /\ \A s \in Sessions, e \in Emails :
            [v EXCEPT !.pc = "registering", !.session = s, !.email = e]
              \in RequestRecord
       /\ [v EXCEPT !.pc = "reuse"] \in RequestRecord
<1> USE DEF InviteRecord, SessionRecord, RequestRecord
<1>1. \A e \in Emails \cup {None} : Issued(e) \in InviteRecord
  BY DEF Issued, NoInvite
<1>2. ASSUME NEW v \in InviteRecord
      PROVE  /\ v.email \in Emails \cup {None}
             /\ [v EXCEPT !.status = "REVOKED"] \in InviteRecord
             /\ \A e \in Emails :
                  [v EXCEPT !.status = "REDEEMED", !.by = e] \in InviteRecord
             /\ [v EXCEPT !.expired = TRUE] \in InviteRecord
  OBVIOUS
<1>3. /\ [NoSession EXCEPT !.status = "DECOY"] \in SessionRecord
      /\ \A i \in Invites, e \in Emails \cup {None} :
           [NoSession EXCEPT !.status = "PENDING", !.invite = i, !.email = e]
             \in SessionRecord
  BY DEF NoSession
<1>4. ASSUME NEW v \in SessionRecord
      PROVE  /\ [v EXCEPT !.status = "CONSUMED"] \in SessionRecord
             /\ [v EXCEPT !.status = "DELETED"] \in SessionRecord
             /\ [v EXCEPT !.expired = TRUE] \in SessionRecord
  OBVIOUS
<1>5. Resting \in RequestRecord
  BY DEF Resting
<1>6. ASSUME NEW v \in RequestRecord
      PROVE  /\ v.invite \in Invites \cup {None}
             /\ \A i \in Invites \cup {None} :
                  [v EXCEPT !.pc = "exchanging", !.invite = i] \in RequestRecord
             /\ \A s \in Sessions, e \in Emails :
                  [v EXCEPT !.pc = "registering", !.session = s, !.email = e]
                    \in RequestRecord
             /\ [v EXCEPT !.pc = "reuse"] \in RequestRecord
  OBVIOUS
<1> HIDE DEF InviteRecord, SessionRecord, RequestRecord
<1> QED
  BY <1>1, <1>2, <1>3, <1>4, <1>5, <1>6

LEMMA TypeStep == TypeOK /\ RequestsBound /\ [Next]_vars => TypeOK'
<1> SUFFICES ASSUME TypeOK, RequestsBound, [Next]_vars PROVE TypeOK'
  OBVIOUS
<1> USE RowTypes DEF TypeOK
<1>1. CASE AccountStep
  <2>1. ASSUME NEW i \in Invites, NEW e \in Emails, Issue(i, e) PROVE TypeOK'
    BY <2>1 DEF Issue
  <2>2. ASSUME NEW i \in Invites, CreateUnboundInvite(i) PROVE TypeOK'
    BY <2>2 DEF CreateUnboundInvite
  <2>3. ASSUME NEW i \in Invites, Revoke(i) PROVE TypeOK'
    BY <2>3 DEF Revoke
  <2>4. ASSUME NEW i \in Invites, NEW j \in Invites, Resend(i, j) PROVE TypeOK'
    BY <2>4 DEF Resend
  <2>5. ASSUME NEW e \in Emails, TrustedCreateUser(e) PROVE TypeOK'
    BY <2>5 DEF TrustedCreateUser
  <2>6. ASSUME NEW e \in Emails, DeleteAccount(e) PROVE TypeOK'
    BY <2>6 DEF DeleteAccount
  <2> QED
    BY <1>1, <2>1, <2>2, <2>3, <2>4, <2>5, <2>6 DEF AccountStep
<1>2. ASSUME NEW q \in Requests, RequestStep(q) PROVE TypeOK'
  <2> USE DEF Finish
  <2>1. ASSUME NEW i \in Invites, LookupInvite(q, i) PROVE TypeOK'
    BY <2>1 DEF LookupInvite
  <2>2. ASSUME NEW s \in Sessions, CreateSession(q, s) PROVE TypeOK'
    <3>1. CASE request[q].invite = None
      BY <2>2, <3>1 DEF CreateSession
    <3>2. CASE request[q].invite # None
      <4>1. request[q].invite \in Invites
        BY <3>2
      <4>2. invite[request[q].invite].email \in Emails \cup {None}
        BY <4>1
      <4> QED
        BY <2>2, <3>2, <4>1, <4>2 DEF CreateSession
    <3> QED
      BY <3>1, <3>2
  <2>3. ASSUME NEW s \in Sessions, NEW e \in Emails, ReadSession(q, s, e)
        PROVE TypeOK'
    BY <2>3 DEF ReadSession
  <2>4. ASSUME RegisterCommits(q) PROVE TypeOK'
    BY <2>4 DEF RegisterCommits, RequestsBound
  <2>5. ASSUME RegisterDetectsReuse(q) PROVE TypeOK'
    BY <2>5 DEF RegisterDetectsReuse
  <2>6. ASSUME RecordReuse(q) PROVE TypeOK'
    BY <2>6 DEF RecordReuse, RequestsBound
  <2>7. ASSUME RegisterDenied(q) \/ GiveUp(q) PROVE TypeOK'
    BY <2>7 DEF RegisterDenied, GiveUp
  <2> QED
    BY <1>2, <2>1, <2>2, <2>3, <2>4, <2>5, <2>6, <2>7 DEF RequestStep
<1>3. CASE TimeStep
  <2>1. ASSUME NEW i \in Invites, InviteExpires(i) PROVE TypeOK'
    BY <2>1 DEF InviteExpires
  <2>2. ASSUME NEW s \in Sessions, SessionExpires(s) PROVE TypeOK'
    BY <2>2 DEF SessionExpires
  <2>3. ASSUME Cleanup PROVE TypeOK'
    <3>1. PICK S : /\ session' = [s \in Sessions |->
                                  IF s \in S
                                  THEN [session[s] EXCEPT !.status = "DELETED"]
                                  ELSE session[s]]
                   /\ UNCHANGED <<invite, users, delivered, verifying,
                                  evidence, request>>
      BY <2>3 DEF Cleanup
    <3> QED
      BY <3>1
  <2> QED
    BY <1>3, <2>1, <2>2, <2>3 DEF TimeStep
<1>4. CASE UNCHANGED vars
  BY <1>4 DEF vars
<1> QED
  BY <1>1, <1>2, <1>3, <1>4 DEF Next
\* The successful registration, with the state it depends on spelled out.
LEMMA CommitReads ==
  ASSUME IInv, NEW q \in Requests, RegisterCommits(q)
  PROVE  \E s \in Sessions, i \in Invites, e \in Emails :
           /\ e \notin users
           /\ session[s].status = "PENDING" /\ session[s].invite = i
           /\ Live(i) /\ invite[i].email = session[s].email
           /\ session[s].email \in {None, e}
           /\ session' = [session EXCEPT ![s].status = "CONSUMED"]
           /\ users' = users \cup {e}
           /\ invite' = [invite EXCEPT ![i] =
                            [@ EXCEPT !.status = "REDEEMED", !.by = e]]
           /\ verifying' = verifying \cup {e}
           /\ request' = [request EXCEPT ![q] = Resting]
           /\ evidence' = evidence
<1> DEFINE s == request[q].session
           i == session[s].invite
           e == request[q].email
<1>1. s \in Sessions /\ e \in Emails /\ session[s].email \in {None, e}
  BY DEF RegisterCommits, IInv, RequestsBound
<1>2. i \in Invites
  BY <1>1 DEF RegisterCommits, SessionConsumable, IInv, SessionsBound
<1> QED
  BY <1>1, <1>2 DEF RegisterCommits, SessionConsumable, EmailFree, Redeemable,
     Finish

LEMMA CleanupReads ==
  ASSUME Cleanup
  PROVE  \E S \in SUBSET Sessions :
           /\ session' = [s \in Sessions |->
                            IF s \in S
                            THEN [session[s] EXCEPT !.status = "DELETED"]
                            ELSE session[s]]
           /\ UNCHANGED <<invite, users, delivered, verifying, evidence, request>>
BY DEF Cleanup

\* A successful registration preserves the invariant.
LEMMA CommitIInv ==
  ASSUME IInv, TypeOK', NEW q \in Requests, RegisterCommits(q)
  PROVE  IInv'
<1>1. PICK s \in Sessions, i \in Invites, e \in Emails :
        /\ e \notin users
        /\ session[s].status = "PENDING" /\ session[s].invite = i
        /\ Live(i) /\ invite[i].email = session[s].email
        /\ session[s].email \in {None, e}
        /\ session' = [session EXCEPT ![s].status = "CONSUMED"]
        /\ users' = users \cup {e}
        /\ invite' = [invite EXCEPT ![i] =
                         [@ EXCEPT !.status = "REDEEMED", !.by = e]]
        /\ verifying' = verifying \cup {e}
        /\ request' = [request EXCEPT ![q] = Resting]
        /\ evidence' = evidence
  BY CommitReads
<1>2. \A j \in Invites :
        invite'[j] = IF j = i
                     THEN [invite[j] EXCEPT !.status = "REDEEMED", !.by = e]
                     ELSE invite[j]
  BY <1>1 DEF IInv, TypeOK
<1>3. \A j \in Invites :
        /\ invite'[j].status = IF j = i THEN "REDEEMED" ELSE invite[j].status
        /\ invite'[j].email = invite[j].email
        /\ invite'[j].expired = invite[j].expired
        /\ invite'[j].by = IF j = i THEN e ELSE invite[j].by
  BY <1>2 DEF IInv, TypeOK, InviteRecord
<1>4. \A t \in Sessions :
        /\ session'[t].status = IF t = s THEN "CONSUMED" ELSE session[t].status
        /\ session'[t].invite = session[t].invite
        /\ session'[t].email = session[t].email
  BY <1>1 DEF IInv, TypeOK, SessionRecord
<1>5. SessionsBound'
  BY <1>1, <1>3, <1>4 DEF IInv, SessionsBound
<1>6. RequestsBound'
  BY <1>1, <1>3, <1>4 DEF IInv, RequestsBound, TypeOK, RequestRecord, Resting
<1>7. OneLiveInvitePerEmail'
  BY <1>1, <1>3 DEF IInv, OneLiveInvitePerEmail, Live
<1>8. RegistrationIsAtomic'
  BY <1>1, <1>3, ConstantsOK DEF IInv, RegistrationIsAtomic, Live
<1>9. ConsumedMeansRedeemed'
  BY <1>1, <1>3, <1>4 DEF IInv, ConsumedMeansRedeemed, SessionsBound, Live
<1>10. EvidenceIsTrue'
  BY <1>1, <1>3 DEF IInv, EvidenceIsTrue, TypeOK
<1>11. \A p \in Requests : request'[p].pc = "reuse" => request[p].pc = "reuse"
  BY <1>1 DEF IInv, TypeOK, Resting
<1>12. NoReuseSeen'
  BY <1>1, <1>3, <1>11, Zenon DEF IInv, NoReuseSeen, Live
<1> QED
  BY <1>5, <1>6, <1>7, <1>8, <1>9, <1>10, <1>12 DEF IInv

\* A resend preserves the invariant: the predecessor is revoked as it issues.
LEMMA ResendIInv ==
  ASSUME IInv, TypeOK', NEW i \in Invites, NEW j \in Invites, Resend(i, j)
  PROVE  IInv'
<1>1. /\ Live(i) /\ invite[i].email # None /\ invite[i].email \in Emails
      /\ invite[j].status = "ABSENT" /\ i # j
      /\ UNCHANGED <<session, users, verifying, evidence, request>>
  BY DEF Resend, IInv, TypeOK, InviteRecord, Live
<1>2. \A k \in Invites :
        invite'[k] = IF k = j THEN Issued(invite[i].email)
                     ELSE IF k = i THEN [invite[i] EXCEPT !.status = "REVOKED"]
                     ELSE invite[k]
  BY <1>1 DEF Resend, IInv, TypeOK
<1>3. /\ /\ invite'[j].status = "ISSUED" /\ invite'[j].email = invite[i].email
         /\ ~invite'[j].expired /\ invite'[j].by = None
      /\ /\ invite'[i].status = "REVOKED" /\ invite'[i].email = invite[i].email
         /\ invite'[i].by = invite[i].by
      /\ \A k \in Invites \ {i, j} : invite'[k] = invite[k]
  BY <1>1, <1>2 DEF IInv, TypeOK, InviteRecord, Issued
<1>4. SessionsBound'
  BY <1>1, <1>3 DEF IInv, SessionsBound, Live
<1>9. RequestsBound'
  <2>1. \A k \in Invites :
          /\ invite[k].status # "ABSENT" => invite'[k].status # "ABSENT"
          /\ invite[k].status = "REDEEMED" => invite'[k].status = "REDEEMED"
    BY <1>1, <1>3 DEF Live
  <2> QED
    BY <1>1, <2>1 DEF IInv, RequestsBound, TypeOK, RequestRecord
<1>5. OneLiveInvitePerEmail'
  BY <1>1, <1>3 DEF IInv, OneLiveInvitePerEmail, Live
<1>6. RegistrationIsAtomic'
  <2>1. invite[i].by = None /\ invite[j].by = None
    BY <1>1 DEF IInv, RegistrationIsAtomic, Live
  <2>2. \A k \in Invites : invite'[k].by = invite[k].by
    BY <1>3, <2>1
  <2> QED
    BY <1>1, <1>3, <2>1, <2>2 DEF IInv, RegistrationIsAtomic
<1>7. ConsumedMeansRedeemed' /\ EvidenceIsTrue'
  BY <1>1, <1>3 DEF IInv, TypeOK, ConsumedMeansRedeemed, EvidenceIsTrue,
     SessionsBound, Live
<1>8. NoReuseSeen'
  BY <1>1, <1>3 DEF IInv, NoReuseSeen
<1> QED
  BY <1>4, <1>5, <1>6, <1>7, <1>8, <1>9 DEF IInv

\* Every step preserves the invariant: per action, first the conjuncts it
\* leaves alone, then those it can disturb.
LEMMA NextIInv == IInv /\ [Next]_vars => IInv'
<1> SUFFICES ASSUME IInv, [Next]_vars PROVE IInv'
  OBVIOUS
<1>0. TypeOK /\ TypeOK'
  BY TypeStep DEF IInv
<1> USE <1>0, ConstantsOK
    DEF TypeOK, InviteRecord, SessionRecord, RequestRecord, IInv, Live
<1>1. CASE AccountStep
  <2>1. ASSUME NEW i \in Invites, NEW e \in Emails, Issue(i, e) PROVE IInv'
    <3> USE <2>1 DEF Issue, Issued, NoInvite
    <3>1. SessionsBound' /\ RequestsBound'
      BY DEF SessionsBound, RequestsBound
    <3>2. OneLiveInvitePerEmail'
      BY DEF OneLiveInvitePerEmail
    <3>3. RegistrationIsAtomic'
      BY DEF RegistrationIsAtomic
    <3>4. ConsumedMeansRedeemed' /\ EvidenceIsTrue' /\ NoReuseSeen'
      BY DEF SessionsBound, ConsumedMeansRedeemed, EvidenceIsTrue, NoReuseSeen
    <3> QED
      BY <3>1, <3>2, <3>3, <3>4
  <2>2. ASSUME NEW i \in Invites, CreateUnboundInvite(i) PROVE IInv'
    <3> USE <2>2 DEF CreateUnboundInvite, Issued, NoInvite
    <3>1. SessionsBound' /\ RequestsBound'
      BY DEF SessionsBound, RequestsBound
    <3>2. OneLiveInvitePerEmail'
      BY DEF OneLiveInvitePerEmail
    <3>3. RegistrationIsAtomic'
      BY DEF RegistrationIsAtomic
    <3>4. ConsumedMeansRedeemed' /\ EvidenceIsTrue' /\ NoReuseSeen'
      BY DEF SessionsBound, ConsumedMeansRedeemed, EvidenceIsTrue, NoReuseSeen
    <3> QED
      BY <3>1, <3>2, <3>3, <3>4
  <2>3. ASSUME NEW i \in Invites, Revoke(i) PROVE IInv'
    <3> USE <2>3 DEF Revoke
    <3>1. SessionsBound' /\ RequestsBound'
      BY DEF SessionsBound, RequestsBound
    <3>2. OneLiveInvitePerEmail'
      BY DEF OneLiveInvitePerEmail
    <3>3. RegistrationIsAtomic'
      BY DEF RegistrationIsAtomic
    <3>4. ConsumedMeansRedeemed' /\ EvidenceIsTrue' /\ NoReuseSeen'
      BY DEF SessionsBound, ConsumedMeansRedeemed, EvidenceIsTrue, NoReuseSeen
    <3> QED
      BY <3>1, <3>2, <3>3, <3>4
  <2>4. ASSUME NEW i \in Invites, NEW j \in Invites, Resend(i, j) PROVE IInv'
    BY <1>0, <2>4, ResendIInv
  <2>5. ASSUME NEW e \in Emails, TrustedCreateUser(e) PROVE IInv'
    BY <2>5 DEF TrustedCreateUser, SessionsBound, RequestsBound,
       OneLiveInvitePerEmail, RegistrationIsAtomic, ConsumedMeansRedeemed,
       EvidenceIsTrue, NoReuseSeen
  <2>6. ASSUME NEW e \in Emails, DeleteAccount(e) PROVE IInv'
    <3> USE <2>6 DEF DeleteAccount
    <3>1. SessionsBound' /\ RequestsBound' /\ OneLiveInvitePerEmail'
      BY DEF SessionsBound, RequestsBound, OneLiveInvitePerEmail
    <3>2. RegistrationIsAtomic'
      BY DEF RegistrationIsAtomic
    <3>3. ConsumedMeansRedeemed' /\ EvidenceIsTrue' /\ NoReuseSeen'
      BY DEF ConsumedMeansRedeemed, EvidenceIsTrue, NoReuseSeen
    <3> QED
      BY <3>1, <3>2, <3>3
  <2> QED
    BY <1>1, <2>1, <2>2, <2>3, <2>4, <2>5, <2>6 DEF AccountStep
<1>2. ASSUME NEW q \in Requests, RequestStep(q) PROVE IInv'
  <2> USE DEF Finish, Resting
  <2>1. ASSUME NEW i \in Invites, LookupInvite(q, i) PROVE IInv'
    <3> USE <2>1 DEF LookupInvite
    <3>1. SessionsBound' /\ OneLiveInvitePerEmail' /\ RegistrationIsAtomic'
          /\ ConsumedMeansRedeemed'
      BY DEF SessionsBound, OneLiveInvitePerEmail, RegistrationIsAtomic,
         ConsumedMeansRedeemed
    <3>2. EvidenceIsTrue'
      BY DEF EvidenceIsTrue, RequestsBound
    <3>3. RequestsBound'
      BY DEF RequestsBound
    <3>4. NoReuseSeen'
      BY DEF NoReuseSeen
    <3> QED
      BY <3>1, <3>2, <3>3, <3>4
  <2>2. ASSUME NEW s \in Sessions, CreateSession(q, s) PROVE IInv'
    <3> USE <2>2 DEF CreateSession, NoSession
    <3>1. OneLiveInvitePerEmail' /\ RegistrationIsAtomic' /\ EvidenceIsTrue'
      BY DEF OneLiveInvitePerEmail, RegistrationIsAtomic, EvidenceIsTrue
    <3>2. SessionsBound'
      BY DEF SessionsBound, RequestsBound
    <3>3. RequestsBound'
      BY DEF RequestsBound
    <3>4. ConsumedMeansRedeemed'
      BY DEF ConsumedMeansRedeemed
    <3>5. NoReuseSeen'
      BY DEF NoReuseSeen
    <3> QED
      BY <3>1, <3>2, <3>3, <3>4, <3>5
  <2>3. ASSUME NEW s \in Sessions, NEW e \in Emails, ReadSession(q, s, e)
        PROVE IInv'
    <3> USE <2>3 DEF ReadSession
    <3>1. SessionsBound' /\ OneLiveInvitePerEmail' /\ RegistrationIsAtomic'
          /\ ConsumedMeansRedeemed'
      BY DEF SessionsBound, OneLiveInvitePerEmail, RegistrationIsAtomic,
         ConsumedMeansRedeemed
    <3>2. EvidenceIsTrue'
      BY DEF EvidenceIsTrue, RequestsBound
    <3>3. RequestsBound'
      BY DEF RequestsBound
    <3>4. NoReuseSeen'
      BY DEF NoReuseSeen
    <3> QED
      BY <3>1, <3>2, <3>3, <3>4
  <2>4. ASSUME RegisterCommits(q) PROVE IInv'
    BY <1>0, <2>4, CommitIInv
  <2>5. ASSUME RegisterDetectsReuse(q) PROVE IInv'
    <3> USE <2>5 DEF RegisterDetectsReuse
    <3>1. SessionsBound' /\ OneLiveInvitePerEmail' /\ RegistrationIsAtomic'
          /\ ConsumedMeansRedeemed' /\ EvidenceIsTrue'
      BY DEF SessionsBound, OneLiveInvitePerEmail, RegistrationIsAtomic,
         ConsumedMeansRedeemed, EvidenceIsTrue
    <3>2. RequestsBound'
      BY DEF RequestsBound, SessionConsumable, SessionsBound
    <3>3. Unbound
      <4> SUFFICES ASSUME ~Unbound PROVE FALSE
        OBVIOUS
      <4> DEFINE s == request[q].session
                 i == session[s].invite
      <4>1. /\ s \in Sessions /\ i \in Invites
            /\ invite[i].status = "REDEEMED"
            /\ invite[i].email = session[s].email
            /\ session[s].email \in {None, request[q].email}
            /\ request[q].email \notin users
        BY DEF SessionConsumable, EmailFree, SessionsBound, RequestsBound
      <4> HIDE DEF s, i
      <4>2. invite[i].email # None
        BY <4>1 DEF NoReuseSeen
      <4>3. invite[i].by \in users /\ invite[i].email \in {None, invite[i].by}
        BY <4>1 DEF RegistrationIsAtomic
      <4> QED
        BY <4>1, <4>2, <4>3
    <3>4. NoReuseSeen'
      BY <3>3 DEF NoReuseSeen
    <3> QED
      BY <3>1, <3>2, <3>4
  <2>6. ASSUME RecordReuse(q) PROVE IInv'
    <3> USE <2>6 DEF RecordReuse
    <3>1. SessionsBound' /\ OneLiveInvitePerEmail' /\ RegistrationIsAtomic'
          /\ ConsumedMeansRedeemed'
      BY DEF SessionsBound, OneLiveInvitePerEmail, RegistrationIsAtomic,
         ConsumedMeansRedeemed
    <3>2. EvidenceIsTrue'
      BY DEF EvidenceIsTrue, RequestsBound
    <3>3. RequestsBound'
      BY DEF RequestsBound
    <3>4. NoReuseSeen'
      BY DEF NoReuseSeen
    <3> QED
      BY <3>1, <3>2, <3>3, <3>4
  <2>7. ASSUME RegisterDenied(q) \/ GiveUp(q) PROVE IInv'
    <3> USE <2>7 DEF RegisterDenied, GiveUp
    <3>1. SessionsBound' /\ OneLiveInvitePerEmail' /\ RegistrationIsAtomic'
          /\ ConsumedMeansRedeemed'
      BY DEF SessionsBound, OneLiveInvitePerEmail, RegistrationIsAtomic,
         ConsumedMeansRedeemed
    <3>2. EvidenceIsTrue'
      BY DEF EvidenceIsTrue, RequestsBound
    <3>3. RequestsBound'
      BY DEF RequestsBound
    <3>4. NoReuseSeen'
      BY DEF NoReuseSeen
    <3> QED
      BY <3>1, <3>2, <3>3, <3>4
  <2> QED
    BY <1>2, <2>1, <2>2, <2>3, <2>4, <2>5, <2>6, <2>7 DEF RequestStep
<1>3. CASE TimeStep
  <2>1. ASSUME NEW i \in Invites, InviteExpires(i) PROVE IInv'
    <3> USE <2>1 DEF InviteExpires
    <3>1. SessionsBound' /\ RequestsBound'
      BY DEF SessionsBound, RequestsBound
    <3>2. OneLiveInvitePerEmail'
      BY DEF OneLiveInvitePerEmail
    <3>3. RegistrationIsAtomic'
      BY DEF RegistrationIsAtomic
    <3>4. ConsumedMeansRedeemed' /\ EvidenceIsTrue' /\ NoReuseSeen'
      BY DEF SessionsBound, ConsumedMeansRedeemed, EvidenceIsTrue, NoReuseSeen
    <3> QED
      BY <3>1, <3>2, <3>3, <3>4
  <2>2. ASSUME NEW s \in Sessions, SessionExpires(s) PROVE IInv'
    BY <2>2 DEF SessionExpires, SessionsBound, RequestsBound,
       OneLiveInvitePerEmail, RegistrationIsAtomic, ConsumedMeansRedeemed,
       EvidenceIsTrue, NoReuseSeen
  <2>3. ASSUME Cleanup PROVE IInv'
    <3>1. PICK S \in SUBSET Sessions :
            /\ session' = [s \in Sessions |->
                             IF s \in S
                             THEN [session[s] EXCEPT !.status = "DELETED"]
                             ELSE session[s]]
            /\ UNCHANGED <<invite, users, delivered, verifying, evidence,
                           request>>
      BY <2>3, CleanupReads
    <3>2. OneLiveInvitePerEmail' /\ RegistrationIsAtomic' /\ EvidenceIsTrue'
          /\ NoReuseSeen'
      BY <3>1 DEF OneLiveInvitePerEmail, RegistrationIsAtomic, EvidenceIsTrue,
         NoReuseSeen
    <3>3. SessionsBound'
      BY <3>1 DEF SessionsBound
    <3>4. RequestsBound'
      BY <3>1 DEF RequestsBound
    <3>5. ConsumedMeansRedeemed'
      BY <3>1 DEF ConsumedMeansRedeemed, SessionsBound
    <3> QED
      BY <3>2, <3>3, <3>4, <3>5
  <2> QED
    BY <1>3, <2>1, <2>2, <2>3 DEF TimeStep
<1>4. CASE UNCHANGED vars
  BY <1>4 DEF vars, SessionsBound, RequestsBound, OneLiveInvitePerEmail,
     RegistrationIsAtomic, ConsumedMeansRedeemed, EvidenceIsTrue, NoReuseSeen
<1> QED
  BY <1>1, <1>2, <1>3, <1>4 DEF Next

----------------------------------------------------------------------------

\* The invariant holds throughout.
THEOREM Invariance == Spec => []IInv
<1>1. Init => IInv
  BY InitIInv
<1>2. IInv /\ [Next]_vars => IInv'
  BY NextIInv
<1> QED
  BY <1>1, <1>2, PTL DEF Spec

\* Every variable keeps its type.
THEOREM TypeCorrect == Spec => []TypeOK
<1>1. IInv => TypeOK
  BY DEF IInv
<1> QED
  BY <1>1, Invariance, PTL

\* However issue, resend, revoke, expiry and redemption interleave, an email
\* never has two invites that could still be redeemed.
THEOREM OneLiveInvite == Spec => []OneLiveInvitePerEmail
<1>1. IInv => OneLiveInvitePerEmail
  BY DEF IInv
<1> QED
  BY <1>1, Invariance, PTL

\* Invite, user and verification email are committed together or not at all,
\* whatever requests run against the same session, invite or email.
THEOREM AtomicRegistration == Spec => []RegistrationIsAtomic
<1>1. IInv => RegistrationIsAtomic
  BY DEF IInv
<1> QED
  BY <1>1, Invariance, PTL

\* At most one of the sessions exchanged for a token is ever consumed, and
\* only together with the redemption of the token's invite.
THEOREM OneConsumedSession == Spec => []ConsumedMeansRedeemed
<1>1. IInv => ConsumedMeansRedeemed
  BY DEF IInv
<1> QED
  BY <1>1, Invariance, PTL

\* Reuse evidence is recorded for redeemed invites only.
THEOREM TrueEvidence == Spec => []EvidenceIsTrue
<1>1. IInv => EvidenceIsTrue
  BY DEF IInv
<1> QED
  BY <1>1, Invariance, PTL

\* With email-bound invites alone, the reuse of an invite is never recorded.
THEOREM HiddenReuse == Spec => []BoundInvitesHideReuse
<1>1. IInv => BoundInvitesHideReuse
  BY DEF IInv, NoReuseSeen, BoundInvitesHideReuse
<1> QED
  BY <1>1, Invariance, PTL

\* No step reopens or rewrites a redeemed or revoked invite.
LEMMA ClosedStep ==
  IInv /\ [Next]_vars =>
    \A i \in Invites :
      invite[i].status \in {"REDEEMED", "REVOKED"} => invite'[i] = invite[i]
<1> SUFFICES ASSUME IInv, [Next]_vars, NEW i \in Invites,
                    invite[i].status \in {"REDEEMED", "REVOKED"}
             PROVE  invite'[i] = invite[i]
  OBVIOUS
<1> USE DEF IInv, TypeOK, Live
<1>1. CASE AccountStep
  BY <1>1 DEF AccountStep, Issue, CreateUnboundInvite, Revoke, Resend,
     TrustedCreateUser, DeleteAccount
<1>2. ASSUME NEW q \in Requests, RequestStep(q)
      PROVE  invite'[i] = invite[i]
  <2>1. CASE RegisterCommits(q)
    BY <2>1, CommitReads
  <2>2. CASE ~RegisterCommits(q)
    BY <1>2, <2>2 DEF RequestStep, LookupInvite, CreateSession, ReadSession,
       RegisterDetectsReuse, RecordReuse, RegisterDenied, GiveUp
  <2> QED
    BY <2>1, <2>2
<1>3. CASE TimeStep
  BY <1>3 DEF TimeStep, InviteExpires, SessionExpires, Cleanup
<1>4. CASE UNCHANGED vars
  BY <1>4 DEF vars
<1> QED
  BY <1>1, <1>2, <1>3, <1>4 DEF Next

\* Redemption and revocation are final.
THEOREM ClosedInvites == Spec => ClosedInvitesStayClosed
<1>1. IInv /\ [Next]_vars =>
        [\A i \in Invites :
           invite[i].status \in {"REDEEMED", "REVOKED"} => UNCHANGED invite[i]]_vars
  BY ClosedStep
<1> QED
  BY <1>1, Invariance, PTL DEF Spec, ClosedInvitesStayClosed

\* A session moves on or stays, whoever steps.
LEMMA SessionStep ==
  IInv /\ [Next]_vars => \A s \in Sessions : SessionMovesOn(s, session'[s])
<1> SUFFICES ASSUME IInv, [Next]_vars, NEW s \in Sessions
             PROVE  SessionMovesOn(s, session'[s])
  OBVIOUS
<1> USE DEF SessionMovesOn
<1>1. CASE UNCHANGED session
  BY <1>1
<1>2. session[s] \in SessionRecord
  BY DEF IInv, TypeOK
<1>3. ASSUME NEW q \in Requests, RequestStep(q)
      PROVE  SessionMovesOn(s, session'[s])
  <2>1. CASE RegisterCommits(q)
    BY <2>1, <1>2 DEF RegisterCommits, SessionConsumable, SessionRecord, IInv, TypeOK
  <2>2. ASSUME NEW t \in Sessions, CreateSession(q, t)
        PROVE  SessionMovesOn(s, session'[s])
    BY <2>2 DEF CreateSession, IInv, TypeOK
  <2>3. CASE \/ \E i \in Invites : LookupInvite(q, i)
             \/ \E t \in Sessions, e \in Emails : ReadSession(q, t, e)
             \/ RegisterDetectsReuse(q) \/ RecordReuse(q) \/ RegisterDenied(q) \/ GiveUp(q)
    BY <1>1, <2>3 DEF LookupInvite, ReadSession, RegisterDetectsReuse, RecordReuse,
       RegisterDenied, GiveUp
  <2> QED
    BY <1>3, <2>1, <2>2, <2>3 DEF RequestStep
<1>4. ASSUME NEW t \in Sessions, SessionExpires(t)
      PROVE  SessionMovesOn(s, session'[s])
  BY <1>2, <1>4 DEF SessionExpires, SessionRecord, IInv, TypeOK
<1>5. CASE Cleanup
  BY <1>2, <1>5 DEF Cleanup, SessionRecord
<1>6. CASE AccountStep \/ UNCHANGED vars \/ \E i \in Invites : InviteExpires(i)
  BY <1>1, <1>6 DEF AccountStep, Issue, CreateUnboundInvite, Revoke, Resend,
     TrustedCreateUser, DeleteAccount, InviteExpires, vars
<1> QED
  BY <1>3, <1>4, <1>5, <1>6 DEF Next, TimeStep

\* An erased session is not brought back by a request that read it before, and
\* decoys are never consumed.
THEOREM SessionsOnlyMoveOn == Spec => SessionsMoveOn
<1>1. IInv /\ [Next]_vars => [\A s \in Sessions : SessionMovesOn(s, session'[s])]_vars
  BY SessionStep
<1> QED
  BY <1>1, Invariance, PTL DEF Spec, SessionsMoveOn
============================================================================
