------------------------- MODULE UserAccountProofs -------------------------
(* Safety of sign-in, activation, reset and sessions for any number of       *)
(* codes, links, passwords, browsers and requests, and any bounds.           *)
EXTENDS UserAccount, FiniteSetTheorems, TLAPS

\* A cookie is of a version the user has had, and one of the present version that
\* came from a password proves the present password.
CookieSound(c) ==
  c.version # None =>
    /\ c.version \in Nat /\ c.version <= user.version
    /\ c.by = "signin" /\ c.version = user.version => c.secret = user.hash

\* So does a request that authorize has let through.
RequestSound(m) ==
  m.pc = "authorized" =>
    /\ m.version <= user.version
    /\ m.version = user.version => m.secret = user.hash

IInv ==
  /\ TypeOK
  /\ \A s \in Sessions : CookieSound(cookie[s])
  /\ \A q \in Requests : RequestSound(request[q])

----------------------------------------------------------------------------
(* Records *)

Rehashed(v, p) == [v EXCEPT !.hash = p, !.version = @ + 1]

Verified(v, p) == [v EXCEPT !.status = "ACTIVE", !.verified = TRUE, !.hash = p,
                            !.legacy = FALSE, !.version = @ + 1]

LEMMA UserFields ==
  ASSUME NEW v \in UserRow
  PROVE  /\ v.version \in Nat /\ v.hash \in Passwords \cup {None}
         /\ LET u == [v EXCEPT !.status = "GONE"] IN
            /\ u \in UserRow /\ u.version = v.version /\ u.hash = v.hash
            /\ u.verified = v.verified
BY DEF UserRow, Statuses

LEMMA UserRehashed ==
  ASSUME NEW v \in UserRow, NEW p \in Passwords \cup {None}
  PROVE  LET u == Rehashed(v, p) IN
         u \in UserRow /\ u.version = v.version + 1 /\ u.verified = v.verified
<1> DEFINE n == v.version + 1
<1>1. n \in Nat
  BY DEF UserRow
<1>2. Rehashed(v, p) = [v EXCEPT !.hash = p, !.version = n]
  BY DEF Rehashed
<1> HIDE DEF n
<1>3. LET u == [v EXCEPT !.hash = p, !.version = n] IN
      u \in UserRow /\ u.version = n /\ u.verified = v.verified
  BY <1>1 DEF UserRow
<1> QED
  BY <1>2, <1>3 DEF n

LEMMA UserVerified ==
  ASSUME NEW v \in UserRow, NEW p \in Passwords \cup {None}
  PROVE  LET u == Verified(v, p) IN u \in UserRow /\ u.version = v.version + 1
<1> DEFINE n == v.version + 1
<1>1. n \in Nat
  BY DEF UserRow
<1>2. Verified(v, p) = [v EXCEPT !.status = "ACTIVE", !.verified = TRUE, !.hash = p,
                                 !.legacy = FALSE, !.version = n]
  BY DEF Verified
<1> HIDE DEF n
<1>3. LET u == [v EXCEPT !.status = "ACTIVE", !.verified = TRUE, !.hash = p,
                         !.legacy = FALSE, !.version = n] IN
      u \in UserRow /\ u.version = n
  BY <1>1 DEF UserRow, Statuses
<1> QED
  BY <1>2, <1>3 DEF n

LEMMA MemoryFields ==
  ASSUME NEW v \in Memory
  PROVE  /\ v.version \in Nat /\ v.secret \in Passwords \cup {None}
         /\ v.saw \in Codes \cup Links \cup {None}
BY DEF Memory

\* What the steps make of a request's memory.
WithPc(v, pc) == [v EXCEPT !.pc = pc]
WithSaw(v, pc, x) == [v EXCEPT !.pc = pc, !.saw = x]
WithSecret(v, pc, p) == [v EXCEPT !.pc = pc, !.secret = p]
WithBoth(v, pc, x, p) == [v EXCEPT !.pc = pc, !.saw = x, !.secret = p]
WithVersion(v, pc, p, n) == [v EXCEPT !.pc = pc, !.secret = p, !.version = n]

LEMMA MakesPc ==
  ASSUME NEW v \in Memory, NEW pc \in Steps
  PROVE  LET m == WithPc(v, pc) IN m \in Memory /\ m.pc = pc
BY DEF Memory, WithPc

LEMMA MakesSaw ==
  ASSUME NEW v \in Memory, NEW pc \in Steps, NEW x \in Codes \cup Links \cup {None}
  PROVE  LET m == WithSaw(v, pc, x) IN m \in Memory /\ m.pc = pc
BY DEF Memory, WithSaw

LEMMA MakesSecret ==
  ASSUME NEW v \in Memory, NEW pc \in Steps, NEW p \in Passwords \cup {None}
  PROVE  LET m == WithSecret(v, pc, p) IN m \in Memory /\ m.pc = pc
BY DEF Memory, WithSecret

LEMMA MakesBoth ==
  ASSUME NEW v \in Memory, NEW pc \in Steps, NEW x \in Codes \cup Links \cup {None},
         NEW p \in Passwords \cup {None}
  PROVE  LET m == WithBoth(v, pc, x, p) IN m \in Memory /\ m.pc = pc
BY DEF Memory, WithBoth

LEMMA MakesVersion ==
  ASSUME NEW v \in Memory, NEW pc \in Steps, NEW p \in Passwords \cup {None},
         NEW n \in Nat
  PROVE  LET m == WithVersion(v, pc, p, n) IN
         m \in Memory /\ m.pc = pc /\ m.secret = p /\ m.version = n
BY DEF Memory, WithVersion

LEMMA RestingFields ==
  /\ Resting \in Memory /\ Resting.pc = "idle"
  /\ [Resting EXCEPT !.pc = "purge"] \in Memory
  /\ [Resting EXCEPT !.pc = "purge"].pc = "purge"
BY DEF Resting, Memory, Steps

LEMMA CodeFields ==
  /\ NoCode \in CodeRow
  /\ \A c \in Codes : Fresh(c) \in CodeRow
  /\ \A v \in CodeRow : /\ v.value \in Codes \cup {None} /\ v.attempts \in Nat
                        /\ [v EXCEPT !.attempts = @ + 1] \in CodeRow
                        /\ \A a \in Ages : [v EXCEPT !.age = a] \in CodeRow
BY DEF NoCode, Fresh, CodeRow, Ages

----------------------------------------------------------------------------
(* What a step does to the user, the requests and the cookies *)

LEMMA UserSteps ==
  ASSUME TypeOK, [Next]_vars
  PROVE  /\ user' \in UserRow
         /\ \/ user'.version = user.version /\ user'.hash = user.hash
            \/ user'.version = user.version + 1 /\ cookie' = cookie
<1>0. user \in UserRow /\ \A q \in Requests : request[q].secret \in Passwords \cup {None}
  BY MemoryFields DEF TypeOK
<1>1. ASSUME NEW q \in Requests, VerifyActivate(q) \/ ResetPassword(q) \/ ChangePassword(q)
      PROVE  /\ user' \in UserRow /\ cookie' = cookie
             /\ user' = user \/ user'.version = user.version + 1
  <2>1. CASE VerifyActivate(q)
    <3>1. user' \in {user, Verified(user, request[q].secret)} /\ cookie' = cookie
      BY <2>1 DEF VerifyActivate, Verified
    <3> QED
      BY <1>0, <3>1, UserVerified
  <2>2. CASE ResetPassword(q)
    <3>1. user' \in {user, Rehashed(user, request[q].secret)} /\ cookie' = cookie
      BY <2>2 DEF ResetPassword, WithPassword, Rehashed
    <3> QED
      BY <1>0, <3>1, UserRehashed
  <2>3. CASE ChangePassword(q)
    <3>1. user' \in {user, Rehashed(user, request[q].secret)} /\ cookie' = cookie
      BY <2>3 DEF ChangePassword, WithPassword, Rehashed
    <3> QED
      BY <1>0, <3>1, UserRehashed
  <2> QED
    BY <1>1, <2>1, <2>2, <2>3
<1>2. ASSUME NEW q \in Requests, DeleteAccount(q)
      PROVE  user' \in UserRow /\ user'.version = user.version /\ user'.hash = user.hash
  BY <1>0, <1>2, UserFields DEF DeleteAccount
<1>3. ASSUME NEW q \in Requests, VerifyStep(q)
      PROVE  user' = user \/ VerifyActivate(q)
  BY <1>3 DEF VerifyStep, ResendCheck, ResendIssue, VerifyMiss, VerifyMatch,
     VerifySession, MissRead, MissCount, MissPurge
<1>4. ASSUME NEW q \in Requests, PasswordStep(q)
      PROVE  user' = user \/ ResetPassword(q)
  BY <1>4 DEF PasswordStep, Authorize, IssueJwt, RequestReset, ClearLinks, CreateLink,
     ReadLink
<1>5. ASSUME NEW q \in Requests, SettingsStep(q)
      PROVE  user' = user \/ ChangePassword(q) \/ DeleteAccount(q)
  BY <1>5 DEF SettingsStep, StartSettings, ComparePassword, UpdateProfile,
     CompleteOnboarding
<1>6. ASSUME \/ \E c \in Codes : MailCode(c)
             \/ CodeAges
             \/ \E t \in Links : LinkExpires(t)
             \/ \E q \in Requests : Die(q)
             \/ UNCHANGED vars
      PROVE  user' = user
  BY <1>6 DEF MailCode, CodeAges, LinkExpires, Die, vars
<1> QED
  BY <1>0, <1>1, <1>2, <1>3, <1>4, <1>5, <1>6 DEF Next

\* A request's memory is rewritten, and it comes to be let through only by the row
\* it was compared with.
Goes(q) ==
  \E m \in Memory :
    /\ request' = [request EXCEPT ![q] = m]
    /\ m.pc = "authorized" =>
         user' = user /\ m.version = user.version /\ m.secret = user.hash

LEMMA FinishGoes ==
  ASSUME NEW q \in Requests, Finish(q)
  PROVE  Goes(q)
BY RestingFields DEF Finish, Goes

LEMMA GoGoes ==
  ASSUME TypeOK, NEW q \in Requests, NEW pc \in Steps, pc # "authorized", Go(q, pc)
  PROVE  Goes(q)
<1> DEFINE m == WithPc(request[q], pc)
<1>1. request' = [request EXCEPT ![q] = m]
  BY DEF Go, WithPc
<1>2. m \in Memory /\ m.pc = pc
  BY MakesPc DEF TypeOK
<1> HIDE DEF m
<1> QED
  BY <1>1, <1>2 DEF Goes

LEMMA VerifyGoes ==
  ASSUME TypeOK, NEW q \in Requests, VerifyStep(q)
  PROVE  Goes(q)
<1>0. /\ request[q] \in Memory
      /\ \A pc \in {"resend", "activate", "verified", "miss", "count"} :
            pc \in Steps /\ pc # "authorized"
  BY DEF TypeOK, Steps
<1>1. ASSUME NEW m \in Memory, request' = [request EXCEPT ![q] = m], m.pc # "authorized"
      PROVE  Goes(q)
  BY <1>1 DEF Goes
<1>2. CASE ResendCheck(q)
  BY <1>0, <1>2, GoGoes DEF ResendCheck
<1>3. ASSUME NEW c \in Codes, VerifyMiss(q, c)
      PROVE  Goes(q)
  BY <1>0, <1>3, GoGoes DEF VerifyMiss
<1>4. ASSUME NEW c \in Codes, NEW p \in Passwords, VerifyMatch(q, c, p)
      PROVE  Goes(q)
  <2> DEFINE m == WithBoth(request[q], "activate", c, p)
  <2>1. m \in Memory /\ m.pc # "authorized"
    BY <1>0, MakesBoth
  <2>2. request' = [request EXCEPT ![q] = m]
    BY <1>4 DEF VerifyMatch, WithBoth
  <2> HIDE DEF m
  <2> QED
    BY <1>1, <2>1, <2>2
<1>5. CASE VerifyActivate(q)
  <2> DEFINE m == WithSaw(request[q], "verified", None)
  <2>1. m \in Memory /\ m.pc # "authorized"
    BY <1>0, MakesSaw
  <2>2. request' = [request EXCEPT ![q] = m] \/ Finish(q)
    BY <1>5 DEF VerifyActivate, WithSaw
  <2> HIDE DEF m
  <2> QED
    BY <1>1, <2>1, <2>2, FinishGoes
<1>6. CASE MissRead(q)
  <2> DEFINE m == WithSaw(request[q], "count", code.value)
  <2>1. m \in Memory /\ m.pc # "authorized"
    BY <1>0, MakesSaw, CodeFields DEF TypeOK
  <2>2. request' = [request EXCEPT ![q] = m] \/ Finish(q)
    BY <1>6 DEF MissRead, WithSaw
  <2> HIDE DEF m
  <2> QED
    BY <1>1, <2>1, <2>2, FinishGoes
<1>7. CASE MissCount(q)
  <2>1. \/ request' = [request EXCEPT ![q] = [Resting EXCEPT !.pc = "purge"]]
        \/ Finish(q)
    BY <1>7 DEF MissCount, Finish
  <2> QED
    BY <1>1, <2>1, FinishGoes, RestingFields
<1>8. ASSUME \/ \E c \in Codes : ResendIssue(q, c)
             \/ \E s \in Sessions : VerifySession(q, s)
             \/ MissPurge(q)
      PROVE  Goes(q)
  BY <1>8, FinishGoes DEF ResendIssue, VerifySession, MissPurge
<1> QED
  BY <1>2, <1>3, <1>4, <1>5, <1>6, <1>7, <1>8 DEF VerifyStep

LEMMA PasswordGoes ==
  ASSUME TypeOK, NEW q \in Requests, PasswordStep(q) \/ SettingsStep(q) \/ Die(q)
  PROVE  Goes(q)
<1>0. /\ request[q] \in Memory /\ user.version \in Nat
      /\ \A pc \in {"clear", "create", "reset", "rewrite"} \cup SettingsSteps :
            pc \in Steps /\ pc # "authorized"
      /\ "authorized" \in Steps
  BY UserFields DEF TypeOK, Steps, SettingsSteps
<1>1. ASSUME NEW m \in Memory, request' = [request EXCEPT ![q] = m],
             m.pc = "authorized" =>
               user' = user /\ m.version = user.version /\ m.secret = user.hash
      PROVE  Goes(q)
  BY <1>1 DEF Goes
<1>2. ASSUME NEW p \in Passwords, Authorize(q, p)
      PROVE  Goes(q)
  <2> DEFINE m == WithVersion(request[q], "authorized", p, user.version)
  <2>1. m \in Memory /\ m.secret = p /\ m.version = user.version
    BY <1>0, MakesVersion
  <2>2. /\ request' = [request EXCEPT ![q] = m]
        /\ user' = user /\ user.hash = p
    BY <1>2 DEF Authorize, WithVersion
  <2> HIDE DEF m
  <2> QED
    BY <1>1, <2>1, <2>2
<1>3. CASE RequestReset(q) \/ ClearLinks(q)
  BY <1>0, <1>3, GoGoes DEF RequestReset, ClearLinks
<1>4. ASSUME NEW t \in Links, NEW p \in Passwords, ReadLink(q, t, p)
      PROVE  Goes(q)
  <2> DEFINE m == WithBoth(request[q], "reset", t, p)
  <2>1. m \in Memory /\ m.pc # "authorized"
    BY <1>0, MakesBoth
  <2>2. request' = [request EXCEPT ![q] = m]
    BY <1>4 DEF ReadLink, WithBoth
  <2> HIDE DEF m
  <2> QED
    BY <1>1, <2>1, <2>2
<1>5. ASSUME NEW s \in Sessions, NEW pc \in SettingsSteps, StartSettings(q, s, pc)
      PROVE  Goes(q)
  BY <1>0, <1>5, GoGoes DEF StartSettings
<1>6. ASSUME NEW old \in Passwords, NEW new \in Passwords, ComparePassword(q, old, new)
      PROVE  Goes(q)
  <2> DEFINE m == WithSecret(request[q], "rewrite", new)
  <2>1. m \in Memory /\ m.pc # "authorized"
    BY <1>0, MakesSecret
  <2>2. request' = [request EXCEPT ![q] = m] \/ Finish(q)
    BY <1>6 DEF ComparePassword, WithSecret
  <2> HIDE DEF m
  <2> QED
    BY <1>1, <2>1, <2>2, FinishGoes
<1>7. ASSUME \/ \E s \in Sessions : IssueJwt(q, s)
             \/ \E t \in Links : CreateLink(q, t)
             \/ ResetPassword(q) \/ ChangePassword(q) \/ UpdateProfile(q)
             \/ CompleteOnboarding(q) \/ DeleteAccount(q) \/ Die(q)
      PROVE  Goes(q)
  BY <1>7, FinishGoes DEF IssueJwt, CreateLink, ResetPassword, ChangePassword,
     UpdateProfile, CompleteOnboarding, DeleteAccount, Die
<1> QED
  BY <1>2, <1>3, <1>4, <1>5, <1>6, <1>7 DEF PasswordStep, SettingsStep

\* Only a request that was let through, or a verification, opens a session, and
\* never with another password than the user's.
LEMMA CookieSteps ==
  ASSUME IInv, [Next]_vars
  PROVE  /\ cookie' \in [Sessions -> Jwt]
         /\ \/ cookie' = cookie
            \/ /\ user' = user
               /\ \E s \in Sessions, c \in Jwt :
                    cookie' = [cookie EXCEPT ![s] = c] /\ CookieSound(c)
<1>0. /\ cookie \in [Sessions -> Jwt] /\ user.version \in Nat
      /\ \A q \in Requests : request[q] \in Memory /\ RequestSound(request[q])
      /\ \A q \in Requests : /\ request[q].version \in Nat
                             /\ request[q].secret \in Passwords \cup {None}
  BY UserFields, MemoryFields DEF IInv, TypeOK
<1>1. ASSUME NEW n \in Nat, NEW by \in {"verify", "signin"}, NEW p \in Passwords \cup {None},
             n = user.version, by = "signin" => p = user.hash
      PROVE  LET c == [version |-> n, by |-> by, secret |-> p] IN
             c \in Jwt /\ CookieSound(c)
  BY <1>1 DEF Jwt, CookieSound
<1>3. ASSUME NEW q \in Requests, NEW s \in Sessions, VerifySession(q, s)
      PROVE  \/ cookie' = cookie
             \/ /\ user' = user
                /\ \E c \in Jwt : cookie' = [cookie EXCEPT ![s] = c] /\ CookieSound(c)
  <2> DEFINE c == [version |-> user.version, by |-> "verify", secret |-> request[q].secret]
  <2>1. c \in Jwt /\ CookieSound(c)
    BY <1>0, <1>1
  <2>2. user' = user /\ (cookie' = cookie \/ cookie' = [cookie EXCEPT ![s] = c])
    BY <1>3 DEF VerifySession
  <2> HIDE DEF c
  <2> QED
    BY <2>1, <2>2
<1>4. ASSUME NEW q \in Requests, NEW s \in Sessions, IssueJwt(q, s)
      PROVE  /\ user' = user
             /\ \E c \in Jwt : cookie' = [cookie EXCEPT ![s] = c] /\ CookieSound(c)
  <2> DEFINE c == [version |-> request[q].version, by |-> "signin",
                   secret |-> request[q].secret]
  <2>1. CASE user.status = "ACTIVE" /\ user.version = request[q].version
    <3>1. request[q].secret = user.hash
      BY <1>0, <1>4, <2>1 DEF IssueJwt, At, RequestSound
    <3>2. c \in Jwt /\ CookieSound(c)
      BY <1>0, <1>1, <2>1, <3>1
    <3>3. user' = user /\ cookie' = [cookie EXCEPT ![s] = c]
      BY <1>4, <2>1 DEF IssueJwt
    <3> HIDE DEF c
    <3> QED
      BY <3>2, <3>3
  <2>2. CASE ~(user.status = "ACTIVE" /\ user.version = request[q].version)
    <3>1. user' = user /\ cookie' = [cookie EXCEPT ![s] = NoCookie]
      BY <1>4, <2>2 DEF IssueJwt
    <3>2. NoCookie \in Jwt /\ CookieSound(NoCookie)
      BY DEF NoCookie, Jwt, CookieSound
    <3> QED
      BY <3>1, <3>2
  <2> QED
    BY <2>1, <2>2
<1>5. ASSUME NEW q \in Requests, VerifyStep(q)
      PROVE  cookie' = cookie \/ \E s \in Sessions : VerifySession(q, s)
  BY <1>5 DEF VerifyStep, ResendCheck, ResendIssue, VerifyMiss, VerifyMatch,
     VerifyActivate, MissRead, MissCount, MissPurge
<1>6. ASSUME NEW q \in Requests, PasswordStep(q)
      PROVE  cookie' = cookie \/ \E s \in Sessions : IssueJwt(q, s)
  BY <1>6 DEF PasswordStep, Authorize, RequestReset, ClearLinks, CreateLink, ReadLink,
     ResetPassword
<1>7. ASSUME NEW q \in Requests, SettingsStep(q)
      PROVE  cookie' = cookie
  BY <1>7 DEF SettingsStep, StartSettings, ComparePassword, ChangePassword, UpdateProfile,
     CompleteOnboarding, DeleteAccount
<1>8. ASSUME \/ \E c \in Codes : MailCode(c)
             \/ CodeAges
             \/ \E t \in Links : LinkExpires(t)
             \/ \E q \in Requests : Die(q)
             \/ UNCHANGED vars
      PROVE  cookie' = cookie
  BY <1>8 DEF MailCode, CodeAges, LinkExpires, Die, vars
<1>9. \/ cookie' = cookie
      \/ /\ user' = user
         /\ \E s \in Sessions, c \in Jwt :
              cookie' = [cookie EXCEPT ![s] = c] /\ CookieSound(c)
  BY <1>3, <1>4, <1>5, <1>6, <1>7, <1>8 DEF Next
<1> QED
  BY <1>0, <1>9

LEMMA OtherTypes ==
  ASSUME TypeOK, [Next]_vars
  PROVE  /\ code' \in CodeRow
         /\ link' \in [Links -> {"UNUSED", "LIVE", "EXPIRED", "DELETED"}]
         /\ lost' \in Nat /\ guesses' \in Nat
<1> DEFINE Typed == /\ code' \in CodeRow
                    /\ link' \in [Links -> {"UNUSED", "LIVE", "EXPIRED", "DELETED"}]
                    /\ lost' \in Nat /\ guesses' \in Nat
<1>0. /\ code \in CodeRow /\ lost \in Nat /\ guesses \in Nat
      /\ link \in [Links -> {"UNUSED", "LIVE", "EXPIRED", "DELETED"}]
  BY DEF TypeOK
<1>1. ASSUME NEW q \in Requests, VerifyStep(q)
      PROVE  Typed
  <2>1. link' = link /\ lost' = lost
    BY <1>1 DEF VerifyStep, ResendCheck, ResendIssue, VerifyMiss, VerifyMatch,
       VerifyActivate, VerifySession, MissRead, MissCount, MissPurge
  <2>2. code' \in CodeRow
    <3>1. ASSUME NEW c \in Codes, ResendIssue(q, c)
          PROVE  code' \in CodeRow
      BY <1>0, <3>1, CodeFields DEF ResendIssue
    <3>2. CASE MissCount(q)
      <4>1. [code EXCEPT !.attempts = @ + 1] \in CodeRow
        BY <1>0, CodeFields
      <4> QED
        BY <1>0, <3>2, <4>1 DEF MissCount
    <3>3. CASE VerifyActivate(q) \/ MissPurge(q)
      BY <1>0, <3>3, CodeFields DEF VerifyActivate, MissPurge
    <3>4. CASE code' = code
      BY <1>0, <3>4
    <3> QED
      BY <1>1, <3>1, <3>2, <3>3, <3>4 DEF VerifyStep, ResendCheck, VerifyMiss,
         VerifyMatch, VerifySession, MissRead
  <2>3. guesses' \in Nat
    <3>1. guesses' \in {guesses, guesses + 1, 0}
      BY <1>1 DEF VerifyStep, ResendCheck, ResendIssue, VerifyMiss, VerifyMatch,
         VerifyActivate, VerifySession, MissRead, MissCount, MissPurge
    <3> QED
      BY <1>0, <3>1
  <2> QED
    BY <1>0, <2>1, <2>2, <2>3
<1>2. ASSUME NEW q \in Requests, PasswordStep(q)
      PROVE  Typed
  BY <1>0, <1>2 DEF PasswordStep, Authorize, IssueJwt, RequestReset, ClearLinks,
     CreateLink, ReadLink, ResetPassword
<1>3. ASSUME NEW q \in Requests, SettingsStep(q)
      PROVE  Typed
  BY <1>0, <1>3 DEF SettingsStep, StartSettings, ComparePassword, ChangePassword,
     UpdateProfile, CompleteOnboarding, DeleteAccount
<1>4. ASSUME NEW c \in Codes, MailCode(c)
      PROVE  Typed
  BY <1>0, <1>4, CodeFields DEF MailCode
<1>5. CASE CodeAges
  <2>1. PICK a \in Ages : code' = [code EXCEPT !.age = a]
    BY <1>5 DEF CodeAges, Ages
  <2>2. [code EXCEPT !.age = a] \in CodeRow
    BY <1>0, CodeFields
  <2> QED
    BY <1>0, <1>5, <2>1, <2>2 DEF CodeAges
<1>6. ASSUME NEW t \in Links, LinkExpires(t)
      PROVE  Typed
  BY <1>0, <1>6 DEF LinkExpires
<1>7. ASSUME NEW q \in Requests, Die(q)
      PROVE  Typed
  BY <1>0, <1>7 DEF Die
<1>8. CASE UNCHANGED vars
  BY <1>0, <1>8 DEF vars
<1> QED
  BY <1>1, <1>2, <1>3, <1>4, <1>5, <1>6, <1>7, <1>8 DEF Next

----------------------------------------------------------------------------
(* The theorems *)

LEMMA InitIInv ==
  ASSUME Init
  PROVE  IInv
<1>1. user \in UserRow
  <2>1. NewUser \in UserRow
    BY DEF NewUser, UserRow, Statuses
  <2>2. \A p \in Passwords : SeededUser(p) \in UserRow
    BY DEF SeededUser, UserRow, Statuses
  <2>3. \A p \in Passwords, v \in BOOLEAN : LegacyUser(p, v) \in UserRow
    BY DEF LegacyUser, UserRow, Statuses
  <2> QED
    BY <2>1, <2>2, <2>3 DEF Init
<1>2. cookie \in [Sessions -> Jwt] /\ \A s \in Sessions : CookieSound(cookie[s])
  BY DEF Init, NoCookie, Jwt, CookieSound
<1>3. request \in [Requests -> Memory] /\ \A q \in Requests : RequestSound(request[q])
  BY RestingFields DEF Init, RequestSound
<1>4. /\ code \in CodeRow /\ lost \in Nat /\ guesses \in Nat
      /\ link \in [Links -> {"UNUSED", "LIVE", "EXPIRED", "DELETED"}]
  BY CodeFields DEF Init
<1> QED
  BY <1>1, <1>2, <1>3, <1>4 DEF IInv, TypeOK

LEMMA NextIInv ==
  ASSUME IInv, [Next]_vars
  PROVE  IInv'
<1>1. TypeOK /\ user.version \in Nat
  BY UserFields DEF IInv, TypeOK
<1>2. /\ user' \in UserRow
      /\ \/ user'.version = user.version /\ user'.hash = user.hash
         \/ user'.version = user.version + 1 /\ cookie' = cookie
  BY <1>1, UserSteps
<1>3. ASSUME NEW c, CookieSound(c)
      PROVE  CookieSound(c)'
  BY <1>1, <1>2, <1>3 DEF CookieSound
<1>4. ASSUME NEW m \in Memory, RequestSound(m)
      PROVE  RequestSound(m)'
  BY <1>1, <1>2, <1>4, MemoryFields DEF RequestSound
<1>5. cookie' \in [Sessions -> Jwt] /\ (\A s \in Sessions : CookieSound(cookie[s]))'
  <2>1. /\ cookie' \in [Sessions -> Jwt]
        /\ \/ cookie' = cookie
           \/ /\ user' = user
              /\ \E s \in Sessions, c \in Jwt :
                   cookie' = [cookie EXCEPT ![s] = c] /\ CookieSound(c)
    BY CookieSteps
  <2>2. ASSUME NEW s \in Sessions
        PROVE  CookieSound(cookie[s])'
    <3>1. PICK c \in Jwt : c = cookie'[s] /\ CookieSound(c)
      BY <2>1 DEF IInv, TypeOK
    <3>2. CookieSound(c)'
      BY <1>3, <3>1
    <3> QED
      BY <3>1, <3>2 DEF CookieSound
  <2> QED
    BY <2>1, <2>2
<1>6. request' \in [Requests -> Memory] /\ (\A q \in Requests : RequestSound(request[q]))'
  <2>1. ASSUME NEW q \in Requests, VerifyStep(q) \/ PasswordStep(q) \/ SettingsStep(q) \/ Die(q)
        PROVE  Goes(q)
    BY <1>1, <2>1, VerifyGoes, PasswordGoes
  <2>2. request' = request \/ \E q \in Requests : Goes(q)
    BY <2>1 DEF Next, MailCode, CodeAges, LinkExpires, vars
  <2>3. request' \in [Requests -> Memory]
    BY <1>1, <2>2 DEF TypeOK, Goes
  <2>4. ASSUME NEW q \in Requests
        PROVE  RequestSound(request[q])'
    <3>1. PICK m \in Memory : m = request'[q]
      BY <2>3
    <3>2. \/ RequestSound(m)
          \/ m.pc = "authorized" /\ user' = user /\ m.version = user.version
             /\ m.secret = user.hash
      BY <2>2, <3>1 DEF IInv, TypeOK, Goes, RequestSound
    <3>3. RequestSound(m)'
      BY <1>1, <1>4, <3>2 DEF RequestSound
    <3> QED
      BY <3>1, <3>3 DEF RequestSound
  <2> QED
    BY <2>3, <2>4
<1>7. /\ code' \in CodeRow
      /\ link' \in [Links -> {"UNUSED", "LIVE", "EXPIRED", "DELETED"}]
      /\ lost' \in Nat /\ guesses' \in Nat
  BY <1>1, OtherTypes
<1> QED
  BY <1>2, <1>5, <1>6, <1>7 DEF IInv, TypeOK

\* The invariant holds in every reachable state.
THEOREM Invariance == Spec => []IInv
<1>1. Init => IInv
  BY InitIInv
<1>2. IInv /\ [Next]_vars => IInv'
  BY NextIInv
<1> QED
  BY <1>1, <1>2, PTL DEF Spec

\* Every row, cookie and request holds values of its columns.
THEOREM TypeCorrect == Spec => []TypeOK
<1>1. IInv => TypeOK
  BY DEF IInv
<1> QED
  BY <1>1, Invariance, PTL

\* A live session of password sign-in was opened with the present password.
THEOREM SignInsProve == Spec => []SignInProvesPassword
<1>1. IInv => SignInProvesPassword
  <2> SUFFICES ASSUME IInv
               PROVE  SignInProvesPassword
    OBVIOUS
  <2>1. user.version \in Nat /\ \A s \in Sessions : CookieSound(cookie[s])
    BY UserFields DEF IInv, TypeOK
  <2>2. ASSUME NEW s \in Sessions, LiveSession(s), cookie[s].by = "signin"
        PROVE  cookie[s].secret = user.hash
    <3>1. CASE cookie[s].version # None
      BY <2>1, <2>2, <3>1 DEF LiveSession, CookieSound
    <3>2. CASE cookie[s].version = None
      BY <2>1, <2>2, <3>2, ConstantsOK DEF LiveSession
    <3> QED
      BY <3>1, <3>2
  <2> QED
    BY <2>2 DEF SignInProvesPassword
<1> QED
  BY <1>1, Invariance, PTL

\* No session outlives the password it was opened under.
THEOREM ChangesEndSessions == Spec => PasswordChangeEndsSessions
<1> DEFINE Ends == user'.hash # user.hash => \A s \in Sessions : ~LiveSession(s)'
<1>1. ASSUME IInv, [Next]_vars, user'.hash # user.hash, NEW s \in Sessions
      PROVE  ~LiveSession(s)'
  <2>1. user.version \in Nat /\ TypeOK /\ CookieSound(cookie[s])
    BY <1>1, UserFields DEF IInv, TypeOK
  <2>2. user'.version = user.version + 1 /\ cookie' = cookie
    BY <1>1, <2>1, UserSteps
  <2>3. cookie[s].version # user'.version
    BY <2>1, <2>2, ConstantsOK DEF CookieSound
  <2> QED
    BY <2>2, <2>3 DEF LiveSession
<1>2. IInv /\ [Next]_vars => [Ends]_vars
  BY <1>1
<1> QED
  BY <1>2, Invariance, PTL DEF PasswordChangeEndsSessions, Spec

\* Which steps verify the user, and which write the password behind a link.
LEMMA VerifiedBy ==
  ASSUME TypeOK, [Next]_vars, ~user.verified, user'.verified
  PROVE  \E q \in Requests : VerifyActivate(q) /\ user' # user
<1>0. user \in UserRow
  BY DEF TypeOK
<1>1. \A q \in Requests : request[q].secret \in Passwords \cup {None}
  BY MemoryFields DEF TypeOK
<1>2. ASSUME NEW q \in Requests, ResetPassword(q) \/ ChangePassword(q)
      PROVE  user'.verified = user.verified
  <2>1. user' \in {user, Rehashed(user, request[q].secret)}
    BY <1>2 DEF ResetPassword, ChangePassword, WithPassword, Rehashed
  <2> QED
    BY <1>0, <1>1, <2>1, UserRehashed
<1>3. ASSUME NEW q \in Requests, DeleteAccount(q)
      PROVE  user'.verified = user.verified
  BY <1>0, <1>3, UserFields DEF DeleteAccount
<1>4. ASSUME NEW q \in Requests, VerifyStep(q)
      PROVE  user' = user \/ VerifyActivate(q)
  BY <1>4 DEF VerifyStep, ResendCheck, ResendIssue, VerifyMiss, VerifyMatch,
     VerifySession, MissRead, MissCount, MissPurge
<1>5. ASSUME NEW q \in Requests, PasswordStep(q)
      PROVE  user' = user \/ ResetPassword(q)
  BY <1>5 DEF PasswordStep, Authorize, IssueJwt, RequestReset, ClearLinks, CreateLink,
     ReadLink
<1>6. ASSUME NEW q \in Requests, SettingsStep(q)
      PROVE  user' = user \/ ChangePassword(q) \/ DeleteAccount(q)
  BY <1>6 DEF SettingsStep, StartSettings, ComparePassword, UpdateProfile,
     CompleteOnboarding
<1>7. ASSUME \/ \E c \in Codes : MailCode(c)
             \/ CodeAges
             \/ \E t \in Links : LinkExpires(t)
             \/ \E q \in Requests : Die(q)
             \/ UNCHANGED vars
      PROVE  user' = user
  BY <1>7 DEF MailCode, CodeAges, LinkExpires, Die, vars
<1> QED
  BY <1>2, <1>3, <1>4, <1>5, <1>6, <1>7 DEF Next

\* A user becomes verified only by the present code, which goes with it.
THEOREM ActivationsSpend == Spec => ActivationSpendsItsCode
<1> DEFINE Spends ==
      ~user.verified /\ user'.verified =>
        /\ code'.value = None
        /\ \E q \in Requests : At(q, "activate") /\ request[q].saw = code.value
<1>1. ASSUME TypeOK, [Next]_vars
      PROVE  Spends
  <2>1. ASSUME NEW q \in Requests, VerifyActivate(q), user' # user
        PROVE  /\ code'.value = None
               /\ At(q, "activate") /\ request[q].saw = code.value
    BY <2>1 DEF VerifyActivate, NoCode
  <2> QED
    BY <1>1, <2>1, VerifiedBy
<1>2. TypeOK /\ [Next]_vars => [Spends]_vars
  BY <1>1
<1> QED
  BY <1>2, TypeCorrect, PTL DEF ActivationSpendsItsCode, Spec

\* A request that resets the password leaves no link alive.
THEOREM ResetsEndLinks == Spec => ResetEndsEveryLink
<1> DEFINE Ended ==
      \A q \in Requests :
        At(q, "reset") /\ user'.version # user.version =>
          \/ request'[q] = request[q]
          \/ \A t \in Links : link'[t] # "LIVE"
<1>1. ASSUME TypeOK, [Next]_vars, NEW q \in Requests, At(q, "reset"),
             user'.version # user.version, request'[q] # request[q]
      PROVE  \A t \in Links : link'[t] # "LIVE"
  <2>0. user \in UserRow /\ request \in [Requests -> Memory]
    BY <1>1 DEF TypeOK
  <2>1. ASSUME NEW r \in Requests, r # q, Goes(r)
        PROVE  FALSE
    BY <1>1, <2>0, <2>1 DEF Goes
  <2>2. ASSUME NEW r \in Requests, VerifyStep(r)
        PROVE  FALSE
    <3>1. r = q
      BY <1>1, <2>1, <2>2, VerifyGoes
    <3>2. user' = user \/ VerifyActivate(r)
      BY <2>2 DEF VerifyStep, ResendCheck, ResendIssue, VerifyMiss, VerifyMatch,
         VerifySession, MissRead, MissCount, MissPurge
    <3> QED
      BY <1>1, <3>1, <3>2 DEF VerifyActivate, At
  <2>3. ASSUME NEW r \in Requests, SettingsStep(r)
        PROVE  FALSE
    <3>1. r = q
      BY <1>1, <2>1, <2>3, PasswordGoes
    <3>2. user' = user \/ ChangePassword(r) \/ DeleteAccount(r)
      BY <2>3 DEF SettingsStep, StartSettings, ComparePassword, UpdateProfile,
         CompleteOnboarding
    <3> QED
      BY <1>1, <3>1, <3>2 DEF ChangePassword, DeleteAccount, At
  <2>4. ASSUME NEW r \in Requests, PasswordStep(r)
        PROVE  \A t \in Links : link'[t] # "LIVE"
    <3>1. ResetPassword(r)
      BY <1>1, <2>4 DEF PasswordStep, Authorize, IssueJwt, RequestReset, ClearLinks,
         CreateLink, ReadLink
    <3> QED
      BY <1>1, <3>1 DEF ResetPassword
  <2>5. ASSUME \/ \E c \in Codes : MailCode(c)
               \/ CodeAges
               \/ \E t \in Links : LinkExpires(t)
               \/ \E r \in Requests : Die(r)
               \/ UNCHANGED vars
        PROVE  FALSE
    BY <1>1, <2>5 DEF MailCode, CodeAges, LinkExpires, Die, vars
  <2> QED
    BY <1>1, <2>2, <2>3, <2>4, <2>5 DEF Next
<1>2. TypeOK /\ [Next]_vars => [Ended]_vars
  BY <1>1
<1> QED
  BY <1>2, TypeCorrect, PTL DEF ResetEndsEveryLink, Spec

----------------------------------------------------------------------------
(* Counting wrong guesses *)

\* Requests whose wrong code may still count against the present one.
Pending ==
  {q \in Requests : \/ request[q].pc \in {"miss", "purge"}
                    \/ request[q].pc = "count" /\ request[q].saw = code.value}

\* The attempts that have been counted on the code and do not spend it.
Counted == IF code.attempts < MaxAttempts THEN code.attempts ELSE MaxAttempts - 1

\* A wrong guess has been counted, waits to be, or was lost.
GuessInv ==
  /\ code.value = None => guesses = 0
  /\ code.age # "expired" => guesses <= Counted + Cardinality(Pending) + lost
  /\ GuessesBounded

LEMMA Sizes ==
  ASSUME TypeOK
  PROVE  /\ IsFiniteSet(Pending) /\ Cardinality(Pending) \in Nat
         /\ Cardinality(Requests) \in Nat
         /\ Cardinality(Pending) <= Cardinality(Requests)
         /\ Counted \in Nat /\ Counted <= MaxAttempts - 1
         /\ guesses \in Nat /\ lost \in Nat
<1>1. IsFiniteSet(Requests) /\ Pending \in SUBSET Requests
  BY ConstantsOK DEF Pending
<1>2. IsFiniteSet(Pending) /\ Cardinality(Pending) <= Cardinality(Requests)
  BY <1>1, FS_Subset
<1>3. Cardinality(Pending) \in Nat /\ Cardinality(Requests) \in Nat
  BY <1>1, <1>2, FS_CardinalityType
<1>4. code.attempts \in Nat /\ guesses \in Nat /\ lost \in Nat
  BY CodeFields DEF TypeOK
<1> QED
  BY <1>2, <1>3, <1>4, ConstantsOK DEF Counted

\* What keeps the count: a guess more goes with a request more, and a request less
\* with an attempt or a loss more.
LEMMA CountKept ==
  ASSUME TypeOK, TypeOK', GuessInv, lost <= lost',
         code'.value = None => guesses' = 0,
         \/ guesses' = 0
         \/ guesses' = guesses /\ code'.age = "expired"
         \/ /\ code.age # "expired"
            /\ guesses' - guesses <= (Counted' - Counted) + (lost' - lost)
                                     + (Cardinality(Pending)' - Cardinality(Pending))
  PROVE  GuessInv'
<1>1. /\ Cardinality(Pending) \in Nat /\ Cardinality(Requests) \in Nat
      /\ Counted \in Nat /\ guesses \in Nat /\ lost \in Nat
  BY Sizes
<1>2. /\ Cardinality(Pending)' \in Nat /\ Cardinality(Pending)' <= Cardinality(Requests)
      /\ Counted' \in Nat /\ Counted' <= MaxAttempts - 1
      /\ guesses' \in Nat /\ lost' \in Nat
  <2>1. (/\ Cardinality(Pending) \in Nat /\ Cardinality(Pending) <= Cardinality(Requests)
         /\ Counted \in Nat /\ Counted <= MaxAttempts - 1
         /\ guesses \in Nat /\ lost \in Nat)'
    BY Sizes, PTL
  <2> QED
    BY <2>1
<1> QED
  BY <1>1, <1>2, ConstantsOK DEF GuessInv, GuessesBounded

\* A request that is not counted leaves those that are, and one that is leaves at
\* most itself.
LEMMA PendingKept ==
  ASSUME TypeOK, TypeOK', NEW q \in Requests, Goes(q), code'.value = code.value
  PROVE  /\ Cardinality(Pending)' >= Cardinality(Pending) - 1
         /\ q \notin Pending => Cardinality(Pending)' >= Cardinality(Pending)
         /\ q \in Pending' => Cardinality(Pending)' >= Cardinality(Pending)
         /\ q \notin Pending /\ q \in Pending' =>
               Cardinality(Pending)' >= Cardinality(Pending) + 1
<1>1. \A r \in Requests : r # q => request'[r] = request[r]
  BY DEF Goes, TypeOK
<1>2. Pending \ {q} \subseteq Pending'
  BY <1>1 DEF Pending
<1>3. IsFiniteSet(Pending) /\ Cardinality(Pending) \in Nat
  BY Sizes
<1>4. IsFiniteSet(Pending') /\ Cardinality(Pending') \in Nat
  <2>1. (IsFiniteSet(Pending) /\ Cardinality(Pending) \in Nat)'
    BY Sizes, PTL
  <2> QED
    BY <2>1
<1> DEFINE P == Pending
           Q == Pending'
<1>5. /\ IsFiniteSet(P) /\ IsFiniteSet(Q) /\ Cardinality(P) \in Nat /\ Cardinality(Q) \in Nat
      /\ P \ {q} \subseteq Q /\ Cardinality(Pending)' = Cardinality(Q)
  BY <1>2, <1>3, <1>4
<1> HIDE DEF P, Q
<1>6. Cardinality(P \ {q}) >= Cardinality(P) - 1 /\ Cardinality(P \ {q}) \in Nat
  <2>1. IsFiniteSet(P \ {q})
    BY <1>5, FS_RemoveElement
  <2>2. Cardinality(P \ {q}) = Cardinality(P) - 1 \/ Cardinality(P \ {q}) = Cardinality(P)
    BY <1>5, FS_RemoveElement
  <2>3. Cardinality(P \ {q}) \in Nat
    BY <2>1, FS_CardinalityType
  <2> QED
    BY <1>5, <2>2, <2>3
<1>7. Cardinality(Q) >= Cardinality(P) - 1
  <2>1. Cardinality(P \ {q}) <= Cardinality(Q)
    BY <1>5, FS_Subset
  <2> QED
    BY <1>5, <1>6, <2>1
<1>8. P \subseteq Q => Cardinality(Q) >= Cardinality(P)
  BY <1>5, FS_Subset
<1>9. (q \notin P \/ q \in Q) => P \subseteq Q
  BY <1>5
<1>10. ASSUME q \notin P, q \in Q
       PROVE  Cardinality(Q) >= Cardinality(P) + 1
  <2>1. P \cup {q} \subseteq Q
    BY <1>5, <1>10
  <2>2. Cardinality(P \cup {q}) <= Cardinality(Q)
    BY <1>5, <2>1, FS_Subset
  <2>3. Cardinality(P \cup {q}) = Cardinality(P) + 1
    BY <1>5, <1>10, FS_AddElement
  <2> QED
    BY <2>2, <2>3
<1> QED
  BY <1>5, <1>7, <1>8, <1>9, <1>10 DEF P, Q

LEMMA GuessStep ==
  ASSUME TypeOK, TypeOK', GuessInv, [Next]_vars
  PROVE  GuessInv'
<1>0. /\ Cardinality(Pending) \in Nat /\ Cardinality(Pending)' \in Nat
      /\ Counted \in Nat /\ Counted' \in Nat /\ guesses \in Nat /\ lost \in Nat
      /\ code.attempts \in Nat /\ MaxAttempts \in Nat \ {0}
  <2>1. (Cardinality(Pending) \in Nat /\ Counted \in Nat)'
    BY Sizes, PTL
  <2> QED
    BY <2>1, Sizes, CodeFields, ConstantsOK DEF TypeOK
<1>1. ASSUME guesses' = 0, lost' = lost
      PROVE  GuessInv'
  BY <1>0, <1>1, CountKept
<1>2. ASSUME guesses' = guesses, lost' = lost, code' = code,
             Cardinality(Pending)' >= Cardinality(Pending)
      PROVE  GuessInv'
  <2>1. Counted' = Counted
    BY <1>2 DEF Counted
  <2>2. code'.value = None => guesses' = 0
    BY <1>2 DEF GuessInv
  <2> QED
    BY <1>0, <1>2, <2>1, <2>2, CountKept
<1>3. ASSUME NEW q \in Requests, Goes(q), request[q].pc \notin {"miss", "count", "purge"},
             guesses' = guesses, lost' = lost, code' = code
      PROVE  GuessInv'
  <2>1. q \notin Pending
    BY <1>3 DEF Pending
  <2> QED
    BY <1>2, <1>3, <2>1, PendingKept
<1>4. ASSUME NEW q \in Requests, NEW c \in Codes, VerifyMiss(q, c)
      PROVE  GuessInv'
  <2>1. Goes(q) /\ code' = code /\ lost' = lost
    BY <1>4, VerifyGoes DEF VerifyStep, VerifyMiss
  <2>2. q \notin Pending /\ q \in Pending'
    <3>1. request[q].pc = "idle" /\ request' = [request EXCEPT ![q] = WithPc(request[q], "miss")]
      BY <1>4 DEF VerifyMiss, At, Go, WithPc
    <3>2. WithPc(request[q], "miss").pc = "miss"
      BY MakesPc DEF TypeOK, Steps
    <3>3. request'[q].pc = "miss"
      BY <3>1, <3>2 DEF TypeOK
    <3> QED
      BY <3>1, <3>3 DEF Pending
  <2>3. Cardinality(Pending)' >= Cardinality(Pending) + 1
    BY <2>1, <2>2, PendingKept
  <2>4. CASE code.value # None /\ code.age # "expired"
    <3>1. guesses' = guesses + 1 /\ Counted' = Counted
      BY <1>4, <2>4 DEF VerifyMiss, Counted
    <3> QED
      BY <1>0, <2>1, <2>3, <2>4, <3>1, CountKept
  <2>5. CASE ~(code.value # None /\ code.age # "expired")
    BY <1>0, <1>2, <1>4, <2>1, <2>3, <2>5 DEF VerifyMiss
  <2> QED
    BY <2>4, <2>5
<1>5. ASSUME NEW q \in Requests, MissRead(q)
      PROVE  GuessInv'
  <2>1. Goes(q) /\ code' = code /\ lost' = lost /\ guesses' = guesses
    BY <1>5, VerifyGoes DEF VerifyStep, MissRead
  <2>2. CASE code.value # None /\ code.age # "expired"
    <3>1. request' = [request EXCEPT ![q] = WithSaw(request[q], "count", code.value)]
      BY <1>5, <2>2 DEF MissRead, WithSaw
    <3>2. LET m == WithSaw(request[q], "count", code.value) IN
          m.pc = "count" /\ m.saw = code.value
      BY CodeFields DEF WithSaw, TypeOK, Memory
    <3>3. q \in Pending'
      BY <2>1, <3>1, <3>2 DEF Pending, TypeOK
    <3> QED
      BY <1>2, <2>1, <3>3, PendingKept
  <2>3. CASE code.value = None
    BY <1>1, <2>1, <2>3 DEF GuessInv
  <2>4. CASE code.value # None /\ code.age = "expired"
    <3>1. /\ code'.age = "expired" /\ code'.value # None
          /\ lost <= lost'
      BY <1>0, <2>1, <2>4
    <3> QED
      BY <2>1, <3>1, CountKept
  <2> QED
    BY <2>2, <2>3, <2>4
<1>6. ASSUME NEW q \in Requests, MissCount(q)
      PROVE  GuessInv'
  <2>1. /\ Goes(q) /\ lost' = lost /\ guesses' = guesses
        /\ request[q].pc = "count"
    BY <1>6, VerifyGoes DEF VerifyStep, MissCount, At
  <2>2. CASE code.value # request[q].saw
    <3>1. code' = code
      BY <1>6, <2>2 DEF MissCount
    <3>2. q \notin Pending
      BY <2>1, <2>2 DEF Pending
    <3> QED
      BY <1>2, <2>1, <3>1, <3>2, PendingKept
  <2>3. CASE code.value = request[q].saw
    <3>1. /\ code'.attempts = code.attempts + 1 /\ code'.value = code.value
          /\ code'.age = code.age
      <4>1. code' = [code EXCEPT !.attempts = @ + 1] /\ code \in CodeRow
        BY <1>6, <2>3 DEF MissCount, TypeOK
      <4> QED
        BY <4>1 DEF CodeRow
    <3>2. code'.value = None => guesses' = 0
      BY <2>1, <3>1 DEF GuessInv
    <3>3. CASE code.attempts + 1 >= MaxAttempts
      <4>1. request' = [request EXCEPT ![q] = [Resting EXCEPT !.pc = "purge"]]
        BY <1>6, <2>3, <3>3 DEF MissCount
      <4>2. request'[q].pc = "purge"
        BY <4>1, RestingFields DEF TypeOK
      <4>3. q \in Pending'
        BY <4>2 DEF Pending
      <4>4. Cardinality(Pending)' >= Cardinality(Pending)
        BY <2>1, <3>1, <4>3, PendingKept
      <4>5. Counted' >= Counted
        BY <1>0, <3>1, <3>3 DEF Counted
      <4> QED
        BY <1>0, <2>1, <3>1, <3>2, <4>4, <4>5, CountKept
    <3>4. CASE ~(code.attempts + 1 >= MaxAttempts)
      <4>1. Counted' = Counted + 1
        BY <1>0, <3>1, <3>4 DEF Counted
      <4>2. Cardinality(Pending)' >= Cardinality(Pending) - 1
        BY <2>1, <3>1, PendingKept
      <4> QED
        BY <1>0, <2>1, <3>1, <3>2, <4>1, <4>2, CountKept
    <3> QED
      BY <3>3, <3>4
  <2> QED
    BY <2>2, <2>3
<1>7. ASSUME NEW q \in Requests, Die(q)
      PROVE  GuessInv'
  <2>1. Goes(q) /\ lost' = lost + 1 /\ guesses' = guesses /\ code' = code
    BY <1>7, PasswordGoes DEF Die
  <2>2. Cardinality(Pending)' >= Cardinality(Pending) - 1
    BY <2>1, PendingKept
  <2>3. Counted' = Counted /\ (code'.value = None => guesses' = 0)
    BY <2>1 DEF Counted, GuessInv
  <2> QED
    BY <1>0, <2>1, <2>2, <2>3, CountKept
<1>8. CASE CodeAges
  <2>1. /\ guesses' = guesses /\ lost' = lost /\ request' = request
        /\ code'.value = code.value /\ code'.attempts = code.attempts
        /\ code.age # "expired" /\ code.value # None
    <3>1. PICK a \in Ages : code' = [code EXCEPT !.age = a]
      BY <1>8 DEF CodeAges, Ages
    <3>2. code \in CodeRow
      BY DEF TypeOK
    <3>3. code'.value = code.value /\ code'.attempts = code.attempts
      BY <3>1, <3>2 DEF CodeRow
    <3> QED
      BY <1>8, <3>3 DEF CodeAges
  <2>2. Pending' = Pending /\ Counted' = Counted
    BY <2>1 DEF Pending, Counted
  <2> QED
    BY <1>0, <2>1, <2>2, CountKept
<1>9. ASSUME NEW q \in Requests, VerifyStep(q)
      PROVE  GuessInv'
  <2>1. Goes(q)
    BY <1>9, VerifyGoes
  <2>2. CASE VerifyActivate(q) \/ MissPurge(q) \/ (\E c \in Codes : ResendIssue(q, c))
    BY <1>1, <1>3, <2>1, <2>2 DEF VerifyActivate, MissPurge, ResendIssue, At
  <2>3. CASE \/ ResendCheck(q) \/ (\E s \in Sessions : VerifySession(q, s))
             \/ (\E c \in Codes, p \in Passwords : VerifyMatch(q, c, p))
    BY <1>3, <2>1, <2>3 DEF ResendCheck, VerifySession, VerifyMatch, At
  <2> QED
    BY <1>4, <1>5, <1>6, <1>9, <2>2, <2>3 DEF VerifyStep
<1>10. ASSUME NEW q \in Requests, PasswordStep(q)
       PROVE  GuessInv'
  <2>1. Goes(q)
    BY <1>10, PasswordGoes
  <2> QED
    BY <1>3, <1>10, <2>1 DEF PasswordStep, Authorize, IssueJwt, RequestReset, ClearLinks,
       CreateLink, ReadLink, ResetPassword, At
<1>11. ASSUME NEW q \in Requests, SettingsStep(q)
       PROVE  GuessInv'
  <2>1. Goes(q)
    BY <1>11, PasswordGoes
  <2> QED
    BY <1>3, <1>11, <2>1 DEF SettingsStep, StartSettings, ComparePassword, ChangePassword,
       UpdateProfile, CompleteOnboarding, DeleteAccount, At
<1>12. ASSUME NEW c \in Codes, MailCode(c)
       PROVE  GuessInv'
  BY <1>1, <1>12 DEF MailCode
<1>13. ASSUME (\E t \in Links : LinkExpires(t)) \/ UNCHANGED vars
       PROVE  GuessInv'
  <2>1. UNCHANGED <<request, code, guesses, lost>>
    BY <1>13 DEF LinkExpires, vars
  <2>2. Pending' = Pending
    BY <2>1 DEF Pending
  <2> QED
    BY <1>0, <1>2, <2>1, <2>2
<1> QED
  BY <1>7, <1>8, <1>9, <1>10, <1>11, <1>12, <1>13 DEF Next

\* A code meets no more wrong guesses than its attempts, the requests that run beside
\* one another and those that were lost account for.
THEOREM GuessesAreBounded == Spec => []GuessesBounded
<1>1. Init => GuessInv
  <2> SUFFICES ASSUME Init
               PROVE  GuessInv
    OBVIOUS
  <2>1. TypeOK
    BY InitIInv DEF IInv
  <2> QED
    BY <2>1, Sizes, ConstantsOK DEF Init, GuessInv, GuessesBounded
<1>2. TypeOK /\ TypeOK' /\ GuessInv /\ [Next]_vars => GuessInv'
  BY GuessStep
<1>3. GuessInv => GuessesBounded
  BY DEF GuessInv
<1> QED
  BY <1>1, <1>2, <1>3, TypeCorrect, PTL DEF Spec
============================================================================
