------------------------ MODULE AccountLinkingProofs ------------------------
(* Safety of account linking for any number of providers, subjects,         *)
(* intents, browsers and requests, and any bound on sessionVersion.         *)
EXTENDS AccountLinking, TLAPS

Opening == {"start", "unlinked", "create", "insert"}
Claims == {"exchange", "collide", "link", "answer"}
Callback == {"read", "claim"} \cup Claims

\* What a request remembers and the rows agree.
Sound(m) ==
  /\ m.pc \in Opening \cup Callback =>
        m.jwt.version \in Nat /\ m.jwt.version <= user.version
  /\ m.pc \in Opening \cup Claims \cup {"gated", "claim", "guard", "delete"} =>
        m.provider \in Providers
  /\ m.pc \in {"create", "insert"} /\ m.jwt.version = user.version => ~Connected(m.provider)
  /\ m.pc = "insert" => \A j \in m.older : intent[j].status # "ABSENT"
  /\ m.pc \in Callback \cup {"url"} => m.intent \in Intents
  /\ m.pc \in Callback => m.browser \in Sessions /\ intent[m.intent].status # "ABSENT"
  /\ m.pc \in Claims \cup {"claim"} =>
        intent[m.intent].provider = m.provider /\ intent[m.intent].version = m.jwt.version
  /\ m.pc \in Claims => intent[m.intent].status = "CONSUMED"
  /\ m.pc \in {"gated", "collide", "link"} => m.subject \in Subjects
  /\ m.pc = "answer" => m.jwt.version + 1 <= user.version

\* An intent of the present sessionVersion was created while its provider was not
\* connected, and no account has been added since.
IntentSound(i) ==
  IF intent[i].status = "ABSENT" THEN intent[i].provider = None
  ELSE /\ intent[i].provider \in Providers
       /\ intent[i].version <= user.version
       /\ intent[i].version = user.version => ~Connected(intent[i].provider)

ClaimsApart ==
  \A q, r \in Requests :
    request[q].pc \in Claims /\ request[r].pc \in Claims
      /\ request[q].intent = request[r].intent => q = r

IInv ==
  /\ TypeOK
  /\ \A q \in Requests : Sound(request[q])
  /\ \A i \in Intents : IntentSound(i)
  /\ ClaimsApart
  /\ OneAccountPerProvider
  /\ NoSessionAhead

----------------------------------------------------------------------------
(* Records *)

LEMMA PcField ==
  ASSUME NEW v \in Memory, NEW pc \in Steps
  PROVE  LET m == [v EXCEPT !.pc = pc] IN
         /\ m \in Memory /\ m.pc = pc
         /\ m.browser = v.browser /\ m.jwt = v.jwt /\ m.provider = v.provider
         /\ m.intent = v.intent /\ m.subject = v.subject
BY DEF Memory

WithProvider(v, pc, p) == [v EXCEPT !.pc = pc, !.provider = p]

LEMMA PcProvider ==
  ASSUME NEW v \in Memory, NEW pc \in Steps,
         NEW p \in Providers
  PROVE  LET m == WithProvider(v, pc, p) IN
         /\ m \in Memory /\ m.pc = pc /\ m.provider = p
         /\ m.browser = v.browser /\ m.jwt = v.jwt /\ m.intent = v.intent /\ m.subject = v.subject
BY DEF Memory, WithProvider

WithIntent(v, pc, i) == [v EXCEPT !.pc = pc, !.intent = i, !.older = {}]

LEMMA PcIntent ==
  ASSUME NEW v \in Memory, NEW pc \in Steps,
         NEW i \in Intents
  PROVE  LET m == WithIntent(v, pc, i) IN
         /\ m \in Memory /\ m.pc = pc /\ m.intent = i
         /\ m.browser = v.browser /\ m.jwt = v.jwt /\ m.provider = v.provider /\ m.subject = v.subject
BY DEF Memory, WithIntent

WithOlder(v, pc, o) == [v EXCEPT !.pc = pc, !.older = o]

LEMMA PcOlder ==
  ASSUME NEW v \in Memory, NEW pc \in Steps,
         NEW o \in SUBSET Intents
  PROVE  LET m == WithOlder(v, pc, o) IN
         /\ m \in Memory /\ m.pc = pc /\ m.older = o
         /\ m.browser = v.browser /\ m.jwt = v.jwt /\ m.provider = v.provider
         /\ m.intent = v.intent /\ m.subject = v.subject
BY DEF Memory, WithOlder

WithSubject(v, pc, s) == [v EXCEPT !.pc = pc, !.subject = s]

LEMMA PcSubject ==
  ASSUME NEW v \in Memory, NEW pc \in Steps,
         NEW s \in Subjects
  PROVE  LET m == WithSubject(v, pc, s) IN
         /\ m \in Memory /\ m.pc = pc /\ m.subject = s
         /\ m.browser = v.browser /\ m.jwt = v.jwt /\ m.provider = v.provider /\ m.intent = v.intent
BY DEF Memory, WithSubject

WithProviderSubject(v, pc, p, s) == [v EXCEPT !.pc = pc, !.provider = p, !.subject = s]

LEMMA PcProviderSubject ==
  ASSUME NEW v \in Memory, NEW pc \in Steps,
         NEW p \in Providers, NEW s \in Subjects
  PROVE  LET m == WithProviderSubject(v, pc, p, s) IN
         /\ m \in Memory /\ m.pc = pc /\ m.provider = p /\ m.subject = s
         /\ m.browser = v.browser /\ m.jwt = v.jwt /\ m.intent = v.intent
BY DEF Memory, WithProviderSubject

WithJwtProvider(v, pc, j, p) == [v EXCEPT !.pc = pc, !.jwt = j, !.provider = p]

LEMMA PcJwtProvider ==
  ASSUME NEW v \in Memory, NEW pc \in Steps,
         NEW j \in Jwt, NEW p \in Providers
  PROVE  LET m == WithJwtProvider(v, pc, j, p) IN
         /\ m \in Memory /\ m.pc = pc /\ m.jwt = j /\ m.provider = p
         /\ m.browser = v.browser /\ m.intent = v.intent /\ m.subject = v.subject
BY DEF Memory, WithJwtProvider

WithBrowserJwtIntent(v, pc, b, j, i) == [v EXCEPT !.pc = pc, !.browser = b, !.jwt = j, !.intent = i]

LEMMA PcBrowserJwtIntent ==
  ASSUME NEW v \in Memory, NEW pc \in Steps,
         NEW b \in Sessions, NEW j \in Jwt, NEW i \in Intents
  PROVE  LET m == WithBrowserJwtIntent(v, pc, b, j, i) IN
         /\ m \in Memory /\ m.pc = pc /\ m.browser = b /\ m.jwt = j /\ m.intent = i
         /\ m.provider = v.provider /\ m.subject = v.subject
BY DEF Memory, WithBrowserJwtIntent

LEMMA RestingSound == Resting \in Memory /\ Resting.pc = "idle" /\ Sound(Resting)
BY DEF Resting, Memory, Steps, Jwt, NoCookie, Sound, Opening, Callback, Claims

LEMMA UserFields ==
  ASSUME NEW v \in UserRow
  PROVE  /\ v.version \in Nat /\ [v EXCEPT !.version = @ + 1] \in UserRow
         /\ [v EXCEPT !.version = @ + 1].version = v.version + 1
BY DEF UserRow

LEMMA IntentFields ==
  ASSUME NEW v \in IntentRow
  PROVE  /\ v.version \in Nat /\ v.provider \in Providers \cup {None}
         /\ [v EXCEPT !.status = "CONSUMED"] \in IntentRow
         /\ [v EXCEPT !.status = "CONSUMED"].status = "CONSUMED"
         /\ [v EXCEPT !.status = "CONSUMED"].provider = v.provider
         /\ [v EXCEPT !.status = "CONSUMED"].version = v.version
         /\ [v EXCEPT !.expired = TRUE] \in IntentRow
         /\ [v EXCEPT !.expired = TRUE].status = v.status
         /\ [v EXCEPT !.expired = TRUE].provider = v.provider
         /\ [v EXCEPT !.expired = TRUE].version = v.version
BY DEF IntentRow

----------------------------------------------------------------------------
(* A step changes the rows as every request allows, and one request's memory *)

\* Versions grow, an account is added only with a new version, and an intent keeps
\* its provider, its version and its consumption.
RowsMove ==
  /\ user' \in UserRow /\ user.version <= user'.version
  /\ accounts' \subseteq Providers \X Subjects
  /\ user'.version = user.version => accounts' \subseteq accounts
  /\ intent' \in [Intents -> IntentRow]
  /\ \A i \in Intents : intent[i].status # "ABSENT" =>
       /\ intent'[i].status # "ABSENT"
       /\ intent'[i].provider = intent[i].provider
       /\ intent'[i].version = intent[i].version
       /\ intent[i].status = "CONSUMED" => intent'[i].status = "CONSUMED"

LEMMA SoundKept ==
  ASSUME TypeOK, RowsMove, NEW m \in Memory, Sound(m)
  PROVE  Sound(m)'
<1>1. user.version \in Nat /\ user'.version \in Nat
  BY UserFields DEF TypeOK, RowsMove
<1>2. \A p : user'.version = user.version /\ Connected(p)' => Connected(p)
  BY DEF RowsMove, Connected
<1>3. m.jwt.version <= user.version /\ m.jwt.version \in Nat =>
        /\ m.jwt.version <= user'.version
        /\ m.jwt.version = user'.version => m.jwt.version = user.version /\ user'.version = user.version
        /\ m.jwt.version + 1 <= user.version => m.jwt.version + 1 <= user'.version
  BY <1>1 DEF RowsMove
<1>4. m.intent \in Intents /\ intent[m.intent].status # "ABSENT" =>
       /\ intent'[m.intent].status # "ABSENT"
       /\ intent'[m.intent].provider = intent[m.intent].provider
       /\ intent'[m.intent].version = intent[m.intent].version
       /\ intent[m.intent].status = "CONSUMED" => intent'[m.intent].status = "CONSUMED"
  BY DEF RowsMove
<1>5. m.older \subseteq Intents
  BY DEF Memory
<1>6. \A j \in Intents : intent[j].status # "ABSENT" => intent'[j].status # "ABSENT"
  BY DEF RowsMove
<1> QED
  BY <1>2, <1>3, <1>4, <1>5, <1>6 DEF Sound, Opening, Callback, Claims

\* Request q goes on with memory m; nobody else claims what it claims.
Goes(q, m) ==
  /\ m \in Memory
  /\ request' = [request EXCEPT ![q] = m]
  /\ Sound(m)'
  /\ m.pc \in Claims =>
       \/ request[q].pc \in Claims /\ m.intent = request[q].intent
       \/ intent[m.intent].status # "CONSUMED"

LEMMA RequestsKept ==
  ASSUME TypeOK, RowsMove, \A q \in Requests : Sound(request[q]), ClaimsApart,
         request' = request \/ \E q \in Requests, m \in Memory : Goes(q, m)
  PROVE  /\ request' \in [Requests -> Memory]
         /\ (\A q \in Requests : Sound(request[q]))'
         /\ ClaimsApart'
<1>1. CASE request' = request
  BY <1>1, SoundKept DEF TypeOK, ClaimsApart
<1>2. ASSUME NEW q \in Requests, NEW m \in Memory, Goes(q, m)
      PROVE  /\ request' \in [Requests -> Memory]
             /\ (\A r \in Requests : Sound(request[r]))'
             /\ ClaimsApart'
  <2>1. /\ request' \in [Requests -> Memory] /\ request'[q] = m
        /\ \A r \in Requests : r # q => request'[r] = request[r]
    BY <1>2 DEF Goes, TypeOK
  <2>2. ASSUME NEW r \in Requests
        PROVE  Sound(request[r])'
    <3>1. Sound(m)' /\ (request[r] \in Memory)
      BY <1>2 DEF Goes, TypeOK
    <3>2. CASE r = q
      <4>1. request'[r] = m
        BY <2>1, <3>2
      <4> QED
        BY <3>1, <4>1 DEF Sound
    <3>3. CASE r # q
      <4> PICK n \in Memory : n = request[r]
        BY <3>1
      <4>1. Sound(n)'
        BY SoundKept
      <4>2. request'[r] = n
        BY <2>1, <3>3
      <4> QED
        BY <4>1, <4>2 DEF Sound
    <3> QED
      BY <3>2, <3>3
  <2>3. ASSUME NEW r \in Requests, r # q, request[r].pc \in Claims, m.pc \in Claims
        PROVE  request[r].intent # m.intent
    <3>1. intent[request[r].intent].status = "CONSUMED"
      BY <2>3 DEF Sound
    <3> QED
      BY <1>2, <2>3, <3>1 DEF Goes, ClaimsApart
  <2> QED
    BY <2>1, <2>2, <2>3 DEF ClaimsApart
<1> QED
  BY <1>1, <1>2

----------------------------------------------------------------------------
(* The rows *)

LEMMA RowsStill ==
  ASSUME TypeOK, UNCHANGED <<user, accounts, intent>>
  PROVE  RowsMove
<1>1. user.version \in Nat
  BY UserFields DEF TypeOK
<1> QED
  BY <1>1 DEF TypeOK, RowsMove

LEMMA BumpMoves ==
  ASSUME TypeOK, user' = [user EXCEPT !.version = @ + 1],
         accounts' \subseteq Providers \X Subjects, UNCHANGED intent
  PROVE  RowsMove /\ user'.version = user.version + 1
<1>1. /\ user.version \in Nat /\ user' \in UserRow
      /\ user'.version = user.version + 1
  BY UserFields DEF TypeOK
<1> QED
  BY <1>1 DEF TypeOK, RowsMove

\* What the steps of intents do to them.
IntentsMove ==
  /\ UNCHANGED <<user, accounts>>
  /\ intent' \in [Intents -> IntentRow]
  /\ \A i \in Intents :
       IF intent[i].status = "ABSENT"
       THEN \/ intent'[i] = intent[i]
            \/ /\ intent'[i].status = "OPEN"
               /\ intent'[i].provider \in Providers
               /\ ~Connected(intent'[i].provider) \/ intent'[i].version # user.version
               /\ intent'[i].version <= user.version
       ELSE /\ intent'[i].status \in {intent[i].status, "CONSUMED"}
            /\ intent'[i].provider = intent[i].provider
            /\ intent'[i].version = intent[i].version

LEMMA IntentsMoveKeep ==
  ASSUME TypeOK, IntentsMove, \A i \in Intents : IntentSound(i)
  PROVE  RowsMove /\ (\A i \in Intents : IntentSound(i))'
<1>1. user.version \in Nat
  BY UserFields DEF TypeOK
<1>2. RowsMove
  BY <1>1 DEF TypeOK, RowsMove, IntentsMove, IntentRow
<1>3. \A p : Connected(p)' <=> Connected(p)
  BY DEF Connected, IntentsMove
<1>4. ASSUME NEW i \in Intents
      PROVE  IntentSound(i)'
  <2>1. IntentSound(i)
    OBVIOUS
  <2>2. CASE intent[i].status = "ABSENT" /\ intent'[i] = intent[i]
    BY <2>1, <2>2, <1>3 DEF IntentSound, IntentsMove
  <2>3. CASE intent[i].status = "ABSENT" /\ intent'[i] # intent[i]
    BY <2>3, <1>3 DEF IntentSound, IntentsMove
  <2>4. CASE intent[i].status # "ABSENT"
    BY <2>1, <2>4, <1>3 DEF IntentSound, IntentsMove
  <2> QED
    BY <2>2, <2>3, <2>4
<1> QED
  BY <1>2, <1>4

LEMMA IntentSteps ==
  ASSUME TypeOK, \A q \in Requests : Sound(request[q]),
         \A i \in Intents : IntentSound(i)
  PROVE  /\ \A i \in Intents : IntentExpires(i) => IntentsMove
         /\ \A q \in Requests, i \in Intents : CreateIntent(q, i) => IntentsMove
         /\ \A q \in Requests, ok \in BOOLEAN : BuildUrl(q, ok) => IntentsMove
         /\ \A q \in Requests : ClaimIntent(q) => IntentsMove
<1>0. \A i \in Intents : intent[i] \in IntentRow
  BY DEF TypeOK
<1>1. ASSUME NEW i \in Intents, NEW v \in IntentRow,
             intent[i].status = "OPEN", v.status \in {"OPEN", "CONSUMED"},
             v.provider = intent[i].provider, v.version = intent[i].version,
             intent' = [intent EXCEPT ![i] = v], UNCHANGED <<user, accounts>>
      PROVE  IntentsMove
  BY <1>1 DEF IntentsMove, TypeOK
<1>2. UNCHANGED <<user, accounts, intent>> => IntentsMove
  BY DEF IntentsMove, TypeOK
<1>3. ASSUME NEW i \in Intents, IntentExpires(i)
      PROVE  IntentsMove
  <2> DEFINE v == [intent[i] EXCEPT !.expired = TRUE]
  <2>1. /\ v \in IntentRow /\ v.status = intent[i].status
        /\ v.provider = intent[i].provider /\ v.version = intent[i].version
    BY <1>0, IntentFields
  <2>2. intent' = [intent EXCEPT ![i] = v] /\ intent[i].status = "OPEN"
    BY <1>3 DEF IntentExpires, Open
  <2> HIDE DEF v
  <2> QED
    BY <1>1, <1>3, <2>1, <2>2 DEF IntentExpires
<1>4. ASSUME NEW i \in Intents
      PROVE  LET v == [intent[i] EXCEPT !.status = "CONSUMED"] IN
             /\ v \in IntentRow /\ v.status = "CONSUMED"
             /\ v.provider = intent[i].provider /\ v.version = intent[i].version
  BY <1>0, IntentFields
<1>5. ASSUME NEW q \in Requests, NEW ok \in BOOLEAN, BuildUrl(q, ok)
      PROVE  IntentsMove
  <2> DEFINE i == request[q].intent
             v == [intent[i] EXCEPT !.status = "CONSUMED"]
  <2>1. CASE ok \/ intent[i].status # "OPEN"
    BY <1>2, <1>5, <2>1 DEF BuildUrl
  <2>2. CASE ~ok /\ intent[i].status = "OPEN"
    <3>1. i \in Intents
      BY <1>5 DEF BuildUrl, At, Sound
    <3>2. /\ v \in IntentRow /\ v.status = "CONSUMED"
          /\ v.provider = intent[i].provider /\ v.version = intent[i].version
      BY <1>4, <3>1
    <3>3. intent' = [intent EXCEPT ![i] = v]
      BY <1>5, <2>2 DEF BuildUrl
    <3> HIDE DEF v, i
    <3> QED
      BY <1>1, <1>5, <2>2, <3>1, <3>2, <3>3 DEF BuildUrl
  <2> QED
    BY <2>1, <2>2
<1>6. ASSUME NEW q \in Requests, ClaimIntent(q)
      PROVE  IntentsMove
  <2> DEFINE i == request[q].intent
             v == [intent[i] EXCEPT !.status = "CONSUMED"]
  <2>1. CASE ~Open(i)
    BY <1>2, <1>6, <2>1 DEF ClaimIntent
  <2>2. CASE Open(i)
    <3>1. i \in Intents
      BY <1>6 DEF ClaimIntent, At, Sound, Callback
    <3>2. /\ v \in IntentRow /\ v.status = "CONSUMED"
          /\ v.provider = intent[i].provider /\ v.version = intent[i].version
      BY <1>4, <3>1
    <3>3. intent' = [intent EXCEPT ![i] = v] /\ intent[i].status = "OPEN"
      BY <1>6, <2>2 DEF ClaimIntent, Open
    <3> HIDE DEF v, i
    <3> QED
      BY <1>1, <1>6, <3>1, <3>2, <3>3 DEF ClaimIntent
  <2> QED
    BY <2>1, <2>2
<1>7. ASSUME NEW q \in Requests, NEW i \in Intents, CreateIntent(q, i)
      PROVE  IntentsMove
  <2> DEFINE p == request[q].provider
             new == [status |-> "OPEN", expired |-> FALSE, provider |-> p,
                     version |-> request[q].jwt.version]
  <2>1. /\ p \in Providers /\ p # None
        /\ request[q].jwt.version \in Nat /\ request[q].jwt.version <= user.version
        /\ request[q].jwt.version = user.version => ~Connected(p)
    BY <1>7, ConstantsOK DEF CreateIntent, At, Sound, Opening
  <2>2. new \in IntentRow
    BY <2>1 DEF IntentRow
  <2>3. \A j \in Intents : intent'[j] =
          IF j = i THEN new
          ELSE IF j \in request[q].older THEN [intent[j] EXCEPT !.status = "CONSUMED"]
          ELSE intent[j]
    BY <1>7 DEF CreateIntent
  <2>4. intent' \in [Intents -> IntentRow]
    <3>1. DOMAIN intent' = Intents /\ intent' = [j \in Intents |-> intent'[j]]
      BY <1>7 DEF CreateIntent
    <3>2. \A j \in Intents : intent'[j] \in IntentRow
      BY <1>0, <1>4, <2>2, <2>3
    <3> QED
      BY <3>1, <3>2
  <2>5. ASSUME NEW j \in Intents
        PROVE  IF intent[j].status = "ABSENT"
               THEN \/ intent'[j] = intent[j]
                    \/ /\ intent'[j].status = "OPEN"
                       /\ intent'[j].provider \in Providers
                       /\ ~Connected(intent'[j].provider) \/ intent'[j].version # user.version
                       /\ intent'[j].version <= user.version
               ELSE /\ intent'[j].status \in {intent[j].status, "CONSUMED"}
                    /\ intent'[j].provider = intent[j].provider
                    /\ intent'[j].version = intent[j].version
    <3>1. CASE j = i
      <4>1. intent[j].status = "ABSENT" /\ intent'[j] = new
        BY <1>7, <2>3, <3>1 DEF CreateIntent
      <4>2. new.status = "OPEN" /\ new.provider = p /\ new.version = request[q].jwt.version
        OBVIOUS
      <4> QED
        BY <2>1, <4>1, <4>2
    <3>2. CASE j # i /\ j \in request[q].older
      <4>1. intent[j].status # "ABSENT"
        BY <1>7, <3>2 DEF CreateIntent, At, Sound
      <4> QED
        BY <1>4, <2>3, <3>2, <4>1
    <3>3. CASE j # i /\ j \notin request[q].older
      BY <2>3, <3>3
    <3> QED
      BY <3>1, <3>2, <3>3
  <2> QED
    BY <1>7, <2>4, <2>5 DEF IntentsMove, CreateIntent
<1> QED
  BY <1>3, <1>5, <1>6, <1>7

----------------------------------------------------------------------------
(* The requests *)

LEMMA SoundStill ==
  ASSUME UNCHANGED <<user, accounts, intent>>, NEW m
  PROVE  Sound(m)' <=> Sound(m)
BY DEF Sound, Connected

Progresses(q) == \E m \in Memory : Goes(q, m)

LEMMA RestsOrProgresses ==
  ASSUME NEW q \in Requests, Finish(q)
  PROVE  Progresses(q)
<1>1. Sound(Resting)' /\ Resting.pc \notin Claims /\ Resting \in Memory
  BY RestingSound DEF Sound, Resting, Opening, Callback, Claims
<1> QED
  BY <1>1 DEF Finish, Goes, Progresses

LEMMA StartSteps ==
  ASSUME TypeOK, \A i \in Intents : IntentSound(i), NEW q \in Requests, StartStep(q)
  PROVE  Progresses(q) /\ UNCHANGED <<user, accounts, intent, cookie>>
<1>0. /\ request[q] \in Memory /\ user.version \in Nat /\ \A s \in Sessions : cookie[s] \in Jwt
      /\ \A pc \in {"start", "guard", "read", "gated"} : pc \in Steps
  BY UserFields DEF TypeOK, Steps
<1>1. ASSUME NEW m \in Memory, request' = [request EXCEPT ![q] = m],
             UNCHANGED <<user, accounts, intent>>, Sound(m), m.pc \notin Claims
      PROVE  Progresses(q)
  BY <1>1, SoundStill DEF Progresses, Goes
<1>2. ASSUME NEW s \in Sessions, NEW p \in Providers, StartLink(q, s, p)
      PROVE  Progresses(q)
  <2>1. PICK m \in Memory : /\ m.pc = "start" /\ m.provider = p /\ m.jwt = cookie[s]
                            /\ request' = [request EXCEPT ![q] = m]
    <3> DEFINE n == WithJwtProvider(request[q], "start", cookie[s], p)
    <3>1. n \in Memory /\ n.pc = "start" /\ n.provider = p /\ n.jwt = cookie[s]
      BY <1>0, <1>2, PcJwtProvider
    <3>2. request' = [request EXCEPT ![q] = n]
      BY <1>2 DEF StartLink, WithJwtProvider
    <3> HIDE DEF n
    <3> QED
      BY <3>1, <3>2
  <2>2. m.jwt.version \in Nat /\ m.jwt.version <= user.version
    BY <1>0, <1>2, <2>1 DEF StartLink, LiveSession
  <2>3. Sound(m) /\ m.pc \notin Claims
    BY <2>1, <2>2 DEF Sound, Opening, Callback, Claims
  <2> QED
    BY <1>1, <1>2, <2>1, <2>3 DEF StartLink
<1>3. ASSUME NEW s \in Sessions, NEW p \in Providers, StartDisconnect(q, s, p)
      PROVE  Progresses(q)
  <2>1. PICK m \in Memory : /\ m.pc = "guard" /\ m.provider = p
                            /\ request' = [request EXCEPT ![q] = m]
    <3> DEFINE n == WithProvider(request[q], "guard", p)
    <3>1. n \in Memory /\ n.pc = "guard" /\ n.provider = p
      BY <1>0, <1>3, PcProvider
    <3>2. request' = [request EXCEPT ![q] = n]
      BY <1>3 DEF StartDisconnect, WithProvider
    <3> HIDE DEF n
    <3> QED
      BY <3>1, <3>2
  <2>2. Sound(m) /\ m.pc \notin Claims
    BY <2>1 DEF Sound, Opening, Callback, Claims
  <2> QED
    BY <1>1, <1>3, <2>1, <2>2 DEF StartDisconnect
<1>4. ASSUME NEW s \in Sessions, NEW i \in Intents, StartCallback(q, s, i)
      PROVE  Progresses(q)
  <2>1. PICK m \in Memory : /\ m.pc = "read" /\ m.browser = s /\ m.jwt = cookie[s]
                            /\ m.intent = i
                            /\ request' = [request EXCEPT ![q] = m]
    <3> DEFINE n == WithBrowserJwtIntent(request[q], "read", s, cookie[s], i)
    <3>1. /\ n \in Memory /\ n.pc = "read" /\ n.browser = s /\ n.jwt = cookie[s]
          /\ n.intent = i
      BY <1>0, <1>4, PcBrowserJwtIntent
    <3>2. request' = [request EXCEPT ![q] = n]
      BY <1>4 DEF StartCallback, WithBrowserJwtIntent
    <3> HIDE DEF n
    <3> QED
      BY <3>1, <3>2
  <2>2. m.jwt.version \in Nat /\ m.jwt.version <= user.version
    BY <1>0, <1>4, <2>1 DEF StartCallback, LiveSession
  <2>3. Sound(m) /\ m.pc \notin Claims
    BY <1>4, <2>1, <2>2 DEF StartCallback, Sound, Opening, Callback, Claims
  <2> QED
    BY <1>1, <1>4, <2>1, <2>3 DEF StartCallback
<1>5. ASSUME NEW p \in Providers, NEW x \in Subjects, SocialGate(q, p, x)
      PROVE  Progresses(q)
  <2>1. PICK m \in Memory : /\ m.pc = "gated" /\ m.provider = p /\ m.subject = x
                            /\ request' = [request EXCEPT ![q] = m]
    <3> DEFINE n == WithProviderSubject(request[q], "gated", p, x)
    <3>1. n \in Memory /\ n.pc = "gated" /\ n.provider = p /\ n.subject = x
      BY <1>0, <1>5, PcProviderSubject
    <3>2. request' = [request EXCEPT ![q] = n]
      BY <1>5 DEF SocialGate, WithProviderSubject
    <3> HIDE DEF n
    <3> QED
      BY <3>1, <3>2
  <2>2. Sound(m) /\ m.pc \notin Claims
    BY <2>1 DEF Sound, Opening, Callback, Claims
  <2> QED
    BY <1>1, <1>5, <2>1, <2>2 DEF SocialGate
<1>6. Progresses(q)
  BY <1>2, <1>3, <1>4, <1>5 DEF StartStep
<1>7. UNCHANGED <<user, accounts, intent, cookie>>
  BY DEF StartStep, StartLink, StartDisconnect, StartCallback, SocialGate
<1> QED
  BY <1>6, <1>7

\* What a request remembers when only its place in the code moves on.
MovedTo(m, v, pc) ==
  /\ m.pc = pc
  /\ m.browser = v.browser /\ m.jwt = v.jwt /\ m.provider = v.provider
  /\ m.intent = v.intent /\ m.subject = v.subject

LEMMA GoMoves ==
  ASSUME TypeOK, NEW q \in Requests, NEW pc \in Steps, Go(q, pc)
  PROVE  \E m \in Memory : /\ MovedTo(m, request[q], pc)
                           /\ request' = [request EXCEPT ![q] = m]
<1>1. request[q] \in Memory /\ request' = [request EXCEPT ![q] = [request[q] EXCEPT !.pc = pc]]
  BY DEF TypeOK, Go
<1> QED
  BY <1>1, PcField DEF MovedTo

LEMMA RequestSteps ==
  ASSUME TypeOK, \A r \in Requests : Sound(request[r]), \A i \in Intents : IntentSound(i),
         NEW q \in Requests, RequestStep(q), RowsMove
  PROVE  Progresses(q)
<1> USE DEF At
<1>0. /\ request[q] \in Memory /\ user.version \in Nat /\ Sound(request[q])
      /\ \A i \in Intents : intent[i] \in IntentRow
      /\ \A pc \in {"unlinked", "create", "insert", "url", "claim", "exchange", "collide", "link",
                     "answer", "delete"} : pc \in Steps
  BY UserFields DEF TypeOK, Steps
<1>1. ASSUME NEW m \in Memory, request' = [request EXCEPT ![q] = m],
             UNCHANGED <<user, accounts, intent>>, Sound(m),
             m.pc \in Claims => request[q].pc \in Claims /\ m.intent = request[q].intent
      PROVE  Progresses(q)
  BY <1>1, SoundStill DEF Progresses, Goes
<1>2. ASSUME Finish(q)
      PROVE  Progresses(q)
  BY <1>2, RestsOrProgresses
<1>3. ASSUME NEW s \in Sessions, SocialSignIn(q, s)
      PROVE  Progresses(q)
  BY <1>2, <1>3 DEF SocialSignIn
<1>4. ASSUME NEW b \in BOOLEAN, CheckUser(q, b)
      PROVE  Progresses(q)
  <2>1. ASSUME Go(q, "unlinked")
        PROVE  Progresses(q)
    <3>1. PICK m \in Memory : /\ MovedTo(m, request[q], "unlinked")
                              /\ request' = [request EXCEPT ![q] = m]
      BY <1>0, <2>1, GoMoves
    <3>2. Sound(m) /\ m.pc \notin Claims
      BY <1>0, <1>4, <3>1 DEF CheckUser, MovedTo, Sound, Opening, Callback, Claims
    <3> QED
      BY <1>1, <1>4, <3>1, <3>2 DEF CheckUser
  <2> QED
    BY <1>2, <1>4, <2>1 DEF CheckUser, GoIf
<1>5. CASE CheckUnlinked(q)
  <2>1. ASSUME Go(q, "create"), ~Connected(request[q].provider)
        PROVE  Progresses(q)
    <3>1. PICK m \in Memory : /\ MovedTo(m, request[q], "create")
                              /\ request' = [request EXCEPT ![q] = m]
      BY <1>0, <2>1, GoMoves
    <3>2. Sound(m) /\ m.pc \notin Claims
      BY <1>0, <1>5, <2>1, <3>1 DEF CheckUnlinked, MovedTo, Sound, Opening, Callback, Claims
    <3> QED
      BY <1>1, <1>5, <3>1, <3>2 DEF CheckUnlinked
  <2> QED
    BY <1>2, <1>5, <2>1 DEF CheckUnlinked, GoIf
<1>6. ASSUME NEW i \in Intents, CreateIntent(q, i)
      PROVE  Progresses(q)
  <2>1. PICK m \in Memory : /\ m.pc = "url" /\ m.intent = i
                            /\ request' = [request EXCEPT ![q] = m]
    <3> DEFINE n == WithIntent(request[q], "url", i)
    <3>1. n \in Memory /\ n.pc = "url" /\ n.intent = i
      BY <1>0, <1>6, PcIntent
    <3>2. request' = [request EXCEPT ![q] = n]
      BY <1>6 DEF CreateIntent, WithIntent
    <3> HIDE DEF n
    <3> QED
      BY <3>1, <3>2
  <2>2. Sound(m)' /\ m.pc \notin Claims
    BY <2>1 DEF Sound, Opening, Callback, Claims
  <2> QED
    BY <2>1, <2>2 DEF Progresses, Goes
<1>7. ASSUME NEW ok \in BOOLEAN, BuildUrl(q, ok)
      PROVE  Progresses(q)
  BY <1>2, <1>7 DEF BuildUrl
<1>8. CASE ReadIntent(q)
  <2> DEFINE i == request[q].intent
  <2>1. CASE Finish(q)
    BY <1>2, <2>1
  <2>2. CASE ~Finish(q)
    <3>1. i \in Intents
      BY <1>0, <1>8 DEF ReadIntent, Sound, Callback
    <3>2. /\ intent[i].status = "OPEN" /\ intent[i].version = request[q].jwt.version
          /\ intent[i].provider \in Providers
      BY <1>8, <2>2, <3>1 DEF ReadIntent, Open, IntentSound
    <3>3. PICK m \in Memory :
            /\ m.pc = "claim" /\ m.provider = intent[i].provider
            /\ m.browser = request[q].browser /\ m.jwt = request[q].jwt
            /\ m.intent = i /\ m.subject = request[q].subject
            /\ request' = [request EXCEPT ![q] = m]
      <4> DEFINE n == WithProvider(request[q], "claim", intent[i].provider)
      <4>1. /\ n \in Memory /\ n.pc = "claim" /\ n.provider = intent[i].provider
            /\ n.browser = request[q].browser /\ n.jwt = request[q].jwt
            /\ n.intent = request[q].intent /\ n.subject = request[q].subject
        <5>1. request[q] \in Memory /\ "claim" \in Steps /\ intent[i].provider \in Providers
          BY <1>0, <3>2
        <5>2. \A v \in Memory, p \in Providers : LET m == WithProvider(v, "claim", p) IN
                /\ m \in Memory /\ m.pc = "claim" /\ m.provider = p
                /\ m.browser = v.browser /\ m.jwt = v.jwt /\ m.intent = v.intent
                /\ m.subject = v.subject
          BY <5>1, PcProvider
        <5> QED
          BY <5>1, <5>2
      <4>2. request' = [request EXCEPT ![q] = n]
        BY <1>8, <2>2, <3>2 DEF ReadIntent, WithProvider
      <4> HIDE DEF n
      <4> QED
        BY <4>1, <4>2
    <3>4. Sound(m) /\ m.pc \notin Claims
      BY <1>0, <1>8, <3>2, <3>3 DEF ReadIntent, Sound, Opening, Callback, Claims
    <3> QED
      BY <1>1, <1>8, <3>3, <3>4 DEF ReadIntent
  <2> QED
    BY <2>1, <2>2
<1>9. CASE ClaimIntent(q)
  <2> DEFINE i == request[q].intent
  <2>1. ASSUME Go(q, "exchange"), Open(i)
        PROVE  Progresses(q)
    <3>1. PICK m \in Memory : /\ MovedTo(m, request[q], "exchange")
                              /\ request' = [request EXCEPT ![q] = m]
      BY <1>0, <2>1, GoMoves
    <3>2. i \in Intents /\ m.intent = i
      BY <1>0, <1>9, <3>1 DEF ClaimIntent, MovedTo, Sound, Callback
    <3>3. m.provider \in Providers /\ m.browser \in Sessions
      BY <1>0, <1>9, <3>1 DEF ClaimIntent, MovedTo, Sound, Callback
    <3>4. /\ intent'[i].status = "CONSUMED"
          /\ intent'[i].provider = m.provider /\ intent'[i].version = m.jwt.version
      <4>1. intent' = [intent EXCEPT ![i] = [intent[i] EXCEPT !.status = "CONSUMED"]]
        BY <1>9, <2>1 DEF ClaimIntent
      <4>2. intent'[i] = [intent[i] EXCEPT !.status = "CONSUMED"]
        BY <3>2, <4>1 DEF TypeOK
      <4>3. intent[i].provider = m.provider /\ intent[i].version = m.jwt.version
        BY <1>0, <1>9, <3>1 DEF ClaimIntent, MovedTo, Sound, Callback, Claims
      <4> QED
        BY <1>0, <3>2, <4>2, <4>3, IntentFields
    <3>5. m.jwt.version \in Nat /\ m.jwt.version <= user'.version
      BY <1>0, <1>9, <3>1 DEF ClaimIntent, MovedTo, Sound, Callback
    <3>6. Sound(m)'
      BY <3>1, <3>2, <3>3, <3>4, <3>5 DEF MovedTo, Sound, Opening, Callback, Claims
    <3>7. intent[m.intent].status # "CONSUMED"
      BY <2>1, <3>2 DEF Open
    <3> QED
      BY <3>1, <3>6, <3>7 DEF Progresses, Goes
  <2> QED
    BY <1>2, <1>9, <2>1 DEF ClaimIntent, GoIf
<1>10. ASSUME NEW x \in Subjects \cup {None}, ExchangeCode(q, x)
       PROVE  Progresses(q)
  <2>1. CASE x = None
    BY <1>2, <1>10, <2>1 DEF ExchangeCode
  <2>2. CASE x # None
    <3>1. PICK m \in Memory :
            /\ m.pc = "collide" /\ m.subject = x
            /\ m.browser = request[q].browser /\ m.jwt = request[q].jwt
            /\ m.intent = request[q].intent /\ m.provider = request[q].provider
            /\ request' = [request EXCEPT ![q] = m]
      <4> DEFINE n == WithSubject(request[q], "collide", x)
      <4>1. /\ n \in Memory /\ n.pc = "collide" /\ n.subject = x
            /\ n.browser = request[q].browser /\ n.jwt = request[q].jwt
            /\ n.intent = request[q].intent /\ n.provider = request[q].provider
        <5>1. request[q] \in Memory /\ "collide" \in Steps /\ x \in Subjects
          BY <1>0, <2>2
        <5>2. \A v \in Memory, s \in Subjects : LET m == WithSubject(v, "collide", s) IN
                /\ m \in Memory /\ m.pc = "collide" /\ m.subject = s
                /\ m.browser = v.browser /\ m.jwt = v.jwt /\ m.provider = v.provider
                /\ m.intent = v.intent
          BY <5>1, PcSubject
        <5> QED
          BY <5>1, <5>2
      <4>2. request' = [request EXCEPT ![q] = n]
        BY <1>10, <2>2 DEF ExchangeCode, WithSubject
      <4> HIDE DEF n
      <4> QED
        BY <4>1, <4>2
    <3>2. Sound(m) /\ request[q].pc \in Claims
      BY <1>0, <1>10, <2>2, <3>1 DEF ExchangeCode, Sound, Opening, Callback, Claims
    <3> QED
      BY <1>1, <1>10, <3>1, <3>2 DEF ExchangeCode
  <2> QED
    BY <2>1, <2>2
<1>11. ASSUME NEW b \in BOOLEAN, CheckCollision(q, b)
       PROVE  Progresses(q)
  <2>1. ASSUME Go(q, "link")
        PROVE  Progresses(q)
    <3>1. PICK m \in Memory : /\ MovedTo(m, request[q], "link")
                              /\ request' = [request EXCEPT ![q] = m]
      BY <1>0, <2>1, GoMoves
    <3>2. Sound(m) /\ request[q].pc \in Claims /\ m.intent = request[q].intent
      BY <1>0, <1>11, <3>1 DEF CheckCollision, MovedTo, Sound, Opening, Callback, Claims
    <3> QED
      BY <1>1, <1>11, <3>1, <3>2 DEF CheckCollision
  <2> QED
    BY <1>2, <1>11, <2>1 DEF CheckCollision, GoIf
<1>12. ASSUME NEW b \in BOOLEAN, CommitLink(q, b)
       PROVE  Progresses(q)
  <2>1. ASSUME Go(q, "answer"), user' = [user EXCEPT !.version = @ + 1],
               user.version = intent[request[q].intent].version
        PROVE  Progresses(q)
    <3>1. PICK m \in Memory : /\ MovedTo(m, request[q], "answer")
                              /\ request' = [request EXCEPT ![q] = m]
      BY <1>0, <2>1, GoMoves
    <3>2. user'.version = user.version + 1
      BY <2>1, UserFields DEF TypeOK
    <3>3. /\ m.intent \in Intents /\ m.browser \in Sessions /\ m.provider \in Providers
          /\ intent[m.intent].status = "CONSUMED"
          /\ intent[m.intent].provider = m.provider
          /\ intent[m.intent].version = m.jwt.version
          /\ m.jwt.version \in Nat /\ m.intent = request[q].intent
      BY <1>0, <1>12, <3>1 DEF CommitLink, MovedTo, Sound, Opening, Callback, Claims
    <3>4. UNCHANGED intent
      BY <1>12 DEF CommitLink
    <3>5. m.jwt.version = user.version
      BY <2>1, <3>3
    <3>6. m.jwt.version <= user'.version /\ m.jwt.version + 1 <= user'.version
      BY <1>0, <3>2, <3>5
    <3>7. Sound(m)'
      BY <3>1, <3>3, <3>4, <3>6 DEF MovedTo, Sound, Opening, Callback, Claims
    <3>8. request[q].pc \in Claims
      BY <1>12 DEF CommitLink, Claims
    <3> QED
      BY <3>1, <3>3, <3>7, <3>8 DEF Progresses, Goes
  <2> QED
    BY <1>2, <1>12, <2>1 DEF CommitLink
<1>13. CASE AnswerCallback(q) \/ DeleteProvider(q) \/ Die(q)
  BY <1>2, <1>13 DEF AnswerCallback, DeleteProvider, Die
<1>14. CASE GuardLockout(q)
  <2>1. ASSUME Go(q, "delete")
        PROVE  Progresses(q)
    <3>1. PICK m \in Memory : /\ MovedTo(m, request[q], "delete")
                              /\ request' = [request EXCEPT ![q] = m]
      BY <1>0, <2>1, GoMoves
    <3>2. Sound(m) /\ m.pc \notin Claims
      BY <1>0, <1>14, <3>1 DEF GuardLockout, MovedTo, Sound, Opening, Callback, Claims
    <3> QED
      BY <1>1, <1>14, <3>1, <3>2 DEF GuardLockout
  <2> QED
    BY <1>2, <1>14, <2>1 DEF GuardLockout, GoIf
<1>15. CASE RevokeIntents(q)
  <2> DEFINE o == {j \in Intents : /\ intent[j].provider = request[q].provider
                                  /\ intent[j].status = "OPEN"}
  <2>1. PICK m \in Memory : /\ m.pc = "insert" /\ m.older = o
                            /\ m.jwt = request[q].jwt /\ m.provider = request[q].provider
                            /\ request' = [request EXCEPT ![q] = m]
    <3> DEFINE n == WithOlder(request[q], "insert", o)
    <3>1. /\ n \in Memory /\ n.pc = "insert" /\ n.older = o
          /\ n.jwt = request[q].jwt /\ n.provider = request[q].provider
      BY <1>0, PcOlder
    <3>2. request' = [request EXCEPT ![q] = n]
      BY <1>15 DEF RevokeIntents, WithOlder
    <3> HIDE DEF n, o
    <3> QED
      BY <3>1, <3>2
  <2>2. Sound(m) /\ m.pc \notin Claims
    BY <1>0, <1>15, <2>1 DEF RevokeIntents, Sound, Opening, Callback, Claims
  <2> QED
    BY <1>1, <1>15, <2>1, <2>2 DEF RevokeIntents
<1> QED
  BY <1>3, <1>4, <1>5, <1>6, <1>7, <1>8, <1>9, <1>10, <1>11, <1>12, <1>13, <1>14, <1>15
  DEF RequestStep

----------------------------------------------------------------------------
(* Accounts and cookies *)

LEMMA OtherSteps ==
  ASSUME IInv, [Next]_vars
  PROVE  /\ RowsMove
         /\ (\A i \in Intents : IntentSound(i))'
         /\ OneAccountPerProvider'
<1>0. /\ TypeOK /\ user.version \in Nat
      /\ \A q \in Requests : Sound(request[q])
      /\ \A i \in Intents : IntentSound(i)
  BY UserFields DEF IInv, TypeOK
<1>1. ASSUME UNCHANGED <<user, accounts, intent>>
      PROVE  /\ RowsMove
             /\ (\A i \in Intents : IntentSound(i))'
             /\ OneAccountPerProvider'
  BY <1>0, <1>1, RowsStill DEF IInv, IntentSound, Connected, OneAccountPerProvider
<1>2. ASSUME IntentsMove
      PROVE  /\ RowsMove
             /\ (\A i \in Intents : IntentSound(i))'
             /\ OneAccountPerProvider'
  BY <1>0, <1>2, IntentsMoveKeep DEF IInv, OneAccountPerProvider, IntentsMove
<1>3. ASSUME RowsMove, UNCHANGED intent, user'.version = user.version + 1
      PROVE  (\A i \in Intents : IntentSound(i))'
  <2>1. \A i \in Intents : intent[i].version \in Nat
    BY <1>0, IntentFields DEF TypeOK
  <2> QED
    BY <1>0, <1>3, <2>1 DEF IntentSound
<1>4. CASE PasswordChanged
  <2>1. user' = [user EXCEPT !.version = @ + 1] /\ UNCHANGED <<accounts, intent>>
    BY <1>4 DEF PasswordChanged
  <2>2. RowsMove /\ user'.version = user.version + 1
    BY <1>0, <2>1, BumpMoves DEF TypeOK
  <2> QED
    BY <1>3, <2>1, <2>2 DEF IInv, OneAccountPerProvider
<1>5. ASSUME NEW q \in Requests, NEW held \in BOOLEAN, CommitLink(q, held)
      PROVE  /\ RowsMove
             /\ (\A i \in Intents : IntentSound(i))'
             /\ OneAccountPerProvider'
  <2> DEFINE x == <<request[q].provider, request[q].subject>>
             i == request[q].intent
  <2>1. CASE UNCHANGED <<user, accounts>>
    BY <1>1, <1>5, <2>1 DEF CommitLink
  <2>2. CASE ~UNCHANGED <<user, accounts>>
    <3>1. /\ user.version = intent[i].version
          /\ accounts' = accounts \cup {x}
          /\ user' = [user EXCEPT !.version = @ + 1]
          /\ UNCHANGED intent
      BY <1>5, <2>2 DEF CommitLink
    <3>2. /\ request[q].provider \in Providers /\ request[q].subject \in Subjects
          /\ i \in Intents
          /\ intent[i].status # "ABSENT" /\ intent[i].provider = request[q].provider
      BY <1>0, <1>5 DEF CommitLink, At, Sound, Opening, Callback, Claims
    <3>3. accounts' \subseteq Providers \X Subjects
      BY <1>0, <3>1, <3>2 DEF TypeOK
    <3>4. RowsMove /\ user'.version = user.version + 1
      BY <1>0, <3>1, <3>3, BumpMoves
    <3>5. \A y \in accounts : y[1] # request[q].provider
      BY <1>0, <3>1, <3>2 DEF IntentSound, Connected
    <3>6. OneAccountPerProvider'
      <4>1. x[1] = request[q].provider
        OBVIOUS
      <4> HIDE DEF x
      <4> QED
        BY <3>1, <3>5, <4>1 DEF IInv, OneAccountPerProvider
    <3> QED
      BY <1>3, <3>1, <3>4, <3>6
  <2> QED
    BY <2>1, <2>2
<1>6. ASSUME NEW q \in Requests, DeleteProvider(q)
      PROVE  /\ RowsMove
             /\ (\A i \in Intents : IntentSound(i))'
             /\ OneAccountPerProvider'
  <2>1. accounts' \subseteq accounts /\ UNCHANGED <<user, intent>>
    BY <1>6 DEF DeleteProvider
  <2>2. RowsMove
    BY <1>0, <2>1 DEF RowsMove, TypeOK
  <2> QED
    BY <1>0, <2>1, <2>2 DEF IInv, IntentSound, Connected, OneAccountPerProvider
<1>7. ASSUME NEW s \in Sessions, SessionStep(s)
      PROVE  UNCHANGED <<user, accounts, intent>>
  BY <1>7 DEF SessionStep, PasswordSignIn, SignInAges
<1>8. ASSUME NEW q \in Requests, StartStep(q)
      PROVE  UNCHANGED <<user, accounts, intent>>
  BY <1>0, <1>8, StartSteps
<1>9. ASSUME NEW q \in Requests, RequestStep(q)
      PROVE  \/ UNCHANGED <<user, accounts, intent>>
             \/ IntentsMove
             \/ \E held \in BOOLEAN : CommitLink(q, held)
             \/ DeleteProvider(q)
  <2>1. ASSUME NEW i \in Intents, CreateIntent(q, i)
        PROVE  IntentsMove
    BY <1>0, <2>1, IntentSteps
  <2>2. ASSUME NEW ok \in BOOLEAN, BuildUrl(q, ok)
        PROVE  IntentsMove
    BY <1>0, <2>2, IntentSteps
  <2>3. CASE ClaimIntent(q)
    BY <1>0, <2>3, IntentSteps
  <2>4. ASSUME NEW s \in Sessions, SocialSignIn(q, s)
        PROVE  UNCHANGED <<user, accounts, intent>>
    BY <2>4 DEF SocialSignIn
  <2>5. ASSUME NEW b \in BOOLEAN, CheckUser(q, b) \/ CheckCollision(q, b)
        PROVE  UNCHANGED <<user, accounts, intent>>
    BY <2>5 DEF CheckUser, CheckCollision
  <2>6. ASSUME NEW x \in Subjects \cup {None}, ExchangeCode(q, x)
        PROVE  UNCHANGED <<user, accounts, intent>>
    BY <2>6 DEF ExchangeCode
  <2>7. CASE \/ CheckUnlinked(q) \/ RevokeIntents(q) \/ ReadIntent(q)
             \/ AnswerCallback(q) \/ GuardLockout(q) \/ Die(q)
    BY <2>7 DEF CheckUnlinked, RevokeIntents, ReadIntent, AnswerCallback, GuardLockout, Die
  <2> QED
    BY <1>9, <2>1, <2>2, <2>3, <2>4, <2>5, <2>6, <2>7 DEF RequestStep
<1>10. ASSUME NEW i \in Intents, IntentExpires(i)
       PROVE  IntentsMove
  BY <1>0, <1>10, IntentSteps
<1>11. CASE UNCHANGED vars
  BY <1>1, <1>11 DEF vars
<1> QED
  BY <1>1, <1>2, <1>4, <1>5, <1>6, <1>7, <1>8, <1>9, <1>10, <1>11 DEF Next

CookieOK(c, v) == c \in Jwt /\ (c.version # None => c.version <= v)

LEMMA CookieSteps ==
  ASSUME IInv, [Next]_vars, RowsMove
  PROVE  NoSessionAhead' /\ cookie' \in [Sessions -> Jwt]
<1>0. /\ user.version \in Nat /\ user'.version \in Nat /\ user.version <= user'.version
      /\ \A q \in Requests : request[q] \in Memory /\ Sound(request[q])
      /\ \A s \in Sessions : CookieOK(cookie[s], user.version)
      /\ cookie \in [Sessions -> Jwt]
  BY UserFields DEF IInv, TypeOK, RowsMove, NoSessionAhead, CookieOK
<1>1. ASSUME UNCHANGED cookie
      PROVE  NoSessionAhead' /\ cookie' \in [Sessions -> Jwt]
  BY <1>0, <1>1 DEF NoSessionAhead, CookieOK, Jwt
<1>2. ASSUME NEW s \in Sessions, NEW c \in Jwt, c.version # None => c.version <= user'.version,
             cookie' = [cookie EXCEPT ![s] = c]
      PROVE  NoSessionAhead' /\ cookie' \in [Sessions -> Jwt]
  BY <1>0, <1>2 DEF NoSessionAhead, CookieOK, Jwt
<1>3. \A by \in {"password", "social"} : LET c == [version |-> user.version, by |-> by] IN
        c \in Jwt /\ c.version = user.version
  BY <1>0 DEF Jwt
<1>4. ASSUME NEW s \in Sessions, SessionStep(s)
      PROVE  NoSessionAhead' /\ cookie' \in [Sessions -> Jwt]
  <2>1. CASE PasswordSignIn(s)
    BY <1>0, <1>2, <1>3, <2>1 DEF PasswordSignIn
  <2>2. CASE SignInAges(s)
    <3> DEFINE c == [cookie[s] EXCEPT !.by = "aged"]
    <3>1. c \in Jwt /\ c.version = cookie[s].version
      BY <1>0 DEF Jwt
    <3>2. cookie' = [cookie EXCEPT ![s] = c]
      BY <2>2 DEF SignInAges
    <3>3. cookie[s].version # None => cookie[s].version <= user'.version
      BY <1>0 DEF CookieOK, Jwt
    <3> HIDE DEF c
    <3> QED
      BY <1>2, <3>1, <3>2, <3>3
  <2> QED
    BY <1>4, <2>1, <2>2 DEF SessionStep
<1>5. ASSUME NEW q \in Requests, NEW s \in Sessions, SocialSignIn(q, s)
      PROVE  NoSessionAhead' /\ cookie' \in [Sessions -> Jwt]
  BY <1>0, <1>1, <1>2, <1>3, <1>5 DEF SocialSignIn
<1>6. ASSUME NEW q \in Requests, AnswerCallback(q)
      PROVE  NoSessionAhead' /\ cookie' \in [Sessions -> Jwt]
  <2> DEFINE c == Rotated(request[q].jwt)
             s == request[q].browser
  <2>1. /\ s \in Sessions /\ request[q].jwt \in Jwt /\ request[q].jwt.version \in Nat
        /\ request[q].jwt.version + 1 <= user.version
    BY <1>0, <1>6 DEF AnswerCallback, At, Sound, Callback, Claims, Memory
  <2>2. c \in Jwt /\ c.version = request[q].jwt.version + 1
    BY <2>1 DEF Rotated, Jwt
  <2>3. c.version # None => c.version <= user'.version
    BY <1>0, <2>1, <2>2
  <2>4. cookie' = [cookie EXCEPT ![s] = c] \/ UNCHANGED cookie
    BY <1>6 DEF AnswerCallback
  <2> HIDE DEF c, s
  <2> QED
    BY <1>1, <1>2, <2>1, <2>2, <2>3, <2>4
<1>7. ASSUME NEW q \in Requests, StartStep(q)
      PROVE  UNCHANGED cookie
  BY <1>7, StartSteps DEF IInv
<1>8. ASSUME NEW q \in Requests, RequestStep(q)
      PROVE  \/ UNCHANGED cookie \/ AnswerCallback(q)
             \/ \E s \in Sessions : SocialSignIn(q, s)
  BY <1>8 DEF RequestStep, CheckUser, BuildUrl, CheckCollision, CommitLink, CheckUnlinked,
     RevokeIntents, CreateIntent, ReadIntent, ClaimIntent, ExchangeCode, GuardLockout, DeleteProvider, Die
<1>9. ASSUME PasswordChanged \/ (\E i \in Intents : IntentExpires(i)) \/ UNCHANGED vars
      PROVE  UNCHANGED cookie
  BY <1>9 DEF PasswordChanged, IntentExpires, vars
<1> QED
  BY <1>1, <1>4, <1>5, <1>6, <1>7, <1>8, <1>9 DEF Next

----------------------------------------------------------------------------
(* The theorems *)

LEMMA InitIInv ==
  ASSUME Init
  PROVE  IInv
<1>1. user \in UserRow
  <2>1. \A h, l \in BOOLEAN : [version |-> 0, hash |-> h, legacy |-> l] \in UserRow
    BY DEF UserRow
  <2> QED
    BY <2>1 DEF Init
<1>2. accounts \subseteq Providers \X Subjects
  BY DEF Init
<1>3. intent \in [Intents -> IntentRow] /\ \A i \in Intents : IntentSound(i)
  BY DEF Init, NoIntent, IntentRow, IntentSound
<1>4. cookie \in [Sessions -> Jwt] /\ NoSessionAhead
  BY DEF Init, NoCookie, Jwt, NoSessionAhead
<1>5. /\ request \in [Requests -> Memory] /\ ClaimsApart
      /\ \A q \in Requests : Sound(request[q])
  BY RestingSound DEF Init, ClaimsApart, Claims
<1>6. OneAccountPerProvider
  BY DEF Init, OneAccountPerProvider
<1> QED
  BY <1>1, <1>2, <1>3, <1>4, <1>5, <1>6 DEF IInv, TypeOK

LEMMA NextIInv ==
  ASSUME IInv, [Next]_vars
  PROVE  IInv'
<1>1. /\ RowsMove /\ (\A i \in Intents : IntentSound(i))'
      /\ OneAccountPerProvider'
  BY OtherSteps
<1>2. NoSessionAhead' /\ cookie' \in [Sessions -> Jwt]
  BY <1>1, CookieSteps
<1>3. TypeOK /\ (\A q \in Requests : Sound(request[q])) /\ ClaimsApart
      /\ \A i \in Intents : IntentSound(i)
  BY DEF IInv
<1>4. request' = request \/ \E q \in Requests : Progresses(q)
  <2>1. ASSUME NEW q \in Requests, StartStep(q) \/ RequestStep(q)
        PROVE  Progresses(q)
    BY <1>1, <1>3, <2>1, StartSteps, RequestSteps
  <2>2. ASSUME \/ \E s \in Sessions : SessionStep(s)
               \/ PasswordChanged \/ (\E i \in Intents : IntentExpires(i)) \/ UNCHANGED vars
        PROVE  request' = request
    BY <2>2 DEF SessionStep, PasswordSignIn, SignInAges, PasswordChanged, IntentExpires, vars
  <2> QED
    BY <2>1, <2>2 DEF Next
<1>5. /\ request' \in [Requests -> Memory]
      /\ (\A q \in Requests : Sound(request[q]))'
      /\ ClaimsApart'
  BY <1>1, <1>3, <1>4, RequestsKept DEF Progresses
<1> QED
  BY <1>1, <1>2, <1>5 DEF IInv, TypeOK, RowsMove

\* The invariant holds in every reachable state.
THEOREM Invariance == Spec => []IInv
<1>1. Init => IInv
  BY InitIInv
<1>2. IInv /\ [Next]_vars => IInv'
  BY NextIInv
<1> QED
  BY <1>1, <1>2, PTL DEF Spec

\* Every row, cookie and request holds values of its columns.
THEOREM TypeCorrect == Spec => []TypeOK
<1>1. IInv => TypeOK
  BY DEF IInv
<1> QED
  BY <1>1, Invariance, PTL

\* The user never has two accounts of one provider.
THEOREM OneAccountEach == Spec => []OneAccountPerProvider
<1>1. IInv => OneAccountPerProvider
  BY DEF IInv
<1> QED
  BY <1>1, Invariance, PTL

\* One request at most carries an intent past its claim.
THEOREM ClaimedByOne == Spec => []IntentClaimedOnce
<1>1. \A q \in Requests : Claimed(q) <=> request[q].pc \in Claims
  BY DEF Claimed, At, Claims
<1>2. IInv => IntentClaimedOnce
  BY <1>1 DEF IInv, IntentClaimedOnce, ClaimsApart, Sound
<1> QED
  BY <1>2, Invariance, PTL

\* No cookie is ahead of the user's sessionVersion.
THEOREM CookiesBehind == Spec => []NoSessionAhead
<1>1. IInv => NoSessionAhead
  BY DEF IInv
<1> QED
  BY <1>1, Invariance, PTL

\* An account is added only by an intent of the session the user still has.
THEOREM LinksKeepTheirSession == Spec => LinkKeepsItsSession
<1> DEFINE Kept ==
      \A x \in accounts' \ accounts :
        \E q \in Requests :
          /\ At(q, "link")
          /\ x = <<request[q].provider, request[q].subject>>
          /\ intent[request[q].intent].version = user.version
          /\ user'.version = user.version + 1
<1>1. ASSUME IInv, [Next]_vars
      PROVE  Kept
  <2>0. user \in UserRow
    BY <1>1 DEF IInv, TypeOK
  <2>1. ASSUME NEW q \in Requests, NEW held \in BOOLEAN, CommitLink(q, held)
        PROVE  Kept
    BY <2>0, <2>1, UserFields DEF CommitLink
  <2>2. ASSUME NEW q \in Requests, RequestStep(q)
        PROVE  Kept
    <3>1. accounts' \subseteq accounts \/ \E held \in BOOLEAN : CommitLink(q, held)
      BY <2>2 DEF RequestStep, SocialSignIn, CheckUser, BuildUrl, CheckCollision,
         CheckUnlinked, RevokeIntents, CreateIntent, ReadIntent, ClaimIntent, ExchangeCode,
         AnswerCallback, GuardLockout, DeleteProvider, Die
    <3> QED
      BY <2>1, <3>1
  <2>3. ASSUME NEW q \in Requests, StartStep(q)
        PROVE  UNCHANGED accounts
    BY <1>1, <2>3, StartSteps DEF IInv
  <2>4. ASSUME \/ \E s \in Sessions : SessionStep(s)
               \/ PasswordChanged \/ (\E i \in Intents : IntentExpires(i)) \/ UNCHANGED vars
        PROVE  UNCHANGED accounts
    BY <2>4 DEF SessionStep, PasswordSignIn, SignInAges, PasswordChanged, IntentExpires, vars
  <2> QED
    BY <1>1, <2>2, <2>3, <2>4 DEF Next
<1>2. IInv /\ [Next]_vars => [Kept]_vars
  BY <1>1
<1> QED
  BY <1>2, Invariance, PTL DEF LinkKeepsItsSession, Spec
============================================================================
