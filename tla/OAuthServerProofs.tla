------------------------- MODULE OAuthServerProofs -------------------------
(* Safety of the OAuth server for any number of users, clients, URIs,       *)
(* scopes, verifiers, codes and concurrent requests.  The limiter's buckets *)
(* only decide which requests go on: they are typed on their own, and the   *)
(* agreement of the limiter's forms follows from their type alone.          *)
EXTENDS OAuthServer, RateLimitProofs

\* TypeOK without the limiter's buckets.
Typed ==
    /\ user \in [Users -> {"ACTIVE", "SUSPENDED", "GONE"}]
    /\ client \in [Clients -> ClientRow \cup {None}]
    /\ browser \in [user: Users \cup {None}, page: Form \cup {None}]
    /\ codes \in [Codes -> CodeRow \cup {None}]
    /\ token \in [Codes -> Token \cup {None}]
    /\ minted \in [Codes -> Nat]
    /\ request \in [Requests -> Progress]

\* A client's row is there with this URI.
Registered(k, uri) == client[k] # None /\ uri \in client[k].uris

\* A code whose tokens went out is used, and its token says what its row says.
CodeSound(a) ==
    /\ minted[a] <= 1
    /\ minted[a] = 0 => token[a] = None
    /\ codes[a] # None =>
          /\ Registered(codes[a].client, codes[a].uri)
          /\ minted[a] # 0 => codes[a].used
          /\ token[a] # None =>
                /\ token[a].user = codes[a].user /\ token[a].client = codes[a].client
                /\ token[a].scopes = codes[a].scopes
                /\ token[a].verifier = codes[a].challenge

\* What a request has found out stays true until it uses it: above all, one that
\* has claimed a code is about to send its first tokens.
RequestSound(r) ==
    LET a == request[r].code
        form == request[r].form IN
    /\ request[r].at = "consented" => Registered(form.client, form.uri)
    /\ request[r].at \in {"checked", "claimed"} /\ codes[a] # None =>
          request[r].verifier = codes[a].challenge
    /\ request[r].at = "claimed" =>
          /\ minted[a] = 0
          /\ codes[a] # None => codes[a].used
    /\ request[r].at \in {"bearer", "answered"} => token[a] # None
    /\ request[r].at = "answered" =>
          request[r].sub = token[a].user /\ request[r].claims \subseteq token[a].scopes

CodesSound == \A a \in Codes : CodeSound(a)

RequestsSound == \A r \in Requests : RequestSound(r)

\* No two requests have claimed one code.
ClaimsApart ==
    \A r, s \in Requests :
        request[r].at = "claimed" /\ request[s].at = "claimed"
            /\ request[r].code = request[s].code => r = s

IInv == Typed /\ CodesSound /\ RequestsSound /\ ClaimsApart

----------------------------------------------------------------------------
(* What the steps write *)

\* Only users, browsers and buckets change.
Quiet == UNCHANGED <<client, codes, token, minted, request>>

\* Clients keep their URIs, and change otherwise.
ClientsGrow ==
    /\ client' \in [Clients -> ClientRow \cup {None}]
    /\ \A k \in Clients, uri \in Uris : Registered(k, uri) => Registered(k, uri)'
    /\ UNCHANGED <<user, browser, codes, token, minted, request>>

\* Rows of codes are deleted, or expire.
CodesAge ==
    /\ \A a \in Codes :
          \/ codes'[a] = codes[a] \/ codes'[a] = None
          \/ codes[a] # None /\ codes'[a] = [codes[a] EXCEPT !.expired = TRUE]
    /\ codes' \in [Codes -> CodeRow \cup {None}]
    /\ user' \in [Users -> {"ACTIVE", "SUSPENDED", "GONE"}]
    /\ UNCHANGED <<client, browser, token, minted, request>>

\* A code that nobody has named gets a row.
Issues(a, row) ==
    /\ Fresh(a)
    /\ row \in CodeRow
    /\ Registered(row.client, row.uri)
    /\ codes' = [codes EXCEPT ![a] = row]
    /\ UNCHANGED <<user, client, browser, token, minted>>

\* One request goes on without a write to codes and tokens.
Moves(r, to) ==
    /\ to \in Progress
    /\ request' = [request EXCEPT ![r] = to]
    /\ browser' \in [user: Users \cup {None}, page: Form \cup {None}]
    /\ UNCHANGED <<user, client, codes, token, minted>>

\* The members of the record sets, field by field.
LEMMA ProgressFields ==
  ASSUME NEW v \in Progress
  PROVE  /\ v.at = "consented" => v.user \in Users /\ v.form \in Form
         /\ v.at = "admitted" => v.client \in Clients
         /\ v.at = "found" => v.code \in Codes /\ v.client \in Clients
         /\ v.at \in {"checked", "claimed"} => v.code \in Codes /\ v.verifier \in Verifiers
         /\ v.at \in {"bearer", "answered"} => v.code \in Codes
         /\ v.at = "checked" =>
               /\ [v EXCEPT !.at = "claimed"] \in Progress
               /\ [v EXCEPT !.at = "claimed"].at = "claimed"
               /\ [v EXCEPT !.at = "claimed"].code = v.code
               /\ [v EXCEPT !.at = "claimed"].verifier = v.verifier
BY DEF Progress, Idle

\* The records the steps write are states of a request.
LEMMA ProgressMakes ==
  /\ Idle \in Progress /\ [at |-> "counted"] \in Progress
  /\ \A u \in Users, f \in Form : [at |-> "consented", user |-> u, form |-> f] \in Progress
  /\ \A k \in Clients : [at |-> "admitted", client |-> k] \in Progress
  /\ \A a \in Codes, k \in Clients : [at |-> "found", code |-> a, client |-> k] \in Progress
  /\ \A a \in Codes, v \in Verifiers :
        [at |-> "checked", code |-> a, verifier |-> v] \in Progress
  /\ \A a \in Codes : [at |-> "bearer", code |-> a] \in Progress
  /\ \A a \in Codes, u \in Users, c \in SUBSET Scopes :
        [at |-> "answered", code |-> a, sub |-> u, claims |-> c] \in Progress
BY DEF Progress, Idle

\* What a row of a code says, and the row it becomes when it is used or expires.
LEMMA CodeFields ==
  ASSUME NEW row \in CodeRow
  PROVE  /\ row.client \in Clients /\ row.user \in Users /\ row.uri \in Uris
         /\ row.scopes \in ScopeSets /\ row.challenge \in Verifiers \cup {None}
         /\ row.used \in BOOLEAN
         /\ [row EXCEPT !.used = TRUE] \in CodeRow
         /\ [row EXCEPT !.expired = TRUE] \in CodeRow
BY DEF CodeRow

LEMMA ClientFields ==
  ASSUME NEW row \in ClientRow
  PROVE  /\ \A x \in BOOLEAN : [row EXCEPT !.active = x] \in ClientRow
         /\ \A uri \in Uris : [row EXCEPT !.uris = @ \cup {uri}] \in ClientRow
         /\ \A x \in BOOLEAN : [row EXCEPT !.active = x].uris = row.uris
         /\ \A uri \in Uris : [row EXCEPT !.uris = @ \cup {uri}].uris = row.uris \cup {uri}
BY DEF ClientRow

LEMMA ClientSteps ==
  ASSUME Typed, NEW k \in Clients,
         \/ \E uris \in SUBSET Uris, scopes \in Granted : CreateOAuthClient(k, uris, scopes)
         \/ \E uris \in SUBSET Uris : SeedLsaClient(k, uris)
         \/ \E uri \in Uris : UpdateRedirectUris(k, uri)
         \/ \E active \in BOOLEAN : SetClientActive(k, active)
  PROVE  ClientsGrow
<1>1. ASSUME NEW row \in ClientRow, client[k] = None,
             client' = [client EXCEPT ![k] = row],
             UNCHANGED <<user, browser, codes, token, minted, request>>
      PROVE  ClientsGrow
  BY <1>1 DEF ClientsGrow, Registered, Typed
<1>2. ASSUME NEW row \in ClientRow, client[k] # None, client[k].uris \subseteq row.uris,
             client' = [client EXCEPT ![k] = row],
             UNCHANGED <<user, browser, codes, token, minted, request>>
      PROVE  ClientsGrow
  BY <1>2, RowAssumption DEF ClientsGrow, Registered, Typed
<1>3. client[k] # None => client[k] \in ClientRow
  BY DEF Typed
<1>4. ASSUME NEW uris \in SUBSET Uris, NEW scopes \in Granted,
             CreateOAuthClient(k, uris, scopes)
      PROVE  ClientsGrow
  <2>1. [active |-> TRUE, uris |-> uris, scopes |-> scopes] \in ClientRow
    BY <1>4, OAuthAssumption DEF CreateOAuthClient, ClientRow, ScopeSets
  <2> QED
    BY <1>1, <1>4, <2>1 DEF CreateOAuthClient
<1>5. ASSUME NEW uris \in SUBSET Uris, SeedLsaClient(k, uris)
      PROVE  ClientsGrow
  <2>1. [active |-> TRUE, uris |-> uris, scopes |-> Scopes] \in ClientRow
    BY <1>5, OAuthAssumption DEF SeedLsaClient, ClientRow, ScopeSets
  <2> QED
    BY <1>1, <1>5, <2>1 DEF SeedLsaClient
<1>6. ASSUME NEW uri \in Uris, UpdateRedirectUris(k, uri)
      PROVE  ClientsGrow
  <2>1. client' = [client EXCEPT ![k] = [client[k] EXCEPT !.uris = @ \cup {uri}]]
    BY <1>6 DEF UpdateRedirectUris
  <2> QED
    BY <1>2, <1>3, <1>6, <2>1, ClientFields DEF UpdateRedirectUris
<1>7. ASSUME NEW active \in BOOLEAN, SetClientActive(k, active)
      PROVE  ClientsGrow
  <2>1. client' = [client EXCEPT ![k] = [client[k] EXCEPT !.active = active]]
    BY <1>7 DEF SetClientActive
  <2> QED
    BY <1>2, <1>3, <1>7, <2>1, ClientFields DEF SetClientActive, clientVars
<1> QED
  BY <1>4, <1>5, <1>6, <1>7

LEMMA CodeSteps ==
  ASSUME Typed, RequestsSound
  PROVE  /\ \A u \in Users, status \in {"ACTIVE", "SUSPENDED", "GONE"} :
               SetUserStatus(u, status) => CodesAge
         /\ \A a \in Codes : CodeExpires(a) => CodesAge
         /\ \A a \in Codes : LegacyCode(a) =>
               \E row \in CodeRow : Issues(a, row) /\ UNCHANGED <<browser, request>>
<1>1. ASSUME NEW u \in Users, NEW status \in {"ACTIVE", "SUSPENDED", "GONE"},
             SetUserStatus(u, status)
      PROVE  CodesAge
  BY <1>1 DEF SetUserStatus, CodesAge, Typed
<1>2. ASSUME NEW a \in Codes, CodeExpires(a)
      PROVE  CodesAge
  <2>1. codes[a] \in CodeRow
    BY <1>2 DEF CodeExpires, Typed
  <2>2. codes' = [codes EXCEPT ![a] = [codes[a] EXCEPT !.expired = TRUE]]
    BY <1>2 DEF CodeExpires
  <2>3. [codes[a] EXCEPT !.expired = TRUE] \in CodeRow
    BY <2>1, CodeFields
  <2> QED
    BY <1>2, <2>1, <2>2, <2>3 DEF CodeExpires, CodesAge, Typed, clientVars
<1>3. ASSUME NEW a \in Codes, LegacyCode(a)
      PROVE  \E row \in CodeRow : Issues(a, row) /\ UNCHANGED <<browser, request>>
  <2>1. LegacyCodes \subseteq CodeRow
    BY OAuthAssumption DEF LegacyCodes, CodeRow, ScopeSets
  <2>2. PICK row \in LegacyCodes :
          /\ client[row.client] # None /\ row.uri \in client[row.client].uris
          /\ codes' = [codes EXCEPT ![a] = row]
    BY <1>3 DEF LegacyCode
  <2>3. row \in CodeRow
    BY <2>1, <2>2
  <2> QED
    BY <1>3, <2>2, <2>3 DEF LegacyCode, Issues, Registered, clientVars
<1> QED
  BY <1>1, <1>2, <1>3

\* What a request must have found out to be in a state.
Justified(to) ==
    /\ to.at = "consented" => Registered(to.form.client, to.form.uri)
    /\ to.at = "checked" /\ codes[to.code] # None => to.verifier = codes[to.code].challenge
    /\ to.at # "claimed"
    /\ to.at \in {"bearer", "answered"} => token[to.code] # None
    /\ to.at = "answered" =>
          to.sub = token[to.code].user /\ to.claims \subseteq token[to.code].scopes

Goes(r) == \E to \in Progress : Moves(r, to) /\ Justified(to)

LEMMA Plain ==
  /\ Justified(Idle) /\ Justified([at |-> "counted"])
  /\ \A k : Justified([at |-> "admitted", client |-> k])
  /\ \A a, k : Justified([at |-> "found", code |-> a, client |-> k])
BY DEF Justified, Idle

LEMMA RequestSteps ==
  ASSUME Typed, RequestsSound, NEW r \in Requests, Server(r)
  PROVE  \/ Goes(r)
         \/ \E a \in Codes, row \in CodeRow :
               Issues(a, row) /\ request' = [request EXCEPT ![r] = Idle]
                              /\ UNCHANGED browser
         \/ ClaimCode(r)
         \/ IssueTokens(r)
<1> USE ProgressMakes
<1>0. /\ request[r] \in Progress
      /\ browser' = browser => browser' \in [user: Users \cup {None}, page: Form \cup {None}]
  BY DEF Typed
<1>1. CASE SubmitConsent(r)
  <2> DEFINE to == [at |-> "consented", user |-> browser.user, form |-> browser.page]
  <2>1. browser.user \in Users /\ browser.page \in Form
    BY <1>1 DEF SubmitConsent, IsActive, Typed
  <2>2. to \in Progress
    BY <2>1
  <2>3. Justified(to)
    BY <1>1 DEF SubmitConsent, Justified, ValidateAuthorizeRequest, Registered
  <2>4. Moves(r, to)
    BY <1>1, <2>2 DEF SubmitConsent, Moves, clientVars, Typed
  <2> QED
    BY <2>2, <2>3, <2>4 DEF Goes
<1>2. ASSUME NEW a \in Codes, CreateCode(r, a)
      PROVE  \E row \in CodeRow :
               Issues(a, row) /\ request' = [request EXCEPT ![r] = Idle] /\ UNCHANGED browser
  <2> DEFINE form == request[r].form
             row == [client |-> form.client, user |-> request[r].user, uri |-> form.uri,
                     scopes |-> form.scopes, challenge |-> form.challenge,
                     expired |-> FALSE, used |-> FALSE]
  <2>1. form \in Form /\ request[r].user \in Users
    BY <1>2, ProgressFields DEF CreateCode, Typed
  <2>2. row \in CodeRow
    BY <2>1 DEF Form, CodeRow
  <2>3. Registered(row.client, row.uri)
    BY <1>2 DEF CreateCode, RequestsSound, RequestSound
  <2> QED
    BY <1>2, <2>2, <2>3 DEF CreateCode, Issues, clientVars
<1>3. ASSUME NEW ip \in ClientIps, TokenIpLimit(r, ip)
      PROVE  Goes(r)
  <2>1. PICK to \in {[at |-> "counted"], Idle} : request' = [request EXCEPT ![r] = to]
    BY <1>3 DEF TokenIpLimit
  <2>2. Moves(r, to) /\ Justified(to)
    BY <1>0, <1>3, <2>1, Plain DEF TokenIpLimit, Moves, clientVars
  <2> QED
    BY <2>2 DEF Goes, Moves
<1>4. ASSUME NEW k \in Clients, NEW body \in TokenBody, TokenClientLimit(r, k, body)
      PROVE  Goes(r)
  <2>1. PICK to \in {[at |-> "admitted", client |-> k], Idle} :
          request' = [request EXCEPT ![r] = to]
    BY <1>4 DEF TokenClientLimit
  <2>2. to \in Progress /\ Justified(to)
    BY <2>1, Plain
  <2>3. Moves(r, to)
    BY <1>0, <1>4, <2>1, <2>2 DEF TokenClientLimit, Moves, clientVars
  <2> QED
    BY <2>2, <2>3 DEF Goes
<1>5. ASSUME NEW a \in Codes, ReadCode(r, a)
      PROVE  Goes(r)
  <2> DEFINE to == [at |-> "found", code |-> a, client |-> request[r].client]
  <2>1. to \in Progress
    BY <1>0, <1>5, ProgressFields DEF ReadCode
  <2>2. Moves(r, to) /\ Justified(to)
    BY <1>0, <1>5, <2>1, Plain DEF ReadCode, Moves, clientVars
  <2> QED
    BY <2>1, <2>2 DEF Goes
<1>6. ASSUME NEW body \in TokenBody, CheckGrant(r, body)
      PROVE  Goes(r)
  <2> DEFINE to == [at |-> "checked", code |-> request[r].code, verifier |-> body.verifier]
  <2>1. request[r].code \in Codes /\ body.verifier \in Verifiers
    BY <1>0, <1>6, ProgressFields DEF CheckGrant, PkceMatches, TokenBody
  <2>2. to \in Progress
    BY <2>1
  <2>3. Justified(to)
    BY <1>6 DEF CheckGrant, PkceMatches, Justified
  <2>4. Moves(r, to)
    BY <1>0, <1>6, <2>2 DEF CheckGrant, Moves, clientVars
  <2> QED
    BY <2>2, <2>3, <2>4 DEF Goes
<1>7. ASSUME NEW a \in Codes, NEW expired \in BOOLEAN, VerifyAccessToken(r, a, expired)
      PROVE  Goes(r)
  <2> DEFINE to == [at |-> "bearer", code |-> a]
  <2>1. to \in Progress
    OBVIOUS
  <2>2. Moves(r, to) /\ Justified(to)
    BY <1>0, <1>7, <2>1 DEF VerifyAccessToken, Moves, clientVars, Justified
  <2> QED
    BY <2>1, <2>2 DEF Goes
<1>8. CASE AnswerUserInfo(r)
  <2> DEFINE a == request[r].code
             to == [at |-> "answered", code |-> a, sub |-> token[a].user,
                    claims |-> UserClaims(token[a].scopes)]
  <2>1. a \in Codes
    BY <1>0, <1>8, ProgressFields DEF AnswerUserInfo
  <2>2. token[a] # None
    BY <1>8 DEF AnswerUserInfo, RequestsSound, RequestSound
  <2>3. token[a].user \in Users /\ token[a].scopes \subseteq Scopes
    BY <2>1, <2>2 DEF Typed, Token, ScopeSets
  <2>4. to \in Progress
    BY <2>1, <2>3 DEF UserClaims
  <2>5. Justified(to)
    BY <2>2 DEF Justified, UserClaims
  <2>6. Moves(r, to)
    BY <1>0, <1>8, <2>4 DEF AnswerUserInfo, Moves, clientVars
  <2> QED
    BY <2>4, <2>5, <2>6 DEF Goes
<1>9. CASE Drop(r)
  BY <1>0, <1>9, Plain DEF Drop, Moves, Goes, clientVars
<1> QED
  BY <1>1, <1>2, <1>3, <1>4, <1>5, <1>6, <1>7, <1>8, <1>9 DEF Server

----------------------------------------------------------------------------
(* Every kind of step keeps the invariant *)

LEMMA QuietKeeps ==
  ASSUME IInv, Typed', Quiet
  PROVE  IInv'
BY DEF IInv, Quiet, CodesSound, CodeSound, RequestsSound, RequestSound, ClaimsApart, Registered

LEMMA ClientsKeep ==
  ASSUME IInv, ClientsGrow
  PROVE  IInv'
<1>1. Typed'
  BY DEF IInv, ClientsGrow, Typed
<1>2. ASSUME NEW a \in Codes
      PROVE  CodeSound(a)'
  <2>1. codes[a] # None => codes[a].client \in Clients /\ codes[a].uri \in Uris
    BY CodeFields DEF IInv, Typed
  <2> QED
    BY <2>1 DEF IInv, ClientsGrow, CodesSound, CodeSound
<1>3. ASSUME NEW r \in Requests
      PROVE  RequestSound(r)'
  <2>1. request[r].at = "consented" =>
          request[r].form.client \in Clients /\ request[r].form.uri \in Uris
    BY ProgressFields DEF IInv, Typed, Form
  <2> QED
    BY <2>1 DEF IInv, ClientsGrow, RequestsSound, RequestSound
<1> QED
  BY <1>1, <1>2, <1>3 DEF IInv, CodesSound, RequestsSound, ClaimsApart, ClientsGrow

LEMMA CodesAgeKeep ==
  ASSUME IInv, CodesAge
  PROVE  IInv'
<1>1. Typed'
  BY DEF IInv, CodesAge, Typed
<1>2. ASSUME NEW a \in Codes, codes'[a] # None
      PROVE  /\ codes[a] # None
             /\ codes'[a].client = codes[a].client /\ codes'[a].user = codes[a].user
             /\ codes'[a].uri = codes[a].uri /\ codes'[a].scopes = codes[a].scopes
             /\ codes'[a].challenge = codes[a].challenge /\ codes'[a].used = codes[a].used
  BY <1>2 DEF IInv, Typed, CodesAge, CodeRow
<1>3. ASSUME NEW a \in Codes
      PROVE  CodeSound(a)'
  BY <1>2 DEF IInv, CodesAge, CodesSound, CodeSound, Registered
<1>4. ASSUME NEW r \in Requests
      PROVE  RequestSound(r)'
  <2>1. request[r].at \in {"checked", "claimed"} => request[r].code \in Codes
    BY ProgressFields DEF IInv, Typed
  <2> QED
    BY <1>2, <2>1 DEF IInv, CodesAge, RequestsSound, RequestSound, Registered
<1> QED
  BY <1>1, <1>3, <1>4 DEF IInv, CodesSound, RequestsSound, ClaimsApart, CodesAge

\* A request that becomes what it may be keeps the others as they are.
LEMMA GoesKeeps ==
  ASSUME IInv, NEW r \in Requests, Goes(r)
  PROVE  IInv'
<1>0. PICK to \in Progress : Moves(r, to) /\ Justified(to)
  BY DEF Goes
<1>1. Typed'
  BY <1>0 DEF IInv, Moves, Typed
<1>2. CodesSound'
  BY <1>0 DEF IInv, Moves, CodesSound, CodeSound, Registered
<1>3. ASSUME NEW s \in Requests
      PROVE  request'[s] = IF s = r THEN to ELSE request[s]
  BY <1>0 DEF IInv, Typed, Moves
<1>4. ASSUME NEW s \in Requests
      PROVE  RequestSound(s)'
  <2>1. CASE s = r
    BY <1>0, <1>3, <2>1 DEF Moves, Justified, RequestSound, Registered
  <2>2. CASE s # r
    BY <1>0, <1>3, <2>2 DEF IInv, Moves, RequestsSound, RequestSound, Registered
  <2> QED
    BY <2>1, <2>2
<1>5. ClaimsApart'
  BY <1>0, <1>3 DEF IInv, ClaimsApart, Justified
<1> QED
  BY <1>1, <1>2, <1>4, <1>5 DEF IInv, RequestsSound

LEMMA IssuesKeeps ==
  ASSUME IInv, NEW a \in Codes, NEW row \in CodeRow, Issues(a, row),
         \/ UNCHANGED <<browser, request>>
         \/ \E r \in Requests : request' = [request EXCEPT ![r] = Idle] /\ UNCHANGED browser
  PROVE  IInv'
<1>1. /\ request' \in [Requests -> Progress] /\ browser' = browser
      /\ \A s \in Requests : request'[s] = request[s] \/ request'[s] = Idle
  BY ProgressMakes DEF IInv, Typed
<1>2. /\ codes' \in [Codes -> CodeRow \cup {None}]
      /\ codes'[a] = row /\ \A b \in Codes : b # a => codes'[b] = codes[b]
  BY DEF IInv, Typed, Issues
<1>3. Typed'
  BY <1>1, <1>2 DEF IInv, Typed, Issues
<1>4. ASSUME NEW b \in Codes
      PROVE  CodeSound(b)'
  <2>1. CASE b = a
    BY <1>2, <2>1 DEF Issues, Fresh, CodeSound, Registered
  <2>2. CASE b # a
    BY <1>2, <2>2 DEF IInv, Issues, CodesSound, CodeSound, Registered
  <2> QED
    BY <2>1, <2>2
<1>5. ASSUME NEW s \in Requests
      PROVE  RequestSound(s)'
  <2>1. CASE request'[s] = Idle
    BY <2>1 DEF RequestSound, Idle
  <2>2. CASE request'[s] = request[s]
    <3>1. request[s].at \in {"checked", "claimed"} =>
            request[s].code \in Codes /\ request[s].code # a
      BY ProgressFields DEF IInv, Typed, Issues, Fresh
    <3> QED
      BY <1>2, <2>2, <3>1 DEF IInv, Issues, RequestsSound, RequestSound, Registered
  <2> QED
    BY <1>1, <2>1, <2>2
<1>6. ClaimsApart'
  BY <1>1 DEF IInv, ClaimsApart, Idle
<1> QED
  BY <1>3, <1>4, <1>5, <1>6 DEF IInv, CodesSound, RequestsSound

LEMMA ClaimKeeps ==
  ASSUME IInv, NEW r \in Requests, ClaimCode(r)
  PROVE  IInv'
<1> DEFINE a == request[r].code
           to == [request[r] EXCEPT !.at = "claimed"]
<1>1. /\ a \in Codes /\ to \in Progress
      /\ to.at = "claimed" /\ to.code = a /\ to.verifier = request[r].verifier
  BY ProgressFields DEF IInv, Typed, ClaimCode
<1>2. codes[a] \in CodeRow
  BY <1>1 DEF IInv, Typed, ClaimCode
<1>3. /\ codes' = [codes EXCEPT ![a] = [codes[a] EXCEPT !.used = TRUE]]
      /\ request' = [request EXCEPT ![r] = to]
  BY DEF ClaimCode
<1>4. \A s \in Requests : request'[s] = IF s = r THEN to ELSE request[s]
  BY <1>3 DEF IInv, Typed
<1>5. /\ codes'[a].client = codes[a].client /\ codes'[a].user = codes[a].user
      /\ codes'[a].uri = codes[a].uri /\ codes'[a].scopes = codes[a].scopes
      /\ codes'[a].challenge = codes[a].challenge /\ codes'[a].used = TRUE
  BY <1>1, <1>2, <1>3 DEF IInv, Typed, CodeRow
<1>6. /\ codes' \in [Codes -> CodeRow \cup {None}]
      /\ \A b \in Codes : b # a => codes'[b] = codes[b]
  BY <1>1, <1>2, <1>3, CodeFields DEF IInv, Typed
<1>7. codes[a] # None /\ minted[a] = 0 /\ token[a] = None
  BY <1>1 DEF IInv, CodesSound, CodeSound, ClaimCode
<1>8. Typed'
  BY <1>1, <1>3, <1>6 DEF IInv, Typed, ClaimCode, clientVars
<1>9. ASSUME NEW b \in Codes
      PROVE  CodeSound(b)'
  <2>1. CASE b = a
    BY <1>1, <1>5, <1>7, <2>1 DEF IInv, ClaimCode, clientVars, CodesSound, CodeSound, Registered
  <2>2. CASE b # a
    BY <1>6, <2>2 DEF IInv, ClaimCode, clientVars, CodesSound, CodeSound, Registered
  <2> QED
    BY <2>1, <2>2
<1>10. ASSUME NEW s \in Requests
       PROVE  RequestSound(s)'
  <2>1. CASE s = r
    <3>1. request[r].verifier = codes[a].challenge
      BY <1>7 DEF IInv, RequestsSound, RequestSound, ClaimCode
    <3> QED
      BY <1>1, <1>4, <1>5, <1>7, <2>1, <3>1 DEF ClaimCode, RequestSound
  <2>2. CASE s # r
    <3>1. request[s].at \in {"checked", "claimed"} => request[s].code \in Codes
      BY ProgressFields DEF IInv, Typed
    <3>2. request'[s] = request[s] /\ RequestSound(s)
      BY <1>4, <2>2 DEF IInv, RequestsSound
    <3>3. UNCHANGED <<client, token, minted>>
      BY DEF ClaimCode, clientVars
    <3>4. CASE request[s].code = a
      BY <1>5, <1>7, <3>2, <3>3, <3>4 DEF RequestSound, Registered
    <3>5. CASE request[s].code # a
      BY <1>6, <3>1, <3>2, <3>3, <3>5 DEF RequestSound, Registered
    <3> QED
      BY <3>4, <3>5
  <2> QED
    BY <2>1, <2>2
<1>11. ASSUME NEW s \in Requests, request[s].at = "claimed"
       PROVE  request[s].code # a
  BY <1>7, <1>11 DEF IInv, RequestsSound, RequestSound, ClaimCode
<1>12. ClaimsApart'
  <2>1. \A s \in Requests : s # r => request'[s] = request[s]
    BY <1>4
  <2>2. request'[r].code = a
    BY <1>1, <1>4
  <2> QED
    BY <1>11, <2>1, <2>2 DEF IInv, ClaimsApart
<1> QED
  BY <1>8, <1>9, <1>10, <1>12 DEF IInv, CodesSound, RequestsSound

LEMMA TokensKeep ==
  ASSUME IInv, NEW r \in Requests, IssueTokens(r)
  PROVE  IInv'
<1> DEFINE a == request[r].code
           new == Signed(codes[a], codes[a].scopes, request[r].verifier)
<1>1. a \in Codes /\ request[r].verifier \in Verifiers
  BY ProgressFields DEF IInv, Typed, IssueTokens
<1>2. codes[a] \in CodeRow /\ codes[a] # None
  BY <1>1 DEF IInv, Typed, IssueTokens
<1>3. /\ new \in Token
      /\ new.user = codes[a].user /\ new.client = codes[a].client
      /\ new.scopes = codes[a].scopes /\ new.verifier = request[r].verifier
  <2> DEFINE open == "openid" \in codes[a].scopes
  <2>1. open \in BOOLEAN
    OBVIOUS
  <2>2. /\ codes[a].client \in Clients /\ codes[a].user \in Users
        /\ codes[a].scopes \in ScopeSets
    BY <1>2, CodeFields
  <2>3. new = [client |-> codes[a].client, user |-> codes[a].user,
               scopes |-> codes[a].scopes, verifier |-> request[r].verifier, id |-> open]
    BY DEF Signed
  <2> HIDE DEF open, new
  <2> QED
    BY <1>1, <2>1, <2>2, <2>3 DEF Token
<1>4. /\ minted[a] = 0 /\ token[a] = None /\ codes[a].used
      /\ request[r].verifier = codes[a].challenge
  BY <1>1, <1>2 DEF IInv, CodesSound, CodeSound, RequestsSound, RequestSound, IssueTokens
<1>5. /\ token' = [token EXCEPT ![a] = new] /\ minted' = [minted EXCEPT ![a] = 1]
      /\ request' = [request EXCEPT ![r] = Idle]
      /\ UNCHANGED <<user, client, browser, codes>>
  BY <1>1, <1>4 DEF IssueTokens, clientVars, IInv, Typed
<1>6. \A s \in Requests : request'[s] = IF s = r THEN Idle ELSE request[s]
  BY <1>5 DEF IInv, Typed
<1>7. /\ token'[a] = new /\ minted'[a] = 1
      /\ \A b \in Codes : b # a => token'[b] = token[b] /\ minted'[b] = minted[b]
  BY <1>1, <1>5 DEF IInv, Typed
<1>8. Typed'
  <2>1. Idle \in Progress
    BY ProgressMakes
  <2> QED
    BY <1>1, <1>3, <1>5, <2>1 DEF IInv, Typed
<1>9. ASSUME NEW b \in Codes
      PROVE  CodeSound(b)'
  <2>1. CASE b = a
    BY <1>1, <1>3, <1>4, <1>5, <1>7, <2>1 DEF IInv, CodesSound, CodeSound, Registered
  <2>2. CASE b # a
    BY <1>5, <1>7, <2>2 DEF IInv, CodesSound, CodeSound, Registered
  <2> QED
    BY <2>1, <2>2
<1>10. ASSUME NEW s \in Requests
       PROVE  RequestSound(s)'
  <2>1. CASE s = r
    BY <1>6, <2>1 DEF RequestSound, Idle
  <2>2. CASE s # r
    <3>1. request'[s] = request[s] /\ RequestSound(s)
      BY <1>6, <2>2 DEF IInv, RequestsSound
    <3>2. request[s].at \in {"claimed", "bearer", "answered"} =>
            request[s].code \in Codes /\ request[s].code # a
      <4>1. request[s].at \in {"claimed", "bearer", "answered"} => request[s].code \in Codes
        BY ProgressFields DEF IInv, Typed
      <4>2. request[s].at = "claimed" => request[s].code # a
        BY <2>2 DEF IInv, ClaimsApart, IssueTokens
      <4>3. request[s].at \in {"bearer", "answered"} => request[s].code # a
        BY <1>4, <3>1 DEF RequestSound
      <4> QED
        BY <4>1, <4>2, <4>3
    <3> QED
      BY <1>5, <1>7, <3>1, <3>2 DEF RequestSound, Registered
  <2> QED
    BY <2>1, <2>2
<1>11. ClaimsApart'
  BY <1>6 DEF IInv, ClaimsApart, Idle
<1> QED
  BY <1>8, <1>9, <1>10, <1>11 DEF IInv, CodesSound, RequestsSound

----------------------------------------------------------------------------
LEMMA InitIInv ==
  ASSUME Init
  PROVE  IInv
<1>1. Typed
  BY ProgressMakes DEF Init, Typed
<1>2. CodesSound
  BY DEF Init, CodesSound, CodeSound
<1>3. RequestsSound /\ ClaimsApart
  BY DEF Init, RequestsSound, RequestSound, ClaimsApart, Idle
<1> QED
  BY <1>1, <1>2, <1>3 DEF IInv

LEMMA NextIInv ==
  ASSUME IInv, [Next]_vars
  PROVE  IInv'
<1>0. Typed /\ RequestsSound
  BY DEF IInv
<1>1. ASSUME NEW k \in Clients,
             \/ \E uris \in SUBSET Uris, scopes \in Granted : CreateOAuthClient(k, uris, scopes)
             \/ \E uris \in SUBSET Uris : SeedLsaClient(k, uris)
             \/ \E uri \in Uris : UpdateRedirectUris(k, uri)
             \/ \E active \in BOOLEAN : SetClientActive(k, active)
      PROVE  IInv'
  BY <1>0, <1>1, ClientSteps, ClientsKeep
<1>2. ASSUME NEW u \in Users, NEW status \in {"ACTIVE", "SUSPENDED", "GONE"},
             SetUserStatus(u, status)
      PROVE  IInv'
  BY <1>0, <1>2, CodeSteps, CodesAgeKeep
<1>3. ASSUME NEW a \in Codes, LegacyCode(a) \/ CodeExpires(a)
      PROVE  IInv'
  BY <1>0, <1>3, CodeSteps, CodesAgeKeep, IssuesKeeps
<1>4. ASSUME NEW b \in Buckets, NEW n \in 1..MaxHits, Tick(b, n)
      PROVE  IInv'
  BY <1>4, QuietKeeps DEF Tick, Quiet, IInv, Typed, clientVars
<1>5. CASE Browser
  <2>1. browser' \in [user: Users \cup {None}, page: Form \cup {None}]
    BY <1>0, <1>5 DEF Browser, SignIn, ShowConsent, Logout, Typed
  <2> QED
    BY <1>5, <2>1, QuietKeeps
    DEF Browser, SignIn, ShowConsent, Logout, Quiet, IInv, Typed, clientVars
<1>6. ASSUME NEW r \in Requests, Server(r)
      PROVE  IInv'
  BY <1>0, <1>6, RequestSteps, GoesKeeps, IssuesKeeps, ClaimKeeps, TokensKeep
<1>7. CASE UNCHANGED vars
  BY <1>0, <1>7, QuietKeeps DEF vars, Quiet, IInv, Typed
<1> QED
  BY <1>1, <1>2, <1>3, <1>4, <1>5, <1>6, <1>7 DEF Next, Environment

\* The invariant holds in every state the server reaches.
THEOREM Invariance == Spec => []IInv
<1>1. Init => IInv
  BY InitIInv
<1>2. IInv /\ [Next]_vars => IInv'
  BY NextIInv
<1> QED
  BY <1>1, <1>2, PTL DEF Spec

\* However many requests exchange one code at once, at most one gets tokens.
THEOREM TokensOnce == Spec => []OneTokenPerCode
<1>1. IInv => OneTokenPerCode
  BY DEF IInv, CodesSound, CodeSound, OneTokenPerCode
<1> QED
  BY <1>1, Invariance, PTL

\* What a token says, and what userinfo answers to it, is what the user consented to.
THEOREM TokensStayWithin == Spec => []TokensFollowConsent
<1>1. ASSUME IInv
      PROVE  TokensFollowConsent
  <2>1. ASSUME NEW a \in Codes, token[a] # None, codes[a] # None
        PROVE  /\ codes[a].used
               /\ token[a].user = codes[a].user /\ token[a].client = codes[a].client
               /\ token[a].scopes = codes[a].scopes /\ token[a].verifier = codes[a].challenge
    BY <1>1, <2>1 DEF IInv, CodesSound, CodeSound
  <2>2. ASSUME NEW r \in Requests, request[r].at = "answered"
        PROVE  /\ request[r].sub = token[request[r].code].user
               /\ request[r].claims \subseteq token[request[r].code].scopes
    BY <1>1, <2>2 DEF IInv, RequestsSound, RequestSound
  <2> QED
    BY <2>1, <2>2 DEF TokensFollowConsent
<1> QED
  BY <1>1, Invariance, PTL

\* A code is redirected only to a URI registered with its client.
THEOREM CodesGoHome == Spec => []RedirectsAreRegistered
<1>1. IInv => RedirectsAreRegistered
  BY DEF IInv, CodesSound, CodeSound, Registered, RedirectsAreRegistered
<1> QED
  BY <1>1, Invariance, PTL

----------------------------------------------------------------------------
(* The limiter's buckets *)

HitsTyped == hits \in [Buckets -> Hits]

\* Whatever the limiter answers, it leaves buckets.
LEMMA AnswersAreHits ==
  ASSUME HitsTyped, NEW b \in Buckets, NEW answer \in RateLimitAnswers(hits, b)
  PROVE  answer.hits \in [Buckets -> Hits]
<1>1. hits[b] \in Hits /\ Charged(hits[b]) \in Hits
  BY HitsFields DEF HitsTyped
<1>2. answer.hits \in {hits, [hits EXCEPT ![b] = Charged(hits[b])]}
  BY DEF RateLimitAnswers, UpstashLimit, MemoryLimit
<1> QED
  BY <1>1, <1>2 DEF HitsTyped

\* getClientIp answers an address it was sent, or none.
LEMMA IpsAreAddresses == ClientIps \subseteq Addresses \cup {None}
<1> SUFFICES ASSUME NEW headers \in [Forwarded -> Addresses \cup {None}]
             PROVE  GetClientIp(headers) \in Addresses \cup {None}
  BY DEF ClientIps
<1>1. \E n \in Nat : DOMAIN Trusted = 1..n
  <2>1. Host = "vercel" => DOMAIN Trusted = 1..3
    BY DEF Trusted
  <2>2. Host = "production" => DOMAIN Trusted = 1..0
    BY DEF Trusted
  <2>3. Host = "development" => DOMAIN Trusted = 1..1
    BY DEF Trusted
  <2>4. 0 \in Nat /\ 1 \in Nat /\ 3 \in Nat
    OBVIOUS
  <2> QED
    BY <2>1, <2>2, <2>3, <2>4, LimitAssumption
<1>2. \A i \in DOMAIN Trusted : Trusted[i] \in Forwarded
  BY LimitAssumption DEF Trusted, Forwarded
<1> DEFINE Holds(i) == headers[Trusted[i]] # None
           First(i) == Holds(i) /\ \A j \in 1..(i - 1) : ~Holds(j)
<1>3. ASSUME NEW m \in DOMAIN Trusted, Holds(m)
      PROVE  \E i \in DOMAIN Trusted : First(i)
  <2> DEFINE T == {i \in DOMAIN Trusted : Holds(i)}
  <2>1. PICK n \in Nat : DOMAIN Trusted = 1..n
    BY <1>1
  <2>2. T \subseteq Nat /\ m \in T
    BY <1>3, <2>1
  <2> HIDE DEF T
  <2>3. PICK x \in T : \A y \in T : x <= y
    BY <2>2, LeastNat
  <2>4. x \in 1..n /\ Holds(x)
    BY <2>1, <2>3 DEF T
  <2>5. \A j \in 1..(x - 1) : j \in 1..n /\ ~(x <= j)
    BY <2>4
  <2>6. \A j \in 1..(x - 1) : ~Holds(j)
    BY <2>1, <2>3, <2>5 DEF T
  <2> QED
    BY <2>1, <2>4, <2>6
<1>4. CASE \A i \in DOMAIN Trusted : ~Holds(i)
  BY <1>4 DEF GetClientIp
<1>5. CASE \E m \in DOMAIN Trusted : Holds(m)
  <2> DEFINE first == CHOOSE i \in DOMAIN Trusted : First(i)
  <2>1. first \in DOMAIN Trusted
    BY <1>3, <1>5
  <2>2. GetClientIp(headers) = headers[Trusted[first]]
    BY <1>5 DEF GetClientIp
  <2> QED
    BY <1>2, <2>1, <2>2
<1> QED
  BY <1>4, <1>5

LEMMA HitsKept ==
  ASSUME HitsTyped, Typed, [Next]_vars
  PROVE  HitsTyped'
<1>1. ASSUME NEW b \in Buckets, NEW n \in 1..MaxHits, Tick(b, n)
      PROVE  HitsTyped'
  <2>1. n \in 0..hits[b].live
    BY <1>1, OAuthAssumption, HitsFields DEF Tick, HitsTyped
  <2>2. Recent(RunOut(hits[b], n)) \in Hits
    BY <2>1, HitsFields DEF HitsTyped
  <2> QED
    BY <1>1, <2>2 DEF Tick, HitsTyped
<1>2. ASSUME NEW r \in Requests, NEW ip \in ClientIps, TokenIpLimit(r, ip)
      PROVE  HitsTyped'
  <2>1. TokenEndpointIpKey(ip) \in Buckets
    BY IpsAreAddresses, OAuthAssumption DEF TokenEndpointIpKey
  <2> QED
    BY <1>2, <2>1, AnswersAreHits DEF TokenIpLimit, HitsTyped
<1>3. ASSUME NEW r \in Requests, NEW k \in Clients, NEW body \in TokenBody,
             TokenClientLimit(r, k, body)
      PROVE  HitsTyped'
  <2>1. k \in Buckets
    BY OAuthAssumption
  <2> QED
    BY <1>3, <2>1, AnswersAreHits DEF TokenClientLimit, HitsTyped
<1>4. ASSUME UNCHANGED hits
      PROVE  HitsTyped'
  BY <1>4 DEF HitsTyped
<1>5. CASE UNCHANGED vars
  BY <1>4, <1>5 DEF vars
<1>6. CASE Browser
  BY <1>4, <1>6 DEF Browser, SignIn, ShowConsent, Logout
<1>7. CASE Environment
  BY <1>1, <1>4, <1>7
  DEF Environment, CreateOAuthClient, SeedLsaClient, UpdateRedirectUris, SetClientActive,
      SetUserStatus, LegacyCode, CodeExpires
<1>8. ASSUME NEW r \in Requests, Server(r)
      PROVE  HitsTyped'
  BY <1>2, <1>3, <1>4, <1>8
  DEF Server, SubmitConsent, CreateCode, ReadCode, CheckGrant, ClaimCode, IssueTokens,
      VerifyAccessToken, AnswerUserInfo, Drop
<1> QED
  BY <1>5, <1>6, <1>7, <1>8 DEF Next

LEMMA HitsAreTyped == Spec => []HitsTyped
<1>1. Init => HitsTyped
  BY DEF Init, HitsTyped, NoHits, Hits
<1>2. Typed /\ HitsTyped /\ [Next]_vars => HitsTyped'
  BY HitsKept
<1>3. IInv => Typed
  BY DEF IInv
<1> QED
  BY <1>1, <1>2, <1>3, Invariance, PTL DEF Spec

\* Every variable of the server keeps its type, the limiter's buckets included.
THEOREM TypeCorrect == Spec => []TypeOK
<1>1. IInv /\ HitsTyped => TypeOK
  BY DEF IInv, Typed, HitsTyped, TypeOK
<1> QED
  BY <1>1, Invariance, HitsAreTyped, PTL

\* On the hits any run of the server leaves, counted or run out, the two forms of
\* rateLimitAll decide alike for every list of distinct checks.
THEOREM FormsAgreeOnServer == Spec => []LimitersAgree
<1>1. HitsTyped => LimitersAgree
  <2> SUFFICES ASSUME HitsTyped
               PROVE  LimitersAgree
    OBVIOUS
  <2>1. [b \in Buckets |-> RunOut(hits[b], hits[b].live)] \in [Buckets -> Hits]
    <3>1. ASSUME NEW b \in Buckets
          PROVE  RunOut(hits[b], hits[b].live) \in Hits
      BY HitsFields DEF HitsTyped
    <3> QED
      BY <3>1
  <2> QED
    BY <2>1, FormsAgree DEF LimitersAgree, HitsTyped
<1> QED
  BY <1>1, HitsAreTyped, PTL

----------------------------------------------------------------------------
(* The server implements OAuthPromise *)

Standing == [a \in Codes |-> IF codes[a] = None THEN None ELSE ConsentOf(codes[a])]

LEMMA PromiseSees ==
  /\ Promise!Init <=> /\ Standing = [a \in Codes |-> None]
                      /\ token = [a \in Codes |-> None]
                      /\ minted = [a \in Codes |-> 0]
  /\ Promise!vars = <<Standing, token, minted>>
BY DEF Promise!Init, Promise!vars, Standing

LEMMA ConsentFields ==
  ASSUME NEW row \in CodeRow
  PROVE  /\ ConsentOf(row) \in Consents /\ ConsentOf(row) # None
         /\ ConsentOf(row).user = row.user /\ ConsentOf(row).client = row.client
         /\ ConsentOf(row).scopes = row.scopes /\ ConsentOf(row).verifier = row.challenge
<1>1. ConsentOf(row) \in Consents
  BY CodeFields DEF ConsentOf, Consents
<1> QED
  BY <1>1, RowAssumption DEF ConsentOf

LEMMA IssuesConsent ==
  ASSUME Typed, NEW a \in Codes, NEW row \in CodeRow, Issues(a, row)
  PROVE  Promise!Consent(a, ConsentOf(row)) /\ ConsentOf(row) \in Consents
<1>1. /\ codes[a] = None /\ token[a] = None /\ minted[a] = 0
      /\ codes' = [codes EXCEPT ![a] = row] /\ token' = token /\ minted' = minted
  BY DEF Issues, Fresh
<1>2. row # None
  BY RowAssumption
<1>3. Standing' = [Standing EXCEPT ![a] = ConsentOf(row)]
  BY <1>1, <1>2 DEF Standing, Typed
<1> QED
  BY <1>1, <1>3, ConsentFields DEF Promise!Consent, Standing

\* Rows that keep what was consented to leave the promise where it is.
LEMMA StandingKept ==
  ASSUME \A a \in Codes :
            \/ codes'[a] = codes[a]
            \/ /\ codes[a] # None /\ codes'[a] # None
               /\ ConsentOf(codes'[a]) = ConsentOf(codes[a])
  PROVE  Standing' = Standing
BY DEF Standing

LEMMA ExpiryKept ==
  ASSUME Typed, NEW a \in Codes, CodeExpires(a)
  PROVE  UNCHANGED <<Standing, token, minted>>
<1> DEFINE row == [codes[a] EXCEPT !.expired = TRUE]
<1>1. codes[a] \in CodeRow /\ codes[a] # None /\ codes' = [codes EXCEPT ![a] = row]
      /\ token' = token /\ minted' = minted
  BY DEF CodeExpires, Typed
<1>2. row \in CodeRow /\ ConsentOf(row) = ConsentOf(codes[a])
  BY <1>1 DEF ConsentOf, CodeRow
<1> HIDE DEF row
<1>3. row # None
  BY <1>2, RowAssumption
<1> QED
  BY <1>1, <1>2, <1>3, StandingKept DEF Typed

LEMMA ClaimKept ==
  ASSUME Typed, NEW r \in Requests, ClaimCode(r)
  PROVE  UNCHANGED <<Standing, token, minted>>
<1> DEFINE a == request[r].code
           row == [codes[a] EXCEPT !.used = TRUE]
<1>1. a \in Codes
  BY ProgressFields DEF Typed, ClaimCode
<1>2. codes[a] \in CodeRow /\ codes[a] # None /\ codes' = [codes EXCEPT ![a] = row]
      /\ token' = token /\ minted' = minted
  BY <1>1 DEF ClaimCode, Typed
<1>3. row \in CodeRow /\ ConsentOf(row) = ConsentOf(codes[a])
  BY <1>2 DEF ConsentOf, CodeRow
<1> HIDE DEF a, row
<1>4. row # None
  BY <1>3, RowAssumption
<1> QED
  BY <1>2, <1>3, <1>4, StandingKept DEF Typed

LEMMA UserLeaves ==
  ASSUME Typed, NEW u \in Users, NEW status \in {"ACTIVE", "SUSPENDED", "GONE"},
         SetUserStatus(u, status)
  PROVE  Promise!Leave(u) \/ UNCHANGED <<Standing, token, minted>>
<1>1. token' = token /\ minted' = minted
  BY DEF SetUserStatus
<1>2. CASE status # "GONE"
  <2>1. \A a \in Codes : codes'[a] = codes[a]
    BY <1>2 DEF SetUserStatus
  <2> QED
    BY <1>1, <2>1, StandingKept
<1>3. CASE status = "GONE"
  <2>1. \A a \in Codes :
           codes'[a] = IF codes[a] # None /\ codes[a].user = u THEN None ELSE codes[a]
    BY <1>3 DEF SetUserStatus
  <2>2. \A a \in Codes : codes[a] # None =>
           ConsentOf(codes[a]) # None /\ ConsentOf(codes[a]).user = codes[a].user
    BY ConsentFields DEF Typed
  <2>3. Standing' = [a \in Codes |->
                        IF Standing[a] # None /\ Standing[a].user = u
                        THEN None ELSE Standing[a]]
    BY <2>1, <2>2 DEF Standing
  <2> QED
    BY <1>1, <2>3 DEF Promise!Leave, Standing
<1> QED
  BY <1>2, <1>3

LEMMA TokensAnswer ==
  ASSUME IInv, NEW r \in Requests, IssueTokens(r)
  PROVE  \E a \in Codes : Promise!Answer(a)
<1>1. PICK a \in Codes : a = request[r].code
  BY ProgressFields DEF IInv, Typed, IssueTokens
<1>2. codes[a] \in CodeRow /\ codes[a] # None
  BY <1>1 DEF IInv, Typed, IssueTokens
<1>3. minted[a] = 0 /\ request[r].verifier = codes[a].challenge
  BY <1>1, <1>2 DEF IInv, CodesSound, CodeSound, RequestsSound, RequestSound, IssueTokens
<1>4. /\ token' = [token EXCEPT ![a] = Signed(codes[a], codes[a].scopes, codes[a].challenge)]
      /\ minted' = [minted EXCEPT ![a] = 1] /\ codes' = codes
  BY <1>1, <1>3 DEF IssueTokens, IInv, Typed
<1>5. Signed(codes[a], codes[a].scopes, codes[a].challenge)
        = Promise!Says(ConsentOf(codes[a]))
  BY DEF Signed, Promise!Says, ConsentOf
<1>6. Standing[a] = ConsentOf(codes[a]) /\ Standing[a] # None /\ Standing' = Standing
  BY <1>2, <1>4, ConsentFields DEF Standing
<1>7. token' = [token EXCEPT ![a] = Promise!Says(Standing[a])]
  BY <1>4, <1>5, <1>6
<1> QED
  BY <1>3, <1>4, <1>6, <1>7 DEF Promise!Answer, Standing

LEMMA InitPromise ==
  ASSUME Init
  PROVE  Promise!Init
<1>1. Standing = [a \in Codes |-> None]
  BY DEF Init, Standing
<1> QED
  BY <1>1, PromiseSees DEF Init

LEMMA StepPromise ==
  ASSUME IInv, [Next]_vars
  PROVE  [Promise!Next]_(Promise!vars)
<1>0. Typed /\ RequestsSound
  BY DEF IInv
<1>1. ASSUME codes' = codes, token' = token, minted' = minted
      PROVE  UNCHANGED <<Standing, token, minted>>
  BY <1>1 DEF Standing
<1>2. ASSUME NEW k \in Clients,
             \/ \E uris \in SUBSET Uris, scopes \in Granted : CreateOAuthClient(k, uris, scopes)
             \/ \E uris \in SUBSET Uris : SeedLsaClient(k, uris)
             \/ \E uri \in Uris : UpdateRedirectUris(k, uri)
             \/ \E active \in BOOLEAN : SetClientActive(k, active)
      PROVE  UNCHANGED <<Standing, token, minted>>
  BY <1>0, <1>1, <1>2, ClientSteps DEF ClientsGrow
<1>3. ASSUME NEW a \in Codes, NEW row \in CodeRow, Issues(a, row)
      PROVE  Promise!Next
  BY <1>0, <1>3, IssuesConsent DEF Promise!Next
<1>4. ASSUME NEW u \in Users, NEW status \in {"ACTIVE", "SUSPENDED", "GONE"},
             SetUserStatus(u, status)
      PROVE  Promise!Next \/ UNCHANGED <<Standing, token, minted>>
  BY <1>0, <1>4, UserLeaves DEF Promise!Next
<1>5. ASSUME NEW a \in Codes, LegacyCode(a) \/ CodeExpires(a)
      PROVE  Promise!Next \/ UNCHANGED <<Standing, token, minted>>
  BY <1>0, <1>3, <1>5, CodeSteps, ExpiryKept
<1>6. ASSUME \/ \E b \in Buckets, n \in 1..MaxHits : Tick(b, n)
             \/ Browser \/ UNCHANGED vars
      PROVE  UNCHANGED <<Standing, token, minted>>
  BY <1>1, <1>6 DEF Tick, Browser, SignIn, ShowConsent, Logout, vars
<1>7. ASSUME NEW r \in Requests, Server(r)
      PROVE  Promise!Next \/ UNCHANGED <<Standing, token, minted>>
  <2>1. CASE Goes(r)
    BY <1>1, <2>1 DEF Goes, Moves
  <2>2. CASE ClaimCode(r)
    BY <1>0, <2>2, ClaimKept
  <2>3. CASE IssueTokens(r)
    BY <2>3, TokensAnswer DEF Promise!Next
  <2> QED
    BY <1>0, <1>3, <1>7, <2>1, <2>2, <2>3, RequestSteps
<1>8. Promise!Next \/ UNCHANGED <<Standing, token, minted>>
  BY <1>2, <1>4, <1>5, <1>6, <1>7 DEF Next, Environment
<1>9. (Promise!vars = <<Standing, token, minted>>)'
  BY PromiseSees, PTL
<1> QED
  BY <1>8, <1>9, PromiseSees

\* The server implements OAuthPromise: a code stands for one consent and is answered
\* once, with exactly that consent.
THEOREM Refinement == Spec => KeepsPromise
<1>1. Init => Promise!Init
  BY InitPromise
<1>2. IInv /\ [Next]_vars => [Promise!Next]_(Promise!vars)
  BY StepPromise
<1> QED
  BY <1>1, <1>2, Invariance, PTL DEF Spec, KeepsPromise, Promise!Spec

============================================================================
