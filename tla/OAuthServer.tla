---------------------------- MODULE OAuthServer ----------------------------
(* The OAuth authorization server: consent, authorization codes with S256    *)
(* PKCE, the token endpoint behind its two rate limits, userinfo and logout. *)
(* A handler's database reads and writes are separate steps of a request, so *)
(* users, clients and other requests may change what it has already read.    *)
EXTENDS RateLimit

CONSTANTS
  Users,        \* ids of user rows
  Clients,      \* public identifiers of relying parties
  Uris,         \* registrable redirect URIs
  Scopes,       \* ALLOWED_SCOPES
  Granted,      \* bound: the scope sets clients are created with
  Verifiers,    \* PKCE verifiers; a challenge is named by its verifier
  Codes,        \* values generateAuthorizationCode draws
  Requests,     \* HTTP requests in progress
  Addresses,    \* client addresses
  Unknown,      \* the bucket of requests whose address is not known
  MaxHits       \* bound: live hits a bucket may hold

ASSUME OAuthAssumption ==
    /\ {"openid", "email"} \subseteq Scopes
    /\ Granted \subseteq (SUBSET Scopes) \ {{}}
    /\ MaxHits \in Nat
    /\ None \notin Users \cup Clients \cup Uris \cup Verifiers \cup Codes \cup Addresses
    /\ Clients \cap Addresses = {} /\ Unknown \notin Clients \cup Addresses
    /\ Buckets = Clients \cup Addresses \cup {Unknown}

VARIABLES
  user,       \* [user -> "ACTIVE", "SUSPENDED" or "GONE"]
  client,     \* [client -> its row or None]
  browser,    \* the signed-in user of the browser, and the consent page it shows
  codes,      \* [code -> its row or None]
  token,      \* [code -> the access token signed for it, or None]
  minted,     \* [code -> token responses sent for it] (history)
  request,    \* [request -> what it is doing]
  hits        \* the limiter's buckets of the token endpoint

clientVars == <<user, client>>
vars == <<user, client, browser, codes, token, minted, request, hits>>

Idle == [at |-> "idle"]
ScopeSets == (SUBSET Scopes) \ {{}}

ClientRow == [active: BOOLEAN, uris: (SUBSET Uris) \ {{}}, scopes: ScopeSets]
Form == [client: Clients, uri: Uris, scopes: ScopeSets, challenge: Verifiers \cup {None}]
CodeRow == [client: Clients, user: Users, uri: Uris, scopes: ScopeSets,
            challenge: Verifiers \cup {None}, expired: BOOLEAN, used: BOOLEAN]
Token == [client: Clients, user: Users, scopes: ScopeSets, verifier: Verifiers,
          id: BOOLEAN]
Consents == [client: Clients, user: Users, scopes: ScopeSets,
             verifier: Verifiers \cup {None}]

ASSUME RowAssumption == None \notin ClientRow \cup CodeRow \cup Consents

Progress ==
    {Idle}
    \cup [at: {"consented"}, user: Users, form: Form]
    \cup [at: {"counted"}]
    \cup [at: {"admitted"}, client: Clients]
    \cup [at: {"found"}, code: Codes, client: Clients]
    \cup [at: {"checked", "claimed"}, code: Codes, verifier: Verifiers]
    \cup [at: {"bearer"}, code: Codes]
    \cup [at: {"answered"}, code: Codes, sub: Users, claims: SUBSET Scopes]

\* What parseTokenRequest makes of a body: a field that is missing is None, and a
\* body that is malformed is refused (Drop).
TokenBody == [grant: {"authorization_code", "other"},
              secret: {"none", "matches", "differs"},
              uri: Uris \cup {None}, verifier: Verifiers \cup {None}]

\* Codes of the release before mandatory PKCE have no challenge.
LegacyCodes == [client: Clients, user: Users, uri: Uris, scopes: {{"openid"}},
                challenge: {None}, expired: {FALSE}, used: {FALSE}]

Init ==
    /\ user \in [Users -> {"ACTIVE"}]
    /\ client = [k \in Clients |-> None]
    /\ browser = [user |-> None, page |-> None]
    /\ codes = [a \in Codes |-> None]
    /\ token = [a \in Codes |-> None]
    /\ minted = [a \in Codes |-> 0]
    /\ request = [r \in Requests |-> Idle]
    /\ hits = [b \in Buckets |-> NoHits]

-----------------------------------------------------------------------------
(* Clients and users, and the clock. *)

\* Mutant: a client may be registered without a redirect URI.
CreateOAuthClient_NoUri(k, uris, scopes) ==
    /\ client[k] = None
    /\ client' = [client EXCEPT ![k] = [active |-> TRUE, uris |-> uris, scopes |-> scopes]]
    /\ UNCHANGED <<user, browser, codes, token, minted, request, hits>>

\* createOAuthClient: a new client has at least one redirect URI.
CreateOAuthClient(k, uris, scopes) ==
    /\ client[k] = None
    /\ uris # {}
    /\ client' = [client EXCEPT ![k] = [active |-> TRUE, uris |-> uris, scopes |-> scopes]]
    /\ UNCHANGED <<user, browser, codes, token, minted, request, hits>>

\* Mutant: the new URI replaces the registered ones.
UpdateRedirectUris_Replaces(k, uri) ==
    /\ client[k] # None
    /\ client' = [client EXCEPT ![k].uris = {uri}]
    /\ UNCHANGED <<user, browser, codes, token, minted, request, hits>>

\* seed-lsa-client writes the row of its client itself, with every scope.
SeedLsaClient(k, uris) ==
    /\ client[k] = None
    /\ uris # {}
    /\ client' = [client EXCEPT ![k] = [active |-> TRUE, uris |-> uris, scopes |-> Scopes]]
    /\ UNCHANGED <<user, browser, codes, token, minted, request, hits>>

\* update-lsa-redirect-uris: the registered URIs and one more.
UpdateRedirectUris(k, uri) ==
    /\ client[k] # None
    /\ client' = [client EXCEPT ![k].uris = @ \cup {uri}]
    /\ UNCHANGED <<user, browser, codes, token, minted, request, hits>>

\* An operator switches a client off or on in the database.
SetClientActive(k, active) ==
    /\ client[k] # None /\ client[k].active # active
    /\ client' = [client EXCEPT ![k].active = active]
    /\ UNCHANGED <<user, browser, codes, token, minted, request, hits>>

\* A user row changes status, or is deleted with its codes (onDelete: Cascade).
SetUserStatus(u, status) ==
    /\ user[u] \notin {"GONE", status}
    /\ user' = [user EXCEPT ![u] = status]
    /\ codes' = [a \in Codes |->
                    IF status = "GONE" /\ codes[a] # None /\ codes[a].user = u
                    THEN None ELSE codes[a]]
    /\ UNCHANGED <<client, browser, token, minted, request, hits>>

\* A code no row, token or request has ever named: 32 random bytes.
Fresh(a) ==
    /\ codes[a] = None /\ token[a] = None /\ minted[a] = 0
    /\ \A r \in Requests :
          request[r].at \in {"found", "checked", "claimed", "bearer", "answered"} => request[r].code # a

\* While a deployment rolls out, the release before still issues codes.
LegacyCode(a) ==
    /\ Fresh(a)
    /\ \E row \in LegacyCodes :
          /\ client[row.client] # None /\ row.uri \in client[row.client].uris
          /\ user[row.user] # "GONE"
          /\ codes' = [codes EXCEPT ![a] = row]
    /\ UNCHANGED <<clientVars, browser, token, minted, request, hits>>

\* AUTH_CODE_TTL_MINUTES pass for a code.
CodeExpires(a) ==
    /\ codes[a] # None /\ ~codes[a].expired
    /\ codes' = [codes EXCEPT ![a].expired = TRUE]
    /\ UNCHANGED <<clientVars, browser, token, minted, request, hits>>

\* Hits of a bucket run out.  Every reader of a bucket first drops those: so does time.
Tick(b, n) ==
    /\ n <= hits[b].live
    /\ hits' = [hits EXCEPT ![b] = Recent(RunOut(hits[b], n))]
    /\ UNCHANGED <<clientVars, browser, codes, token, minted, request>>

-----------------------------------------------------------------------------
(* The browser: sign-in, consent, logout. *)

\* validateAuthorizeRequest: the client is active, the URI registered, every scope
\* allowed for the client, and an S256 challenge is there.
ValidateAuthorizeRequest(form) ==
    /\ client[form.client] # None
    /\ client[form.client].active
    /\ form.uri \in client[form.client].uris
    /\ form.scopes \subseteq client[form.client].scopes
    /\ form.challenge # None

IsActive(u) == u # None /\ user[u] = "ACTIVE"

SignIn(u) ==
    /\ browser.user # u /\ user[u] = "ACTIVE"
    /\ browser' = [browser EXCEPT !.user = u]
    /\ UNCHANGED <<clientVars, codes, token, minted, request, hits>>

\* AuthorizePage: the validated request becomes the hidden fields of the form.
ShowConsent(form) ==
    /\ ValidateAuthorizeRequest(form)
    /\ IsActive(browser.user)
    /\ browser' = [browser EXCEPT !.page = form]
    /\ UNCHANGED <<clientVars, codes, token, minted, request, hits>>

\* authorizeAction up to createAuthorizationCode: the form is validated again, the
\* session and the user's status are read again, and the decision was "approve".
\* The redirect that follows takes the browser away from the page.
SubmitConsent(r) ==
    /\ request[r] = Idle
    /\ browser.page # None
    /\ ValidateAuthorizeRequest(browser.page)
    /\ IsActive(browser.user)
    /\ request' = [request EXCEPT ![r] =
                      [at |-> "consented", user |-> browser.user, form |-> browser.page]]
    /\ browser' = [browser EXCEPT !.page = None]
    /\ UNCHANGED <<clientVars, codes, token, minted, hits>>

\* createAuthorizationCode: the status once more, then the row.
CreateCode(r, a) ==
    /\ request[r].at = "consented"
    /\ IsActive(request[r].user)
    /\ Fresh(a)
    /\ LET form == request[r].form IN
       codes' = [codes EXCEPT ![a] =
                    [client |-> form.client, user |-> request[r].user, uri |-> form.uri,
                     scopes |-> form.scopes, challenge |-> form.challenge,
                     expired |-> FALSE, used |-> FALSE]]
    /\ request' = [request EXCEPT ![r] = Idle]
    /\ UNCHANGED <<clientVars, browser, token, minted, hits>>

\* decodeIdToken: whatever this server signed, expired or not, and not the type of
\* the token; None for anything else.
DecodeIdToken(hint) == token[hint]

\* GET /oauth/logout: the hint names the client, a redirect must be registered with
\* it, and the cookies are cleared.
Logout(hint, named, uri) ==
    LET resolved == IF hint = None THEN named ELSE DecodeIdToken(hint).client IN
    /\ browser.user # None
    /\ hint # None => DecodeIdToken(hint) # None
    /\ resolved # None => client[resolved] # None
    /\ uri # None => resolved # None /\ uri \in client[resolved].uris
    /\ browser' = [browser EXCEPT !.user = None]
    /\ UNCHANGED <<clientVars, codes, token, minted, request, hits>>

-----------------------------------------------------------------------------
(* POST /oauth/token and exchangeAuthorizationCode. *)

\* What getClientIp makes of the headers of a request.
ClientIps == {GetClientIp(headers) : headers \in [Forwarded -> Addresses \cup {None}]}

\* tokenEndpointIpKey; requests without an address share a bucket.
TokenEndpointIpKey(ip) == IF ip = None THEN Unknown ELSE ip

\* The per-IP limit comes before the body is parsed.
TokenIpLimit(r, ip) ==
    LET b == TokenEndpointIpKey(ip) IN
    /\ request[r] = Idle
    /\ hits[b].live < MaxHits
    /\ \E answer \in RateLimitAnswers(hits, b) :
          /\ hits' = answer.hits
          /\ request' = [request EXCEPT ![r] =
                            IF answer.success THEN [at |-> "counted"] ELSE Idle]
    /\ UNCHANGED <<clientVars, browser, codes, token, minted>>

\* An authorization_code request pays for the client it names; what the address
\* paid is not given back when the client's bucket is full.
TokenClientLimit(r, k, body) ==
    /\ request[r].at = "counted"
    /\ body.grant = "authorization_code"
    /\ hits[k].live < MaxHits
    /\ \E answer \in RateLimitAnswers(hits, k) :
          /\ hits' = answer.hits
          /\ request' = [request EXCEPT ![r] =
                            IF answer.success THEN [at |-> "admitted", client |-> k] ELSE Idle]
    /\ UNCHANGED <<clientVars, browser, codes, token, minted>>

\* The code's row is there and belongs to the client.
ReadCode(r, a) ==
    /\ request[r].at = "admitted"
    /\ codes[a] # None
    /\ codes[a].client = request[r].client
    /\ request' = [request EXCEPT ![r] =
                      [at |-> "found", code |-> a, client |-> request[r].client]]
    /\ UNCHANGED <<clientVars, browser, codes, token, minted, hits>>

\* pkceChallengeMatches; a verifier that is malformed (None) matches nothing.
PkceMatches(verifier, challenge) == verifier # None /\ verifier = challenge

\* verifyClientSecret: the hash of what was sent is the stored one.
VerifyClientSecret(secret) == secret = "matches"

\* The client is active, a secret that is sent is the client's, a redirect_uri that is
\* sent is the code's, the code has not expired, and the verifier answers its challenge.
\* A row deleted meanwhile is refused here; the code refuses it at the claim.
CheckGrant(r, body) ==
    LET a == request[r].code IN
    /\ request[r].at = "found"
    /\ codes[a] # None
    /\ client[request[r].client].active
    /\ body.secret # "none" => VerifyClientSecret(body.secret)
    /\ body.uri # None => body.uri = codes[a].uri
    /\ ~codes[a].expired
    /\ codes[a].challenge # None
    /\ PkceMatches(body.verifier, codes[a].challenge)
    /\ request' = [request EXCEPT ![r] =
                      [at |-> "checked", code |-> a, verifier |-> body.verifier]]
    /\ UNCHANGED <<clientVars, browser, codes, token, minted, hits>>

\* Mutant: the claim does not ask whether the code was used.
ClaimCode_Again(r) ==
    LET a == request[r].code IN
    /\ request[r].at = "checked"
    /\ codes[a] # None /\ ~codes[a].expired
    /\ codes' = [codes EXCEPT ![a].used = TRUE]
    /\ request' = [request EXCEPT ![r].at = "claimed"]
    /\ UNCHANGED <<clientVars, browser, token, minted, hits>>

\* updateMany where usedAt is null and the code has not expired: one request wins.
ClaimCode(r) ==
    LET a == request[r].code IN
    /\ request[r].at = "checked"
    /\ codes[a] # None /\ ~codes[a].used /\ ~codes[a].expired
    /\ codes' = [codes EXCEPT ![a].used = TRUE]
    /\ request' = [request EXCEPT ![r].at = "claimed"]
    /\ UNCHANGED <<clientVars, browser, token, minted, hits>>

\* signAccessToken over the payloads of the access and of the ID token.
Signed(row, scopes, verifier) ==
    [client |-> row.client, user |-> row.user, scopes |-> scopes,
     verifier |-> verifier, id |-> "openid" \in row.scopes]

\* getUserClaims: what the scopes let a client see of an ACTIVE user beside its sub.
UserClaims(scopes) == scopes \cap {"email", "profile"}

\* Mutant: the tokens carry the client's scopes instead of the code's.
IssueTokens_ClientScopes(r) ==
    LET a == request[r].code
        row == codes[a] IN
    /\ request[r].at = "claimed"
    /\ row # None /\ IsActive(row.user)
    /\ token' = [token EXCEPT ![a] =
                    Signed(row, client[row.client].scopes, request[r].verifier)]
    /\ minted' = [minted EXCEPT ![a] = @ + 1]
    /\ request' = [request EXCEPT ![r] = Idle]
    /\ UNCHANGED <<clientVars, browser, codes, hits>>

\* getUserClaims finds the user ACTIVE, and the tokens are signed.
IssueTokens(r) ==
    LET a == request[r].code
        row == codes[a] IN
    /\ request[r].at = "claimed"
    /\ row # None /\ IsActive(row.user)
    /\ token' = [token EXCEPT ![a] = Signed(row, row.scopes, request[r].verifier)]
    /\ minted' = [minted EXCEPT ![a] = @ + 1]
    /\ request' = [request EXCEPT ![r] = Idle]
    /\ UNCHANGED <<clientVars, browser, codes, hits>>

-----------------------------------------------------------------------------
(* GET /oauth/userinfo. *)

\* verifyAccessToken: signed by this server and not expired; whether a token's hour is
\* over is left to the caller.
VerifyAccessToken(r, a, expired) ==
    /\ request[r] = Idle
    /\ token[a] # None /\ ~expired
    /\ request' = [request EXCEPT ![r] = [at |-> "bearer", code |-> a]]
    /\ UNCHANGED <<clientVars, browser, codes, token, minted, hits>>

\* getUserClaims on the token's subject and scopes.
AnswerUserInfo(r) ==
    LET a == request[r].code IN
    /\ request[r].at = "bearer"
    /\ IsActive(token[a].user)
    /\ request' = [request EXCEPT ![r] =
                      [at |-> "answered", code |-> a, sub |-> token[a].user,
                       claims |-> UserClaims(token[a].scopes)]]
    /\ UNCHANGED <<clientVars, browser, codes, token, minted, hits>>

\* A check fails and the request is answered with an error, its process dies, or it ends.
Drop(r) ==
    /\ request[r] # Idle
    /\ request' = [request EXCEPT ![r] = Idle]
    /\ UNCHANGED <<clientVars, browser, codes, token, minted, hits>>

-----------------------------------------------------------------------------
Environment ==
    \/ \E k \in Clients, uris \in SUBSET Uris, scopes \in Granted :
          CreateOAuthClient(k, uris, scopes)
    \/ \E k \in Clients, uris \in SUBSET Uris : SeedLsaClient(k, uris)
    \/ \E k \in Clients, uri \in Uris : UpdateRedirectUris(k, uri)
    \/ \E k \in Clients, active \in BOOLEAN : SetClientActive(k, active)
    \/ \E u \in Users, status \in {"ACTIVE", "SUSPENDED", "GONE"} : SetUserStatus(u, status)
    \/ \E a \in Codes : LegacyCode(a) \/ CodeExpires(a)
    \/ \E b \in Buckets, n \in 1..MaxHits : Tick(b, n)

Browser ==
    \/ \E u \in Users : SignIn(u)
    \/ \E form \in Form : ShowConsent(form)
    \/ \E hint \in Codes \cup {None}, named \in Clients \cup {None}, uri \in Uris \cup {None} :
          Logout(hint, named, uri)

Server(r) ==
    \/ SubmitConsent(r)
    \/ \E a \in Codes : CreateCode(r, a)
    \/ \E ip \in ClientIps : TokenIpLimit(r, ip)
    \/ \E k \in Clients, body \in TokenBody : TokenClientLimit(r, k, body)
    \/ \E a \in Codes : ReadCode(r, a)
    \/ \E body \in TokenBody : CheckGrant(r, body)
    \/ ClaimCode(r)
    \/ IssueTokens(r)
    \/ \E a \in Codes, expired \in BOOLEAN : VerifyAccessToken(r, a, expired)
    \/ AnswerUserInfo(r)
    \/ Drop(r)

Next == Environment \/ Browser \/ \E r \in Requests : Server(r)

Spec == Init /\ [][Next]_vars

-----------------------------------------------------------------------------
(* The variables hold values of these types. *)
TypeOK ==
    /\ user \in [Users -> {"ACTIVE", "SUSPENDED", "GONE"}]
    /\ client \in [Clients -> ClientRow \cup {None}]
    /\ browser \in [user: Users \cup {None}, page: Form \cup {None}]
    /\ codes \in [Codes -> CodeRow \cup {None}]
    /\ token \in [Codes -> Token \cup {None}]
    /\ minted \in [Codes -> Nat]
    /\ request \in [Requests -> Progress]
    /\ hits \in [Buckets -> Hits]

(* However many requests exchange one code at once, token.ts sends tokens    *)
(* for it at most once.                                                      *)
OneTokenPerCode == \A a \in Codes : minted[a] <= 1

(* A token, and what userinfo answers to it, stay within what the user       *)
(* consented to: the code's user, client and scopes, and the verifier of the *)
(* challenge the code was issued with.                                       *)
TokensFollowConsent ==
    \A a \in Codes : token[a] # None /\ codes[a] # None =>
        /\ codes[a].used
        /\ token[a].user = codes[a].user /\ token[a].client = codes[a].client
        /\ token[a].scopes = codes[a].scopes /\ token[a].verifier = codes[a].challenge
        /\ \A r \in Requests : request[r].at = "answered" /\ request[r].code = a =>
              request[r].sub = codes[a].user /\ request[r].claims \subseteq codes[a].scopes

(* Every code goes back to a URI that is registered with its client, however *)
(* many steps lie between the validation and the row.                        *)
RedirectsAreRegistered ==
    \A a \in Codes : codes[a] # None =>
        client[codes[a].client] # None /\ codes[a].uri \in client[codes[a].client].uris

(* On whatever hits the token endpoint's sequential charging leaves, counted *)
(* or run out, the two forms of rateLimitAll, atomicMemoryLimit and the      *)
(* Redis script, decide alike, and a refusal charges nothing.                *)
LimitersAgree ==
    /\ AtomicLimitsAgree(hits)
    /\ AtomicLimitsAgree([b \in Buckets |-> RunOut(hits[b], hits[b].live)])

\* What a row says of the consent it was created from.
ConsentOf(row) ==
    [client |-> row.client, user |-> row.user, scopes |-> row.scopes,
     verifier |-> row.challenge]

Promise == INSTANCE OAuthPromise WITH
    consent <- [a \in Codes |-> IF codes[a] = None THEN None ELSE ConsentOf(codes[a])],
    answers <- minted

(* The handlers' reads, checks, claims and signatures, interleaved with      *)
(* operators and deletions, implement OAuthPromise: expiry, use and refusal  *)
(* are stutters of it, and IssueTokens is its one answer.                    *)
KeepsPromise == Promise!Spec

=============================================================================
