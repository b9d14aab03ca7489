---------------------------- MODULE OAuthPromise ----------------------------
(* What the authorization server promises about each authorization code, with *)
(* no request, expiry, limiter or claim in sight: a code stands for one       *)
(* consent; it is answered with tokens at most once, and they say exactly     *)
(* what was consented to; a user who leaves takes the standing consents away, *)
(* and no token that was sent is ever rewritten.                              *)
EXTENDS Naturals

CONSTANTS Codes, Users, Consents, None

VARIABLES consent,   \* [code -> the consent it stands for, or None]
          token,     \* [code -> what its access token says, or None]
          answers    \* [code -> how often tokens were sent for it]

vars == <<consent, token, answers>>

Init ==
    /\ consent = [a \in Codes |-> None]
    /\ token = [a \in Codes |-> None]
    /\ answers = [a \in Codes |-> 0]

Consent(a, c) ==
    /\ consent[a] = None /\ token[a] = None /\ answers[a] = 0
    /\ consent' = [consent EXCEPT ![a] = c]
    /\ UNCHANGED <<token, answers>>

Leave(u) ==
    /\ consent' = [a \in Codes |->
                      IF consent[a] # None /\ consent[a].user = u
                      THEN None ELSE consent[a]]
    /\ UNCHANGED <<token, answers>>

Says(c) ==
    [client |-> c.client, user |-> c.user, scopes |-> c.scopes,
     verifier |-> c.verifier, id |-> "openid" \in c.scopes]

Answer(a) ==
    /\ consent[a] # None /\ answers[a] = 0
    /\ token' = [token EXCEPT ![a] = Says(consent[a])]
    /\ answers' = [answers EXCEPT ![a] = 1]
    /\ UNCHANGED consent

Next ==
    \/ \E a \in Codes : (\E c \in Consents : Consent(a, c)) \/ Answer(a)
    \/ \E u \in Users : Leave(u)

Spec == Init /\ [][Next]_vars
=============================================================================
