--------------------------- MODULE MCOAuthServer ---------------------------
(* The OAuth server on a small instance. *)
EXTENDS OAuthServer, TLC

CONSTANTS k1, nobody

MCClients == {k1}
MCGranted == {{"email"}, {"openid", "email"}}
MCLimit == k1 :> 1 @@ nobody :> 1
Symmetry == Permutations(Uris) \cup Permutations(Requests)

\* Bound on what is combined: the buckets of the token endpoint are empty while the
\* consent page is open; no handler reads both.
Combined == browser.page # None => \A b \in Buckets : hits[b] = NoHits
=============================================================================
