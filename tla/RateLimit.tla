----------------------------- MODULE RateLimit -----------------------------
(* The limiter of src/src/lib: rateLimit charges one bucket at a time, and   *)
(* rateLimitAll takes several buckets or none.  Without Redis both keep      *)
(* their timestamps in one Map; with it rateLimitAll runs a script.          *)
(* A bucket is the number of its hits inside the window of its policy and    *)
(* the number of those that have run out of it and are still stored.         *)
EXTENDS Naturals, Sequences, FiniteSets

CONSTANTS None,
          Host,     \* where the server runs
          Upstash,  \* TRUE: the Redis of the limiter is configured
          Limit     \* [bucket -> the limit of its policy]

ASSUME LimitAssumption ==
    /\ Host \in {"vercel", "production", "development"}
    /\ Upstash \in BOOLEAN
    /\ IsFiniteSet(DOMAIN Limit)
    /\ \A b \in DOMAIN Limit : Limit[b] \in Nat \ {0}

Buckets == DOMAIN Limit

Hits == [live: Nat, gone: Nat]
NoHits == [live |-> 0, gone |-> 0]

\* timestamps.filter((ts) => now - ts < windowMs)
Recent(bucket) == [live |-> bucket.live, gone |-> 0]

\* [...recent, now]
Charged(bucket) == [live |-> bucket.live + 1, gone |-> 0]

\* n of the hits leave the window.
RunOut(bucket, n) == [live |-> bucket.live - n, gone |-> bucket.gone + n]

-----------------------------------------------------------------------------
(* Which buckets a request is counted in. *)

Forwarded == {"x-vercel-forwarded-for", "x-real-ip", "x-forwarded-for"}

\* The headers a host trusts, in the order it tries them.
Trusted ==
    CASE Host = "vercel" -> <<"x-vercel-forwarded-for", "x-real-ip", "x-forwarded-for">>
      [] Host = "production" -> <<>>
      [] Host = "development" -> <<"x-forwarded-for">>

\* getClientIp: the first trusted header that holds an address; a header that is
\* missing or holds none is None.
GetClientIp(headers) ==
    LET holds(i) == headers[Trusted[i]] # None
    IN  IF \A i \in DOMAIN Trusted : ~holds(i) THEN None
        ELSE headers[Trusted[CHOOSE i \in DOMAIN Trusted :
                                 holds(i) /\ \A j \in 1..(i - 1) : ~holds(j)]]

Surfaces == {"fragment-exchange", "registration", "invite-redemption", "login",
             "password-reset", "otp-verify", "admin-operation"}

\* ADMISSION_SCOPES: what a surface is limited by, in this order.
AdmissionScopes(surface) ==
    CASE surface = "fragment-exchange" -> <<"ip", "invite", "global-exchange-write">>
      [] surface = "registration" -> <<"ip", "account", "invite">>
      [] surface = "invite-redemption" -> <<"ip", "invite">>
      [] surface \in {"login", "password-reset", "otp-verify"} -> <<"ip", "account">>
      [] surface = "admin-operation" -> <<"admin", "ip">>

\* buildAdmissionScopeKey: what the caller knows of the scope, or one key for all who
\* leave it out.
ScopeKey(input, scope) ==
    IF scope = "global-exchange-write" THEN "global-write"
    ELSE IF input[scope] = None THEN "unknown" ELSE input[scope]

\* buildAdmissionRateLimitChecks: a bucket of the surface's own policy for each scope.
AdmissionChecks(surface, input) ==
    [i \in DOMAIN AdmissionScopes(surface) |->
        LET scope == AdmissionScopes(surface)[i]
        IN  <<surface, scope, ScopeKey(input, scope)>>]

-----------------------------------------------------------------------------
(* One bucket at a time. *)

\* memoryLimit: the hit is kept even when it is refused.
MemoryLimit(hits, b) ==
    LET recent == Charged(hits[b])
    IN  [success |-> recent.live <= Limit[b], hits |-> [hits EXCEPT ![b] = recent]]

\* The library behind Upstash keeps its own count and does not charge what it refuses.
UpstashLimit(hits, b) ==
    {[success |-> TRUE, hits |-> [hits EXCEPT ![b] = Charged(hits[b])]],
     [success |-> FALSE, hits |-> hits]}

\* rateLimit: in production there is no answer without Upstash, it throws.
RateLimitAnswers(hits, b) ==
    IF Upstash THEN UpstashLimit(hits, b)
    ELSE IF Host = "development" THEN {MemoryLimit(hits, b)} ELSE {}

\* One round of a caller that takes its limits one after the other, up to a refusal.
ConsumeNext(acc, key) == IF ~acc.success THEN acc ELSE MemoryLimit(acc.hits, key)

\* A sign-in's limits (consumeLoginLimiters): what was charged before the refusal stays
\* charged.
ConsumeInOrder(hits, keys) ==
    LET after[i \in 0..Len(keys)] ==
            IF i = 0 THEN [success |-> TRUE, hits |-> hits]
            ELSE ConsumeNext(after[i - 1], keys[i])
    IN  after[Len(keys)]

-----------------------------------------------------------------------------
(* Several buckets or none. *)

\* atomicMemoryLimit: every bucket is looked at before any is charged.
AtomicMemoryLimit(hits, keys) ==
    LET checks == {keys[i] : i \in DOMAIN keys}
        full == \E b \in checks : Recent(hits[b]).live >= Limit[b]
    IN  [success |-> ~full,
         hits    |-> [b \in DOMAIN hits |->
                         IF full \/ b \notin checks THEN hits[b] ELSE Charged(hits[b])]]

\* Mutant: the script counts the hits that have run out too.
TrimAndCount_NoTrim(acc, key) ==
    IF ~acc.success THEN acc
    ELSE [success |-> acc.hits[key].live + acc.hits[key].gone < Limit[key], hits |-> acc.hits]

\* One round of the script's first loop: trim the key, then count what it stores.
TrimAndCount(acc, key) ==
    IF ~acc.success THEN acc
    ELSE LET left == Recent(acc.hits[key])
         IN  [success |-> left.live + left.gone < Limit[key],
              hits    |-> [acc.hits EXCEPT ![key] = left]]

\* ATOMIC_SLIDING_WINDOW_SCRIPT: trim and count in order, return 0 at the first
\* full key, and only then add the member to every key.
AtomicRedisLimit(hits, keys) ==
    LET after[i \in 0..Len(keys)] ==
            IF i = 0 THEN [success |-> TRUE, hits |-> hits]
            ELSE TrimAndCount(after[i - 1], keys[i])
        counted == after[Len(keys)]
        charged == [b \in DOMAIN hits |->
                       IF \E i \in DOMAIN keys : keys[i] = b THEN Charged(counted.hits[b])
                                                             ELSE counted.hits[b]]
    IN  [success |-> counted.success,
         hits    |-> IF counted.success THEN charged ELSE counted.hits]

\* rateLimitAll runs the script where Redis is configured.
RateLimitAll(redis, hits, keys) ==
    IF redis THEN AtomicRedisLimit(hits, keys) ELSE AtomicMemoryLimit(hits, keys)

\* The lists of checks callers pass: distinct buckets, in any order.
CheckLists ==
    {keys \in UNION {[1..n -> Buckets] : n \in 0..Cardinality(Buckets)} :
        \A i, j \in DOMAIN keys : keys[i] = keys[j] => i = j}

\* The two forms of rateLimitAll decide alike on the same hits, leave the same hits
\* alive, and charge nothing when they refuse.  Taking the same limits one by one
\* admits the same calls.
ListAgrees(hits, keys) ==
    LET memory  == RateLimitAll(FALSE, hits, keys)
        redis   == RateLimitAll(TRUE, hits, keys)
        inOrder == ConsumeInOrder(hits, keys)
    IN  /\ memory.success = redis.success /\ inOrder.success = memory.success
        /\ \A b \in Buckets :
              /\ Recent(memory.hits[b]) = Recent(redis.hits[b])
              /\ ~redis.success => Recent(redis.hits[b]) = Recent(hits[b])

AtomicLimitsAgree(hits) == \A keys \in CheckLists : ListAgrees(hits, keys)
=============================================================================
