--------------------------- MODULE RateLimitProofs ---------------------------
(* The two forms of rateLimitAll for any buckets, limits and hits.  The loops *)
(* over a list of checks are compared with closed forms: what has happened    *)
(* after i rounds, said without the rounds before.                            *)
EXTENDS RateLimit, FiniteSetTheorems, SequenceTheorems, WellFoundedInduction, TLAPS

Distinct(keys) == \A i, j \in DOMAIN keys : keys[i] = keys[j] => i = j

Full(hits, b) == hits[b].live >= Limit[b]

\* The rounds up to i find no full bucket.
Open(hits, keys, i) == \A j \in 1..i : ~Full(hits, keys[j])

\* A round up to i gets as far as the bucket b: it is met, and none before it is full.
Met(hits, keys, i, b) == \E j \in 1..i : keys[j] = b /\ Open(hits, keys, j - 1)

\* The first i limits taken one after the other.
Consumed(hits, keys, i) ==
    [success |-> Open(hits, keys, i),
     hits |-> [b \in Buckets |-> IF Met(hits, keys, i, b) THEN Charged(hits[b]) ELSE hits[b]]]

\* The first i keys of the script, trimmed and counted.
Counted(hits, keys, i) ==
    [success |-> Open(hits, keys, i),
     hits |-> [b \in Buckets |-> IF Met(hits, keys, i, b) THEN Recent(hits[b]) ELSE hits[b]]]

-----------------------------------------------------------------------------
(* Loops *)

\* A set of naturals with a member has a least one.
LEMMA LeastNat ==
  ASSUME NEW T, T \subseteq Nat, NEW n \in T
  PROVE  \E x \in T : \A y \in T : x <= y
<1> DEFINE Less == {ss \in Nat \X Nat : ss[1] < ss[2]}
<1>1. IsWellFoundedOn(Less, Nat)
  BY NatLessThanWellFounded DEF OpToRel
<1> HIDE DEF Less
<1>2. PICK x \in T : \A y \in T : ~ (<<y, x>> \in Less)
  BY <1>1, WFMin
<1>3. \A y \in T : ~ (y < x)
  BY <1>2 DEF Less
<1> QED
  BY <1>3

\* Two functions that start alike, and never part after a round they leave alike, are equal.
LEMMA SameLoop ==
  ASSUME NEW n \in Nat, NEW f, NEW g,
         f[0] = g[0],
         \A i \in 1..n : f[i - 1] = g[i - 1] => f[i] = g[i]
  PROVE  \A i \in 0..n : f[i] = g[i]
<1> DEFINE T == {i \in 0..n : f[i] # g[i]}
<1>1. SUFFICES ASSUME NEW m \in T
               PROVE  FALSE
  OBVIOUS
<1>2. PICK x \in T : \A y \in T : x <= y
  <2>1. T \subseteq Nat /\ m \in T
    BY <1>1
  <2> HIDE DEF T
  <2> QED
    BY <2>1, LeastNat
<1>3. x \in 1..n
  BY <1>2
<1>4. x - 1 \notin T
  BY <1>2, <1>3
<1> QED
  BY <1>2, <1>3, <1>4

\* What the moves of a bucket do to its two counts.
LEMMA HitsFields ==
  ASSUME NEW h \in Hits
  PROVE  /\ h.live \in Nat /\ h.gone \in Nat
         /\ Charged(h) \in Hits /\ Charged(h).live = h.live + 1
         /\ Recent(h) \in Hits /\ Recent(h).live = h.live /\ Recent(h).gone = 0
         /\ Recent(Recent(h)) = Recent(h) /\ Charged(Recent(h)) = Charged(h)
         /\ \A n \in 0..h.live : RunOut(h, n) \in Hits
BY DEF Hits, Charged, Recent, RunOut

\* Round i meets one bucket more, unless an earlier one was full.
LEMMA MetNext ==
  ASSUME NEW hits, NEW keys \in Seq(Buckets), Distinct(keys), NEW i \in 1..Len(keys)
  PROVE  /\ Open(hits, keys, i) <=> Open(hits, keys, i - 1) /\ ~Full(hits, keys[i])
         /\ ~Met(hits, keys, i - 1, keys[i])
         /\ ~Open(hits, keys, i - 1) =>
               \A b \in Buckets : Met(hits, keys, i, b) <=> Met(hits, keys, i - 1, b)
         /\ Open(hits, keys, i - 1) =>
               \A b \in Buckets : Met(hits, keys, i, b) <=> (b = keys[i] \/ Met(hits, keys, i - 1, b))
<1>1. 1..i = (1..(i - 1)) \cup {i} /\ i \notin 1..(i - 1) /\ 1..i \subseteq DOMAIN keys
  OBVIOUS
<1>2. Open(hits, keys, i) <=> Open(hits, keys, i - 1) /\ ~Full(hits, keys[i])
  BY <1>1 DEF Open
<1>3. ~Met(hits, keys, i - 1, keys[i])
  BY <1>1 DEF Met, Distinct
<1>4. \A b \in Buckets :
         Met(hits, keys, i, b) <=>
            \/ Met(hits, keys, i - 1, b)
            \/ keys[i] = b /\ Open(hits, keys, i - 1)
  BY <1>1 DEF Met
<1> QED
  BY <1>2, <1>3, <1>4

\* Before the first round nothing has happened.
LEMMA NoRounds ==
  ASSUME NEW hits \in [Buckets -> Hits], NEW keys
  PROVE  /\ Consumed(hits, keys, 0) = [success |-> TRUE, hits |-> hits]
         /\ Counted(hits, keys, 0) = [success |-> TRUE, hits |-> hits]
<1>1. Open(hits, keys, 0) = TRUE
  BY DEF Open
<1>2. [b \in Buckets |-> IF Met(hits, keys, 0, b) THEN Charged(hits[b]) ELSE hits[b]] = hits
  BY DEF Met
<1>3. [b \in Buckets |-> IF Met(hits, keys, 0, b) THEN Recent(hits[b]) ELSE hits[b]] = hits
  BY DEF Met
<1> QED
  BY <1>1, <1>2, <1>3 DEF Consumed, Counted

\* One limit after the other, round by round.
LEMMA ConsumedNext ==
  ASSUME NEW hits \in [Buckets -> Hits], NEW keys \in Seq(Buckets), Distinct(keys),
         NEW i \in 1..Len(keys)
  PROVE  Consumed(hits, keys, i) = ConsumeNext(Consumed(hits, keys, i - 1), keys[i])
<1> DEFINE acc == Consumed(hits, keys, i - 1)
           key == keys[i]
<1>1. key \in Buckets /\ hits[key] \in Hits /\ Limit[key] \in Nat
  BY LimitAssumption DEF Buckets
<1>2. CASE ~Open(hits, keys, i - 1)
  <2>1. Open(hits, keys, i) = FALSE /\ Open(hits, keys, i - 1) = FALSE
    <3>1. Open(hits, keys, i) \in BOOLEAN /\ Open(hits, keys, i - 1) \in BOOLEAN
      BY DEF Open
    <3> QED
      BY <1>2, <3>1, MetNext
  <2>2. Consumed(hits, keys, i) = acc
    BY <1>2, <2>1, MetNext DEF Consumed
  <2>3. acc.success = FALSE
    BY <2>1 DEF Consumed
  <2> QED
    BY <2>2, <2>3 DEF ConsumeNext
<1>3. CASE Open(hits, keys, i - 1)
  <2>1. acc.success = TRUE
    BY <1>3 DEF Consumed, Open
  <2>2. acc.hits \in [Buckets -> Hits] /\ acc.hits[key] = hits[key]
    BY <1>1, MetNext, HitsFields DEF Consumed
  <2>3. Charged(hits[key]).live <= Limit[key] <=> ~Full(hits, key)
    BY <1>1, HitsFields DEF Full
  <2>4. Consumed(hits, keys, i).hits = [acc.hits EXCEPT ![key] = Charged(acc.hits[key])]
    BY <1>1, <1>3, <2>2, MetNext DEF Consumed
  <2>5. Consumed(hits, keys, i).success = (Charged(acc.hits[key]).live <= Limit[key])
    <3> DEFINE won == Charged(hits[key]).live <= Limit[key]
    <3>1. Open(hits, keys, i) <=> won
      BY <1>3, <2>3, MetNext
    <3>2. won \in BOOLEAN /\ Open(hits, keys, i) \in BOOLEAN
      BY DEF Open
    <3> HIDE DEF won
    <3>3. Open(hits, keys, i) = won
      BY <3>1, <3>2
    <3> QED
      BY <2>2, <3>3 DEF Consumed, won
  <2>6. Consumed(hits, keys, i) = [success |-> Consumed(hits, keys, i).success,
                                   hits |-> Consumed(hits, keys, i).hits]
    BY DEF Consumed
  <2> QED
    BY <2>1, <2>4, <2>5, <2>6 DEF ConsumeNext, MemoryLimit
<1> QED
  BY <1>2, <1>3

\* The script's first loop, round by round.
LEMMA CountedNext ==
  ASSUME NEW hits \in [Buckets -> Hits], NEW keys \in Seq(Buckets), Distinct(keys),
         NEW i \in 1..Len(keys)
  PROVE  Counted(hits, keys, i) = TrimAndCount(Counted(hits, keys, i - 1), keys[i])
<1> DEFINE acc == Counted(hits, keys, i - 1)
           key == keys[i]
<1>1. key \in Buckets /\ hits[key] \in Hits /\ Limit[key] \in Nat
  BY LimitAssumption DEF Buckets
<1>2. CASE ~Open(hits, keys, i - 1)
  <2>1. Open(hits, keys, i) = FALSE /\ Open(hits, keys, i - 1) = FALSE
    <3>1. Open(hits, keys, i) \in BOOLEAN /\ Open(hits, keys, i - 1) \in BOOLEAN
      BY DEF Open
    <3> QED
      BY <1>2, <3>1, MetNext
  <2>2. Counted(hits, keys, i) = acc
    BY <1>2, <2>1, MetNext DEF Counted
  <2>3. acc.success = FALSE
    BY <2>1 DEF Counted
  <2> QED
    BY <2>2, <2>3 DEF TrimAndCount
<1>3. CASE Open(hits, keys, i - 1)
  <2> DEFINE left == Recent(acc.hits[key])
  <2>1. acc.success = TRUE
    BY <1>3 DEF Counted, Open
  <2>2. acc.hits \in [Buckets -> Hits] /\ acc.hits[key] = hits[key]
    BY <1>1, MetNext, HitsFields DEF Counted
  <2>3. left.live + left.gone < Limit[key] <=> ~Full(hits, key)
    BY <1>1, <2>2, HitsFields DEF Full
  <2>4. Counted(hits, keys, i).hits = [acc.hits EXCEPT ![key] = left]
    BY <1>1, <1>3, <2>2, MetNext DEF Counted
  <2>5. Counted(hits, keys, i).success = (left.live + left.gone < Limit[key])
    <3> DEFINE won == left.live + left.gone < Limit[key]
    <3>1. Open(hits, keys, i) <=> won
      BY <1>3, <2>3, MetNext
    <3>2. won \in BOOLEAN /\ Open(hits, keys, i) \in BOOLEAN
      BY DEF Open
    <3> HIDE DEF won
    <3>3. Open(hits, keys, i) = won
      BY <3>1, <3>2
    <3> QED
      BY <3>3 DEF Counted, won
  <2>6. Counted(hits, keys, i) = [success |-> Counted(hits, keys, i).success,
                                  hits |-> Counted(hits, keys, i).hits]
    BY DEF Counted
  <2> QED
    BY <2>1, <2>4, <2>5, <2>6 DEF TrimAndCount
<1> QED
  BY <1>2, <1>3

-----------------------------------------------------------------------------
(* What the three operations do *)

\* The script's answer: after counting, it adds the member to every key or to none.
Added(hits, keys, counted) ==
    [success |-> counted.success,
     hits |-> IF counted.success
              THEN [b \in DOMAIN hits |->
                       IF \E i \in DOMAIN keys : keys[i] = b THEN Charged(counted.hits[b])
                                                             ELSE counted.hits[b]]
              ELSE counted.hits]

\* Limits taken one after the other come to the closed form.
LEMMA InOrderIs ==
  ASSUME NEW hits \in [Buckets -> Hits], NEW keys \in Seq(Buckets), Distinct(keys)
  PROVE  ConsumeInOrder(hits, keys) = Consumed(hits, keys, Len(keys))
<1> DEFINE Rounds(f) == [i \in 0..Len(keys) |->
              IF i = 0 THEN [success |-> TRUE, hits |-> hits]
              ELSE ConsumeNext(f[i - 1], keys[i])]
           after == CHOOSE f : f = Rounds(f)
           closed == [i \in 0..Len(keys) |-> Consumed(hits, keys, i)]
<1>1. Len(keys) \in Nat
  OBVIOUS
<1>2. \A i \in 1..Len(keys) : closed[i] = ConsumeNext(closed[i - 1], keys[i])
  BY <1>1, ConsumedNext
<1>3. closed[0] = [success |-> TRUE, hits |-> hits]
  BY <1>1, NoRounds
<1> DEFINE Eq(f) == f = Rounds(f)
<1>4. closed = Rounds(closed)
  <2> HIDE DEF closed
  <2>1. closed = [i \in 0..Len(keys) |-> closed[i]]
    BY DEF closed
  <2> QED
    BY <1>1, <1>2, <1>3, <2>1
<1>5. after = Rounds(after)
  BY <1>4
<1>6. /\ after[0] = [success |-> TRUE, hits |-> hits]
      /\ \A i \in 1..Len(keys) : after[i] = ConsumeNext(after[i - 1], keys[i])
  <2> HIDE DEF after
  <2>1. \A i \in 0..Len(keys) :
           after[i] = IF i = 0 THEN [success |-> TRUE, hits |-> hits]
                      ELSE ConsumeNext(after[i - 1], keys[i])
    BY <1>5
  <2>2. 0 \in 0..Len(keys) /\ \A i \in 1..Len(keys) : i \in 0..Len(keys) /\ i # 0
    BY <1>1
  <2> QED
    BY <2>1, <2>2
<1>7. after[Len(keys)] = closed[Len(keys)]
  <2> HIDE DEF after, closed
  <2>1. after[0] = closed[0]
    BY <1>3, <1>6
  <2>2. \A i \in 1..Len(keys) : after[i - 1] = closed[i - 1] => after[i] = closed[i]
    BY <1>2, <1>6
  <2>3. \A i \in 0..Len(keys) : after[i] = closed[i]
    BY <1>1, <2>1, <2>2, SameLoop
  <2> QED
    BY <1>1, <2>3
<1>8. ConsumeInOrder(hits, keys) = after[Len(keys)]
  BY DEF ConsumeInOrder
<1> QED
  BY <1>1, <1>7, <1>8

\* So does the script's first loop, before the members are added.
LEMMA ScriptCounts ==
  ASSUME NEW hits \in [Buckets -> Hits], NEW keys \in Seq(Buckets), Distinct(keys)
  PROVE  AtomicRedisLimit(hits, keys) = Added(hits, keys, Counted(hits, keys, Len(keys)))
<1> DEFINE Rounds(f) == [i \in 0..Len(keys) |->
              IF i = 0 THEN [success |-> TRUE, hits |-> hits]
              ELSE TrimAndCount(f[i - 1], keys[i])]
           after == CHOOSE f : f = Rounds(f)
           closed == [i \in 0..Len(keys) |-> Counted(hits, keys, i)]
<1>1. Len(keys) \in Nat
  OBVIOUS
<1>2. \A i \in 1..Len(keys) : closed[i] = TrimAndCount(closed[i - 1], keys[i])
  BY <1>1, CountedNext
<1>3. closed[0] = [success |-> TRUE, hits |-> hits]
  BY <1>1, NoRounds
<1> DEFINE Eq(f) == f = Rounds(f)
<1>4. closed = Rounds(closed)
  <2> HIDE DEF closed
  <2>1. closed = [i \in 0..Len(keys) |-> closed[i]]
    BY DEF closed
  <2> QED
    BY <1>1, <1>2, <1>3, <2>1
<1>5. after = Rounds(after)
  BY <1>4
<1>6. /\ after[0] = [success |-> TRUE, hits |-> hits]
      /\ \A i \in 1..Len(keys) : after[i] = TrimAndCount(after[i - 1], keys[i])
  <2> HIDE DEF after
  <2>1. \A i \in 0..Len(keys) :
           after[i] = IF i = 0 THEN [success |-> TRUE, hits |-> hits]
                      ELSE TrimAndCount(after[i - 1], keys[i])
    BY <1>5
  <2>2. 0 \in 0..Len(keys) /\ \A i \in 1..Len(keys) : i \in 0..Len(keys) /\ i # 0
    BY <1>1
  <2> QED
    BY <2>1, <2>2
<1>7. after[Len(keys)] = closed[Len(keys)]
  <2> HIDE DEF after, closed
  <2>1. after[0] = closed[0]
    BY <1>3, <1>6
  <2>2. \A i \in 1..Len(keys) : after[i - 1] = closed[i - 1] => after[i] = closed[i]
    BY <1>2, <1>6
  <2>3. \A i \in 0..Len(keys) : after[i] = closed[i]
    BY <1>1, <2>1, <2>2, SameLoop
  <2> QED
    BY <1>1, <2>3
<1>8. AtomicRedisLimit(hits, keys) = Added(hits, keys, after[Len(keys)])
  BY DEF AtomicRedisLimit, Added
<1> QED
  BY <1>1, <1>7, <1>8

\* The duplicate-free lists of checks, and their hits.
LEMMA ListsAgree ==
  ASSUME NEW hits \in [Buckets -> Hits], NEW keys \in Seq(Buckets), Distinct(keys)
  PROVE  ListAgrees(hits, keys)
<1> DEFINE memory  == AtomicMemoryLimit(hits, keys)
           redis   == AtomicRedisLimit(hits, keys)
           inOrder == ConsumeInOrder(hits, keys)
           counted == Counted(hits, keys, Len(keys))
           open    == Open(hits, keys, Len(keys))
           checks  == {keys[i] : i \in DOMAIN keys}
<1>1. Len(keys) \in Nat /\ DOMAIN keys = 1..Len(keys) /\ checks \subseteq Buckets
  OBVIOUS
<1>2. open \in BOOLEAN
  BY DEF Open
<1>3. (\E b \in checks : Recent(hits[b]).live >= Limit[b]) <=> ~open
  BY <1>1, HitsFields DEF Open, Full
<1>4. /\ memory.success = open
      /\ \A b \in Buckets : memory.hits[b] =
            IF open /\ b \in checks THEN Charged(hits[b]) ELSE hits[b]
  <2> DEFINE full == \E b \in checks : Recent(hits[b]).live >= Limit[b]
             left == [b \in DOMAIN hits |->
                         IF full \/ b \notin checks THEN hits[b] ELSE Charged(hits[b])]
  <2>1. memory = [success |-> ~full, hits |-> left]
    BY DEF AtomicMemoryLimit
  <2>2. (~full) = open
    BY <1>2, <1>3
  <2>3. \A b \in Buckets : left[b] =
           IF open /\ b \in checks THEN Charged(hits[b]) ELSE hits[b]
    <3> HIDE DEF full, open, checks
    <3> QED
      BY <2>2
  <2> HIDE DEF memory, full, left, open
  <2>4. memory.success = (~full) /\ memory.hits = left
    BY <2>1
  <2> QED
    BY <2>2, <2>3, <2>4
<1>5. /\ counted.success = open
      /\ counted.hits \in [Buckets -> Hits]
      /\ \A b \in Buckets : Recent(counted.hits[b]) = Recent(hits[b])
      /\ \A b \in Buckets : Charged(counted.hits[b]) = Charged(hits[b])
  BY HitsFields DEF Counted
<1>6. /\ redis.success = open
      /\ ~open => redis.hits = counted.hits
      /\ open => redis.hits = [b \in Buckets |->
                      IF b \in checks THEN Charged(counted.hits[b]) ELSE counted.hits[b]]
  <2>1. redis = Added(hits, keys, counted)
    BY ScriptCounts
  <2> HIDE DEF redis, counted, open
  <2> QED
    BY <1>2, <1>5, <2>1 DEF Added
<1>7. inOrder.success = open
  BY InOrderIs DEF Consumed
<1>8. ASSUME NEW b \in Buckets
      PROVE  /\ Recent(memory.hits[b]) = Recent(redis.hits[b])
             /\ ~redis.success => Recent(redis.hits[b]) = Recent(hits[b])
  <2> HIDE DEF memory, redis, counted, open, checks
  <2>1. CASE open
    BY <1>4, <1>5, <1>6, <2>1
  <2>2. CASE ~open
    BY <1>4, <1>5, <1>6, <2>2
  <2> QED
    BY <2>1, <2>2
<1> HIDE DEF open
<1> QED
  BY <1>4, <1>6, <1>7, <1>8 DEF ListAgrees, RateLimitAll

\* atomicMemoryLimit and the Redis script of rateLimitAll decide alike on every hits and
\* every list of distinct checks, leave the same hits alive and charge nothing when they
\* refuse; taking the limits one by one admits the same calls.
THEOREM FormsAgree == \A hits \in [Buckets -> Hits] : AtomicLimitsAgree(hits)
<1>1. Cardinality(Buckets) \in Nat
  BY LimitAssumption, FS_CardinalityType DEF Buckets
<1>2. ASSUME NEW keys \in CheckLists
      PROVE  keys \in Seq(Buckets) /\ Distinct(keys)
  <2>1. PICK n \in Nat : keys \in [1..n -> Buckets]
    BY <1>1 DEF CheckLists
  <2> QED
    BY <2>1 DEF CheckLists, Distinct
<1> QED
  BY <1>2, ListsAgree DEF AtomicLimitsAgree

\* Two or three entries that differ pairwise make a duplicate-free list.
LEMMA ShortLists ==
  ASSUME NEW list, list[1] # list[2],
         \/ DOMAIN list = 1..2
         \/ DOMAIN list = 1..3 /\ list[1] # list[3] /\ list[2] # list[3]
  PROVE  (\E n \in Nat : DOMAIN list = 1..n) /\ Distinct(list)
<1>1. /\ \A i \in 1..2 : i = 1 \/ i = 2
      /\ \A i \in 1..3 : i = 1 \/ i = 2 \/ i = 3
  OBVIOUS
<1> QED
  BY <1>1 DEF Distinct

\* ADMISSION_SCOPES names no scope of a surface twice.
LEMMA ScopesDiffer ==
  ASSUME NEW surface \in Surfaces
  PROVE  /\ \E n \in Nat : DOMAIN AdmissionScopes(surface) = 1..n
         /\ Distinct(AdmissionScopes(surface))
<1>1. CASE surface = "fragment-exchange"
  <2>1. /\ DOMAIN AdmissionScopes(surface) = 1..3
        /\ AdmissionScopes(surface)[1] = "ip" /\ AdmissionScopes(surface)[2] = "invite"
        /\ AdmissionScopes(surface)[3] = "global-exchange-write"
    BY <1>1 DEF AdmissionScopes
  <2> QED
    BY <2>1, ShortLists
<1>2. CASE surface = "registration"
  <2>1. /\ DOMAIN AdmissionScopes(surface) = 1..3
        /\ AdmissionScopes(surface)[1] = "ip" /\ AdmissionScopes(surface)[2] = "account"
        /\ AdmissionScopes(surface)[3] = "invite"
    BY <1>2 DEF AdmissionScopes
  <2> QED
    BY <2>1, ShortLists
<1>3. CASE surface = "invite-redemption"
  <2>1. /\ DOMAIN AdmissionScopes(surface) = 1..2
        /\ AdmissionScopes(surface)[1] = "ip" /\ AdmissionScopes(surface)[2] = "invite"
    BY <1>3 DEF AdmissionScopes
  <2> QED
    BY <2>1, ShortLists
<1>4. CASE surface \in {"login", "password-reset", "otp-verify"}
  <2>1. /\ DOMAIN AdmissionScopes(surface) = 1..2
        /\ AdmissionScopes(surface)[1] = "ip" /\ AdmissionScopes(surface)[2] = "account"
    BY <1>4 DEF AdmissionScopes
  <2> QED
    BY <2>1, ShortLists
<1>5. CASE surface = "admin-operation"
  <2>1. /\ DOMAIN AdmissionScopes(surface) = 1..2
        /\ AdmissionScopes(surface)[1] = "admin" /\ AdmissionScopes(surface)[2] = "ip"
    BY <1>5 DEF AdmissionScopes
  <2> QED
    BY <2>1, ShortLists
<1> QED
  BY <1>1, <1>2, <1>3, <1>4, <1>5 DEF Surfaces

\* Whatever a caller of buildAdmissionRateLimitChecks knows of a request, even if its account,
\* its invite and its address are one string or missing, the checks of its surface name
\* distinct buckets: so the two forms agree on them.
THEOREM AdmissionAgrees ==
  ASSUME NEW surface \in Surfaces, NEW input, NEW hits \in [Buckets -> Hits],
         \A i \in DOMAIN AdmissionChecks(surface, input) :
            AdmissionChecks(surface, input)[i] \in Buckets
  PROVE  ListAgrees(hits, AdmissionChecks(surface, input))
<1> DEFINE keys == AdmissionChecks(surface, input)
           scopes == AdmissionScopes(surface)
<1>1. PICK n \in Nat : DOMAIN scopes = 1..n
  BY ScopesDiffer
<1>2. DOMAIN keys = 1..n /\ \A i \in 1..n : keys[i][2] = scopes[i]
  BY <1>1 DEF AdmissionChecks
<1>3. Distinct(keys)
  BY <1>1, <1>2, ScopesDiffer DEF Distinct
<1>4. keys = [i \in 1..n |-> keys[i]]
  BY <1>1 DEF AdmissionChecks
<1>5. keys \in [1..n -> Buckets]
  <2>1. \A i \in 1..n : keys[i] \in Buckets
    BY <1>2
  <2> HIDE DEF keys
  <2> QED
    BY <1>4, <2>1
<1>6. keys \in Seq(Buckets)
  BY <1>1, <1>5, SeqDef
<1> QED
  BY <1>3, <1>6, ListsAgree

=============================================================================
