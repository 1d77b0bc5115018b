----------------------------- MODULE RateLimiter -----------------------------
(***************************************************************************)
(* The rate limiter of the API (internal/api/middleware/ratelimit.go): one *)
(* token bucket per owner, API key or address, and one mutex.  A request   *)
(* reads the clock before it takes the mutex, so readings reach a bucket   *)
(* out of order.  The clock counts in units in which a bucket gains Rate   *)
(* tokens.                                                                 *)
(***************************************************************************)
EXTENDS Integers, SequencesExt

CONSTANTS
  Requesters,      \* requests under way at a time
  Headers,         \* the sets of headers that requests come with
  Rate, Burst,     \* tokens gained per unit, and at most
  BucketTTL,       \* a bucket unseen for longer is dropped
  CleanupInterval, \* units between two clean-ups
  MaxDelay,        \* bound on the units between a reading and the mutex
  MaxClock         \* bound on the clock

\* Nothing relates the sizes to each other (ratelimit.go:63-94, config.go:506-517):
\* a bucket may be dropped before it has filled up again.
ASSUME RateAssumption ==
  {Rate, Burst, CleanupInterval} \subseteq Nat \ {0} /\ {BucketTTL, MaxDelay} \subseteq Nat

VARIABLES
  clock,       \* the time, from 1 on
  keyBy,       \* what requests are counted by
  buckets,     \* the buckets by key
  lastCleanup, \* time of the last clean-up, 0 before the first
  asked,       \* the request of each requester
  reading,     \* its reading of the clock, 0 when there is no request
  window       \* history: from some request let through on, how many of its key
               \* were, and how often its key got a new bucket

limiterVars == <<clock, keyBy, buckets, lastCleanup, asked, reading, window>>

NoWindow == [key |-> "none", from |-> 0, count |-> 0, renewed |-> 0]

LimiterInit ==
  /\ clock = 1 /\ keyBy \in {"owner", "api_key", "ip"}
  /\ buckets = <<>> /\ lastCleanup = 0
  /\ asked = [q \in Requesters |-> {}] /\ reading = [q \in Requesters |-> 0]
  /\ window = NoWindow

-----------------------------------------------------------------------------
\* The first address of X-Forwarded-For, X-Real-IP, or the peer's address.
ClientIP(h) ==
  IF "X-Forwarded-For" \in h THEN "forwarded" ELSE IF "X-Real-IP" \in h THEN "real" ELSE "remote"

\* key: what a request with the headers h is counted under.
Key(h) ==
  IF keyBy = "owner" /\ "X-User-ID" \in h THEN "owner"
  ELSE IF keyBy # "ip" /\ "X-API-Key" \in h THEN "api_key"
  ELSE ClientIP(h)

\* cleanupExpiredLocked: the buckets that stay, and the time of the clean-up.
CleanupDue(now) == lastCleanup = 0 \/ now - lastCleanup >= CleanupInterval

Kept(now) ==
  IF CleanupDue(now) THEN {k \in DOMAIN buckets : now - buckets[k].lastSeen <= BucketTTL}
                     ELSE DOMAIN buckets

FullBucket(now) == [tokens |-> Burst, lastRefill |-> now, lastSeen |-> now]

\* Faulty variant of Refilled: a late reading sets the bucket back.
RefilledBackwards(b, now) ==
  LET elapsed == now - b.lastRefill
      gained == IF elapsed > 0 THEN b.tokens + elapsed * Rate ELSE b.tokens IN
  [tokens |-> IF gained < Burst THEN gained ELSE Burst, lastRefill |-> now, lastSeen |-> now]

\* The bucket with what it has gained.  A late reading gains nothing.
Refilled(b, now) ==
  LET elapsed == now - b.lastRefill
      gained == b.tokens + elapsed * Rate IN
  IF elapsed > 0
    THEN [tokens |-> IF gained < Burst THEN gained ELSE Burst, lastRefill |-> now, lastSeen |-> now]
    ELSE [b EXCEPT !.lastSeen = now]

ReadClock(q, h) ==
  /\ reading[q] = 0
  /\ asked' = [asked EXCEPT ![q] = h]
  /\ reading' = [reading EXCEPT ![q] = clock]
  /\ UNCHANGED <<clock, keyBy, buckets, lastCleanup, window>>

\* allow: everything that happens under the mutex.
Allow(q) ==
  LET now == reading[q]
      k == Key(asked[q])
      kept == Kept(now)
      b == Refilled(IF k \in kept THEN buckets[k] ELSE FullBucket(now), now)
      passes == b.tokens >= 1 IN
  /\ now # 0
  /\ lastCleanup' = IF CleanupDue(now) THEN now ELSE lastCleanup
  /\ buckets' = [j \in kept \cup {k} |->
       IF j # k THEN buckets[j] ELSE IF passes THEN [b EXCEPT !.tokens = @ - 1] ELSE b]
  /\ IF window.key = k
       THEN window' = [window EXCEPT !.count = @ + (IF passes THEN 1 ELSE 0),
                                     !.renewed = @ + (IF k \in kept THEN 0 ELSE 1)]
       ELSE window' \in {window} \cup
              IF passes /\ window = NoWindow
                THEN {[key |-> k, from |-> now, count |-> 1, renewed |-> 0]} ELSE {}
  /\ asked' = [asked EXCEPT ![q] = {}] /\ reading' = [reading EXCEPT ![q] = 0]
  /\ UNCHANGED <<clock, keyBy>>

\* A requester takes the mutex at most MaxDelay units after its reading.
Pass ==
  /\ clock < MaxClock
  /\ \A q \in Requesters : reading[q] # 0 => clock - reading[q] < MaxDelay
  /\ clock' = clock + 1
  /\ UNCHANGED <<keyBy, buckets, lastCleanup, asked, reading, window>>

LimiterNext == Pass \/ \E q \in Requesters : Allow(q) \/ \E h \in Headers : ReadClock(q, h)

-----------------------------------------------------------------------------
\* The most that a new bucket has over what the dropped one would have gained: it
\* was last seen more than BucketTTL ago, between two readings late by MaxDelay.
Gift ==
  LET lacking == Burst - Rate * (BucketTTL + 1 - 2 * MaxDelay) IN IF lacking > 0 THEN lacking ELSE 0

(* What a rate limit is for: from the reading of any request let through   *)
(* on, no key has more than its burst and what the rate gives for the time *)
(* that has passed, however readings overtake each other.  A bucket that   *)
(* is dropped and made again adds nothing where it had the time to fill up *)
(* (as with the default of 15 minutes), and otherwise no more than it      *)
(* still lacked (ratelimit.go:129-160, 181-195).                           *)
RateBound == window.count <= Burst + Gift * window.renewed + Rate * (clock - window.from)
=============================================================================
