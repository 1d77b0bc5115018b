--------------------------- MODULE ApiServer_proofs ---------------------------
(* Proofs about the parts of the API server, for any clients, keys, times  *)
(* and bounds.  Each part has an inductive invariant of its own.           *)
EXTENDS ApiServer, TLAPS

-----------------------------------------------------------------------------
(* Worker tokens.                                                          *)

TokenClocks ==
  /\ now \in Nat /\ since \in 0 .. now
  /\ offset \in [Processes -> 0 .. Skew]

\* The keys in the file, and those that a process may have read, in each phase
\* of the rotation.
KeysOf(c) == <<c.signing, c.accepted>>
OldOnly == <<"old", {}>>
OldToo == <<"new", {"old"}>>
NewOnly == <<"new", {}>>

Rotated ==
  \/ /\ phase = "before" /\ KeysOf(file) = OldOnly
     /\ \A p \in Processes : KeysOf(loaded[p]) = OldOnly
  \/ /\ phase = "both" /\ KeysOf(file) = OldToo
     /\ \A p \in Processes : KeysOf(loaded[p]) \in {OldOnly, OldToo}
  \/ /\ phase = "after" /\ KeysOf(file) = NewOnly
     /\ \A p \in Processes : KeysOf(loaded[p]) \in {OldToo, NewOnly}

AllSignNew == \A p \in Processes : loaded[p].signing = "new"

\* A token for a process: by whatever clock it was minted, it has its planned
\* life, and one signed with the old key is older than the last restart with the
\* new keys, and expired by the time that the old key is taken out.
Sound(t, to) ==
  /\ t.key \in {"old", "new"} /\ t.aud = Audience[to]
  /\ t.iat \in Nat /\ t.iat <= now + Skew /\ t.exp = t.iat + TTL
  /\ t.key = "old" /\ AllSignNew => t.iat <= since + Skew
  /\ t.key = "old" /\ phase = "after" => t.exp <= now

AllSound ==
  /\ \A m \in sent : m.to \in Processes /\ Sound(m.token, m.to)
  /\ token # NoTokenYet => Sound(token, "cp")

TokensTyped ==
  /\ loaded \in [Processes -> [signing : {"old", "new"}, accepted : SUBSET {"old"}, revoked : SUBSET Int]]
  /\ file \in [signing : {"old", "new"}, accepted : SUBSET {"old"}, revoked : SUBSET Int]

TokensInv == TokensTyped /\ TokenClocks /\ Rotated /\ AllSound /\ TokensHonoured

\* The initial state satisfies the invariant.
LEMMA InitTokens == ASSUME TokensInit PROVE TokensInv
<1> USE TokensAssumption
<1>1. TokensTyped
  BY DEF TokensInit, TokensTyped, Before
<1>2. TokenClocks
  BY DEF TokensInit, TokenClocks
<1>3. Rotated
  BY DEF TokensInit, Rotated, KeysOf, OldOnly, Before
<1>4. AllSound /\ TokensHonoured
  BY DEF TokensInit, AllSound, TokensHonoured
<1> QED BY <1>1, <1>2, <1>3, <1>4 DEF TokensInv

\* Every step keeps the clocks and the types.
LEMMA StepClocks ==
  ASSUME TokensInv, [TokensNext]_tokenVars PROVE (TokensTyped /\ TokenClocks)'
<1> USE TokensAssumption DEF TokensInv, TokensTyped, TokenClocks
<1>1. CASE Tick
  BY <1>1 DEF Tick
<1>2. ASSUME NEW p \in Processes, Reload(p) PROVE (TokensTyped /\ TokenClocks)'
  BY <1>2 DEF Reload
<1>3. CASE BringIn \/ TakeOut
  BY <1>3 DEF BringIn, TakeOut
<1>4. ASSUME NEW id \in 1 .. MaxMinted, Revoke(id) PROVE (TokensTyped /\ TokenClocks)'
  BY <1>4 DEF Revoke
<1>5. CASE UNCHANGED <<now, offset, loaded, file, since>>
  BY <1>5
<1>6. CASE CallWorker \/ SendLocal \/ SendIssued \/ WriteTokenFile \/ SendFromFile
  BY <1>5, <1>6 DEF CallWorker, SendLocal, SendIssued, WriteTokenFile, SendFromFile
<1>7. ASSUME NEW m \in sent, Check(m) PROVE (TokensTyped /\ TokenClocks)'
  BY <1>5, <1>7 DEF Check
<1>8. CASE UNCHANGED tokenVars
  BY <1>5, <1>8 DEF tokenVars
<1> QED BY <1>1, <1>2, <1>3, <1>4, <1>6, <1>7, <1>8 DEF TokensNext

\* Every step keeps the keys to the phase of the rotation.
LEMMA StepRotated == ASSUME TokensInv, [TokensNext]_tokenVars PROVE Rotated'
<1> USE DEF TokensInv, TokensTyped, KeysOf, OldOnly, OldToo, NewOnly, Rotated
<1>1. ASSUME NEW p \in Processes, Reload(p) PROVE Rotated'
  BY <1>1 DEF Reload
<1>2. CASE BringIn
  BY <1>2 DEF BringIn
<1>3. CASE TakeOut
  BY <1>3 DEF TakeOut, InForce
<1>4. ASSUME NEW id \in 1 .. MaxMinted, Revoke(id) PROVE Rotated'
  BY <1>4 DEF Revoke
<1>5. CASE UNCHANGED <<loaded, file, phase>>
  BY <1>5
<1>6. CASE CallWorker \/ SendLocal \/ SendIssued \/ WriteTokenFile \/ SendFromFile \/ Tick
  BY <1>5, <1>6 DEF CallWorker, SendLocal, SendIssued, WriteTokenFile, SendFromFile, Tick
<1>7. ASSUME NEW m \in sent, Check(m) PROVE Rotated'
  BY <1>5, <1>7 DEF Check
<1>8. CASE UNCHANGED tokenVars
  BY <1>5, <1>8 DEF tokenVars
<1> QED BY <1>1, <1>2, <1>3, <1>4, <1>6, <1>7, <1>8 DEF TokensNext

\* A sound token stays sound through every step.
LEMMA SoundKept ==
  ASSUME TokensInv, [TokensNext]_tokenVars, NEW t, NEW to, Sound(t, to)
  PROVE  Sound(t, to)'
<1> USE TokensAssumption DEF TokensInv, TokensTyped, TokenClocks, Sound, AllSignNew
<1>1. CASE Tick
  BY <1>1 DEF Tick
<1>2. ASSUME NEW p \in Processes, Reload(p) PROVE Sound(t, to)'
  BY <1>2 DEF Reload
<1>3. CASE BringIn
  BY <1>3 DEF BringIn
<1>4. CASE TakeOut
  <2>1. AllSignNew
    BY <1>4 DEF TakeOut, InForce, Rotated, KeysOf, OldOnly, OldToo, NewOnly
  <2> QED BY <1>4, <2>1 DEF TakeOut
<1>5. ASSUME NEW id \in 1 .. MaxMinted, Revoke(id) PROVE Sound(t, to)'
  BY <1>5 DEF Revoke
<1>6. CASE UNCHANGED <<now, loaded, since, phase>>
  BY <1>6
<1>7. CASE CallWorker \/ SendLocal \/ SendIssued \/ WriteTokenFile \/ SendFromFile
  BY <1>6, <1>7 DEF CallWorker, SendLocal, SendIssued, WriteTokenFile, SendFromFile
<1>8. ASSUME NEW m \in sent, Check(m) PROVE Sound(t, to)'
  BY <1>6, <1>8 DEF Check
<1>9. CASE UNCHANGED tokenVars
  BY <1>6, <1>9 DEF tokenVars
<1> QED BY <1>1, <1>2, <1>3, <1>4, <1>5, <1>7, <1>8, <1>9 DEF TokensNext

\* What a process mints with the key that it signs with is sound, and so is what
\* the operator mints with the key in the file.
LEMMA MintedSound ==
  ASSUME TokensInv, NEW key, NEW to \in Processes, NEW when \in now .. now + Skew,
         \/ \E p \in Processes : key = loaded[p].signing
         \/ key = file.signing
  PROVE  Sound(Signed(key, Audience[to], when, TTL), to)
<1> USE TokensAssumption DEF TokensInv, TokensTyped, TokenClocks
<1>1. key \in {"old", "new"}
  OBVIOUS
<1>2. key = "old" => ~AllSignNew /\ phase # "after"
  BY DEF AllSignNew, Rotated, KeysOf, OldOnly, OldToo, NewOnly, Processes
<1> QED BY <1>1, <1>2 DEF Sound, Signed

\* Every token that a step adds is sound.
LEMMA StepSound == ASSUME TokensInv, [TokensNext]_tokenVars PROVE AllSound'
<1> USE DEF AllSound
<1>0. AllSound /\ {"cp", "worker"} \subseteq Processes
  BY DEF TokensInv, Processes
<1>1. \A p \in Processes : Clock(p) \in now .. now + Skew
  BY TokensAssumption DEF TokensInv, TokenClocks, Clock
<1>2. CASE sent' \subseteq sent /\ token' = token
  BY <1>0, <1>2, SoundKept
<1>3. CASE CallWorker
  <2>1. Sound(Signed(loaded["cp"].signing, Audience["worker"], Clock("cp"), TTL), "worker")
    BY <1>0, <1>1, MintedSound
  <2> QED BY <1>0, <1>3, <2>1, SoundKept DEF CallWorker, SendTo
<1>4. CASE SendLocal
  <2>1. Sound(Signed(loaded["worker"].signing, Audience["cp"], Clock("worker"), TTL), "cp")
    BY <1>0, <1>1, MintedSound
  <2> QED BY <1>0, <1>4, <2>1, SoundKept DEF SendLocal, SendTo
<1>5. CASE SendIssued
  <2>1. Sound(IssueToken, "cp")
    BY <1>0, <1>1, MintedSound DEF IssueToken
  <2> QED BY <1>0, <1>5, <2>1, SoundKept DEF SendIssued, SendTo
<1>6. CASE WriteTokenFile
  <2>1. now \in now .. now + Skew
    BY TokensAssumption DEF TokensInv, TokenClocks
  <2>2. Sound(Signed(file.signing, Audience["cp"], now, TTL), "cp")
    BY <1>0, <2>1, MintedSound
  <2> QED BY <1>0, <1>6, <2>2, SoundKept DEF WriteTokenFile
<1>7. CASE SendFromFile
  BY <1>0, <1>7, SoundKept DEF SendFromFile, SendTo
<1>8. ASSUME NEW m \in sent, Check(m) PROVE AllSound'
  BY <1>2, <1>8 DEF Check
<1>9. CASE Tick \/ BringIn \/ TakeOut \/ UNCHANGED tokenVars
  BY <1>2, <1>9 DEF Tick, BringIn, TakeOut, tokenVars
<1>10. ASSUME NEW p \in Processes, Reload(p) PROVE AllSound'
  BY <1>2, <1>10 DEF Reload
<1>11. ASSUME NEW id \in 1 .. MaxMinted, Revoke(id) PROVE AllSound'
  BY <1>2, <1>11 DEF Revoke
<1> QED BY <1>3, <1>4, <1>5, <1>6, <1>7, <1>8, <1>9, <1>10, <1>11 DEF TokensNext

\* A process verifies a sound token, unless it is too late for that or the
\* process knows the old key only.
LEMMA SoundVerified ==
  ASSUME TokensInv, NEW t, NEW p \in Processes, Sound(t, p)
  PROVE  \/ VerifyWithAnyKey(loaded[p], t, Audience[p], Clock(p))
         \/ Clock(p) >= t.exp
         \/ t.key = "new" /\ loaded[p].signing = "old"
<1> USE TokensAssumption DEF TokensInv, TokensTyped, TokenClocks, Sound
<1>1. /\ now <= Clock(p) /\ Clock(p) \in Nat /\ t.iat <= Clock(p) + Skew
      /\ t.exp \in Nat /\ t.exp - t.iat <= MaxTTL
  BY DEF Clock
<1>2. CASE t.key \in SigningKeys(loaded[p])
  BY <1>1, <1>2 DEF VerifyWithAnyKey, VerifiesFor
<1>3. CASE t.key \notin SigningKeys(loaded[p])
  <2>1. CASE t.key = "new"
    BY <1>3, <2>1 DEF SigningKeys
  <2>2. CASE t.key = "old"
    <3>1. phase = "after"
      BY <1>3, <2>2 DEF SigningKeys, Rotated, KeysOf, OldOnly, OldToo, NewOnly
    <3> QED BY <1>1, <2>2, <3>1
  <2> QED BY <2>1, <2>2
<1> QED BY <1>2, <1>3

\* What a request is told is as the property says.
LEMMA StepHonoured == ASSUME TokensInv, [TokensNext]_tokenVars PROVE TokensHonoured'
<1>1. CASE verdict' = NoVerdict
  BY <1>1 DEF TokensHonoured
<1>2. ASSUME NEW m \in sent, Check(m) PROVE TokensHonoured'
  <2> DEFINE t == m.token
             p == m.to
             accepted == IF p = "cp" THEN ControlPlaneAccepts(t) ELSE WorkerAccepts(t)
  <2>1. p \in Processes /\ Sound(t, p)
    BY DEF TokensInv, AllSound
  <2>2. verdict' = [ok |-> accepted, to |-> p, token |-> t] /\ UNCHANGED <<now, offset, loaded>>
    BY <1>2 DEF Check
  <2>3. accepted = CommandAccepts(loaded[p], t, Audience[p], Clock(p))
    BY <2>1 DEF Processes, ControlPlaneAccepts, WorkerAccepts, CommandAccepts, VerifyWithAnyKey
  <2>4. \/ accepted \/ Clock(p) >= t.exp \/ Revoked(loaded[p], t)
        \/ (t.key = "new" /\ loaded[p].signing = "old")
    BY <2>1, <2>3, SoundVerified DEF CommandAccepts
  <2>5. Clock(p)' = Clock(p) /\ Revoked(loaded[p], t)' = Revoked(loaded[p], t)
    BY <2>2 DEF Clock, Revoked
  <2> QED BY <2>2, <2>3, <2>4, <2>5 DEF TokensHonoured, CommandAccepts, VerifyWithAnyKey, Revoked
<1>3. CASE \/ CallWorker \/ SendLocal \/ SendIssued \/ WriteTokenFile \/ SendFromFile
           \/ BringIn \/ TakeOut \/ Tick
  BY <1>1, <1>3 DEF CallWorker, SendLocal, SendIssued, WriteTokenFile, SendFromFile, Minted,
                    BringIn, TakeOut, Tick
<1>4. ASSUME NEW p \in Processes, Reload(p) PROVE TokensHonoured'
  BY <1>1, <1>4 DEF Reload
<1>5. ASSUME NEW id \in 1 .. MaxMinted, Revoke(id) PROVE TokensHonoured'
  BY <1>1, <1>5 DEF Revoke
<1>6. CASE UNCHANGED tokenVars
  BY <1>6 DEF tokenVars, TokensInv, TokensHonoured, Clock, Revoked, CommandAccepts,
              VerifyWithAnyKey, VerifiesFor
<1> QED BY <1>2, <1>3, <1>4, <1>5, <1>6 DEF TokensNext

\* With clocks that differ by no more than the skew, the rotation of the signing
\* key refuses no token before its time.
THEOREM TokensCorrect == ServerSpec => []TokensHonoured
<1>1. ServerInit => TokensInv
  BY InitTokens DEF ServerInit
<1>2. TokensInv /\ [ServerNext]_serverVars => TokensInv'
  <2> SUFFICES ASSUME TokensInv, [ServerNext]_serverVars PROVE TokensInv'
    OBVIOUS
  <2>1. [TokensNext]_tokenVars
    BY DEF ServerNext, serverVars
  <2> QED BY <2>1, StepClocks, StepRotated, StepSound, StepHonoured DEF TokensInv
<1>3. TokensInv => TokensHonoured
  BY DEF TokensInv
<1> QED BY <1>1, <1>2, <1>3, PTL DEF ServerSpec

-----------------------------------------------------------------------------
(* The rate limiter.                                                       *)

BucketKeys == {"owner", "api_key", "forwarded", "real", "remote"}
Bucket == [tokens : 0 .. Burst, lastRefill : Nat, lastSeen : Nat]

LimiterTyped ==
  /\ clock \in Nat \ {0}
  /\ reading \in [Requesters -> Nat]
  /\ DOMAIN buckets \subseteq BucketKeys /\ buckets \in [DOMAIN buckets -> Bucket]
  /\ window \in [key : BucketKeys \cup {"none"}, from : Nat, count : Nat, renewed : Nat]
  /\ window.key = "none" => window = NoWindow

\* A reading is late by MaxDelay at most, and so is that of the last request in
\* a bucket against the last that has filled it.
Late ==
  /\ \A q \in Requesters : reading[q] # 0 => reading[q] \in clock - MaxDelay .. clock
  /\ \A k \in DOMAIN buckets :
       /\ buckets[k].lastRefill <= clock
       /\ buckets[k].lastRefill <= buckets[k].lastSeen + MaxDelay

\* What can be let through at a reading of the clock, a full bucket apart.
Earned(at) == Rate * (at - window.from)

\* What the buckets made anew have given, the next one included or not.
Given == Gift * window.renewed
GivenNext == Gift * (window.renewed + 1)

\* What was let through and what is left in the bucket is never more than the
\* burst, what the bucket has gained and what new buckets have given.  Without a
\* bucket, what was let through is covered without a burst, by every reading that
\* the next bucket may be filled at.
Credit ==
  IF window.key \in DOMAIN buckets
    THEN LET b == buckets[window.key] IN
         window.count + b.tokens <= Burst + Given + Earned(b.lastRefill)
    ELSE /\ RateBound
         /\ window.count <= GivenNext + Earned(clock)
         /\ \A q \in Requesters : reading[q] # 0 => window.count <= GivenNext + Earned(reading[q])

LimiterInv == LimiterTyped /\ Late /\ Credit

\* What is gained in two spans is gained in both together, and more time gains
\* no less.
LEMMA Gains ==
  ASSUME NEW a \in Int, NEW b \in Int
  PROVE  /\ Rate * a \in Int
         /\ Rate * (a + b) = Rate * a + Rate * b
         /\ a <= b => Rate * a <= Rate * b
<1>0. Rate \in Nat
  BY RateAssumption
<1>1. Rate * a \in Int /\ Rate * (a + b) = Rate * a + Rate * b
  BY <1>0
<1>2. ASSUME a <= b PROVE Rate * a <= Rate * b
  <2>1. PICK d \in Nat : b = a + d
    <3>1. b - a \in Nat /\ b = a + (b - a)
      BY <1>2
    <3> QED BY <3>1
  <2>2. Rate * d >= 0
    BY <1>0
  <2>3. Rate * b = Rate * a + Rate * d
    BY <1>0, <2>1
  <2>4. Rate * a \in Int /\ Rate * d \in Int
    BY <1>0
  <2> QED BY <2>2, <2>3, <2>4
<1> QED BY <1>1, <1>2

\* What is gained from a to c by way of b.
LEMMA GainsThrough ==
  ASSUME NEW a \in Int, NEW b \in Int, NEW c \in Int
  PROVE  Rate * (c - a) = Rate * (b - a) + Rate * (c - b)
<1>1. b - a \in Int /\ c - b \in Int /\ (b - a) + (c - b) = c - a
  OBVIOUS
<1> HIDE <1>1
<1>2. Rate * ((b - a) + (c - b)) = Rate * (b - a) + Rate * (c - b)
  BY <1>1, Gains
<1> QED BY <1>1, <1>2

\* The same in terms of what has been earned.
LEMMA EarnedFacts ==
  ASSUME window.from \in Nat, NEW a \in Int, NEW b \in Int
  PROVE  /\ Earned(a) \in Int /\ Rate * (b - a) \in Int
         /\ Earned(b) = Earned(a) + Rate * (b - a)
         /\ a <= b => Earned(a) <= Earned(b)
<1> DEFINE f == window.from
<1>1. a - f \in Int /\ b - f \in Int /\ b - a \in Int /\ f \in Int /\ (a <= b => a - f <= b - f)
  OBVIOUS
<1> HIDE DEF f
<1>2. Rate * (a - f) \in Int /\ Rate * (b - a) \in Int
  BY <1>1, Gains
<1>3. Rate * (b - f) = Rate * (a - f) + Rate * (b - a)
  BY <1>1, GainsThrough
<1>4. a <= b => Rate * (a - f) <= Rate * (b - f)
  BY <1>1, Gains
<1> QED BY <1>2, <1>3, <1>4 DEF Earned, f

\* A new bucket gives no less than nothing, and what the dropped one lacked.
LEMMA GiftFacts ==
  /\ Gift \in Nat
  /\ Burst - Rate * (BucketTTL + 1 - 2 * MaxDelay) <= Gift
<1> DEFINE lacking == Burst - Rate * (BucketTTL + 1 - 2 * MaxDelay)
<1>1. lacking \in Int
  <2>1. BucketTTL + 1 - 2 * MaxDelay \in Int /\ Burst \in Int
    BY RateAssumption
  <2>2. Rate * (BucketTTL + 1 - 2 * MaxDelay) \in Int
    BY <2>1, Gains
  <2> QED BY <2>1, <2>2
<1>2. Gift = IF lacking > 0 THEN lacking ELSE 0
  BY DEF Gift
<1> HIDE DEF lacking
<1>3. Gift \in Nat /\ lacking <= Gift
  BY <1>1, <1>2
<1> QED BY <1>3 DEF lacking

\* What is given grows by the gift with every new bucket.
LEMMA GivenFacts ==
  ASSUME window.renewed \in Nat
  PROVE  Given \in Nat /\ GivenNext \in Nat /\ GivenNext = Given + Gift
<1>1. Gift \in Nat
  BY GiftFacts
<1> QED BY <1>1 DEF Given, GivenNext

\* What a reading makes of a bucket.
LEMMA RefillFacts ==
  ASSUME NEW b \in Bucket, NEW T \in Nat
  PROVE  LET c == Refilled(b, T) IN
         /\ c \in Bucket /\ c.lastSeen = T
         /\ b.lastRefill <= c.lastRefill /\ T <= c.lastRefill /\ c.lastRefill \in {T, b.lastRefill}
         /\ c.tokens <= b.tokens + Rate * (c.lastRefill - b.lastRefill)
<1> DEFINE elapsed == T - b.lastRefill
           gained == b.tokens + elapsed * Rate
<1>0. Rate \in Nat /\ Burst \in Nat /\ elapsed \in Int
  BY RateAssumption DEF Bucket
<1>1. CASE elapsed > 0
  <2>1. elapsed * Rate = Rate * elapsed /\ Rate * elapsed \in Int /\ Rate * elapsed >= 0
    BY <1>0, <1>1
  <2>2. gained \in Nat /\ gained = b.tokens + Rate * elapsed
    BY <2>1 DEF Bucket
  <2>3. Refilled(b, T) = [tokens |-> IF gained < Burst THEN gained ELSE Burst,
                          lastRefill |-> T, lastSeen |-> T]
    BY <1>1 DEF Refilled
  <2> HIDE DEF gained
  <2>4. (IF gained < Burst THEN gained ELSE Burst) \in 0 .. Burst
    BY <1>0, <2>2
  <2>5. (IF gained < Burst THEN gained ELSE Burst) <= gained
    BY <1>0, <2>2
  <2> QED BY <1>0, <1>1, <2>2, <2>3, <2>4, <2>5 DEF Bucket
<1>2. CASE ~(elapsed > 0)
  <2>1. Refilled(b, T) = [b EXCEPT !.lastSeen = T]
    BY <1>2 DEF Refilled
  <2>2. Rate * (b.lastRefill - b.lastRefill) = 0
    BY <1>0 DEF Bucket
  <2> QED BY <1>0, <1>2, <2>1, <2>2 DEF Bucket
<1> QED BY <1>1, <1>2

\* The initial state satisfies the invariant.
LEMMA InitLimiter == ASSUME LimiterInit PROVE LimiterInv
<1>1. LimiterTyped
  BY DEF LimiterInit, LimiterTyped, NoWindow
<1>2. Late
  BY DEF LimiterInit, Late
<1>3. Earned(clock) = Rate /\ Rate \in Nat
  BY RateAssumption DEF LimiterInit, Earned, NoWindow
<1>4. GivenNext \in Nat /\ window.count = 0 /\ window.key \notin DOMAIN buckets
  BY GivenFacts DEF LimiterInit, NoWindow
<1>5. RateBound
  <2>1. Gift * window.renewed = 0 /\ Burst \in Nat
    BY GiftFacts, RateAssumption DEF LimiterInit, NoWindow
  <2> QED BY <1>3, <1>4, <2>1 DEF RateBound, Earned
<1>6. Credit
  BY <1>3, <1>4, <1>5 DEF LimiterInit, Credit
<1> QED BY <1>1, <1>2, <1>6 DEF LimiterInv

\* What the invariant says of the requests let through.
LEMMA CreditBounds == ASSUME LimiterInv PROVE RateBound
<1> USE RateAssumption
<1>1. /\ clock \in Nat /\ window.from \in Nat /\ window.count \in Nat /\ window.renewed \in Nat
      /\ Burst \in Nat
  BY DEF LimiterInv, LimiterTyped
<1>2. Earned(clock) \in Int
  BY <1>1, EarnedFacts
<1>3. Given \in Nat /\ GivenNext = Given + Gift /\ Gift \in Nat
  BY <1>1, GivenFacts, GiftFacts
<1>4. CASE window.key \in DOMAIN buckets
  <2> DEFINE b == buckets[window.key]
  <2>1. /\ b \in Bucket /\ b.lastRefill <= clock
        /\ window.count + b.tokens <= Burst + Given + Earned(b.lastRefill)
    BY <1>4 DEF LimiterInv, LimiterTyped, Late, Credit
  <2>2. Earned(b.lastRefill) \in Int /\ Earned(b.lastRefill) <= Earned(clock)
    <3>1. b.lastRefill \in Int /\ clock \in Int
      BY <1>1, <2>1 DEF Bucket
    <3> QED BY <1>1, <2>1, <3>1, EarnedFacts
  <2>3. window.count <= Burst + Given + Earned(clock)
    BY <1>1, <1>2, <1>3, <2>1, <2>2 DEF Bucket
  <2> QED BY <2>3 DEF RateBound, Earned, Given
<1>5. CASE window.key \notin DOMAIN buckets
  BY <1>5 DEF LimiterInv, Credit
<1> QED BY <1>4, <1>5

\* A bucket is dropped so late that whatever was let through is covered by what
\* is gained without it, by every reading that has yet to reach the mutex, and
\* the gift of the next one.
LEMMA DroppedLate ==
  ASSUME LimiterInv, NEW T \in Nat, T <= clock, NEW k \in DOMAIN buckets \ Kept(T), window.key = k,
         NEW r \in Nat, clock - MaxDelay <= r
  PROVE  window.count <= GivenNext + Earned(r)
<1> DEFINE b == buckets[k]
           left == BucketTTL + 1 - 2 * MaxDelay
<1> USE RateAssumption
<1>1. /\ b \in Bucket /\ window.from \in Nat /\ window.count \in Nat /\ window.renewed \in Nat
      /\ clock \in Nat
  BY DEF LimiterInv, LimiterTyped
<1>2. T - b.lastSeen > BucketTTL
  BY <1>1 DEF Kept, Bucket
<1>3. b.lastRefill <= b.lastSeen + MaxDelay
  BY DEF LimiterInv, Late
<1>4. left \in Int /\ r - b.lastRefill \in Int /\ left <= r - b.lastRefill
  BY <1>1, <1>2, <1>3 DEF Bucket
<1>5. Burst <= Gift + Rate * (r - b.lastRefill) /\ Gift \in Nat
  <2>1. Rate * left <= Rate * (r - b.lastRefill)
    BY <1>4, Gains
  <2>2. Burst - Rate * left <= Gift /\ Gift \in Nat
    BY GiftFacts
  <2>3. Rate * left \in Int /\ Rate * (r - b.lastRefill) \in Int
    BY <1>4, Gains
  <2> HIDE DEF left, b
  <2> QED BY <2>1, <2>2, <2>3
<1>6. window.count + b.tokens <= Burst + Given + Earned(b.lastRefill)
  BY DEF LimiterInv, Credit
<1>7. /\ Earned(b.lastRefill) \in Int /\ Rate * (r - b.lastRefill) \in Int
      /\ Earned(r) = Earned(b.lastRefill) + Rate * (r - b.lastRefill)
  <2>1. b.lastRefill \in Int /\ r \in Int
    BY <1>1 DEF Bucket
  <2> QED BY <1>1, <2>1, EarnedFacts
<1>8. Given \in Nat /\ GivenNext = Given + Gift
  BY <1>1, GivenFacts
<1>9. b.tokens \in Nat /\ Burst \in Nat
  BY <1>1 DEF Bucket
<1> HIDE DEF b
<1> QED BY <1>1, <1>5, <1>6, <1>7, <1>8, <1>9

\* The step under the mutex, with what it makes of its bucket.
LEMMA StepAllow == ASSUME LimiterInv, NEW q \in Requesters, Allow(q) PROVE LimiterInv'
<1> DEFINE T == reading[q]
           k == Key(asked[q])
           kept == Kept(T)
           b0 == IF k \in kept THEN buckets[k] ELSE FullBucket(T)
           b == Refilled(b0, T)
           passes == b.tokens >= 1
           n == IF passes THEN [b EXCEPT !.tokens = @ - 1] ELSE b
           new == IF k \in kept THEN 0 ELSE 1
<1> USE RateAssumption
<1>1. /\ k \in BucketKeys
      /\ T \in Nat \ {0} /\ T <= clock /\ clock <= T + MaxDelay /\ clock \in Nat
      /\ kept \subseteq DOMAIN buckets
      /\ window.from \in Nat /\ window.count \in Nat /\ window.renewed \in Nat
  <2>1. k \in BucketKeys
    BY DEF LimiterInv, LimiterTyped, Key, ClientIP, BucketKeys
  <2>2. T \in Nat /\ clock \in Nat /\ T # 0
    BY DEF LimiterInv, LimiterTyped, Allow
  <2>3. T <= clock /\ clock <= T + MaxDelay
    BY <2>2 DEF LimiterInv, Late
  <2>4. kept \subseteq DOMAIN buckets
    BY DEF Kept
  <2>5. window.from \in Nat /\ window.count \in Nat /\ window.renewed \in Nat
    BY DEF LimiterInv, LimiterTyped
  <2> HIDE DEF T, k, kept
  <2> QED BY <2>1, <2>2, <2>3, <2>4, <2>5
<1>2. b0 \in Bucket /\ b0.lastRefill <= clock /\ (k \notin kept => b0.lastRefill = T /\ b0.tokens = Burst)
  BY <1>1 DEF LimiterInv, LimiterTyped, Late, FullBucket, Bucket
<1>3. /\ b \in Bucket /\ b.lastSeen = T /\ b.lastRefill <= clock
      /\ b0.lastRefill <= b.lastRefill /\ T <= b.lastRefill /\ b.lastRefill \in {T, b0.lastRefill}
      /\ b.tokens <= b0.tokens + Rate * (b.lastRefill - b0.lastRefill)
  <2> HIDE DEF b0
  <2> QED BY <1>1, <1>2, RefillFacts
<1>4. /\ n \in Bucket /\ n.lastSeen = T /\ n.lastRefill = b.lastRefill
      /\ n.tokens = b.tokens - (IF passes THEN 1 ELSE 0)
  <2> HIDE DEF b
  <2> QED BY <1>3 DEF Bucket
<1>5. /\ buckets' = [j \in kept \cup {k} |-> IF j # k THEN buckets[j] ELSE n]
      /\ reading' = [reading EXCEPT ![q] = 0] /\ clock' = clock
  BY DEF Allow
<1>6. \/ /\ window.key = k
         /\ window' = [window EXCEPT !.count = @ + (IF passes THEN 1 ELSE 0), !.renewed = @ + new]
      \/ /\ window.key # k /\ window' = window
      \/ /\ window.key # k /\ passes /\ window = NoWindow
         /\ window' = [key |-> k, from |-> T, count |-> 1, renewed |-> 0]
  BY DEF Allow
<1>16. /\ Given \in Nat /\ GivenNext = Given + Gift /\ Gift \in Nat
      /\ new \in {0, 1} /\ (new = 0 <=> k \in kept)
      /\ Gift * (window.renewed + new) = IF new = 0 THEN Given ELSE GivenNext
  <2>1. Given \in Nat /\ GivenNext = Given + Gift /\ Gift \in Nat
    BY <1>1, GivenFacts, GiftFacts
  <2>2. new \in {0, 1} /\ (new = 0 <=> k \in kept)
    OBVIOUS
  <2> HIDE DEF new, kept, k
  <2>3. ASSUME new = 0 PROVE Gift * (window.renewed + new) = Given
    <3>1. window.renewed + new = window.renewed
      BY <1>1, <2>3
    <3> QED BY <3>1, Zenon DEF Given
  <2>4. ASSUME new = 1 PROVE Gift * (window.renewed + new) = GivenNext
    BY <2>4, Zenon DEF GivenNext
  <2> QED BY <2>1, <2>2, <2>3, <2>4
<1> HIDE DEF kept, b0, b, n, k, new
<1>7. DOMAIN buckets' = kept \cup {k} /\ buckets'[k] = n /\ \A j \in kept \ {k} : buckets'[j] = buckets[j]
  BY <1>5
<1>8. LimiterTyped'
  <2>1. buckets' \in [DOMAIN buckets' -> Bucket] /\ DOMAIN buckets' \subseteq BucketKeys
    BY <1>1, <1>4, <1>5, <1>7 DEF LimiterInv, LimiterTyped
  <2>2. /\ window' \in [key : BucketKeys \cup {"none"}, from : Nat, count : Nat, renewed : Nat]
        /\ window'.key = "none" => window' = NoWindow
    <3>1. /\ window \in [key : BucketKeys \cup {"none"}, from : Nat, count : Nat, renewed : Nat]
          /\ window.key = "none" => window = NoWindow
      BY DEF LimiterInv, LimiterTyped
    <3> DEFINE one == IF passes THEN 1 ELSE 0
    <3>2. k # "none" /\ new \in Nat /\ one \in Nat
      BY <1>1, <1>16 DEF BucketKeys
    <3>3. CASE window.key = k /\ window' = [window EXCEPT !.count = @ + (IF passes THEN 1 ELSE 0),
                                                          !.renewed = @ + new]
      <4>1. /\ window' = [window EXCEPT !.count = window.count + one, !.renewed = window.renewed + new]
            /\ window.key = k
        BY <3>3
      <4> HIDE DEF one, passes
      <4>2. window.count + one \in Nat /\ window.renewed + new \in Nat
        BY <3>1, <3>2
      <4> QED BY <3>1, <3>2, <4>1, <4>2
    <3>4. CASE window' = window
      BY <3>1, <3>4
    <3>5. CASE window' = [key |-> k, from |-> T, count |-> 1, renewed |-> 0]
      BY <1>1, <3>2, <3>5
    <3> QED BY <1>6, <3>3, <3>4, <3>5
  <2>3. reading' \in [Requesters -> Nat] /\ clock' \in Nat \ {0}
    BY <1>5 DEF LimiterInv, LimiterTyped
  <2> QED BY <2>1, <2>2, <2>3 DEF LimiterTyped
<1>9. Late'
  <2>1. \A p \in Requesters : reading'[p] # 0 => reading'[p] \in clock' - MaxDelay .. clock'
    BY <1>5 DEF LimiterInv, LimiterTyped, Late
  <2>2. n.lastRefill <= clock /\ n.lastRefill <= n.lastSeen + MaxDelay
    BY <1>1, <1>3, <1>4 DEF Bucket
  <2>3. \A j \in DOMAIN buckets' :
          buckets'[j].lastRefill <= clock' /\ buckets'[j].lastRefill <= buckets'[j].lastSeen + MaxDelay
    BY <1>1, <1>5, <1>7, <2>2 DEF LimiterInv, Late
  <2> QED BY <2>1, <2>3 DEF Late
\* the request's own key has the window
<1>10. ASSUME window.key = k PROVE Credit'
  <2> DEFINE given == Gift * (window.renewed + new)
  <2>1. window.count + b.tokens <= Burst + given + Earned(b.lastRefill)
    <3>1. b.lastRefill \in Int /\ b0.lastRefill \in Int /\ b.tokens \in Nat /\ b0.tokens \in Nat
      BY <1>2, <1>3 DEF Bucket
    <3>2. /\ Earned(b.lastRefill) \in Int /\ Earned(b0.lastRefill) \in Int
          /\ Rate * (b.lastRefill - b0.lastRefill) \in Int
          /\ Earned(b.lastRefill) = Earned(b0.lastRefill) + Rate * (b.lastRefill - b0.lastRefill)
      BY <1>1, <3>1, EarnedFacts
    <3>3. window.count + b0.tokens <= Burst + given + Earned(b0.lastRefill)
      <4>1. CASE k \in kept
        <5>1. window.count + b0.tokens <= Burst + Given + Earned(b0.lastRefill)
          BY <1>1, <1>10, <4>1 DEF LimiterInv, Credit, b0
        <5> QED BY <1>16, <4>1, <5>1
      <4>2. CASE k \notin kept
        <5>1. window.count <= GivenNext + Earned(T)
          <6>1. CASE k \in DOMAIN buckets
            BY <1>1, <1>10, <4>2, <6>1, DroppedLate DEF kept
          <6>2. CASE k \notin DOMAIN buckets
            BY <1>1, <1>10, <6>2 DEF LimiterInv, Credit
          <6> QED BY <6>1, <6>2
        <5>2. given = GivenNext /\ b0.tokens = Burst /\ b0.lastRefill = T
          BY <1>2, <1>16, <4>2
        <5> HIDE DEF given
        <5> QED BY <1>1, <1>16, <3>2, <5>1, <5>2
      <4> QED BY <4>1, <4>2
    <3>4. given \in Nat /\ Burst \in Nat
      BY <1>16
    <3> HIDE DEF given
    <3> QED BY <1>1, <1>3, <3>1, <3>2, <3>3, <3>4
  <2>2. /\ window'.key = k /\ window'.from = window.from
        /\ window'.count = window.count + (IF passes THEN 1 ELSE 0)
        /\ window'.renewed = window.renewed + new
    BY <1>1, <1>6, <1>10 DEF LimiterInv, LimiterTyped
  <2>3. window'.count + n.tokens = window.count + b.tokens
    BY <1>1, <1>3, <1>4, <2>2 DEF Bucket
  <2>4. window'.count + n.tokens <= Burst + Gift * window'.renewed + Rate * (n.lastRefill - window'.from)
    <3> HIDE <1>6
    <3> QED BY <1>4, <2>1, <2>2, <2>3 DEF Earned
  <2> QED BY <1>7, <2>2, <2>4 DEF Credit, Earned, Given
\* the window begins with this request
<1>11. ASSUME passes, window = NoWindow,
              window' = [key |-> k, from |-> T, count |-> 1, renewed |-> 0]
       PROVE  Credit'
  <2>1. Rate * (n.lastRefill - T) \in Int /\ Rate * (n.lastRefill - T) >= 0
    <3>1. n.lastRefill - T \in Nat
      BY <1>1, <1>3, <1>4 DEF Bucket
    <3> QED BY <3>1
  <2>2. 1 + n.tokens <= Burst
    BY <1>3, <1>4, <1>11 DEF Bucket
  <2>3. Gift * 0 = 0
    BY <1>16
  <2>4. 1 + n.tokens <= Burst + Gift * 0 + Rate * (n.lastRefill - T)
    BY <1>4, <2>1, <2>2, <2>3 DEF Bucket
  <2> QED BY <1>7, <1>11, <2>4 DEF Credit, Earned, Given
\* the window is another key's
<1>12. ASSUME window' = window, window.key # k PROVE Credit'
  <2>1. CASE window.key \in kept
    BY <1>1, <1>7, <1>12, <2>1 DEF LimiterInv, Credit, Earned, Given
  <2>2. CASE window.key \notin kept
    <3>1. window'.key \notin DOMAIN buckets'
      BY <1>7, <1>12, <2>2
    <3>2. ASSUME NEW r \in Nat, r = clock \/ \E p \in Requesters : reading[p] # 0 /\ r = reading[p]
          PROVE  window.count <= GivenNext + Earned(r)
      <4>1. CASE window.key \notin DOMAIN buckets
        BY <3>2, <4>1 DEF LimiterInv, Credit
      <4>2. CASE window.key \in DOMAIN buckets
        <5>1. clock - MaxDelay <= r
          BY <1>1, <3>2 DEF LimiterInv, Late
        <5> QED BY <1>1, <2>2, <4>2, <5>1, DroppedLate DEF kept
      <4> QED BY <4>1, <4>2
    <3>3. window.count <= GivenNext + Earned(clock)
      BY <1>1, <3>2
    <3>4. \A p \in Requesters : reading[p] # 0 => window.count <= GivenNext + Earned(reading[p])
      BY <3>2 DEF LimiterInv, LimiterTyped
    <3>5. \A p \in Requesters : reading'[p] # 0 => reading'[p] = reading[p]
      BY <1>5 DEF LimiterInv, LimiterTyped
    <3>6. GivenNext' = GivenNext
      BY <1>12 DEF GivenNext
    <3>7. window'.count <= GivenNext' + Rate * (clock' - window'.from)
      BY <1>5, <1>12, <3>3, <3>6 DEF Earned
    <3>8. \A p \in Requesters : reading'[p] # 0 =>
            window'.count <= GivenNext' + Rate * (reading'[p] - window'.from)
      BY <1>12, <3>4, <3>5, <3>6 DEF Earned
    <3>9. RateBound'
      BY <1>5, <1>12, CreditBounds DEF RateBound
    <3> QED BY <3>1, <3>7, <3>8, <3>9 DEF Credit, Earned
  <2> QED BY <2>1, <2>2
<1>13. window.key = k \/ window.key # k
  OBVIOUS
<1>14. window = NoWindow => window.key # k
  BY <1>1 DEF NoWindow, BucketKeys
<1>15. Credit'
  BY <1>6, <1>10, <1>11, <1>12, <1>13
<1> QED BY <1>8, <1>9, <1>15 DEF LimiterInv

\* Every step keeps the invariant.
LEMMA StepLimiter == ASSUME LimiterInv, [LimiterNext]_limiterVars PROVE LimiterInv'
<1> USE RateAssumption
<1>1. CASE Pass
  <2>1. /\ clock' = clock + 1 /\ clock \in Nat
        /\ UNCHANGED <<buckets, reading, window>>
        /\ \A q \in Requesters : reading[q] # 0 => clock - reading[q] < MaxDelay
    BY <1>1 DEF Pass, LimiterInv, LimiterTyped
  <2>2. LimiterTyped'
    BY <2>1 DEF LimiterInv, LimiterTyped
  <2>3. Late'
    BY <2>1 DEF LimiterInv, LimiterTyped, Late, Bucket
  <2>4. Rate * (clock - window.from) <= Rate * (clock' - window.from)
    BY <2>1, Gains DEF LimiterInv, LimiterTyped
  <2>5. /\ Rate * (clock - window.from) \in Int /\ Rate * (clock' - window.from) \in Int
        /\ window.count \in Nat /\ window.renewed \in Nat
    BY <2>1, Gains DEF LimiterInv, LimiterTyped
  <2>6. GivenNext \in Nat /\ Given \in Nat /\ GivenNext' = GivenNext /\ Given' = Given
    BY <2>1, <2>5, GivenFacts DEF Given, GivenNext
  <2>9. RateBound'
    <3>1. RateBound
      BY CreditBounds
    <3>2. window.count <= Burst + Given + Rate * (clock - window.from)
      BY <3>1 DEF RateBound, Given
    <3>3. window'.count <= Burst + Given' + Rate * (clock' - window'.from)
      BY <2>1, <2>4, <2>5, <2>6, <3>2
    <3> QED BY <3>3 DEF RateBound, Given
  <2>7. window.count <= GivenNext + Rate * (clock - window.from) =>
          window'.count <= GivenNext' + Rate * (clock' - window'.from)
    BY <2>1, <2>4, <2>5, <2>6
  <2>8. Credit'
    BY <2>1, <2>6, <2>7, <2>9 DEF LimiterInv, Credit, Earned
  <2> QED BY <2>2, <2>3, <2>8 DEF LimiterInv
<1>2. ASSUME NEW q \in Requesters, NEW h \in Headers, ReadClock(q, h) PROVE LimiterInv'
  <2>1. /\ reading' = [reading EXCEPT ![q] = clock] /\ UNCHANGED <<clock, buckets, window>>
        /\ reading[q] = 0
    BY <1>2 DEF ReadClock
  <2>2. LimiterTyped'
    BY <2>1 DEF LimiterInv, LimiterTyped
  <2>3. Late'
    BY <2>1 DEF LimiterInv, LimiterTyped, Late
  <2>4. Credit'
    BY <2>1 DEF LimiterInv, LimiterTyped, Credit, Earned, Given, GivenNext, RateBound
  <2> QED BY <2>2, <2>3, <2>4 DEF LimiterInv
<1>3. CASE UNCHANGED limiterVars
  <2>1. UNCHANGED <<clock, buckets, reading, window>>
    BY <1>3 DEF limiterVars
  <2>2. LimiterTyped' /\ Late'
    BY <2>1 DEF LimiterInv, LimiterTyped, Late
  <2>3. Credit'
    BY <2>1 DEF LimiterInv, Credit, Earned, Given, GivenNext, RateBound
  <2> QED BY <2>2, <2>3 DEF LimiterInv
<1> QED BY <1>1, <1>2, <1>3, StepAllow DEF LimiterNext

\* From any request let through on, a key is let through no more often than its
\* burst and the rate allow, with late readings and dropped buckets.
THEOREM RateCorrect == ServerSpec => []RateBound
<1>1. ServerInit => LimiterInv
  BY InitLimiter DEF ServerInit
<1>2. LimiterInv /\ [ServerNext]_serverVars => LimiterInv'
  <2> SUFFICES ASSUME LimiterInv, [ServerNext]_serverVars PROVE LimiterInv'
    OBVIOUS
  <2>1. [LimiterNext]_limiterVars
    BY DEF ServerNext, serverVars
  <2> QED BY <2>1, StepLimiter
<1> QED BY <1>1, <1>2, CreditBounds, PTL DEF ServerSpec

-----------------------------------------------------------------------------
(* Requests, the keys of the identity provider, and the audit log.         *)

Stages == {"idle", "lookup", "fetch", "store", "handler", "audit", "prune"}

KeysTyped ==
  /\ time \in Nat /\ fetched \in 0 .. time
  /\ offered \subseteq Kids /\ cached \subseteq Kids /\ answer \in [Clients -> SUBSET Kids]
  /\ ended \in [Kids -> Nat]

RequestsTyped ==
  /\ stage \in [Clients -> Stages] /\ request \in [Clients -> Requests \cup {NoRequest}]
  /\ read \in [Clients -> Nat] /\ act \in [Clients -> Nat]
  /\ \A c \in Clients : read[c] <= time

\* The key was published at the time r or later.
PublishedSince(k, r) == ended[k] = 0 \/ ended[k] >= r

\* Keys that are offered have not been withdrawn, and those that were fetched
\* were still published at the reading that the fetch is marked with.
KeysDated ==
  /\ \A k \in Kids : ended[k] <= time
  /\ \A k \in offered : ended[k] = 0
  /\ \A k \in cached : PublishedSince(k, fetched)
  /\ \A c \in Clients : stage[c] = "store" => \A k \in answer[c] : PublishedSince(k, read[c])

\* Only requests with a token wait for keys.
TokensLookedUp ==
  \A c \in Clients :
    stage[c] \in {"lookup", "fetch", "store"} => request[c].token # NoToken /\ config.oidc = "jwks"

\* What an admin request that reaches its handler has shown, at its reading r.
Shown(q, r) ==
  IF q.token # NoToken /\ config.oidc # "none"
    THEN /\ "admins" \in q.token.groups
         /\ config.oidc = "jwks" =>
              q.token.kid \in Kids /\ (ended[q.token.kid] = 0 \/ ended[q.token.kid] > r - JwksTTL)
    ELSE \E i \in 1 .. 2 : q.keys[i] = IF config.adminKey THEN "admin" ELSE "api"

Entitled ==
  \A c \in Clients :
    AuthConfigured /\ stage[c] = "handler" /\ request[c].route = "admin" => Shown(request[c], read[c])

\* Records are of acts, and not older than those.
Dated ==
  /\ acted \in Seq(Nat) /\ \A i \in DOMAIN acted : acted[i] <= time
  /\ \A a \in audits : a.act \in DOMAIN acted /\ a.at \in Nat /\ a.at >= acted[a.act]
  /\ \A c \in Clients : stage[c] = "audit" => act[c] \in DOMAIN acted

ApiInv == KeysTyped /\ RequestsTyped /\ KeysDated /\ TokensLookedUp /\ Entitled /\ Dated /\ AuditKept

\* Only the role of an admin has the scope of the admin routes.
LEMMA AdminScope == ASSUME NEW role, "admin" \in Scopes(role) PROVE role = "admin"
BY DEF Scopes

\* An identity from a key is nobody's or that of a candidate whose key came.
LEMMA KeyHolders ==
  ASSUME NEW keys, NEW candidates
  PROVE  LET a == Authenticated(keys, candidates) IN
         /\ a.from # "token"
         /\ \/ a.role = "anonymous"
            \/ \E k \in candidates : a.role = k.role /\ (k.key = keys[1] \/ k.key = keys[2])
<1> DEFINE Holder(i) == {k \in candidates : k.key = keys[i]}
           found == IF Holder(1) # {} THEN Holder(1) ELSE Holder(2)
           chosen == CHOOSE k \in found : TRUE
<1>1. Authenticated(keys, candidates) =
        IF found = {} THEN Anonymous ELSE [from |-> "key", role |-> chosen.role]
  BY DEF Authenticated
<1>2. CASE found = {}
  BY <1>1, <1>2 DEF Anonymous
<1>3. CASE found # {}
  <2>1. chosen \in found
    BY <1>3
  <2>2. chosen \in candidates /\ (chosen.key = keys[1] \/ chosen.key = keys[2])
    BY <2>1
  <2> HIDE DEF chosen, found
  <2>3. Authenticated(keys, candidates) = [from |-> "key", role |-> chosen.role]
    BY <1>1, <1>3
  <2> QED BY <2>2, <2>3
<1> QED BY <1>2, <1>3

\* Who is let through to an admin route of a server with accounts has a token of
\* the admin group, or the key that makes an admin.
LEMMA AdminsPass ==
  ASSUME NEW q, NEW identity, AuthConfigured,
         LET user == Promoted(identity, q.keys, ApiKeys)
             admin == Promoted(user, q.keys, AdminKeys) IN Permitted(admin, "admin")
  PROVE  /\ identity = TokenIdentity(q.token) => "admins" \in q.token.groups
         /\ identity = Anonymous =>
              \E i \in 1 .. 2 : q.keys[i] = IF config.adminKey THEN "admin" ELSE "api"
<1> DEFINE user == Promoted(identity, q.keys, ApiKeys)
           admin == Promoted(user, q.keys, AdminKeys)
<1>1. admin.role = "admin"
  BY AdminScope DEF Permitted
<1>2. ASSUME identity = TokenIdentity(q.token) PROVE "admins" \in q.token.groups
  <2>1. identity.from = "token" /\ identity.role = OidcRole(q.token.groups)
    BY <1>2 DEF TokenIdentity
  <2>2. user = identity
    BY <2>1 DEF Promoted
  <2>3. admin = identity
    BY <2>1, <2>2 DEF Promoted
  <2>4. OidcRole(q.token.groups) = "admin"
    BY <1>1, <2>1, <2>3
  <2> QED BY <2>4 DEF OidcRole
<1>3. ASSUME identity = Anonymous
      PROVE  \E i \in 1 .. 2 : q.keys[i] = IF config.adminKey THEN "admin" ELSE "api"
  <2>1. identity.from # "token" /\ identity.role = "anonymous"
    BY <1>3 DEF Anonymous
  <2>2. user.from # "token" /\ (user.role = "anonymous" \/ \E k \in ApiKeys : user.role = k.role)
    BY <2>1, KeyHolders DEF Promoted
  <2>3. CASE config.adminKey
    <3>1. AdminKeys # {} /\ \A k \in AdminKeys : k.key = "admin"
      <4>1. AdminKeys = Candidate("admin", "admin")
        BY <2>3, Zenon DEF AdminKeys
      <4> QED BY <4>1 DEF Candidate
    <3>2. admin = Authenticated(q.keys, AdminKeys)
      BY <2>2, <3>1 DEF Promoted
    <3> HIDE DEF admin
    <3>3. \/ admin.role = "anonymous"
          \/ \E k \in AdminKeys : k.key = q.keys[1] \/ k.key = q.keys[2]
      BY <3>2, KeyHolders
    <3>4. q.keys[1] = "admin" \/ q.keys[2] = "admin"
      BY <1>1, <3>1, <3>3
    <3> QED BY <2>3, <3>4
  <2>4. CASE ~config.adminKey /\ config.fallback /\ config.apiKey
    <3>1. AdminKeys # {} /\ \A k \in AdminKeys : k.key = "api"
      <4>1. AdminKeys = Candidate("api", "admin")
        BY <2>4, Zenon DEF AdminKeys
      <4> QED BY <4>1 DEF Candidate
    <3>2. admin = Authenticated(q.keys, AdminKeys)
      BY <2>2, <3>1 DEF Promoted
    <3> HIDE DEF admin
    <3>3. \/ admin.role = "anonymous"
          \/ \E k \in AdminKeys : k.key = q.keys[1] \/ k.key = q.keys[2]
      BY <3>2, KeyHolders
    <3>4. q.keys[1] = "api" \/ q.keys[2] = "api"
      BY <1>1, <3>1, <3>3
    <3> QED BY <2>4, <3>4
  <2>5. CASE ~config.adminKey /\ ~(config.fallback /\ config.apiKey)
    <3>1. AdminKeys = {}
      BY <2>5 DEF AdminKeys
    <3>2. admin = user
      BY <3>1 DEF Promoted
    <3>3. \A k \in ApiKeys : k.role = "api"
      BY <2>5 DEF ApiKeys, Candidate
    <3> QED BY <1>1, <2>2, <3>2, <3>3
  <2> QED BY <2>3, <2>4, <2>5
<1> QED BY <1>2, <1>3

\* A request is handed to the handler of its route.
HandedOver(c, q) ==
  /\ stage' = [stage EXCEPT ![c] = "handler"] /\ request' = [request EXCEPT ![c] = q]
  /\ UNCHANGED <<read, act>>

\* A request ends in the middleware, or reaches its handler with what it takes.
LEMMA RouteEffect ==
  ASSUME NEW c \in Clients, NEW q, NEW identity, Route(c, q, identity),
         \/ /\ q.token = NoToken \/ config.oidc = "none"
            /\ identity = Anonymous
         \/ /\ q.token # NoToken /\ config.oidc # "none"
            /\ identity = TokenIdentity(q.token)
            /\ config.oidc = "jwks" =>
                 q.token.kid \in Kids /\ (ended[q.token.kid] = 0 \/ ended[q.token.kid] > read[c] - JwksTTL)
  PROVE  \/ End(c)
         \/ /\ HandedOver(c, q)
            /\ AuthConfigured /\ q.route = "admin" => Shown(q, read[c])
<1> DEFINE user == Promoted(identity, q.keys, ApiKeys)
           admin == Promoted(user, q.keys, AdminKeys)
           isAdmin == q.route = "admin"
           stops == \/ Refused(user, ApiKeys) \/ (isAdmin /\ Refused(admin, AdminKeys))
                    \/ ~Permitted(IF isAdmin THEN admin ELSE user, q.route)
<1>1. IF stops THEN End(c) ELSE HandedOver(c, q)
  BY DEF Route, HandedOver
<1>2. ASSUME ~stops, AuthConfigured, isAdmin PROVE Shown(q, read[c])
  <2>1. Permitted(admin, "admin")
    BY <1>2
  <2>2. /\ identity = TokenIdentity(q.token) => "admins" \in q.token.groups
        /\ identity = Anonymous =>
             \E i \in 1 .. 2 : q.keys[i] = IF config.adminKey THEN "admin" ELSE "api"
    BY <1>2, <2>1, AdminsPass
  <2> QED BY <2>2 DEF Shown
<1> HIDE DEF stops
<1> QED BY <1>1, <1>2

\* The same for a request whose token was looked up among keys, if those were
\* published within the time to live.
LEMMA VerifyEffect ==
  ASSUME TokensLookedUp, NEW c \in Clients, NEW keys, Verify(c, keys),
         stage[c] \in {"lookup", "store"}, keys \subseteq Kids,
         \A k \in keys : ended[k] = 0 \/ ended[k] > read[c] - JwksTTL
  PROVE  \/ End(c)
         \/ /\ HandedOver(c, request[c])
            /\ AuthConfigured /\ request[c].route = "admin" => Shown(request[c], read[c])
<1> DEFINE t == request[c].token
<1>1. t # NoToken /\ config.oidc = "jwks"
  BY DEF TokensLookedUp
<1>2. CASE VerifiedWith(t, keys, read[c])
  <2>1. Route(c, request[c], TokenIdentity(t))
    BY <1>2 DEF Verify
  <2>2. t.kid \in Kids /\ (ended[t.kid] = 0 \/ ended[t.kid] > read[c] - JwksTTL)
    BY <1>2 DEF VerifiedWith
  <2> QED BY <1>1, <2>1, <2>2, RouteEffect
<1>3. CASE ~VerifiedWith(t, keys, read[c])
  BY <1>3 DEF Verify
<1> QED BY <1>2, <1>3

\* What a lookup in the cache comes to.
LEMMA LookupEffect ==
  ASSUME ApiInv, NEW c \in Clients, Lookup(c)
  PROVE  \/ End(c)
         \/ /\ HandedOver(c, request[c])
            /\ AuthConfigured /\ request[c].route = "admin" => Shown(request[c], read[c])
         \/ stage' = [stage EXCEPT ![c] = "fetch"] /\ UNCHANGED <<request, read, act>>
<1>1. CASE Fresh(read[c])
  <2>1. Verify(c, cached) /\ stage[c] = "lookup" /\ cached \subseteq Kids /\ TokensLookedUp
    BY <1>1 DEF Lookup, ApiInv, KeysTyped
  <2>2. \A k \in cached : ended[k] = 0 \/ ended[k] > read[c] - JwksTTL
    BY <1>1, KeysAssumption DEF Fresh, ApiInv, KeysTyped, RequestsTyped, KeysDated, PublishedSince
  <2> QED BY <2>1, <2>2, VerifyEffect
<1>2. CASE ~Fresh(read[c])
  BY <1>2 DEF Lookup
<1> QED BY <1>1, <1>2

\* What a request that has fetched keys comes to.
LEMMA StoreEffect ==
  ASSUME ApiInv, NEW c \in Clients, Store(c)
  PROVE  \/ End(c)
         \/ /\ HandedOver(c, request[c])
            /\ AuthConfigured /\ request[c].route = "admin" => Shown(request[c], read[c])
<1>1. Verify(c, answer[c]) /\ stage[c] = "store" /\ answer[c] \subseteq Kids /\ TokensLookedUp
  BY DEF Store, ApiInv, KeysTyped
<1>2. \A k \in answer[c] : ended[k] = 0 \/ ended[k] > read[c] - JwksTTL
  BY <1>1, KeysAssumption DEF ApiInv, KeysTyped, RequestsTyped, KeysDated, PublishedSince
<1> QED BY <1>1, <1>2, VerifyEffect

\* What a request that arrives comes to.
LEMMA ArriveEffect ==
  ASSUME NEW c \in Clients, NEW q \in Requests, Arrive(c, q)
  PROVE  \/ End(c)
         \/ /\ HandedOver(c, q)
            /\ AuthConfigured /\ q.route = "admin" => Shown(q, read[c])
         \/ /\ q.token # NoToken /\ config.oidc = "jwks"
            /\ stage' = [stage EXCEPT ![c] = "lookup"] /\ request' = [request EXCEPT ![c] = q]
            /\ read' = [read EXCEPT ![c] = time] /\ UNCHANGED act
<1>1. CASE q.token = NoToken \/ config.oidc = "none"
  <2>1. Route(c, q, Anonymous)
    BY <1>1 DEF Arrive
  <2> QED BY <1>1, <2>1, RouteEffect
<1>2. CASE q.token # NoToken /\ config.oidc = "jwks"
  BY <1>2 DEF Arrive
<1>3. CASE q.token # NoToken /\ config.oidc \notin {"none", "jwks"}
  <2>1. Route(c, q, TokenIdentity(q.token))
    BY <1>3 DEF Arrive
  <2> QED BY <1>3, <2>1, RouteEffect
<1> QED BY <1>1, <1>2, <1>3

\* The initial state satisfies the invariant.
LEMMA InitApi == ASSUME ApiInit PROVE ApiInv
<1> USE KeysAssumption DEF ApiInit, JwksInit
<1>1. KeysTyped
  BY DEF KeysTyped, Kids
<1>2. RequestsTyped
  BY DEF RequestsTyped, Stages
<1>3. KeysDated
  BY DEF KeysDated, Kids
<1>4. TokensLookedUp /\ Entitled
  BY DEF TokensLookedUp, Entitled
<1>5. Dated /\ AuditKept
  BY DEF Dated, AuditKept
<1> QED BY <1>1, <1>2, <1>3, <1>4, <1>5 DEF ApiInv

\* Every step keeps the types of the keys, and of what is known of them.
LEMMA StepKeys ==
  ASSUME ApiInv, [ApiNext]_apiVars PROVE (KeysTyped /\ \A k \in Kids : ended[k] <= time)'
<1> USE KeysAssumption DEF ApiInv, KeysTyped, KeysDated, issuerVars, cacheVars
<1>0. CASE UNCHANGED jwksVars
  BY <1>0 DEF jwksVars
<1>1. CASE Restart
  BY <1>1 DEF Restart
<1>2. ASSUME NEW c \in Clients,
             \/ Lookup(c) \/ FetchFails(c) \/ Handle(c) \/ Audit(c) \/ AuditFails(c) \/ Prune(c)
             \/ \E q \in Requests : Arrive(c, q)
      PROVE  UNCHANGED jwksVars
  BY <1>2 DEF Lookup, FetchFails, Handle, Audit, AuditFails, Prune, Arrive
<1>3. ASSUME NEW c \in Clients, Fetch(c) PROVE (KeysTyped /\ \A k \in Kids : ended[k] <= time)'
  BY <1>3 DEF Fetch, Fetched
<1>4. ASSUME NEW c \in Clients, Store(c) PROVE (KeysTyped /\ \A k \in Kids : ended[k] <= time)'
  BY <1>4 DEF Store, Remember, RequestsTyped
<1>5. CASE TimePasses
  BY <1>5 DEF TimePasses
<1>6. ASSUME NEW k \in Kids, Introduce(k) PROVE (KeysTyped /\ \A j \in Kids : ended[j] <= time)'
  BY <1>6 DEF Introduce
<1>7. ASSUME NEW k \in Kids, Withdraw(k) PROVE (KeysTyped /\ \A j \in Kids : ended[j] <= time)'
  BY <1>7 DEF Withdraw
<1>8. CASE UNCHANGED apiVars
  BY <1>0, <1>8 DEF apiVars
<1> QED BY <1>0, <1>1, <1>2, <1>3, <1>4, <1>5, <1>6, <1>7, <1>8 DEF ApiNext, Served

\* Every step keeps the types of the requests.
LEMMA StepRequests == ASSUME ApiInv, [ApiNext]_apiVars PROVE RequestsTyped'
<1> USE DEF ApiInv, KeysTyped, RequestsTyped, Stages
<1>1. CASE Restart
  BY <1>1 DEF Restart
<1>2. ASSUME NEW c \in Clients, End(c), time' = time PROVE RequestsTyped'
  BY <1>2 DEF End
<1>3. ASSUME NEW c \in Clients, HandedOver(c, request[c]), time' = time PROVE RequestsTyped'
  BY <1>3 DEF HandedOver
<1>4. ASSUME NEW c \in Clients, NEW q \in Requests, Arrive(c, q) PROVE RequestsTyped'
  <2>1. time' = time
    BY <1>4 DEF Arrive, jwksVars
  <2>2. CASE HandedOver(c, q)
    BY <2>1, <2>2 DEF HandedOver
  <2>3. CASE /\ stage' = [stage EXCEPT ![c] = "lookup"] /\ request' = [request EXCEPT ![c] = q]
             /\ read' = [read EXCEPT ![c] = time] /\ UNCHANGED act
    BY <2>1, <2>3
  <2> QED BY <1>2, <1>4, <2>1, <2>2, <2>3, ArriveEffect
<1>5. ASSUME NEW c \in Clients, Lookup(c) PROVE RequestsTyped'
  <2>1. time' = time
    BY <1>5 DEF Lookup, jwksVars
  <2>2. CASE stage' = [stage EXCEPT ![c] = "fetch"] /\ UNCHANGED <<request, read, act>>
    BY <2>1, <2>2
  <2> QED BY <1>2, <1>3, <1>5, <2>1, <2>2, LookupEffect
<1>6. ASSUME NEW c \in Clients, Store(c) PROVE RequestsTyped'
  <2>1. time' = time
    BY <1>6 DEF Store, Remember
  <2> QED BY <1>2, <1>3, <1>6, <2>1, StoreEffect
<1>7. ASSUME NEW c \in Clients, Fetch(c) PROVE RequestsTyped'
  BY <1>7 DEF Fetch, Fetched
<1>8. ASSUME NEW c \in Clients, FetchFails(c) \/ AuditFails(c) \/ Prune(c) PROVE RequestsTyped'
  BY <1>2, <1>8 DEF FetchFails, AuditFails, Prune, jwksVars
<1>9. ASSUME NEW c \in Clients, Handle(c) PROVE RequestsTyped'
  <2>1. time' = time
    BY <1>9 DEF Handle, jwksVars
  <2>2. CASE request[c].route = "admin" /\ config.store
    <3>1. /\ acted' = Append(acted, time) /\ act' = [act EXCEPT ![c] = Len(acted')]
          /\ stage' = [stage EXCEPT ![c] = "audit"] /\ UNCHANGED <<request, read>>
      BY <1>9, <2>2 DEF Handle
    <3>2. Len(acted') \in Nat
      BY <3>1 DEF Dated
    <3> QED BY <2>1, <3>1, <3>2
  <2>3. CASE ~(request[c].route = "admin" /\ config.store)
    BY <1>2, <1>9, <2>1, <2>3 DEF Handle
  <2> QED BY <2>2, <2>3
<1>10. ASSUME NEW c \in Clients, Audit(c) PROVE RequestsTyped'
  BY <1>10 DEF Audit, jwksVars
<1>11. CASE UNCHANGED requestVars /\ time <= time'
  BY <1>11, StepKeys DEF requestVars
<1>12. CASE /\ TimePasses \/ (config.oidc = "jwks" /\ \E k \in Kids : Introduce(k) \/ Withdraw(k))
            /\ UNCHANGED <<config, requestVars, auditVars>>
  BY <1>11, <1>12 DEF TimePasses, Introduce, Withdraw
<1>13. CASE UNCHANGED apiVars
  BY <1>11, <1>13 DEF apiVars, jwksVars
<1> QED BY <1>1, <1>4, <1>5, <1>6, <1>7, <1>8, <1>9, <1>10, <1>12, <1>13 DEF ApiNext, Served

\* Every step keeps the dates of the keys.
LEMMA StepDatedKeys == ASSUME ApiInv, [ApiNext]_apiVars PROVE KeysDated'
<1> USE KeysAssumption
        DEF ApiInv, KeysTyped, RequestsTyped, Stages, KeysDated, PublishedSince, issuerVars, cacheVars
<1>0. \A k \in Kids : ended'[k] <= time'
  BY StepKeys
\* nobody comes to have fetched keys
<1>1. ASSUME UNCHANGED <<ended, offered, cached, fetched, answer>>,
             \A c \in Clients : stage'[c] = "store" => stage[c] = "store" /\ read'[c] = read[c]
      PROVE  KeysDated'
  BY <1>0, <1>1
<1>2. CASE Restart
  BY <1>0, <1>2 DEF Restart
<1>3. ASSUME NEW c \in Clients, End(c)
      PROVE  \A d \in Clients : stage'[d] = "store" => stage[d] = "store" /\ read'[d] = read[d] /\ d # c
  BY <1>3 DEF End
<1>4. ASSUME NEW c \in Clients, NEW q, HandedOver(c, q)
      PROVE  \A d \in Clients : stage'[d] = "store" => stage[d] = "store" /\ read'[d] = read[d] /\ d # c
  BY <1>4 DEF HandedOver
<1>5. ASSUME NEW c \in Clients, NEW q \in Requests, Arrive(c, q) PROVE KeysDated'
  <2>1. CASE stage' = [stage EXCEPT ![c] = "lookup"] /\ read' = [read EXCEPT ![c] = time]
    BY <1>1, <1>5, <2>1 DEF Arrive, jwksVars
  <2>2. UNCHANGED <<ended, offered, cached, fetched, answer>>
    BY <1>5 DEF Arrive, jwksVars
  <2> QED BY <1>1, <1>3, <1>4, <1>5, <2>1, <2>2, ArriveEffect
<1>6. ASSUME NEW c \in Clients, Lookup(c) PROVE KeysDated'
  <2>1. CASE stage' = [stage EXCEPT ![c] = "fetch"] /\ UNCHANGED <<request, read, act>>
    BY <1>1, <1>6, <2>1 DEF Lookup, jwksVars
  <2>2. UNCHANGED <<ended, offered, cached, fetched, answer>>
    BY <1>6 DEF Lookup, jwksVars
  <2> QED BY <1>1, <1>3, <1>4, <1>6, <2>1, <2>2, LookupEffect
<1>7. ASSUME NEW c \in Clients, Fetch(c) PROVE KeysDated'
  <2>1. PICK keys \in {offered, {}} : answer' = [answer EXCEPT ![c] = keys]
    BY <1>7 DEF Fetch, Fetched
  <2>2. /\ UNCHANGED <<time, ended, offered, cached, fetched, read>>
        /\ stage' = [stage EXCEPT ![c] = "store"]
    BY <1>7 DEF Fetch, Fetched
  <2>3. answer'[c] = keys /\ \A k \in keys : ended'[k] = 0
    BY <2>1, <2>2
  <2>4. \A d \in Clients \ {c} : answer'[d] = answer[d] /\ stage'[d] = stage[d]
    BY <2>1, <2>2
  <2>5. \A d \in Clients : stage'[d] = "store" => \A k \in answer'[d] : PublishedSince(k, read[d])'
    BY <2>2, <2>3, <2>4
  <2> QED BY <1>0, <2>2, <2>5
<1>8. ASSUME NEW c \in Clients, Store(c) PROVE KeysDated'
  <2>1. stage[c] = "store" /\ cached' = answer[c] /\ fetched' = read[c] /\ UNCHANGED <<time, ended, offered>>
        /\ answer' = [answer EXCEPT ![c] = {}]
    BY <1>8 DEF Store, Remember
  <2>2. \A k \in cached' : PublishedSince(k, fetched)'
    BY <2>1
  <2>3. \A d \in Clients : stage'[d] = "store" => stage[d] = "store" /\ read'[d] = read[d] /\ d # c
    BY <1>3, <1>4, <1>8, StoreEffect
  <2>4. \A d \in Clients : stage'[d] = "store" => \A k \in answer'[d] : PublishedSince(k, read[d])'
    BY <2>1, <2>3
  <2> QED BY <1>0, <2>1, <2>2, <2>4
<1>9. ASSUME NEW c \in Clients, FetchFails(c) \/ AuditFails(c) \/ Prune(c) PROVE KeysDated'
  <2>1. End(c) /\ UNCHANGED <<ended, offered, cached, fetched, answer>>
    BY <1>9 DEF FetchFails, AuditFails, Prune, jwksVars
  <2> QED BY <1>1, <1>3, <2>1
<1>10. ASSUME NEW c \in Clients, Handle(c) PROVE KeysDated'
  <2>1. UNCHANGED <<ended, offered, cached, fetched, answer>>
    BY <1>10 DEF Handle, jwksVars
  <2>2. CASE stage' = [stage EXCEPT ![c] = "audit"] /\ UNCHANGED <<request, read>>
    BY <1>1, <2>1, <2>2
  <2>3. CASE End(c)
    BY <1>1, <1>3, <2>1, <2>3
  <2> QED BY <1>10, <2>2, <2>3 DEF Handle
<1>11. ASSUME NEW c \in Clients, Audit(c) PROVE KeysDated'
  BY <1>1, <1>11 DEF Audit, jwksVars
<1>12. CASE UNCHANGED requestVars /\ (TimePasses \/ \E k \in Kids : Introduce(k))
  <2>1. UNCHANGED <<ended, cached, fetched, answer, stage, read>>
    BY <1>12 DEF TimePasses, Introduce, requestVars
  <2>2. \A k \in offered' : ended'[k] = 0
    BY <1>12 DEF TimePasses, Introduce
  <2> QED BY <1>0, <2>1, <2>2
<1>13. ASSUME NEW k \in Kids, Withdraw(k), UNCHANGED requestVars PROVE KeysDated'
  <2>1. /\ UNCHANGED <<time, cached, fetched, answer, stage, read>>
        /\ offered' = offered \ {k} /\ ended' = [ended EXCEPT ![k] = time]
    BY <1>13 DEF Withdraw, requestVars
  <2>2. \A j \in Kids, r \in Nat : r <= time /\ PublishedSince(j, r) => ended'[j] = 0 \/ ended'[j] >= r
    BY <2>1
  <2>3. \A j \in cached : ended'[j] = 0 \/ ended'[j] >= fetched
    BY <2>2
  <2>4. \A c \in Clients : stage[c] = "store" => \A j \in answer[c] : ended'[j] = 0 \/ ended'[j] >= read[c]
    BY <2>2
  <2> QED BY <1>0, <2>1, <2>3, <2>4
<1>14. CASE UNCHANGED apiVars
  BY <1>1, <1>14 DEF apiVars, jwksVars, requestVars
<1>15. CASE /\ TimePasses \/ (config.oidc = "jwks" /\ \E k \in Kids : Introduce(k) \/ Withdraw(k))
            /\ UNCHANGED <<config, requestVars, auditVars>>
  BY <1>12, <1>13, <1>15
<1> QED BY <1>2, <1>5, <1>6, <1>7, <1>8, <1>9, <1>10, <1>11, <1>14, <1>15 DEF ApiNext, Served

\* Every step keeps the requests without a token from waiting for keys.
LEMMA StepLookedUp == ASSUME ApiInv, [ApiNext]_apiVars PROVE TokensLookedUp'
<1> USE DEF ApiInv, RequestsTyped, Stages, TokensLookedUp
<1>0. config' = config
  BY DEF ApiNext, Served, Restart, Lookup, Fetch, FetchFails, Store, Handle, Audit, AuditFails, Prune,
         Arrive, apiVars
<1>1. CASE Restart
  BY <1>1 DEF Restart
<1>2. ASSUME NEW c \in Clients, End(c) PROVE TokensLookedUp'
  BY <1>0, <1>2 DEF End
<1>3. ASSUME NEW c \in Clients, NEW q, HandedOver(c, q) PROVE TokensLookedUp'
  BY <1>0, <1>3 DEF HandedOver
<1>4. ASSUME NEW c \in Clients, NEW q \in Requests, Arrive(c, q) PROVE TokensLookedUp'
  <2>1. CASE /\ q.token # NoToken /\ config.oidc = "jwks"
             /\ stage' = [stage EXCEPT ![c] = "lookup"] /\ request' = [request EXCEPT ![c] = q]
    BY <1>0, <2>1
  <2> QED BY <1>2, <1>3, <1>4, <2>1, ArriveEffect
<1>5. ASSUME NEW c \in Clients, Lookup(c) PROVE TokensLookedUp'
  <2>1. CASE stage' = [stage EXCEPT ![c] = "fetch"] /\ UNCHANGED <<request, read, act>>
    BY <1>0, <1>5, <2>1 DEF Lookup
  <2> QED BY <1>2, <1>3, <1>5, <2>1, LookupEffect
<1>6. ASSUME NEW c \in Clients, Store(c) PROVE TokensLookedUp'
  BY <1>2, <1>3, <1>6, StoreEffect
<1>7. ASSUME NEW c \in Clients, Fetch(c) PROVE TokensLookedUp'
  BY <1>0, <1>7 DEF Fetch
<1>8. ASSUME NEW c \in Clients, FetchFails(c) \/ AuditFails(c) \/ Prune(c) PROVE TokensLookedUp'
  BY <1>2, <1>8 DEF FetchFails, AuditFails, Prune
<1>9. ASSUME NEW c \in Clients, Handle(c) PROVE TokensLookedUp'
  <2>1. CASE stage' = [stage EXCEPT ![c] = "audit"] /\ UNCHANGED <<request, read>>
    BY <1>0, <2>1
  <2> QED BY <1>2, <1>9, <2>1 DEF Handle
<1>10. ASSUME NEW c \in Clients, Audit(c) PROVE TokensLookedUp'
  BY <1>0, <1>10 DEF Audit
<1>11. CASE UNCHANGED requestVars
  BY <1>0, <1>11 DEF requestVars
<1> QED BY <1>1, <1>4, <1>5, <1>6, <1>7, <1>8, <1>9, <1>10, <1>11 DEF ApiNext, Served, apiVars

\* What an admin request has shown stays shown while keys are withdrawn.
LEMMA ShownKept ==
  ASSUME ApiInv, [ApiNext]_apiVars, NEW q, NEW r \in Nat, r <= time, Shown(q, r)
  PROVE  Shown(q, r)'
<1> USE KeysAssumption DEF Shown
<1>1. config' = config
  BY DEF ApiNext, Served, Restart, Lookup, Fetch, FetchFails, Store, Handle, Audit, AuditFails, Prune,
         Arrive, apiVars
<1>2. CASE ended' = ended
  BY <1>1, <1>2
<1>3. ASSUME NEW k \in Kids, Withdraw(k) PROVE Shown(q, r)'
  <2>1. ended' = [ended EXCEPT ![k] = time]
    BY <1>3 DEF Withdraw
  <2>2. time > r - JwksTTL /\ ended \in [Kids -> Nat]
    BY DEF ApiInv, KeysTyped
  <2>3. ASSUME NEW j \in Kids, ended[j] = 0 \/ ended[j] > r - JwksTTL
        PROVE  ended'[j] = 0 \/ ended'[j] > r - JwksTTL
    BY <2>1, <2>2, <2>3
  <2> QED BY <1>1, <2>3
<1>4. ASSUME NEW c \in Clients, Served(c) PROVE ended' = ended
  BY <1>4 DEF Served, Lookup, Fetch, Fetched, FetchFails, Store, Remember, Handle, Audit, AuditFails,
              Prune, jwksVars, issuerVars
<1>5. ASSUME NEW c \in Clients, NEW q1 \in Requests, Arrive(c, q1) PROVE ended' = ended
  BY <1>5 DEF Arrive, jwksVars, issuerVars
<1>6. CASE Restart \/ TimePasses \/ \E k \in Kids : Introduce(k)
  BY <1>2, <1>6 DEF Restart, TimePasses, Introduce, issuerVars
<1>7. CASE UNCHANGED apiVars
  BY <1>2, <1>7 DEF apiVars, jwksVars, issuerVars
<1> QED BY <1>2, <1>3, <1>4, <1>5, <1>6, <1>7 DEF ApiNext

\* Every step keeps the handlers of admin routes for those who may go there.
LEMMA StepEntitled == ASSUME ApiInv, [ApiNext]_apiVars PROVE Entitled'
<1> USE DEF Entitled
<1>0. /\ stage \in [Clients -> Stages] /\ read \in [Clients -> Nat] /\ \A c \in Clients : read[c] <= time
      /\ request \in [Clients -> Requests \cup {NoRequest}]
  BY DEF ApiInv, RequestsTyped
<1>1. AuthConfigured' = AuthConfigured
  <2>1. config' = config
    BY DEF ApiNext, Served, Restart, Lookup, Fetch, FetchFails, Store, Handle, Audit, AuditFails, Prune,
           Arrive, apiVars
  <2> QED BY <2>1 DEF AuthConfigured
\* nobody comes to a handler
<1>2. ASSUME \A c \in Clients : stage'[c] = "handler" =>
               stage[c] = "handler" /\ request'[c] = request[c] /\ read'[c] = read[c]
      PROVE  Entitled'
  <2> SUFFICES ASSUME NEW c \in Clients, AuthConfigured, stage'[c] = "handler", request'[c].route = "admin"
               PROVE  Shown(request[c], read[c])'
    BY <1>1
  <2>1. stage[c] = "handler" /\ request'[c] = request[c] /\ read'[c] = read[c]
    BY <1>2
  <2>2. Shown(request[c], read[c])
    BY <2>1 DEF ApiInv
  <2>3. ASSUME NEW q, NEW r \in Nat, r <= time, Shown(q, r) PROVE Shown(q, r)'
    BY <2>3, ShownKept
  <2>4. PICK q : q = request[c]
    OBVIOUS
  <2>5. PICK r \in Nat : r = read[c] /\ r <= time
    BY <1>0
  <2>6. Shown(q, r)'
    BY <2>2, <2>3, <2>4, <2>5
  <2> QED BY <2>1, <2>4, <2>5, <2>6 DEF Shown
\* one comes to its handler
<1>3. ASSUME NEW c \in Clients, NEW q, HandedOver(c, q),
             AuthConfigured /\ q.route = "admin" => Shown(q, read[c])
      PROVE  Entitled'
  <2> SUFFICES ASSUME NEW d \in Clients, AuthConfigured, stage'[d] = "handler", request'[d].route = "admin"
               PROVE  Shown(request[d], read[d])'
    BY <1>1
  <2>1. PICK p : p = request'[d]
    OBVIOUS
  <2>2. PICK r \in Nat : r = read[d] /\ r <= time /\ r = read'[d]
    BY <1>0, <1>3 DEF HandedOver
  <2>3. Shown(p, r)
    <3>1. CASE d = c
      BY <1>0, <1>3, <2>1, <2>2, <3>1 DEF HandedOver
    <3>2. CASE d # c
      BY <1>0, <1>3, <2>1, <2>2, <3>2 DEF HandedOver, ApiInv
    <3> QED BY <3>1, <3>2
  <2>4. Shown(p, r)'
    BY <2>2, <2>3, ShownKept
  <2> QED BY <2>1, <2>2, <2>4 DEF Shown
<1>4. ASSUME NEW c \in Clients, End(c) PROVE Entitled'
  BY <1>0, <1>2, <1>4 DEF End
<1>5. ASSUME NEW c \in Clients, NEW q \in Requests, Arrive(c, q) PROVE Entitled'
  <2>1. CASE /\ stage' = [stage EXCEPT ![c] = "lookup"] /\ request' = [request EXCEPT ![c] = q]
             /\ read' = [read EXCEPT ![c] = time]
    BY <1>0, <1>2, <2>1
  <2> QED BY <1>3, <1>4, <1>5, <2>1, ArriveEffect
<1>6. ASSUME NEW c \in Clients, Lookup(c) PROVE Entitled'
  <2>1. CASE stage' = [stage EXCEPT ![c] = "fetch"] /\ UNCHANGED <<request, read, act>>
    BY <1>0, <1>2, <2>1
  <2> QED BY <1>3, <1>4, <1>6, <2>1, LookupEffect
<1>7. ASSUME NEW c \in Clients, Store(c) PROVE Entitled'
  BY <1>3, <1>4, <1>7, StoreEffect
<1>8. ASSUME NEW c \in Clients, Fetch(c) \/ Audit(c) PROVE Entitled'
  BY <1>0, <1>2, <1>8 DEF Fetch, Audit
<1>9. ASSUME NEW c \in Clients, FetchFails(c) \/ AuditFails(c) \/ Prune(c) PROVE Entitled'
  BY <1>4, <1>9 DEF FetchFails, AuditFails, Prune
<1>10. ASSUME NEW c \in Clients, Handle(c) PROVE Entitled'
  <2>1. CASE stage' = [stage EXCEPT ![c] = "audit"] /\ UNCHANGED <<request, read>>
    BY <1>0, <1>2, <2>1
  <2> QED BY <1>4, <1>10, <2>1 DEF Handle
<1>11. CASE Restart
  BY <1>2, <1>11 DEF Restart
<1>12. CASE UNCHANGED requestVars
  BY <1>2, <1>12 DEF requestVars
<1> QED BY <1>5, <1>6, <1>7, <1>8, <1>9, <1>10, <1>11, <1>12 DEF ApiNext, Served, apiVars

\* Records and acts keep their dates, and every act its record for the retention.
LEMMA StepAudits == ASSUME ApiInv, [ApiNext]_apiVars PROVE (Dated /\ AuditKept)'
<1> USE DEF Dated, AuditKept
<1>0. /\ Dated /\ AuditKept
      /\ stage \in [Clients -> Stages] /\ act \in [Clients -> Nat] /\ read \in [Clients -> Nat]
      /\ \A c \in Clients : read[c] <= time
      /\ time \in Nat
  BY DEF ApiInv, RequestsTyped, KeysTyped
<1>1. ASSUME UNCHANGED auditVars, time' \in Nat, time <= time',
             \A c \in Clients : stage'[c] = "audit" <=> stage[c] = "audit",
             \A c \in Clients : stage[c] = "audit" => act'[c] = act[c]
      PROVE  (Dated /\ AuditKept)'
  <2>1. \A i \in DOMAIN acted : acted[i] \in Nat
    BY <1>0
  <2>2. Dated'
    BY <1>0, <1>1, <2>1 DEF auditVars
  <2>3. \A i \in DOMAIN acted : time > acted[i] + Retention => time' > acted'[i] + Retention
    BY <1>0, <1>1, <2>1, AuditAssumption DEF auditVars
  <2>4. \A i \in DOMAIN acted : \A c \in Clients :
          act[c] = i /\ stage[c] = "audit" => act'[c] = i /\ stage'[c] = "audit"
    BY <1>1
  <2>5. AuditKept'
    BY <1>0, <1>1, <2>3, <2>4 DEF auditVars
  <2> QED BY <2>2, <2>5
<1>2. ASSUME NEW c \in Clients, End(c), stage[c] # "audit", UNCHANGED auditVars, time' = time
      PROVE  (Dated /\ AuditKept)'
  BY <1>0, <1>1, <1>2 DEF End
<1>3. ASSUME NEW c \in Clients, NEW q, HandedOver(c, q), stage[c] # "audit", UNCHANGED auditVars, time' = time
      PROVE  (Dated /\ AuditKept)'
  BY <1>0, <1>1, <1>3 DEF HandedOver
<1>4. ASSUME NEW c \in Clients, NEW q \in Requests, Arrive(c, q) PROVE (Dated /\ AuditKept)'
  <2>1. UNCHANGED auditVars /\ time' = time /\ stage[c] # "audit"
    BY <1>4 DEF Arrive, jwksVars
  <2>2. CASE stage' = [stage EXCEPT ![c] = "lookup"] /\ UNCHANGED act
    BY <1>0, <1>1, <2>1, <2>2
  <2> QED BY <1>2, <1>3, <1>4, <2>1, <2>2, ArriveEffect
<1>5. ASSUME NEW c \in Clients, Lookup(c) PROVE (Dated /\ AuditKept)'
  <2>1. UNCHANGED auditVars /\ time' = time /\ stage[c] # "audit"
    BY <1>5 DEF Lookup, jwksVars
  <2>2. CASE stage' = [stage EXCEPT ![c] = "fetch"] /\ UNCHANGED <<request, read, act>>
    BY <1>0, <1>1, <2>1, <2>2
  <2> QED BY <1>2, <1>3, <1>5, <2>1, <2>2, LookupEffect
<1>6. ASSUME NEW c \in Clients, Store(c) PROVE (Dated /\ AuditKept)'
  <2>1. UNCHANGED auditVars /\ time' = time /\ stage[c] # "audit"
    BY <1>6 DEF Store, Remember
  <2> QED BY <1>2, <1>3, <1>6, <2>1, StoreEffect
<1>7. ASSUME NEW c \in Clients, Fetch(c) PROVE (Dated /\ AuditKept)'
  <2>1. /\ UNCHANGED auditVars /\ time' = time /\ stage[c] # "audit" /\ UNCHANGED act
        /\ stage' = [stage EXCEPT ![c] = "store"]
    BY <1>7 DEF Fetch, Fetched
  <2> QED BY <1>0, <1>1, <2>1
<1>8. ASSUME NEW c \in Clients, FetchFails(c) PROVE (Dated /\ AuditKept)'
  BY <1>2, <1>8 DEF FetchFails, jwksVars
<1>9. ASSUME NEW c \in Clients, Handle(c) PROVE (Dated /\ AuditKept)'
  <2>1. UNCHANGED <<time, audits, lost>> /\ stage[c] = "handler"
    BY <1>9 DEF Handle, jwksVars
  <2>2. CASE request[c].route = "admin" /\ config.store
    <3>1. /\ acted' = Append(acted, time) /\ act' = [act EXCEPT ![c] = Len(acted')]
          /\ stage' = [stage EXCEPT ![c] = "audit"]
      BY <1>9, <2>2 DEF Handle
    <3>2. /\ acted' \in Seq(Nat) /\ DOMAIN acted' = DOMAIN acted \cup {Len(acted')}
          /\ \A i \in DOMAIN acted : acted'[i] = acted[i]
          /\ acted'[Len(acted')] = time
      BY <1>0, <3>1
    <3>3. act'[c] = Len(acted') /\ stage'[c] = "audit"
      BY <1>0, <3>1, <3>2
    <3>4. \A d \in Clients \ {c} : act'[d] = act[d] /\ stage'[d] = stage[d]
      BY <1>0, <3>1
    <3>5. Dated'
      <4>1. ASSUME NEW i \in DOMAIN acted' PROVE acted'[i] <= time'
        <5>1. time <= time /\ \A j \in DOMAIN acted : acted[j] <= time
          BY <1>0
        <5>2. i \in DOMAIN acted \/ i = Len(acted')
          BY <3>2
        <5> QED BY <2>1, <3>2, <5>1, <5>2
      <4>2. \A a \in audits' : a.act \in DOMAIN acted' /\ a.at \in Nat /\ a.at >= acted'[a.act]
        BY <1>0, <2>1, <3>2
      <4>3. \A d \in Clients : stage'[d] = "audit" => act'[d] \in DOMAIN acted'
        BY <1>0, <3>2, <3>3, <3>4
      <4> QED BY <3>2, <4>1, <4>2, <4>3
    <3>6. \A i \in DOMAIN acted : \A d \in Clients :
            act[d] = i /\ stage[d] = "audit" => act'[d] = i /\ stage'[d] = "audit"
      BY <2>1, <3>4
    <3>7. AuditKept'
      BY <1>0, <2>1, <3>2, <3>3, <3>6
    <3> QED BY <3>5, <3>7
  <2>3. CASE ~(request[c].route = "admin" /\ config.store)
    BY <1>2, <1>9, <2>1, <2>3 DEF Handle, auditVars
  <2> QED BY <2>2, <2>3
<1>10. ASSUME NEW c \in Clients, Audit(c) PROVE (Dated /\ AuditKept)'
  <2>1. /\ stage[c] = "audit" /\ audits' = audits \cup {[act |-> act[c], at |-> time]}
        /\ stage' = [stage EXCEPT ![c] = "prune"] /\ act' = [act EXCEPT ![c] = 0]
        /\ UNCHANGED <<time, acted, lost>>
    BY <1>10 DEF Audit, jwksVars
  <2>2. act[c] \in DOMAIN acted /\ acted[act[c]] <= time
    BY <1>0, <2>1
  <2>3. \A d \in Clients \ {c} : act'[d] = act[d] /\ stage'[d] = stage[d]
    BY <1>0, <2>1
  <2>4. stage'[c] # "audit"
    BY <1>0, <2>1
  <2>5. Dated'
    BY <1>0, <2>1, <2>2, <2>3, <2>4
  <2>6. ASSUME NEW i \in DOMAIN acted, NEW d \in Clients, act[d] = i, stage[d] = "audit"
        PROVE  (\E a \in audits' : a.act = i) \/ \E e \in Clients : act'[e] = i /\ stage'[e] = "audit"
    <3>1. CASE d = c
      <4>1. [act |-> i, at |-> time] \in audits' /\ [act |-> i, at |-> time].act = i
        BY <2>1, <2>6, <3>1
      <4> QED BY <4>1
    <3>2. CASE d # c
      BY <2>3, <2>6, <3>2
    <3> QED BY <3>1, <3>2
  <2>7. AuditKept'
    BY <1>0, <2>1, <2>6
  <2> QED BY <2>5, <2>7
<1>11. ASSUME NEW c \in Clients, AuditFails(c) PROVE (Dated /\ AuditKept)'
  <2>1. /\ stage[c] = "audit" /\ lost' = lost \cup {act[c]} /\ End(c)
        /\ UNCHANGED <<time, acted, audits>>
    BY <1>11 DEF AuditFails, jwksVars
  <2>2. (\A d \in Clients \ {c} : act'[d] = act[d] /\ stage'[d] = stage[d]) /\ stage'[c] # "audit"
    BY <1>0, <2>1 DEF End
  <2>3. Dated'
    BY <1>0, <2>1, <2>2
  <2>4. ASSUME NEW i \in DOMAIN acted, NEW d \in Clients, act[d] = i, stage[d] = "audit"
        PROVE  i \in lost' \/ \E e \in Clients : act'[e] = i /\ stage'[e] = "audit"
    BY <2>1, <2>2, <2>4
  <2>5. AuditKept'
    BY <1>0, <2>1, <2>4
  <2> QED BY <2>3, <2>5
<1>12. ASSUME NEW c \in Clients, Prune(c) PROVE (Dated /\ AuditKept)'
  <2>1. /\ stage[c] = "prune" /\ audits' = {a \in audits : a.at >= read[c] - Retention} /\ End(c)
        /\ UNCHANGED <<time, acted, lost>>
    BY <1>12 DEF Prune, jwksVars
  <2>2. (\A d \in Clients \ {c} : act'[d] = act[d] /\ stage'[d] = stage[d]) /\ stage'[c] # "audit"
    BY <1>0, <2>1 DEF End
  <2>3. Dated'
    BY <1>0, <2>1, <2>2
  <2>4. ASSUME NEW i \in DOMAIN acted, NEW a \in audits, a.act = i, a \notin audits'
        PROVE  time > acted[i] + Retention
    <3>1. acted[i] \in Nat /\ a.at \in Nat /\ acted[i] <= a.at /\ read[c] \in Nat /\ read[c] <= time
      BY <1>0, <2>4
    <3>2. ~(a.at >= read[c] - Retention)
      BY <2>1, <2>4
    <3> QED BY <1>0, <3>1, <3>2, AuditAssumption
  <2>5. \A d \in Clients : stage[d] = "audit" => act'[d] = act[d] /\ stage'[d] = "audit"
    BY <2>1, <2>2
  <2>6. AuditKept'
    BY <1>0, <2>1, <2>4, <2>5
  <2> QED BY <2>3, <2>6
<1>13. CASE Restart
  <2>1. /\ lost' = lost \cup ({act[c] : c \in {d \in Clients : stage[d] = "audit"}})
        /\ stage' = [c \in Clients |-> "idle"] /\ UNCHANGED <<time, acted, audits>>
    BY <1>13 DEF Restart
  <2>2. Dated'
    BY <1>0, <2>1
  <2>3. AuditKept'
    BY <1>0, <2>1
  <2> QED BY <2>2, <2>3
<1>14. CASE UNCHANGED requestVars /\ UNCHANGED auditVars /\ time' \in Nat /\ time <= time'
  BY <1>1, <1>14 DEF requestVars
<1>15. CASE /\ TimePasses \/ (config.oidc = "jwks" /\ \E k \in Kids : Introduce(k) \/ Withdraw(k))
            /\ UNCHANGED <<config, requestVars, auditVars>>
  BY <1>0, <1>14, <1>15 DEF TimePasses, Introduce, Withdraw
<1>16. CASE UNCHANGED apiVars
  BY <1>0, <1>14, <1>16 DEF apiVars, jwksVars
<1> QED BY <1>4, <1>5, <1>6, <1>7, <1>8, <1>9, <1>10, <1>11, <1>12, <1>13, <1>15, <1>16
        DEF ApiNext, Served

\* ApiInv holds in every reachable state.
LEMMA ApiInvariant == ServerSpec => []ApiInv
<1>1. ServerInit => ApiInv
  BY InitApi DEF ServerInit
<1>2. ApiInv /\ [ServerNext]_serverVars => ApiInv'
  <2> SUFFICES ASSUME ApiInv, [ServerNext]_serverVars PROVE ApiInv'
    OBVIOUS
  <2>1. [ApiNext]_apiVars
    BY DEF ServerNext, serverVars
  <2> QED BY <2>1, StepKeys, StepRequests, StepDatedKeys, StepLookedUp, StepEntitled, StepAudits DEF ApiInv
<1> QED BY <1>1, <1>2, PTL DEF ServerSpec

\* Nobody reaches the handler of an admin route without the key of an admin or a
\* token of the admin group, signed with a key that was published long enough.
THEOREM AdminsCorrect == ServerSpec => []AdminsOnly
<1>1. ApiInv => AdminsOnly
  BY DEF ApiInv, Entitled, Shown, AdminsOnly
<1> QED BY <1>1, ApiInvariant, PTL

\* What an admin did stays on record for the retention, unless its record was
\* never written.
THEOREM AuditCorrect == ServerSpec => []AuditKept
<1>1. ApiInv => AuditKept
  BY DEF ApiInv
<1> QED BY <1>1, ApiInvariant, PTL

-----------------------------------------------------------------------------
(* Calls for sandboxes of remote workers.                                  *)

\* A call that is none is not under way, and the worker answers once.
CallOnce ==
  /\ op = "none" => handler = "none" /\ told = "none"
  /\ handler = "none" => reply = "none" /\ did = "nothing"
  /\ handler = "runs" => did = "nothing" /\ reply = "none"
  /\ op = "stream" => did = "nothing" /\ reply = "none"
  /\ reply \in {"none", "short", "long", "error"} /\ link \in {"up", "cut"}

\* What the answer says of the call, and what the caller was told before it.
Answered ==
  /\ reply \in {"short", "long"} => did = "all"
  /\ reply = "error" /\ did = "all" => link = "cut" \/ "worker deadline" \in over
  /\ told = "failure" /\ handler = "runs" /\ op # "stream" => link = "cut"
  /\ told = "success" => did = "all"
  /\ told = "failure" /\ did = "all" => link = "cut" \/ reply = "long" \/ "worker deadline" \in over

\* The numbers after a, one by one.
Consecutive(s, a) == \A i \in 1 .. Len(s) : s[i] = a + i
HasNote(s) == \E i \in 1 .. Len(s) : s[i] = Note

\* How much of the output lies before each buffer.
BeforeOut == Len(received)
BeforeRelayed == BeforeOut + Len(buffer["out"])
BeforeChunks == BeforeRelayed + Len(buffer["relayed"])
BeforeLines == BeforeChunks + Len(buffer["chunks"])
BeforeCommand == BeforeLines + Len(buffer["lines"])

\* What has come through the connection is a beginning of the output.
ExactHere ==
  /\ Consecutive(received, 0) /\ Consecutive(buffer["out"], BeforeOut)
  /\ Consecutive(buffer["relayed"], BeforeRelayed) /\ Consecutive(buffer["chunks"], BeforeChunks)

\* And so is, with it, what has not come through yet.
ExactThere ==
  /\ Consecutive(buffer["lines"], BeforeLines) /\ Consecutive(buffer["command"], BeforeCommand)
  /\ BeforeCommand + Len(buffer["command"]) = printed

NoteHere == HasNote(received) \/ HasNote(buffer["out"]) \/ HasNote(buffer["relayed"]) \/ errs # <<>>

StreamTyped ==
  /\ buffer \in [Buffers -> Seq(Nat)] /\ received \in Seq(Nat) /\ printed \in Nat
  /\ errs \in {<<>>, <<Note>>} /\ closed \subseteq Buffers
  /\ op # "stream" => closed = {} /\ told # "stream"

\* The buffers are closed in the order of the output, and the worker's only with
\* a reason.
ClosedInOrder ==
  /\ "command" \in closed => concluded \/ OverThere
  /\ "lines" \in closed =>
       link = "up" /\ handler = "over" /\ "command" \in closed /\ buffer["command"] = <<>>
  /\ "out" \in closed => told = "stream"

\* As long as its context is not over, the caller gets the whole output or a note.
Undisturbed ==
  /\ "chunks" \notin closed =>
       /\ errs = <<>> /\ "relayed" \notin closed
       /\ link = "up" =>
            \/ HasNote(buffer["lines"])
            \/ ExactHere /\ ExactThere /\ ("lines" \in closed => concluded)
  /\ "chunks" \in closed =>
       \/ NoteHere
       \/ concluded /\ "command" \in closed /\ ExactHere /\ BeforeLines = printed
  /\ "relayed" \in closed => "chunks" \in closed /\ buffer["chunks"] = <<>> /\ errs = <<>>
  /\ "out" \in closed => "relayed" \in closed /\ buffer["relayed"] = <<>>

StreamKept ==
  /\ ~OverHere => Undisturbed
  /\ "out" \in closed /\ "deadline" \in over /\ "client" \notin over =>
       HasNote(received) \/ HasNote(buffer["out"])

CallsInv == CallOnce /\ Answered /\ StreamTyped /\ ClosedInOrder /\ StreamKept

\* The initial state satisfies the invariant.
LEMMA InitCalls == ASSUME CallsInit PROVE CallsInv
<1> USE DEF CallsInit
<1>1. CallOnce /\ Answered /\ ClosedInOrder
  BY DEF CallOnce, Answered, ClosedInOrder
<1>2. StreamTyped
  BY DEF StreamTyped, Buffers
<1>3. StreamKept
  BY DEF StreamKept, Undisturbed, ExactHere, ExactThere, Consecutive, BeforeOut, BeforeRelayed,
         BeforeChunks, BeforeLines, BeforeCommand, OverHere, Buffers
<1> QED BY <1>1, <1>2, <1>3 DEF CallsInv

\* Every step keeps what the answers say.
LEMMA StepAnswers == ASSUME CallsInv, [CallsNext]_callVars PROVE (CallOnce /\ Answered)'
<1> SUFFICES ASSUME CallOnce, Answered, [CallsNext]_callVars PROVE (CallOnce /\ Answered)'
  BY DEF CallsInv
<1> USE DEF CallOnce, Answered
<1>1. ASSUME NEW o \in {"exec", "stream", "write", "read", "list", "delete", "move", "chmod", "stat", "glob",
                        "logs"},
             NEW timeouts, CallRemote(o, timeouts)
      PROVE  (CallOnce /\ Answered)'
  BY <1>1 DEF CallRemote
<1>2. CASE HandlerRefuses \/ ProviderFails
  BY <1>2 DEF HandlerRefuses, ProviderFails, Answers
<1>3. CASE handleExec
  BY <1>3 DEF handleExec, Answers, OverThere
<1>4. CASE handleFile
  BY <1>4 DEF handleFile, Answers
<1>5. CASE handleLogs
  BY <1>5 DEF handleLogs, Answers
<1>6. CASE Return
  BY <1>6 DEF Return, Failure
<1>7. CASE GiveUp
  BY <1>7 DEF GiveUp, Failure
<1>8. CASE RefuseStream
  BY <1>8 DEF RefuseStream, Streaming
<1>9. CASE UNCHANGED <<op, over, link, handler, reply, told, did>>
  BY <1>9
<1>10. CASE CommandPrints \/ CommandEnds \/ WriteLine \/ Relay \/ RelayEnds \/ ForwardChunk \/ ForwardEnds \/ ReadChunk
  BY <1>9, <1>10 DEF CommandPrints, CommandEnds, WriteLine, Relay, RelayEnds, ForwardChunk, ForwardEnds, ReadChunk,
                     OfWorker, OfClient
<1>11. CASE ScanLine \/ ScanEnds
  BY <1>9, <1>11 DEF ScanLine, ScanEnds, Fails, OfClient
<1>12. CASE WriteEnd
  BY <1>12 DEF WriteEnd, Streaming, OfWorker
<1>13. CASE OpenStream \/ OpenFails
  <2>1. op = "stream" /\ UNCHANGED <<op, over, link, handler, reply, did>> /\ told' \in {"stream", "timeout", "failure"}
    BY <1>13 DEF OpenStream, OpenFails, Failure, OfClient
  <2> QED BY <2>1
<1>14. CASE ClientLeaves \/ Deadline \/ WorkerDeadline
  <2>1. over \subseteq over' /\ UNCHANGED <<op, link, handler, reply, told, did>>
    BY <1>14 DEF ClientLeaves, Deadline, WorkerDeadline, Ends
  <2> QED BY <2>1
<1>15. CASE CutLink
  BY <1>15 DEF CutLink
<1>16. CASE UNCHANGED callVars
  BY <1>9, <1>16 DEF callVars
<1>17. CASE \/ execRemote \/ execStreamRemote \/ remoteConsoleLog
            \/ remoteFileWrite \/ remoteFileRead \/ remoteFileList \/ remoteFileDelete
            \/ remoteFileMove \/ remoteFileChmod \/ remoteFileStat \/ remoteFileGlob
  <2> HIDE DEF CallOnce, Answered
  <2> QED BY <1>1, <1>17 DEF execRemote, execStreamRemote, remoteConsoleLog, remoteFileWrite, remoteFileRead,
              remoteFileList, remoteFileDelete, remoteFileMove, remoteFileChmod, remoteFileStat, remoteFileGlob
<1> HIDE DEF CallOnce, Answered
<1> QED BY <1>2, <1>3, <1>4, <1>5, <1>6, <1>7, <1>8, <1>10, <1>11, <1>12, <1>13, <1>14, <1>15, <1>16, <1>17
        DEF CallsNext

\* A buffer that is set, and a chunk moved from one buffer to another.
LEMMA SetFacts ==
  ASSUME NEW f \in [Buffers -> Seq(Nat)], NEW b \in Buffers, NEW s \in Seq(Nat)
  PROVE  /\ [f EXCEPT ![b] = s] \in [Buffers -> Seq(Nat)]
         /\ [f EXCEPT ![b] = s][b] = s
         /\ \A d \in Buffers \ {b} : [f EXCEPT ![b] = s][d] = f[d]
OBVIOUS

LEMMA EndsFacts ==
  ASSUME NEW s \in Seq(Nat)
  PROVE  /\ \A x \in Nat : Append(s, x) \in Seq(Nat)
         /\ s # <<>> => Head(s) \in Nat /\ Tail(s) \in Seq(Nat)
OBVIOUS

LEMMA MovedFacts ==
  ASSUME NEW from \in Buffers, NEW to \in Buffers, from # to,
         buffer \in [Buffers -> Seq(Nat)], buffer[from] # <<>>
  PROVE  /\ Moved(from, to) \in [Buffers -> Seq(Nat)]
         /\ Moved(from, to)[from] = Tail(buffer[from])
         /\ Moved(from, to)[to] = Append(buffer[to], Head(buffer[from]))
         /\ \A b \in Buffers \ {from, to} : Moved(from, to)[b] = buffer[b]
<1>1. buffer[from] \in Seq(Nat) /\ Head(buffer[from]) \in Nat /\ Tail(buffer[from]) \in Seq(Nat)
  BY EndsFacts
<1>2. buffer[to] \in Seq(Nat) /\ Append(buffer[to], Head(buffer[from])) \in Seq(Nat)
  BY <1>1, EndsFacts
<1> QED BY <1>1, <1>2 DEF Moved

\* Every step keeps the types of the stream.
LEMMA StepStreamTyped == ASSUME CallsInv, [CallsNext]_callVars PROVE StreamTyped'
<1> USE DEF CallsInv, StreamTyped
<1>0. /\ {"command", "lines", "chunks", "relayed", "out"} = Buffers
      /\ Note \in Nat
  BY DEF Buffers, Note
<1>1. ASSUME UNCHANGED streamVars, op # "none" => op' = op, told' # told => told' # "stream"
      PROVE  StreamTyped'
  BY <1>1 DEF streamVars
<1>2. CASE \/ execRemote \/ execStreamRemote \/ remoteConsoleLog
           \/ remoteFileWrite \/ remoteFileRead \/ remoteFileList \/ remoteFileDelete
           \/ remoteFileMove \/ remoteFileChmod \/ remoteFileStat \/ remoteFileGlob
  BY <1>1, <1>2 DEF execRemote, execStreamRemote, remoteConsoleLog, remoteFileWrite, remoteFileRead,
              remoteFileList, remoteFileDelete, remoteFileMove, remoteFileChmod, remoteFileStat, remoteFileGlob,
              CallRemote
<1>3. CASE HandlerRefuses \/ ProviderFails \/ handleExec \/ handleFile \/ handleLogs
  BY <1>1, <1>3 DEF HandlerRefuses, ProviderFails, handleExec, handleFile, handleLogs, Answers
<1>4. CASE Return \/ GiveUp \/ RefuseStream
  BY <1>1, <1>4 DEF Return, GiveUp, RefuseStream, Failure
<1>5. CASE ClientLeaves \/ Deadline \/ WorkerDeadline
  BY <1>1, <1>5 DEF ClientLeaves, Deadline, WorkerDeadline, Ends
<1>6. CASE OpenStream \/ OpenFails
  BY <1>6 DEF OpenStream, OpenFails, OfClient, Failure
<1>7. CASE CommandPrints
  <2>1. printed' = printed + 1 /\ buffer' = [buffer EXCEPT !["command"] = Append(@, printed')]
    BY <1>7 DEF CommandPrints, Added
  <2>2. "command" \in Buffers /\ Append(buffer["command"], printed') \in Seq(Nat)
    BY <1>0, <2>1, EndsFacts
  <2>3. buffer' \in [Buffers -> Seq(Nat)]
    BY <2>1, <2>2
  <2> QED BY <1>7, <2>1, <2>3 DEF CommandPrints, OfWorker
<1>8. CASE CommandEnds
  BY <1>0, <1>8 DEF CommandEnds, Close, OfWorker, Streaming
<1>9. CASE WriteLine
  <2>1. UNCHANGED <<op, told, errs, received, closed, printed>> /\ buffer["command"] # <<>>
    BY <1>9 DEF WriteLine, OfWorker
  <2>2. buffer' \in [Buffers -> Seq(Nat)]
    <3>1. CASE buffer' = Moved("command", "lines")
      BY <1>0, <2>1, <3>1, MovedFacts
    <3>2. CASE buffer' = [buffer EXCEPT !["command"] = Tail(@)]
      <4>1. "command" \in Buffers
        BY <1>0
      <4>2. Tail(buffer["command"]) \in Seq(Nat)
        BY <2>1, <4>1, EndsFacts
      <4> QED BY <3>2, <4>2
    <3> QED BY <1>9, <3>1, <3>2 DEF WriteLine
  <2> QED BY <2>1, <2>2
<1>10. CASE WriteEnd
  <2>1. UNCHANGED <<op, told, errs, received, printed>> /\ op = "stream" /\ closed' \subseteq Buffers
    BY <1>0, <1>10 DEF WriteEnd, OfWorker, Streaming, Close
  <2>2. buffer' = buffer \/ buffer' = [buffer EXCEPT !["lines"] = Append(@, Note)]
    BY <1>10 DEF WriteEnd, Added
  <2>3. Append(buffer["lines"], Note) \in Seq(Nat)
    BY <1>0
  <2> QED BY <2>1, <2>2, <2>3
<1>11. CASE ScanLine
  <2>1. /\ UNCHANGED <<op, told, received, printed>> /\ told = "stream" /\ errs' \in {<<>>, <<Note>>}
        /\ closed' \subseteq Buffers /\ buffer["lines"] # <<>>
    BY <1>0, <1>11 DEF ScanLine, Scanning, Fails, Close, OfClient
  <2>2. buffer' = buffer \/ buffer' = Moved("lines", "chunks")
    BY <1>11 DEF ScanLine, Fails
  <2>3. buffer' \in [Buffers -> Seq(Nat)]
    BY <1>0, <2>1, <2>2, MovedFacts
  <2> QED BY <2>1, <2>3
<1>12. CASE ScanEnds
  BY <1>0, <1>12 DEF ScanEnds, Scanning, Fails, Close, OfClient
<1>13. CASE Relay
  <2>1. UNCHANGED <<op, told, received, printed, closed>> /\ errs' \in {errs, <<>>}
    BY <1>13 DEF Relay, OfClient
  <2>2. \/ buffer["chunks"] # <<>> /\ buffer' = Moved("chunks", "relayed")
        \/ buffer' = [buffer EXCEPT !["relayed"] = Append(@, Note)]
    BY <1>13 DEF Relay, Added
  <2>3. Append(buffer["relayed"], Note) \in Seq(Nat)
    BY <1>0
  <2>4. Moved("chunks", "relayed") \in [Buffers -> Seq(Nat)] \/ buffer["chunks"] = <<>>
    BY <1>0, MovedFacts
  <2>5. buffer' \in [Buffers -> Seq(Nat)]
    BY <2>2, <2>3, <2>4
  <2> QED BY <2>1, <2>5
<1>14. CASE RelayEnds
  BY <1>0, <1>14 DEF RelayEnds, Relaying, Close, OfClient
<1>15. CASE ForwardChunk
  <2>1. UNCHANGED <<op, told, received, printed, closed, errs>> /\ buffer["relayed"] # <<>>
    BY <1>15 DEF ForwardChunk, OfClient
  <2>2. buffer' = Moved("relayed", "out") \/ buffer' = [buffer EXCEPT !["relayed"] = Tail(@)]
    BY <1>15 DEF ForwardChunk
  <2>3. Tail(buffer["relayed"]) \in Seq(Nat)
    BY <1>0, <2>1
  <2>4. Moved("relayed", "out") \in [Buffers -> Seq(Nat)]
    BY <1>0, <2>1, MovedFacts
  <2>5. buffer' \in [Buffers -> Seq(Nat)]
    BY <2>2, <2>3, <2>4
  <2> QED BY <2>1, <2>5
<1>16. CASE ForwardEnds
  <2>1. /\ UNCHANGED <<op, told, received, printed, errs>> /\ told = "stream"
        /\ closed' = closed \cup {"out"}
    BY <1>16 DEF ForwardEnds, Forwarding, Close, OfClient
  <2>2. buffer' = buffer \/ buffer' = [buffer EXCEPT !["out"] = Append(@, Note)]
    BY <1>16 DEF ForwardEnds, Added
  <2>3. Append(buffer["out"], Note) \in Seq(Nat)
    BY <1>0
  <2> QED BY <1>0, <2>1, <2>2, <2>3
<1>17. CASE ReadChunk
  <2>1. /\ UNCHANGED <<op, told, printed, closed, errs>> /\ buffer["out"] # <<>>
        /\ received' = Append(received, Head(buffer["out"]))
        /\ buffer' = [buffer EXCEPT !["out"] = Tail(@)]
    BY <1>17 DEF ReadChunk
  <2>2. Head(buffer["out"]) \in Nat /\ Tail(buffer["out"]) \in Seq(Nat)
    BY <1>0, <2>1
  <2>3. received' \in Seq(Nat)
    BY <2>1, <2>2
  <2> QED BY <2>1, <2>2, <2>3
<1>18. CASE CutLink
  <2>1. UNCHANGED <<op, told, received, printed, errs>> /\ closed' \subseteq closed
    BY <1>18 DEF CutLink
  <2>2. PICK n \in 0 .. Len(buffer["lines"]) : buffer' = [buffer EXCEPT !["lines"] = SubSeq(@, 1, n)]
    BY <1>18 DEF CutLink
  <2>3. SubSeq(buffer["lines"], 1, n) \in Seq(Nat)
    <3>1. buffer["lines"] \in Seq(Nat) /\ n \in Int /\ n <= Len(buffer["lines"])
      BY <1>0
    <3> QED BY <3>1
  <2> QED BY <2>1, <2>2, <2>3
<1>19. CASE UNCHANGED callVars
  BY <1>1, <1>19 DEF callVars, streamVars
<1> HIDE DEF CallsInv, StreamTyped
<1> QED BY <1>2, <1>3, <1>4, <1>5, <1>6, <1>7, <1>8, <1>9, <1>10, <1>11, <1>12, <1>13, <1>14, <1>15, <1>16, <1>17,
           <1>18, <1>19 DEF CallsNext

\* Every step keeps the order in which the buffers are closed.
LEMMA StepClosed == ASSUME CallsInv, [CallsNext]_callVars PROVE ClosedInOrder'
<1>0. /\ StreamTyped /\ ClosedInOrder /\ buffer \in [Buffers -> Seq(Nat)]
      /\ op # "stream" => closed = {} /\ told # "stream"
      /\ link \in {"up", "cut"}
  BY DEF CallsInv, StreamTyped, CallOnce
<1> USE DEF ClosedInOrder
<1>1. ASSUME UNCHANGED <<link, handler, told, buffer, closed, concluded>>, over \subseteq over'
      PROVE  ClosedInOrder'
  BY <1>0, <1>1 DEF OverThere
<1>2. ASSUME closed = {}, closed' = {} PROVE ClosedInOrder'
  BY <1>2
<1>3. CASE \/ execRemote \/ execStreamRemote \/ remoteConsoleLog
           \/ remoteFileWrite \/ remoteFileRead \/ remoteFileList \/ remoteFileDelete
           \/ remoteFileMove \/ remoteFileChmod \/ remoteFileStat \/ remoteFileGlob
  <2>1. op = "none" /\ closed' = closed
    BY <1>3 DEF execRemote, execStreamRemote, remoteConsoleLog, remoteFileWrite, remoteFileRead,
              remoteFileList, remoteFileDelete, remoteFileMove, remoteFileChmod, remoteFileStat, remoteFileGlob,
              CallRemote, streamVars
  <2> QED BY <1>0, <1>2, <2>1
<1>4. CASE HandlerRefuses \/ ProviderFails \/ handleExec \/ handleFile \/ handleLogs
  <2>1. op # "stream" /\ closed' = closed
    BY <1>4 DEF HandlerRefuses, ProviderFails, handleExec, handleFile, handleLogs, Answers, streamVars
  <2> QED BY <1>0, <1>2, <2>1
<1>5. CASE GiveUp \/ RefuseStream
  <2>1. closed = {} /\ closed' = closed
    BY <1>0, <1>5 DEF GiveUp, RefuseStream, streamVars
  <2> QED BY <1>2, <2>1
<1>6. CASE Return
  <2>1. told = "none" /\ UNCHANGED <<over, link, handler, buffer, closed, concluded>>
    BY <1>6 DEF Return, streamVars
  <2> QED BY <1>0, <2>1 DEF OverThere
<1>7. CASE OpenStream \/ OpenFails
  <2>1. told = "none" /\ UNCHANGED <<over, link, handler, buffer, closed, concluded>>
    BY <1>7 DEF OpenStream, OpenFails, OfClient
  <2> QED BY <1>0, <2>1 DEF OverThere
<1>8. CASE ClientLeaves \/ Deadline \/ WorkerDeadline
  BY <1>1, <1>8 DEF ClientLeaves, Deadline, WorkerDeadline, Ends, streamVars
<1>9. CASE CommandPrints \/ CommandEnds \/ WriteLine
  <2>1. /\ handler = "runs" /\ UNCHANGED <<over, link, handler, told>> /\ closed \subseteq closed'
        /\ closed' \subseteq closed \cup {"command"} /\ (concluded => concluded')
        /\ "command" \in closed' => "command" \in closed \/ concluded' \/ OverThere
    BY <1>9 DEF CommandPrints, CommandEnds, WriteLine, Streaming, OfWorker, Close
  <2>2. OverThere' = OverThere
    BY <2>1 DEF OverThere
  <2>3. "lines" \notin closed /\ "lines" \notin closed'
    BY <1>0, <2>1
  <2>4. "command" \in closed' => concluded' \/ OverThere'
    BY <1>0, <2>1, <2>2
  <2>5. "out" \in closed' => told' = "stream"
    BY <1>0, <2>1
  <2> QED BY <2>3, <2>4, <2>5
<1>10. CASE WriteEnd
  <2>1. /\ UNCHANGED <<over, link, told, concluded>> /\ handler' = "over" /\ "command" \in closed
        /\ buffer["command"] = <<>>
    BY <1>10 DEF WriteEnd, OfWorker
  <2>2. CASE UNCHANGED <<buffer, closed>>
    BY <1>0, <2>1, <2>2 DEF OverThere
  <2>3. CASE /\ link # "cut" /\ closed' = closed \cup {"lines"}
             /\ buffer' = buffer \/ buffer' = [buffer EXCEPT !["lines"] = Append(@, Note)]
    <3>1. "command" \in Buffers /\ buffer'["command"] = buffer["command"]
      BY <1>0, <2>3 DEF Buffers
    <3>2. link = "up"
      BY <1>0, <2>3
    <3> QED BY <1>0, <2>1, <2>3, <3>1, <3>2 DEF OverThere
  <2> QED BY <1>10, <2>2, <2>3 DEF WriteEnd, Close, Added
<1>11. CASE ScanLine \/ ScanEnds \/ Relay \/ RelayEnds \/ ForwardChunk \/ ForwardEnds
  <2>1. /\ UNCHANGED <<over, link, handler, told, concluded>>
        /\ closed \subseteq closed' /\ closed' \subseteq closed \cup {"chunks", "relayed", "out"}
    BY <1>11 DEF ScanLine, ScanEnds, Fails, Relay, RelayEnds, ForwardChunk, ForwardEnds, OfClient, Close
  <2>2. "out" \in closed' => "out" \in closed \/ told = "stream"
    BY <1>11 DEF ScanLine, ScanEnds, Fails, Relay, RelayEnds, ForwardChunk, ForwardEnds, Forwarding, Close
  <2>3. buffer'["command"] = buffer["command"]
    BY <1>0, <1>11 DEF Buffers, ScanLine, ScanEnds, Fails, Relay, RelayEnds, ForwardChunk, ForwardEnds, Moved, Added
  <2> QED BY <1>0, <2>1, <2>2, <2>3 DEF OverThere
<1>12. CASE ReadChunk
  <2>1. /\ UNCHANGED <<over, link, handler, told, closed, concluded>>
        /\ buffer' = [buffer EXCEPT !["out"] = Tail(@)]
    BY <1>12 DEF ReadChunk
  <2>2. buffer'["command"] = buffer["command"]
    BY <1>0, <2>1 DEF Buffers
  <2> QED BY <1>0, <2>1, <2>2 DEF OverThere
<1>13. CASE CutLink
  <2>1. link' = "cut" /\ closed' = closed \ {"lines"} /\ UNCHANGED told
    BY <1>13 DEF CutLink
  <2> QED BY <1>0, <2>1 DEF OverThere
<1>14. CASE UNCHANGED callVars
  BY <1>1, <1>14 DEF callVars, streamVars
<1> HIDE DEF ClosedInOrder
<1> QED BY <1>3, <1>4, <1>5, <1>6, <1>7, <1>8, <1>9, <1>10, <1>11, <1>12, <1>13, <1>14 DEF CallsNext

\* A chunk that goes from one buffer to the end of the next keeps the order and
\* the notes.
LEMMA MoveExact ==
  ASSUME NEW s \in Seq(Nat), NEW t \in Seq(Nat), NEW a \in Nat, t # <<>>,
         Consecutive(s, a), Consecutive(t, a + Len(s))
  PROVE  /\ Consecutive(Append(s, Head(t)), a)
         /\ Consecutive(Tail(t), a + Len(s) + 1)
         /\ Len(Append(s, Head(t))) = Len(s) + 1 /\ Len(Tail(t)) = Len(t) - 1
<1>1. /\ Head(t) = t[1] /\ Len(t) >= 1 /\ Head(t) \in Nat /\ Len(Tail(t)) = Len(t) - 1
      /\ \A i \in 1 .. Len(t) - 1 : Tail(t)[i] = t[i + 1]
  OBVIOUS
<1>2. /\ Len(Append(s, Head(t))) = Len(s) + 1 /\ Append(s, Head(t))[Len(s) + 1] = Head(t)
      /\ \A i \in 1 .. Len(s) : Append(s, Head(t))[i] = s[i]
  BY <1>1
<1>3. Head(t) = a + Len(s) + 1
  BY <1>1 DEF Consecutive
<1>4. ASSUME NEW i \in 1 .. Len(s) + 1 PROVE Append(s, Head(t))[i] = a + i
  <2>1. CASE i \in 1 .. Len(s)
    BY <1>2, <2>1 DEF Consecutive
  <2>2. CASE i = Len(s) + 1
    BY <1>2, <1>3, <2>2
  <2> QED BY <2>1, <2>2
<1>5. ASSUME NEW i \in 1 .. Len(t) - 1 PROVE Tail(t)[i] = a + Len(s) + 1 + i
  <2>1. i + 1 \in 1 .. Len(t)
    OBVIOUS
  <2>2. t[i + 1] = a + Len(s) + (i + 1)
    BY <2>1 DEF Consecutive
  <2> QED BY <1>1, <2>2
<1> QED BY <1>1, <1>2, <1>4, <1>5 DEF Consecutive

LEMMA MoveLengths ==
  ASSUME NEW s \in Seq(Nat), NEW t \in Seq(Nat), t # <<>>
  PROVE  Len(Append(s, Head(t))) = Len(s) + 1 /\ Len(Tail(t)) = Len(t) - 1
<1>1. Head(t) \in Nat /\ Len(Tail(t)) = Len(t) - 1
  OBVIOUS
<1> QED BY <1>1

LEMMA MoveSum ==
  ASSUME NEW m \in Nat, NEW n \in Nat, NEW k \in Nat
  PROVE  (m + n + 1) + (k - 1) = (m + n) + k
OBVIOUS

LEMMA AppendExact ==
  ASSUME NEW s \in Seq(Nat), NEW a \in Nat, NEW n \in Nat, Consecutive(s, a), a + Len(s) = n
  PROVE  Consecutive(Append(s, n + 1), a)
<1>1. /\ Len(Append(s, n + 1)) = Len(s) + 1 /\ Append(s, n + 1)[Len(s) + 1] = n + 1
      /\ \A i \in 1 .. Len(s) : Append(s, n + 1)[i] = s[i]
  OBVIOUS
<1>2. ASSUME NEW i \in 1 .. Len(s) + 1 PROVE Append(s, n + 1)[i] = a + i
  <2>1. CASE i \in 1 .. Len(s)
    BY <1>1, <2>1 DEF Consecutive
  <2>2. CASE i = Len(s) + 1
    BY <1>1, <2>2
  <2> QED BY <2>1, <2>2
<1> QED BY <1>1, <1>2 DEF Consecutive

LEMMA AppendNote ==
  ASSUME NEW s \in Seq(Nat), NEW x \in Nat
  PROVE  /\ HasNote(s) => HasNote(Append(s, x))
         /\ x = Note => HasNote(Append(s, x))
<1>1. /\ Len(Append(s, x)) = Len(s) + 1 /\ Append(s, x)[Len(s) + 1] = x
      /\ \A i \in 1 .. Len(s) : Append(s, x)[i] = s[i]
  OBVIOUS
<1> QED BY <1>1 DEF HasNote

LEMMA TailNote ==
  ASSUME NEW s \in Seq(Nat), s # <<>>, HasNote(s) PROVE Head(s) = Note \/ HasNote(Tail(s))
<1>1. PICK i \in 1 .. Len(s) : s[i] = Note
  BY DEF HasNote
<1>2. CASE i = 1
  BY <1>1, <1>2
<1>3. CASE i # 1
  <2>1. i - 1 \in 1 .. Len(Tail(s)) /\ Tail(s)[i - 1] = s[i]
    BY <1>3
  <2> QED BY <1>1, <2>1 DEF HasNote
<1> QED BY <1>2, <1>3

LEMMA MoveNote ==
  ASSUME NEW s \in Seq(Nat), NEW t \in Seq(Nat), t # <<>>, HasNote(s) \/ HasNote(t)
  PROVE  HasNote(Append(s, Head(t))) \/ HasNote(Tail(t))
<1>1. Head(t) \in Nat
  BY EndsFacts
<1>2. CASE HasNote(s)
  BY <1>1, <1>2, AppendNote
<1>3. CASE HasNote(t)
  BY <1>1, <1>3, AppendNote, TailNote
<1> QED BY <1>2, <1>3

\* The five buffers, and what lies before each.
LEMMA BufferFacts ==
  ASSUME StreamTyped
  PROVE  /\ buffer["out"] \in Seq(Nat) /\ buffer["relayed"] \in Seq(Nat) /\ buffer["chunks"] \in Seq(Nat)
         /\ buffer["lines"] \in Seq(Nat) /\ buffer["command"] \in Seq(Nat)
         /\ BeforeOut \in Nat /\ BeforeRelayed \in Nat /\ BeforeChunks \in Nat
         /\ BeforeLines \in Nat /\ BeforeCommand \in Nat
<1>1. /\ buffer["out"] \in Seq(Nat) /\ buffer["relayed"] \in Seq(Nat) /\ buffer["chunks"] \in Seq(Nat)
      /\ buffer["lines"] \in Seq(Nat) /\ buffer["command"] \in Seq(Nat) /\ received \in Seq(Nat)
  BY DEF StreamTyped, Buffers
<1>2. /\ Len(buffer["out"]) \in Nat /\ Len(buffer["relayed"]) \in Nat /\ Len(buffer["chunks"]) \in Nat
      /\ Len(buffer["lines"]) \in Nat /\ Len(received) \in Nat
  BY <1>1
<1>3. \A m, n \in Nat : m + n \in Nat
  OBVIOUS
<1>4. BeforeOut \in Nat
  BY <1>2 DEF BeforeOut
<1>5. BeforeRelayed \in Nat
  BY <1>2, <1>3, <1>4 DEF BeforeRelayed
<1>6. BeforeChunks \in Nat
  BY <1>2, <1>3, <1>5 DEF BeforeChunks
<1>7. BeforeLines \in Nat
  BY <1>2, <1>3, <1>6 DEF BeforeLines
<1>8. BeforeCommand \in Nat
  BY <1>2, <1>3, <1>7 DEF BeforeCommand
<1> QED BY <1>1, <1>4, <1>5, <1>6, <1>7, <1>8

\* A chunk moved between two buffers changes no other.
LEMMA MovedBuffers ==
  ASSUME StreamTyped, NEW from \in Buffers, NEW to \in Buffers, from # to, buffer[from] # <<>>,
         buffer' = Moved(from, to)
  PROVE  /\ buffer'[from] = Tail(buffer[from]) /\ buffer'[to] = Append(buffer[to], Head(buffer[from]))
         /\ \A b \in Buffers \ {from, to} : buffer'[b] = buffer[b]
BY MovedFacts DEF StreamTyped

\* Each of the four moves, from a buffer to the one in front of it.
LEMMA MovedOnward ==
  ASSUME StreamTyped
  PROVE  /\ buffer["command"] # <<>> /\ buffer' = Moved("command", "lines") =>
              /\ buffer'["command"] = Tail(buffer["command"])
              /\ buffer'["lines"] = Append(buffer["lines"], Head(buffer["command"]))
         /\ buffer["lines"] # <<>> /\ buffer' = Moved("lines", "chunks") =>
              /\ buffer'["lines"] = Tail(buffer["lines"])
              /\ buffer'["chunks"] = Append(buffer["chunks"], Head(buffer["lines"]))
              /\ UNCHANGED <<buffer["out"], buffer["relayed"], buffer["command"]>>
         /\ buffer["chunks"] # <<>> /\ buffer' = Moved("chunks", "relayed") =>
              /\ buffer'["chunks"] = Tail(buffer["chunks"])
              /\ buffer'["relayed"] = Append(buffer["relayed"], Head(buffer["chunks"]))
              /\ UNCHANGED <<buffer["out"], buffer["lines"], buffer["command"]>>
         /\ buffer["relayed"] # <<>> /\ buffer' = Moved("relayed", "out") =>
              /\ buffer'["relayed"] = Tail(buffer["relayed"])
              /\ buffer'["out"] = Append(buffer["out"], Head(buffer["relayed"]))
              /\ UNCHANGED <<buffer["chunks"], buffer["lines"], buffer["command"]>>
<1>1. /\ "command" \in Buffers /\ "lines" \in Buffers /\ "chunks" \in Buffers
      /\ "relayed" \in Buffers /\ "out" \in Buffers
  BY DEF Buffers
<1>2. ASSUME buffer["command"] # <<>>, buffer' = Moved("command", "lines")
      PROVE  /\ buffer'["command"] = Tail(buffer["command"])
             /\ buffer'["lines"] = Append(buffer["lines"], Head(buffer["command"]))
  BY <1>1, <1>2, MovedBuffers
<1>3. ASSUME buffer["lines"] # <<>>, buffer' = Moved("lines", "chunks")
      PROVE  /\ buffer'["lines"] = Tail(buffer["lines"])
             /\ buffer'["chunks"] = Append(buffer["chunks"], Head(buffer["lines"]))
             /\ UNCHANGED <<buffer["out"], buffer["relayed"], buffer["command"]>>
  <2>1. /\ buffer'["lines"] = Tail(buffer["lines"])
        /\ buffer'["chunks"] = Append(buffer["chunks"], Head(buffer["lines"]))
        /\ \A b \in Buffers \ {"lines", "chunks"} : buffer'[b] = buffer[b]
    BY <1>1, <1>3, MovedBuffers
  <2> QED BY <1>1, <2>1
<1>4. ASSUME buffer["chunks"] # <<>>, buffer' = Moved("chunks", "relayed")
      PROVE  /\ buffer'["chunks"] = Tail(buffer["chunks"])
             /\ buffer'["relayed"] = Append(buffer["relayed"], Head(buffer["chunks"]))
             /\ UNCHANGED <<buffer["out"], buffer["lines"], buffer["command"]>>
  <2>1. /\ buffer'["chunks"] = Tail(buffer["chunks"])
        /\ buffer'["relayed"] = Append(buffer["relayed"], Head(buffer["chunks"]))
        /\ \A b \in Buffers \ {"chunks", "relayed"} : buffer'[b] = buffer[b]
    BY <1>1, <1>4, MovedBuffers
  <2> QED BY <1>1, <2>1
<1>5. ASSUME buffer["relayed"] # <<>>, buffer' = Moved("relayed", "out")
      PROVE  /\ buffer'["relayed"] = Tail(buffer["relayed"])
             /\ buffer'["out"] = Append(buffer["out"], Head(buffer["relayed"]))
             /\ UNCHANGED <<buffer["chunks"], buffer["lines"], buffer["command"]>>
  <2>1. /\ buffer'["relayed"] = Tail(buffer["relayed"])
        /\ buffer'["out"] = Append(buffer["out"], Head(buffer["relayed"]))
        /\ \A b \in Buffers \ {"relayed", "out"} : buffer'[b] = buffer[b]
    BY <1>1, <1>5, MovedBuffers
  <2> QED BY <1>1, <2>1
<1> QED BY <1>2, <1>3, <1>4, <1>5

\* What the worker does leaves the caller's side undisturbed.
LEMMA WorkerUndisturbed ==
  ASSUME CallsInv, Undisturbed, CommandPrints \/ CommandEnds \/ WriteLine \/ WriteEnd
  PROVE  Undisturbed'
<1>0. /\ StreamTyped /\ ClosedInOrder /\ printed \in Nat /\ link \in {"up", "cut"}
      /\ buffer \in [Buffers -> Seq(Nat)]
      /\ {"command", "lines", "chunks", "relayed", "out"} = Buffers
  BY DEF CallsInv, CallOnce, StreamTyped, Buffers
<1>1. /\ UNCHANGED <<link, errs, received>>
      /\ closed' \subseteq closed \cup {"command", "lines"} /\ closed \subseteq closed'
      /\ concluded => concluded'
  BY DEF CommandPrints, CommandEnds, WriteLine, WriteEnd, OfWorker, Close
<1>2. \A b \in {"out", "relayed", "chunks"} : buffer'[b] = buffer[b]
  BY <1>0, MovedFacts DEF CommandPrints, CommandEnds, WriteLine, WriteEnd, OfWorker, Added
<1>3. "command" \notin closed \/ printed' = printed
  BY DEF CommandPrints, CommandEnds, WriteLine, WriteEnd, OfWorker
<1>4. /\ ExactHere' = ExactHere /\ NoteHere' = NoteHere /\ BeforeLines' = BeforeLines
      /\ BeforeRelayed' = BeforeRelayed /\ BeforeChunks' = BeforeChunks
  BY <1>1, <1>2 DEF ExactHere, NoteHere, BeforeOut, BeforeRelayed, BeforeChunks, BeforeLines
<1>5. CASE "chunks" \in closed
  BY <1>1, <1>2, <1>3, <1>4, <1>5 DEF Undisturbed
<1>6. CASE "chunks" \notin closed /\ link = "cut"
  BY <1>1, <1>2, <1>6 DEF Undisturbed
<1>7. ASSUME "chunks" \notin closed, link = "up",
             HasNote(buffer["lines"])' \/ (ExactHere /\ ExactThere' /\ ("lines" \in closed' => concluded'))
      PROVE  Undisturbed'
  BY <1>1, <1>2, <1>4, <1>7 DEF Undisturbed
<1>8. ASSUME "chunks" \notin closed, link = "up"
      PROVE  HasNote(buffer["lines"])' \/ (ExactHere /\ ExactThere' /\ ("lines" \in closed' => concluded'))
  <2>0. HasNote(buffer["lines"]) \/ (ExactHere /\ ExactThere /\ ("lines" \in closed => concluded))
    BY <1>8 DEF Undisturbed
  <2>1. CASE CommandPrints
    <3>1. /\ buffer'["lines"] = buffer["lines"] /\ UNCHANGED <<closed, concluded>> /\ printed' = printed + 1
          /\ buffer'["command"] = Append(buffer["command"], printed + 1)
      BY <1>0, <2>1 DEF CommandPrints, Added
    <3>2. CASE HasNote(buffer["lines"])
      BY <3>1, <3>2
    <3>3. CASE ExactHere /\ ExactThere /\ ("lines" \in closed => concluded)
      <4>1. Consecutive(buffer["command"], BeforeCommand) /\ BeforeCommand + Len(buffer["command"]) = printed
        BY <3>3 DEF ExactThere
      <4>2. Consecutive(Append(buffer["command"], printed + 1), BeforeCommand)
        BY <1>0, <4>1, BufferFacts, AppendExact
      <4>3. BeforeCommand' = BeforeCommand
        BY <1>4, <3>1 DEF BeforeCommand
      <4>4. Len(buffer'["command"]) = Len(buffer["command"]) + 1
        BY <1>0, <3>1, BufferFacts
      <4>5. BeforeCommand + (Len(buffer["command"]) + 1) = printed + 1
        <5>1. BeforeCommand \in Nat /\ Len(buffer["command"]) \in Nat
          BY <1>0, BufferFacts
        <5> QED BY <1>0, <4>1, <5>1
      <4>6. ExactThere'
        BY <1>4, <3>1, <3>3, <4>2, <4>3, <4>4, <4>5 DEF ExactThere
      <4> QED BY <3>1, <3>3, <4>6
    <3> QED BY <2>0, <3>2, <3>3
  <2>2. CASE CommandEnds
    <3>1. /\ UNCHANGED <<buffer, printed>> /\ closed' = closed \cup {"command"}
      BY <2>2 DEF CommandEnds, Close
    <3>2. ExactThere' = ExactThere
      BY <1>4, <3>1 DEF ExactThere, BeforeCommand
    <3> QED BY <1>1, <2>0, <3>1, <3>2
  <2>3. CASE WriteLine
    <3>1. buffer["command"] # <<>> /\ buffer' = Moved("command", "lines") /\ UNCHANGED <<closed, printed, concluded>>
      BY <1>8, <2>3 DEF WriteLine
    <3>2. /\ buffer'["command"] = Tail(buffer["command"])
          /\ buffer'["lines"] = Append(buffer["lines"], Head(buffer["command"]))
      BY <1>0, <3>1, MovedOnward
    <3>3. CASE HasNote(buffer["lines"])
      <4>1. Head(buffer["command"]) \in Nat
        BY <1>0, <3>1, BufferFacts, EndsFacts
      <4> QED BY <1>0, <3>2, <3>3, <4>1, BufferFacts, AppendNote
    <3>4. CASE ExactHere /\ ExactThere /\ ("lines" \in closed => concluded)
      <4>1. /\ Consecutive(buffer["lines"], BeforeLines)
            /\ Consecutive(buffer["command"], BeforeLines + Len(buffer["lines"]))
            /\ BeforeCommand + Len(buffer["command"]) = printed
            /\ BeforeCommand = BeforeLines + Len(buffer["lines"])
        BY <3>4 DEF ExactThere, BeforeCommand
      <4>2. /\ Consecutive(buffer'["lines"], BeforeLines)
            /\ Consecutive(buffer'["command"], BeforeLines + Len(buffer["lines"]) + 1)
            /\ Len(buffer'["lines"]) = Len(buffer["lines"]) + 1
            /\ Len(buffer'["command"]) = Len(buffer["command"]) - 1
        <5>1. /\ BeforeLines \in Nat /\ buffer["lines"] \in Seq(Nat) /\ buffer["command"] \in Seq(Nat)
              /\ buffer["command"] # <<>>
          BY <1>0, <3>1, BufferFacts
        <5>2. /\ Consecutive(Append(buffer["lines"], Head(buffer["command"])), BeforeLines)
              /\ Consecutive(Tail(buffer["command"]), BeforeLines + Len(buffer["lines"]) + 1)
              /\ Len(Append(buffer["lines"], Head(buffer["command"]))) = Len(buffer["lines"]) + 1
              /\ Len(Tail(buffer["command"])) = Len(buffer["command"]) - 1
          BY <4>1, <5>1, MoveExact
        <5> QED BY <3>2, <5>2
      <4>3. BeforeCommand' = BeforeLines + Len(buffer["lines"]) + 1
        BY <1>0, <1>4, <4>2, BufferFacts DEF BeforeCommand
      <4>4. BeforeCommand' + Len(buffer'["command"]) = printed
        BY <1>0, <4>1, <4>2, <4>3, BufferFacts
      <4>5. ExactThere'
        BY <1>4, <3>1, <4>2, <4>3, <4>4 DEF ExactThere
      <4> QED BY <3>1, <3>4, <4>5
    <3> QED BY <2>0, <3>3, <3>4
  <2>4. CASE WriteEnd
    <3>1. /\ "command" \in closed /\ UNCHANGED <<printed, concluded>>
          /\ IF OverThere THEN buffer' = [buffer EXCEPT !["lines"] = Append(@, Note)] ELSE UNCHANGED buffer
      BY <1>8, <2>4 DEF WriteEnd, Added
    <3>2. CASE OverThere
      <4>1. buffer'["lines"] = Append(buffer["lines"], Note) /\ Note \in Nat
        BY <1>0, <3>1, <3>2 DEF Note
      <4> QED BY <1>0, <4>1, BufferFacts, AppendNote
    <3>3. CASE ~OverThere
      <4>1. concluded' /\ UNCHANGED buffer
        BY <1>0, <3>1, <3>3 DEF ClosedInOrder
      <4>2. ExactThere' = ExactThere
        BY <1>4, <3>1, <4>1 DEF ExactThere, BeforeCommand
      <4> QED BY <2>0, <4>1, <4>2
    <3> QED BY <3>2, <3>3
  <2> QED BY <2>1, <2>2, <2>3, <2>4
<1> QED BY <1>0, <1>5, <1>6, <1>7, <1>8

\* A chunk on its way through the caller's buffers changes nothing behind them.
LEMMA MoveKept ==
  ASSUME StreamTyped, UNCHANGED <<link, closed, errs, printed, concluded>>,
         UNCHANGED <<buffer["lines"], buffer["command"]>>,
         BeforeLines' = BeforeLines, ExactHere => ExactHere', NoteHere => NoteHere', Undisturbed,
         "relayed" \in closed => "chunks" \in closed /\ buffer'["chunks"] = <<>>,
         "out" \in closed => "relayed" \in closed /\ buffer'["relayed"] = <<>>
  PROVE  Undisturbed'
<1>1. BeforeCommand' = BeforeCommand
  BY DEF BeforeCommand
<1>2. ExactThere' = ExactThere /\ HasNote(buffer["lines"])' = HasNote(buffer["lines"])
  BY <1>1 DEF ExactThere
<1> QED BY <1>2 DEF Undisturbed

\* What the client and the goroutines of the manager do leaves it undisturbed.
LEMMA CallerUndisturbed ==
  ASSUME CallsInv, Undisturbed, ~OverHere,
         ScanLine \/ ScanEnds \/ Relay \/ RelayEnds \/ ForwardChunk \/ ForwardEnds \/ ReadChunk
  PROVE  Undisturbed'
<1>0. /\ StreamTyped /\ ClosedInOrder /\ printed \in Nat /\ link \in {"up", "cut"}
      /\ buffer \in [Buffers -> Seq(Nat)] /\ received \in Seq(Nat) /\ errs \in {<<>>, <<Note>>}
      /\ {"command", "lines", "chunks", "relayed", "out"} = Buffers
  BY DEF CallsInv, CallOnce, StreamTyped, Buffers
<1>1. CASE ScanLine
  <2>1. /\ "chunks" \notin closed /\ buffer["lines"] # <<>> /\ UNCHANGED <<link, received, printed, concluded>>
        /\ errs = <<>> /\ "relayed" \notin closed /\ "out" \notin closed
    BY <1>1 DEF ScanLine, Scanning, OfClient, Undisturbed
  <2>2. CASE Head(buffer["lines"]) = Note
    <3>1. errs' = <<Note>> /\ closed' = closed \cup {"chunks"}
      BY <1>1, <2>2 DEF ScanLine, Fails, Close
    <3>2. errs' # <<>>
      BY <3>1
    <3> QED BY <2>1, <3>1, <3>2 DEF Undisturbed, NoteHere
  <2>3. CASE Head(buffer["lines"]) # Note
    <3>1. buffer' = Moved("lines", "chunks") /\ UNCHANGED <<closed, errs>>
      BY <1>1, <2>3 DEF ScanLine
    <3>2. /\ buffer'["lines"] = Tail(buffer["lines"])
          /\ buffer'["chunks"] = Append(buffer["chunks"], Head(buffer["lines"]))
          /\ UNCHANGED <<buffer["out"], buffer["relayed"], buffer["command"]>>
      BY <1>0, <2>1, <3>1, MovedOnward
    <3>3. ASSUME link = "up", HasNote(buffer["lines"]) PROVE HasNote(buffer["lines"])'
      BY <1>0, <2>1, <2>3, <3>2, <3>3, BufferFacts, TailNote
    <3>4. ASSUME ExactHere, ExactThere PROVE ExactHere' /\ ExactThere'
      <4>1. /\ Consecutive(buffer["chunks"], BeforeChunks)
            /\ Consecutive(buffer["lines"], BeforeChunks + Len(buffer["chunks"]))
        BY <3>4 DEF ExactHere, ExactThere, BeforeLines
      <4>2. /\ BeforeChunks \in Nat /\ buffer["chunks"] \in Seq(Nat) /\ buffer["lines"] \in Seq(Nat)
            /\ Len(buffer["chunks"]) \in Nat /\ Len(buffer["lines"]) \in Nat /\ BeforeLines \in Nat
        BY <1>0, BufferFacts
      <4>3. /\ Consecutive(buffer'["chunks"], BeforeChunks)
            /\ Consecutive(buffer'["lines"], BeforeChunks + Len(buffer["chunks"]) + 1)
            /\ Len(buffer'["chunks"]) = Len(buffer["chunks"]) + 1
            /\ Len(buffer'["lines"]) = Len(buffer["lines"]) - 1
        BY <2>1, <3>2, <4>1, <4>2, MoveExact
      <4>4. UNCHANGED <<BeforeOut, BeforeRelayed, BeforeChunks>>
        BY <2>1, <3>2 DEF BeforeOut, BeforeRelayed, BeforeChunks
      <4>5. BeforeLines' = BeforeLines + 1 /\ BeforeLines' = BeforeChunks + Len(buffer["chunks"]) + 1
        BY <4>2, <4>3, <4>4 DEF BeforeLines
      <4>6. BeforeCommand' = BeforeCommand
        <5>1. /\ BeforeCommand' = (BeforeChunks + Len(buffer["chunks"]) + 1) + (Len(buffer["lines"]) - 1)
              /\ BeforeCommand = (BeforeChunks + Len(buffer["chunks"])) + Len(buffer["lines"])
          BY <4>3, <4>5 DEF BeforeCommand, BeforeLines
        <5> QED BY <4>2, <5>1, MoveSum
      <4> QED BY <2>1, <3>2, <3>4, <4>3, <4>4, <4>5, <4>6 DEF ExactHere, ExactThere
    <3> QED BY <2>1, <3>1, <3>3, <3>4 DEF Undisturbed
  <2> QED BY <2>2, <2>3
<1>2. CASE ScanEnds
  <2>1. /\ "chunks" \notin closed /\ UNCHANGED <<link, received, printed, concluded, buffer>>
        /\ errs = <<>> /\ "relayed" \notin closed /\ "out" \notin closed
        /\ closed' = closed \cup {"chunks"}
    BY <1>2 DEF ScanEnds, Scanning, OfClient, Fails, Close, Undisturbed
  <2>2. CASE errs' = <<Note>>
    <3>1. errs' # <<>>
      BY <2>2
    <3> QED BY <2>1, <3>1 DEF Undisturbed, NoteHere
  <2>3. CASE "lines" \in closed /\ buffer["lines"] = <<>> /\ UNCHANGED errs
    <3>1. ~HasNote(buffer["lines"])
      BY <2>3 DEF HasNote
    <3>2. /\ link = "up" /\ "command" \in closed /\ buffer["command"] = <<>>
          /\ concluded /\ ExactHere /\ ExactThere
      BY <1>0, <2>1, <2>3, <3>1 DEF ClosedInOrder, Undisturbed
    <3>3. BeforeLines = printed
      <4>1. BeforeCommand + Len(buffer["command"]) = printed /\ BeforeCommand = BeforeLines + Len(buffer["lines"])
        BY <3>2 DEF ExactThere, BeforeCommand
      <4>2. Len(buffer["command"]) = 0 /\ Len(buffer["lines"]) = 0 /\ BeforeLines \in Nat
        BY <1>0, <2>3, <3>2, BufferFacts
      <4> QED BY <1>0, <4>1, <4>2
    <3>4. ExactHere' = ExactHere /\ BeforeLines' = BeforeLines
      BY <2>1 DEF ExactHere, BeforeLines, BeforeChunks, BeforeRelayed, BeforeOut
    <3> QED BY <2>1, <2>3, <3>2, <3>3, <3>4 DEF Undisturbed
  <2> QED BY <1>2, <2>2, <2>3 DEF ScanEnds, Fails
<1>3. CASE Relay
  <2>1. "relayed" \notin closed /\ "out" \notin closed /\ UNCHANGED <<link, received, closed, printed, concluded>>
    BY <1>3 DEF Relay, Relaying, OfClient, Undisturbed
  <2>2. CASE buffer["chunks"] # <<>> /\ buffer' = Moved("chunks", "relayed") /\ UNCHANGED errs
    <3>1. /\ buffer'["chunks"] = Tail(buffer["chunks"])
          /\ buffer'["relayed"] = Append(buffer["relayed"], Head(buffer["chunks"]))
          /\ UNCHANGED <<buffer["out"], buffer["lines"], buffer["command"]>>
      BY <1>0, <2>2, MovedOnward
    <3>2. /\ BeforeRelayed \in Nat /\ buffer["chunks"] \in Seq(Nat) /\ buffer["relayed"] \in Seq(Nat)
          /\ Len(buffer["chunks"]) \in Nat /\ Len(buffer["relayed"]) \in Nat
          /\ Head(buffer["chunks"]) \in Nat
      BY <1>0, <2>2, BufferFacts, EndsFacts
    <3>3. Len(buffer'["relayed"]) = Len(buffer["relayed"]) + 1 /\ Len(buffer'["chunks"]) = Len(buffer["chunks"]) - 1
      BY <2>2, <3>1, <3>2, MoveLengths
    <3>4. BeforeOut' = BeforeOut /\ BeforeRelayed' = BeforeRelayed
      BY <2>1, <3>1 DEF BeforeOut, BeforeRelayed
    <3>5. BeforeChunks' = BeforeRelayed + Len(buffer["relayed"]) + 1
      BY <3>2, <3>3, <3>4 DEF BeforeChunks
    <3>6. BeforeLines' = BeforeLines
      <4>1. /\ BeforeLines' = (BeforeRelayed + Len(buffer["relayed"]) + 1) + (Len(buffer["chunks"]) - 1)
            /\ BeforeLines = (BeforeRelayed + Len(buffer["relayed"])) + Len(buffer["chunks"])
        BY <3>3, <3>5 DEF BeforeLines, BeforeChunks
      <4> QED BY <3>2, <4>1, MoveSum
    <3>7. ExactHere => ExactHere'
      <4> SUFFICES ASSUME ExactHere PROVE ExactHere'
        OBVIOUS
      <4>1. /\ Consecutive(buffer["relayed"], BeforeRelayed)
            /\ Consecutive(buffer["chunks"], BeforeRelayed + Len(buffer["relayed"]))
        BY DEF ExactHere, BeforeChunks
      <4>2. /\ Consecutive(buffer'["relayed"], BeforeRelayed)
            /\ Consecutive(buffer'["chunks"], BeforeRelayed + Len(buffer["relayed"]) + 1)
        BY <2>2, <3>1, <3>2, <4>1, MoveExact
      <4> QED BY <2>1, <3>1, <3>4, <3>5, <4>2 DEF ExactHere
    <3>8. NoteHere => NoteHere'
      BY <2>1, <2>2, <3>1, <3>2, AppendNote DEF NoteHere
    <3> QED BY <1>0, <2>1, <2>2, <3>1, <3>6, <3>7, <3>8, MoveKept
  <2>3. CASE ChunksDone /\ errs # <<>> /\ buffer' = Added("relayed", Note) /\ errs' = <<>>
    <3>1. /\ "chunks" \in closed
          /\ buffer'["relayed"] = Append(buffer["relayed"], Note)
          /\ buffer["relayed"] \in Seq(Nat) /\ Note \in Nat
      BY <1>0, <2>3, BufferFacts DEF ChunksDone, Added, Note
    <3>2. HasNote(buffer'["relayed"])
      BY <3>1, AppendNote
    <3> QED BY <2>1, <3>1, <3>2 DEF Undisturbed, NoteHere
  <2> QED BY <1>3, <2>2, <2>3 DEF Relay
<1>4. CASE RelayEnds
  <2>1. /\ "relayed" \notin closed /\ closed' = closed \cup {"relayed"}
        /\ UNCHANGED <<link, received, printed, concluded, buffer, errs>>
        /\ "chunks" \in closed /\ buffer["chunks"] = <<>> /\ errs = <<>>
    BY <1>4 DEF RelayEnds, Relaying, OfClient, ChunksDone, Close
  <2>2. ExactHere' = ExactHere /\ BeforeLines' = BeforeLines /\ NoteHere' = NoteHere
    BY <2>1 DEF ExactHere, BeforeLines, BeforeChunks, BeforeRelayed, BeforeOut, NoteHere
  <2> QED BY <2>1, <2>2 DEF Undisturbed
<1>5. CASE ForwardChunk
  <2>1. /\ "out" \notin closed /\ UNCHANGED <<link, received, closed, errs, printed, concluded>>
        /\ buffer["relayed"] # <<>> /\ buffer' = Moved("relayed", "out")
    BY <1>5 DEF ForwardChunk, Forwarding, OfClient
  <2>2. /\ buffer'["relayed"] = Tail(buffer["relayed"])
        /\ buffer'["out"] = Append(buffer["out"], Head(buffer["relayed"]))
        /\ UNCHANGED <<buffer["chunks"], buffer["lines"], buffer["command"]>>
    BY <1>0, <2>1, MovedOnward
  <2>3. /\ BeforeOut \in Nat /\ buffer["relayed"] \in Seq(Nat) /\ buffer["out"] \in Seq(Nat)
        /\ Len(buffer["relayed"]) \in Nat /\ Len(buffer["out"]) \in Nat
        /\ Head(buffer["relayed"]) \in Nat
    BY <1>0, <2>1, BufferFacts, EndsFacts
  <2>4. Len(buffer'["out"]) = Len(buffer["out"]) + 1 /\ Len(buffer'["relayed"]) = Len(buffer["relayed"]) - 1
    BY <2>1, <2>2, <2>3, MoveLengths
  <2>5. BeforeOut' = BeforeOut
    BY <2>1 DEF BeforeOut
  <2>6. BeforeRelayed' = BeforeOut + Len(buffer["out"]) + 1
    BY <2>3, <2>4, <2>5 DEF BeforeRelayed
  <2>7. BeforeChunks' = BeforeChunks
    <3>1. /\ BeforeChunks' = (BeforeOut + Len(buffer["out"]) + 1) + (Len(buffer["relayed"]) - 1)
          /\ BeforeChunks = (BeforeOut + Len(buffer["out"])) + Len(buffer["relayed"])
      BY <2>4, <2>6 DEF BeforeChunks, BeforeRelayed
    <3> QED BY <2>3, <3>1, MoveSum
  <2>8. BeforeLines' = BeforeLines
    BY <2>2, <2>7 DEF BeforeLines
  <2>9. ExactHere => ExactHere'
    <3> SUFFICES ASSUME ExactHere PROVE ExactHere'
      OBVIOUS
    <3>1. Consecutive(buffer["out"], BeforeOut) /\ Consecutive(buffer["relayed"], BeforeOut + Len(buffer["out"]))
      BY DEF ExactHere, BeforeRelayed
    <3>2. /\ Consecutive(buffer'["out"], BeforeOut)
          /\ Consecutive(buffer'["relayed"], BeforeOut + Len(buffer["out"]) + 1)
      BY <2>1, <2>2, <2>3, <3>1, MoveExact
    <3> QED BY <2>1, <2>2, <2>5, <2>6, <2>7, <3>2 DEF ExactHere
  <2>10. NoteHere => NoteHere'
    BY <2>1, <2>2, <2>3, MoveNote DEF NoteHere
  <2>11. "relayed" \in closed => "chunks" \in closed /\ buffer'["chunks"] = <<>>
    BY <2>2 DEF Undisturbed
  <2> QED BY <1>0, <2>1, <2>2, <2>8, <2>9, <2>10, <2>11, MoveKept
<1>6. CASE ForwardEnds
  <2>1. /\ "relayed" \in closed /\ buffer["relayed"] = <<>> /\ closed' = closed \cup {"out"}
        /\ UNCHANGED <<link, received, printed, concluded, buffer, errs>>
    BY <1>6 DEF ForwardEnds, OfClient, Close, OverHere
  <2>2. /\ ExactHere' = ExactHere /\ ExactThere' = ExactThere /\ BeforeLines' = BeforeLines
        /\ NoteHere' = NoteHere
    BY <2>1 DEF ExactHere, ExactThere, BeforeLines, BeforeChunks, BeforeRelayed, BeforeOut, BeforeCommand, NoteHere
  <2> QED BY <2>1, <2>2 DEF Undisturbed
<1>7. CASE ReadChunk
  <2>1. /\ UNCHANGED <<link, closed, errs, printed, concluded>> /\ buffer["out"] # <<>>
        /\ received' = Append(received, Head(buffer["out"]))
        /\ buffer' = [buffer EXCEPT !["out"] = Tail(@)]
    BY <1>7 DEF ReadChunk
  <2>2. /\ buffer'["out"] = Tail(buffer["out"])
        /\ UNCHANGED <<buffer["relayed"], buffer["chunks"], buffer["lines"], buffer["command"]>>
    BY <1>0, <2>1
  <2>3. /\ buffer["out"] \in Seq(Nat) /\ Len(received) \in Nat /\ Len(buffer["out"]) \in Nat
    BY <1>0, BufferFacts
  <2>4. Len(received') = Len(received) + 1 /\ Len(buffer'["out"]) = Len(buffer["out"]) - 1
    BY <1>0, <2>1, <2>2, <2>3
  <2>5. BeforeOut' = Len(received) + 1
    BY <2>4 DEF BeforeOut
  <2>6. BeforeRelayed' = BeforeRelayed
    <3>1. /\ BeforeRelayed' = (Len(received) + 1) + (Len(buffer["out"]) - 1)
          /\ BeforeRelayed = Len(received) + Len(buffer["out"])
      BY <2>4, <2>5 DEF BeforeRelayed, BeforeOut
    <3>2. \A m, k \in Nat : (m + 1) + (k - 1) = m + k
      OBVIOUS
    <3> QED BY <2>3, <3>1, <3>2
  <2>7. BeforeChunks' = BeforeChunks /\ BeforeLines' = BeforeLines
    BY <2>2, <2>6 DEF BeforeChunks, BeforeLines
  <2>8. ExactHere => ExactHere'
    <3> SUFFICES ASSUME ExactHere PROVE ExactHere'
      OBVIOUS
    <3>1. Consecutive(received, 0) /\ Consecutive(buffer["out"], 0 + Len(received))
      BY <2>3 DEF ExactHere, BeforeOut
    <3>2. Consecutive(received', 0) /\ Consecutive(buffer'["out"], 0 + Len(received) + 1)
      BY <1>0, <2>1, <2>2, <2>3, <3>1, MoveExact
    <3>3. 0 + Len(received) + 1 = Len(received) + 1
      BY <2>3
    <3> QED BY <2>2, <2>5, <2>6, <2>7, <3>2, <3>3 DEF ExactHere
  <2>9. NoteHere => NoteHere'
    BY <1>0, <2>1, <2>2, <2>3, MoveNote DEF NoteHere
  <2>10. /\ "relayed" \in closed => "chunks" \in closed /\ buffer'["chunks"] = <<>>
         /\ "out" \in closed => "relayed" \in closed /\ buffer'["relayed"] = <<>>
    BY <2>2 DEF Undisturbed
  <2> QED BY <1>0, <2>1, <2>2, <2>7, <2>8, <2>9, <2>10, MoveKept
<1> QED BY <1>1, <1>2, <1>3, <1>4, <1>5, <1>6, <1>7

\* What happens outside the stream, or to its connection, leaves it undisturbed.
LEMMA OthersUndisturbed ==
  ASSUME StreamTyped, Undisturbed, link \in {"up", "cut"},
         (UNCHANGED streamVars /\ link' \in {link, "cut"}) \/ CutLink
  PROVE  Undisturbed'
<1>1. CASE UNCHANGED streamVars /\ link' \in {link, "cut"}
  <2>1. /\ ExactHere' = ExactHere /\ ExactThere' = ExactThere /\ BeforeLines' = BeforeLines
        /\ NoteHere' = NoteHere /\ HasNote(buffer["lines"])' = HasNote(buffer["lines"])
    BY <1>1 DEF streamVars, ExactHere, ExactThere, BeforeLines, BeforeChunks, BeforeRelayed, BeforeOut,
                BeforeCommand, NoteHere
  <2>2. UNCHANGED <<closed, errs, buffer, printed, concluded>> /\ (link' = "up" => link = "up")
    BY <1>1 DEF streamVars
  <2> QED BY <2>1, <2>2 DEF Undisturbed
<1>2. CASE CutLink
  <2>1. /\ link' = "cut" /\ closed' = closed \ {"lines"} /\ UNCHANGED <<errs, printed, concluded, received>>
        /\ \E n \in 0 .. Len(buffer["lines"]) : buffer' = [buffer EXCEPT !["lines"] = SubSeq(@, 1, n)]
    BY <1>2 DEF CutLink
  <2>2. UNCHANGED <<buffer["out"], buffer["relayed"], buffer["chunks"]>>
    BY <2>1 DEF StreamTyped, Buffers
  <2>3. ExactHere' = ExactHere /\ BeforeLines' = BeforeLines /\ NoteHere' = NoteHere
    BY <2>1, <2>2 DEF ExactHere, BeforeLines, BeforeChunks, BeforeRelayed, BeforeOut, NoteHere
  <2> QED BY <2>1, <2>2, <2>3 DEF Undisturbed
<1> QED BY <1>1, <1>2

\* Every step of a call is one of the worker's or the caller's side of the stream,
\* or leaves the stream alone.
LEMMA StepKinds ==
  ASSUME [CallsNext]_callVars, CallOnce
  PROVE  \/ (CommandPrints \/ CommandEnds \/ WriteLine \/ WriteEnd) /\ UNCHANGED over
         \/ /\ ScanLine \/ ScanEnds \/ Relay \/ RelayEnds \/ ForwardChunk \/ ForwardEnds \/ ReadChunk
            /\ UNCHANGED over
         \/ /\ (UNCHANGED streamVars /\ link' \in {link, "cut"}) \/ CutLink
            /\ over \subseteq over'
            /\ "deadline" \in over' => "deadline" \in over \/ UnderWay
<1>1. CASE \/ execRemote \/ execStreamRemote \/ remoteConsoleLog
           \/ remoteFileWrite \/ remoteFileRead \/ remoteFileList \/ remoteFileDelete
           \/ remoteFileMove \/ remoteFileChmod \/ remoteFileStat \/ remoteFileGlob
  <2>1. UNCHANGED <<over, link>> /\ UNCHANGED streamVars
    BY <1>1 DEF execRemote, execStreamRemote, remoteConsoleLog, remoteFileWrite, remoteFileRead,
              remoteFileList, remoteFileDelete, remoteFileMove, remoteFileChmod, remoteFileStat, remoteFileGlob,
              CallRemote
  <2> QED BY <2>1
<1>2. CASE HandlerRefuses \/ ProviderFails \/ handleExec \/ handleFile \/ handleLogs \/ Return \/ GiveUp \/ RefuseStream
  <2>1. UNCHANGED over /\ UNCHANGED streamVars /\ link' \in {link, "cut"}
    BY <1>2 DEF HandlerRefuses, ProviderFails, handleExec, handleFile, handleLogs, Answers, Return, GiveUp,
                RefuseStream
  <2> QED BY <2>1
<1>3. CASE OpenStream \/ OpenFails
  <2>1. UNCHANGED <<over, link>> /\ UNCHANGED streamVars
    BY <1>3 DEF OpenStream, OpenFails, OfClient, streamVars
  <2> QED BY <2>1
<1>4. CASE ClientLeaves \/ Deadline \/ WorkerDeadline
  <2>1. UNCHANGED link /\ UNCHANGED streamVars /\ over \subseteq over'
    BY <1>4 DEF ClientLeaves, Deadline, WorkerDeadline, Ends
  <2>2. UnderWay \/ over' = over \cup {"worker deadline"}
    BY <1>4 DEF ClientLeaves, Deadline, WorkerDeadline, Ends
  <2>3. CASE UnderWay
    BY <2>1, <2>3
  <2>4. CASE over' = over \cup {"worker deadline"}
    <3>1. "deadline" \in over' => "deadline" \in over
      BY <2>4
    <3> QED BY <2>1, <3>1
  <2> QED BY <2>2, <2>3, <2>4
<1>5. CASE CommandPrints \/ CommandEnds \/ WriteLine \/ WriteEnd
  <2>1. UNCHANGED over
    BY <1>5 DEF CommandPrints, CommandEnds, WriteLine, WriteEnd, OfWorker
  <2> QED BY <1>5, <2>1
<1>6. CASE ScanLine \/ ScanEnds \/ Relay \/ RelayEnds \/ ForwardChunk \/ ForwardEnds \/ ReadChunk
  <2>1. UNCHANGED over
    BY <1>6 DEF ScanLine, ScanEnds, Relay, RelayEnds, ForwardChunk, ForwardEnds, ReadChunk, OfClient
  <2> QED BY <1>6, <2>1
<1>7. CASE CutLink
  <2>1. UNCHANGED over
    BY <1>7 DEF CutLink
  <2> QED BY <1>7, <2>1
<1>8. CASE UNCHANGED callVars
  <2>1. UNCHANGED <<over, link>> /\ UNCHANGED streamVars
    BY <1>8 DEF callVars
  <2> QED BY <2>1
<1> QED BY <1>1, <1>2, <1>3, <1>4, <1>5, <1>6, <1>7, <1>8 DEF CallsNext

\* Every step keeps what a stream owes to its client.
LEMMA StepStreamKept == ASSUME CallsInv, [CallsNext]_callVars PROVE StreamKept'
<1>0. /\ StreamTyped /\ ClosedInOrder /\ CallOnce /\ StreamKept /\ link \in {"up", "cut"}
      /\ received \in Seq(Nat) /\ buffer \in [Buffers -> Seq(Nat)] /\ "out" \in Buffers
  BY DEF CallsInv, CallOnce, StreamTyped, Buffers
<1>1. over \subseteq over'
  BY <1>0, StepKinds
<1>2. ASSUME ~OverHere' PROVE Undisturbed'
  <2>1. ~OverHere /\ Undisturbed
    BY <1>0, <1>1, <1>2 DEF OverHere, StreamKept
  <2> QED BY <1>0, <2>1, StepKinds, WorkerUndisturbed, CallerUndisturbed, OthersUndisturbed
<1>3. ASSUME "out" \in closed', "deadline" \in over', "client" \notin over'
      PROVE  HasNote(received') \/ HasNote(buffer'["out"])
  <2>1. "client" \notin over
    BY <1>1, <1>3
  <2>2. CASE ForwardEnds
    <3>1. buffer' = Added("out", Note) /\ UNCHANGED received
      BY <1>3, <2>1, <2>2 DEF ForwardEnds, OfClient
    <3>2. buffer'["out"] = Append(buffer["out"], Note) /\ Note \in Nat
      BY <1>0, <3>1 DEF Added, Note
    <3> QED BY <1>0, <3>2, BufferFacts, AppendNote
  <2>3. ASSUME "out" \in closed PROVE HasNote(received) \/ HasNote(buffer["out"])
    <3>1. told = "stream" /\ ~UnderWay
      BY <1>0, <2>3 DEF ClosedInOrder, UnderWay
    <3>2. "deadline" \in over
      BY <1>0, <1>3, <3>1, StepKinds
    <3> QED BY <1>0, <2>1, <2>3, <3>2 DEF StreamKept
  <2>4. CASE ReadChunk
    <3>1. /\ "out" \in closed /\ buffer["out"] # <<>> /\ received' = Append(received, Head(buffer["out"]))
          /\ buffer'["out"] = Tail(buffer["out"])
      BY <1>0, <1>3, <2>4 DEF ReadChunk
    <3> QED BY <1>0, <2>3, <3>1, BufferFacts, MoveNote
  <2>5. CASE CommandPrints \/ CommandEnds \/ WriteLine \/ WriteEnd
    <3>1. UNCHANGED received /\ ("out" \in closed' => "out" \in closed)
      BY <2>5 DEF CommandPrints, CommandEnds, WriteLine, WriteEnd, OfWorker, Close
    <3>2. buffer'["out"] = buffer["out"]
      BY <1>0, <2>5 DEF CommandPrints, CommandEnds, WriteLine, WriteEnd, Added, Moved, Buffers
    <3> QED BY <1>3, <2>3, <3>1, <3>2
  <2>6. CASE ScanLine \/ ScanEnds \/ Relay \/ RelayEnds
    <3>1. UNCHANGED received /\ ("out" \in closed' => "out" \in closed)
      BY <2>6 DEF ScanLine, ScanEnds, Fails, Relay, RelayEnds, OfClient, Close
    <3>2. buffer'["out"] = buffer["out"]
      BY <1>0, <2>6 DEF ScanLine, ScanEnds, Fails, Relay, RelayEnds, Added, Moved, Buffers
    <3> QED BY <1>3, <2>3, <3>1, <3>2
  <2>7. CASE ForwardChunk
    BY <1>3, <2>7 DEF ForwardChunk, Forwarding
  <2>8. CASE CutLink
    <3>1. /\ UNCHANGED received /\ closed' = closed \ {"lines"}
          /\ \E n \in 0 .. Len(buffer["lines"]) : buffer' = [buffer EXCEPT !["lines"] = SubSeq(@, 1, n)]
      BY <2>8 DEF CutLink
    <3>2. buffer'["out"] = buffer["out"]
      BY <1>0, <3>1
    <3> QED BY <1>3, <2>3, <3>1, <3>2
  <2>9. CASE UNCHANGED streamVars
    BY <1>3, <2>3, <2>9 DEF streamVars
  <2> QED BY <1>0, <2>2, <2>4, <2>5, <2>6, <2>7, <2>8, <2>9, StepKinds
<1> QED BY <1>2, <1>3 DEF StreamKept

\* CallsInv holds in every reachable state.
LEMMA CallsInvariant == ServerSpec => []CallsInv
<1>1. ServerInit => CallsInv
  BY InitCalls DEF ServerInit
<1>2. CallsInv /\ [ServerNext]_serverVars => CallsInv'
  <2> SUFFICES ASSUME CallsInv, [ServerNext]_serverVars PROVE CallsInv'
    OBVIOUS
  <2>1. [CallsNext]_callVars
    BY DEF ServerNext, serverVars
  <2>2. (CallOnce /\ Answered)' /\ StreamTyped' /\ ClosedInOrder' /\ StreamKept'
    BY <2>1, StepAnswers, StepStreamTyped, StepClosed, StepStreamKept
  <2> QED BY <2>2 DEF CallsInv
<1> QED BY <1>1, <1>2, PTL DEF ServerSpec

\* Two sequences one after the other.
LEMMA JoinFacts ==
  ASSUME NEW s \in Seq(Nat), NEW t \in Seq(Nat)
  PROVE  /\ Len(s \o t) = Len(s) + Len(t)
         /\ HasNote(s) \/ HasNote(t) => Contains(s \o t, Note)
         /\ Consecutive(s, 0) /\ Consecutive(t, Len(s)) =>
              s \o t = [i \in 1 .. Len(s) + Len(t) |-> i]
<1> DEFINE j == s \o t
<1>1. /\ Len(j) = Len(s) + Len(t) /\ j \in Seq(Nat) /\ Len(s) \in Nat /\ Len(t) \in Nat
      /\ \A i \in 1 .. Len(s) : j[i] = s[i]
      /\ \A i \in 1 .. Len(t) : j[Len(s) + i] = t[i]
  OBVIOUS
<1> HIDE DEF j
<1>2. DOMAIN j = 1 .. Len(s) + Len(t) /\ j = [i \in DOMAIN j |-> j[i]]
  <2>1. DOMAIN j = 1 .. Len(j)
    BY <1>1
  <2>2. j \in [1 .. Len(j) -> Nat]
    BY <1>1
  <2>3. j = [i \in DOMAIN j |-> j[i]]
    BY <2>1, <2>2
  <2> QED BY <1>1, <2>1, <2>3
<1>3. ASSUME HasNote(s) \/ HasNote(t) PROVE Contains(j, Note)
  <2>1. CASE HasNote(s)
    <3>1. PICK i \in 1 .. Len(s) : s[i] = Note
      BY <2>1 DEF HasNote
    <3>2. i \in 1 .. Len(j) /\ j[i] = Note
      BY <1>1, <3>1
    <3> QED BY <3>2 DEF Contains
  <2>2. CASE HasNote(t)
    <3>1. PICK i \in 1 .. Len(t) : t[i] = Note
      BY <2>2 DEF HasNote
    <3>2. Len(s) + i \in 1 .. Len(j) /\ j[Len(s) + i] = Note
      BY <1>1, <3>1
    <3> QED BY <3>2 DEF Contains
  <2> QED BY <1>3, <2>1, <2>2
<1>4. ASSUME Consecutive(s, 0), Consecutive(t, Len(s)) PROVE j = [i \in 1 .. Len(s) + Len(t) |-> i]
  <2>1. ASSUME NEW i \in 1 .. Len(s) + Len(t) PROVE j[i] = i
    <3>1. CASE i \in 1 .. Len(s)
      <4>1. s[i] = 0 + i
        BY <1>4, <3>1 DEF Consecutive
      <4> QED BY <1>1, <3>1, <4>1
    <3>2. CASE i \notin 1 .. Len(s)
      <4>1. i - Len(s) \in 1 .. Len(t) /\ Len(s) + (i - Len(s)) = i
        BY <1>1, <3>2
      <4>2. t[i - Len(s)] = Len(s) + (i - Len(s))
        BY <1>4, <4>1 DEF Consecutive
      <4> QED BY <1>1, <4>1, <4>2
    <3> QED BY <3>1, <3>2
  <2> QED BY <1>2, <2>1
<1> QED BY <1>1, <1>3, <1>4 DEF j

\* What a client is told of a call on another host is what the provider there has
\* said of it, and a stream that is closed has all that the provider passed on, in
\* order, or a note.
THEOREM AnswersCorrect == ServerSpec => []RemoteAnswersTrue
<1>1. ASSUME CallsInv PROVE RemoteAnswersTrue
  <2>0. /\ StreamTyped /\ StreamKept /\ Answered /\ received \in Seq(Nat) /\ buffer["out"] \in Seq(Nat)
    BY <1>1, BufferFacts DEF CallsInv, StreamTyped
  <2> DEFINE all == received \o buffer["out"]
  <2>1. ASSUME "out" \in closed, "client" \notin over
        PROVE  Contains(all, Note) \/ (concluded /\ all = [i \in 1 .. printed |-> i])
    <3>1. CASE HasNote(received) \/ HasNote(buffer["out"])
      BY <2>0, <3>1, JoinFacts
    <3>2. CASE ~(HasNote(received) \/ HasNote(buffer["out"]))
      <4>1. Undisturbed
        BY <2>0, <2>1, <3>2 DEF StreamKept, OverHere
      <4>2. /\ "relayed" \in closed /\ buffer["relayed"] = <<>> /\ "chunks" \in closed
            /\ buffer["chunks"] = <<>> /\ errs = <<>>
        BY <2>1, <4>1 DEF Undisturbed
      <4>3. ~HasNote(buffer["relayed"])
        BY <4>2 DEF HasNote
      <4>4. concluded /\ ExactHere /\ BeforeLines = printed
        BY <3>2, <4>1, <4>2, <4>3 DEF Undisturbed, NoteHere
      <4>5. Len(received) + Len(buffer["out"]) = printed
        <5>1. /\ Len(buffer["relayed"]) = 0 /\ Len(buffer["chunks"]) = 0
              /\ Len(received) \in Nat /\ Len(buffer["out"]) \in Nat
          BY <2>0, <4>2
        <5> QED BY <4>4, <5>1 DEF BeforeLines, BeforeChunks, BeforeRelayed, BeforeOut
      <4>6. Consecutive(received, 0) /\ Consecutive(buffer["out"], Len(received))
        BY <4>4 DEF ExactHere, BeforeOut
      <4> QED BY <2>0, <4>4, <4>5, <4>6, JoinFacts
    <3> QED BY <3>1, <3>2
  <2> QED BY <2>0, <2>1 DEF RemoteAnswersTrue, Answered
<1> QED BY <1>1, CallsInvariant, PTL

-----------------------------------------------------------------------------
(* The event bus and its bridge.                                           *)

InLog(r, e) == \E i \in DOMAIN log[r] : log[r][i] = e

\* The events of a bridge that PostgreSQL has not been told of yet, and those
\* that the listener has been, or will be, notified of.
Unsent(r) == hooks[r] \cup old[r] \cup ({current[r]} \ {NoEvent})
Noted(q) ==
  {pending[q][i].event : i \in DOMAIN pending[q]} \cup
  (IF listener[q] = "deliver" THEN {inhand[q].event} ELSE {})

\* What a connection and a listener that is under way have in hand.
InHand ==
  \A r \in Replicas :
    /\ conn[r] = "sending" => current[r] # NoEvent
    /\ conn[r] # "sending" => current[r] = NoEvent
    /\ listener[r] = "deliver" => inhand[r] \in Notification

\* No event is anywhere before it is published.
NoneBefore ==
  \A r \in Replicas :
    /\ \A i \in DOMAIN log[r] : log[r][i] <= published
    /\ \A e \in Unsent(r) \cup Noted(r) : e <= published

\* An event is sent by one bridge, once, and no other bus has it before.
Apart == \A r \in Replicas : hooks[r] \cap old[r] = {} /\ current[r] \notin hooks[r] \cup old[r]
SentOnce ==
  \A r, q \in Replicas : \A e \in Unsent(r) :
    e \notin Noted(q) /\ (r # q => e \notin Unsent(q) /\ ~InLog(q, e))

\* A listener is notified of an event once, and its bus has no event of another
\* bridge before that.
NotedOnce ==
  \A q \in Replicas :
    /\ \A i, j \in DOMAIN pending[q] : pending[q][i].event = pending[q][j].event => i = j
    /\ \A i \in DOMAIN pending[q] : pending[q][i].source # q => ~InLog(q, pending[q][i].event)
    /\ listener[q] = "deliver" =>
         /\ \A i \in DOMAIN pending[q] : pending[q][i].event # inhand[q].event
         /\ inhand[q].source # q => ~InLog(q, inhand[q].event)

LogOnce == \A r \in Replicas : IsInjective(log[r])

Tracked == NoneBefore /\ Apart /\ SentOnce /\ NotedOnce /\ LogOnce

\* What the client has been sent, and what waits in its channel, is in the order
\* of the bus.
Occurs(s, e) == \E i \in DOMAIN s : s[i] = e
Precedes(s, d, e) == \E k, l \in DOMAIN s : k < l /\ s[k] = d /\ s[l] = e
InOrder(s, w, m) ==
  /\ \A i \in DOMAIN w : Occurs(s, w[i])
  /\ m # NoEvent => Occurs(s, m)
  /\ \A i \in 1 .. Len(w) - 1 : Precedes(s, w[i], w[i + 1])
  /\ m # NoEvent /\ w # <<>> => Precedes(s, m, w[1])
ClientInOrder == \A r \in Replicas : InOrder(log[r], queue[r], last[r])

\* Where the i-th event of a bus is in the ring, until it is overwritten.
Place(i) == IF i <= HistorySize THEN i ELSE Slot(i)
Retained(s, t) ==
  /\ Len(t) <= HistorySize /\ Len(t) <= Len(s)
  /\ Len(t) < HistorySize => Len(s) = Len(t)
  /\ \A i \in DOMAIN s : i > Len(s) - (HistorySize - 1) => t[Place(i)] = s[i]
RingKept == \A r \in Replicas : Retained(log[r], ring[r])

BusInv == TypeOK /\ InHand /\ Tracked /\ ClientInOrder /\ RingKept

\* The initial state satisfies the invariant.
LEMMA InitBus == ASSUME Init PROVE BusInv
<1>0. /\ NoEvent = 0 /\ \A r \in Replicas : /\ log[r] = <<>> /\ queue[r] = <<>> /\ ring[r] = <<>> /\ pending[r] = <<>>
                           /\ hooks[r] = {} /\ old[r] = {} /\ current[r] = NoEvent /\ last[r] = NoEvent
                           /\ conn[r] = "free" /\ listener[r] = "loop"
  BY DEF Init, NoEvent
<1>1. TypeOK
  BY BoundsAssumption DEF Init, TypeOK, Events, NoEvent
<1>2. \A r \in Replicas : Unsent(r) = {} /\ Noted(r) = {} /\ \A e : ~InLog(r, e)
  BY <1>0 DEF Unsent, Noted, InLog
<1>3. InHand
  BY <1>0 DEF InHand
<1>4. NoneBefore
  BY <1>0, <1>2 DEF NoneBefore
<1>5. Apart /\ SentOnce
  BY <1>0, <1>2 DEF Apart, SentOnce
<1>6. NotedOnce
  BY <1>0 DEF NotedOnce
<1>7. LogOnce
  BY <1>0 DEF LogOnce, IsInjective
<1>8. ClientInOrder
  BY <1>0 DEF ClientInOrder, InOrder
<1>9. RingKept
  BY <1>0, SizesAssumption DEF RingKept, Retained
<1> QED BY <1>1, <1>3, <1>4, <1>5, <1>6, <1>7, <1>8, <1>9 DEF BusInv, Tracked

\* A longer sequence.
LEMMA AppendFacts ==
  ASSUME NEW S, NEW s \in Seq(S), NEW x \in S
  PROVE  /\ Append(s, x) \in Seq(S) /\ Len(Append(s, x)) = Len(s) + 1 /\ Len(s) \in Nat
         /\ DOMAIN Append(s, x) = 1 .. Len(s) + 1 /\ DOMAIN s = 1 .. Len(s)
         /\ Append(s, x)[Len(s) + 1] = x /\ \A i \in 1 .. Len(s) : Append(s, x)[i] = s[i]
OBVIOUS

\* A shorter one.
LEMMA TailFacts ==
  ASSUME NEW S, NEW s \in Seq(S), s # <<>>
  PROVE  /\ Tail(s) \in Seq(S) /\ Len(Tail(s)) = Len(s) - 1 /\ Len(s) \in Nat /\ Len(s) >= 1
         /\ DOMAIN Tail(s) = 1 .. Len(s) - 1 /\ DOMAIN s = 1 .. Len(s)
         /\ Head(s) \in S /\ Head(s) = s[1] /\ \A i \in 1 .. Len(s) - 1 : Tail(s)[i] = s[i + 1]
OBVIOUS

\* An event goes to the end of the log of one bus.
LEMMA PutLog ==
  ASSUME TypeOK, NEW r \in Replicas, NEW e \in Events, Put(r, e)
  PROVE  /\ log'[r] = Append(log[r], e) /\ log[r] \in Seq(Events)
         /\ \A q \in Replicas \ {r} : log'[q] = log[q]
         /\ \A q \in Replicas : \A d : InLog(q, d)' <=> InLog(q, d) \/ (q = r /\ d = e)
<1>1. log' = [log EXCEPT ![r] = Append(@, e)] /\ log \in [Replicas -> Seq(Events)]
  BY DEF Put, TypeOK
<1>2. /\ log'[r] = Append(log[r], e) /\ log[r] \in Seq(Events)
      /\ \A q \in Replicas \ {r} : log'[q] = log[q]
  BY <1>1
<1>3. ASSUME NEW q \in Replicas, NEW d PROVE InLog(q, d)' <=> InLog(q, d) \/ (q = r /\ d = e)
  <2>1. CASE q # r
    BY <1>2, <2>1 DEF InLog
  <2>2. CASE q = r
    <3>1. /\ DOMAIN log'[r] = 1 .. Len(log[r]) + 1 /\ DOMAIN log[r] = 1 .. Len(log[r]) /\ Len(log[r]) \in Nat
          /\ log'[r][Len(log[r]) + 1] = e /\ \A i \in 1 .. Len(log[r]) : log'[r][i] = log[r][i]
      BY <1>2, AppendFacts
    <3>2. \A i \in 1 .. Len(log[r]) + 1 : i \in 1 .. Len(log[r]) \/ i = Len(log[r]) + 1
      BY <3>1
    <3>3. Len(log[r]) + 1 \in 1 .. Len(log[r]) + 1 /\ \A i \in 1 .. Len(log[r]) : i \in 1 .. Len(log[r]) + 1
      BY <3>1
    <3> QED BY <2>2, <3>1, <3>2, <3>3 DEF InLog
  <2> QED BY <2>1, <2>2
<1> QED BY <1>2, <1>3

\* It is put where the others are typed.
LEMMA PutTyped ==
  ASSUME TypeOK, NEW r \in Replicas, NEW e \in Events, Put(r, e)
  PROVE  /\ log' \in [Replicas -> Seq(Events)] /\ ring' \in [Replicas -> Seq(Events)]
         /\ queue' \in [Replicas -> Seq(Events)]
<1>0. /\ log \in [Replicas -> Seq(Events)] /\ ring \in [Replicas -> Seq(Events)]
      /\ queue \in [Replicas -> Seq(Events)]
  BY DEF TypeOK
<1>1. \A s \in Seq(Events) : Append(s, e) \in Seq(Events)
  OBVIOUS
<1>2. ASSUME NEW s \in Seq(Events), NEW i PROVE [s EXCEPT ![i] = e] \in Seq(Events)
  <2>1. s \in [1 .. Len(s) -> Events] /\ Len(s) \in Nat
    OBVIOUS
  <2>2. [s EXCEPT ![i] = e] \in [1 .. Len(s) -> Events]
    BY <2>1
  <2> QED BY <2>1, <2>2
<1>3. log' \in [Replicas -> Seq(Events)]
  BY <1>0, <1>1 DEF Put
<1>4. queue' \in [Replicas -> Seq(Events)]
  BY <1>0, <1>1 DEF Put
<1>5. ring' \in [Replicas -> Seq(Events)]
  <2>1. CASE ring' = [ring EXCEPT ![r] = Append(@, e)]
    BY <1>0, <1>1, <2>1
  <2>2. CASE ring' = [ring EXCEPT ![r][Slot(Len(log[r]) + 1)] = e]
    <3>1. ring' = [ring EXCEPT ![r] = [ring[r] EXCEPT ![Slot(Len(log[r]) + 1)] = e]]
      BY <2>2
    <3>2. [ring[r] EXCEPT ![Slot(Len(log[r]) + 1)] = e] \in Seq(Events)
      BY <1>0, <1>2
    <3> QED BY <1>0, <3>1, <3>2
  <2> QED BY <2>1, <2>2 DEF Put
<1> QED BY <1>3, <1>4, <1>5

\* PostgreSQL passes a notification on to those that are connected.
LEMMA BroadcastFacts ==
  ASSUME TypeOK, NEW r \in Replicas, NEW e \in Events, Broadcast(r, e)
  PROVE  /\ pending' \in [Replicas -> Seq(Notification)]
         /\ \A q \in Replicas : pending'[q] \in {pending[q], Append(pending[q], [source |-> r, event |-> e])}
<1>1. [source |-> r, event |-> e] \in Notification
  BY DEF Notification
<1>2. pending \in [Replicas -> Seq(Notification)]
  BY DEF TypeOK
<1>3. \A q \in Replicas : Append(pending[q], [source |-> r, event |-> e]) \in Seq(Notification)
  BY <1>1, <1>2, AppendFacts
<1> QED BY <1>2, <1>3 DEF Broadcast

\* Every step keeps the types.
LEMMA StepBusTyped == ASSUME TypeOK, InHand, [Next]_vars PROVE TypeOK'
<1> USE BoundsAssumption DEF TypeOK
<1>1. ASSUME NEW r \in Replicas, Publish(r) PROVE TypeOK'
  <2>1. published' = published + 1 /\ published' \in Events /\ Put(r, published')
    BY <1>1 DEF Publish, Events
  <2>2. /\ log' \in [Replicas -> Seq(Events)] /\ ring' \in [Replicas -> Seq(Events)]
        /\ queue' \in [Replicas -> Seq(Events)]
    BY <2>1, PutTyped
  <2>3. published' \in 0 .. MaxEvents
    BY <2>1 DEF Events
  <2>4. hooks' \in [Replicas -> SUBSET Events]
    BY <1>1, <2>1 DEF Publish
  <2> QED BY <1>1, <2>2, <2>3, <2>4 DEF Publish, client, listening
<1>2. ASSUME NEW r \in Replicas, Subscribe(r) PROVE TypeOK'
  BY <1>2, ReplicasAssumption DEF Subscribe, bus, sending, listening
<1>3. ASSUME NEW r \in Replicas, Receive(r) PROVE TypeOK'
  <2>1. Head(queue[r]) \in Events /\ Tail(queue[r]) \in Seq(Events)
    BY <1>3 DEF Receive
  <2> QED BY <1>3, <2>1 DEF Receive, sending, listening
<1>4. ASSUME NEW r \in Replicas, Unsubscribe(r) PROVE TypeOK'
  BY <1>4 DEF Unsubscribe, sending, listening
<1>5. ASSUME NEW r \in Replicas, NEW e \in Events, Notify(r, e) PROVE TypeOK'
  BY <1>5 DEF Notify, bus, client, listening
<1>6. ASSUME NEW r \in Replicas, NEW e \in Events, NotifyFails(r, e) PROVE TypeOK'
  BY <1>6 DEF NotifyFails, bus, client, listening
<1>7. ASSUME NEW r \in Replicas, Sent(r) PROVE TypeOK'
  <2>1. current[r] \in Events
    BY <1>7 DEF Sent, InHand
  <2>2. pending' \in [Replicas -> Seq(Notification)]
    BY <1>7, <2>1, BroadcastFacts DEF Sent
  <2> QED BY <1>7, <2>2 DEF Sent, bus, client, listening
<1>8. ASSUME NEW r \in Replicas, NEW e \in Events, SentOnOld(r, e) PROVE TypeOK'
  <2>1. pending' \in [Replicas -> Seq(Notification)]
    BY <1>8, BroadcastFacts DEF SentOnOld
  <2> QED BY <1>8, <2>1 DEF SentOnOld, bus, client, listening
<1>9. ASSUME NEW r \in Replicas, Lose(r) PROVE TypeOK'
  BY <1>9 DEF Lose, bus, client, listening
<1>10. ASSUME NEW r \in Replicas, Wait(r) PROVE TypeOK'
  BY <1>10 DEF Wait, GoOn, bus, client
<1>11. ASSUME NEW r \in Replicas, Take(r) PROVE TypeOK'
  <2>1. Head(pending[r]) \in Notification /\ Tail(pending[r]) \in Seq(Notification)
    BY <1>11 DEF Take
  <2> QED BY <1>11, <2>1 DEF Take, GoOn, bus, client
<1>12. ASSUME NEW r \in Replicas, Deliver(r) PROVE TypeOK'
  <2>1. inhand[r].event \in Events
    BY <1>12 DEF Deliver, InHand, Notification
  <2>2. /\ log' \in [Replicas -> Seq(Events)] /\ ring' \in [Replicas -> Seq(Events)]
        /\ queue' \in [Replicas -> Seq(Events)]
    BY <1>12, <2>1, PutTyped DEF Deliver, bus
  <2> QED BY <1>12, <2>2 DEF Deliver, GoOn, client, sending
<1>13. ASSUME NEW r \in Replicas, WaitFails(r) PROVE TypeOK'
  BY <1>13 DEF WaitFails, GoOn, bus, client, sending
<1>14. ASSUME NEW r \in Replicas, Reconnect(r) PROVE TypeOK'
  <2>1. conn[r] = "sending" => current[r] \in Events
    BY DEF InHand
  <2> QED BY <1>14, <2>1 DEF Reconnect, GoOn, bus, client
<1>15. ASSUME NEW r \in Replicas, ReconnectFails(r) PROVE TypeOK'
  <2>1. attempt' \in [Replicas -> 0 .. MaxAttempts]
    <3>1. CASE attempt[r] + 1 < MaxAttempts
      <4>1. attempt[r] + 1 \in 0 .. MaxAttempts
        BY <3>1
      <4> QED BY <1>15, <3>1, <4>1 DEF ReconnectFails
    <3>2. CASE ~(attempt[r] + 1 < MaxAttempts)
      <4>1. 0 \in 0 .. MaxAttempts
        OBVIOUS
      <4> QED BY <1>15, <3>2, <4>1 DEF ReconnectFails
    <3> QED BY <3>1, <3>2
  <2>2. listener' \in [Replicas -> {"loop", "wait", "deliver", "backoff", "stopped"}]
    BY <1>15 DEF ReconnectFails, GoOn
  <2> QED BY <1>15, <2>1, <2>2 DEF ReconnectFails, bus, client, sending
<1>16. ASSUME NEW r \in Replicas, Stop(r) PROVE TypeOK'
  BY <1>16 DEF Stop, bus, client, sending, listening
<1>17. ASSUME NEW r \in Replicas, Cancelled(r) PROVE TypeOK'
  BY <1>17 DEF Cancelled, GoOn, bus, client
<1>18. CASE UNCHANGED vars
  BY <1>18 DEF vars, bus, client, sending, listening
<1> HIDE DEF TypeOK
<1> QED BY <1>1, <1>2, <1>3, <1>4, <1>5, <1>6, <1>7, <1>8, <1>9, <1>10, <1>11, <1>12, <1>13, <1>14, <1>15, <1>16,
           <1>17, <1>18 DEF Next, Hook, Listener

\* Every step keeps what connections and listeners have in hand.
LEMMA StepInHand == ASSUME TypeOK, InHand, [Next]_vars PROVE InHand'
<1>0. /\ conn \in [Replicas -> {"free", "waiting", "sending", "closed"}]
      /\ current \in [Replicas -> Events \cup {NoEvent}] /\ NoEvent \notin Events
      /\ listener \in [Replicas -> {"loop", "wait", "deliver", "backoff", "stopped"}]
      /\ inhand \in [Replicas -> Notification \cup {Nothing}]
  BY BoundsAssumption DEF TypeOK, Events, NoEvent
<1> USE DEF InHand
<1>1. ASSUME UNCHANGED <<conn, current, listener, inhand>> PROVE InHand'
  BY <1>1
<1>2. ASSUME NEW r \in Replicas,
             Publish(r) \/ Subscribe(r) \/ Receive(r) \/ Unsubscribe(r) \/ Stop(r)
      PROVE  InHand'
  BY <1>1, <1>2 DEF Publish, Subscribe, Receive, Unsubscribe, Stop, sending, listening
<1>3. ASSUME NEW r \in Replicas, NEW e \in Events, Notify(r, e) PROVE InHand'
  BY <1>0, <1>3 DEF Notify, listening
<1>4. ASSUME NEW r \in Replicas, NEW e \in Events, NotifyFails(r, e) \/ SentOnOld(r, e) PROVE InHand'
  BY <1>1, <1>4 DEF NotifyFails, SentOnOld, listening
<1>5. ASSUME NEW r \in Replicas, Sent(r) PROVE InHand'
  BY <1>0, <1>5 DEF Sent, listening
<1>6. ASSUME NEW r \in Replicas, Lose(r) PROVE InHand'
  BY <1>0, <1>6 DEF Lose, listening
<1>7. ASSUME NEW r \in Replicas, Wait(r) PROVE InHand'
  BY <1>0, <1>7 DEF Wait, GoOn
<1>8. ASSUME NEW r \in Replicas, Take(r) PROVE InHand'
  <2>1. Head(pending[r]) \in Notification
    BY <1>8, TailFacts DEF Take, TypeOK
  <2> QED BY <1>0, <1>8, <2>1 DEF Take, GoOn
<1>9. ASSUME NEW r \in Replicas, Deliver(r) PROVE InHand'
  BY <1>0, <1>9 DEF Deliver, GoOn, sending
<1>10. ASSUME NEW r \in Replicas, WaitFails(r) \/ ReconnectFails(r) PROVE InHand'
  BY <1>0, <1>10 DEF WaitFails, ReconnectFails, GoOn, sending
<1>11. ASSUME NEW r \in Replicas, Reconnect(r) PROVE InHand'
  BY <1>0, <1>11 DEF Reconnect, GoOn
<1>12. ASSUME NEW r \in Replicas, Cancelled(r) PROVE InHand'
  BY <1>0, <1>12 DEF Cancelled, GoOn
<1>13. CASE UNCHANGED vars
  BY <1>1, <1>13 DEF vars, sending, listening
<1> HIDE DEF InHand
<1> QED BY <1>2, <1>3, <1>4, <1>5, <1>6, <1>7, <1>8, <1>9, <1>10, <1>11, <1>12, <1>13 DEF Next, Hook, Listener

\* The pieces that the steps change.
LEMMA BusTypes ==
  ASSUME TypeOK
  PROVE  /\ log \in [Replicas -> Seq(Events)] /\ pending \in [Replicas -> Seq(Notification)]
         /\ hooks \in [Replicas -> SUBSET Events] /\ old \in [Replicas -> SUBSET Events]
         /\ current \in [Replicas -> Events \cup {NoEvent}] /\ NoEvent \notin Events
         /\ conn \in [Replicas -> {"free", "waiting", "sending", "closed"}]
         /\ listener \in [Replicas -> {"loop", "wait", "deliver", "backoff", "stopped"}]
         /\ inhand \in [Replicas -> Notification \cup {Nothing}]
         /\ published \in Nat /\ \A e \in Events : e \in Nat
BY BoundsAssumption DEF TypeOK, Events, NoEvent

\* Steps by which events only get lost, or stay with their bridge.
LEMMA NothingSent ==
  ASSUME Tracked, UNCHANGED <<published, log, pending, inhand>>,
         \A r \in Replicas : Unsent(r)' \subseteq Unsent(r),
         \A r \in Replicas : listener'[r] = "deliver" <=> listener[r] = "deliver",
         Apart'
  PROVE  Tracked'
<1>1. /\ \A r \in Replicas : Noted(r)' = Noted(r)
      /\ \A r \in Replicas : \A e : InLog(r, e)' <=> InLog(r, e)
  BY DEF Noted, InLog
<1>2. NoneBefore'
  BY <1>1 DEF Tracked, NoneBefore
<1>3. SentOnce'
  BY <1>1 DEF Tracked, SentOnce
<1>4. NotedOnce'
  BY <1>1 DEF Tracked, NotedOnce
<1>5. LogOnce'
  BY DEF Tracked, LogOnce
<1> QED BY <1>2, <1>3, <1>4, <1>5 DEF Tracked

\* An event of a bridge is sent: every other has it to come.
LEMMA EventSent ==
  ASSUME TypeOK, Tracked, NEW r \in Replicas, NEW e \in Events, e \in Unsent(r), Broadcast(r, e),
         UNCHANGED <<published, log, listener, inhand>>,
         \A q \in Replicas : Unsent(q)' \subseteq Unsent(q), e \notin Unsent(r)', Apart'
  PROVE  Tracked'
<1> DEFINE note == [source |-> r, event |-> e]
<1>0. /\ note \in Notification /\ note.source = r /\ note.event = e
      /\ pending \in [Replicas -> Seq(Notification)]
  BY BusTypes DEF Notification
<1>1. \A q \in Replicas : pending'[q] \in {pending[q], Append(pending[q], note)}
  BY BroadcastFacts
<1> HIDE DEF note
<1>2. ASSUME NEW q \in Replicas
      PROVE  \/ pending'[q] = pending[q]
             \/ /\ DOMAIN pending'[q] = 1 .. Len(pending[q]) + 1 /\ DOMAIN pending[q] = 1 .. Len(pending[q])
                /\ Len(pending[q]) \in Nat /\ pending'[q][Len(pending[q]) + 1] = note
                /\ \A i \in 1 .. Len(pending[q]) : pending'[q][i] = pending[q][i]
  <2>1. CASE pending'[q] = Append(pending[q], note)
    <3>1. pending[q] \in Seq(Notification)
      BY <1>0
    <3> QED BY <1>0, <2>1, <3>1, AppendFacts
  <2> QED BY <1>1, <2>1
<1>3. ASSUME NEW q \in Replicas, NEW i \in DOMAIN pending'[q]
      PROVE  (i \in DOMAIN pending[q] /\ pending'[q][i] = pending[q][i])
             \/ (i \notin DOMAIN pending[q] /\ i = Len(pending[q]) + 1 /\ pending'[q][i] = note)
  <2>1. CASE pending'[q] = pending[q]
    BY <2>1
  <2>2. CASE /\ DOMAIN pending'[q] = 1 .. Len(pending[q]) + 1 /\ DOMAIN pending[q] = 1 .. Len(pending[q])
             /\ Len(pending[q]) \in Nat /\ pending'[q][Len(pending[q]) + 1] = note
             /\ \A j \in 1 .. Len(pending[q]) : pending'[q][j] = pending[q][j]
    <3>1. i \in 1 .. Len(pending[q]) \/ (i \notin 1 .. Len(pending[q]) /\ i = Len(pending[q]) + 1)
      BY <1>3, <2>2
    <3> QED BY <2>2, <3>1
  <2> QED BY <1>2, <2>1, <2>2
<1>4. \A q \in Replicas : Noted(q)' \subseteq Noted(q) \cup {e}
  BY <1>0, <1>3 DEF Noted
<1>5. \A q \in Replicas : e \notin Unsent(q)'
  BY DEF Tracked, SentOnce
<1>6. \A q \in Replicas : \A d : InLog(q, d)' <=> InLog(q, d)
  BY DEF InLog
<1>7. NoneBefore'
  BY <1>4 DEF Tracked, NoneBefore
<1>8. SentOnce'
  BY <1>4, <1>5, <1>6 DEF Tracked, SentOnce
<1>9. NotedOnce'
  <2> SUFFICES ASSUME NEW q \in Replicas
               PROVE  /\ \A i, j \in DOMAIN pending'[q] : pending'[q][i].event = pending'[q][j].event => i = j
                      /\ \A i \in DOMAIN pending'[q] : pending'[q][i].source # q => ~InLog(q, pending'[q][i].event)
                      /\ listener[q] = "deliver" =>
                           /\ \A i \in DOMAIN pending'[q] : pending'[q][i].event # inhand[q].event
                           /\ inhand[q].source # q => ~InLog(q, inhand[q].event)
    BY <1>6 DEF NotedOnce
  <2>1. e \notin Noted(q) /\ (q # r => ~InLog(q, e))
    BY DEF Tracked, SentOnce
  <2>2. \A i \in DOMAIN pending[q] : pending[q][i].event # e
    BY <2>1 DEF Noted
  <2>3. listener[q] = "deliver" => inhand[q].event # e
    BY <2>1 DEF Noted
  <2>4. ASSUME NEW i \in DOMAIN pending'[q], NEW j \in DOMAIN pending'[q],
               pending'[q][i].event = pending'[q][j].event
        PROVE  i = j
    <3>1. /\ (i \in DOMAIN pending[q] /\ pending'[q][i] = pending[q][i])
             \/ (i \notin DOMAIN pending[q] /\ i = Len(pending[q]) + 1 /\ pending'[q][i].event = e)
          /\ (j \in DOMAIN pending[q] /\ pending'[q][j] = pending[q][j])
             \/ (j \notin DOMAIN pending[q] /\ j = Len(pending[q]) + 1 /\ pending'[q][j].event = e)
      BY <1>0, <1>3
    <3>2. CASE i \in DOMAIN pending[q] /\ j \in DOMAIN pending[q]
      BY <2>4, <3>1, <3>2 DEF Tracked, NotedOnce
    <3>3. CASE i \notin DOMAIN pending[q] /\ j \notin DOMAIN pending[q]
      BY <3>1, <3>3
    <3>4. CASE i \in DOMAIN pending[q] /\ j \notin DOMAIN pending[q]
      BY <2>2, <2>4, <3>1, <3>4
    <3>5. CASE i \notin DOMAIN pending[q] /\ j \in DOMAIN pending[q]
      BY <2>2, <2>4, <3>1, <3>5
    <3> QED BY <3>2, <3>3, <3>4, <3>5
  <2>5. ASSUME NEW i \in DOMAIN pending'[q], pending'[q][i].source # q PROVE ~InLog(q, pending'[q][i].event)
    <3>1. CASE i \in DOMAIN pending[q] /\ pending'[q][i] = pending[q][i]
      BY <2>5, <3>1 DEF Tracked, NotedOnce
    <3>2. CASE pending'[q][i] = note
      BY <1>0, <2>1, <2>5, <3>2
    <3> QED BY <1>3, <3>1, <3>2
  <2>6. ASSUME listener[q] = "deliver", NEW i \in DOMAIN pending'[q] PROVE pending'[q][i].event # inhand[q].event
    <3>1. CASE i \in DOMAIN pending[q] /\ pending'[q][i] = pending[q][i]
      BY <2>6, <3>1 DEF Tracked, NotedOnce
    <3>2. CASE pending'[q][i] = note
      BY <1>0, <2>3, <2>6, <3>2
    <3> QED BY <1>3, <3>1, <3>2
  <2> QED BY <2>4, <2>5, <2>6 DEF Tracked, NotedOnce
<1>10. LogOnce'
  BY DEF Tracked, LogOnce
<1> QED BY <1>7, <1>8, <1>9, <1>10 DEF Tracked

\* An event that a log has not had.
LEMMA PutOnce ==
  ASSUME TypeOK, LogOnce, NEW r \in Replicas, NEW e \in Events, Put(r, e), ~InLog(r, e)
  PROVE  LogOnce'
<1>1. /\ DOMAIN log'[r] = 1 .. Len(log[r]) + 1 /\ DOMAIN log[r] = 1 .. Len(log[r]) /\ Len(log[r]) \in Nat
      /\ log'[r][Len(log[r]) + 1] = e /\ \A i \in 1 .. Len(log[r]) : log'[r][i] = log[r][i]
      /\ \A q \in Replicas \ {r} : log'[q] = log[q]
  BY PutLog, AppendFacts
<1>2. \A i \in DOMAIN log'[r] :
        (i \in DOMAIN log[r] /\ log'[r][i] = log[r][i]) \/ (i = Len(log[r]) + 1 /\ log'[r][i] = e)
  BY <1>1
<1>3. \A i \in DOMAIN log[r] : log[r][i] # e
  BY DEF InLog
<1>4. ASSUME NEW i \in DOMAIN log'[r], NEW j \in DOMAIN log'[r], log'[r][i] = log'[r][j] PROVE i = j
  BY <1>2, <1>3, <1>4 DEF LogOnce, IsInjective
<1>5. \A q \in Replicas \ {r} : IsInjective(log'[q])
  BY <1>1 DEF LogOnce
<1>6. IsInjective(log'[r])
  BY <1>4 DEF IsInjective
<1> QED BY <1>5, <1>6 DEF LogOnce

\* Every step keeps track of the events.
LEMMA StepTracked == ASSUME TypeOK, InHand, Tracked, [Next]_vars PROVE Tracked'
<1>0. /\ log \in [Replicas -> Seq(Events)] /\ pending \in [Replicas -> Seq(Notification)]
      /\ hooks \in [Replicas -> SUBSET Events] /\ old \in [Replicas -> SUBSET Events]
      /\ current \in [Replicas -> Events \cup {NoEvent}] /\ NoEvent \notin Events
      /\ conn \in [Replicas -> {"free", "waiting", "sending", "closed"}]
      /\ listener \in [Replicas -> {"loop", "wait", "deliver", "backoff", "stopped"}]
      /\ inhand \in [Replicas -> Notification \cup {Nothing}]
      /\ published \in Nat /\ \A e \in Events : e \in Nat
  BY BusTypes
<1>1. /\ NoneBefore /\ Apart /\ SentOnce /\ NotedOnce /\ LogOnce
      /\ \A r \in Replicas : conn[r] # "sending" => current[r] = NoEvent
      /\ \A r \in Replicas : conn[r] = "sending" => current[r] # NoEvent
  BY DEF Tracked, InHand
<1>2. ASSUME UNCHANGED <<published, log, hooks, current, old, pending, inhand>>,
             \A r \in Replicas : listener'[r] = "deliver" <=> listener[r] = "deliver"
      PROVE  Tracked'
  <2>1. Apart' /\ \A r \in Replicas : Unsent(r)' = Unsent(r)
    BY <1>1, <1>2 DEF Apart, Unsent
  <2> QED BY <1>2, <2>1, NothingSent
<1>3. ASSUME NEW r \in Replicas, Subscribe(r) \/ Receive(r) \/ Unsubscribe(r) \/ Stop(r) PROVE Tracked'
  BY <1>2, <1>3 DEF Subscribe, Receive, Unsubscribe, Stop, bus, sending, listening
<1>4. ASSUME NEW r \in Replicas, Wait(r) \/ WaitFails(r) \/ ReconnectFails(r) PROVE Tracked'
  <2>1. \A q \in Replicas : listener'[q] = "deliver" <=> listener[q] = "deliver"
    BY <1>0, <1>4 DEF Wait, WaitFails, ReconnectFails, GoOn
  <2> QED BY <1>2, <1>4, <2>1 DEF Wait, WaitFails, ReconnectFails, bus, sending
<1>5. CASE UNCHANGED vars
  BY <1>2, <1>5 DEF vars, bus, sending, listening
<1>6. ASSUME NEW r \in Replicas, NEW e \in Events, Notify(r, e) PROVE Tracked'
  <2>1. /\ e \in hooks[r] /\ current[r] = NoEvent /\ UNCHANGED <<published, log, old, pending, inhand, listener>>
        /\ hooks'[r] = hooks[r] \ {e} /\ current'[r] = e
        /\ \A q \in Replicas \ {r} : hooks'[q] = hooks[q] /\ current'[q] = current[q]
    BY <1>0, <1>1, <1>6 DEF Notify, bus, listening
  <2>2. Apart'
    BY <1>0, <1>1, <2>1 DEF Apart
  <2>3. \A q \in Replicas : Unsent(q)' \subseteq Unsent(q)
    BY <2>1 DEF Unsent
  <2> QED BY <2>1, <2>2, <2>3, NothingSent
<1>7. ASSUME NEW r \in Replicas, NEW e \in Events, NotifyFails(r, e) PROVE Tracked'
  <2>1. /\ UNCHANGED <<published, log, old, current, pending, inhand, listener>>
        /\ \A q \in Replicas : hooks'[q] \subseteq hooks[q]
    BY <1>0, <1>7 DEF NotifyFails, bus, listening
  <2>2. Apart' /\ \A q \in Replicas : Unsent(q)' \subseteq Unsent(q)
    BY <1>1, <2>1 DEF Apart, Unsent
  <2> QED BY <2>1, <2>2, NothingSent
<1>8. ASSUME NEW r \in Replicas, Lose(r) \/ Cancelled(r) PROVE Tracked'
  <2>1. /\ UNCHANGED <<published, log, hooks, old, pending, inhand>>
        /\ current' = [current EXCEPT ![r] = NoEvent]
    BY <1>8 DEF Lose, Cancelled, bus, listening
  <2>2. \A q \in Replicas : listener'[q] = "deliver" <=> listener[q] = "deliver"
    BY <1>0, <1>8 DEF Lose, Cancelled, listening, GoOn
  <2>3. \A q \in Replicas : current'[q] \in {current[q], NoEvent}
    BY <1>0, <2>1
  <2>4. Apart' /\ \A q \in Replicas : Unsent(q)' \subseteq Unsent(q)
    BY <1>0, <1>1, <2>1, <2>3 DEF Apart, Unsent
  <2> QED BY <2>1, <2>2, <2>4, NothingSent
<1>9. ASSUME NEW r \in Replicas, Sent(r) PROVE Tracked'
  <2>1. /\ current[r] \in Events /\ Broadcast(r, current[r]) /\ UNCHANGED <<published, log, hooks, old, listener, inhand>>
        /\ current'[r] = NoEvent /\ \A q \in Replicas \ {r} : current'[q] = current[q]
    BY <1>0, <1>1, <1>9 DEF Sent, bus, listening
  <2>2. Apart' /\ (\A q \in Replicas : Unsent(q)' \subseteq Unsent(q)) /\ current[r] \notin Unsent(r)'
    BY <1>0, <1>1, <2>1 DEF Apart, Unsent
  <2>3. current[r] \in Unsent(r)
    BY <1>0, <2>1 DEF Unsent
  <2> QED BY <2>1, <2>2, <2>3, EventSent
<1>10. ASSUME NEW r \in Replicas, NEW e \in Events, SentOnOld(r, e) PROVE Tracked'
  <2>1. /\ e \in old[r] /\ Broadcast(r, e) /\ UNCHANGED <<published, log, hooks, current, listener, inhand>>
        /\ old'[r] = old[r] \ {e} /\ \A q \in Replicas \ {r} : old'[q] = old[q]
    BY <1>0, <1>10 DEF SentOnOld, bus, listening
  <2>2. Apart' /\ (\A q \in Replicas : Unsent(q)' \subseteq Unsent(q)) /\ e \notin Unsent(r)'
    BY <1>0, <1>1, <2>1 DEF Apart, Unsent
  <2>3. e \in Unsent(r)
    BY <2>1 DEF Unsent
  <2> QED BY <2>1, <2>2, <2>3, EventSent
<1>11. ASSUME NEW r \in Replicas, Reconnect(r) PROVE Tracked'
  <2>1. /\ UNCHANGED <<published, log, hooks, inhand>>
        /\ current'[r] = NoEvent /\ pending'[r] = <<>>
        /\ old'[r] = IF conn[r] = "sending" THEN old[r] \cup {current[r]} ELSE old[r]
        /\ \A q \in Replicas \ {r} : current'[q] = current[q] /\ old'[q] = old[q] /\ pending'[q] = pending[q]
        /\ \A q \in Replicas : listener'[q] = "deliver" <=> listener[q] = "deliver"
    BY <1>0, <1>11 DEF Reconnect, GoOn, bus
  <2>2. Apart' /\ \A q \in Replicas : Unsent(q)' = Unsent(q)
    <3>1. /\ hooks[r] \cap old'[r] = {} /\ current'[r] \notin hooks[r] \cup old'[r]
          /\ hooks[r] \cup old'[r] \cup ({current'[r]} \ {NoEvent}) = hooks[r] \cup old[r] \cup ({current[r]} \ {NoEvent})
      <4>1. CASE conn[r] = "sending"
        <5>1. old'[r] = old[r] \cup {current[r]} /\ current[r] # NoEvent /\ current[r] \in Events
          BY <1>0, <1>1, <2>1, <4>1
        <5> QED BY <1>0, <1>1, <2>1, <5>1 DEF Apart
      <4>2. CASE conn[r] # "sending"
        BY <1>0, <1>1, <2>1, <4>2 DEF Apart
      <4> QED BY <4>1, <4>2
    <3>2. Apart'
      BY <1>1, <2>1, <3>1 DEF Apart
    <3> QED BY <2>1, <3>1, <3>2 DEF Unsent
  <2>3. \A q \in Replicas : Noted(q)' \subseteq Noted(q)
    BY <2>1 DEF Noted
  <2>4. \A q \in Replicas : \A e : InLog(q, e)' <=> InLog(q, e)
    BY <2>1 DEF InLog
  <2>5. NoneBefore' /\ SentOnce' /\ LogOnce'
    BY <1>1, <2>1, <2>2, <2>3, <2>4 DEF NoneBefore, SentOnce, LogOnce
  <2>6. NotedOnce'
    BY <1>1, <2>1, <2>4 DEF NotedOnce
  <2> QED BY <2>2, <2>5, <2>6 DEF Tracked
<1>12. ASSUME NEW r \in Replicas, Take(r) PROVE Tracked'
  <2>1. /\ UNCHANGED <<published, log, hooks, old, current>> /\ pending[r] # <<>> /\ listener[r] # "deliver"
        /\ listener'[r] = "deliver" /\ inhand'[r] = Head(pending[r]) /\ pending'[r] = Tail(pending[r])
        /\ \A q \in Replicas \ {r} : inhand'[q] = inhand[q] /\ listener'[q] = listener[q] /\ pending'[q] = pending[q]
    BY <1>0, <1>12 DEF Take, GoOn, bus
  <2>2. /\ DOMAIN pending'[r] = 1 .. Len(pending[r]) - 1 /\ DOMAIN pending[r] = 1 .. Len(pending[r])
        /\ Len(pending[r]) \in Nat /\ Len(pending[r]) >= 1 /\ inhand'[r] = pending[r][1]
        /\ \A i \in 1 .. Len(pending[r]) - 1 : pending'[r][i] = pending[r][i + 1]
    BY <1>0, <2>1, TailFacts
  <2>3. 1 \in DOMAIN pending[r] /\ \A i \in DOMAIN pending'[r] : i + 1 \in DOMAIN pending[r] /\ i + 1 # 1
    BY <2>2
  <2>4. \A q \in Replicas : Noted(q)' \subseteq Noted(q)
    <3>1. \A i \in DOMAIN pending'[r] : \E j \in DOMAIN pending[r] : pending'[r][i].event = pending[r][j].event
      BY <2>2, <2>3
    <3>2. \E j \in DOMAIN pending[r] : inhand'[r].event = pending[r][j].event
      BY <2>2, <2>3
    <3>3. Noted(r)' \subseteq Noted(r)
      BY <2>1, <3>1, <3>2 DEF Noted
    <3>4. \A q \in Replicas \ {r} : Noted(q)' = Noted(q)
      BY <2>1 DEF Noted
    <3> QED BY <3>3, <3>4
  <2>5. Apart' /\ \A q \in Replicas : Unsent(q)' = Unsent(q)
    BY <1>1, <2>1 DEF Apart, Unsent
  <2>6. \A q \in Replicas : \A e : InLog(q, e)' <=> InLog(q, e)
    BY <2>1 DEF InLog
  <2>7. NoneBefore' /\ SentOnce' /\ LogOnce'
    BY <1>1, <2>1, <2>4, <2>5, <2>6 DEF NoneBefore, SentOnce, LogOnce
  <2>8. ASSUME NEW i \in DOMAIN pending'[r], NEW j \in DOMAIN pending'[r],
               pending'[r][i].event = pending'[r][j].event
        PROVE  i = j
    <3>1. i + 1 = j + 1
      <4>1. i + 1 \in DOMAIN pending[r] /\ j + 1 \in DOMAIN pending[r]
        BY <2>3
      <4>2. pending[r][i + 1].event = pending[r][j + 1].event
        BY <2>2, <2>8
      <4> QED BY <1>1, <4>1, <4>2 DEF NotedOnce
    <3> QED BY <2>2, <3>1
  <2>9. \A i \in DOMAIN pending'[r] :
          /\ pending'[r][i].source # r => ~InLog(r, pending'[r][i].event)
          /\ pending'[r][i].event # inhand'[r].event
    BY <1>1, <2>2, <2>3 DEF NotedOnce
  <2>10. inhand'[r].source # r => ~InLog(r, inhand'[r].event)
    BY <1>1, <2>2, <2>3 DEF NotedOnce
  <2>11. NotedOnce'
    <3> SUFFICES ASSUME NEW q \in Replicas
                 PROVE  /\ \A i, j \in DOMAIN pending'[q] : pending'[q][i].event = pending'[q][j].event => i = j
                        /\ \A i \in DOMAIN pending'[q] :
                             pending'[q][i].source # q => ~InLog(q, pending'[q][i].event)
                        /\ listener'[q] = "deliver" =>
                             /\ \A i \in DOMAIN pending'[q] : pending'[q][i].event # inhand'[q].event
                             /\ inhand'[q].source # q => ~InLog(q, inhand'[q].event)
      BY <2>6 DEF NotedOnce
    <3>1. CASE q = r
      BY <2>8, <2>9, <2>10, <3>1
    <3>2. CASE q # r
      BY <1>1, <2>1, <3>2 DEF NotedOnce
    <3> QED BY <3>1, <3>2
  <2> QED BY <2>5, <2>7, <2>11 DEF Tracked
<1>13. ASSUME NEW r \in Replicas, Deliver(r) PROVE Tracked'
  <2>1. /\ UNCHANGED <<published, hooks, old, current, pending>> /\ listener[r] = "deliver" /\ listener'[r] = "loop"
        /\ \A q \in Replicas \ {r} : inhand'[q] = inhand[q] /\ listener'[q] = listener[q]
        /\ inhand[r] \in Notification /\ inhand[r].event \in Events
    BY <1>0, <1>13 DEF Deliver, GoOn, sending, InHand, Notification
  <2>2. Apart' /\ \A q \in Replicas : Unsent(q)' = Unsent(q)
    BY <1>1, <2>1 DEF Apart, Unsent
  <2>3. \A q \in Replicas : Noted(q)' \subseteq Noted(q)
    BY <2>1 DEF Noted
  <2>4. inhand[r].event \in Noted(r)
    BY <2>1 DEF Noted
  <2>5. CASE inhand[r].source = r
    <3>1. log' = log /\ \A q \in Replicas : \A e : InLog(q, e)' <=> InLog(q, e)
      BY <1>13, <2>5 DEF Deliver, bus, InLog
    <3>2. NoneBefore' /\ SentOnce' /\ LogOnce'
      BY <1>1, <2>1, <2>2, <2>3, <3>1 DEF NoneBefore, SentOnce, LogOnce
    <3>3. NotedOnce'
      BY <1>1, <2>1, <3>1 DEF NotedOnce
    <3> QED BY <2>2, <3>2, <3>3 DEF Tracked
  <2>6. CASE inhand[r].source # r
    <3> DEFINE e == inhand[r].event
    <3>1. Put(r, e) /\ ~InLog(r, e) /\ e \in Events /\ e <= published /\ e \in Noted(r)
          /\ \A i \in DOMAIN pending[r] : pending[r][i].event # e
      BY <1>1, <1>13, <2>1, <2>4, <2>6 DEF Deliver, NotedOnce, NoneBefore
    <3> HIDE DEF e
    <3>2. /\ \A q \in Replicas : \A d : InLog(q, d)' <=> InLog(q, d) \/ (q = r /\ d = e)
      BY <3>1, PutLog
    <3>3. LogOnce'
      BY <1>1, <3>1, PutOnce
    <3>4. SentOnce'
      BY <1>1, <2>2, <2>3, <3>1, <3>2 DEF SentOnce
    <3>5. \A q \in Replicas : \A i \in DOMAIN log'[q] : log'[q][i] <= published
      BY <1>1, <3>1, <3>2 DEF NoneBefore, InLog
    <3>6. NoneBefore'
      BY <1>1, <2>1, <2>2, <2>3, <3>5 DEF NoneBefore
    <3>7. NotedOnce'
      BY <1>1, <2>1, <3>1, <3>2 DEF NotedOnce
    <3> QED BY <2>2, <3>3, <3>4, <3>6, <3>7 DEF Tracked
  <2> QED BY <2>5, <2>6
<1>14. ASSUME NEW r \in Replicas, Publish(r) PROVE Tracked'
  <2> DEFINE e == published + 1
  <2>1. /\ published' = e /\ e \in Events /\ Put(r, e) /\ UNCHANGED <<old, current, pending, inhand, listener>>
        /\ hooks'[r] = hooks[r] \cup {e} /\ \A q \in Replicas \ {r} : hooks'[q] = hooks[q]
    BY <1>0, <1>14, BoundsAssumption DEF Publish, Events, listening
  <2>2. published < e /\ e # NoEvent
    BY <1>0, <2>1
  <2> HIDE DEF e
  <2>3. \A q \in Replicas : Noted(q)' = Noted(q)
    BY <2>1 DEF Noted
  <2>4. \A q \in Replicas : Unsent(q) \subseteq Events
    BY <1>0 DEF Unsent
  <2>5. \A q \in Replicas : Noted(q) \subseteq Events
    <3>1. \A n \in Notification : n.event \in Events
      BY DEF Notification
    <3>2. \A q \in Replicas : \A i \in DOMAIN pending[q] : pending[q][i] \in Notification
      BY <1>0
    <3>3. \A q \in Replicas : listener[q] = "deliver" => inhand[q] \in Notification
      BY DEF InHand
    <3> QED BY <3>1, <3>2, <3>3 DEF Noted
  <2>6. \A q \in Replicas : ~InLog(q, e) /\ e \notin Unsent(q) /\ e \notin Noted(q)
    BY <1>0, <1>1, <2>1, <2>2 DEF NoneBefore, InLog
  <2>7. Unsent(r)' = Unsent(r) \cup {e} /\ \A q \in Replicas \ {r} : Unsent(q)' = Unsent(q)
    BY <2>1 DEF Unsent
  <2>8. \A q \in Replicas : \A d : InLog(q, d)' <=> InLog(q, d) \/ (q = r /\ d = e)
    BY <2>1, PutLog
  <2>9. Apart'
    <3>1. e \notin old[r] /\ current[r] # e
      BY <2>2, <2>6 DEF Unsent
    <3> QED BY <1>1, <2>1, <3>1 DEF Apart
  <2>10. LogOnce'
    BY <1>1, <2>1, <2>6, PutOnce
  <2>11. SentOnce'
    BY <1>1, <2>3, <2>6, <2>7, <2>8 DEF SentOnce
  <2>12. NoneBefore'
    <3>1. ASSUME NEW q \in Replicas, NEW d, InLog(q, d)' PROVE d <= published'
      <4>1. CASE d = e
        BY <1>0, <2>1, <4>1
      <4>2. CASE InLog(q, d)
        <5>1. d <= published /\ d \in Nat
          BY <1>0, <1>1, <4>2 DEF NoneBefore, InLog
        <5> QED BY <1>0, <2>1, <2>2, <5>1
      <4> QED BY <2>8, <3>1, <4>1, <4>2
    <3>2. ASSUME NEW q \in Replicas, NEW d \in Unsent(q)' \cup Noted(q)' PROVE d <= published'
      <4>1. d = e \/ d \in Unsent(q) \cup Noted(q)
        BY <2>3, <2>7
      <4>2. CASE d = e
        BY <1>0, <2>1, <4>2
      <4>3. CASE d \in Unsent(q) \cup Noted(q)
        <5>1. d <= published /\ d \in Nat
          BY <1>0, <1>1, <2>4, <2>5, <4>3 DEF NoneBefore
        <5> QED BY <1>0, <2>1, <2>2, <5>1
      <4> QED BY <4>1, <4>2, <4>3
    <3> QED BY <3>1, <3>2 DEF NoneBefore, InLog
  <2>13. NotedOnce'
    <3>1. \A q \in Replicas :
            /\ \A i \in DOMAIN pending[q] : pending[q][i].event # e
            /\ listener[q] = "deliver" => inhand[q].event # e
      BY <2>6 DEF Noted
    <3>2. \A q \in Replicas : \A d : d # e /\ ~InLog(q, d) => \A j \in DOMAIN log'[q] : log'[q][j] # d
      BY <2>8 DEF InLog
    <3>3. ASSUME NEW q \in Replicas, NEW i \in DOMAIN pending[q], pending[q][i].source # q
          PROVE  ~InLog(q, pending[q][i].event)'
      <4>1. pending[q][i].event # e
        BY <3>1, <3>3
      <4>2. ~InLog(q, pending[q][i].event)
        BY <1>1, <3>3 DEF NotedOnce
      <4>3. \A j \in DOMAIN log'[q] : log'[q][j] # pending[q][i].event
        BY <3>2, <4>1, <4>2
      <4> QED BY <2>1, <4>3 DEF InLog
    <3>4. ASSUME NEW q \in Replicas, listener[q] = "deliver", inhand[q].source # q
          PROVE  ~InLog(q, inhand[q].event)'
      <4>1. inhand[q].event # e
        BY <3>1, <3>4
      <4>2. ~InLog(q, inhand[q].event)
        BY <1>1, <3>4 DEF NotedOnce
      <4>3. \A j \in DOMAIN log'[q] : log'[q][j] # inhand[q].event
        BY <3>2, <4>1, <4>2
      <4> QED BY <2>1, <4>3 DEF InLog
    <3> QED BY <1>1, <2>1, <3>3, <3>4 DEF NotedOnce
  <2> QED BY <2>9, <2>10, <2>11, <2>12, <2>13 DEF Tracked
<1> QED BY <1>3, <1>4, <1>5, <1>6, <1>7, <1>8, <1>9, <1>10, <1>11, <1>12, <1>13, <1>14 DEF Next, Hook, Listener

\* A sequence of events that grows keeps its order, and the new one comes last.
LEMMA AppendOrder ==
  ASSUME NEW s \in Seq(Events), NEW e \in Events
  PROVE  /\ \A d : Occurs(s, d) => Occurs(Append(s, e), d) /\ Precedes(Append(s, e), d, e)
         /\ \A d, f : Precedes(s, d, f) => Precedes(Append(s, e), d, f)
         /\ Occurs(Append(s, e), e)
<1>1. /\ DOMAIN Append(s, e) = 1 .. Len(s) + 1 /\ DOMAIN s = 1 .. Len(s) /\ Len(s) \in Nat
      /\ Append(s, e)[Len(s) + 1] = e /\ \A i \in 1 .. Len(s) : Append(s, e)[i] = s[i]
  BY AppendFacts
<1>2. /\ \A i \in DOMAIN s : i \in DOMAIN Append(s, e) /\ i < Len(s) + 1
      /\ Len(s) + 1 \in DOMAIN Append(s, e)
  BY <1>1
<1>3. \A i \in DOMAIN s : Append(s, e)[i] = s[i]
  BY <1>1
<1>4. ASSUME NEW d, Occurs(s, d) PROVE Occurs(Append(s, e), d) /\ Precedes(Append(s, e), d, e)
  <2>1. PICK k \in DOMAIN s : s[k] = d
    BY <1>4 DEF Occurs
  <2>2. /\ k \in DOMAIN Append(s, e) /\ k < Len(s) + 1 /\ Append(s, e)[k] = d
    BY <1>2, <1>3, <2>1
  <2> QED BY <1>1, <1>2, <2>2 DEF Occurs, Precedes
<1>5. ASSUME NEW d, NEW f, Precedes(s, d, f) PROVE Precedes(Append(s, e), d, f)
  <2>1. PICK k, l \in DOMAIN s : k < l /\ s[k] = d /\ s[l] = f
    BY <1>5 DEF Precedes
  <2>2. /\ k \in DOMAIN Append(s, e) /\ l \in DOMAIN Append(s, e)
        /\ Append(s, e)[k] = d /\ Append(s, e)[l] = f
    BY <1>2, <1>3, <2>1
  <2> QED BY <2>1, <2>2 DEF Precedes
<1>6. Occurs(Append(s, e), e)
  BY <1>1, <1>2 DEF Occurs
<1> QED BY <1>4, <1>5, <1>6

\* A new event joins the channel of a client at its end, or is dropped.
LEMMA JoinInOrder ==
  ASSUME NEW s \in Seq(Events), NEW e \in Events, NEW w \in Seq(Events), NEW m, InOrder(s, w, m)
  PROVE  InOrder(Append(s, e), w, m) /\ InOrder(Append(s, e), Append(w, e), m)
<1> DEFINE t == Append(s, e)
           v == Append(w, e)
<1>1. /\ \A d : Occurs(s, d) => Occurs(t, d) /\ Precedes(t, d, e)
      /\ \A d, f : Precedes(s, d, f) => Precedes(t, d, f)
      /\ Occurs(t, e)
  BY AppendOrder
<1>2. /\ DOMAIN v = 1 .. Len(w) + 1 /\ DOMAIN w = 1 .. Len(w) /\ Len(w) \in Nat /\ Len(v) = Len(w) + 1
      /\ v[Len(w) + 1] = e /\ \A i \in 1 .. Len(w) : v[i] = w[i]
  BY AppendFacts
<1> HIDE DEF t, v
<1>3. InOrder(t, w, m)
  BY <1>1 DEF InOrder
<1>4. ASSUME NEW i \in DOMAIN v PROVE Occurs(t, v[i])
  BY <1>1, <1>2, <1>3 DEF InOrder
<1>5. ASSUME NEW i \in 1 .. Len(v) - 1 PROVE Precedes(t, v[i], v[i + 1])
  <2>1. i \in 1 .. Len(w) /\ v[i] = w[i] /\ Occurs(s, w[i])
    BY <1>2 DEF InOrder
  <2>2. CASE i = Len(w)
    BY <1>1, <1>2, <2>1, <2>2
  <2>3. CASE i # Len(w)
    <3>1. i \in 1 .. Len(w) - 1 /\ v[i + 1] = w[i + 1]
      BY <1>2, <2>1, <2>3
    <3> QED BY <1>3, <2>1, <3>1 DEF InOrder
  <2> QED BY <2>2, <2>3
<1>6. ASSUME m # NoEvent PROVE Precedes(t, m, v[1])
  <2>1. CASE w = <<>>
    <3>1. v[1] = e
      BY <1>2, <2>1
    <3> QED BY <1>1, <1>6, <3>1 DEF InOrder
  <2>2. CASE w # <<>>
    <3>1. v[1] = w[1]
      BY <1>2, <2>2
    <3> QED BY <1>3, <1>6, <2>2, <3>1 DEF InOrder
  <2> QED BY <2>1, <2>2
<1>7. InOrder(t, v, m)
  BY <1>3, <1>4, <1>5, <1>6 DEF InOrder
<1> QED BY <1>3, <1>7 DEF t, v

\* What the client takes goes before the rest.
LEMMA TakeInOrder ==
  ASSUME NEW s, NEW w \in Seq(Events), w # <<>>, NEW m, InOrder(s, w, m)
  PROVE  InOrder(s, Tail(w), Head(w))
<1>1. /\ DOMAIN Tail(w) = 1 .. Len(w) - 1 /\ DOMAIN w = 1 .. Len(w) /\ Len(w) \in Nat /\ Len(w) >= 1
      /\ Len(Tail(w)) = Len(w) - 1 /\ Head(w) = w[1]
      /\ \A i \in 1 .. Len(w) - 1 : Tail(w)[i] = w[i + 1]
  BY TailFacts
<1>2. \A i \in DOMAIN Tail(w) : Occurs(s, Tail(w)[i])
  BY <1>1 DEF InOrder
<1>3. Occurs(s, Head(w))
  BY <1>1 DEF InOrder
<1>4. ASSUME NEW i \in 1 .. Len(Tail(w)) - 1 PROVE Precedes(s, Tail(w)[i], Tail(w)[i + 1])
  <2>1. i + 1 \in 1 .. Len(w) - 1 /\ Tail(w)[i] = w[i + 1] /\ Tail(w)[i + 1] = w[(i + 1) + 1]
    BY <1>1
  <2> QED BY <2>1 DEF InOrder
<1>5. ASSUME Tail(w) # <<>> PROVE Precedes(s, Head(w), Tail(w)[1])
  <2>1. 1 \in 1 .. Len(w) - 1 /\ Tail(w)[1] = w[1 + 1]
    BY <1>1, <1>5
  <2> QED BY <1>1, <2>1 DEF InOrder
<1> QED BY <1>2, <1>3, <1>4, <1>5 DEF InOrder

\* Every step keeps the client in order.
LEMMA StepInOrder == ASSUME TypeOK, InHand, ClientInOrder, [Next]_vars PROVE ClientInOrder'
<1>0. /\ queue \in [Replicas -> Seq(Events)] /\ log \in [Replicas -> Seq(Events)]
      /\ last \in [Replicas -> Events \cup {NoEvent}] /\ \A n \in Notification : n.event \in Events
  BY DEF TypeOK, Notification
<1>1. ASSUME NEW r \in Replicas, NEW e \in Events, Put(r, e), UNCHANGED last PROVE ClientInOrder'
  <2>1. /\ log'[r] = Append(log[r], e) /\ queue'[r] \in {queue[r], Append(queue[r], e)}
        /\ \A q \in Replicas \ {r} : log'[q] = log[q] /\ queue'[q] = queue[q]
    BY <1>0, <1>1 DEF Put
  <2>2. InOrder(log'[r], queue'[r], last[r])
    <3>1. InOrder(log[r], queue[r], last[r]) /\ log[r] \in Seq(Events) /\ queue[r] \in Seq(Events)
      BY <1>0 DEF ClientInOrder
    <3>2. /\ InOrder(Append(log[r], e), queue[r], last[r])
          /\ InOrder(Append(log[r], e), Append(queue[r], e), last[r])
      BY <3>1, JoinInOrder
    <3> QED BY <2>1, <3>2
  <2> QED BY <1>1, <2>1, <2>2 DEF ClientInOrder
<1>2. ASSUME UNCHANGED <<log, queue, last>> PROVE ClientInOrder'
  BY <1>2 DEF ClientInOrder
<1>3. ASSUME NEW r \in Replicas, Publish(r) PROVE ClientInOrder'
  <2>1. published' \in Events /\ Put(r, published') /\ UNCHANGED last
    BY <1>3, BoundsAssumption DEF Publish, client, TypeOK, Events
  <2> QED BY <1>1, <2>1
<1>4. ASSUME NEW r \in Replicas, Receive(r) PROVE ClientInOrder'
  <2>1. /\ queue[r] # <<>> /\ last'[r] = Head(queue[r]) /\ queue'[r] = Tail(queue[r]) /\ log' = log
        /\ \A q \in Replicas \ {r} : last'[q] = last[q] /\ queue'[q] = queue[q]
    BY <1>0, <1>4 DEF Receive
  <2>2. InOrder(log[r], queue'[r], last'[r])
    BY <1>0, <2>1, TakeInOrder DEF ClientInOrder
  <2> QED BY <2>1, <2>2 DEF ClientInOrder
<1>5. ASSUME NEW r \in Replicas, Unsubscribe(r) PROVE ClientInOrder'
  <2>1. /\ last'[r] = NoEvent /\ queue'[r] = <<>> /\ log' = log
        /\ \A q \in Replicas \ {r} : last'[q] = last[q] /\ queue'[q] = queue[q]
    BY <1>0, <1>5 DEF Unsubscribe
  <2>2. InOrder(log[r], queue'[r], last'[r])
    BY <2>1 DEF InOrder
  <2> QED BY <2>1, <2>2 DEF ClientInOrder
<1>6. ASSUME NEW r \in Replicas, Deliver(r) PROVE ClientInOrder'
  <2>1. inhand[r].event \in Events /\ UNCHANGED last
    BY <1>0, <1>6 DEF Deliver, InHand, client
  <2>2. CASE inhand[r].source = r
    BY <1>2, <1>6, <2>1, <2>2 DEF Deliver, bus
  <2>3. CASE inhand[r].source # r
    BY <1>1, <1>6, <2>1, <2>3 DEF Deliver
  <2> QED BY <2>2, <2>3
<1>7. ASSUME NEW r \in Replicas,
             \/ Subscribe(r) \/ Sent(r) \/ Wait(r) \/ Take(r) \/ WaitFails(r) \/ Cancelled(r)
             \/ Reconnect(r) \/ ReconnectFails(r) \/ Lose(r) \/ Stop(r)
             \/ \E e \in Events : Notify(r, e) \/ NotifyFails(r, e) \/ SentOnOld(r, e)
      PROVE  ClientInOrder'
  <2>1. UNCHANGED <<log, queue, last>>
    BY <1>7 DEF Subscribe, Sent, Wait, Take, WaitFails, Cancelled, Reconnect, ReconnectFails, Lose, Stop, Notify,
                NotifyFails, SentOnOld, bus, client
  <2> QED BY <1>2, <2>1
<1>8. CASE UNCHANGED vars
  BY <1>2, <1>8 DEF vars, bus, client
<1> QED BY <1>3, <1>4, <1>5, <1>6, <1>7, <1>8 DEF Next, Hook, Listener

\* Two events less than a round apart do not share a slot.
LEMMA ModDistinct ==
  ASSUME NEW H \in Nat \ {0}, NEW i \in Nat, NEW n \in Nat, i < n, n < i + H
  PROVE  i % H # n % H
<1> DEFINE q == (n \div H) - (i \div H)
<1>1. /\ i = (H * (i \div H)) + (i % H) /\ i \div H \in Int
      /\ n = (H * (n \div H)) + (n % H) /\ n \div H \in Int
  OBVIOUS
<1>2. SUFFICES ASSUME i % H = n % H PROVE FALSE
  OBVIOUS
<1>3. n - i = (H * (n \div H)) - (H * (i \div H))
  BY <1>1, <1>2
<1>4. n - i = H * q
  BY <1>1, <1>3
<1>5. \A k \in Int : (k >= 1 => H * k >= H) /\ (k <= 0 => H * k <= 0)
  OBVIOUS
<1>6. q \in Int /\ (q <= 0 \/ q >= 1)
  BY <1>1
<1> QED BY <1>4, <1>5, <1>6

\* The slot of an event, and that of a later one that overwrites another.
LEMMA PlaceFacts ==
  /\ \A i \in Nat \ {0} : Place(i) \in 1 .. HistorySize
  /\ \A n \in Nat : Slot(n) \in 1 .. HistorySize
  /\ \A i, n \in Nat : i < n /\ HistorySize < n /\ n < i + HistorySize - 1 => Place(i) # Slot(n)
<1> USE SizesAssumption
<1>1. ASSUME NEW n \in Nat PROVE Slot(n) \in 1 .. HistorySize
  <2>1. n % HistorySize \in 0 .. HistorySize - 1
    OBVIOUS
  <2> QED BY <2>1 DEF Slot
<1>2. ASSUME NEW i \in Nat \ {0} PROVE Place(i) \in 1 .. HistorySize
  BY <1>1 DEF Place
<1>3. ASSUME NEW i \in Nat, NEW n \in Nat, i < n, HistorySize < n, n < i + HistorySize - 1
      PROVE  Place(i) # Slot(n)
  <2>1. CASE i <= HistorySize
    <3>1. n % HistorySize = n - HistorySize
      BY <1>3, <2>1
    <3> QED BY <1>3, <2>1, <3>1 DEF Place, Slot
  <2>2. CASE i > HistorySize
    <3>1. n < i + HistorySize
      BY <1>3
    <3>2. i % HistorySize # n % HistorySize
      BY <1>3, <3>1, ModDistinct
    <3>3. i % HistorySize \in Int /\ n % HistorySize \in Int
      OBVIOUS
    <3> QED BY <2>2, <3>2, <3>3 DEF Place, Slot
  <2> QED BY <2>1, <2>2
<1> QED BY <1>1, <1>2, <1>3

\* A new event takes the place of one that is old enough, and no other's.
LEMMA PutKept ==
  ASSUME NEW s \in Seq(Events), NEW t \in Seq(Events), NEW e \in Events, Retained(s, t)
  PROVE  Retained(Append(s, e),
              IF Len(t) < HistorySize THEN Append(t, e) ELSE [t EXCEPT ![Slot(Len(s) + 1)] = e])
<1> USE SizesAssumption
<1> DEFINE s2 == Append(s, e)
           n == Len(s) + 1
<1>1. /\ DOMAIN s2 = 1 .. n /\ DOMAIN s = 1 .. Len(s) /\ Len(s) \in Nat /\ Len(t) \in Nat /\ n \in Nat
      /\ Len(s2) = n /\ s2[n] = e /\ (\A i \in 1 .. Len(s) : s2[i] = s[i]) /\ n = Len(s) + 1
  BY AppendFacts
<1> HIDE DEF s2, n
<1>2. CASE Len(t) < HistorySize
  <2> DEFINE t2 == Append(t, e)
  <2>1. /\ Len(t2) = Len(t) + 1 /\ t2[Len(t) + 1] = e /\ \A i \in 1 .. Len(t) : t2[i] = t[i]
    BY AppendFacts
  <2>2. Len(s) = Len(t)
    BY <1>2 DEF Retained
  <2> HIDE DEF t2
  <2>3. ASSUME NEW i \in 1 .. n, i > n - (HistorySize - 1) PROVE t2[Place(i)] = s2[i]
    <3>1. Place(i) = i
      BY <1>1, <1>2, <2>2 DEF Place
    <3>2. CASE i = n
      BY <1>1, <2>1, <2>2, <3>1, <3>2
    <3>3. CASE i # n
      <4>1. i \in 1 .. Len(s) /\ i > Len(s) - (HistorySize - 1)
        BY <1>1, <2>3, <3>3
      <4>2. t[i] = s[i]
        BY <1>1, <3>1, <4>1 DEF Retained
      <4> QED BY <1>1, <2>1, <2>2, <3>1, <4>1, <4>2
    <3> QED BY <3>2, <3>3
  <2>4. Len(t2) <= HistorySize /\ Len(t2) = Len(s2)
    BY <1>1, <1>2, <2>1, <2>2
  <2>5. Retained(s2, t2)
    BY <1>1, <2>3, <2>4 DEF Retained
  <2> QED BY <1>2, <2>5 DEF t2, s2
<1>3. CASE ~(Len(t) < HistorySize)
  <2> DEFINE t2 == [t EXCEPT ![Slot(n)] = e]
  <2>1. Len(t) = HistorySize /\ HistorySize < n /\ Slot(n) \in 1 .. Len(t)
    BY <1>1, <1>3, PlaceFacts DEF Retained
  <2>2. /\ Len(t2) = Len(t) /\ t2[Slot(n)] = e
        /\ \A i \in 1 .. Len(t) : i # Slot(n) => t2[i] = t[i]
    BY <2>1
  <2> HIDE DEF t2
  <2>3. ASSUME NEW i \in 1 .. n, i > n - (HistorySize - 1) PROVE t2[Place(i)] = s2[i]
    <3>1. CASE i = n
      <4>1. Place(i) = Slot(n)
        BY <1>1, <2>1, <3>1 DEF Place
      <4> QED BY <1>1, <2>2, <3>1, <4>1
    <3>2. CASE i # n
      <4>1. /\ i \in 1 .. Len(s) /\ i > Len(s) - (HistorySize - 1) /\ i < n /\ i \in Nat
            /\ n < i + HistorySize - 1
        BY <1>1, <2>3, <3>2
      <4>2. Place(i) # Slot(n) /\ Place(i) \in 1 .. Len(t)
        BY <1>1, <2>1, <4>1, PlaceFacts
      <4>3. t[Place(i)] = s[i]
        BY <1>1, <4>1 DEF Retained
      <4> QED BY <1>1, <2>2, <4>1, <4>2, <4>3
    <3> QED BY <3>1, <3>2
  <2>4. Len(t2) = HistorySize /\ Len(t2) <= Len(s2)
    BY <1>1, <2>1, <2>2
  <2>5. Retained(s2, t2)
    BY <1>1, <2>3, <2>4 DEF Retained
  <2> QED BY <1>3, <2>5 DEF t2, s2, n
<1> QED BY <1>2, <1>3

\* Every step keeps what the ring holds.
LEMMA StepRing == ASSUME TypeOK, InHand, RingKept, [Next]_vars PROVE RingKept'
<1>0. /\ ring \in [Replicas -> Seq(Events)] /\ log \in [Replicas -> Seq(Events)]
      /\ \A n \in Notification : n.event \in Events
  BY DEF TypeOK, Notification
<1>1. ASSUME NEW r \in Replicas, NEW e \in Events, Put(r, e) PROVE RingKept'
  <2>1. /\ log'[r] = Append(log[r], e) /\ \A q \in Replicas \ {r} : log'[q] = log[q]
    BY <1>0, <1>1 DEF Put
  <2>2. /\ ring'[r] = IF Len(ring[r]) < HistorySize THEN Append(ring[r], e)
                      ELSE [ring[r] EXCEPT ![Slot(Len(log[r]) + 1)] = e]
        /\ \A q \in Replicas \ {r} : ring'[q] = ring[q]
    BY <1>0, <1>1 DEF Put
  <2>3. Retained(log'[r], ring'[r])
    <3>1. Retained(log[r], ring[r]) /\ log[r] \in Seq(Events) /\ ring[r] \in Seq(Events)
      BY <1>0 DEF RingKept
    <3>2. Retained(Append(log[r], e),
                   IF Len(ring[r]) < HistorySize THEN Append(ring[r], e)
                   ELSE [ring[r] EXCEPT ![Slot(Len(log[r]) + 1)] = e])
      BY <3>1, PutKept
    <3> QED BY <2>1, <2>2, <3>2
  <2> QED BY <2>1, <2>2, <2>3 DEF RingKept
<1>2. ASSUME UNCHANGED <<log, ring>> PROVE RingKept'
  BY <1>2 DEF RingKept
<1>3. ASSUME NEW r \in Replicas, Publish(r) PROVE RingKept'
  <2>1. published' \in Events /\ Put(r, published')
    BY <1>3, BoundsAssumption DEF Publish, TypeOK, Events
  <2> QED BY <1>1, <2>1
<1>4. ASSUME NEW r \in Replicas, Deliver(r) PROVE RingKept'
  <2>1. inhand[r].event \in Events
    BY <1>0, <1>4 DEF Deliver, InHand
  <2>2. CASE inhand[r].source = r
    BY <1>2, <1>4, <2>2 DEF Deliver, bus
  <2>3. CASE inhand[r].source # r
    BY <1>1, <1>4, <2>1, <2>3 DEF Deliver
  <2> QED BY <2>2, <2>3
<1>5. ASSUME NEW r \in Replicas,
             \/ Subscribe(r) \/ Receive(r) \/ Unsubscribe(r) \/ Sent(r) \/ Wait(r) \/ Take(r) \/ WaitFails(r)
             \/ Cancelled(r) \/ Reconnect(r) \/ ReconnectFails(r) \/ Lose(r) \/ Stop(r)
             \/ \E e \in Events : Notify(r, e) \/ NotifyFails(r, e) \/ SentOnOld(r, e)
      PROVE  RingKept'
  <2>1. UNCHANGED <<log, ring>>
    BY <1>5 DEF Subscribe, Receive, Unsubscribe, Sent, Wait, Take, WaitFails, Cancelled, Reconnect, ReconnectFails,
                Lose, Stop, Notify, NotifyFails, SentOnOld, bus
  <2> QED BY <1>2, <2>1
<1>6. CASE UNCHANGED vars
  BY <1>2, <1>6 DEF vars, bus
<1> QED BY <1>3, <1>4, <1>5, <1>6 DEF Next, Hook, Listener

\* BusInv holds in every reachable state.
LEMMA BusInvariant == ServerSpec => []BusInv
<1>1. ServerInit => BusInv
  BY InitBus DEF ServerInit
<1>2. BusInv /\ [ServerNext]_serverVars => BusInv'
  <2> SUFFICES ASSUME BusInv, [ServerNext]_serverVars PROVE BusInv'
    OBVIOUS
  <2>1. [Next]_vars
    BY DEF ServerNext, serverVars
  <2> QED BY <2>1, StepBusTyped, StepInHand, StepTracked, StepInOrder, StepRing DEF BusInv
<1> QED BY <1>1, <1>2, PTL DEF ServerSpec

\* What the client has been sent last and what it is sent next are in the order of
\* the bus.
LEMMA OutInOrder ==
  ASSUME NEW s, NEW w \in Seq(Events), NEW m \in Events \cup {NoEvent}, InOrder(s, w, m),
         NEW i \in 1 .. Len(IF m = NoEvent THEN w ELSE <<m>> \o w) - 1
  PROVE  Precedes(s, (IF m = NoEvent THEN w ELSE <<m>> \o w)[i], (IF m = NoEvent THEN w ELSE <<m>> \o w)[i + 1])
<1>1. CASE m = NoEvent
  BY <1>1 DEF InOrder
<1>2. CASE m # NoEvent
  <2> DEFINE v == <<m>> \o w
  <2>1. /\ Len(v) = Len(w) + 1 /\ Len(w) \in Nat /\ v[1] = m
        /\ \A j \in 1 .. Len(w) : v[j + 1] = w[j]
    <3>1. <<m>> \in Seq(Events) /\ Len(<<m>>) = 1 /\ <<m>>[1] = m
      BY <1>2
    <3>2. \A j \in 1 .. Len(w) : v[1 + j] = w[j]
      BY <3>1
    <3> QED BY <3>1, <3>2
  <2> HIDE DEF v
  <2>2. i \in 1 .. Len(w) /\ v[i + 1] = w[i]
    BY <1>2, <2>1 DEF v
  <2>3. CASE i = 1
    <3>1. w # <<>>
      BY <2>2, <2>3
    <3> QED BY <1>2, <2>1, <2>2, <2>3, <3>1 DEF InOrder, v
  <2>4. CASE i # 1
    <3>1. i - 1 \in 1 .. Len(w) - 1 /\ (i - 1) + 1 = i
      BY <2>1, <2>2, <2>4
    <3>2. v[i] = w[i - 1] /\ Precedes(s, w[i - 1], w[i])
      BY <2>1, <3>1 DEF InOrder
    <3> QED BY <1>2, <2>2, <3>2 DEF v
  <2> QED BY <2>3, <2>4
<1> QED BY <1>1, <1>2

\* With replaced connections and lost ones, no bus has an event twice, a client is
\* sent what it is sent in the order of its bus, and the ring has the latest.
THEOREM BusCorrect == ServerSpec => []BusFaithful
<1>1. ASSUME BusInv PROVE BusFaithful
  <2>0. /\ TypeOK /\ LogOnce /\ ClientInOrder /\ RingKept
        /\ queue \in [Replicas -> Seq(Events)] /\ last \in [Replicas -> Events \cup {NoEvent}]
        /\ ring \in [Replicas -> Seq(Events)] /\ log \in [Replicas -> Seq(Events)]
    BY <1>1 DEF BusInv, Tracked, TypeOK
  <2> SUFFICES ASSUME NEW r \in Replicas
               PROVE  LET out == IF last[r] = NoEvent THEN queue[r] ELSE <<last[r]>> \o queue[r] IN
                      /\ IsInjective(log[r])
                      /\ \A i \in 1 .. Len(out) - 1 :
                           \E k, l \in DOMAIN log[r] : k < l /\ log[r][k] = out[i] /\ log[r][l] = out[i + 1]
                      /\ \A i \in DOMAIN log[r] :
                           i > Len(log[r]) - (HistorySize - 1) => log[r][i] \in Range(ring[r])
    BY DEF BusFaithful
  <2> DEFINE out == IF last[r] = NoEvent THEN queue[r] ELSE <<last[r]>> \o queue[r]
  <2>1. IsInjective(log[r])
    BY <2>0 DEF LogOnce
  <2>2. ASSUME NEW i \in 1 .. Len(out) - 1
        PROVE  \E k, l \in DOMAIN log[r] : k < l /\ log[r][k] = out[i] /\ log[r][l] = out[i + 1]
    <3>1. InOrder(log[r], queue[r], last[r]) /\ queue[r] \in Seq(Events) /\ last[r] \in Events \cup {NoEvent}
      BY <2>0 DEF ClientInOrder
    <3>2. Precedes(log[r], out[i], out[i + 1])
      BY <3>1, OutInOrder
    <3> QED BY <3>2 DEF Precedes
  <2>3. ASSUME NEW i \in DOMAIN log[r], i > Len(log[r]) - (HistorySize - 1) PROVE log[r][i] \in Range(ring[r])
    <3>1. Retained(log[r], ring[r])
      BY <2>0 DEF RingKept
    <3>2. ring[r][Place(i)] = log[r][i]
      BY <2>3, <3>1 DEF Retained
    <3>3. i \in 1 .. Len(log[r]) /\ Len(log[r]) \in Nat /\ Len(ring[r]) \in Nat /\ DOMAIN ring[r] = 1 .. Len(ring[r])
      BY <2>0
    <3>4. Place(i) \in DOMAIN ring[r]
      <4>1. CASE Len(ring[r]) < HistorySize
        BY <3>1, <3>3, <4>1, SizesAssumption DEF Retained, Place
      <4>2. CASE ~(Len(ring[r]) < HistorySize)
        <5>1. Len(ring[r]) = HistorySize
          BY <3>1, <3>3, <4>2, SizesAssumption DEF Retained
        <5> QED BY <3>3, <5>1, PlaceFacts
      <4> QED BY <4>1, <4>2
    <3> QED BY <3>2, <3>4 DEF Range
  <2> QED BY <2>1, <2>2, <2>3
<1> QED BY <1>1, BusInvariant, PTL
=============================================================================
