\* The event bus: two replicas, three events published at one and read at the
\* other, a ring of two, and one lost connection or stop.  The rate limiter: two
\* requesters, two keys each way of counting.  Requests: two clients, two keys of
\* the identity provider, two audited acts, one restart or failing write.
\* Tokens: one token through a whole rotation, with clocks one unit apart.
\* Remote calls: one call, two chunks, and a place in every buffer.
SPECIFICATION ServerSpec
CONSTANTS
  Replicas = {r1, r2}
  Publishers = {r1}
  Watched = {r2}
  HistorySize = 2
  Buffer = 1
  MaxAttempts = 1
  MaxEvents = 3
  MaxHooks = 2
  MaxFaults = 1
  Requesters = {q1, q2}
  Headers = {{"X-User-ID", "X-Real-IP"}, {"X-API-Key", "X-Forwarded-For"}}
  Rate = 1
  Burst = 2
  BucketTTL = 1
  CleanupInterval = 1
  MaxDelay = 1
  MaxClock = 4
  Clients = {c1, c2}
  RSAKeys = {"r"}
  ECKeys = {"e"}
  StaticKey = "r"
  NoToken = NoToken
  Configs <- SomeConfigs
  Requests <- SomeRequests
  JwksTTL = 1
  Retention = 1
  MaxTime = 3
  MaxActs = 2
  MaxLost = 1
  MaxTTL = 3
  TTL = 2
  Skew = 1
  NoTokenYet = NoTokenYet
  MaxNow = 6
  MaxMinted = 1
  MaxRevoked = 1
  BufferSize = 1
  MaxPrinted = 2
INVARIANTS BusFaithful RateBound AdminsOnly AuditKept TokensHonoured RemoteAnswersTrue
PROPERTIES ListenerRecovers
CHECK_DEADLOCK FALSE
