------------------------------ MODULE JwksCache ------------------------------
(***************************************************************************)
(* The verification of bearer tokens (internal/api/middleware/jwt.go).     *)
(* The keys of the identity provider are fetched when a request finds the  *)
(* cache older than its time to live.  A request reads the clock once, at  *)
(* its start; fetches overlap, may be slow, and the last one to end stays. *)
(* A signature is the identifier of the key that made it.                  *)
(***************************************************************************)
EXTENDS Integers

CONSTANTS
  Clients,   \* requests under way at a time
  RSAKeys, ECKeys, \* the keys of the identity provider, by their type
  StaticKey, \* the key of the configuration, if that names one
  JwksTTL,   \* time to live of the cached keys
  MaxTime    \* bound on the time

ASSUME KeysAssumption ==
  /\ JwksTTL \in Nat \ {0}
  /\ RSAKeys \cap ECKeys = {} /\ StaticKey \in RSAKeys \cup ECKeys

Kids == RSAKeys \cup ECKeys

VARIABLES
  time,     \* the time, from 1 on
  offered,  \* the keys that the identity provider publishes now
  ended,    \* when it stopped to publish a key, 0 if it has not
  cached,   \* the keys in the cache
  fetched,  \* the reading of the clock they are marked with, 0 for none
  answer    \* the keys that the provider has sent in answer to a client

issuerVars == <<offered, ended>>
cacheVars == <<cached, fetched>>
jwksVars == <<time, issuerVars, cacheVars, answer>>

JwksInit ==
  /\ time = 1 /\ offered = {StaticKey} /\ ended = [k \in Kids |-> 0]
  /\ cached = {} /\ fetched = 0 /\ answer = [c \in Clients |-> {}]

-----------------------------------------------------------------------------
\* The identity provider brings a new key, or takes one back for good.
Introduce(k) ==
  /\ k \notin offered /\ ended[k] = 0
  /\ offered' = offered \cup {k}
  /\ UNCHANGED <<time, ended, cacheVars, answer>>

Withdraw(k) ==
  /\ k \in offered
  /\ offered' = offered \ {k} /\ ended' = [ended EXCEPT ![k] = time]
  /\ UNCHANGED <<time, cacheVars, answer>>

TimePasses ==
  /\ time < MaxTime /\ time' = time + 1
  /\ UNCHANGED <<issuerVars, cacheVars, answer>>

-----------------------------------------------------------------------------
\* get, under the read lock: the keys of the cache are used.
Fresh(now) == fetched # 0 /\ now < fetched + JwksTTL

\* fetchJWKS.  An answer that says nothing of keys counts as no keys at all.
Fetched(c) ==
  /\ \E keys \in {offered, {}} : answer' = [answer EXCEPT ![c] = keys]
  /\ UNCHANGED <<time, issuerVars, cacheVars>>

\* Faulty variant of Remember: the keys are marked with the time of their arrival.
RememberNow(c, now) ==
  /\ cached' = answer[c] /\ fetched' = time
  /\ answer' = [answer EXCEPT ![c] = {}]
  /\ UNCHANGED <<time, issuerVars>>

\* get, under the write lock.
Remember(c, now) ==
  /\ cached' = answer[c] /\ fetched' = now
  /\ answer' = [answer EXCEPT ![c] = {}]
  /\ UNCHANGED <<time, issuerVars>>

\* verifyJWT, once the keys to look for the token's are known.
VerifiedWith(token, keys, now) ==
  /\ token.kid \in keys
  /\ token.alg = "RS256" <=> token.kid \in RSAKeys
  /\ now < token.exp
  /\ token.ours

\* The first of the role's groups that is configured; the role of a token with
\* none of them is that of an API key.
OidcRole(groups) ==
  IF "admins" \in groups THEN "admin"
  ELSE IF "operators" \in groups THEN "operator"
  ELSE IF "viewers" \in groups THEN "viewer"
  ELSE "api"
=============================================================================
