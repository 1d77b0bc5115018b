----------------------------- MODULE ApiRequests -----------------------------
(***************************************************************************)
(* A request on its way through the API server (internal/api/server.go and *)
(* internal/api/middleware): the identity from a bearer token or an API    *)
(* key, the scopes of the route, the handler, and the audit record of an   *)
(* admin route.                                                            *)
(***************************************************************************)
EXTENDS JwksCache, Sequences, FiniteSets

CONSTANTS
  Configs,   \* configurations of the server, [apiKey, adminKey, fallback, oidc, store]
  Requests,  \* what requests come with, [token, keys, route]
  NoToken,   \* no bearer token
  Retention, \* how long audit records are kept
  MaxActs,   \* bound on the admin requests handled
  MaxLost    \* bound on the audit records that fail to be written

ASSUME AuditAssumption == Retention \in Nat \ {0}

VARIABLES
  config,  \* the configuration in use
  stage,   \* where each request is
  request, \* the request
  read,    \* its reading of the clock
  acted,   \* history: the time of each admin request that was handled
  act,     \* which of them a request is, 0 for none
  audits,  \* the audit log: the acts that have a record
  lost     \* history: acts whose record was not written

auditVars == <<acted, audits, lost>>
requestVars == <<stage, request, read, act>>
apiVars == <<jwksVars, config, requestVars, auditVars>>

Anonymous == [from |-> "none", role |-> "anonymous"]
NoRequest == [token |-> NoToken, keys |-> <<"none", "none">>, route |-> "none"]

ApiInit ==
  /\ JwksInit /\ config \in Configs
  /\ stage = [c \in Clients |-> "idle"] /\ request = [c \in Clients |-> NoRequest]
  /\ read = [c \in Clients |-> 0] /\ act = [c \in Clients |-> 0]
  /\ acted = <<>> /\ audits = {} /\ lost = {}

-----------------------------------------------------------------------------
(* Who a request is from, and what it may do.                              *)

\* authenticateRequest: X-Admin-API-Key comes before X-API-Key; a header with
\* none of the candidates' keys, [key, role], is passed over.
Authenticated(keys, candidates) ==
  LET Holder(i) == {k \in candidates : k.key = keys[i]}
      found == IF Holder(1) # {} THEN Holder(1) ELSE Holder(2) IN
  IF found = {} THEN Anonymous
                ELSE [from |-> "key", role |-> (CHOOSE k \in found : TRUE).role]

Candidate(key, role) == {[key |-> key, role |-> role]}

\* AuthAny: the API key and the admin key, as far as they are configured.
ApiKeys ==
  (IF config.apiKey THEN Candidate("api", "api") ELSE {}) \cup
  (IF config.adminKey THEN Candidate("admin", "admin") ELSE {})

\* AdminAuth: the admin key or, without one, the API key if that is allowed.
AdminKeys ==
  IF config.adminKey THEN Candidate("admin", "admin")
  ELSE IF config.fallback /\ config.apiKey THEN Candidate("api", "admin") ELSE {}

AuthConfigured == config.apiKey \/ config.adminKey \/ config.oidc # "none"

\* The identity in the context after a middleware that asks for a key; an
\* identity from a token stays.
Promoted(identity, keys, candidates) ==
  IF identity.from = "token" \/ candidates = {} THEN identity ELSE Authenticated(keys, candidates)

Refused(identity, candidates) == candidates # {} /\ identity = Anonymous

Scopes(role) ==
  CASE role = "admin" -> {"read", "api", "operator", "admin"}
    [] role = "operator" -> {"read", "api", "operator"}
    [] role = "api" -> {"read", "api"}
    [] role = "viewer" -> {"read"}
    [] OTHER -> {}

\* RequireScope and RoutesWithScopeEnforcement: only where there are identities.
Permitted(identity, route) ==
  AuthConfigured =>
    (CASE route = "admin" -> "admin" [] route = "spawn" -> "api" [] OTHER -> "read")
      \in Scopes(identity.role)

-----------------------------------------------------------------------------
(* The way of a request.                                                   *)

End(c) ==
  /\ stage' = [stage EXCEPT ![c] = "idle"] /\ request' = [request EXCEPT ![c] = NoRequest]
  /\ read' = [read EXCEPT ![c] = 0] /\ act' = [act EXCEPT ![c] = 0]

\* Through AuthAny, AdminAuth and the scope of the route to the handler.
Route(c, q, identity) ==
  LET user == Promoted(identity, q.keys, ApiKeys)
      admin == Promoted(user, q.keys, AdminKeys)
      isAdmin == q.route = "admin"
      final == IF isAdmin THEN admin ELSE user IN
  IF Refused(user, ApiKeys) \/ (isAdmin /\ Refused(admin, AdminKeys))
       \/ ~Permitted(final, q.route)
    THEN End(c)
    ELSE /\ stage' = [stage EXCEPT ![c] = "handler"] /\ request' = [request EXCEPT ![c] = q]
         /\ UNCHANGED <<read, act>>

TokenIdentity(token) == [from |-> "token", role |-> OidcRole(token.groups)]

\* A request comes in, through OIDCAuth up to the cache.
Arrive(c, q) ==
  /\ stage[c] = "idle"
  /\ IF q.token = NoToken \/ config.oidc = "none" THEN Route(c, q, Anonymous)
     ELSE IF config.oidc = "jwks"
       THEN /\ stage' = [stage EXCEPT ![c] = "lookup"] /\ request' = [request EXCEPT ![c] = q]
            /\ read' = [read EXCEPT ![c] = time]
            /\ UNCHANGED act
       ELSE /\ VerifiedWith(q.token, {StaticKey}, time)
            /\ Route(c, q, TokenIdentity(q.token))
  /\ UNCHANGED <<jwksVars, config, auditVars>>

Verify(c, keys) ==
  LET token == request[c].token IN
  IF VerifiedWith(token, keys, read[c])
    THEN Route(c, request[c], TokenIdentity(token)) ELSE End(c)

Lookup(c) ==
  /\ stage[c] = "lookup"
  /\ IF Fresh(read[c]) THEN Verify(c, cached)
     ELSE stage' = [stage EXCEPT ![c] = "fetch"] /\ UNCHANGED <<request, read, act>>
  /\ UNCHANGED <<jwksVars, config, auditVars>>

Fetch(c) ==
  /\ stage[c] = "fetch" /\ Fetched(c)
  /\ stage' = [stage EXCEPT ![c] = "store"]
  /\ UNCHANGED <<config, request, read, act, auditVars>>

FetchFails(c) ==
  /\ stage[c] = "fetch" /\ End(c)
  /\ UNCHANGED <<jwksVars, config, auditVars>>

Store(c) ==
  /\ stage[c] = "store" /\ Remember(c, read[c]) /\ Verify(c, answer[c])
  /\ UNCHANGED <<config, auditVars>>

\* The handler.  AdminAudit follows that of an admin route, if there is a store.
Handle(c) ==
  /\ stage[c] = "handler"
  /\ IF request[c].route = "admin" /\ config.store
       THEN /\ Len(acted) < MaxActs
            /\ acted' = Append(acted, time)
            /\ act' = [act EXCEPT ![c] = Len(acted')]
            /\ stage' = [stage EXCEPT ![c] = "audit"]
            /\ UNCHANGED <<request, read>>
       ELSE End(c) /\ UNCHANGED acted
  /\ UNCHANGED <<jwksVars, config, audits, lost>>

-----------------------------------------------------------------------------
(* AdminAudit.  The record has the time of its writing, and is written in  *)
(* the context of the request, which ends when the client goes.            *)

Audit(c) ==
  /\ stage[c] = "audit"
  /\ audits' = audits \cup {[act |-> act[c], at |-> time]}
  /\ stage' = [stage EXCEPT ![c] = "prune"] /\ read' = [read EXCEPT ![c] = time]
  /\ act' = [act EXCEPT ![c] = 0]
  /\ UNCHANGED <<jwksVars, config, request, acted, lost>>

\* A line in the log, and no record.
AuditFails(c) ==
  /\ stage[c] = "audit" /\ Cardinality(lost) < MaxLost
  /\ lost' = lost \cup {act[c]}
  /\ End(c)
  /\ UNCHANGED <<jwksVars, config, acted, audits>>

\* Faulty variant of Prune: a record is dropped a moment early.
PruneEarly(c) ==
  /\ stage[c] = "prune"
  /\ audits' = {a \in audits : a.at > read[c] - Retention}
  /\ End(c)
  /\ UNCHANGED <<jwksVars, config, acted, lost>>

\* DeleteAdminAuditBefore.
Prune(c) ==
  /\ stage[c] = "prune"
  /\ audits' = {a \in audits : a.at >= read[c] - Retention}
  /\ End(c)
  /\ UNCHANGED <<jwksVars, config, acted, lost>>

-----------------------------------------------------------------------------
\* The server is started again: requests and the cache are lost.
Restart ==
  /\ lost' = lost \cup ({act[c] : c \in {d \in Clients : stage[d] = "audit"}})
  /\ stage' = [c \in Clients |-> "idle"] /\ request' = [c \in Clients |-> NoRequest]
  /\ read' = [c \in Clients |-> 0] /\ act' = [c \in Clients |-> 0]
  /\ cached' = {} /\ fetched' = 0 /\ answer' = [c \in Clients |-> {}]
  /\ UNCHANGED <<time, issuerVars, config, acted, audits>>

Served(c) ==
  \/ Lookup(c) \/ Fetch(c) \/ FetchFails(c) \/ Store(c) \/ Handle(c) \/ Audit(c) \/ AuditFails(c)
  \/ Prune(c)

ApiNext ==
  \/ Restart
  \/ \E c \in Clients :
       \/ Served(c)
       \/ \E q \in Requests : Arrive(c, q)
  \/ /\ TimePasses \/ (config.oidc = "jwks" /\ \E k \in Kids : Introduce(k) \/ Withdraw(k))
     /\ UNCHANGED <<config, requestVars, auditVars>>

-----------------------------------------------------------------------------
(* Whoever reaches a handler of an admin route of a server with accounts   *)
(* has shown the admin key (the API key where that stands in for it) or a  *)
(* token of the admin group, signed with a key that the identity provider  *)
(* has still published within the time to live of the cache, however       *)
(* fetches overlap (server.go:94-140, jwt.go:87-114).                      *)
AdminsOnly ==
  \A c \in Clients :
    AuthConfigured /\ stage[c] = "handler" /\ request[c].route = "admin" =>
      LET token == request[c].token IN
      IF token # NoToken /\ config.oidc # "none"
        THEN /\ "admins" \in token.groups
             /\ config.oidc = "jwks" =>
                  ended[token.kid] = 0 \/ ended[token.kid] > read[c] - JwksTTL
        ELSE \E i \in 1 .. 2 :
               request[c].keys[i] = IF config.adminKey THEN "admin" ELSE "api"

(* "Admin route access is persisted" (docs/admin-control-plane.md:85):     *)
(* what an admin did is on record as long as the retention says, unless    *)
(* the write failed, above all because the client had gone before it.      *)
AuditKept ==
  \A i \in DOMAIN acted :
    \/ \E a \in audits : a.act = i
    \/ i \in lost
    \/ \E c \in Clients : act[c] = i /\ stage[c] = "audit"
    \/ time > acted[i] + Retention
=============================================================================
