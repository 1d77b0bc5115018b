----------------------------- MODULE MCApiServer -----------------------------
(***************************************************************************)
(* The instances that a configuration file cannot write down.              *)
(***************************************************************************)
EXTENDS ApiServer

Keys(admin, api, route) == [token |-> NoToken, keys |-> <<admin, api>>, route |-> route]

Bearer(kid, alg, groups, exp, route) ==
  [token |-> [kid |-> kid, alg |-> alg, groups |-> groups, exp |-> exp, ours |-> TRUE],
   keys |-> <<"none", "none">>, route |-> route]

\* The admin route with either key and with tokens, a spawn with both.
SomeRequests ==
  {Keys("none", "api", "admin"), Keys("admin", "api", "admin"), Keys("none", "api", "spawn"),
   Bearer("r", "RS256", {"admins"}, 3, "admin"),
   Bearer("e", "ES256", {"viewers"}, 9, "spawn")}

\* API keys with and without a key for admins, a static key, and OIDC alone.
SomeConfigs ==
  {[apiKey |-> TRUE, adminKey |-> FALSE, fallback |-> f, oidc |-> "none", store |-> TRUE] :
     f \in BOOLEAN} \cup
  {[apiKey |-> TRUE, adminKey |-> TRUE, fallback |-> FALSE, oidc |-> o, store |-> TRUE] :
     o \in {"none", "static"}} \cup
  {[apiKey |-> FALSE, adminKey |-> FALSE, fallback |-> TRUE, oidc |-> "jwks", store |-> FALSE]}
=============================================================================
