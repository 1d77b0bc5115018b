------------------------------ MODULE ApiServer ------------------------------
(***************************************************************************)
(* What the API server does around the manager's own state: the event bus  *)
(* and its bridge (EventBus), the buckets of the rate limiter              *)
(* (RateLimiter), the requests in its middleware with the cached keys of   *)
(* the identity provider (ApiRequests), the keys that sign the tokens      *)
(* between it and the workers (WorkerTokens), and the calls that it passes *)
(* on to them (RemoteCalls).  They share no state, and a behaviour is one  *)
(* of one part.                                                            *)
(***************************************************************************)
EXTENDS EventBus, RateLimiter, ApiRequests, WorkerTokens, RemoteCalls

VARIABLE part \* the part that runs

Parts == {"events", "limiter", "requests", "tokens", "calls"}

serverVars == <<part, vars, limiterVars, apiVars, tokenVars, callVars>>

ServerInit ==
  /\ part \in Parts
  /\ Init /\ LimiterInit /\ ApiInit /\ TokensInit /\ CallsInit
  /\ part # "limiter" => keyBy = "owner"
  /\ part # "requests" => config = CHOOSE c \in Configs : TRUE
  /\ part # "tokens" => source = "local" /\ offset = [p \in Processes |-> 0]

OfEvents(A) == part = "events" /\ A /\ UNCHANGED <<part, limiterVars, apiVars, tokenVars, callVars>>

ServerNext ==
  /\ UNCHANGED part
  /\ \/ part = "events" /\ Next /\ UNCHANGED <<limiterVars, apiVars, tokenVars, callVars>>
     \/ part = "limiter" /\ LimiterNext /\ UNCHANGED <<vars, apiVars, tokenVars, callVars>>
     \/ part = "requests" /\ ApiNext /\ UNCHANGED <<vars, limiterVars, tokenVars, callVars>>
     \/ part = "tokens" /\ TokensNext /\ UNCHANGED <<vars, limiterVars, apiVars, callVars>>
     \/ part = "calls" /\ CallsNext /\ UNCHANGED <<vars, limiterVars, apiVars, tokenVars>>

\* The goroutines run on; the database can be reached again some time, and
\* pg_notify has a time-out.
ServerFairness ==
  \A r \in Replicas :
    /\ WF_serverVars(OfEvents(Listener(r)))
    /\ WF_serverVars(OfEvents(Hook(r)))
    /\ SF_serverVars(OfEvents(Reconnect(r)))

ServerSpec == ServerInit /\ [][ServerNext]_serverVars /\ ServerFairness
=============================================================================
