--------------------------- MODULE SandboxService ---------------------------
(***************************************************************************)
(* The services behind the custom and the E2B provider, which are not part *)
(* of the repository, and the one way to them: an HTTP request of          *)
(* doRequest in internal/providers/custom.go and e2b.go.  A service        *)
(* answers 404, or 410, about a sandbox that it does not have.             *)
(***************************************************************************)
EXTENDS ProviderCalls

Codes == {"200", "404", "410"}

\* what the service does about a request, and the status it answers
Serve(c, code) ==
  \/ code = "200" /\ call[c].op = "spawn" /\ SetRuntime(c, "running")
  \/ code = "200" /\ call[c].op = "destroy" /\ runtime[Sb(c)] # "none" /\ SetRuntime(c, "none")
  \/ code = "200" /\ call[c].op \notin {"spawn", "destroy"} /\ runtime[Sb(c)] # "none" /\ UNCHANGED runtime
  \/ code \in {"404", "410"} /\ call[c].op # "spawn" /\ runtime[Sb(c)] = "none" /\ UNCHANGED runtime

\* Over or broken, the context or the connection loses the request or, once
\* it has been served, the answer; or the service fails with a status of 5xx.
doRequest(c) ==
  /\ call[c].at = "begin" /\ call[c].op # "logs"
  /\ \/ Succeeds(c) /\ \E code \in Codes : Serve(c, code) /\ Step(c, code)
     \/ Fails(c) /\ \E code \in Codes : Serve(c, code) /\ Finish(c, "unreachable", call[c].op = "spawn")
     \/ Fails(c) /\ Answer(c, "unreachable") /\ UNCHANGED runtime
  /\ UNCHANGED table

\* the body of an answer is cut off, which ReadAll's caller does not look at
Cut(c) == ctx[c] # "live"

\* the end of a call that has an answer
Replies(c, op, code, err) ==
  /\ At(c, op, code)
  /\ Answer(c, err)
  /\ UNCHANGED <<runtime, table, broken>>
=============================================================================
