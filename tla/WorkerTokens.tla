----------------------------- MODULE WorkerTokens -----------------------------
(***************************************************************************)
(* The signed tokens between the control plane and a worker, and the       *)
(* rotation of the key that signs them.                                    *)
(*                                                                         *)
(* Each process has read its configuration at its start: the signing key,  *)
(* further keys it accepts, and the revoked token identifiers.  The        *)
(* operator goes through the steps of "stacyvm worker token rotation-plan" *)
(* (cmd/stacyvm/cmd_worker.go), which are those of                         *)
(* docs/worker-rpc-contract.md, and restarts the processes one by one.     *)
(* Tokens are minted by the control plane for its RPC calls and as the     *)
(* issuer (api/routes/token_issuer.go), by the worker, and on the command  *)
(* line, and verified by the control plane (api/middleware/auth.go) and by *)
(* the worker (worker/rpc.go).  Clocks differ by at most Skew.             *)
(***************************************************************************)
EXTENDS Integers, FiniteSets

CONSTANTS
  MaxTTL,     \* the longest life of a token
  TTL,        \* the life that the operator has planned with
  Skew,       \* WorkerTokenClockSkew
  NoTokenYet, \* no token in the token file
  MaxNow,     \* bound on the time
  MaxMinted,  \* bound on the tokens minted
  MaxRevoked  \* bound on the tokens revoked

ASSUME TokensAssumption ==
  /\ {TTL, MaxTTL} \subseteq Nat \ {0} /\ Skew \in Nat
  /\ TTL <= MaxTTL

\* The control plane, and a worker.
Processes == {"cp", "worker"}

\* The audience of a process: the tokens meant for it.
Audience == [cp |-> "worker:control-plane", worker |-> "worker:rpc"]

VARIABLES
  now,     \* the time
  offset,  \* by how much a process's clock is ahead
  source,  \* where the worker has its tokens from: "issuer", "local" or "file"
  file,    \* what is in the configuration, [signing, accepted, revoked]
  loaded,  \* what each process has read of it
  since,   \* when the last process was restarted with the keys now in the file
  phase,   \* the step of the rotation
  token,   \* the worker's token file
  sent,    \* tokens on their way, [to, token]
  minted,  \* number of tokens minted
  verdict  \* the last request that was checked, [ok, to, token]

tokenVars == <<now, offset, source, file, loaded, since, phase, token, sent, minted, verdict>>

NoVerdict == [ok |-> TRUE, to |-> "none", token |-> NoTokenYet]

Before == [signing |-> "old", accepted |-> {}, revoked |-> {}]

TokensInit ==
  /\ now = 1 /\ offset \in [Processes -> 0 .. Skew]
  /\ source \in {"issuer", "local", "file"}
  /\ file = Before /\ loaded = [p \in Processes |-> Before] /\ since = 0 /\ phase = "before"
  /\ token = NoTokenYet /\ sent = {} /\ minted = 0 /\ verdict = NoVerdict

-----------------------------------------------------------------------------
(* Tokens.                                                                 *)

Clock(p) == now + offset[p]

\* SignWorkerToken, with the claims that all minters give.
Signed(key, audience, clock, ttl) ==
  [key |-> key, id |-> minted + 1, aud |-> audience, iat |-> clock, exp |-> clock + ttl]

\* VerifyWorkerTokenForAudience, for one key.
VerifiesFor(key, t, audience, clock) ==
  /\ t.key = key
  /\ clock < t.exp
  /\ clock + Skew >= t.iat
  /\ t.exp - t.iat <= MaxTTL
  /\ t.aud = audience

\* normalizeSigningKeys: the signing key and the further ones.
SigningKeys(c) == {c.signing} \cup c.accepted

\* Faulty variant of VerifyWithAnyKey: only the signing key is tried.
VerifyWithFirstKey(c, t, audience, clock) == VerifiesFor(c.signing, t, audience, clock)

\* verifyWorkerTokenWithAnyKey.
VerifyWithAnyKey(c, t, audience, clock) ==
  \E key \in SigningKeys(c) : VerifiesFor(key, t, audience, clock)

Revoked(c, t) == t.id \in c.revoked

\* validateWorkerCredentials, at the control plane.
ControlPlaneAccepts(t) ==
  /\ VerifyWithAnyKey(loaded["cp"], t, Audience["cp"], Clock("cp"))
  /\ ~Revoked(loaded["cp"], t)

\* authenticate, at the worker's RPC server.
WorkerAccepts(t) ==
  \E key \in SigningKeys(loaded["worker"]) :
    /\ VerifiesFor(key, t, Audience["worker"], Clock("worker"))
    /\ ~Revoked(loaded["worker"], t)

\* "stacyvm worker token verify", with the configuration c.
CommandAccepts(c, t, audience, clock) ==
  /\ VerifyWithAnyKey(c, t, audience, clock)
  /\ ~Revoked(c, t)

-----------------------------------------------------------------------------
(* Requests.                                                               *)

Minted == minted < MaxMinted /\ minted' = minted + 1 /\ verdict' = NoVerdict

SendTo(to, t) == sent' = sent \cup {[to |-> to, token |-> t]}

\* The control plane calls the worker (remoteClientForWorker).
CallWorker ==
  /\ Minted
  /\ SendTo("worker", Signed(loaded["cp"].signing, Audience["worker"], Clock("cp"), TTL))
  /\ UNCHANGED <<now, offset, source, file, loaded, since, phase, token>>

\* A heartbeat or renewal with a token of the worker's own (signedWorkerTokenFunc).
SendLocal ==
  /\ source = "local" /\ Minted
  /\ SendTo("cp", Signed(loaded["worker"].signing, Audience["cp"], Clock("worker"), TTL))
  /\ UNCHANGED <<now, offset, source, file, loaded, since, phase, token>>

\* What the control plane issues for a worker that shows its own credentials.
IssueToken == Signed(loaded["cp"].signing, Audience["cp"], Clock("cp"), TTL)

\* The same with one that the control plane has issued for it (NewIssuerTokenFunc).
SendIssued ==
  /\ source = "issuer" /\ Minted
  /\ SendTo("cp", IssueToken)
  /\ UNCHANGED <<now, offset, source, file, loaded, since, phase, token>>

\* The operator writes the token file (issueWorkerToken).
WriteTokenFile ==
  /\ source = "file" /\ Minted
  /\ token' = Signed(file.signing, Audience["cp"], now, TTL)
  /\ UNCHANGED <<now, offset, source, file, loaded, since, phase, sent>>

\* The file is read for every request (fileWorkerTokenFunc).
SendFromFile ==
  /\ token # NoTokenYet
  /\ SendTo("cp", token) /\ verdict' = NoVerdict
  /\ UNCHANGED <<now, offset, source, file, loaded, since, phase, token, minted>>

Check(m) ==
  /\ m \in sent
  /\ sent' = sent \ {m}
  /\ verdict' = [ok |-> IF m.to = "cp" THEN ControlPlaneAccepts(m.token) ELSE WorkerAccepts(m.token),
                 to |-> m.to, token |-> m.token]
  /\ UNCHANGED <<now, offset, source, file, loaded, since, phase, token, minted>>

-----------------------------------------------------------------------------
(* The operator.                                                           *)

InForce == \A p \in Processes : loaded[p] = file

\* A new key signs, and the old one is accepted still.
BringIn ==
  /\ phase = "before"
  /\ phase' = "both"
  /\ file' = [file EXCEPT !.signing = "new", !.accepted = {"old"}]
  /\ verdict' = NoVerdict
  /\ UNCHANGED <<now, offset, source, loaded, since, token, sent, minted>>

\* Faulty variant of TakeOut: nobody waits for the old tokens.
TakeOutEarly ==
  /\ phase = "both" /\ InForce
  /\ phase' = "after"
  /\ file' = [file EXCEPT !.accepted = {}]
  /\ verdict' = NoVerdict
  /\ UNCHANGED <<now, offset, source, loaded, since, token, sent, minted>>

\* "Wait at least" the life of a token, "plus clock skew, before removing the
\* previous verification key".
TakeOut ==
  /\ phase = "both" /\ InForce /\ now >= since + TTL + Skew
  /\ phase' = "after"
  /\ file' = [file EXCEPT !.accepted = {}]
  /\ verdict' = NoVerdict
  /\ UNCHANGED <<now, offset, source, loaded, since, token, sent, minted>>

\* A token identifier is put on the list.
Revoke(id) ==
  /\ id \in 1 .. minted \ file.revoked /\ Cardinality(file.revoked) < MaxRevoked
  /\ file' = [file EXCEPT !.revoked = @ \cup {id}]
  /\ verdict' = NoVerdict
  /\ UNCHANGED <<now, offset, source, loaded, since, phase, token, sent, minted>>

Reload(p) ==
  /\ loaded[p] # file
  /\ loaded' = [loaded EXCEPT ![p] = file]
  /\ since' = now
  /\ verdict' = NoVerdict
  /\ UNCHANGED <<now, offset, source, file, phase, token, sent, minted>>

Tick ==
  /\ now < MaxNow
  /\ now' = now + 1
  /\ verdict' = NoVerdict
  /\ UNCHANGED <<offset, source, file, loaded, since, phase, token, sent, minted>>

TokensNext ==
  \/ CallWorker \/ SendLocal \/ SendIssued \/ WriteTokenFile \/ SendFromFile
  \/ \E m \in sent : Check(m)
  \/ BringIn \/ TakeOut \/ Tick
  \/ \E p \in Processes : Reload(p)
  \/ \E id \in 1 .. MaxMinted : Revoke(id)

-----------------------------------------------------------------------------
(* "No-downtime signing-key rotation" (docs/worker-rpc-contract.md:122): a *)
(* request is refused only because its token has expired by the clock of   *)
(* the process it goes to, or is revoked there, or is signed with the new  *)
(* key while that process has not been restarted since the key came.  And  *)
(* the command line says of it what the two servers say.                   *)
TokensHonoured ==
  LET t == verdict.token
      p == verdict.to
  IN verdict # NoVerdict =>
       /\ verdict.ok \/ Clock(p) >= t.exp \/ Revoked(loaded[p], t)
                     \/ (t.key = "new" /\ loaded[p].signing = "old")
       /\ verdict.ok = CommandAccepts(loaded[p], t, Audience[p], Clock(p))
=============================================================================
