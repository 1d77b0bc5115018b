------------------------------ MODULE Providers ------------------------------
(***************************************************************************)
(* The providers of internal/providers under calls that overlap, are cut   *)
(* short and outlive a restart, against docs/provider-contract.md.  One    *)
(* provider is in use in a behaviour; FirecrackerVMs has Firecracker's     *)
(* Spawn and Destroy with the snapshots they share.                        *)
(***************************************************************************)
EXTENDS FirecrackerVMs, ProviderCalls

Docker == INSTANCE DockerProvider
PRoot == INSTANCE PRootProvider
Mock == INSTANCE MockProvider
Custom == INSTANCE CustomProvider
E2B == INSTANCE E2BProvider

ASSUME ProvidersAssumption ==
  /\ Kinds \subseteq {"docker", "firecracker", "proot", "mock", "custom", "e2b"}
  /\ Ids \subseteq Nat \ {NoId}
  /\ Room \in Nat \ {0}

providersVars == <<vars, callVars>>

ProvidersInit == Init /\ CallsInit

Goes(c) == Docker!Goes(c) \/ PRoot!Goes(c) \/ Mock!Goes(c) \/ Custom!Goes(c) \/ E2B!Goes(c)

Calling ==
  /\ kind # "firecracker"
  /\ \/ Restart
     \/ \E c \in Callers :
          Begin(c) \/ EndContext(c) \/ PRoot!OwnDeadline(c) \/ Read(c) \/ Goes(c)
  /\ UNCHANGED vars

ProvidersNext == Calling \/ (kind = "firecracker" /\ Next /\ UNCHANGED callVars)

\* the goroutine of a stream; the mock's and the custom one may be stuck
Streaming(c) ==
  \/ Docker!Write(c) \/ Docker!EndStream(c)
  \/ PRoot!ReadStream(c) \/ PRoot!CloseStream(c)
  \/ E2B!SendOutput(c)

\* Goroutines run on; a command that neither prints nor ends has hung.
ProvidersFairness ==
  \A c \in Callers : WF_providersVars(call[c].op = "stream" /\ Streaming(c) /\ UNCHANGED vars)

ProvidersSpec == ProvidersInit /\ [][ProvidersNext]_providersVars /\ ProvidersFairness

-----------------------------------------------------------------------------
(* Properties.                                                             *)

(* "Destroy tears down runtime resources" (provider-contract.md): a        *)
(* runtime that exists belongs to a sandbox that its Spawn has answered    *)
(* and no call has said to be gone, or to a Spawn or Destroy under way.    *)
(* Left behind are what a Spawn could not take back, because its context   *)
(* was over or the answer lost, the directories of PRoot that a restart    *)
(* forgets or that cannot be removed, and those that a write made again.   *)
NothingLeft ==
  \A id \in Ids :
    \/ runtime[id] = "none"
    \/ id \in spawned \ gone
    \/ \E c \in Callers : Sb(c) = id /\ call[c].op \in {"spawn", "destroy"}
    \/ id \in excused

(* "After destroy, exec and file operations must fail with either          *)
(* ErrSandboxDestroyed or ErrSandboxNotFound" (provider-contract.md):      *)
(* begun when some call has answered that the sandbox is gone, none        *)
(* succeeds, and those of the mock, PRoot and custom providers have one of *)
(* the two errors.                                                         *)
AfterDestroy ==
  /\ "none" \notin wrong
  /\ kind \notin {"docker", "e2b"} => wrong = {}

(* "ExecStream ... closes its channel when the command finishes or the     *)
(* stream fails": nobody reads a stream any more, and its goroutine comes  *)
(* to the end, though the channel may be full; unless the command hangs,   *)
(* with Docker in a container that still runs.  The mock and the custom    *)
(* provider wait for room all the same.                                    *)
StreamsEnd ==
  kind \notin {"mock", "custom"} =>
    \A c \in Callers :
      call[c].op = "stream" /\ ~call[c].reads ~>
        \/ call[c].op # "stream"
        \/ call[c].at = "hung" /\ (kind = "docker" => runtime[Sb(c)] = "running")
=============================================================================
