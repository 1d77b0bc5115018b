--------------------------- MODULE SandboxLifecycle ---------------------------
(***************************************************************************)
(* The life of local sandboxes: provider runtime, store row and cache      *)
(* entry (internal/orchestrator/manager.go: Spawn, Destroy, ExtendTTL,     *)
(* Prune, pruneExpired, Reconcile, reconcileProviderRuntimes).             *)
(*                                                                         *)
(* One control plane with its providers, none in pool mode.  Spawn calls   *)
(* exclude each other (admissionMu), Destroy calls and the reaper hold no  *)
(* lock.  The process may crash between any two steps; runtimes and rows   *)
(* stay, the cache goes.  On the next start Reconcile compares rows with   *)
(* runtimes before any call is served.                                     *)
(*                                                                         *)
(* Firecracker, PRoot and mock know their runtimes by a map in the same    *)
(* process: after a restart they answer "not found" for every older one,   *)
(* whether it is still there or not (getVM in firecracker.go, Status in    *)
(* proot.go and mock.go).  Docker, E2B and a custom service keep theirs    *)
(* elsewhere.                                                              *)
(*                                                                         *)
(* A row is "live" in every state but "destroyed": nothing here looks at   *)
(* which.  Time is the set of rows whose expires_at has passed.  The lease *)
(* of a local sandbox is granted to its one worker whenever the store      *)
(* answers, so acquiring it is a step that may fail.                       *)
(***************************************************************************)
EXTENDS Integers, FiniteSets

CONSTANTS
  Sandboxes,    \* identifiers that the providers hand out
  Listed,       \* those of a RuntimeSandboxLister (Docker)
  Volatile,     \* those of a provider that knows its runtimes by a map
  Clients,      \* concurrent Destroy requests
  Reaper,       \* the TTL reaper; a Prune request does the same
  NoSandbox,    \* no sandbox is being worked on
  MaxCrashes    \* bound on crashes

ASSUME ConstantsAssumption ==
  /\ Reaper \notin Clients
  /\ NoSandbox \notin Sandboxes
  /\ Listed \subseteq Sandboxes
  /\ Volatile \subseteq Sandboxes \ Listed
  /\ MaxCrashes \in Nat

Destroyers == Clients \cup {Reaper}

VARIABLES
  phase,     \* down, reconciling rows, adopting runtimes, serving
  todo,      \* what the current loop of Reconcile has left
  runtime,   \* sandboxes whose runtime exists in the provider
  forgotten, \* sandboxes with a runtime that a restart took out of its provider's map
  row,       \* state of each sandbox's row
  due,       \* rows whose expires_at has passed
  cached,    \* keys of m.sandboxes
  spc, sid,  \* the Spawn call that holds admissionMu, and its sandbox
  dpc,       \* where each Destroy call stands
  did,       \* the sandbox it is destroying
  work,      \* the sandboxes it has left, that one included
  crashes,
  conflict,  \* Reconcile has failed on a row that exists already
  unmanaged, \* history: not ended or adopted by the provider or the store
  grounds,   \* history: expired, destroyed by a client, or the runtime died
  overtaken  \* history: destroyed before Spawn entered them into the cache

serving == <<cached, spc, sid, dpc, did, work>>
history == <<unmanaged, grounds, overtaken>>
vars == <<phase, todo, runtime, forgotten, row, due, serving, crashes, conflict, history>>

TypeOK ==
  /\ phase \in {"down", "rows", "runtimes", "up"}
  /\ todo \subseteq Sandboxes
  /\ runtime \subseteq Sandboxes
  /\ forgotten \subseteq Volatile
  /\ row \in [Sandboxes -> {"none", "live", "destroyed"}]
  /\ due \subseteq Sandboxes
  /\ cached \subseteq Sandboxes
  /\ spc \in {"idle", "create", "cache", "undo"}
  /\ sid \in Sandboxes \cup {NoSandbox}
  /\ dpc \in [Destroyers -> {"idle", "next", "provider", "mark", "drop"}]
  /\ did \in [Destroyers -> Sandboxes \cup {NoSandbox}]
  /\ work \in [Destroyers -> SUBSET Sandboxes]
  /\ \A d \in Destroyers : dpc[d] = "idle" <=> work[d] = {}
  /\ crashes \in 0 .. MaxCrashes
  /\ conflict \in BOOLEAN
  /\ unmanaged \subseteq Sandboxes
  /\ grounds \subseteq Sandboxes
  /\ overtaken \subseteq Sandboxes

Live == {s \in Sandboxes : row[s] = "live"}

-----------------------------------------------------------------------------
(* Spawn, under admissionMu.                                               *)

\* prov.Spawn returns a new identifier: one that has no row and no runtime.
SpawnRuntime(s) ==
  /\ phase = "up"
  /\ spc = "idle"
  /\ row[s] = "none" /\ s \notin runtime
  /\ runtime' = runtime \cup {s}
  /\ forgotten' = forgotten \ {s}
  /\ spc' = "create"
  /\ sid' = s
  /\ unmanaged' = unmanaged \ {s}
  /\ grounds' = grounds \ {s}
  /\ UNCHANGED <<phase, todo, row, due, cached, dpc, did, work, crashes, conflict, overtaken>>

\* The lease and CreateSandbox; an error of either goes to the clean-up.
CreateRow ==
  /\ spc = "create"
  /\ \/ row' = [row EXCEPT ![sid] = "live"] /\ spc' = "cache"
     \/ spc' = "undo" /\ UNCHANGED row
  /\ UNCHANGED <<phase, todo, runtime, forgotten, due, cached, sid, dpc, did, work, crashes, conflict, history>>

\* Faulty variant of UndoSpawn: the runtime is left alone.
UndoSpawnForgets ==
  /\ spc = "undo"
  /\ spc' = "idle" /\ sid' = NoSandbox
  /\ UNCHANGED <<phase, todo, runtime, forgotten, row, due, cached, dpc, did, work, crashes, conflict, history>>

\* Best effort: prov.Destroy, with the request's context, may fail too.
UndoSpawn ==
  /\ spc = "undo"
  /\ \/ runtime' = runtime \ {sid} /\ UNCHANGED unmanaged
     \/ unmanaged' = unmanaged \cup {sid} /\ UNCHANGED runtime
  /\ spc' = "idle" /\ sid' = NoSandbox
  /\ UNCHANGED <<phase, todo, forgotten, row, due, cached, dpc, did, work, crashes, conflict, grounds, overtaken>>

\* m.sandboxes[id] = sb, then the deferred Unlock.  The row may be gone again.
CacheSandbox ==
  /\ spc = "cache"
  /\ cached' = cached \cup {sid}
  /\ overtaken' = IF row[sid] = "destroyed" THEN overtaken \cup {sid} ELSE overtaken
  /\ spc' = "idle" /\ sid' = NoSandbox
  /\ UNCHANGED <<phase, todo, runtime, forgotten, row, due, dpc, did, work, crashes, conflict, unmanaged, grounds>>

-----------------------------------------------------------------------------
(* Destroy: one sandbox for a client, a list for the reaper and for Prune. *)

\* A client may repeat a Destroy; any row of the store will do.
Request(d, s) ==
  /\ phase = "up"
  /\ dpc[d] = "idle"
  /\ row[s] # "none"
  /\ work' = [work EXCEPT ![d] = {s}]
  /\ dpc' = [dpc EXCEPT ![d] = "next"]
  /\ grounds' = grounds \cup {s}
  /\ UNCHANGED <<phase, todo, runtime, forgotten, row, due, cached, spc, sid, did, crashes, conflict,
                 unmanaged, overtaken>>

\* Faulty variant of Sweep: the reaper looks at the cache instead of the store.
SweepCache ==
  /\ phase = "up"
  /\ dpc[Reaper] = "idle"
  /\ due \cap Live \cap cached # {}
  /\ work' = [work EXCEPT ![Reaper] = due \cap Live \cap cached]
  /\ dpc' = [dpc EXCEPT ![Reaper] = "next"]
  /\ UNCHANGED <<phase, todo, runtime, forgotten, row, due, cached, spc, sid, did, crashes, conflict, history>>

\* ListExpiredSandboxes, every 30 s; the list is not read again.
Sweep ==
  /\ phase = "up"
  /\ dpc[Reaper] = "idle"
  /\ due \cap Live # {}
  /\ work' = [work EXCEPT ![Reaper] = due \cap Live]
  /\ dpc' = [dpc EXCEPT ![Reaper] = "next"]
  /\ UNCHANGED <<phase, todo, runtime, forgotten, row, due, cached, spc, sid, did, crashes, conflict, history>>

\* Destroy acquires the lease of the next sandbox.
Take(d) ==
  /\ dpc[d] = "next"
  /\ \E s \in work[d] :
       /\ did' = [did EXCEPT ![d] = s]
       /\ dpc' = [dpc EXCEPT ![d] = "provider"]
  /\ UNCHANGED <<phase, todo, runtime, forgotten, row, due, cached, spc, sid, work, crashes, conflict, history>>

\* The lease cannot be acquired: this Destroy returns, the list goes on.
Skip(d) ==
  /\ dpc[d] = "next"
  /\ \E s \in work[d] :
       /\ work' = [work EXCEPT ![d] = @ \ {s}]
       /\ dpc' = [dpc EXCEPT ![d] = IF work[d] = {s} THEN "idle" ELSE "next"]
  /\ UNCHANGED <<phase, todo, runtime, forgotten, row, due, cached, spc, sid, did, crashes, conflict, history>>

\* prov.Destroy; an error, "not found" among them, is logged and Destroy goes on,
\* as it does when the provider is not registered.
ProviderDestroy(d) ==
  /\ dpc[d] = "provider"
  /\ \/ /\ did[d] \notin forgotten
        /\ runtime' = runtime \ {did[d]}
        /\ UNCHANGED unmanaged
     \/ /\ unmanaged' = IF did[d] \in runtime THEN unmanaged \cup {did[d]} ELSE unmanaged
        /\ UNCHANGED runtime
  /\ dpc' = [dpc EXCEPT ![d] = "mark"]
  /\ UNCHANGED <<phase, todo, forgotten, row, due, cached, spc, sid, did, work, crashes, conflict,
                 grounds, overtaken>>

\* UpdateSandboxState; its error is ignored.
Mark(d) ==
  /\ dpc[d] = "mark"
  /\ row' = [row EXCEPT ![did[d]] = "destroyed"]
  /\ dpc' = [dpc EXCEPT ![d] = "drop"]
  /\ UNCHANGED <<phase, todo, runtime, forgotten, due, cached, spc, sid, did, work, crashes, conflict, history>>

MarkFails(d) ==
  /\ dpc[d] = "mark"
  /\ dpc' = [dpc EXCEPT ![d] = "drop"]
  /\ UNCHANGED <<phase, todo, runtime, forgotten, row, due, cached, spc, sid, did, work, crashes, conflict, history>>

\* Faulty variant of Drop: the entry of the cache stays.
DropKeepsCache(d) ==
  /\ dpc[d] = "drop"
  /\ work' = [work EXCEPT ![d] = @ \ {did[d]}]
  /\ dpc' = [dpc EXCEPT ![d] = IF work[d] = {did[d]} THEN "idle" ELSE "next"]
  /\ did' = [did EXCEPT ![d] = NoSandbox]
  /\ UNCHANGED <<phase, todo, runtime, forgotten, row, due, cached, spc, sid, crashes, conflict, history>>

\* delete(m.sandboxes, id), then the next sandbox of the list.
Drop(d) ==
  /\ dpc[d] = "drop"
  /\ cached' = cached \ {did[d]}
  /\ work' = [work EXCEPT ![d] = @ \ {did[d]}]
  /\ dpc' = [dpc EXCEPT ![d] = IF work[d] = {did[d]} THEN "idle" ELSE "next"]
  /\ did' = [did EXCEPT ![d] = NoSandbox]
  /\ UNCHANGED <<phase, todo, runtime, forgotten, row, due, spc, sid, crashes, conflict, history>>

-----------------------------------------------------------------------------
(* Time, ExtendTTL, and runtimes that end by themselves.                   *)

Expire(s) ==
  /\ s \in Live \ due
  /\ due' = due \cup {s}
  /\ grounds' = grounds \cup {s}
  /\ UNCHANGED <<phase, todo, runtime, forgotten, row, serving, crashes, conflict, unmanaged, overtaken>>

\* UpdateSandboxExpiresAt changes rows that are not destroyed.
ExtendTTL(s) ==
  /\ phase = "up"
  /\ s \in Live
  /\ due' = due \ {s}
  /\ UNCHANGED <<phase, todo, runtime, forgotten, row, serving, crashes, conflict, history>>

RuntimeDies(s) ==
  /\ s \in runtime
  /\ runtime' = runtime \ {s}
  /\ grounds' = grounds \cup {s}
  /\ UNCHANGED <<phase, todo, forgotten, row, due, serving, crashes, conflict, unmanaged, overtaken>>

-----------------------------------------------------------------------------
(* Crash, and Reconcile on the next start.                                 *)

\* The memory of the process is gone, the providers' included.
Exit ==
  /\ phase' = "down"
  /\ forgotten' = forgotten \cup (Volatile \cap runtime)
  /\ todo' = {}
  /\ cached' = {}
  /\ spc' = "idle" /\ sid' = NoSandbox
  /\ dpc' = [d \in Destroyers |-> "idle"]
  /\ did' = [d \in Destroyers |-> NoSandbox]
  /\ work' = [d \in Destroyers |-> {}]

Crash ==
  /\ phase # "down"
  /\ crashes < MaxCrashes
  /\ crashes' = crashes + 1
  /\ Exit
  /\ UNCHANGED <<runtime, row, due, conflict, history>>

\* Reconcile lists the rows that are not destroyed.
Start ==
  /\ phase = "down"
  /\ phase' = "rows"
  /\ todo' = Live
  /\ conflict' = FALSE
  /\ UNCHANGED <<runtime, forgotten, row, due, serving, crashes, history>>

\* Faulty variant of ReconcileRow: every error of Status counts as "not found".
ReconcileRowAnyError(s) ==
  /\ phase = "rows"
  /\ s \in todo
  /\ todo' = todo \ {s}
  /\ \/ s \in runtime \ forgotten /\ cached' = cached \cup {s} /\ UNCHANGED row
     \/ row' = [row EXCEPT ![s] = "destroyed"] /\ cached' = cached \ {s}
  /\ UNCHANGED <<phase, runtime, forgotten, due, spc, sid, dpc, did, work, crashes, conflict, history>>

\* prov.Status finds the runtime, does not find it, or fails; after a failure
\* the row is in state "error".  What is forgotten is not found.
ReconcileRow(s) ==
  /\ phase = "rows"
  /\ s \in todo
  /\ todo' = todo \ {s}
  /\ \/ s \in runtime \ forgotten /\ cached' = cached \cup {s} /\ UNCHANGED row
     \/ s \notin runtime \ forgotten /\ row' = [row EXCEPT ![s] = "destroyed"] /\ cached' = cached \ {s}
     \/ UNCHANGED <<row, cached>>
  /\ UNCHANGED <<phase, runtime, forgotten, due, spc, sid, dpc, did, work, crashes, conflict, history>>

\* The inventories of the providers that have one, if they answer.  The runtimes
\* of known rows are skipped; ListSandboxes has left out the destroyed rows.
ListRuntimes ==
  /\ phase = "rows"
  /\ todo = {}
  /\ \E answered \in {{}, Listed} :
       /\ todo' = (runtime \cap answered) \ Live
       /\ unmanaged' = unmanaged \cup (runtime \ (Live \cup answered))
  /\ phase' = "runtimes"
  /\ UNCHANGED <<runtime, forgotten, row, due, serving, crashes, conflict, grounds, overtaken>>

\* Faulty variant of Adopt: the row is replaced.
AdoptReplaces(s) ==
  /\ phase = "runtimes"
  /\ s \in todo
  /\ todo' = todo \ {s}
  /\ row' = [row EXCEPT ![s] = "live"]
  /\ cached' = cached \cup {s}
  /\ due' = due \ {s}
  /\ UNCHANGED <<phase, runtime, forgotten, spc, sid, dpc, did, work, crashes, conflict, history>>

\* A runtime without a known row gets a lease and a row.
Adopt(s) ==
  /\ phase = "runtimes"
  /\ s \in todo
  /\ row[s] = "none"
  /\ todo' = todo \ {s}
  /\ row' = [row EXCEPT ![s] = "live"]
  /\ cached' = cached \cup {s}
  /\ unmanaged' = unmanaged \ {s}
  /\ UNCHANGED <<phase, runtime, forgotten, due, spc, sid, dpc, did, work, crashes, conflict,
                 grounds, overtaken>>

\* Without a lease the runtime is skipped.
SkipRuntime(s) ==
  /\ phase = "runtimes"
  /\ s \in todo
  /\ todo' = todo \ {s}
  /\ unmanaged' = unmanaged \cup {s}
  /\ UNCHANGED <<phase, runtime, forgotten, row, due, serving, crashes, conflict, grounds, overtaken>>

\* The identifier has a row that is destroyed: the INSERT fails, and not with
\* ErrConflict, so Reconcile returns the error and the server does not start.
AdoptConflicts(s) ==
  /\ phase = "runtimes"
  /\ s \in todo
  /\ row[s] # "none"
  /\ conflict' = TRUE
  /\ Exit
  /\ UNCHANGED <<runtime, row, due, crashes, history>>

\* Any other error of the store ends the start as well.
ReconcileFails ==
  /\ phase \in {"rows", "runtimes"}
  /\ Exit
  /\ UNCHANGED <<runtime, row, due, crashes, conflict, history>>

Serve ==
  /\ phase = "runtimes"
  /\ todo = {}
  /\ phase' = "up"
  /\ UNCHANGED <<todo, runtime, forgotten, row, due, serving, crashes, conflict, history>>

-----------------------------------------------------------------------------
Init ==
  /\ phase = "down" /\ todo = {}
  /\ runtime = {} /\ forgotten = {} /\ row = [s \in Sandboxes |-> "none"] /\ due = {}
  /\ cached = {}
  /\ spc = "idle" /\ sid = NoSandbox
  /\ dpc = [d \in Destroyers |-> "idle"]
  /\ did = [d \in Destroyers |-> NoSandbox]
  /\ work = [d \in Destroyers |-> {}]
  /\ crashes = 0 /\ conflict = FALSE
  /\ unmanaged = {} /\ grounds = {} /\ overtaken = {}

SpawnStep == CreateRow \/ UndoSpawn \/ CacheSandbox

DestroyStep(d) ==
  Take(d) \/ Skip(d) \/ ProviderDestroy(d) \/ Mark(d) \/ MarkFails(d) \/ Drop(d)

ReconcileStep ==
  \/ ListRuntimes \/ Serve \/ ReconcileFails
  \/ \E s \in Sandboxes :
       ReconcileRow(s) \/ Adopt(s) \/ SkipRuntime(s) \/ AdoptConflicts(s)

Next ==
  \/ SpawnStep \/ Sweep \/ Crash \/ Start \/ ReconcileStep
  \/ \E d \in Destroyers : DestroyStep(d)
  \/ \E s \in Sandboxes :
       \/ SpawnRuntime(s) \/ Expire(s) \/ ExtendTTL(s) \/ RuntimeDies(s)
       \/ \E d \in Clients : Request(d, s)

Spec == Init /\ [][Next]_vars

\* The reaper's goroutine runs and its ticker fires; the store does not refuse
\* the reaper's lease or its update of a row for ever.
Fairness ==
  /\ WF_vars(Sweep) /\ WF_vars(DestroyStep(Reaper))
  /\ SF_vars(Mark(Reaper))
  /\ \A s \in Sandboxes : SF_vars(Take(Reaper) /\ did'[Reaper] = s)

FairSpec == Spec /\ Fairness
-----------------------------------------------------------------------------
(* Properties.                                                             *)

\* No runtime is lost: while the server runs, every runtime has a row that is
\* not destroyed or a Spawn call that will write it, wherever the process
\* crashed and whichever calls overlapped, unless the provider or the store
\* refused to destroy or to adopt it, or the provider has no inventory to tell
\* a restarted server of it.
RuntimeAccounted ==
  phase = "up" =>
    \A s \in runtime \ unmanaged :
      s \in Live \/ (s = sid /\ spc \in {"create", "undo"})

\* No sandbox is given up without reason: a destroyed row belongs to a sandbox
\* that expired, that a client destroyed, or whose runtime ended by itself,
\* or else to one of a provider that knows its runtimes by a map: every restart
\* gives up those, running or not.  A provider that is out of reach is no
\* reason, and neither is a restart where the runtimes are kept elsewhere.
NotGivenUp == \A s \in Sandboxes : row[s] = "destroyed" => s \in grounds \cup forgotten

\* Whatever a step changes, it revives no row.
RevivesNoRow ==
  \A s \in Sandboxes : row[s] = "destroyed" => row'[s] = "destroyed"

\* A destroyed sandbox stays destroyed, whatever Reconcile and late calls do.
DestroyedForGood == [][RevivesNoRow]_vars

\* The cache keeps no destroyed sandbox, except while a Destroy is about to drop
\* it, or when the sandbox was destroyed before its Spawn cached it.
CacheAgrees ==
  \A s \in cached \ overtaken :
    row[s] = "destroyed" => \E d \in Destroyers : did[d] = s /\ dpc[d] = "drop"

\* TTL clean-up: an expired sandbox is destroyed in the end, whether it is
\* cached or not, unless its TTL is extended or the server goes down.
ExpiredDestroyed ==
  \A s \in Sandboxes :
    phase = "up" /\ s \in Live \cap due ~> phase = "down" \/ s \notin Live \cap due

\* manager.go skips a runtime whose row exists already ("errors.Is(err,
\* store.ErrConflict) ... continue"): no row keeps the server from starting.
RestartReconciles == ~conflict
=============================================================================
