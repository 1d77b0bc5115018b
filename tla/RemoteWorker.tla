----------------------------- MODULE RemoteWorker -----------------------------
(***************************************************************************)
(* Sandboxes on remote workers: the control plane's calls                  *)
(* (internal/orchestrator/manager.go, scheduler.go), the worker that       *)
(* serves them (internal/worker/rpc.go, runtime.go) and the messages in    *)
(* between.                                                                *)
(*                                                                         *)
(* Spawn calls exclude each other (admissionMu).  Get and Destroy hold no  *)
(* lock while they wait for a worker.  A request may be refused, be served *)
(* after its caller has given up (the client waits 30 s), or its answer    *)
(* may be lost.  Both sides may restart.                                   *)
(*                                                                         *)
(* Time is kept as what has passed: a sandbox's expires_at (due), and the  *)
(* expires_at of its lease (lapsed), which is the first expires_at plus    *)
(* five minutes and is never moved.  "running" stands for every state that *)
(* a worker reports of a runtime it has (running, paused, stopped).        *)
(***************************************************************************)
EXTENDS Integers, Sequences, FiniteSets, Functions

CONSTANTS
  Sandboxes,    \* identifiers that spawnRemote generates
  WorkerOrder,  \* all workers, ORDER BY id
  Local,        \* the worker id of the control plane
  Nobody,       \* no worker, no sandbox
  Clients,      \* concurrent Destroy requests
  Reaper,       \* the TTL reaper
  MaxSandboxes, \* capacity that each worker reports, 0 for no limit
  MaxFaults     \* bound on what disturbs the normal course (variable faults)

Workers == Range(WorkerOrder) \ {Local}
Destroyers == Clients \cup {Reaper}

ASSUME ConstantsAssumption ==
  /\ WorkerOrder \in Seq(Workers \cup {Local})
  /\ Nobody \notin Workers \cup Sandboxes \cup {Local}
  /\ Reaper \notin Clients
  /\ MaxSandboxes \in Nat
  /\ MaxFaults \in Nat

VARIABLES
  serving,   \* the control plane has finished Reconcile
  todo,      \* rows that Reconcile has left
  row,       \* state of each row
  home,      \* worker_id of the row, holder of the lease, and where it runs
  leased,    \* sandboxes that have a row in leases
  due,       \* expires_at has passed
  lapsed,    \* expires_at of the lease has passed
  mem,       \* state in m.sandboxes, "none" without an entry
  worker,    \* the worker process
  registry,  \* what the workers table says, and whether it is fresh
  inbox,     \* Spawn requests that a worker has yet to serve
  runtime,   \* sandboxes whose runtime exists
  forgotten, \* those that the provider of a restarted worker does not know
  spc, sid,  \* the Spawn call that holds admissionMu, and its sandbox
  gpc, gid,  \* a Get call, its sandbox,
  gst, gans, \* the state it started from, and the state that it was told
  dpc, did,  \* the Destroy calls and their sandboxes
  faults,    \* restarts, missed heartbeats, deletions, extensions, dead runtimes
  extended,  \* history: the TTL was extended
  revived,   \* history: a row came back from destroyed or expired
  lost       \* history: a runtime that a named failure leaves behind

plane == <<serving, todo>>
table == <<row, home, leased, mem>>
time == <<due, lapsed>>
remote == <<worker, registry, inbox, runtime, forgotten>>
spawn == <<spc, sid>>
get == <<gpc, gid, gst, gans>>
destroy == <<dpc, did>>
history == <<extended, revived, lost>>
vars == <<plane, table, time, remote, spawn, get, destroy, faults, history>>

States == {"running", "unhealthy", "expired", "destroyed"}

TypeOK ==
  /\ serving \in BOOLEAN /\ todo \subseteq Sandboxes
  /\ row \in [Sandboxes -> States \cup {"none"}]
  /\ home \in [Sandboxes -> Workers \cup {Nobody}]
  /\ leased \subseteq Sandboxes
  /\ due \subseteq Sandboxes /\ lapsed \subseteq Sandboxes
  /\ mem \in [Sandboxes -> States \cup {"none"}]
  /\ worker \in [Workers -> {"up", "draining", "down"}]
  /\ registry \in [Workers -> {"missing", "online", "draining", "stale"}]
  /\ inbox \subseteq Sandboxes
  /\ runtime \subseteq Sandboxes /\ forgotten \subseteq runtime
  /\ spc \in {"idle", "sent", "answered", "persisted"}
  /\ sid \in Sandboxes \cup {Nobody}
  /\ spc = "idle" <=> sid = Nobody
  /\ gpc \in {"idle", "asked", "told"}
  /\ gid \in Sandboxes \cup {Nobody}
  /\ gpc = "idle" <=> gid = Nobody
  /\ gpc = "told" => gans # "none"
  /\ gst \in States \cup {"shared", "none"} /\ gans \in {"running", "destroyed", "none"}
  /\ dpc \in [Destroyers -> {"idle", "sent", "mark"}]
  /\ did \in [Destroyers -> Sandboxes \cup {Nobody}]
  /\ \A d \in Destroyers : dpc[d] = "idle" <=> did[d] = Nobody
  /\ faults \in 0 .. MaxFaults
  /\ extended \subseteq Sandboxes /\ revived \subseteq Sandboxes /\ lost \subseteq Sandboxes

Fault == faults < MaxFaults /\ faults' = faults + 1

Live == {s \in Sandboxes : row[s] \in {"running", "unhealthy", "expired"}}

\* What the placement counts against a worker.
Active(w) == {s \in Sandboxes : home[s] = w /\ row[s] \in {"running", "unhealthy"}}

-----------------------------------------------------------------------------
(* Placement (scheduler.go).                                               *)

\* max_sandboxes of the worker, 0 without a limit.
Fits(count) == MaxSandboxes = 0 \/ count < MaxSandboxes

\* Faulty variant of Eligible: a full worker is eligible.
EligibleFull(w) == registry[w] = "online"

Eligible(w) == registry[w] = "online" /\ Fits(Cardinality(Active(w)))

\* The worker that the loop of evaluateWorkerPlacement ends with, if any.  The
\* local worker, when eligible, takes the lead whatever came before it; after
\* that, and without it, the first of those with the fewest sandboxes wins.
Placement(local, registered) ==
  LET IsLocal(i) == WorkerOrder[i] = Local
      Count(i) == IF IsLocal(i) THEN local ELSE Cardinality(Active(WorkerOrder[i]))
      Able(i) == IF IsLocal(i) THEN registered /\ Fits(local) ELSE Eligible(WorkerOrder[i])
      lead == {i \in DOMAIN WorkerOrder :
                 /\ Able(i)
                 /\ \A j \in DOMAIN WorkerOrder : IsLocal(j) /\ Able(j) => j <= i}
      first == {i \in lead : \A j \in lead :
                 Count(i) < Count(j) \/ (Count(i) = Count(j) /\ i <= j)}
  IN {WorkerOrder[i] : i \in first}

\* Sandboxes of the local worker.  More than these make no difference where
\* there is a limit.
LocalCounts == 0 .. MaxSandboxes + 1

-----------------------------------------------------------------------------
(* Spawn on a remote worker, under admissionMu.                            *)

\* Placement, the client for the worker, the lease, and the request is sent.
\* Without an eligible worker, or if the local one is best, the spawn is local;
\* without a lease it fails.  Neither changes anything here.
SpawnRemote(s) ==
  /\ serving /\ spc = "idle"
  /\ home[s] = Nobody
  /\ \E local \in LocalCounts, registered \in BOOLEAN :
       \E w \in Placement(local, registered) \cap Workers : home' = [home EXCEPT ![s] = w]
  /\ leased' = leased \cup {s}
  /\ inbox' = inbox \cup {s}
  /\ spc' = "sent" /\ sid' = s
  /\ UNCHANGED <<plane, row, mem, time, worker, registry, runtime, forgotten, get, destroy,
                 faults, history>>

\* After an error of client.Spawn or of CreateSandbox the lease is released,
\* if the store answers, and the runtime, if there is one, is left alone.
SpawnFailed == spc' = "idle" /\ sid' = Nobody /\ leased' \in {leased, leased \ {sid}}

Waiting(s) == spc = "sent" /\ sid = s

\* handleSpawn on the worker; nobody may be waiting for the answer any more.
HandleSpawn(s) ==
  /\ s \in inbox
  /\ worker[home[s]] = "up" /\ s \notin lapsed
  /\ inbox' = inbox \ {s}
  /\ runtime' = runtime \cup {s}
  /\ spc' = IF Waiting(s) THEN "answered" ELSE spc
  /\ UNCHANGED <<plane, table, time, worker, registry, forgotten, sid, get, destroy,
                 faults, history>>

\* The worker is draining, the token has expired, provider.Spawn fails, or the
\* worker is not there.
RefuseSpawn(s) ==
  /\ s \in inbox
  /\ inbox' = inbox \ {s}
  /\ IF Waiting(s) THEN SpawnFailed ELSE UNCHANGED <<spawn, leased>>
  /\ UNCHANGED <<plane, row, home, mem, time, worker, registry, runtime, forgotten, get,
                 destroy, faults, history>>

\* The answer is lost, or does not come within 30 s: the worker may have
\* started the runtime, or may still do so.
GiveUp ==
  /\ spc \in {"sent", "answered"}
  /\ SpawnFailed
  /\ lost' = lost \cup {sid}
  /\ UNCHANGED <<plane, row, home, mem, time, remote, get, destroy, faults, extended, revived>>

CreateRow ==
  /\ spc = "answered"
  /\ \/ /\ row' = [row EXCEPT ![sid] = "running"]
        /\ spc' = "persisted"
        /\ UNCHANGED <<sid, leased, lost>>
     \/ /\ SpawnFailed
        /\ lost' = lost \cup {sid}
        /\ UNCHANGED row
  /\ UNCHANGED <<plane, home, mem, time, remote, get, destroy, faults, extended, revived>>

CacheSandbox ==
  /\ spc = "persisted"
  /\ mem' = [mem EXCEPT ![sid] = "running"]
  /\ spc' = "idle" /\ sid' = Nobody
  /\ UNCHANGED <<plane, row, home, leased, time, remote, get, destroy, faults, history>>

-----------------------------------------------------------------------------
(* Get, and the refresh of a remote sandbox's state.                       *)

\* remoteWorkerRPCClient finds the worker's row, and the worker answers.
Reachable(w) == registry[w] # "missing" /\ worker[w] # "down"

\* handleStatus.  A runtime that the provider does not know is "not found", an
\* error that changes nothing; E2B reports it as "destroyed".
Report(s) == IF s \in runtime \ forgotten THEN "running" ELSE "destroyed"

\* The entry of the cache, which other calls change as well, or else a copy of
\* a row that is not destroyed.
Get(s) ==
  /\ serving /\ gpc = "idle"
  /\ mem[s] # "none" \/ s \in Live
  /\ home[s] # Nobody /\ Reachable(home[s])
  /\ gpc' = "asked" /\ gid' = s
  /\ gst' = IF mem[s] # "none" THEN "shared" ELSE row[s]
  /\ UNCHANGED <<plane, table, time, remote, spawn, gans, destroy, faults, history>>

Done == gpc' = "idle" /\ gid' = Nobody /\ gst' = "none" /\ gans' = "none"

StatusFails ==
  /\ gpc = "asked"
  /\ Done
  /\ UNCHANGED <<plane, table, time, remote, spawn, destroy, faults, history>>

HandleStatus ==
  /\ gpc = "asked"
  /\ worker[home[gid]] # "down"
  /\ gpc' = "told" /\ gans' = Report(gid)
  /\ UNCHANGED <<plane, table, time, remote, spawn, gid, gst, destroy, faults, history>>

\* The state in the sandbox that the call holds.  destroyRemote has marked an
\* entry destroyed before it dropped it.
Held ==
  IF gst # "shared" THEN gst ELSE IF mem[gid] = "none" THEN "destroyed" ELSE mem[gid]

\* UpdateSandboxState, unless the store fails.
WriteRow(s, state) ==
  \/ /\ row' = [row EXCEPT ![s] = state]
     /\ revived' = IF state = "running" /\ row[s] \in {"destroyed", "expired"}
                     THEN revived \cup {s} ELSE revived
  \/ UNCHANGED <<row, revived>>

\* A state that differs is written to the row, whatever the row says by now
\* and unless the store fails, and to the cache.  The lease is left alone.
WriteStatus ==
  /\ gpc = "told"
  /\ Done
  /\ IF gans = Held
       THEN UNCHANGED <<row, mem, revived>>
       ELSE /\ mem' = [mem EXCEPT ![gid] = gans]
            /\ WriteRow(gid, gans)
  /\ UNCHANGED <<plane, home, leased, time, remote, spawn, destroy, faults, extended, lost>>

\* UpdateSandboxExpiresAt, on rows that are not destroyed.  Not the lease.
ExtendTTL(s) ==
  /\ Fault
  /\ serving
  /\ s \in Live
  /\ due' = due \ {s}
  /\ extended' = extended \cup {s}
  /\ UNCHANGED <<plane, table, lapsed, remote, spawn, get, destroy,  revived, lost>>

-----------------------------------------------------------------------------
(* Destroy of a remote sandbox.                                            *)

\* The worker's row and the lease are read: without one of them Destroy fails
\* before anything has changed.
TakeToken(d, s) ==
  /\ serving /\ dpc[d] = "idle"
  /\ home[s] # Nobody /\ Reachable(home[s])
  /\ s \in leased
  /\ dpc' = [dpc EXCEPT ![d] = "sent"]
  /\ did' = [did EXCEPT ![d] = s]
  /\ UNCHANGED <<plane, table, time, remote, spawn, get, faults, history>>

Request(d, s) == row[s] # "none" /\ TakeToken(d, s)

\* Faulty variant of Sweep: unhealthy and expired rows are left alone.
SweepRunning(s) == row[s] = "running" /\ s \in due /\ TakeToken(Reaper, s)

\* ListExpiredSandboxes, every 30 s; an error of one Destroy does not end the
\* loop over the list.
Sweep(s) == s \in Live \cap due /\ TakeToken(Reaper, s)

End(d) == dpc' = [dpc EXCEPT ![d] = "idle"] /\ did' = [did EXCEPT ![d] = Nobody]

\* An error on the way to the worker, in its provider, or of the store.
DestroyFails(d) ==
  /\ dpc[d] # "idle"
  /\ End(d)
  /\ UNCHANGED <<plane, table, time, remote, spawn, get, faults, history>>

\* Faulty variant of HandleDestroy: it answers before the runtime is gone.
HandleDestroyEarly(d) ==
  /\ dpc[d] = "sent"
  /\ worker[home[did[d]]] # "down" /\ did[d] \notin lapsed
  /\ dpc' = [dpc EXCEPT ![d] = "mark"]
  /\ UNCHANGED <<plane, table, time, remote, spawn, get, did, faults, history>>

\* handleDestroy: the token must not have expired.  A runtime that the provider
\* does not know counts as destroyed.  If the answer is lost, DestroyFails.
HandleDestroy(d) ==
  /\ dpc[d] = "sent"
  /\ worker[home[did[d]]] # "down" /\ did[d] \notin lapsed
  /\ runtime' = runtime \ ({did[d]} \ forgotten)
  /\ dpc' = [dpc EXCEPT ![d] = "mark"]
  /\ UNCHANGED <<plane, table, time, worker, registry, inbox, forgotten, spawn, get, did,
                 faults, history>>

\* The row is marked, the lease is released, if the store answers, and the
\* entry of the cache is dropped.
Mark(d) ==
  /\ dpc[d] = "mark"
  /\ row' = [row EXCEPT ![did[d]] = "destroyed"]
  /\ leased' \in {leased, leased \ {did[d]}}
  /\ mem' = [mem EXCEPT ![did[d]] = "none"]
  /\ End(d)
  /\ UNCHANGED <<plane, home, time, remote, spawn, get, faults, history>>

-----------------------------------------------------------------------------
(* The worker process and its row in the registry.                         *)

\* RegisterHeartbeat: every 30 s, with the status of the process.
Heartbeat(w) ==
  /\ worker[w] # "down"
  /\ registry' = [registry EXCEPT ![w] = IF worker[w] = "draining" THEN "draining" ELSE "online"]
  /\ UNCHANGED <<plane, table, time, worker, inbox, runtime, forgotten, spawn, get, destroy,
                 faults, history>>

\* Two minutes without a heartbeat, sent or received.
GoStale(w) ==
  /\ Fault
  /\ registry[w] \in {"online", "draining"}
  /\ registry' = [registry EXCEPT ![w] = "stale"]
  /\ UNCHANGED <<plane, table, time, worker, inbox, runtime, forgotten, spawn, get, destroy,
                 history>>

\* An administrator deletes the worker's row; the next heartbeat brings it back.
DeleteWorker(w) ==
  /\ Fault
  /\ registry[w] = "stale"
  /\ registry' = [registry EXCEPT ![w] = "missing"]
  /\ UNCHANGED <<plane, table, time, worker, inbox, runtime, forgotten, spawn, get, destroy,
                 history>>

\* worker.shutdown: no new spawns.
Drain(w) ==
  /\ worker[w] = "up"
  /\ worker' = [worker EXCEPT ![w] = "draining"]
  /\ UNCHANGED <<plane, table, time, registry, inbox, runtime, forgotten, spawn, get, destroy,
                 faults, history>>

\* The process ends; what it has not served is refused.
WorkerStops(w) ==
  /\ worker[w] # "down"
  /\ Fault
  /\ worker' = [worker EXCEPT ![w] = "down"]
  /\ UNCHANGED <<plane, table, time, registry, inbox, runtime, forgotten, spawn, get, destroy,
                 history>>

\* Docker's containers are found again; the other providers kept their
\* sandboxes in memory.
WorkerStarts(w) ==
  /\ worker[w] = "down"
  /\ worker' = [worker EXCEPT ![w] = "up"]
  /\ LET there == {s \in runtime : home[s] = w}
     IN \/ forgotten' = forgotten \cup there /\ lost' = lost \cup there
        \/ UNCHANGED <<forgotten, lost>>
  /\ UNCHANGED <<plane, table, time, registry, inbox, runtime, spawn, get, destroy, faults,
                 extended, revived>>

RuntimeEnds(s) ==
  /\ Fault
  /\ s \in runtime
  /\ runtime' = runtime \ {s} /\ forgotten' = forgotten \ {s}
  /\ UNCHANGED <<plane, table, time, worker, registry, inbox, spawn, get, destroy, 
                 history>>

-----------------------------------------------------------------------------
(* Time.                                                                   *)

Expire(s) ==
  /\ home[s] # Nobody /\ s \notin due
  /\ due' = due \cup {s}
  /\ UNCHANGED <<plane, table, lapsed, remote, spawn, get, destroy, faults, history>>

\* A spawn call is over long before the five minutes.
Lapse(s) ==
  /\ s \in due \cup extended
  /\ s \notin lapsed \cup {sid}
  /\ lapsed' = lapsed \cup {s}
  /\ UNCHANGED <<plane, table, due, remote, spawn, get, destroy, faults, history>>

-----------------------------------------------------------------------------
(* The control plane faults.                                             *)

Restart ==
  /\ Fault
  /\ serving' = FALSE
  /\ todo' = Live
  /\ mem' = [s \in Sandboxes |-> "none"]
  /\ lost' = IF spc \in {"sent", "answered"} THEN lost \cup {sid} ELSE lost
  /\ spc' = "idle" /\ sid' = Nobody
  /\ Done
  /\ dpc' = [d \in Destroyers |-> "idle"]
  /\ did' = [d \in Destroyers |-> Nobody]
  /\ UNCHANGED <<row, home, leased, time, remote, extended, revived>>

\* The worker is draining or online, and says how the sandbox is.
ReconcileRefreshes(s) ==
  /\ s \in todo
  /\ registry[home[s]] \in {"online", "draining"} /\ worker[home[s]] # "down"
  /\ todo' = todo \ {s}
  /\ mem' = [mem EXCEPT ![s] = Report(s)]
  /\ WriteRow(s, Report(s))
  /\ UNCHANGED <<serving, home, leased, time, remote, spawn, get, destroy, faults,
                 extended, lost>>

\* A draining worker keeps what it has, even when it does not answer.
ReconcileKeeps(s) ==
  /\ s \in todo
  /\ registry[home[s]] = "draining"
  /\ todo' = todo \ {s}
  /\ UNCHANGED <<serving, table, time, remote, spawn, get, destroy, faults, history>>

\* Faulty variant of ReconcileMarks: the lease goes with every mark.
ReconcileMarksReleases(s) ==
  /\ s \in todo
  /\ registry[home[s]] # "draining"
  /\ todo' = todo \ {s}
  /\ LET state == IF s \in due THEN "expired" ELSE "unhealthy"
     IN /\ row' = [row EXCEPT ![s] = state]
        /\ mem' = [mem EXCEPT ![s] = state]
  /\ leased' = leased \ {s}
  /\ UNCHANGED <<serving, home, time, remote, spawn, get, destroy, faults, history>>

\* The worker's row is missing or stale, or the worker does not answer.  What
\* has expired loses its lease.  If the store fails, the start is repeated.
ReconcileMarks(s) ==
  /\ s \in todo
  /\ registry[home[s]] # "draining"
  /\ todo' = todo \ {s}
  /\ LET state == IF s \in due THEN "expired" ELSE "unhealthy"
     IN /\ row' = [row EXCEPT ![s] = state]
        /\ mem' = [mem EXCEPT ![s] = state]
  /\ leased' \in IF s \in due THEN {leased, leased \ {s}} ELSE {leased}
  /\ revived' = IF s \notin due /\ row[s] = "expired" THEN revived \cup {s} ELSE revived
  /\ UNCHANGED <<serving, home, time, remote, spawn, get, destroy, faults, extended, lost>>

Serve ==
  /\ ~serving /\ todo = {}
  /\ serving' = TRUE
  /\ UNCHANGED <<todo, table, time, remote, spawn, get, destroy, faults, history>>

-----------------------------------------------------------------------------
Init ==
  /\ serving = TRUE /\ todo = {}
  /\ row = [s \in Sandboxes |-> "none"] /\ home = [s \in Sandboxes |-> Nobody]
  /\ leased = {} /\ due = {} /\ lapsed = {}
  /\ mem = [s \in Sandboxes |-> "none"]
  /\ worker = [w \in Workers |-> "up"] /\ registry = [w \in Workers |-> "online"]
  /\ inbox = {} /\ runtime = {} /\ forgotten = {}
  /\ spc = "idle" /\ sid = Nobody
  /\ gpc = "idle" /\ gid = Nobody /\ gst = "none" /\ gans = "none"
  /\ dpc = [d \in Destroyers |-> "idle"] /\ did = [d \in Destroyers |-> Nobody]
  /\ faults = 0
  /\ extended = {} /\ revived = {} /\ lost = {}

SpawnStep == GiveUp \/ CreateRow \/ CacheSandbox

GetStep == StatusFails \/ HandleStatus \/ WriteStatus

DestroyStep(d) ==
  DestroyFails(d) \/ HandleDestroy(d) \/ Mark(d)

WorkerStep(w) ==
  \/ Heartbeat(w) \/ GoStale(w) \/ DeleteWorker(w) \/ Drain(w)
  \/ WorkerStops(w) \/ WorkerStarts(w)

ReconcileStep(s) == ReconcileRefreshes(s) \/ ReconcileKeeps(s) \/ ReconcileMarks(s)

Next ==
  \/ SpawnStep \/ GetStep \/ Restart \/ Serve
  \/ \E w \in Workers : WorkerStep(w)
  \/ \E d \in Destroyers : DestroyStep(d)
  \/ \E s \in Sandboxes :
       \/ SpawnRemote(s) \/ HandleSpawn(s) \/ RefuseSpawn(s) \/ Get(s) \/ ExtendTTL(s) \/ Sweep(s)
       \/ RuntimeEnds(s) \/ Expire(s) \/ Lapse(s) \/ ReconcileStep(s)
       \/ \E d \in Clients : Request(d, s)

Spec == Init /\ [][Next]_vars

\* The reaper keeps running, and neither the network nor the store fails it on
\* every attempt.
Fairness ==
  /\ WF_vars(DestroyStep(Reaper))
  /\ SF_vars(HandleDestroy(Reaper)) /\ SF_vars(Mark(Reaper))
  /\ \A s \in Sandboxes : SF_vars(Sweep(s))

FairSpec == Spec /\ Fairness
-----------------------------------------------------------------------------
(* Properties.                                                             *)

\* No runtime is lost: whatever is running on a worker has a row that is not
\* destroyed, or a Spawn call that waits for it, unless the answer of the
\* spawn was lost, its row could not be written, a side restarted in between,
\* or the worker's provider has forgotten the runtime.
RuntimeAccounted ==
  \A s \in runtime \ lost :
    s \in Live \/ (s = sid /\ spc \in {"sent", "answered"})

\* "The control plane must renew leases before long-running operations cross
\* the expiry window" (docs/worker-rpc-contract.md).  Nothing renews the lease
\* of a remote sandbox; that it holds until the sandbox expires is due to its
\* grace period, and ends when the TTL is extended or a late answer has
\* revived the row.
LeaseHeld ==
  \A s \in Live \ (due \cup extended \cup revived) : s \in leased \ lapsed

\* Placement reads the rows before the worker's answer is there, and rows come
\* back: still no worker has more live sandboxes than it reported room for,
\* unless a late answer has revived one, or a start of the control plane one
\* that it had marked expired before its TTL was extended.
WorkerCapacity ==
  \A w \in Workers :
    MaxSandboxes > 0 => Cardinality(Active(w) \ revived) <= MaxSandboxes

\* What stands in the way of the reaper: the lease is gone or has lapsed, or the
\* worker or the control plane is not there.
Stuck(s) ==
  \/ s \notin leased \/ s \in lapsed
  \/ ~Reachable(home[s])
  \/ ~serving

\* TTL clean-up of remote sandboxes: an expired one is destroyed in the end,
\* even if single calls fail, a late answer revives its row or a client
\* destroys it at the same time, unless it gets stuck or its TTL is extended.
ExpiredDestroyed ==
  \A s \in Sandboxes :
    s \in Live \cap due ~> s \notin Live \cap due \/ Stuck(s)
=============================================================================
