# StacyVM: a TLA+ verification project

StacyVM is a server that runs short-lived sandboxes (containers or micro-VMs) for clients of an HTTP
API. One process, the *control plane*, keeps the records of the sandboxes in SQLite or Postgres, starts
and destroys runtimes through *providers* (Docker, Firecracker, PRoot, E2B, a custom HTTP service), and may
hand the work to *remote workers* over RPC. Several control planes may share one Postgres database.
This directory models the parts of it in which concurrent calls, failures and restarts meet.

## 1. Inventory

| Component | Source (`internal/...`) | State | Operations | Meets |
|---|---|---|---|---|
| Sandbox manager | `orchestrator/manager.go` | cache of sandboxes, `admissionMu`, `queueMu`, `queueWaiters`, `capacityCh` | `Spawn`, `Destroy`, `ExtendTTL`, `Prune`, `Reconcile`, reaper every 30 s, exec, files, logs | store, providers, pool, workers, event bus |
| Spawn admission | same, 1847-2073 | the above counters and the capacity channel | `acquireSpawnAdmission`, `waitForSpawnCapacity`, `evaluateSpawnAdmission`, `notifySpawnCapacity` | `Destroy`, `SaveOwnerQuota`, remote refresh |
| VM pool mode | `orchestrator/vm_pool.go`; `spawnPooled`, `destroyPooled` | slots with user counts | `Acquire`, `Release` | `Spawn` under `admissionMu`, `Destroy` under no lock |
| Scheduler | `orchestrator/scheduler.go` | none | choice of a worker | `Spawn` |
| Warm pool | `orchestrator/pool.go`, `templates.go` | lists of idle sandboxes | refill loop, take | nobody (no caller) |
| Event bus, durable bridge | `orchestrator/events.go`, `events_durable.go` | subscribers, ring of events; one Postgres connection | `Publish`, `Subscribe`, `History`; NOTIFY in hooks, LISTEN loop | everybody, other replicas |
| Store | `store` | tables of sandboxes, leases, quotas, workers, templates, environments, audit | one SQL statement per method | everybody |
| Remote workers | `worker`, `workerproto`, `api/routes/workers.go` | runtimes, leases, token checks | register, heartbeat, RPC spawn, status, destroy, exec, files, logs | manager, store |
| Environment builds | `environments/manager.go` | channel of 128 jobs, rows of builds | enqueue, build, cancel | store, Docker |
| Providers | `providers` | runtimes, snapshots, connections to guests | spawn, exec, files, status, destroy | Docker, Firecracker, services over HTTP |
| Guest agent | `cmd/stacyvm-agent`, `agentproto` | one connection, running commands | requests of the provider | Firecracker provider |
| HTTP API | `api` | rate-limit buckets, cached keys, audit rows | authentication, one manager call per route | manager, identity provider |

What is hard, and where:

* **Admission**: calls evaluate limits without a lock, sleep on a channel that is closed and replaced, time
  out, and evaluate again under a mutex that they hold while a provider starts a runtime. To be right:
  limits are never exceeded, the queue's counter is exact, nobody returns with the mutex, every queued call
  leaves the queue.
* **Pool mode**: a mutex that is dropped while a VM starts, failures after a place has been taken, and
  Destroy calls that repeat or overlap. To be right: bounds of the pool, no place without a user, no VM
  destroyed under a user who has not been released twice.
* **Store**: two implementations of one interface; a clock reading, a conditional statement and a read-back
  for leases; several servers that migrate one database. To be right: the same answers from both, never two
  owners of a lease, servers that come up.
* **Lifecycle**: a crash between the provider's spawn and the record, or between the runtime's end and the
  record of it; a reaper that works on an old list.
* **Remote workers**: lost, late and refused answers, leases that lapse during the operation, restarts of
  either side, tokens signed with a key that is being replaced, streams over a connection that is cut. To be
  right: runtimes stay accounted for, leases hold, what a client is told is true.
* **Providers**: steps that fail half-way with the context that ended them, calls that overlap a Destroy,
  streams that nobody reads, snapshots of three files. To be right: nothing is left running, what is gone
  stays gone, streams end.
* **One connection to a guest**, shared by commands, streams and files: answers carry no number that is
  checked. To be right: everybody gets the own answer, and gets one.
* **Events**: a ring that wraps, notifications between replicas over a connection that is busy or lost.
* **Builds**: a cancel that races the worker, a queue lost by a restart. To be right: no build forgotten, a
  cancel before the build is read holds.
* **API**: clocks read before a lock, key sets fetched without one, audit records of requests whose client
  has gone.

`PROJECT.json` lists these as hazards, each at its line, with the properties about it.

## 2. Plan

Everything in this table is done; "proved" names the modules with theorems.

| Module | Composes | Abstract specification | Run | Proved |
|---|---|---|---|---|
| `SpawnAdmission` | | | `spawn_admission`, `spawn_admission_live` | yes |
| `VMPool` | admission as one step | | `vm_pool` | yes |
| `LeaseStore` | | `LeaseOwnership` | in `stores` | yes |
| `SandboxLifecycle` | the lease as a step that may fail | | `lifecycle`, `lifecycle_restart` | yes |
| `EnvBuilds` | | | `env_builds` | yes |
| `RemoteWorker` | scheduler, leases, worker | | `remote_worker`, `remote_worker_live` | yes |
| `GuestConnection` | manager, Firecracker provider, agent | | `guest_connection` | yes |
| `FirecrackerVMs` | | | in `providers` | yes |
| `Stores` | `SQLiteStore`, `PostgresStore`, `SqlTables`, `Migrations`, `LeaseStore` | each store of the other | `stores` | yes |
| `Providers` | `DockerProvider`, `PRootProvider`, `MockProvider`, `CustomProvider`, `E2BProvider`, `FirecrackerVMs` | the provider contract | `providers` | yes |
| `ApiServer` | `EventBus`, `RateLimiter`, `ApiRequests`, `WorkerTokens`, `RemoteCalls` | | `api` | its parts, except for the key cache by itself |

Every safety property that a run checks is proved, `ServersStart` in its safety part; what is left to TLC is liveness
(section 5). What would add most next: theorems about what a single statement of the stores selects and in which order,
of which `SameAnswers` says only that both stores do the same.

## 3. The modules

Every variable and action carries the name of the code's variable or function where it has one; the `map`
of `PROJECT.json` names the lines. "Faulty variant" definitions are plausible bugs, used to show that each
property can fail; no specification uses them.

### SpawnAdmission

One process per `Spawn` call. `pc[c]` is the place in the code:
`evaluate` (entry of `waitForSpawnCapacity`) - `enqueue` (first section under `queueMu`) - `waiting` (the
select) - `rearm` (the channel taken again) - `dequeue`/`abandon` (the deferred section, left with or without
success) - `lock` - `admit` (evaluation under `admissionMu`) - `provision` (provider, lease, record) -
`return` (deferred Unlock) - `running` - `notify` (end of `Destroy`).

* A channel a waiter holds is the current one (`open`) or one that a notification closed (`closed`); nothing
  else of the channel's identity matters, so no counter is needed.
* `limit[c]` is the owner limit that the locked evaluation read. A quota that cannot be read falls back to
  the default (`OwnerLimits`).
* An evaluation may also end the call (`denied`: TTL, no eligible worker, a store error).
* `Destroy` ends the record, then notifies, in two steps.
* A remote status is told by the worker (`RefreshTold`) and written later, whatever has happened since and without
  `admissionMu` (`RefreshWrites`). "Destroyed" removes a record without notifying (`RefreshFindsDestroyed`). A late
  "running" brings back a record that `Destroy` has ended. Nobody has admitted that one: `revived` names it, it counts
  in every evaluation as in the code, and with it more than `max_sandboxes` run. `CapacityRespected` and
  `OwnerLimitRespected` are therefore about what is *admitted*, beside any number of revived records.
* `SaveOwnerQuota` stores, then notifies unless reading the quota back fails.

Simplified: the quota and the list of sandboxes are read in one step, as the decision depends on both only
through one comparison each; admission statistics are left out; one administrator at a time; a call destroys
only its own sandbox, after `Spawn` has returned; a record made by a call belongs to that call's slot until
it is destroyed. `pc`, not `records`, carries the order, so a call slot is used again afterwards.

### VMPool

One process per logical sandbox (`pc`, `vmOf`) and one per `Destroy` call (`dpc`, `target`). `slots[v]` is
`UserCount`; the code inserts a slot with count 1 and deletes it at 0, so count 0 stands for "no slot".
`Acquire` has three parts as in the code: under `p.mu` (`Acquire`), the VM's start without it (`SpawnVM`,
`RecordVM`), under it again (`InsertSlot`). `FailPooled` is what each error path of `spawnPooled` does.
`Release`, `DestroyVM`, `DropVMRecord` and `DropRecord` are the steps of `destroyPooled`, between which other
calls run; `DestroySandbox` needs a row of the store and does not look at its state, like the code.
`DestroyVMByID` is a `Destroy` of the VM's own record: the reaper, since the VM is recorded with the default
TTL, or a client.

Two history variables keep the properties honest: `released` (sandboxes whose place was given back) and
`disturbed` (VMs that were released twice for one sandbox or destroyed by their own id). Simplified:
`prov.Destroy` ends the runtime (its error is ignored by the code, too), the provider stays registered, the
last store write and the Unlock are one step, a failed sandbox id is not used again by the code but is here.

### LeaseStore and LeaseOwnership

One row, since every statement names one resource. A call is `Begin` (reads the clock), the statement
(`AcquireLease`, `RenewLease`: atomic, with the `WHERE` clause as the guard), and `GetLease`, the read-back.
`Tick` may happen anywhere in between, so calls act on old readings. `token[c]` is the record returned to the
caller, `current[c]` says that no row was deleted since it was read. `LeaseOwnership` is the promise: one
owner, and nobody in between two owners. `LeaseStore` refines it: `Ownership == INSTANCE LeaseOwnership WITH`
the holder, while the lease has not expired *by the clock*, as the owner, and `NoHolder` as nobody. Assumed: all processes read one clock
that does not go back; clock skew between control planes would break the promise, and the code has nothing
against it.

### Stores, SQLiteStore, PostgresStore, SqlTables, Migrations

`SQLiteStore` and `PostgresStore` have one operator per method of `store.Store`, from the database and the
arguments to the database after and the answer, on the columns that a statement matches, orders or changes.
`SqlTables` is the SQL engine they rely on: rows in insertion order, unique keys, foreign keys where enforced,
conflicts. An answer is a sequence where the statement has an ORDER BY and a set where it has none
(`ListExpiredSandboxes`): SQLite and Postgres promise no order then. `Stores` makes the same calls on both, in any
order, with all arguments from small sets; a behaviour stays with the tables of one group, because no method touches two groups. `Migrations` is the start of several
servers on one Postgres database: count the version's row, run the SQL and insert the row in one transaction,
exit on any error and be started again.

Only Postgres enforces foreign keys: once it has refused a call for one, the databases differ and are compared no
longer (`refused`). `parted` collects the calls that were answered differently before. A context that ends during a
statement is modelled where the caller is. Left out: rows with equal `created_at`, whose order no statement settles, and
the collation of texts.

### SandboxLifecycle

Where a local sandbox is: its *runtime* in the provider (`runtime`), its *row* in the store (`row`), its entry in
the manager's map (`cached`). `Spawn` is `SpawnRuntime`, `CreateRow` or `UndoSpawn`, `CacheSandbox`; one at a time,
because it holds `admissionMu`. A `Destroy` call (a client's, or the reaper's with its list in `work`) is `Take`,
`ProviderDestroy`, `Mark` or `MarkFails`, `Drop`, and holds no lock between them. `Crash` takes the process's memory
and leaves runtimes and rows; it also stands for a stop, since `Stop` only ends the reaper. The next `Start` goes
through the rows (`ReconcileRow`), then through the provider's inventory (`ListRuntimes`, `Adopt`, `SkipRuntime`,
`AdoptConflicts`), and `Serve` begins when that has succeeded, as in `runServe`.

* A row is "live" in every state but `destroyed`: `ListSandboxes`, `ListExpiredSandboxes` and
  `UpdateSandboxExpiresAt` look at nothing else. `due` is the set of rows whose `expires_at` has passed.
* Every call of the provider and of the store may fail, and the code's reaction (go on, clean up, return) is the
  action's: the error of `prov.Destroy` and of `UpdateSandboxState` is ignored by `Destroy`, any error of the store
  ends `Reconcile`, a failed `Status` leaves the row alive.
* What a provider knows after a restart differs. `Listed` sandboxes are in an inventory (Docker). A `Volatile` one is
  named by a map in memory only (Firecracker, PRoot, mock): after a crash its `Status` is "not found", though the runtime
  may still run (`forgotten`), and `Reconcile` marks its row destroyed. The others' provider keeps its runtimes
  elsewhere (custom, E2B).
* Three history variables keep the properties honest: `unmanaged` (sandboxes the provider or the store failed to
  destroy or adopt), `grounds` (expired, destroyed by a client, runtime ended by itself), `overtaken` (destroyed
  between `CreateRow` and `CacheSandbox`: the code caches them all the same, and the entry stays until the next
  start).

Simplified: one control plane and one provider, without pool mode and without remote workers; Prune is the reaper's
sweep; the rows and the inventory are each listed in one step, as the code does. An identifier whose `Spawn` failed
may be handed out again if it has neither row nor runtime, which the code's random ones practically never are.
`ExtendTTL` is its UPDATE: the cached expiry it also sets is not read by the reaper.

### RemoteWorker

Sandboxes on remote workers. The control plane's `Spawn` holds `admissionMu` while it places the sandbox
(`scheduler.go`: preference for the local worker, then order, health, reported room), acquires the lease, waits for
the worker and writes the row. `Get` (with the remote refresh) and `Destroy` hold no lock while they wait. A request
may be refused, be served after its caller has given up, or its answer may be lost; workers drain, go stale, are
deleted, restart; the control plane restarts and reconciles. A refresh writes the status it was answered over
whatever has happened since, and a start that cannot reach a worker writes "unhealthy" over
whatever the row says, also over "expired" if the TTL was extended (both `revived`). History names the losses that the code cannot avoid (`lost`, `extended`).
Time is what has passed: a sandbox's `expires_at` (`due`), and its lease's (`lapsed`), which is the first plus five
minutes and is never moved.

### GuestConnection

One Firecracker VM and its vsock connection, with the manager's calls above it and the agent's loop below.
`connMu` lets one call write its request and read what comes next; a stream holds it until its last frame. A stream
has two goroutines on the host (provider, manager's forwarder) and two bounded channels. Clients leave, time-outs
end streams half-way (`torn`: the rest of an answer stays on the connection), the VM ends by itself (`broken`),
`Destroy` asks for a shutdown and kills. The agent's five minutes kill the process of a command only; something that
it has left running holds its pipes, and the agent waits for their end (`Hang`): every call behind `connMu` waits, too,
a `Destroy` among them, until the VM is off. A call is "large" when its request does not fit into the socket's buffer.

### FirecrackerVMs

`Spawn` and `Destroy` with the snapshots of an image: a VM is restored from the three files if they are there, or
booted cold; after a cold boot a goroutine makes the snapshot through a temporary VM. `snapBuilding` serialises the
builds. Every step may fail, a crash may come between any two and leaves files and processes.

### Providers, ProviderCalls and the provider modules

One provider per behaviour, two callers, all methods of the interface. `ProviderCalls` has the calls and what
outlives them; each provider's module has the steps of its calls in order, with their error paths, locks and map.
`SandboxService` is the HTTP service behind the custom and the E2B provider. Contexts end, steps fail, the server
restarts; what a command prints is its number of chunks. A command may also neither print nor end (`HangSilent`), or
leave a process that holds its pipes (`HangOpen`): Docker's and PRoot's goroutine then waits, with or without a context.
Docker's connection may break in the middle of the output (`ConnectionBreaks`), which closes the stream without a note.
History: `spawned`, `gone` (some call has answered so),
`excused` (runtimes that the code cannot take back).

### EnvBuilds

`status` and `artifact` are the rows, `jobs` is the channel. A `StartBuild` request (`starting`, `want`) creates the
row, saves the artifacts one by one, and enqueues last. A worker's place `wpc` is `read` (the one
`GetEnvironmentBuild`), then the writes of "building" that `processBuild` makes in order (`begin` - `spec` -
`dockerfile` - `artifacts` - `build`, each an `Advance` when the step before the write succeeds, `Fail` when it does
not), then `targets` (`Publish` per artifact, `Finalize`). `StoreFails` is the error of a read or of `updateBuild`,
with which `processBuild` returns at once. A `CancelBuild` request is `CancelRead` and `CancelWrite`, with other steps
in between. The worker never reads the row again, so its copy matters only through the status it writes.

`Stop` cancels the context and waits for the workers (`StopReturns`); the selects of `Enqueue` and `worker` may choose
the channel all the same while it has room or jobs. `Exit` loses the channel and every request, and nothing reads the
rows on the next `Start`. History: `stranded` (a store error, a refused enqueue or an exit has cost the build),
`raced` (canceled after a worker had read the row). Simplified: a request for a build has its own identifier; the
order in which targets are saved and published is free; `current_step`, log and times are left out.

### ApiServer and its parts

The parts share no state, so a behaviour runs one of them.

* `EventBus`: `Publish` with the ring, subscribers with bounded channels, hooks that `pg_notify` in goroutines of
  their own, and a listener on the same connection, which refuses a second user ("conn busy"). Lost connections,
  attempts to reconnect with a limit, `Stop`.
* `RateLimiter`: the clock is read before the mutex is taken, so readings reach a bucket out of order; refill,
  refusal, cleanup. Burst, rate and `bucket_ttl` are unrelated to each other, as in the code. `window` is a history
  variable: what was let through since some request, and how often its key got a new bucket.
* `JwksCache`, `ApiRequests`: a request from its token or key to the identity, the scopes, the handler and the audit
  record with its pruning. Key fetches overlap; the identity provider introduces and withdraws keys.
* `WorkerTokens`: tokens minted by control plane, worker, issuer and command line, verified at both ends by what
  each process has loaded, while an operator follows the printed rotation plan and clocks differ.
* `RemoteCalls`: one exec, stream, file or log call for a remote sandbox, through manager, RPC client, connection
  and worker. The provider may refuse, act, or fail when it has acted in part (`ProviderFails`: Docker asks for the exit
  code after the command, `rm -rf` may stop half-way). A stream crosses five buffers with a goroutine between each two;
  the connection is cut by the server's 30 seconds, a loss, or the client. A provider that closes its channel early
  (Docker's connection, the custom provider's scanner) does so without a note, and nobody behind it can tell:
  `RemoteAnswersTrue` has the output from there on.

## 4. The runs

| Run | Instance | Distinct states | Shows |
|---|---|---|---|
| `spawn_admission` | 4 calls, 2 of one owner, 2 sandboxes, queue of 2, quotas 0/2, default 1, 2 remote, late statuses | 1 460 000 | admission exceeds no limit, counter exact |
| `spawn_admission_live` | 3 calls, 1 sandbox, queue of 1, 1 remote | 6 600 | queue drains, retry loop progresses |
| `vm_pool` | 3 sandboxes, 3 VM ids, 2 Destroy calls, 2 VMs of 2 users, limit 3 | 44 000 | bounds, user counts, one record over the limit at most |
| `stores` | 2 servers, 11 migrations, 2 faults; 2 ids, 2 rows per table; 2 workers, 2 lease calls, TTL 1-2, clock to 3 | 1 155 000 | both stores answer alike, servers come up, ownership is exclusive, generations fence |
| `lifecycle` | 2 sandboxes, one of Docker and one of a map in memory, 1 client and the reaper, 1 crash | 654 000 | no runtime lost, no row given up without reason, none revived, cache agrees, expired sandboxes are destroyed |
| `lifecycle_restart` | the same | - | **violated**: a surviving runtime of a destroyed row ends the start |
| `env_builds` | 2 builds, 2 targets, 1 worker, queue of 1, 1 cancel, 1 crash | 431 000 | no build forgotten, final statuses change through a race only, queue served while docker commands end |
| `remote_worker` | 2 sandboxes, local and 1 remote worker with room for one, 2 faults | 4 143 000 | runtimes accounted for, lease held until the TTL, room respected |
| `remote_worker_live` | 1 sandbox, 1 client and the reaper, 2 faults | 115 000 | expired remote sandboxes are destroyed unless stuck |
| `guest_connection` | 1 stream, 1 other call, Destroy, room 1, 3 chunks | 536 000 | own answers, whole output or a note, calls and streams end unless stuck |
| `providers` | Firecracker: 3 spawns, 1 crash; others: 2 callers, 4 calls, 2 ids, 1 failing step or restart, room 1, 2 chunks | 448 000 | nothing left behind, gone stays gone, streams end unless hung, snapshots whole |
| `api` | see below | 638 000 | events in order, rate bound, admins only, audit kept, tokens honoured, remote answers true |

Bounds.

* *Admission.* Four calls are enough for two that are queued while one holds the mutex and one holds a sandbox, and
  the limits are such that the total and the owner's limit are each reached alone. Queue 1 with three calls
  makes the queue refuse. Two status answers under way let an old one overtake a newer one (`MaxTold`).
* *Pool.* Two VMs of two users and three sandboxes reach a full VM, a second VM and, with
  `max_vms` reached and a place freed, its reuse; two Destroy calls reach the overlap.
* *Stores.* Two identifiers and two rows distinguish "this row", "another row" and "no row"; the lease's clock of
  3 and TTLs of 1 and 2 contain expiry during a call, takeover, renewal at the last moment and release.
  `MaxGeneration` and `Horizon` only stop the counters.
* *Lifecycle.* Two sandboxes let the reaper's list hold one while it
  destroys another and let a spawn overlap both; client and reaper may destroy the same one; one crash reaches every
  step, since a failed start leads back to `Start` without one. One sandbox is in an inventory and one in a map that a
  crash empties; a provider that keeps its runtimes elsewhere without listing them is covered by the proofs.
* *Builds.* Two builds fill the queue of one while the worker is busy or idle, and two targets may end differently;
  `runServe` starts one worker.
* *Remote workers.* Two faults reach a lost answer followed by a restart; two sandboxes compete for one place. A
  fault is a lost, late or refused answer, a failed write, a restart, a drain or a deletion.
* *Guest.* One stream, one other call and Destroy reach every order at the connection; with room for one frame each
  goroutine blocks on the next. The inductive invariant was also checked with two streams.
* *Providers.* Three spawns of one image meet one build and a snapshot; two callers overlap on one sandbox, and the
  second identifier shows that they leave the other alone. One fault is a context that ends, a failing step or a
  restart.
* *API.* Event bus: two replicas, one publisher, three events through a ring of two, two hooks at a time, one lost
  connection or stop. Limiter: two requesters with two sets of headers, burst 2, rate 1, `bucket_ttl` 1, a reading at most 1
  old, a clock up to 4, so that a bucket is emptied, refilled, and dropped before it would be full; without `Gift`, the
  bound fails here. The window starts at any request. Requests: two
  clients, two keys, a cache that lives for 1, times up to 3, two audited acts, one failing write or restart. Tokens:
  one token through a whole rotation, TTL 2, skew 1, times up to 6, one revocation; verification looks at one token
  at a time, so one reaches every verdict. Remote calls: one call, as calls share nothing but the worker, two chunks
  (131 000 states were checked with three) and a place in each buffer.

Symmetry is used for safety runs only, never for liveness. Deadlock is not checked where a bounded number of calls,
events or faults may be used up (`guest_connection`, `stores`, `providers`, `api`).

Fairness.

* *Admission* (`spawn_admission_live`): a goroutine that can take its next step takes it: weak
  fairness of `CallStep` and of `NotifyQuota`. Strong fairness of `Lock`, because `sync.Mutex` hands itself to a
  waiter that has starved for 1 ms, and of `GiveUp`, because `spawn_queue_timeout` is positive (30 s by default),
  its timer stays ready once it has fired, and `select` picks at random among ready cases. Nothing is assumed of
  clients, administrators, workers.
* *Lifecycle* and *remote workers* (`ExpiredDestroyed`): the ticker fires and the reaper's goroutine runs. The store
  does not refuse for ever: strong fairness of the reaper's `Mark` and of its lease for each sandbox (`Take`); for
  remote sandboxes also of the worker's handling of a Destroy. The properties excuse a server that is down, a TTL that
  is extended, and a remote sandbox whose lease or worker is gone (`Stuck`).
* *Builds* (`QueueServed`): the worker goroutines run, except that nothing is assumed of a worker inside a docker
  command (`InDocker`: build, login, tag, push, inspect), which all run without a timeout; the property assumes instead
  that these are left again and again. Without that, one push that hangs stops the queue, and the code has nothing
  against it.
* *Migrations* (`ServersStart`): a server that has exited is started again (`Restart=on-failure` in
  `deploy/stacyvm.service`, `restart: unless-stopped` in `deploy/docker-compose.yml`), and its steps go on.
* *Guest* (`CallsEnd`): the agent's loop runs on, goroutines run, the mutex is handed on, clients read on or leave (the
  server ends a response after two minutes). That a command ends is not assumed: the property excuses a connection that
  is `Stuck`, because the agent hangs, an answer was left half read, or a request fills the socket of an agent that does
  not read.
* *Providers* (`StreamsEnd`): the goroutines of a stream run on while the command prints or its pipes are closed.
  Nothing is assumed of a command that hangs: such a stream is excused, in Docker's case until its container stops.
  The mock and the custom provider are excused: they wait for room in the channel also after the reader has gone.
* *Event bridge* (`ListenerRecovers`): hooks and listener run, `pg_notify` has a time-out, and the database is
  reachable again and again when a reconnection is tried.

Each property of a passing run is paired in `PROJECT.json` with a faulty variant of one action under which TLC finds
it violated.

### Where the code and its texts disagree

One disagreement has a run. `lifecycle_restart` (`RestartReconciles`): `Reconcile` skips `ErrConflict`, which
`CreateSandbox` never returns; the constraint error of the destroyed row ends the start, at every start, until the
runtime or the row is removed by hand.

The others were met while modelling; the models follow the code, and the properties above state what is left of the
promise.

Manager:
* "Queued spawn requests resume when capacity opens" (`docs/releases/phase-3-quotas-and-scheduling.md:40`): the limits
  are evaluated before `capacityCh` is read (`manager.go:1890`), and a `Destroy` between the two closes the previous
  channel. The call then sleeps until the next notification or its timeout.
* "Destroy is idempotent" (`docs/rest/sandboxes.mdx:208`): `destroyPooled` releases the slot for any row, also for one
  in state destroyed, and takes the VM from another user. A spawn that fails after `Acquire` ignores that `Release`
  says "empty and should be destroyed" (`vm_pool.go:105`), and the VM stays.
* A restart of the server gives up every Firecracker, PRoot and mock sandbox: their providers know their runtimes by a
  map in memory and answer "not found" (`firecracker.go:593`, `proot.go:519`), on which `Reconcile` marks the row
  destroyed (`manager.go:211`). The runtimes that still run are nobody's.
* A remote status is written without `admissionMu` and whatever has happened since (`manager.go:2510`): a late "running"
  revives a destroyed row, and more than `max_sandboxes` run.
* "The control plane must renew leases" (`docs/worker-rpc-contract.md:59`): nothing renews the lease of a remote
  sandbox; `ExtendTTL` (`manager.go:2737`) moves the sandbox's expiry past it. `ReleaseLease` deletes the generation
  with the row, so generations start again.
* Remote exec has "the same audit, event, metric, and timeout behavior used by local exec"
  (`docs/worker-rpc-contract.md:201`): the RPC client gives up after 30 s and the worker's server stops writing after
  30 s (`rpc.go:608`), an answer over 1 MiB cannot be decoded, and a deadline that the worker meets first is answered
  as a failure. A remote stream is cut after 30 s, too. Streamed execs leave no operation audit and no exec log
  (`docs/threat-model.md:36`). A remote sandbox's provider must also be registered on the control plane, or
  `getSandboxAndProvider` fails.

Events, builds, API:
* The commands of a build's registries run without a timeout, like `docker build` (`environments/manager.go:117`): one
  push that hangs keeps the only worker.
* The rate limiter's buckets are dropped after `bucket_ttl` and come back full, however long the refill would have
  taken (`ratelimit.go:182-195`); only the default of 15 minutes makes sure that it makes no difference.
* The ring is indexed by `nextID` after it was counted up (`events.go:96`): the first overwrite hits the second oldest
  event, and the oldest stays for a round.
* The bridge promises that events "reach subscribers on all other replicas" (`events_durable.go:20-24`): a hook's
  `pg_notify` is refused while the listener waits on the same connection.
* "No-downtime signing-key rotation" (`docs/worker-rpc-contract.md:122`): a process restarted with the new key signs
  tokens that one not yet restarted refuses.
* A JWKS answer that is an error body empties the cache for its time to live, and a new key is unknown until that has
  passed. "Admin route access is persisted" (`docs/admin-control-plane.md:85`): not when the client has gone before the
  record is written.
* "deny policies take precedence", "default is to deny" (`middleware/policy.go:88-89`): the first match in priority
  order decides, and without a policy, an image in the request, or a store that answers, the request passes.

Providers and store:
* "After destroy, exec and file operations must fail with either `ErrSandboxDestroyed` or `ErrSandboxNotFound`"
  (`docs/provider-contract.md:20`): E2B returns other errors; Docker's `getSandbox` that races a Destroy remembers the
  sandbox again (`docker.go:746-774`). E2B lacks delete, move, chmod, stat and glob.
* A PRoot or mock write that overlaps Destroy makes the directory again; a restart forgets PRoot's directories.
* Docker's `StdCopy` does not end with the context of a stream, and an error of it closes the stream without a word;
  PRoot and the guest agent wait for the end of pipes that a descendant of the command may hold; the mock and the custom
  provider wait for room in the channel after the reader has gone.
* A snapshot is rebuilt in place while a VM is restored from it, and a failed rebuild removes a good one
  (`firecracker.go:133-210`). A restored VM has the memory and CPUs of the snapshot, not those requested. The agent's
  two pipes write to one `bufio.Writer` without a lock (`cmd/stacyvm-agent/main.go:296-317`).
* SQLite's foreign keys and busy timeout are never on: modernc does not read the parameters that the DSN gives.

## 5. The proofs

`SpawnAdmission_proofs` proves, for any finite set of calls, any owners, limits and quotas (from
`ConstantsAssumption` alone):

* `TypeCorrect`, `CapacityCorrect`, `QueueCorrect`: `TypeOK`, `CapacityRespected`, `QueueAccounting` are
  invariants; `OwnerLimitCorrect`: every step satisfies `OwnerLimitRespected`.
* The inductive invariant `Inv` adds to them
  - `Typed`: the types without "queueWaiters is not negative", which follows from the accounting, not from the
    guards;
  - `LockHeld`: a call at `admit`, `provision` or `return` is the holder of `admissionMu`, hence the only one;
  - `RecordsOwned`: a record's call is at `return` or `running`, so that `Provision` adds a new one;
  - `RoomLeft`: while a call is at `provision` the admitted records are still fewer than both limits it saw. This is
    why the limit is kept during the provider's spawn: others may only remove admitted records meanwhile. What a late
    status revives is not among them.
  `CapacityRespected` by itself is not inductive: nothing in it says that a call at `provision` has room.
* Order: cardinality lemmas (`FiniteCalls`, `RecordsShrink`), one preservation lemma per conjunct with one step
  per action, `ProvisionFits` for the one step that adds a record.

`SandboxLifecycle_proofs` proves, for any sandboxes, clients and number of crashes, wherever providers keep their runtimes:

* `TypeCorrect`, `RuntimesCorrect` (`RuntimeAccounted`), `GroundsCorrect` (`NotGivenUp`) and `DestroyedStays`
  (`DestroyedForGood`), and `CacheCorrect` (`CacheAgrees`): what a `Destroy` is about to drop has no runtime and a
  destroyed row, and `Spawn` caches a sandbox that is destroyed only if it was overtaken.
* The inductive invariant `Inv` adds
  - `Calls`: calls run only while the server is up, and work on a sandbox of their list;
  - `Rows`: what `Spawn` inserts is not there yet, what expires or is to be destroyed is there, what `Reconcile`
    goes through is live. Hence no step that writes "live" meets a destroyed row;
  - `Accounted`: while runtimes are being adopted, each is live or still on the list, and a `Destroy` at `mark` has
    no runtime any more unless the provider refused. This is the order of `Destroy`: runtime first, row second;
  - `Grounded`: whoever is expired, listed or without a runtime has a reason, so that a mark or a "not found" has; what
    a map does not name any more is `forgotten`.
  `RuntimeAccounted` by itself is not inductive: it says nothing while the server is down or reconciling.

`EnvBuilds_proofs` proves, for any builds, targets, workers, cancellations and queue capacity:

* `TypeCorrect`, `NothingForgottenCorrect`, `ReadyCorrect` (`ReadyMeansBuilt`, which no run checks) and `FinalCorrect`
  (`FinalUnlessRaced`).
* The inductive invariant `Inv` adds
  - `Once`: a build is in one place at a time, and while there its status is none that a worker ends with;
  - `Races`: a worker past its read that meets "canceled" was overtaken by the cancellation;
  - `Progress`: what a worker has published is ready, or it knows of a failure.
  `ReadyMeansBuilt` by itself is not inductive: nothing in it says that no request saves, and no second worker
  publishes, an artifact of a build that another worker is about to finalize.
* Order: lemmas on sending to and receiving from the channel (`QueuedSent`, `QueuedReceived`, `DistinctSent`,
  `DistinctReceived`), one lemma per conjunct with one step per action.

`RemoteWorker_proofs` proves, for any sandboxes, workers, clients and number of faults:

* `TypeCorrect`, `LeaseHeldUntilDue` (`LeaseHeld`), `RuntimesOnRecord` (`RuntimeAccounted`), `CapacityRespected`
  (`WorkerCapacity`).
* `Inv` adds `Rows` (rows exist where a call relies on them, and not yet where Spawn will insert one, whose lease is
  held already), `Starting` (Reconcile goes through live rows while nothing is served), `Leases` (a lease lapses only
  after the TTL it was granted for, or an extension) and `Accounted` (a request that nobody waits for is lost, and a
  Destroy that is about to mark a row has ended the runtime). `LeaseHeld` by itself says nothing of a spawn whose row
  is about to be written. `Room` says the same of the capacity: while Spawn waits for the worker's answer there is a
  place for the row, because other rows only leave meanwhile.
* The attempt to prove `WorkerCapacity` failed at `ReconcileMarks`, and TLC then found the behaviour, with three faults:
  a row marked "expired" by one start, its TTL extended, its place taken, and the row made "unhealthy" by the next start.
  The history `revived` now names these rows, too.

The second part of `RemoteWorker_proofs` proves of `LeaseStore`, for any workers, calls, durations and bounds:

* `LeaseTypeCorrect` and `FencingCorrect` from `FenceInv`, which adds `BehindRow`: a current record's generation is
  not above the row's, and if equal names the row's holder. Without it a later acquire might repeat the
  generation of another worker's record.
* `OwnershipCorrect`, `Spec => ImplementsOwnership`: every step of the store is a step of `LeaseOwnership` or
  leaves the owner alone. The needed fact is that no call's reading is ahead of the clock (`Typed`): what was
  expired by an old reading is expired now.

The last part of `RemoteWorker_proofs` proves of `Stores` and `Migrations`, for any servers, versions, failures,
identifiers and bounds:

* `AnswersSame` (`SameAnswers`), from `StoresInv`: until Postgres refuses a call, the two databases are the same and the
  references in them are whole (`Sound`). `SameAnswers` by itself says nothing of the databases that the next call meets.
* The argument needs no induction over rows: on one database, a statement that Postgres does not refuse has the same
  outcome in SQLite (`CommitMatched`), whatever it selects, so each method is matched by its counterpart (one lemma per
  group of methods, one step per method, both definitions expanded). Two things stand in the way. `AcquireLease` and
  `RenewLease` read the row back whatever the error of the statement was, so a refused statement would hide behind
  the row; the schema rules it out, since no lease refers to a row and no row to a lease (`SchemaApart`, from the
  first migration to the last, and `LeasesCommitted`). And a query for a path may be answered differently, but
  changes neither database (`ListAdminAuditReads`).
* The lemma `SameSchema` compares the two lists of migrations as they are written down in the two modules; the theorem
  above rests on it instead of assuming it.
* `MigratedOnce` (`RanOnce`, the safety part of `ServersStart`), from `MigrationsInv`: a server that is about to commit a
  version has it for itself, since the version's row is not there and no two servers have the same version in an open
  transaction. `RanOnce` by itself says nothing of the transactions that are open.
* `StoresImplementLease` and, from it, `StoresFence`: `StoresSpec` implements `LeaseSpec`, so `GenerationFences` and
  `ImplementsOwnership` hold of the specification that the run checks.

`GuestConnection_proofs` proves, for any calls, streams, room and number of chunks:

* `TypeCorrect` and `OwnAnswerCorrect` (`OwnAnswer`).
* `IInv` adds `Held` (who sends or reads has `connMu`), `Cut` (with the guest go the requests), and, until an answer is
  left half read, `Exchange` (what is under way between host and guest is the exchange of the call that reads, in one
  of its stages, with the last frame last) and `Contents` (what the host has of an answer, wherever it is).
  `OwnAnswer` by itself says nothing of the frames that have not been read yet.
* `OutputDelivered` (`OutputOrNote`), from `OInv` (`OutputInvariance`), which adds `Fresh` (the stages of a stream),
  `NoteLast` (the note is the last that is sent) and, until an exchange is broken, `Gone`, `Unprinted` and `Whole`:
  client, two channels and connection hold the output between them, in order, or there are mixed-up frames that the
  reader will not get past.

`VMPool_proofs` proves, for any finite sets of sandboxes, VMs and Destroy calls:

* `TypeCorrect`, `BoundsCorrect`, `NoLeakCorrect`, `UsersCorrect`, `AdmittedCorrect`.
* `IInv` adds `Held` (one spawn at a time), `Placed` and `Targets` (who is on which VM, and which VM a Destroy is about),
  `Pending` and `Emptied` (a VM that is not in the pool yet, or given up by it, has no other users), `RoomKept` (the check
  of `max_vms` still holds when the new slot is inserted, because only `Spawn` adds slots) and `Reserved` (the admission
  still holds when the records are written).

`Providers_proofs` proves, for any callers, sandboxes, calls, failing steps and restarts, any spawns and crashes:

* `RuntimesCorrect` (`NothingLeft`) and `GoneCorrect` (`AfterDestroy`), from `CallsInv`: `Issued` (a Spawn has its
  sandbox to itself; a late call is about one that is gone), `Unanswered` (who has made no runtime yet, and who has one
  to take back), `GoneForGood` (what a daemon or a service has said to be gone has no runtime, also while that answer is
  on its way and whatever the map says) and `Forgotten` (what PRoot or the mock has given up is not in its map; its
  directory is gone, too, unless a Destroy has yet to look or a failure, a restart or a write excuses it, and no file
  operation that got past the map can make it again unnoticed). Neither property is inductive: a container that comes
  back, or a file operation still on its way, would break it a step later.
* The five providers share two summaries of a step, `Served` (Docker, custom, E2B) and `Hosted` (PRoot, mock). Each
  provider's steps are shown to be such steps (`DockerServes`, `CustomServes`, `E2BServes`, `PRootServes`,
  `MockServes`), and such steps to keep the invariant (`TakenIssued`, `TakenUnanswered`, `ServedGone`, `HostedGone`);
  callers, contexts and restarts have a lemma each (`BeginKept`, `ContextKept`, `RestartKept`).
* Assumed: `ProvidersAssumption` (the providers there are, and that no sandbox has the empty identifier).
* Of `FirecrackerVMs`: `TypeCorrect`, `ProcessesCorrect`, `SnapshotCorrect`. `IInv` adds `OneBuilder`, `TemporaryBuilt`
  and `ProcessesHeld` (whose each process is), `Unbuilt` (who has not finished a spawn builds nothing), `Based` (a build
  boots its own copy) and `Staged` (what the build has put into the directory so far). `SnapshotWhole` by itself says
  nothing while somebody builds.
* `FirecrackerImplemented`: the composition implements `FirecrackerVMs`, so that what is proved of it holds of
  `ProvidersSpec` (`VMsCorrect`).

`ApiServer_proofs` proves, for any clients, processes, keys, times and sizes. The parts share no state, so each has an
inductive invariant of its own, which the steps of the others leave alone:

* `TokensCorrect` (`TokensHonoured`), from `TokensInv`: `Rotated` (what the file and each process can hold in each phase of
  the rotation) and `AllSound` (a token signed with the old key is older than the last restart with the new keys, and
  expired by the time the old key is taken out). The property speaks of one verdict; it needs the age of every token.
* `RateCorrect` (`RateBound`), for any burst, rate and `bucket_ttl`, from `LimiterInv`: `Late` (how late readings are) and
  `Credit`: what was let through and what is left in the bucket are together never more than the burst, what has been
  earned, and what buckets made anew have given (`Gift`, nothing where the dropped one would have been full). Without a
  bucket, what was let through is covered by what has been earned at any reading that may still fill a new one, and
  the gift of that one. The bound by itself says nothing of the tokens left, nor of a bucket that the cleanup drops.
* `AdminsCorrect` (`AdminsOnly`), `AuditCorrect` (`AuditKept`), from `ApiInv`: `KeysDated` (a cached key was still published
  at the time the cache is marked with, also when fetches overlap), `TokensLookedUp`, `Entitled`, `Dated` (a record is not
  older than its act, so pruning by the record's time keeps the act for its retention).
* `AnswersCorrect` (`RemoteAnswersTrue`), from `CallsInv`: `CallOnce` and `Answered` (what handler, reply and caller know of
  each other, and how much the provider has done), `ClosedInOrder` (buffers are closed from the command to the client)
  and `StreamKept`: while the caller's context lasts, the output lies in order across the five buffers and the connection, or a note is on its way.
* `BusCorrect` (`BusFaithful`), from `BusInv`: `Tracked` (an event is with the hook, the connection, the listener or the bus,
  and on the way to a bus once: `SentOnce`, `NotedOnce`, `LogOnce`), `ClientInOrder` (the channel and the last event sent
  follow the order of the bus) and `RingKept` (where each of the latest events is in the ring). The property by itself says
  nothing of the copies under way, which is where a second delivery would come from.
* Assumed of the constants: what the modules' `ASSUME`s say; among them that a static key is an RSA or an EC key, as
  `parsePublicKeyPEM` accepts no other.
* Order: per part, the initial state, one lemma per conjunct with one step per action, the conclusion. Facts about
  sequences that keep coming back are lemmas on constants (`AppendFacts`, `AppendOrder`, `JoinInOrder`, `TakeInOrder`,
  `PutKept`, `PlaceFacts`). Each invariant was checked by TLC on the instance of the run before it was proved.

Left to TLC: liveness under fairness (`QueueDrains`, `AdmissionProgress`, `ExpiredDestroyed`, `QueueServed`,
the end of `ServersStart`, `CallsEnd`, `StreamsEnd`, `ListenerRecovers`), which the proof system does not cover, and
what a statement of the stores returns by itself, which would need induction over the rows of a table. `TypeOK` is
proved rather than listed among a run's invariants where there is a proof module.

## 6. Not modelled

* Sandbox lifecycle: reconciliation of pooled sandboxes, and a sandbox that is remote and pooled.
* Remote workers: TLS, static tokens, the scopes of worker tokens; issuer and audience of a bearer token are one flag.
* API: decoding, encoding, CORS, tenants, policies, and the routes that only read.
* Providers: contents of files, output of commands, paths, the registry of providers, the build of ext4 images.
* Event bridge: the cut of a payload over 7900 bytes.
* Not at all: the warm template pool (`PoolManager.Configure` and `Acquire` have no caller outside the tests), metrics
  and operation records (no control depends on them), configuration (parsed once), start-up wiring and the client
  commands, the root file system builder (external tools in order), the clients (terminal, desktop, web, SDKs).
