------------------------------ MODULE EnvBuilds ------------------------------
(***************************************************************************)
(* Environment builds (internal/environments/manager.go and StartBuild and *)
(* CancelBuild of internal/api/routes/environments.go).                    *)
(*                                                                         *)
(* StartBuild writes a row "queued" and one artifact per target, then puts *)
(* the build's id into a channel.  A worker takes it out, reads the row    *)
(* once, and from then on writes its own copy of the row after every step. *)
(* CancelBuild reads the row and writes "canceled".  Neither tells the     *)
(* other.  Rows and artifacts outlive the process, the channel does not,   *)
(* and no start of the server reads the rows again.                        *)
(***************************************************************************)
EXTENDS Integers, Sequences, FiniteSets

CONSTANTS
  Builds,      \* identifiers of builds, one StartBuild request each
  Targets,     \* local, ghcr, dockerhub
  Workers,     \* worker goroutines
  Cancels,     \* concurrent CancelBuild requests
  NoBuild,     \* no build is being worked on
  QueueSize,   \* capacity of the channel
  MaxCrashes   \* bound on crashes

ASSUME ConstantsAssumption ==
  /\ NoBuild \notin Builds
  /\ QueueSize \in Nat \ {0}
  /\ MaxCrashes \in Nat

VARIABLES
  phase,     \* up, stopping (Stop waits for the workers), down
  status,    \* status of each build's row
  artifact,  \* status of each build's artifact rows
  starting,  \* builds whose StartBuild request is in progress
  want,      \* the artifacts that it has not saved yet
  jobs,      \* the channel
  wpc,       \* where each worker stands
  wb,        \* the build it works on
  todo,      \* the artifacts it has not dealt with yet
  allReady,  \* none of the others has failed
  cb,        \* the build a CancelBuild request has read and will write
  crashes,
  stranded,  \* history: a store error, a full queue or an exit has cost the build
  raced      \* history: canceled after a worker had read the row

worker == <<wpc, wb, todo, allReady>>
request == <<starting, want>>
vars == <<phase, status, artifact, request, jobs, worker, cb, crashes, stranded, raced>>

Final == {"ready", "failed", "canceled"}

\* The writes of status "building" that processBuild makes, in order.
NextStep == [begin |-> "spec", spec |-> "dockerfile", dockerfile |-> "artifacts",
             artifacts |-> "build", build |-> "targets"]

Queued == {jobs[i] : i \in 1 .. Len(jobs)}

TypeOK ==
  /\ phase \in {"up", "stopping", "down"}
  /\ status \in [Builds -> {"none", "queued", "building"} \cup Final]
  /\ artifact \in [Builds -> [Targets -> {"none", "pending", "ready", "failed"}]]
  /\ starting \subseteq Builds
  /\ want \in [Builds -> SUBSET Targets]
  /\ jobs \in Seq(Builds) /\ Len(jobs) <= QueueSize
  /\ wpc \in [Workers -> DOMAIN NextStep \cup {"idle", "read", "targets"}]
  /\ wb \in [Workers -> Builds \cup {NoBuild}]
  /\ \A w \in Workers : wpc[w] = "idle" <=> wb[w] = NoBuild
  /\ todo \in [Workers -> SUBSET Targets]
  /\ allReady \in [Workers -> BOOLEAN]
  /\ cb \in [Cancels -> Builds \cup {NoBuild}]
  /\ crashes \in 0 .. MaxCrashes
  /\ stranded \subseteq Builds
  /\ raced \subseteq Builds

Requested(b) == {t \in Targets : artifact[b][t] # "none"}

-----------------------------------------------------------------------------
(* StartBuild.                                                             *)

\* CreateEnvironmentBuild under a new identifier.
CreateBuild(b) ==
  /\ phase = "up"
  /\ status[b] = "none"
  /\ status' = [status EXCEPT ![b] = "queued"]
  /\ \E T \in SUBSET Targets \ {{}} : want' = [want EXCEPT ![b] = T]
  /\ starting' = starting \cup {b}
  /\ UNCHANGED <<phase, artifact, jobs, worker, cb, crashes, stranded, raced>>

SaveArtifact(b) ==
  /\ b \in starting
  /\ \E t \in want[b] :
       /\ artifact' = [artifact EXCEPT ![b][t] = "pending"]
       /\ want' = [want EXCEPT ![b] = @ \ {t}]
  /\ UNCHANGED <<phase, status, starting, jobs, worker, cb, crashes, stranded, raced>>

\* Any error of the store ends the request; the row stays.
StartFails(b) ==
  /\ b \in starting
  /\ starting' = starting \ {b}
  /\ want' = [want EXCEPT ![b] = {}]
  /\ stranded' = stranded \cup {b}
  /\ UNCHANGED <<phase, status, artifact, jobs, worker, cb, crashes, raced>>

\* The select may still send after Stop, while the channel has room.
Enqueue(b) ==
  /\ b \in starting
  /\ want[b] = {}
  /\ Len(jobs) < QueueSize
  /\ jobs' = Append(jobs, b)
  /\ starting' = starting \ {b}
  /\ UNCHANGED <<phase, status, artifact, want, worker, cb, crashes, stranded, raced>>

\* The queue is full or the manager stopped: the client is told, the row stays.
EnqueueRefused(b) ==
  /\ b \in starting
  /\ want[b] = {}
  /\ Len(jobs) = QueueSize \/ phase = "stopping"
  /\ starting' = starting \ {b}
  /\ stranded' = stranded \cup {b}
  /\ UNCHANGED <<phase, status, artifact, want, jobs, worker, cb, crashes, raced>>

-----------------------------------------------------------------------------
(* CancelBuild.                                                            *)

\* A build that is final is refused.
CancelRead(c, b) ==
  /\ phase = "up"
  /\ cb[c] = NoBuild
  /\ status[b] \in {"queued", "building"}
  /\ cb' = [cb EXCEPT ![c] = b]
  /\ UNCHANGED <<phase, status, artifact, request, jobs, worker, crashes, stranded, raced>>

CancelWrite(c) ==
  /\ cb[c] # NoBuild
  /\ status' = [status EXCEPT ![cb[c]] = "canceled"]
  /\ raced' = IF \E w \in Workers : wb[w] = cb[c] /\ wpc[w] # "read"
              THEN raced \cup {cb[c]} ELSE raced
  /\ cb' = [cb EXCEPT ![c] = NoBuild]
  /\ UNCHANGED <<phase, artifact, request, jobs, worker, crashes, stranded>>

CancelFails(c) ==
  /\ cb[c] # NoBuild
  /\ cb' = [cb EXCEPT ![c] = NoBuild]
  /\ UNCHANGED <<phase, status, artifact, request, jobs, worker, crashes, stranded, raced>>

-----------------------------------------------------------------------------
(* worker and processBuild.                                                *)

\* After Stop the select may still choose a job.
Receive(w) ==
  /\ phase # "down"
  /\ wpc[w] = "idle"
  /\ jobs # <<>>
  /\ wb' = [wb EXCEPT ![w] = Head(jobs)]
  /\ jobs' = Tail(jobs)
  /\ wpc' = [wpc EXCEPT ![w] = "read"]
  /\ UNCHANGED <<phase, status, artifact, request, todo, allReady, cb, crashes, stranded, raced>>

\* processBuild returns and the worker goes back to its select.
Return(w) ==
  /\ wpc' = [wpc EXCEPT ![w] = "idle"]
  /\ wb' = [wb EXCEPT ![w] = NoBuild]
  /\ todo' = [todo EXCEPT ![w] = {}]
  /\ allReady' = [allReady EXCEPT ![w] = TRUE]

\* Faulty variant of Read: a canceled build is not recognised as final.
ReadIgnoresCancel(w) ==
  /\ wpc[w] = "read"
  /\ \/ status[wb[w]] \in {"ready", "failed"} /\ Return(w)
     \/ /\ status[wb[w]] \notin {"ready", "failed"}
        /\ wpc' = [wpc EXCEPT ![w] = "begin"]
        /\ UNCHANGED <<wb, todo, allReady>>
  /\ UNCHANGED <<phase, status, artifact, request, jobs, cb, crashes, stranded, raced>>

\* Faulty variant of Read: a build that is final goes back into the queue.
ReadRequeues(w) ==
  /\ wpc[w] = "read"
  /\ \/ /\ status[wb[w]] \in Final
        /\ Return(w)
        /\ jobs' = IF Len(jobs) < QueueSize THEN Append(jobs, wb[w]) ELSE jobs
     \/ /\ status[wb[w]] \notin Final
        /\ wpc' = [wpc EXCEPT ![w] = "begin"]
        /\ UNCHANGED <<wb, todo, allReady, jobs>>
  /\ UNCHANGED <<phase, status, artifact, request, cb, crashes, stranded, raced>>

\* GetEnvironmentBuild; a build that is final already is dropped.
Read(w) ==
  /\ wpc[w] = "read"
  /\ \/ status[wb[w]] \in Final /\ Return(w)
     \/ /\ status[wb[w]] \notin Final
        /\ wpc' = [wpc EXCEPT ![w] = "begin"]
        /\ UNCHANGED <<wb, todo, allReady>>
  /\ UNCHANGED <<phase, status, artifact, request, jobs, cb, crashes, stranded, raced>>

\* A step succeeds (loading and checking the specification, listing the
\* artifacts, docker build) and updateBuild writes the worker's copy.
Advance(w) ==
  /\ wpc[w] \in DOMAIN NextStep
  /\ wpc[w] = "artifacts" => Requested(wb[w]) # {}
  /\ status' = [status EXCEPT ![wb[w]] = "building"]
  /\ wpc' = [wpc EXCEPT ![w] = NextStep[@]]
  /\ todo' = IF wpc[w] = "artifacts" THEN [todo EXCEPT ![w] = Requested(wb[w])] ELSE todo
  /\ UNCHANGED <<phase, artifact, request, jobs, wb, allReady, cb, crashes, stranded, raced>>

\* Faulty variant of Fail: the error is returned, failBuild is not called.
FailReturns(w) ==
  /\ wpc[w] \in {"spec", "artifacts", "build", "targets"}
  /\ Return(w)
  /\ UNCHANGED <<phase, status, artifact, request, jobs, cb, crashes, stranded, raced>>

\* A step fails and failBuild writes so.
Fail(w) ==
  /\ wpc[w] \in {"spec", "artifacts", "build", "targets"}
  /\ wpc[w] = "targets" => todo[w] # {}
  /\ status' = [status EXCEPT ![wb[w]] = "failed"]
  /\ Return(w)
  /\ UNCHANGED <<phase, artifact, request, jobs, cb, crashes, stranded, raced>>

\* One target is inspected or pushed, and its artifact saved.
Publish(w) ==
  /\ wpc[w] = "targets"
  /\ \E t \in todo[w], result \in {"ready", "failed"} :
       /\ artifact' = [artifact EXCEPT ![wb[w]][t] = result]
       /\ todo' = [todo EXCEPT ![w] = @ \ {t}]
       /\ allReady' = [allReady EXCEPT ![w] = @ /\ result = "ready"]
  /\ UNCHANGED <<phase, status, request, jobs, wpc, wb, cb, crashes, stranded, raced>>

Finalize(w) ==
  /\ wpc[w] = "targets"
  /\ todo[w] = {}
  /\ status' = [status EXCEPT ![wb[w]] = IF allReady[w] THEN "ready" ELSE "failed"]
  /\ Return(w)
  /\ UNCHANGED <<phase, artifact, request, jobs, cb, crashes, stranded, raced>>

\* The row cannot be read or written: processBuild returns the error, which is
\* logged.
StoreFails(w) ==
  /\ wpc[w] # "idle"
  /\ stranded' = stranded \cup {wb[w]}
  /\ Return(w)
  /\ UNCHANGED <<phase, status, artifact, request, jobs, cb, crashes, raced>>

-----------------------------------------------------------------------------
(* The process.                                                            *)

\* Everything in memory is gone, and nobody will look for these rows.
Exit ==
  /\ phase' = "down"
  /\ stranded' = stranded \cup starting \cup Queued \cup ({wb[w] : w \in Workers} \ {NoBuild})
  /\ starting' = {} /\ want' = [b \in Builds |-> {}]
  /\ jobs' = <<>>
  /\ wpc' = [w \in Workers |-> "idle"]
  /\ wb' = [w \in Workers |-> NoBuild]
  /\ todo' = [w \in Workers |-> {}]
  /\ allReady' = [w \in Workers |-> TRUE]
  /\ cb' = [c \in Cancels |-> NoBuild]
  /\ UNCHANGED <<status, artifact, raced>>

Crash ==
  /\ phase # "down"
  /\ crashes < MaxCrashes
  /\ crashes' = crashes + 1
  /\ Exit

\* runServe returns: no new request; Stop cancels the context.
Stop ==
  /\ phase = "up"
  /\ phase' = "stopping"
  /\ UNCHANGED <<status, artifact, request, jobs, worker, cb, crashes, stranded, raced>>

\* Stop has waited for the workers.
StopReturns ==
  /\ phase = "stopping"
  /\ \A w \in Workers : wpc[w] = "idle"
  /\ Exit
  /\ UNCHANGED crashes

Start ==
  /\ phase = "down"
  /\ phase' = "up"
  /\ UNCHANGED <<status, artifact, request, jobs, worker, cb, crashes, stranded, raced>>

-----------------------------------------------------------------------------
Init ==
  /\ phase = "down"
  /\ status = [b \in Builds |-> "none"]
  /\ artifact = [b \in Builds |-> [t \in Targets |-> "none"]]
  /\ starting = {} /\ want = [b \in Builds |-> {}]
  /\ jobs = <<>>
  /\ wpc = [w \in Workers |-> "idle"]
  /\ wb = [w \in Workers |-> NoBuild]
  /\ todo = [w \in Workers |-> {}]
  /\ allReady = [w \in Workers |-> TRUE]
  /\ cb = [c \in Cancels |-> NoBuild]
  /\ crashes = 0 /\ stranded = {} /\ raced = {}

WorkerStep(w) ==
  Receive(w) \/ Read(w) \/ Advance(w) \/ Fail(w) \/ Publish(w) \/ Finalize(w) \/ StoreFails(w)

StartStep(b) ==
  CreateBuild(b) \/ SaveArtifact(b) \/ StartFails(b) \/ Enqueue(b) \/ EnqueueRefused(b)

CancelStep(c) == CancelWrite(c) \/ CancelFails(c) \/ \E b \in Builds : CancelRead(c, b)

Next ==
  \/ \E w \in Workers : WorkerStep(w)
  \/ \E b \in Builds : StartStep(b)
  \/ \E c \in Cancels : CancelStep(c)
  \/ Crash \/ Stop \/ StopReturns \/ Start

Spec == Init /\ [][Next]_vars

\* The worker waits for a docker command: build, or the login, tag, push and
\* inspect of a target.  They run under context.Background() and have no timeout.
InDocker(w) ==
  \/ wpc[w] = "build"
  \/ wpc[w] = "targets" /\ todo[w] # {}

\* The worker goroutines run, but need not come back from a docker command.
Fairness == \A w \in Workers : WF_vars(~InDocker(w) /\ WorkerStep(w))

FairSpec == Spec /\ Fairness
-----------------------------------------------------------------------------
(* Properties.                                                             *)

\* No build is forgotten: a row that says "queued" or "building" belongs to a
\* build in somebody's hands, unless a store error, a refused Enqueue or the end
\* of the process has cost it.
NothingForgotten ==
  \A b \in Builds : status[b] \in {"queued", "building"} =>
    b \in starting \cup Queued \cup {wb[w] : w \in Workers} \cup stranded

\* A build that is ready has all its artifacts ready, and at least one, however
\* cancellations, failures and restarts fell.
ReadyMeansBuilt ==
  \A b \in Builds : status[b] = "ready" =>
    Requested(b) # {} /\ \A t \in Requested(b) : artifact[b][t] = "ready"

\* Whichever row a step changes from a final status, a race has led to it.
OnlyRacesChangeFinal ==
  \A b \in Builds : status[b] \in Final /\ status'[b] # status[b] =>
    \/ status[b] = "canceled" /\ b \in raced
    \/ status'[b] = "canceled" /\ \E c \in Cancels : cb[c] = b

\* A final status changes in two ways only: a worker that had read the row before
\* the cancellation overwrites "canceled", or a CancelBuild that had read the row
\* before it became final writes "canceled".  In particular a build that is
\* canceled while it is queued stays canceled.
FinalUnlessRaced == [][OnlyRacesChangeFinal]_vars

\* The queue is served: provided that every docker command ends, the pushes to a
\* registry too, a queued build is dealt with, unless the server stops.
QueueServed ==
  (\A w \in Workers : []<>~InDocker(w))
    => \A b \in Builds :
         b \in Queued ~> phase # "up" \/ b \notin Queued \cup {wb[w] : w \in Workers}
=============================================================================
