--------------------------- MODULE SpawnAdmission ---------------------------
(***************************************************************************)
(* Spawn admission control of the sandbox manager                          *)
(* (internal/orchestrator/manager.go: Spawn, acquireSpawnAdmission,        *)
(* waitForSpawnCapacity, evaluateSpawnAdmission, notifySpawnCapacity,      *)
(* SaveOwnerQuota, Destroy).                                               *)
(*                                                                         *)
(* Spawn calls run concurrently.  Each evaluates the limits without any    *)
(* lock, queues on a channel when the limits are reached, and evaluates    *)
(* again under admissionMu, which it then keeps until the sandbox is       *)
(* recorded.  Destroy and SaveOwnerQuota close the channel and replace it. *)
(*                                                                         *)
(* A channel that a waiter holds is either the current one ("open") or one *)
(* that some notification closed ("closed"), so no generation counter is   *)
(* needed.  A call slot owns at most one sandbox: the record it created.   *)
(*                                                                         *)
(* The status that a remote worker reports is written without any lock and *)
(* whatever has happened since it was asked for: a late one brings back a  *)
(* record that Destroy has ended, and no evaluation admits it (`revived`). *)
(***************************************************************************)
EXTENDS Integers, FiniteSets

CONSTANTS
  Calls,            \* concurrent Spawn calls, reused one after the other
  NoCall,           \* admissionMu is free
  Owners,           \* owner identities with a quota
  OwnerOf,          \* [Calls -> Owners \cup {NoOwner}]
  NoOwner,          \* the request names no owner
  MaxSandboxes,     \* limits.MaxSandboxes, 0 = unlimited
  MaxPerOwner,      \* limits.MaxSandboxesPerOwner, 0 = unlimited
  QuotaLimits,      \* values an administrator stores in an owner quota
  MaxSpawnQueue,    \* limits.MaxSpawnQueue
  Queueing,         \* limits.SpawnOverflow = "queue"
  Remote,           \* calls whose sandbox is placed on a remote worker
  MaxTold           \* bound: status answers of one sandbox on their way

ASSUME ConstantsAssumption ==
  /\ IsFiniteSet(Calls)
  /\ NoCall \notin Calls
  /\ NoOwner \notin Owners
  /\ OwnerOf \in [Calls -> Owners \cup {NoOwner}]
  /\ MaxSandboxes \in Nat
  /\ MaxPerOwner \in Nat
  /\ QuotaLimits \subseteq Nat
  /\ 0 \in QuotaLimits
  /\ MaxSpawnQueue \in Nat \ {0}
  /\ Queueing \in BOOLEAN
  /\ Remote \subseteq Calls
  /\ MaxTold \in Nat

VARIABLES
  pc,            \* where each call stands
  records,       \* calls whose sandbox record exists and is not destroyed
  admissionMu,   \* the call that holds the admission mutex, or NoCall
  queueWaiters,  \* the counter guarded by queueMu
  chan,          \* the capacity channel each call holds: none, open or closed
  quota,         \* stored MaxSandboxes of each owner, 0 = no override
  limit,         \* decision.MaxOwnerSandboxes of the call's locked evaluation
  saving,        \* a quota is stored and its notification not yet sent
  told,          \* answers of the worker that it lives, which are not written yet
  revived        \* history: the record came back by a late status

refreshes == <<told, revived>>

vars ==
  <<pc, records, admissionMu, queueWaiters, chan, quota, limit, saving, told, revived>>

\* Steps of a call between queueWaiters++ and the deferred queueWaiters--.
Queued == {"waiting", "rearm", "dequeue", "abandon"}

\* Steps of a call that holds admissionMu.
Locked == {"admit", "provision", "return"}

Steps ==
  {"idle", "evaluate", "enqueue", "lock", "running", "notify"} \cup Queued \cup Locked

TypeOK ==
  /\ pc \in [Calls -> Steps]
  /\ records \subseteq Calls
  /\ admissionMu \in Calls \cup {NoCall}
  /\ queueWaiters \in Nat
  /\ chan \in [Calls -> {"none", "open", "closed"}]
  /\ quota \in [Owners -> QuotaLimits]
  /\ limit \in [Calls -> Nat]
  /\ saving \in BOOLEAN
  /\ told \in [Calls -> 0..MaxTold]
  /\ revived \subseteq records

-----------------------------------------------------------------------------
(* The admission decision.                                                 *)

OwnerRecords(o) == {c \in records : OwnerOf[c] = o}

\* ownerLimitOverrides: a stored quota above zero replaces the default; when the
\* quota cannot be read, the default applies.
OwnerLimit(c) ==
  IF OwnerOf[c] \in Owners /\ quota[OwnerOf[c]] > 0
    THEN quota[OwnerOf[c]]
    ELSE MaxPerOwner

OwnerLimits(c) == {OwnerLimit(c), MaxPerOwner}

\* Faulty variant of OwnerFull: the limit is compared with > instead of >=.
OwnerFullOffByOne(c, l) ==
  /\ OwnerOf[c] \in Owners
  /\ l > 0
  /\ Cardinality(OwnerRecords(OwnerOf[c])) > l

OwnerFull(c, l) ==
  /\ OwnerOf[c] \in Owners
  /\ l > 0
  /\ Cardinality(OwnerRecords(OwnerOf[c])) >= l

Full == MaxSandboxes > 0 /\ Cardinality(records) >= MaxSandboxes

Decision(c, l) == IF Full \/ OwnerFull(c, l) THEN "full" ELSE "allowed"

\* Any evaluation may instead end the call: the TTL exceeds max_ttl, no worker
\* is eligible, or the store fails.  None of these is queueable.
Decisions(c) == {Decision(c, l) : l \in OwnerLimits(c)} \cup {"denied"}

\* notifySpawnCapacity closes the channel of everybody who holds it.
Notified == [c \in Calls |-> IF chan[c] = "open" THEN "closed" ELSE chan[c]]

-----------------------------------------------------------------------------
(* A Spawn call.                                                           *)

\* A slot is used again when its last sandbox is gone for good.
Spawn(c) ==
  /\ pc[c] = "idle"
  /\ told[c] = 0
  /\ pc' = [pc EXCEPT ![c] = "evaluate"]
  /\ UNCHANGED <<records, admissionMu, queueWaiters, chan, quota, limit, saving, refreshes>>

\* Faulty variant of EvaluateUnlocked: a queueable denial goes to the locked
\* evaluation instead of the queue.
EvaluateNeverQueues(c) ==
  /\ pc[c] = "evaluate"
  /\ \E d \in Decisions(c) :
       pc' = [pc EXCEPT ![c] = IF d = "denied" THEN "idle" ELSE "lock"]
  /\ UNCHANGED <<records, admissionMu, queueWaiters, chan, quota, limit, saving, refreshes>>

\* The evaluation on entry of waitForSpawnCapacity: no lock is held.
EvaluateUnlocked(c) ==
  /\ pc[c] = "evaluate"
  /\ \E d \in Decisions(c) :
       pc' = [pc EXCEPT ![c] = CASE d = "allowed"            -> "lock"
                                 [] d = "full" /\ Queueing   -> "enqueue"
                                 [] OTHER                    -> "idle"]
  /\ UNCHANGED <<records, admissionMu, queueWaiters, chan, quota, limit, saving, refreshes>>

\* The first section under queueMu: refuse when the queue is full, otherwise
\* count the call and take the channel that is current now.
Enqueue(c) ==
  /\ pc[c] = "enqueue"
  /\ \/ /\ queueWaiters >= MaxSpawnQueue
        /\ pc' = [pc EXCEPT ![c] = "idle"]
        /\ UNCHANGED <<queueWaiters, chan>>
     \/ /\ queueWaiters < MaxSpawnQueue
        /\ queueWaiters' = queueWaiters + 1
        /\ chan' = [chan EXCEPT ![c] = "open"]
        /\ pc' = [pc EXCEPT ![c] = "waiting"]
  /\ UNCHANGED <<records, admissionMu, quota, limit, saving, refreshes>>

\* The capacity channel was closed: evaluate again.  Here a queueable denial
\* keeps the call in the queue.
Wake(c) ==
  /\ pc[c] = "waiting"
  /\ chan[c] = "closed"
  /\ \E d \in Decisions(c) :
       /\ pc' = [pc EXCEPT ![c] = CASE d = "allowed" -> "dequeue"
                                    [] d = "full"    -> "rearm"
                                    [] OTHER         -> "abandon"]
       /\ chan' = IF d = "full" THEN chan ELSE [chan EXCEPT ![c] = "none"]
  /\ UNCHANGED <<records, admissionMu, queueWaiters, quota, limit, saving, refreshes>>

\* Take the current channel again, under queueMu.
Rearm(c) ==
  /\ pc[c] = "rearm"
  /\ chan' = [chan EXCEPT ![c] = "open"]
  /\ pc' = [pc EXCEPT ![c] = "waiting"]
  /\ UNCHANGED <<records, admissionMu, queueWaiters, quota, limit, saving, refreshes>>

\* Faulty variant of GiveUp: the timer is looked at only after a notification.
GiveUpAfterWake(c) ==
  /\ pc[c] = "waiting"
  /\ chan[c] = "closed"
  /\ pc' = [pc EXCEPT ![c] = "abandon"]
  /\ chan' = [chan EXCEPT ![c] = "none"]
  /\ UNCHANGED <<records, admissionMu, queueWaiters, quota, limit, saving, refreshes>>

\* spawn_queue_timeout expired or the caller's context ended.
GiveUp(c) ==
  /\ pc[c] = "waiting"
  /\ pc' = [pc EXCEPT ![c] = "abandon"]
  /\ chan' = [chan EXCEPT ![c] = "none"]
  /\ UNCHANGED <<records, admissionMu, queueWaiters, quota, limit, saving, refreshes>>

\* Faulty variant of Leave: only an admitted call gives its place back.
LeaveOnlyDequeued(c) ==
  /\ pc[c] \in {"dequeue", "abandon"}
  /\ queueWaiters' = IF pc[c] = "dequeue" THEN queueWaiters - 1 ELSE queueWaiters
  /\ pc' = [pc EXCEPT ![c] = IF pc[c] = "dequeue" THEN "lock" ELSE "idle"]
  /\ UNCHANGED <<records, admissionMu, chan, quota, limit, saving, refreshes>>

\* The deferred section that leaves the queue.
Leave(c) ==
  /\ pc[c] \in {"dequeue", "abandon"}
  /\ queueWaiters' = queueWaiters - 1
  /\ pc' = [pc EXCEPT ![c] = IF pc[c] = "dequeue" THEN "lock" ELSE "idle"]
  /\ UNCHANGED <<records, admissionMu, chan, quota, limit, saving, refreshes>>

Lock(c) ==
  /\ pc[c] = "lock"
  /\ admissionMu = NoCall
  /\ admissionMu' = c
  /\ pc' = [pc EXCEPT ![c] = "admit"]
  /\ UNCHANGED <<records, queueWaiters, chan, quota, limit, saving, refreshes>>

\* Faulty variants of Admit: the decision made without the lock is trusted; a
\* denied call returns without Unlock.
AdmitUnchecked(c) ==
  /\ pc[c] = "admit"
  /\ \E l \in OwnerLimits(c) : limit' = [limit EXCEPT ![c] = l]
  /\ pc' = [pc EXCEPT ![c] = "provision"]
  /\ UNCHANGED <<records, admissionMu, queueWaiters, chan, quota, saving, refreshes>>

AdmitKeepsLock(c) ==
  /\ pc[c] = "admit"
  /\ \/ /\ \E l \in OwnerLimits(c) :
             Decision(c, l) = "allowed" /\ limit' = [limit EXCEPT ![c] = l]
        /\ pc' = [pc EXCEPT ![c] = "provision"]
        /\ UNCHANGED admissionMu
     \/ \E d \in Decisions(c) \ {"allowed"} :
          /\ admissionMu' = IF d = "full" THEN NoCall ELSE admissionMu
          /\ pc' = [pc EXCEPT ![c] =
                      IF d = "full" /\ Queueing THEN "evaluate" ELSE "idle"]
          /\ UNCHANGED limit
  /\ UNCHANGED <<records, queueWaiters, chan, quota, saving, refreshes>>

\* The evaluation under admissionMu.  A call that lost the capacity it saw
\* unlocks and starts over, with a new place in the queue and a new timeout.
Admit(c) ==
  /\ pc[c] = "admit"
  /\ \/ /\ \E l \in OwnerLimits(c) :
             Decision(c, l) = "allowed" /\ limit' = [limit EXCEPT ![c] = l]
        /\ pc' = [pc EXCEPT ![c] = "provision"]
        /\ UNCHANGED admissionMu
     \/ \E d \in Decisions(c) \ {"allowed"} :
          /\ admissionMu' = NoCall
          /\ pc' = [pc EXCEPT ![c] =
                      IF d = "full" /\ Queueing THEN "evaluate" ELSE "idle"]
          /\ UNCHANGED limit
  /\ UNCHANGED <<records, queueWaiters, chan, quota, saving, refreshes>>

\* Provider spawn, lease and CreateSandbox, all under admissionMu; on an error
\* of any of them no record stays behind.
Provision(c) ==
  /\ pc[c] = "provision"
  /\ records' \in {records, records \cup {c}}
  /\ pc' = [pc EXCEPT ![c] = "return"]
  /\ UNCHANGED <<admissionMu, queueWaiters, chan, quota, limit, saving, refreshes>>

\* The deferred Unlock.
Return(c) ==
  /\ pc[c] = "return"
  /\ admissionMu' = NoCall
  /\ pc' = [pc EXCEPT ![c] = IF c \in records THEN "running" ELSE "idle"]
  /\ UNCHANGED <<records, queueWaiters, chan, quota, limit, saving, refreshes>>

-----------------------------------------------------------------------------
(* What frees capacity.                                                    *)

\* Destroy records the state first and notifies at its end.  (That of a revived
\* record ends at the lease, unless its release had failed.)
Destroy(c) ==
  /\ pc[c] = "running"
  /\ records' = records \ {c}
  /\ revived' = revived \ {c}
  /\ pc' = [pc EXCEPT ![c] = "notify"]
  /\ UNCHANGED <<admissionMu, queueWaiters, chan, quota, limit, saving, told>>

NotifyDestroyed(c) ==
  /\ pc[c] = "notify"
  /\ chan' = Notified
  /\ pc' = [pc EXCEPT ![c] = IF c \in records THEN "running" ELSE "idle"]
  /\ UNCHANGED <<records, admissionMu, queueWaiters, quota, limit, saving, refreshes>>

\* refreshRemoteSandboxStatus stores the state "destroyed" that a worker
\* reports; it does not call notifySpawnCapacity.
RefreshFindsDestroyed(c) ==
  /\ c \in Remote
  /\ pc[c] = "running"
  /\ records' = records \ {c}
  /\ revived' = revived \ {c}
  /\ pc' = [pc EXCEPT ![c] = "idle"]
  /\ UNCHANGED <<admissionMu, queueWaiters, chan, quota, limit, saving, told>>

\* The worker, where the sandbox runs until it is destroyed, answers another
\* state; no lock is held until the answer is written.
RefreshTold(c) ==
  /\ c \in Remote \ revived
  /\ pc[c] = "running"
  /\ told[c] < MaxTold
  /\ told' = [told EXCEPT ![c] = @ + 1]
  /\ UNCHANGED <<pc, records, admissionMu, queueWaiters, chan, quota, limit, saving, revived>>

\* The answer is written over whatever the record says by now, also over
\* "destroyed", unless it is the state that the refresh had read (or that the
\* cached sandbox, which Destroy marks, still had when the two were compared).
RefreshWrites(c) ==
  /\ told[c] > 0
  /\ told' = [told EXCEPT ![c] = @ - 1]
  /\ \/ /\ c \notin records
        /\ records' = records \cup {c}
        /\ revived' = revived \cup {c}
        /\ pc' = [pc EXCEPT ![c] = IF @ = "idle" THEN "running" ELSE @]
     \/ UNCHANGED <<pc, records, revived>>
  /\ UNCHANGED <<admissionMu, queueWaiters, chan, quota, limit, saving>>

\* SaveOwnerQuota (or DeleteOwnerQuota, q = 0), one at a time.
SaveOwnerQuota(o, q) ==
  /\ ~saving
  /\ quota' = [quota EXCEPT ![o] = q]
  /\ saving' = TRUE
  /\ UNCHANGED <<pc, records, admissionMu, queueWaiters, chan, limit, refreshes>>

\* The notification, unless reading the saved quota back fails.
NotifyQuota ==
  /\ saving
  /\ chan' \in {Notified, chan}
  /\ saving' = FALSE
  /\ UNCHANGED <<pc, records, admissionMu, queueWaiters, quota, limit, refreshes>>

-----------------------------------------------------------------------------
Init ==
  /\ pc = [c \in Calls |-> "idle"]
  /\ records = {}
  /\ admissionMu = NoCall
  /\ queueWaiters = 0
  /\ chan = [c \in Calls |-> "none"]
  /\ quota = [o \in Owners |-> 0]
  /\ limit = [c \in Calls |-> 0]
  /\ saving = FALSE
  /\ told = [c \in Calls |-> 0]
  /\ revived = {}

\* The steps a call in progress takes by itself.
CallStep(c) ==
  \/ EvaluateUnlocked(c) \/ Enqueue(c) \/ Wake(c) \/ Rearm(c) \/ Leave(c)
  \/ Lock(c) \/ Admit(c) \/ Provision(c) \/ Return(c) \/ NotifyDestroyed(c)

Next ==
  \/ \E c \in Calls :
       \/ Spawn(c) \/ CallStep(c) \/ GiveUp(c) \/ Destroy(c)
       \/ RefreshFindsDestroyed(c) \/ RefreshTold(c) \/ RefreshWrites(c)
  \/ \E o \in Owners, q \in QuotaLimits : SaveOwnerQuota(o, q)
  \/ NotifyQuota

Spec == Init /\ [][Next]_vars

\* A goroutine that can run does.  sync.Mutex hands over to a starving waiter
\* and select picks at random among the ready cases, hence strong fairness of
\* Lock and of the timer.  Clients, administrators and workers may do nothing.
Fairness ==
  /\ \A c \in Calls : WF_vars(CallStep(c)) /\ SF_vars(Lock(c)) /\ SF_vars(GiveUp(c))
  /\ WF_vars(NotifyQuota)

FairSpec == Spec /\ Fairness
-----------------------------------------------------------------------------
(* Properties.                                                             *)

\* "Serialized spawn admission checks prevent concurrent over-admission":
\* however the unlocked evaluations interleave, no more sandboxes are admitted
\* and recorded than max_sandboxes allows.  The records that a late status has
\* brought back come on top of that: nobody admits them, and the limit is
\* exceeded by their number until they are destroyed again.
CapacityRespected ==
  MaxSandboxes > 0 => Cardinality(records \ revived) <= MaxSandboxes

\* Whoever's record is new, the owner's records are within the call's limit,
\* not counting those that came back meanwhile.
RecordedWithinLimit ==
  \A c \in Calls :
    /\ c \in (records \ revived)' \ (records \ revived)
    /\ OwnerOf[c] \in Owners
    /\ limit[c] > 0
    => Cardinality((OwnerRecords(OwnerOf[c]) \ revived)') <= limit[c]

\* A sandbox is admitted and recorded only while its owner, this sandbox included,
\* is within the limit the locked evaluation read, even if the quota changes
\* during the provider's spawn; the records a late status brings back are not
\* counted, as in CapacityRespected.
OwnerLimitRespected == [][RecordedWithinLimit]_vars

\* queueWaiters counts exactly the calls inside the queue and is bounded by
\* max_spawn_queue: no exit path of waitForSpawnCapacity leaks its place.
QueueAccounting ==
  /\ queueWaiters = Cardinality({c \in Calls : pc[c] \in Queued})
  /\ queueWaiters <= MaxSpawnQueue

\* Every call that entered the queue leaves it, although notifications may
\* keep waking it and it may keep finding the limits reached.
QueueDrains == \A c \in Calls : pc[c] \in Queued ~> pc[c] \notin Queued

\* A call is held up in the retry loop of acquireSpawnAdmission only by calls
\* that do get through: it returns, or some other call is admitted.
AdmissionProgress ==
  \A c \in Calls :
    pc[c] = "evaluate" ~>
      pc[c] \in {"idle", "running"} \/ \E d \in Calls : pc[d] = "provision"
=============================================================================
