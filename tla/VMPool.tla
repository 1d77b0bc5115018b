------------------------------- MODULE VMPool -------------------------------
(***************************************************************************)
(* Pool mode: logical sandboxes that share virtual machines                *)
(* (internal/orchestrator/vm_pool.go: Acquire, Release; manager.go:        *)
(* spawnPooled, spawnDirect, destroyPooled, Destroy).                      *)
(*                                                                         *)
(* Spawn calls hold admissionMu throughout; Destroy calls hold no lock     *)
(* except p.mu inside Release, and the same sandbox may be destroyed by    *)
(* several calls, one after the other or at once (a client, a retry, the   *)
(* TTL reaper).                                                            *)
(*                                                                         *)
(* A slot of the pool exists exactly while its UserCount is positive       *)
(* (Acquire inserts it with 1, Release deletes it at 0), so the map is     *)
(* modelled by the counts.  Identifiers of VMs nobody refers to are reused.*)
(* prov.Destroy is taken to end the runtime; its error is ignored.         *)
(***************************************************************************)
EXTENDS Integers, FiniteSets

CONSTANTS
  Sandboxes,      \* logical sandbox identifiers
  VMs,            \* runtime identifiers the provider hands out
  Destroyers,     \* concurrent Destroy calls
  None,           \* no VM, no sandbox, mutex free
  MaxVMs,         \* pool.max_vms
  MaxUsers,       \* pool.max_users_per_vm
  MaxSandboxes,   \* limits.max_sandboxes, 0 = unlimited
  VMsExpire       \* Destroy is also called for the record of a pool VM

ASSUME ConstantsAssumption ==
  /\ IsFiniteSet(Sandboxes) /\ IsFiniteSet(VMs)
  /\ None \notin Sandboxes \cup VMs
  /\ Sandboxes \cap VMs = {}
  /\ MaxVMs \in Nat /\ MaxUsers \in Nat \ {0} /\ MaxSandboxes \in Nat
  /\ VMsExpire \in BOOLEAN

VARIABLES
  pc,           \* where the Spawn call of each logical sandbox stands
  vmOf,         \* sb.VMID of each logical sandbox
  admissionMu,  \* the sandbox whose Spawn call holds the admission mutex
  slots,        \* UserCount of each VM's slot, 0 = no slot
  alive,        \* VMs whose runtime the provider keeps
  records,      \* logical sandboxes recorded and not destroyed
  vmRecords,    \* VMs recorded and not destroyed
  dpc,          \* where each Destroy call stands
  target,       \* the sandbox or VM each Destroy call was given
  released,     \* history: sandboxes whose slot a Destroy call released
  disturbed     \* history: VMs released twice for one sandbox, or destroyed by id

spawnVars == <<pc, vmOf, admissionMu>>
destroyVars == <<dpc, target, released, disturbed>>
vars == <<spawnVars, slots, alive, records, vmRecords, destroyVars>>

TypeOK ==
  /\ pc \in [Sandboxes -> {"new", "acquire", "spawnVM", "recordVM", "insert",
                           "mkdir", "persist", "recorded"}]
  /\ vmOf \in [Sandboxes -> VMs \cup {None}]
  /\ admissionMu \in Sandboxes \cup {None}
  /\ slots \in [VMs -> Nat]
  /\ alive \subseteq VMs
  /\ records \subseteq Sandboxes
  /\ vmRecords \subseteq VMs
  /\ dpc \in [Destroyers -> {"idle", "release", "destroyVM", "dropVM", "dropRecord"}]
  /\ target \in [Destroyers -> Sandboxes \cup VMs \cup {None}]
  /\ released \subseteq Sandboxes
  /\ disturbed \subseteq VMs

-----------------------------------------------------------------------------
Slots == {v \in VMs : slots[v] > 0}

\* The sandboxes counted by ListSandboxes: the pool's VMs are sandboxes, too.
Recorded == Cardinality(records) + Cardinality(vmRecords)

\* VM identifiers that nothing refers to any more.
Fresh ==
  {v \in VMs : /\ v \notin alive \cup vmRecords \cup Slots
               /\ \A s \in Sandboxes : vmOf[s] # v
               /\ \A d \in Destroyers : target[d] # v}

\* The VM a Destroy call works on.
TargetVM(d) == IF target[d] \in Sandboxes THEN vmOf[target[d]] ELSE target[d]

AfterReleaseEarly(v) ==
  [slots EXCEPT ![v] = IF @ <= 2 THEN 0 ELSE @ - 1]

\* The effect of VMPoolManager.Release on the counts, and its result.
AfterRelease(v) == [slots EXCEPT ![v] = IF @ = 0 THEN 0 ELSE @ - 1]

ShouldDestroy(v) == slots[v] > 0 /\ AfterRelease(v)[v] = 0

-----------------------------------------------------------------------------
(* spawnPooled.                                                            *)

\* Spawn returns an error: unlock, forget the sandbox identifier.
Fail(s) ==
  /\ pc' = [pc EXCEPT ![s] = "new"]
  /\ vmOf' = [vmOf EXCEPT ![s] = None]
  /\ admissionMu' = None

\* Faulty variants of Admit: pooled spawns are not serialised; the limit is
\* compared with > instead of >=.
AdmitConcurrently(s) ==
  /\ pc[s] = "new"
  /\ MaxSandboxes > 0 => Recorded < MaxSandboxes
  /\ pc' = [pc EXCEPT ![s] = "acquire"]
  /\ UNCHANGED <<vmOf, admissionMu, slots, alive, records, vmRecords, destroyVars>>

AdmitOffByOne(s) ==
  /\ pc[s] = "new"
  /\ admissionMu = None
  /\ MaxSandboxes > 0 => Recorded <= MaxSandboxes
  /\ admissionMu' = s
  /\ pc' = [pc EXCEPT ![s] = "acquire"]
  /\ UNCHANGED <<vmOf, slots, alive, records, vmRecords, destroyVars>>

\* acquireSpawnAdmission returned: SpawnAdmission models how.
Admit(s) ==
  /\ pc[s] = "new"
  /\ admissionMu = None
  /\ MaxSandboxes > 0 => Recorded < MaxSandboxes
  /\ admissionMu' = s
  /\ pc' = [pc EXCEPT ![s] = "acquire"]
  /\ UNCHANGED <<vmOf, slots, alive, records, vmRecords, destroyVars>>

\* Acquire, the part under p.mu: a slot with room (map order, hence any), a new
\* VM if max_vms allows, or ErrVMPoolFull.
Acquire(s) ==
  /\ pc[s] = "acquire"
  /\ \/ \E v \in Slots :
          /\ slots[v] < MaxUsers
          /\ slots' = [slots EXCEPT ![v] = @ + 1]
          /\ vmOf' = [vmOf EXCEPT ![s] = v]
          /\ pc' = [pc EXCEPT ![s] = "mkdir"]
          /\ UNCHANGED admissionMu
     \/ /\ \A v \in Slots : slots[v] >= MaxUsers
        /\ Cardinality(Slots) < MaxVMs
        /\ pc' = [pc EXCEPT ![s] = "spawnVM"]
        /\ UNCHANGED <<vmOf, admissionMu, slots>>
     \/ /\ \A v \in Slots : slots[v] >= MaxUsers
        /\ Cardinality(Slots) >= MaxVMs
        /\ Fail(s)
        /\ UNCHANGED slots
  /\ UNCHANGED <<alive, records, vmRecords, destroyVars>>

\* spawnDirect: the provider starts a VM, or fails.
SpawnVM(s) ==
  /\ pc[s] = "spawnVM"
  /\ \/ \E v \in Fresh :
          /\ alive' = alive \cup {v}
          /\ vmOf' = [vmOf EXCEPT ![s] = v]
          /\ pc' = [pc EXCEPT ![s] = "recordVM"]
          /\ disturbed' = disturbed \ {v}
          /\ UNCHANGED admissionMu
     \/ Fail(s) /\ UNCHANGED <<alive, disturbed>>
  /\ UNCHANGED <<slots, records, vmRecords, dpc, target, released>>

\* spawnDirect: lease and record of the VM, which is destroyed if either fails.
RecordVM(s) ==
  /\ pc[s] = "recordVM"
  /\ \/ /\ vmRecords' = vmRecords \cup {vmOf[s]}
        /\ pc' = [pc EXCEPT ![s] = "insert"]
        /\ UNCHANGED <<vmOf, admissionMu, alive>>
     \/ /\ alive' = alive \ {vmOf[s]}
        /\ Fail(s)
        /\ UNCHANGED vmRecords
  /\ UNCHANGED <<slots, records, destroyVars>>

\* Acquire again: the new VM's slot, with this sandbox as its first user.
InsertSlot(s) ==
  /\ pc[s] = "insert"
  /\ slots' = [slots EXCEPT ![vmOf[s]] = 1]
  /\ pc' = [pc EXCEPT ![s] = "mkdir"]
  /\ UNCHANGED <<vmOf, admissionMu, alive, records, vmRecords, destroyVars>>

\* Faulty variant of FailPooled: the slot is not released.
FailPooledKeepsSlot(s) == Fail(s) /\ UNCHANGED slots

\* A failure after Acquire releases the slot; Release's result is ignored.
FailPooled(s) == Fail(s) /\ slots' = AfterRelease(vmOf[s])

\* The sandbox's lease and its workspace directory on the VM.
MakeWorkspace(s) ==
  /\ pc[s] = "mkdir"
  /\ \/ /\ vmOf[s] \in alive
        /\ pc' = [pc EXCEPT ![s] = "persist"]
        /\ UNCHANGED <<vmOf, admissionMu, slots>>
     \/ FailPooled(s)
  /\ UNCHANGED <<alive, records, vmRecords, destroyVars>>

\* CreateSandbox, then the deferred Unlock.
Persist(s) ==
  /\ pc[s] = "persist"
  /\ \/ /\ records' = records \cup {s}
        /\ pc' = [pc EXCEPT ![s] = "recorded"]
        /\ admissionMu' = None
        /\ UNCHANGED <<vmOf, slots>>
     \/ FailPooled(s) /\ UNCHANGED records
  /\ UNCHANGED <<alive, vmRecords, destroyVars>>

-----------------------------------------------------------------------------
(* Destroy and destroyPooled.                                              *)

\* A row of the store is enough, its state is not looked at.
DestroySandbox(d, s) ==
  /\ dpc[d] = "idle"
  /\ pc[s] = "recorded"
  /\ target' = [target EXCEPT ![d] = s]
  /\ dpc' = [dpc EXCEPT ![d] = "release"]
  /\ UNCHANGED <<spawnVars, slots, alive, records, vmRecords, released, disturbed>>

\* The reaper at the VM's own default TTL, or a client that names the VM: the
\* record has no VMID, so Destroy goes straight to the provider.
DestroyVMByID(d, v) ==
  /\ VMsExpire
  /\ dpc[d] = "idle"
  /\ v \in vmRecords
  /\ target' = [target EXCEPT ![d] = v]
  /\ dpc' = [dpc EXCEPT ![d] = "destroyVM"]
  /\ disturbed' = disturbed \cup {v}
  /\ UNCHANGED <<spawnVars, slots, alive, records, vmRecords, released>>

\* destroyPooled calls Release.
Release(d) ==
  /\ dpc[d] = "release"
  /\ LET v == TargetVM(d) IN
       /\ slots' = AfterRelease(v)
       /\ dpc' = [dpc EXCEPT ![d] = IF ShouldDestroy(v) THEN "destroyVM" ELSE "dropRecord"]
       /\ disturbed' = IF target[d] \in released THEN disturbed \cup {v} ELSE disturbed
  /\ released' = released \cup {target[d]}
  /\ UNCHANGED <<spawnVars, alive, records, vmRecords, target>>

DestroyVM(d) ==
  /\ dpc[d] = "destroyVM"
  /\ alive' = alive \ {TargetVM(d)}
  /\ dpc' = [dpc EXCEPT ![d] = "dropVM"]
  /\ UNCHANGED <<spawnVars, slots, records, vmRecords, target, released, disturbed>>

\* The VM's record; a Destroy of the VM itself ends here.
DropVMRecord(d) ==
  /\ dpc[d] = "dropVM"
  /\ vmRecords' = vmRecords \ {TargetVM(d)}
  /\ IF target[d] \in Sandboxes
       THEN dpc' = [dpc EXCEPT ![d] = "dropRecord"] /\ UNCHANGED target
       ELSE dpc' = [dpc EXCEPT ![d] = "idle"] /\ target' = [target EXCEPT ![d] = None]
  /\ UNCHANGED <<spawnVars, slots, alive, records, released, disturbed>>

DropRecord(d) ==
  /\ dpc[d] = "dropRecord"
  /\ records' = records \ {target[d]}
  /\ dpc' = [dpc EXCEPT ![d] = "idle"]
  /\ target' = [target EXCEPT ![d] = None]
  /\ UNCHANGED <<spawnVars, slots, alive, vmRecords, released, disturbed>>

-----------------------------------------------------------------------------
Init ==
  /\ pc = [s \in Sandboxes |-> "new"]
  /\ vmOf = [s \in Sandboxes |-> None]
  /\ admissionMu = None
  /\ slots = [v \in VMs |-> 0]
  /\ alive = {} /\ records = {} /\ vmRecords = {}
  /\ dpc = [d \in Destroyers |-> "idle"]
  /\ target = [d \in Destroyers |-> None]
  /\ released = {} /\ disturbed = {}

SpawnStep(s) ==
  \/ Admit(s) \/ Acquire(s) \/ SpawnVM(s) \/ RecordVM(s) \/ InsertSlot(s)
  \/ MakeWorkspace(s) \/ Persist(s)

DestroyStep(d) == Release(d) \/ DestroyVM(d) \/ DropVMRecord(d) \/ DropRecord(d)

Next ==
  \/ \E s \in Sandboxes : SpawnStep(s)
  \/ \E d \in Destroyers :
       \/ DestroyStep(d)
       \/ \E s \in Sandboxes : DestroySandbox(d, s)
       \/ \E v \in VMs : DestroyVMByID(d, v)

Spec == Init /\ [][Next]_vars
-----------------------------------------------------------------------------
(* Properties.                                                             *)

\* The sandboxes that a slot of v has to be counting: Acquire succeeded for
\* them and no Destroy has released them.
Holders(v) ==
  {s \in Sandboxes : /\ vmOf[s] = v
                     /\ pc[s] \in {"mkdir", "persist", "recorded"}
                     /\ s \notin released}

\* Although Acquire drops p.mu while it starts a VM, the pool never exceeds
\* max_vms slots, nor a slot max_users_per_vm users.
PoolBounded ==
  /\ Cardinality(Slots) <= MaxVMs
  /\ \A v \in VMs : slots[v] <= MaxUsers

\* No slot counts a user that is gone, whichever call failed or was repeated:
\* a pool VM that its users left can be given up.
NoLeakedUser == \A v \in VMs : slots[v] <= Cardinality(Holders(v))

\* Unless a sandbox of the VM was destroyed twice or the VM was destroyed by
\* its own identifier, the slot counts every user, and the VM of a sandbox in
\* use runs.
UsersKeepTheirVM ==
  \A v \in VMs \ disturbed :
    /\ slots[v] = Cardinality(Holders(v))
    /\ Holders(v) # {} => v \in alive

\* The pool's VMs are recorded as sandboxes after the admission check, so
\* max_sandboxes is exceeded, but by one record at most.
AdmittedWithinOne ==
  MaxSandboxes > 0 => Recorded <= MaxSandboxes + 1
=============================================================================
