---------------------------- MODULE VMPool_proofs ----------------------------
(* Proofs about VMPool, for any sandboxes, VMs, Destroy calls and limits.  *)
EXTENDS VMPool, FiniteSetTheorems, TLAPS

-----------------------------------------------------------------------------
(* The inductive invariant.                                                *)

\* The steps of a Spawn call that holds admissionMu.
Busy == {"acquire", "spawnVM", "recordVM", "insert", "mkdir", "persist"}

Held == \A s \in Sandboxes : pc[s] \in Busy <=> admissionMu = s

\* A call has its VM from SpawnVM or Acquire on.
Placed ==
  \A s \in Sandboxes :
    IF pc[s] \in {"new", "acquire", "spawnVM"} THEN vmOf[s] = None ELSE vmOf[s] \in VMs

\* Destroy works on recorded sandboxes, and on VMs by their own identifier.
Targets ==
  /\ \A s \in released : pc[s] = "recorded"
  /\ \A d \in Destroyers :
       /\ target[d] \in Sandboxes => pc[target[d]] = "recorded"
       /\ target[d] \in VMs => target[d] \in disturbed
       /\ dpc[d] \in {"release", "dropRecord"} => target[d] \in Sandboxes

\* A VM that is not in the pool yet: no slot and no other user, and no Destroy
\* knows of it, except by its own identifier.
Pending ==
  \A s \in Sandboxes :
    pc[s] \in {"recordVM", "insert"} =>
      /\ slots[vmOf[s]] = 0
      /\ \A t \in Sandboxes \ {s} : vmOf[t] # vmOf[s]
      /\ vmOf[s] \notin disturbed => vmOf[s] \in alive

\* A VM that the pool has given up gets no new users.
Emptied ==
  \A d \in Destroyers :
    /\ dpc[d] = "destroyVM" /\ target[d] \in Sandboxes
    /\ vmOf[target[d]] \notin disturbed
    => slots[vmOf[target[d]]] = 0

\* There is room for the VM that is being started.
RoomKept ==
  \A s \in Sandboxes : pc[s] \in {"spawnVM", "recordVM", "insert"} => Cardinality(Slots) < MaxVMs

\* What is left of the limit for the call that was admitted.
Reserved ==
  MaxSandboxes > 0 =>
    \A s \in Sandboxes :
      /\ pc[s] \in {"acquire", "spawnVM", "recordVM"} => Recorded < MaxSandboxes
      /\ pc[s] \in {"insert", "mkdir", "persist"} => Recorded <= MaxSandboxes

Users == Pending /\ Emptied /\ NoLeakedUser /\ UsersKeepTheirVM

IInv ==
  /\ TypeOK /\ Held /\ Placed /\ Targets
  /\ PoolBounded /\ RoomKept
  /\ Users
  /\ Reserved /\ AdmittedWithinOne

-----------------------------------------------------------------------------
(* Finite sets, and what a release does to the counts.                     *)

LEMMA Counts ==
  ASSUME TypeOK
  PROVE  /\ IsFiniteSet(Slots) /\ Cardinality(Slots) \in Nat
         /\ IsFiniteSet(records) /\ Cardinality(records) \in Nat
         /\ IsFiniteSet(vmRecords) /\ Cardinality(vmRecords) \in Nat
         /\ Recorded \in Nat
         /\ \A v : IsFiniteSet(Holders(v)) /\ Cardinality(Holders(v)) \in Nat
<1>1. /\ Slots \in SUBSET VMs /\ vmRecords \in SUBSET VMs
      /\ records \in SUBSET Sandboxes /\ \A v : Holders(v) \in SUBSET Sandboxes
  BY DEF Slots, Holders, TypeOK
<1>2. IsFiniteSet(Sandboxes) /\ IsFiniteSet(VMs)
  BY ConstantsAssumption
<1>3. IsFiniteSet(Slots) /\ IsFiniteSet(vmRecords) /\ IsFiniteSet(records)
  BY <1>1, <1>2, FS_Subset
<1>4. \A v : IsFiniteSet(Holders(v))
  BY <1>1, <1>2, FS_Subset
<1>5. /\ Cardinality(Slots) \in Nat /\ Cardinality(records) \in Nat
      /\ Cardinality(vmRecords) \in Nat /\ \A v : Cardinality(Holders(v)) \in Nat
  BY <1>3, <1>4, FS_CardinalityType
<1> QED BY <1>3, <1>4, <1>5 DEF Recorded

\* A release takes one user away, if there is one.
LEMMA ReleaseFacts ==
  ASSUME TypeOK, NEW v
  PROVE  /\ AfterRelease(v) \in [VMs -> Nat]
         /\ \A w \in VMs : AfterRelease(v)[w] <= slots[w]
         /\ \A w \in VMs : w # v => AfterRelease(v)[w] = slots[w]
         /\ v \in VMs /\ slots[v] > 0 => AfterRelease(v)[v] = slots[v] - 1
         /\ v \in VMs /\ slots[v] = 0 => AfterRelease(v)[v] = 0
<1> DEFINE left == IF slots[v] = 0 THEN 0 ELSE slots[v] - 1
<1>1. AfterRelease(v) = [slots EXCEPT ![v] = left]
  BY DEF AfterRelease
<1>2. slots \in [VMs -> Nat]
  BY DEF TypeOK
<1>3. v \in VMs => left \in Nat /\ left <= slots[v]
  BY <1>2
<1>4. \A w \in VMs : AfterRelease(v)[w] = IF w = v THEN left ELSE slots[w]
  BY <1>1, <1>2
<1>5. AfterRelease(v) \in [VMs -> Nat]
  <2>1. CASE v \in VMs
    BY <1>1, <1>2, <1>3, <2>1
  <2>2. CASE v \notin VMs
    BY <1>1, <1>2, <2>2
  <2> QED BY <2>1, <2>2
<1>6. \A w \in VMs : slots[w] \in Nat
  BY <1>2
<1> QED BY <1>3, <1>4, <1>5, <1>6

\* Counts that do not grow make no slots.
LEMMA SlotsShrink ==
  ASSUME TypeOK, slots' \in [VMs -> Nat], \A w \in VMs : slots'[w] <= slots[w]
  PROVE  Slots' \subseteq Slots /\ Cardinality(Slots') <= Cardinality(Slots)
<1>1. Slots' \subseteq Slots
  BY DEF Slots, TypeOK
<1> QED BY <1>1, Counts, FS_Subset

-----------------------------------------------------------------------------
(* Types, the mutex, and who works on what.                                *)

\* The steps of one call.
LEMMA NextCases ==
  ASSUME Next
  PROVE  \/ \E s \in Sandboxes : Admit(s)
         \/ \E s \in Sandboxes : Acquire(s)
         \/ \E s \in Sandboxes : SpawnVM(s)
         \/ \E s \in Sandboxes : RecordVM(s)
         \/ \E s \in Sandboxes : InsertSlot(s)
         \/ \E s \in Sandboxes : MakeWorkspace(s)
         \/ \E s \in Sandboxes : Persist(s)
         \/ \E d \in Destroyers, s \in Sandboxes : DestroySandbox(d, s)
         \/ \E d \in Destroyers, v \in VMs : DestroyVMByID(d, v)
         \/ \E d \in Destroyers : Release(d)
         \/ \E d \in Destroyers : DestroyVM(d)
         \/ \E d \in Destroyers : DropVMRecord(d)
         \/ \E d \in Destroyers : DropRecord(d)
  BY DEF Next, SpawnStep, DestroyStep

LEMMA TypeKept == ASSUME TypeOK, Placed, Targets, Next PROVE TypeOK'
<1> USE DEF TypeOK
<1>1. ASSUME NEW s \in Sandboxes, Fail(s)
      PROVE  /\ pc' \in [Sandboxes -> {"new", "acquire", "spawnVM", "recordVM", "insert",
                                       "mkdir", "persist", "recorded"}]
             /\ vmOf' \in [Sandboxes -> VMs \cup {None}]
             /\ admissionMu' \in Sandboxes \cup {None}
  BY <1>1 DEF Fail
<1>2. ASSUME NEW s \in Sandboxes, Admit(s) PROVE TypeOK'
  BY <1>2 DEF Admit, destroyVars
<1>3. ASSUME NEW s \in Sandboxes, Acquire(s) PROVE TypeOK'
  <2>1. CASE Fail(s)
    BY <1>1, <1>3, <2>1 DEF Acquire, destroyVars
  <2>2. CASE ~Fail(s)
    BY <1>3, <2>2 DEF Acquire, Slots, destroyVars
  <2> QED BY <2>1, <2>2
<1>4. ASSUME NEW s \in Sandboxes, SpawnVM(s) PROVE TypeOK'
  <2>1. CASE Fail(s)
    BY <1>1, <1>4, <2>1 DEF SpawnVM, Fresh
  <2>2. CASE ~Fail(s)
    BY <1>4, <2>2 DEF SpawnVM, Fresh
  <2> QED BY <2>1, <2>2
<1>5. ASSUME NEW s \in Sandboxes, RecordVM(s) PROVE TypeOK'
  <2>1. vmOf[s] \in VMs
    BY <1>5 DEF RecordVM, Placed
  <2>2. CASE Fail(s)
    BY <1>1, <1>5, <2>1, <2>2 DEF RecordVM, destroyVars
  <2>3. CASE ~Fail(s)
    BY <1>5, <2>1, <2>3 DEF RecordVM, destroyVars
  <2> QED BY <2>2, <2>3
<1>6. ASSUME NEW s \in Sandboxes, InsertSlot(s) PROVE TypeOK'
  BY <1>6 DEF InsertSlot, destroyVars
<1>7. ASSUME NEW s \in Sandboxes, FailPooled(s)
      PROVE  slots' \in [VMs -> Nat] /\ Fail(s)
  BY <1>7, ReleaseFacts DEF FailPooled
<1>8. ASSUME NEW s \in Sandboxes, MakeWorkspace(s) PROVE TypeOK'
  <2>1. CASE FailPooled(s)
    BY <1>1, <1>7, <1>8, <2>1 DEF MakeWorkspace, destroyVars
  <2>2. CASE ~FailPooled(s)
    BY <1>8, <2>2 DEF MakeWorkspace, destroyVars
  <2> QED BY <2>1, <2>2
<1>9. ASSUME NEW s \in Sandboxes, Persist(s) PROVE TypeOK'
  <2>1. CASE FailPooled(s)
    BY <1>1, <1>7, <1>9, <2>1 DEF Persist, destroyVars
  <2>2. CASE ~FailPooled(s)
    BY <1>9, <2>2 DEF Persist, destroyVars
  <2> QED BY <2>1, <2>2
<1>10. ASSUME NEW d \in Destroyers, NEW s \in Sandboxes, DestroySandbox(d, s) PROVE TypeOK'
  BY <1>10 DEF DestroySandbox, spawnVars
<1>11. ASSUME NEW d \in Destroyers, NEW v \in VMs, DestroyVMByID(d, v) PROVE TypeOK'
  BY <1>11 DEF DestroyVMByID, spawnVars
<1>12. ASSUME NEW d \in Destroyers, Release(d) PROVE TypeOK'
  <2>1. target[d] \in Sandboxes /\ TargetVM(d) \in VMs
    BY <1>12 DEF Release, Targets, Placed, TargetVM
  <2>2. slots' \in [VMs -> Nat]
    BY <1>12, ReleaseFacts DEF Release
  <2> QED BY <1>12, <2>1, <2>2 DEF Release, spawnVars
<1>13. ASSUME NEW d \in Destroyers, DestroyVM(d) PROVE TypeOK'
  BY <1>13 DEF DestroyVM, spawnVars
<1>14. ASSUME NEW d \in Destroyers, DropVMRecord(d) PROVE TypeOK'
  BY <1>14 DEF DropVMRecord, spawnVars
<1>15. ASSUME NEW d \in Destroyers, DropRecord(d) PROVE TypeOK'
  BY <1>15 DEF DropRecord, spawnVars
<1> QED BY <1>2, <1>3, <1>4, <1>5, <1>6, <1>8, <1>9, <1>10, <1>11, <1>12, <1>13, <1>14, <1>15,
           NextCases

\* What a step changes of the calls: Spawn calls move one at a time, and only
\* the one that holds admissionMu, or one that is admitted.
LEMMA SpawnMoves ==
  ASSUME TypeOK, Held, NEW s \in Sandboxes, SpawnStep(s)
  PROVE  /\ \A t \in Sandboxes : t # s => pc[t] \notin Busy
         /\ \A t \in Sandboxes : t # s => pc'[t] = pc[t] /\ vmOf'[t] = vmOf[t]
         /\ pc[s] # "recorded" /\ pc'[s] # pc[s]
         /\ admissionMu' = IF pc'[s] \in Busy THEN s ELSE None
         /\ UNCHANGED <<dpc, target, released>>
<1> USE DEF TypeOK, Held, Busy
<1>1. CASE Admit(s)
  BY <1>1, ConstantsAssumption DEF Admit, destroyVars
<1>2. ASSUME Fail(s)
      PROVE  /\ \A t \in Sandboxes : t # s => pc'[t] = pc[t] /\ vmOf'[t] = vmOf[t]
             /\ pc'[s] = "new" /\ admissionMu' = None
  BY <1>2 DEF Fail
<1>3. ASSUME pc[s] \in Busy
      PROVE  admissionMu = s /\ \A t \in Sandboxes : t # s => pc[t] \notin Busy
  BY <1>3
<1>4. CASE Acquire(s)
  BY <1>2, <1>3, <1>4 DEF Acquire, destroyVars
<1>5. CASE SpawnVM(s)
  BY <1>2, <1>3, <1>5 DEF SpawnVM
<1>6. CASE RecordVM(s)
  BY <1>2, <1>3, <1>6 DEF RecordVM, destroyVars
<1>7. CASE InsertSlot(s)
  BY <1>3, <1>7 DEF InsertSlot, destroyVars
<1>8. CASE MakeWorkspace(s)
  BY <1>2, <1>3, <1>8 DEF MakeWorkspace, FailPooled, destroyVars
<1>9. CASE Persist(s)
  BY <1>2, <1>3, <1>9 DEF Persist, FailPooled, destroyVars
<1> QED BY <1>1, <1>4, <1>5, <1>6, <1>7, <1>8, <1>9 DEF SpawnStep

\* Destroy calls leave the Spawn calls alone.
DestroyAny(d) ==
  \/ DestroyStep(d)
  \/ \E s \in Sandboxes : DestroySandbox(d, s)
  \/ \E v \in VMs : DestroyVMByID(d, v)

LEMMA DestroyMoves ==
  ASSUME NEW d \in Destroyers, DestroyAny(d)
  PROVE  UNCHANGED spawnVars
  BY DEF DestroyAny, DestroyStep, Release, DestroyVM, DropVMRecord, DropRecord, DestroySandbox,
         DestroyVMByID

LEMMA HeldKept == ASSUME TypeOK, Held, Next PROVE Held'
<1>1. ASSUME NEW s \in Sandboxes, SpawnStep(s) PROVE Held'
  <2>1. ASSUME NEW t \in Sandboxes PROVE (pc[t] \in Busy <=> admissionMu = t)'
    <3>1. CASE t = s
      BY <1>1, <3>1, SpawnMoves, ConstantsAssumption
    <3>2. CASE t # s
      BY <1>1, <3>2, SpawnMoves, ConstantsAssumption
    <3> QED BY <3>1, <3>2
  <2> QED BY <2>1 DEF Held
<1>2. ASSUME NEW d \in Destroyers, DestroyAny(d) PROVE Held'
  BY <1>2, DestroyMoves DEF Held, spawnVars
<1> QED BY <1>1, <1>2 DEF Next, DestroyAny

LEMMA PlacedKept == ASSUME TypeOK, Held, Placed, Next PROVE Placed'
<1>1. ASSUME NEW s \in Sandboxes, SpawnStep(s) PROVE Placed'
  <2> DEFINE Fine(t) ==
        IF pc[t] \in {"new", "acquire", "spawnVM"} THEN vmOf[t] = None ELSE vmOf[t] \in VMs
  <2>1. ASSUME NEW t \in Sandboxes, t # s PROVE Fine(t)'
    BY <1>1, <2>1, SpawnMoves DEF Placed
  <2>2. Fine(s)
    BY DEF Placed
  <2>3. Fail(s) => Fine(s)'
    BY DEF Fail, TypeOK
  <2>4. ASSUME Admit(s) PROVE Fine(s)'
    BY <2>2, <2>4 DEF Admit, TypeOK
  <2>5. ASSUME Acquire(s) PROVE Fine(s)'
    BY <2>2, <2>3, <2>5 DEF Acquire, Slots, TypeOK
  <2>6. ASSUME SpawnVM(s) PROVE Fine(s)'
    BY <2>2, <2>3, <2>6 DEF SpawnVM, Fresh, TypeOK
  <2>7. ASSUME RecordVM(s) PROVE Fine(s)'
    BY <2>2, <2>3, <2>7 DEF RecordVM, TypeOK
  <2>8. ASSUME InsertSlot(s) PROVE Fine(s)'
    BY <2>2, <2>8 DEF InsertSlot, TypeOK
  <2>9. ASSUME MakeWorkspace(s) PROVE Fine(s)'
    BY <2>2, <2>3, <2>9 DEF MakeWorkspace, FailPooled, TypeOK
  <2>10. ASSUME Persist(s) PROVE Fine(s)'
    BY <2>2, <2>3, <2>10 DEF Persist, FailPooled, TypeOK
  <2>11. Fine(s)'
    BY <1>1, <2>4, <2>5, <2>6, <2>7, <2>8, <2>9, <2>10 DEF SpawnStep
  <2> QED BY <2>1, <2>11 DEF Placed
<1>2. ASSUME NEW d \in Destroyers, DestroyAny(d) PROVE Placed'
  BY <1>2, DestroyMoves DEF Placed, spawnVars
<1> QED BY <1>1, <1>2 DEF Next, DestroyAny

LEMMA TargetsKept == ASSUME TypeOK, Held, Targets, Next PROVE Targets'
<1> USE ConstantsAssumption
<1>1. ASSUME NEW s \in Sandboxes, SpawnStep(s) PROVE Targets'
  <2>1. \A t \in Sandboxes : pc[t] = "recorded" => pc'[t] = "recorded"
    BY <1>1, SpawnMoves
  <2>2. ASSUME NEW d \in Destroyers, target[d] \in VMs, target[d] \in disturbed
        PROVE  target[d] \in disturbed'
    BY <1>1, <2>2 DEF SpawnStep, Admit, Acquire, SpawnVM, RecordVM, InsertSlot, MakeWorkspace,
                      Persist, Fresh, destroyVars
  <2> QED BY <1>1, <2>1, <2>2, SpawnMoves DEF Targets, TypeOK
<1>2. ASSUME NEW d \in Destroyers, DestroyAny(d) PROVE Targets'
  <2>1. UNCHANGED pc
    BY <1>2, DestroyMoves DEF spawnVars
  <2>2. CASE \E s \in Sandboxes : DestroySandbox(d, s)
    BY <2>1, <2>2 DEF DestroySandbox, Targets, TypeOK
  <2>3. CASE \E v \in VMs : DestroyVMByID(d, v)
    BY <2>1, <2>3 DEF DestroyVMByID, Targets, TypeOK
  <2>4. CASE Release(d)
    BY <2>1, <2>4 DEF Release, Targets, TypeOK
  <2>5. CASE DestroyVM(d)
    BY <2>1, <2>5 DEF DestroyVM, Targets, TypeOK
  <2>6. CASE DropVMRecord(d)
    BY <2>1, <2>6 DEF DropVMRecord, Targets, TypeOK
  <2>7. CASE DropRecord(d)
    BY <2>1, <2>7 DEF DropRecord, Targets, TypeOK
  <2> QED BY <1>2, <2>2, <2>3, <2>4, <2>5, <2>6, <2>7 DEF DestroyAny, DestroyStep
<1> QED BY <1>1, <1>2 DEF Next, DestroyAny

-----------------------------------------------------------------------------
(* The pool's limits.                                                      *)

\* Only the holder of admissionMu has a VM being started.
LEMMA RoomFor ==
  ASSUME TypeOK, Held, NEW s \in Sandboxes, SpawnStep(s),
         pc'[s] \in {"spawnVM", "recordVM", "insert"} => Cardinality(Slots') < MaxVMs
  PROVE  RoomKept'
<1>1. \A t \in Sandboxes : t # s => pc'[t] \notin Busy
  BY SpawnMoves
<1> QED BY <1>1 DEF RoomKept, Busy

LEMMA BoundsKept ==
  ASSUME TypeOK, Held, Placed, Targets, PoolBounded, RoomKept, Next
  PROVE  PoolBounded' /\ RoomKept'
<1> USE ConstantsAssumption
<1>1. TypeOK'
  BY TypeKept
<1>2. Cardinality(Slots) \in Nat /\ \A v \in VMs : slots[v] \in Nat
  BY Counts DEF TypeOK
<1>3. ASSUME \A w \in VMs : slots'[w] <= slots[w]
      PROVE  PoolBounded' /\ Cardinality(Slots') <= Cardinality(Slots) /\ Cardinality(Slots') \in Nat
  <2>1. Cardinality(Slots') <= Cardinality(Slots)
    BY <1>1, <1>3, SlotsShrink DEF TypeOK
  <2>2. Cardinality(Slots') \in Nat
    <3>1. IsFiniteSet(Slots) /\ Slots' \in SUBSET Slots
      BY <1>1, <1>3, SlotsShrink, Counts DEF TypeOK
    <3> QED BY <3>1, FS_Subset, FS_CardinalityType
  <2>3. \A w \in VMs : slots'[w] \in Nat
    BY <1>1 DEF TypeOK
  <2> QED BY <1>2, <1>3, <2>1, <2>2, <2>3 DEF PoolBounded
<1>4. ASSUME UNCHANGED slots PROVE PoolBounded' /\ Cardinality(Slots') = Cardinality(Slots)
  BY <1>4 DEF PoolBounded, Slots
<1>5. ASSUME NEW s \in Sandboxes, FailPooled(s), SpawnStep(s) PROVE PoolBounded' /\ RoomKept'
  <2>1. \A w \in VMs : slots'[w] <= slots[w]
    BY <1>5, ReleaseFacts DEF FailPooled
  <2>2. pc'[s] = "new"
    BY <1>5 DEF FailPooled, Fail, TypeOK
  <2> QED BY <1>3, <1>5, <2>1, <2>2, RoomFor
<1>6. ASSUME NEW s \in Sandboxes, SpawnStep(s), UNCHANGED slots,
             pc'[s] \in {"spawnVM", "recordVM", "insert"} => Cardinality(Slots) < MaxVMs
      PROVE  PoolBounded' /\ RoomKept'
  BY <1>4, <1>6, RoomFor
<1>7. ASSUME NEW s \in Sandboxes, Admit(s) PROVE PoolBounded' /\ RoomKept'
  <2>1. SpawnStep(s) /\ UNCHANGED slots /\ pc'[s] = "acquire"
    BY <1>7 DEF SpawnStep, Admit, TypeOK
  <2> QED BY <1>6, <2>1
<1>8. ASSUME NEW s \in Sandboxes, Acquire(s) PROVE PoolBounded' /\ RoomKept'
  <2>1. SpawnStep(s)
    BY <1>8 DEF SpawnStep
  <2>2. ASSUME NEW v \in Slots, slots[v] < MaxUsers, slots' = [slots EXCEPT ![v] = @ + 1],
               pc' = [pc EXCEPT ![s] = "mkdir"]
        PROVE  PoolBounded' /\ RoomKept'
    <3>1. v \in VMs /\ slots[v] > 0 /\ slots \in [VMs -> Nat]
      BY <2>2 DEF Slots, TypeOK
    <3>2. \A w \in VMs : slots'[w] = IF w = v THEN slots[v] + 1 ELSE slots[w]
      BY <2>2, <3>1
    <3>3. Slots' = Slots
      BY <3>1, <3>2 DEF Slots
    <3>4. \A w \in VMs : slots'[w] <= MaxUsers
      BY <1>2, <2>2, <3>2 DEF PoolBounded
    <3>5. pc'[s] = "mkdir"
      BY <2>2 DEF TypeOK
    <3> QED BY <2>1, <3>3, <3>4, <3>5, RoomFor DEF PoolBounded
  <2>3. ASSUME Cardinality(Slots) < MaxVMs, UNCHANGED slots PROVE PoolBounded' /\ RoomKept'
    BY <1>6, <2>1, <2>3
  <2>4. ASSUME Fail(s), UNCHANGED slots PROVE PoolBounded' /\ RoomKept'
    <3>1. pc'[s] = "new"
      BY <2>4 DEF Fail, TypeOK
    <3> QED BY <1>6, <2>1, <2>4, <3>1
  <2> QED BY <1>8, <2>2, <2>3, <2>4 DEF Acquire
<1>9. ASSUME NEW s \in Sandboxes, SpawnVM(s) \/ RecordVM(s) PROVE PoolBounded' /\ RoomKept'
  <2>1. SpawnStep(s) /\ UNCHANGED slots
    BY <1>9 DEF SpawnStep, SpawnVM, RecordVM
  <2>2. Cardinality(Slots) < MaxVMs
    BY <1>9 DEF SpawnVM, RecordVM, RoomKept
  <2> QED BY <1>6, <2>1, <2>2
<1>10. ASSUME NEW s \in Sandboxes, InsertSlot(s) PROVE PoolBounded' /\ RoomKept'
  <2> DEFINE v == vmOf[s]
  <2>1. SpawnStep(s) /\ pc'[s] = "mkdir"
    BY <1>10 DEF SpawnStep, InsertSlot, TypeOK
  <2>2. v \in VMs /\ slots \in [VMs -> Nat] /\ slots' = [slots EXCEPT ![v] = 1]
    BY <1>10 DEF InsertSlot, Placed, TypeOK
  <2> HIDE DEF v
  <2>3. \A w \in VMs : slots'[w] = IF w = v THEN 1 ELSE slots[w]
    BY <2>2
  <2>4. Slots' = Slots \cup {v}
    BY <2>2, <2>3 DEF Slots
  <2>5. Cardinality(Slots') <= Cardinality(Slots) + 1
    <3>1. /\ IsFiniteSet(Slots)
          /\ Cardinality(Slots \cup {v}) = IF v \in Slots THEN Cardinality(Slots)
                                          ELSE Cardinality(Slots) + 1
      BY Counts, FS_AddElement
    <3> QED BY <1>2, <2>4, <3>1
  <2>6. Cardinality(Slots) < MaxVMs
    BY <1>10 DEF InsertSlot, RoomKept
  <2>7. Cardinality(Slots') \in Nat
    BY <1>1, <2>4, Counts, FS_AddElement, FS_CardinalityType
  <2>8. Cardinality(Slots') <= MaxVMs
    BY <1>2, <2>5, <2>6, <2>7
  <2>9. \A w \in VMs : slots'[w] <= MaxUsers
    BY <2>3 DEF PoolBounded
  <2> QED BY <2>1, <2>8, <2>9, RoomFor DEF PoolBounded
<1>11. ASSUME NEW s \in Sandboxes, MakeWorkspace(s) \/ Persist(s) PROVE PoolBounded' /\ RoomKept'
  <2>1. SpawnStep(s)
    BY <1>11 DEF SpawnStep
  <2>2. CASE FailPooled(s)
    BY <1>5, <2>1, <2>2
  <2>3. CASE ~FailPooled(s)
    <3>1. UNCHANGED slots /\ pc'[s] \in {"persist", "recorded"}
      BY <1>11, <2>3 DEF MakeWorkspace, Persist, TypeOK
    <3> QED BY <1>6, <2>1, <3>1
  <2> QED BY <2>2, <2>3
<1>12. ASSUME NEW d \in Destroyers, DestroyAny(d) PROVE PoolBounded' /\ RoomKept'
  <2>1. UNCHANGED pc
    BY <1>12, DestroyMoves DEF spawnVars
  <2>2. CASE Release(d)
    <3>1. \A w \in VMs : slots'[w] <= slots[w]
      BY <2>2, ReleaseFacts DEF Release
    <3>2. PoolBounded' /\ Cardinality(Slots') <= Cardinality(Slots) /\ Cardinality(Slots') \in Nat
      BY <1>3, <3>1
    <3> QED BY <1>2, <2>1, <3>2 DEF RoomKept
  <2>3. CASE ~Release(d)
    <3>1. UNCHANGED slots
      BY <1>12, <2>3 DEF DestroyAny, DestroyStep, DestroyVM, DropVMRecord, DropRecord,
                         DestroySandbox, DestroyVMByID
    <3> QED BY <1>4, <2>1, <3>1 DEF RoomKept
  <2> QED BY <2>2, <2>3
<1> QED BY <1>7, <1>8, <1>9, <1>10, <1>11, <1>12 DEF Next, SpawnStep, DestroyAny

-----------------------------------------------------------------------------
(* Users.                                                                  *)

Holding == {"mkdir", "persist", "recorded"}

\* Who holds a VM depends on its calls, and on what was released.
LEMMA SameHolders ==
  ASSUME NEW s \in Sandboxes,
         \A t \in Sandboxes : t # s => pc'[t] = pc[t] /\ vmOf'[t] = vmOf[t],
         \/ pc[s] \notin Holding /\ pc'[s] \notin Holding
         \/ pc[s] \in Holding /\ pc'[s] \in Holding /\ vmOf'[s] = vmOf[s],
         UNCHANGED released
  PROVE  \A w : Holders(w)' = Holders(w)
  BY DEF Holders, Holding

\* s becomes a user of v.
LEMMA HolderJoins ==
  ASSUME TypeOK, NEW s \in Sandboxes, NEW v,
         \A t \in Sandboxes : t # s => pc'[t] = pc[t] /\ vmOf'[t] = vmOf[t],
         pc[s] \notin Holding, pc'[s] \in Holding, vmOf'[s] = v, s \notin released,
         UNCHANGED released
  PROVE  /\ \A w : w # v => Holders(w)' = Holders(w)
         /\ Cardinality(Holders(v)') = Cardinality(Holders(v)) + 1
<1>1. Holders(v)' = Holders(v) \cup {s} /\ s \notin Holders(v)
  BY DEF Holders, Holding
<1>2. \A w : w # v => Holders(w)' = Holders(w)
  BY DEF Holders, Holding
<1>3. IsFiniteSet(Holders(v))
  BY Counts
<1> QED BY <1>1, <1>2, <1>3, FS_AddElement

\* What is left when s stops being a user of v.
LEMMA HolderLeaves ==
  ASSUME TypeOK, NEW s, NEW v, s \in Holders(v), Holders(v)' = Holders(v) \ {s}
  PROVE  /\ Cardinality(Holders(v)') = Cardinality(Holders(v)) - 1
         /\ Cardinality(Holders(v)) > 0
<1>1. IsFiniteSet(Holders(v)) /\ Cardinality(Holders(v)) \in Nat /\ Holders(v) # {}
  BY Counts
<1>2. Cardinality(Holders(v)) # 0
  BY <1>1, FS_EmptySet
<1> QED BY <1>1, <1>2, FS_RemoveElement

\* What the lemmas on single steps start from.
Before == TypeOK /\ Held /\ Placed /\ Targets /\ Users

\* A Spawn call is the only one to be starting a VM, and Destroy calls work on
\* other sandboxes.
LEMMA SpawnContext ==
  ASSUME Before, NEW s \in Sandboxes, SpawnStep(s)
  PROVE  /\ pc'[s] \in {"recordVM", "insert"} \/ Pending'
         /\ s \notin released
         /\ \A d \in Destroyers : target[d] # s
         /\ \A t \in Sandboxes : t # s => pc'[t] = pc[t] /\ vmOf'[t] = vmOf[t]
         /\ UNCHANGED <<dpc, target, released>>
<1>1. /\ \A t \in Sandboxes : t # s => pc'[t] \notin Busy
      /\ \A t \in Sandboxes : t # s => pc'[t] = pc[t] /\ vmOf'[t] = vmOf[t]
      /\ pc[s] # "recorded" /\ UNCHANGED <<dpc, target, released>>
  BY SpawnMoves DEF Before
<1>2. pc'[s] \notin {"recordVM", "insert"} => Pending'
  BY <1>1 DEF Pending, Busy
<1> QED BY <1>1, <1>2 DEF Before, Targets

\* Nothing about the users of the VMs has changed.
LEMMA SteadyUsers ==
  ASSUME NoLeakedUser, UsersKeepTheirVM, UNCHANGED <<slots, alive>>, disturbed \subseteq disturbed',
         \A w : Holders(w)' = Holders(w)
  PROVE  NoLeakedUser' /\ UsersKeepTheirVM'
  BY DEF NoLeakedUser, UsersKeepTheirVM

\* A VM without users has none to lose.
LEMMA NoUsers ==
  ASSUME TypeOK, NEW v
  PROVE  Holders(v) = {} <=> Cardinality(Holders(v)) = 0
  BY Counts, FS_EmptySet

\* The steps of a Spawn call that change no slot and no runtime.
LEMMA UsersSteadySpawn ==
  ASSUME Before, NEW s \in Sandboxes, SpawnStep(s), UNCHANGED <<slots, alive, disturbed>>,
         pc'[s] \notin {"recordVM", "insert"},
         \/ pc[s] \notin Holding /\ pc'[s] \notin Holding
         \/ pc[s] \in Holding /\ pc'[s] \in Holding /\ vmOf'[s] = vmOf[s]
  PROVE  Users'
<1>1. Pending' /\ \A w : Holders(w)' = Holders(w)
  BY SpawnContext, SameHolders
<1>2. Emptied'
  BY SpawnContext DEF Before, Users, Emptied
<1> QED BY <1>1, <1>2, SteadyUsers DEF Before, Users

LEMMA UsersAcquire ==
  ASSUME Before, NEW s \in Sandboxes, Acquire(s)
  PROVE  Users'
<1>1. SpawnStep(s) /\ pc[s] = "acquire" /\ UNCHANGED <<alive, disturbed>>
  BY DEF SpawnStep, Acquire, destroyVars
<1>2. ASSUME UNCHANGED slots, pc'[s] \in {"spawnVM", "new"} PROVE Users'
  BY <1>1, <1>2, UsersSteadySpawn DEF Holding
<1>3. ASSUME NEW v \in Slots, slots' = [slots EXCEPT ![v] = @ + 1],
             vmOf' = [vmOf EXCEPT ![s] = v], pc' = [pc EXCEPT ![s] = "mkdir"]
      PROVE  Users'
  <2>1. v \in VMs /\ slots[v] > 0 /\ slots \in [VMs -> Nat]
    BY DEF Slots, Before, TypeOK
  <2>2. \A w \in VMs : slots'[w] = IF w = v THEN slots[v] + 1 ELSE slots[w]
    BY <1>3, <2>1
  <2>3. pc'[s] = "mkdir" /\ vmOf'[s] = v
    BY <1>3 DEF Before, TypeOK
  <2>4. Pending'
    BY <1>1, <2>3, SpawnContext
  <2>5. /\ \A w : w # v => Holders(w)' = Holders(w)
        /\ Cardinality(Holders(v)') = Cardinality(Holders(v)) + 1
    BY <1>1, <2>3, SpawnContext, HolderJoins DEF Holding, Before
  <2>6. Emptied'
    <3>1. ASSUME NEW d \in Destroyers, dpc'[d] = "destroyVM", target'[d] \in Sandboxes,
                 vmOf'[target'[d]] \notin disturbed'
          PROVE  slots'[vmOf'[target'[d]]] = 0
      <4>1. vmOf'[target'[d]] = vmOf[target[d]] /\ target'[d] = target[d] /\ dpc'[d] = dpc[d]
        BY <1>1, <3>1, SpawnContext
      <4>2. slots[vmOf[target[d]]] = 0
        BY <1>1, <3>1, <4>1 DEF Before, Users, Emptied
      <4>3. vmOf[target[d]] # v
        BY <2>1, <4>2
      <4> QED BY <1>3, <4>1, <4>2, <4>3
    <3> QED BY <3>1 DEF Emptied
  <2>7. NoLeakedUser'
    <3>1. \A w \in VMs : slots[w] <= Cardinality(Holders(w)) /\ slots[w] \in Nat
      BY <2>1 DEF Before, Users, NoLeakedUser
    <3>2. Cardinality(Holders(v)) \in Nat
      BY Counts DEF Before
    <3> QED BY <2>1, <2>2, <2>5, <3>1, <3>2 DEF NoLeakedUser
  <2>8. UsersKeepTheirVM'
    <3>1. ASSUME v \notin disturbed PROVE v \in alive /\ slots[v] = Cardinality(Holders(v))
      <4>1. slots[v] = Cardinality(Holders(v))
        BY <2>1, <3>1 DEF Before, Users, UsersKeepTheirVM
      <4>2. Holders(v) # {}
        BY <2>1, <4>1, NoUsers DEF Before
      <4> QED BY <2>1, <3>1, <4>1, <4>2 DEF Before, Users, UsersKeepTheirVM
    <3> QED BY <1>1, <2>1, <2>2, <2>5, <3>1 DEF Before, Users, UsersKeepTheirVM
  <2> QED BY <2>4, <2>6, <2>7, <2>8 DEF Users
<1>4. Fail(s) => pc'[s] = "new"
  BY DEF Fail, Before, TypeOK
<1>5. pc' = [pc EXCEPT ![s] = "spawnVM"] => pc'[s] = "spawnVM"
  BY DEF Before, TypeOK
<1> QED BY <1>2, <1>3, <1>4, <1>5 DEF Acquire

LEMMA UsersSpawnVM ==
  ASSUME Before, NEW s \in Sandboxes, SpawnVM(s)
  PROVE  Users'
<1>1. SpawnStep(s) /\ pc[s] = "spawnVM" /\ UNCHANGED slots
  BY DEF SpawnStep, SpawnVM
<1>2. ASSUME Fail(s), UNCHANGED <<alive, disturbed>> PROVE Users'
  <2>1. pc'[s] = "new"
    BY <1>2 DEF Fail, Before, TypeOK
  <2> QED BY <1>1, <1>2, <2>1, UsersSteadySpawn DEF Holding
<1>3. ASSUME NEW v \in Fresh, alive' = alive \cup {v}, vmOf' = [vmOf EXCEPT ![s] = v],
             pc' = [pc EXCEPT ![s] = "recordVM"], disturbed' = disturbed \ {v}
      PROVE  Users'
  <2>1. pc'[s] = "recordVM" /\ vmOf'[s] = v
    BY <1>3 DEF Before, TypeOK
  <2>2. v \in VMs /\ slots[v] = 0 /\ \A t \in Sandboxes : vmOf[t] # v
    BY DEF Fresh, Slots, Before, TypeOK
  <2>3. \A w : Holders(w)' = Holders(w)
    BY <1>1, <2>1, SpawnContext, SameHolders DEF Holding
  <2>4. Pending'
    <3>1. \A t \in Sandboxes : t # s => pc'[t] \notin {"recordVM", "insert"}
      BY <1>1, SpawnMoves DEF Before, Busy
    <3> QED BY <1>1, <1>3, <2>1, <2>2, <3>1, SpawnContext DEF Pending
  <2>5. Emptied'
    BY <1>1, <1>3, <2>2, SpawnContext DEF Before, Users, Emptied
  <2>6. NoLeakedUser'
    BY <1>1, <2>3 DEF Before, Users, NoLeakedUser
  <2>7. Holders(v) = {} /\ Cardinality(Holders(v)) = 0
    <3>1. Holders(v) = {}
      BY <2>2 DEF Holders
    <3> QED BY <3>1, NoUsers DEF Before
  <2>8. UsersKeepTheirVM'
    BY <1>1, <1>3, <2>2, <2>3, <2>7 DEF Before, Users, UsersKeepTheirVM
  <2> QED BY <2>4, <2>5, <2>6, <2>8 DEF Users
<1> QED BY <1>2, <1>3 DEF SpawnVM

LEMMA UsersRecordVM ==
  ASSUME Before, NEW s \in Sandboxes, RecordVM(s)
  PROVE  Users'
<1>1. SpawnStep(s) /\ pc[s] = "recordVM" /\ UNCHANGED <<slots, disturbed>>
  BY DEF SpawnStep, RecordVM, destroyVars
<1>2. Emptied'
  BY <1>1, SpawnContext DEF Before, Users, Emptied
<1>3. ASSUME pc' = [pc EXCEPT ![s] = "insert"], UNCHANGED <<vmOf, alive>> PROVE Users'
  <2>1. pc'[s] = "insert"
    BY <1>3 DEF Before, TypeOK
  <2>2. \A w : Holders(w)' = Holders(w)
    BY <1>1, <2>1, SpawnContext, SameHolders DEF Holding
  <2>3. Pending'
    <3>1. \A t \in Sandboxes : t # s => pc'[t] \notin {"recordVM", "insert"}
      BY <1>1, SpawnMoves DEF Before, Busy
    <3> QED BY <1>1, <1>3, <3>1 DEF Before, Users, Pending
  <2> QED BY <1>1, <1>2, <1>3, <2>2, <2>3, SteadyUsers DEF Before, Users
<1>4. ASSUME Fail(s), alive' = alive \ {vmOf[s]} PROVE Users'
  <2>1. pc'[s] = "new"
    BY <1>4 DEF Fail, Before, TypeOK
  <2>2. Pending' /\ \A w : Holders(w)' = Holders(w)
    BY <1>1, <2>1, SpawnContext, SameHolders DEF Holding
  <2>3. Holders(vmOf[s]) = {}
    BY <1>1 DEF Before, Users, Pending, Holders
  <2>4. NoLeakedUser'
    BY <1>1, <2>2 DEF Before, Users, NoLeakedUser
  <2>5. UsersKeepTheirVM'
    BY <1>1, <1>4, <2>2, <2>3 DEF Before, Users, UsersKeepTheirVM
  <2> QED BY <1>2, <2>2, <2>4, <2>5 DEF Users
<1> QED BY <1>3, <1>4 DEF RecordVM

LEMMA UsersInsertSlot ==
  ASSUME Before, NEW s \in Sandboxes, InsertSlot(s)
  PROVE  Users'
<1>0. PICK v : v = vmOf[s]
  OBVIOUS
<1>1. /\ SpawnStep(s) /\ pc[s] = "insert" /\ UNCHANGED <<vmOf, alive, disturbed>>
      /\ slots' = [slots EXCEPT ![v] = 1]
  BY <1>0 DEF SpawnStep, InsertSlot, destroyVars
<1>2. pc'[s] = "mkdir"
  BY DEF InsertSlot, Before, TypeOK
<1>3. /\ v \in VMs /\ slots[v] = 0 /\ \A t \in Sandboxes \ {s} : vmOf[t] # v
      /\ v \notin disturbed => v \in alive
  BY <1>0, <1>1 DEF Before, Placed, Users, Pending
<1>4. vmOf'[s] = v
  BY <1>0, <1>1
<1>5. \A w \in VMs : slots'[w] = IF w = v THEN 1 ELSE slots[w]
  BY <1>1, <1>3 DEF Before, TypeOK
<1>6. Holders(v) = {} /\ Cardinality(Holders(v)) = 0
  <2>1. Holders(v) = {}
    BY <1>0, <1>1, <1>3 DEF Holders
  <2> QED BY <2>1, NoUsers DEF Before
<1>7. /\ \A w : w # v => Holders(w)' = Holders(w)
      /\ Cardinality(Holders(v)') = 1
  <2>1. Cardinality(Holders(v)') = Cardinality(Holders(v)) + 1
    BY <1>1, <1>2, <1>4, SpawnContext, HolderJoins DEF Holding, Before
  <2>2. \A w : w # v => Holders(w)' = Holders(w)
    BY <1>1, <1>2, <1>4, SpawnContext, HolderJoins DEF Holding, Before
  <2> QED BY <1>6, <2>1, <2>2
<1>8. Pending'
  BY <1>1, <1>2, SpawnContext
<1>9. Emptied'
  <2>1. ASSUME NEW d \in Destroyers, dpc'[d] = "destroyVM", target'[d] \in Sandboxes,
               vmOf'[target'[d]] \notin disturbed'
        PROVE  slots'[vmOf'[target'[d]]] = 0
    <3>1. /\ vmOf'[target'[d]] = vmOf[target[d]] /\ target'[d] = target[d] /\ dpc'[d] = dpc[d]
          /\ target[d] # s
      BY <1>1, <2>1, SpawnContext
    <3>2. slots[vmOf[target[d]]] = 0 /\ vmOf[target[d]] # v
      BY <1>1, <1>3, <2>1, <3>1 DEF Before, Users, Emptied
    <3> QED BY <1>1, <3>1, <3>2
  <2> QED BY <2>1 DEF Emptied
<1>10. NoLeakedUser'
  BY <1>3, <1>5, <1>7 DEF Before, Users, NoLeakedUser
<1>11. UsersKeepTheirVM'
  BY <1>1, <1>3, <1>5, <1>7 DEF Before, Users, UsersKeepTheirVM
<1> QED BY <1>8, <1>9, <1>10, <1>11 DEF Users

\* A user of v stops being one, and v is released.
LEMMA CountsAfterLeaving ==
  ASSUME Before, NEW s, NEW v \in VMs, s \in Holders(v), slots' = AfterRelease(v),
         Holders(v)' = Holders(v) \ {s}, \A w : w # v => Holders(w)' = Holders(w),
         UNCHANGED <<alive, disturbed>>
  PROVE  NoLeakedUser' /\ UsersKeepTheirVM'
<1>1. /\ \A w \in VMs : w # v => slots'[w] = slots[w]
      /\ slots[v] > 0 => slots'[v] = slots[v] - 1
      /\ slots[v] = 0 => slots'[v] = 0
      /\ slots[v] \in Nat
  BY ReleaseFacts DEF Before, TypeOK
<1>2. PICK n \in Nat : n = Cardinality(Holders(v))
  BY Counts DEF Before
<1>3. n > 0 /\ Cardinality(Holders(v)') = n - 1
  BY <1>2, HolderLeaves DEF Before
<1>4. slots[v] <= n /\ (v \notin disturbed => slots[v] = n)
  BY <1>2 DEF Before, Users, NoLeakedUser, UsersKeepTheirVM
<1>5. slots'[v] <= n - 1 /\ (v \notin disturbed => slots'[v] = n - 1)
  BY <1>1, <1>3, <1>4
<1>6. NoLeakedUser'
  BY <1>1, <1>3, <1>5 DEF Before, Users, NoLeakedUser
<1>7. UsersKeepTheirVM'
  BY <1>1, <1>3, <1>5 DEF Before, Users, UsersKeepTheirVM
<1> QED BY <1>6, <1>7

\* The release of one user leaves the VMs without one alone.
LEMMA ZeroStays ==
  ASSUME TypeOK, NEW v, NEW w \in VMs, slots' = AfterRelease(v), slots[w] = 0
  PROVE  slots'[w] = 0
<1>1. slots'[w] <= slots[w] /\ slots'[w] \in Nat
  BY ReleaseFacts
<1> QED BY <1>1

LEMMA UsersPooled ==
  ASSUME Before, NEW s \in Sandboxes, MakeWorkspace(s) \/ Persist(s)
  PROVE  Users'
<1>1. SpawnStep(s) /\ pc[s] \in {"mkdir", "persist"} /\ UNCHANGED <<alive, disturbed>>
  BY DEF SpawnStep, MakeWorkspace, Persist, destroyVars
<1>2. ASSUME ~FailPooled(s) PROVE Users'
  <2>1. UNCHANGED <<slots, vmOf>> /\ pc'[s] \in {"persist", "recorded"}
    BY <1>2 DEF MakeWorkspace, Persist, Before, TypeOK
  <2> QED BY <1>1, <2>1, UsersSteadySpawn DEF Holding
<1>3. ASSUME FailPooled(s) PROVE Users'
  <2>1. PICK v \in VMs : v = vmOf[s]
    BY <1>1 DEF Before, Placed
  <2>2. slots' = AfterRelease(v) /\ pc'[s] = "new"
    BY <1>3, <2>1 DEF FailPooled, Fail, Before, TypeOK
  <2>3. s \in Holders(v)
    BY <1>1, <2>1, SpawnContext DEF Holders
  <2>4. Holders(v)' = Holders(v) \ {s} /\ \A w : w # v => Holders(w)' = Holders(w)
    BY <1>1, <2>1, <2>2, SpawnContext DEF Holders
  <2>5. NoLeakedUser' /\ UsersKeepTheirVM'
    BY <1>1, <2>2, <2>3, <2>4, CountsAfterLeaving
  <2>6. Pending'
    BY <1>1, <2>2, SpawnContext
  <2>7. ASSUME NEW d \in Destroyers, dpc'[d] = "destroyVM", target'[d] \in Sandboxes,
               vmOf'[target'[d]] \notin disturbed'
        PROVE  slots'[vmOf'[target'[d]]] = 0
    <3>1. /\ vmOf'[target'[d]] = vmOf[target[d]] /\ target'[d] = target[d] /\ dpc'[d] = dpc[d]
      BY <1>1, <2>7, SpawnContext
    <3>2. slots[vmOf[target[d]]] = 0 /\ vmOf[target[d]] \in VMs
      BY <1>1, <2>7, <3>1 DEF Before, Users, Emptied, Targets, Placed
    <3> QED BY <2>2, <3>1, <3>2, ZeroStays DEF Before
  <2>8. Emptied'
    BY <2>7 DEF Emptied
  <2> QED BY <2>5, <2>6, <2>8 DEF Users
<1> QED BY <1>2, <1>3

LEMMA UsersRelease ==
  ASSUME Before, NEW d \in Destroyers, Release(d)
  PROVE  Users'
<1>1. PICK t \in Sandboxes : t = target[d] /\ pc[t] = "recorded"
  BY DEF Release, Before, Targets
<1>2. PICK v \in VMs : v = vmOf[t]
  BY <1>1 DEF Before, Placed
<1>3. /\ slots' = AfterRelease(v) /\ released' = released \cup {t}
      /\ dpc' = [dpc EXCEPT ![d] = IF ShouldDestroy(v) THEN "destroyVM" ELSE "dropRecord"]
      /\ disturbed' = IF t \in released THEN disturbed \cup {v} ELSE disturbed
      /\ UNCHANGED <<pc, vmOf, alive, target>>
  BY <1>1, <1>2 DEF Release, TargetVM, spawnVars
<1>4. Pending'
  <2>1. ASSUME NEW s \in Sandboxes, pc[s] \in {"recordVM", "insert"}
        PROVE  slots'[vmOf[s]] = 0
    BY <1>3, <2>1, ZeroStays DEF Before, Users, Pending, Placed
  <2> QED BY <1>3, <2>1 DEF Before, Users, Pending
<1>5. Emptied'
  <2>1. ASSUME NEW e \in Destroyers, dpc'[e] = "destroyVM", target[e] \in Sandboxes,
               vmOf[target[e]] \notin disturbed'
        PROVE  slots'[vmOf[target[e]]] = 0
    <3>1. CASE e = d
      <4>1. ShouldDestroy(v)
        BY <1>3, <2>1, <3>1 DEF Before, TypeOK
      <4> QED BY <1>1, <1>2, <1>3, <3>1, <4>1 DEF ShouldDestroy
    <3>2. CASE e # d
      <4>1. dpc[e] = "destroyVM" /\ vmOf[target[e]] \notin disturbed
        BY <1>3, <2>1, <3>2
      <4>2. slots[vmOf[target[e]]] = 0 /\ vmOf[target[e]] \in VMs
        BY <2>1, <4>1 DEF Before, Users, Emptied, Targets, Placed
      <4> QED BY <1>3, <4>2, ZeroStays DEF Before
    <3> QED BY <3>1, <3>2
  <2> QED BY <1>3, <2>1 DEF Emptied
<1>6. CASE t \notin released
  <2>1. t \in Holders(v)
    BY <1>1, <1>2, <1>6 DEF Holders
  <2>2. Holders(v)' = Holders(v) \ {t} /\ \A w : w # v => Holders(w)' = Holders(w)
    BY <1>2, <1>3 DEF Holders
  <2>3. NoLeakedUser' /\ UsersKeepTheirVM'
    BY <1>3, <1>6, <2>1, <2>2, CountsAfterLeaving
  <2> QED BY <1>4, <1>5, <2>3 DEF Users
<1>7. CASE t \in released
  <2>1. \A w : Holders(w)' = Holders(w)
    BY <1>3, <1>7 DEF Holders
  <2>2. NoLeakedUser'
    <3>1. ASSUME NEW w \in VMs PROVE slots'[w] <= Cardinality(Holders(w))
      <4>1. /\ slots'[w] <= slots[w] /\ slots'[w] \in Nat /\ slots[w] \in Nat
            /\ slots[w] <= Cardinality(Holders(w)) /\ Cardinality(Holders(w)) \in Nat
        BY <1>3, ReleaseFacts, Counts DEF Before, TypeOK, Users, NoLeakedUser
      <4> QED BY <4>1
    <3> QED BY <2>1, <3>1 DEF NoLeakedUser
  <2>3. UsersKeepTheirVM'
    <3>1. ASSUME NEW w \in VMs, w \notin disturbed' PROVE w \notin disturbed /\ slots'[w] = slots[w]
      BY <1>3, <1>7, <3>1, ReleaseFacts DEF Before
    <3> QED BY <1>3, <2>1, <3>1 DEF Before, Users, UsersKeepTheirVM
  <2> QED BY <1>4, <1>5, <2>2, <2>3 DEF Users
<1> QED BY <1>6, <1>7

LEMMA UsersDestroyVM ==
  ASSUME Before, NEW d \in Destroyers, DestroyVM(d)
  PROVE  Users'
<1>1. PICK u : u = TargetVM(d)
  OBVIOUS
<1>2. /\ dpc[d] = "destroyVM" /\ alive' = alive \ {u} /\ dpc' = [dpc EXCEPT ![d] = "dropVM"]
      /\ UNCHANGED <<pc, vmOf, slots, target, released, disturbed>>
  BY <1>1 DEF DestroyVM, spawnVars
<1>3. \A w : Holders(w)' = Holders(w)
  BY <1>2 DEF Holders
<1>4. CASE target[d] \in Sandboxes
  <2>1. /\ u = vmOf[target[d]] /\ u \in VMs /\ pc[target[d]] = "recorded"
        /\ u \notin disturbed => slots[u] = 0
    BY <1>1, <1>2, <1>4 DEF TargetVM, Before, Users, Emptied, Targets, Placed
  <2>2. ASSUME u \notin disturbed PROVE Holders(u) = {}
    <3>1. Cardinality(Holders(u)) = 0
      BY <2>1, <2>2 DEF Before, Users, UsersKeepTheirVM
    <3> QED BY <3>1, NoUsers DEF Before
  <2>3. Pending'
    BY <1>2, <1>4, <2>1 DEF Before, Users, Pending
  <2>4. UsersKeepTheirVM'
    BY <1>2, <1>3, <2>2 DEF Before, Users, UsersKeepTheirVM
  <2> QED BY <1>2, <1>3, <2>3, <2>4 DEF Before, Users, Emptied, NoLeakedUser
<1>5. CASE target[d] \notin Sandboxes
  <2>1. u \in disturbed \/ u \notin VMs
    BY <1>1, <1>5 DEF TargetVM, Before, Targets, TypeOK
  <2>2. Pending'
    BY <1>2, <2>1 DEF Before, Users, Pending, Placed
  <2>3. UsersKeepTheirVM'
    BY <1>2, <1>3, <2>1 DEF Before, Users, UsersKeepTheirVM
  <2> QED BY <1>2, <1>3, <2>2, <2>3 DEF Before, Users, Emptied, NoLeakedUser
<1> QED BY <1>4, <1>5

\* The other steps of a Destroy call.
LEMMA UsersDestroy ==
  ASSUME Before, NEW d \in Destroyers,
         \/ \E s \in Sandboxes : DestroySandbox(d, s)
         \/ \E v \in VMs : DestroyVMByID(d, v)
         \/ DropVMRecord(d) \/ DropRecord(d)
  PROVE  Users'
<1> USE ConstantsAssumption
<1>1. /\ UNCHANGED <<pc, vmOf, slots, alive, released>> /\ disturbed \subseteq disturbed'
  BY DEF DestroySandbox, DestroyVMByID, DropVMRecord, DropRecord, spawnVars
<1>2. \A w : Holders(w)' = Holders(w)
  BY <1>1 DEF Holders
<1>3. Emptied'
  <2>1. ASSUME NEW e \in Destroyers, dpc'[e] = "destroyVM", target'[e] \in Sandboxes
        PROVE  dpc[e] = "destroyVM" /\ target[e] = target'[e]
    BY <2>1 DEF DestroySandbox, DestroyVMByID, DropVMRecord, DropRecord, Before, TypeOK
  <2> QED BY <1>1, <2>1 DEF Before, Users, Emptied
<1>4. Pending'
  BY <1>1 DEF Before, Users, Pending
<1> QED BY <1>1, <1>2, <1>3, <1>4, SteadyUsers DEF Before, Users

LEMMA UsersKept == ASSUME Before, Next PROVE Users'
<1>1. ASSUME NEW s \in Sandboxes, Admit(s) PROVE Users'
  <2>1. /\ SpawnStep(s) /\ pc[s] = "new" /\ pc'[s] = "acquire"
        /\ UNCHANGED <<slots, alive, disturbed>>
    BY <1>1 DEF SpawnStep, Admit, destroyVars, Before, TypeOK
  <2> QED BY <2>1, UsersSteadySpawn DEF Holding
<1> QED BY <1>1, UsersAcquire, UsersSpawnVM, UsersRecordVM, UsersInsertSlot, UsersPooled,
           UsersRelease, UsersDestroyVM, UsersDestroy, NextCases

-----------------------------------------------------------------------------
(* The limit on sandboxes.                                                 *)

\* Only a step of s can put more on record, and only s has something reserved.
LEMMA ReservedFor ==
  ASSUME TypeOK, Held, NEW s \in Sandboxes, SpawnStep(s),
         MaxSandboxes > 0 =>
           /\ pc'[s] \in {"acquire", "spawnVM", "recordVM"} => Recorded' < MaxSandboxes
           /\ pc'[s] \in {"insert", "mkdir", "persist"} => Recorded' <= MaxSandboxes
  PROVE  Reserved'
<1>1. \A t \in Sandboxes : t # s => pc'[t] \notin Busy
  BY SpawnMoves
<1> QED BY <1>1 DEF Reserved, Busy

LEMMA ReservedKept ==
  ASSUME TypeOK, Held, Reserved, AdmittedWithinOne, TypeOK', Next
  PROVE  Reserved' /\ AdmittedWithinOne'
<1> USE ConstantsAssumption
<1>1. Recorded \in Nat
  BY Counts
<1>2. ASSUME NEW s \in Sandboxes, SpawnStep(s), UNCHANGED <<records, vmRecords>>,
             pc'[s] \in {"acquire", "spawnVM", "recordVM"} =>
               \/ pc[s] \in {"acquire", "spawnVM", "recordVM"}
               \/ MaxSandboxes > 0 => Recorded < MaxSandboxes,
             pc'[s] \in {"insert", "mkdir", "persist"} => pc[s] \in Busy
      PROVE  Reserved' /\ AdmittedWithinOne'
  <2>1. Recorded' = Recorded
    BY <1>2 DEF Recorded
  <2>2. MaxSandboxes > 0 /\ pc[s] \in Busy => Recorded <= MaxSandboxes
    BY <1>1 DEF Reserved, Busy
  <2>3. /\ pc'[s] \in {"acquire", "spawnVM", "recordVM"} /\ MaxSandboxes > 0 => Recorded < MaxSandboxes
        /\ pc'[s] \in {"insert", "mkdir", "persist"} /\ MaxSandboxes > 0 => Recorded <= MaxSandboxes
    BY <1>2, <2>2 DEF Reserved
  <2> QED BY <1>2, <2>1, <2>3, ReservedFor DEF AdmittedWithinOne
<1>3. ASSUME NEW s \in Sandboxes, Fail(s) PROVE pc'[s] = "new"
  BY <1>3 DEF Fail, TypeOK
<1>4. ASSUME NEW s \in Sandboxes, Admit(s) PROVE Reserved' /\ AdmittedWithinOne'
  <2>1. /\ SpawnStep(s) /\ UNCHANGED <<records, vmRecords>> /\ pc'[s] = "acquire"
        /\ MaxSandboxes > 0 => Recorded < MaxSandboxes
    BY <1>4 DEF SpawnStep, Admit, TypeOK
  <2> QED BY <1>2, <2>1
<1>5. ASSUME NEW s \in Sandboxes, Acquire(s) PROVE Reserved' /\ AdmittedWithinOne'
  <2>1. /\ SpawnStep(s) /\ UNCHANGED <<records, vmRecords>> /\ pc[s] = "acquire"
        /\ pc'[s] \in {"mkdir", "spawnVM", "new"}
    BY <1>3, <1>5 DEF SpawnStep, Acquire, TypeOK
  <2> QED BY <1>2, <2>1 DEF Busy
<1>6. ASSUME NEW s \in Sandboxes, SpawnVM(s) PROVE Reserved' /\ AdmittedWithinOne'
  <2>1. /\ SpawnStep(s) /\ UNCHANGED <<records, vmRecords>> /\ pc[s] = "spawnVM"
        /\ pc'[s] \in {"recordVM", "new"}
    BY <1>3, <1>6 DEF SpawnStep, SpawnVM, TypeOK
  <2> QED BY <1>2, <2>1 DEF Busy
<1>7. ASSUME NEW s \in Sandboxes, InsertSlot(s) \/ MakeWorkspace(s)
      PROVE  Reserved' /\ AdmittedWithinOne'
  <2>1. /\ SpawnStep(s) /\ UNCHANGED <<records, vmRecords>> /\ pc[s] \in Busy
        /\ pc'[s] \in {"mkdir", "persist", "new"}
    BY <1>3, <1>7 DEF SpawnStep, InsertSlot, MakeWorkspace, FailPooled, TypeOK, Busy
  <2> QED BY <1>2, <2>1
<1>8. ASSUME NEW s \in Sandboxes, RecordVM(s) PROVE Reserved' /\ AdmittedWithinOne'
  <2>1. SpawnStep(s) /\ pc[s] = "recordVM" /\ UNCHANGED records
    BY <1>8 DEF SpawnStep, RecordVM, destroyVars
  <2>2. CASE Fail(s)
    <3>1. CASE UNCHANGED vmRecords
      BY <1>2, <1>3, <2>1, <2>2, <3>1
    <3>2. CASE ~UNCHANGED vmRecords
      BY <1>3, <1>8, <2>2, <3>2 DEF RecordVM, TypeOK
    <3> QED BY <3>1, <3>2
  <2>3. CASE ~Fail(s)
    <3>1. vmRecords' = vmRecords \cup {vmOf[s]} /\ pc'[s] = "insert"
      BY <1>8, <2>3 DEF RecordVM, TypeOK
    <3>2. /\ IsFiniteSet(vmRecords)
          /\ Cardinality(vmRecords \cup {vmOf[s]}) =
               IF vmOf[s] \in vmRecords THEN Cardinality(vmRecords) ELSE Cardinality(vmRecords) + 1
          /\ Cardinality(vmRecords) \in Nat /\ Cardinality(records) \in Nat
      BY Counts, FS_AddElement
    <3>3. Recorded' <= Recorded + 1 /\ Recorded' \in Nat
      BY <2>1, <3>1, <3>2 DEF Recorded
    <3>4. MaxSandboxes > 0 => Recorded < MaxSandboxes
      BY <2>1 DEF Reserved
    <3>5. MaxSandboxes > 0 => Recorded' <= MaxSandboxes
      BY <1>1, <3>3, <3>4
    <3> QED BY <2>1, <3>1, <3>3, <3>5, ReservedFor DEF AdmittedWithinOne
  <2> QED BY <2>2, <2>3
<1>9. ASSUME NEW s \in Sandboxes, Persist(s) PROVE Reserved' /\ AdmittedWithinOne'
  <2>1. SpawnStep(s) /\ pc[s] = "persist" /\ UNCHANGED vmRecords
    BY <1>9 DEF SpawnStep, Persist
  <2>2. CASE FailPooled(s)
    <3>1. pc'[s] = "new"
      BY <1>3, <2>2 DEF FailPooled
    <3>2. UNCHANGED records
      BY <1>9, <3>1 DEF Persist, TypeOK
    <3> QED BY <1>2, <2>1, <3>1, <3>2
  <2>3. CASE ~FailPooled(s)
    <3>1. records' = records \cup {s} /\ pc'[s] = "recorded"
      BY <1>9, <2>3 DEF Persist, TypeOK
    <3>2. /\ IsFiniteSet(records)
          /\ Cardinality(records \cup {s}) =
               IF s \in records THEN Cardinality(records) ELSE Cardinality(records) + 1
          /\ Cardinality(vmRecords) \in Nat /\ Cardinality(records) \in Nat
      BY Counts, FS_AddElement
    <3>3. Recorded' <= Recorded + 1 /\ Recorded' \in Nat
      BY <2>1, <3>1, <3>2 DEF Recorded
    <3>4. MaxSandboxes > 0 => Recorded <= MaxSandboxes
      BY <2>1 DEF Reserved
    <3>5. MaxSandboxes > 0 => Recorded' <= MaxSandboxes + 1
      BY <1>1, <3>3, <3>4
    <3> QED BY <2>1, <3>1, <3>5, ReservedFor DEF AdmittedWithinOne
  <2> QED BY <2>2, <2>3
<1>10. ASSUME NEW d \in Destroyers, DestroyAny(d) PROVE Reserved' /\ AdmittedWithinOne'
  <2>1. UNCHANGED pc
    BY <1>10, DestroyMoves DEF spawnVars
  <2>2. records' \subseteq records /\ vmRecords' \subseteq vmRecords
    BY <1>10 DEF DestroyAny, DestroyStep, Release, DestroyVM, DropVMRecord, DropRecord,
                 DestroySandbox, DestroyVMByID
  <2>3. /\ Cardinality(records') <= Cardinality(records)
        /\ Cardinality(vmRecords') <= Cardinality(vmRecords)
    BY <2>2, Counts, FS_Subset
  <2>4. Cardinality(records') \in Nat /\ Cardinality(vmRecords') \in Nat
    <3>1. IsFiniteSet(records') /\ IsFiniteSet(vmRecords')
      BY <2>2, Counts, FS_Subset
    <3> QED BY <3>1, FS_CardinalityType
  <2>5. Recorded' <= Recorded /\ Recorded' \in Nat
    BY <2>3, <2>4, Counts DEF Recorded
  <2>6. ASSUME MaxSandboxes > 0
        PROVE  /\ Recorded < MaxSandboxes => Recorded' < MaxSandboxes
               /\ Recorded <= MaxSandboxes => Recorded' <= MaxSandboxes
               /\ Recorded <= MaxSandboxes + 1 => Recorded' <= MaxSandboxes + 1
    BY <1>1, <2>5
  <2> QED BY <2>1, <2>6 DEF Reserved, AdmittedWithinOne
<1> QED BY <1>4, <1>5, <1>6, <1>7, <1>8, <1>9, <1>10 DEF Next, SpawnStep, DestroyAny

-----------------------------------------------------------------------------
(* The theorems.                                                           *)

LEMMA InitHolds == ASSUME Init PROVE IInv
<1> USE ConstantsAssumption
<1>1. TypeOK /\ Held /\ Placed /\ Targets
  BY DEF Init, TypeOK, Held, Placed, Targets, Busy
<1>2. Slots = {} /\ Cardinality(Slots) = 0 /\ Recorded = 0
  <2>1. Slots = {}
    BY DEF Init, Slots
  <2> QED BY <2>1, FS_EmptySet DEF Init, Recorded
<1>3. \A v : Holders(v) = {} /\ Cardinality(Holders(v)) = 0
  <2>1. \A v : Holders(v) = {}
    BY DEF Init, Holders
  <2> QED BY <1>1, <2>1, NoUsers
<1>4. PoolBounded /\ RoomKept
  BY <1>2 DEF Init, PoolBounded, RoomKept
<1>5. Pending /\ Emptied
  BY DEF Init, Pending, Emptied
<1>6. NoLeakedUser /\ UsersKeepTheirVM
  BY <1>3 DEF Init, NoLeakedUser, UsersKeepTheirVM
<1>7. Reserved /\ AdmittedWithinOne
  BY <1>2 DEF Init, Reserved, AdmittedWithinOne
<1> QED BY <1>1, <1>4, <1>5, <1>6, <1>7 DEF IInv, Users

LEMMA StepHolds == ASSUME IInv, [Next]_vars PROVE IInv'
<1>1. CASE Next
  <2>1. TypeOK' /\ Held' /\ Placed' /\ Targets'
    BY <1>1, TypeKept, HeldKept, PlacedKept, TargetsKept DEF IInv
  <2>2. PoolBounded' /\ RoomKept'
    BY <1>1, BoundsKept DEF IInv
  <2>3. Users'
    BY <1>1, UsersKept DEF IInv, Before
  <2>4. Reserved' /\ AdmittedWithinOne'
    BY <1>1, <2>1, ReservedKept DEF IInv
  <2> QED BY <2>1, <2>2, <2>3, <2>4 DEF IInv
<1>2. CASE UNCHANGED vars
  BY <1>2 DEF vars, spawnVars, destroyVars, IInv, TypeOK, Held, Placed, Targets, PoolBounded,
              RoomKept, Users, Pending, Emptied, NoLeakedUser, UsersKeepTheirVM, Holders, Slots,
              Reserved, AdmittedWithinOne, Recorded
<1> QED BY <1>1, <1>2

THEOREM Invariance == Spec => []IInv
<1>1. Init => IInv
  BY InitHolds
<1>2. IInv /\ [Next]_vars => IInv'
  BY StepHolds
<1> QED BY <1>1, <1>2, PTL DEF Spec

\* The counts, the calls and the records keep their types.
THEOREM TypeCorrect == Spec => []TypeOK
<1>1. IInv => TypeOK
  BY DEF IInv
<1> QED BY <1>1, Invariance, PTL

\* Acquire counts the slots, drops p.mu while the VM starts and inserts the slot
\* afterwards: still max_vms and max_users_per_vm are never exceeded.
THEOREM BoundsCorrect == Spec => []PoolBounded
<1>1. IInv => PoolBounded
  BY DEF IInv
<1> QED BY <1>1, Invariance, PTL

\* Whatever fails and however often Destroy is called for a sandbox, no slot
\* counts a user that is gone.
THEOREM NoLeakCorrect == Spec => []NoLeakedUser
<1>1. IInv => NoLeakedUser
  BY DEF IInv, Users
<1> QED BY <1>1, Invariance, PTL

\* A VM is given up with its last user and not before, unless a sandbox of it
\* was released twice or the VM was destroyed by its own identifier.
THEOREM UsersCorrect == Spec => []UsersKeepTheirVM
<1>1. IInv => UsersKeepTheirVM
  BY DEF IInv, Users
<1> QED BY <1>1, Invariance, PTL

\* Spawn checks max_sandboxes once and may add two records, the VM's and the
\* sandbox's own: the limit is exceeded by one at most.
THEOREM AdmittedCorrect == Spec => []AdmittedWithinOne
<1>1. IInv => AdmittedWithinOne
  BY DEF IInv
<1> QED BY <1>1, Invariance, PTL

=============================================================================
