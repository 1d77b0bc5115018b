----------------------- MODULE SpawnAdmission_proofs -----------------------
(* Proofs about SpawnAdmission, for any set of calls, owners and limits.   *)
EXTENDS SpawnAdmission, FiniteSetTheorems, TLAPS

\* The types of all variables but queueWaiters, whose type follows from
\* QueueAccounting.
Typed ==
  /\ pc \in [Calls -> Steps]
  /\ records \subseteq Calls
  /\ admissionMu \in Calls \cup {NoCall}
  /\ queueWaiters \in Int
  /\ chan \in [Calls -> {"none", "open", "closed"}]
  /\ quota \in [Owners -> QuotaLimits]
  /\ limit \in [Calls -> Nat]
  /\ saving \in BOOLEAN
  /\ told \in [Calls -> 0..MaxTold]

\* The records that an evaluation has admitted, in all and of one owner.
Admitted == records \ revived
AdmittedOf(o) == OwnerRecords(o) \ revived

\* admissionMu is held by exactly the call that stands between Lock and Return.
LockHeld == \A c \in Calls : pc[c] \in Locked <=> admissionMu = c

\* Only a call whose provisioning is over has a record, or answers on their way
\* that may bring it back.
RecordsOwned ==
  /\ \A c \in records : pc[c] \in {"return", "running", "notify"}
  /\ \A c \in Calls : told[c] > 0 => pc[c] \in {"running", "notify", "idle"}
  /\ revived \subseteq records

\* A call that provisions has seen room under both limits, and it is still
\* there: nobody else can have recorded a sandbox since.
RoomLeft ==
  \A c \in Calls :
    pc[c] = "provision" =>
      /\ MaxSandboxes > 0 => Cardinality(Admitted) < MaxSandboxes
      /\ OwnerOf[c] \in Owners /\ limit[c] > 0
           => Cardinality(AdmittedOf(OwnerOf[c])) < limit[c]

Inv ==
  /\ Typed
  /\ LockHeld
  /\ RecordsOwned
  /\ RoomLeft
  /\ CapacityRespected
  /\ QueueAccounting

-----------------------------------------------------------------------------
(* Cardinalities.                                                          *)

\* Any set of calls is finite.
LEMMA FiniteCalls ==
  ASSUME NEW S \in SUBSET Calls
  PROVE  IsFiniteSet(S) /\ Cardinality(S) \in Nat
<1>1. IsFiniteSet(S)
  BY FS_Subset, ConstantsAssumption
<1> QED BY <1>1, FS_CardinalityType

\* When admitted records disappear, the count of all of them and the count of
\* each owner's do not grow.
LEMMA RecordsShrink ==
  ASSUME Typed, Admitted' \subseteq Admitted
  PROVE  /\ Cardinality(Admitted') <= Cardinality(Admitted)
         /\ \A o : Cardinality(AdmittedOf(o)') <= Cardinality(AdmittedOf(o))
<1>1. IsFiniteSet(Admitted) /\ Admitted \in SUBSET Calls
  BY FiniteCalls DEF Typed, Admitted
<1>2. ASSUME NEW o
      PROVE  Cardinality(AdmittedOf(o)') <= Cardinality(AdmittedOf(o))
  <2>1. AdmittedOf(o) \in SUBSET Calls /\ AdmittedOf(o)' \in SUBSET AdmittedOf(o)
    BY <1>1 DEF OwnerRecords, Admitted, AdmittedOf
  <2>2. IsFiniteSet(AdmittedOf(o))
    BY <2>1, FiniteCalls
  <2> QED BY <2>1, <2>2, FS_Subset
<1> QED BY <1>1, <1>2, FS_Subset

\* What an evaluation counts, all records of S, is no less than those of S that
\* were admitted.
AdmittedAmong(S) ==
  Cardinality(S) \in Nat /\ Cardinality(S \ revived) <= Cardinality(S)

\* An evaluation counts all records, the revived ones among them.
LEMMA CountedAll ==
  ASSUME Typed
  PROVE  AdmittedAmong(records) /\ \A o : AdmittedAmong(OwnerRecords(o))
<1>1. ASSUME NEW S \in SUBSET Calls PROVE AdmittedAmong(S)
  <2>1. IsFiniteSet(S) /\ Cardinality(S) \in Nat
    BY FiniteCalls
  <2>2. S \ revived \in SUBSET S
    OBVIOUS
  <2> QED BY <2>1, <2>2, FS_Subset DEF AdmittedAmong
<1>2. records \in SUBSET Calls /\ \A o : OwnerRecords(o) \in SUBSET Calls
  BY DEF Typed, OwnerRecords
<1> QED BY <1>1, <1>2

-----------------------------------------------------------------------------
(* Inv is inductive.                                                       *)

\* The initial state satisfies the invariant.
LEMMA InitInv == ASSUME Init PROVE Inv
<1>1. Typed
  <2>1. "idle" \in Steps
    BY DEF Steps
  <2>2. quota \in [Owners -> QuotaLimits] /\ limit \in [Calls -> Nat]
    BY ConstantsAssumption DEF Init
  <2>3. saving \in BOOLEAN
    BY DEF Init
  <2>4. told \in [Calls -> 0..MaxTold]
    BY ConstantsAssumption DEF Init
  <2> QED BY <2>1, <2>2, <2>3, <2>4 DEF Init, Typed
<1>2. LockHeld /\ RecordsOwned /\ RoomLeft
  <2>1. LockHeld
    BY ConstantsAssumption DEF Init, LockHeld, Locked
  <2>2. RecordsOwned
    BY DEF Init, RecordsOwned
  <2>3. RoomLeft
    BY DEF Init, RoomLeft
  <2> QED BY <2>1, <2>2, <2>3
<1>3. CapacityRespected
  <2>1. records \ revived = {}
    BY DEF Init
  <2> QED BY <2>1, ConstantsAssumption, FS_EmptySet DEF CapacityRespected
<1>4. QueueAccounting
  <2>1. {c \in Calls : pc[c] \in Queued} = {}
    BY DEF Init, Queued
  <2> QED BY <2>1, ConstantsAssumption, FS_EmptySet DEF Init, QueueAccounting
<1> QED BY <1>1, <1>2, <1>3, <1>4 DEF Inv

\* Every step preserves the types.
LEMMA StepTyped == ASSUME Typed, [Next]_vars PROVE Typed'
<1> USE ConstantsAssumption DEF Typed, Steps, Queued, Locked, refreshes
<1>1. ASSUME NEW c \in Calls, Spawn(c) PROVE Typed'
  BY <1>1 DEF Spawn
<1>2. ASSUME NEW c \in Calls, EvaluateUnlocked(c) PROVE Typed'
  BY <1>2 DEF EvaluateUnlocked
<1>3. ASSUME NEW c \in Calls, Enqueue(c) PROVE Typed'
  BY <1>3 DEF Enqueue
<1>4. ASSUME NEW c \in Calls, Wake(c) PROVE Typed'
  BY <1>4 DEF Wake
<1>5. ASSUME NEW c \in Calls, Rearm(c) PROVE Typed'
  BY <1>5 DEF Rearm
<1>6. ASSUME NEW c \in Calls, GiveUp(c) PROVE Typed'
  BY <1>6 DEF GiveUp
<1>7. ASSUME NEW c \in Calls, Leave(c) PROVE Typed'
  BY <1>7 DEF Leave
<1>8. ASSUME NEW c \in Calls, Lock(c) PROVE Typed'
  BY <1>8 DEF Lock
<1>9. ASSUME NEW c \in Calls, Admit(c) PROVE Typed'
  <2>1. OwnerLimits(c) \subseteq Nat
    BY DEF OwnerLimits, OwnerLimit
  <2> QED BY <1>9, <2>1 DEF Admit
<1>10. ASSUME NEW c \in Calls, Provision(c) PROVE Typed'
  BY <1>10 DEF Provision
<1>11. ASSUME NEW c \in Calls, Return(c) PROVE Typed'
  BY <1>11 DEF Return
<1>12. ASSUME NEW c \in Calls, Destroy(c) PROVE Typed'
  BY <1>12 DEF Destroy
<1>13. ASSUME NEW c \in Calls, NotifyDestroyed(c) PROVE Typed'
  BY <1>13 DEF NotifyDestroyed, Notified
<1>14. ASSUME NEW c \in Calls, RefreshFindsDestroyed(c) PROVE Typed'
  BY <1>14 DEF RefreshFindsDestroyed
<1>15. ASSUME NEW o \in Owners, NEW q \in QuotaLimits, SaveOwnerQuota(o, q) PROVE Typed'
  BY <1>15 DEF SaveOwnerQuota
<1>16. CASE NotifyQuota
  BY <1>16 DEF NotifyQuota, Notified
<1>17. ASSUME NEW c \in Calls, RefreshTold(c) PROVE Typed'
  BY <1>17 DEF RefreshTold
<1>18. ASSUME NEW c \in Calls, RefreshWrites(c) PROVE Typed'
  BY <1>18 DEF RefreshWrites
<1>19. CASE UNCHANGED vars
  BY <1>19 DEF vars
<1> QED
  BY <1>1, <1>2, <1>3, <1>4, <1>5, <1>6, <1>7, <1>8, <1>9, <1>10, <1>11, <1>12,
     <1>13, <1>14, <1>15, <1>16, <1>17, <1>18, <1>19
  DEF Next, CallStep

\* Every step keeps the mutex with the one call that may hold it, and the
\* records with the calls that made them.
LEMMA StepHeld ==
  ASSUME Typed, LockHeld, RecordsOwned, [Next]_vars
  PROVE  (LockHeld /\ RecordsOwned)'
<1> USE ConstantsAssumption DEF Typed, Steps, Queued, Locked, LockHeld, RecordsOwned, refreshes
<1>1. ASSUME NEW c \in Calls,
             \/ Spawn(c) \/ EvaluateUnlocked(c) \/ Enqueue(c) \/ Wake(c) \/ Rearm(c)
             \/ GiveUp(c) \/ Leave(c)
      PROVE  (LockHeld /\ RecordsOwned)'
  BY <1>1 DEF Spawn, EvaluateUnlocked, Enqueue, Wake, Rearm, GiveUp, Leave
<1>2. ASSUME NEW c \in Calls, Lock(c) PROVE (LockHeld /\ RecordsOwned)'
  BY <1>2 DEF Lock
<1>3. ASSUME NEW c \in Calls, Admit(c) PROVE (LockHeld /\ RecordsOwned)'
  BY <1>3 DEF Admit
<1>4. ASSUME NEW c \in Calls, Provision(c) PROVE (LockHeld /\ RecordsOwned)'
  BY <1>4 DEF Provision
<1>5. ASSUME NEW c \in Calls, Return(c) PROVE (LockHeld /\ RecordsOwned)'
  BY <1>5 DEF Return
<1>6. ASSUME NEW c \in Calls,
             Destroy(c) \/ NotifyDestroyed(c) \/ RefreshFindsDestroyed(c)
      PROVE  (LockHeld /\ RecordsOwned)'
  BY <1>6 DEF Destroy, NotifyDestroyed, RefreshFindsDestroyed
<1>7. ASSUME NEW o \in Owners, NEW q \in QuotaLimits, SaveOwnerQuota(o, q)
      PROVE  (LockHeld /\ RecordsOwned)'
  BY <1>7 DEF SaveOwnerQuota
<1>8. CASE NotifyQuota
  BY <1>8 DEF NotifyQuota
<1>9. ASSUME NEW c \in Calls, RefreshTold(c) PROVE (LockHeld /\ RecordsOwned)'
  BY <1>9 DEF RefreshTold
<1>10. ASSUME NEW c \in Calls, RefreshWrites(c) PROVE (LockHeld /\ RecordsOwned)'
  BY <1>10 DEF RefreshWrites
<1>11. CASE UNCHANGED vars
  BY <1>11 DEF vars
<1> QED
  BY <1>1, <1>2, <1>3, <1>4, <1>5, <1>6, <1>7, <1>8, <1>9, <1>10, <1>11
  DEF Next, CallStep

\* Every step counts the calls in the queue correctly.
LEMMA StepQueue ==
  ASSUME Typed, QueueAccounting, [Next]_vars
  PROVE  QueueAccounting'
<1> DEFINE In == {c \in Calls : pc[c] \in Queued}
<1>1. IsFiniteSet(In) /\ queueWaiters = Cardinality(In) /\ queueWaiters <= MaxSpawnQueue
  BY FiniteCalls DEF QueueAccounting
<1>2. ASSUME In' = In, queueWaiters' = queueWaiters PROVE QueueAccounting'
  BY <1>1, <1>2 DEF QueueAccounting
<1>3. ASSUME NEW c \in Calls, Enqueue(c) PROVE QueueAccounting'
  <2>1. CASE queueWaiters >= MaxSpawnQueue
    <3>1. In' = In /\ queueWaiters' = queueWaiters
      BY <1>3, <2>1, ConstantsAssumption DEF Enqueue, Typed, Queued
    <3> QED BY <3>1, <1>2
  <2>2. CASE queueWaiters < MaxSpawnQueue
    <3>1. c \notin In /\ In' = In \cup {c} /\ queueWaiters' = queueWaiters + 1
      BY <1>3, <2>2, ConstantsAssumption DEF Enqueue, Typed, Queued
    <3>2. Cardinality(In') = Cardinality(In) + 1
      BY <3>1, <1>1, FS_AddElement
    <3> HIDE DEF In
    <3>3. queueWaiters' = Cardinality(In') /\ queueWaiters' <= MaxSpawnQueue
      BY <3>1, <3>2, <1>1, <2>2, ConstantsAssumption DEF Typed
    <3> QED BY <3>3 DEF QueueAccounting, In
  <2> QED BY <2>1, <2>2, ConstantsAssumption DEF Typed
<1>4. ASSUME NEW c \in Calls, Leave(c) PROVE QueueAccounting'
  <2>1. c \in In /\ In' = In \ {c} /\ queueWaiters' = queueWaiters - 1
    BY <1>4 DEF Leave, Typed, Queued
  <2>2. Cardinality(In') = Cardinality(In) - 1
    BY <2>1, <1>1, FS_RemoveElement
  <2> HIDE DEF In
  <2>3. queueWaiters' = Cardinality(In') /\ queueWaiters' <= MaxSpawnQueue
    BY <2>1, <2>2, <1>1, ConstantsAssumption DEF Typed
  <2> QED BY <2>3 DEF QueueAccounting, In
<1>5. ASSUME NEW c \in Calls, Wake(c) \/ Rearm(c) \/ GiveUp(c) PROVE QueueAccounting'
  <2>1. In' = In /\ queueWaiters' = queueWaiters
    BY <1>5 DEF Wake, Rearm, GiveUp, Typed, Queued
  <2> QED BY <2>1, <1>2
<1>6. ASSUME NEW c \in Calls,
             \/ Spawn(c) \/ EvaluateUnlocked(c) \/ Lock(c) \/ Admit(c) \/ Provision(c)
             \/ Return(c) \/ Destroy(c) \/ NotifyDestroyed(c) \/ RefreshFindsDestroyed(c)
             \/ RefreshTold(c) \/ RefreshWrites(c)
      PROVE  QueueAccounting'
  <2>1. In' = In /\ queueWaiters' = queueWaiters
    BY <1>6 DEF Spawn, EvaluateUnlocked, Lock, Admit, Provision, Return, Destroy,
                NotifyDestroyed, RefreshFindsDestroyed, RefreshTold, RefreshWrites,
                Typed, Queued
  <2> QED BY <2>1, <1>2
<1>7. CASE UNCHANGED <<pc, queueWaiters>>
  BY <1>7, <1>2
<1>8. ASSUME NotifyQuota \/ (\E o \in Owners, q \in QuotaLimits : SaveOwnerQuota(o, q))
      PROVE  UNCHANGED <<pc, queueWaiters>>
  BY <1>8 DEF NotifyQuota, SaveOwnerQuota
<1> QED
  BY <1>3, <1>4, <1>5, <1>6, <1>7, <1>8 DEF Next, CallStep, vars

\* Only Provision adds an admitted record, and only its caller's; a late status
\* adds one that is not.
LEMMA StepRecords ==
  ASSUME Typed, [Next]_vars, ~ \E c \in Calls : Provision(c)
  PROVE  Admitted' \subseteq Admitted
<1>1. ASSUME NEW c \in Calls, CallStep(c) PROVE Admitted' = Admitted
  BY <1>1 DEF CallStep, EvaluateUnlocked, Enqueue, Wake, Rearm, Leave, Lock, Admit,
              Return, NotifyDestroyed, refreshes, Admitted
<1>2. ASSUME NEW c \in Calls,
             \/ Spawn(c) \/ GiveUp(c) \/ Destroy(c)
             \/ RefreshFindsDestroyed(c) \/ RefreshTold(c) \/ RefreshWrites(c)
      PROVE  Admitted' \subseteq Admitted
  BY <1>2 DEF Spawn, GiveUp, Destroy, RefreshFindsDestroyed, RefreshTold, RefreshWrites,
              refreshes, Admitted
<1>3. ASSUME NotifyQuota \/ (\E o \in Owners, q \in QuotaLimits : SaveOwnerQuota(o, q))
      PROVE  Admitted' = Admitted
  BY <1>3 DEF NotifyQuota, SaveOwnerQuota, refreshes, Admitted
<1> QED BY <1>1, <1>2, <1>3 DEF Next, vars, Admitted

\* A call at "provision" was there before, or Admit brought it there just now.
LEMMA StepProvision ==
  ASSUME Typed, [Next]_vars, NEW d \in Calls, pc'[d] = "provision", ~Admit(d)
  PROVE  pc[d] = "provision" /\ limit'[d] = limit[d]
<1> USE DEF Typed
<1>1. ASSUME NEW c \in Calls, CallStep(c), ~Admit(c)
      PROVE  pc[d] = "provision" /\ limit'[d] = limit[d]
  BY <1>1 DEF CallStep, EvaluateUnlocked, Enqueue, Wake, Rearm, Leave, Lock, Provision,
              Return, NotifyDestroyed
<1>2. ASSUME NEW c \in Calls, Admit(c)
      PROVE  pc[d] = "provision" /\ limit'[d] = limit[d]
  BY <1>2 DEF Admit
<1>3. ASSUME NEW c \in Calls,
             \/ Spawn(c) \/ GiveUp(c) \/ Destroy(c)
             \/ RefreshFindsDestroyed(c) \/ RefreshTold(c) \/ RefreshWrites(c)
      PROVE  pc[d] = "provision" /\ limit'[d] = limit[d]
  BY <1>3 DEF Spawn, GiveUp, Destroy, RefreshFindsDestroyed, RefreshTold, RefreshWrites
<1>4. ASSUME NotifyQuota \/ (\E o \in Owners, q \in QuotaLimits : SaveOwnerQuota(o, q))
      PROVE  pc[d] = "provision" /\ limit'[d] = limit[d]
  BY <1>4 DEF NotifyQuota, SaveOwnerQuota
<1> QED BY <1>1, <1>2, <1>3, <1>4 DEF Next, vars

\* The new record fits into the room that Admit saw.
LEMMA ProvisionFits ==
  ASSUME Inv, NEW c \in Calls, Provision(c)
  PROVE  /\ CapacityRespected'
         /\ c \in Admitted' \ Admitted /\ OwnerOf[c] \in Owners /\ limit[c] > 0
              => Cardinality(AdmittedOf(OwnerOf[c])') <= limit[c]
<1>0. revived' = revived
  BY DEF Provision, refreshes
<1>1. CASE records' = records
  BY <1>0, <1>1 DEF Inv, CapacityRespected, Admitted
<1>2. CASE records' = records \cup {c}
  <2> DEFINE R == AdmittedOf(OwnerOf[c])
  <2>1. Admitted \in SUBSET Calls /\ R \in SUBSET Calls
    BY DEF Inv, Typed, OwnerRecords, Admitted, AdmittedOf
  <2>2. /\ IsFiniteSet(Admitted) /\ Cardinality(Admitted) \in Nat
        /\ IsFiniteSet(R) /\ Cardinality(R) \in Nat
    BY <2>1, FiniteCalls
  <2>4. pc[c] = "provision" /\ c \notin records /\ c \notin revived
    BY DEF Provision, Inv, RecordsOwned
  <2>3. R' = R \cup {c} /\ Admitted' = Admitted \cup {c}
    BY <1>0, <1>2, <2>4 DEF OwnerRecords, Admitted, AdmittedOf
  <2>5. c \notin R /\ c \notin Admitted
    BY <2>4 DEF OwnerRecords, Admitted, AdmittedOf
  <2>6. /\ Cardinality(Admitted') = Cardinality(Admitted) + 1
        /\ Cardinality(R') = Cardinality(R) + 1
    BY <2>2, <2>3, <2>5, FS_AddElement
  <2>7. /\ MaxSandboxes > 0 => Cardinality(Admitted) < MaxSandboxes
        /\ OwnerOf[c] \in Owners /\ limit[c] > 0 => Cardinality(R) < limit[c]
    BY <2>4 DEF Inv, RoomLeft
  <2>8. CapacityRespected'
    <3>1. MaxSandboxes > 0 => Cardinality(Admitted') <= MaxSandboxes
      BY <2>2, <2>6, <2>7, ConstantsAssumption
    <3> QED BY <3>1 DEF CapacityRespected, Admitted
  <2>9. OwnerOf[c] \in Owners /\ limit[c] > 0 => Cardinality(R') <= limit[c]
    <3>1. limit[c] \in Nat
      BY DEF Inv, Typed
    <3> QED BY <2>2, <2>6, <2>7, <3>1
  <2> QED BY <2>8, <2>9
<1> QED BY <1>1, <1>2 DEF Provision

\* Every step keeps the room that a provisioning call counts on.
LEMMA StepRoom ==
  ASSUME Inv, [Next]_vars
  PROVE  RoomLeft' /\ CapacityRespected'
<1>1. Typed' /\ LockHeld'
  BY StepTyped, StepHeld DEF Inv
<1>2. CASE \E c \in Calls : Provision(c)
  <2>1. PICK c \in Calls : Provision(c)
    BY <1>2
  <2>2. admissionMu' = c /\ pc'[c] = "return"
    BY <2>1 DEF Provision, Inv, Typed, LockHeld, Locked
  <2>3. \A d \in Calls : pc'[d] # "provision"
    BY <1>1, <2>2 DEF LockHeld, Locked
  <2>4. RoomLeft'
    BY <2>3 DEF RoomLeft
  <2> QED BY <2>1, <2>4, ProvisionFits
<1>3. CASE ~ \E c \in Calls : Provision(c)
  <2>1. Admitted' \subseteq Admitted
    BY <1>3, StepRecords DEF Inv
  <2>2. /\ Cardinality(Admitted') <= Cardinality(Admitted)
        /\ \A o : Cardinality(AdmittedOf(o)') <= Cardinality(AdmittedOf(o))
    BY <2>1, RecordsShrink DEF Inv
  <2>3. /\ Cardinality(Admitted) \in Nat /\ Cardinality(Admitted') \in Nat
        /\ \A o : /\ Cardinality(AdmittedOf(o)) \in Nat
                  /\ Cardinality(AdmittedOf(o)') \in Nat
    <3>1. records \in SUBSET Calls /\ records' \in SUBSET Calls
      BY <1>1 DEF Inv, Typed
    <3>2. \A o : AdmittedOf(o) \in SUBSET Calls /\ AdmittedOf(o)' \in SUBSET Calls
      BY <3>1 DEF OwnerRecords, AdmittedOf
    <3>3. Admitted \in SUBSET Calls /\ Admitted' \in SUBSET Calls
      BY <3>1 DEF Admitted
    <3> QED BY <3>2, <3>3, FiniteCalls
  <2>4. CapacityRespected'
    <3>1. MaxSandboxes > 0 => Cardinality(Admitted) <= MaxSandboxes
      BY DEF Inv, CapacityRespected, Admitted
    <3>2. MaxSandboxes > 0 => Cardinality(Admitted') <= MaxSandboxes
      BY <2>2, <2>3, <3>1, ConstantsAssumption
    <3> QED BY <3>2 DEF CapacityRespected, Admitted
  <2>5. ASSUME NEW d \in Calls, pc'[d] = "provision"
        PROVE  /\ MaxSandboxes > 0 => Cardinality(Admitted') < MaxSandboxes
               /\ OwnerOf[d] \in Owners /\ limit'[d] > 0
                    => Cardinality(AdmittedOf(OwnerOf[d])') < limit'[d]
    <3>1. limit'[d] \in Nat
      BY <1>1 DEF Typed
    <3>2. CASE Admit(d)
      <4>1. \E l \in OwnerLimits(d) : Decision(d, l) = "allowed" /\ limit'[d] = l
        BY <2>5, <3>2 DEF Admit, Inv, Typed
      <4>2. ~Full /\ ~OwnerFull(d, limit'[d])
        BY <4>1 DEF Decision
      <4>3. AdmittedAmong(records) /\ AdmittedAmong(OwnerRecords(OwnerOf[d]))
        BY CountedAll DEF Inv
      <4>4. /\ Cardinality(Admitted) <= Cardinality(records)
            /\ Cardinality(AdmittedOf(OwnerOf[d])) <= Cardinality(OwnerRecords(OwnerOf[d]))
            /\ Cardinality(records) \in Nat
            /\ Cardinality(OwnerRecords(OwnerOf[d])) \in Nat
        BY <4>3 DEF AdmittedAmong, Admitted, AdmittedOf
      <4> QED
        BY <2>2, <2>3, <3>1, <4>2, <4>4, ConstantsAssumption DEF Full, OwnerFull
    <3>3. CASE ~Admit(d)
      <4>1. pc[d] = "provision" /\ limit'[d] = limit[d]
        BY <2>5, <3>3, StepProvision DEF Inv
      <4>2. /\ MaxSandboxes > 0 => Cardinality(Admitted) < MaxSandboxes
            /\ OwnerOf[d] \in Owners /\ limit[d] > 0
                 => Cardinality(AdmittedOf(OwnerOf[d])) < limit[d]
        BY <4>1 DEF Inv, RoomLeft
      <4> QED BY <2>2, <2>3, <3>1, <4>1, <4>2, ConstantsAssumption
    <3> QED BY <3>2, <3>3
  <2>6. RoomLeft'
    BY <2>5 DEF RoomLeft
  <2> QED BY <2>4, <2>6
<1> QED BY <1>2, <1>3

\* Inv holds in every reachable state.
LEMMA Invariant == Spec => []Inv
<1>1. Inv /\ [Next]_vars => Inv'
  BY StepTyped, StepHeld, StepQueue, StepRoom DEF Inv
<1> QED BY InitInv, <1>1, PTL DEF Spec

-----------------------------------------------------------------------------
(* The theorems.                                                           *)

\* The variables keep their types; queueWaiters never becomes negative.
THEOREM TypeCorrect == Spec => []TypeOK
<1>1. Inv => TypeOK
  <2> SUFFICES ASSUME Inv PROVE TypeOK
    OBVIOUS
  <2>1. queueWaiters \in Nat
    BY FiniteCalls DEF Inv, QueueAccounting
  <2>2. \A c \in Calls : c \in revived => c \in records
    BY DEF Inv, RecordsOwned
  <2> QED BY <2>1, <2>2 DEF Inv, Typed, TypeOK, RecordsOwned
<1> QED BY Invariant, <1>1, PTL

\* However many calls race, no more sandboxes are admitted and recorded than
\* max_sandboxes; those that a late status brings back are not admitted.
THEOREM CapacityCorrect == Spec => []CapacityRespected
<1>1. Inv => CapacityRespected
  BY DEF Inv
<1> QED BY Invariant, <1>1, PTL

\* queueWaiters counts the calls in the queue, which never outgrows
\* max_spawn_queue.
THEOREM QueueCorrect == Spec => []QueueAccounting
<1>1. Inv => QueueAccounting
  BY DEF Inv
<1> QED BY Invariant, <1>1, PTL

\* No sandbox is admitted and recorded beyond the owner limit that admitted it.
THEOREM OwnerLimitCorrect == Spec => OwnerLimitRespected
<1>1. Inv /\ [Next]_vars => [RecordedWithinLimit]_vars
  <2> SUFFICES ASSUME Inv, [Next]_vars PROVE RecordedWithinLimit
    OBVIOUS
  <2>1. CASE \E c \in Calls : Provision(c)
    <3>1. PICK c \in Calls : Provision(c)
      BY <2>1
    <3>2. Admitted' \ Admitted \subseteq {c}
      BY <3>1 DEF Provision, refreshes, Admitted
    <3> QED BY <3>1, <3>2, ProvisionFits DEF RecordedWithinLimit, Admitted, AdmittedOf
  <2>2. CASE ~ \E c \in Calls : Provision(c)
    BY <2>2, StepRecords DEF Inv, RecordedWithinLimit, Admitted
  <2> QED BY <2>1, <2>2
<1> QED BY Invariant, <1>1, PTL DEF Spec, OwnerLimitRespected
=============================================================================
