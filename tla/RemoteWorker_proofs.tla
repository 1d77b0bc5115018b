----------------------- MODULE RemoteWorker_proofs -----------------------
(* Proofs about RemoteWorker, for any workers, sandboxes and faults; about *)
(* the lease that a worker holds of a resource (LeaseStore); and about the *)
(* two stores that keep it, with all else they keep, and the servers that  *)
(* migrate them (Stores, Migrations).                                      *)
EXTENDS RemoteWorker, Stores, FiniteSetTheorems, TLAPS

\* Rows exist where a call relies on them, and not yet where Spawn will insert
\* one; its lease is held.  Without a home a sandbox is known nowhere.
Rows ==
  /\ spc \in {"sent", "answered"} => row[sid] = "none" /\ sid \in leased
  /\ spc = "persisted" => row[sid] # "none"
  /\ \A s \in Sandboxes :
       /\ home[s] = Nobody => row[s] = "none" /\ s \notin runtime \cup inbox /\ sid # s
       /\ row[s] = "none" => mem[s] = "none" /\ gid # s /\ \A d \in Destroyers : did[d] # s

\* Reconcile goes through rows that are live, while nothing is served.
Starting ==
  /\ serving => todo = {}
  /\ ~serving => /\ todo \subseteq Live
                 /\ spc = "idle" /\ gpc = "idle"
                 /\ \A d \in Destroyers : dpc[d] = "idle"

\* A lease lapses only after the TTL that it was granted for, or an extension;
\* until then a live row has one.
Leases ==
  /\ lapsed \subseteq due \cup extended
  /\ \A s \in Live \ (due \cup extended \cup revived) : s \in leased

\* Where every runtime is on record: a request that nobody waits for is lost,
\* and so is what a provider has forgotten; Destroy marks a row after its
\* runtime, and a status "destroyed" speaks of no runtime.
Accounted ==
  /\ RuntimeAccounted
  /\ forgotten \subseteq lost
  /\ \A s \in inbox \ lost : Waiting(s)
  /\ spc = "sent" => sid \notin runtime \ lost
  /\ \A d \in Destroyers : dpc[d] = "mark" => did[d] \notin runtime \ lost
  /\ gpc = "told" /\ gans = "destroyed" => gid \notin runtime \ lost

\* The rows that there are; those that count against a worker and were never
\* given up; and the call that waits for the answer of a worker.
Known == {s \in Sandboxes : row[s] # "none"}
Counted(w) == Active(w) \ revived
Pending == spc \in {"sent", "answered"}

\* No worker is over its capacity, and there is room for the sandbox that a
\* Spawn call is about to insert: it alone may insert one.
Room ==
  /\ IsFiniteSet(Known)
  /\ WorkerCapacity
  /\ Pending /\ MaxSandboxes > 0 => Cardinality(Counted(home[sid])) < MaxSandboxes

Inv == TypeOK /\ Rows /\ Starting /\ Leases /\ Accounted /\ Room

\* The initial state satisfies the invariant.
LEMMA InitInv == ASSUME Init PROVE Inv
<1>1. TypeOK
  BY ConstantsAssumption DEF Init, TypeOK, States
<1>2. Rows /\ Starting
  BY ConstantsAssumption DEF Init, Rows, Starting, Live
<1>3. Leases /\ Accounted
  BY DEF Init, Leases, Accounted, RuntimeAccounted, Live, Waiting
<1>4. Room
  <2>1. Known = {} /\ \A w \in Workers : Counted(w) = {}
    BY DEF Init, Known, Counted, Active
  <2>2. \A w \in Workers : Cardinality(Active(w) \ revived) = 0
    BY <2>1, FS_EmptySet DEF Counted
  <2>3. WorkerCapacity
    BY <2>2, ConstantsAssumption DEF WorkerCapacity
  <2> QED
    BY <2>1, <2>3, FS_EmptySet DEF Init, Room, Pending
<1> QED BY <1>1, <1>2, <1>3, <1>4 DEF Inv

\* Taking the token of a sandbox's lease to destroy it preserves the types.
LEMMA TakeTokenTyped ==
  ASSUME TypeOK, NEW d \in Destroyers, NEW s \in Sandboxes, TakeToken(d, s)
  PROVE  TypeOK'
<1>1. /\ dpc' = [dpc EXCEPT ![d] = "sent"] /\ did' = [did EXCEPT ![d] = s]
      /\ UNCHANGED <<plane, table, time, remote, spawn, get, faults, history>>
  BY DEF TakeToken
<1>2. /\ dpc' \in [Destroyers -> {"idle", "sent", "mark"}]
      /\ did' \in [Destroyers -> Sandboxes \cup {Nobody}]
  BY <1>1 DEF TypeOK
<1>3. \A e \in Destroyers : dpc'[e] = "idle" <=> did'[e] = Nobody
  BY <1>1, ConstantsAssumption DEF TypeOK
<1> QED BY <1>1, <1>2, <1>3 DEF plane, table, time, remote, spawn, get, history, TypeOK, States

\* Every step preserves the types.
LEMMA StepTyped == ASSUME TypeOK, [Next]_vars PROVE TypeOK'
<1>1. CASE GiveUp
  BY <1>1, ConstantsAssumption DEF GiveUp, SpawnFailed, plane, table, time, remote, spawn,
    get, destroy, history, TypeOK, States
<1>2. CASE CreateRow
  BY <1>2, ConstantsAssumption DEF CreateRow, SpawnFailed, plane, table, time, remote,
    spawn, get, destroy, history, TypeOK, States
<1>3. CASE CacheSandbox
  BY <1>3, ConstantsAssumption DEF CacheSandbox, plane, table, time, remote, spawn, get,
    destroy, history, TypeOK, States
<1>4. CASE StatusFails
  BY <1>4, ConstantsAssumption DEF StatusFails, Done, plane, table, time, remote, spawn,
    get, destroy, history, TypeOK, States
<1>5. CASE HandleStatus
  BY <1>5, ConstantsAssumption DEF HandleStatus, Report, plane, table, time, remote, spawn,
    get, destroy, history, TypeOK, States
<1>6. CASE WriteStatus
  <2>1. gid \in Sandboxes /\ gans \in {"running", "destroyed"}
    BY <1>6, ConstantsAssumption DEF WriteStatus, TypeOK
  <2>2. CASE UNCHANGED <<row, revived>>
    BY <1>6, <2>1, <2>2 DEF WriteStatus, Done, plane, time, remote, spawn, destroy, TypeOK,
      States
  <2>3. CASE /\ row' = [row EXCEPT ![gid] = gans]
             /\ revived' = IF gans = "running" /\ row[gid] \in {"destroyed", "expired"}
                             THEN revived \cup {gid} ELSE revived
    BY <1>6, <2>1, <2>3 DEF WriteStatus, Done, plane, time, remote, spawn, destroy, TypeOK,
      States
  <2> QED
    BY <1>6, <2>2, <2>3 DEF WriteStatus, WriteRow
<1>7. CASE Restart
  <2>1. gid' = Nobody /\ gpc' = "idle" /\ gst' = "none" /\ gans' = "none"
    BY <1>7 DEF Restart, Done
  <2>2. /\ dpc' \in [Destroyers -> {"idle", "sent", "mark"}]
        /\ did' \in [Destroyers -> Sandboxes \cup {Nobody}]
        /\ \A d \in Destroyers : dpc'[d] = "idle" <=> did'[d] = Nobody
    BY <1>7 DEF Restart
  <2>3. faults' \in 0 .. MaxFaults
    BY <1>7, ConstantsAssumption DEF Restart, Fault, TypeOK
  <2>4. mem' \in [Sandboxes -> States \cup {"none"}] /\ todo' \subseteq Sandboxes
    BY <1>7 DEF Restart, Live
  <2>5. lost' \subseteq Sandboxes /\ spc' = "idle" /\ sid' = Nobody
    BY <1>7, ConstantsAssumption DEF Restart, TypeOK
  <2> QED
    BY <1>7, <2>1, <2>2, <2>3, <2>4, <2>5, ConstantsAssumption
    DEF Restart, TypeOK, States, time, remote
<1>8. CASE Serve
  BY <1>8, ConstantsAssumption DEF Serve, plane, table, time, remote, spawn, get, destroy,
    history, TypeOK, States
<1>9. ASSUME NEW w \in Workers, Heartbeat(w) PROVE TypeOK'
  BY <1>9, ConstantsAssumption DEF Heartbeat, plane, table, time, remote, spawn, get,
    destroy, history, TypeOK, States
<1>10. ASSUME NEW w \in Workers, GoStale(w) PROVE TypeOK'
  BY <1>10, ConstantsAssumption DEF GoStale, Fault, plane, table, time, remote, spawn, get,
    destroy, history, TypeOK, States
<1>11. ASSUME NEW w \in Workers, DeleteWorker(w) PROVE TypeOK'
  BY <1>11, ConstantsAssumption DEF DeleteWorker, Fault, plane, table, time, remote, spawn,
    get, destroy, history, TypeOK, States
<1>12. ASSUME NEW w \in Workers, Drain(w) PROVE TypeOK'
  BY <1>12, ConstantsAssumption DEF Drain, plane, table, time, remote, spawn, get, destroy,
    history, TypeOK, States
<1>13. ASSUME NEW w \in Workers, WorkerStops(w) PROVE TypeOK'
  BY <1>13, ConstantsAssumption DEF WorkerStops, Fault, plane, table, time, remote, spawn,
    get, destroy, history, TypeOK, States
<1>14. ASSUME NEW w \in Workers, WorkerStarts(w) PROVE TypeOK'
  BY <1>14, ConstantsAssumption DEF WorkerStarts, plane, table, time, remote, spawn, get,
    destroy, history, TypeOK, States
<1>15. ASSUME NEW d \in Destroyers, DestroyFails(d) PROVE TypeOK'
  BY <1>15, ConstantsAssumption DEF DestroyFails, End, plane, table, time, remote, spawn,
    get, destroy, history, TypeOK, States
<1>16. ASSUME NEW d \in Destroyers, HandleDestroy(d) PROVE TypeOK'
  BY <1>16, ConstantsAssumption DEF HandleDestroy, plane, table, time, remote, spawn, get,
    destroy, history, TypeOK, States
<1>17. ASSUME NEW d \in Destroyers, Mark(d) PROVE TypeOK'
  BY <1>17, ConstantsAssumption DEF Mark, End, plane, table, time, remote, spawn, get,
    destroy, history, TypeOK, States
<1>18. ASSUME NEW s \in Sandboxes, SpawnRemote(s) PROVE TypeOK'
  BY <1>18, ConstantsAssumption DEF SpawnRemote, plane, table, time, remote, spawn, get,
    destroy, history, TypeOK, States
<1>19. ASSUME NEW s \in Sandboxes, HandleSpawn(s) PROVE TypeOK'
  BY <1>19, ConstantsAssumption DEF HandleSpawn, Waiting, plane, table, time, remote, spawn,
    get, destroy, history, TypeOK, States
<1>20. ASSUME NEW s \in Sandboxes, RefuseSpawn(s) PROVE TypeOK'
  BY <1>20, ConstantsAssumption DEF RefuseSpawn, Waiting, SpawnFailed, plane, table, time,
    remote, spawn, get, destroy, history, TypeOK, States
<1>21. ASSUME NEW s \in Sandboxes, Get(s) PROVE TypeOK'
  BY <1>21, ConstantsAssumption DEF Get, Reachable, Live, plane, table, time, remote, spawn,
    get, destroy, history, TypeOK, States
<1>22. ASSUME NEW s \in Sandboxes, ExtendTTL(s) PROVE TypeOK'
  BY <1>22, ConstantsAssumption DEF ExtendTTL, Fault, Live, plane, table, time, remote,
    spawn, get, destroy, history, TypeOK, States
<1>23. ASSUME NEW s \in Sandboxes, Sweep(s) PROVE TypeOK'
  BY <1>23, TakeTokenTyped DEF Sweep, Destroyers
<1>24. ASSUME NEW s \in Sandboxes, RuntimeEnds(s) PROVE TypeOK'
  BY <1>24, ConstantsAssumption DEF RuntimeEnds, Fault, plane, table, time, remote, spawn,
    get, destroy, history, TypeOK, States
<1>25. ASSUME NEW s \in Sandboxes, Expire(s) PROVE TypeOK'
  BY <1>25, ConstantsAssumption DEF Expire, plane, table, time, remote, spawn, get, destroy,
    history, TypeOK, States
<1>26. ASSUME NEW s \in Sandboxes, Lapse(s) PROVE TypeOK'
  BY <1>26, ConstantsAssumption DEF Lapse, plane, table, time, remote, spawn, get, destroy,
    history, TypeOK, States
<1>27. ASSUME NEW s \in Sandboxes, ReconcileRefreshes(s) PROVE TypeOK'
  BY <1>27, ConstantsAssumption DEF ReconcileRefreshes, Report, WriteRow, plane, table,
    time, remote, spawn, get, destroy, history, TypeOK, States
<1>28. ASSUME NEW s \in Sandboxes, ReconcileKeeps(s) PROVE TypeOK'
  BY <1>28, ConstantsAssumption DEF ReconcileKeeps, plane, table, time, remote, spawn, get,
    destroy, history, TypeOK, States
<1>29. ASSUME NEW s \in Sandboxes, ReconcileMarks(s) PROVE TypeOK'
  BY <1>29, ConstantsAssumption DEF ReconcileMarks, plane, table, time, remote, spawn, get,
    destroy, history, TypeOK, States
<1>30. ASSUME NEW s \in Sandboxes, NEW d \in Clients, Request(d, s) PROVE TypeOK'
  BY <1>30, TakeTokenTyped DEF Request, Destroyers
<1>31. CASE UNCHANGED vars
  BY <1>31 DEF vars, plane, table, time, remote, spawn, get, destroy, history, TypeOK, States
<1> QED
  BY <1>1, <1>2, <1>3, <1>4, <1>5, <1>6, <1>7, <1>8, <1>9, <1>10, <1>11, <1>12, <1>13,
    <1>14, <1>15, <1>16, <1>17, <1>18, <1>19, <1>20, <1>21, <1>22, <1>23, <1>24, <1>25, <1>26,
    <1>27, <1>28, <1>29, <1>30, <1>31
  DEF Next, SpawnStep, GetStep, DestroyStep, WorkerStep, ReconcileStep

\* Every step preserves what is known of rows, and of a start.
LEMMA StepRows == ASSUME TypeOK, Rows, Starting, [Next]_vars PROVE Rows' /\ Starting'
<1>1. CASE GiveUp
  BY <1>1, ConstantsAssumption DEF GiveUp, SpawnFailed, plane, table, time, remote, spawn,
    get, destroy, history, TypeOK, States, Rows, Starting, Live
<1>2. CASE CreateRow
  BY <1>2, ConstantsAssumption DEF CreateRow, SpawnFailed, plane, table, time, remote,
    spawn, get, destroy, history, TypeOK, States, Rows, Starting, Live
<1>3. CASE CacheSandbox
  BY <1>3, ConstantsAssumption DEF CacheSandbox, plane, table, time, remote, spawn, get,
    destroy, history, TypeOK, States, Rows, Starting, Live
<1>4. CASE StatusFails
  BY <1>4, ConstantsAssumption DEF StatusFails, Done, plane, table, time, remote, spawn,
    get, destroy, history, TypeOK, States, Rows, Starting, Live
<1>5. CASE HandleStatus
  BY <1>5, ConstantsAssumption DEF HandleStatus, Report, plane, table, time, remote, spawn,
    get, destroy, history, TypeOK, States, Rows, Starting, Live
<1>6. CASE WriteStatus
  BY <1>6, ConstantsAssumption DEF WriteStatus, Done, WriteRow, plane, table, time, remote,
    spawn, get, destroy, history, TypeOK, States, Rows, Starting, Live
<1>7. CASE Restart
  BY <1>7, ConstantsAssumption DEF Restart, Fault, Done, Live, plane, table, time, remote,
    spawn, get, destroy, history, TypeOK, States, Rows, Starting
<1>8. CASE Serve
  BY <1>8, ConstantsAssumption DEF Serve, plane, table, time, remote, spawn, get, destroy,
    history, TypeOK, States, Rows, Starting, Live
<1>9. ASSUME NEW w \in Workers, Heartbeat(w) PROVE Rows' /\ Starting'
  BY <1>9, ConstantsAssumption DEF Heartbeat, plane, table, time, remote, spawn, get,
    destroy, history, TypeOK, States, Rows, Starting, Live
<1>10. ASSUME NEW w \in Workers, GoStale(w) PROVE Rows' /\ Starting'
  BY <1>10, ConstantsAssumption DEF GoStale, Fault, plane, table, time, remote, spawn, get,
    destroy, history, TypeOK, States, Rows, Starting, Live
<1>11. ASSUME NEW w \in Workers, DeleteWorker(w) PROVE Rows' /\ Starting'
  BY <1>11, ConstantsAssumption DEF DeleteWorker, Fault, plane, table, time, remote, spawn,
    get, destroy, history, TypeOK, States, Rows, Starting, Live
<1>12. ASSUME NEW w \in Workers, Drain(w) PROVE Rows' /\ Starting'
  BY <1>12, ConstantsAssumption DEF Drain, plane, table, time, remote, spawn, get, destroy,
    history, TypeOK, States, Rows, Starting, Live
<1>13. ASSUME NEW w \in Workers, WorkerStops(w) PROVE Rows' /\ Starting'
  BY <1>13, ConstantsAssumption DEF WorkerStops, Fault, plane, table, time, remote, spawn,
    get, destroy, history, TypeOK, States, Rows, Starting, Live
<1>14. ASSUME NEW w \in Workers, WorkerStarts(w) PROVE Rows' /\ Starting'
  BY <1>14, ConstantsAssumption DEF WorkerStarts, plane, table, time, remote, spawn, get,
    destroy, history, TypeOK, States, Rows, Starting, Live
<1>15. ASSUME NEW d \in Destroyers, DestroyFails(d) PROVE Rows' /\ Starting'
  BY <1>15, ConstantsAssumption DEF DestroyFails, End, plane, table, time, remote, spawn,
    get, destroy, history, TypeOK, States, Rows, Starting, Live
<1>16. ASSUME NEW d \in Destroyers, HandleDestroy(d) PROVE Rows' /\ Starting'
  BY <1>16, ConstantsAssumption DEF HandleDestroy, plane, table, time, remote, spawn, get,
    destroy, history, TypeOK, States, Rows, Starting, Live
<1>17. ASSUME NEW d \in Destroyers, Mark(d) PROVE Rows' /\ Starting'
  BY <1>17, ConstantsAssumption DEF Mark, End, plane, table, time, remote, spawn, get,
    destroy, history, TypeOK, States, Rows, Starting, Live
<1>18. ASSUME NEW s \in Sandboxes, SpawnRemote(s) PROVE Rows' /\ Starting'
  BY <1>18, ConstantsAssumption DEF SpawnRemote, plane, table, time, remote, spawn, get,
    destroy, history, TypeOK, States, Rows, Starting, Live
<1>19. ASSUME NEW s \in Sandboxes, HandleSpawn(s) PROVE Rows' /\ Starting'
  BY <1>19, ConstantsAssumption DEF HandleSpawn, Waiting, plane, table, time, remote, spawn,
    get, destroy, history, TypeOK, States, Rows, Starting, Live
<1>20. ASSUME NEW s \in Sandboxes, RefuseSpawn(s) PROVE Rows' /\ Starting'
  BY <1>20, ConstantsAssumption DEF RefuseSpawn, Waiting, SpawnFailed, plane, table, time,
    remote, spawn, get, destroy, history, TypeOK, States, Rows, Starting, Live
<1>21. ASSUME NEW s \in Sandboxes, Get(s) PROVE Rows' /\ Starting'
  BY <1>21, ConstantsAssumption DEF Get, Reachable, Live, plane, table, time, remote, spawn,
    get, destroy, history, TypeOK, States, Rows, Starting
<1>22. ASSUME NEW s \in Sandboxes, ExtendTTL(s) PROVE Rows' /\ Starting'
  BY <1>22, ConstantsAssumption DEF ExtendTTL, Fault, Live, plane, table, time, remote,
    spawn, get, destroy, history, TypeOK, States, Rows, Starting
<1>23. ASSUME NEW s \in Sandboxes, Sweep(s) PROVE Rows' /\ Starting'
  BY <1>23, ConstantsAssumption DEF Sweep, TakeToken, Reachable, Live, plane, table, time,
    remote, spawn, get, destroy, history, TypeOK, States, Rows, Starting
<1>24. ASSUME NEW s \in Sandboxes, RuntimeEnds(s) PROVE Rows' /\ Starting'
  BY <1>24, ConstantsAssumption DEF RuntimeEnds, Fault, plane, table, time, remote, spawn,
    get, destroy, history, TypeOK, States, Rows, Starting, Live
<1>25. ASSUME NEW s \in Sandboxes, Expire(s) PROVE Rows' /\ Starting'
  BY <1>25, ConstantsAssumption DEF Expire, plane, table, time, remote, spawn, get, destroy,
    history, TypeOK, States, Rows, Starting, Live
<1>26. ASSUME NEW s \in Sandboxes, Lapse(s) PROVE Rows' /\ Starting'
  BY <1>26, ConstantsAssumption DEF Lapse, plane, table, time, remote, spawn, get, destroy,
    history, TypeOK, States, Rows, Starting, Live
<1>27. ASSUME NEW s \in Sandboxes, ReconcileRefreshes(s) PROVE Rows' /\ Starting'
  BY <1>27, ConstantsAssumption DEF ReconcileRefreshes, Report, WriteRow, plane, table,
    time, remote, spawn, get, destroy, history, TypeOK, States, Rows, Starting, Live
<1>28. ASSUME NEW s \in Sandboxes, ReconcileKeeps(s) PROVE Rows' /\ Starting'
  BY <1>28, ConstantsAssumption DEF ReconcileKeeps, plane, table, time, remote, spawn, get,
    destroy, history, TypeOK, States, Rows, Starting, Live
<1>29. ASSUME NEW s \in Sandboxes, ReconcileMarks(s) PROVE Rows' /\ Starting'
  BY <1>29, ConstantsAssumption DEF ReconcileMarks, plane, table, time, remote, spawn, get,
    destroy, history, TypeOK, States, Rows, Starting, Live
<1>30. ASSUME NEW s \in Sandboxes, NEW d \in Clients, Request(d, s) PROVE Rows' /\ Starting'
  BY <1>30, ConstantsAssumption DEF Request, TakeToken, Reachable, plane, table, time,
    remote, spawn, get, destroy, history, TypeOK, States, Rows, Starting, Live
<1>31. CASE UNCHANGED vars
  BY <1>31 DEF vars, plane, table, time, remote, spawn, get, destroy, history, TypeOK,
    States, Rows, Starting, Live
<1> QED
  BY <1>1, <1>2, <1>3, <1>4, <1>5, <1>6, <1>7, <1>8, <1>9, <1>10, <1>11, <1>12, <1>13,
    <1>14, <1>15, <1>16, <1>17, <1>18, <1>19, <1>20, <1>21, <1>22, <1>23, <1>24, <1>25, <1>26,
    <1>27, <1>28, <1>29, <1>30, <1>31
  DEF Next, SpawnStep, GetStep, DestroyStep, WorkerStep, ReconcileStep

\* Every step keeps the lease of a live sandbox that has not expired.
LEMMA StepLeases == ASSUME TypeOK, Rows, Starting, Leases, [Next]_vars PROVE Leases'
<1>1. CASE GiveUp
  BY <1>1 DEF GiveUp, SpawnFailed, plane, table, time, remote, spawn, get, destroy, history,
    TypeOK, Rows, Starting, Leases, Live
<1>2. CASE CreateRow
  BY <1>2 DEF CreateRow, SpawnFailed, plane, table, time, remote, spawn, get, destroy,
    history, TypeOK, Rows, Starting, Leases, Live
<1>3. CASE CacheSandbox
  BY <1>3 DEF CacheSandbox, plane, table, time, remote, spawn, get, destroy, history,
    TypeOK, Rows, Starting, Leases, Live
<1>4. CASE StatusFails
  BY <1>4 DEF StatusFails, Done, plane, table, time, remote, spawn, get, destroy, history,
    TypeOK, Rows, Starting, Leases, Live
<1>5. CASE HandleStatus
  BY <1>5 DEF HandleStatus, Report, plane, table, time, remote, spawn, get, destroy,
    history, TypeOK, Rows, Starting, Leases, Live
<1>6. CASE WriteStatus
  <2>1. gid \in Sandboxes /\ gans \in {"running", "destroyed"}
    BY <1>6, ConstantsAssumption DEF WriteStatus, TypeOK
  <2>2. CASE UNCHANGED <<row, revived>>
    BY <1>6, <2>1, <2>2 DEF WriteStatus, Done, plane, time, remote, spawn, destroy, TypeOK,
      Rows, Starting, Leases, Live
  <2>3. CASE /\ row' = [row EXCEPT ![gid] = gans]
             /\ revived' = IF gans = "running" /\ row[gid] \in {"destroyed", "expired"}
                             THEN revived \cup {gid} ELSE revived
    <3>1. UNCHANGED <<leased, lapsed, due, extended>>
      BY <1>6 DEF WriteStatus, time
    <3>2. \A s \in Sandboxes \ {gid} : row'[s] = row[s]
      BY <2>1, <2>3 DEF TypeOK
    <3>3. row'[gid] = gans /\ row[gid] # "none"
      BY <2>1, <2>3 DEF TypeOK, Rows
    <3>4. row[gid] \in {"running", "unhealthy"} \/ gans = "destroyed" \/ gid \in revived'
      BY <2>1, <2>3, <3>3 DEF TypeOK, States
    <3>5. revived \subseteq revived'
      BY <2>3
    <3> QED
      BY <2>1, <3>1, <3>2, <3>3, <3>4, <3>5 DEF Leases, Live
  <2> QED
    BY <1>6, <2>2, <2>3 DEF WriteStatus, WriteRow
<1>7. CASE Restart
  BY <1>7 DEF Restart, Fault, Done, Live, plane, table, time, remote, spawn, get, destroy,
    history, TypeOK, Rows, Starting, Leases
<1>8. CASE Serve
  BY <1>8 DEF Serve, plane, table, time, remote, spawn, get, destroy, history, TypeOK, Rows,
    Starting, Leases, Live
<1>9. ASSUME NEW w \in Workers, Heartbeat(w) PROVE Leases'
  BY <1>9 DEF Heartbeat, plane, table, time, remote, spawn, get, destroy, history, TypeOK,
    Rows, Starting, Leases, Live
<1>10. ASSUME NEW w \in Workers, GoStale(w) PROVE Leases'
  BY <1>10 DEF GoStale, Fault, plane, table, time, remote, spawn, get, destroy, history,
    TypeOK, Rows, Starting, Leases, Live
<1>11. ASSUME NEW w \in Workers, DeleteWorker(w) PROVE Leases'
  BY <1>11 DEF DeleteWorker, Fault, plane, table, time, remote, spawn, get, destroy,
    history, TypeOK, Rows, Starting, Leases, Live
<1>12. ASSUME NEW w \in Workers, Drain(w) PROVE Leases'
  BY <1>12 DEF Drain, plane, table, time, remote, spawn, get, destroy, history, TypeOK,
    Rows, Starting, Leases, Live
<1>13. ASSUME NEW w \in Workers, WorkerStops(w) PROVE Leases'
  BY <1>13 DEF WorkerStops, Fault, plane, table, time, remote, spawn, get, destroy, history,
    TypeOK, Rows, Starting, Leases, Live
<1>14. ASSUME NEW w \in Workers, WorkerStarts(w) PROVE Leases'
  BY <1>14 DEF WorkerStarts, plane, table, time, remote, spawn, get, destroy, history,
    TypeOK, Rows, Starting, Leases, Live
<1>15. ASSUME NEW d \in Destroyers, DestroyFails(d) PROVE Leases'
  BY <1>15 DEF DestroyFails, End, plane, table, time, remote, spawn, get, destroy, history,
    TypeOK, Rows, Starting, Leases, Live
<1>16. ASSUME NEW d \in Destroyers, HandleDestroy(d) PROVE Leases'
  BY <1>16 DEF HandleDestroy, plane, table, time, remote, spawn, get, destroy, history,
    TypeOK, Rows, Starting, Leases, Live
<1>17. ASSUME NEW d \in Destroyers, Mark(d) PROVE Leases'
  BY <1>17 DEF Mark, End, plane, table, time, remote, spawn, get, destroy, history, TypeOK,
    Rows, Starting, Leases, Live
<1>18. ASSUME NEW s \in Sandboxes, SpawnRemote(s) PROVE Leases'
  BY <1>18 DEF SpawnRemote, plane, table, time, remote, spawn, get, destroy, history,
    TypeOK, Rows, Starting, Leases, Live
<1>19. ASSUME NEW s \in Sandboxes, HandleSpawn(s) PROVE Leases'
  BY <1>19 DEF HandleSpawn, Waiting, plane, table, time, remote, spawn, get, destroy,
    history, TypeOK, Rows, Starting, Leases, Live
<1>20. ASSUME NEW s \in Sandboxes, RefuseSpawn(s) PROVE Leases'
  BY <1>20 DEF RefuseSpawn, Waiting, SpawnFailed, plane, table, time, remote, spawn, get,
    destroy, history, TypeOK, Rows, Starting, Leases, Live
<1>21. ASSUME NEW s \in Sandboxes, Get(s) PROVE Leases'
  BY <1>21 DEF Get, Reachable, Live, plane, table, time, remote, spawn, get, destroy,
    history, TypeOK, Rows, Starting, Leases
<1>22. ASSUME NEW s \in Sandboxes, ExtendTTL(s) PROVE Leases'
  BY <1>22 DEF ExtendTTL, Fault, Live, plane, table, time, remote, spawn, get, destroy,
    history, TypeOK, Rows, Starting, Leases
<1>23. ASSUME NEW s \in Sandboxes, Sweep(s) PROVE Leases'
  BY <1>23 DEF Sweep, TakeToken, Reachable, Live, plane, table, time, remote, spawn, get,
    destroy, history, TypeOK, Rows, Starting, Leases
<1>24. ASSUME NEW s \in Sandboxes, RuntimeEnds(s) PROVE Leases'
  BY <1>24 DEF RuntimeEnds, Fault, plane, table, time, remote, spawn, get, destroy, history,
    TypeOK, Rows, Starting, Leases, Live
<1>25. ASSUME NEW s \in Sandboxes, Expire(s) PROVE Leases'
  BY <1>25 DEF Expire, plane, table, time, remote, spawn, get, destroy, history, TypeOK,
    Rows, Starting, Leases, Live
<1>26. ASSUME NEW s \in Sandboxes, Lapse(s) PROVE Leases'
  BY <1>26 DEF Lapse, plane, table, time, remote, spawn, get, destroy, history, TypeOK,
    Rows, Starting, Leases, Live
<1>27. ASSUME NEW s \in Sandboxes, ReconcileRefreshes(s) PROVE Leases'
  BY <1>27 DEF ReconcileRefreshes, Report, WriteRow, plane, table, time, remote, spawn, get,
    destroy, history, TypeOK, Rows, Starting, Leases, Live
<1>28. ASSUME NEW s \in Sandboxes, ReconcileKeeps(s) PROVE Leases'
  BY <1>28 DEF ReconcileKeeps, plane, table, time, remote, spawn, get, destroy, history,
    TypeOK, Rows, Starting, Leases, Live
<1>29. ASSUME NEW s \in Sandboxes, ReconcileMarks(s) PROVE Leases'
  BY <1>29 DEF ReconcileMarks, plane, table, time, remote, spawn, get, destroy, history,
    TypeOK, Rows, Starting, Leases, Live
<1>30. ASSUME NEW s \in Sandboxes, NEW d \in Clients, Request(d, s) PROVE Leases'
  BY <1>30 DEF Request, TakeToken, Reachable, plane, table, time, remote, spawn, get,
    destroy, history, TypeOK, Rows, Starting, Leases, Live
<1>31. CASE UNCHANGED vars
  BY <1>31 DEF vars, plane, table, time, remote, spawn, get, destroy, history, TypeOK, Rows,
    Starting, Leases, Live
<1> QED
  BY <1>1, <1>2, <1>3, <1>4, <1>5, <1>6, <1>7, <1>8, <1>9, <1>10, <1>11, <1>12, <1>13,
    <1>14, <1>15, <1>16, <1>17, <1>18, <1>19, <1>20, <1>21, <1>22, <1>23, <1>24, <1>25, <1>26,
    <1>27, <1>28, <1>29, <1>30, <1>31
  DEF Next, SpawnStep, GetStep, DestroyStep, WorkerStep, ReconcileStep

\* Every step keeps every runtime on record.
LEMMA StepAccounted ==
  ASSUME TypeOK, Rows, Starting, Accounted, [Next]_vars PROVE Accounted'
<1>1. CASE GiveUp
  BY <1>1 DEF GiveUp, SpawnFailed, plane, table, time, remote, spawn, get, destroy, history,
    TypeOK, Rows, Starting, Accounted, RuntimeAccounted, Live, Waiting
<1>2. CASE CreateRow
  BY <1>2 DEF CreateRow, SpawnFailed, plane, table, time, remote, spawn, get, destroy,
    history, TypeOK, Rows, Starting, Accounted, RuntimeAccounted, Live, Waiting
<1>3. CASE CacheSandbox
  BY <1>3 DEF CacheSandbox, plane, table, time, remote, spawn, get, destroy, history,
    TypeOK, Rows, Starting, Accounted, RuntimeAccounted, Live, Waiting
<1>4. CASE StatusFails
  BY <1>4 DEF StatusFails, Done, plane, table, time, remote, spawn, get, destroy, history,
    TypeOK, Rows, Starting, Accounted, RuntimeAccounted, Live, Waiting
<1>5. CASE HandleStatus
  BY <1>5 DEF HandleStatus, Report, plane, table, time, remote, spawn, get, destroy,
    history, TypeOK, Rows, Starting, Accounted, RuntimeAccounted, Live, Waiting
<1>6. CASE WriteStatus
  BY <1>6 DEF WriteStatus, Done, WriteRow, plane, table, time, remote, spawn, get, destroy,
    history, TypeOK, Rows, Starting, Accounted, RuntimeAccounted, Live, Waiting
<1>7. CASE Restart
  BY <1>7 DEF Restart, Fault, Done, Live, plane, table, time, remote, spawn, get, destroy,
    history, TypeOK, Rows, Starting, Accounted, RuntimeAccounted, Waiting
<1>8. CASE Serve
  BY <1>8 DEF Serve, plane, table, time, remote, spawn, get, destroy, history, TypeOK, Rows,
    Starting, Accounted, RuntimeAccounted, Live, Waiting
<1>9. ASSUME NEW w \in Workers, Heartbeat(w) PROVE Accounted'
  BY <1>9 DEF Heartbeat, plane, table, time, remote, spawn, get, destroy, history, TypeOK,
    Rows, Starting, Accounted, RuntimeAccounted, Live, Waiting
<1>10. ASSUME NEW w \in Workers, GoStale(w) PROVE Accounted'
  BY <1>10 DEF GoStale, Fault, plane, table, time, remote, spawn, get, destroy, history,
    TypeOK, Rows, Starting, Accounted, RuntimeAccounted, Live, Waiting
<1>11. ASSUME NEW w \in Workers, DeleteWorker(w) PROVE Accounted'
  BY <1>11 DEF DeleteWorker, Fault, plane, table, time, remote, spawn, get, destroy,
    history, TypeOK, Rows, Starting, Accounted, RuntimeAccounted, Live, Waiting
<1>12. ASSUME NEW w \in Workers, Drain(w) PROVE Accounted'
  BY <1>12 DEF Drain, plane, table, time, remote, spawn, get, destroy, history, TypeOK,
    Rows, Starting, Accounted, RuntimeAccounted, Live, Waiting
<1>13. ASSUME NEW w \in Workers, WorkerStops(w) PROVE Accounted'
  BY <1>13 DEF WorkerStops, Fault, plane, table, time, remote, spawn, get, destroy, history,
    TypeOK, Rows, Starting, Accounted, RuntimeAccounted, Live, Waiting
<1>14. ASSUME NEW w \in Workers, WorkerStarts(w) PROVE Accounted'
  BY <1>14 DEF WorkerStarts, plane, table, time, remote, spawn, get, destroy, history,
    TypeOK, Rows, Starting, Accounted, RuntimeAccounted, Live, Waiting
<1>15. ASSUME NEW d \in Destroyers, DestroyFails(d) PROVE Accounted'
  BY <1>15 DEF DestroyFails, End, plane, table, time, remote, spawn, get, destroy, history,
    TypeOK, Rows, Starting, Accounted, RuntimeAccounted, Live, Waiting
<1>16. ASSUME NEW d \in Destroyers, HandleDestroy(d) PROVE Accounted'
  BY <1>16 DEF HandleDestroy, plane, table, time, remote, spawn, get, destroy, history,
    TypeOK, Rows, Starting, Accounted, RuntimeAccounted, Live, Waiting
<1>17. ASSUME NEW d \in Destroyers, Mark(d) PROVE Accounted'
  BY <1>17 DEF Mark, End, plane, table, time, remote, spawn, get, destroy, history, TypeOK,
    Rows, Starting, Accounted, RuntimeAccounted, Live, Waiting
<1>18. ASSUME NEW s \in Sandboxes, SpawnRemote(s) PROVE Accounted'
  BY <1>18 DEF SpawnRemote, plane, table, time, remote, spawn, get, destroy, history,
    TypeOK, Rows, Starting, Accounted, RuntimeAccounted, Live, Waiting
<1>19. ASSUME NEW s \in Sandboxes, HandleSpawn(s) PROVE Accounted'
  BY <1>19 DEF HandleSpawn, Waiting, plane, table, time, remote, spawn, get, destroy,
    history, TypeOK, Rows, Starting, Accounted, RuntimeAccounted, Live
<1>20. ASSUME NEW s \in Sandboxes, RefuseSpawn(s) PROVE Accounted'
  BY <1>20 DEF RefuseSpawn, Waiting, SpawnFailed, plane, table, time, remote, spawn, get,
    destroy, history, TypeOK, Rows, Starting, Accounted, RuntimeAccounted, Live
<1>21. ASSUME NEW s \in Sandboxes, Get(s) PROVE Accounted'
  BY <1>21 DEF Get, Reachable, Live, plane, table, time, remote, spawn, get, destroy,
    history, TypeOK, Rows, Starting, Accounted, RuntimeAccounted, Waiting
<1>22. ASSUME NEW s \in Sandboxes, ExtendTTL(s) PROVE Accounted'
  BY <1>22 DEF ExtendTTL, Fault, Live, plane, table, time, remote, spawn, get, destroy,
    history, TypeOK, Rows, Starting, Accounted, RuntimeAccounted, Waiting
<1>23. ASSUME NEW s \in Sandboxes, Sweep(s) PROVE Accounted'
  BY <1>23 DEF Sweep, TakeToken, Reachable, Live, plane, table, time, remote, spawn, get,
    destroy, history, TypeOK, Rows, Starting, Accounted, RuntimeAccounted, Waiting
<1>24. ASSUME NEW s \in Sandboxes, RuntimeEnds(s) PROVE Accounted'
  BY <1>24 DEF RuntimeEnds, Fault, plane, table, time, remote, spawn, get, destroy, history,
    TypeOK, Rows, Starting, Accounted, RuntimeAccounted, Live, Waiting
<1>25. ASSUME NEW s \in Sandboxes, Expire(s) PROVE Accounted'
  BY <1>25 DEF Expire, plane, table, time, remote, spawn, get, destroy, history, TypeOK,
    Rows, Starting, Accounted, RuntimeAccounted, Live, Waiting
<1>26. ASSUME NEW s \in Sandboxes, Lapse(s) PROVE Accounted'
  BY <1>26 DEF Lapse, plane, table, time, remote, spawn, get, destroy, history, TypeOK,
    Rows, Starting, Accounted, RuntimeAccounted, Live, Waiting
<1>27. ASSUME NEW s \in Sandboxes, ReconcileRefreshes(s) PROVE Accounted'
  BY <1>27 DEF ReconcileRefreshes, Report, WriteRow, plane, table, time, remote, spawn, get,
    destroy, history, TypeOK, Rows, Starting, Accounted, RuntimeAccounted, Live, Waiting
<1>28. ASSUME NEW s \in Sandboxes, ReconcileKeeps(s) PROVE Accounted'
  BY <1>28 DEF ReconcileKeeps, plane, table, time, remote, spawn, get, destroy, history,
    TypeOK, Rows, Starting, Accounted, RuntimeAccounted, Live, Waiting
<1>29. ASSUME NEW s \in Sandboxes, ReconcileMarks(s) PROVE Accounted'
  BY <1>29 DEF ReconcileMarks, plane, table, time, remote, spawn, get, destroy, history,
    TypeOK, Rows, Starting, Accounted, RuntimeAccounted, Live, Waiting
<1>30. ASSUME NEW s \in Sandboxes, NEW d \in Clients, Request(d, s) PROVE Accounted'
  BY <1>30 DEF Request, TakeToken, Reachable, plane, table, time, remote, spawn, get,
    destroy, history, TypeOK, Rows, Starting, Accounted, RuntimeAccounted, Live, Waiting
<1>31. CASE UNCHANGED vars
  BY <1>31 DEF vars, plane, table, time, remote, spawn, get, destroy, history, TypeOK, Rows,
    Starting, Accounted, RuntimeAccounted, Live, Waiting
<1> QED
  BY <1>1, <1>2, <1>3, <1>4, <1>5, <1>6, <1>7, <1>8, <1>9, <1>10, <1>11, <1>12, <1>13,
    <1>14, <1>15, <1>16, <1>17, <1>18, <1>19, <1>20, <1>21, <1>22, <1>23, <1>24, <1>25, <1>26,
    <1>27, <1>28, <1>29, <1>30, <1>31
  DEF Next, SpawnStep, GetStep, DestroyStep, WorkerStep, ReconcileStep

\* A worker that is placed on was eligible.
LEMMA PlacedEligible ==
  ASSUME NEW local \in LocalCounts, NEW registered \in BOOLEAN,
         NEW w \in Placement(local, registered) \cap Workers
  PROVE  Eligible(w)
BY DEF Placement, Workers

\* What counts against a worker is a finite set.
LEMMA CountedFinite ==
  ASSUME IsFiniteSet(Known), NEW w
  PROVE  /\ IsFiniteSet(Active(w)) /\ Cardinality(Active(w)) \in Nat
         /\ IsFiniteSet(Counted(w)) /\ Cardinality(Counted(w)) \in Nat
         /\ Cardinality(Counted(w)) <= Cardinality(Active(w))
<1>1. Active(w) \in SUBSET Known /\ Counted(w) \in SUBSET Active(w)
  BY DEF Active, Known, Counted
<1>2. IsFiniteSet(Active(w))
  BY <1>1, FS_Subset
<1>3. IsFiniteSet(Counted(w)) /\ Cardinality(Counted(w)) <= Cardinality(Active(w))
  BY <1>1, <1>2, FS_Subset
<1> QED
  BY <1>2, <1>3, FS_CardinalityType

\* Steps that insert no row: what is counted does not grow, and a call that
\* waits has waited before.
Shrinks ==
  /\ Known' \subseteq Known
  /\ \A w \in Workers : Counted(w)' \subseteq Counted(w)
  /\ Pending' => Pending /\ sid' = sid /\ home'[sid] = home[sid]

LEMMA RoomKept ==
  ASSUME TypeOK, Room, Shrinks, Pending => home[sid] \in Workers
  PROVE  Room'
<1>1. IsFiniteSet(Known)'
  BY FS_Subset DEF Room, Shrinks
<1>2. ASSUME NEW w \in Workers PROVE Cardinality(Counted(w))' <= Cardinality(Counted(w))
  <2>1. IsFiniteSet(Counted(w)) /\ Counted(w)' \in SUBSET Counted(w)
    BY CountedFinite DEF Room, Shrinks
  <2> QED
    BY <2>1, FS_Subset
<1>3. ASSUME NEW w \in Workers
      PROVE  Cardinality(Counted(w)) \in Nat /\ Cardinality(Counted(w))' \in Nat
  <2>1. Cardinality(Counted(w)) \in Nat
    BY CountedFinite DEF Room
  <2>2. IsFiniteSet(Counted(w)) /\ Counted(w)' \in SUBSET Counted(w)
    BY CountedFinite DEF Room, Shrinks
  <2> QED
    BY <2>1, <2>2, FS_Subset, FS_CardinalityType
<1>4. WorkerCapacity'
  <2>1. ASSUME NEW w \in Workers, MaxSandboxes > 0
        PROVE  Cardinality(Counted(w))' <= MaxSandboxes
    <3>1. Cardinality(Counted(w)) <= MaxSandboxes
      BY <2>1 DEF Room, WorkerCapacity, Counted
    <3> QED
      BY <1>2, <1>3, <3>1, ConstantsAssumption
  <2> QED
    BY <2>1 DEF WorkerCapacity, Counted
<1>5. ASSUME Pending', MaxSandboxes > 0
      PROVE  Cardinality(Counted(home[sid])') < MaxSandboxes
  <2>1. PICK w \in Workers : w = home[sid] /\ w = home'[sid']
    BY <1>5 DEF Shrinks
  <2>2. Cardinality(Counted(w)) < MaxSandboxes
    BY <1>5, <2>1 DEF Room, Shrinks
  <2> QED
    BY <1>2, <1>3, <2>1, <2>2, ConstantsAssumption
<1> QED
  BY <1>1, <1>4, <1>5 DEF Room

\* Every step keeps every worker within its capacity.
LEMMA StepRoom == ASSUME TypeOK, Rows, Starting, Room, [Next]_vars PROVE Room'
<1>1. Pending => sid \in Sandboxes /\ home[sid] \in Workers
  BY ConstantsAssumption DEF Pending, Rows, TypeOK
<1>2. ASSUME Shrinks PROVE Room'
  BY <1>1, <1>2, RoomKept
<1>3. CASE UNCHANGED <<row, home, revived, spc, sid>>
  BY <1>2, <1>3 DEF Shrinks, Known, Counted, Active, Pending
<1>4. CASE GiveUp \/ CacheSandbox
  <2>1. ~Pending' /\ UNCHANGED <<row, home, revived>>
    BY <1>4 DEF GiveUp, CacheSandbox, SpawnFailed, Pending, history
  <2> QED
    BY <1>2, <2>1 DEF Shrinks, Known, Counted, Active
<1>5. CASE CreateRow
  <2>1. CASE UNCHANGED row
    <3>1. ~Pending' /\ UNCHANGED <<home, revived>>
      BY <1>5, <2>1 DEF CreateRow, SpawnFailed, Pending, TypeOK, Rows
    <3> QED
      BY <1>2, <2>1, <3>1 DEF Shrinks, Known, Counted, Active
  <2>2. CASE row' = [row EXCEPT ![sid] = "running"] /\ spc' = "persisted"
    <3>1. Pending /\ ~Pending' /\ UNCHANGED <<home, revived>>
      BY <1>5, <2>2 DEF CreateRow, Pending
    <3>2. Known' = Known \cup {sid}
      BY <1>1, <2>2, <3>1 DEF Known, TypeOK
    <3>3. IsFiniteSet(Known')
      BY <3>2, FS_AddElement DEF Room
    <3>4. ASSUME NEW w \in Workers, MaxSandboxes > 0
          PROVE  Cardinality(Counted(w)') <= MaxSandboxes
      <4>1. IsFiniteSet(Counted(w)) /\ Cardinality(Counted(w)) \in Nat
        BY CountedFinite DEF Room
      <4>2. CASE w = home[sid]
        <5>1. Counted(w)' \in SUBSET (Counted(w) \cup {sid})
          BY <1>1, <2>2, <3>1 DEF Counted, Active, TypeOK
        <5>2. Cardinality(Counted(w)) < MaxSandboxes
          BY <3>1, <3>4, <4>2 DEF Room
        <5>3. /\ IsFiniteSet(Counted(w) \cup {sid})
              /\ Cardinality(Counted(w) \cup {sid}) <= Cardinality(Counted(w)) + 1
          BY <4>1, FS_AddElement
        <5>4. /\ Cardinality(Counted(w)') <= Cardinality(Counted(w) \cup {sid})
              /\ Cardinality(Counted(w)') \in Nat
              /\ Cardinality(Counted(w) \cup {sid}) \in Nat
          BY <5>1, <5>3, FS_Subset, FS_CardinalityType
        <5> QED
          BY <4>1, <5>2, <5>3, <5>4, ConstantsAssumption
      <4>3. CASE w # home[sid]
        <5>1. Counted(w)' \in SUBSET Counted(w)
          BY <1>1, <2>2, <3>1, <4>3 DEF Counted, Active, TypeOK
        <5>2. /\ Cardinality(Counted(w)') <= Cardinality(Counted(w))
              /\ Cardinality(Counted(w)') \in Nat
          BY <4>1, <5>1, FS_Subset, FS_CardinalityType
        <5> QED
          BY <3>4, <4>1, <5>2, ConstantsAssumption DEF Room, WorkerCapacity, Counted
      <4> QED BY <4>2, <4>3
    <3> QED
      BY <3>1, <3>3, <3>4 DEF Room, WorkerCapacity, Counted
  <2> QED
    BY <1>5, <2>1, <2>2 DEF CreateRow
<1>6. CASE WriteStatus
  <2>1. gid \in Sandboxes /\ gans \in {"running", "destroyed"} /\ row[gid] \in States
    BY <1>6, ConstantsAssumption DEF WriteStatus, TypeOK, Rows
  <2>2. UNCHANGED <<home, spc, sid>>
    BY <1>6 DEF WriteStatus, spawn
  <2>3. CASE UNCHANGED <<row, revived>>
    BY <1>3, <2>2, <2>3
  <2>4. CASE /\ row' = [row EXCEPT ![gid] = gans]
             /\ revived' = IF gans = "running" /\ row[gid] \in {"destroyed", "expired"}
                             THEN revived \cup {gid} ELSE revived
    <3>1. Known' \subseteq Known
      BY <2>1, <2>4 DEF Known, States, TypeOK
    <3>2. \A w \in Workers : Counted(w)' \subseteq Counted(w)
      BY <2>1, <2>2, <2>4 DEF Counted, Active, States, TypeOK
    <3> QED
      BY <1>2, <2>2, <3>1, <3>2 DEF Shrinks, Pending
  <2> QED
    BY <1>6, <2>3, <2>4 DEF WriteStatus, WriteRow
<1>7. CASE Restart
  <2>1. ~Pending' /\ UNCHANGED <<row, home, revived>>
    BY <1>7 DEF Restart, Pending
  <2> QED
    BY <1>2, <2>1 DEF Shrinks, Known, Counted, Active
<1>8. ASSUME NEW d \in Destroyers, Mark(d) PROVE Room'
  <2>1. did[d] \in Sandboxes /\ row[did[d]] # "none"
    BY <1>8, ConstantsAssumption DEF Mark, TypeOK, Rows
  <2>2. row' = [row EXCEPT ![did[d]] = "destroyed"] /\ UNCHANGED <<home, revived, spc, sid>>
    BY <1>8 DEF Mark, spawn, history
  <2> QED
    BY <1>2, <2>1, <2>2 DEF Shrinks, Known, Counted, Active, Pending, TypeOK
<1>9. ASSUME NEW s \in Sandboxes, SpawnRemote(s) PROVE Room'
  <2>1. PICK w \in Workers : Eligible(w) /\ home' = [home EXCEPT ![s] = w]
    BY <1>9, PlacedEligible DEF SpawnRemote
  <2>2. sid' = s /\ home'[s] = w /\ UNCHANGED <<row, revived>> /\ row[s] = "none"
    BY <1>9, <2>1 DEF SpawnRemote, history, TypeOK, Rows
  <2>3. Known' = Known /\ \A v \in Workers : Counted(v)' = Counted(v)
    BY <2>1, <2>2 DEF Known, Counted, Active, TypeOK
  <2>4. ASSUME MaxSandboxes > 0 PROVE Cardinality(Counted(w)') < MaxSandboxes
    <3>1. Cardinality(Active(w)) < MaxSandboxes
      BY <2>1, <2>4, ConstantsAssumption DEF Eligible, Fits
    <3> QED
      BY <2>3, <3>1, CountedFinite, ConstantsAssumption DEF Room
  <2> QED
    BY <2>2, <2>3, <2>4 DEF Room, WorkerCapacity, Counted
<1>10. ASSUME NEW s \in Sandboxes, HandleSpawn(s) \/ RefuseSpawn(s) PROVE Room'
  <2>1. UNCHANGED <<row, home, revived>> /\ (Pending' => Pending /\ sid' = sid)
    BY <1>10 DEF HandleSpawn, RefuseSpawn, Waiting, SpawnFailed, Pending, table, history, spawn
  <2> QED
    BY <1>2, <2>1 DEF Shrinks, Known, Counted, Active
<1>11. ASSUME NEW s \in Sandboxes, ReconcileRefreshes(s) PROVE Room'
  <2>1. row[s] \in States \ {"destroyed"} /\ UNCHANGED <<home, spc, sid>>
    BY <1>11 DEF ReconcileRefreshes, Starting, Live, States, spawn
  <2>2. CASE UNCHANGED <<row, revived>>
    BY <1>3, <2>1, <2>2
  <2>3. CASE /\ row' = [row EXCEPT ![s] = Report(s)]
             /\ revived' = IF Report(s) = "running" /\ row[s] \in {"destroyed", "expired"}
                             THEN revived \cup {s} ELSE revived
    <3>1. Report(s) \in {"running", "destroyed"}
      BY DEF Report
    <3>2. Known' \subseteq Known
      BY <2>1, <2>3, <3>1 DEF Known, States, TypeOK
    <3>3. \A w \in Workers : Counted(w)' \subseteq Counted(w)
      BY <2>1, <2>3, <3>1 DEF Counted, Active, States, TypeOK
    <3> QED
      BY <1>2, <2>1, <3>2, <3>3 DEF Shrinks, Pending
  <2> QED
    BY <1>11, <2>2, <2>3 DEF ReconcileRefreshes, WriteRow
<1>12. ASSUME NEW s \in Sandboxes, ReconcileMarks(s) PROVE Room'
  <2>1. row[s] \in States \ {"destroyed"} /\ UNCHANGED <<home, spc, sid>>
    BY <1>12 DEF ReconcileMarks, Starting, Live, States, spawn
  <2>2. PICK state \in {"expired", "unhealthy"} :
          /\ row' = [row EXCEPT ![s] = state]
          /\ state = "unhealthy" /\ row[s] = "expired" => s \in revived'
          /\ revived \subseteq revived'
    BY <1>12 DEF ReconcileMarks
  <2>3. Known' \subseteq Known
    BY <2>1, <2>2 DEF Known, States, TypeOK
  <2>4. \A w \in Workers : Counted(w)' \subseteq Counted(w)
    BY <2>1, <2>2 DEF Counted, Active, States, TypeOK
  <2> QED
    BY <1>2, <2>1, <2>3, <2>4 DEF Shrinks, Pending
<1>13. CASE StatusFails \/ HandleStatus \/ Serve \/ UNCHANGED vars
  BY <1>3, <1>13 DEF StatusFails, HandleStatus, Serve, vars, table, spawn, history
<1>14. ASSUME NEW w \in Workers, WorkerStep(w) PROVE Room'
  BY <1>3, <1>14 DEF WorkerStep, Heartbeat, GoStale, DeleteWorker, Drain, WorkerStops,
    WorkerStarts, table, spawn, history
<1>15. ASSUME NEW d \in Destroyers, DestroyFails(d) \/ HandleDestroy(d) PROVE Room'
  BY <1>3, <1>15 DEF DestroyFails, HandleDestroy, table, spawn, history
<1>16. ASSUME NEW s \in Sandboxes, Get(s) \/ ExtendTTL(s) \/ RuntimeEnds(s) \/ Expire(s)
                                    \/ Lapse(s) \/ ReconcileKeeps(s)
       PROVE  Room'
  BY <1>3, <1>16 DEF Get, ExtendTTL, RuntimeEnds, Expire, Lapse, ReconcileKeeps, table, spawn,
    history
<1>17. ASSUME NEW s \in Sandboxes, NEW d \in Destroyers, TakeToken(d, s) PROVE Room'
  BY <1>3, <1>17 DEF TakeToken, table, spawn, history
<1> QED
  BY <1>4, <1>5, <1>6, <1>7, <1>8, <1>9, <1>10, <1>11, <1>12, <1>13, <1>14, <1>15, <1>16, <1>17
  DEF Next, SpawnStep, GetStep, DestroyStep, ReconcileStep, Request, Sweep, Destroyers

\* The invariant holds in every reachable state.
THEOREM Invariance == Spec => []Inv
<1>1. Init => Inv
  BY InitInv
<1>2. Inv /\ [Next]_vars => Inv'
  BY StepTyped, StepRows, StepLeases, StepAccounted, StepRoom DEF Inv
<1> QED BY <1>1, <1>2, PTL DEF Spec

\* Variables keep their types, and calls their sandbox.
THEOREM TypeCorrect == Spec => []TypeOK
<1>1. Inv => TypeOK
  BY DEF Inv
<1> QED BY <1>1, Invariance, PTL

\* The lease of a remote sandbox holds until the sandbox expires, unless its
\* TTL was extended or a late status answer revived its row.
THEOREM LeaseHeldUntilDue == Spec => []LeaseHeld
<1>1. Inv => LeaseHeld
  BY DEF Inv, Leases, LeaseHeld
<1> QED BY <1>1, Invariance, PTL

\* Every runtime on a worker has a live row or a Spawn call that waits for it,
\* except after the named failures.
THEOREM RuntimesOnRecord == Spec => []RuntimeAccounted
<1>1. Inv => RuntimeAccounted
  BY DEF Inv, Accounted
<1> QED BY <1>1, Invariance, PTL

\* No worker has more live sandboxes than it reported room for, except for those
\* whose row came back from destroyed or expired.
THEOREM CapacityRespected == Spec => []WorkerCapacity
<1>1. Inv => WorkerCapacity
  BY DEF Inv, Room
<1> QED BY <1>1, Invariance, PTL

-----------------------------------------------------------------------------
(* The durable lease of one resource (LeaseStore), for any workers, calls, *)
(* durations and bounds.                                                   *)

\* What the other invariants need of the calls: one that has started has a
\* holder argument, and no call has read a time that is yet to come.
Typed ==
  /\ LeaseTypeOK
  /\ \A c \in Calls : at[c] <= clock
  /\ \A c \in Calls : pc[c] \in {"acquire", "renew", "release"} => who[c] \in Holders

\* A lease record that is still current is not ahead of the row, and names the
\* row's holder if it has the row's generation.
BehindRow ==
  \A c \in Calls :
    current[c] =>
      /\ token[c].generation <= generation
      /\ token[c].generation = generation => token[c].holder = holder

FenceInv == Typed /\ BehindRow /\ GenerationFences

\* The initial state satisfies the invariant.
LEMMA InitFence == ASSUME LeaseInit PROVE FenceInv
<1>1. Typed
  BY LeaseAssumption DEF LeaseInit, Typed, LeaseTypeOK, Tokens, NoToken
<1>2. BehindRow /\ GenerationFences
  BY DEF LeaseInit, BehindRow, GenerationFences
<1> QED BY <1>1, <1>2 DEF FenceInv

\* Every step preserves the types.
LEMMA StepLeaseTyped == ASSUME Typed, [LeaseNext]_leaseVars PROVE Typed'
<1> USE LeaseAssumption DEF Typed, LeaseTypeOK, leaseRow, call, result
<1>1. CASE Tick
  BY <1>1 DEF Tick
<1>2. ASSUME NEW c \in Calls, NEW h \in Holders, BeginRelease(c, h) PROVE Typed'
  BY <1>2 DEF BeginRelease
<1>3. ASSUME NEW c \in Calls, NEW h \in Holders, NEW t \in TTLs,
             Begin(c, "acquire", h, t) \/ Begin(c, "renew", h, t)
      PROVE  Typed'
  BY <1>3 DEF Begin
<1>4. ASSUME NEW c \in Calls, AcquireLease(c) PROVE Typed'
  BY <1>4 DEF AcquireLease
<1>5. ASSUME NEW c \in Calls, RenewLease(c) PROVE Typed'
  BY <1>5 DEF RenewLease
<1>6. ASSUME NEW c \in Calls, GetLease(c) PROVE Typed'
  <2>1. CASE holder = NoHolder
    BY <1>6, <2>1 DEF GetLease
  <2>2. CASE holder # NoHolder
    <3>1. [holder |-> holder, generation |-> generation, expires |-> expires] \in Tokens
      BY <2>2 DEF Tokens
    <3>2. token' \in [Calls -> Tokens \cup {NoToken}]
      BY <1>6, <2>2, <3>1 DEF GetLease
    <3> QED BY <1>6, <2>2, <3>2 DEF GetLease
  <2> QED BY <2>1, <2>2
<1>7. ASSUME NEW c \in Calls, ReleaseLease(c) PROVE Typed'
  <2>1. CASE holder = who[c]
    <3>1. current' \in [Calls -> BOOLEAN]
      BY <1>7, <2>1 DEF ReleaseLease
    <3>2. UNCHANGED <<clock, who, at, ttl, token>>
      BY <1>7 DEF ReleaseLease
    <3>3. holder' = NoHolder /\ generation' = 0 /\ expires' = 0
      BY <1>7, <2>1 DEF ReleaseLease
    <3>4. pc' = [pc EXCEPT ![c] = "idle"]
      BY <1>7 DEF ReleaseLease
    <3> QED BY <3>1, <3>2, <3>3, <3>4
  <2>2. CASE holder # who[c]
    <3>1. UNCHANGED <<clock, holder, generation, expires, who, at, ttl, token, current>>
      BY <1>7, <2>2 DEF ReleaseLease
    <3> QED BY <1>7, <3>1 DEF ReleaseLease
  <2> QED BY <2>1, <2>2
<1>8. ASSUME NEW c \in Calls, Forget(c) PROVE Typed'
  BY <1>8 DEF Forget
<1>9. CASE UNCHANGED leaseVars
  BY <1>9 DEF leaseVars
<1> QED BY <1>1, <1>2, <1>3, <1>4, <1>5, <1>6, <1>7, <1>8, <1>9 DEF LeaseNext, Statement

\* Every step keeps the records that are current behind the row and apart.
LEMMA StepFence == ASSUME FenceInv, [LeaseNext]_leaseVars PROVE (BehindRow /\ GenerationFences)'
<1> USE LeaseAssumption DEF FenceInv, Typed, LeaseTypeOK, BehindRow, GenerationFences, leaseRow, call, result
<1>1. CASE Tick
  BY <1>1 DEF Tick
<1>2. ASSUME NEW c \in Calls, NEW h \in Holders, BeginRelease(c, h)
      PROVE  (BehindRow /\ GenerationFences)'
  BY <1>2 DEF BeginRelease
<1>3. ASSUME NEW c \in Calls, NEW h \in Holders, NEW t \in TTLs,
             Begin(c, "acquire", h, t) \/ Begin(c, "renew", h, t)
      PROVE  (BehindRow /\ GenerationFences)'
  BY <1>3 DEF Begin
<1>4. ASSUME NEW c \in Calls, AcquireLease(c) PROVE (BehindRow /\ GenerationFences)'
  BY <1>4 DEF AcquireLease, Tokens, NoToken
<1>5. ASSUME NEW c \in Calls, RenewLease(c) PROVE (BehindRow /\ GenerationFences)'
  BY <1>5 DEF RenewLease, Tokens, NoToken
<1>6. ASSUME NEW c \in Calls, GetLease(c) PROVE (BehindRow /\ GenerationFences)'
  BY <1>6 DEF GetLease, Tokens, NoToken
<1>7. ASSUME NEW c \in Calls, ReleaseLease(c) PROVE (BehindRow /\ GenerationFences)'
  BY <1>7 DEF ReleaseLease
<1>8. ASSUME NEW c \in Calls, Forget(c) PROVE (BehindRow /\ GenerationFences)'
  BY <1>8 DEF Forget
<1>9. CASE UNCHANGED leaseVars
  BY <1>9 DEF leaseVars
<1> QED BY <1>1, <1>2, <1>3, <1>4, <1>5, <1>6, <1>7, <1>8, <1>9 DEF LeaseNext, Statement

\* FenceInv holds in every reachable state.
LEMMA FenceInvariant == LeaseSpec => []FenceInv
<1>1. FenceInv /\ [LeaseNext]_leaseVars => FenceInv'
  BY StepLeaseTyped, StepFence DEF FenceInv
<1> QED BY InitFence, <1>1, PTL DEF LeaseSpec

\* The variables keep their types, and a row exists exactly while its
\* generation is positive.
THEOREM LeaseTypeCorrect == LeaseSpec => []LeaseTypeOK
<1>1. FenceInv => LeaseTypeOK
  BY DEF FenceInv, Typed
<1> QED BY FenceInvariant, <1>1, PTL

\* Two current lease records with one generation name one holder.
THEOREM FencingCorrect == LeaseSpec => []GenerationFences
<1>1. FenceInv => GenerationFences
  BY DEF FenceInv
<1> QED BY FenceInvariant, <1>1, PTL

-----------------------------------------------------------------------------
(* LeaseStore implements LeaseOwnership.                                   *)

\* A step of the store is a step of the ownership, or leaves it alone.
LEMMA StepOwnership == ASSUME Typed, [LeaseNext]_leaseVars PROVE [Ownership!Next]_Owner
<1> USE LeaseAssumption
        DEF Typed, LeaseTypeOK, leaseRow, Owner, Ownership!Next, Ownership!GiveUp, Ownership!Take
<1>1. CASE Tick
  BY <1>1 DEF Tick
<1>2. ASSUME NEW c \in Calls, AcquireLease(c) PROVE [Ownership!Next]_Owner
  <2>1. CASE ~CanAcquire(c)
    BY <1>2, <2>1 DEF AcquireLease
  <2>2. CASE CanAcquire(c)
    <3>1. who[c] \in Holders /\ Owner' \in {who[c], NoHolder}
      BY <1>2, <2>2 DEF AcquireLease
    <3>2. Owner \in {who[c], NoHolder}
      BY <1>2, <2>2 DEF AcquireLease, CanAcquire
    <3>3. CASE Owner' = NoHolder
      BY <3>3
    <3>4. CASE Owner' = Owner
      BY <3>4
    <3>5. CASE Owner = NoHolder /\ Owner' = who[c]
      BY <3>1, <3>5
    <3> HIDE DEF Owner
    <3> QED BY <3>1, <3>2, <3>3, <3>4, <3>5
  <2> QED BY <2>1, <2>2
<1>3. ASSUME NEW c \in Calls, RenewLease(c) PROVE [Ownership!Next]_Owner
  BY <1>3 DEF RenewLease
<1>4. ASSUME NEW c \in Calls, ReleaseLease(c) PROVE [Ownership!Next]_Owner
  BY <1>4 DEF ReleaseLease
<1>5. CASE UNCHANGED <<clock, leaseRow>>
  BY <1>5
<1>6. ASSUME NEW c \in Calls,
             \/ GetLease(c) \/ Forget(c)
             \/ \E h \in Holders : \/ BeginRelease(c, h)
                                   \/ \E t \in TTLs : Begin(c, "acquire", h, t) \/ Begin(c, "renew", h, t)
      PROVE  UNCHANGED <<clock, leaseRow>>
  BY <1>6 DEF GetLease, Forget, BeginRelease, Begin
<1> QED BY <1>1, <1>2, <1>3, <1>4, <1>5, <1>6 DEF LeaseNext, Statement, leaseVars

\* The lease store keeps the promise of LeaseOwnership: a worker's unexpired
\* lease is never handed to another worker.
THEOREM OwnershipCorrect == LeaseSpec => ImplementsOwnership
<1>1. LeaseInit => Ownership!Init
  BY DEF LeaseInit, Owner, Ownership!Init
<1>2. Typed /\ [LeaseNext]_leaseVars => [Ownership!Next]_Owner
  BY StepOwnership
<1>3. FenceInv => Typed
  BY DEF FenceInv
<1> QED BY FenceInvariant, <1>1, <1>2, <1>3, PTL DEF LeaseSpec, ImplementsOwnership, Ownership!Spec

-----------------------------------------------------------------------------
(* The two stores (Stores).  Nothing here is about what a statement        *)
(* selects or in which order: the two databases are the same as long as    *)
(* Postgres has refused nothing, so one statement does the same to both.   *)

\* A lease refers to no row, and no row to a lease.
LeasesApart(s) ==
  \A t \in DOMAIN s : \A f \in s[t].refs : t # "leases" /\ f.table \in DOMAIN s \ {"leases"}

\* What a new table t may refer to.
MayRefer(s, t, refs) == \A f \in refs : t # "leases" /\ f.table \in DOMAIN s \ {"leases"}

\* The schema n keeps the tables of s and has table t.
Grown(s, t, n) == LeasesApart(n) /\ DOMAIN n = DOMAIN s \cup {t}

\* A database whose references are whole.
Sound(db) == DOMAIN db = DOMAIN Pg!schema /\ ~Pg!Dangling(Pg!schema, db)

\* A call that both stores answer alike, unless Postgres refuses it.
Matched(a, b) == b.err = "foreign key" \/ (a = b /\ Sound(b.db))

StoresInv == SameAnswers /\ (~refused => lite = pg /\ Sound(pg))

\* Both stores have the same tables after their migrations (migrations.go,
\* postgres_migrations.go).
LEMMA SameSchema == Lite!schema = Pg!schema
<1>1. /\ \A s, t, columns, unique, refs :
           Lite!CreateTable(s, t, columns, unique, refs) = Pg!CreateTable(s, t, columns, unique, refs)
      /\ \A s, t, columns : Lite!AddColumns(s, t, columns) = Pg!AddColumns(s, t, columns)
  BY DEF Lite!CreateTable, Pg!CreateTable, Lite!AddColumns, Pg!AddColumns, Lite!Table, Pg!Table
<1>2. \A s : /\ Lite!Migration1(s) = Pg!Migration1(s) /\ Lite!Migration2(s) = Pg!Migration2(s)
             /\ Lite!Migration3(s) = Pg!Migration3(s) /\ Lite!Migration4(s) = Pg!Migration4(s)
  BY <1>1, Zenon
  DEF Lite!Migration1, Pg!Migration1, Lite!Migration2, Pg!Migration2, Lite!Migration3, Pg!Migration3,
      Lite!Migration4, Pg!Migration4
<1>3. \A s : /\ Lite!Migration5(s) = Pg!Migration5(s) /\ Lite!Migration6(s) = Pg!Migration6(s)
             /\ Lite!Migration7(s) = Pg!Migration7(s) /\ Lite!Migration8(s) = Pg!Migration8(s)
  BY <1>1, Zenon
  DEF Lite!Migration5, Pg!Migration5, Lite!Migration6, Pg!Migration6, Lite!Migration7, Pg!Migration7,
      Lite!Migration8, Pg!Migration8
<1>4. \A s : /\ Lite!Migration9(s) = Pg!Migration9(s) /\ Lite!Migration10(s) = Pg!Migration10(s)
             /\ Lite!Migration11(s) = Pg!Migration11(s)
  BY <1>1, Zenon
  DEF Lite!Migration9, Pg!Migration9, Lite!Migration10, Pg!Migration10, Lite!Migration11, Pg!Migration11
<1>5. Lite!NoTables = Pg!NoTables
  BY DEF Lite!NoTables, Pg!NoTables, Lite!Table, Pg!Table
<1> QED BY <1>2, <1>3, <1>4, <1>5, Zenon DEF Lite!schema, Pg!schema

\* A new table refers to tables that are there, and not to the leases.
LEMMA TableCreated ==
  ASSUME NEW s, LeasesApart(s), NEW t, NEW columns, NEW unique, NEW refs,
         MayRefer(s, t, refs)
  PROVE  Grown(s, t, Pg!CreateTable(s, t, columns, unique, refs))
<1> DEFINE n == Pg!CreateTable(s, t, columns, unique, refs)
<1>1. DOMAIN n = DOMAIN s \cup {t}
  BY DEF Pg!CreateTable
<1>2. \A x \in DOMAIN n : IF x \in DOMAIN s THEN n[x] = s[x] ELSE x = t /\ n[x].refs = refs
  BY DEF Pg!CreateTable, Pg!Table
<1> HIDE DEF n
<1>3. ASSUME NEW x \in DOMAIN n, NEW f \in n[x].refs
      PROVE  x # "leases" /\ f.table \in DOMAIN n \ {"leases"}
  <2>1. CASE x \in DOMAIN s
    BY <1>1, <1>2, <1>3, <2>1 DEF LeasesApart
  <2>2. CASE x \notin DOMAIN s
    BY <1>1, <1>2, <1>3, <2>2 DEF MayRefer
  <2> QED BY <2>1, <2>2
<1> QED BY <1>1, <1>3 DEF Grown, LeasesApart, n

\* Columns that are added refer to nothing.
LEMMA ColumnsAdded ==
  ASSUME NEW s, LeasesApart(s), NEW t, NEW columns
  PROVE  LeasesApart(Pg!AddColumns(s, t, columns)) /\ DOMAIN Pg!AddColumns(s, t, columns) = DOMAIN s
<1> DEFINE n == Pg!AddColumns(s, t, columns)
<1>1. DOMAIN n = DOMAIN s /\ \A x \in DOMAIN s : n[x].refs = s[x].refs
  BY DEF Pg!AddColumns
<1> HIDE DEF n
<1> QED BY <1>1 DEF LeasesApart, n

\* A table that refers to nothing.
LEMMA PlainTable ==
  ASSUME NEW s, LeasesApart(s), NEW t, NEW columns, NEW unique
  PROVE  Grown(s, t, Pg!CreateTable(s, t, columns, unique, {}))
<1>1. MayRefer(s, t, {})
  BY DEF MayRefer
<1> QED BY <1>1, TableCreated, Zenon

\* A table of rows that belong to a row of another one.
LEMMA OwnedTable ==
  ASSUME NEW s, LeasesApart(s), NEW t, t # "leases", NEW columns, NEW unique,
         NEW column, NEW owner \in DOMAIN s, owner # "leases"
  PROVE  Grown(s, t, Pg!CreateTable(s, t, columns, unique, {[column |-> column, table |-> owner]}))
<1> DEFINE refs == {[column |-> column, table |-> owner]}
<1>1. \A f \in refs : f.table = owner
  OBVIOUS
<1>2. MayRefer(s, t, refs)
  BY <1>1 DEF MayRefer
<1> HIDE DEF refs
<1>3. Grown(s, t, Pg!CreateTable(s, t, columns, unique, refs))
  BY <1>2, TableCreated, Zenon
<1> QED BY <1>3 DEF refs

\* The schema that the migrations leave, from the first to the last.
LEMMA SchemaApart == LeasesApart(Pg!schema) /\ "leases" \in DOMAIN Pg!schema
<1>0. LeasesApart(Pg!NoTables)
  BY DEF LeasesApart, Pg!NoTables
<1>1. ASSUME NEW s, LeasesApart(s) PROVE LeasesApart(Pg!Migration1(s))
  <2> DEFINE s1 == Pg!CreateTable(s, "sandboxes", {"id", "state", "expires_at"}, {{"id"}}, {})
             s2 == Pg!CreateTable(s1, "exec_logs", {"sandbox_id", "command"}, {},
                     {[column |-> "sandbox_id", table |-> "sandboxes"]})
             s3 == Pg!CreateTable(s2, "provider_configs", {"name", "config"}, {{"name"}}, {})
  <2>1. Grown(s, "sandboxes", s1)
    BY <1>1, PlainTable, Zenon
  <2> HIDE DEF s1
  <2>2. LeasesApart(s1) /\ "sandboxes" \in DOMAIN s1
    BY <2>1 DEF Grown
  <2>3. Grown(s1, "exec_logs", s2)
    BY <2>2, OwnedTable, "sandboxes" # "leases", "exec_logs" # "leases", Zenon
  <2>4. LeasesApart(s2)
    BY <2>3, Zenon DEF Grown
  <2> HIDE DEF s2
  <2>5. LeasesApart(s3)
    BY <2>4, PlainTable, Zenon DEF Grown
  <2> QED BY <2>5, Zenon DEF Pg!Migration1, s3, s2, s1
<1>2. ASSUME NEW s, LeasesApart(s) PROVE LeasesApart(Pg!Migration2(s))
  BY <1>2, PlainTable, ColumnsAdded, Zenon DEF Pg!Migration2, Grown
<1>3. ASSUME NEW s, LeasesApart(s) PROVE LeasesApart(Pg!Migration3(s))
  <2> DEFINE s1 == Pg!CreateTable(s, "environment_specs", {"id", "owner_id", "name"},
                     {{"id"}, {"owner_id", "name"}}, {})
             s2 == Pg!CreateTable(s1, "environment_builds", {"id", "spec_id", "status"}, {{"id"}},
                     {[column |-> "spec_id", table |-> "environment_specs"]})
             s3 == Pg!CreateTable(s2, "environment_artifacts", {"build_id", "target", "status"},
                     {{"build_id", "target"}}, {[column |-> "build_id", table |-> "environment_builds"]})
             s4 == Pg!CreateTable(s3, "registry_connections", {"id", "owner_id", "username", "secret_ref"},
                     {{"id"}, {"owner_id", "username"}}, {})
  <2>1. Grown(s, "environment_specs", s1)
    BY <1>3, PlainTable, Zenon
  <2> HIDE DEF s1
  <2>2. LeasesApart(s1) /\ "environment_specs" \in DOMAIN s1
    BY <2>1 DEF Grown
  <2>3. Grown(s1, "environment_builds", s2)
    BY <2>2, OwnedTable, "environment_specs" # "leases", "environment_builds" # "leases", Zenon
  <2> HIDE DEF s2
  <2>4. LeasesApart(s2) /\ "environment_builds" \in DOMAIN s2
    BY <2>3 DEF Grown
  <2>5. Grown(s2, "environment_artifacts", s3)
    BY <2>4, OwnedTable, "environment_builds" # "leases", "environment_artifacts" # "leases", Zenon
  <2>6. LeasesApart(s3)
    BY <2>5, Zenon DEF Grown
  <2> HIDE DEF s3
  <2>7. LeasesApart(s4)
    BY <2>6, PlainTable, Zenon DEF Grown
  <2> QED BY <2>7, Zenon DEF Pg!Migration3, s4, s3, s2, s1
<1>4. ASSUME NEW s, LeasesApart(s)
      PROVE  /\ LeasesApart(Pg!Migration4(s)) /\ LeasesApart(Pg!Migration5(s)) /\ LeasesApart(Pg!Migration6(s))
             /\ LeasesApart(Pg!Migration7(s)) /\ LeasesApart(Pg!Migration8(s)) /\ LeasesApart(Pg!Migration9(s))
  BY <1>4, PlainTable, ColumnsAdded, Zenon
  DEF Grown, Pg!Migration4, Pg!Migration5, Pg!Migration6, Pg!Migration7, Pg!Migration8, Pg!Migration9
<1>5. ASSUME NEW s, LeasesApart(s)
      PROVE  LeasesApart(Pg!Migration10(s)) /\ "leases" \in DOMAIN Pg!Migration10(s)
  <2>1. Grown(s, "leases", Pg!Migration10(s))
    BY <1>5, PlainTable, Zenon DEF Pg!Migration10
  <2> QED BY <2>1 DEF Grown
<1>6. ASSUME NEW s, LeasesApart(s), "leases" \in DOMAIN s
      PROVE  LeasesApart(Pg!Migration11(s)) /\ "leases" \in DOMAIN Pg!Migration11(s)
  <2> DEFINE Kept(n) == LeasesApart(n) /\ "leases" \in DOMAIN n
  <2>1. ASSUME NEW n, Kept(n), NEW t, NEW columns, NEW unique
        PROVE  Kept(Pg!CreateTable(n, t, columns, unique, {})) /\ Kept(Pg!AddColumns(n, t, columns))
    <3>1. Grown(n, t, Pg!CreateTable(n, t, columns, unique, {}))
      BY <2>1, PlainTable, Zenon
    <3>2. Kept(Pg!CreateTable(n, t, columns, unique, {}))
      BY <2>1, <3>1 DEF Grown
    <3>3. LeasesApart(Pg!AddColumns(n, t, columns)) /\ DOMAIN Pg!AddColumns(n, t, columns) = DOMAIN n
      BY <2>1, ColumnsAdded, Zenon
    <3> QED BY <2>1, <3>2, <3>3
  <2>2. Kept(s)
    BY <1>6
  <2> HIDE DEF Kept
  <2>3. Kept(Pg!Migration11(s))
    BY <2>1, <2>2, Zenon DEF Pg!Migration11
  <2> QED BY <2>3 DEF Kept
<1> QED BY <1>0, <1>1, <1>2, <1>3, <1>4, <1>5, <1>6, Zenon DEF Pg!schema

\* The databases are created without rows.
LEMMA EmptySound == Sound(Pg!Empty(Pg!schema))
  BY DEF Sound, Pg!Empty, Pg!Dangling, Pg!ToSet

\* A statement that Postgres does not refuse does the same in SQLite.
LEMMA CommitMatched ==
  ASSUME NEW db, Sound(db), NEW t, NEW rows, NEW n
  PROVE  Matched(Lite!Commit(Lite!schema, db, t, rows, n), Pg!Commit(Pg!schema, db, t, rows, n))
  BY SameSchema
  DEF Matched, Sound, Lite!Commit, Pg!Commit, Lite!UnknownColumn, Pg!UnknownColumn, Lite!UniqueBroken,
      Pg!UniqueBroken, Lite!ToSet, Pg!ToSet, Lite!Alike, Pg!Alike

\* A statement about leases is not refused, which AcquireLease and RenewLease
\* rely on: they read the row back whatever the error was.
LEMMA LeasesCommitted ==
  ASSUME NEW db, Sound(db), NEW rows, NEW n
  PROVE  Pg!Commit(Pg!schema, db, "leases", rows, n).err # "foreign key"
<1> DEFINE after == [db EXCEPT !["leases"] = rows]
<1>1. \A t \in DOMAIN Pg!schema \ {"leases"} : after[t] = db[t]
  BY DEF Sound
<1> HIDE DEF after
<1>2. ~Pg!Dangling(Pg!schema, after)
  <2> SUFFICES ASSUME NEW t \in DOMAIN Pg!schema, NEW f \in Pg!schema[t].refs, NEW r \in Pg!ToSet(after[t]),
                      \A p \in Pg!ToSet(after[f.table]) : p.id # r[f.column]
               PROVE  FALSE
    BY DEF Pg!Dangling
  <2>1. t # "leases" /\ f.table \in DOMAIN Pg!schema \ {"leases"}
    BY SchemaApart DEF LeasesApart
  <2>2. after[t] = db[t] /\ after[f.table] = db[f.table]
    BY <1>1, <2>1
  <2> QED BY <2>2 DEF Sound, Pg!Dangling
<1> QED BY <1>2 DEF Pg!Commit, after

\* The methods about sandboxes and their exec logs.
LEMMA SandboxMethodsMatched ==
  ASSUME NEW db, Sound(db)
  PROVE  /\ \A sb : Matched(Lite!CreateSandbox(db, sb), Pg!CreateSandbox(db, sb))
         /\ \A id : Matched(Lite!GetSandbox(db, id), Pg!GetSandbox(db, id))
         /\ Matched(Lite!ListSandboxes(db), Pg!ListSandboxes(db))
         /\ \A id, state : Matched(Lite!UpdateSandboxState(db, id, state), Pg!UpdateSandboxState(db, id, state))
         /\ \A id, expiresAt : Matched(Lite!UpdateSandboxExpiresAt(db, id, expiresAt),
                                       Pg!UpdateSandboxExpiresAt(db, id, expiresAt))
         /\ \A id : Matched(Lite!DeleteSandbox(db, id), Pg!DeleteSandbox(db, id))
         /\ \A before : Matched(Lite!ListExpiredSandboxes(db, before), Pg!ListExpiredSandboxes(db, before))
         /\ \A ownerID : Matched(Lite!ListSandboxesByOwner(db, ownerID), Pg!ListSandboxesByOwner(db, ownerID))
         /\ \A vmID : Matched(Lite!CountSandboxesByVM(db, vmID), Pg!CountSandboxesByVM(db, vmID))
         /\ \A log : Matched(Lite!CreateExecLog(db, log), Pg!CreateExecLog(db, log))
         /\ \A sandboxID : Matched(Lite!ListExecLogs(db, sandboxID), Pg!ListExecLogs(db, sandboxID))
<1> USE CommitMatched, SameSchema DEF Lite!Reply, Pg!Reply, Lite!Refused, Pg!Refused, Lite!NotFoundError,
        Pg!NotFoundError, Lite!Done, Pg!Done, Lite!DoneOrNotFound, Pg!DoneOrNotFound, Lite!One, Pg!One,
        Lite!Many, Pg!Many, Lite!InsertInto, Pg!InsertInto, Lite!Update, Pg!Update, Lite!Select, Pg!Select,
        Lite!Reverse, Pg!Reverse, Lite!Local, Pg!Local, Lite!ToSet, Pg!ToSet, Matched
<1>1. ASSUME NEW sb PROVE Matched(Lite!CreateSandbox(db, sb), Pg!CreateSandbox(db, sb))
  BY DEF Lite!CreateSandbox, Pg!CreateSandbox
<1>2. ASSUME NEW id PROVE Matched(Lite!GetSandbox(db, id), Pg!GetSandbox(db, id))
  BY DEF Lite!GetSandbox, Pg!GetSandbox
<1>3. Matched(Lite!ListSandboxes(db), Pg!ListSandboxes(db))
  BY DEF Lite!ListSandboxes, Pg!ListSandboxes
<1>4. ASSUME NEW id, NEW state
      PROVE  Matched(Lite!UpdateSandboxState(db, id, state), Pg!UpdateSandboxState(db, id, state))
  BY DEF Lite!UpdateSandboxState, Pg!UpdateSandboxState
<1>5. ASSUME NEW id, NEW expiresAt
      PROVE  Matched(Lite!UpdateSandboxExpiresAt(db, id, expiresAt), Pg!UpdateSandboxExpiresAt(db, id, expiresAt))
  BY DEF Lite!UpdateSandboxExpiresAt, Pg!UpdateSandboxExpiresAt
<1>6. ASSUME NEW id PROVE Matched(Lite!DeleteSandbox(db, id), Pg!DeleteSandbox(db, id))
  BY DEF Lite!DeleteSandbox, Pg!DeleteSandbox, Lite!UpdateSandboxState, Pg!UpdateSandboxState
<1>7. ASSUME NEW before PROVE Matched(Lite!ListExpiredSandboxes(db, before), Pg!ListExpiredSandboxes(db, before))
  BY DEF Lite!ListExpiredSandboxes, Pg!ListExpiredSandboxes
<1>8. ASSUME NEW ownerID PROVE Matched(Lite!ListSandboxesByOwner(db, ownerID), Pg!ListSandboxesByOwner(db, ownerID))
  BY DEF Lite!ListSandboxesByOwner, Pg!ListSandboxesByOwner
<1>9. ASSUME NEW vmID PROVE Matched(Lite!CountSandboxesByVM(db, vmID), Pg!CountSandboxesByVM(db, vmID))
  BY DEF Lite!CountSandboxesByVM, Pg!CountSandboxesByVM
<1>10. ASSUME NEW log PROVE Matched(Lite!CreateExecLog(db, log), Pg!CreateExecLog(db, log))
  BY DEF Lite!CreateExecLog, Pg!CreateExecLog
<1>11. ASSUME NEW sandboxID PROVE Matched(Lite!ListExecLogs(db, sandboxID), Pg!ListExecLogs(db, sandboxID))
  BY DEF Lite!ListExecLogs, Pg!ListExecLogs
<1> QED BY <1>1, <1>2, <1>3, <1>4, <1>5, <1>6, <1>7, <1>8, <1>9, <1>10, <1>11

\* The methods about quotas and provider configurations.
LEMMA QuotaMethodsMatched ==
  ASSUME NEW db, Sound(db)
  PROVE  /\ \A quota : Matched(Lite!SaveOwnerQuota(db, quota), Pg!SaveOwnerQuota(db, quota))
         /\ \A ownerID : Matched(Lite!GetOwnerQuota(db, ownerID), Pg!GetOwnerQuota(db, ownerID))
         /\ Matched(Lite!ListOwnerQuotas(db), Pg!ListOwnerQuotas(db))
         /\ \A ownerID : Matched(Lite!DeleteOwnerQuota(db, ownerID), Pg!DeleteOwnerQuota(db, ownerID))
         /\ \A cfg : Matched(Lite!SaveProviderConfig(db, cfg), Pg!SaveProviderConfig(db, cfg))
         /\ \A name : Matched(Lite!GetProviderConfig(db, name), Pg!GetProviderConfig(db, name))
         /\ Matched(Lite!ListProviderConfigs(db), Pg!ListProviderConfigs(db))
<1> USE CommitMatched, SameSchema DEF Lite!Reply, Pg!Reply, Lite!Refused, Pg!Refused, Lite!NotFoundError,
        Pg!NotFoundError, Lite!Done, Pg!Done, Lite!DoneOrNotFound, Pg!DoneOrNotFound, Lite!One, Pg!One,
        Lite!Many, Pg!Many, Lite!InsertInto, Pg!InsertInto, Lite!Update, Pg!Update, Lite!DeleteFrom,
        Pg!DeleteFrom, Lite!Upsert, Pg!Upsert, Lite!Select, Pg!Select, Lite!OrderBy, Pg!OrderBy, Lite!Alike,
        Pg!Alike, Lite!ToSet, Pg!ToSet, Matched
<1>1. ASSUME NEW quota PROVE Matched(Lite!SaveOwnerQuota(db, quota), Pg!SaveOwnerQuota(db, quota))
  BY DEF Lite!SaveOwnerQuota, Pg!SaveOwnerQuota
<1>2. ASSUME NEW ownerID PROVE Matched(Lite!GetOwnerQuota(db, ownerID), Pg!GetOwnerQuota(db, ownerID))
  BY DEF Lite!GetOwnerQuota, Pg!GetOwnerQuota
<1>3. Matched(Lite!ListOwnerQuotas(db), Pg!ListOwnerQuotas(db))
  BY DEF Lite!ListOwnerQuotas, Pg!ListOwnerQuotas
<1>4. ASSUME NEW ownerID PROVE Matched(Lite!DeleteOwnerQuota(db, ownerID), Pg!DeleteOwnerQuota(db, ownerID))
  BY DEF Lite!DeleteOwnerQuota, Pg!DeleteOwnerQuota
<1>5. ASSUME NEW cfg PROVE Matched(Lite!SaveProviderConfig(db, cfg), Pg!SaveProviderConfig(db, cfg))
  BY DEF Lite!SaveProviderConfig, Pg!SaveProviderConfig
<1>6. ASSUME NEW name PROVE Matched(Lite!GetProviderConfig(db, name), Pg!GetProviderConfig(db, name))
  BY DEF Lite!GetProviderConfig, Pg!GetProviderConfig
<1>7. Matched(Lite!ListProviderConfigs(db), Pg!ListProviderConfigs(db))
  BY DEF Lite!ListProviderConfigs, Pg!ListProviderConfigs
<1> QED BY <1>1, <1>2, <1>3, <1>4, <1>5, <1>6, <1>7

\* The methods about the administrators' audit log, but for a query of a path.
LEMMA AdminAuditMethodsMatched ==
  ASSUME NEW db, Sound(db)
  PROVE  /\ \A rec : Matched(Lite!CreateAdminAudit(db, rec), Pg!CreateAdminAudit(db, rec))
         /\ \A before : Matched(Lite!DeleteAdminAuditBefore(db, before), Pg!DeleteAdminAuditBefore(db, before))
<1> USE CommitMatched, SameSchema DEF Lite!Reply, Pg!Reply, Lite!Refused, Pg!Refused, Lite!Done, Pg!Done,
        Lite!InsertInto, Pg!InsertInto, Lite!DeleteFrom, Pg!DeleteFrom, Matched
<1>1. ASSUME NEW rec PROVE Matched(Lite!CreateAdminAudit(db, rec), Pg!CreateAdminAudit(db, rec))
  BY DEF Lite!CreateAdminAudit, Pg!CreateAdminAudit
<1>2. ASSUME NEW before PROVE Matched(Lite!DeleteAdminAuditBefore(db, before), Pg!DeleteAdminAuditBefore(db, before))
  BY DEF Lite!DeleteAdminAuditBefore, Pg!DeleteAdminAuditBefore
<1> QED BY <1>1, <1>2

\* The methods about the operations' audit log.
LEMMA OperationAuditMethodsMatched ==
  ASSUME NEW db, Sound(db)
  PROVE  /\ \A rec : Matched(Lite!CreateOperationAudit(db, rec), Pg!CreateOperationAudit(db, rec))
         /\ \A query, defaultLimit, maxLimit : Matched(Lite!ListOperationAudit(db, query, defaultLimit, maxLimit),
                                                       Pg!ListOperationAudit(db, query, defaultLimit, maxLimit))
<1> USE CommitMatched, SameSchema DEF Lite!Reply, Pg!Reply, Lite!Refused, Pg!Refused, Lite!Done, Pg!Done,
        Lite!Many, Pg!Many, Lite!InsertInto, Pg!InsertInto, Lite!Select, Pg!Select, Lite!Limit, Pg!Limit,
        Lite!Reverse, Pg!Reverse, Matched
<1>1. ASSUME NEW rec PROVE Matched(Lite!CreateOperationAudit(db, rec), Pg!CreateOperationAudit(db, rec))
  BY DEF Lite!CreateOperationAudit, Pg!CreateOperationAudit
<1>2. ASSUME NEW query, NEW defaultLimit, NEW maxLimit
      PROVE  Matched(Lite!ListOperationAudit(db, query, defaultLimit, maxLimit),
                     Pg!ListOperationAudit(db, query, defaultLimit, maxLimit))
  BY DEF Lite!ListOperationAudit, Pg!ListOperationAudit
<1> QED BY <1>1, <1>2

\* The methods about workers.
LEMMA WorkerMethodsMatched ==
  ASSUME NEW db, Sound(db)
  PROVE  /\ \A rec : Matched(Lite!SaveWorker(db, rec), Pg!SaveWorker(db, rec))
         /\ \A id : Matched(Lite!GetWorker(db, id), Pg!GetWorker(db, id))
         /\ Matched(Lite!ListWorkers(db), Pg!ListWorkers(db))
         /\ \A id : Matched(Lite!DeleteWorker(db, id), Pg!DeleteWorker(db, id))
<1> USE CommitMatched, SameSchema DEF Lite!Reply, Pg!Reply, Lite!Refused, Pg!Refused, Lite!NotFoundError,
        Pg!NotFoundError, Lite!Done, Pg!Done, Lite!DoneOrNotFound, Pg!DoneOrNotFound, Lite!One, Pg!One,
        Lite!Many, Pg!Many, Lite!InsertInto, Pg!InsertInto, Lite!Update, Pg!Update, Lite!DeleteFrom,
        Pg!DeleteFrom, Lite!Upsert, Pg!Upsert, Lite!Select, Pg!Select, Lite!OrderBy, Pg!OrderBy, Lite!Alike,
        Pg!Alike, Lite!ToSet, Pg!ToSet, Matched
<1>1. ASSUME NEW rec PROVE Matched(Lite!SaveWorker(db, rec), Pg!SaveWorker(db, rec))
  BY DEF Lite!SaveWorker, Pg!SaveWorker
<1>2. ASSUME NEW id PROVE Matched(Lite!GetWorker(db, id), Pg!GetWorker(db, id))
  BY DEF Lite!GetWorker, Pg!GetWorker
<1>3. Matched(Lite!ListWorkers(db), Pg!ListWorkers(db))
  BY DEF Lite!ListWorkers, Pg!ListWorkers
<1>4. ASSUME NEW id PROVE Matched(Lite!DeleteWorker(db, id), Pg!DeleteWorker(db, id))
  BY DEF Lite!DeleteWorker, Pg!DeleteWorker
<1> QED BY <1>1, <1>2, <1>3, <1>4

\* The methods about templates.
LEMMA TemplateMethodsMatched ==
  ASSUME NEW db, Sound(db)
  PROVE  /\ \A t : Matched(Lite!CreateTemplate(db, t), Pg!CreateTemplate(db, t))
         /\ \A t : Matched(Lite!UpdateTemplate(db, t), Pg!UpdateTemplate(db, t))
         /\ \A name : Matched(Lite!GetTemplate(db, name), Pg!GetTemplate(db, name))
         /\ Matched(Lite!ListTemplates(db), Pg!ListTemplates(db))
         /\ \A name : Matched(Lite!DeleteTemplate(db, name), Pg!DeleteTemplate(db, name))
<1> USE CommitMatched, SameSchema DEF Lite!Reply, Pg!Reply, Lite!Refused, Pg!Refused, Lite!NotFoundError,
        Pg!NotFoundError, Lite!ConflictError, Pg!ConflictError, Lite!IsConstraintError, Pg!IsConstraintError,
        Lite!Done, Pg!Done, Lite!DoneOrNotFound, Pg!DoneOrNotFound, Lite!One, Pg!One, Lite!Many, Pg!Many,
        Lite!InsertInto, Pg!InsertInto, Lite!Update, Pg!Update, Lite!DeleteFrom, Pg!DeleteFrom, Lite!Select,
        Pg!Select, Lite!OrderBy, Pg!OrderBy, Matched
<1>1. ASSUME NEW t PROVE Matched(Lite!CreateTemplate(db, t), Pg!CreateTemplate(db, t))
  BY DEF Lite!CreateTemplate, Pg!CreateTemplate
<1>2. ASSUME NEW t PROVE Matched(Lite!UpdateTemplate(db, t), Pg!UpdateTemplate(db, t))
  BY DEF Lite!UpdateTemplate, Pg!UpdateTemplate
<1>3. ASSUME NEW name PROVE Matched(Lite!GetTemplate(db, name), Pg!GetTemplate(db, name))
  BY DEF Lite!GetTemplate, Pg!GetTemplate
<1>4. Matched(Lite!ListTemplates(db), Pg!ListTemplates(db))
  BY DEF Lite!ListTemplates, Pg!ListTemplates
<1>5. ASSUME NEW name PROVE Matched(Lite!DeleteTemplate(db, name), Pg!DeleteTemplate(db, name))
  BY DEF Lite!DeleteTemplate, Pg!DeleteTemplate
<1> QED BY <1>1, <1>2, <1>3, <1>4, <1>5

\* The methods about environment specifications.
LEMMA SpecMethodsMatched ==
  ASSUME NEW db, Sound(db)
  PROVE  /\ \A spec : Matched(Lite!CreateEnvironmentSpec(db, spec), Pg!CreateEnvironmentSpec(db, spec))
         /\ \A spec : Matched(Lite!UpdateEnvironmentSpec(db, spec), Pg!UpdateEnvironmentSpec(db, spec))
         /\ \A id : Matched(Lite!GetEnvironmentSpec(db, id), Pg!GetEnvironmentSpec(db, id))
         /\ \A ownerID : Matched(Lite!ListEnvironmentSpecs(db, ownerID), Pg!ListEnvironmentSpecs(db, ownerID))
         /\ \A id : Matched(Lite!DeleteEnvironmentSpec(db, id), Pg!DeleteEnvironmentSpec(db, id))
<1> USE CommitMatched, SameSchema DEF Lite!Reply, Pg!Reply, Lite!Refused, Pg!Refused, Lite!NotFoundError,
        Pg!NotFoundError, Lite!ConflictError, Pg!ConflictError, Lite!IsConstraintError, Pg!IsConstraintError,
        Lite!Done, Pg!Done, Lite!DoneOrNotFound, Pg!DoneOrNotFound, Lite!One, Pg!One, Lite!Many, Pg!Many,
        Lite!InsertInto, Pg!InsertInto, Lite!Update, Pg!Update, Lite!DeleteFrom, Pg!DeleteFrom, Lite!Select,
        Pg!Select, Lite!Reverse, Pg!Reverse, Matched
<1>1. ASSUME NEW spec PROVE Matched(Lite!CreateEnvironmentSpec(db, spec), Pg!CreateEnvironmentSpec(db, spec))
  BY DEF Lite!CreateEnvironmentSpec, Pg!CreateEnvironmentSpec
<1>2. ASSUME NEW spec PROVE Matched(Lite!UpdateEnvironmentSpec(db, spec), Pg!UpdateEnvironmentSpec(db, spec))
  BY DEF Lite!UpdateEnvironmentSpec, Pg!UpdateEnvironmentSpec
<1>3. ASSUME NEW id PROVE Matched(Lite!GetEnvironmentSpec(db, id), Pg!GetEnvironmentSpec(db, id))
  BY DEF Lite!GetEnvironmentSpec, Pg!GetEnvironmentSpec
<1>4. ASSUME NEW ownerID PROVE Matched(Lite!ListEnvironmentSpecs(db, ownerID), Pg!ListEnvironmentSpecs(db, ownerID))
  BY DEF Lite!ListEnvironmentSpecs, Pg!ListEnvironmentSpecs
<1>5. ASSUME NEW id PROVE Matched(Lite!DeleteEnvironmentSpec(db, id), Pg!DeleteEnvironmentSpec(db, id))
  BY DEF Lite!DeleteEnvironmentSpec, Pg!DeleteEnvironmentSpec
<1> QED BY <1>1, <1>2, <1>3, <1>4, <1>5

\* The methods about builds and artifacts, with those about their specification.
LEMMA BuildMethodsMatched ==
  ASSUME NEW db, Sound(db)
  PROVE  /\ \A build : Matched(Lite!CreateEnvironmentBuild(db, build), Pg!CreateEnvironmentBuild(db, build))
         /\ \A build : Matched(Lite!UpdateEnvironmentBuild(db, build), Pg!UpdateEnvironmentBuild(db, build))
         /\ \A id : Matched(Lite!GetEnvironmentBuild(db, id), Pg!GetEnvironmentBuild(db, id))
         /\ \A specID : Matched(Lite!ListEnvironmentBuilds(db, specID), Pg!ListEnvironmentBuilds(db, specID))
         /\ \A artifact : Matched(Lite!SaveEnvironmentArtifact(db, artifact),
                                  Pg!SaveEnvironmentArtifact(db, artifact))
         /\ \A buildID : Matched(Lite!ListEnvironmentArtifacts(db, buildID), Pg!ListEnvironmentArtifacts(db, buildID))
<1> USE CommitMatched, SameSchema DEF Lite!Reply, Pg!Reply, Lite!Refused, Pg!Refused, Lite!NotFoundError,
        Pg!NotFoundError, Lite!Done, Pg!Done, Lite!DoneOrNotFound, Pg!DoneOrNotFound, Lite!One, Pg!One,
        Lite!Many, Pg!Many, Lite!InsertInto, Pg!InsertInto, Lite!Update, Pg!Update, Lite!Upsert, Pg!Upsert,
        Lite!Select, Pg!Select, Lite!Alike, Pg!Alike, Lite!ToSet, Pg!ToSet, Lite!Reverse, Pg!Reverse, Matched
<1>1. ASSUME NEW build PROVE Matched(Lite!CreateEnvironmentBuild(db, build), Pg!CreateEnvironmentBuild(db, build))
  BY DEF Lite!CreateEnvironmentBuild, Pg!CreateEnvironmentBuild
<1>2. ASSUME NEW build PROVE Matched(Lite!UpdateEnvironmentBuild(db, build), Pg!UpdateEnvironmentBuild(db, build))
  BY DEF Lite!UpdateEnvironmentBuild, Pg!UpdateEnvironmentBuild
<1>3. ASSUME NEW id PROVE Matched(Lite!GetEnvironmentBuild(db, id), Pg!GetEnvironmentBuild(db, id))
  BY DEF Lite!GetEnvironmentBuild, Pg!GetEnvironmentBuild
<1>4. ASSUME NEW specID PROVE Matched(Lite!ListEnvironmentBuilds(db, specID), Pg!ListEnvironmentBuilds(db, specID))
  BY DEF Lite!ListEnvironmentBuilds, Pg!ListEnvironmentBuilds
<1>5. ASSUME NEW artifact
      PROVE  Matched(Lite!SaveEnvironmentArtifact(db, artifact), Pg!SaveEnvironmentArtifact(db, artifact))
  BY DEF Lite!SaveEnvironmentArtifact, Pg!SaveEnvironmentArtifact
<1>6. ASSUME NEW buildID
      PROVE  Matched(Lite!ListEnvironmentArtifacts(db, buildID), Pg!ListEnvironmentArtifacts(db, buildID))
  BY DEF Lite!ListEnvironmentArtifacts, Pg!ListEnvironmentArtifacts
<1> QED BY <1>1, <1>2, <1>3, <1>4, <1>5, <1>6

\* The methods about registry connections.
LEMMA RegistryMethodsMatched ==
  ASSUME NEW db, Sound(db)
  PROVE  /\ \A conn : Matched(Lite!SaveRegistryConnection(db, conn), Pg!SaveRegistryConnection(db, conn))
         /\ \A id : Matched(Lite!GetRegistryConnection(db, id), Pg!GetRegistryConnection(db, id))
         /\ \A ownerID : Matched(Lite!ListRegistryConnections(db, ownerID), Pg!ListRegistryConnections(db, ownerID))
         /\ \A id : Matched(Lite!DeleteRegistryConnection(db, id), Pg!DeleteRegistryConnection(db, id))
<1> USE CommitMatched, SameSchema DEF Lite!Reply, Pg!Reply, Lite!Refused, Pg!Refused, Lite!NotFoundError,
        Pg!NotFoundError, Lite!ConflictError, Pg!ConflictError, Lite!IsConstraintError, Pg!IsConstraintError,
        Lite!Done, Pg!Done, Lite!DoneOrNotFound, Pg!DoneOrNotFound, Lite!One, Pg!One, Lite!Many, Pg!Many,
        Lite!InsertInto, Pg!InsertInto, Lite!Update, Pg!Update, Lite!DeleteFrom, Pg!DeleteFrom, Lite!Upsert,
        Pg!Upsert, Lite!Select, Pg!Select, Lite!Alike, Pg!Alike, Lite!ToSet, Pg!ToSet, Lite!Reverse,
        Pg!Reverse, Matched
<1>1. ASSUME NEW conn PROVE Matched(Lite!SaveRegistryConnection(db, conn), Pg!SaveRegistryConnection(db, conn))
  BY DEF Lite!SaveRegistryConnection, Pg!SaveRegistryConnection
<1>2. ASSUME NEW id PROVE Matched(Lite!GetRegistryConnection(db, id), Pg!GetRegistryConnection(db, id))
  BY DEF Lite!GetRegistryConnection, Pg!GetRegistryConnection
<1>3. ASSUME NEW ownerID
      PROVE  Matched(Lite!ListRegistryConnections(db, ownerID), Pg!ListRegistryConnections(db, ownerID))
  BY DEF Lite!ListRegistryConnections, Pg!ListRegistryConnections
<1>4. ASSUME NEW id PROVE Matched(Lite!DeleteRegistryConnection(db, id), Pg!DeleteRegistryConnection(db, id))
  BY DEF Lite!DeleteRegistryConnection, Pg!DeleteRegistryConnection
<1> QED BY <1>1, <1>2, <1>3, <1>4

\* The methods about tenants and their members.
LEMMA TenantMethodsMatched ==
  ASSUME NEW db, Sound(db)
  PROVE  /\ \A t : Matched(Lite!CreateTenant(db, t), Pg!CreateTenant(db, t))
         /\ \A t : Matched(Lite!UpdateTenant(db, t), Pg!UpdateTenant(db, t))
         /\ \A id : Matched(Lite!GetTenant(db, id), Pg!GetTenant(db, id))
         /\ Matched(Lite!ListTenants(db), Pg!ListTenants(db))
         /\ \A id : Matched(Lite!DeleteTenant(db, id), Pg!DeleteTenant(db, id))
         /\ \A m : Matched(Lite!SaveTenantMember(db, m), Pg!SaveTenantMember(db, m))
         /\ \A tenantID, userID : Matched(Lite!GetTenantMember(db, tenantID, userID),
                                          Pg!GetTenantMember(db, tenantID, userID))
         /\ \A tenantID, userID : Matched(Lite!DeleteTenantMember(db, tenantID, userID),
                                          Pg!DeleteTenantMember(db, tenantID, userID))
         /\ \A tenantID : Matched(Lite!ListTenantMembers(db, tenantID), Pg!ListTenantMembers(db, tenantID))
<1> USE CommitMatched, SameSchema DEF Lite!Reply, Pg!Reply, Lite!Refused, Pg!Refused, Lite!NotFoundError,
        Pg!NotFoundError, Lite!Done, Pg!Done, Lite!DoneOrNotFound, Pg!DoneOrNotFound, Lite!One, Pg!One,
        Lite!Many, Pg!Many, Lite!InsertInto, Pg!InsertInto, Lite!Update, Pg!Update, Lite!DeleteFrom,
        Pg!DeleteFrom, Lite!Upsert, Pg!Upsert, Lite!Select, Pg!Select, Lite!Alike, Pg!Alike, Lite!ToSet,
        Pg!ToSet, Lite!Reverse, Pg!Reverse, Matched
<1>1. ASSUME NEW t PROVE Matched(Lite!CreateTenant(db, t), Pg!CreateTenant(db, t))
  BY DEF Lite!CreateTenant, Pg!CreateTenant
<1>2. ASSUME NEW t PROVE Matched(Lite!UpdateTenant(db, t), Pg!UpdateTenant(db, t))
  BY DEF Lite!UpdateTenant, Pg!UpdateTenant
<1>3. ASSUME NEW id PROVE Matched(Lite!GetTenant(db, id), Pg!GetTenant(db, id))
  BY DEF Lite!GetTenant, Pg!GetTenant
<1>4. Matched(Lite!ListTenants(db), Pg!ListTenants(db))
  BY DEF Lite!ListTenants, Pg!ListTenants
<1>5. ASSUME NEW id PROVE Matched(Lite!DeleteTenant(db, id), Pg!DeleteTenant(db, id))
  BY DEF Lite!DeleteTenant, Pg!DeleteTenant
<1>6. ASSUME NEW m PROVE Matched(Lite!SaveTenantMember(db, m), Pg!SaveTenantMember(db, m))
  BY DEF Lite!SaveTenantMember, Pg!SaveTenantMember
<1>7. ASSUME NEW tenantID, NEW userID
      PROVE  Matched(Lite!GetTenantMember(db, tenantID, userID), Pg!GetTenantMember(db, tenantID, userID))
  BY DEF Lite!GetTenantMember, Pg!GetTenantMember
<1>8. ASSUME NEW tenantID, NEW userID
      PROVE  Matched(Lite!DeleteTenantMember(db, tenantID, userID), Pg!DeleteTenantMember(db, tenantID, userID))
  BY DEF Lite!DeleteTenantMember, Pg!DeleteTenantMember
<1>9. ASSUME NEW tenantID PROVE Matched(Lite!ListTenantMembers(db, tenantID), Pg!ListTenantMembers(db, tenantID))
  BY DEF Lite!ListTenantMembers, Pg!ListTenantMembers
<1> QED BY <1>1, <1>2, <1>3, <1>4, <1>5, <1>6, <1>7, <1>8, <1>9

\* The methods about policies.
LEMMA PolicyMethodsMatched ==
  ASSUME NEW db, Sound(db)
  PROVE  /\ \A p : Matched(Lite!CreatePolicy(db, p), Pg!CreatePolicy(db, p))
         /\ \A id : Matched(Lite!GetPolicy(db, id), Pg!GetPolicy(db, id))
         /\ \A query : Matched(Lite!ListPolicies(db, query), Pg!ListPolicies(db, query))
         /\ \A id : Matched(Lite!DeletePolicy(db, id), Pg!DeletePolicy(db, id))
<1> USE CommitMatched, SameSchema DEF Lite!Reply, Pg!Reply, Lite!Refused, Pg!Refused, Lite!NotFoundError,
        Pg!NotFoundError, Lite!Done, Pg!Done, Lite!DoneOrNotFound, Pg!DoneOrNotFound, Lite!One, Pg!One,
        Lite!Many, Pg!Many, Lite!InsertInto, Pg!InsertInto, Lite!DeleteFrom, Pg!DeleteFrom, Lite!Select,
        Pg!Select, Lite!OrderBy, Pg!OrderBy, Matched
<1>1. ASSUME NEW p PROVE Matched(Lite!CreatePolicy(db, p), Pg!CreatePolicy(db, p))
  BY DEF Lite!CreatePolicy, Pg!CreatePolicy
<1>2. ASSUME NEW id PROVE Matched(Lite!GetPolicy(db, id), Pg!GetPolicy(db, id))
  BY DEF Lite!GetPolicy, Pg!GetPolicy
<1>3. ASSUME NEW query PROVE Matched(Lite!ListPolicies(db, query), Pg!ListPolicies(db, query))
  BY DEF Lite!ListPolicies, Pg!ListPolicies
<1>4. ASSUME NEW id PROVE Matched(Lite!DeletePolicy(db, id), Pg!DeletePolicy(db, id))
  BY DEF Lite!DeletePolicy, Pg!DeletePolicy
<1> QED BY <1>1, <1>2, <1>3, <1>4

\* A query of the administrators' audit log changes nothing, and the two
\* stores answer it alike when it asks for no path.
LEMMA ListAdminAuditReads ==
  ASSUME NEW db, NEW query, NEW defaultLimit, NEW maxLimit,
         NEW a, a = Lite!ListAdminAudit(db, query, defaultLimit, maxLimit),
         NEW b, b = Pg!ListAdminAudit(db, query, defaultLimit, maxLimit)
  PROVE  /\ a.db = db /\ b.db = db /\ b.err = "none"
         /\ query.path = <<>> => a = b
<1>1. a.db = db /\ b.db = db /\ b.err = "none"
  BY DEF Lite!ListAdminAudit, Pg!ListAdminAudit, Lite!Many, Pg!Many, Lite!Reply, Pg!Reply
<1>2. ASSUME query.path = <<>> PROVE a = b
  <2> DEFINE limit == IF query.limit <= 0 THEN defaultLimit
                      ELSE IF query.limit > maxLimit THEN maxLimit ELSE query.limit
             Where(r) == /\ query.actor # "" => r.actor = query.actor
                         /\ query.tenant_id # "" => r.tenant_id = query.tenant_id
             found == SelectSeq(db["admin_audit_logs"], Where)
  <2>1. a = Lite!Many(db, Lite!Limit(Lite!Reverse(Lite!OrderBy(found, "created_at")), limit))
    BY <1>2 DEF Lite!ListAdminAudit, Lite!Select
  <2>2. b = Pg!Many(db, Pg!Limit(Pg!Reverse(Pg!OrderBy(found, "created_at")), limit))
    BY <1>2 DEF Pg!ListAdminAudit, Pg!Select
  <2> HIDE DEF limit, found
  <2> QED BY <2>1, <2>2
          DEF Lite!Many, Pg!Many, Lite!Reply, Pg!Reply, Lite!Limit, Pg!Limit, Lite!Reverse, Pg!Reverse,
              Lite!OrderBy, Pg!OrderBy
<1> QED BY <1>1, <1>2

\* A statement about leases does the same to both databases.
LEMMA LeaseCommitSame ==
  ASSUME NEW db, Sound(db), NEW rows, NEW n
  PROVE  /\ Lite!Commit(Lite!schema, db, "leases", rows, n) = Pg!Commit(Pg!schema, db, "leases", rows, n)
         /\ Sound(Pg!Commit(Pg!schema, db, "leases", rows, n).db)
  BY CommitMatched, LeasesCommitted DEF Matched

\* The methods about leases, of which two read the row back.
LEMMA LeaseMethodsMatched ==
  ASSUME NEW db, Sound(db)
  PROVE  /\ \A resourceID, holderID, period, now :
              Matched(Lite!AcquireLease(db, resourceID, holderID, period, now),
                      Pg!AcquireLease(db, resourceID, holderID, period, now))
         /\ \A resourceID, holderID, period, now :
              Matched(Lite!RenewLease(db, resourceID, holderID, period, now),
                      Pg!RenewLease(db, resourceID, holderID, period, now))
         /\ \A resourceID : Matched(Lite!GetLease(db, resourceID), Pg!GetLease(db, resourceID))
         /\ Matched(Lite!ListLeases(db), Pg!ListLeases(db))
         /\ \A resourceID, holderID : Matched(Lite!ReleaseLease(db, resourceID, holderID),
                                              Pg!ReleaseLease(db, resourceID, holderID))
<1>1. ASSUME NEW base, Sound(base), NEW resourceID
      PROVE  Lite!GetLease(base, resourceID) = Pg!GetLease(base, resourceID) /\ Pg!GetLease(base, resourceID).db = base
  BY DEF Lite!GetLease, Pg!GetLease, Lite!One, Pg!One, Lite!Select, Pg!Select, Lite!NotFoundError,
         Pg!NotFoundError, Lite!Refused, Pg!Refused, Lite!Reply, Pg!Reply
<1>2. ASSUME NEW resourceID, NEW holderID, NEW period, NEW now
      PROVE  Matched(Lite!AcquireLease(db, resourceID, holderID, period, now),
                     Pg!AcquireLease(db, resourceID, holderID, period, now))
  <2> DEFINE lease == [resource_id |-> resourceID, holder_id |-> holderID, generation |-> 1,
                       expires_at |-> now + period]
             lo == Lite!Upsert(Lite!schema, db, "leases", lease, {"resource_id"},
                     LAMBDA r : [lease EXCEPT !.generation = r.generation + 1])
             po == Pg!Upsert(Pg!schema, db, "leases", lease, {"resource_id"},
                     LAMBDA r : [lease EXCEPT !.generation = r.generation + 1])
  <2>1. lo = po /\ Sound(po.db)
    BY LeaseCommitSame, SameSchema
    DEF Lite!Upsert, Pg!Upsert, Lite!Update, Pg!Update, Lite!InsertInto, Pg!InsertInto, Lite!ToSet, Pg!ToSet,
        Lite!Alike, Pg!Alike
  <2> QED BY <1>1, <2>1
          DEF Lite!AcquireLease, Pg!AcquireLease, Lite!ToSet, Pg!ToSet, Lite!ConflictError, Pg!ConflictError,
              Lite!Refused, Pg!Refused, Lite!Reply, Pg!Reply, Matched
<1>3. ASSUME NEW resourceID, NEW holderID, NEW period, NEW now
      PROVE  Matched(Lite!RenewLease(db, resourceID, holderID, period, now),
                     Pg!RenewLease(db, resourceID, holderID, period, now))
  <2> DEFINE lo == Lite!Update(Lite!schema, db, "leases",
                     LAMBDA r : r.resource_id = resourceID /\ r.holder_id = holderID /\ r.expires_at > now,
                     LAMBDA r : [r EXCEPT !.generation = @ + 1, !.expires_at = now + period])
             po == Pg!Update(Pg!schema, db, "leases",
                     LAMBDA r : r.resource_id = resourceID /\ r.holder_id = holderID /\ r.expires_at > now,
                     LAMBDA r : [r EXCEPT !.generation = @ + 1, !.expires_at = now + period])
  <2>1. lo = po /\ Sound(po.db)
    BY LeaseCommitSame, SameSchema DEF Lite!Update, Pg!Update
  <2> QED BY <1>1, <2>1
          DEF Lite!RenewLease, Pg!RenewLease, Lite!ConflictError, Pg!ConflictError, Lite!Refused, Pg!Refused,
              Lite!Reply, Pg!Reply, Matched
<1>4. ASSUME NEW resourceID PROVE Matched(Lite!GetLease(db, resourceID), Pg!GetLease(db, resourceID))
  BY <1>1 DEF Matched
<1>5. Matched(Lite!ListLeases(db), Pg!ListLeases(db))
  BY DEF Lite!ListLeases, Pg!ListLeases, Lite!OrderBy, Pg!OrderBy, Lite!Many, Pg!Many, Lite!Reply, Pg!Reply, Matched
<1>6. ASSUME NEW resourceID, NEW holderID
      PROVE  Matched(Lite!ReleaseLease(db, resourceID, holderID), Pg!ReleaseLease(db, resourceID, holderID))
  BY CommitMatched, SameSchema
  DEF Lite!ReleaseLease, Pg!ReleaseLease, Lite!DeleteFrom, Pg!DeleteFrom, Lite!DoneOrNotFound, Pg!DoneOrNotFound,
      Lite!NotFoundError, Pg!NotFoundError, Lite!Done, Pg!Done, Lite!Refused, Pg!Refused, Lite!Reply, Pg!Reply,
      Matched
<1> QED BY <1>2, <1>3, <1>4, <1>5, <1>6

\* A call keeps the two databases the same, and its answers, or it is refused;
\* a query of a path may only be answered differently.
LEMMA CallKept ==
  ASSUME StoresInv, ~refused, NEW name, NEW a, NEW b, Call(name, a, b),
         \/ Matched(a, b)
         \/ name = "ListAdminAudit of a path" /\ a.db = pg /\ b.db = pg
  PROVE  StoresInv'
<1>1. lite = pg /\ Sound(pg) /\ parted \subseteq {"ListAdminAudit of a path"}
  BY DEF StoresInv, SameAnswers
<1>2. parted' \subseteq {"ListAdminAudit of a path"}
  BY <1>1 DEF Call, Matched
<1>3. ~refused' => lite' = pg' /\ Sound(pg')
  BY <1>1 DEF Call, Matched
<1>4. Sound(pg') = Sound(pg)'
  BY DEF Sound, Pg!Dangling, Pg!ToSet
<1> QED BY <1>2, <1>3, <1>4 DEF StoresInv, SameAnswers

\* Every method of every group keeps the invariant.
LEMMA GroupCallsKept ==
  ASSUME StoresInv, ~refused, GroupCalls
  PROVE  StoresInv'
<1>1. lite = pg /\ Sound(pg)
  BY DEF StoresInv
<1>2. ASSUME NEW name, NEW a, NEW b, Call(name, a, b), Matched(a, b)
      PROVE  StoresInv'
  BY <1>2, CallKept
<1>3. CASE SandboxMethods
  <2>1. ASSUME NEW sb, Call("CreateSandbox", Lite!CreateSandbox(lite, sb), Pg!CreateSandbox(pg, sb))
        PROVE  StoresInv'
    BY <1>1, <1>2, <2>1, SandboxMethodsMatched, Zenon
  <2>2. ASSUME NEW id, NEW state,
               Call("UpdateSandboxState", Lite!UpdateSandboxState(lite, id, state),
                                          Pg!UpdateSandboxState(pg, id, state))
        PROVE  StoresInv'
    BY <1>1, <1>2, <2>2, SandboxMethodsMatched, Zenon
  <2>3. ASSUME NEW id, NEW until,
               Call("UpdateSandboxExpiresAt", Lite!UpdateSandboxExpiresAt(lite, id, until),
                                              Pg!UpdateSandboxExpiresAt(pg, id, until))
        PROVE  StoresInv'
    BY <1>1, <1>2, <2>3, SandboxMethodsMatched, Zenon
  <2>4. ASSUME NEW log, Call("CreateExecLog", Lite!CreateExecLog(lite, log), Pg!CreateExecLog(pg, log))
        PROVE  StoresInv'
    BY <1>1, <1>2, <2>4, SandboxMethodsMatched, Zenon
  <2> QED BY <1>1, <1>2, <1>3, <2>1, <2>2, <2>3, <2>4, SandboxMethodsMatched, Zenon DEF SandboxMethods
<1>4. CASE QuotaMethods
  BY <1>1, <1>2, <1>4, QuotaMethodsMatched, Zenon DEF QuotaMethods
<1>5. CASE OperationAuditMethods
  <2>1. ASSUME NEW query,
               Call("ListOperationAudit", Lite!ListOperationAudit(lite, query, DefaultLimit, MaxLimit),
                                          Pg!ListOperationAudit(pg, query, DefaultLimit, MaxLimit))
        PROVE  StoresInv'
    BY <1>1, <1>2, <2>1, OperationAuditMethodsMatched, Zenon
  <2>2. ASSUME NEW rec,
               Call("CreateOperationAudit", Lite!CreateOperationAudit(lite, rec), Pg!CreateOperationAudit(pg, rec))
        PROVE  StoresInv'
    BY <1>1, <1>2, <2>2, OperationAuditMethodsMatched, Zenon
  <2> QED BY <1>5, <2>1, <2>2, Zenon DEF OperationAuditMethods
<1>6. CASE WorkerMethods
  BY <1>1, <1>2, <1>6, WorkerMethodsMatched, Zenon DEF WorkerMethods
<1>7. CASE LeaseMethods
  BY <1>1, <1>2, <1>7, LeaseMethodsMatched, SMT DEF LeaseMethods
<1>8. CASE TemplateMethods
  BY <1>1, <1>2, <1>8, TemplateMethodsMatched, Zenon DEF TemplateMethods
<1>9. CASE SpecMethods
  BY <1>1, <1>2, <1>9, SpecMethodsMatched, Zenon DEF SpecMethods
<1>10. CASE BuildMethods
  BY <1>1, <1>2, <1>10, BuildMethodsMatched, SpecMethodsMatched, Zenon DEF BuildMethods
<1>11. CASE RegistryMethods
  BY <1>1, <1>2, <1>11, RegistryMethodsMatched, Zenon DEF RegistryMethods
<1>12. CASE TenantMethods
  BY <1>1, <1>2, <1>12, TenantMethodsMatched, Zenon DEF TenantMethods
<1>13. CASE PolicyMethods
  BY <1>1, <1>2, <1>13, PolicyMethodsMatched, Zenon DEF PolicyMethods
<1>14. CASE AdminAuditMethods
  <2>1. ASSUME NEW limit, NEW actor, NEW path, NEW tenant,
               LET query == [limit |-> limit, actor |-> actor, path |-> path, tenant_id |-> tenant]
               IN Call(IF path = <<>> THEN "ListAdminAudit" ELSE "ListAdminAudit of a path",
                       Lite!ListAdminAudit(lite, query, DefaultLimit, MaxLimit),
                       Pg!ListAdminAudit(pg, query, DefaultLimit, MaxLimit))
        PROVE  StoresInv'
    <3> DEFINE query == [limit |-> limit, actor |-> actor, path |-> path, tenant_id |-> tenant]
               a == Lite!ListAdminAudit(lite, query, DefaultLimit, MaxLimit)
               b == Pg!ListAdminAudit(pg, query, DefaultLimit, MaxLimit)
    <3>1. Call(IF path = <<>> THEN "ListAdminAudit" ELSE "ListAdminAudit of a path", a, b)
      BY <2>1
    <3>2. a.db = pg /\ b.db = pg /\ b.err = "none" /\ (query.path = <<>> => a = b)
      BY <1>1, ListAdminAuditReads
    <3>3. query.path = path
      OBVIOUS
    <3> HIDE DEF query, a, b
    <3>4. CASE path = <<>>
      BY <1>1, <1>2, <3>1, <3>2, <3>3, <3>4 DEF Matched
    <3>5. CASE path # <<>>
      BY <3>1, <3>2, <3>5, CallKept
    <3> QED BY <3>4, <3>5
  <2> QED BY <1>1, <1>2, <1>14, <2>1, AdminAuditMethodsMatched, Zenon DEF AdminAuditMethods
<1> QED BY <1>3, <1>4, <1>5, <1>6, <1>7, <1>8, <1>9, <1>10, <1>11, <1>12, <1>13, <1>14 DEF GroupCalls

\* The databases are the same, and have whole references, until Postgres
\* refuses a call.
LEMMA StoresStep ==
  ASSUME StoresInv, [StoresNext]_allVars
  PROVE  StoresInv'
<1>1. CASE UNCHANGED <<lite, pg, refused, parted>>
  <2>1. Sound(pg)' = Sound(pg)
    BY <1>1 DEF Sound, Pg!Dangling, Pg!ToSet
  <2> QED BY <1>1, <2>1 DEF StoresInv, SameAnswers
<1>2. CASE StoreCalls
  BY <1>2, GroupCallsKept DEF StoreCalls
<1> QED BY <1>1, <1>2 DEF StoresNext, Migrate, Choose, LeaseCalls, allVars, storeVars

\* SQLite and Postgres answer the same calls alike, whatever the calls, their
\* order and their arguments, until Postgres refuses a row that refers to none
\* (sqlite.go and postgres.go, method by method).
THEOREM AnswersSame == StoresSpec => []SameAnswers
<1>1. StoresInit => StoresInv
  <2> SUFFICES ASSUME StoresInit PROVE StoresInv
    OBVIOUS
  <2>1. Lite!Empty(Lite!schema) = Pg!Empty(Pg!schema)
    BY SameSchema DEF Lite!Empty, Pg!Empty
  <2> QED BY <2>1, EmptySound DEF StoresInit, StoresInv, SameAnswers
<1>2. StoresInv /\ [StoresNext]_allVars => StoresInv'
  BY StoresStep
<1>3. StoresInv => SameAnswers
  BY DEF StoresInv
<1> QED BY <1>1, <1>2, <1>3, PTL DEF StoresSpec

-----------------------------------------------------------------------------
(* Servers that migrate one database (Migrations), for any number of       *)
(* servers, versions and failures.                                         *)

\* Where the servers are, and what each has found out or locked: a server that
\* is about to commit a version has inserted its row, which no other has, and
\* no two servers have the same version in an open transaction.
MigrationsInv ==
  /\ applied \subseteq Versions
  /\ version \in [Servers -> Versions]
  /\ stage \in [Servers -> {"down", "count", "exec", "insert", "commit", "up"}]
  /\ ran \in [Versions -> Nat]
  /\ RanOnce
  /\ \A s \in Servers : stage[s] = "commit" => version[s] \notin applied
  /\ \A s, o \in Servers :
       s # o /\ stage[s] \in {"insert", "commit"} /\ stage[o] \in {"insert", "commit"} => version[s] # version[o]

\* A server goes somewhere else, and no version is committed.
LEMMA ServerMoves ==
  ASSUME MigrationsInv, NEW s \in Servers, NEW where \in {"down", "count", "exec", "up"}, Go(s, where),
         UNCHANGED <<applied, ran>>, version' \in [Servers -> Versions],
         \A o \in Servers \ {s} : version'[o] = version[o]
  PROVE  MigrationsInv'
<1>1. \A o \in Servers : stage'[o] = IF o = s THEN where ELSE stage[o]
  BY DEF MigrationsInv, Go
<1>2. stage' \in [Servers -> {"down", "count", "exec", "insert", "commit", "up"}]
  BY DEF MigrationsInv, Go
<1>3. \A o \in Servers : stage'[o] = "commit" => version'[o] \notin applied'
  BY <1>1 DEF MigrationsInv
<1>4. ASSUME NEW p \in Servers, NEW o \in Servers, p # o, stage'[p] \in {"insert", "commit"},
             stage'[o] \in {"insert", "commit"}
      PROVE  version'[p] # version'[o]
  BY <1>1, <1>4 DEF MigrationsInv
<1>5. RanOnce' /\ (applied \subseteq Versions)' /\ (ran \in [Versions -> Nat])'
  BY DEF MigrationsInv, RanOnce, Versions
<1> QED BY <1>2, <1>3, <1>4, <1>5 DEF MigrationsInv

\* A version is committed by a server that alone was about to.
LEMMA VersionCommitted ==
  ASSUME MigrationsInv, NEW s \in Servers, stage[s] = "commit", NEW where \in {"down", "count", "up"},
         Go(s, where), applied' = applied \cup {version[s]}, ran' = [ran EXCEPT ![version[s]] = @ + 1],
         version' \in [Servers -> Versions], \A o \in Servers \ {s} : version'[o] = version[o]
  PROVE  MigrationsInv'
<1>0. version[s] \in Versions /\ version[s] \notin applied
  BY DEF MigrationsInv
<1>1. \A o \in Servers : stage'[o] = IF o = s THEN where ELSE stage[o]
  BY DEF MigrationsInv, Go
<1>2. stage' \in [Servers -> {"down", "count", "exec", "insert", "commit", "up"}]
  BY DEF MigrationsInv, Go
<1>3. ASSUME NEW o \in Servers, stage'[o] = "commit" PROVE version'[o] \notin applied'
  <2>1. o # s /\ stage[o] = "commit" /\ version'[o] = version[o]
    BY <1>1, <1>3
  <2>2. version[o] \notin applied /\ version[o] # version[s]
    BY <2>1 DEF MigrationsInv
  <2> QED BY <2>1, <2>2
<1>4. ASSUME NEW p \in Servers, NEW o \in Servers, p # o, stage'[p] \in {"insert", "commit"},
             stage'[o] \in {"insert", "commit"}
      PROVE  version'[p] # version'[o]
  BY <1>1, <1>4 DEF MigrationsInv
<1>5. (applied \subseteq Versions)' /\ (ran \in [Versions -> Nat])'
  <2>1. applied' \subseteq Versions /\ Versions' = Versions
    BY <1>0 DEF MigrationsInv, Versions
  <2>2. ran' \in [Versions -> Nat]
    BY <1>0 DEF MigrationsInv
  <2> QED BY <2>1, <2>2
<1>6. ASSUME NEW v \in Versions PROVE ran'[v] = IF v \in applied' THEN 1 ELSE 0
  <2>1. CASE v = version[s]
    BY <1>0, <2>1 DEF MigrationsInv, RanOnce
  <2>2. CASE v # version[s]
    BY <1>0, <2>2 DEF MigrationsInv, RanOnce
  <2> QED BY <2>1, <2>2
<1>7. RanOnce'
  BY <1>6 DEF RanOnce, Versions
<1> QED BY <1>2, <1>3, <1>4, <1>5, <1>7 DEF MigrationsInv

\* A server that is done with a version is at a version again, or it serves.
LEMMA ServerContinues ==
  ASSUME MigrationsInv, NEW s \in Servers, Continue(s)
  PROVE  /\ \E where \in {"count", "up"} : Go(s, where)
         /\ version' \in [Servers -> Versions]
         /\ \A o \in Servers \ {s} : version'[o] = version[o]
<1>1. CASE version[s] = LastVersion
  BY <1>1 DEF Continue, MigrationsInv
<1>2. CASE version[s] # LastVersion
  <2>1. version[s] + 1 \in Versions
    BY <1>2, MigrationsAssumption DEF MigrationsInv, Versions
  <2> QED BY <1>2, <2>1 DEF Continue, MigrationsInv
<1> QED BY <1>1, <1>2

\* A step of a server.
LEMMA MigrationsStepKept == ASSUME MigrationsInv, MigrationsNext PROVE MigrationsInv'
<1> PICK s \in Servers : MigrationStep(s) \/ CommitUnknown(s) \/ StatementFails(s)
  BY DEF MigrationsNext
<1>1. CASE Start(s)
  <2>1. 1 \in Versions
    BY MigrationsAssumption DEF Versions
  <2>2. Go(s, "count") /\ UNCHANGED <<applied, ran>> /\ version' = [version EXCEPT ![s] = 1]
    BY <1>1 DEF Start
  <2>3. version' \in [Servers -> Versions] /\ \A o \in Servers \ {s} : version'[o] = version[o]
    BY <2>1, <2>2 DEF MigrationsInv
  <2> QED BY <2>2, <2>3, ServerMoves
<1>2. CASE Count(s)
  <2>1. CASE version[s] \in applied
    BY <1>2, <2>1, ServerContinues, ServerMoves DEF Count
  <2>2. CASE version[s] \notin applied
    BY <1>2, <2>2, ServerMoves DEF Count, MigrationsInv
  <2> QED BY <2>1, <2>2
<1>3. ASSUME Exit(s) PROVE MigrationsInv'
  BY <1>3, ServerMoves DEF Exit, MigrationsInv
<1>4. CASE Exec(s)
  <2>1. CASE Exit(s)
    BY <1>3, <2>1
  <2>2. CASE Go(s, "insert") /\ UNCHANGED <<applied, ran, version>>
    <3>1. \A o \in Servers : stage'[o] = IF o = s THEN "insert" ELSE stage[o]
      BY <2>2 DEF MigrationsInv, Go
    <3>2. \A o \in Servers \ {s} : version[o] = version[s] => stage[o] \notin {"insert", "commit"}
      BY <1>4 DEF Exec, Locked
    <3>3. ASSUME NEW p \in Servers, NEW o \in Servers, p # o, stage'[p] \in {"insert", "commit"},
                 stage'[o] \in {"insert", "commit"}
          PROVE  version'[p] # version'[o]
      BY <2>2, <3>1, <3>2, <3>3 DEF MigrationsInv
    <3>4. stage' \in [Servers -> {"down", "count", "exec", "insert", "commit", "up"}]
      BY <2>2 DEF MigrationsInv, Go
    <3>5. \A o \in Servers : stage'[o] = "commit" => version'[o] \notin applied'
      BY <2>2, <3>1 DEF MigrationsInv
    <3> QED BY <2>2, <3>3, <3>4, <3>5 DEF MigrationsInv, RanOnce, Versions
  <2> QED BY <1>4, <2>1, <2>2 DEF Exec
<1>5. CASE InsertVersion(s)
  <2>1. CASE Exit(s)
    BY <1>3, <2>1
  <2>2. CASE version[s] \notin applied /\ Go(s, "commit") /\ UNCHANGED <<applied, ran, version>>
    <3>1. \A o \in Servers : stage'[o] = IF o = s THEN "commit" ELSE stage[o]
      BY <2>2 DEF MigrationsInv, Go
    <3>2. stage[s] = "insert"
      BY <1>5 DEF InsertVersion
    <3>3. ASSUME NEW p \in Servers, NEW o \in Servers, p # o, stage'[p] \in {"insert", "commit"},
                 stage'[o] \in {"insert", "commit"}
          PROVE  version'[p] # version'[o]
      BY <2>2, <3>1, <3>2, <3>3 DEF MigrationsInv
    <3>4. stage' \in [Servers -> {"down", "count", "exec", "insert", "commit", "up"}]
      BY <2>2 DEF MigrationsInv, Go
    <3>5. \A o \in Servers : stage'[o] = "commit" => version'[o] \notin applied'
      BY <2>2, <3>1 DEF MigrationsInv
    <3> QED BY <2>2, <3>3, <3>4, <3>5 DEF MigrationsInv, RanOnce, Versions
  <2> QED BY <1>5, <2>1, <2>2 DEF InsertVersion
<1>6. CASE CommitVersion(s)
  BY <1>6, ServerContinues, VersionCommitted DEF CommitVersion
<1>7. CASE CommitUnknown(s)
  BY <1>7, VersionCommitted DEF CommitUnknown, MigrationsInv
<1>8. CASE StatementFails(s)
  BY <1>3, <1>8 DEF StatementFails
<1> QED BY <1>1, <1>2, <1>4, <1>5, <1>6, <1>7, <1>8 DEF MigrationStep

\* However the servers interleave, fail and start again, the SQL of a version is
\* committed once, exactly when its row is (postgres.go:48-71): the first part
\* of ServersStart.
THEOREM MigratedOnce == StoresSpec => []RanOnce
<1>1. StoresInit => MigrationsInv
  BY MigrationsAssumption DEF StoresInit, MigrationsInit, MigrationsInv, RanOnce, Versions
<1>2. ASSUME MigrationsInv, [StoresNext]_allVars PROVE MigrationsInv'
  <2>1. CASE MigrationsNext
    BY <1>2, <2>1, MigrationsStepKept
  <2>2. CASE UNCHANGED <<applied, ran, stage, version>>
    BY <1>2, <2>2 DEF MigrationsInv, RanOnce, Versions
  <2> QED BY <1>2, <2>1, <2>2 DEF StoresNext, Migrate, Choose, LeaseCalls, StoreCalls, allVars, migrationVars
<1>3. MigrationsInv => RanOnce
  BY DEF MigrationsInv
<1> QED BY <1>1, <1>2, <1>3, PTL DEF StoresSpec

-----------------------------------------------------------------------------
(* The leases of the stores.                                               *)

\* Whatever else the servers call, one lease behaves as LeaseStore says, so the
\* theorems about it hold of the stores.
THEOREM StoresImplementLease == StoresSpec => LeaseSpec
<1>1. StoresInit => LeaseInit
  BY DEF StoresInit
<1>2. [StoresNext]_allVars => [LeaseNext]_leaseVars
  BY DEF StoresNext, Migrate, Choose, LeaseCalls, StoreCalls, allVars
<1> QED BY <1>1, <1>2, PTL DEF StoresSpec, LeaseSpec

\* The servers' leases: equal generations name one holder, and ownership never
\* passes directly between two workers (sqlite.go and postgres.go, AcquireLease).
THEOREM StoresFence == StoresSpec => []GenerationFences /\ ImplementsOwnership
  BY StoresImplementLease, FencingCorrect, OwnershipCorrect, PTL
=============================================================================
