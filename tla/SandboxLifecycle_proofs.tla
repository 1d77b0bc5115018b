----------------------- MODULE SandboxLifecycle_proofs -----------------------
(* Proofs about SandboxLifecycle, for any sandboxes, clients and crashes.  *)
EXTENDS SandboxLifecycle, TLAPS

\* What the other invariants need of the calls: they work on sandboxes, and
\* none is in progress unless the server is up.
Calls ==
  /\ spc # "idle" => phase = "up" /\ sid \in Sandboxes
  /\ \A d \in Destroyers :
       /\ dpc[d] # "idle" => phase = "up"
       /\ dpc[d] \in {"provider", "mark", "drop"} => did[d] \in work[d]

\* Rows exist where a call relies on them, and not yet where Spawn will insert
\* one; the rows Reconcile goes through are live.
Rows ==
  /\ spc \in {"create", "undo"} => row[sid] = "none"
  /\ \A s \in due : row[s] # "none"
  /\ \A d \in Destroyers : \A s \in work[d] : row[s] # "none"
  /\ phase = "rows" => todo \subseteq Live

\* Where every runtime is on record: in a row, in a Spawn call, or in the list
\* that Reconcile is adopting from.  Destroy marks a row only after its runtime.
Accounted ==
  /\ phase = "up" =>
       \A s \in runtime \ unmanaged : s \in Live \/ (s = sid /\ spc \in {"create", "undo"})
  /\ phase = "runtimes" => runtime \ unmanaged \subseteq Live \cup todo
  /\ \A d \in Destroyers : dpc[d] = "mark" => did[d] \notin runtime \ unmanaged

\* Where the reasons to give a sandbox up are: expired and listed sandboxes, and
\* those without a runtime, have one.
Grounded ==
  /\ NotGivenUp
  /\ due \subseteq grounds
  /\ \A d \in Destroyers : work[d] \subseteq grounds
  /\ Live \ runtime \subseteq grounds
  /\ spc = "create" => sid \in runtime \cup grounds
  /\ phase = "runtimes" => todo \subseteq runtime \cup grounds

Typed == TypeOK /\ Calls

Inv == Typed /\ Rows /\ Accounted /\ Grounded

\* The initial state satisfies the invariant.
LEMMA InitInv == ASSUME Init PROVE Inv
<1>1. TypeOK
  <2>1. dpc \in [Destroyers -> {"idle", "next", "provider", "mark", "drop"}]
    BY DEF Init
  <2>2. crashes \in 0 .. MaxCrashes
    BY ConstantsAssumption DEF Init
  <2>3. \A d \in Destroyers : dpc[d] = "idle" <=> work[d] = {}
    BY DEF Init
  <2> QED BY <2>1, <2>2, <2>3 DEF Init, TypeOK
<1>2. Calls
  BY DEF Init, Calls
<1>3. Rows /\ Accounted
  BY DEF Init, Rows, Accounted
<1>4. Grounded
  BY DEF Init, Grounded, NotGivenUp, Live
<1> QED BY <1>1, <1>2, <1>3, <1>4 DEF Inv, Typed

\* Every step preserves the types.
LEMMA StepTyped == ASSUME Typed, [Next]_vars PROVE Typed'
<1>1. CASE CreateRow
  BY <1>1 DEF CreateRow, TypeOK, Calls, history, Typed
<1>2. CASE UndoSpawn
  BY <1>2 DEF UndoSpawn, TypeOK, Calls, Typed
<1>3. CASE CacheSandbox
  BY <1>3 DEF CacheSandbox, TypeOK, Calls, Typed
<1>4. CASE Sweep
  BY <1>4 DEF Sweep, TypeOK, Calls, history, Typed
<1>5. CASE Crash
  BY <1>5, ConstantsAssumption DEF Crash, Exit, TypeOK, Calls, history, Typed
<1>6. CASE Start
  BY <1>6 DEF Start, TypeOK, Calls, Live, serving, history, Typed
<1>7. CASE ListRuntimes
  BY <1>7 DEF ListRuntimes, TypeOK, Calls, serving, Typed
<1>8. CASE Serve
  BY <1>8 DEF Serve, TypeOK, Calls, serving, history, Typed
<1>9. CASE ReconcileFails
  BY <1>9 DEF ReconcileFails, Exit, TypeOK, Calls, history, Typed
<1>10. ASSUME NEW s \in Sandboxes, SpawnRuntime(s) PROVE Typed'
  BY <1>10 DEF SpawnRuntime, TypeOK, Calls, Typed
<1>11. ASSUME NEW s \in Sandboxes, Expire(s) PROVE Typed'
  BY <1>11 DEF Expire, TypeOK, Calls, serving, Typed
<1>12. ASSUME NEW s \in Sandboxes, ExtendTTL(s) PROVE Typed'
  BY <1>12 DEF ExtendTTL, TypeOK, Calls, serving, history, Typed
<1>13. ASSUME NEW s \in Sandboxes, RuntimeDies(s) PROVE Typed'
  BY <1>13 DEF RuntimeDies, TypeOK, Calls, serving, Typed
<1>14. ASSUME NEW s \in Sandboxes, ReconcileRow(s) PROVE Typed'
  BY <1>14 DEF ReconcileRow, TypeOK, Calls, history, Typed
<1>15. ASSUME NEW s \in Sandboxes, Adopt(s) PROVE Typed'
  BY <1>15 DEF Adopt, TypeOK, Calls, Typed
<1>16. ASSUME NEW s \in Sandboxes, SkipRuntime(s) PROVE Typed'
  BY <1>16 DEF SkipRuntime, TypeOK, Calls, serving, Typed
<1>17. ASSUME NEW s \in Sandboxes, AdoptConflicts(s) PROVE Typed'
  BY <1>17 DEF AdoptConflicts, Exit, TypeOK, Calls, history, Typed
<1>18. ASSUME NEW s \in Sandboxes, NEW d \in Clients, Request(d, s) PROVE Typed'
  BY <1>18 DEF Request, TypeOK, Calls, Typed
<1>19. ASSUME NEW d \in Destroyers, Take(d) PROVE Typed'
  BY <1>19 DEF Take, TypeOK, Calls, history, Typed
<1>20. ASSUME NEW d \in Destroyers, Skip(d) PROVE Typed'
  BY <1>20 DEF Skip, TypeOK, Calls, history, Typed
<1>21. ASSUME NEW d \in Destroyers, ProviderDestroy(d) PROVE Typed'
  BY <1>21 DEF ProviderDestroy, TypeOK, Calls, Typed
<1>22. ASSUME NEW d \in Destroyers, Mark(d) PROVE Typed'
  BY <1>22 DEF Mark, TypeOK, Calls, history, Typed
<1>23. ASSUME NEW d \in Destroyers, MarkFails(d) PROVE Typed'
  BY <1>23 DEF MarkFails, TypeOK, Calls, history, Typed
<1>24. ASSUME NEW d \in Destroyers, Drop(d) PROVE Typed'
  BY <1>24 DEF Drop, TypeOK, Calls, history, Typed
<1>25. CASE UNCHANGED vars
  BY <1>25 DEF vars, serving, history, TypeOK, Calls, Typed
<1> QED
  BY <1>1, <1>2, <1>3, <1>4, <1>5, <1>6, <1>7, <1>8, <1>9, <1>10, <1>11, <1>12, <1>13, <1>14,
     <1>15, <1>16, <1>17, <1>18, <1>19, <1>20, <1>21, <1>22, <1>23, <1>24, <1>25
  DEF Next, SpawnStep, ReconcileStep, DestroyStep

\* Every step preserves what is known of the rows.
LEMMA StepRows == ASSUME Typed, Rows, [Next]_vars PROVE Rows'
<1>1. CASE CreateRow
  BY <1>1 DEF CreateRow, TypeOK, Calls, Rows, Typed
<1>2. CASE UndoSpawn
  BY <1>2 DEF UndoSpawn, Calls, Rows, Typed
<1>3. CASE CacheSandbox
  BY <1>3 DEF CacheSandbox, Calls, Rows, Typed
<1>4. CASE Sweep
  BY <1>4 DEF Sweep, Rows
<1>5. CASE Crash
  BY <1>5 DEF Crash, Exit, Rows
<1>6. CASE Start
  BY <1>6 DEF Start, Rows, Live, serving
<1>7. CASE ListRuntimes
  BY <1>7 DEF ListRuntimes, Rows, serving
<1>8. CASE Serve
  BY <1>8 DEF Serve, Rows, serving
<1>9. CASE ReconcileFails
  BY <1>9 DEF ReconcileFails, Exit, Rows
<1>10. ASSUME NEW s \in Sandboxes, SpawnRuntime(s) PROVE Rows'
  BY <1>10 DEF SpawnRuntime, Rows
<1>11. ASSUME NEW s \in Sandboxes, Expire(s) PROVE Rows'
  BY <1>11 DEF Expire, Rows, Live, serving
<1>12. ASSUME NEW s \in Sandboxes, ExtendTTL(s) PROVE Rows'
  BY <1>12 DEF ExtendTTL, Rows, serving
<1>13. ASSUME NEW s \in Sandboxes, RuntimeDies(s) PROVE Rows'
  BY <1>13 DEF RuntimeDies, Rows, Live, serving
<1>14. ASSUME NEW s \in Sandboxes, ReconcileRow(s) PROVE Rows'
  BY <1>14 DEF ReconcileRow, TypeOK, Calls, Rows, Live, Typed
<1>15. ASSUME NEW s \in Sandboxes, Adopt(s) PROVE Rows'
  BY <1>15 DEF Adopt, Calls, Rows, Typed
<1>16. ASSUME NEW s \in Sandboxes, SkipRuntime(s) PROVE Rows'
  BY <1>16 DEF SkipRuntime, Rows, serving
<1>17. ASSUME NEW s \in Sandboxes, AdoptConflicts(s) PROVE Rows'
  BY <1>17 DEF AdoptConflicts, Exit, Rows
<1>18. ASSUME NEW s \in Sandboxes, NEW d \in Clients, Request(d, s) PROVE Rows'
  BY <1>18 DEF Request, Rows
<1>19. ASSUME NEW d \in Destroyers, Take(d) PROVE Rows'
  BY <1>19 DEF Take, Calls, Rows, Typed
<1>20. ASSUME NEW d \in Destroyers, Skip(d) PROVE Rows'
  BY <1>20 DEF Skip, Calls, Rows, Typed
<1>21. ASSUME NEW d \in Destroyers, ProviderDestroy(d) PROVE Rows'
  BY <1>21 DEF ProviderDestroy, Calls, Rows, Typed
<1>22. ASSUME NEW d \in Destroyers, Mark(d) PROVE Rows'
  BY <1>22 DEF Mark, Calls, Rows, Typed
<1>23. ASSUME NEW d \in Destroyers, MarkFails(d) PROVE Rows'
  BY <1>23 DEF MarkFails, Calls, Rows, Typed
<1>24. ASSUME NEW d \in Destroyers, Drop(d) PROVE Rows'
  BY <1>24 DEF Drop, Calls, Rows, Typed
<1>25. CASE UNCHANGED vars
  BY <1>25 DEF vars, serving, Rows, Live
<1> QED
  BY <1>1, <1>2, <1>3, <1>4, <1>5, <1>6, <1>7, <1>8, <1>9, <1>10, <1>11, <1>12, <1>13, <1>14,
     <1>15, <1>16, <1>17, <1>18, <1>19, <1>20, <1>21, <1>22, <1>23, <1>24, <1>25
  DEF Next, SpawnStep, ReconcileStep, DestroyStep

\* Every step keeps every runtime on record.
LEMMA StepAccounted == ASSUME Typed, Rows, Accounted, [Next]_vars PROVE Accounted'
<1>1. CASE CreateRow
  BY <1>1 DEF CreateRow, TypeOK, Accounted, Live, history, Typed
<1>2. CASE UndoSpawn
  BY <1>2 DEF UndoSpawn, Accounted, Live
<1>3. CASE CacheSandbox
  BY <1>3 DEF CacheSandbox, Accounted, Live
<1>4. CASE Sweep
  BY <1>4 DEF Sweep, Accounted, Live, history
<1>5. CASE Crash
  BY <1>5 DEF Crash, Exit, Accounted
<1>6. CASE Start
  BY <1>6 DEF Start, Calls, Accounted, serving, Typed
<1>7. CASE ListRuntimes
  BY <1>7 DEF ListRuntimes, Accounted, Live, serving
<1>8. CASE Serve
  BY <1>8 DEF Serve, Accounted, Live, serving, history
<1>9. CASE ReconcileFails
  BY <1>9 DEF ReconcileFails, Exit, Accounted
<1>10. ASSUME NEW s \in Sandboxes, SpawnRuntime(s) PROVE Accounted'
  BY <1>10 DEF SpawnRuntime, Calls, Rows, Accounted, Live, Typed
<1>11. ASSUME NEW s \in Sandboxes, Expire(s) PROVE Accounted'
  BY <1>11 DEF Expire, Accounted, Live, serving
<1>12. ASSUME NEW s \in Sandboxes, ExtendTTL(s) PROVE Accounted'
  BY <1>12 DEF ExtendTTL, Accounted, Live, serving, history
<1>13. ASSUME NEW s \in Sandboxes, RuntimeDies(s) PROVE Accounted'
  BY <1>13 DEF RuntimeDies, Accounted, Live, serving
<1>14. ASSUME NEW s \in Sandboxes, ReconcileRow(s) PROVE Accounted'
  BY <1>14 DEF ReconcileRow, Calls, Accounted, Typed
<1>15. ASSUME NEW s \in Sandboxes, Adopt(s) PROVE Accounted'
  BY <1>15 DEF Adopt, TypeOK, Calls, Accounted, Live, Typed
<1>16. ASSUME NEW s \in Sandboxes, SkipRuntime(s) PROVE Accounted'
  BY <1>16 DEF SkipRuntime, Accounted, Live, serving
<1>17. ASSUME NEW s \in Sandboxes, AdoptConflicts(s) PROVE Accounted'
  BY <1>17 DEF AdoptConflicts, Exit, Accounted
<1>18. ASSUME NEW s \in Sandboxes, NEW d \in Clients, Request(d, s) PROVE Accounted'
  BY <1>18 DEF Request, Accounted, Live
<1>19. ASSUME NEW d \in Destroyers, Take(d) PROVE Accounted'
  BY <1>19 DEF Take, Accounted, Live, history
<1>20. ASSUME NEW d \in Destroyers, Skip(d) PROVE Accounted'
  BY <1>20 DEF Skip, Accounted, Live, history
<1>21. ASSUME NEW d \in Destroyers, ProviderDestroy(d) PROVE Accounted'
  BY <1>21 DEF ProviderDestroy, Accounted, Live
<1>22. ASSUME NEW d \in Destroyers, Mark(d) PROVE Accounted'
  BY <1>22 DEF Mark, Accounted, Live, history
<1>23. ASSUME NEW d \in Destroyers, MarkFails(d) PROVE Accounted'
  BY <1>23 DEF MarkFails, Accounted, Live, history
<1>24. ASSUME NEW d \in Destroyers, Drop(d) PROVE Accounted'
  BY <1>24 DEF Drop, Accounted, Live, history
<1>25. CASE UNCHANGED vars
  BY <1>25 DEF vars, serving, history, Accounted, Live
<1> QED
  BY <1>1, <1>2, <1>3, <1>4, <1>5, <1>6, <1>7, <1>8, <1>9, <1>10, <1>11, <1>12, <1>13, <1>14,
     <1>15, <1>16, <1>17, <1>18, <1>19, <1>20, <1>21, <1>22, <1>23, <1>24, <1>25
  DEF Next, SpawnStep, ReconcileStep, DestroyStep

\* Every step destroys rows with reason only.
LEMMA StepGrounded == ASSUME Typed, Rows, Grounded, [Next]_vars PROVE Grounded'
<1>1. CASE CreateRow
  BY <1>1 DEF CreateRow, TypeOK, Grounded, NotGivenUp, Live, history, Typed
<1>2. CASE UndoSpawn
  BY <1>2 DEF UndoSpawn, Calls, Rows, Grounded, NotGivenUp, Live, Typed
<1>3. CASE CacheSandbox
  BY <1>3 DEF CacheSandbox, Grounded, NotGivenUp, Live
<1>4. CASE Sweep
  BY <1>4 DEF Sweep, Grounded, NotGivenUp, Live, history
<1>5. CASE Crash
  BY <1>5 DEF Crash, Exit, Grounded, NotGivenUp, Live, history
<1>6. CASE Start
  BY <1>6 DEF Start, Grounded, NotGivenUp, Live, serving, history
<1>7. CASE ListRuntimes
  BY <1>7 DEF ListRuntimes, Grounded, NotGivenUp, Live, serving
<1>8. CASE Serve
  BY <1>8 DEF Serve, Grounded, NotGivenUp, Live, serving, history
<1>9. CASE ReconcileFails
  BY <1>9 DEF ReconcileFails, Exit, Grounded, NotGivenUp, Live, history
<1>10. ASSUME NEW s \in Sandboxes, SpawnRuntime(s) PROVE Grounded'
  BY <1>10 DEF SpawnRuntime, Rows, Grounded, NotGivenUp, Live
<1>11. ASSUME NEW s \in Sandboxes, Expire(s) PROVE Grounded'
  BY <1>11 DEF Expire, Grounded, NotGivenUp, Live, serving
<1>12. ASSUME NEW s \in Sandboxes, ExtendTTL(s) PROVE Grounded'
  BY <1>12 DEF ExtendTTL, Grounded, NotGivenUp, Live, serving, history
<1>13. ASSUME NEW s \in Sandboxes, RuntimeDies(s) PROVE Grounded'
  BY <1>13 DEF RuntimeDies, Grounded, NotGivenUp, Live, serving
<1>14. ASSUME NEW s \in Sandboxes, ReconcileRow(s) PROVE Grounded'
  BY <1>14 DEF ReconcileRow, TypeOK, Rows, Grounded, NotGivenUp, Live, history, Typed
<1>15. ASSUME NEW s \in Sandboxes, Adopt(s) PROVE Grounded'
  BY <1>15 DEF Adopt, Grounded, NotGivenUp, Live
<1>16. ASSUME NEW s \in Sandboxes, SkipRuntime(s) PROVE Grounded'
  BY <1>16 DEF SkipRuntime, Grounded, NotGivenUp, Live, serving
<1>17. ASSUME NEW s \in Sandboxes, AdoptConflicts(s) PROVE Grounded'
  BY <1>17 DEF AdoptConflicts, Exit, Grounded, NotGivenUp, Live, history
<1>18. ASSUME NEW s \in Sandboxes, NEW d \in Clients, Request(d, s) PROVE Grounded'
  BY <1>18 DEF Request, Grounded, NotGivenUp, Live
<1>19. ASSUME NEW d \in Destroyers, Take(d) PROVE Grounded'
  BY <1>19 DEF Take, Grounded, NotGivenUp, Live, history
<1>20. ASSUME NEW d \in Destroyers, Skip(d) PROVE Grounded'
  BY <1>20 DEF Skip, Grounded, NotGivenUp, Live, history
<1>21. ASSUME NEW d \in Destroyers, ProviderDestroy(d) PROVE Grounded'
  BY <1>21 DEF ProviderDestroy, Calls, Grounded, NotGivenUp, Live, Typed
<1>22. ASSUME NEW d \in Destroyers, Mark(d) PROVE Grounded'
  BY <1>22 DEF Mark, Calls, Grounded, NotGivenUp, Live, history, Typed
<1>23. ASSUME NEW d \in Destroyers, MarkFails(d) PROVE Grounded'
  BY <1>23 DEF MarkFails, Grounded, NotGivenUp, Live, history
<1>24. ASSUME NEW d \in Destroyers, Drop(d) PROVE Grounded'
  BY <1>24 DEF Drop, Grounded, NotGivenUp, Live, history
<1>25. CASE UNCHANGED vars
  BY <1>25 DEF vars, serving, history, Grounded, NotGivenUp, Live
<1> QED
  BY <1>1, <1>2, <1>3, <1>4, <1>5, <1>6, <1>7, <1>8, <1>9, <1>10, <1>11, <1>12, <1>13, <1>14,
     <1>15, <1>16, <1>17, <1>18, <1>19, <1>20, <1>21, <1>22, <1>23, <1>24, <1>25
  DEF Next, SpawnStep, ReconcileStep, DestroyStep

\* No step revives a row: the two that write "live" do so only where no row is.
LEMMA StepRevives == ASSUME Typed, Rows, [Next]_vars PROVE RevivesNoRow
<1>1. CASE CreateRow
  BY <1>1 DEF CreateRow, Calls, Typed, TypeOK, Rows, RevivesNoRow
<1>2. ASSUME NEW s \in Sandboxes, Adopt(s) PROVE RevivesNoRow
  BY <1>2 DEF Adopt, Typed, TypeOK, RevivesNoRow
<1>3. ASSUME NEW s \in Sandboxes, ReconcileRow(s) PROVE RevivesNoRow
  BY <1>3 DEF ReconcileRow, Typed, TypeOK, RevivesNoRow
<1>4. ASSUME NEW d \in Destroyers, Mark(d) PROVE RevivesNoRow
  BY <1>4 DEF Mark, Typed, TypeOK, RevivesNoRow
<1>5. CASE UNCHANGED row
  BY <1>5 DEF RevivesNoRow
<1>6. CASE UndoSpawn \/ CacheSandbox
  BY <1>5, <1>6 DEF UndoSpawn, CacheSandbox
<1>7. CASE Sweep \/ Crash \/ Start
  BY <1>5, <1>7 DEF Sweep, Crash, Start
<1>8. CASE ListRuntimes \/ Serve \/ ReconcileFails
  BY <1>5, <1>8 DEF ListRuntimes, Serve, ReconcileFails
<1>9. ASSUME NEW s \in Sandboxes, SkipRuntime(s) \/ AdoptConflicts(s) PROVE RevivesNoRow
  BY <1>5, <1>9 DEF SkipRuntime, AdoptConflicts
<1>10. ASSUME NEW s \in Sandboxes, SpawnRuntime(s) \/ Expire(s) \/ ExtendTTL(s) \/ RuntimeDies(s)
       PROVE RevivesNoRow
  BY <1>5, <1>10 DEF SpawnRuntime, Expire, ExtendTTL, RuntimeDies
<1>11. ASSUME NEW s \in Sandboxes, NEW d \in Clients, Request(d, s) PROVE RevivesNoRow
  BY <1>5, <1>11 DEF Request
<1>12. ASSUME NEW d \in Destroyers, Take(d) \/ Skip(d) \/ ProviderDestroy(d) \/ MarkFails(d) \/ Drop(d)
       PROVE RevivesNoRow
  BY <1>5, <1>12 DEF Take, Skip, ProviderDestroy, MarkFails, Drop
<1>13. CASE UNCHANGED vars
  BY <1>5, <1>13 DEF vars
<1> QED
  BY <1>1, <1>2, <1>3, <1>4, <1>6, <1>7, <1>8, <1>9, <1>10, <1>11, <1>12, <1>13
  DEF Next, SpawnStep, ReconcileStep, DestroyStep

\* Every step drops the cache's entry of a sandbox with its row, or has a Destroy
\* call about to do so: a row is only marked by the Destroy call that drops it or,
\* before anything is served, by Reconcile, which takes it out of the cache too.
LEMMA StepCache == ASSUME Typed, Rows, CacheAgrees, [Next]_vars PROVE CacheAgrees'
<1>1. CASE CreateRow
  BY <1>1 DEF CreateRow, TypeOK, Calls, Rows, CacheAgrees, history, Typed
<1>2. CASE UndoSpawn
  BY <1>2 DEF UndoSpawn, CacheAgrees
<1>3. CASE CacheSandbox
  BY <1>3 DEF CacheSandbox, CacheAgrees
<1>4. CASE Crash \/ ReconcileFails
  BY <1>4 DEF Crash, ReconcileFails, Exit, CacheAgrees
<1>5. ASSUME NEW s \in Sandboxes, AdoptConflicts(s) PROVE CacheAgrees'
  BY <1>5 DEF AdoptConflicts, Exit, CacheAgrees
<1>6. CASE UNCHANGED <<row, cached, overtaken, dpc, did>>
  BY <1>6 DEF CacheAgrees
<1>7. CASE Start \/ ListRuntimes \/ Serve
  BY <1>6, <1>7 DEF Start, ListRuntimes, Serve, serving, history
<1>8. CASE Sweep
  BY <1>8 DEF Sweep, TypeOK, CacheAgrees, history, Typed
<1>9. ASSUME NEW s \in Sandboxes,
             SpawnRuntime(s) \/ Expire(s) \/ ExtendTTL(s) \/ RuntimeDies(s) \/ SkipRuntime(s)
      PROVE  CacheAgrees'
  BY <1>6, <1>9 DEF SpawnRuntime, Expire, ExtendTTL, RuntimeDies, SkipRuntime, serving, history
<1>10. ASSUME NEW s \in Sandboxes, ReconcileRow(s) PROVE CacheAgrees'
  BY <1>10 DEF ReconcileRow, TypeOK, Rows, Live, CacheAgrees, history, Typed
<1>11. ASSUME NEW s \in Sandboxes, Adopt(s) PROVE CacheAgrees'
  BY <1>11 DEF Adopt, TypeOK, CacheAgrees, Typed
<1>12. ASSUME NEW s \in Sandboxes, NEW d \in Clients, Request(d, s) PROVE CacheAgrees'
  BY <1>12 DEF Request, TypeOK, CacheAgrees, Typed
<1>13. ASSUME NEW d \in Destroyers, Take(d) PROVE CacheAgrees'
  BY <1>13 DEF Take, TypeOK, CacheAgrees, history, Typed
<1>14. ASSUME NEW d \in Destroyers, Skip(d) PROVE CacheAgrees'
  BY <1>14 DEF Skip, TypeOK, CacheAgrees, history, Typed
<1>15. ASSUME NEW d \in Destroyers, ProviderDestroy(d) PROVE CacheAgrees'
  BY <1>15 DEF ProviderDestroy, TypeOK, CacheAgrees, Typed
<1>16. ASSUME NEW d \in Destroyers, Mark(d) PROVE CacheAgrees'
  BY <1>16 DEF Mark, TypeOK, CacheAgrees, history, Typed
<1>17. ASSUME NEW d \in Destroyers, MarkFails(d) PROVE CacheAgrees'
  BY <1>17 DEF MarkFails, TypeOK, CacheAgrees, history, Typed
<1>18. ASSUME NEW d \in Destroyers, Drop(d) PROVE CacheAgrees'
  BY <1>18 DEF Drop, TypeOK, CacheAgrees, history, Typed
<1>19. CASE UNCHANGED vars
  BY <1>6, <1>19 DEF vars, serving, history
<1> QED
  BY <1>1, <1>2, <1>3, <1>4, <1>5, <1>7, <1>8, <1>9, <1>10, <1>11, <1>12, <1>13, <1>14,
     <1>15, <1>16, <1>17, <1>18, <1>19
  DEF Next, SpawnStep, ReconcileStep, DestroyStep

\* Inv holds in every reachable state.
LEMMA Invariant == Spec => []Inv
<1>1. Inv /\ [Next]_vars => Inv'
  BY StepTyped, StepRows, StepAccounted, StepGrounded DEF Inv
<1> QED BY InitInv, <1>1, PTL DEF Spec

-----------------------------------------------------------------------------
(* The theorems.                                                           *)

\* The variables keep their types; a Destroy call is idle exactly when its list
\* is empty.
THEOREM TypeCorrect == Spec => []TypeOK
<1>1. Inv => TypeOK
  BY DEF Inv, Typed
<1> QED BY Invariant, <1>1, PTL

\* Wherever the server crashes, a runtime is never lost that the provider and
\* the store did not refuse to destroy or to adopt.
THEOREM RuntimesCorrect == Spec => []RuntimeAccounted
<1>1. Inv => RuntimeAccounted
  BY DEF Inv, Accounted, RuntimeAccounted
<1> QED BY Invariant, <1>1, PTL

\* A row is destroyed with reason only, unless a restart has made the sandbox's
\* provider forget it.
THEOREM GroundsCorrect == Spec => []NotGivenUp
<1>1. Inv => NotGivenUp
  BY DEF Inv, Grounded
<1> QED BY Invariant, <1>1, PTL

\* The cache and the rows agree on what is destroyed, but for a Destroy call
\* under way and a sandbox that was destroyed before its Spawn cached it.
THEOREM CacheCorrect == Spec => []CacheAgrees
<1>1. Init => CacheAgrees
  BY DEF Init, CacheAgrees
<1>2. Inv /\ CacheAgrees /\ [Next]_vars => CacheAgrees'
  BY StepCache DEF Inv
<1> QED BY Invariant, <1>1, <1>2, PTL DEF Spec

\* A destroyed sandbox is not revived, by no late call and by no restart.
THEOREM DestroyedStays == Spec => DestroyedForGood
<1>1. Inv /\ [Next]_vars => [RevivesNoRow]_vars
  BY StepRevives DEF Inv
<1> QED BY Invariant, <1>1, PTL DEF Spec, DestroyedForGood
=============================================================================
