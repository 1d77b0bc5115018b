--------------------------- MODULE Providers_proofs ---------------------------
(***************************************************************************)
(* Proofs about Providers, for any callers, sandboxes, calls, failing      *)
(* steps and restarts, and about FirecrackerVMs, for any number of Spawn   *)
(* calls and crashes.                                                      *)
(*                                                                         *)
(* A call's step is that of one of five providers.  What the proof needs   *)
(* of it is said once: Taken(c) is true of a step of any provider,         *)
(* Served(c) of those whose sandboxes a daemon or a service keeps (Docker, *)
(* custom, E2B), Hosted(c) of those with directories on the host (PRoot,   *)
(* the mock).  Each provider's steps are shown to be such steps, and such  *)
(* steps to keep CallsInv.                                                 *)
(***************************************************************************)
EXTENDS Providers, TLAPS

-----------------------------------------------------------------------------
(* Firecracker: the inductive invariant.                                   *)

Building == {"copy", "boot", "create", "save", "end"}

\* One goroutine builds, and it is the one in snapBuilding.
OneBuilder == \A s \in Spawns : bpc[s] \in Building <=> builder = s

\* A temporary VM that no crash left behind is that of the build.
TemporaryBuilt == \A s \in temporary \ orphans : bpc[s] \in {"create", "save"}

ProcessesHeld == \A s \in process \ orphans : s \in vms \/ pc[s] \in {"load", "boot", "kill"}

\* A Spawn starts its goroutine once, when it ends.
Unbuilt == \A s \in Spawns : pc[s] \in {"idle", "copy", "load", "cold", "boot"} => bpc[s] = "none"

\* What the build has put into the directory so far.
Stage(s) ==
  /\ bpc[s] = "create" => baseline = [by |-> s, booted |-> TRUE]
  /\ bpc[s] = "save" => baseline = [by |-> s, booted |-> TRUE] /\ vmstate = s
  /\ bpc[s] = "end" => (Available => Whole(baseline, vmstate, memory))

\* The build boots its own baseline, also when a crash hit an earlier build.
Based == \A s \in Spawns : bpc[s] = "boot" => baseline \in Files \ {NoFile} /\ baseline.by = s

Staged == ~torn => SnapshotWhole /\ \A s \in Spawns : Stage(s)

IInv ==
  /\ TypeOK /\ Unbuilt /\ OneBuilder /\ TemporaryBuilt /\ ProcessesHeld /\ Based /\ Staged

-----------------------------------------------------------------------------
(* Steps.                                                                  *)

LEMMA NextCases ==
  ASSUME Next
  PROVE  \/ Crash
         \/ \E s \in Spawns :
              \/ Spawn(s) \/ ImageFails(s) \/ CopyBaseline(s) \/ CopyFails(s)
              \/ LoadSnapshot(s) \/ LoadFails(s) \/ StartProcess(s) \/ Boot(s) \/ BootFails(s)
              \/ Kill(s) \/ Destroy(s)
         \/ \E s \in Spawns : BuildStep(s)
  BY DEF Next, SpawnStep

\* What a build step is, and what it leaves alone.
LEMMA BuildMoves ==
  ASSUME TypeOK, NEW s \in Spawns, BuildStep(s)
  PROVE  /\ \A t \in Spawns : t # s => bpc'[t] = bpc[t]
         /\ UNCHANGED <<pc, vms, process, restored, history>>
  BY DEF TypeOK, BuildStep, BuildBegin, BuildAwaited, BuildCopy, BuildBoot, BuildCreate, BuildSave,
         BuildFails, BuildEnd, Build

LEMMA SpawnTyped ==
  ASSUME TypeOK, NEW s \in Spawns,
         \/ Spawn(s) \/ ImageFails(s) \/ CopyBaseline(s) \/ CopyFails(s)
         \/ LoadSnapshot(s) \/ LoadFails(s) \/ StartProcess(s) \/ Boot(s) \/ BootFails(s)
         \/ Kill(s) \/ Destroy(s)
  PROVE  TypeOK'
<1> USE DEF TypeOK, snapshot, build, history, Goto
<1>1. CASE Spawn(s) \/ ImageFails(s) \/ CopyFails(s)
  BY <1>1 DEF Spawn, ImageFails, CopyFails
<1>2. CASE CopyBaseline(s)
  BY <1>2 DEF CopyBaseline
<1>3. CASE LoadSnapshot(s)
  <2>1. [restored[s] EXCEPT !.vmstate = vmstate, !.memory = memory]
          \in [baseline : Files, vmstate : Spawns \cup {Nobody}, memory : Spawns \cup {Nobody}]
    <3>1. /\ restored[s] \in [baseline : Files, vmstate : Spawns \cup {Nobody}, memory : Spawns \cup {Nobody}]
          /\ vmstate \in Spawns \cup {Nobody} /\ memory \in Spawns \cup {Nobody}
      OBVIOUS
    <3> HIDE DEF TypeOK
    <3> QED BY <3>1
  <2>2. restored' = [restored EXCEPT ![s] = [restored[s] EXCEPT !.vmstate = vmstate, !.memory = memory]]
    BY <1>3 DEF LoadSnapshot
  <2>3. restored' \in [Spawns -> [baseline : Files, vmstate : Spawns \cup {Nobody},
                                  memory : Spawns \cup {Nobody}]]
    BY <2>1, <2>2
  <2>4. /\ pc' = [pc EXCEPT ![s] = "up"] /\ vms' = vms \cup {s}
        /\ UNCHANGED <<process, temporary, snapshot, build, history>>
    BY <1>3 DEF LoadSnapshot
  <2> QED BY <2>3, <2>4
<1>4. CASE LoadFails(s)
  <2>1. Blank \in [baseline : Files, vmstate : Spawns \cup {Nobody}, memory : Spawns \cup {Nobody}]
    BY DEF Blank, Files
  <2> QED BY <1>4, <2>1 DEF LoadFails
<1>5. CASE StartProcess(s)
  BY <1>5 DEF StartProcess
<1>6. CASE Boot(s) \/ BootFails(s)
  BY <1>6 DEF Boot, BootFails
<1>7. CASE Destroy(s) \/ Kill(s)
  BY <1>7 DEF Destroy, Kill
<1> QED BY <1>1, <1>2, <1>3, <1>4, <1>5, <1>6, <1>7

LEMMA BuildTyped == ASSUME TypeOK, Based, NEW s \in Spawns, BuildStep(s) PROVE TypeOK'
<1> USE DEF TypeOK, snapshot, build, history, Build
<1>1. CASE BuildBegin(s)
  BY <1>1 DEF BuildBegin
<1>2. CASE BuildAwaited(s)
  BY <1>2 DEF BuildAwaited
<1>3. CASE BuildCopy(s)
  BY <1>3 DEF BuildCopy, Files
<1>4. CASE BuildBoot(s)
  <2>1. baseline.by \in Spawns
    BY <1>4 DEF BuildBoot, Based, Files
  <2>2. baseline' \in Files
    BY <1>4, <2>1 DEF BuildBoot, Files
  <2> QED BY <1>4, <2>2 DEF BuildBoot
<1>5. CASE BuildCreate(s) \/ BuildSave(s)
  BY <1>5 DEF BuildCreate, BuildSave
<1>6. CASE BuildFails(s)
  BY <1>6 DEF BuildFails, Files
<1>7. CASE BuildEnd(s)
  BY <1>7 DEF BuildEnd
<1> QED BY <1>1, <1>2, <1>3, <1>4, <1>5, <1>6, <1>7 DEF BuildStep

LEMMA CrashTyped == ASSUME TypeOK, Crash PROVE TypeOK'
<1>1. crashes' \in 0 .. MaxCrashes
  BY CrashesAssumption DEF TypeOK, Crash
<1> QED BY <1>1 DEF TypeOK, Crash, snapshot

-----------------------------------------------------------------------------
(* Each part of the invariant is kept.                                     *)

LEMMA SpawnKeeps ==
  ASSUME IInv, NEW s \in Spawns,
         \/ Spawn(s) \/ ImageFails(s) \/ CopyBaseline(s) \/ CopyFails(s)
         \/ LoadSnapshot(s) \/ LoadFails(s) \/ StartProcess(s) \/ BootFails(s)
         \/ Kill(s) \/ Destroy(s)
  PROVE  UNCHANGED <<temporary, snapshot, build, history>>
  BY DEF Spawn, ImageFails, CopyBaseline, CopyFails, LoadSnapshot, LoadFails, StartProcess,
         BootFails, Kill, Destroy

LEMMA SpawnHeld ==
  ASSUME IInv, NEW s \in Spawns,
         \/ Spawn(s) \/ ImageFails(s) \/ CopyBaseline(s) \/ CopyFails(s)
         \/ LoadSnapshot(s) \/ LoadFails(s) \/ StartProcess(s) \/ Boot(s) \/ BootFails(s)
         \/ Kill(s) \/ Destroy(s)
  PROVE  ProcessesHeld'
<1> USE DEF IInv, TypeOK, ProcessesHeld, Goto, history
<1>1. CASE Spawn(s) \/ ImageFails(s) \/ CopyFails(s)
  BY <1>1 DEF Spawn, ImageFails, CopyFails
<1>2. CASE CopyBaseline(s) \/ StartProcess(s)
  BY <1>2 DEF CopyBaseline, StartProcess
<1>3. CASE LoadSnapshot(s) \/ Boot(s)
  BY <1>3 DEF LoadSnapshot, Boot
<1>4. CASE LoadFails(s) \/ BootFails(s) \/ Kill(s)
  BY <1>4 DEF LoadFails, BootFails, Kill
<1>5. CASE Destroy(s)
  BY <1>5 DEF Destroy
<1> QED BY <1>1, <1>2, <1>3, <1>4, <1>5

LEMMA SpawnUnbuilt ==
  ASSUME IInv, NEW s \in Spawns,
         \/ Spawn(s) \/ ImageFails(s) \/ CopyBaseline(s) \/ CopyFails(s)
         \/ LoadSnapshot(s) \/ LoadFails(s) \/ StartProcess(s) \/ Boot(s) \/ BootFails(s)
         \/ Kill(s) \/ Destroy(s)
  PROVE  Unbuilt'
<1> USE DEF IInv, TypeOK, Unbuilt, Goto, build
<1>1. CASE Spawn(s) \/ ImageFails(s) \/ CopyFails(s)
  BY <1>1 DEF Spawn, ImageFails, CopyFails
<1>2. CASE CopyBaseline(s) \/ StartProcess(s)
  BY <1>2 DEF CopyBaseline, StartProcess
<1>3. CASE LoadSnapshot(s) \/ LoadFails(s) \/ BootFails(s)
  BY <1>3 DEF LoadSnapshot, LoadFails, BootFails
<1>4. CASE Boot(s)
  BY <1>4 DEF Boot
<1>5. CASE Destroy(s) \/ Kill(s)
  BY <1>5 DEF Destroy, Kill
<1> QED BY <1>1, <1>2, <1>3, <1>4, <1>5

\* The goroutine that a cold boot starts is not building yet.
LEMMA BootKept ==
  ASSUME IInv, NEW s \in Spawns, Boot(s)
  PROVE  OneBuilder' /\ TemporaryBuilt' /\ Based' /\ Staged'
<1>1. /\ bpc' = [bpc EXCEPT ![s] = "begin"] /\ bpc[s] = "none" /\ DOMAIN bpc = Spawns
      /\ UNCHANGED <<temporary, baseline, vmstate, memory, builder, orphans, torn>>
  BY DEF IInv, TypeOK, Unbuilt, Boot, snapshot, history
<1>2. OneBuilder' /\ TemporaryBuilt' /\ Based'
  BY <1>1 DEF IInv, TypeOK, OneBuilder, Building, TemporaryBuilt, Based, Files, NoFile
<1>3. Staged'
  BY <1>1 DEF IInv, TypeOK, Staged, Stage, SnapshotWhole, Available, Whole, NoFile
<1> QED BY <1>2, <1>3

LEMMA SpawnKept ==
  ASSUME IInv, NEW s \in Spawns,
         \/ Spawn(s) \/ ImageFails(s) \/ CopyBaseline(s) \/ CopyFails(s)
         \/ LoadSnapshot(s) \/ LoadFails(s) \/ StartProcess(s) \/ Boot(s) \/ BootFails(s)
         \/ Kill(s) \/ Destroy(s)
  PROVE  IInv'
<1>1. TypeOK'
  BY SpawnTyped DEF IInv
<1>2. ProcessesHeld' /\ Unbuilt'
  BY SpawnHeld, SpawnUnbuilt
<1>3. CASE ~ Boot(s)
  <2>1. UNCHANGED <<temporary, baseline, vmstate, memory, bpc, builder, orphans, torn>>
    BY <1>3, SpawnKeeps DEF snapshot, build, history
  <2>2. OneBuilder' /\ TemporaryBuilt' /\ Based'
    BY <2>1 DEF IInv, OneBuilder, TemporaryBuilt, Based, Files, NoFile
  <2>3. Staged'
    BY <2>1 DEF IInv, Staged, Stage, SnapshotWhole, Available, Whole, NoFile
  <2> QED BY <1>1, <1>2, <2>2, <2>3 DEF IInv
<1>4. CASE Boot(s)
  <2> QED BY <1>1, <1>2, <1>4, BootKept DEF IInv
<1> QED BY <1>3, <1>4

\* One goroutine builds: a step of it is not a step of another.
LEMMA OneBuilderKept ==
  ASSUME IInv, NEW s \in Spawns, BuildStep(s)
  PROVE  OneBuilder' /\ Unbuilt'
<1>1. /\ \A t \in Spawns : t # s => bpc'[t] = bpc[t]
      /\ UNCHANGED pc
  BY BuildMoves DEF IInv
<1>2. bpc[s] # "none"
  BY DEF IInv, TypeOK, BuildStep, BuildBegin, BuildAwaited, BuildCopy, BuildBoot, BuildCreate,
         BuildSave, BuildFails, BuildEnd, Build
<1>3. Unbuilt'
  BY <1>1, <1>2 DEF IInv, Unbuilt
<1> USE DEF IInv, TypeOK, OneBuilder, Building, Build
<1>4. CASE BuildBegin(s)
  BY <1>3, <1>4, SpawnsAssumption DEF BuildBegin
<1>5. CASE BuildAwaited(s)
  BY <1>3, <1>5 DEF BuildAwaited
<1>6. CASE BuildCopy(s) \/ BuildBoot(s)
  BY <1>3, <1>6 DEF BuildCopy, BuildBoot
<1>7. CASE BuildCreate(s) \/ BuildSave(s)
  BY <1>3, <1>7 DEF BuildCreate, BuildSave
<1>8. CASE BuildFails(s)
  BY <1>3, <1>8 DEF BuildFails
<1>9. CASE BuildEnd(s)
  BY <1>3, <1>9, SpawnsAssumption DEF BuildEnd
<1> QED BY <1>3, <1>4, <1>5, <1>6, <1>7, <1>8, <1>9 DEF BuildStep

LEMMA TemporaryKept ==
  ASSUME IInv, NEW s \in Spawns, BuildStep(s)
  PROVE  TemporaryBuilt' /\ ProcessesHeld'
<1>1. UNCHANGED <<pc, vms, process, orphans>>
  BY BuildMoves DEF IInv, history
<1>2. ProcessesHeld'
  BY <1>1 DEF IInv, ProcessesHeld
<1> USE DEF IInv, TypeOK, TemporaryBuilt, Build, history
<1>3. CASE BuildBegin(s) \/ BuildAwaited(s) \/ BuildCopy(s)
  BY <1>2, <1>3 DEF BuildBegin, BuildAwaited, BuildCopy
<1>4. CASE BuildBoot(s) \/ BuildCreate(s)
  BY <1>2, <1>4 DEF BuildBoot, BuildCreate
<1>5. CASE BuildSave(s) \/ BuildFails(s)
  BY <1>2, <1>5 DEF BuildSave, BuildFails
<1>6. CASE BuildEnd(s)
  BY <1>2, <1>6 DEF BuildEnd
<1> QED BY <1>2, <1>3, <1>4, <1>5, <1>6 DEF BuildStep

\* The files that a build writes and leaves.
LEMMA Writes ==
  ASSUME IInv, NEW s \in Spawns, BuildStep(s)
  PROVE  \/ /\ UNCHANGED <<baseline, vmstate, memory>>
            /\ bpc[s] \in {"begin", "wait", "end"} /\ bpc'[s] \in {"copy", "wait", "none"}
            /\ builder' = builder \/ builder' = s \/ bpc[s] = "end"
         \/ /\ bpc[s] \in Building /\ UNCHANGED builder
            /\ \/ baseline' = [by |-> s, booted |-> FALSE] /\ bpc'[s] = "boot"
               \/ /\ baseline' = [by |-> s, booted |-> TRUE] /\ bpc'[s] = "create"
               \/ /\ bpc[s] = "create" /\ bpc'[s] = "save"
                  /\ vmstate' = s /\ UNCHANGED <<baseline, memory>>
               \/ /\ bpc[s] = "save" /\ bpc'[s] = "end"
                  /\ memory' = s /\ UNCHANGED <<baseline, vmstate>>
               \/ baseline' = NoFile /\ bpc'[s] = "end"
<1> USE DEF IInv, TypeOK, Based, Build, Building, snapshot
<1>1. CASE BuildBegin(s) \/ BuildAwaited(s) \/ BuildEnd(s)
  BY <1>1 DEF BuildBegin, BuildAwaited, BuildEnd
<1>2. CASE BuildCopy(s)
  BY <1>2 DEF BuildCopy
<1>3. CASE BuildBoot(s)
  BY <1>3 DEF BuildBoot
<1>4. CASE BuildCreate(s)
  BY <1>4 DEF BuildCreate
<1>5. CASE BuildSave(s)
  BY <1>5 DEF BuildSave
<1>6. CASE BuildFails(s)
  BY <1>6 DEF BuildFails
<1> QED BY <1>1, <1>2, <1>3, <1>4, <1>5, <1>6 DEF BuildStep

LEMMA BasedKept ==
  ASSUME IInv, NEW s \in Spawns, BuildStep(s)
  PROVE  Based'
<1> SUFFICES ASSUME NEW t \in Spawns, bpc'[t] = "boot"
             PROVE  (baseline \in Files \ {NoFile})' /\ (baseline.by = t)'
  BY DEF Based
<1>1. CASE t = s
  <2>1. baseline' = [by |-> s, booted |-> FALSE]
    BY <1>1, Writes
  <2> QED BY <2>1, <1>1, SpawnsAssumption DEF Files, NoFile
<1>2. CASE t # s
  <2>1. bpc[t] = "boot"
    BY <1>2, BuildMoves DEF IInv
  <2>2. bpc[s] \notin Building
    BY <1>2, <2>1 DEF IInv, OneBuilder, Building
  <2>3. UNCHANGED baseline
    BY <2>2, Writes
  <2> QED BY <2>1, <2>3 DEF IInv, Based, Files, NoFile
<1> QED BY <1>1, <1>2

\* Each file is written by the one build, in order; an error removes them all.
LEMMA StagedKept ==
  ASSUME IInv, NEW s \in Spawns, BuildStep(s)
  PROVE  Staged'
<1> SUFFICES ASSUME ~ torn' PROVE SnapshotWhole' /\ \A t \in Spawns : Stage(t)'
  BY DEF Staged
<1>1. ~ torn /\ SnapshotWhole /\ \A t \in Spawns : Stage(t)
  BY BuildMoves DEF IInv, Staged, history
<1>2. OneBuilder /\ OneBuilder'
  BY OneBuilderKept DEF IInv
<1>3. \A t \in Spawns : t # s => Stage(t)'
  <2> SUFFICES ASSUME NEW t \in Spawns, t # s PROVE Stage(t)'
    OBVIOUS
  <2>1. bpc'[t] = bpc[t] /\ Stage(t)
    BY <1>1, BuildMoves DEF IInv
  <2>2. CASE bpc[t] \in Building
    <3>1. bpc[s] \notin Building
      BY <1>2, <2>2 DEF OneBuilder
    <3>2. UNCHANGED <<baseline, vmstate, memory>>
      BY <3>1, Writes
    <3> QED BY <2>1, <3>2 DEF Stage, Available, Whole, NoFile
  <2>3. CASE bpc[t] \notin Building
    BY <2>1, <2>3 DEF Stage, Building
  <2> QED BY <2>2, <2>3
<1>4. Stage(s)'
  BY <1>1, Writes DEF Stage, Available, Whole, NoFile, Building
<1>5. SnapshotWhole'
  <2> SUFFICES ASSUME builder' = Nobody, Available' PROVE Whole(baseline, vmstate, memory)'
    BY DEF SnapshotWhole
  <2>1. UNCHANGED <<baseline, vmstate, memory>>
    <3>1. bpc[s] \in Building /\ UNCHANGED builder => builder' = s
      BY <1>2 DEF OneBuilder
    <3> QED BY <3>1, Writes, SpawnsAssumption
  <2>2. Available
    BY <2>1 DEF Available, NoFile
  <2>3. builder = Nobody \/ bpc[s] = "end"
    BY <2>1, Writes, <1>2, SpawnsAssumption DEF OneBuilder, Building
  <2>4. Whole(baseline, vmstate, memory)
    <3>1. ~ torn /\ Stage(s) /\ SnapshotWhole
      BY <1>1
    <3> QED BY <2>2, <2>3, <3>1 DEF SnapshotWhole, Stage
  <2> QED BY <2>1, <2>4 DEF Whole
<1> QED BY <1>3, <1>4, <1>5

LEMMA BuildKept == ASSUME IInv, NEW s \in Spawns, BuildStep(s) PROVE IInv'
  BY BuildTyped, OneBuilderKept, TemporaryKept, BasedKept, StagedKept DEF IInv

LEMMA CrashKept == ASSUME IInv, Crash PROVE IInv'
<1>1. TypeOK'
  BY CrashTyped DEF IInv
<1>2. /\ \A s \in Spawns : bpc'[s] = "none"
      /\ builder' = Nobody /\ orphans' = orphans \cup process \cup temporary
      /\ torn' = (torn \/ builder # Nobody)
      /\ UNCHANGED <<process, temporary, baseline, vmstate, memory>>
  BY DEF Crash, snapshot
<1>3. Unbuilt' /\ Based'
  BY <1>2 DEF Unbuilt, Based
<1>4. OneBuilder'
  BY <1>2, SpawnsAssumption DEF OneBuilder, Building
<1>5. TemporaryBuilt' /\ ProcessesHeld'
  BY <1>2 DEF TemporaryBuilt, ProcessesHeld
<1>6. Staged'
  BY <1>2 DEF IInv, TypeOK, Staged, Stage, SnapshotWhole, Available, Whole, NoFile
<1> QED BY <1>1, <1>3, <1>4, <1>5, <1>6 DEF IInv

-----------------------------------------------------------------------------
LEMMA IInvInit == Init => IInv
<1> SUFFICES ASSUME Init PROVE IInv
  OBVIOUS
<1>1. Blank \in [baseline : Files, vmstate : Spawns \cup {Nobody}, memory : Spawns \cup {Nobody}]
  BY DEF Blank, Files
<1>2. TypeOK
  <2>1. crashes \in 0 .. MaxCrashes
    BY CrashesAssumption DEF Init
  <2>2. restored \in [Spawns -> [baseline : Files, vmstate : Spawns \cup {Nobody},
                                memory : Spawns \cup {Nobody}]]
    BY <1>1 DEF Init
  <2> QED BY <2>1, <2>2 DEF Init, TypeOK, Files
<1>3. Unbuilt /\ OneBuilder /\ TemporaryBuilt /\ ProcessesHeld /\ Based
  BY SpawnsAssumption
  DEF Init, Unbuilt, OneBuilder, Building, TemporaryBuilt, ProcessesHeld, Based
<1>4. Staged
  BY DEF Init, Staged, Stage, SnapshotWhole, Available
<1> QED BY <1>2, <1>3, <1>4 DEF IInv

LEMMA IInvStep == IInv /\ [Next]_vars => IInv'
<1> SUFFICES ASSUME IInv, [Next]_vars PROVE IInv'
  OBVIOUS
<1>1. CASE Next
  BY <1>1, NextCases, SpawnKept, BuildKept, CrashKept
<1>2. CASE UNCHANGED vars
  BY <1>2 DEF vars, snapshot, build, history, IInv, TypeOK, Files, NoFile, Unbuilt, OneBuilder,
              TemporaryBuilt, ProcessesHeld, Based, Staged, Stage, SnapshotWhole, Available, Whole
<1> QED BY <1>1, <1>2

\* The variables hold what the program's maps, files and goroutines can hold.
THEOREM TypeCorrect == Spec => []TypeOK
<1>1. IInv => TypeOK
  BY DEF IInv
<1> QED BY <1>1, IInvInit, IInvStep, PTL DEF Spec

\* Whatever step of a Spawn, a Destroy or a snapshot build fails, and in whatever
\* order they run, no Firecracker process is left without its owner.
THEOREM ProcessesCorrect == Spec => []ProcessesAccounted
<1>1. IInv => ProcessesAccounted
  BY DEF IInv, TypeOK, ProcessesAccounted, ProcessesHeld, TemporaryBuilt, OneBuilder, Building
<1> QED BY <1>1, IInvInit, IInvStep, PTL DEF Spec

\* The three files of a snapshot that nobody is building are of one build.
THEOREM SnapshotCorrect == Spec => []SnapshotWhole
<1>1. IInv => SnapshotWhole
  BY DEF IInv, Staged, SnapshotWhole
<1> QED BY <1>1, IInvInit, IInvStep, PTL DEF Spec

-----------------------------------------------------------------------------
(* The calls of the other providers.                                       *)

Labels ==
  {"", "begin", "create", "start", "mkdir", "workspace", "insert", "remember", "use", "inspect",
   "copy to", "made", "stop", "remove", "copy", "hung", "close", "200", "404",
   "410"}
CallRecord ==
  [op : Ops \cup {"none"}, id : Ids \cup {NoId}, at : Labels, late : BOOLEAN,
   left : Int, fill : Int, reads : BOOLEAN, seen : SUBSET Ids]

CallsTyped ==
  /\ kind \in Kinds
  /\ runtime \in [Ids -> {"none", "created", "running", "stopped"}]
  /\ table \in [Ids -> {"none", "running", "destroyed"}]
  /\ call \in [Callers -> CallRecord]
  /\ spawned \subseteq Ids

\* One Spawn makes a sandbox, and nobody else knows of it before it has answered.
\* What is late is about a sandbox that is gone, and is not streaming.
Issued ==
  /\ gone \subseteq spawned
  /\ \A c \in Callers :
       /\ call[c].op = "none" => Sb(c) = NoId /\ call[c].at = ""
       /\ call[c].op = "list" => Sb(c) = NoId /\ kind = "docker"
       /\ call[c].op \in Uses \cup {"status", "destroy"} => Sb(c) \in spawned
       /\ call[c].op = "spawn" =>
            Sb(c) \in Ids \ spawned /\ \A d \in Callers \ {c} : Sb(d) # Sb(c)
       /\ call[c].late =>
            call[c].op \in {"exec", "stream", "file"} /\ call[c].at \notin {"copy", "hung", "close"} /\ Sb(c) \in gone

\* A sandbox that was not answered has no runtime, or a Spawn will see to it,
\* which has none yet at its first steps.
Unanswered ==
  /\ \A c \in Callers :
       call[c].op = "spawn" /\ call[c].at \in {"begin", "create"} => runtime[Sb(c)] = "none"
  /\ \A id \in Ids \ spawned :
       \/ runtime[id] = "none"
       \/ \E c \in Callers : Sb(c) = id /\ call[c].op = "spawn"
       \/ id \in excused

\* What the daemon or a service has once answered to be gone has no runtime,
\* whatever the map says; nor has that of which an answer is on its way.
ServedByOthers == kind \in {"docker", "custom", "e2b"}
Deleted(c) == call[c].at \in {"404", "410"} \/ (call[c].op = "destroy" /\ call[c].at = "200")
GoneForGood ==
  ServedByOthers =>
    /\ \A id \in gone : runtime[id] = "none"
    /\ \A c \in Callers :
         /\ Deleted(c) => call[c].op \notin {"none", "list", "spawn"} /\ runtime[Sb(c)] = "none"
         /\ call[c].late /\ kind # "docker" => call[c].at \in {"begin", "404", "410"}

\* What a provider of directories has answered to be gone is not in its map: a
\* late call comes no further.  Who got further before may make the directory
\* again: it was seen, or Destroy has yet to look, or a restart forgot the map.
OnTheHost == kind \in {"proot", "mock"}
InFiles(c) == call[c].op = "file" /\ call[c].at # "begin"
Removing(id) == \E c \in Callers : Sb(c) = id /\ At(c, "destroy", "remove")
Forgotten ==
  OnTheHost =>
    /\ \A id \in gone : table[id] # "running"
    /\ kind = "proot" => \A id \in Ids : table[id] # "destroyed"
    /\ \A c \in Callers :
         /\ At(c, "destroy", "remove") => table[Sb(c)] # "running"
         /\ call[c].late => call[c].at = "begin"
    /\ \A id \in spawned :
         table[id] # "running" =>
           \/ id \in excused
           \/ Removing(id)
           \/ runtime[id] = "none" /\ \A c \in Callers : Sb(c) = id => ~InFiles(c)

FirecrackerApart == kind = "firecracker" => gone = {} /\ wrong = {}

CallsInv == CallsTyped /\ Issued /\ Unanswered /\ GoneForGood /\ Forgotten /\ FirecrackerApart /\ AfterDestroy

-----------------------------------------------------------------------------
(* How a call goes on, and ends.                                           *)

\* The other calls are as they were.
OthersWait(c) ==
  /\ call' \in [Callers -> CallRecord]
  /\ \A d \in Callers \ {c} : call'[d] = call[d]

GoesOn(c) ==
  /\ OthersWait(c)
  /\ call'[c].op = call[c].op /\ call'[c].id = call[c].id
  /\ UNCHANGED <<spawned, gone, excused, wrong>>

Moved(c, label) == GoesOn(c) /\ call'[c].late = call[c].late /\ call'[c].at = label

Ended(c, err, hit) ==
  /\ OthersWait(c) /\ call'[c] = Idle
  /\ spawned' = IF call[c].op = "spawn" /\ err = "none" THEN spawned \cup {Sb(c)} ELSE spawned
  /\ gone' = IF err \in Lifecycle \/ (call[c].op = "destroy" /\ err = "none") THEN gone \cup {Sb(c)} ELSE gone
  /\ wrong' = IF call[c].late /\ err \notin Lifecycle \cup {"unreachable", "timeout"} THEN wrong \cup {err} ELSE wrong
  /\ excused' = IF hit THEN excused \cup {Sb(c)} ELSE excused

LEMMA IdleTyped == Idle \in CallRecord
  BY DEF Idle, CallRecord, Labels

LEMMA IdleFacts == Idle.op = "none" /\ Idle.id = NoId /\ Idle.at = "" /\ ~Idle.late
  BY DEF Idle

LEMMA StepMoves ==
  ASSUME CallsTyped, NEW c \in Callers, NEW label \in Labels, Step(c, label)
  PROVE  Moved(c, label)
  BY DEF CallsTyped, CallRecord, Step, Moved, GoesOn, OthersWait, memo

LEMMA FinishEnds ==
  ASSUME CallsTyped, NEW c \in Callers, NEW err, NEW hit, Finish(c, err, hit)
  PROVE  Ended(c, err, hit)
<1>1. call' = [call EXCEPT ![c] = Idle] /\ call \in [Callers -> CallRecord]
  BY DEF CallsTyped, Finish
<1>2. OthersWait(c) /\ call'[c] = Idle
  BY <1>1, IdleTyped DEF OthersWait
<1> QED BY <1>2 DEF Finish, Ended, Sb

\* A stream is opened, and a chunk goes through it.
LEMMA OpenedMoves ==
  ASSUME CallsTyped, NEW c \in Callers, NEW n \in Int, UNCHANGED memo,
         call' = [call EXCEPT ![c].at = "copy", ![c].left = n, ![c].late = FALSE]
  PROVE  GoesOn(c) /\ call'[c].at = "copy" /\ ~call'[c].late
<1>1. call[c] \in CallRecord /\ "copy" \in Labels
  BY DEF CallsTyped, Labels
<1>2. call'[c] = [call[c] EXCEPT !.at = "copy", !.left = n, !.late = FALSE] /\ call'[c] \in CallRecord
  BY <1>1 DEF CallsTyped, CallRecord
<1> QED BY <1>1, <1>2 DEF CallsTyped, CallRecord, GoesOn, OthersWait, memo

LEMMA SendMoves ==
  ASSUME CallsTyped, NEW c \in Callers, UNCHANGED memo,
         call' = [call EXCEPT ![c].left = @ - 1, ![c].fill = @ + 1]
  PROVE  GoesOn(c) /\ call'[c].at = call[c].at /\ call'[c].late = call[c].late
<1>1. call[c] \in CallRecord
  BY DEF CallsTyped
<1>2. call'[c] = [call[c] EXCEPT !.left = @ - 1, !.fill = @ + 1] /\ call'[c] \in CallRecord
  BY <1>1 DEF CallsTyped, CallRecord
<1> QED BY <1>1, <1>2 DEF CallsTyped, CallRecord, GoesOn, OthersWait, memo

-----------------------------------------------------------------------------
(* What every step of a call is.                                           *)

\* It is about the runtime of its sandbox.
Around(c) ==
  /\ UNCHANGED kind
  /\ runtime' \in [Ids -> {"none", "created", "running", "stopped"}]
  /\ table' \in [Ids -> {"none", "running", "destroyed"}]
  /\ \A id \in Ids \ {Sb(c)} : runtime'[id] = runtime[id]

Underway(c) ==
  /\ GoesOn(c) /\ call[c].op # "none"
  /\ call[c].op = "spawn" => call'[c].at \notin {"begin", "create"} \/ runtime'[Sb(c)] = "none"
  /\ call'[c].late => call[c].late /\ call'[c].at \notin {"copy", "hung", "close"}

Completed(c) ==
  /\ OthersWait(c) /\ call'[c] = Idle
  /\ \/ UNCHANGED spawned /\ (call[c].op = "spawn" => Sb(c) \in excused' \/ runtime'[Sb(c)] = "none")
     \/ call[c].op = "spawn" /\ spawned' = spawned \cup {Sb(c)}
  /\ \/ UNCHANGED gone
     \/ call[c].op \in Uses \cup {"status", "destroy"} /\ gone' = gone \cup {Sb(c)}
  /\ excused \subseteq excused'

Taken(c) == Around(c) /\ (Underway(c) \/ Completed(c))


\* Docker's steps, and the services', say the same.
LEMMA DockerCalls ==
  ASSUME CallsTyped, NEW c \in Callers
  PROVE  /\ \A label \in Labels : Docker!Step(c, label) => Moved(c, label)
         /\ \A err, hit : Docker!Finish(c, err, hit) => Ended(c, err, hit)
<1>1. ASSUME NEW label \in Labels, Docker!Step(c, label) PROVE Moved(c, label)
  BY <1>1, StepMoves DEF Docker!Step, Step, Docker!memo, memo
<1>2. ASSUME NEW err, NEW hit, Docker!Finish(c, err, hit) PROVE Ended(c, err, hit)
  BY <1>2, FinishEnds DEF Docker!Finish, Finish, Docker!Idle, Idle, Docker!Lifecycle, Lifecycle, Docker!NoId, NoId
<1> QED BY <1>1, <1>2

-----------------------------------------------------------------------------
(* The daemon and the services: what a step of a call does.                *)

\* What has no runtime gets none but by Spawn.
Within(c) ==
  /\ Around(c)
  /\ call[c].op # "spawn" /\ Sb(c) \in Ids /\ runtime[Sb(c)] = "none" => runtime'[Sb(c)] = "none"

Onward(c) ==
  /\ GoesOn(c) /\ call[c].op # "none"
  /\ call[c].op = "spawn" => call'[c].at \notin {"begin", "create"} \/ runtime'[Sb(c)] = "none"
  /\ Deleted(c)' => call[c].op \notin {"none", "list", "spawn"} /\ runtime'[Sb(c)] = "none"
  /\ call'[c].late =>
       /\ call[c].late /\ call'[c].at \notin {"copy", "hung", "close"}
       /\ kind # "docker" => call'[c].at \in {"begin", "404", "410"}

Over(c) ==
  /\ OthersWait(c) /\ call'[c] = Idle
  /\ \/ UNCHANGED spawned /\ (call[c].op = "spawn" => Sb(c) \in excused' \/ runtime'[Sb(c)] = "none")
     \/ call[c].op = "spawn" /\ spawned' = spawned \cup {Sb(c)}
  /\ \/ UNCHANGED gone
     \/ /\ call[c].op \in Uses \cup {"status", "destroy"} /\ gone' = gone \cup {Sb(c)}
        /\ runtime'[Sb(c)] = "none"
  /\ excused \subseteq excused'
  /\ "none" \notin wrong' /\ (kind = "custom" => wrong' = {})

Served(c) == Within(c) /\ (Onward(c) \/ Over(c))

\* The next label, and the error of an answer, decide what a step is.
GoodLabel(c, label) ==
  /\ call[c].op # "none"
  /\ call[c].op = "spawn" /\ label \in {"begin", "create"} => runtime'[Sb(c)] = "none"
  /\ label \in {"404", "410"} \/ (call[c].op = "destroy" /\ label = "200") =>
       call[c].op \notin {"none", "list", "spawn"} /\ runtime'[Sb(c)] = "none"
  /\ call[c].late => label \notin {"copy", "hung", "close"} /\ (kind # "docker" => label \in {"begin", "404", "410"})

GoodAnswer(c, err, hit) ==
  /\ call[c].op = "spawn" => err \notin Lifecycle /\ (hit \/ err = "none" \/ runtime'[Sb(c)] = "none")
  /\ call[c].op \in {"none", "list"} => err \notin Lifecycle
  /\ err \in Lifecycle \/ (call[c].op = "destroy" /\ err = "none") => runtime'[Sb(c)] = "none"
  /\ call[c].late => err # "none" /\ (kind = "custom" => err \in Lifecycle \cup {"unreachable", "timeout"})

LEMMA MovesOnward ==
  ASSUME NEW c \in Callers, NEW label \in Labels, Within(c), Moved(c, label), GoodLabel(c, label)
  PROVE  Served(c)
<1>1. GoesOn(c)
  BY DEF Moved
<1>2. Onward(c)
  BY <1>1 DEF Onward, Moved, GoesOn, GoodLabel, Deleted, Sb
<1> QED BY <1>2 DEF Served

LEMMA EndsOver ==
  ASSUME CallsInv, ServedByOthers, NEW c \in Callers, NEW err, NEW hit \in BOOLEAN, Within(c),
         Ended(c, err, hit), GoodAnswer(c, err, hit)
  PROVE  Served(c)
<1>1. call[c].op \in Uses \cup {"spawn", "status", "destroy", "list", "none"}
  BY DEF CallsInv, CallsTyped, CallRecord, Ops
<1>2. "none" \notin wrong /\ (kind = "custom" => wrong = {})
  BY DEF CallsInv, AfterDestroy
<1>3. \/ UNCHANGED gone
      \/ /\ call[c].op \in Uses \cup {"status", "destroy"} /\ gone' = gone \cup {Sb(c)}
         /\ runtime'[Sb(c)] = "none"
  BY <1>1 DEF Ended, GoodAnswer
<1>4. "none" \notin wrong' /\ (kind = "custom" => wrong' = {})
  BY <1>2 DEF Ended, GoodAnswer
<1>5. Over(c)
  BY <1>3, <1>4 DEF Over, Ended, GoodAnswer
<1> QED BY <1>5 DEF Served

\* Late calls are about what has no runtime, and no call is on its way that is none.
LEMMA LateCalls ==
  ASSUME CallsInv, ServedByOthers, NEW c \in Callers
  PROVE  /\ CallsTyped /\ "none" \notin wrong
         /\ call[c].at # "" => call[c].op # "none"
         /\ call[c].op \in Uses \cup {"spawn", "status", "destroy"} => Sb(c) \in Ids
         /\ call[c].op \in {"spawn", "status", "destroy", "list", "logs"} => ~call[c].late
         /\ call[c].late => runtime[Sb(c)] = "none" /\ call[c].at \notin {"copy", "hung", "close"}
  BY DEF CallsInv, CallsTyped, Issued, GoneForGood, ServedByOthers, AfterDestroy

-----------------------------------------------------------------------------
(* Docker.                                                                 *)

LEMMA DockerSteps ==
  ASSUME CallsInv, kind = "docker", NEW c \in Callers, Within(c)
  PROVE  /\ \A label \in Labels : Docker!Step(c, label) /\ GoodLabel(c, label) => Served(c)
         /\ \A err : \A hit \in BOOLEAN : Docker!Finish(c, err, hit) /\ GoodAnswer(c, err, hit) => Served(c)
<1>1. ASSUME NEW label \in Labels, Docker!Step(c, label), GoodLabel(c, label) PROVE Served(c)
  BY <1>1, DockerCalls, MovesOnward DEF CallsInv
<1>2. ASSUME NEW err, NEW hit \in BOOLEAN, Docker!Finish(c, err, hit), GoodAnswer(c, err, hit) PROVE Served(c)
  BY <1>2, DockerCalls, EndsOver DEF CallsInv, ServedByOthers
<1> QED BY <1>1, <1>2

LEMMA DockerSpawn ==
  ASSUME CallsInv, NEW c \in Callers, Docker!Spawn(c)
  PROVE  Served(c)
<1> USE DEF Docker!Here, Docker!Provider, Docker!At, Docker!Answer, Docker!SetRuntime, Docker!SetTable, Docker!Sb, Sb
<1>1. /\ kind = "docker" /\ ServedByOthers /\ UNCHANGED kind /\ call[c].op = "spawn"
  BY DEF Docker!Spawn, Docker!ensureImage, Docker!ContainerCreate, Docker!ContainerStart,
         Docker!RemoveUnstarted, Docker!MakeWorkspace, Docker!Insert, ServedByOthers
<1>2. CallsTyped /\ Sb(c) \in Ids /\ ~call[c].late
  BY <1>1, LateCalls
<1>3. Within(c)
  BY <1>1, <1>2 DEF Within, Around, CallsTyped, Docker!Spawn, Docker!ensureImage, Docker!ContainerCreate,
     Docker!ContainerStart,
         Docker!RemoveUnstarted, Docker!MakeWorkspace, Docker!Insert
<1>4. call[c].at \in {"begin", "create"} => runtime[Sb(c)] = "none"
  BY <1>1 DEF CallsInv, Unanswered
<1>5. /\ \A label \in Labels : Docker!Step(c, label) /\ GoodLabel(c, label) => Served(c)
      /\ \A err : \A hit \in BOOLEAN : Docker!Finish(c, err, hit) /\ GoodAnswer(c, err, hit) => Served(c)
  BY <1>1, <1>3, DockerSteps
<1>6. CASE Docker!ensureImage(c)
  BY <1>1, <1>2, <1>4, <1>5, <1>6 DEF Docker!ensureImage, GoodLabel, GoodAnswer, Labels, Lifecycle
<1>7. CASE Docker!ContainerCreate(c)
  BY <1>1, <1>2, <1>4, <1>5, <1>7 DEF Docker!ContainerCreate, GoodLabel, GoodAnswer, Labels, Lifecycle
<1>8. CASE Docker!ContainerStart(c)
  BY <1>1, <1>2, <1>5, <1>8 DEF Docker!ContainerStart, GoodLabel, Labels
<1>9. CASE Docker!RemoveUnstarted(c)
  BY <1>1, <1>2, <1>5, <1>9 DEF Docker!RemoveUnstarted, GoodAnswer, Lifecycle, CallsTyped
<1>10. CASE Docker!MakeWorkspace(c)
  BY <1>1, <1>2, <1>5, <1>10 DEF Docker!MakeWorkspace, GoodLabel, Labels
<1>11. CASE Docker!Insert(c)
  BY <1>1, <1>2, <1>5, <1>11 DEF Docker!Insert, GoodAnswer, Lifecycle
<1> QED BY <1>6, <1>7, <1>8, <1>9, <1>10, <1>11 DEF Docker!Spawn

LEMMA DockerLookup ==
  ASSUME CallsInv, NEW c \in Callers,
         Docker!getSandbox(c) \/ Docker!rememberSandbox(c) \/ Docker!ListRuntimeSandboxes(c)
  PROVE  Served(c)
<1> USE DEF Docker!Here, Docker!Provider, Docker!At, Docker!Answer, Docker!Sb, Sb
<1>1. kind = "docker" /\ ServedByOthers /\ UNCHANGED <<kind, runtime>>
  BY DEF Docker!getSandbox, Docker!rememberSandbox, Docker!ListRuntimeSandboxes, ServedByOthers
<1>2. /\ CallsTyped /\ call[c].op # "none" /\ (call[c].op = "list" => ~call[c].late)
      /\ (call[c].late => runtime[Sb(c)] = "none")
  BY <1>1, LateCalls DEF Docker!getSandbox, Docker!rememberSandbox, Docker!ListRuntimeSandboxes
<1>3. Within(c)
  BY <1>1, <1>2 DEF Within, Around, CallsTyped, Docker!getSandbox, Docker!rememberSandbox, Docker!ListRuntimeSandboxes
<1>4. /\ \A label \in Labels : Docker!Step(c, label) /\ GoodLabel(c, label) => Served(c)
      /\ \A err : \A hit \in BOOLEAN : Docker!Finish(c, err, hit) /\ GoodAnswer(c, err, hit) => Served(c)
  BY <1>1, <1>3, DockerSteps
<1>5. CASE Docker!getSandbox(c)
  BY <1>1, <1>2, <1>4, <1>5 DEF Docker!getSandbox, Docker!Uses, GoodLabel, GoodAnswer, Labels, Lifecycle
<1>6. CASE Docker!rememberSandbox(c)
  BY <1>1, <1>2, <1>4, <1>6 DEF Docker!rememberSandbox, GoodLabel, GoodAnswer, Labels, Lifecycle
<1>7. CASE Docker!ListRuntimeSandboxes(c)
  <2>1. CASE Docker!Answer(c, "unreachable")
    BY <1>2, <1>4, <1>7, <2>1 DEF Docker!ListRuntimeSandboxes, GoodAnswer, Lifecycle
  <2>2. CASE /\ call' = [call EXCEPT ![c].at = "remember", ![c].seen = {id \in Ids : runtime[id] # "none"}]
             /\ UNCHANGED Docker!memo
    <3> DEFINE there == {id \in Ids : runtime[id] # "none"}
    <3>1. call' = [call EXCEPT ![c].at = "remember", ![c].seen = there] /\ there \in SUBSET Ids
      BY <2>2
    <3> HIDE DEF there
    <3>2. call[c] \in CallRecord /\ "remember" \in Labels
      BY <1>2 DEF CallsTyped, Labels
    <3>3. call'[c] = [call[c] EXCEPT !.at = "remember", !.seen = there] /\ call'[c] \in CallRecord
      BY <1>2, <3>1, <3>2 DEF CallsTyped, CallRecord
    <3>4. GoesOn(c) /\ call'[c].at = "remember" /\ call'[c].late = call[c].late
      BY <1>2, <2>2, <3>1, <3>2, <3>3 DEF CallsTyped, CallRecord, GoesOn, OthersWait, Docker!memo
    <3>5. Onward(c)
      BY <1>2, <1>7, <3>4 DEF Onward, GoesOn, Deleted, Docker!ListRuntimeSandboxes
    <3> QED BY <1>3, <3>5 DEF Served
  <2> QED BY <1>7, <2>1, <2>2 DEF Docker!ListRuntimeSandboxes
<1> QED BY <1>5, <1>6, <1>7

\* A call that may be late finds no container.
LEMMA DockerAsks ==
  ASSUME CallsInv, NEW c \in Callers, Docker!Use(c)
  PROVE  Served(c)
<1> USE DEF Docker!Here, Docker!Provider, Docker!At, Docker!Answer, Docker!Sb, Sb, Docker!Asks
<1>1. /\ kind = "docker" /\ ServedByOthers /\ UNCHANGED <<kind, runtime, table>>
      /\ call[c].op \in {"exec", "file", "logs", "status"}
  BY DEF Docker!Use, Docker!Exec, Docker!WriteFile, Docker!ReadFile, Docker!ListFiles, Docker!DeleteFile,
         Docker!MoveFile,
         Docker!ChmodFile, Docker!StatFile, Docker!GlobFiles, Docker!Stats, Docker!ConsoleLog, Docker!Status,
         ServedByOthers,
         Docker!containerExec
<1>2. /\ CallsTyped /\ (call[c].op = "status" => ~call[c].late)
      /\ (call[c].late => runtime[Sb(c)] = "none")
  BY <1>1, LateCalls
<1>3. Within(c)
  BY <1>1, <1>2 DEF Within, Around, CallsTyped
<1>4. /\ \A label \in Labels : Docker!Step(c, label) /\ GoodLabel(c, label) => Served(c)
      /\ \A err : \A hit \in BOOLEAN : Docker!Finish(c, err, hit) /\ GoodAnswer(c, err, hit) => Served(c)
  BY <1>1, <1>3, DockerSteps
<1> USE DEF GoodLabel, GoodAnswer, Labels, Lifecycle, Docker!Running, Docker!Existing, Docker!Done, Docker!DoneOrError
<1>5. CASE Docker!Exec(c)
  BY <1>1, <1>2, <1>4, <1>5 DEF Docker!Exec, Docker!ToInspect, Docker!Unreachable
<1>6. CASE Docker!WriteFile(c)
  BY <1>1, <1>2, <1>4, <1>6 DEF Docker!WriteFile, Docker!Unreachable
<1>7. CASE \/ Docker!ReadFile(c) \/ Docker!StatFile(c) \/ Docker!Stats(c) \/ Docker!ConsoleLog(c)
  BY <1>1, <1>2, <1>4, <1>7 DEF Docker!ReadFile, Docker!StatFile, Docker!Stats, Docker!ConsoleLog, Docker!Unreachable
<1>8. CASE \/ Docker!ListFiles(c) \/ Docker!GlobFiles(c) \/ Docker!DeleteFile(c) \/ Docker!MoveFile(c)
           \/ Docker!ChmodFile(c)
  BY <1>1, <1>2, <1>4, <1>8 DEF Docker!ListFiles, Docker!GlobFiles, Docker!containerExec, Docker!DeleteFile,
     Docker!MoveFile, Docker!ChmodFile, Docker!Unreachable
<1>9. CASE Docker!Status(c)
  BY <1>1, <1>2, <1>4, <1>9 DEF Docker!Status
<1> QED BY <1>5, <1>6, <1>7, <1>8, <1>9 DEF Docker!Use

LEMMA DockerDestroy ==
  ASSUME CallsInv, NEW c \in Callers, Docker!Destroy(c)
  PROVE  Served(c)
<1> USE DEF Docker!Here, Docker!Provider, Docker!At, Docker!Answer, Docker!SetRuntime, Docker!SetTable, Docker!Sb, Sb
<1>1. kind = "docker" /\ ServedByOthers /\ UNCHANGED kind /\ call[c].op = "destroy"
  BY DEF Docker!Destroy, Docker!Forget, Docker!ContainerStop, Docker!ContainerRemove, ServedByOthers
<1>2. CallsTyped /\ Sb(c) \in Ids /\ ~call[c].late
  BY <1>1, LateCalls
<1>3. Within(c)
  BY <1>1, <1>2 DEF Within, Around, CallsTyped, Docker!Destroy, Docker!Forget, Docker!ContainerStop,
     Docker!ContainerRemove
<1>4. /\ \A label \in Labels : Docker!Step(c, label) /\ GoodLabel(c, label) => Served(c)
      /\ \A err : \A hit \in BOOLEAN : Docker!Finish(c, err, hit) /\ GoodAnswer(c, err, hit) => Served(c)
  BY <1>1, <1>3, DockerSteps
<1>5. CASE Docker!Forget(c)
  BY <1>1, <1>2, <1>4, <1>5 DEF Docker!Forget, GoodLabel, Labels
<1>6. CASE Docker!ContainerStop(c)
  BY <1>1, <1>2, <1>4, <1>6 DEF Docker!ContainerStop, GoodLabel, Labels
<1>7. CASE Docker!ContainerRemove(c)
  BY <1>1, <1>2, <1>4, <1>7 DEF Docker!ContainerRemove, GoodAnswer, Lifecycle, CallsTyped
<1> QED BY <1>5, <1>6, <1>7 DEF Docker!Destroy

\* What a stream does when it is open, late or not, is about nothing else.
LEMMA StreamsOnward ==
  ASSUME CallsInv, NEW c \in Callers, Within(c), GoesOn(c), call[c].op = "stream",
         call'[c].at \in {"copy", "hung", "close"} /\ ~call'[c].late
  PROVE  Served(c)
  BY DEF GoesOn, Onward, Deleted, Served

LEMMA DockerStream ==
  ASSUME CallsInv, NEW c \in Callers, Docker!Stream(c)
  PROVE  Served(c)
<1> USE DEF Docker!Here, Docker!Provider, Docker!At, Docker!Answer, Docker!Sb, Sb
<1>1. kind = "docker" /\ ServedByOthers /\ UNCHANGED <<kind, runtime, table>> /\ call[c].op = "stream"
  BY DEF Docker!Stream, Docker!ExecStream, Docker!Asks, Docker!Write, Docker!HangSilent, Docker!ConnectionBreaks,
         Docker!EndStream, Docker!Send, Docker!Hang, Docker!StopCopying, Docker!Close, ServedByOthers
<1>2. /\ CallsTyped /\ (call[c].late => runtime[Sb(c)] = "none" /\ call[c].at \notin {"copy", "hung", "close"})
  BY <1>1, LateCalls
<1>3. Within(c)
  BY <1>1, <1>2 DEF Within, Around, CallsTyped
<1>4. /\ \A label \in Labels : Docker!Step(c, label) /\ GoodLabel(c, label) => Served(c)
      /\ \A err : \A hit \in BOOLEAN : Docker!Finish(c, err, hit) /\ GoodAnswer(c, err, hit) => Served(c)
  BY <1>1, <1>3, DockerSteps
<1>5. ASSUME Docker!Opened(c) PROVE Served(c)
  <2>1. PICK n \in 0 .. MaxChunks : call' = [call EXCEPT ![c].at = "copy", ![c].left = n, ![c].late = FALSE]
    BY <1>5 DEF Docker!Opened
  <2>2. n \in Int /\ UNCHANGED memo
    BY <1>5 DEF Docker!Opened, Docker!memo, memo
  <2>3. GoesOn(c) /\ call'[c].at = "copy" /\ ~call'[c].late
    BY <1>2, <2>1, <2>2, OpenedMoves
  <2> QED BY <1>1, <1>3, <2>3, StreamsOnward
<1>6. ASSUME Docker!Send(c) PROVE Served(c)
  BY <1>1, <1>2, <1>3, <1>6, SendMoves, StreamsOnward DEF Docker!Send, Docker!memo, memo
<1>7. ASSUME Docker!StopCopying(c) PROVE Served(c)
  BY <1>1, <1>2, <1>4, <1>7 DEF Docker!StopCopying, GoodLabel, Labels
<1>8. CASE Docker!ExecStream(c)
  BY <1>1, <1>2, <1>4, <1>5, <1>8 DEF Docker!ExecStream, Docker!Asks, Docker!Running, Docker!Unreachable, GoodAnswer,
     Lifecycle
<1>9. CASE Docker!Write(c)
  BY <1>6, <1>7, <1>9 DEF Docker!Write
<1>10. CASE Docker!EndStream(c)
  <2>1. CASE Docker!At(c, "stream", "hung") /\ Docker!Step(c, "close")
    BY <1>1, <1>2, <1>4, <2>1 DEF GoodLabel, Labels
  <2>2. CASE Docker!StopCopying(c) \/ Docker!Close(c)
    BY <1>1, <1>2, <1>4, <1>7, <2>2 DEF Docker!Close, GoodAnswer, Lifecycle
  <2> QED BY <1>10, <2>1, <2>2 DEF Docker!EndStream
<1>11. CASE Docker!HangSilent(c)
  BY <1>1, <1>2, <1>4, <1>11 DEF Docker!HangSilent, Docker!Hang, GoodLabel, Labels
<1>12. CASE Docker!ConnectionBreaks(c)
  BY <1>1, <1>2, <1>4, <1>12 DEF Docker!ConnectionBreaks, GoodLabel, Labels
<1> QED BY <1>8, <1>9, <1>10, <1>11, <1>12 DEF Docker!Stream

LEMMA DockerServes == ASSUME CallsInv, NEW c \in Callers, Docker!Goes(c) PROVE Served(c)
  BY DockerSpawn, DockerLookup, DockerAsks, DockerDestroy, DockerStream DEF Docker!Goes

-----------------------------------------------------------------------------
(* The services: a request, and what its answer is taken for.              *)

\* What is known once the service has answered.
LEMMA AnswersOnTheWay ==
  ASSUME CallsInv, ServedByOthers, kind # "docker", NEW c \in Callers
  PROVE  /\ call[c].at = "200" => ~call[c].late
         /\ call[c].op = "destroy" /\ call[c].at \in {"200", "404", "410"} => runtime[Sb(c)] = "none"
         /\ call[c].at \in {"404", "410"} => call[c].op \notin {"none", "list", "spawn"} /\ runtime[Sb(c)] = "none"
  BY DEF CallsInv, GoneForGood, Deleted

LEMMA CustomCalls ==
  ASSUME CallsTyped, NEW c \in Callers
  PROVE  /\ \A label \in Labels : Custom!Step(c, label) => Moved(c, label)
         /\ \A err, hit : Custom!Finish(c, err, hit) => Ended(c, err, hit)
<1>1. ASSUME NEW label \in Labels, Custom!Step(c, label) PROVE Moved(c, label)
  BY <1>1, StepMoves DEF Custom!Step, Step, Custom!memo, memo
<1>2. ASSUME NEW err, NEW hit, Custom!Finish(c, err, hit) PROVE Ended(c, err, hit)
  BY <1>2, FinishEnds DEF Custom!Finish, Finish, Custom!Idle, Idle, Custom!Lifecycle, Lifecycle, Custom!NoId, NoId
<1> QED BY <1>1, <1>2

LEMMA CustomSteps ==
  ASSUME CallsInv, kind = "custom", NEW c \in Callers, Within(c)
  PROVE  /\ \A label \in Labels : Custom!Step(c, label) /\ GoodLabel(c, label) => Served(c)
         /\ \A err : \A hit \in BOOLEAN : Custom!Finish(c, err, hit) /\ GoodAnswer(c, err, hit) => Served(c)
<1>1. ASSUME NEW label \in Labels, Custom!Step(c, label), GoodLabel(c, label) PROVE Served(c)
  BY <1>1, CustomCalls, MovesOnward DEF CallsInv
<1>2. ASSUME NEW err, NEW hit \in BOOLEAN, Custom!Finish(c, err, hit), GoodAnswer(c, err, hit) PROVE Served(c)
  BY <1>2, CustomCalls, EndsOver DEF CallsInv, ServedByOthers
<1> QED BY <1>1, <1>2

LEMMA CustomRequest ==
  ASSUME CallsInv, NEW c \in Callers, Custom!Here(c), Custom!doRequest(c)
  PROVE  Served(c)
<1> USE DEF Custom!Here, Custom!Provider, Custom!Answer, Custom!SetRuntime, Custom!Sb, Sb
<1>1. kind = "custom" /\ ServedByOthers /\ UNCHANGED <<kind, table>> /\ call[c].at = "begin"
  BY DEF Custom!doRequest, ServedByOthers
<1>2. /\ CallsTyped /\ (call[c].op \in {"spawn", "destroy"} => Sb(c) \in Ids /\ ~call[c].late)
      /\ (call[c].late => runtime[Sb(c)] = "none") /\ call[c].op \notin {"none", "list"}
  BY <1>1, LateCalls DEF CallsInv, Issued
<1>3. Within(c)
  BY <1>1, <1>2 DEF Within, Around, CallsTyped, Custom!doRequest, Custom!Serve
<1>4. call[c].op = "spawn" => runtime[Sb(c)] = "none"
  BY <1>1 DEF CallsInv, Unanswered
<1>5. /\ \A label \in Labels : Custom!Step(c, label) /\ GoodLabel(c, label) => Served(c)
      /\ \A err : \A hit \in BOOLEAN : Custom!Finish(c, err, hit) /\ GoodAnswer(c, err, hit) => Served(c)
  BY <1>1, <1>3, CustomSteps
<1>6. ASSUME NEW code \in Custom!Codes, Custom!Serve(c, code), Custom!Step(c, code) PROVE Served(c)
  BY <1>1, <1>2, <1>5, <1>6 DEF Custom!Codes, Custom!Serve, GoodLabel, Labels, CallsTyped
<1>7. ASSUME Custom!Finish(c, "unreachable", call[c].op = "spawn") PROVE Served(c)
  <2>1. GoodAnswer(c, "unreachable", call[c].op = "spawn")
    BY <1>2 DEF GoodAnswer, Lifecycle
  <2> QED BY <1>5, <1>7, <2>1
<1>8. ASSUME Custom!Finish(c, "unreachable", FALSE), UNCHANGED runtime PROVE Served(c)
  <2>1. GoodAnswer(c, "unreachable", FALSE)
    BY <1>2, <1>4, <1>8 DEF GoodAnswer, Lifecycle
  <2> QED BY <1>5, <1>8, <2>1
<1> QED BY <1>6, <1>7, <1>8 DEF Custom!doRequest

LEMMA E2BCalls ==
  ASSUME CallsTyped, NEW c \in Callers
  PROVE  /\ \A label \in Labels : E2B!Step(c, label) => Moved(c, label)
         /\ \A err, hit : E2B!Finish(c, err, hit) => Ended(c, err, hit)
<1>1. ASSUME NEW label \in Labels, E2B!Step(c, label) PROVE Moved(c, label)
  BY <1>1, StepMoves DEF E2B!Step, Step, E2B!memo, memo
<1>2. ASSUME NEW err, NEW hit, E2B!Finish(c, err, hit) PROVE Ended(c, err, hit)
  BY <1>2, FinishEnds DEF E2B!Finish, Finish, E2B!Idle, Idle, E2B!Lifecycle, Lifecycle, E2B!NoId, NoId
<1> QED BY <1>1, <1>2

LEMMA E2BSteps ==
  ASSUME CallsInv, kind = "e2b", NEW c \in Callers, Within(c)
  PROVE  /\ \A label \in Labels : E2B!Step(c, label) /\ GoodLabel(c, label) => Served(c)
         /\ \A err : \A hit \in BOOLEAN : E2B!Finish(c, err, hit) /\ GoodAnswer(c, err, hit) => Served(c)
<1>1. ASSUME NEW label \in Labels, E2B!Step(c, label), GoodLabel(c, label) PROVE Served(c)
  BY <1>1, E2BCalls, MovesOnward DEF CallsInv
<1>2. ASSUME NEW err, NEW hit \in BOOLEAN, E2B!Finish(c, err, hit), GoodAnswer(c, err, hit) PROVE Served(c)
  BY <1>2, E2BCalls, EndsOver DEF CallsInv, ServedByOthers
<1> QED BY <1>1, <1>2

LEMMA E2BRequest ==
  ASSUME CallsInv, NEW c \in Callers, E2B!Here(c), E2B!doRequest(c)
  PROVE  Served(c)
<1> USE DEF E2B!Here, E2B!Provider, E2B!Answer, E2B!SetRuntime, E2B!Sb, Sb
<1>1. kind = "e2b" /\ ServedByOthers /\ UNCHANGED <<kind, table>> /\ call[c].at = "begin"
  BY DEF E2B!doRequest, ServedByOthers
<1>2. /\ CallsTyped /\ (call[c].op \in {"spawn", "destroy"} => Sb(c) \in Ids /\ ~call[c].late)
      /\ (call[c].late => runtime[Sb(c)] = "none") /\ call[c].op \notin {"none", "list"}
  BY <1>1, LateCalls DEF CallsInv, Issued
<1>3. Within(c)
  BY <1>1, <1>2 DEF Within, Around, CallsTyped, E2B!doRequest, E2B!Serve
<1>4. call[c].op = "spawn" => runtime[Sb(c)] = "none"
  BY <1>1 DEF CallsInv, Unanswered
<1>5. /\ \A label \in Labels : E2B!Step(c, label) /\ GoodLabel(c, label) => Served(c)
      /\ \A err : \A hit \in BOOLEAN : E2B!Finish(c, err, hit) /\ GoodAnswer(c, err, hit) => Served(c)
  BY <1>1, <1>3, E2BSteps
<1>6. ASSUME NEW code \in E2B!Codes, E2B!Serve(c, code), E2B!Step(c, code) PROVE Served(c)
  BY <1>1, <1>2, <1>5, <1>6 DEF E2B!Codes, E2B!Serve, GoodLabel, Labels, CallsTyped
<1>7. ASSUME E2B!Finish(c, "unreachable", call[c].op = "spawn") PROVE Served(c)
  <2>1. GoodAnswer(c, "unreachable", call[c].op = "spawn")
    BY <1>2 DEF GoodAnswer, Lifecycle
  <2> QED BY <1>5, <1>7, <2>1
<1>8. ASSUME E2B!Finish(c, "unreachable", FALSE), UNCHANGED runtime PROVE Served(c)
  <2>1. GoodAnswer(c, "unreachable", FALSE)
    BY <1>2, <1>4, <1>8 DEF GoodAnswer, Lifecycle
  <2> QED BY <1>5, <1>8, <2>1
<1> QED BY <1>6, <1>7, <1>8 DEF E2B!doRequest

LEMMA CustomStreams ==
  ASSUME CallsInv, NEW c \in Callers,
         Custom!ExecStream(c) \/ Custom!ScanLines(c) \/ Custom!CloseStream(c)
  PROVE  Served(c)
<1> USE DEF Custom!Here, Custom!Provider, Custom!At, Custom!Answer, Custom!Sb, Sb
<1>1. kind = "custom" /\ ServedByOthers /\ UNCHANGED <<kind, runtime, table>> /\ call[c].op = "stream"
  BY DEF Custom!ExecStream, Custom!ScanLines, Custom!CloseStream, Custom!Failed, Custom!Replies, Custom!Send,
         Custom!StopCopying, Custom!Close, ServedByOthers
<1>2. /\ CallsTyped /\ (call[c].at \in {"copy", "hung", "close", "200"} => ~call[c].late)
      /\ (call[c].at \in {"404", "410"} => runtime[Sb(c)] = "none")
  BY <1>1, LateCalls, AnswersOnTheWay
<1>3. Within(c)
  BY <1>1, <1>2 DEF Within, Around, CallsTyped
<1>4. /\ \A label \in Labels : Custom!Step(c, label) /\ GoodLabel(c, label) => Served(c)
      /\ \A err : \A hit \in BOOLEAN : Custom!Finish(c, err, hit) /\ GoodAnswer(c, err, hit) => Served(c)
  BY <1>1, <1>3, CustomSteps
<1>5. ASSUME Custom!Opened(c) PROVE Served(c)
  <2>1. PICK n \in 0 .. MaxChunks : call' = [call EXCEPT ![c].at = "copy", ![c].left = n, ![c].late = FALSE]
    BY <1>5 DEF Custom!Opened
  <2>2. n \in Int /\ UNCHANGED memo
    BY <1>5 DEF Custom!Opened, Custom!memo, memo
  <2>3. GoesOn(c) /\ call'[c].at = "copy" /\ ~call'[c].late
    BY <1>2, <2>1, <2>2, OpenedMoves
  <2> QED BY <1>1, <1>3, <2>3, StreamsOnward
<1>6. ASSUME Custom!Send(c) PROVE Served(c)
  BY <1>1, <1>2, <1>3, <1>6, SendMoves, StreamsOnward DEF Custom!Send, Custom!memo, memo
<1>7. ASSUME Custom!StopCopying(c) PROVE Served(c)
  BY <1>1, <1>2, <1>4, <1>7 DEF Custom!StopCopying, GoodLabel, Labels
<1>8. ASSUME Custom!Close(c) PROVE Served(c)
  BY <1>1, <1>2, <1>4, <1>8 DEF Custom!Close, GoodAnswer, Lifecycle
<1>9. ASSUME Custom!Failed(c, "stream") PROVE Served(c)
  BY <1>1, <1>2, <1>4, <1>9 DEF Custom!Failed, Custom!Replies, Custom!Codes, Custom!customHTTPError,
     GoodAnswer, Lifecycle
<1> QED BY <1>5, <1>6, <1>7, <1>8, <1>9 DEF Custom!ExecStream, Custom!ScanLines, Custom!CloseStream

LEMMA CustomAnswers ==
  ASSUME CallsInv, NEW c \in Callers,
         \/ Custom!Spawn(c) \/ Custom!Exec(c) \/ Custom!WriteFile(c) \/ Custom!ReadFile(c) \/ Custom!ListFiles(c)
         \/ Custom!DeleteFile(c) \/ Custom!MoveFile(c) \/ Custom!ChmodFile(c) \/ Custom!StatFile(c)
         \/ Custom!GlobFiles(c)
         \/ Custom!ConsoleLog(c) \/ Custom!Status(c) \/ Custom!Destroy(c)
  PROVE  Served(c)
<1> USE DEF Custom!Here, Custom!Provider, Custom!At, Custom!Answer, Custom!Sb, Sb, Custom!Replies
<1>1. /\ kind = "custom" /\ ServedByOthers /\ UNCHANGED <<kind, runtime, table>>
      /\ call[c].op \in {"spawn", "exec", "file", "logs", "status", "destroy"}
  BY DEF Custom!Spawn, Custom!Exec, Custom!WriteFile, Custom!ReadFile, Custom!ListFiles, Custom!DeleteFile,
         Custom!MoveFile,
         Custom!ChmodFile, Custom!StatFile, Custom!GlobFiles, Custom!ConsoleLog, Custom!Status, Custom!Destroy,
         Custom!Plain, Custom!Decoded, Custom!Failed, ServedByOthers
<1>2. /\ CallsTyped /\ (call[c].op \in {"spawn", "logs", "status", "destroy"} => ~call[c].late)
      /\ (call[c].at = "200" => ~call[c].late)
      /\ (call[c].at \in {"404", "410"} => runtime[Sb(c)] = "none")
      /\ (call[c].op = "destroy" /\ call[c].at = "200" => runtime[Sb(c)] = "none")
  BY <1>1, LateCalls, AnswersOnTheWay
<1>3. Within(c)
  BY <1>1, <1>2 DEF Within, Around, CallsTyped
<1>4. \A err : \A hit \in BOOLEAN : Custom!Finish(c, err, hit) /\ GoodAnswer(c, err, hit) => Served(c)
  BY <1>1, <1>3, CustomSteps
<1> USE DEF GoodAnswer, Lifecycle
<1>5. CASE Custom!Spawn(c)
  BY <1>1, <1>2, <1>4, <1>5 DEF Custom!Spawn
<1>6. ASSUME NEW op \in {"exec", "file", "status"}, Custom!Failed(c, op) PROVE Served(c)
  BY <1>1, <1>2, <1>4, <1>6 DEF Custom!Failed, Custom!Codes, Custom!customHTTPError
<1>7. CASE Custom!Exec(c)
  BY <1>1, <1>2, <1>4, <1>6, <1>7 DEF Custom!Exec
<1>8. ASSUME Custom!Decoded(c) PROVE Served(c)
  BY <1>1, <1>2, <1>4, <1>6, <1>8 DEF Custom!Decoded, Custom!Plain
<1>9. CASE Custom!ConsoleLog(c)
  BY <1>1, <1>2, <1>4, <1>9 DEF Custom!ConsoleLog
<1>10. CASE Custom!Status(c)
  BY <1>1, <1>2, <1>4, <1>6, <1>10 DEF Custom!Status
<1>11. CASE Custom!Destroy(c)
  BY <1>1, <1>2, <1>4, <1>11 DEF Custom!Destroy, Custom!customHTTPError
<1> QED BY <1>5, <1>7, <1>8, <1>9, <1>10, <1>11
        DEF Custom!WriteFile, Custom!ReadFile, Custom!ListFiles, Custom!DeleteFile, Custom!MoveFile, Custom!ChmodFile,
            Custom!StatFile, Custom!GlobFiles, Custom!Decoded

LEMMA CustomServes == ASSUME CallsInv, NEW c \in Callers, Custom!Goes(c) PROVE Served(c)
  BY CustomRequest, CustomStreams, CustomAnswers DEF Custom!Goes

LEMMA E2BAnswers ==
  ASSUME CallsInv, NEW c \in Callers,
         \/ E2B!Spawn(c) \/ E2B!ExecMode(c) \/ E2B!Exec(c) \/ E2B!WriteFile(c) \/ E2B!ReadFile(c) \/ E2B!ListFiles(c)
         \/ E2B!NotSupported(c) \/ E2B!ConsoleLog(c) \/ E2B!Status(c) \/ E2B!Destroy(c)
  PROVE  Served(c)
<1> USE DEF E2B!Here, E2B!Provider, E2B!At, E2B!Answer, E2B!Sb, Sb, E2B!Replies
<1>1. /\ kind = "e2b" /\ ServedByOthers /\ UNCHANGED <<kind, runtime, table>>
      /\ call[c].op \in Uses \cup {"spawn", "status", "destroy"}
  BY DEF E2B!Spawn, E2B!ExecMode, E2B!Exec, E2B!WriteFile, E2B!ReadFile, E2B!ListFiles, E2B!NotSupported,
         E2B!ConsoleLog, E2B!Status, E2B!Destroy, E2B!Failed, Uses, ServedByOthers
<1>2. /\ CallsTyped /\ (call[c].op \in {"spawn", "logs", "status", "destroy"} => ~call[c].late)
      /\ (call[c].at = "200" => ~call[c].late)
      /\ (call[c].at \in {"404", "410"} => runtime[Sb(c)] = "none")
      /\ (call[c].op = "destroy" /\ call[c].at = "200" => runtime[Sb(c)] = "none")
  BY <1>1, LateCalls, AnswersOnTheWay
<1>3. Within(c)
  BY <1>1, <1>2 DEF Within, Around, CallsTyped
<1>4. \A err : \A hit \in BOOLEAN : E2B!Finish(c, err, hit) /\ GoodAnswer(c, err, hit) => Served(c)
  BY <1>1, <1>3, E2BSteps
<1> USE DEF GoodAnswer, Lifecycle, Uses
<1>5. CASE E2B!Spawn(c)
  BY <1>1, <1>2, <1>4, <1>5 DEF E2B!Spawn
<1>6. CASE E2B!ExecMode(c) \/ E2B!NotSupported(c)
  BY <1>1, <1>2, <1>4, <1>6 DEF E2B!ExecMode, E2B!NotSupported
<1>7. CASE E2B!Exec(c) \/ E2B!WriteFile(c) \/ E2B!ReadFile(c) \/ E2B!ListFiles(c)
  BY <1>1, <1>2, <1>4, <1>7 DEF E2B!Exec, E2B!WriteFile, E2B!ReadFile, E2B!ListFiles, E2B!Failed, E2B!Codes
<1>8. CASE E2B!ConsoleLog(c)
  BY <1>1, <1>2, <1>4, <1>8 DEF E2B!ConsoleLog
<1>9. CASE E2B!Status(c)
  BY <1>1, <1>2, <1>4, <1>9 DEF E2B!Status
<1>10. CASE E2B!Destroy(c)
  BY <1>1, <1>2, <1>4, <1>10 DEF E2B!Destroy
<1> QED BY <1>5, <1>6, <1>7, <1>8, <1>9, <1>10

LEMMA E2BStreams ==
  ASSUME CallsInv, NEW c \in Callers, E2B!ExecStream(c) \/ E2B!SendOutput(c)
  PROVE  Served(c)
<1> USE DEF E2B!Here, E2B!Provider, E2B!At, E2B!Answer, E2B!Sb, Sb
<1>1. kind = "e2b" /\ ServedByOthers /\ UNCHANGED <<kind, runtime, table>> /\ call[c].op = "stream"
  BY DEF E2B!ExecStream, E2B!SendOutput, E2B!Failed, E2B!Replies, E2B!Send, E2B!StopCopying, E2B!Close, ServedByOthers
<1>2. CallsTyped /\ (call[c].at \in {"copy", "hung", "close", "200"} => ~call[c].late)
  BY <1>1, LateCalls, AnswersOnTheWay
<1>3. Within(c)
  BY <1>1, <1>2 DEF Within, Around, CallsTyped
<1>4. /\ \A label \in Labels : E2B!Step(c, label) /\ GoodLabel(c, label) => Served(c)
      /\ \A err : \A hit \in BOOLEAN : E2B!Finish(c, err, hit) /\ GoodAnswer(c, err, hit) => Served(c)
  BY <1>1, <1>3, E2BSteps
<1>5. ASSUME NEW n \in 0 .. Room, UNCHANGED E2B!memo,
             call' = [call EXCEPT ![c].at = "copy", ![c].left = n, ![c].late = FALSE]
      PROVE  Served(c)
  <2>1. n \in Int /\ UNCHANGED memo
    BY <1>5 DEF E2B!memo, memo
  <2>2. GoesOn(c) /\ call'[c].at = "copy" /\ ~call'[c].late
    BY <1>2, <1>5, <2>1, OpenedMoves
  <2> QED BY <1>1, <1>3, <2>2, StreamsOnward
<1>6. ASSUME E2B!Failed(c, "stream") PROVE Served(c)
  BY <1>1, <1>2, <1>4, <1>6 DEF E2B!Failed, E2B!Replies, E2B!Codes, GoodAnswer, Lifecycle
<1>7. CASE E2B!ExecStream(c)
  BY <1>5, <1>6, <1>7 DEF E2B!ExecStream, E2B!memo
<1>8. CASE E2B!SendOutput(c)
  <2>1. ASSUME E2B!Send(c) PROVE Served(c)
    BY <1>1, <1>2, <1>3, <2>1, SendMoves, StreamsOnward DEF E2B!Send, E2B!memo, memo
  <2>2. ASSUME E2B!StopCopying(c) PROVE Served(c)
    BY <1>1, <1>2, <1>4, <2>2 DEF E2B!StopCopying, GoodLabel, Labels
  <2>3. ASSUME E2B!Close(c) PROVE Served(c)
    BY <1>1, <1>2, <1>4, <2>3 DEF E2B!Close, GoodAnswer, Lifecycle
  <2> QED BY <1>8, <2>1, <2>2, <2>3 DEF E2B!SendOutput
<1> QED BY <1>7, <1>8

LEMMA E2BServes == ASSUME CallsInv, NEW c \in Callers, E2B!Goes(c) PROVE Served(c)
  BY E2BRequest, E2BAnswers, E2BStreams DEF E2B!Goes

-----------------------------------------------------------------------------
(* What such a step keeps.                                                 *)

\* Whoever goes on or ends leaves the calls of the others as they are.
LEMMA TakenCalls ==
  ASSUME CallsInv, NEW c \in Callers, Taken(c)
  PROVE  /\ CallsTyped' /\ OthersWait(c)
         /\ \A d \in Callers : call'[d] # Idle => call'[d].op = call[d].op /\ call'[d].id = call[d].id
         /\ \A id \in Ids : id \notin spawned' => id \notin spawned
<1>1. OthersWait(c) /\ (call'[c] = Idle \/ (call'[c].op = call[c].op /\ call'[c].id = call[c].id))
  BY DEF Taken, Underway, Completed, GoesOn
<1>2. spawned' \subseteq Ids
  <2>1. CASE UNCHANGED spawned
    BY <2>1 DEF CallsInv, CallsTyped
  <2>2. CASE call[c].op = "spawn" /\ spawned' = spawned \cup {Sb(c)}
    BY <2>2 DEF CallsInv, CallsTyped, Issued
  <2> QED BY <2>1, <2>2 DEF Taken, Underway, Completed, GoesOn
<1>3. CallsTyped'
  BY <1>1, <1>2 DEF CallsInv, CallsTyped, Taken, Around, OthersWait
<1> QED BY <1>1, <1>3 DEF OthersWait, Taken, Underway, Completed, GoesOn

LEMMA TakenIssued ==
  ASSUME CallsInv, NEW c \in Callers, Taken(c)
  PROVE  Issued'
<1>1. /\ OthersWait(c) /\ spawned \subseteq spawned' /\ gone \subseteq gone'
      /\ \A d \in Callers : call'[d] # Idle => call'[d].op = call[d].op /\ call'[d].id = call[d].id
  BY TakenCalls DEF Taken, Underway, Completed, GoesOn
<1>2. gone' \subseteq spawned'
  <2>1. CASE UNCHANGED gone
    BY <1>1, <2>1 DEF CallsInv, Issued
  <2>2. CASE call[c].op \in Uses \cup {"status", "destroy"} /\ gone' = gone \cup {Sb(c)}
    BY <1>1, <2>2 DEF CallsInv, Issued
  <2> QED BY <2>1, <2>2 DEF Taken, Underway, Completed, GoesOn
<1>3. ASSUME NEW d \in Callers, call'[d] # Idle
      PROVE  /\ (call'[d].op = "none" => Sb(d)' = NoId /\ call'[d].at = "")
             /\ (call'[d].op = "list" => Sb(d)' = NoId /\ kind' = "docker")
             /\ (call'[d].op \in Uses \cup {"status", "destroy"} => Sb(d)' \in spawned')
             /\ (call'[d].late =>
                   /\ call'[d].op \in {"exec", "stream", "file"} /\ call'[d].at \notin {"copy", "hung", "close"}
                   /\ Sb(d)' \in gone')
  <2>1. call'[d].late => call[d].late /\ call'[d].at \notin {"copy", "hung", "close"}
    BY <1>1, <1>3 DEF OthersWait, Taken, Underway, Completed, CallsInv, Issued
  <2>2. call'[d].op = call[d].op /\ call'[d].id = call[d].id /\ kind' = kind
    BY <1>1, <1>3 DEF Taken, Around
  <2>3. call'[d].op = "none" => call'[d].at = ""
    BY <1>1, <1>3, <2>2 DEF OthersWait, Taken, Underway, Completed, CallsInv, Issued
  <2> QED BY <1>1, <1>3, <2>1, <2>2, <2>3 DEF CallsInv, Issued, Sb
<1>4. ASSUME NEW d \in Callers, call'[d] # Idle, call'[d].op = "spawn"
      PROVE  Sb(d)' \in Ids \ spawned' /\ \A e \in Callers \ {d} : Sb(e)' # Sb(d)'
  <2>1. Sb(d)' = Sb(d) /\ Sb(d) \in Ids \ spawned /\ \A e \in Callers \ {d} : Sb(e) # Sb(d)
    BY <1>1, <1>4 DEF CallsInv, Issued, Sb
  <2>2. Sb(d) \notin spawned'
    <3>1. CASE d = c
      BY <1>4, <2>1, <3>1 DEF Taken, Underway, Completed, GoesOn
    <3>2. CASE d # c
      BY <2>1, <3>2 DEF Taken, Underway, Completed, GoesOn
    <3> QED BY <3>1, <3>2
  <2>3. \A e \in Callers : Sb(e)' = Sb(e) \/ Sb(e)' = NoId
    BY <1>1, IdleFacts DEF Sb
  <2>4. Sb(d) # NoId
    BY <2>1, ProvidersAssumption
  <2> QED BY <2>1, <2>2, <2>3, <2>4
<1>5. Idle.op = "none" /\ Idle.id = NoId /\ Idle.at = "" /\ ~Idle.late
  BY IdleFacts
<1>6. "none" \notin Uses \cup {"status", "destroy", "spawn", "list"}
  BY DEF Uses
<1> QED BY <1>2, <1>3, <1>4, <1>5, <1>6 DEF Issued, Sb

LEMMA TakenUnanswered ==
  ASSUME CallsInv, NEW c \in Callers, Taken(c)
  PROVE  Unanswered'
<1>1. /\ OthersWait(c) /\ spawned \subseteq spawned' /\ excused \subseteq excused'
      /\ \A id \in Ids \ {Sb(c)} : runtime'[id] = runtime[id]
  BY TakenCalls DEF Taken, Underway, Completed, GoesOn, Around
<1>2. ASSUME NEW d \in Callers, call'[d].op = "spawn", call'[d].at \in {"begin", "create"}
      PROVE  runtime'[Sb(d)'] = "none"
  <2>1. CASE d = c
    BY <1>2, <2>1, IdleFacts DEF Taken, Underway, Completed, GoesOn, Sb
  <2>2. CASE d # c
    <3>1. call'[d] = call[d] /\ call[d].op = "spawn" /\ call[d].at \in {"begin", "create"}
      BY <1>1, <1>2, <2>2 DEF OthersWait
    <3>2. Sb(d) \in Ids \ {Sb(c)} /\ runtime[Sb(d)] = "none"
      BY <2>2, <3>1 DEF CallsInv, Issued, Unanswered
    <3> QED BY <1>1, <3>1, <3>2 DEF Sb
  <2> QED BY <2>1, <2>2
<1>3. ASSUME NEW id \in Ids \ spawned', runtime'[id] # "none", id \notin excused'
      PROVE  \E d \in Callers : Sb(d)' = id /\ call'[d].op = "spawn"
  <2>1. CASE id = Sb(c) /\ call[c].op = "spawn"
    BY <1>3, <2>1 DEF Taken, Underway, Completed, GoesOn, Sb
  <2>2. CASE ~(id = Sb(c) /\ call[c].op = "spawn")
    <3>1. id # Sb(c)
      <4>1. call[c].op \in Ops \cup {"none"} /\ id # NoId /\ id \notin spawned
        BY <1>1, <1>3, ProvidersAssumption DEF CallsInv, CallsTyped, CallRecord
      <4> QED BY <2>2, <4>1 DEF CallsInv, Issued, Ops
    <3>2. PICK d \in Callers : Sb(d) = id /\ call[d].op = "spawn"
      BY <1>1, <1>3, <3>1 DEF CallsInv, Unanswered
    <3> QED BY <1>1, <2>2, <3>2 DEF OthersWait, Sb
  <2> QED BY <2>1, <2>2
<1> QED BY <1>2, <1>3 DEF Unanswered

LEMMA ServedTaken == ASSUME NEW c \in Callers, Served(c) PROVE Taken(c)
<1>1. CASE Onward(c)
  BY <1>1 DEF Served, Within, Onward, Taken, Underway
<1>2. CASE Over(c)
  BY <1>2 DEF Served, Within, Over, Taken, Completed
<1> QED BY <1>1, <1>2 DEF Served

LEMMA ServedGone ==
  ASSUME CallsInv, ServedByOthers, NEW c \in Callers, Served(c)
  PROVE  GoneForGood' /\ Forgotten' /\ FirecrackerApart' /\ AfterDestroy'
<1>1. /\ OthersWait(c) /\ UNCHANGED kind
      /\ \A id \in Ids \ {Sb(c)} : runtime'[id] = runtime[id]
  BY TakenCalls, ServedTaken DEF Served, Within, Around
<1>2. \A id \in Ids : id \in spawned /\ runtime[id] = "none" => runtime'[id] = "none"
  BY <1>1 DEF Served, Within, Around, CallsInv, Issued
<1>3. \A id \in gone' : runtime'[id] = "none"
  <2>1. \A id \in gone : runtime[id] = "none" /\ id \in Ids /\ id \in spawned
    BY DEF CallsInv, GoneForGood, Issued, CallsTyped
  <2> QED BY <1>2, <2>1 DEF Served, Onward, Over, GoesOn
<1>4. ASSUME NEW d \in Callers, Deleted(d)'
      PROVE  call'[d].op \notin {"none", "list", "spawn"} /\ runtime'[Sb(d)'] = "none"
  <2>1. CASE d = c
    BY <1>4, <2>1, IdleFacts DEF Served, Onward, Over, GoesOn, Deleted, Sb
  <2>2. CASE d # c
    <3>1. call'[d] = call[d] /\ Deleted(d)
      BY <1>1, <1>4, <2>2 DEF OthersWait, Deleted
    <3>2. call[d].op \notin {"none", "list", "spawn"} /\ runtime[Sb(d)] = "none"
      BY <3>1 DEF CallsInv, GoneForGood
    <3>3. runtime'[Sb(d)] = "none"
      <4>1. call[d].op \in Uses \cup {"status", "destroy"}
        BY <3>2 DEF CallsInv, CallsTyped, CallRecord, Ops
      <4>2. Sb(d) \in spawned /\ Sb(d) \in Ids
        BY <4>1 DEF CallsInv, Issued, CallsTyped
      <4> QED BY <1>2, <3>2, <4>2
    <3> QED BY <3>1, <3>2, <3>3 DEF Sb
  <2> QED BY <2>1, <2>2
<1>5. ASSUME NEW d \in Callers, call'[d].late, kind # "docker" PROVE call'[d].at \in {"begin", "404", "410"}
  BY <1>1, <1>5, IdleFacts DEF OthersWait, CallsInv, GoneForGood, Served, Onward, Over
<1>6. GoneForGood'
  BY <1>1, <1>3, <1>4, <1>5 DEF GoneForGood
<1>7. Forgotten' /\ FirecrackerApart'
  BY <1>1 DEF Forgotten, OnTheHost, FirecrackerApart, ServedByOthers
<1>8. AfterDestroy'
  BY <1>1 DEF AfterDestroy, ServedByOthers, CallsInv, Served, Onward, Over, GoesOn
<1> QED BY <1>6, <1>7, <1>8

-----------------------------------------------------------------------------
(* PRoot and the mock: what a step of a call does.                         *)

\* A step is about its own entry, too, which is taken by Spawn and given up by Destroy,
\* and makes a directory again only for a file.
Nearby(c) ==
  /\ Around(c) /\ call[c].op \in Uses \cup {"spawn", "status", "destroy"}
  /\ \A id \in Ids \ {Sb(c)} : table'[id] = table[id]
  /\ kind = "proot" => \A id \in Ids : table'[id] # "destroyed"
  /\ call[c].op # "spawn" =>
       table'[Sb(c)] = table[Sb(c)] \/ (call[c].op = "destroy" /\ table'[Sb(c)] # "running")
  /\ call[c].op \in Uses \cup {"status"} => runtime'[Sb(c)] = runtime[Sb(c)] \/ InFiles(c)

\* A late call does not go on; files are reached by way of the entry; Destroy gives it up.
Remains(c) ==
  /\ Underway(c) /\ ~call'[c].late
  /\ InFiles(c)' => InFiles(c) \/ table[Sb(c)] = "running"
  /\ call[c].op = "destroy" => call'[c].at = "remove"
  /\ At(c, "destroy", "remove")' => table'[Sb(c)] # "running"

\* What is answered to be gone has no entry; a directory that stays has a reason.
Leaves(c) ==
  /\ Completed(c) /\ wrong' = {}
  /\ call[c].op = "spawn" /\ spawned' # spawned => table'[Sb(c)] = "running"
  /\ gone' # gone => table'[Sb(c)] # "running"
  /\ call[c].op = "destroy" =>
       \/ /\ ~At(c, "destroy", "remove")
          /\ table'[Sb(c)] = table[Sb(c)] /\ runtime'[Sb(c)] = runtime[Sb(c)]
       \/ Sb(c) \in excused'
       \/ runtime'[Sb(c)] = "none" /\ ~Writing(c)

Hosted(c) == Nearby(c) /\ (Remains(c) \/ Leaves(c))

HostLabel(c, label) ==
  /\ ~call[c].late /\ label \notin {"begin", "create"}
  /\ call[c].op = "file" => InFiles(c) \/ table[Sb(c)] = "running"
  /\ call[c].op = "destroy" => label = "remove" /\ table'[Sb(c)] # "running"

HostAnswer(c, err, hit) ==
  /\ call[c].op = "spawn" =>
       err \notin Lifecycle /\ (IF err = "none" THEN table'[Sb(c)] = "running" ELSE runtime'[Sb(c)] = "none")
  /\ call[c].op = "destroy" =>
       \/ call[c].at = "begin" /\ table'[Sb(c)] = table[Sb(c)] /\ runtime'[Sb(c)] = runtime[Sb(c)]
       \/ hit
       \/ runtime'[Sb(c)] = "none" /\ ~Writing(c)
  /\ err \in Lifecycle \/ (call[c].op = "destroy" /\ err = "none") => table'[Sb(c)] # "running"
  /\ call[c].late => err \in Lifecycle \cup {"unreachable", "timeout"}

LEMMA HostMoves ==
  ASSUME NEW c \in Callers, NEW label \in Labels, Nearby(c), Moved(c, label), HostLabel(c, label)
  PROVE  Hosted(c)
<1>1. GoesOn(c)
  BY DEF Moved
<1>2. Underway(c) /\ ~call'[c].late
  BY <1>1 DEF Underway, Moved, GoesOn, HostLabel, Nearby, Uses
<1>3. Remains(c)
  BY <1>1, <1>2 DEF Remains, Moved, GoesOn, HostLabel, InFiles, At, Sb
<1> QED BY <1>3 DEF Hosted

LEMMA HostEnds ==
  ASSUME CallsInv, OnTheHost, NEW c \in Callers, NEW err, NEW hit \in BOOLEAN, Nearby(c),
         Ended(c, err, hit), HostAnswer(c, err, hit)
  PROVE  Hosted(c)
<1>1. call[c].op \in Uses \cup {"spawn", "status", "destroy"} /\ wrong = {}
  BY DEF Nearby, CallsInv, AfterDestroy, OnTheHost
<1>2. Completed(c)
  BY <1>1 DEF Completed, Ended, HostAnswer
<1>3. Leaves(c)
  BY <1>1, <1>2 DEF Leaves, Ended, HostAnswer, At
<1> QED BY <1>3 DEF Hosted

\* A stream that was opened is about nothing else.
LEMMA HostStreams ==
  ASSUME NEW c \in Callers, Nearby(c), GoesOn(c), call[c].op = "stream", ~call'[c].late
  PROVE  Hosted(c)
  BY DEF GoesOn, Underway, Remains, InFiles, At, Hosted

LEMMA HostedTaken == ASSUME NEW c \in Callers, Hosted(c) PROVE Taken(c)
  BY DEF Hosted, Nearby, Remains, Leaves, Taken

\* What is known of a call, late or not.
LEMMA HostCalls ==
  ASSUME CallsInv, OnTheHost, NEW c \in Callers
  PROVE  /\ CallsTyped /\ wrong = {}
         /\ call[c].op \in Uses \cup {"spawn", "status", "destroy", "none"}
         /\ call[c].op # "none" => Sb(c) \in Ids
         /\ call[c].late =>
              call[c].at = "begin" /\ call[c].op \in {"exec", "stream", "file"} /\ table[Sb(c)] # "running"
<1>1. call[c].op \in Uses \cup {"spawn", "status", "destroy", "none"} /\ wrong = {} /\ CallsTyped
  BY DEF CallsInv, CallsTyped, CallRecord, Ops, Issued, OnTheHost, AfterDestroy
<1>2. call[c].op # "none" => Sb(c) \in Ids
  BY <1>1 DEF CallsInv, CallsTyped, Issued
<1>3. call[c].late => call[c].at = "begin" /\ call[c].op \in {"exec", "stream", "file"} /\ table[Sb(c)] # "running"
  BY DEF CallsInv, Issued, Forgotten
<1> QED BY <1>1, <1>2, <1>3

LEMMA HostedGone ==
  ASSUME CallsInv, OnTheHost, NEW c \in Callers, Hosted(c)
  PROVE  GoneForGood' /\ Forgotten' /\ FirecrackerApart' /\ AfterDestroy'
<1>1. /\ OthersWait(c) /\ UNCHANGED kind /\ CallsTyped /\ CallsTyped'
      /\ \A id \in Ids \ {Sb(c)} : runtime'[id] = runtime[id] /\ table'[id] = table[id]
      /\ \A d \in Callers : Sb(d)' = Sb(d) \/ Sb(d)' = NoId
  BY TakenCalls, HostedTaken, IdleFacts DEF Hosted, Nearby, Around, CallsInv, Sb
<1>2. call[c].op \in Uses \cup {"spawn", "status", "destroy"} /\ Sb(c) \in Ids /\ wrong = {}
  BY HostCalls DEF Hosted, Nearby, Uses
<1>3. call[c].op # "spawn" => Sb(c) \in spawned
  BY <1>2 DEF CallsInv, Issued
<1>4. \A id \in gone' : table'[id] # "running"
  <2>1. \A id \in gone : table[id] # "running" /\ id \in Ids /\ id \in spawned
    BY DEF CallsInv, Forgotten, Issued, CallsTyped
  <2>2. \A id \in gone : table'[id] # "running"
    BY <1>1, <2>1 DEF Hosted, Nearby, CallsInv, Issued
  <2> QED BY <2>2 DEF Hosted, Remains, Leaves, Underway, Completed, GoesOn
<1>5. ASSUME NEW d \in Callers, At(d, "destroy", "remove")' PROVE table'[Sb(d)'] # "running"
  <2>1. CASE d = c
    BY <1>5, <2>1, IdleFacts DEF Hosted, Remains, Underway, GoesOn, Leaves, Completed, At, Sb
  <2>2. CASE d # c
    <3>1. call'[d] = call[d] /\ call[d].op = "destroy" /\ Sb(d)' = Sb(d) /\ table[Sb(d)] # "running"
      BY <1>1, <1>5, <2>2 DEF OthersWait, At, Sb, CallsInv, Forgotten
    <3>2. Sb(d) \in spawned /\ Sb(d) \in Ids
      BY <3>1 DEF CallsInv, Issued, CallsTyped
    <3> QED BY <1>1, <3>1, <3>2 DEF Hosted, Nearby, CallsInv, Issued
  <2> QED BY <2>1, <2>2
<1>6. ASSUME NEW d \in Callers, call'[d].late PROVE call'[d].at = "begin"
  BY <1>1, <1>6, IdleFacts DEF OthersWait, CallsInv, Forgotten, Hosted, Remains, Leaves, Completed
<1>7. ASSUME NEW id \in spawned', table'[id] # "running", id \notin excused', ~Removing(id)'
      PROVE  runtime'[id] = "none" /\ \A d \in Callers : Sb(d)' = id => ~InFiles(d)'
  <2>1. id \in Ids /\ id # NoId
    BY <1>1, ProvidersAssumption DEF CallsTyped
  <2>2. excused \subseteq excused'
    BY DEF Hosted, Remains, Leaves, Underway, Completed, GoesOn
  <2>3. ASSUME NEW d \in Callers \ {c}, Sb(d) = id PROVE ~At(d, "destroy", "remove")
    BY <1>1, <1>7, <2>3 DEF OthersWait, Removing, At, Sb
  <2>4. CASE id # Sb(c)
    <3>1. id \in spawned /\ table[id] # "running" /\ runtime'[id] = runtime[id]
      BY <1>1, <1>7, <2>1, <2>4 DEF Hosted, Remains, Leaves, Underway, Completed, GoesOn
    <3>2. ~Removing(id)
      BY <2>3, <2>4 DEF Removing
    <3>3. runtime[id] = "none" /\ \A d \in Callers : Sb(d) = id => ~InFiles(d)
      BY <1>7, <2>2, <3>1, <3>2 DEF CallsInv, Forgotten
    <3>4. ASSUME NEW d \in Callers, Sb(d)' = id PROVE d # c /\ call'[d] = call[d]
      BY <1>1, <2>1, <2>4, <3>4 DEF OthersWait
    <3> QED BY <3>1, <3>3, <3>4 DEF InFiles, Sb
  <2>5. CASE id = Sb(c) /\ call[c].op = "spawn"
    BY <1>7, <2>5 DEF Hosted, Remains, Leaves, Underway, Completed, GoesOn, CallsInv, Issued
  <2>6. CASE id = Sb(c) /\ call[c].op \in Uses \cup {"status"}
    <3>1. id \in spawned /\ table[id] # "running" /\ call[c].op # "destroy" /\ call[c].op # "spawn"
      BY <1>3, <1>7, <2>6 DEF Hosted, Nearby, Uses
    <3>2. ~Removing(id)
      BY <2>3, <3>1 DEF Removing, At
    <3>3. runtime[id] = "none" /\ \A d \in Callers : Sb(d) = id => ~InFiles(d)
      BY <1>7, <2>2, <3>1, <3>2 DEF CallsInv, Forgotten
    <3>4. runtime'[id] = "none"
      BY <2>6, <3>3 DEF Hosted, Nearby
    <3>5. ~InFiles(c)'
      BY <2>6, <3>1, <3>3, IdleFacts DEF Hosted, Remains, Leaves, Completed, InFiles
    <3>6. \A d \in Callers \ {c} : call'[d] = call[d]
      BY <1>1 DEF OthersWait
    <3> QED BY <3>3, <3>4, <3>5, <3>6 DEF InFiles, Sb
  <2>7. CASE id = Sb(c) /\ call[c].op = "destroy"
    <3>1. CASE Remains(c)
      <4>1. Sb(c)' = id /\ At(c, "destroy", "remove")'
        BY <2>7, <3>1 DEF Remains, Underway, GoesOn, At, Sb
      <4> QED BY <1>7, <4>1 DEF Removing
    <3>2. CASE Leaves(c)
      <4>1. Sb(c)' # id /\ \A d \in Callers \ {c} : call'[d] = call[d]
        BY <1>1, <2>1, <3>2, IdleFacts DEF OthersWait, Leaves, Completed, Sb
      <4>2. CASE ~At(c, "destroy", "remove") /\ table'[id] = table[id] /\ runtime'[id] = runtime[id]
        <5>1. id \in spawned /\ table[id] # "running" /\ ~Removing(id)
          BY <1>3, <1>7, <2>3, <2>7, <4>2 DEF Removing
        <5>2. runtime[id] = "none" /\ \A d \in Callers : Sb(d) = id => ~InFiles(d)
          BY <1>7, <2>2, <5>1 DEF CallsInv, Forgotten
        <5> QED BY <4>1, <4>2, <5>2 DEF InFiles, Sb
      <4>3. CASE runtime'[id] = "none" /\ ~Writing(c)
        BY <2>7, <4>1, <4>3 DEF Writing, InFiles, Sb
      <4> QED BY <1>7, <2>7, <3>2, <4>2, <4>3 DEF Leaves
    <3> QED BY <3>1, <3>2 DEF Hosted
  <2> QED BY <1>2, <2>4, <2>5, <2>6, <2>7
<1>8. kind = "proot" => \A id \in Ids : table'[id] # "destroyed"
  BY DEF Hosted, Nearby
<1>9. Forgotten'
  BY <1>1, <1>4, <1>5, <1>6, <1>7, <1>8 DEF Forgotten
<1>10. GoneForGood' /\ FirecrackerApart'
  BY <1>1 DEF GoneForGood, ServedByOthers, OnTheHost, FirecrackerApart
<1>11. wrong' = {}
  BY <1>2 DEF Hosted, Remains, Leaves, Underway, GoesOn
<1> QED BY <1>1, <1>9, <1>10, <1>11 DEF AfterDestroy

-----------------------------------------------------------------------------
(* PRoot.                                                                  *)

LEMMA PRootCalls ==
  ASSUME CallsTyped, NEW c \in Callers
  PROVE  /\ \A label \in Labels : PRoot!Step(c, label) => Moved(c, label)
         /\ \A err, hit : PRoot!Finish(c, err, hit) => Ended(c, err, hit)
<1>1. ASSUME NEW label \in Labels, PRoot!Step(c, label) PROVE Moved(c, label)
  BY <1>1, StepMoves DEF PRoot!Step, Step, PRoot!memo, memo
<1>2. ASSUME NEW err, NEW hit, PRoot!Finish(c, err, hit) PROVE Ended(c, err, hit)
  BY <1>2, FinishEnds DEF PRoot!Finish, Finish, PRoot!Idle, Idle, PRoot!Lifecycle, Lifecycle, PRoot!NoId, NoId
<1> QED BY <1>1, <1>2

LEMMA PRootSteps ==
  ASSUME CallsInv, kind = "proot", NEW c \in Callers, Nearby(c)
  PROVE  /\ \A label \in Labels : PRoot!Step(c, label) /\ HostLabel(c, label) => Hosted(c)
         /\ \A err : \A hit \in BOOLEAN : PRoot!Finish(c, err, hit) /\ HostAnswer(c, err, hit) => Hosted(c)
<1>1. ASSUME NEW label \in Labels, PRoot!Step(c, label), HostLabel(c, label) PROVE Hosted(c)
  BY <1>1, PRootCalls, HostMoves DEF CallsInv
<1>2. ASSUME NEW err, NEW hit \in BOOLEAN, PRoot!Finish(c, err, hit), HostAnswer(c, err, hit) PROVE Hosted(c)
  BY <1>2, PRootCalls, HostEnds DEF CallsInv, OnTheHost
<1> QED BY <1>1, <1>2

LEMMA PRootSpawn ==
  ASSUME CallsInv, NEW c \in Callers, PRoot!Spawn(c)
  PROVE  Hosted(c)
<1> USE DEF PRoot!Here, PRoot!Provider, PRoot!At, PRoot!Answer, PRoot!SetRuntime, PRoot!SetTable, PRoot!Sb, Sb
<1>1. kind = "proot" /\ OnTheHost /\ UNCHANGED kind /\ call[c].op = "spawn" /\ call[c].at = "begin"
  BY DEF PRoot!Spawn, OnTheHost
<1>2. CallsTyped /\ Sb(c) \in Ids /\ ~call[c].late /\ runtime[Sb(c)] = "none"
  BY <1>1, HostCalls DEF CallsInv, Unanswered
<1>3. \/ UNCHANGED <<runtime, table>>
      \/ runtime' = [runtime EXCEPT ![Sb(c)] = "running"] /\ table' = [table EXCEPT ![Sb(c)] = "running"]
  BY DEF PRoot!Spawn
<1>4. Nearby(c)
  BY <1>1, <1>2, <1>3 DEF Nearby, Around, Uses, CallsTyped, CallsInv, Forgotten, OnTheHost
<1>5. \A err : \A hit \in BOOLEAN : PRoot!Finish(c, err, hit) /\ HostAnswer(c, err, hit) => Hosted(c)
  BY <1>1, <1>4, PRootSteps
<1>6. CASE UNCHANGED <<runtime, table>> /\ (PRoot!Finish(c, "limit", FALSE) \/ PRoot!Finish(c, "error", FALSE))
  BY <1>1, <1>2, <1>5, <1>6 DEF HostAnswer, Lifecycle
<1>7. CASE PRoot!Finish(c, "none", FALSE) /\ table' = [table EXCEPT ![Sb(c)] = "running"]
  BY <1>1, <1>2, <1>5, <1>7 DEF HostAnswer, Lifecycle, CallsTyped
<1> QED BY <1>6, <1>7 DEF PRoot!Spawn

LEMMA PRootUses ==
  ASSUME CallsInv, NEW c \in Callers, PRoot!getSandbox(c) \/ PRoot!Exec(c) \/ PRoot!ConsoleLog(c) \/ PRoot!Status(c)
  PROVE  Hosted(c)
<1> USE DEF PRoot!Here, PRoot!Provider, PRoot!At, PRoot!Answer, PRoot!Sb, Sb
<1>1. /\ kind = "proot" /\ OnTheHost /\ UNCHANGED <<kind, runtime, table>> /\ call[c].op \in Uses \cup {"status"}
      /\ call[c].op \notin {"spawn", "destroy"}
  BY DEF PRoot!getSandbox, PRoot!Exec, PRoot!ConsoleLog, PRoot!Status, PRoot!Uses, Uses, OnTheHost
<1>2. /\ CallsTyped /\ Sb(c) \in Ids
      /\ (call[c].late => call[c].at = "begin" /\ call[c].op # "status" /\ table[Sb(c)] # "running")
      /\ (kind = "proot" => table[Sb(c)] # "destroyed")
  BY <1>1, HostCalls DEF CallsInv, Forgotten, Uses
<1>3. Nearby(c)
  BY <1>1, <1>2 DEF Nearby, Around, CallsTyped, CallsInv, Forgotten, OnTheHost
<1>4. /\ \A label \in Labels : PRoot!Step(c, label) /\ HostLabel(c, label) => Hosted(c)
      /\ \A err : \A hit \in BOOLEAN : PRoot!Finish(c, err, hit) /\ HostAnswer(c, err, hit) => Hosted(c)
  BY <1>1, <1>3, PRootSteps
<1>5. table[Sb(c)] \in {"none", "running", "destroyed"}
  BY <1>2 DEF CallsTyped
<1> USE DEF HostAnswer, Lifecycle
<1>6. CASE PRoot!getSandbox(c)
  BY <1>1, <1>2, <1>4, <1>5, <1>6 DEF PRoot!getSandbox, HostLabel, Labels
<1>7. CASE PRoot!Exec(c)
  BY <1>1, <1>2, <1>4, <1>7 DEF PRoot!Exec, PRoot!Unreachable
<1>8. CASE PRoot!ConsoleLog(c)
  BY <1>1, <1>2, <1>4, <1>8 DEF PRoot!ConsoleLog
<1>9. CASE PRoot!Status(c)
  BY <1>1, <1>2, <1>4, <1>5, <1>9 DEF PRoot!Status
<1> QED BY <1>6, <1>7, <1>8, <1>9

LEMMA PRootFiles ==
  ASSUME CallsInv, NEW c \in Callers,
         \/ PRoot!WriteFile(c) \/ PRoot!MoveFile(c) \/ PRoot!ReadFile(c) \/ PRoot!ListFiles(c)
         \/ PRoot!ChmodFile(c) \/ PRoot!StatFile(c)
         \/ PRoot!DeleteFile(c) \/ PRoot!GlobFiles(c)
  PROVE  Hosted(c)
<1> USE DEF PRoot!Here, PRoot!Provider, PRoot!At, PRoot!Answer, PRoot!SetRuntime, PRoot!Sb, Sb, PRoot!InDirectory
<1>1. kind = "proot" /\ OnTheHost /\ UNCHANGED <<kind, table>> /\ call[c].op = "file" /\ call[c].at \in {"use", "made"}
  BY DEF PRoot!WriteFile, PRoot!MoveFile, PRoot!ReadFile, PRoot!ListFiles, PRoot!ChmodFile, PRoot!StatFile,
         PRoot!DeleteFile, PRoot!GlobFiles,
         PRoot!MkdirAll, PRoot!FileAnswers, OnTheHost
<1>2. CallsTyped /\ Sb(c) \in Ids /\ ~call[c].late /\ InFiles(c)
  BY <1>1, HostCalls DEF InFiles
<1>3. runtime' = runtime \/ runtime' = [runtime EXCEPT ![Sb(c)] = "running"]
  BY <1>1 DEF PRoot!WriteFile, PRoot!MoveFile, PRoot!ReadFile, PRoot!ListFiles, PRoot!ChmodFile,
     PRoot!StatFile, PRoot!DeleteFile, PRoot!GlobFiles,
         PRoot!MkdirAll, PRoot!FileAnswers
<1>4. Nearby(c)
  BY <1>1, <1>2, <1>3 DEF Nearby, Around, Uses, CallsTyped, CallsInv, Forgotten, OnTheHost
<1>5. /\ \A label \in Labels : PRoot!Step(c, label) /\ HostLabel(c, label) => Hosted(c)
      /\ \A err : \A hit \in BOOLEAN : PRoot!Finish(c, err, hit) /\ HostAnswer(c, err, hit) => Hosted(c)
  BY <1>1, <1>4, PRootSteps
<1>6. HostLabel(c, "made") /\ "made" \in Labels /\ HostAnswer(c, "none", FALSE) /\ HostAnswer(c, "error", FALSE)
  BY <1>1, <1>2 DEF HostLabel, HostAnswer, Labels, Lifecycle
<1>7. ASSUME PRoot!MkdirAll(c) PROVE Hosted(c)
  BY <1>5, <1>6, <1>7 DEF PRoot!MkdirAll
<1>8. ASSUME PRoot!FileAnswers(c) PROVE Hosted(c)
  BY <1>5, <1>6, <1>8 DEF PRoot!FileAnswers
<1> QED
  BY <1>5, <1>6, <1>7, <1>8
  DEF PRoot!WriteFile, PRoot!MoveFile, PRoot!ReadFile, PRoot!ListFiles, PRoot!ChmodFile, PRoot!StatFile,
      PRoot!DeleteFile, PRoot!GlobFiles

LEMMA PRootStreams ==
  ASSUME CallsInv, NEW c \in Callers,
         PRoot!ExecStream(c) \/ PRoot!HangOpen(c) \/ PRoot!ReadStream(c) \/ PRoot!CloseStream(c)
  PROVE  Hosted(c)
<1> USE DEF PRoot!Here, PRoot!Provider, PRoot!At, PRoot!Answer, PRoot!Sb, Sb
<1>1. kind = "proot" /\ OnTheHost /\ UNCHANGED <<kind, runtime, table>> /\ call[c].op = "stream" /\ call[c].at # "begin"
  BY DEF PRoot!ExecStream, PRoot!HangOpen, PRoot!ReadStream, PRoot!CloseStream, PRoot!Send, PRoot!Hang,
         PRoot!StopCopying, PRoot!Close, OnTheHost
<1>2. CallsTyped /\ Sb(c) \in Ids /\ ~call[c].late
  BY <1>1, HostCalls
<1>3. Nearby(c)
  BY <1>1, <1>2 DEF Nearby, Around, Uses, CallsTyped, CallsInv, Forgotten, OnTheHost
<1>4. /\ \A label \in Labels : PRoot!Step(c, label) /\ HostLabel(c, label) => Hosted(c)
      /\ \A err : \A hit \in BOOLEAN : PRoot!Finish(c, err, hit) /\ HostAnswer(c, err, hit) => Hosted(c)
  BY <1>1, <1>3, PRootSteps
<1>5. ASSUME PRoot!Opened(c) PROVE Hosted(c)
  <2>1. PICK n \in 0 .. MaxChunks : call' = [call EXCEPT ![c].at = "copy", ![c].left = n, ![c].late = FALSE]
    BY <1>5 DEF PRoot!Opened
  <2>2. n \in Int /\ UNCHANGED memo
    BY <1>5 DEF PRoot!Opened, PRoot!memo, memo
  <2>3. GoesOn(c) /\ ~call'[c].late
    BY <1>2, <2>1, <2>2, OpenedMoves
  <2> QED BY <1>1, <1>3, <2>3, HostStreams
<1>6. ASSUME PRoot!Send(c) PROVE Hosted(c)
  BY <1>1, <1>2, <1>3, <1>6, SendMoves, HostStreams DEF PRoot!Send, PRoot!memo, memo
<1>7. ASSUME PRoot!StopCopying(c) PROVE Hosted(c)
  BY <1>1, <1>2, <1>4, <1>7 DEF PRoot!StopCopying, HostLabel, Labels
<1>8. ASSUME PRoot!Close(c) PROVE Hosted(c)
  BY <1>1, <1>2, <1>4, <1>8 DEF PRoot!Close, HostAnswer, Lifecycle
<1>9. CASE PRoot!ExecStream(c)
  BY <1>1, <1>2, <1>4, <1>5, <1>9 DEF PRoot!ExecStream, HostAnswer, Lifecycle
<1>10. CASE PRoot!HangOpen(c)
  BY <1>1, <1>2, <1>4, <1>10 DEF PRoot!HangOpen, PRoot!Hang, HostLabel, Labels
<1> QED BY <1>6, <1>7, <1>8, <1>9, <1>10 DEF PRoot!ReadStream, PRoot!CloseStream

LEMMA PRootDestroy ==
  ASSUME CallsInv, NEW c \in Callers, PRoot!Destroy(c)
  PROVE  Hosted(c)
<1> USE DEF PRoot!Here, PRoot!Provider, PRoot!At, PRoot!Answer, PRoot!SetRuntime, PRoot!SetTable, PRoot!Sb, Sb
<1>1. kind = "proot" /\ OnTheHost /\ UNCHANGED kind /\ call[c].op = "destroy"
  BY DEF PRoot!Destroy, PRoot!Forget, PRoot!RemoveAll, OnTheHost
<1>2. CallsTyped /\ Sb(c) \in Ids /\ ~call[c].late
  BY <1>1, HostCalls
<1>3. /\ table' = table \/ table' = [table EXCEPT ![Sb(c)] = "none"]
      /\ runtime' = runtime \/ runtime' = [runtime EXCEPT ![Sb(c)] = "none"]
  BY DEF PRoot!Destroy, PRoot!Forget, PRoot!RemoveAll
<1>4. Nearby(c)
  BY <1>1, <1>2, <1>3 DEF Nearby, Around, Uses, CallsTyped, CallsInv, Forgotten, OnTheHost
<1>5. /\ \A label \in Labels : PRoot!Step(c, label) /\ HostLabel(c, label) => Hosted(c)
      /\ \A err : \A hit \in BOOLEAN : PRoot!Finish(c, err, hit) /\ HostAnswer(c, err, hit) => Hosted(c)
  BY <1>1, <1>4, PRootSteps
<1>6. CASE PRoot!Forget(c)
  BY <1>1, <1>2, <1>5, <1>6 DEF PRoot!Forget, HostLabel, HostAnswer, Labels, Lifecycle, CallsTyped
<1>7. CASE PRoot!RemoveAll(c)
  <2>1. table' = table /\ table[Sb(c)] # "running"
    BY <1>7 DEF PRoot!RemoveAll, CallsInv, Forgotten, OnTheHost, At
  <2>2. Writing(c) \in BOOLEAN /\ (PRoot!Writing(c) <=> Writing(c))
    BY DEF PRoot!Writing, Writing
  <2>3. CASE PRoot!Finish(c, "none", PRoot!Writing(c)) /\ PRoot!SetRuntime(c, "none")
    <3>1. HostAnswer(c, "none", Writing(c))
      BY <1>1, <1>2, <2>1, <2>3 DEF HostAnswer, CallsTyped
    <3>2. PRoot!Finish(c, "none", Writing(c))
      BY <2>2, <2>3 DEF PRoot!Finish
    <3> QED BY <1>5, <2>2, <3>1, <3>2
  <2>4. CASE PRoot!Finish(c, "none", TRUE)
    BY <1>1, <1>2, <1>5, <2>1, <2>4 DEF HostAnswer
  <2> QED BY <1>7, <2>3, <2>4 DEF PRoot!RemoveAll
<1> QED BY <1>6, <1>7 DEF PRoot!Destroy

LEMMA PRootServes == ASSUME CallsInv, NEW c \in Callers, PRoot!Goes(c) PROVE Hosted(c)
  BY PRootSpawn, PRootUses, PRootFiles, PRootStreams, PRootDestroy DEF PRoot!Goes

-----------------------------------------------------------------------------
(* The mock.                                                               *)

LEMMA MockCalls ==
  ASSUME CallsTyped, NEW c \in Callers
  PROVE  /\ \A label \in Labels : Mock!Step(c, label) => Moved(c, label)
         /\ \A err, hit : Mock!Finish(c, err, hit) => Ended(c, err, hit)
<1>1. ASSUME NEW label \in Labels, Mock!Step(c, label) PROVE Moved(c, label)
  BY <1>1, StepMoves DEF Mock!Step, Step, Mock!memo, memo
<1>2. ASSUME NEW err, NEW hit, Mock!Finish(c, err, hit) PROVE Ended(c, err, hit)
  BY <1>2, FinishEnds DEF Mock!Finish, Finish, Mock!Idle, Idle, Mock!Lifecycle, Lifecycle, Mock!NoId, NoId
<1> QED BY <1>1, <1>2

LEMMA MockSteps ==
  ASSUME CallsInv, kind = "mock", NEW c \in Callers, Nearby(c)
  PROVE  /\ \A label \in Labels : Mock!Step(c, label) /\ HostLabel(c, label) => Hosted(c)
         /\ \A err : \A hit \in BOOLEAN : Mock!Finish(c, err, hit) /\ HostAnswer(c, err, hit) => Hosted(c)
<1>1. ASSUME NEW label \in Labels, Mock!Step(c, label), HostLabel(c, label) PROVE Hosted(c)
  BY <1>1, MockCalls, HostMoves DEF CallsInv
<1>2. ASSUME NEW err, NEW hit \in BOOLEAN, Mock!Finish(c, err, hit), HostAnswer(c, err, hit) PROVE Hosted(c)
  BY <1>2, MockCalls, HostEnds DEF CallsInv, OnTheHost
<1> QED BY <1>1, <1>2

LEMMA MockSpawn ==
  ASSUME CallsInv, NEW c \in Callers, Mock!Spawn(c)
  PROVE  Hosted(c)
<1> USE DEF Mock!Here, Mock!Provider, Mock!At, Mock!Answer, Mock!SetRuntime, Mock!SetTable, Mock!Sb, Sb
<1>1. kind = "mock" /\ OnTheHost /\ UNCHANGED kind /\ call[c].op = "spawn"
  BY DEF Mock!Spawn, Mock!MkdirTemp, Mock!MakeWorkspace, Mock!Insert, OnTheHost
<1>2. CallsTyped /\ Sb(c) \in Ids /\ ~call[c].late /\ (call[c].at = "begin" => runtime[Sb(c)] = "none")
  BY <1>1, HostCalls DEF CallsInv, Unanswered
<1>3. /\ table' = table \/ table' = [table EXCEPT ![Sb(c)] = "running"]
      /\ runtime' \in {runtime, [runtime EXCEPT ![Sb(c)] = "created"], [runtime EXCEPT ![Sb(c)] = "running"],
                       [runtime EXCEPT ![Sb(c)] = "none"]}
  BY DEF Mock!Spawn, Mock!MkdirTemp, Mock!MakeWorkspace, Mock!Insert
<1>4. Nearby(c)
  BY <1>1, <1>2, <1>3 DEF Nearby, Around, Uses, CallsTyped
<1>5. /\ \A label \in Labels : Mock!Step(c, label) /\ HostLabel(c, label) => Hosted(c)
      /\ \A err : \A hit \in BOOLEAN : Mock!Finish(c, err, hit) /\ HostAnswer(c, err, hit) => Hosted(c)
  BY <1>1, <1>4, MockSteps
<1>6. CASE Mock!MkdirTemp(c)
  BY <1>1, <1>2, <1>5, <1>6 DEF Mock!MkdirTemp, HostLabel, HostAnswer, Labels, Lifecycle
<1>7. CASE Mock!MakeWorkspace(c)
  BY <1>1, <1>2, <1>5, <1>7 DEF Mock!MakeWorkspace, HostLabel, HostAnswer, Labels, Lifecycle, CallsTyped
<1>8. CASE Mock!Insert(c)
  BY <1>1, <1>2, <1>5, <1>8 DEF Mock!Insert, HostAnswer, Lifecycle, CallsTyped
<1> QED BY <1>6, <1>7, <1>8 DEF Mock!Spawn

LEMMA MockUses ==
  ASSUME CallsInv, NEW c \in Callers, Mock!getSandbox(c) \/ Mock!Exec(c) \/ Mock!ConsoleLog(c) \/ Mock!Status(c)
  PROVE  Hosted(c)
<1> USE DEF Mock!Here, Mock!Provider, Mock!At, Mock!Answer, Mock!Sb, Sb
<1>1. /\ kind = "mock" /\ OnTheHost /\ UNCHANGED <<kind, runtime, table>> /\ call[c].op \in Uses \cup {"status"}
      /\ call[c].op \notin {"spawn", "destroy"}
  BY DEF Mock!getSandbox, Mock!Exec, Mock!ConsoleLog, Mock!Status, Mock!Uses, Uses, OnTheHost
<1>2. /\ CallsTyped /\ Sb(c) \in Ids
      /\ (call[c].late => call[c].at = "begin" /\ call[c].op # "status" /\ table[Sb(c)] # "running")
      /\ (kind = "proot" => table[Sb(c)] # "destroyed")
  BY <1>1, HostCalls DEF CallsInv, Forgotten, Uses
<1>3. Nearby(c)
  BY <1>1, <1>2 DEF Nearby, Around, CallsTyped, CallsInv, Forgotten, OnTheHost
<1>4. /\ \A label \in Labels : Mock!Step(c, label) /\ HostLabel(c, label) => Hosted(c)
      /\ \A err : \A hit \in BOOLEAN : Mock!Finish(c, err, hit) /\ HostAnswer(c, err, hit) => Hosted(c)
  BY <1>1, <1>3, MockSteps
<1>5. table[Sb(c)] \in {"none", "running", "destroyed"}
  BY <1>2 DEF CallsTyped
<1> USE DEF HostAnswer, Lifecycle
<1>6. CASE Mock!getSandbox(c)
  BY <1>1, <1>2, <1>4, <1>5, <1>6 DEF Mock!getSandbox, HostLabel, Labels
<1>7. CASE Mock!Exec(c)
  BY <1>1, <1>2, <1>4, <1>7 DEF Mock!Exec, Mock!Unreachable
<1>8. CASE Mock!ConsoleLog(c)
  BY <1>1, <1>2, <1>4, <1>8 DEF Mock!ConsoleLog
<1>9. CASE Mock!Status(c)
  BY <1>1, <1>2, <1>4, <1>5, <1>9 DEF Mock!Status
<1> QED BY <1>6, <1>7, <1>8, <1>9

LEMMA MockFiles ==
  ASSUME CallsInv, NEW c \in Callers,
         \/ Mock!WriteFile(c) \/ Mock!MoveFile(c) \/ Mock!ReadFile(c) \/ Mock!ListFiles(c) \/ Mock!ChmodFile(c)
         \/ Mock!StatFile(c)
         \/ Mock!DeleteFile(c) \/ Mock!GlobFiles(c)
  PROVE  Hosted(c)
<1> USE DEF Mock!Here, Mock!Provider, Mock!At, Mock!Answer, Mock!SetRuntime, Mock!Sb, Sb, Mock!InDirectory
<1>1. kind = "mock" /\ OnTheHost /\ UNCHANGED <<kind, table>> /\ call[c].op = "file" /\ call[c].at \in {"use", "made"}
  BY DEF Mock!WriteFile, Mock!MoveFile, Mock!ReadFile, Mock!ListFiles, Mock!ChmodFile, Mock!StatFile,
         Mock!DeleteFile, Mock!GlobFiles,
         Mock!MkdirAll, Mock!FileAnswers, OnTheHost
<1>2. CallsTyped /\ Sb(c) \in Ids /\ ~call[c].late /\ InFiles(c)
  BY <1>1, HostCalls DEF InFiles
<1>3. runtime' = runtime \/ runtime' = [runtime EXCEPT ![Sb(c)] = "running"]
  BY <1>1 DEF Mock!WriteFile, Mock!MoveFile, Mock!ReadFile, Mock!ListFiles, Mock!ChmodFile, Mock!StatFile,
     Mock!DeleteFile, Mock!GlobFiles,
         Mock!MkdirAll, Mock!FileAnswers
<1>4. Nearby(c)
  BY <1>1, <1>2, <1>3 DEF Nearby, Around, Uses, CallsTyped, CallsInv, Forgotten, OnTheHost
<1>5. /\ \A label \in Labels : Mock!Step(c, label) /\ HostLabel(c, label) => Hosted(c)
      /\ \A err : \A hit \in BOOLEAN : Mock!Finish(c, err, hit) /\ HostAnswer(c, err, hit) => Hosted(c)
  BY <1>1, <1>4, MockSteps
<1>6. HostLabel(c, "made") /\ "made" \in Labels /\ HostAnswer(c, "none", FALSE) /\ HostAnswer(c, "error", FALSE)
  BY <1>1, <1>2 DEF HostLabel, HostAnswer, Labels, Lifecycle
<1>7. ASSUME Mock!MkdirAll(c) PROVE Hosted(c)
  BY <1>5, <1>6, <1>7 DEF Mock!MkdirAll
<1>8. ASSUME Mock!FileAnswers(c) PROVE Hosted(c)
  BY <1>5, <1>6, <1>8 DEF Mock!FileAnswers
<1> QED
  BY <1>5, <1>6, <1>7, <1>8
  DEF Mock!WriteFile, Mock!MoveFile, Mock!ReadFile, Mock!ListFiles, Mock!ChmodFile, Mock!StatFile,
      Mock!DeleteFile, Mock!GlobFiles

LEMMA MockStreams ==
  ASSUME CallsInv, NEW c \in Callers,
         Mock!ExecStream(c) \/ Mock!ReadStream(c) \/ Mock!CloseStream(c) \/ Mock!KilledCommand(c)
  PROVE  Hosted(c)
<1> USE DEF Mock!Here, Mock!Provider, Mock!At, Mock!Answer, Mock!Sb, Sb
<1>1. kind = "mock" /\ OnTheHost /\ UNCHANGED <<kind, runtime, table>> /\ call[c].op = "stream" /\ call[c].at # "begin"
  BY DEF Mock!ExecStream, Mock!ReadStream, Mock!CloseStream, Mock!Send, Mock!StopCopying, Mock!Close,
         OnTheHost, Mock!KilledCommand
<1>2. CallsTyped /\ Sb(c) \in Ids /\ ~call[c].late
  BY <1>1, HostCalls
<1>3. Nearby(c)
  BY <1>1, <1>2 DEF Nearby, Around, Uses, CallsTyped, CallsInv, Forgotten, OnTheHost
<1>4. /\ \A label \in Labels : Mock!Step(c, label) /\ HostLabel(c, label) => Hosted(c)
      /\ \A err : \A hit \in BOOLEAN : Mock!Finish(c, err, hit) /\ HostAnswer(c, err, hit) => Hosted(c)
  BY <1>1, <1>3, MockSteps
<1>5. ASSUME Mock!Opened(c) PROVE Hosted(c)
  <2>1. PICK n \in 0 .. MaxChunks : call' = [call EXCEPT ![c].at = "copy", ![c].left = n, ![c].late = FALSE]
    BY <1>5 DEF Mock!Opened
  <2>2. n \in Int /\ UNCHANGED memo
    BY <1>5 DEF Mock!Opened, Mock!memo, memo
  <2>3. GoesOn(c) /\ ~call'[c].late
    BY <1>2, <2>1, <2>2, OpenedMoves
  <2> QED BY <1>1, <1>3, <2>3, HostStreams
<1>6. ASSUME Mock!Send(c) PROVE Hosted(c)
  BY <1>1, <1>2, <1>3, <1>6, SendMoves, HostStreams DEF Mock!Send, Mock!memo, memo
<1>7. ASSUME Mock!StopCopying(c) PROVE Hosted(c)
  BY <1>1, <1>2, <1>4, <1>7 DEF Mock!StopCopying, HostLabel, Labels
<1>8. ASSUME Mock!Close(c) PROVE Hosted(c)
  BY <1>1, <1>2, <1>4, <1>8 DEF Mock!Close, HostAnswer, Lifecycle
<1>9. CASE Mock!ExecStream(c)
  BY <1>1, <1>2, <1>4, <1>5, <1>9 DEF Mock!ExecStream, HostAnswer, Lifecycle
<1>10. CASE Mock!KilledCommand(c)
  <2>1. call' = [call EXCEPT ![c].left = 1] /\ UNCHANGED memo /\ call[c] \in CallRecord
    BY <1>2, <1>10 DEF Mock!KilledCommand, Mock!memo, memo, CallsTyped
  <2>2. call'[c] = [call[c] EXCEPT !.left = 1] /\ call'[c] \in CallRecord
    BY <1>2, <2>1 DEF CallsTyped, CallRecord
  <2>3. GoesOn(c) /\ ~call'[c].late
    BY <1>2, <2>1, <2>2 DEF CallsTyped, CallRecord, GoesOn, OthersWait, memo
  <2> QED BY <1>1, <1>3, <2>3, HostStreams
<1> QED BY <1>6, <1>7, <1>8, <1>9, <1>10 DEF Mock!ReadStream, Mock!CloseStream

LEMMA MockDestroy ==
  ASSUME CallsInv, NEW c \in Callers, Mock!Destroy(c)
  PROVE  Hosted(c)
<1> USE DEF Mock!Here, Mock!Provider, Mock!At, Mock!Answer, Mock!SetRuntime, Mock!SetTable, Mock!Sb, Sb
<1>1. kind = "mock" /\ OnTheHost /\ UNCHANGED kind /\ call[c].op = "destroy" /\ call[c].at = "begin"
  BY DEF Mock!Destroy, OnTheHost
<1>2. CallsTyped /\ Sb(c) \in Ids /\ ~call[c].late
  BY <1>1, HostCalls
<1>3. /\ table' = table \/ table' = [table EXCEPT ![Sb(c)] = "destroyed"]
      /\ runtime' = runtime \/ runtime' = [runtime EXCEPT ![Sb(c)] = "none"]
  BY DEF Mock!Destroy
<1>4. Nearby(c)
  BY <1>1, <1>2, <1>3 DEF Nearby, Around, Uses, CallsTyped
<1>5. \A err : \A hit \in BOOLEAN : Mock!Finish(c, err, hit) /\ HostAnswer(c, err, hit) => Hosted(c)
  BY <1>1, <1>4, MockSteps
<1>6. CASE Mock!Finish(c, "not found", FALSE) /\ UNCHANGED <<runtime, table>> /\ table[Sb(c)] = "none"
  BY <1>1, <1>2, <1>5, <1>6 DEF HostAnswer
<1>7. CASE table' = [table EXCEPT ![Sb(c)] = "destroyed"] /\ Mock!Finish(c, "error", TRUE)
  BY <1>1, <1>2, <1>5, <1>7 DEF HostAnswer, Lifecycle, CallsTyped
<1>8. CASE /\ table' = [table EXCEPT ![Sb(c)] = "destroyed"] /\ Mock!SetRuntime(c, "none")
           /\ Mock!Finish(c, "none", Mock!Writing(c))
  <2>1. Writing(c) \in BOOLEAN /\ (Mock!Writing(c) <=> Writing(c))
    BY DEF Mock!Writing, Writing
  <2>2. HostAnswer(c, "none", Writing(c))
    BY <1>1, <1>2, <1>8 DEF HostAnswer, CallsTyped
  <2>3. Mock!Finish(c, "none", Writing(c))
    BY <1>8, <2>1 DEF Mock!Finish
  <2> QED BY <1>5, <2>1, <2>2, <2>3
<1> QED BY <1>6, <1>7, <1>8 DEF Mock!Destroy

LEMMA MockServes == ASSUME CallsInv, NEW c \in Callers, Mock!Goes(c) PROVE Hosted(c)
  BY MockSpawn, MockUses, MockFiles, MockStreams, MockDestroy DEF Mock!Goes

-----------------------------------------------------------------------------
(* Every step keeps the invariant.                                         *)

LEMMA ServicesGo ==
  ASSUME NEW c \in Callers, Docker!Goes(c) \/ Custom!Goes(c) \/ E2B!Goes(c)
  PROVE  ServedByOthers
<1>1. CASE Docker!Goes(c)
  <2> USE DEF Docker!Here, Docker!Provider, Docker!Asks
  <2>1. Docker!Spawn(c) \/ Docker!Destroy(c) \/ Docker!Stream(c) => kind = "docker"
    BY DEF Docker!Spawn, Docker!ensureImage, Docker!ContainerCreate, Docker!ContainerStart, Docker!RemoveUnstarted,
           Docker!MakeWorkspace, Docker!Insert, Docker!Destroy, Docker!Forget, Docker!ContainerStop,
           Docker!ContainerRemove, Docker!Stream, Docker!ExecStream, Docker!Write, Docker!HangSilent,
           Docker!ConnectionBreaks, Docker!EndStream
  <2>2. Docker!getSandbox(c) \/ Docker!rememberSandbox(c) \/ Docker!ListRuntimeSandboxes(c) => kind = "docker"
    BY DEF Docker!getSandbox, Docker!rememberSandbox, Docker!ListRuntimeSandboxes
  <2>3. Docker!Use(c) => kind = "docker"
    BY DEF Docker!Use, Docker!Exec, Docker!WriteFile, Docker!ReadFile, Docker!ListFiles, Docker!DeleteFile,
           Docker!MoveFile, Docker!ChmodFile, Docker!StatFile, Docker!GlobFiles, Docker!Stats, Docker!ConsoleLog,
           Docker!Status, Docker!containerExec
  <2> QED BY <1>1, <2>1, <2>2, <2>3 DEF Docker!Goes, ServedByOthers
<1>2. CASE Custom!Goes(c)
  BY <1>2 DEF Custom!Goes, Custom!Spawn, Custom!Exec, Custom!ExecStream, Custom!ScanLines, Custom!CloseStream,
     Custom!WriteFile, Custom!ReadFile, Custom!ListFiles, Custom!DeleteFile, Custom!MoveFile, Custom!ChmodFile,
     Custom!StatFile, Custom!GlobFiles, Custom!ConsoleLog, Custom!Status, Custom!Destroy, Custom!Plain,
     Custom!Decoded, Custom!Here, Custom!Provider, ServedByOthers
<1>3. CASE E2B!Goes(c)
  BY <1>3 DEF E2B!Goes, E2B!Spawn, E2B!ExecMode, E2B!Exec, E2B!ExecStream, E2B!SendOutput, E2B!WriteFile, E2B!ReadFile,
     E2B!ListFiles, E2B!NotSupported, E2B!ConsoleLog, E2B!Status, E2B!Destroy, E2B!Here, E2B!Provider, ServedByOthers
<1> QED BY <1>1, <1>2, <1>3

LEMMA HostsGo ==
  ASSUME NEW c \in Callers, PRoot!Goes(c) \/ Mock!Goes(c)
  PROVE  OnTheHost
<1>1. CASE PRoot!Goes(c)
  <2> USE DEF PRoot!Here, PRoot!Provider
  <2>1. PRoot!Spawn(c) \/ PRoot!Destroy(c) \/ PRoot!getSandbox(c) \/ PRoot!Exec(c) \/ PRoot!ConsoleLog(c)
        \/ PRoot!Status(c) \/ PRoot!ExecStream(c) \/ PRoot!HangOpen(c) \/ PRoot!ReadStream(c)
        \/ PRoot!CloseStream(c) => kind = "proot"
    BY DEF PRoot!Spawn, PRoot!Destroy, PRoot!Forget, PRoot!RemoveAll, PRoot!getSandbox, PRoot!Exec, PRoot!ConsoleLog,
           PRoot!Status, PRoot!ExecStream, PRoot!HangOpen, PRoot!ReadStream, PRoot!CloseStream
  <2>2. CASE \/ PRoot!WriteFile(c) \/ PRoot!ReadFile(c) \/ PRoot!ListFiles(c) \/ PRoot!DeleteFile(c)
             \/ PRoot!MoveFile(c) \/ PRoot!ChmodFile(c) \/ PRoot!StatFile(c) \/ PRoot!GlobFiles(c)
    BY <2>2 DEF PRoot!WriteFile, PRoot!ReadFile, PRoot!ListFiles, PRoot!DeleteFile, PRoot!MoveFile, PRoot!ChmodFile,
           PRoot!StatFile, PRoot!GlobFiles, PRoot!MkdirAll, PRoot!InDirectory, OnTheHost
  <2> QED BY <1>1, <2>1, <2>2 DEF PRoot!Goes, OnTheHost
<1>2. CASE Mock!Goes(c)
  <2> USE DEF Mock!Here, Mock!Provider
  <2>1. Mock!Spawn(c) \/ Mock!Destroy(c) \/ Mock!getSandbox(c) \/ Mock!Exec(c) \/ Mock!ConsoleLog(c) \/ Mock!Status(c)
        \/ Mock!ExecStream(c) \/ Mock!ReadStream(c) \/ Mock!KilledCommand(c) \/ Mock!CloseStream(c) => kind = "mock"
    BY DEF Mock!Spawn, Mock!MkdirTemp, Mock!MakeWorkspace, Mock!Insert, Mock!Destroy, Mock!getSandbox, Mock!Exec,
           Mock!ConsoleLog, Mock!Status, Mock!ExecStream, Mock!ReadStream, Mock!KilledCommand, Mock!CloseStream
  <2>2. CASE \/ Mock!WriteFile(c) \/ Mock!ReadFile(c) \/ Mock!ListFiles(c) \/ Mock!DeleteFile(c)
             \/ Mock!MoveFile(c) \/ Mock!ChmodFile(c) \/ Mock!StatFile(c) \/ Mock!GlobFiles(c)
    BY <2>2 DEF Mock!WriteFile, Mock!ReadFile, Mock!ListFiles, Mock!DeleteFile, Mock!MoveFile, Mock!ChmodFile,
           Mock!StatFile, Mock!GlobFiles, Mock!MkdirAll, Mock!InDirectory, OnTheHost
  <2> QED BY <1>2, <2>1, <2>2 DEF Mock!Goes, OnTheHost
<1> QED BY <1>1, <1>2

LEMMA GoesKept ==
  ASSUME CallsInv, NEW c \in Callers, Goes(c)
  PROVE  CallsInv'
<1>1. CASE Docker!Goes(c) \/ Custom!Goes(c) \/ E2B!Goes(c)
  <2>1. Served(c)
    BY <1>1, DockerServes, CustomServes, E2BServes
  <2>2. ServedByOthers
    BY <1>1, ServicesGo
  <2> QED BY <2>1, <2>2, ServedTaken, TakenCalls, TakenIssued, TakenUnanswered, ServedGone DEF CallsInv
<1>2. CASE PRoot!Goes(c) \/ Mock!Goes(c)
  <2>1. Hosted(c)
    BY <1>2, PRootServes, MockServes
  <2>2. OnTheHost
    BY <1>2, HostsGo
  <2> QED BY <2>1, <2>2, HostedTaken, TakenCalls, TakenIssued, TakenUnanswered, HostedGone DEF CallsInv
<1> QED BY <1>1, <1>2 DEF Goes

\* The callers' contexts, and the chunks they read, are about nothing else.
LEMMA SameCalls ==
  ASSUME CallsInv, UNCHANGED <<kind, runtime, table, memo>>, call' \in [Callers -> CallRecord],
         \A d \in Callers : /\ call'[d].op = call[d].op /\ call'[d].id = call[d].id
                            /\ call'[d].at = call[d].at /\ call'[d].late = call[d].late
  PROVE  CallsInv'
<1> USE DEF memo
<1>1. CallsTyped'
  BY DEF CallsInv, CallsTyped
<1>2. \A d \in Callers : Sb(d)' = Sb(d)
  BY DEF Sb
<1>3. Issued'
  <2>1. gone' \subseteq spawned'
    BY DEF CallsInv, Issued
  <2>2. UNCHANGED <<kind, spawned, gone>>
    OBVIOUS
  <2>3. ASSUME NEW d \in Callers, call[d].op = "spawn", NEW e \in Callers \ {d} PROVE Sb(e)' # Sb(d)'
    <3>1. Sb(e)' = Sb(e) /\ Sb(d)' = Sb(d)
      BY <1>2
    <3>2. Sb(e) # Sb(d)
      BY <2>3 DEF CallsInv, Issued
    <3> QED BY <3>1, <3>2
  <2>4. \A d \in Callers : call'[d].late = call[d].late /\ call'[d].op = call[d].op /\ call'[d].at = call[d].at
    OBVIOUS
  <2>5. Issued
    BY DEF CallsInv
  <2>6. /\ \A d \in Callers : call[d].op = "spawn" => \A e \in Callers \ {d} : Sb(e)' # Sb(d)'
        /\ \A d \in Callers : Sb(d)' = Sb(d)
    BY <1>2, <2>3
  <2>7. ASSUME NEW d \in Callers
        PROVE  /\ call'[d].op = "none" => Sb(d)' = NoId /\ call'[d].at = ""
               /\ call'[d].op = "list" => Sb(d)' = NoId /\ kind' = "docker"
               /\ call'[d].op \in Uses \cup {"status", "destroy"} => Sb(d)' \in spawned'
               /\ call'[d].op = "spawn" => Sb(d)' \in Ids \ spawned'
               /\ call'[d].late =>
                    /\ call'[d].op \in {"exec", "stream", "file"} /\ call'[d].at \notin {"copy", "hung", "close"}
                    /\ Sb(d)' \in gone'
    BY <2>2, <2>4, <2>5, <2>6 DEF Issued
  <2> QED BY <2>1, <2>4, <2>6, <2>7 DEF Issued
<1>4. Unanswered'
  BY <1>2 DEF CallsInv, Unanswered
<1>5. GoneForGood'
  BY <1>2 DEF CallsInv, GoneForGood, ServedByOthers, Deleted
<1>6. \A id : Removing(id) => Removing(id)'
  BY <1>2 DEF Removing, At
<1>7. \A d \in Callers : InFiles(d)' = InFiles(d) /\ (At(d, "destroy", "remove")' => At(d, "destroy", "remove"))
  BY DEF InFiles, At
<1>8. Forgotten'
  BY <1>2, <1>6, <1>7 DEF CallsInv, Forgotten, OnTheHost
<1> QED BY <1>1, <1>3, <1>4, <1>5, <1>8 DEF CallsInv, FirecrackerApart, AfterDestroy

LEMMA ContextKept ==
  ASSUME CallsInv, NEW c \in Callers, EndContext(c) \/ PRoot!OwnDeadline(c) \/ Read(c)
  PROVE  CallsInv'
<1>1. call \in [Callers -> CallRecord] /\ UNCHANGED <<kind, runtime, table, memo>>
  BY DEF CallsInv, CallsTyped, EndContext, PRoot!OwnDeadline, Read, PRoot!memo, memo
<1>2. CASE UNCHANGED call
  BY <1>1, <1>2, SameCalls
<1>3. CASE call' = [call EXCEPT ![c].reads = FALSE]
  <2>1. call'[c] = [call[c] EXCEPT !.reads = FALSE] /\ call[c] \in CallRecord
    BY <1>1, <1>3
  <2>2. call' \in [Callers -> CallRecord]
    BY <1>1, <1>3, <2>1 DEF CallRecord
  <2> QED BY <1>1, <1>3, <2>1, <2>2, SameCalls DEF CallRecord
<1>4. CASE call' = [call EXCEPT ![c].fill = @ - 1]
  <2>1. call'[c] = [call[c] EXCEPT !.fill = @ - 1] /\ call[c] \in CallRecord
    BY <1>1, <1>4
  <2>2. call' \in [Callers -> CallRecord]
    BY <1>1, <1>4, <2>1 DEF CallRecord
  <2> QED BY <1>1, <1>4, <2>1, <2>2, SameCalls DEF CallRecord
<1> QED BY <1>2, <1>3, <1>4 DEF EndContext, PRoot!OwnDeadline, Read

LEMMA BeginKept ==
  ASSUME CallsInv, NEW c \in Callers, Begin(c)
  PROVE  CallsInv'
<1>1. /\ CallsTyped /\ call[c] = Idle /\ UNCHANGED <<kind, runtime, table, spawned, gone, excused, wrong>>
      /\ spawned \subseteq Ids /\ gone \subseteq spawned
  BY DEF CallsInv, CallsTyped, Issued, Begin, memo
<1>2. PICK op \in Ops, id \in Ids \cup {NoId} :
        /\ CASE op = "spawn" -> id \in Ids /\ Fresh(id)
             [] op = "list" -> id = NoId /\ kind = "docker"
             [] OTHER -> id \in spawned
        /\ call' = [call EXCEPT ![c] = [Idle EXCEPT !.op = op, !.id = id, !.at = "begin",
                                                     !.late = op \in {"exec", "stream", "file"} /\ id \in gone]]
  BY DEF Begin
<1> DEFINE late == op \in {"exec", "stream", "file"} /\ id \in gone
<1> DEFINE q == [Idle EXCEPT !.op = op, !.id = id, !.at = "begin", !.late = late]
<1>0. late \in BOOLEAN /\ op \in Ops /\ id \in Ids \cup {NoId}
  BY <1>2
<1>4. call' = [call EXCEPT ![c] = q]
  BY <1>2
<1> HIDE DEF late
<1>3. q \in CallRecord /\ q.op = op /\ q.id = id /\ q.at = "begin" /\ q.late = late
  <2>1. q = [Idle EXCEPT !.op = op, !.id = id, !.at = "begin", !.late = late]
    OBVIOUS
  <2> HIDE DEF q
  <2> QED BY <1>0, <2>1, IdleTyped DEF CallRecord, Labels
<1> HIDE DEF q
<1>5. /\ call' \in [Callers -> CallRecord] /\ call'[c] = q /\ \A d \in Callers \ {c} : call'[d] = call[d]
      /\ Sb(c)' = id /\ \A d \in Callers \ {c} : Sb(d)' = Sb(d)
  BY <1>1, <1>3, <1>4 DEF CallsTyped, Sb
<1>6. /\ op \in Uses \cup {"spawn", "status", "destroy", "list"} /\ Sb(c) = NoId /\ call[c].op = "none"
      /\ "none" \notin Uses /\ "spawn" \notin Uses /\ "list" \notin Uses
  BY <1>1, IdleFacts DEF Ops, Uses, Sb
<1>7. CallsTyped'
  BY <1>1, <1>5 DEF CallsTyped
<1>8. NoId \notin Ids
  BY ProvidersAssumption
<1>9. Issued'
  <2>1. ASSUME NEW d \in Callers \ {c}, call[d].op = "spawn" PROVE Sb(d) # id
    <3>1. Sb(d) \in Ids \ spawned
      BY <2>1 DEF CallsInv, Issued
    <3> QED BY <1>2, <1>8, <2>1, <3>1 DEF Fresh
  <2>2. op = "spawn" => id \in Ids \ spawned /\ \A d \in Callers \ {c} : Sb(d) # id
    BY <1>2 DEF Fresh
  <2>3. op \in Uses \cup {"status", "destroy"} => id \in spawned
    BY <1>2, <1>6
  <2>4. op = "list" => id = NoId /\ kind = "docker"
    BY <1>2
  <2>5. ASSUME NEW d \in Callers
        PROVE  /\ call'[d].op = "none" => Sb(d)' = NoId /\ call'[d].at = ""
               /\ call'[d].op = "list" => Sb(d)' = NoId /\ kind' = "docker"
               /\ call'[d].op \in Uses \cup {"status", "destroy"} => Sb(d)' \in spawned'
               /\ call'[d].op = "spawn" =>
                    Sb(d)' \in Ids \ spawned' /\ \A e \in Callers \ {d} : Sb(e)' # Sb(d)'
               /\ call'[d].late =>
                    /\ call'[d].op \in {"exec", "stream", "file"} /\ call'[d].at \notin {"copy", "hung", "close"}
                    /\ Sb(d)' \in gone'
    <3>1. CASE d = c
      BY <1>1, <1>3, <1>5, <1>6, <2>2, <2>3, <2>4, <3>1 DEF late
    <3>2. CASE d # c
      BY <1>1, <1>5, <2>1, <3>2 DEF CallsInv, Issued
    <3> QED BY <3>1, <3>2
  <2> QED BY <1>1, <2>5 DEF Issued
<1>10. Unanswered'
  <2>1. op = "spawn" => runtime[id] = "none"
    BY <1>2 DEF Fresh
  <2>2. ASSUME NEW d \in Callers, call'[d].op = "spawn", call'[d].at \in {"begin", "create"}
        PROVE  runtime'[Sb(d)'] = "none"
    <3>1. CASE d = c
      BY <1>1, <1>3, <1>5, <2>1, <2>2, <3>1
    <3>2. CASE d # c
      BY <1>1, <1>5, <2>2, <3>2 DEF CallsInv, Unanswered
    <3> QED BY <3>1, <3>2
  <2>3. ASSUME NEW i \in Ids \ spawned', runtime'[i] # "none", i \notin excused'
        PROVE  \E d \in Callers : Sb(d)' = i /\ call'[d].op = "spawn"
    <3>1. PICK d \in Callers : Sb(d) = i /\ call[d].op = "spawn"
      BY <1>1, <2>3 DEF CallsInv, Unanswered
    <3>2. d # c
      BY <1>6, <3>1
    <3> QED BY <1>5, <3>1, <3>2
  <2> QED BY <2>2, <2>3 DEF Unanswered
<1>11. GoneForGood'
  BY <1>1, <1>3, <1>5 DEF CallsInv, GoneForGood, ServedByOthers, Deleted, Sb
<1>12. Forgotten'
  <2>1. \A i : Removing(i) => Removing(i)'
    BY <1>5, <1>6 DEF Removing, At
  <2>2. ~InFiles(c)' /\ ~At(c, "destroy", "remove")' /\ (call'[c].late => call'[c].at = "begin")
    BY <1>3, <1>5 DEF InFiles, At
  <2>3. \A d \in Callers \ {c} : /\ InFiles(d)' = InFiles(d)
                                 /\ (At(d, "destroy", "remove")' => At(d, "destroy", "remove"))
    BY <1>5 DEF InFiles, At
  <2> QED BY <1>1, <1>5, <2>1, <2>2, <2>3 DEF CallsInv, Forgotten, OnTheHost
<1> QED BY <1>1, <1>7, <1>9, <1>10, <1>11, <1>12 DEF CallsInv, FirecrackerApart, AfterDestroy

LEMMA RestartKept ==
  ASSUME CallsInv, Restart
  PROVE  CallsInv'
<1>1. /\ UNCHANGED <<kind, runtime, spawned, gone, wrong>>
      /\ table' = [id \in Ids |-> "none"] /\ call' = [c \in Callers |-> Idle]
      /\ excused \subseteq excused'
      /\ \A c \in Callers : call[c].op = "spawn" => Sb(c) \in excused'
      /\ kind \in {"proot", "mock"} => spawned \subseteq excused'
  BY DEF Restart
<1>2. CallsTyped' /\ gone \subseteq Ids /\ spawned \subseteq Ids
  BY <1>1, IdleTyped DEF CallsInv, CallsTyped, Issued
<1>3. \A c \in Callers : call'[c] = Idle /\ Sb(c)' = NoId
  BY <1>1, IdleFacts DEF Sb
<1>4. Issued'
  BY <1>1, <1>3, IdleFacts DEF CallsInv, Issued, Uses
<1>5. Unanswered'
  BY <1>1, <1>3, IdleFacts DEF CallsInv, Unanswered
<1>6. GoneForGood'
  BY <1>1, <1>3, IdleFacts DEF CallsInv, GoneForGood, ServedByOthers, Deleted
<1>7. Forgotten'
  BY <1>1, <1>2, <1>3, IdleFacts DEF Forgotten, OnTheHost, At
<1> QED BY <1>1, <1>2, <1>4, <1>5, <1>6, <1>7 DEF CallsInv, FirecrackerApart, AfterDestroy

LEMMA CallsInvInit == CallsInit => CallsInv
<1> SUFFICES ASSUME CallsInit PROVE CallsInv
  OBVIOUS
<1>1. /\ kind \in Kinds /\ runtime = [id \in Ids |-> "none"] /\ table = [id \in Ids |-> "none"]
      /\ call = [c \in Callers |-> Idle] /\ spawned = {} /\ gone = {} /\ wrong = {}
  BY DEF CallsInit
<1>2. CallsTyped /\ \A c \in Callers : call[c] = Idle /\ Sb(c) = NoId
  BY <1>1, IdleTyped, IdleFacts DEF CallsTyped, Sb
<1>3. Issued
  BY <1>1, <1>2, IdleFacts DEF Issued, Uses
<1>4. Unanswered /\ GoneForGood /\ Forgotten
  BY <1>1, <1>2, IdleFacts DEF Unanswered, GoneForGood, Deleted, Forgotten, At
<1> QED BY <1>1, <1>2, <1>3, <1>4 DEF CallsInv, FirecrackerApart, AfterDestroy

LEMMA CallsInvStep == CallsInv /\ [ProvidersNext]_providersVars => CallsInv'
<1> SUFFICES ASSUME CallsInv, [ProvidersNext]_providersVars PROVE CallsInv'
  OBVIOUS
<1>1. CASE Restart
  BY <1>1, RestartKept
<1>2. CASE \E c \in Callers : Begin(c) \/ EndContext(c) \/ PRoot!OwnDeadline(c) \/ Read(c) \/ Goes(c)
  BY <1>2, BeginKept, ContextKept, GoesKept
<1>3. CASE UNCHANGED callVars
  <2>1. UNCHANGED <<kind, runtime, table, memo, call>> /\ call \in [Callers -> CallRecord]
    BY <1>3 DEF callVars, CallsInv, CallsTyped
  <2> QED BY <2>1, SameCalls
<1> QED BY <1>1, <1>2, <1>3 DEF ProvidersNext, Calling, providersVars

LEMMA CallsInvAlways == ProvidersSpec => []CallsInv
<1>1. ProvidersInit => CallsInv
  BY CallsInvInit DEF ProvidersInit
<1> QED BY <1>1, CallsInvStep, PTL DEF ProvidersSpec

\* "Destroy tears down runtime resources": every runtime is of a sandbox that was
\* answered and not yet said to be gone, or is a Spawn's or a Destroy's to see to,
\* or was left by a failure that it is excused for; whatever calls overlap.
THEOREM RuntimesCorrect == ProvidersSpec => []NothingLeft
<1>1. CallsInv => NothingLeft
  <2> SUFFICES ASSUME CallsInv, NEW id \in Ids, runtime[id] # "none", id \notin excused, id \in spawned => id \in gone
               PROVE  \E c \in Callers : Sb(c) = id /\ call[c].op \in {"spawn", "destroy"}
    BY DEF NothingLeft
  <2>1. CASE id \notin spawned
    BY <2>1 DEF CallsInv, Unanswered
  <2>2. CASE id \in gone
    <3>1. OnTheHost
      BY <2>2, ProvidersAssumption DEF CallsInv, CallsTyped, GoneForGood, ServedByOthers, OnTheHost, FirecrackerApart
    <3>2. id \in spawned /\ table[id] # "running"
      BY <2>2, <3>1 DEF CallsInv, Issued, Forgotten
    <3>3. Removing(id)
      BY <3>1, <3>2 DEF CallsInv, Forgotten
    <3> QED BY <3>3 DEF Removing, At
  <2> QED BY <2>1, <2>2
<1> QED BY <1>1, CallsInvAlways, PTL

\* "After destroy, exec and file operations must fail": none that begins when some
\* call has answered that the sandbox is gone succeeds, and the errors of the
\* custom provider, PRoot and the mock say so.
THEOREM GoneCorrect == ProvidersSpec => []AfterDestroy
<1>1. CallsInv => AfterDestroy
  BY DEF CallsInv
<1> QED BY <1>1, CallsInvAlways, PTL

\* With Firecracker in use the providers' behaviours are those of FirecrackerVMs,
\* and with another one its VMs stay as they are.
THEOREM FirecrackerImplemented == ProvidersSpec => Spec
<1>1. ProvidersInit => Init
  BY DEF ProvidersInit
<1>2. [ProvidersNext]_providersVars => [Next]_vars
  BY DEF ProvidersNext, Calling, providersVars
<1> QED BY <1>1, <1>2, PTL DEF ProvidersSpec, Spec

\* Whatever provider is in use, no Firecracker process is lost but by a crash, and
\* what getSnapshot takes for a snapshot comes from one build.
THEOREM VMsCorrect == ProvidersSpec => []ProcessesAccounted /\ []SnapshotWhole
  BY FirecrackerImplemented, ProcessesCorrect, SnapshotCorrect
=============================================================================
