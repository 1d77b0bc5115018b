---------------------------- MODULE FirecrackerVMs ----------------------------
(***************************************************************************)
(* Spawn and Destroy of Firecracker VMs, and the base snapshot of their    *)
(* image (internal/providers/firecracker.go).                              *)
(*                                                                         *)
(* A VM is restored from the snapshot, if there is one, or else booted     *)
(* from the image; after a cold boot a goroutine makes the snapshot.  All  *)
(* spawns here are of one image.  snapBuilding keeps two goroutines from   *)
(* building at the same time; nothing keeps the directory of the snapshot  *)
(* as it is while a VM is restored from it.                                *)
(***************************************************************************)
EXTENDS Integers, FiniteSets

CONSTANTS
  Spawns,    \* calls of Spawn, and the VMs they start
  Nobody,    \* no spawn: no builder, no such file
  MaxCrashes \* bound on the crashes of the process

ASSUME SpawnsAssumption == Nobody \notin Spawns
ASSUME CrashesAssumption == MaxCrashes \in Nat

VARIABLES
  pc,       \* of each Spawn
  vms,      \* the map p.vms
  process,  \* Firecracker processes of sandboxes
  temporary,\* Firecracker processes of snapshot builds
  baseline, \* rootfs.ext4 in the snapshot directory: who built it, and whether
            \* its VM has run on it
  vmstate,  \* vmstate.bin: who built it
  memory,   \* memory.bin: who built it
  bpc,      \* the goroutine that a cold boot starts
  builder,  \* the one in snapBuilding
  awaited,  \* the one whose channel a goroutine waits for
  restored, \* the files that a restored VM was given
  orphans,  \* history: processes left behind by a crash
  torn,     \* history: a crash hit a build
  crashes

snapshot == <<baseline, vmstate, memory>>
build == <<bpc, builder, awaited>>
history == <<orphans, torn, crashes>>
vars == <<pc, vms, process, temporary, snapshot, build, restored, history>>

NoFile == [by |-> Nobody, booted |-> FALSE]
Files == [by : Spawns, booted : BOOLEAN] \cup {NoFile}

TypeOK ==
  /\ pc \in [Spawns -> {"idle", "copy", "load", "cold", "boot", "up", "kill", "over"}]
  /\ vms \subseteq Spawns /\ process \subseteq Spawns /\ temporary \subseteq Spawns
  /\ baseline \in Files
  /\ vmstate \in Spawns \cup {Nobody} /\ memory \in Spawns \cup {Nobody}
  /\ bpc \in [Spawns -> {"none", "begin", "wait", "copy", "boot", "create", "save", "end"}]
  /\ builder \in Spawns \cup {Nobody}
  /\ awaited \in [Spawns -> Spawns \cup {Nobody}]
  /\ restored \in [Spawns -> [baseline : Files, vmstate : Spawns \cup {Nobody},
                              memory : Spawns \cup {Nobody}]]
  /\ orphans \subseteq Spawns /\ torn \in BOOLEAN /\ crashes \in 0 .. MaxCrashes

Blank == [baseline |-> NoFile, vmstate |-> Nobody, memory |-> Nobody]

Init ==
  /\ pc = [s \in Spawns |-> "idle"] /\ vms = {} /\ process = {} /\ temporary = {}
  /\ baseline = NoFile /\ vmstate = Nobody /\ memory = Nobody
  /\ bpc = [s \in Spawns |-> "none"] /\ builder = Nobody
  /\ awaited = [s \in Spawns |-> Nobody]
  /\ restored = [s \in Spawns |-> Blank]
  /\ orphans = {} /\ torn = FALSE /\ crashes = 0

-----------------------------------------------------------------------------
(* Spawn.                                                                  *)

Goto(s, label) == pc' = [pc EXCEPT ![s] = label]

\* getSnapshot: the three files are there.
Available == baseline # NoFile /\ vmstate # Nobody /\ memory # Nobody

Spawn(s) ==
  /\ pc[s] = "idle"
  /\ Goto(s, IF Available THEN "copy" ELSE "cold")
  /\ UNCHANGED <<vms, process, temporary, snapshot, build, restored, history>>

\* The image has no root file system and none can be built.
ImageFails(s) ==
  /\ pc[s] = "idle"
  /\ Goto(s, "over")
  /\ UNCHANGED <<vms, process, temporary, snapshot, build, restored, history>>

\* The baseline is copied and a process is started.
CopyBaseline(s) ==
  /\ pc[s] = "copy" /\ baseline # NoFile
  /\ restored' = [restored EXCEPT ![s].baseline = baseline]
  /\ process' = process \cup {s}
  /\ Goto(s, "load")
  /\ UNCHANGED <<vms, temporary, snapshot, build, history>>

\* The baseline is not there (any more), or a step fails: cold boot.
CopyFails(s) ==
  /\ pc[s] = "copy"
  /\ Goto(s, "cold")
  /\ UNCHANGED <<vms, process, temporary, snapshot, build, restored, history>>

\* The snapshot is loaded and the agent answers.
LoadSnapshot(s) ==
  /\ pc[s] = "load" /\ vmstate # Nobody /\ memory # Nobody
  /\ restored' = [restored EXCEPT ![s].vmstate = vmstate, ![s].memory = memory]
  /\ vms' = vms \cup {s}
  /\ Goto(s, "up")
  /\ UNCHANGED <<process, temporary, snapshot, build, history>>

\* cleanup, and cold boot.
LoadFails(s) ==
  /\ pc[s] = "load"
  /\ process' = process \ {s}
  /\ restored' = [restored EXCEPT ![s] = Blank]
  /\ Goto(s, "cold")
  /\ UNCHANGED <<vms, temporary, snapshot, build, history>>

StartProcess(s) ==
  /\ pc[s] = "cold"
  /\ \/ process' = process \cup {s} /\ Goto(s, "boot")
     \/ Goto(s, "over") /\ UNCHANGED process
  /\ UNCHANGED <<vms, temporary, snapshot, build, restored, history>>

\* The VM is configured and started, and its agent answers.
Boot(s) ==
  /\ pc[s] = "boot"
  /\ vms' = vms \cup {s}
  /\ Goto(s, "up")
  /\ bpc' = [bpc EXCEPT ![s] = "begin"]
  /\ UNCHANGED <<process, temporary, snapshot, builder, awaited, restored, history>>

\* Faulty variant of BootFails: the process is left running.
BootFailsLeaks(s) ==
  /\ pc[s] = "boot"
  /\ Goto(s, "over")
  /\ UNCHANGED <<vms, process, temporary, snapshot, build, restored, history>>

\* Every error on the way kills the process and removes the directory.
BootFails(s) ==
  /\ pc[s] = "boot"
  /\ process' = process \ {s}
  /\ Goto(s, "over")
  /\ UNCHANGED <<vms, temporary, snapshot, build, restored, history>>

\* The map entry goes first.  A second Destroy finds none.
Destroy(s) ==
  /\ pc[s] = "up" /\ s \in vms
  /\ vms' = vms \ {s}
  /\ Goto(s, "kill")
  /\ UNCHANGED <<process, temporary, snapshot, build, restored, history>>

Kill(s) ==
  /\ pc[s] = "kill"
  /\ process' = process \ {s}
  /\ Goto(s, "over")
  /\ UNCHANGED <<vms, temporary, snapshot, build, restored, history>>

-----------------------------------------------------------------------------
(* createBaseSnapshot.                                                     *)

Build(s, from, to) == bpc[s] = from /\ bpc' = [bpc EXCEPT ![s] = to]

\* Whoever is building is waited for.  That a snapshot has been finished in the
\* meantime is not looked at.
BuildBegin(s) ==
  /\ \/ /\ builder = Nobody /\ Build(s, "begin", "copy")
        /\ builder' = s /\ UNCHANGED awaited
     \/ /\ builder # Nobody /\ Build(s, "begin", "wait")
        /\ awaited' = [awaited EXCEPT ![s] = builder] /\ UNCHANGED builder
  /\ UNCHANGED <<pc, vms, process, temporary, snapshot, restored, history>>

\* The channel that the goroutine waits for is closed, when its entry is removed.
BuildAwaited(s) ==
  /\ Build(s, "wait", "none")
  /\ builder # awaited[s]
  /\ awaited' = [awaited EXCEPT ![s] = Nobody]
  /\ UNCHANGED <<pc, vms, process, temporary, snapshot, builder, restored, history>>

BuildCopy(s) ==
  /\ Build(s, "copy", "boot")
  /\ baseline' = [by |-> s, booted |-> FALSE]
  /\ UNCHANGED <<pc, vms, process, temporary, vmstate, memory, builder, awaited, restored, history>>

\* The temporary VM runs on the baseline.
BuildBoot(s) ==
  /\ Build(s, "boot", "create")
  /\ temporary' = temporary \cup {s}
  /\ baseline' = [by |-> baseline.by, booted |-> TRUE]
  /\ UNCHANGED <<pc, vms, process, vmstate, memory, builder, awaited, restored, history>>

\* The VM is paused and Firecracker writes vmstate.bin, then memory.bin.
BuildCreate(s) ==
  /\ Build(s, "create", "save")
  /\ vmstate' = s
  /\ UNCHANGED <<pc, vms, process, temporary, baseline, memory, builder, awaited, restored, history>>

BuildSave(s) ==
  /\ Build(s, "save", "end")
  /\ memory' = s
  /\ temporary' = temporary \ {s}
  /\ UNCHANGED <<pc, vms, process, baseline, vmstate, builder, awaited, restored, history>>

\* Faulty variant of BuildFails: the directory is left as it is.
BuildFailsKeeps(s) ==
  /\ bpc[s] \in {"copy", "boot", "create", "save"}
  /\ bpc' = [bpc EXCEPT ![s] = "end"]
  /\ temporary' = temporary \ {s}
  /\ UNCHANGED <<pc, vms, process, snapshot, builder, awaited, restored, history>>

\* Every error kills the temporary VM and removes the directory, with whatever
\* snapshot it held.
BuildFails(s) ==
  /\ bpc[s] \in {"copy", "boot", "create", "save"}
  /\ bpc' = [bpc EXCEPT ![s] = "end"]
  /\ temporary' = temporary \ {s}
  /\ baseline' = NoFile /\ vmstate' = Nobody /\ memory' = Nobody
  /\ UNCHANGED <<pc, vms, process, builder, awaited, restored, history>>

BuildEnd(s) ==
  /\ Build(s, "end", "none")
  /\ builder' = Nobody
  /\ UNCHANGED <<pc, vms, process, temporary, snapshot, awaited, restored, history>>

-----------------------------------------------------------------------------
\* The process ends and is started again.  The map and snapBuilding are lost;
\* the VMs run on, and the files stay.
Crash ==
  /\ crashes < MaxCrashes
  /\ crashes' = crashes + 1
  /\ pc' = [s \in Spawns |-> IF pc[s] = "idle" THEN "idle" ELSE "over"]
  /\ vms' = {}
  /\ orphans' = orphans \cup process \cup temporary
  /\ torn' = (torn \/ builder # Nobody)
  /\ bpc' = [s \in Spawns |-> "none"] /\ builder' = Nobody
  /\ awaited' = [s \in Spawns |-> Nobody]
  /\ UNCHANGED <<process, temporary, snapshot, restored>>

SpawnStep(s) ==
  \/ CopyBaseline(s) \/ CopyFails(s) \/ LoadSnapshot(s) \/ LoadFails(s)
  \/ StartProcess(s) \/ Boot(s) \/ BootFails(s) \/ Kill(s)

BuildStep(s) ==
  \/ BuildBegin(s) \/ BuildAwaited(s) \/ BuildCopy(s) \/ BuildBoot(s)
  \/ BuildCreate(s) \/ BuildSave(s) \/ BuildFails(s) \/ BuildEnd(s)

Next ==
  \/ Crash
  \/ \E s \in Spawns :
       Spawn(s) \/ ImageFails(s) \/ SpawnStep(s) \/ Destroy(s) \/ BuildStep(s)

Spec == Init /\ [][Next]_vars
-----------------------------------------------------------------------------
(* Properties.                                                             *)

\* Every process belongs to a VM in the map, to a Spawn or Destroy on its way,
\* or to the build, whatever step of theirs has failed, but for a crash.
ProcessesAccounted ==
  /\ \A s \in process \ orphans : s \in vms \/ pc[s] \in {"load", "boot", "kill"}
  /\ temporary \ orphans \subseteq {builder}

Whole(b, v, m) == b.booted /\ b.by = v /\ v = m

\* While nobody builds, what getSnapshot takes for a snapshot is one: the three
\* files come from one build that was not ended by an error.
SnapshotWhole ==
  builder = Nobody /\ ~torn /\ Available => Whole(baseline, vmstate, memory)
=============================================================================
