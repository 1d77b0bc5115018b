--------------------------- MODULE DockerProvider ---------------------------
(***************************************************************************)
(* internal/providers/docker.go.  The daemon owns the containers; the map  *)
(* only saves a question to it, and is filled from its answers.            *)
(***************************************************************************)
EXTENDS ProviderCalls

Here(c) == Provider("docker")

-----------------------------------------------------------------------------
(* Spawn.                                                                  *)

\* the image is listed or pulled
ensureImage(c) ==
  /\ Here(c) /\ At(c, "spawn", "begin")
  /\ \/ Succeeds(c) /\ Step(c, "create")
     \/ Fails(c) /\ Answer(c, "unreachable")
  /\ UNCHANGED <<runtime, table>>

\* the answer of a request that was carried out may be lost
ContainerCreate(c) ==
  /\ Here(c) /\ At(c, "spawn", "create")
  /\ \/ Succeeds(c) /\ SetRuntime(c, "created") /\ Step(c, "start")
     \/ Fails(c) /\ SetRuntime(c, "created") /\ Finish(c, "unreachable", TRUE)
     \/ Fails(c) /\ Answer(c, "unreachable") /\ UNCHANGED runtime
  /\ UNCHANGED table

ContainerStart(c) ==
  /\ Here(c) /\ At(c, "spawn", "start")
  /\ \/ Succeeds(c) /\ SetRuntime(c, "running") /\ Step(c, "mkdir")
     \/ Fails(c) /\ Step(c, "remove") /\ UNCHANGED runtime
     \/ Succeeds(c) /\ Step(c, "remove") /\ UNCHANGED runtime
  /\ UNCHANGED table

\* The request's own context again: over, it leaves the container.
RemoveUnstarted(c) ==
  /\ Here(c) /\ At(c, "spawn", "remove")
  /\ \/ Succeeds(c) /\ SetRuntime(c, "none") /\ Answer(c, "error")
     \/ Fails(c) /\ UNCHANGED runtime /\ Finish(c, "unreachable", TRUE)
  /\ UNCHANGED table

\* mkdir -p /workspace: its failure is logged
MakeWorkspace(c) ==
  /\ Here(c) /\ At(c, "spawn", "mkdir")
  /\ Succeeds(c) \/ Fails(c)
  /\ Step(c, "insert")
  /\ UNCHANGED <<runtime, table>>

Insert(c) ==
  /\ Here(c) /\ At(c, "spawn", "insert")
  /\ SetTable(c, "running")
  /\ Answer(c, "none")
  /\ UNCHANGED <<runtime, broken>>

Spawn(c) ==
  \/ ensureImage(c) \/ ContainerCreate(c) \/ ContainerStart(c)
  \/ RemoveUnstarted(c) \/ MakeWorkspace(c) \/ Insert(c)

-----------------------------------------------------------------------------
(* getSandbox: the map, or else the daemon, asked without the request's    *)
(* context; what it says is remembered in a step of its own.               *)

getSandbox(c) ==
  /\ Here(c) /\ call[c].op \in Uses /\ call[c].at = "begin"
  /\ \/ table[Sb(c)] # "none" /\ Step(c, "use") /\ UNCHANGED broken
     \/ /\ table[Sb(c)] = "none"
        /\ \/ runtime[Sb(c)] # "none" /\ Step(c, "remember") /\ UNCHANGED broken
           \/ runtime[Sb(c)] = "none" /\ Answer(c, "not found") /\ UNCHANGED broken
           \/ Breaks /\ Answer(c, "unreachable")
  /\ UNCHANGED <<runtime, table>>

rememberSandbox(c) ==
  /\ Here(c) /\ call[c].at = "remember"
  /\ table' = [id \in Ids |-> IF id = Sb(c) \/ id \in call[c].seen THEN "running" ELSE table[id]]
  /\ IF call[c].op = "list" THEN Answer(c, "none") ELSE Step(c, "use")
  /\ UNCHANGED <<runtime, broken>>

ListRuntimeSandboxes(c) ==
  /\ Here(c) /\ At(c, "list", "begin")
  /\ \/ /\ Succeeds(c)
        /\ call' = [call EXCEPT ![c].at = "remember", ![c].seen = {id \in Ids : runtime[id] # "none"}]
        /\ UNCHANGED memo
     \/ Fails(c) /\ Answer(c, "unreachable")
  /\ UNCHANGED <<runtime, table>>

-----------------------------------------------------------------------------
(* Requests about a container.                                             *)

\* an exec needs a container that runs, a copy or a question one that exists
Asks(c, op, label, needed, Then(_)) ==
  /\ Here(c) /\ At(c, op, label)
  /\ \/ Succeeds(c) /\ runtime[Sb(c)] \in needed /\ Then(c)
     \/ Succeeds(c) /\ runtime[Sb(c)] \notin needed /\ Answer(c, "error")
     \/ Fails(c) /\ Answer(c, Unreachable(c))
  /\ UNCHANGED <<runtime, table>>

Running == {"running"}
Existing == {"created", "running", "stopped"}
Done(c) == Answer(c, "none")
\* or the command in the container fails: no such file, mode, permission
DoneOrError(c) == Answer(c, "none") \/ Answer(c, "error")
ToCopy(c) == Step(c, "copy to")
ToInspect(c) == Step(c, "inspect")

\* ContainerExecCreate, Attach and the output, then ContainerExecInspect
Exec(c) ==
  \/ Asks(c, "exec", "use", Running, ToInspect)
  \/ Asks(c, "exec", "inspect", Running, Done)

containerExec(c) == Asks(c, "file", "use", Running, Done)

\* mkdir -p for the parent, of which a failure is logged, and the copy
WriteFile(c) ==
  \/ /\ Here(c) /\ At(c, "file", "use")
     /\ Succeeds(c) \/ Fails(c)
     /\ Step(c, "copy to")
     /\ UNCHANGED <<runtime, table>>
  \/ Asks(c, "file", "copy to", Existing, DoneOrError)

ReadFile(c) == Asks(c, "file", "use", Existing, DoneOrError)

\* a directory that is not there lists as empty
ListFiles(c) == containerExec(c)

\* exec, then its exit code
DeleteFile(c) == Asks(c, "file", "use", Running, DoneOrError)
MoveFile(c) == Asks(c, "file", "use", Running, DoneOrError)
ChmodFile(c) == Asks(c, "file", "use", Running, DoneOrError)

\* the second question, about the mode, may fail
StatFile(c) == Asks(c, "file", "use", Existing, DoneOrError)

GlobFiles(c) == containerExec(c)

Stats(c) == Asks(c, "logs", "use", Existing, DoneOrError)
ConsoleLog(c) == Asks(c, "logs", "use", Existing, Done)

Status(c) ==
  /\ Here(c) /\ At(c, "status", "begin")
  /\ \/ Succeeds(c) /\ Answer(c, IF runtime[Sb(c)] = "none" THEN "not found" ELSE "none")
     \/ Fails(c) /\ Answer(c, "unreachable")
  /\ UNCHANGED <<runtime, table>>

Use(c) ==
  \/ Exec(c) \/ WriteFile(c) \/ ReadFile(c) \/ ListFiles(c) \/ DeleteFile(c) \/ MoveFile(c)
  \/ ChmodFile(c) \/ StatFile(c) \/ GlobFiles(c) \/ Stats(c) \/ ConsoleLog(c) \/ Status(c)

-----------------------------------------------------------------------------
(* Destroy: the map entry, then the container.                             *)

Forget(c) ==
  /\ Here(c) /\ At(c, "destroy", "begin")
  /\ SetTable(c, "none")
  /\ Step(c, "stop")
  /\ UNCHANGED <<runtime, broken>>

ContainerStop(c) ==
  /\ Here(c) /\ At(c, "destroy", "stop")
  /\ \/ Succeeds(c) /\ runtime' = [runtime EXCEPT ![Sb(c)] = IF @ = "none" THEN @ ELSE "stopped"]
     \/ Fails(c) /\ UNCHANGED runtime
  /\ Step(c, "remove")
  /\ UNCHANGED table

\* Faulty variant of ContainerRemove: whatever the error, the container counts as gone.
ContainerRemoveOrGone(c) ==
  /\ Here(c) /\ At(c, "destroy", "remove")
  /\ \/ Succeeds(c) /\ SetRuntime(c, "none")
        /\ Answer(c, IF runtime[Sb(c)] = "none" THEN "not found" ELSE "none")
     \/ Fails(c) /\ Answer(c, "not found") /\ UNCHANGED runtime
  /\ UNCHANGED table

ContainerRemove(c) ==
  /\ Here(c) /\ At(c, "destroy", "remove")
  /\ \/ Succeeds(c) /\ SetRuntime(c, "none")
        /\ Answer(c, IF runtime[Sb(c)] = "none" THEN "not found" ELSE "none")
     \/ Fails(c) /\ Answer(c, "unreachable") /\ UNCHANGED runtime
  /\ UNCHANGED table

Destroy(c) == Forget(c) \/ ContainerStop(c) \/ ContainerRemove(c)

-----------------------------------------------------------------------------
(* ExecStream.  The connection does not end with the context: the          *)
(* goroutine notices it when the command prints.                           *)

ExecStream(c) == Asks(c, "stream", "use", Running, Opened)

\* Faulty variant of Write: the context is not looked at.
WriteBlocks(c) == Here(c) /\ Send(c)

Write(c) ==
  /\ Here(c)
  /\ Send(c) \/ (call[c].left > 0 /\ ctx[c] # "live" /\ StopCopying(c))

\* the command neither prints nor ends
HangSilent(c) == Here(c) /\ Hang(c)

\* StdCopy ends with an error, which is not told
ConnectionBreaks(c) ==
  /\ Here(c)
  /\ At(c, "stream", "copy") \/ At(c, "stream", "hung")
  /\ Breaks
  /\ Step(c, "close")
  /\ UNCHANGED <<runtime, table>>

\* the command is over, by itself or with its container
EndStream(c) ==
  /\ Here(c)
  /\ \/ At(c, "stream", "copy") /\ (call[c].left = 0 \/ runtime[Sb(c)] # "running") /\ StopCopying(c)
     \/ /\ At(c, "stream", "hung") /\ runtime[Sb(c)] # "running"
        /\ Step(c, "close")
        /\ UNCHANGED <<runtime, table, broken>>
     \/ Close(c)

Stream(c) == ExecStream(c) \/ Write(c) \/ HangSilent(c) \/ ConnectionBreaks(c) \/ EndStream(c)

Goes(c) == Spawn(c) \/ getSandbox(c) \/ rememberSandbox(c) \/ ListRuntimeSandboxes(c) \/ Use(c) \/ Destroy(c) \/ Stream(c)
=============================================================================
