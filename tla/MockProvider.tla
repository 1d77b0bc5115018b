---------------------------- MODULE MockProvider ----------------------------
(***************************************************************************)
(* internal/providers/mock.go: as PRoot, but the entry of a destroyed      *)
(* sandbox stays in the map, and Destroy holds the mutex to its end.       *)
(***************************************************************************)
EXTENDS ProviderCalls

Here(c) == Provider("mock")

MkdirTemp(c) ==
  /\ Here(c) /\ At(c, "spawn", "begin")
  /\ \/ SetRuntime(c, "created") /\ Step(c, "workspace") /\ UNCHANGED broken
     \/ Breaks /\ Answer(c, "error") /\ UNCHANGED runtime
  /\ UNCHANGED table

MakeWorkspace(c) ==
  /\ Here(c) /\ At(c, "spawn", "workspace")
  /\ \/ SetRuntime(c, "running") /\ Step(c, "insert") /\ UNCHANGED broken
     \/ Breaks /\ SetRuntime(c, "none") /\ Answer(c, "error")
  /\ UNCHANGED table

Insert(c) ==
  /\ Here(c) /\ At(c, "spawn", "insert")
  /\ SetTable(c, "running")
  /\ Answer(c, "none")
  /\ UNCHANGED <<runtime, broken>>

Spawn(c) == MkdirTemp(c) \/ MakeWorkspace(c) \/ Insert(c)

getSandbox(c) ==
  /\ Here(c) /\ call[c].op \in Uses /\ call[c].at = "begin"
  /\ CASE table[Sb(c)] = "none" -> Answer(c, "not found")
       [] table[Sb(c)] = "destroyed" -> Answer(c, "destroyed")
       [] OTHER -> Step(c, "use")
  /\ UNCHANGED <<runtime, table, broken>>

\* the process starts in the sandbox's directory
Exec(c) ==
  /\ Here(c) /\ At(c, "exec", "use")
  /\ \/ Succeeds(c) /\ Answer(c, IF runtime[Sb(c)] = "none" THEN "error" ELSE "none")
     \/ Fails(c) /\ Answer(c, Unreachable(c))
  /\ UNCHANGED <<runtime, table>>

ExecStream(c) ==
  /\ Here(c) /\ At(c, "stream", "use")
  /\ \/ Succeeds(c) /\ runtime[Sb(c)] # "none" /\ Opened(c)
     \/ Succeeds(c) /\ runtime[Sb(c)] = "none" /\ Answer(c, "error")
     \/ Fails(c) /\ Answer(c, "unreachable")
  /\ UNCHANGED <<runtime, table>>

\* A chunk waits for room, whatever becomes of the context.  The command is
\* killed with it, and what it has printed by then is sent.
ReadStream(c) == Here(c) /\ (Send(c) \/ (call[c].left = 0 /\ StopCopying(c)))

KilledCommand(c) ==
  /\ Here(c) /\ At(c, "stream", "copy") /\ ctx[c] # "live" /\ call[c].left > 1
  /\ call' = [call EXCEPT ![c].left = 1]
  /\ UNCHANGED <<runtime, table, memo, broken>>

CloseStream(c) == Here(c) /\ Close(c)

-----------------------------------------------------------------------------
InDirectory(c) == Here(c) /\ At(c, "file", "use")

FileAnswers(c) ==
  /\ \/ runtime[Sb(c)] # "none" /\ Answer(c, "none")
     \/ Answer(c, "error")
  /\ UNCHANGED <<runtime, table, broken>>

MkdirAll(c) ==
  /\ InDirectory(c)
  /\ \/ SetRuntime(c, "running") /\ Step(c, "made") /\ UNCHANGED broken
     \/ Breaks /\ Answer(c, "error") /\ UNCHANGED runtime
  /\ UNCHANGED table

WriteFile(c) == MkdirAll(c) \/ (Here(c) /\ At(c, "file", "made") /\ FileAnswers(c))
MoveFile(c) == MkdirAll(c) \/ (Here(c) /\ At(c, "file", "made") /\ FileAnswers(c))

ReadFile(c) == InDirectory(c) /\ FileAnswers(c)
ListFiles(c) == InDirectory(c) /\ FileAnswers(c)
ChmodFile(c) == InDirectory(c) /\ FileAnswers(c)
StatFile(c) == InDirectory(c) /\ FileAnswers(c)

\* os.RemoveAll of what is not there is no error
DeleteFile(c) ==
  /\ InDirectory(c)
  /\ Answer(c, "none") \/ Answer(c, "error")
  /\ UNCHANGED <<runtime, table, broken>>

GlobFiles(c) == InDirectory(c) /\ Answer(c, "none") /\ UNCHANGED <<runtime, table, broken>>

ConsoleLog(c) ==
  /\ Here(c) /\ At(c, "logs", "use")
  /\ Answer(c, "none")
  /\ UNCHANGED <<runtime, table, broken>>

\* the entry that stays answers for the sandbox
Status(c) ==
  /\ Here(c) /\ At(c, "status", "begin")
  /\ Answer(c, CASE table[Sb(c)] = "none" -> "not found"
                 [] table[Sb(c)] = "destroyed" -> "destroyed"
                 [] OTHER -> "none")
  /\ UNCHANGED <<runtime, table, broken>>

\* Faulty variant of Destroy: the entry is left as it is.
DestroyUnmarked(c) ==
  /\ Here(c) /\ At(c, "destroy", "begin")
  /\ IF table[Sb(c)] = "none"
       THEN Answer(c, "not found") /\ UNCHANGED <<runtime, table, broken>>
       ELSE /\ UNCHANGED table
            /\ \/ SetRuntime(c, "none") /\ Finish(c, "none", Writing(c)) /\ UNCHANGED broken
               \/ Breaks /\ Finish(c, "error", TRUE) /\ UNCHANGED runtime

Destroy(c) ==
  /\ Here(c) /\ At(c, "destroy", "begin")
  /\ IF table[Sb(c)] = "none"
       THEN Answer(c, "not found") /\ UNCHANGED <<runtime, table, broken>>
       ELSE /\ SetTable(c, "destroyed")
            /\ \/ SetRuntime(c, "none") /\ Finish(c, "none", Writing(c)) /\ UNCHANGED broken
               \/ Breaks /\ Finish(c, "error", TRUE) /\ UNCHANGED runtime

Goes(c) ==
  \/ Spawn(c) \/ getSandbox(c) \/ Exec(c) \/ ExecStream(c) \/ ReadStream(c) \/ KilledCommand(c)
  \/ CloseStream(c) \/ WriteFile(c) \/ ReadFile(c) \/ ListFiles(c) \/ DeleteFile(c) \/ MoveFile(c)
  \/ ChmodFile(c) \/ StatFile(c) \/ GlobFiles(c) \/ ConsoleLog(c) \/ Status(c) \/ Destroy(c)
=============================================================================
