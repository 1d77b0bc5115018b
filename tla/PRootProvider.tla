---------------------------- MODULE PRootProvider ----------------------------
(***************************************************************************)
(* internal/providers/proot.go.  A sandbox is a directory on the host and  *)
(* an entry in a map that ends with the process; commands are processes of *)
(* the host, killed with their context.  Paths stay inside the directory.  *)
(***************************************************************************)
EXTENDS ProviderCalls

Here(c) == Provider("proot")

\* under the mutex
Spawn(c) ==
  /\ Here(c) /\ At(c, "spawn", "begin")
  /\ IF Cardinality({id \in Ids : table[id] # "none"}) >= MaxSandboxes
       THEN Answer(c, "limit") /\ UNCHANGED <<runtime, table, broken>>
       ELSE \/ SetRuntime(c, "running") /\ SetTable(c, "running") /\ Answer(c, "none") /\ UNCHANGED broken
            \/ Breaks /\ Answer(c, "error") /\ UNCHANGED <<runtime, table>>

getSandbox(c) ==
  /\ Here(c) /\ call[c].op \in Uses /\ call[c].at = "begin"
  /\ IF table[Sb(c)] = "none" THEN Answer(c, "not found") ELSE Step(c, "use")
  /\ UNCHANGED <<runtime, table, broken>>

-----------------------------------------------------------------------------
(* Commands.                                                               *)

\* its own deadline on top of the request's
OwnDeadline(c) ==
  /\ kind = "proot" /\ call[c].op \in {"exec", "stream"} /\ call[c].at \in {"use", "copy", "hung", "close"}
  /\ ctx[c] = "live" /\ ctx' = [ctx EXCEPT ![c] = "own deadline"]
  /\ UNCHANGED <<kind, runtime, table, call, memo, limits>>

\* A command that ends with a status has run; without the directory to bind
\* there is none.
Exec(c) ==
  /\ Here(c) /\ At(c, "exec", "use")
  /\ \/ Succeeds(c) /\ Answer(c, "none")
     \/ Fails(c) /\ Answer(c, Unreachable(c))
  /\ UNCHANGED <<runtime, table>>

\* BuildCommand, the pipes and Start
ExecStream(c) ==
  /\ Here(c) /\ At(c, "stream", "use")
  /\ \/ Succeeds(c) /\ Opened(c)
     \/ Fails(c) /\ Answer(c, "unreachable")
  /\ UNCHANGED <<runtime, table>>

\* The context kills the process that was started.  What that one has started may
\* go on and keep its pipes open.
HangOpen(c) == Here(c) /\ Hang(c)

\* the pipes are at their end, or the context is over when a chunk is sent
ReadStream(c) ==
  /\ Here(c)
  /\ Send(c) \/ ((call[c].left = 0 \/ ctx[c] # "live") /\ StopCopying(c))

\* After the provider's own deadline a note is put into the channel, for
\* which there must be room, unless the request is over too.
CloseStream(c) ==
  /\ Here(c)
  /\ ctx[c] # "own deadline" \/ call[c].fill < Room
  /\ Close(c)

-----------------------------------------------------------------------------
(* Files, in the directory of the entry that getSandbox found.             *)

InDirectory(c) == Here(c) /\ At(c, "file", "use")

FileAnswers(c) ==
  /\ \/ runtime[Sb(c)] # "none" /\ Answer(c, "none")
     \/ Answer(c, "error")
  /\ UNCHANGED <<runtime, table, broken>>

\* MkdirAll makes the sandbox's directory again if it has been removed
MkdirAll(c) ==
  /\ InDirectory(c)
  /\ \/ SetRuntime(c, "running") /\ Step(c, "made") /\ UNCHANGED broken
     \/ Breaks /\ Answer(c, "error") /\ UNCHANGED runtime
  /\ UNCHANGED table

\* what follows it: os.WriteFile or os.Rename
WriteFile(c) == MkdirAll(c) \/ (Here(c) /\ At(c, "file", "made") /\ FileAnswers(c))
MoveFile(c) == MkdirAll(c) \/ (Here(c) /\ At(c, "file", "made") /\ FileAnswers(c))

ReadFile(c) == InDirectory(c) /\ FileAnswers(c)
ListFiles(c) == InDirectory(c) /\ FileAnswers(c)
ChmodFile(c) == InDirectory(c) /\ FileAnswers(c)
StatFile(c) == InDirectory(c) /\ FileAnswers(c)

\* os.RemoveAll of what is not there is no error
DeleteFile(c) ==
  /\ InDirectory(c)
  /\ Answer(c, "none") \/ Answer(c, "error")
  /\ UNCHANGED <<runtime, table, broken>>

\* no match is no error
GlobFiles(c) == InDirectory(c) /\ Answer(c, "none") /\ UNCHANGED <<runtime, table, broken>>

ConsoleLog(c) ==
  /\ Here(c) /\ At(c, "logs", "use")
  /\ Answer(c, "none")
  /\ UNCHANGED <<runtime, table, broken>>

Status(c) ==
  /\ Here(c) /\ At(c, "status", "begin")
  /\ Answer(c, IF table[Sb(c)] = "none" THEN "not found" ELSE "none")
  /\ UNCHANGED <<runtime, table, broken>>

-----------------------------------------------------------------------------
(* Destroy: the map entry, and then the directory without the mutex.       *)

Forget(c) ==
  /\ Here(c) /\ At(c, "destroy", "begin")
  /\ IF table[Sb(c)] = "none"
       THEN Answer(c, "not found") /\ UNCHANGED table
       ELSE SetTable(c, "none") /\ Step(c, "remove")
  /\ UNCHANGED <<runtime, broken>>

\* a directory that cannot be removed is logged
RemoveAll(c) ==
  /\ Here(c) /\ At(c, "destroy", "remove")
  /\ \/ SetRuntime(c, "none") /\ Finish(c, "none", Writing(c)) /\ UNCHANGED broken
     \/ Breaks /\ Finish(c, "none", TRUE) /\ UNCHANGED runtime
  /\ UNCHANGED table

Destroy(c) == Forget(c) \/ RemoveAll(c)

Goes(c) ==
  \/ Spawn(c) \/ getSandbox(c) \/ Exec(c) \/ ExecStream(c) \/ HangOpen(c)
  \/ ReadStream(c) \/ CloseStream(c)
  \/ WriteFile(c) \/ ReadFile(c) \/ ListFiles(c) \/ DeleteFile(c) \/ MoveFile(c) \/ ChmodFile(c)
  \/ StatFile(c) \/ GlobFiles(c) \/ ConsoleLog(c) \/ Status(c) \/ Destroy(c)
=============================================================================
