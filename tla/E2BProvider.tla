----------------------------- MODULE E2BProvider -----------------------------
(***************************************************************************)
(* internal/providers/e2b.go.  Statuses are not told apart but for 404 of  *)
(* Status and Destroy, and what cannot be decoded is taken as empty.       *)
(***************************************************************************)
EXTENDS SandboxService

Here(c) == Provider("e2b")

Failed(c, op) == \E code \in Codes \ {"200"} : Replies(c, op, code, "error")

Spawn(c) ==
  /\ Here(c)
  /\ \/ Replies(c, "spawn", "200", "none")
     \/ /\ At(c, "spawn", "200") /\ Cut(c)
        /\ Finish(c, "error", TRUE)
        /\ UNCHANGED <<runtime, table, broken>>

\* before any request: an exec mode that it does not have
ExecMode(c) ==
  /\ Here(c) /\ call[c].op \in {"exec", "stream"}
  /\ Replies(c, call[c].op, "begin", "error")

Exec(c) == Here(c) /\ (Replies(c, "exec", "200", "none") \/ Failed(c, "exec"))

\* Exec, and its output as two chunks at most through a channel of two
ExecStream(c) ==
  /\ Here(c)
  /\ \/ /\ At(c, "stream", "200")
        /\ \E n \in 0 .. Room : call' = [call EXCEPT ![c].at = "copy", ![c].left = n, ![c].late = FALSE]
        /\ UNCHANGED <<runtime, table, memo, broken>>
     \/ Failed(c, "stream")

SendOutput(c) == Here(c) /\ (Send(c) \/ (call[c].left = 0 /\ StopCopying(c)) \/ Close(c))

WriteFile(c) == Here(c) /\ (Replies(c, "file", "200", "none") \/ Failed(c, "file"))
ReadFile(c) == Here(c) /\ (Replies(c, "file", "200", "none") \/ Failed(c, "file"))
ListFiles(c) == Here(c) /\ (Replies(c, "file", "200", "none") \/ Failed(c, "file"))

\* DeleteFile, MoveFile, ChmodFile, StatFile, GlobFiles
NotSupported(c) == Here(c) /\ Replies(c, "file", "begin", "error")

ConsoleLog(c) == Here(c) /\ Replies(c, "logs", "begin", "none")

Status(c) ==
  /\ Here(c)
  /\ \/ Replies(c, "status", "200", "none")
     \/ Replies(c, "status", "404", "destroyed")
     \/ Replies(c, "status", "410", "error")

Destroy(c) ==
  /\ Here(c)
  /\ \/ \E code \in {"200", "404"} : Replies(c, "destroy", code, "none")
     \/ Replies(c, "destroy", "410", "error")

Goes(c) ==
  \/ Here(c) /\ doRequest(c)
  \/ Spawn(c) \/ ExecMode(c) \/ Exec(c) \/ ExecStream(c) \/ SendOutput(c)
  \/ WriteFile(c) \/ ReadFile(c) \/ ListFiles(c) \/ NotSupported(c) \/ ConsoleLog(c)
  \/ Status(c) \/ Destroy(c)
=============================================================================
