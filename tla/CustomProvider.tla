--------------------------- MODULE CustomProvider ---------------------------
(***************************************************************************)
(* internal/providers/custom.go: one request for every call, and the       *)
(* status as the error.                                                    *)
(***************************************************************************)
EXTENDS SandboxService

Here(c) == Provider("custom")

customHTTPError(code) == IF code = "404" THEN "not found" ELSE "destroyed"

Failed(c, op) == \E code \in Codes \ {"200"} : Replies(c, op, code, customHTTPError(code))

\* without an identifier in the answer the sandbox is left with the service
Spawn(c) ==
  /\ Here(c)
  /\ \/ Replies(c, "spawn", "200", "none")
     \/ /\ At(c, "spawn", "200") /\ Cut(c)
        /\ Finish(c, "error", TRUE)
        /\ UNCHANGED <<runtime, table, broken>>

Exec(c) ==
  /\ Here(c)
  /\ Replies(c, "exec", "200", "none") \/ (Cut(c) /\ Replies(c, "exec", "200", "error")) \/ Failed(c, "exec")

-----------------------------------------------------------------------------
(* Files: those that decode the answer fail when it is cut off.            *)

Plain(c) == Here(c) /\ (Replies(c, "file", "200", "none") \/ Failed(c, "file"))
Decoded(c) == Plain(c) \/ (Here(c) /\ Cut(c) /\ Replies(c, "file", "200", "error"))

WriteFile(c) == Plain(c)
ReadFile(c) == Plain(c)
ListFiles(c) == Decoded(c)
DeleteFile(c) == Plain(c)
MoveFile(c) == Plain(c)
ChmodFile(c) == Plain(c)
StatFile(c) == Decoded(c)
GlobFiles(c) == Decoded(c)

\* no request at all
ConsoleLog(c) == Here(c) /\ Replies(c, "logs", "begin", "none")

Status(c) ==
  /\ Here(c)
  /\ Replies(c, "status", "200", "none") \/ (Cut(c) /\ Replies(c, "status", "200", "error")) \/ Failed(c, "status")

\* 404 is as good as done
Destroy(c) ==
  /\ Here(c)
  /\ \/ \E code \in {"200", "404"} : Replies(c, "destroy", code, "none")
     \/ Replies(c, "destroy", "410", customHTTPError("410"))

-----------------------------------------------------------------------------
\* the response's body is read as the service writes it
ExecStream(c) ==
  /\ Here(c)
  /\ \/ At(c, "stream", "200") /\ Opened(c) /\ UNCHANGED <<runtime, table, broken>>
     \/ Failed(c, "stream")

\* A line that has been read may wait for room without end; otherwise no more
\* is read when the context is over.
ScanLines(c) ==
  /\ Here(c)
  /\ \/ Send(c)
     \/ call[c].left = 0 /\ StopCopying(c)
     \/ Cut(c) /\ StopCopying(c)

CloseStream(c) == Here(c) /\ Close(c)

Goes(c) ==
  \/ Here(c) /\ doRequest(c)
  \/ Spawn(c) \/ Exec(c) \/ ExecStream(c) \/ ScanLines(c) \/ CloseStream(c)
  \/ WriteFile(c) \/ ReadFile(c) \/ ListFiles(c) \/ DeleteFile(c) \/ MoveFile(c) \/ ChmodFile(c)
  \/ StatFile(c) \/ GlobFiles(c) \/ ConsoleLog(c) \/ Status(c) \/ Destroy(c)
=============================================================================
