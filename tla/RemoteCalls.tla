----------------------------- MODULE RemoteCalls -----------------------------
(***************************************************************************)
(* One exec, file or log call of the control plane for a sandbox of a      *)
(* remote worker: the manager (internal/orchestrator/manager.go), the RPC  *)
(* client (internal/worker/rpc_client.go) and the worker's handlers        *)
(* (internal/worker/rpc.go).                                               *)
(*                                                                         *)
(* A call is one POST and one answer.  The client waits 30 seconds and     *)
(* reads 1 MiB; the server writes for 30 seconds.  A streamed command goes *)
(* through five buffers, from the provider's channel on the worker to the  *)
(* channel that the manager has handed out, and a goroutine stands between *)
(* each and the next.  Its answer begins with the first line, as nothing   *)
(* is flushed before that.  What a goroutine has in its hands counts as    *)
(* still in the buffer before it.                                          *)
(***************************************************************************)
EXTENDS Integers, SequencesExt

CONSTANTS
  BufferSize, \* capacity of every buffer
  MaxPrinted  \* bound on the chunks that a command prints

ASSUME BuffersAssumption == BufferSize \in Nat \ {0} /\ MaxPrinted \in Nat

\* From the command to the client.
Buffers == {"command", "lines", "chunks", "relayed", "out"}

\* Calls with answers of any length.
Lengthy == {"exec", "read", "list", "glob", "logs"}

VARIABLES
  op,        \* what the call is for
  timeout,   \* "none", "default" or, with the worker told of it, "sent"
  over,      \* what is over: "client", "reader", "deadline", "worker deadline"
  link,      \* the connection to the worker: "up" or "cut"
  handler,   \* the worker's handler: "none", "runs" or "over"
  reply,     \* the answer to a call that is no stream
  told,      \* what the manager has returned
  did,       \* history: what the provider has done: "nothing", "part", "all"
  buffer,    \* the buffers of a stream
  closed,    \* those that are closed, "lines" when the answer ends as it should
  errs,      \* the channel of errors beside the chunks
  printed,   \* the chunks that the command has printed
  concluded, \* history: the provider has closed the channel of its own accord
  received   \* what the client has read

streamVars == <<buffer, closed, errs, printed, concluded, received>>
callVars == <<op, timeout, over, link, handler, reply, told, did, streamVars>>

Note == 0

CallsInit ==
  /\ op = "none" /\ timeout = "none" /\ over = {}
  /\ link = "up" /\ handler = "none" /\ reply = "none" /\ told = "none" /\ did = "nothing"
  /\ buffer = [b \in Buffers |-> <<>>] /\ closed = {} /\ errs = <<>>
  /\ printed = 0 /\ concluded = FALSE /\ received = <<>>

\* The context of the call here, and that of the handler.
OverHere == over \cap {"client", "deadline"} # {}
OverThere == link = "cut" \/ "worker deadline" \in over

Failure == IF "deadline" \in over THEN "timeout" ELSE "failure"

-----------------------------------------------------------------------------
(* The manager's calls.                                                    *)

\* getSandboxAndProvider, remoteWorkerRPCClient and validateExecRequest may
\* refuse a call at once.
CallRemote(o, timeouts) ==
  /\ op = "none"
  /\ op' = o
  /\ \/ /\ timeout' \in timeouts /\ handler' = "runs"
        /\ UNCHANGED told
     \/ told' = "failure" /\ UNCHANGED <<timeout, handler>>
  /\ UNCHANGED <<over, link, reply, did, streamVars>>

Timeouts == {"none", "default", "sent"}

execRemote == CallRemote("exec", Timeouts)
execStreamRemote == CallRemote("stream", Timeouts)
remoteFileWrite == CallRemote("write", {"none"})
remoteFileRead == CallRemote("read", {"none"})
remoteFileList == CallRemote("list", {"none"})
remoteFileDelete == CallRemote("delete", {"none"})
remoteFileMove == CallRemote("move", {"none"})
remoteFileChmod == CallRemote("chmod", {"none"})
remoteFileStat == CallRemote("stat", {"none"})
remoteFileGlob == CallRemote("glob", {"none"})
remoteConsoleLog == CallRemote("logs", {"none"})

-----------------------------------------------------------------------------
(* The worker, for a call that is no stream.                               *)

Answers(a) ==
  /\ handler' = "over"
  /\ reply' = IF link = "up" THEN a ELSE "none"
  /\ UNCHANGED <<op, timeout, over, link, told, streamVars>>

\* An unknown provider or sandbox, or the provider fails and has changed nothing.
HandlerRefuses == handler = "runs" /\ op # "stream" /\ Answers("error") /\ UNCHANGED did

\* The provider fails when the call has taken effect, in whole or in part: Docker
\* asks for the exit code after the command, deletes some files of many, makes the
\* directory that it then cannot move to.
ProviderFails ==
  /\ handler = "runs" /\ op \in {"exec", "write", "delete", "move", "chmod"}
  /\ did' = "part"
  /\ Answers("error")

\* A command that is cut short has run all the same.
handleExec ==
  /\ handler = "runs" /\ op = "exec"
  /\ did' = "all"
  /\ \E a \in IF OverThere THEN {"error"} ELSE {"short", "long"} : Answers(a)

handleFile ==
  /\ handler = "runs" /\ op \notin {"exec", "stream", "logs"}
  /\ did' = "all"
  /\ \E a \in IF op \in Lengthy THEN {"short", "long"} ELSE {"short"} : Answers(a)

handleLogs ==
  /\ handler = "runs" /\ op = "logs"
  /\ did' = "all"
  /\ \E a \in {"short", "long"} : Answers(a)

\* call: an answer longer than 1 MiB is cut there and cannot be decoded.
Return ==
  /\ told = "none" /\ reply # "none"
  /\ told' = IF reply = "short" THEN "success" ELSE Failure
  /\ UNCHANGED <<op, timeout, over, link, handler, reply, did, streamVars>>

\* The context ends, the 30 seconds of the client, or the connection.
GiveUp ==
  /\ told = "none" /\ op \notin {"none", "stream"}
  /\ told' = Failure
  /\ link' = "cut"
  /\ UNCHANGED <<op, timeout, over, handler, reply, did, streamVars>>

-----------------------------------------------------------------------------
(* A stream: the command and the handler of the worker.                    *)

HasRoom(b) == Len(buffer[b]) < BufferSize
Added(b, x) == [buffer EXCEPT ![b] = Append(@, x)]
Moved(from, to) == [buffer EXCEPT ![from] = Tail(@), ![to] = Append(@, Head(buffer[from]))]
Close(b) == closed' = closed \cup {b}

Streaming == handler = "runs" /\ op = "stream"
OfWorker == UNCHANGED <<op, timeout, over, link, reply, told, did, errs, received>>

RefuseStream ==
  /\ Streaming /\ printed = 0 /\ closed = {}
  /\ handler' = "over"
  /\ told' = IF told = "none" /\ link = "up" THEN "failure" ELSE told
  /\ UNCHANGED <<op, timeout, over, link, reply, did, streamVars>>

CommandPrints ==
  /\ Streaming /\ "command" \notin closed /\ printed < MaxPrinted /\ HasRoom("command")
  /\ printed' = printed + 1 /\ buffer' = Added("command", printed')
  /\ OfWorker /\ UNCHANGED <<handler, closed, concluded>>

\* The provider closes its channel: its context is over, or it does so of its own
\* accord.  Then the command has ended, or Docker or the custom provider has lost
\* it (docker.go:391, custom.go:259) and says nothing: no difference can be seen.
CommandEnds ==
  /\ Streaming /\ "command" \notin closed
  /\ \/ concluded' = TRUE
     \/ OverThere /\ UNCHANGED concluded
  /\ Close("command")
  /\ OfWorker /\ UNCHANGED <<handler, buffer, printed>>

\* streamExecChunks.  Errors of a write are ignored, and the channel is read on.
WriteLine ==
  /\ Streaming /\ buffer["command"] # <<>>
  /\ \/ link = "up" /\ HasRoom("lines") /\ buffer' = Moved("command", "lines")
     \/ link = "cut" /\ buffer' = [buffer EXCEPT !["command"] = Tail(@)]
  /\ OfWorker /\ UNCHANGED <<handler, closed, printed, concluded>>

WriteEnd ==
  /\ Streaming /\ "command" \in closed /\ buffer["command"] = <<>>
  /\ IF link = "cut" THEN UNCHANGED <<buffer, closed>>
     ELSE /\ Close("lines")
          /\ IF OverThere THEN HasRoom("lines") /\ buffer' = Added("lines", Note) ELSE UNCHANGED buffer
  /\ handler' = "over"
  /\ OfWorker /\ UNCHANGED <<printed, concluded>>

-----------------------------------------------------------------------------
(* ExecStreamLive.                                                         *)

OfClient == UNCHANGED <<op, timeout, over, link, handler, reply, did, printed, concluded, received>>

\* The header comes with the first line or the end.
OpenStream ==
  /\ op = "stream" /\ told = "none"
  /\ buffer["lines"] # <<>> \/ "lines" \in closed
  /\ told' = "stream"
  /\ OfClient /\ UNCHANGED <<buffer, closed, errs>>

OpenFails ==
  /\ op = "stream" /\ told = "none" /\ (OverHere \/ link = "cut")
  /\ told' = Failure
  /\ OfClient /\ UNCHANGED <<buffer, closed, errs>>

Scanning == told = "stream" /\ "chunks" \notin closed
Fails == errs' = <<Note>> /\ Close("chunks") /\ UNCHANGED <<told, buffer>>

ScanLine ==
  /\ Scanning /\ buffer["lines"] # <<>>
  /\ IF Head(buffer["lines"]) = Note THEN Fails
     ELSE /\ HasRoom("chunks") /\ buffer' = Moved("lines", "chunks")
          /\ UNCHANGED <<told, closed, errs>>
  /\ OfClient

\* Faulty variant of ScanEnds: the scanner's own error is not asked for.
ScanEndsSilently ==
  /\ Scanning /\ (OverHere \/ buffer["lines"] = <<>>)
  /\ OverHere \/ "lines" \in closed \/ link = "cut"
  /\ IF OverHere THEN Fails ELSE Close("chunks") /\ UNCHANGED <<told, buffer, errs>>
  /\ OfClient

\* The answer has come to its end, or stops before it; or the context is over.
ScanEnds ==
  /\ Scanning /\ (OverHere \/ buffer["lines"] = <<>>)
  /\ \/ (OverHere \/ (link = "cut" /\ "lines" \notin closed)) /\ Fails
     \/ "lines" \in closed /\ buffer["lines"] = <<>>
        /\ Close("chunks") /\ UNCHANGED <<told, buffer, errs>>
  /\ OfClient

-----------------------------------------------------------------------------
(* execStreamRemote's goroutine, and the forwarder of ExecStream.          *)

Relaying == told = "stream" /\ "relayed" \notin closed
ChunksDone == "chunks" \in closed /\ buffer["chunks"] = <<>>

Relay ==
  /\ Relaying /\ HasRoom("relayed")
  /\ \/ buffer["chunks"] # <<>> /\ buffer' = Moved("chunks", "relayed") /\ UNCHANGED errs
     \/ ChunksDone /\ errs # <<>> /\ buffer' = Added("relayed", Note) /\ errs' = <<>>
  /\ OfClient /\ UNCHANGED <<told, closed>>

RelayEnds ==
  /\ Relaying
  /\ \/ ChunksDone /\ errs = <<>>
     \/ OverHere /\ (buffer["chunks"] # <<>> \/ ChunksDone)
  /\ Close("relayed")
  /\ OfClient /\ UNCHANGED <<told, buffer, errs>>

Forwarding == told = "stream" /\ "out" \notin closed

\* With a time-out, chunks are dropped once the context is over.
ForwardChunk ==
  /\ Forwarding /\ buffer["relayed"] # <<>>
  /\ \/ HasRoom("out") /\ buffer' = Moved("relayed", "out")
     \/ timeout # "none" /\ OverHere /\ buffer' = [buffer EXCEPT !["relayed"] = Tail(@)]
  /\ OfClient /\ UNCHANGED <<told, closed, errs>>

ForwardEnds ==
  /\ Forwarding /\ "relayed" \in closed /\ buffer["relayed"] = <<>>
  /\ IF "deadline" \in over
       THEN \/ HasRoom("out") /\ buffer' = Added("out", Note)
            \/ "client" \in over /\ UNCHANGED buffer
       ELSE UNCHANGED buffer
  /\ Close("out")
  /\ OfClient /\ UNCHANGED <<told, errs>>

ReadChunk ==
  /\ buffer["out"] # <<>> /\ "reader" \notin over
  /\ received' = Append(received, Head(buffer["out"]))
  /\ buffer' = [buffer EXCEPT !["out"] = Tail(@)]
  /\ UNCHANGED <<op, timeout, over, link, handler, reply, told, did, closed, errs, printed, concluded>>

-----------------------------------------------------------------------------
(* Contexts and the connection.                                            *)

UnderWay == op # "none" /\ (told = "none" \/ (told = "stream" /\ "out" \notin closed))
Ends(what) ==
  /\ over' = over \cup what
  /\ UNCHANGED <<op, timeout, link, handler, reply, told, did, streamVars>>

\* The handler of the HTTP route reads on, that of the WebSocket returns.
ClientLeaves == UnderWay /\ "client" \notin over /\ (Ends({"client"}) \/ Ends({"client", "reader"}))

Deadline == UnderWay /\ timeout # "none" /\ ~OverHere /\ Ends({"deadline"})

WorkerDeadline ==
  handler = "runs" /\ timeout = "sent" /\ "worker deadline" \notin over /\ Ends({"worker deadline"})

\* The server's 30 seconds are over, the worker or the connection is lost, or
\* the client has closed it.  What is on its way may be lost.
CutLink ==
  /\ link = "up" /\ op # "none"
  /\ link' = "cut" /\ reply' = "none"
  /\ \E n \in 0 .. Len(buffer["lines"]) : buffer' = [buffer EXCEPT !["lines"] = SubSeq(@, 1, n)]
  /\ closed' = closed \ {"lines"}
  /\ UNCHANGED <<op, timeout, over, handler, told, did, errs, printed, concluded, received>>

-----------------------------------------------------------------------------
CallsNext ==
  \/ execRemote \/ execStreamRemote \/ remoteConsoleLog
  \/ remoteFileWrite \/ remoteFileRead \/ remoteFileList \/ remoteFileDelete
  \/ remoteFileMove \/ remoteFileChmod \/ remoteFileStat \/ remoteFileGlob
  \/ HandlerRefuses \/ ProviderFails \/ handleExec \/ handleFile \/ handleLogs \/ Return \/ GiveUp
  \/ RefuseStream \/ CommandPrints \/ CommandEnds \/ WriteLine \/ WriteEnd
  \/ OpenStream \/ OpenFails \/ ScanLine \/ ScanEnds
  \/ Relay \/ RelayEnds \/ ForwardChunk \/ ForwardEnds \/ ReadChunk
  \/ ClientLeaves \/ Deadline \/ WorkerDeadline \/ CutLink

-----------------------------------------------------------------------------
(* What a client is told of a call on another host is what the provider    *)
(* there has said: a success has happened, and what is called a failure    *)
(* has not, or not wholly, unless its answer was lost, late or too long or *)
(* the command ran into its time-out; and a stream that is closed has all  *)
(* that the provider passed on until it closed its channel, in order, or a *)
(* note, wherever the time-outs, the connection or the command ended       *)
(* (rpc.go:281 writes on regardless, rpc_client.go:178).                   *)
RemoteAnswersTrue ==
  /\ told = "success" => did = "all"
  /\ told = "failure" /\ did = "all" => link = "cut" \/ reply = "long" \/ "worker deadline" \in over
  /\ "out" \in closed /\ "client" \notin over =>
       LET all == received \o buffer["out"] IN
       \/ Contains(all, Note)
       \/ concluded /\ all = [i \in 1 .. printed |-> i]
=============================================================================
