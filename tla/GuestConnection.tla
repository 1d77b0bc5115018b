---------------------------- MODULE GuestConnection ----------------------------
(***************************************************************************)
(* Commands and files of one Firecracker VM: the manager's calls           *)
(* (internal/orchestrator/manager.go), the provider                        *)
(* (internal/providers/firecracker.go), its one connection to the agent in *)
(* the guest, and the agent (cmd/stacyvm-agent/main.go).                   *)
(*                                                                         *)
(* connMu lets one call at a time write its request and read the answer.   *)
(* An answer is not matched with its request: what is read next is taken   *)
(* for it.  A streamed command holds connMu until its last frame, and has  *)
(* two goroutines on the host: the provider's, from the connection to a    *)
(* channel (ch), and the manager's forwarder, from there to another (out). *)
(*                                                                         *)
(* A chunk in a goroutine's hands counts as still in the channel before    *)
(* it.  Time-outs are set for streams only: sendRequest looks at no        *)
(* context.                                                                *)
(***************************************************************************)
EXTENDS Integers, SequencesExt

CONSTANTS
  Streamers, \* concurrent calls that stream a command's output
  Others,   \* other concurrent calls
  Destroyer, \* the Destroy of the VM
  NoCall,    \* no call; what a call that failed was told
  Room,      \* capacity of ch and of out, and of the connection in frames
  MaxChunks  \* bound on the chunks that a command prints

Calls == Streamers \cup Others
Callers == Calls \cup {Destroyer}

ASSUME CallsAssumption ==
  /\ Streamers \cap Others = {}
  /\ Destroyer \notin Calls /\ NoCall \notin Callers
ASSUME BoundsAssumption == Room \in Nat \ {0} /\ MaxChunks \in Nat

VARIABLES
  known,     \* the provider has the VM in its map
  guest,     \* up, hung (the agent does not come back from a request), off
  lock,      \* holder of connMu
  requests,  \* requests that the agent has not read
  serving,   \* the call whose request the agent handles
  printed,   \* chunks that a command has printed
  frames,    \* frames on their way to the host, from the buffer of the agent on
  class, pc, \* of each call
  timed,     \* streams with a time-out
  expired,   \* those whose time-out has passed
  left,      \* streams whose request context is cancelled
  reading,   \* streams whose handler still reads from out
  ch, out,   \* the channels of a stream
  closed,    \* streams whose out is closed
  got,       \* the call whose answer a call was given
  received,  \* what the handler of a stream has read
  torn,      \* history: the host reads in the middle of a frame
  broken     \* history: the agent died, or an answer was not read to its end

wire == <<requests, serving, printed, frames>>
context == <<timed, expired, left, reading>>
stream == <<ch, out, closed, received>>
history == <<torn, broken>>
vars == <<known, guest, lock, wire, class, pc, context, stream, got, history>>

\* decoded: the result is decoded.  silent: any answer without an error will do.
\* large: silent, and the request does not fit the buffer of the connection.
Classes == {"decoded", "silent", "large", "stream", "shutdown"}

Chunk(c, n) == [call |-> c, kind |-> "chunk", n |-> n]
Final(c) == [call |-> c, kind |-> "done", n |-> 0]
Reply(c) == [call |-> c, kind |-> "reply", n |-> 0]
Garbage == [call |-> NoCall, kind |-> "garbage", n |-> 0]
Note == [call |-> NoCall, kind |-> "note", n |-> 0]

Frame == [call : Callers \cup {NoCall}, n : 0 .. MaxChunks,
          kind : {"chunk", "done", "reply", "garbage", "note"}]

Init ==
  /\ known = TRUE /\ guest = "up" /\ lock = NoCall
  /\ requests = <<>> /\ serving = NoCall /\ frames = <<>>
  /\ printed = [c \in Streamers |-> 0]
  /\ class = [c \in Callers |-> "decoded"] /\ pc = [c \in Callers |-> "idle"]
  /\ timed = {} /\ expired = {} /\ left = {} /\ reading = {}
  /\ ch = [c \in Streamers |-> <<>>] /\ out = [c \in Streamers |-> <<>>]
  /\ closed = {}
  /\ received = [c \in Streamers |-> <<>>]
  /\ got = [c \in Callers |-> NoCall]
  /\ torn = FALSE /\ broken = FALSE

-----------------------------------------------------------------------------
(* The calls of the manager.  One for an unknown VM fails at once.         *)

Start(c, k) ==
  /\ pc[c] = "idle" /\ known
  /\ pc' = [pc EXCEPT ![c] = "lock"]
  /\ class' = [class EXCEPT ![c] = k]
  /\ UNCHANGED <<guest, lock, wire, expired, left, stream, got, history>>

Call(c, k) == Start(c, k) /\ UNCHANGED <<known, timed, reading>>

Exec(c) == Call(c, "decoded")
ReadFile(c) == Call(c, "decoded")
ListFiles(c) == Call(c, "decoded")
StatFile(c) == Call(c, "decoded")
GlobFiles(c) == Call(c, "decoded")
DeleteFile(c) == Call(c, "silent")
MoveFile(c) == Call(c, "silent")
ChmodFile(c) == Call(c, "silent")
WriteFile(c) == Call(c, "large")

ExecStream(c) ==
  /\ Start(c, "stream")
  /\ timed' \in {timed, timed \cup {c}}
  /\ reading' = reading \cup {c}
  /\ UNCHANGED known

\* The map entry goes first: no other call starts, those on their way go on.
Destroy ==
  /\ Start(Destroyer, "shutdown")
  /\ known' = FALSE
  /\ UNCHANGED <<timed, reading>>

-----------------------------------------------------------------------------
(* sendRequest, and the part of the provider's ExecStream before it starts *)
(* its goroutine.                                                          *)

\* Faulty variant of Lock: connMu is not taken.
LockShared(c) ==
  /\ pc[c] = "lock"
  /\ lock' = c
  /\ pc' = [pc EXCEPT ![c] = "send"]
  /\ UNCHANGED <<known, guest, wire, class, context, stream, got, history>>

Lock(c) ==
  /\ pc[c] = "lock" /\ lock = NoCall
  /\ lock' = c
  /\ pc' = [pc EXCEPT ![c] = "send"]
  /\ UNCHANGED <<known, guest, wire, class, context, stream, got, history>>

\* A large request gets through when the agent reads it.
Send(c) ==
  /\ pc[c] = "send" /\ guest # "off"
  /\ class[c] = "large" => serving = NoCall /\ requests = <<>>
  /\ requests' = Append(requests, c)
  /\ pc' = [pc EXCEPT ![c] = "read"]
  /\ UNCHANGED <<known, guest, lock, serving, printed, frames, class, context, stream, got, history>>

Return(c) ==
  /\ lock' = NoCall
  /\ pc' = [pc EXCEPT ![c] = IF c = Destroyer THEN "kill" ELSE "over"]

\* The connection is closed.  A stream fails before it has begun.
SendFails(c) ==
  /\ pc[c] = "send" /\ guest = "off"
  /\ Return(c)
  /\ IF class[c] = "stream"
       THEN /\ closed' = closed \cup {c}
            /\ out' = [out EXCEPT ![c] = IF c \in expired THEN <<Note>> ELSE <<>>]
       ELSE UNCHANGED <<closed, out>>
  /\ UNCHANGED <<known, guest, wire, class, context, ch, received, got, history>>

\* Destroy closes the connection, kills the process and waits for it.
Kill ==
  /\ pc[Destroyer] = "kill"
  /\ guest' = "off"
  /\ requests' = <<>> /\ serving' = NoCall /\ frames' = <<>>
  /\ pc' = [pc EXCEPT ![Destroyer] = "over"]
  /\ UNCHANGED <<known, lock, printed, class, context, stream, got, history>>

-----------------------------------------------------------------------------
(* The agent: one request after the other.                                 *)

ReadRequest ==
  /\ guest = "up" /\ serving = NoCall /\ requests # <<>>
  /\ serving' = Head(requests) /\ requests' = Tail(requests)
  /\ UNCHANGED <<known, guest, lock, printed, frames, class, pc, context, stream, got, history>>

Writable == guest = "up" /\ serving # NoCall /\ Len(frames) < Room

SendChunk(c) ==
  /\ Writable /\ serving = c /\ class[c] = "stream"
  /\ printed[c] < MaxChunks
  /\ printed' = [printed EXCEPT ![c] = @ + 1]
  /\ frames' = Append(frames, Chunk(c, printed[c] + 1))
  /\ UNCHANGED <<known, guest, lock, requests, serving, class, pc, context, stream, got, history>>

\* The two pipes of a command write to one bufio.Writer without a lock: two
\* chunks at a time get mixed up.
SendBoth(c) ==
  /\ Writable /\ serving = c /\ class[c] = "stream"
  /\ printed[c] + 2 <= MaxChunks
  /\ printed' = [printed EXCEPT ![c] = @ + 2]
  /\ frames' = Append(frames, Garbage)
  /\ torn' = TRUE
  /\ UNCHANGED <<known, guest, lock, requests, serving, class, pc, context, stream, got, broken>>

\* The last frame of a stream, or the answer to any other request.
Finish(c) ==
  /\ Writable /\ serving = c /\ class[c] # "shutdown"
  /\ frames' = Append(frames, IF class[c] = "stream" THEN Final(c) ELSE Reply(c))
  /\ serving' = NoCall
  /\ UNCHANGED <<known, guest, lock, requests, printed, class, pc, context, stream, got, history>>

Off == guest' = "off" /\ requests' = <<>> /\ serving' = NoCall

PowerOff ==
  /\ Writable /\ serving = Destroyer
  /\ frames' = Append(frames, Reply(Destroyer))
  /\ Off
  /\ UNCHANGED <<known, lock, printed, class, pc, context, stream, got, history>>

\* The time-out of five minutes kills the process of a command only.  Something
\* that it has left running holds its pipes, and the agent waits for their end;
\* or the file of a request is a named pipe.
Hang ==
  /\ guest = "up" /\ serving \in Calls
  /\ guest' = "hung"
  /\ UNCHANGED <<known, lock, wire, class, pc, context, stream, got, history>>

\* The VM ends by itself.
GuestDies ==
  /\ guest # "off"
  /\ Off
  /\ broken' = TRUE
  /\ UNCHANGED <<known, lock, printed, frames, class, pc, context, stream, got, torn>>

-----------------------------------------------------------------------------
(* Reading the answer.                                                     *)

Reads(c, kind) == pc[c] = "read" /\ frames # <<>> /\ Head(frames).kind = kind

\* sendRequest takes the next frame.  A frame of a stream has no result.
ReadReply(c) ==
  /\ class[c] # "stream"
  /\ Reads(c, "chunk") \/ Reads(c, "done") \/ Reads(c, "reply")
  /\ got' = [got EXCEPT ![c] =
       IF class[c] = "decoded" /\ Head(frames).kind # "reply" THEN NoCall ELSE Head(frames).call]
  /\ frames' = Tail(frames)
  /\ Return(c)
  /\ UNCHANGED <<known, guest, requests, serving, printed, class, context, stream, history>>

\* An answer to another call has no data and is not the last frame: nothing
\* comes of it.
ReadChunk(c) ==
  /\ class[c] = "stream" /\ pc[c] = "read" /\ c \notin expired
  /\ frames # <<>> /\ Head(frames).kind \in {"chunk", "reply"}
  /\ IF Head(frames).kind = "chunk"
       THEN Len(ch[c]) < Room /\ ch' = [ch EXCEPT ![c] = Append(@, Head(frames))]
       ELSE UNCHANGED ch
  /\ frames' = Tail(frames)
  /\ UNCHANGED <<known, guest, lock, requests, serving, printed, class, pc, context, out, closed,
                 received, got, history>>

ReadDone(c) ==
  /\ class[c] = "stream" /\ Reads(c, "done") /\ c \notin expired
  /\ frames' = Tail(frames)
  /\ Return(c)
  /\ UNCHANGED <<known, guest, requests, serving, printed, class, context, stream, got, history>>

\* Faulty variant of Abandon: the mutex is not unlocked on this way out.
AbandonLocked(c) ==
  /\ class[c] = "stream" /\ Reads(c, "chunk") /\ c \in left
  /\ frames' = Tail(frames)
  /\ pc' = [pc EXCEPT ![c] = "over"]
  /\ broken' = TRUE
  /\ UNCHANGED <<known, guest, lock, requests, serving, printed, class, context, stream, got, torn>>

\* The request is cancelled: the goroutine notices with its next chunk, and
\* leaves the rest of the answer on the connection.
Abandon(c) ==
  /\ class[c] = "stream" /\ Reads(c, "chunk") /\ c \in left
  /\ frames' = Tail(frames)
  /\ Return(c)
  /\ broken' = TRUE
  /\ UNCHANGED <<known, guest, requests, serving, printed, class, context, stream, got, torn>>

\* The time-out is the read deadline of the connection: it may hit between two
\* frames or within one.  The provider's own note is dropped when ch is full.
ReadTimesOut(c) ==
  /\ class[c] = "stream" /\ pc[c] = "read" /\ c \in expired
  /\ \/ UNCHANGED <<frames, torn>>
     \/ /\ frames # <<>> \/ serving # NoCall
        /\ frames' = <<Garbage>> \o (IF frames = <<>> THEN <<>> ELSE Tail(frames))
        /\ torn' = TRUE
  /\ ch' = [ch EXCEPT ![c] = IF Len(@) < Room THEN Append(@, Note) ELSE @]
  /\ Return(c)
  /\ broken' = TRUE
  /\ UNCHANGED <<known, guest, requests, serving, printed, class, context, out, closed,
                 received, got>>

\* What is read as a length is too large, and more of it is left; or it is
\* small enough, and the read waits for as many bytes.
ReadGarbage(c) ==
  /\ Reads(c, "garbage") /\ c \notin expired
  /\ frames' \in {frames, Tail(frames)}
  /\ Return(c)
  /\ broken' = TRUE
  /\ UNCHANGED <<known, guest, requests, serving, printed, class, context, stream, got, torn>>

\* The connection is at its end.
ReadFails(c) ==
  /\ pc[c] = "read" /\ guest = "off" /\ frames = <<>> /\ c \notin expired
  /\ Return(c)
  /\ UNCHANGED <<known, guest, wire, class, context, stream, got, history>>

-----------------------------------------------------------------------------
(* The manager's forwarder.                                                *)

\* Faulty variant of Forward: a chunk is dropped when out is full.
ForwardOrDrop(c) ==
  /\ ch[c] # <<>> /\ c \notin closed
  /\ out' = [out EXCEPT ![c] = IF Len(@) < Room THEN Append(@, Head(ch[c])) ELSE @]
  /\ ch' = [ch EXCEPT ![c] = Tail(@)]
  /\ UNCHANGED <<known, guest, lock, wire, class, pc, context, closed, received, got, history>>

Forward(c) ==
  /\ ch[c] # <<>> /\ c \notin closed
  /\ Len(out[c]) < Room
  /\ out' = [out EXCEPT ![c] = Append(@, Head(ch[c]))]
  /\ ch' = [ch EXCEPT ![c] = Tail(@)]
  /\ UNCHANGED <<known, guest, lock, wire, class, pc, context, closed, received, got, history>>

\* With a time-out the send also ends when the context does.  The forwarder of
\* a stream without one looks at no context.
Drop(c) ==
  /\ ch[c] # <<>> /\ c \in timed \cap (expired \cup left)
  /\ ch' = [ch EXCEPT ![c] = Tail(@)]
  /\ UNCHANGED <<known, guest, lock, wire, class, pc, context, out, closed, received, got, history>>

\* Faulty variant of CloseStream: the note of a time-out waits for room only.
CloseStreamWithNote(c) ==
  /\ class[c] = "stream" /\ pc[c] = "over" /\ ch[c] = <<>> /\ c \notin closed
  /\ c \in expired => Len(out[c]) < Room
  /\ out' = IF c \in expired THEN [out EXCEPT ![c] = Append(@, Note)] ELSE out
  /\ closed' = closed \cup {c}
  /\ UNCHANGED <<known, guest, lock, wire, class, pc, context, ch, received, got, history>>

\* ch is closed and empty.  The note of a time-out waits for room, or for the
\* request to be cancelled.
CloseStream(c) ==
  /\ class[c] = "stream" /\ pc[c] = "over" /\ ch[c] = <<>> /\ c \notin closed
  /\ \/ /\ c \in expired /\ Len(out[c]) < Room
        /\ out' = [out EXCEPT ![c] = Append(@, Note)]
     \/ /\ c \in expired => c \in left
        /\ UNCHANGED out
  /\ closed' = closed \cup {c}
  /\ UNCHANGED <<known, guest, lock, wire, class, pc, context, ch, received, got, history>>

-----------------------------------------------------------------------------
(* The client and the clock.                                               *)

Streams == {c \in Streamers : pc[c] # "idle"}

Receive(c) ==
  /\ out[c] # <<>> /\ c \in reading
  /\ received' = [received EXCEPT ![c] = Append(@, Head(out[c]))]
  /\ out' = [out EXCEPT ![c] = Tail(@)]
  /\ UNCHANGED <<known, guest, lock, wire, class, pc, context, ch, closed, got, history>>

\* The handler of the HTTP route reads on, that of the WebSocket returns.
Leave(c) ==
  /\ c \in Streams \ left
  /\ c \in closed => out[c] # <<>>
  /\ left' = left \cup {c}
  /\ reading' \in {reading, reading \ {c}}
  /\ UNCHANGED <<known, guest, lock, wire, class, pc, timed, expired, stream, got, history>>

Deadline(c) ==
  /\ c \in (Streams \cap timed) \ (left \cup expired \cup closed)
  /\ expired' = expired \cup {c}
  /\ UNCHANGED <<known, guest, lock, wire, class, pc, timed, left, reading, stream, got, history>>

-----------------------------------------------------------------------------
Request(c) ==
  \/ Exec(c)
  \/ ReadFile(c) \/ WriteFile(c) \/ ListFiles(c) \/ StatFile(c) \/ GlobFiles(c)
  \/ DeleteFile(c) \/ MoveFile(c) \/ ChmodFile(c)

SendStep(c) == Send(c) \/ SendFails(c)

ReadStep(c) ==
  \/ ReadReply(c) \/ ReadChunk(c) \/ ReadDone(c) \/ Abandon(c)
  \/ ReadTimesOut(c) \/ ReadFails(c)

Agent ==
  \/ ReadRequest \/ PowerOff
  \/ \E c \in Calls : Finish(c)
  \/ \E c \in Streamers : SendChunk(c) \/ SendBoth(c)

Forwarder(c) == Forward(c) \/ Drop(c) \/ CloseStream(c)

Client(c) == Receive(c) \/ Leave(c)

Next ==
  \/ Agent \/ Destroy \/ Kill \/ Hang \/ GuestDies
  \/ \E c \in Callers : Lock(c) \/ SendStep(c) \/ ReadStep(c) \/ ReadGarbage(c)
  \/ \E c \in Others : Request(c)
  \/ \E c \in Streamers : ExecStream(c) \/ Forwarder(c) \/ Client(c) \/ Deadline(c)

Spec == Init /\ [][Next]_vars

\* Go's mutex lets everyone in who waits long enough, and its holder goes on, as
\* does Destroy when it has let go of it.  The agent goes on unless it hangs.  A
\* client reads on or goes away: the server ends a response after two minutes,
\* and a WebSocket when the connection does.
Fairness ==
  /\ WF_vars(Agent) /\ WF_vars(Kill \/ \E c \in Callers : SendStep(c) \/ ReadStep(c))
  /\ \A c \in Callers : SF_vars(Lock(c))
  /\ \A c \in Streamers : WF_vars(Forwarder(c)) /\ WF_vars(Client(c))

FairSpec == Spec /\ Fairness
-----------------------------------------------------------------------------
(* Properties.                                                             *)

TypeOK ==
  /\ known \in BOOLEAN /\ guest \in {"up", "hung", "off"}
  /\ lock \in Callers \cup {NoCall} /\ serving \in Callers \cup {NoCall}
  /\ requests \in Seq(Callers) /\ frames \in Seq(Frame)
  /\ printed \in [Streamers -> 0 .. MaxChunks]
  /\ class \in [Callers -> Classes]
  /\ pc \in [Callers -> {"idle", "lock", "send", "read", "kill", "over"}]
  /\ timed \subseteq Streamers /\ expired \subseteq timed
  /\ left \subseteq Streamers /\ reading \subseteq Streamers /\ closed \subseteq Streamers
  /\ ch \in [Streamers -> Seq(Frame)] /\ out \in [Streamers -> Seq(Frame)]
  /\ received \in [Streamers -> Seq(Frame)]
  /\ got \in [Callers -> Callers \cup {NoCall}]
  /\ torn \in BOOLEAN /\ broken \in BOOLEAN

\* "sendRequest serializes access to the vsock connection and sends a
\* request/response pair" (firecracker.go): a call is given its own answer and
\* the chunks of its own command, as long as every answer is read to its end.
OwnAnswer ==
  ~broken =>
    /\ \A c \in Callers : got[c] \in {c, NoCall}
    /\ \A c \in Streamers : \A i \in DOMAIN received[c] : received[c][i].call \in {c, NoCall}

Drained(c) == c \in closed /\ out[c] = <<>> /\ c \in reading \ left

\* Through two goroutines and two channels, a client that stays to the end has
\* the whole output in order, or is told of the time-out.
OutputOrNote ==
  \A c \in Streams :
    Drained(c) =>
      IF c \in expired
        THEN received[c] # <<>> /\ Last(received[c]) = Note
        ELSE broken \/ received[c] = [i \in 1 .. printed[c] |-> Chunk(c, i)]

\* A large request waits for the agent, and the agent for a reader of the rest
\* of an answer that was not read to its end.  Nothing ends this but the VM.
Jammed ==
  /\ lock # NoCall /\ pc[lock] = "send" /\ class[lock] = "large"
  /\ serving # NoCall /\ Len(frames) = Room

Stuck == guest = "hung" \/ Jammed \/ torn

\* A call has its answer or an error, and a stream is closed.  One without a
\* time-out whose handler no longer reads may stay open: its forwarder waits for
\* ever (manager.go:948).
Settled(c) ==
  /\ pc[c] \in {"idle", "over"}
  /\ c \in Streams => c \in closed \/ c \notin timed \cup reading

\* Every call comes to its end, Destroy above all, whatever becomes of the streams
\* before it; unless the agent hangs, the connection is jammed or the host has
\* lost its place in it.
CallsEnd == []<>(Stuck \/ \A c \in Callers : Settled(c))
=============================================================================
