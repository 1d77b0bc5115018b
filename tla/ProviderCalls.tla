---------------------------- MODULE ProviderCalls ----------------------------
(***************************************************************************)
(* Calls of the Provider interface (internal/providers/provider.go) that   *)
(* overlap, and what outlives them: the runtimes.  A runtime is a Docker   *)
(* container, the directory of a PRoot or mock sandbox, or a sandbox of a  *)
(* service behind HTTP.  The providers' own modules have a call's steps.   *)
(*                                                                         *)
(* What commands print and files hold is left out: a call's answer is its  *)
(* error.  "not found" is ErrSandboxNotFound, "destroyed" is               *)
(* ErrSandboxDestroyed or a status of that name, "limit" ErrResourceLimit, *)
(* "timeout" ErrExecTimeout; "unreachable" is an error because a context   *)
(* is over or a request failed on its way, "error" any other one.          *)
(***************************************************************************)
EXTENDS Integers, FiniteSets

CONSTANTS
  Kinds,       \* the providers, of which one is in use
  Callers,     \* requests of clients, the reaper, Reconcile
  Ids,         \* identifiers of sandboxes
  MaxCalls,    \* bound on the calls
  MaxBroken,   \* bound on contexts that end, failing steps and restarts
  Room,        \* capacity of a stream's channel, 64 in the code
  MaxChunks,   \* bound on what a streamed command prints
  MaxSandboxes \* of PRoot

VARIABLES
  kind,     \* the provider in use
  runtime,  \* "none", "created", "running" or "stopped"
  table,    \* the provider's map of sandboxes: "none", "running", "destroyed"
  call,     \* what each caller's call has come to
  ctx,      \* the context of the call
  spawned,  \* history: sandboxes that a Spawn has answered
  gone,     \* history: sandboxes that some call has answered to be gone
  excused,  \* history: sandboxes that a failure, a restart or a write hit
  wrong,    \* history: errors of calls begun when the sandbox was gone
  made, broken

memo == <<spawned, gone, excused, wrong>>
limits == <<made, broken>>
callVars == <<kind, runtime, table, call, ctx, memo, limits>>

NoId == 0
Idle == [op |-> "none", id |-> NoId, at |-> "", late |-> FALSE, left |-> 0, fill |-> 0,
         reads |-> TRUE, seen |-> {}]

\* kinds of calls: which file operation it is shows when it gets to the files
Uses == {"exec", "stream", "file", "logs"}
Ops == Uses \cup {"spawn", "status", "destroy", "list"}
Lifecycle == {"not found", "destroyed"}

CallsInit ==
  /\ kind \in Kinds
  /\ runtime = [id \in Ids |-> "none"] /\ table = [id \in Ids |-> "none"]
  /\ call = [c \in Callers |-> Idle] /\ ctx = [c \in Callers |-> "live"]
  /\ spawned = {} /\ gone = {} /\ excused = {} /\ wrong = {}
  /\ made = 0 /\ broken = 0

Sb(c) == call[c].id
At(c, op, label) == call[c].op = op /\ call[c].at = label
SetRuntime(c, state) == runtime' = [runtime EXCEPT ![Sb(c)] = state]
SetTable(c, state) == table' = [table EXCEPT ![Sb(c)] = state]
Provider(k) == kind = k /\ UNCHANGED <<kind, ctx, made>>

\* a step that needs the context and what is behind it
Succeeds(c) == ctx[c] = "live" /\ UNCHANGED broken
Fails(c) ==
  \/ ctx[c] # "live" /\ UNCHANGED broken
  \/ ctx[c] = "live" /\ broken < MaxBroken /\ broken' = broken + 1
Breaks == broken < MaxBroken /\ broken' = broken + 1

-----------------------------------------------------------------------------
(* The callers.                                                            *)

\* random identifiers do not collide
Fresh(id) ==
  /\ id \notin spawned \cup excused /\ runtime[id] = "none"
  /\ \A c \in Callers : Sb(c) # id

Begin(c) ==
  /\ call[c] = Idle /\ made < MaxCalls
  /\ \E op \in Ops, id \in Ids \cup {NoId} :
       /\ CASE op = "spawn" -> id \in Ids /\ Fresh(id)
            [] op = "list" -> id = NoId /\ kind = "docker"
            [] OTHER -> id \in spawned
       /\ call' = [call EXCEPT ![c] = [Idle EXCEPT !.op = op, !.id = id, !.at = "begin",
                                                    !.late = op \in {"exec", "stream", "file"} /\ id \in gone]]
  /\ ctx' = [ctx EXCEPT ![c] = "live"]
  /\ made' = made + 1
  /\ UNCHANGED <<kind, runtime, table, memo, broken>>

\* the client goes, a deadline passes
EndContext(c) ==
  /\ call[c] # Idle /\ ctx[c] \in {"live", "own deadline"}
  /\ Breaks
  /\ \E why \in {"cancelled", "deadline"} : ctx' = [ctx EXCEPT ![c] = why]
  /\ \/ UNCHANGED call
     \/ call[c].at \in {"copy", "hung", "close"} /\ call' = [call EXCEPT ![c].reads = FALSE]
  /\ UNCHANGED <<kind, runtime, table, memo, made>>

\* who asked for a stream takes a chunk
Read(c) ==
  /\ call[c].reads /\ call[c].fill > 0
  /\ call' = [call EXCEPT ![c].fill = @ - 1]
  /\ UNCHANGED <<kind, runtime, table, ctx, memo, limits>>

\* a process that is killed leaves its calls; Docker and the services go on
Restart ==
  /\ Breaks
  /\ table' = [id \in Ids |-> "none"]
  /\ excused' = excused \cup {Sb(c) : c \in {d \in Callers : call[d].op = "spawn"}}
                        \cup (IF kind \in {"proot", "mock"} THEN spawned ELSE {})
  /\ call' = [c \in Callers |-> Idle]
  /\ UNCHANGED <<kind, runtime, ctx, spawned, gone, wrong, made>>

-----------------------------------------------------------------------------
(* How a call goes on.                                                     *)

Step(c, label) == call' = [call EXCEPT ![c].at = label] /\ UNCHANGED memo

\* another call writes to the directory of the sandbox
Writing(c) == \E d \in Callers \ {c} : Sb(d) = Sb(c) /\ call[d].op = "file" /\ call[d].at # "begin"

Finish(c, err, hit) ==
  LET q == call[c] IN
  /\ call' = [call EXCEPT ![c] = Idle]
  /\ spawned' = IF q.op = "spawn" /\ err = "none" THEN spawned \cup {q.id} ELSE spawned
  /\ gone' = IF err \in Lifecycle \/ (q.op = "destroy" /\ err = "none") THEN gone \cup {q.id} ELSE gone
  /\ wrong' = IF q.late /\ err \notin Lifecycle \cup {"unreachable", "timeout"}
                THEN wrong \cup {err} ELSE wrong
  /\ excused' = IF hit THEN excused \cup {q.id} ELSE excused

Answer(c, err) == Finish(c, err, FALSE)

\* the error of a step that fails, with the time-out of an exec apart
Unreachable(c) == IF ctx[c] \in {"deadline", "own deadline"} /\ call[c].op = "exec" THEN "timeout" ELSE "unreachable"

-----------------------------------------------------------------------------
(* A stream: chunks go through a channel of limited capacity.              *)

Opened(c) ==
  /\ \E n \in 0 .. MaxChunks : call' = [call EXCEPT ![c].at = "copy", ![c].left = n, ![c].late = FALSE]
  /\ UNCHANGED memo

Send(c) ==
  /\ At(c, "stream", "copy") /\ call[c].left > 0 /\ call[c].fill < Room
  /\ call' = [call EXCEPT ![c].left = @ - 1, ![c].fill = @ + 1]
  /\ UNCHANGED <<runtime, table, memo, broken>>

\* the goroutine waits for output that does not come
Hang(c) ==
  /\ At(c, "stream", "copy")
  /\ Step(c, "hung")
  /\ UNCHANGED <<runtime, table, broken>>

\* the goroutine stops copying
StopCopying(c) ==
  /\ At(c, "stream", "copy")
  /\ Step(c, "close")
  /\ UNCHANGED <<runtime, table, broken>>

Close(c) == At(c, "stream", "close") /\ Answer(c, "none") /\ UNCHANGED <<runtime, table, broken>>
=============================================================================
