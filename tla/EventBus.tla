------------------------------- MODULE EventBus -------------------------------
(***************************************************************************)
(* The event bus of each control-plane replica                             *)
(* (internal/orchestrator/events.go) and the bridge between the replicas   *)
(* through LISTEN and NOTIFY (internal/orchestrator/events_durable.go).    *)
(*                                                                         *)
(* A bridge has one connection.  While its listener waits for              *)
(* notifications, or a hook executes pg_notify, the connection is busy and *)
(* refuses any other use at once.  The listener takes that for a lost      *)
(* connection.  Events are numbered in the order in which they are         *)
(* published, at whichever replica.                                        *)
(***************************************************************************)
EXTENDS Integers, SequencesExt

CONSTANTS
  Replicas,    \* control-plane replicas, each with a bus and a bridge
  HistorySize, \* size of the ring buffer
  Buffer,      \* capacity of a subscriber's channel
  MaxAttempts, \* attempts to reconnect before the listener waits again
  MaxEvents,   \* bound on the events published
  MaxHooks,    \* bound on the hooks under way at a time
  Publishers,  \* replicas at which events are published
  Watched,     \* replicas of which a client may read /events
  MaxFaults    \* bound on the connections that the server closes, and the stops

ASSUME SizesAssumption == HistorySize \in Nat \ {0} /\ Buffer \in Nat \ {0}
ASSUME BoundsAssumption ==
  MaxAttempts \in Nat \ {0} /\ MaxEvents \in Nat /\ MaxHooks \in Nat /\ MaxFaults \in Nat
ASSUME ReplicasAssumption == Publishers \cup Watched \subseteq Replicas

VARIABLES
  published, \* number of events published so far
  log,       \* history: the events of a bus in their order; nextID is its length
  ring,      \* the ring buffer
  open,      \* replicas with a subscriber, one client of /events
  queue,     \* the channel of the subscriber
  last,      \* the last event that the client has been sent
  hooks,     \* events whose hook has not got to the connection
  conn,      \* what the connection is used for
  current,   \* the event that is being sent on it
  old,       \* events that are being sent on a connection given up since
  pending,   \* notifications that the listener has not taken
  listener,  \* where the goroutine of listen is
  inhand,    \* the notification it has taken
  attempt,   \* attempts to reconnect so far
  stopping,  \* replicas whose bridge is being stopped
  faults

bus == <<log, ring, queue>>
client == <<open, last>>
sending == <<hooks, conn, current, old, pending>>
listening == <<listener, inhand, attempt>>
vars == <<published, bus, client, sending, listening, stopping, faults>>

Events == 1 .. MaxEvents
NoEvent == 0
Notification == [source : Replicas, event : Events]
Nothing == <<>>

TypeOK ==
  /\ published \in 0 .. MaxEvents
  /\ log \in [Replicas -> Seq(Events)] /\ ring \in [Replicas -> Seq(Events)]
  /\ queue \in [Replicas -> Seq(Events)]
  /\ last \in [Replicas -> Events \cup {NoEvent}]
  /\ open \subseteq Replicas /\ stopping \subseteq Replicas
  /\ hooks \in [Replicas -> SUBSET Events] /\ old \in [Replicas -> SUBSET Events]
  /\ conn \in [Replicas -> {"free", "waiting", "sending", "closed"}]
  /\ current \in [Replicas -> Events \cup {NoEvent}]
  /\ pending \in [Replicas -> Seq(Notification)]
  /\ inhand \in [Replicas -> Notification \cup {Nothing}]
  /\ listener \in [Replicas -> {"loop", "wait", "deliver", "backoff", "stopped"}]
  /\ attempt \in [Replicas -> 0 .. MaxAttempts]
  /\ faults \in 0 .. MaxFaults

Init ==
  /\ published = 0
  /\ log = [r \in Replicas |-> <<>>] /\ ring = [r \in Replicas |-> <<>>]
  /\ open = {} /\ stopping = {}
  /\ queue = [r \in Replicas |-> <<>>] /\ last = [r \in Replicas |-> NoEvent]
  /\ hooks = [r \in Replicas |-> {}] /\ old = [r \in Replicas |-> {}]
  /\ conn = [r \in Replicas |-> "free"] /\ current = [r \in Replicas |-> NoEvent]
  /\ pending = [r \in Replicas |-> <<>>]
  /\ listener = [r \in Replicas |-> "loop"] /\ inhand = [r \in Replicas |-> Nothing]
  /\ attempt = [r \in Replicas |-> 0]
  /\ faults = 0

-----------------------------------------------------------------------------
(* The bus.  Everything here happens under its mutex.                      *)

\* nextID % historySize, counted from 1.  nextID has been counted up already.
Slot(id) == (id % HistorySize) + 1

\* Faulty variant of Put: a full ring is left as it is.
PutWhileRoom(r, e) ==
  /\ log' = [log EXCEPT ![r] = Append(@, e)]
  /\ ring' = IF Len(ring[r]) < HistorySize THEN [ring EXCEPT ![r] = Append(@, e)] ELSE ring
  /\ queue' = IF r \in open /\ Len(queue[r]) < Buffer
                THEN [queue EXCEPT ![r] = Append(@, e)]
                ELSE queue

\* The event goes into the ring and, if there is room, to the subscriber.
Put(r, e) ==
  /\ log' = [log EXCEPT ![r] = Append(@, e)]
  /\ ring' = IF Len(ring[r]) < HistorySize
               THEN [ring EXCEPT ![r] = Append(@, e)]
               ELSE [ring EXCEPT ![r][Slot(Len(log[r]) + 1)] = e]
  /\ queue' = IF r \in open /\ Len(queue[r]) < Buffer
                THEN [queue EXCEPT ![r] = Append(@, e)]
                ELSE queue

\* A goroutine is started for the hook.
Publish(r) ==
  /\ r \in Publishers /\ published < MaxEvents /\ Cardinality(hooks[r]) < MaxHooks
  /\ published' = published + 1
  /\ Put(r, published')
  /\ hooks' = [hooks EXCEPT ![r] = @ \cup {published'}]
  /\ UNCHANGED <<client, conn, current, old, pending, listening, stopping, faults>>

Subscribe(r) ==
  /\ r \in Watched \ open
  /\ open' = open \cup {r}
  /\ UNCHANGED <<published, bus, last, sending, listening, stopping, faults>>

Receive(r) ==
  /\ r \in open /\ queue[r] # <<>>
  /\ last' = [last EXCEPT ![r] = Head(queue[r])]
  /\ queue' = [queue EXCEPT ![r] = Tail(@)]
  /\ UNCHANGED <<published, log, ring, open, sending, listening, stopping, faults>>

\* The client goes.  What is left in the channel is lost.
Unsubscribe(r) ==
  /\ r \in open
  /\ open' = open \ {r}
  /\ queue' = [queue EXCEPT ![r] = <<>>] /\ last' = [last EXCEPT ![r] = NoEvent]
  /\ UNCHANGED <<published, log, ring, sending, listening, stopping, faults>>

-----------------------------------------------------------------------------
(* The hook: pg_notify.                                                    *)

Notify(r, e) ==
  /\ e \in hooks[r] /\ conn[r] = "free"
  /\ hooks' = [hooks EXCEPT ![r] = @ \ {e}]
  /\ conn' = [conn EXCEPT ![r] = "sending"] /\ current' = [current EXCEPT ![r] = e]
  /\ UNCHANGED <<published, bus, client, old, pending, listening, stopping, faults>>

\* "conn busy" or "conn closed": a line in the log, and the event is lost.
NotifyFails(r, e) ==
  /\ e \in hooks[r] /\ conn[r] # "free"
  /\ hooks' = [hooks EXCEPT ![r] = @ \ {e}]
  /\ UNCHANGED <<published, bus, client, conn, current, old, pending, listening, stopping, faults>>

\* PostgreSQL gives the notification to every session that listens, the
\* sender's own one included.
Broadcast(r, e) ==
  pending' = [q \in Replicas |->
    IF conn[q] = "closed" THEN pending[q] ELSE Append(pending[q], [source |-> r, event |-> e])]

Sent(r) ==
  /\ conn[r] = "sending"
  /\ Broadcast(r, current[r])
  /\ conn' = [conn EXCEPT ![r] = "free"] /\ current' = [current EXCEPT ![r] = NoEvent]
  /\ UNCHANGED <<published, bus, client, hooks, old, listening, stopping, faults>>

\* The same on a connection that the listener has replaced in the meantime.
SentOnOld(r, e) ==
  /\ e \in old[r]
  /\ Broadcast(r, e)
  /\ old' = [old EXCEPT ![r] = @ \ {e}]
  /\ UNCHANGED <<published, bus, client, hooks, conn, current, listening, stopping, faults>>

\* The server closes the connection.  A pg_notify on it fails.
Lose(r) ==
  /\ faults < MaxFaults /\ conn[r] # "closed"
  /\ faults' = faults + 1
  /\ conn' = [conn EXCEPT ![r] = "closed"] /\ current' = [current EXCEPT ![r] = NoEvent]
  /\ UNCHANGED <<published, bus, client, hooks, old, pending, listening, stopping>>

-----------------------------------------------------------------------------
(* listen.                                                                 *)

GoOn(r, label) == listener' = [listener EXCEPT ![r] = label]

Wait(r) ==
  /\ listener[r] = "loop" /\ conn[r] = "free" /\ r \notin stopping
  /\ GoOn(r, "wait")
  /\ conn' = [conn EXCEPT ![r] = "waiting"]
  /\ UNCHANGED <<published, bus, client, hooks, current, old, pending, inhand, attempt, stopping,
                 faults>>

\* A notification may have come in with the answer to a pg_notify: then it is
\* taken without a look at the connection.
Take(r) ==
  /\ listener[r] \in {"loop", "wait"} /\ pending[r] # <<>>
  /\ GoOn(r, "deliver")
  /\ inhand' = [inhand EXCEPT ![r] = Head(pending[r])]
  /\ pending' = [pending EXCEPT ![r] = Tail(@)]
  /\ conn' = [conn EXCEPT ![r] = IF @ = "waiting" THEN "free" ELSE @]
  /\ UNCHANGED <<published, bus, client, hooks, current, old, attempt, stopping, faults>>

\* Faulty variant of Deliver: the bridge's own notifications are not skipped.
DeliverOwn(r) ==
  /\ listener[r] = "deliver"
  /\ GoOn(r, "loop")
  /\ inhand' = [inhand EXCEPT ![r] = Nothing]
  /\ Put(r, inhand[r].event)
  /\ UNCHANGED <<published, client, sending, attempt, stopping, faults>>

\* publishLocal starts no hook.
Deliver(r) ==
  /\ listener[r] = "deliver"
  /\ GoOn(r, "loop")
  /\ inhand' = [inhand EXCEPT ![r] = Nothing]
  /\ IF inhand[r].source = r THEN UNCHANGED bus ELSE Put(r, inhand[r].event)
  /\ UNCHANGED <<published, client, sending, attempt, stopping, faults>>

\* A closed connection, or a pg_notify on it.
WaitFails(r) ==
  /\ r \notin stopping
  /\ \/ listener[r] = "wait" /\ conn[r] = "closed"
     \/ listener[r] = "loop" /\ conn[r] \in {"sending", "closed"}
  /\ GoOn(r, "backoff")
  /\ UNCHANGED <<published, bus, client, sending, inhand, attempt, stopping, faults>>

\* The new connection listens from now on.  The old one is not closed.
Reconnect(r) ==
  /\ listener[r] = "backoff" /\ r \notin stopping
  /\ GoOn(r, "loop")
  /\ conn' = [conn EXCEPT ![r] = "free"] /\ current' = [current EXCEPT ![r] = NoEvent]
  /\ old' = [old EXCEPT ![r] = IF conn[r] = "sending" THEN @ \cup {current[r]} ELSE @]
  /\ pending' = [pending EXCEPT ![r] = <<>>]
  /\ attempt' = [attempt EXCEPT ![r] = 0]
  /\ UNCHANGED <<published, bus, client, hooks, inhand, stopping, faults>>

\* Faulty variant of ReconnectFails: the goroutine ends after the last attempt.
ReconnectGivesUp(r) ==
  /\ listener[r] = "backoff" /\ r \notin stopping
  /\ IF attempt[r] + 1 < MaxAttempts
       THEN attempt' = [attempt EXCEPT ![r] = @ + 1] /\ UNCHANGED listener
       ELSE attempt' = [attempt EXCEPT ![r] = 0] /\ GoOn(r, "stopped")
  /\ UNCHANGED <<published, bus, client, sending, inhand, stopping, faults>>

\* After the last attempt the listener waits on the connection it had.
ReconnectFails(r) ==
  /\ listener[r] = "backoff" /\ r \notin stopping
  /\ IF attempt[r] + 1 < MaxAttempts
       THEN attempt' = [attempt EXCEPT ![r] = @ + 1] /\ UNCHANGED listener
       ELSE attempt' = [attempt EXCEPT ![r] = 0] /\ GoOn(r, "loop")
  /\ UNCHANGED <<published, bus, client, sending, inhand, stopping, faults>>

\* Stop cancels the context of the listener and waits for it.
Stop(r) ==
  /\ r \notin stopping /\ faults < MaxFaults
  /\ faults' = faults + 1
  /\ stopping' = stopping \cup {r}
  /\ UNCHANGED <<published, bus, client, sending, listening>>

\* The listener ends and Stop closes the connection.
Cancelled(r) ==
  /\ r \in stopping /\ listener[r] \in {"loop", "wait", "backoff"}
  /\ GoOn(r, "stopped")
  /\ conn' = [conn EXCEPT ![r] = "closed"] /\ current' = [current EXCEPT ![r] = NoEvent]
  /\ UNCHANGED <<published, bus, client, hooks, old, pending, inhand, attempt, stopping, faults>>

-----------------------------------------------------------------------------
Listener(r) == Wait(r) \/ Take(r) \/ Deliver(r) \/ WaitFails(r) \/ Cancelled(r)

Hook(r) ==
  \/ Sent(r)
  \/ \E e \in Events : Notify(r, e) \/ NotifyFails(r, e) \/ SentOnOld(r, e)

Next ==
  \E r \in Replicas :
    \/ Publish(r) \/ Subscribe(r) \/ Receive(r) \/ Unsubscribe(r)
    \/ Hook(r) \/ Listener(r) \/ Reconnect(r) \/ ReconnectFails(r)
    \/ Lose(r) \/ Stop(r)

Spec == Init /\ [][Next]_vars
-----------------------------------------------------------------------------
(* Properties.                                                             *)

\* "When its own NOTIFY is reflected back by Postgres, the listener skips it":
\* with replaced connections and lost ones, no bus has an event twice, and a
\* client is sent what it is sent once and in the order of its bus.
\* The ring overwrites the second oldest event first, and one slot keeps an old
\* event for a whole round (events.go:96); but for one, it holds the latest.
BusFaithful ==
  \A r \in Replicas :
    LET out == IF last[r] = NoEvent THEN queue[r] ELSE <<last[r]>> \o queue[r] IN
    /\ IsInjective(log[r])
    /\ \A i \in 1 .. Len(out) - 1 :
         \E k, l \in DOMAIN log[r] : k < l /\ log[r][k] = out[i] /\ log[r][l] = out[i + 1]
    /\ \A i \in DOMAIN log[r] :
         i > Len(log[r]) - (HistorySize - 1) => log[r][i] \in Range(ring[r])

\* A bridge that has lost its connection, or thinks so, listens again, and one
\* that is stopped comes to its end.
ListenerRecovers ==
  \A r \in Replicas :
    listener[r] = "backoff" \/ r \in stopping ~>
      IF r \in stopping THEN listener[r] = "stopped" ELSE listener[r] = "wait"
=============================================================================
