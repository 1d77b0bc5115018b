----------------------------- MODULE LeaseStore -----------------------------
(***************************************************************************)
(* The durable lease of one resource (internal/store/sqlite.go and         *)
(* postgres.go: AcquireLease, RenewLease, GetLease, ReleaseLease).         *)
(*                                                                         *)
(* Every call reads the clock, then executes one SQL statement, which is   *)
(* atomic, then, if a row was written, reads the row back with a second    *)
(* statement.  Time passes and other calls run in between.  A statement    *)
(* touches the row of one resource only, so one row is modelled; holder is *)
(* NoHolder while there is none.  All processes read the same clock.       *)
(***************************************************************************)
EXTENDS Integers

CONSTANTS
  Holders,        \* worker identifiers
  NoHolder,       \* no row
  Calls,          \* concurrent store calls
  TTLs,           \* durations that callers ask for
  Horizon,        \* bound: the clock stops here
  MaxGeneration   \* bound: no acquire or renew starts from here on

ASSUME LeaseAssumption ==
  /\ NoHolder \notin Holders
  /\ TTLs \subseteq Nat \ {0}
  /\ Horizon \in Nat
  /\ MaxGeneration \in Nat

VARIABLES
  clock,
  holder, generation, expires,   \* the row
  pc,       \* where each call stands
  who,      \* the holder_id argument of each call
  at,       \* the time each call read on entry
  ttl,      \* the ttl argument of each call
  token,    \* the lease record that each call returned
  current   \* history: no row was deleted since the call's token was read

leaseRow == <<holder, generation, expires>>
call == <<who, at, ttl>>
result == <<token, current>>
leaseVars == <<clock, leaseRow, pc, call, result>>

NoToken == [holder |-> NoHolder, generation |-> 0, expires |-> 0]
Tokens == [holder : Holders, generation : Nat, expires : Nat]

LeaseTypeOK ==
  /\ clock \in Nat
  /\ holder \in Holders \cup {NoHolder}
  /\ generation \in Nat
  /\ expires \in Nat
  /\ pc \in [Calls -> {"idle", "acquire", "renew", "release", "read", "returned"}]
  /\ who \in [Calls -> Holders \cup {NoHolder}]
  /\ at \in [Calls -> Nat]
  /\ ttl \in [Calls -> Nat]
  /\ token \in [Calls -> Tokens \cup {NoToken}]
  /\ current \in [Calls -> BOOLEAN]
  /\ generation = 0 <=> holder = NoHolder

-----------------------------------------------------------------------------
Tick ==
  /\ clock < Horizon
  /\ clock' = clock + 1
  /\ UNCHANGED <<leaseRow, pc, call, result>>

\* Entry of AcquireLease or RenewLease: now := time.Now().
Begin(c, op, h, t) ==
  /\ pc[c] = "idle"
  /\ generation < MaxGeneration
  /\ pc' = [pc EXCEPT ![c] = op]
  /\ who' = [who EXCEPT ![c] = h]
  /\ at' = [at EXCEPT ![c] = clock]
  /\ ttl' = [ttl EXCEPT ![c] = t]
  /\ UNCHANGED <<clock, leaseRow, result>>

BeginRelease(c, h) ==
  /\ pc[c] = "idle"
  /\ pc' = [pc EXCEPT ![c] = "release"]
  /\ who' = [who EXCEPT ![c] = h]
  /\ UNCHANGED <<clock, leaseRow, at, ttl, result>>

\* Faulty variant of CanAcquire: the expiry is compared the other way round.
CanAcquireSwapped(c) == holder = NoHolder \/ expires >= at[c] \/ holder = who[c]

\* The WHERE clause of the upsert.
CanAcquire(c) == holder = NoHolder \/ expires <= at[c] \/ holder = who[c]

\* Faulty variant of AcquireLease: a takeover keeps the generation.
AcquireKeepsGeneration(c) ==
  /\ pc[c] = "acquire"
  /\ IF CanAcquire(c)
       THEN /\ holder' = who[c]
            /\ generation' = IF holder = NoHolder THEN 1 ELSE generation
            /\ expires' = at[c] + ttl[c]
            /\ pc' = [pc EXCEPT ![c] = "read"]
       ELSE pc' = [pc EXCEPT ![c] = "idle"] /\ UNCHANGED leaseRow
  /\ UNCHANGED <<clock, call, result>>

\* A conflict ends the call; otherwise the row is inserted or replaced.
AcquireLease(c) ==
  /\ pc[c] = "acquire"
  /\ IF CanAcquire(c)
       THEN /\ holder' = who[c]
            /\ generation' = generation + 1
            /\ expires' = at[c] + ttl[c]
            /\ pc' = [pc EXCEPT ![c] = "read"]
       ELSE pc' = [pc EXCEPT ![c] = "idle"] /\ UNCHANGED leaseRow
  /\ UNCHANGED <<clock, call, result>>

\* UPDATE ... WHERE holder_id = ? AND expires_at > ?
RenewLease(c) ==
  /\ pc[c] = "renew"
  /\ IF holder = who[c] /\ expires > at[c]
       THEN /\ generation' = generation + 1
            /\ expires' = at[c] + ttl[c]
            /\ pc' = [pc EXCEPT ![c] = "read"]
            /\ UNCHANGED holder
       ELSE pc' = [pc EXCEPT ![c] = "idle"] /\ UNCHANGED leaseRow
  /\ UNCHANGED <<clock, call, result>>

\* The row that AcquireLease or RenewLease returns is read by GetLease, after
\* the statement that wrote it; no row is an error.
GetLease(c) ==
  /\ pc[c] = "read"
  /\ IF holder = NoHolder
       THEN pc' = [pc EXCEPT ![c] = "idle"] /\ UNCHANGED result
       ELSE /\ pc' = [pc EXCEPT ![c] = "returned"]
            /\ token' = [token EXCEPT ![c] = [holder |-> holder,
                                              generation |-> generation,
                                              expires |-> expires]]
            /\ current' = [current EXCEPT ![c] = TRUE]
  /\ UNCHANGED <<clock, leaseRow, call>>

\* DELETE ... WHERE holder_id = ?: the generation is lost with the row.
ReleaseLease(c) ==
  /\ pc[c] = "release"
  /\ IF holder = who[c]
       THEN /\ holder' = NoHolder /\ generation' = 0 /\ expires' = 0
            /\ current' = [d \in Calls |-> FALSE]
       ELSE UNCHANGED <<leaseRow, current>>
  /\ pc' = [pc EXCEPT ![c] = "idle"]
  /\ UNCHANGED <<clock, call, token>>

\* The caller is done with its lease record.
Forget(c) ==
  /\ pc[c] = "returned"
  /\ pc' = [pc EXCEPT ![c] = "idle"]
  /\ token' = [token EXCEPT ![c] = NoToken]
  /\ current' = [current EXCEPT ![c] = FALSE]
  /\ UNCHANGED <<clock, leaseRow, call>>

-----------------------------------------------------------------------------
LeaseInit ==
  /\ clock = 0
  /\ holder = NoHolder /\ generation = 0 /\ expires = 0
  /\ pc = [c \in Calls |-> "idle"]
  /\ who = [c \in Calls |-> NoHolder]
  /\ at = [c \in Calls |-> 0]
  /\ ttl = [c \in Calls |-> 0]
  /\ token = [c \in Calls |-> NoToken]
  /\ current = [c \in Calls |-> FALSE]

Statement(c) ==
  AcquireLease(c) \/ RenewLease(c) \/ GetLease(c) \/ ReleaseLease(c) \/ Forget(c)

LeaseNext ==
  \/ Tick
  \/ \E c \in Calls :
       \/ Statement(c)
       \/ \E h \in Holders :
            \/ BeginRelease(c, h)
            \/ \E t \in TTLs : Begin(c, "acquire", h, t) \/ Begin(c, "renew", h, t)

LeaseSpec == LeaseInit /\ [][LeaseNext]_leaseVars
-----------------------------------------------------------------------------
(* Properties.                                                             *)

\* The lease belongs to the row's holder until it expires, by the clock and not
\* by the time that some call read before.
Owner == IF expires > clock THEN holder ELSE NoHolder

Ownership == INSTANCE LeaseOwnership WITH Nobody <- NoHolder, owner <- Owner

\* "Acquire fails when a different holder owns an unexpired lease", "release
\* succeeds only for the current holder": with calls that act on an old clock
\* reading, ownership never passes directly from one worker to another.
ImplementsOwnership == Ownership!Spec

\* While no row is deleted, the generation orders the owners: two lease
\* records with one generation name the same holder, although AcquireLease and
\* RenewLease read back a row that another call may have replaced.
GenerationFences ==
  \A c, d \in Calls :
    current[c] /\ current[d] /\ token[c].generation = token[d].generation
      => token[c].holder = token[d].holder
=============================================================================
