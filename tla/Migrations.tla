----------------------------- MODULE Migrations -----------------------------
(***************************************************************************)
(* Servers that start on one Postgres database (internal/store/postgres.go *)
(* NewPostgresStore, migrate).  Each goes through the migrations in order: *)
(* it counts the version's row and, when there is none, runs the           *)
(* migration and inserts the row in one transaction.  Nothing is held      *)
(* between the count and the transaction, so two servers may run the same  *)
(* migration: the second one waits for the first to end and then fails, on *)
(* the schema or on the duplicate version.  A server whose store does not  *)
(* open exits and is started again (deploy/stacyvm.service,                *)
(* docker-compose.yml).                                                    *)
(***************************************************************************)
EXTENDS Integers, FiniteSets

CONSTANTS
  Servers,
  LastVersion,   \* the number of migrations
  MaxFailures    \* bound: statements that fail for a reason of their own

ASSUME MigrationsAssumption == LastVersion \in Nat \ {0} /\ MaxFailures \in Nat

VARIABLES
  applied,   \* versions with a row in schema_migrations, committed
  ran,       \* how often each version's SQL was committed
  stage, version,    \* where each server is, and at which version
  failures

migrationVars == <<applied, ran, stage, version, failures>>

Versions == 1 .. LastVersion

MigrationsInit ==
  /\ applied = {}
  /\ ran = [v \in Versions |-> 0]
  /\ stage = [s \in Servers |-> "down"]
  /\ version = [s \in Servers |-> 1]
  /\ failures = 0

-----------------------------------------------------------------------------
Go(s, where) == stage' = [stage EXCEPT ![s] = where]

\* the migration is done: on to the next one, or the store is open
Continue(s) ==
  IF version[s] = LastVersion THEN Go(s, "up") /\ UNCHANGED version
                  ELSE Go(s, "count") /\ version' = [version EXCEPT ![s] = @ + 1]

\* the transaction is rolled back and the server exits
Exit(s) == Go(s, "down") /\ UNCHANGED <<applied, ran, version>>

\* an open transaction that has executed version v holds the locks of its DDL
Locked(v, s) == \E o \in Servers \ {s} : version[o] = v /\ stage[o] \in {"insert", "commit"}

Start(s) ==
  /\ stage[s] = "down"
  /\ Go(s, "count")
  /\ version' = [version EXCEPT ![s] = 1]
  /\ UNCHANGED <<applied, ran, failures>>

Count(s) ==
  /\ stage[s] = "count"
  /\ IF version[s] \in applied THEN Continue(s) ELSE Go(s, "exec") /\ UNCHANGED version
  /\ UNCHANGED <<applied, ran, failures>>

\* IF NOT EXISTS lets the SQL of a version run again; against a transaction
\* that ended while it waited it may fail in the catalog instead
Exec(s) ==
  /\ stage[s] = "exec"
  /\ ~Locked(version[s], s)
  /\ \/ Go(s, "insert") /\ UNCHANGED <<applied, ran, version>>
     \/ version[s] \in applied /\ Exit(s)
  /\ UNCHANGED failures

\* Faulty variant of InsertVersion: ON CONFLICT DO NOTHING
InsertVersionOrNothing(s) ==
  /\ stage[s] = "insert"
  /\ Go(s, "commit")
  /\ UNCHANGED <<applied, ran, version, failures>>

\* Faulty variant of InsertVersion: the transaction is tried again, without a new count
InsertVersionOrRetry(s) ==
  /\ stage[s] = "insert"
  /\ Go(s, IF version[s] \in applied THEN "exec" ELSE "commit")
  /\ UNCHANGED <<applied, ran, version, failures>>

InsertVersion(s) ==
  /\ stage[s] = "insert"
  /\ IF version[s] \in applied THEN Exit(s) ELSE Go(s, "commit") /\ UNCHANGED <<applied, ran, version>>
  /\ UNCHANGED failures

CommitVersion(s) ==
  /\ stage[s] = "commit"
  /\ applied' = applied \cup {version[s]}
  /\ ran' = [ran EXCEPT ![version[s]] = @ + 1]
  /\ Continue(s)
  /\ UNCHANGED failures

\* the commit is done but its answer is lost
CommitUnknown(s) ==
  /\ stage[s] = "commit"
  /\ failures < MaxFailures
  /\ failures' = failures + 1
  /\ applied' = applied \cup {version[s]}
  /\ ran' = [ran EXCEPT ![version[s]] = @ + 1]
  /\ Go(s, "down")
  /\ UNCHANGED version

\* a statement fails, or the server is killed
StatementFails(s) ==
  /\ stage[s] # "down"
  /\ failures < MaxFailures
  /\ failures' = failures + 1
  /\ Exit(s)

MigrationStep(s) == Start(s) \/ Count(s) \/ Exec(s) \/ InsertVersion(s) \/ CommitVersion(s)

MigrationsNext == \E s \in Servers : MigrationStep(s) \/ CommitUnknown(s) \/ StatementFails(s)

MigrationsFairness == \A s \in Servers : WF_migrationVars(MigrationStep(s))

-----------------------------------------------------------------------------
\* The SQL of a version is committed once.
RanOnce == \A v \in Versions : ran[v] = IF v \in applied THEN 1 ELSE 0

(* However the counts of two servers interleave, the SQL of a version is   *)
(* committed once (postgres.go:48-71), and they get in each other's way    *)
(* only a finite number of times: in the end all of them serve (:46-76).   *)
ServersStart == []RanOnce /\ <>[](\A s \in Servers : stage[s] = "up")
=============================================================================
