------------------------------ MODULE SqlTables ------------------------------
(***************************************************************************)
(* What the stores of internal/store rely on: the SQL engines behind       *)
(* database/sql (modernc.org/sqlite, pgx), which are not part of the        *)
(* repository, and internal/store/errors.go, which turns the outcome of a  *)
(* statement into the error a caller of the store sees.                    *)
(*                                                                         *)
(* A database maps a table's name to its rows in the order they were       *)
(* inserted, which stands for created_at and for generated ids (that two   *)
(* rows have the same created_at is left out); a row is a record of the    *)
(* columns that the properties tell apart.  0 is the empty string or a     *)
(* NULL.  The order is an answer's only where the statement asks for one.  *)
(* A statement is atomic: it changes all its rows or, when the result      *)
(* would break a constraint, none.                                         *)
(***************************************************************************)
EXTENDS Integers, SequencesExt

CONSTANT ForeignKeys   \* the engine enforces REFERENCES clauses

-----------------------------------------------------------------------------
(* The schema: a migration maps a schema to the next one.                  *)

\* unique: sets of columns that identify a row; refs: columns that must hold
\* the id of a row of another table
Table(columns, unique, refs) == [columns |-> columns, unique |-> unique, refs |-> refs]

NoTables == [t \in {} |-> Table({}, {}, {})]

\* CREATE TABLE IF NOT EXISTS
CreateTable(schema, t, columns, unique, refs) ==
  [x \in DOMAIN schema \cup {t} |-> IF x \in DOMAIN schema THEN schema[x] ELSE Table(columns, unique, refs)]

AddColumns(schema, t, columns) == [schema EXCEPT ![t].columns = @ \cup columns]

Empty(schema) == [t \in DOMAIN schema |-> <<>>]

Alike(r, s, columns) == \A c \in columns : r[c] = s[c]

UnknownColumn(schema, db, t) == \E r \in ToSet(db[t]) : ~(DOMAIN r \subseteq schema[t].columns)

UniqueBroken(schema, db, t) ==
  \E u \in schema[t].unique : \E i, j \in DOMAIN db[t] :
    i # j /\ Alike(db[t][i], db[t][j], u)

Dangling(schema, db) ==
  \E t \in DOMAIN schema : \E f \in schema[t].refs : \E r \in ToSet(db[t]) :
    \A p \in ToSet(db[f.table]) : p.id # r[f.column]

-----------------------------------------------------------------------------
(* Statements: the database after, the rows affected, the error.           *)

Commit(schema, db, t, rows, n) ==
  LET after == [db EXCEPT ![t] = rows] IN
  IF UnknownColumn(schema, after, t)
  THEN [db |-> db, n |-> 0, err |-> "no such column"]
  ELSE IF UniqueBroken(schema, after, t)
  THEN [db |-> db, n |-> 0, err |-> "unique"]
  ELSE IF ForeignKeys /\ Dangling(schema, after)
  THEN [db |-> db, n |-> 0, err |-> "foreign key"]
  ELSE [db |-> after, n |-> n, err |-> "none"]

InsertInto(schema, db, t, row) == Commit(schema, db, t, Append(db[t], row), 1)

Update(schema, db, t, Where(_), New(_)) ==
  Commit(schema, db, t, [i \in DOMAIN db[t] |-> IF Where(db[t][i]) THEN New(db[t][i]) ELSE db[t][i]],
         Len(SelectSeq(db[t], Where)))

DeleteFrom(schema, db, t, Where(_)) ==
  LET Others(r) == ~Where(r) IN
  Commit(schema, db, t, SelectSeq(db[t], Others), Len(SelectSeq(db[t], Where)))

\* INSERT ... ON CONFLICT(target) DO UPDATE: New of the row that is there
Upsert(schema, db, t, row, target, New(_)) ==
  LET Hit(r) == Alike(r, row, target) IN
  IF \E r \in ToSet(db[t]) : Hit(r) THEN Update(schema, db, t, Hit, New)
                                    ELSE InsertInto(schema, db, t, row)

Select(db, t, Where(_)) == SelectSeq(db[t], Where)

\* rows with the same value stay in the order of their insertion
OrderBy(rows, column) ==
  LET order == CHOOSE p \in [DOMAIN rows -> DOMAIN rows] : \A i, j \in DOMAIN rows : i < j =>
                 \/ rows[p[i]][column] < rows[p[j]][column]
                 \/ rows[p[i]][column] = rows[p[j]][column] /\ p[i] < p[j]
  IN [i \in DOMAIN rows |-> rows[order[i]]]

Limit(rows, n) == SubSeq(rows, 1, IF Len(rows) < n THEN Len(rows) ELSE n)

-----------------------------------------------------------------------------
(* The answer of a store method: the database after, the error, the rows.  *)

Reply(db, err, rows) == [db |-> db, err |-> err, rows |-> rows]

Refused(db, err) == Reply(db, err, <<>>)

NotFoundError(db) == Refused(db, "not found")

ConflictError(db) == Refused(db, "conflict")

\* The texts it looks for are those of a unique constraint; a foreign key's
\* error of Postgres has none of them and SQLite never raises one.
IsConstraintError(o) == o.err = "unique"

Done(o) == Refused(o.db, o.err)

\* err, then RowsAffected() = 0
DoneOrNotFound(o) ==
  IF o.err = "none" /\ o.n = 0 THEN NotFoundError(o.db) ELSE Done(o)

\* Scan of one row: sql.ErrNoRows is "not found"
One(db, rows) == IF rows = <<>> THEN NotFoundError(db) ELSE Reply(db, "none", rows)

Many(db, rows) == Reply(db, "none", rows)
=============================================================================
