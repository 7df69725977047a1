-------------------------- MODULE SchemaMigration --------------------------
(***************************************************************************)
(* SearchEngine::open_schema(): every open brings the index file to the    *)
(* current schema, whatever version wrote it.  Several processes may open  *)
(* the same file, each statement outside the backfill's transaction        *)
(* commits on its own, and a process may die between any two of them.      *)
(*                                                                         *)
(* Only what the migration decides on is kept: which columns and index     *)
(* entries has, and for each row its norm and the text norm_rev is the     *)
(* reverse of.                                                             *)
(***************************************************************************)
EXTENDS Naturals

CONSTANTS
  Openers,       \* processes
  Ids, Norms,
  NULL,
  MaxWrites,     \* bound on the rows written by open engines
  MaxCrashes     \* bound on process deaths

Columns == {"raw", "norm_rev"}

ASSUME MigrationAssumption ==
  NULL \notin Norms /\ MaxWrites \in Nat /\ MaxCrashes \in Nat

VARIABLES
  exists,     \* the table entries has been created
  columns,    \* the columns of entries that migrations add
  indexed,    \* idx_entries_norm_rev has been created
  rows,       \* the rows of entries
  pc,         \* where each process is in open_schema
  seen,       \* the rows each process has selected for its backfill
  fresh,      \* the processes whose snapshot is still the last commit
  undone,     \* ghost: some process gave up between ALTER TABLE and its backfill
  writes, crashes

file == <<exists, columns, indexed, rows>>
vars == <<file, pc, seen, fresh, undone, writes, crashes>>

NoRows == [i \in Ids |-> NULL]

Stored == {i \in Ids : rows[i] # NULL}

-----------------------------------------------------------------------------
Goto(o, label) == pc' = [pc EXCEPT ![o] = label]

\* A commit moves the file past every snapshot another process works from.
Commit(o) == fresh' = fresh \cap {o}

open(o) ==
  /\ pc[o] = "closed" /\ Goto(o, "schema")
  /\ UNCHANGED <<file, seen, fresh, undone, writes, crashes>>

\* CREATE TABLE IF NOT EXISTS: a new file gets the current columns at once.
create_schema(o) ==
  /\ pc[o] = "schema" /\ Goto(o, "has_raw")
  /\ IF exists THEN UNCHANGED <<exists, columns, fresh>>
     ELSE exists' = TRUE /\ columns' = Columns /\ Commit(o)
  /\ UNCHANGED <<indexed, rows, seen, undone, writes, crashes>>

\* PRAGMA table_info: the answer is acted on by a later statement.
entries_has_column(o, column, add, next) ==
  /\ Goto(o, IF column \in columns THEN next ELSE add)
  /\ UNCHANGED <<file, seen, fresh, undone, writes, crashes>>

has_raw(o) ==
  pc[o] = "has_raw" /\ entries_has_column(o, "raw", "add_raw", "has_norm_rev")

\* Mutant: asks for the wrong column.
has_norm_rev_asks_raw(o) ==
  pc[o] = "has_norm_rev" /\ entries_has_column(o, "raw", "add_norm_rev", "index")

has_norm_rev(o) ==
  pc[o] = "has_norm_rev" /\ entries_has_column(o, "norm_rev", "add_norm_rev", "index")

\* ALTER TABLE ADD COLUMN; SQLite refuses a column that is already there, and
\* the open fails.
add_column(o, column, next) ==
  /\ IF column \in columns THEN Goto(o, "closed") /\ UNCHANGED <<columns, fresh>>
     ELSE columns' = columns \cup {column} /\ Commit(o) /\ Goto(o, next)
  /\ UNCHANGED <<exists, indexed, rows, seen, undone, writes, crashes>>

add_raw(o) == pc[o] = "add_raw" /\ add_column(o, "raw", "has_norm_rev")

add_norm_rev(o) == pc[o] = "add_norm_rev" /\ add_column(o, "norm_rev", "select")

\* backfill_norm_rev(): the SELECT fixes the transaction's snapshot ...
select_rows(o) ==
  /\ pc[o] = "select" /\ Goto(o, "update")
  /\ seen' = [seen EXCEPT ![o] = rows] /\ fresh' = fresh \cup {o}
  /\ UNCHANGED <<file, undone, writes, crashes>>

\* UPDATE entries SET norm_rev WHERE id, for every row selected.
Backfilled(selected) ==
  [i \in Ids |-> IF selected[i] # NULL /\ rows[i] # NULL
                 THEN [rows[i] EXCEPT !.rev = selected[i].norm] ELSE rows[i]]

\* Mutant: a backfill outside a transaction, which updates whatever rows the
\* file holds by then.
update_rows_unchecked(o) ==
  /\ pc[o] = "update" /\ Goto(o, "index")
  /\ rows' = Backfilled(seen[o]) /\ Commit(o)
  /\ seen' = [seen EXCEPT ![o] = NoRows]
  /\ UNCHANGED <<exists, columns, indexed, undone, writes, crashes>>

\* Mutant: the column is added and never backfilled.
update_rows_none(o) ==
  /\ pc[o] = "update" /\ Goto(o, "index")
  /\ seen' = [seen EXCEPT ![o] = NoRows]
  /\ UNCHANGED <<file, fresh, undone, writes, crashes>>

\* ... which SQLite refuses to write from once another connection has
\* committed to the file: the backfill is rolled back and the open fails.  A
\* backfill of no rows writes nothing.
update_rows(o) ==
  /\ pc[o] = "update"
  /\ IF seen[o] = NoRows THEN Goto(o, "index") /\ UNCHANGED <<rows, fresh, undone>>
     ELSE IF o \notin fresh
     THEN Goto(o, "closed") /\ undone' = TRUE /\ UNCHANGED <<rows, fresh>>
     ELSE rows' = Backfilled(seen[o]) /\ Commit(o) /\ Goto(o, "index")
          /\ UNCHANGED undone
  /\ seen' = [seen EXCEPT ![o] = NoRows]
  /\ UNCHANGED <<exists, columns, indexed, writes, crashes>>

\* CREATE INDEX IF NOT EXISTS on norm_rev.
create_index(o) ==
  /\ pc[o] = "index" /\ Goto(o, "opened")
  /\ IF indexed THEN UNCHANGED <<indexed, fresh>> ELSE indexed' = TRUE /\ Commit(o)
  /\ UNCHANGED <<exists, columns, rows, seen, undone, writes, crashes>>

-----------------------------------------------------------------------------
(* What the callers of open_schema do with the connection. *)

\* A constructor stamps the file and returns the engine.
stamp(o) ==
  /\ pc[o] = "opened" /\ Goto(o, "open") /\ Commit(o)
  /\ UNCHANGED <<file, seen, undone, writes, crashes>>

Stop(o) ==
  /\ Goto(o, "closed")
  /\ seen' = [seen EXCEPT ![o] = NoRows]
  /\ UNCHANGED <<file, fresh, writes>>

\* reindexStatus only asks; a constructor may refuse the file's configuration.
ask(o) == pc[o] = "opened" /\ Stop(o) /\ UNCHANGED <<undone, crashes>>

close(o) == pc[o] = "open" /\ Stop(o) /\ UNCHANGED <<undone, crashes>>

\* The process dies anywhere in open_schema.
crash(o) ==
  /\ pc[o] \notin {"closed", "open"} /\ crashes < MaxCrashes
  /\ crashes' = crashes + 1 /\ Stop(o)
  /\ undone' = (undone \/ pc[o] \in {"select", "update"})

Write(o, i, row) ==
  /\ pc[o] = "open" /\ writes < MaxWrites
  /\ rows' = [rows EXCEPT ![i] = row] /\ Commit(o)
  /\ writes' = writes + 1
  /\ UNCHANGED <<exists, columns, indexed, pc, seen, undone, crashes>>

\* An open engine writes norm_rev together with norm.
index(o) == \E i \in Ids, x \in Norms : Write(o, i, [norm |-> x, rev |-> x])

remove(o) == \E i \in Stored : Write(o, i, NULL)

-----------------------------------------------------------------------------
\* A new file, or one written by an earlier version: without raw, or with raw
\* and without norm_rev.
Init ==
  /\ \/ exists = FALSE /\ columns = {} /\ rows = NoRows
     \/ exists = TRUE /\ columns \in {{}, {"raw"}}
        /\ rows \in [Ids -> {NULL} \cup [norm : Norms, rev : {NULL}]]
  /\ indexed = FALSE
  /\ pc = [o \in Openers |-> "closed"]
  /\ seen = [o \in Openers |-> NoRows] /\ fresh = {} /\ undone = FALSE
  /\ writes = 0 /\ crashes = 0

open_schema(o) ==
  \/ create_schema(o) \/ has_raw(o) \/ add_raw(o) \/ has_norm_rev(o)
  \/ add_norm_rev(o) \/ select_rows(o) \/ update_rows(o) \/ create_index(o)

Next == \E o \in Openers :
  \/ open(o) \/ open_schema(o) \/ stamp(o) \/ ask(o) \/ close(o) \/ crash(o)
  \/ index(o) \/ remove(o)

Spec == Init /\ [][Next]_vars

-----------------------------------------------------------------------------
\* norm_rev is never the reverse of some other text than the row's norm,
\* whatever another process commits between a backfill's SELECT and its
\* UPDATEs: a suffix search returns no document that does not end with the query.
RevMirrorsNorm == \A i \in Stored : rows[i].rev \in {NULL, rows[i].norm}

\* An index created before norm_rev is backfilled on open: an engine that has
\* been opened finds every stored document by its suffix.
OpenIsMigrated ==
  (\E o \in Openers : pc[o] = "open") => \A i \in Stored : rows[i].rev # NULL

\* It is so unless a backfill is still on its way or was given up, by a crash or
\* because SQLite refused it: no other interleaving of processes that open an
\* old file together, each having tested for the column on its own, ends with
\* rows nobody fills.
MigratedUnlessUndone ==
  undone \/ (\E o \in Openers : pc[o] \in {"select", "update"}) \/ OpenIsMigrated

-----------------------------------------------------------------------------
(* The inductive invariant behind RevMirrorsNorm and MigratedUnlessUndone. *)

\* Where open_schema can stand once the column norm_rev is known to be there.
Migrating == {"select", "update"}
HasNormRev == Migrating \cup {"index", "opened", "open"}

RowsType == [Ids -> {NULL} \cup [norm : Norms, rev : Norms \cup {NULL}]]

TypeOK ==
  /\ exists \in BOOLEAN /\ columns \subseteq Columns /\ indexed \in BOOLEAN
  /\ rows \in RowsType
  /\ pc \in [Openers -> HasNormRev \cup {"closed", "schema", "has_raw", "add_raw",
                                         "has_norm_rev", "add_norm_rev"}]
  /\ seen \in [Openers -> RowsType] /\ fresh \subseteq Openers /\ undone \in BOOLEAN
  /\ writes \in Nat /\ crashes \in Nat

\* The rows no backfill has reached yet; nobody adds any.
Unfilled == {i \in Stored : rows[i].rev = NULL}

\* A backfill that has selected its rows has seen every row that is unfilled,
\* and all that is in the file if nobody has committed since.
SeenOK(o) ==
  pc[o] = "update" => /\ \A i \in Unfilled : seen[o][i] # NULL
                      /\ o \in fresh => seen[o] = rows

\* What a process knows of the schema from the statements it has executed.
PlaceOK(o) ==
  /\ pc[o] \notin {"closed", "schema"} => exists
  /\ pc[o] \in HasNormRev => "norm_rev" \in columns

MigrationInv ==
  /\ TypeOK /\ RevMirrorsNorm
  /\ ~ exists => Stored = {}
  /\ \A o \in Openers : SeenOK(o) /\ PlaceOK(o)
  /\ "norm_rev" \in columns =>
       undone \/ (\E o \in Openers : pc[o] \in Migrating) \/ Unfilled = {}
=============================================================================
