-------------------------- MODULE MigrationProofs ---------------------------
(***************************************************************************)
(* MigrationInv is an invariant of SchemaMigration: however many processes *)
(* open an old file together, and wherever they die.                       *)
(***************************************************************************)
EXTENDS SchemaMigration, TLAPS

Labels == HasNormRev \cup {"closed", "schema", "has_raw", "add_raw", "has_norm_rev",
                           "add_norm_rev"}

\* Every row has its norm_rev, but for those a backfill under way or given up
\* has left.
FilledUnlessUndone ==
  "norm_rev" \in columns =>
    undone \/ (\E o \in Openers : pc[o] \in Migrating) \/ Unfilled = {}

-----------------------------------------------------------------------------
(* Steps of one process that leave the rows alone. *)

\* A process moves to next, and perhaps a column is added; no backfill begins or
\* ends.
LEMMA MoveStep ==
  ASSUME MigrationInv, NEW o \in Openers, NEW next \in Labels \ {"update"},
         Goto(o, next), pc[o] \notin Migrating,
         UNCHANGED <<rows, writes>>, indexed' \in BOOLEAN, crashes' \in Nat,
         exists' \in BOOLEAN, exists => exists', undone' \in BOOLEAN, undone => undone',
         seen' = seen \/ seen' = [seen EXCEPT ![o] = NoRows],
         fresh' \subseteq fresh,
         columns \subseteq columns' /\ columns' \subseteq Columns,
         next \in HasNormRev => "norm_rev" \in columns', next = "closed" \/ next = "schema" \/ exists',
         "norm_rev" \in columns' => "norm_rev" \in columns \/ next = "select" \/ Stored = {}
  PROVE  MigrationInv'
<1>1. /\ TypeOK /\ RevMirrorsNorm /\ FilledUnlessUndone
      /\ ~ exists => Stored = {}
      /\ \A p \in Openers : SeenOK(p) /\ PlaceOK(p)
  BY DEF MigrationInv, FilledUnlessUndone
<1>2. pc' = [pc EXCEPT ![o] = next] /\ pc \in [Openers -> Labels]
  BY <1>1 DEF Goto, TypeOK, Labels
<1>3. pc'[o] = next /\ \A p \in Openers : p # o => pc'[p] = pc[p]
  BY <1>2
<1>4. pc' \in [Openers -> Labels]
  BY <1>2
<1>5. seen' \in [Openers -> RowsType] /\ \A p \in Openers : p # o => seen'[p] = seen[p]
  <2>1. NoRows \in RowsType
    BY DEF NoRows, RowsType
  <2> QED BY <2>1, <1>1 DEF TypeOK
<1>6. TypeOK'
  BY <1>1, <1>4, <1>5 DEF TypeOK, Labels
<1>7. Unfilled' = Unfilled /\ Stored' = Stored /\ RevMirrorsNorm'
  BY <1>1 DEF Unfilled, Stored, RevMirrorsNorm
<1>8. ASSUME NEW p \in Openers PROVE SeenOK(p)' /\ PlaceOK(p)'
  <2>1. CASE p = o
    BY <2>1, <1>3 DEF SeenOK, PlaceOK
  <2>2. CASE p # o
    BY <2>2, <1>1, <1>3, <1>5, <1>7 DEF SeenOK, PlaceOK
  <2> QED BY <2>1, <2>2
<1>9. FilledUnlessUndone'
  <2>1. SUFFICES ASSUME "norm_rev" \in columns'
                 PROVE  undone \/ (\E p \in Openers : pc'[p] \in Migrating) \/ Unfilled = {}
    BY <1>1, <1>7 DEF FilledUnlessUndone
  <2>2. CASE next = "select"
    BY <2>2, <1>3 DEF Migrating
  <2>3. CASE "norm_rev" \in columns
    <3>1. ASSUME NEW p \in Openers, pc[p] \in Migrating PROVE pc'[p] \in Migrating
      BY <3>1, <1>3
    <3> QED BY <2>3, <3>1, <1>1 DEF FilledUnlessUndone
  <2>4. CASE Stored = {}
    BY <2>4 DEF Unfilled
  <2> QED BY <2>1, <2>2, <2>3, <2>4
<1> QED BY <1>1, <1>6, <1>7, <1>8, <1>9 DEF MigrationInv, FilledUnlessUndone

LEMMA OpenStep ==
  ASSUME MigrationInv, NEW o \in Openers, open(o) \/ has_raw(o) \/ has_norm_rev(o)
  PROVE  MigrationInv'
<1>1. TypeOK /\ PlaceOK(o)
  BY DEF MigrationInv
<1>2. PICK next \in Labels \ {"update"} :
        /\ Goto(o, next) /\ (next \in HasNormRev => "norm_rev" \in columns)
        /\ pc[o] \notin Migrating /\ (next = "schema" \/ exists)
  BY <1>1 DEF PlaceOK, open, has_raw, has_norm_rev, entries_has_column, Labels, HasNormRev, Migrating
<1>3. UNCHANGED <<file, seen, fresh, undone, writes, crashes>>
  BY DEF open, has_raw, has_norm_rev, entries_has_column
<1> QED BY <1>1, <1>2, <1>3, MoveStep DEF TypeOK, file

LEMMA CreateSchemaStep ==
  ASSUME MigrationInv, NEW o \in Openers, create_schema(o)
  PROVE  MigrationInv'
<1>1. TypeOK /\ (~ exists => Stored = {})
  BY DEF MigrationInv
<1>2. Goto(o, "has_raw") /\ "has_raw" \in Labels \ {"update"} /\ "has_raw" \notin HasNormRev
      /\ pc[o] \notin Migrating
  BY DEF create_schema, Labels, HasNormRev, Migrating
<1>3. /\ UNCHANGED <<indexed, rows, seen, undone, writes, crashes>>
      /\ fresh' \subseteq fresh
      /\ columns \subseteq columns' /\ columns' \subseteq Columns
      /\ exists' = TRUE
      /\ columns' = columns \/ Stored = {}
  BY <1>1 DEF create_schema, Commit, TypeOK
<1> QED BY <1>1, <1>2, <1>3, MoveStep DEF TypeOK

LEMMA AddColumnStep ==
  ASSUME MigrationInv, NEW o \in Openers, add_raw(o) \/ add_norm_rev(o)
  PROVE  MigrationInv'
<1>1. TypeOK /\ PlaceOK(o)
  BY DEF MigrationInv
<1>2. PICK column \in Columns, next \in {"has_norm_rev", "select"} :
        /\ add_column(o, column, next) /\ pc[o] \notin Migrating /\ exists
        /\ next = "select" <=> column = "norm_rev"
  BY <1>1 DEF PlaceOK, add_raw, add_norm_rev, Columns, Migrating
<1>3. /\ UNCHANGED <<exists, indexed, rows, seen, undone, writes, crashes>>
      /\ fresh' \subseteq fresh
  BY <1>2 DEF add_column, Commit
<1>4. CASE column \in columns
  <2>1. Goto(o, "closed") /\ "closed" \in Labels \ {"update"} /\ "closed" \notin HasNormRev
        /\ columns' = columns
    BY <1>2, <1>4 DEF add_column, Labels, HasNormRev, Migrating
  <2> QED BY <2>1, <1>1, <1>2, <1>3, MoveStep DEF TypeOK
<1>5. CASE column \notin columns
  <2>1. /\ Goto(o, next) /\ columns' = columns \cup {column}
        /\ next \in Labels \ {"update"} /\ (next \in HasNormRev => next = "select")
    BY <1>2, <1>5 DEF add_column, Labels, HasNormRev, Migrating
  <2> QED BY <2>1, <1>1, <1>2, <1>3, MoveStep DEF TypeOK
<1> QED BY <1>4, <1>5

LEMMA CreateIndexStep ==
  ASSUME MigrationInv, NEW o \in Openers, create_index(o)
  PROVE  MigrationInv'
<1>1. TypeOK /\ PlaceOK(o)
  BY DEF MigrationInv
<1>2. Goto(o, "opened") /\ "opened" \in Labels \ {"update"} /\ "norm_rev" \in columns
      /\ pc[o] \notin Migrating /\ exists
  BY <1>1 DEF PlaceOK, create_index, Labels, HasNormRev, Migrating
<1>3. /\ UNCHANGED <<exists, columns, rows, seen, undone, writes, crashes>>
      /\ indexed' \in BOOLEAN /\ fresh' \subseteq fresh
  BY <1>1 DEF create_index, Commit, TypeOK
<1> QED BY <1>1, <1>2, <1>3, MoveStep DEF TypeOK

LEMMA StampStep ==
  ASSUME MigrationInv, NEW o \in Openers, stamp(o)
  PROVE  MigrationInv'
<1>1. TypeOK /\ PlaceOK(o)
  BY DEF MigrationInv
<1>2. Goto(o, "open") /\ "open" \in Labels \ {"update"} /\ "norm_rev" \in columns
      /\ pc[o] \notin Migrating /\ exists
  BY <1>1 DEF PlaceOK, stamp, Labels, HasNormRev, Migrating
<1>3. /\ UNCHANGED <<file, seen, undone, writes, crashes>> /\ fresh' \subseteq fresh
  BY DEF stamp, Commit
<1> QED BY <1>1, <1>2, <1>3, MoveStep DEF TypeOK, file

\* An end outside a backfill.
LEMMA StopStep ==
  ASSUME MigrationInv, NEW o \in Openers, Stop(o), pc[o] \notin Migrating,
         undone' = undone, crashes' \in Nat
  PROVE  MigrationInv'
<1>1. TypeOK
  BY DEF MigrationInv
<1>2. Goto(o, "closed") /\ "closed" \in Labels \ {"update"} /\ "closed" \notin HasNormRev
  BY DEF Stop, Labels, HasNormRev, Migrating
<1>3. seen' = [seen EXCEPT ![o] = NoRows] /\ UNCHANGED <<file, fresh, writes>>
  BY DEF Stop
<1> QED BY <1>1, <1>2, <1>3, MoveStep DEF TypeOK, file

-----------------------------------------------------------------------------
(* The backfill, and the writes of open engines. *)

LEMMA SelectStep ==
  ASSUME MigrationInv, NEW o \in Openers, select_rows(o)
  PROVE  MigrationInv'
<1>1. /\ TypeOK /\ RevMirrorsNorm
      /\ ~ exists => Stored = {}
      /\ \A p \in Openers : SeenOK(p) /\ PlaceOK(p)
  BY DEF MigrationInv
<1>2. /\ pc[o] = "select" /\ pc' = [pc EXCEPT ![o] = "update"]
      /\ seen' = [seen EXCEPT ![o] = rows] /\ fresh' = fresh \cup {o}
      /\ UNCHANGED <<exists, columns, indexed, rows, undone, writes, crashes>>
  BY DEF select_rows, Goto, file
<1>3. /\ pc'[o] = "update" /\ seen'[o] = rows
      /\ \A p \in Openers : p # o => pc'[p] = pc[p] /\ seen'[p] = seen[p]
  BY <1>1, <1>2 DEF TypeOK
<1>4. TypeOK'
  <2>1. "update" \in HasNormRev
    BY DEF HasNormRev, Migrating
  <2>2. pc' \in [Openers -> Labels] /\ seen' \in [Openers -> RowsType]
    BY <2>1, <1>1, <1>2 DEF TypeOK, Labels
  <2> QED BY <2>2, <1>1, <1>2 DEF TypeOK, Labels
<1>5. Unfilled' = Unfilled /\ Stored' = Stored /\ RevMirrorsNorm'
  BY <1>1, <1>2 DEF Unfilled, Stored, RevMirrorsNorm
<1>6. ASSUME NEW p \in Openers PROVE SeenOK(p)' /\ PlaceOK(p)'
  <2>1. CASE p = o
    <3>1. "norm_rev" \in columns /\ exists
      BY <1>1, <1>2 DEF PlaceOK, HasNormRev, Migrating
    <3> QED BY <2>1, <3>1, <1>2, <1>3 DEF SeenOK, PlaceOK, Unfilled, Stored
  <2>2. CASE p # o
    BY <2>2, <1>1, <1>2, <1>3, <1>5 DEF SeenOK, PlaceOK
  <2> QED BY <2>1, <2>2
<1>7. \E p \in Openers : pc'[p] \in Migrating
  BY <1>3 DEF Migrating
<1> QED BY <1>1, <1>2, <1>4, <1>5, <1>6, <1>7 DEF MigrationInv

\* A step that fills rows, writes filled ones or changes none, by a process that
\* is not in a backfill afterwards.
LEMMA CommitStep ==
  ASSUME MigrationInv, NEW o \in Openers,
         UNCHANGED <<exists, columns, indexed, undone, crashes>>, writes' \in Nat,
         "norm_rev" \in columns, Commit(o) \/ UNCHANGED <<rows, fresh>>,
         exists, rows' \in RowsType, RevMirrorsNorm',
         Unfilled' \subseteq Unfilled,
         pc[o] = "update" => Unfilled' = {},
         pc' \in [Openers -> Labels], pc'[o] \in HasNormRev \ Migrating,
         pc[o] # "select", \A p \in Openers : p # o => pc'[p] = pc[p],
         seen' \in [Openers -> RowsType], \A p \in Openers : p # o => seen'[p] = seen[p]
  PROVE  MigrationInv'
<1>1. /\ TypeOK /\ FilledUnlessUndone
      /\ \A p \in Openers : SeenOK(p) /\ PlaceOK(p)
  BY DEF MigrationInv, FilledUnlessUndone
<1>2. fresh' \subseteq fresh /\ \A p \in fresh' : p = o \/ rows' = rows
  BY DEF Commit
<1>3. TypeOK'
  BY <1>1, <1>2 DEF TypeOK, Labels
<1>4. ASSUME NEW p \in Openers PROVE SeenOK(p)' /\ PlaceOK(p)'
  <2>1. CASE p = o
    BY <2>1 DEF SeenOK, PlaceOK, Migrating
  <2>2. CASE p # o
    BY <2>2, <1>1, <1>2 DEF SeenOK, PlaceOK
  <2> QED BY <2>1, <2>2
<1>5. FilledUnlessUndone'
  <2>1. CASE pc[o] = "update"
    BY <2>1 DEF FilledUnlessUndone
  <2>2. CASE pc[o] # "update"
    <3>1. ASSUME NEW p \in Openers, pc[p] \in Migrating PROVE pc'[p] \in Migrating
      <4>1. p # o
        BY <2>2, <3>1 DEF Migrating
      <4> QED BY <3>1, <4>1
    <3> QED BY <3>1, <1>1 DEF FilledUnlessUndone
  <2> QED BY <2>1, <2>2
<1> QED BY <1>1, <1>3, <1>4, <1>5 DEF MigrationInv, FilledUnlessUndone

LEMMA WriteStep ==
  ASSUME MigrationInv, NEW o \in Openers, index(o) \/ remove(o)
  PROVE  MigrationInv'
<1>1. TypeOK /\ RevMirrorsNorm /\ NULL \notin Norms /\ PlaceOK(o)
  BY MigrationAssumption DEF MigrationInv
<1> DEFINE Good(row) == row = NULL \/ (row.rev = row.norm /\ row.norm \in Norms)
<1>2. PICK i \in Ids, row \in {NULL} \cup [norm : Norms, rev : Norms] : Write(o, i, row) /\ Good(row)
  <2>1. CASE index(o)
    <3>1. PICK i \in Ids, x \in Norms : Write(o, i, [norm |-> x, rev |-> x])
      BY <2>1 DEF index
    <3> DEFINE row == [norm |-> x, rev |-> x]
    <3>2. row \in [norm : Norms, rev : Norms] /\ Good(row)
      OBVIOUS
    <3> HIDE DEF Good
    <3> QED BY <3>1, <3>2
  <2>2. CASE remove(o)
    BY <2>2 DEF remove, Stored
  <2> QED BY <2>1, <2>2
<1>3. /\ pc[o] = "open" /\ rows' = [rows EXCEPT ![i] = row] /\ Commit(o)
      /\ UNCHANGED <<exists, columns, indexed, pc, seen, undone, crashes>>
      /\ writes' = writes + 1
  BY <1>2 DEF Write
<1>4. rows' \in RowsType /\ rows'[i] = row /\ \A j \in Ids : j # i => rows'[j] = rows[j]
  BY <1>1, <1>3 DEF TypeOK, RowsType
<1>5. Unfilled' \subseteq Unfilled /\ RevMirrorsNorm'
  BY <1>1, <1>2, <1>4 DEF Unfilled, Stored, RevMirrorsNorm
<1>6. pc[o] \in HasNormRev \ Migrating /\ "norm_rev" \in columns /\ exists
  BY <1>1, <1>3 DEF PlaceOK, HasNormRev, Migrating
<1>7. writes' \in Nat /\ seen' \in [Openers -> RowsType] /\ pc' \in [Openers -> Labels]
  BY <1>1, <1>3 DEF TypeOK, Labels
<1> QED BY <1>3, <1>4, <1>5, <1>6, <1>7, CommitStep DEF Migrating

\* A backfill that ends without having written: its process gives up.
LEMMA GiveUpStep ==
  ASSUME MigrationInv, NEW o \in Openers, Goto(o, "closed"),
         seen' = [seen EXCEPT ![o] = NoRows], undone' = TRUE, crashes' \in Nat,
         UNCHANGED <<file, fresh, writes>>
  PROVE  MigrationInv'
<1>1. /\ TypeOK /\ RevMirrorsNorm
      /\ ~ exists => Stored = {}
      /\ \A p \in Openers : SeenOK(p) /\ PlaceOK(p)
  BY DEF MigrationInv
<1>2. pc' = [pc EXCEPT ![o] = "closed"] /\ pc \in [Openers -> Labels]
  BY <1>1 DEF Goto, TypeOK, Labels
<1>3. /\ pc'[o] = "closed"
      /\ \A p \in Openers : p # o => pc'[p] = pc[p] /\ seen'[p] = seen[p]
  BY <1>1, <1>2 DEF TypeOK
<1>4. TypeOK'
  <2>1. NoRows \in RowsType
    BY DEF NoRows, RowsType
  <2>2. pc' \in [Openers -> Labels] /\ seen' \in [Openers -> RowsType]
    BY <2>1, <1>1, <1>2 DEF TypeOK, Labels
  <2> QED BY <2>2, <1>1 DEF TypeOK, Labels, file
<1>5. Unfilled' = Unfilled /\ Stored' = Stored /\ RevMirrorsNorm'
  BY <1>1 DEF Unfilled, Stored, RevMirrorsNorm, file
<1>6. ASSUME NEW p \in Openers PROVE SeenOK(p)' /\ PlaceOK(p)'
  <2>1. CASE p = o
    BY <2>1, <1>3 DEF SeenOK, PlaceOK, HasNormRev, Migrating
  <2>2. CASE p # o
    BY <2>2, <1>1, <1>3, <1>5 DEF SeenOK, PlaceOK, file
  <2> QED BY <2>1, <2>2
<1> QED BY <1>1, <1>4, <1>5, <1>6 DEF MigrationInv, file

\* The snapshot either is the file as it stands, and every row is filled, or
\* SQLite refuses the write.
LEMMA UpdateStep ==
  ASSUME MigrationInv, NEW o \in Openers, update_rows(o)
  PROVE  MigrationInv'
<1>1. TypeOK /\ RevMirrorsNorm /\ SeenOK(o) /\ PlaceOK(o) /\ NULL \notin Norms
  BY MigrationAssumption DEF MigrationInv
<1>2. /\ pc[o] = "update" /\ seen' = [seen EXCEPT ![o] = NoRows]
      /\ UNCHANGED <<exists, columns, indexed, writes, crashes>>
  BY DEF update_rows
<1>3. /\ "norm_rev" \in columns /\ exists
      /\ "index" \in HasNormRev \ Migrating
  BY <1>1, <1>2 DEF PlaceOK, HasNormRev, Migrating
<1>4. /\ seen' \in [Openers -> RowsType]
      /\ \A p \in Openers : p # o => seen'[p] = seen[p]
  <2>1. NoRows \in RowsType
    BY DEF NoRows, RowsType
  <2> QED BY <2>1, <1>1, <1>2 DEF TypeOK
<1>5. ASSUME Goto(o, "index")
      PROVE  /\ pc' \in [Openers -> Labels] /\ pc'[o] = "index"
             /\ \A p \in Openers : p # o => pc'[p] = pc[p]
  BY <1>1, <1>3, <1>5 DEF Goto, TypeOK, Labels
<1>6. CASE seen[o] = NoRows
  <2>1. Goto(o, "index") /\ UNCHANGED <<rows, fresh, undone>>
    BY <1>6 DEF update_rows
  <2>2. Unfilled' = {} /\ RevMirrorsNorm'
    BY <2>1, <1>1, <1>2, <1>6 DEF SeenOK, NoRows, Unfilled, Stored, RevMirrorsNorm
  <2>3. rows' \in RowsType /\ writes' \in Nat
    BY <2>1, <1>1, <1>2 DEF TypeOK
  <2> QED BY <2>1, <2>2, <2>3, <1>2, <1>3, <1>4, <1>5, CommitStep
<1>7. CASE seen[o] # NoRows /\ o \notin fresh
  <2>1. Goto(o, "closed") /\ undone' = TRUE /\ UNCHANGED <<rows, fresh>>
    BY <1>7 DEF update_rows
  <2> QED BY <2>1, <1>1, <1>2, GiveUpStep DEF TypeOK, file
<1>8. CASE seen[o] # NoRows /\ o \in fresh
  <2>1. /\ Goto(o, "index") /\ Commit(o) /\ undone' = undone
        /\ rows' = Backfilled(rows)
    BY <1>1, <1>2, <1>8 DEF update_rows, SeenOK
  <2>2. \A i \in Ids : /\ rows[i] # NULL => rows[i] \in [norm : Norms, rev : Norms \cup {NULL}]
                       /\ rows'[i] = IF rows[i] # NULL THEN [rows[i] EXCEPT !.rev = rows[i].norm]
                                     ELSE rows[i]
    BY <2>1, <1>1 DEF Backfilled, TypeOK, RowsType
  <2>3. \A i \in Ids : IF rows[i] # NULL
                       THEN /\ rows'[i] \in [norm : Norms, rev : Norms \cup {NULL}]
                            /\ rows'[i].rev = rows'[i].norm /\ rows'[i].norm \in Norms
                       ELSE rows'[i] = NULL
    BY <2>2
  <2>4. rows' \in RowsType
    BY <2>1, <2>3 DEF Backfilled, RowsType
  <2>5. Unfilled' = {} /\ RevMirrorsNorm'
    BY <2>3, <1>1 DEF Unfilled, Stored, RevMirrorsNorm
  <2>6. writes' \in Nat
    BY <1>1, <1>2 DEF TypeOK
  <2> QED BY <2>1, <2>4, <2>5, <2>6, <1>2, <1>3, <1>4, <1>5, CommitStep
<1> QED BY <1>6, <1>7, <1>8

LEMMA EndStep ==
  ASSUME MigrationInv, NEW o \in Openers, ask(o) \/ close(o) \/ crash(o)
  PROVE  MigrationInv'
<1>1. TypeOK
  BY DEF MigrationInv
<1>2. CASE ask(o) \/ close(o)
  BY <1>1, <1>2, StopStep DEF ask, close, TypeOK, Migrating
<1>3. CASE crash(o)
  <2>1. /\ Stop(o) /\ crashes' \in Nat
        /\ undone' = (undone \/ pc[o] \in Migrating)
    BY <1>1, <1>3 DEF crash, TypeOK, Migrating
  <2>2. CASE pc[o] \in Migrating
    BY <2>1, <2>2, GiveUpStep DEF Stop
  <2>3. CASE pc[o] \notin Migrating
    BY <2>1, <2>3, <1>1, StopStep DEF TypeOK
  <2> QED BY <2>2, <2>3
<1> QED BY <1>2, <1>3

-----------------------------------------------------------------------------
\* The three facts that make MigrationInv an invariant.

LEMMA MigrationInit == Init => MigrationInv
<1> SUFFICES ASSUME Init PROVE MigrationInv
  OBVIOUS
<1>1. /\ pc = [o \in Openers |-> "closed"] /\ seen = [o \in Openers |-> NoRows]
      /\ fresh = {} /\ undone = FALSE /\ writes = 0 /\ crashes = 0 /\ indexed = FALSE
      /\ NoRows \in RowsType
  BY DEF Init, NoRows, RowsType
<1>2. /\ exists \in BOOLEAN /\ columns \subseteq {"raw"}
      /\ rows \in [Ids -> {NULL} \cup [norm : Norms, rev : {NULL}]]
      /\ ~ exists => rows = NoRows
  BY DEF Init, NoRows
<1>3. /\ rows \in RowsType /\ columns \subseteq Columns /\ "norm_rev" \notin columns
      /\ \A i \in Stored : rows[i].rev = NULL
  BY <1>2 DEF RowsType, Columns, Stored
<1>4. TypeOK
  BY <1>1, <1>2, <1>3 DEF TypeOK
<1>5. ~ exists => Stored = {}
  BY <1>2 DEF Stored, NoRows
<1> QED BY <1>1, <1>3, <1>4, <1>5 DEF MigrationInv, RevMirrorsNorm, SeenOK, PlaceOK, HasNormRev, Migrating

LEMMA MigrationStutter ==
  ASSUME MigrationInv, UNCHANGED vars
  PROVE  MigrationInv'
BY DEF MigrationInv, vars, file, TypeOK, RevMirrorsNorm, SeenOK, PlaceOK, Stored, Unfilled

LEMMA MigrationNext == MigrationInv /\ [Next]_vars => MigrationInv'
<1> SUFFICES ASSUME MigrationInv, [Next]_vars PROVE MigrationInv'
  OBVIOUS
<1>1. ASSUME NEW o \in Openers, open_schema(o) PROVE MigrationInv'
  BY <1>1, OpenStep, CreateSchemaStep, AddColumnStep, SelectStep, UpdateStep, CreateIndexStep
  DEF open_schema
<1>2. ASSUME NEW o \in Openers, open(o) \/ stamp(o) \/ ask(o) \/ close(o) \/ crash(o)
                                \/ index(o) \/ remove(o)
      PROVE  MigrationInv'
  BY <1>2, OpenStep, StampStep, EndStep, WriteStep
<1>3. CASE UNCHANGED vars
  BY <1>3, MigrationStutter
<1> QED BY <1>1, <1>2, <1>3 DEF Next

\* What every process may assume of the schema and the rows, wherever others
\* stand in open_schema and wherever they died (engine.rs, open_schema).
THEOREM MigrationInvariant == Spec => []MigrationInv
BY MigrationInit, MigrationNext, PTL DEF Spec

\* norm_rev is never the reverse of another text than the row's norm.
THEOREM BackfillMirrors == Spec => []RevMirrorsNorm
<1>1. MigrationInv => RevMirrorsNorm
  BY DEF MigrationInv
<1> QED BY <1>1, MigrationInvariant, PTL

\* Only a backfill given up between ALTER TABLE and its UPDATEs leaves rows that
\* an open engine does not find by their suffix.
THEOREM OnlyUndoneBackfillsAreLost == Spec => []MigratedUnlessUndone
<1>1. MigrationInv => MigratedUnlessUndone
  BY DEF MigrationInv, MigratedUnlessUndone, OpenIsMigrated, PlaceOK, HasNormRev, Migrating,
    Unfilled
<1> QED BY <1>1, MigrationInvariant, PTL
=============================================================================
