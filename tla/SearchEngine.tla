---------------------------- MODULE SearchEngine ----------------------------
(***************************************************************************)
(* One SearchEngine object (core/src/engine.rs) on one index file, shared  *)
(* by several threads, through crashes and reopenings.                     *)
(*                                                                         *)
(* The file holds the FTS table `docs`, the table `entries` and the `meta` *)
(* keys normalize_profile and field_bits.  A statement outside a           *)
(* transaction is one atomic step on the file; a transaction works on a    *)
(* copy that its commit installs.  The connection mutex serialises the     *)
(* statements of different calls; the atomic field_bits is read outside    *)
(* it, one load per step.                                                  *)
(***************************************************************************)
EXTENDS IndexFile, Sequences

CONSTANTS
  Threads,
  Profiles,          \* normalize fingerprints
  Texts,             \* raw host texts
  Normalize(_, _),   \* the normal form of a text under a profile
  EmptyNorm,         \* the normal form that index_record drops
  \* inputs the host may pass
  DocIds, ItemLists, IdLists, RecordIds, FieldLists, RecordLists,
  NewBits,           \* ... to change_field_bits
  LegacyIds,         \* documents a file from before raw text may hold
  MaxCalls,          \* bound on the calls of a behaviour
  MaxFaults          \* bound on its crashes and failed statements

Norms == {Normalize(p, x) : p \in Profiles, x \in Texts}

\* A row of entries.  raw is NULL for a document indexed before raw text was
\* retained; norm_rev is written with norm by every statement here.
Rows == [norm : Norms, raw : Texts \cup {NULL}]

\* The index file.
Files == [docs : [Id -> Norms \cup {NULL}], entries : [Id -> Rows \cup {NULL}],
          profile : Profiles \cup {NULL}, bits : FieldBits \cup {NULL},
          torn : SUBSET Id]

Fields == [slot : Nat, text : Texts]

Items == [id : Id, text : Texts]

Removals == [id : Id]

Records == [record : Int, fields : Seq(Fields)]

ASSUME ConstantAssumption ==
  /\ Loose \in Profiles
  /\ NULL \notin Norms /\ NULL \notin Texts /\ NULL \notin Profiles
  /\ NULL \notin FieldBits /\ NULL \notin Threads /\ NULL \notin Rows
  /\ NULL \notin Files
  /\ DocIds \subseteq Id /\ LegacyIds \subseteq Id /\ RecordIds \subseteq Int
  /\ ItemLists \subseteq Seq(Items) /\ IdLists \subseteq Seq(Removals)
  /\ FieldLists \subseteq Seq(Fields) /\ RecordLists \subseteq Seq(Records)
  /\ NewBits \subseteq Int
  /\ MaxCalls \in Nat /\ MaxFaults \in Nat

VARIABLES
  db,          \* the file: docs, entries, profile, bits; and the ghost torn
  tx,          \* the copy the open transaction works on, or NULL
  lock,        \* the thread holding the connection mutex, or NULL
  alive,       \* the engine has been returned by a constructor
  options,     \* the engine's normalization, by its fingerprint
  field_bits,  \* the engine's atomic
  pc,          \* where each thread is in its call
  call,        \* the arguments and locals of each thread's call
  calls,       \* calls made so far
  faults,      \* crashes and failed statements so far
  overtaken    \* ghost: threads in a call during which field_bits has changed

engine == <<alive, options, field_bits>>
vars == <<db, tx, lock, engine, pc, call, calls, faults, overtaken>>

-----------------------------------------------------------------------------
(***************************************************************************)
(* What the operations write, as functions from image to image.            *)
(***************************************************************************)
\* A document's row under profile p.
Row(p, x) == [norm |-> Normalize(p, x), raw |-> x]

\* The statements of index / index_batch for one document, inside a transaction.
PutDocument(d, id, x) ==
  LET row == [i \in {id} |-> Row(options, x)]
  IN  Completed(WriteRows(DeleteDocs(d, {id}), row), {id})

\* The rows index_record inserts: its fields that are not empty once normalized.
LiveFields(fields) ==
  {k \in DOMAIN fields : Normalize(options, fields[k].text) # EmptyNorm}

\* docs refuses a second row for an id: two fields may not share a packed id,
\* nor may one of them be taken outside the cleared range.
InsertRejected(d, fields, lo) ==
  LET id(k) == BitOr(lo, fields[k].slot)
  IN  \E j \in LiveFields(fields) :
        \/ d.docs[id(j)] # NULL
        \/ \E k \in LiveFields(fields) : j # k /\ id(j) = id(k)

InsertFields(d, fields, lo) ==
  LET at(i) == {k \in LiveFields(fields) : BitOr(lo, fields[k].slot) = i}
      rows == [i \in {j \in Id : at(j) # {}} |->
                 Row(options, fields[CHOOSE k \in at(i) : TRUE].text)]
  IN  Completed(WriteRows(d, rows), DOMAIN rows)

\* Mutant: does not stamp the new profile.
Reindexed_unstamped(d) ==
  LET rows == [i \in {j \in Stored(d) : d.entries[j].raw # NULL} |->
                 Row(options, d.entries[i].raw)]
  IN  Completed(WriteRows(d, rows), DOMAIN rows)

\* reindex(): every row that kept its raw text is normalized again.
Reindexed(d) ==
  LET rows == [i \in {j \in Stored(d) : d.entries[j].raw # NULL} |->
                 Row(options, d.entries[i].raw)]
  IN  stamp_profile(Completed(WriteRows(d, rows), DOMAIN rows), options)

-----------------------------------------------------------------------------
(***************************************************************************)
(* Calls.  ids is the set of ids an autocommitting call writes, or the     *)
(* range an index_record clears; todo what a transaction has still to      *)
(* apply; cap the field_bits a record call validates slots with; lo the    *)
(* packed id of the record's slot 0; arg the field_bits a call asks for.   *)
(* A search keeps its hits in ids, the records it has decoded in found,    *)
(* and, a ghost, the records the hits belonged to when it saw them.        *)
(***************************************************************************)
Ops == {"none", "index", "remove", "index_batch", "remove_batch", "remove_all",
        "reindex", "index_record", "index_records_batch", "remove_record",
        "contains_record", "search_records", "match_count_records",
        "change_field_bits", "open"}

Labels == {"idle", "max", "lo", "hi", "lock", "del_docs", "ins_docs", "ins_entries",
           "del_entries", "contains", "search", "decode", "tx", "repack", "store",
           "reindex", "stamp_bits", "stamp_profile"}

Calls == [op : Ops, ids : SUBSET Id, text : Texts \cup {NULL},
          todo : Seq(Items) \cup Seq(Removals) \cup Seq(Records),
          cap : FieldBits, lo : Int, arg : FieldBits, mismatch : BOOLEAN,
          found : SUBSET Int, owners : SUBSET Int]

NoCall == [op |-> "none", ids |-> {}, text |-> NULL, todo |-> <<>>,
           cap |-> DefaultBits, lo |-> 0, arg |-> DefaultBits, mismatch |-> FALSE,
           found |-> {}, owners |-> {}]

Goto(t, label) == pc' = [pc EXCEPT ![t] = label]

Begin(t, c, label) ==
  /\ alive /\ pc[t] = "idle" /\ calls < MaxCalls
  /\ calls' = calls + 1
  /\ call' = [call EXCEPT ![t] = c]
  /\ Goto(t, label)
  /\ UNCHANGED <<db, tx, lock, engine, faults>>

\* The call returns; a MutexGuard it holds is dropped.
Return(t) ==
  /\ Goto(t, "idle")
  /\ call' = [call EXCEPT ![t] = NoCall]
  /\ lock' = IF lock = t THEN NULL ELSE lock

\* A step of a call that holds the mutex.
Locked(t, label) == lock = t /\ pc[t] = label

-----------------------------------------------------------------------------
(* The operations, up to the point where they ask for the mutex.  An argument
   the code rejects without reading any state (an empty batch, a field_bits
   out of 1..=MAX_FIELD_BITS) is not passed.                                 *)

index(t) == \E id \in DocIds, x \in Texts :
  Begin(t, [NoCall EXCEPT !.op = "index", !.ids = {id}, !.text = x], "lock")

remove(t) == \E id \in DocIds :
  Begin(t, [NoCall EXCEPT !.op = "remove", !.ids = {id}], "lock")

index_batch(t) == \E items \in ItemLists \ {<<>>} :
  Begin(t, [NoCall EXCEPT !.op = "index_batch", !.todo = items], "lock")

remove_batch(t) == \E ids \in IdLists \ {<<>>} :
  Begin(t, [NoCall EXCEPT !.op = "remove_batch", !.todo = ids], "lock")

remove_all(t) == Begin(t, [NoCall EXCEPT !.op = "remove_all"], "lock")

reindex(t) == Begin(t, [NoCall EXCEPT !.op = "reindex"], "lock")

change_field_bits(t) == \E new \in NewBits : check_field_bits(new) /\
  Begin(t, [NoCall EXCEPT !.op = "change_field_bits", !.arg = new], "lock")

\* The record calls first load field_bits for the slot check ...
index_record(t) == \E r \in RecordIds, fields \in FieldLists :
  Begin(t, [NoCall EXCEPT !.op = "index_record", !.cap = field_bits,
                          !.todo = <<[record |-> r, fields |-> fields]>>], "max")

index_records_batch(t) == \E records \in RecordLists \ {<<>>} :
  Begin(t, [NoCall EXCEPT !.op = "index_records_batch", !.cap = field_bits,
                          !.todo = records], "max")

\* (for remove_record and contains_record it only serves an error message)
remove_record(t) == \E r \in RecordIds :
  Begin(t, [NoCall EXCEPT !.op = "remove_record",
                          !.todo = <<[record |-> r, fields |-> <<>>]>>], "max")

contains_record(t) == \E r \in RecordIds :
  Begin(t, [NoCall EXCEPT !.op = "contains_record",
                          !.todo = <<[record |-> r, fields |-> <<>>]>>], "max")

\* A query that normalizes to nothing is answered without the file.
search_records(t) == \E q \in Texts : Normalize(options, q) # EmptyNorm /\
  Begin(t, [NoCall EXCEPT !.op = "search_records", !.text = q], "lock")

match_count_records(t) == \E q \in Texts : Normalize(options, q) # EmptyNorm /\
  Begin(t, [NoCall EXCEPT !.op = "match_count_records", !.text = q], "lock")

SlotsValid(fields, cap) ==
  /\ \A k \in DOMAIN fields : fields[k].slot < 2^cap
  /\ \A j, k \in DOMAIN fields : j # k => fields[j].slot # fields[k].slot

\* ... then again for max_record_id(), in the range check; a failed check
\* returns the error before anything is written ...
load_max(t) ==
  /\ pc[t] = "max"
  /\ IF \A k \in DOMAIN call[t].todo :
          /\ call[t].todo[k].record \in 0 .. max_record_id(field_bits)
          /\ SlotsValid(call[t].todo[k].fields, call[t].cap)
     THEN /\ Goto(t, IF call[t].op = "index_records_batch" THEN "lock" ELSE "lo")
          /\ UNCHANGED <<call, lock>>
     ELSE Return(t)
  /\ UNCHANGED <<db, tx, engine, calls, faults>>

\* ... and twice more for the two ends of record_id_range().
load_lo(t) ==
  /\ pc[t] = "lo"
  /\ call' = [call EXCEPT ![t].lo = range_lo(call[t].todo[1].record, field_bits)]
  /\ Goto(t, "hi")
  /\ UNCHANGED <<db, tx, lock, engine, calls, faults>>

load_hi(t) ==
  /\ pc[t] = "hi"
  /\ call' = [call EXCEPT ![t].ids =
                 (call[t].lo .. range_hi(call[t].lo, field_bits)) \cap Id]
  /\ Goto(t, "lock")
  /\ UNCHANGED <<db, tx, lock, engine, calls, faults>>

-----------------------------------------------------------------------------
(* The locked sections. *)

\* The statements a call runs first under the mutex.
Section(op) ==
  IF op \in {"index", "remove", "remove_record"} THEN "del_docs"
  ELSE IF op = "contains_record" THEN "contains"
  ELSE IF op \in {"search_records", "match_count_records"} THEN "search"
  ELSE IF op = "reindex" THEN "reindex"
  ELSE IF op = "change_field_bits" THEN "repack"
  ELSE "tx"

\* Mutant: does not wait for the mutex.
locked_conn_unguarded(t) ==
  /\ pc[t] = "lock"
  /\ lock' = t
  /\ Goto(t, Section(call[t].op))
  /\ tx' = IF Section(call[t].op) # "tx" THEN tx
           ELSE IF call[t].op = "remove_all" THEN clear_ids(db, Id) ELSE db
  /\ UNCHANGED <<db, engine, call, calls, faults>>

\* Taking the mutex, and BEGIN for the calls that do not read the file first.
locked_conn(t) ==
  LET op == call[t].op
  IN  /\ pc[t] = "lock" /\ lock = NULL
      /\ lock' = t
      /\ Goto(t, Section(op))
      /\ tx' = IF Section(op) # "tx" THEN tx
               ELSE IF op = "remove_all" THEN clear_ids(db, Id) ELSE db
      /\ UNCHANGED <<db, engine, call, calls, faults>>

\* index, remove and remove_record: one autocommitted statement per step.
delete_docs(t) ==
  /\ Locked(t, "del_docs")
  /\ db' = Begun(DeleteDocs(db, call[t].ids), call[t].ids)
  /\ Goto(t, IF call[t].op = "index" THEN "ins_docs" ELSE "del_entries")
  /\ UNCHANGED <<tx, lock, engine, call, calls, faults>>

IndexRow(t) == [i \in call[t].ids |-> Row(options, call[t].text)]

insert_docs(t) ==
  /\ Locked(t, "ins_docs")
  /\ db' = InsertDocs(db, IndexRow(t))
  /\ Goto(t, "ins_entries")
  /\ UNCHANGED <<tx, lock, engine, call, calls, faults>>

replace_entries(t) ==
  /\ Locked(t, "ins_entries")
  /\ db' = Completed(ReplaceEntries(db, IndexRow(t)), call[t].ids)
  /\ Return(t)
  /\ UNCHANGED <<tx, engine, calls, faults>>

delete_entries(t) ==
  /\ Locked(t, "del_entries")
  /\ db' = Completed(DeleteEntries(db, call[t].ids), call[t].ids)
  /\ Return(t)
  /\ UNCHANGED <<tx, engine, calls, faults>>

\* SELECT EXISTS: the answer is whether a row of the range is stored.
read_exists(t) ==
  /\ Locked(t, "contains")
  /\ Return(t)
  /\ UNCHANGED <<db, tx, engine, calls, faults>>

\* The strategy's hits, here the documents with the query's normal form; the
\* guard is dropped before they are decoded.
fetch_hits(t) ==
  LET hits == {i \in Id : db.docs[i] = Normalize(options, call[t].text)}
  IN  /\ Locked(t, "search")
      /\ call' = [call EXCEPT ![t].ids = hits,
                              ![t].owners = {record_of(i, field_bits) : i \in hits}]
      /\ lock' = NULL
      /\ Goto(t, "decode")
      /\ UNCHANGED <<db, tx, engine, calls, faults>>

\* search_records loads field_bits for every hit, match_count_records once.
decode_hits(t) ==
  /\ pc[t] = "decode" /\ call[t].ids # {}
  /\ \E S \in SUBSET call[t].ids :
       /\ IF call[t].op = "search_records" THEN \E i \in call[t].ids : S = {i}
                                           ELSE S = call[t].ids
       /\ call' = [call EXCEPT ![t].ids = @ \ S,
                               ![t].found = @ \cup {record_of(i, field_bits) : i \in S}]
  /\ UNCHANGED <<db, tx, lock, engine, pc, calls, faults>>

return_hits(t) ==
  /\ pc[t] = "decode" /\ call[t].ids = {}
  /\ Return(t)
  /\ UNCHANGED <<db, tx, engine, calls, faults>>

\* Mutant: the loop runs outside a transaction.
Apply_autocommitted(t, image) ==
  /\ tx' = image /\ db' = image
  /\ call' = [call EXCEPT ![t].todo = Tail(@)]
  /\ UNCHANGED <<lock, engine, pc, calls, faults>>

\* One turn of a transaction's loop.
Apply(t, image) ==
  /\ tx' = image
  /\ call' = [call EXCEPT ![t].todo = Tail(@)]
  /\ UNCHANGED <<db, lock, engine, pc, calls, faults>>

\* An error inside a transaction: the dropped transaction rolls back.
Rollback(t) ==
  /\ tx' = NULL
  /\ Return(t)
  /\ UNCHANGED <<db, engine, calls>>

index_item(t) ==
  /\ Locked(t, "tx") /\ call[t].op = "index_batch" /\ call[t].todo # <<>>
  /\ LET item == Head(call[t].todo) IN Apply(t, PutDocument(tx, item.id, item.text))

remove_item(t) ==
  /\ Locked(t, "tx") /\ call[t].op = "remove_batch" /\ call[t].todo # <<>>
  /\ Apply(t, clear_ids(tx, {Head(call[t].todo).id}))

\* index_record uses the range it computed before locking;
\* index_records_batch computes each record's range here.
record_item(t) ==
  LET r == Head(call[t].todo)
      single == call[t].op = "index_record"
      lo == IF single THEN call[t].lo ELSE range_lo(r.record, field_bits)
      ids == IF single THEN call[t].ids ELSE (lo .. range_hi(lo, field_bits)) \cap Id
      cleared == clear_ids(tx, ids)
  IN  /\ Locked(t, "tx") /\ call[t].op \in {"index_record", "index_records_batch"}
      /\ call[t].todo # <<>>
      /\ IF InsertRejected(cleared, r.fields, lo)
         THEN Rollback(t) /\ UNCHANGED faults
         ELSE Apply(t, InsertFields(cleared, r.fields, lo))

regenerate(t) ==
  /\ Locked(t, "reindex")
  /\ tx' = Reindexed(db)
  /\ Goto(t, "tx")
  /\ UNCHANGED <<db, lock, engine, call, calls, faults>>

\* Mutant: asks for the mutex again while holding it.
repack_relocking(t) ==
  /\ Locked(t, "repack")
  /\ Goto(t, "lock")
  /\ UNCHANGED <<db, tx, lock, engine, call, calls, faults>>

\* Same value: nothing to do.  A row that does not fit: error, nothing written.
repack(t) ==
  LET old == field_bits
      new == call[t].arg
  IN  /\ Locked(t, "repack")
      /\ IF new = old \/ RepackRejected(db, old, new)
         THEN Return(t) /\ UNCHANGED tx
         ELSE tx' = Repacked(db, old, new) /\ Goto(t, "tx") /\ UNCHANGED <<lock, call>>
      /\ UNCHANGED <<db, engine, calls, faults>>

commit(t) ==
  /\ Locked(t, "tx")
  /\ call[t].todo = <<>>
  /\ db' = tx /\ tx' = NULL
  /\ IF call[t].op = "change_field_bits"
     THEN Goto(t, "store") /\ UNCHANGED <<lock, call>>
     ELSE Return(t)
  /\ alive' = (alive \/ call[t].op = "open")
  /\ UNCHANGED <<options, field_bits, calls, faults>>

\* The atomic follows the commit, still under the mutex.
store_field_bits(t) ==
  /\ Locked(t, "store")
  /\ field_bits' = call[t].arg
  /\ Return(t)
  /\ UNCHANGED <<db, tx, alive, options, calls, faults>>

-----------------------------------------------------------------------------
(* Opening, closing and failing. *)

\* The constructors.  A field_bits that differs from the stored one, and a
\* profile that differs without rebuild, are errors that leave the file alone.
open(t) == \E p \in Profiles, bits \in FieldBits \cup {NULL}, rebuild \in BOOLEAN :
  LET stored == stored_field_bits(db)
      mismatch == stored_profile(db) \notin {NULL, p}
  IN  /\ ~ alive /\ lock = NULL /\ pc[t] = "idle" /\ calls < MaxCalls
      /\ bits # NULL => stored \in {NULL, bits}
      /\ mismatch => rebuild
      /\ options' = p
      /\ field_bits' = IF bits # NULL THEN bits
                       ELSE IF stored # NULL THEN stored ELSE DefaultBits
      /\ lock' = t
      /\ call' = [call EXCEPT ![t] = [NoCall EXCEPT !.op = "open", !.mismatch = mismatch]]
      /\ calls' = calls + 1
      /\ Goto(t, "stamp_bits")
      /\ UNCHANGED <<db, tx, alive, faults>>

\* Mutant: stamps the new profile on rows it has not rebuilt.
open_stamp_bits_no_rebuild(t) ==
  /\ Locked(t, "stamp_bits")
  /\ db' = stamp_field_bits(db, field_bits)
  /\ Goto(t, "stamp_profile")
  /\ UNCHANGED <<tx, lock, engine, call, calls, faults>>

open_stamp_bits(t) ==
  /\ Locked(t, "stamp_bits")
  /\ db' = stamp_field_bits(db, field_bits)
  /\ Goto(t, IF call[t].mismatch THEN "reindex" ELSE "stamp_profile")
  /\ UNCHANGED <<tx, lock, engine, call, calls, faults>>

open_stamp_profile(t) ==
  /\ Locked(t, "stamp_profile")
  /\ db' = stamp_profile(db, options)
  /\ alive' = TRUE
  /\ Return(t)
  /\ UNCHANGED <<tx, options, field_bits, calls, faults>>

\* An SQLite error: `?` returns it, the guard and the transaction are dropped.
statement_fails(t) ==
  /\ lock = t /\ pc[t] # "store" /\ faults < MaxFaults
  /\ faults' = faults + 1
  /\ Rollback(t)

\* The process dies: committed statements stay, everything in memory goes.
Stopped ==
  /\ alive' = FALSE /\ options' = Loose /\ field_bits' = DefaultBits
  /\ tx' = NULL /\ lock' = NULL
  /\ pc' = [t \in Threads |-> "idle"]
  /\ call' = [t \in Threads |-> NoCall]
  /\ UNCHANGED <<db, calls>>

crash ==
  /\ faults < MaxFaults /\ (alive \/ lock # NULL)
  /\ faults' = faults + 1
  /\ Stopped

\* The last reference to the engine is dropped.
close ==
  /\ alive /\ \A t \in Threads : pc[t] = "idle"
  /\ Stopped
  /\ UNCHANGED faults

Done ==
  /\ calls = MaxCalls /\ \A t \in Threads : pc[t] = "idle"
  /\ UNCHANGED <<db, tx, lock, engine, pc, call, calls, faults>>

-----------------------------------------------------------------------------
\* A new file, or one from before raw text and profiles were recorded, which
\* the loose profile is assumed for.
Init ==
  /\ \E S \in {{}, LegacyIds}, x \in Texts :
       db = [docs |-> [i \in Id |-> IF i \in S THEN Normalize(Loose, x) ELSE NULL],
             entries |-> [i \in Id |-> IF i \in S
                            THEN [norm |-> Normalize(Loose, x), raw |-> NULL] ELSE NULL],
             profile |-> NULL, bits |-> NULL, torn |-> {}]
  /\ alive = FALSE /\ options = Loose /\ field_bits = DefaultBits
  /\ tx = NULL /\ lock = NULL
  /\ pc = [t \in Threads |-> "idle"]
  /\ call = [t \in Threads |-> NoCall]
  /\ calls = 0 /\ faults = 0 /\ overtaken = {}

\* A host starts a call.
Request(t) ==
  \/ index(t) \/ remove(t) \/ index_batch(t) \/ remove_batch(t) \/ remove_all(t)
  \/ reindex(t) \/ change_field_bits(t) \/ index_record(t)
  \/ index_records_batch(t) \/ remove_record(t) \/ contains_record(t)
  \/ search_records(t) \/ match_count_records(t) \/ open(t)

\* A call in progress takes its next step.
Step(t) ==
  \/ load_max(t) \/ load_lo(t) \/ load_hi(t) \/ locked_conn(t)
  \/ delete_docs(t) \/ insert_docs(t) \/ replace_entries(t) \/ delete_entries(t)
  \/ read_exists(t) \/ fetch_hits(t) \/ decode_hits(t) \/ return_hits(t)
  \/ index_item(t) \/ remove_item(t) \/ record_item(t)
  \/ regenerate(t) \/ repack(t) \/ commit(t) \/ store_field_bits(t)
  \/ open_stamp_bits(t) \/ open_stamp_profile(t)

Overtaking ==
  overtaken' = {t \in Threads : pc'[t] # "idle" /\ (t \in overtaken \/ field_bits' # field_bits)}

Next ==
  /\ \/ \E t \in Threads : Request(t) \/ Step(t) \/ statement_fails(t)
     \/ crash \/ close \/ Done
  /\ Overtaking

Spec == Init /\ [][Next]_vars

\* A thread inside a call keeps running.
FairSpec == Spec /\ \A t \in Threads : WF_vars(Step(t) /\ Overtaking)

-----------------------------------------------------------------------------
(* Properties. *)

\* Every variable has its type: field_bits is a value check_field_bits accepts
\* and an open transaction works on a well-formed file.
TypeOK ==
  /\ db \in Files /\ tx \in Files \cup {NULL}
  /\ lock \in Threads \cup {NULL}
  /\ alive \in BOOLEAN /\ options \in Profiles /\ field_bits \in FieldBits
  /\ pc \in [Threads -> Labels] /\ call \in [Threads -> Calls]
  /\ calls \in 0 .. MaxCalls /\ faults \in 0 .. MaxFaults

\* docs and entries hold the same document at i, or neither holds one.
Agree(d, i) == d.docs[i] = IF d.entries[i] = NULL THEN NULL ELSE d.entries[i].norm

\* The FTS table and entries can only disagree on a document whose last index,
\* remove or remove_record was cut short between its autocommitted statements
\* (index, remove, clear_id_range): no interleaving, no failed transaction, no
\* stale range of a record call and no crash elsewhere separates them.
TablesAgree == \A i \in Id \ db.torn : Agree(db, i)

\* Without failures the two tables agree on every document whenever the
\* connection mutex is free, so every search sees both or neither.
InSync == faults = 0 /\ lock = NULL => \A i \in Id : Agree(db, i)

\* An index that reindexStatus calls UpToDate for a profile holds no row, of
\* those whose raw text was kept, that is normalized otherwise, at every moment
\* a crash could expose: between the two stamps of open, inside reindex, after
\* adopting an empty index.
NormalizedAsStamped ==
  \A p \in Profiles : reindex_status_for(db, p) = "UpToDate" =>
    \A i \in Stored(db) :
      db.entries[i].raw # NULL => db.entries[i].norm = Normalize(p, db.entries[i].raw)

\* An open engine's options and atomic are the ones stamped in its file, except
\* between change_field_bits' commit and its store.
StampsMatch ==
  alive => /\ db.profile = options
           /\ \/ db.bits = field_bits
              \/ \E t \in Threads : Locked(t, "store") /\ db.bits = call[t].arg

\* What the stored ids mean: the text of each (record, slot).
Meaning(d) ==
  LET b == stored_field_bits(d)
  IN  {<<record_of(i, b), slot_bits(i, b), d.entries[i].norm, d.entries[i].raw>> :
         i \in Stored(d)}

\* change_field_bits moves every document to a new id and loses or alters none:
\* a step that changes the stored encoding (its commit, or open stamping a value)
\* keeps each (record, slot) and its text, whatever ids were stored.
RepackKeepsRecords == [][db'.bits # db.bits => Meaning(db') = Meaning(db)]_vars

\* A record call in its locked section works on the ids its record owns under
\* the active field_bits (record_id_range's contract).
RangeIsActive ==
  \A t \in Threads :
    lock = t /\ call[t].todo # <<>>
      /\ call[t].op \in {"index_record", "remove_record", "contains_record"} =>
    LET lo == range_lo(Head(call[t].todo).record, field_bits)
    IN  call[t].ids = lo .. range_hi(lo, field_bits)

\* A record search names only records its hits belonged to when it read them.
HitsNameTheirRecords == \A t \in Threads : call[t].found \subseteq call[t].owners

\* What makes an instance safe to share between threads, with change_field_bits
\* among their calls: no record call writes, deletes, looks in or answers with
\* another record than the one it is about.
SafeToShare == RangeIsActive /\ HitsNameTheirRecords

\* Every call returns: no path of a locked section keeps the mutex.
CallsReturn == \A t \in Threads : pc[t] # "idle" ~> pc[t] = "idle"
=============================================================================
