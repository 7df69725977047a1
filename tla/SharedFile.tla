----------------------------- MODULE SharedFile -----------------------------
(***************************************************************************)
(* Several SearchEngine objects (core/src/engine.rs) on one index file: a  *)
(* second process, or a second handle of one.  Each has a connection of    *)
(* its own, so nothing but SQLite's write lock orders their statements:    *)
(* a statement outside a transaction is one step; a transaction, whose     *)
(* first statement writes, is one step; and what a call has read or        *)
(* resolved before is not looked at again.  An engine makes one call at a  *)
(* time here; threads are SearchEngine's subject.                          *)
(***************************************************************************)
EXTENDS IndexFile, Normalize

CONSTANTS
  Engines,
  Presets, OptionSets,  \* what hosts open the file with: named presets, sets of steps,
  Requests,             \* ... and field_bits, or NULL for those of the file
  Texts,                \* raw host texts
  DocIds, ItemLists,    \* what they index by id, alone and in batches,
  RecordIds, FieldSets, RecordLists,  \* ... as records, and in batches of records
  NewBits,
  LegacyIds,            \* documents a file from before raw text may hold
  MaxCalls, MaxFaults   \* bounds on a behaviour's calls, and on its failures

Configurations == OptionSets \cup {preset(p) : p \in Presets}

\* The normalizer each configuration builds.
Norm == [o \in Configurations, x \in Texts |-> normalize(x, o)]

\* The rows of entries; one from before raw text has none.
Norms == UNION {{Norm[o, x] : x \in Texts} : o \in Configurations}
Rows == [norm : Norms, raw : Texts \cup {NULL}]

Profiles == {fingerprint(o) : o \in Configurations}

ASSUME SharedAssumption ==
  /\ "Loose" \in Presets /\ Presets \subseteq NormalizeProfiles
  /\ OptionSets \subseteq SUBSET Options
  /\ Requests \subseteq Int \cup {NULL}
  /\ DocIds \subseteq Id /\ LegacyIds \subseteq Id
  /\ ItemLists \subseteq Seq([id : Id, text : Texts])
  /\ \A f \in FieldSets : DOMAIN f \subseteq Nat /\ \A s \in DOMAIN f : f[s] \in Texts
  /\ RecordLists \subseteq Seq([record : Int, fields : FieldSets])
  /\ MaxCalls \in Nat /\ MaxFaults \in Nat
  /\ Loose = fingerprint(preset("Loose"))
  /\ NULL \notin Rows /\ NULL \notin Profiles /\ NULL \notin Int

VARIABLES
  db,          \* the file
  pc,          \* where each engine is: closed, open, or inside a call
  options,     \* its NormalizeOptions
  field_bits,  \* its atomic
  call,        \* the arguments and locals of its call
  calls, faults,
  mixed,       \* ghost: two engines have been past their checks at once with
               \* different options or field_bits
  contested    \* ghost: ids written by an engine while a call of another was
               \* between two steps on them

vars == <<db, pc, options, field_bits, call, calls, faults, mixed, contested>>

NoCall == [op |-> "none", ids |-> {}, text |-> NULL, arg |-> NULL,
           rebuild |-> FALSE, seen |-> [i \in Id |-> NULL]]

-----------------------------------------------------------------------------
\* A row as engine e writes it.
Row(e, x) == [norm |-> Norm[options[e], x], raw |-> x]

\* The ids whose rows the call of e has read.
Seen(e) == {i \in Id : call[e].seen[i] # NULL}

\* The ids an engine's unfinished call has read or written and will write.
InFlight(e) ==
  IF pc[e] \in {"ins_docs", "ins_entries", "del_entries"} THEN call[e].ids
  ELSE IF pc[e] = "regenerate" THEN Seen(e)
  ELSE IF pc[e] = "repack" THEN Id ELSE {}

Others(e) == UNION {InFlight(f) : f \in Engines \ {e}}

\* The checks a constructor has passed bind its engine from then on.
HasBits == {"count_profile", "read_profile", "stamp_bits", "stamp_profile", "select",
            "regenerate", "repack", "open", "ins_docs", "ins_entries",
            "del_docs", "del_entries"}
HasOptions == HasBits \ {"count_profile", "read_profile"}

Differ(e, f) ==
  \/ pc[e] \in HasBits /\ pc[f] \in HasBits /\ field_bits[e] # field_bits[f]
  \/ pc[e] \in HasOptions /\ pc[f] \in HasOptions /\ options[e] # options[f]

Goto(e, label) == pc' = [pc EXCEPT ![e] = label]

\* A write of e to the ids S, the last of a call when the call returns after it.
Write(e, image, S) == db' = image /\ contested' = contested \cup (S \cap Others(e))

Return(e) == Goto(e, "open") /\ call' = [call EXCEPT ![e] = NoCall]

Closed(e) ==
  /\ Goto(e, "closed")
  /\ call' = [call EXCEPT ![e] = NoCall]
  /\ options' = [options EXCEPT ![e] = {}]
  /\ field_bits' = [field_bits EXCEPT ![e] = DefaultBits]

Config == UNCHANGED <<options, field_bits>>
File == UNCHANGED <<db, contested>>
Bounds == UNCHANGED <<calls, faults>>

-----------------------------------------------------------------------------
(* The constructors: the schema is in place, the checks are four reads. *)

open(e, o, requested, rebuild) ==
  /\ pc[e] = "closed" /\ calls < MaxCalls
  /\ requested # NULL => check_field_bits(requested)
  /\ Goto(e, "count_bits")
  /\ options' = [options EXCEPT ![e] = o]
  /\ call' = [call EXCEPT ![e] = [NoCall EXCEPT !.op = "open", !.arg = requested,
                                                !.rebuild = rebuild]]
  /\ calls' = calls + 1
  /\ UNCHANGED <<field_bits, faults>> /\ File

\* SearchEngine::new
new_default(e) == open(e, preset("Loose"), NULL, FALSE)

with_config(e) == \E p \in Presets, b \in Requests : open(e, preset(p), b, FALSE)

with_config_rebuilding(e) == \E p \in Presets, b \in Requests : open(e, preset(p), b, TRUE)

with_options(e) == \E o \in OptionSets, b \in Requests : open(e, o, b, FALSE)

with_options_rebuilding(e) == \E o \in OptionSets, b \in Requests : open(e, o, b, TRUE)

\* stored_field_bits: an empty index takes any value ...
count_for_bits(e) ==
  /\ pc[e] = "count_bits"
  /\ IF Stored(db) = {}
     THEN /\ field_bits' = [field_bits EXCEPT ![e] =
                              IF call[e].arg = NULL THEN DefaultBits ELSE call[e].arg]
          /\ Goto(e, "count_profile")
     ELSE Goto(e, "read_bits") /\ UNCHANGED field_bits
  /\ UNCHANGED <<options, call>> /\ File /\ Bounds

StampedBits == IF db.bits = NULL THEN DefaultBits ELSE db.bits

\* Mutant: a request wins over what the index was built with.
read_bits_unchecked(e) ==
  /\ pc[e] = "read_bits"
  /\ field_bits' = [field_bits EXCEPT ![e] =
                      IF call[e].arg = NULL THEN StampedBits ELSE call[e].arg]
  /\ Goto(e, "count_profile") /\ UNCHANGED <<options, call>>
  /\ File /\ Bounds

\* ... any other must have the one requested, if one is.
read_bits(e) ==
  /\ pc[e] = "read_bits"
  /\ IF call[e].arg \in {NULL, StampedBits}
     THEN /\ field_bits' = [field_bits EXCEPT ![e] = StampedBits]
          /\ Goto(e, "count_profile") /\ UNCHANGED <<options, call>>
     ELSE Closed(e)
  /\ File /\ Bounds

\* stored_profile, alike
count_for_profile(e) ==
  /\ pc[e] = "count_profile"
  /\ Goto(e, IF Stored(db) = {} THEN "stamp_bits" ELSE "read_profile")
  /\ call' = [call EXCEPT ![e].rebuild = @ /\ Stored(db) # {}]
  /\ Config /\ File /\ Bounds

\* From here on rebuild says that the rows have to be regenerated.
read_profile(e) ==
  LET mismatch == (IF db.profile = NULL THEN Loose ELSE db.profile) # fingerprint(options[e])
  IN  /\ pc[e] = "read_profile"
      /\ IF mismatch /\ ~ call[e].rebuild
         THEN Closed(e)
         ELSE /\ Goto(e, "stamp_bits")
              /\ call' = [call EXCEPT ![e].rebuild = mismatch]
              /\ Config
      /\ File /\ Bounds

write_bits(e) ==
  /\ pc[e] = "stamp_bits"
  /\ Write(e, stamp_field_bits(db, field_bits[e]), {})
  /\ Goto(e, IF call[e].rebuild THEN "select" ELSE "stamp_profile")
  /\ UNCHANGED call /\ Config /\ Bounds

write_profile(e) ==
  /\ pc[e] = "stamp_profile"
  /\ Write(e, stamp_profile(db, fingerprint(options[e])), {})
  /\ Return(e)
  /\ Config /\ Bounds

-----------------------------------------------------------------------------
(* Calls on an open engine. *)

Begin(e, c, label) ==
  /\ pc[e] = "open" /\ calls < MaxCalls
  /\ calls' = calls + 1
  /\ call' = [call EXCEPT ![e] = c]
  /\ Goto(e, label)
  /\ UNCHANGED faults /\ Config /\ File

index(e) == \E id \in DocIds, x \in Texts :
  Begin(e, [NoCall EXCEPT !.op = "index", !.ids = {id}, !.text = x], "del_docs")

remove(e) == \E id \in DocIds :
  Begin(e, [NoCall EXCEPT !.op = "remove", !.ids = {id}], "del_docs")

record_id_range(e, r) ==
  LET lo == range_lo(r, field_bits[e]) IN lo .. range_hi(lo, field_bits[e])

remove_record(e) == \E r \in RecordIds : r \in 0 .. max_record_id(field_bits[e]) /\
  Begin(e, [NoCall EXCEPT !.op = "remove_record", !.ids = record_id_range(e, r)], "del_docs")

reindex(e) == Begin(e, [NoCall EXCEPT !.op = "reindex"], "select")

change_field_bits(e) == \E b \in NewBits : check_field_bits(b) /\ b # field_bits[e] /\
  Begin(e, [NoCall EXCEPT !.op = "change_field_bits", !.arg = b], "select")

\* index, remove and remove_record, a statement a step
delete_docs(e) ==
  /\ pc[e] = "del_docs"
  /\ Write(e, Begun(DeleteDocs(db, call[e].ids), call[e].ids), call[e].ids)
  /\ Goto(e, IF call[e].op = "index" THEN "ins_docs" ELSE "del_entries")
  /\ UNCHANGED call /\ Config /\ Bounds

IndexRow(e) == [i \in call[e].ids |-> Row(e, call[e].text)]

\* Another engine may have put a row with that id back: the INSERT fails.
insert_docs(e) ==
  /\ pc[e] = "ins_docs"
  /\ IF \E i \in call[e].ids : db.docs[i] # NULL
     THEN Return(e) /\ File
     ELSE /\ Write(e, InsertDocs(db, IndexRow(e)), call[e].ids)
          /\ Goto(e, "ins_entries") /\ UNCHANGED call
  /\ Config /\ Bounds

replace_entries(e) ==
  /\ pc[e] = "ins_entries"
  /\ Write(e, Completed(ReplaceEntries(db, IndexRow(e)), call[e].ids), call[e].ids)
  /\ Return(e)
  /\ Config /\ Bounds

delete_entries(e) ==
  /\ pc[e] = "del_entries"
  /\ Write(e, Completed(DeleteEntries(db, call[e].ids), call[e].ids), call[e].ids)
  /\ Return(e)
  /\ Config /\ Bounds

\* A call that is one transaction, and leaves both tables right for the ids S.
Transact(e, image, S) ==
  /\ pc[e] = "open" /\ calls < MaxCalls
  /\ calls' = calls + 1
  /\ db' = image
  /\ contested' = (contested \ S) \cup (S \cap Others(e))
  /\ UNCHANGED <<pc, call, faults>> /\ Config

\* An item replaces one of the same id before it.
index_batch(e) == \E items \in ItemLists :
  LET ids == {items[k].id : k \in DOMAIN items}
      last(i) == CHOOSE k \in DOMAIN items :
                   items[k].id = i /\ \A m \in DOMAIN items : m > k => items[m].id # i
      rows == [i \in ids |-> Row(e, items[last(i)].text)]
  IN  Transact(e, WriteRows(clear_ids(db, ids), rows), ids)

remove_batch(e) == Transact(e, clear_ids(db, DocIds), DocIds)

remove_all(e) == Transact(e, clear_ids(db, Id), Id)

\* Every record is cleared and written from its fields that are not blank, once
\* all have been found valid; one replaces the same record before it.
WriteRecords(e, records) ==
  LET b == field_bits[e]
      replaced(k) == \E m \in DOMAIN records : m > k /\ records[m].record = records[k].record
      live(k) == {s \in DOMAIN records[k].fields : Norm[options[e], records[k].fields[s]] # <<>>}
      items == UNION {{[id |-> pack(records[k].record, s, b), text |-> records[k].fields[s]] :
                         s \in live(k)} : k \in {m \in DOMAIN records : ~ replaced(m)}}
      rows == [i \in {x.id : x \in items} |-> Row(e, (CHOOSE x \in items : x.id = i).text)]
      ids == UNION {record_id_range(e, records[k].record) : k \in DOMAIN records}
  IN  /\ \A k \in DOMAIN records :
           /\ records[k].record \in 0 .. max_record_id(b)
           /\ \A s \in DOMAIN records[k].fields : s < 2^b
      /\ Transact(e, WriteRows(clear_ids(db, ids), rows), ids)

index_record(e) == \E r \in RecordIds, fields \in FieldSets :
  WriteRecords(e, <<[record |-> r, fields |-> fields]>>)

index_records_batch(e) == \E records \in RecordLists : WriteRecords(e, records)

\* reindex and change_field_bits read every row before they open the
\* transaction that writes them back.
select_rows(e) ==
  LET repacks == call[e].op = "change_field_bits"
      S == {i \in Stored(db) : repacks \/ db.entries[i].raw # NULL}
  IN  /\ pc[e] = "select"
      /\ IF repacks /\ RepackRejected(db, field_bits[e], call[e].arg)
         THEN Return(e)
         ELSE /\ call' = [call EXCEPT ![e].seen =
                             [i \in Id |-> IF i \in S THEN db.entries[i] ELSE NULL]]
              /\ Goto(e, IF repacks THEN "repack" ELSE "regenerate")
      /\ Config /\ File /\ Bounds

\* UPDATE changes the norm of a row that is there; the row of docs is replaced
\* in any case.
Regenerated(e, d) ==
  LET rows == [i \in Seen(e) |-> Row(e, call[e].seen[i].raw)]
      updated == [i \in Seen(e) \cap Stored(d) |->
                    [norm |-> rows[i].norm, raw |-> d.entries[i].raw]]
  IN  Completed(ReplaceEntries(InsertDocs(d, rows), updated), Seen(e))

\* Mutant: leaves the key of the old normalization.
regenerate_unstamped(e) ==
  /\ pc[e] = "regenerate"
  /\ Write(e, Regenerated(e, db), Seen(e))
  /\ Return(e)
  /\ Config /\ Bounds

regenerate(e) ==
  /\ pc[e] = "regenerate"
  /\ Write(e, stamp_profile(Regenerated(e, db), fingerprint(options[e])), Seen(e))
  /\ Return(e)
  /\ Config /\ Bounds

\* Both tables are emptied and filled from what was read; the atomic follows.
repack(e) ==
  LET old == field_bits[e]
      new == call[e].arg
  IN  /\ pc[e] = "repack"
      /\ db' = Repacked([db EXCEPT !.entries = call[e].seen], old, new)
      /\ contested' = contested \cup Others(e)
                        \cup {Repack(i, old, new) : i \in {j \in contested : Fits(j, old, new)}}
      /\ field_bits' = [field_bits EXCEPT ![e] = new]
      /\ Return(e)
      /\ UNCHANGED options /\ Bounds

-----------------------------------------------------------------------------
(* Ends. *)

\* A statement fails, a constructor with it.
call_fails(e) ==
  /\ pc[e] \notin {"closed", "open"} /\ faults < MaxFaults
  /\ faults' = faults + 1
  /\ IF call[e].op = "open" THEN Closed(e) ELSE Return(e) /\ Config
  /\ UNCHANGED calls /\ File

\* The engine's process dies.
dies(e) ==
  /\ pc[e] # "closed" /\ faults < MaxFaults
  /\ faults' = faults + 1
  /\ Closed(e)
  /\ UNCHANGED calls /\ File

close(e) == pc[e] = "open" /\ Closed(e) /\ File /\ Bounds

Init ==
  /\ \E S \in {{}, LegacyIds}, x \in Texts :
       LET norm == Norm[preset("Loose"), x]
       IN  db = [docs |-> [i \in Id |-> IF i \in S THEN norm ELSE NULL],
                 entries |-> [i \in Id |-> IF i \in S THEN [norm |-> norm, raw |-> NULL] ELSE NULL],
                 profile |-> NULL, bits |-> NULL, torn |-> {}]
  /\ pc = [e \in Engines |-> "closed"]
  /\ options = [e \in Engines |-> {}]
  /\ field_bits = [e \in Engines |-> DefaultBits]
  /\ call = [e \in Engines |-> NoCall]
  /\ calls = 0 /\ faults = 0 /\ mixed = FALSE /\ contested = {}

Step(e) ==
  \/ new_default(e) \/ with_config(e) \/ with_config_rebuilding(e)
  \/ with_options(e) \/ with_options_rebuilding(e)
  \/ count_for_bits(e) \/ read_bits(e) \/ count_for_profile(e) \/ read_profile(e)
  \/ write_bits(e) \/ write_profile(e)
  \/ index(e) \/ remove(e) \/ remove_record(e) \/ reindex(e) \/ change_field_bits(e)
  \/ delete_docs(e) \/ insert_docs(e) \/ replace_entries(e) \/ delete_entries(e)
  \/ index_batch(e) \/ remove_batch(e) \/ remove_all(e)
  \/ index_record(e) \/ index_records_batch(e)
  \/ select_rows(e) \/ regenerate(e) \/ repack(e)
  \/ call_fails(e) \/ dies(e) \/ close(e)

Next ==
  /\ \E e \in Engines : Step(e)
  /\ mixed' = (mixed \/ \E e, f \in Engines : Differ(e, f)')

Spec == Init /\ [][Next]_vars

-----------------------------------------------------------------------------
(* Properties. *)

IsOpen(e) == pc[e] \in HasOptions /\ call[e].op # "open"

Labels == HasBits \cup {"closed", "count_bits", "read_bits"}
Ops == {"none", "open", "index", "remove", "remove_record", "reindex", "change_field_bits"}

Files == [docs : [Id -> Norms \cup {NULL}], entries : [Id -> Rows \cup {NULL}],
          profile : Profiles \cup {NULL}, bits : FieldBits \cup {NULL}, torn : SUBSET Id]
Calls == [op : Ops, ids : SUBSET Id, text : Texts \cup {NULL}, arg : FieldBits \cup {NULL},
          rebuild : BOOLEAN, seen : [Id -> Rows \cup {NULL}]]

\* An engine's field_bits is one check_field_bits accepts, what the file is
\* stamped with is an encoding and the key of some configuration, and a call
\* holds rows of the file's type.
TypeOK ==
  /\ db \in Files
  /\ pc \in [Engines -> Labels]
  /\ options \in [Engines -> Configurations \cup {{}}]
  /\ field_bits \in [Engines -> FieldBits]
  /\ call \in [Engines -> Calls]
  /\ calls \in 0 .. MaxCalls /\ faults \in 0 .. MaxFaults
  /\ mixed \in BOOLEAN /\ contested \in SUBSET Id

\* Whatever engines do to the file at once, docs and entries hold the same
\* documents, but for ids whose last autocommitted write was cut short and ids
\* that two engines were writing at the same time.
TablesAgree ==
  \A i \in Id \ (db.torn \cup contested) :
    db.docs[i] = IF db.entries[i] = NULL THEN NULL ELSE db.entries[i].norm

\* The fingerprint check of the constructors keeps normalizations apart: while
\* no two engines have been open on the file under different configurations at
\* once, an open engine finds every row normalized the way it normalizes queries
\* (withConfig, withOptions and their rebuilding forms; rows without raw text
\* cannot be regenerated).
RowsAsOpened ==
  ~ mixed => \A e \in Engines : IsOpen(e) =>
    \A i \in Stored(db) \ contested :
      db.entries[i].raw # NULL => db.entries[i].norm = Norm[options[e], db.entries[i].raw]

\* ... and then it finds its own configuration stamped in the file.
StampsMatch ==
  ~ mixed => \A e \in Engines : IsOpen(e) =>
    db.profile = fingerprint(options[e]) /\ db.bits = field_bits[e]

\* Where a step changes the encoding the file is stamped with, every document
\* that no other engine touched meanwhile keeps its record, slot and text: a
\* constructor never relabels stored ids, and change_field_bits moves them all.
KeepsRecords ==
  LET b == stored_field_bits(db)
  IN  ~ mixed /\ b # NULL /\ db'.bits \notin {NULL, b} =>
        \A i \in Stored(db) \ contested :
          /\ Fits(i, b, db'.bits)
          /\ db'.entries[Repack(i, b, db'.bits)] = db.entries[i]

EncodingKeepsRecords == [][KeepsRecords]_vars
=============================================================================
