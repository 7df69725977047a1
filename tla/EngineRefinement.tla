-------------------------- MODULE EngineRefinement --------------------------
(* SearchEngine implements RecordIndex. *)
EXTENDS EngineInvariant

\* The file read as a RecordIndex, through the stored encoding.
BitsInForce == IF db.bits = NULL THEN DefaultBits ELSE db.bits

\* The stored texts, under the record and slot of their ids.
Held(d, b) == {<<record_of(i, b), slot_bits(i, b), d.entries[i].raw>> : i \in Stored(d)}

Abstract == INSTANCE RecordIndex WITH
  recs <- Held(db, BitsInForce),
  bits <- BitsInForce,
  profile <- StampedProfile(db)

\* A file is, through every failure, crash and re-encoding, the index of records
\* that RecordIndex promises: each call takes effect whole and at once, or
\* not at all.  (Of the calls of one thread at a time.)
ImplementsRecordIndex == Abstract!Spec

\* With several threads every step that changes the records is one of the abstract
\* index's, unless the thread taking it is in a call that a change_field_bits of
\* another thread has overtaken (then see SafeToShare).
CallsTakeEffectAtOnce == [][lock \notin overtaken => Abstract!Next]_(Abstract!vars)

-----------------------------------------------------------------------------
(* What the two need to be inductive, on top of EncodingInv: how much of what
   its call promises a thread has done.                                      *)

TxOps == {"index_batch", "remove_batch", "remove_all", "index_record",
          "index_records_batch", "reindex", "change_field_bits", "open"}

OneRecord(r, fields) == <<[record |-> r, fields |-> fields]>>

\* The records that a call of index_record or index_records_batch is given.
RecordArguments(op) ==
  IF op = "index_record" THEN {OneRecord(r, fs) : r \in RecordIds, fs \in FieldLists}
                         ELSE RecordLists

ValidUnder(r, b) == r.record \in 0 .. max_record_id(b) /\ SlotsValid(r.fields, b)

AllValid(records, b) == \A n \in DOMAIN records : ValidUnder(records[n], b)

\* What a call still has to do is what it was asked to do ...
AsAsked(t) ==
  LET c == call[t]
  IN  /\ c.op \in {"index", "remove"} => \E id \in DocIds : c.ids = {id}
      /\ c.op = "remove_record" => \E r \in RecordIds : c.todo = OneRecord(r, <<>>)
      /\ c.op = "index_record" => Len(c.todo) <= 1
      /\ pc[t] # "tx" =>
           /\ c.op = "index_batch" => c.todo \in ItemLists
           /\ c.op = "remove_batch" => c.todo \in IdLists
           /\ c.op \in {"index_record", "index_records_batch"} =>
                c.todo \in RecordArguments(c.op)
      /\ pc[t] # "idle" => c.op # "none"
      /\ pc[t] = "hi" => c.op \in RecordOps
      /\ pc[t] = "del_docs" => c.op \in {"index", "remove", "remove_record"}
      /\ pc[t] = "del_entries" => c.op \in {"remove", "remove_record"}
      /\ pc[t] \in {"search", "decode"} => c.op \in {"search_records", "match_count_records"}
      /\ pc[t] = "tx" => c.op \in TxOps

\* ... a record call has checked and encoded its records with the one value of
\* field_bits ...
AsEncoded(t) ==
  LET c == call[t]
      lo == range_lo(c.todo[1].record, field_bits)
  IN  /\ c.op \in {"index_record", "index_records_batch"} => c.cap = field_bits
      /\ c.op \in {"index_record", "index_records_batch", "remove_record"}
           /\ pc[t] # "max" => AllValid(c.todo, field_bits)
      /\ c.op \in {"index_record", "remove_record"} /\ c.todo # <<>> =>
           /\ pc[t] \notin {"max", "lo"} => c.lo = lo
           /\ pc[t] \notin {"max", "lo", "hi"} =>
                c.ids = (lo .. range_hi(lo, field_bits)) \cap Id

\* ... and a transaction's image with what is left applied to it is the file
\* with all of the call applied to it.
AsPromised(t) ==
  LET c == call[t]
      b == BitsInForce
      image == Held(tx, b)
      file == Held(db, b)
  IN  pc[t] = "tx" =>
        /\ c.op = "index_batch" => \E items \in ItemLists :
             Abstract!ItemsIndexed(image, c.todo, b) = Abstract!ItemsIndexed(file, items, b)
        /\ c.op = "remove_batch" => \E ids \in IdLists :
             Abstract!IdsRemoved(image, c.todo, b) = Abstract!IdsRemoved(file, ids, b)
        /\ c.op \in {"index_record", "index_records_batch"} =>
             \E records \in RecordArguments(c.op) :
               /\ AllValid(records, field_bits)
               /\ Abstract!RecordsIndexed(image, c.todo, options)
                    = Abstract!RecordsIndexed(file, records, options)
        /\ c.op = "remove_all" => image = {}
        /\ c.op \in {"reindex", "open"} => image = file

EffectOK(t) ==
  /\ pc[t] = "idle" => call[t].op = "none"
  /\ t \notin overtaken \/ call[t].op = "open" => AsAsked(t) /\ AsEncoded(t) /\ AsPromised(t)

\* Everything the refinement needs to be inductive: a thread that no
\* change_field_bits has overtaken has done, of what its call promises, what its
\* place in the call says, and has the rest of it in its locals.
EffectsInv == EncodingInv /\ \A t \in Threads : EffectOK(t)
=============================================================================
