-------------------------- MODULE EngineInvariant --------------------------
(***************************************************************************)
(* The inductive invariants behind SearchEngine's safety properties.       *)
(***************************************************************************)
EXTENDS SearchEngine

MidIndex == {"ins_docs", "ins_entries"}
MidWrite == MidIndex \cup {"del_entries"}
RecordOps == {"index_record", "index_records_batch", "remove_record", "contains_record"}

LockedLabels == MidWrite \cup {"del_docs", "contains", "search", "tx", "repack",
                               "store", "reindex", "stamp_bits", "stamp_profile"}

\* The mutex holder is the one thread inside a locked section, and a
\* transaction is open exactly while it is in a transaction's loop.
LockOK ==
  /\ \A t \in Threads : pc[t] \in LockedLabels <=> lock = t
  /\ tx # NULL <=> \E t \in Threads : pc[t] = "tx"

\* A call's arguments fit its operation and the step it is at.
CallOK(t) ==
  LET c == call[t]
  IN  /\ c.op = "index" => c.text \in Texts
      /\ c.op = "index_batch" => c.todo \in Seq(Items)
      /\ c.op = "remove_batch" => c.todo \in Seq(Removals)
      /\ c.op \in RecordOps => c.todo \in Seq(Records)
      /\ pc[t] \in {"max", "lo"} => c.op \in RecordOps /\ c.todo # <<>>
      /\ pc[t] \in MidIndex => c.op = "index"

\* What each step of index, remove and remove_record may assume of the file.
WriteOK(t) ==
  LET c == call[t]
  IN  /\ pc[t] \in MidWrite => c.ids \subseteq db.torn
      /\ pc[t] = "ins_entries" =>
           \A i \in c.ids : db.docs[i] = Normalize(options, c.text)
      /\ pc[t] = "del_entries" => \A i \in c.ids : db.docs[i] = NULL

\* The tables of an image agree wherever no write is unfinished.
AgreeOutsideTorn(d) == \A i \in Id \ d.torn : Agree(d, i)

\* Without faults the only unfinished write is the mutex holder's.
TornOK ==
  faults = 0 =>
    /\ \A i \in db.torn : \E t \in Threads : pc[t] \in MidWrite /\ i \in call[t].ids
    /\ tx # NULL => tx.torn = {}

\* Everything InSync and TablesAgree need to be inductive: who holds the mutex,
\* how far the holder's autocommitted write has come, and that the image inside
\* a transaction keeps the two tables together as the file does.
TablesInv ==
  /\ TypeOK /\ LockOK
  /\ \A t \in Threads : CallOK(t) /\ WriteOK(t)
  /\ AgreeOutsideTorn(db)
  /\ tx # NULL => AgreeOutsideTorn(tx)
  /\ TornOK

-----------------------------------------------------------------------------
(* What NormalizedAsStamped and StampsMatch need to be inductive, on top of
   TablesInv.                                                                *)

\* The profile a file's rows are taken to be normalized under.
StampedProfile(d) == IF d.profile = NULL THEN Loose ELSE d.profile

\* Every row of d that kept its raw text is normalized under p.
NormalizedUnder(d, p) ==
  \A i \in Id : d.entries[i] # NULL /\ d.entries[i].raw # NULL =>
    d.entries[i].norm = Normalize(p, d.entries[i].raw)

\* An open engine's file is stamped with its configuration, but for the atomic
\* while change_field_bits has yet to store it.
FileStamps ==
  /\ NormalizedUnder(db, StampedProfile(db))
  /\ alive => db.profile = options
  /\ alive => db.bits = field_bits \/ \E t \in Threads : pc[t] = "store"

\* A transaction's image is under the engine's normalization from its BEGIN on.
ImageStamps ==
  tx # NULL => tx.profile = options /\ NormalizedUnder(tx, options)

\* How far each call has come with the stamps: open writes field_bits first and
\* the profile last, in its reindex if the rows have to change.
CallStamps(t) ==
  LET c == call[t]
      opening == c.op = "open"
  IN  /\ pc[t] \in {"stamp_bits", "stamp_profile"} => opening
      /\ opening => ~ alive /\ pc[t] \in {"stamp_bits", "stamp_profile", "reindex", "tx"}
      /\ pc[t] # "idle" => opening \/ alive
      /\ opening /\ ~ c.mismatch => NormalizedUnder(db, options)
      /\ pc[t] = "stamp_profile" => ~ c.mismatch
      /\ pc[t] \in {"stamp_profile", "reindex"} => db.bits = field_bits
      /\ pc[t] = "reindex" => opening \/ c.op = "reindex"
      /\ pc[t] = "repack" => c.op = "change_field_bits"
      /\ pc[t] = "tx" =>
           tx.bits = IF c.op = "change_field_bits" THEN c.arg ELSE field_bits
      /\ pc[t] = "store" => db.bits = c.arg

StampsInv == FileStamps /\ ImageStamps /\ \A t \in Threads : CallStamps(t)

-----------------------------------------------------------------------------
(* What RepackKeepsRecords needs as well: the stored encoding changes only
   where the rows change with it, or where there are none.                   *)

\* open adopts the encoding of the rows it found; a transaction starts from a
\* file of the engine's encoding, and change_field_bits' image is that file
\* repacked, every row of it having fitted.
EncodingOK(t) ==
  LET new == call[t].arg
  IN  /\ pc[t] = "stamp_bits" => stored_field_bits(db) \in {NULL, field_bits}
      /\ pc[t] = "tx" => db.bits = field_bits
      /\ pc[t] = "tx" /\ call[t].op = "change_field_bits" =>
           tx = Repacked(db, field_bits, new) /\ ~ RepackRejected(db, field_bits, new)

EncodingInv == StampsInv /\ \A t \in Threads : EncodingOK(t)
=============================================================================
