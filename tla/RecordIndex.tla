---------------------------- MODULE RecordIndex ----------------------------
(***************************************************************************)
(* What the index promises a host, with no tables, transactions, locks or  *)
(* packed ids that move: the text last given for each (record, slot).      *)
(* Every operation is one step.  Document ids are the keys of the plain    *)
(* API; they name the same records and slots through the encoding in force.*)
(***************************************************************************)
EXTENDS Packing, Sequences

CONSTANTS Profiles, Texts, Normalize(_, _), EmptyNorm, NULL,
          DocIds, ItemLists, IdLists, RecordIds, FieldLists, RecordLists, LegacyIds

VARIABLES recs,     \* a set of <<record, slot, text>> (NULL: from before raw was kept)
          bits,     \* the encoding of document ids
          profile   \* the normalization in force

vars == <<recs, bits, profile>>

-----------------------------------------------------------------------------
(* On sets of entries R, under an encoding b and a normalization p. *)

\* The entry of a document.
Entry(id, x, b) == <<record_of(id, b), slot_bits(id, b), x>>

\* What is left without the documents of some ids, or without some records.
WithoutIds(R, ids, b) == {e \in R : \A id \in ids : e # Entry(id, e[3], b)}

WithoutRecords(R, rs) == {e \in R : e[1] \notin rs}

\* The items of a list that no later one of the same id replaces.
LastOfId(items) ==
  {n \in DOMAIN items : \A m \in DOMAIN items : m > n => items[m].id # items[n].id}

LastOfRecord(records) ==
  {n \in DOMAIN records : \A m \in DOMAIN records : m > n => records[m].record # records[n].record}

\* The entries of a record: fields that normalize to nothing are dropped.
Entries(r, p) ==
  {<<r.record, r.fields[k].slot, r.fields[k].text>> :
     k \in {j \in DOMAIN r.fields : Normalize(p, r.fields[j].text) # EmptyNorm}}

ValidRecord(r, b) ==
  /\ r.record \in 0 .. max_record_id(b)
  /\ \A k \in DOMAIN r.fields : r.fields[k].slot < 2^b
  /\ \A j, k \in DOMAIN r.fields : j # k => r.fields[j].slot # r.fields[k].slot

\* What the lists of a batch make of R.
ItemsIndexed(R, items, b) ==
  WithoutIds(R, {items[n].id : n \in DOMAIN items}, b)
    \cup {Entry(items[n].id, items[n].text, b) : n \in LastOfId(items)}

IdsRemoved(R, ids, b) == WithoutIds(R, {ids[n].id : n \in DOMAIN ids}, b)

RecordsIndexed(R, records, p) ==
  WithoutRecords(R, {records[n].record : n \in DOMAIN records})
    \cup UNION {Entries(records[n], p) : n \in LastOfRecord(records)}

-----------------------------------------------------------------------------
Config == UNCHANGED <<bits, profile>>

IndexDoc == \E id \in DocIds, x \in Texts :
  recs' = WithoutIds(recs, {id}, bits) \cup {Entry(id, x, bits)} /\ Config

RemoveDoc == \E id \in DocIds : recs' = WithoutIds(recs, {id}, bits) /\ Config

IndexBatch == \E items \in ItemLists : recs' = ItemsIndexed(recs, items, bits) /\ Config

RemoveBatch == \E ids \in IdLists : recs' = IdsRemoved(recs, ids, bits) /\ Config

RemoveAll == recs' = {} /\ Config

\* All of the records, each replaced as a whole, or, when one of them is
\* invalid, none.
IndexRecords ==
  \E records \in RecordLists
       \cup {<<[record |-> r, fields |-> fs]>> : r \in RecordIds, fs \in FieldLists} :
    /\ \A n \in DOMAIN records : ValidRecord(records[n], bits)
    /\ recs' = RecordsIndexed(recs, records, profile)
    /\ Config

RemoveRecord == \E r \in RecordIds : recs' = WithoutRecords(recs, {r}) /\ Config

\* Reopening, reindexing and re-packing change how texts are normalized and
\* encoded, never what is stored.
Reconfigure == recs' = recs /\ bits' \in FieldBits /\ profile' \in Profiles

Init ==
  /\ bits \in FieldBits /\ profile \in Profiles
  /\ \E S \in {{}, LegacyIds} : recs = {Entry(i, NULL, bits) : i \in S}

Next ==
  \/ IndexDoc \/ RemoveDoc \/ IndexBatch \/ RemoveBatch \/ RemoveAll
  \/ IndexRecords \/ RemoveRecord \/ Reconfigure

Spec == Init /\ [][Next]_vars
=============================================================================
