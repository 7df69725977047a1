----------------------------- MODULE IndexFile -----------------------------
(***************************************************************************)
(* The index file (core/src/engine.rs): the FTS table `docs`, the table    *)
(* `entries`, the meta keys normalize_profile and field_bits, and the      *)
(* statements of the engine as functions from one image d of the file to   *)
(* the next.  d.torn is a ghost: the ids on which a write of several       *)
(* statements outside a transaction has begun and not completed.           *)
(***************************************************************************)
EXTENDS Packing

CONSTANTS NULL,
          Loose    \* the fingerprint assumed for a file that has none

Stored(d) == {i \in Id : d.entries[i] # NULL}

\* DELETE FROM docs / entries WHERE the id is in S.
DeleteDocs(d, S) ==
  [d EXCEPT !.docs = [i \in Id |-> IF i \in S THEN NULL ELSE d.docs[i]]]

DeleteEntries(d, S) ==
  [d EXCEPT !.entries = [i \in Id |-> IF i \in S THEN NULL ELSE d.entries[i]]]

\* INSERT INTO docs, INSERT OR REPLACE INTO entries: the rows of f, a function
\* on the ids written.
InsertDocs(d, f) ==
  [d EXCEPT !.docs = [i \in Id |-> IF i \in DOMAIN f THEN f[i].norm ELSE d.docs[i]]]

ReplaceEntries(d, f) ==
  [d EXCEPT !.entries = [i \in Id |-> IF i \in DOMAIN f THEN f[i] ELSE d.entries[i]]]

Begun(d, S) == [d EXCEPT !.torn = @ \cup S]
Completed(d, S) == [d EXCEPT !.torn = @ \ S]

\* The statements a transaction writes the rows of f to both tables with; their
\* order cannot be seen from outside it.
WriteRows(d, f) == ReplaceEntries(InsertDocs(d, f), f)

stored_profile(d) ==
  IF Stored(d) = {} THEN NULL ELSE IF d.profile = NULL THEN Loose ELSE d.profile

stored_field_bits(d) ==
  IF Stored(d) = {} THEN NULL ELSE IF d.bits = NULL THEN DefaultBits ELSE d.bits

\* Opening a connection to ask changes nothing in a file of the current schema.
reindex_status_for(d, p) ==
  IF stored_profile(d) = NULL THEN "Empty"
  ELSE IF stored_profile(d) = p THEN "UpToDate" ELSE "ConfigChanged"

stamp_profile(d, p) == [d EXCEPT !.profile = p]
stamp_field_bits(d, b) == [d EXCEPT !.bits = b]

\* Mutant: forgets the entries table.
clear_ids_docs_only(d, S) == Completed(DeleteDocs(d, S), S)

\* clear_id_range() inside a transaction; also remove_batch's and remove_all's
\* statements.
clear_ids(d, S) == Completed(DeleteEntries(DeleteDocs(d, S), S), S)

\* change_field_bits(): where a stored id goes, and whether every one of them fits.
Repack(id, old, new) == pack(record_of(id, old), slot_bits(id, old), new)

\* Mutant: does not check that the slot fits the narrower encoding.
Fits_any_slot(id, old, new) == id >= 0 /\ record_of(id, old) <= max_record_id(new)

Fits(id, old, new) ==
  /\ id >= 0
  /\ slot_bits(id, old) < 2^new
  /\ record_of(id, old) <= max_record_id(new)

\* Mutant: does not stamp the new encoding.
Repacked_unstamped(d, old, new) ==
  LET from(i) == {j \in Stored(d) : Repack(j, old, new) = i}
      rows == [i \in {k \in Id : from(k) # {}} |-> d.entries[CHOOSE j \in from(i) : TRUE]]
  IN  WriteRows(clear_ids(d, Id), rows)

\* Both tables are emptied and filled again from the old rows of entries.
Repacked(d, old, new) ==
  LET from(i) == {j \in Stored(d) : Repack(j, old, new) = i}
      rows == [i \in {k \in Id : from(k) # {}} |-> d.entries[CHOOSE j \in from(i) : TRUE]]
  IN  stamp_field_bits(WriteRows(clear_ids(d, Id), rows), new)

RepackRejected(d, old, new) ==
  \/ \E i \in Stored(d) : ~ Fits(i, old, new)
  \/ \E i, j \in Stored(d) : i # j /\ Repack(i, old, new) = Repack(j, old, new)
=============================================================================
