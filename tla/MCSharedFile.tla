---------------------------- MODULE MCSharedFile ----------------------------
(* Small instances of SharedFile for TLC. *)
EXTENDS SharedInvariant, TLC

CONSTANTS e1, e2

Symmetric == Permutations(Engines)

\* The "loose" preset, and a set of steps that contains it.
MCLoose == fingerprint(preset("Loose"))
MCOptionSets == {preset("Loose") \cup {"collapse_whitespace"}}

MCTexts == {<<"KA", "space">>, <<"A", "space">>}
MCItemLists == {<<[id |-> 2, text |-> <<"KA", "space">>], [id |-> 3, text |-> <<"A", "space">>]>>}
Fields == [s \in {0, 1} |-> <<"A", "space">>]
HighField == [s \in {3} |-> <<"KA", "space">>]
MCFieldSets == {Fields, HighField}

\* Two records, and one record twice.
MCRecordLists ==
  {<<[record |-> 1, fields |-> Fields], [record |-> 0, fields |-> Fields]>>,
   <<[record |-> 1, fields |-> HighField], [record |-> 1, fields |-> Fields]>>}
=============================================================================
