--------------------------- MODULE MCSearchEngine ---------------------------
(* Small instances of SearchEngine for TLC. *)
EXTENDS EngineRefinement, EngineInvariant, TLC

CONSTANTS a, blank, loose, strict

\* Two profiles that never agree on a non-blank text.
MCNormalize(p, x) == IF x = blank THEN <<>> ELSE <<p, x>>

MCEmptyNorm == <<>>

Field(s, x) == [slot |-> s, text |-> x]
Rec(r, fs) == [record |-> r, fields |-> fs]

ThreadSymmetry == Permutations(Threads)

MCFieldLists == {<<Field(0, a)>>, <<Field(1, blank), Field(3, a)>>,
                 <<Field(1, a), Field(1, a)>>}
MCRecordLists == {<<Rec(0, <<Field(1, a)>>), Rec(1, <<Field(0, a)>>)>>,
                  <<Rec(1, <<Field(2, a)>>)>>}
MCItemLists == {<<[id |-> 2, text |-> a], [id |-> 2, text |-> blank]>>}
MCIdLists == {<<[id |-> 2], [id |-> 3]>>}
=============================================================================
