------------------------- MODULE MCSchemaMigration -------------------------
(* Small instances of SchemaMigration for TLC. *)
EXTENDS SchemaMigration, TLC

Symmetric == Permutations(Openers) \cup Permutations(Ids)
=============================================================================
