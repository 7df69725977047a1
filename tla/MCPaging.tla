------------------------------ MODULE MCPaging ------------------------------
(* Small instances of Paging for TLC: two fields a record. *)
EXTENDS Paging
=============================================================================
