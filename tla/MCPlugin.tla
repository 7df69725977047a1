------------------------------ MODULE MCPlugin ------------------------------
(* Small instances of Plugin for TLC. *)
EXTENDS Plugin, TLC
=============================================================================
