--------------------------- MODULE MCEditDistance ---------------------------
(* Small instances of EditDistance for TLC. *)
EXTENDS EditDistance, TLC

Symmetric == Permutations(Chars)
=============================================================================
