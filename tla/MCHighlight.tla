---------------------------- MODULE MCHighlight -----------------------------
(* Small instances of Highlight for TLC. *)
EXTENDS Highlight

Loose == {"kana_fold", "lowercase"}

\* The loose profile, the two steps that look at their neighbours, every option.
MCProfiles == {Loose, {"expand_iteration_marks", "strip_digit_grouping"}, Options}

MCAbsent == <<"kanji">>
=============================================================================
