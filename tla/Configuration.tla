--------------------------- MODULE Configuration ----------------------------
(***************************************************************************)
(* The selectors a host configures an engine with (core/src/config.rs): a  *)
(* set of normalization steps, or a preset naming one, and the key an      *)
(* index is stamped with to recognise the set again.                       *)
(***************************************************************************)

\* NormalizeOptions: the steps, all optional on top of NFKC.
Options == {"expand_iteration_marks", "kana_fold", "fold_choonpu", "lowercase",
            "fold_diacritics", "normalize_hyphens", "strip_digit_grouping",
            "collapse_whitespace"}

NormalizeProfiles == {"Loose", "NfkcCaseFold"}

\* NormalizeProfile::options
preset(profile) ==
  IF profile = "Loose" THEN {"lowercase", "kana_fold"} ELSE {"lowercase"}

\* What each step adds to the key.
part == [lowercase |-> "lower", kana_fold |-> "kana", fold_diacritics |-> "diacritics",
         fold_choonpu |-> "choonpu", expand_iteration_marks |-> "iter",
         normalize_hyphens |-> "hyphen", strip_digit_grouping |-> "digitgroup",
         collapse_whitespace |-> "ws"]

\* Mutant: recognises the historical preset by the steps it knew of.
fingerprint_of_old_steps(steps) ==
  IF preset("Loose") \subseteq steps THEN {"loose"}
  ELSE IF steps = preset("NfkcCaseFold") THEN {"nfkc_case_fold"}
  ELSE {"nfkc"} \cup {part[x] : x \in steps}

\* NormalizeOptions::fingerprint, as the set of the parts that are joined: no
\* part contains the separator and their order is fixed.
fingerprint(steps) ==
  IF steps = preset("Loose") THEN {"loose"}
  ELSE IF steps = preset("NfkcCaseFold") THEN {"nfkc_case_fold"}
  ELSE {"nfkc"} \cup {part[x] : x \in steps}
=============================================================================
