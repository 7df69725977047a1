----------------------------- MODULE Normalize ------------------------------
(***************************************************************************)
(* The normalizer of core/src/normalize: NFKC, then the enabled steps in   *)
(* the canonical order.  A character is a representative of the class the  *)
(* steps tell apart:                                                       *)
(*   "a" "A"           a letter and its capital                            *)
(*   "c" "square_cc"   a letter, and a compatibility character that NFKC   *)
(*                     expands to two of them                              *)
(*   "acute"           a Latin combining mark ("a_acute", "A_acute",       *)
(*                     "c_acute")                                          *)
(*   "ka" "ga"         a hiragana and its voiced form                      *)
(*   "KA" "GA"         the same in katakana                                *)
(*   "dakuten"         the combining voiced-sound mark                     *)
(*   "bar"             the prolonged-sound mark                            *)
(*   "iter" "viter"    the kana iteration marks, plain and voiced          *)
(*   "kanji" "kiter"   a kanji and the kanji iteration mark                *)
(*   "dash" "hyphen" "0" "1" "comma" "space" "wide_space"                  *)
(***************************************************************************)
EXTENDS Configuration, Integers, SequencesExt

Hiragana == [KA |-> "ka", GA |-> "ga"]

Voiced == [ka |-> "ga", KA |-> "GA"]

is_kana(c) == c \in {"ka", "ga", "KA", "GA", "bar", "iter", "viter"}

is_digit(c) == c \in {"0", "1"}

\* The image of c under f where f maps it, c elsewhere.
Mapped(f, c) == IF c \in DOMAIN f THEN f[c] ELSE c

MapEach(f, s) == [k \in DOMAIN s |-> Mapped(f, s[k])]

\* External, as are the next six: the unicode_normalization crate on these
\* characters.  Canonical and compatibility decompositions.
Canonical ==
  [a_acute |-> <<"a", "acute">>, A_acute |-> <<"A", "acute">>, c_acute |-> <<"c", "acute">>,
   ga |-> <<"ka", "dakuten">>, GA |-> <<"KA", "dakuten">>, viter |-> <<"iter", "dakuten">>]

Compatible == [square_cc |-> <<"c", "c">>, wide_space |-> <<"space">>]

Expanded(f, s) ==
  FoldLeft(LAMBDA out, c : out \o (IF c \in DOMAIN f THEN f[c] ELSE <<c>>), <<>>, s)

\* Canonical combining classes; a starter has 0.
Class(c) == CASE c = "dakuten" -> 8 [] c = "acute" -> 230 [] OTHER -> 0

\* Decomposed; the marks after a starter in the order of their classes.
nfd(s) ==
  LET next(out, c) ==
        IF Class(c) = 0 THEN Append(out, c)
        ELSE InsertAt(out, 1 + SelectLastInSeq(out, LAMBDA x : Class(x) <= Class(c)), c)
  IN  FoldLeft(next, <<>>, Expanded(Canonical, s))

\* Recomposed: a mark joins the last starter, unless one of its class or above
\* is left between them.
nfc(s) ==
  LET next(out, c) ==
        LET k == SelectLastInSeq(out, LAMBDA x : Class(x) = 0)
            reaches == k # 0 /\ (k = Len(out) \/ Class(Last(out)) < Class(c))
            whole == {x \in DOMAIN Canonical : reaches /\ Canonical[x] = <<out[k], c>>}
        IN  IF whole = {} THEN Append(out, c) ELSE ReplaceAt(out, k, CHOOSE x \in whole : TRUE)
  IN  FoldLeft(next, <<>>, nfd(s))

nfkc(s) == nfc(Expanded(Compatible, s))

\* A mark repeats what precedes it, if that is of its script.
expand_iteration_marks(s) ==
  LET next(out, c) ==
        LET previous == IF out = <<>> THEN c ELSE Last(out)
        IN  Append(out, CASE c = "kiter" /\ previous = "kanji" -> previous
                          [] c = "iter" /\ is_kana(previous) -> previous
                          [] c = "viter" /\ is_kana(previous) -> Mapped(Voiced, previous)
                          [] OTHER -> c)
  IN  FoldLeft(next, <<>>, s)

kana_fold(s) == MapEach(Hiragana, s)

\* A run of marks after a kana goes, the mark being kana itself.
fold_choonpu(s) ==
  LET next(out, c) == IF c = "bar" /\ out # <<>> /\ is_kana(Last(out)) THEN out ELSE Append(out, c)
  IN  FoldLeft(next, <<>>, s)

lowercase(s) == MapEach([A |-> "a", A_acute |-> "a_acute"], s)

\* The marks of Latin go; kana keep theirs.
fold_diacritics(s) == nfc(SelectSeq(nfd(s), LAMBDA c : c # "acute"))

normalize_hyphens(s) == MapEach([dash |-> "hyphen"], s)

strip_digit_grouping(s) ==
  LET groups(k) == s[k] = "comma" /\ {k - 1, k + 1} \subseteq DOMAIN s
                     /\ is_digit(s[k - 1]) /\ is_digit(s[k + 1])
      kept == SetToSortSeq({k \in DOMAIN s : ~groups(k)}, <)
  IN  [k \in DOMAIN kept |-> s[kept[k]]]

\* Single spaces, none at either end.
collapse_whitespace(s) ==
  LET words(k) == \E j \in 1 .. k : s[j] # "space"
      keeps(k) == s[k] # "space" \/ (words(k) /\ k < Len(s) /\ s[k + 1] # "space")
      kept == SetToSortSeq({k \in DOMAIN s : keeps(k)}, <)
  IN  [k \in DOMAIN kept |-> s[kept[k]]]

\* Composable::normalize
normalize(s, steps) ==
  LET step(out, name) ==
        IF name \notin steps THEN out
        ELSE CASE name = "expand_iteration_marks" -> expand_iteration_marks(out)
               [] name = "kana_fold" -> kana_fold(out)
               [] name = "fold_choonpu" -> fold_choonpu(out)
               [] name = "lowercase" -> lowercase(out)
               [] name = "fold_diacritics" -> fold_diacritics(out)
               [] name = "normalize_hyphens" -> normalize_hyphens(out)
               [] name = "strip_digit_grouping" -> strip_digit_grouping(out)
               [] name = "collapse_whitespace" -> collapse_whitespace(out)
  IN  FoldLeft(step, nfkc(s),
               <<"expand_iteration_marks", "kana_fold", "fold_choonpu", "lowercase",
                 "fold_diacritics", "normalize_hyphens", "strip_digit_grouping",
                 "collapse_whitespace">>)
=============================================================================
