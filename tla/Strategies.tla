----------------------------- MODULE Strategies -----------------------------
(***************************************************************************)
(* The search strategies of core/src/search: which documents a normalized, *)
(* non-empty query finds.  LIKE and FTS5 read what they are given, a       *)
(* pattern or a match expression, so what a host types has to be quoted;   *)
(* Prefix and Suffix scan an index between two bounds; FuzzyTrigram lets   *)
(* FTS5 choose its candidates; the edit strategies compare word by word.   *)
(* The order and the limit of the hits are the subject of Paging.          *)
(*                                                                         *)
(* A character is its code point.  A document is its norm: it is in `docs` *)
(* and in `entries` alike.                                                 *)
(***************************************************************************)
EXTENDS Integers, SequencesExt, EditPaths

CONSTANTS
  Indexes,   \* each a set of normalized texts an index may hold
  None       \* no bound, no distance, nothing found yet

Space == 32
Quote == 34
Percent == 37
Backslash == 92
Underscore == 95
MaxChar == 1114111           \* char::MAX
Surrogates == 55296 .. 57343

\* char::from_u32
IsChar(c) == 0 <= c /\ c <= MaxChar /\ c \notin Surrogates

\* A text is a sequence of characters, and None is not a text.  LIKE and FTS5
\* stop reading at U+0000, which no text here has.
ASSUME TextAssumption ==
  /\ \A I \in Indexes : \A s \in I : s \in Seq(Int) /\ \A k \in DOMAIN s : IsChar(s[k]) /\ s[k] # 0
  /\ None \notin Seq(Int)

VARIABLES
  index,     \* the documents
  strategy,
  query,     \* normalized, not empty
  hits       \* the documents found, or None

vars == <<index, strategy, query, hits>>

-----------------------------------------------------------------------------
(* SQLite, as far as the strategies use it. *)

\* Upper case to lower: LIKE knows ASCII letters, the trigram tokenizer Unicode's.
AsciiFold(c) == IF c \in 65 .. 90 THEN c + 32 ELSE c

UnicodeFold(c) == IF c = 201 THEN 233 ELSE AsciiFold(c)

Folded(s) == [k \in DOMAIN s |-> UnicodeFold(s[k])]

OccursAt(q, s, k) == k + Len(q) - 1 <= Len(s) /\ SubSeq(s, k, k + Len(q) - 1) = q

Has(s, q) == \E k \in 1 .. Len(s) + 1 : OccursAt(q, s, k)

\* LIKE holds at how many characters of s the pattern read so far may end.  The
\* next one, the next one if it is c, any number of them:
LikeOne(at, s) == {j + 1 : j \in {k \in at : k < Len(s)}}
LikeSame(at, c, s) == {j \in LikeOne(at, s) : AsciiFold(s[j]) = AsciiFold(c)}
LikeAny(at, s) == {k \in 0 .. Len(s) : \E j \in at : j <= k}

\* One character of the pattern; after an escape it stands for itself.
LikeNext(read, c, s) ==
  IF read.escaped THEN [at |-> LikeSame(read.at, c, s), escaped |-> FALSE]
  ELSE CASE c = Backslash -> [at |-> read.at, escaped |-> TRUE]
         [] c = Percent -> [at |-> LikeAny(read.at, s), escaped |-> FALSE]
         [] c = Underscore -> [at |-> LikeOne(read.at, s), escaped |-> FALSE]
         [] OTHER -> [at |-> LikeSame(read.at, c, s), escaped |-> FALSE]

LikeRead(pattern, s) ==
  LET read[k \in 0 .. Len(pattern)] ==
        IF k = 0 THEN [at |-> {0}, escaped |-> FALSE] ELSE LikeNext(read[k - 1], pattern[k], s)
  IN  read[Len(pattern)]

\* s LIKE pattern ESCAPE '\'
Like(pattern, s) ==
  LET read == LikeRead(pattern, s)
  IN  ~read.escaped /\ Len(s) \in read.at

\* FTS5 reads a string from a quote to the next one that is not doubled.  What
\* follows it would be parsed as more of the query: here, as an error.
Fts5Next(read, c) ==
  [text |-> IF c = Quote /\ ~read.odd THEN read.text ELSE Append(read.text, c),
   odd |-> c = Quote /\ ~read.odd,
   ended |-> read.ended \/ (read.odd /\ c # Quote)]

Fts5Read(inside) ==
  LET read[k \in 0 .. Len(inside)] ==
        IF k = 0 THEN [text |-> <<>>, odd |-> FALSE, ended |-> FALSE]
        ELSE Fts5Next(read[k - 1], inside[k])
  IN  read[Len(inside)]

Fts5String(expr) ==
  LET read == Fts5Read(SubSeq(expr, 2, Len(expr) - 1))
  IN  IF read.ended \/ read.odd THEN None ELSE read.text

\* docs MATCH a phrase: its trigrams in a row, which is its text; a phrase of
\* less than three characters has none.
Fts5Match(expr) ==
  LET phrase == Fts5String(expr)
  IN  {s \in index : phrase # None /\ Len(phrase) >= 3 /\ Has(Folded(s), Folded(phrase))}

-----------------------------------------------------------------------------
(* TrigramBm25, Substring and AllTerms *)

\* Mutant: leaves underscores as they are.
escape_like_percent_only(s) ==
  LET out[k \in 0 .. Len(s)] ==
        IF k = 0 THEN <<>>
        ELSE out[k - 1] \o IF s[k] \in {Backslash, Percent} THEN <<Backslash, s[k]>> ELSE <<s[k]>>
  IN  out[Len(s)]

Escaped(c) == IF c \in {Backslash, Percent, Underscore} THEN <<Backslash, c>> ELSE <<c>>

escape_like(s) ==
  LET out[k \in 0 .. Len(s)] == IF k = 0 THEN <<>> ELSE out[k - 1] \o Escaped(s[k])
  IN  out[Len(s)]

LikeInfix(q, s) == Like(<<Percent>> \o escape_like(q) \o <<Percent>>, s)

below_trigram_len(q) == Len(q) < 3

Doubled(c) == IF c = Quote THEN <<Quote, Quote>> ELSE <<c>>

\* q.replace('"', "\"\"")
doubled(q) ==
  LET out[k \in 0 .. Len(q)] == IF k = 0 THEN <<>> ELSE out[k - 1] \o Doubled(q[k])
  IN  out[Len(q)]

fts5_phrase(q) == <<Quote>> \o doubled(q) \o <<Quote>>

\* A text in one run.
Substrings(q) ==
  IF below_trigram_len(q) THEN {s \in index : LikeInfix(q, s)} ELSE Fts5Match(fts5_phrase(q))

\* split_whitespace(): the longest runs without a space.
Words(s) ==
  {SubSeq(s, p[1], p[2]) :
     p \in {r \in (DOMAIN s) \X (DOMAIN s) :
              /\ r[1] <= r[2] /\ \A k \in r[1] .. r[2] : s[k] # Space
              /\ r[1] = 1 \/ s[r[1] - 1] = Space
              /\ r[2] = Len(s) \/ s[r[2] + 1] = Space}}

Answer(name, found) ==
  /\ strategy = name /\ hits = None
  /\ hits' = found
  /\ UNCHANGED <<index, strategy, query>>

trigram_bm25 == Answer("TrigramBm25", Substrings(query))

substring == Answer("Substring", Substrings(query))

all_terms ==
  Answer("AllTerms",
    IF Words(query) = {} THEN {} ELSE {s \in index : \A w \in Words(query) : LikeInfix(w, s)})

-----------------------------------------------------------------------------
(* Prefix and Suffix *)

\* Mutant: a key that ends in a character without a successor has no bound.
range_upper_bound_last_only(s) ==
  IF IsChar(Last(s) + 1) THEN Append(Front(s), Last(s) + 1) ELSE None

\* The key up to its last character that has a successor, which replaces it.
range_upper_bound(s) ==
  LET increments == {k \in DOMAIN s : IsChar(s[k] + 1)}
      k == Max(increments)
  IN  IF increments = {} THEN None ELSE Append(SubSeq(s, 1, k - 1), s[k] + 1)

\* SQLite's BINARY order: of the UTF-8 bytes, which is of the code points.
Before(s, t) ==
  \/ IsStrictPrefix(s, t)
  \/ \E k \in DOMAIN s \cap DOMAIN t :
       s[k] < t[k] /\ SubSeq(s, 1, k - 1) = SubSeq(t, 1, k - 1)

\* Whether col >= key, and col < upper if there is such a bound.
InRange(col, key, upper) == ~Before(col, key) /\ (upper # None => Before(col, upper))

prefix ==
  Answer("Prefix", {s \in index : InRange(s, query, range_upper_bound(query))})

\* Mutant: the scan of norm_rev is given the query as it is.
suffix_unreversed ==
  Answer("Suffix", {s \in index : InRange(Reverse(s), query, range_upper_bound(query))})

suffix ==
  LET key == Reverse(query)
  IN  Answer("Suffix", {s \in index : InRange(Reverse(s), key, range_upper_bound(key))})

-----------------------------------------------------------------------------
(* FuzzyTrigram *)

trigrams(s) == {SubSeq(s, k, k + 2) : k \in 1 .. Len(s) - 2}

\* jaccard(a, b) >= THRESHOLD, 0.3; two empty sets are not similar.
Similar(a, b) ==
  10 * Cardinality(a \cap b) >= 3 * Cardinality(a \cup b) /\ a \cup b # {}

\* Mutant: the first and the last trigram only.
Candidates_at_ends(q) ==
  Fts5Match(fts5_phrase(SubSeq(q, 1, 3))) \cup
  Fts5Match(fts5_phrase(SubSeq(q, Len(q) - 2, Len(q))))

\* docs MATCH build_fts5_or(): every trigram a phrase, any of which will do.
Candidates(q) == UNION {Fts5Match(fts5_phrase(t)) : t \in trigrams(q)}

fuzzy_trigram ==
  Answer("FuzzyTrigram",
    IF Len(query) < 3 THEN {s \in index : s = query}
    ELSE {s \in Candidates(query) : Similar(trigrams(query), trigrams(s))})

-----------------------------------------------------------------------------
(* Levenshtein and DamerauLevenshtein *)

\* Mutant: a short query allows no edit.
max_distance_unclamped(q) == Len(q) \div 4

max_distance(q) == Max({Len(q) \div 4, 1})

\* The documents with a word within the threshold: EditPaths says what the distance
\* functions decide, EditDistance how.
word_fuzzy_search(swap) ==
  {s \in index : \E w \in Words(s) : within(query, w, swap, max_distance(query))}

levenshtein == Answer("Levenshtein", word_fuzzy_search(FALSE))

damerau_levenshtein == Answer("DamerauLevenshtein", word_fuzzy_search(TRUE))

-----------------------------------------------------------------------------
SearchStrategy == {"TrigramBm25", "Substring", "Prefix", "Suffix", "AllTerms",
                   "FuzzyTrigram", "Levenshtein", "DamerauLevenshtein"}

Init ==
  /\ index \in Indexes
  /\ query \in index \ {<<>>}
  /\ strategy \in SearchStrategy
  /\ hits = None

Next ==
  \/ trigram_bm25 \/ substring \/ all_terms \/ prefix \/ suffix
  \/ fuzzy_trigram \/ levenshtein \/ damerau_levenshtein

Spec == Init /\ [][Next]_vars

-----------------------------------------------------------------------------
(* Properties. *)

Answered(names) == strategy \in names /\ hits # None

\* Whatever characters LIKE or FTS5 give a meaning to, a query finds the
\* documents that contain it (for AllTerms, all its words), and none that does
\* not contain it even with case set aside; the step from LIKE to FTS5 at three
\* characters changes nothing else.
MatchesLiterally ==
  Answered({"TrigramBm25", "Substring", "AllTerms"}) =>
    LET terms == IF strategy = "AllTerms" THEN Words(query) ELSE {query}
    IN  /\ {s \in index : terms # {} /\ \A t \in terms : Has(s, t)} \subseteq hits
        /\ \A s \in hits : terms # {} /\ \A t \in terms : Has(Folded(s), Folded(t))

Matches == {s \in index : IF strategy = "Suffix" THEN IsSuffix(query, s) ELSE IsPrefix(query, s)}

\* A scan misses no text that starts (ends) with the query, whatever characters
\* its upper bound had to give up on.
ScanMissesNothing == Answered({"Prefix", "Suffix"}) => Matches \subseteq hits

\* The last character before the surrogates cannot be incremented although
\* larger ones exist.
BeforeGap(c) == c # MaxChar /\ ~IsChar(c + 1)

\* A scan finds nothing else, with char::MAX in the query too, unless the query
\* has the character that comes last before the surrogates.
ScanIsTight ==
  Answered({"Prefix", "Suffix"}) /\ (\A k \in DOMAIN query : ~BeforeGap(query[k])) =>
    hits \subseteq Matches

\* Letting FTS5 choose the candidates costs FuzzyTrigram no document: it finds
\* those a comparison with every document would.
PreFilterLosesNothing ==
  Answered({"FuzzyTrigram"}) /\ ~below_trigram_len(query) =>
    hits = {s \in index : Similar(trigrams(query), trigrams(s))}

\* The words one edit makes of w, with the characters of the index.
OneEdit(w, swap) ==
  LET chars == UNION {Range(s) : s \in index}
  IN  {RemoveAt(w, k) : k \in DOMAIN w}
      \cup {InsertAt(w, k, c) : k \in 1 .. Len(w) + 1, c \in chars}
      \cup {ReplaceAt(w, k, c) : k \in DOMAIN w, c \in chars}
      \cup IF swap THEN {[w EXCEPT ![k] = w[k + 1], ![k + 1] = w[k]] : k \in 1 .. Len(w) - 1}
           ELSE {}

\* The words that n edits make of w.
Edited(w, n, swap) ==
  LET words[m \in 0 .. n] ==
        IF m = 0 THEN {w} ELSE words[m - 1] \cup UNION {OneEdit(u, swap) : u \in words[m - 1]}
  IN  words[n]

WithWordIn(S) == {s \in index : Words(s) \cap S # {}}

\* An edit strategy finds the documents with a word that the allowed number of
\* typing errors (one for every four characters, but at least one) makes of the
\* query, and no other.  A swap is one error for DamerauLevenshtein; as it does
\* not edit again what it swapped, it finds every such document only where one
\* error is allowed, and otherwise every one made without a swap.
FindsTypos ==
  Answered({"Levenshtein", "DamerauLevenshtein"}) =>
    LET n == IF Len(query) < 8 THEN 1 ELSE Len(query) \div 4
        damerau == strategy = "DamerauLevenshtein"
    IN  /\ hits \subseteq WithWordIn(Edited(query, n, damerau))
        /\ WithWordIn(Edited(query, n, damerau /\ n = 1)) \subseteq hits
=============================================================================
