----------------------------- MODULE Highlight ------------------------------
(***************************************************************************)
(* highlight(): marks the occurrences of a normalized query in a document. *)
(* The matches are found in norm.  highlight_raw() maps them back to raw   *)
(* by a table of how long every prefix of raw is once normalized; for a    *)
(* row without raw text, highlight_occurrences() marks norm itself.        *)
(* Offsets in norm are in bytes; those of the marked pieces count          *)
(* characters, since all are boundaries of one.                            *)
(***************************************************************************)
EXTENDS Normalize

CONSTANTS
  Chars,     \* the characters of raw texts
  MaxLen,    \* bound on the length of a raw text
  Profiles,  \* the option sets the engine may be opened with
  Absent     \* a normalized query that need not occur

ASSUME HighlightAssumption == MaxLen \in Nat /\ Profiles \subseteq SUBSET Options

VARIABLES
  row,       \* what the index holds: "absent", "norm" alone, or "raw" too
  raw, options,
  norm,      \* raw, normalized
  needle,    \* the query, normalized
  bounds,    \* bounds[k + 1]: the bytes raw's first k characters normalize to
  ranges,    \* the matches still to be marked, as <<start, end>> in norm
  pieces,    \* marked pieces of the text, as <<start, end>>
  result     \* "running", then "none" or "text"

args == <<row, raw, options, norm, needle>>
vars == <<args, bounds, ranges, pieces, result>>

\* The UTF-8 length of a text.
Bytes(s) ==
  LET width(c) == IF c \in {"a", "A", "c", "hyphen", "0", "1", "comma", "space"} THEN 1
                  ELSE IF c \in {"acute", "a_acute", "A_acute", "c_acute"} THEN 2 ELSE 3
  IN  FoldLeft(LAMBDA n, c : n + width(c), 0, s)

NormOffset(j) == Bytes(SubSeq(norm, 1, j))

\* The occurrences of needle in norm after its first k characters, without overlap.
RECURSIVE match_indices(_)
match_indices(k) ==
  IF k + Len(needle) > Len(norm) THEN <<>>
  ELSE IF SubSeq(norm, k + 1, k + Len(needle)) = needle
       THEN <<<<NormOffset(k), NormOffset(k + Len(needle))>>>> \o match_indices(k + Len(needle))
       ELSE match_indices(k + 1)

\* What is given back with its markers.
Text == IF row = "raw" THEN raw ELSE norm

\* A query that normalizes to nothing, or a document that is not there: None.
highlight ==
  /\ result = "running" /\ (needle = <<>> \/ row = "absent")
  /\ result' = "none"
  /\ UNCHANGED <<args, bounds, ranges, pieces>>

Marking(kind) == result = "running" /\ row = kind /\ needle # <<>> /\ ranges # <<>>

max_norm_offset == Last(ranges)[2]

prefix_len(k) == Bytes(normalize(SubSeq(raw, 1, k), options))

\* Mutant: the entries past the last match repeat its end, not the length reached.
push_bound_filled_short ==
  /\ Marking("raw") /\ Len(bounds) <= Len(raw)
  /\ LET reached == prefix_len(Len(bounds))
     IN  bounds' = Append(bounds, reached) \o
                     IF reached < max_norm_offset THEN <<>>
                     ELSE [k \in 1 .. Len(raw) - Len(bounds) |-> max_norm_offset]
  /\ UNCHANGED <<args, ranges, pieces, result>>

\* One character of raw: its prefix is normalized, until the last match is
\* passed; the entries after that repeat the length reached.
push_bound ==
  /\ Marking("raw") /\ Len(bounds) <= Len(raw)
  /\ LET reached == prefix_len(Len(bounds))
     IN  bounds' = IF reached >= max_norm_offset
                   THEN bounds \o [k \in 1 .. Len(raw) + 1 - Len(bounds) |-> reached]
                   ELSE Append(bounds, reached)
  /\ UNCHANGED <<args, ranges, pieces, result>>

\* Mutant: the last boundary before the match rather than the one at its start.
start_for_strict(offset) ==
  LET points == {k \in DOMAIN bounds : bounds[k] >= offset}
  IN  IF points = {} THEN Len(bounds) - 1 ELSE Max({Min(points) - 2, 0})

\* partition_point over bounds, which binary search may use when it is sorted.
start_for(offset) ==
  LET points == {k \in DOMAIN bounds : bounds[k] > offset}
  IN  IF points = {} THEN Len(bounds) - 1 ELSE Max({Min(points) - 2, 0})

end_for(offset) ==
  LET points == {k \in DOMAIN bounds : bounds[k] >= offset}
  IN  IF points = {} THEN Len(raw) ELSE Min(points) - 1

prev_end == IF pieces = <<>> THEN 0 ELSE Last(pieces)[2]

\* Mutant: a marker may start inside the piece before it.
mark_overlapping ==
  /\ Marking("raw") /\ Len(bounds) > Len(raw)
  /\ pieces' = Append(pieces, <<start_for(Head(ranges)[1]), end_for(Head(ranges)[2])>>)
  /\ ranges' = Tail(ranges)
  /\ UNCHANGED <<args, bounds, result>>

\* One match: wrapped from the boundary before it to the boundary after it, or
\* from where the last piece ended.
mark ==
  /\ Marking("raw") /\ Len(bounds) > Len(raw)
  /\ LET rs == Max({start_for(Head(ranges)[1]), prev_end})
         re == Max({end_for(Head(ranges)[2]), rs})
     IN  pieces' = Append(pieces, <<rs, re>>)
  /\ ranges' = Tail(ranges)
  /\ UNCHANGED <<args, bounds, result>>

\* The character of norm that ends at a byte offset.
CharAt(offset) == Min({j \in 0 .. Len(norm) : NormOffset(j) >= offset})

\* highlight_occurrences(), one match: norm is marked where it matched.
mark_occurrence ==
  /\ Marking("norm")
  /\ pieces' = Append(pieces, <<CharAt(Head(ranges)[1]), CharAt(Head(ranges)[2])>>)
  /\ ranges' = Tail(ranges)
  /\ UNCHANGED <<args, bounds, result>>

\* Every match is marked, or there was none and the text is given back as it is.
finish ==
  /\ result = "running" /\ needle # <<>> /\ row # "absent" /\ ranges = <<>>
  /\ result' = "text"
  /\ UNCHANGED <<args, bounds, ranges, pieces>>

Substrings(s) == {SubSeq(s, p[1], p[2]) : p \in {q \in (1 .. Len(s)) \X (1 .. Len(s)) : q[1] <= q[2]}}

\* Queries: those that occur, one that does not, and the empty one.
Init ==
  /\ row \in {"absent", "norm", "raw"}
  /\ raw \in UNION {[1 .. n -> Chars] : n \in 1 .. MaxLen}
  /\ options \in Profiles
  /\ norm = normalize(raw, options)
  /\ needle \in Substrings(norm) \cup {<<>>, Absent}
  /\ bounds = <<0>> /\ pieces = <<>> /\ result = "running"
  /\ ranges = IF needle = <<>> THEN <<>> ELSE match_indices(0)

Next == highlight \/ push_bound \/ mark \/ mark_occurrence \/ finish

Spec == Init /\ [][Next]_vars

-----------------------------------------------------------------------------
\* The table is sorted, which the two binary searches rely on.
BoundsSorted == \A k \in 2 .. Len(bounds) : bounds[k - 1] <= bounds[k]

\* The pieces follow one another within the text: what is returned is the raw
\* text (norm, where raw was not kept) with markers put in, no character lost,
\* repeated or moved.
PiecesInOrder ==
  \A k \in DOMAIN pieces :
    /\ 0 <= pieces[k][1] /\ pieces[k][1] <= pieces[k][2] /\ pieces[k][2] <= Len(Text)
    /\ k > 1 => pieces[k - 1][2] <= pieces[k][1]

\* Normalization of raw is one of its characters at a time.
ContextFree ==
  norm = FlattenSeq([k \in DOMAIN raw |-> normalize(<<raw[k]>>, options)])

\* The character of raw that made character j of norm.
Source(j) == Min({k \in DOMAIN raw : prefix_len(k) >= NormOffset(j)})

\* The characters of norm in some match.
Matched ==
  {j \in DOMAIN norm : \E r \in Range(match_indices(0)) : r[1] < NormOffset(j) /\ NormOffset(j) <= r[2]}

Marked == UNION {pieces[k][1] + 1 .. pieces[k][2] : k \in DOMAIN pieces}

\* Where normalization is character by character, the marked characters are
\* those that made a matched character, a match inside an expansion marking its
\* whole source character, and besides them only characters that leave no trace.
\* In a row without raw text they are the matched characters.
MarksWhatMatched ==
  result = "text" =>
    /\ row = "norm" => Marked = Matched
    /\ row = "raw" /\ ContextFree =>
         LET sources == {Source(j) : j \in Matched}
         IN  /\ sources \subseteq Marked
             /\ \A k \in Marked \ sources : normalize(<<raw[k]>>, options) = <<>>
=============================================================================
