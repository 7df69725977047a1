------------------------------- MODULE Paging -------------------------------
(***************************************************************************)
(* A host scrolls through the results of one non-empty query, page after   *)
(* page, with search_page() or with search_records_page(), over an index   *)
(* that does not change meanwhile.  The strategy is an order on the        *)
(* matching documents: the ranked strategies order them by score and then  *)
(* by id, the unranked ones give every document the score 0 in an order of *)
(* SQLite's choosing (the order of the texts, for Prefix and Suffix).      *)
(***************************************************************************)
EXTENDS Packing, SequencesExt

CONSTANTS
  Ids,         \* ids that may match
  Scores,
  Rankings,    \* kinds of strategy: subset of {"ranked", "unranked"}
  PerPage,     \* page sizes the host may ask for
  Hints,       \* values of fields_per_record
  MaxU32       \* u32::MAX

ASSUME PagingAssumption ==
  /\ MaxU32 \in Nat
  /\ IsFiniteSet(Ids)
  /\ Ids \subseteq Nat /\ Scores \subseteq Nat /\ PerPage \subseteq Nat /\ Hints \subseteq Nat

VARIABLES
  hits,               \* what the strategy finds, in its order, without a limit
  sql,                \* search_paged() by LIMIT and OFFSET, or the default one
  records,            \* scrolls through records, not documents
  per_page, fields,   \* what the host passes on every call
  page,               \* the next page it asks for
  shown,              \* what it was given so far
  ended               \* "no", or "empty" or "overflow" for the last answer

host == <<hits, sql, records, per_page, fields>>
vars == <<hits, sql, records, per_page, fields, page, shown, ended>>

-----------------------------------------------------------------------------
(* Ordering hits *)

\* S in the order of a relation that orders it strictly and totally: the k-th
\* element has k - 1 before it.
InOrder(S, before) ==
  [k \in 1 .. Cardinality(S) |->
     CHOOSE x \in S : Cardinality({y \in S : <<y, x>> \in before}) = k - 1]

Better(g, h) == g.score < h.score \/ (g.score = h.score /\ g.id < h.id)

BestFirst(S) == InOrder(S, {p \in S \X S : Better(p[1], p[2])})

\* Every order in which the strategy may return the matches: by (score, id)
\* when ranked, any when not.
Orders(ranking, matches) ==
  IF ranking = "ranked"
  THEN {BestFirst({[id |-> m, score |-> f[m]] : m \in matches}) :
          f \in [matches -> Scores]}
  ELSE {[k \in DOMAIN order |-> [id |-> order[k], score |-> 0]] :
          order \in SetToSeqs(matches)}

First(n, s) == SubSeq(s, 1, IF n < Len(s) THEN n ELSE Len(s))

Skip(n, s) == SubSeq(s, n + 1, Len(s))

-----------------------------------------------------------------------------
(* Documents *)

\* Mutant: asks for one page's worth of hits, whatever the offset.
search_paged_unextended(limit, offset) ==
  IF sql THEN First(limit, Skip(offset, hits)) ELSE Skip(offset, First(limit, hits))

\* LIMIT and OFFSET in SQL, or limit + offset hits of which the first offset
\* are dropped; the sum is checked by the caller below.
search_paged(limit, offset) ==
  IF sql THEN First(limit, Skip(offset, hits))
  ELSE Skip(offset, First(limit + offset, hits))

\* checked_mul and checked_add; the sum is not taken when limit is 0, nor in SQL.
search_page_overflows ==
  \/ page * per_page > MaxU32
  \/ ~sql /\ per_page > 0 /\ page * per_page + per_page > MaxU32

Answer(results) ==
  /\ shown' = shown \o results
  /\ ended' = IF results = <<>> THEN "empty" ELSE "no"
  /\ page' = page + 1
  /\ UNCHANGED host

Overflow == ended' = "overflow" /\ UNCHANGED <<host, page, shown>>

search_page ==
  /\ ~records /\ ended = "no"
  /\ IF search_page_overflows THEN Overflow
     ELSE Answer(search_paged(per_page, page * per_page))

-----------------------------------------------------------------------------
(* Records *)

RecordsOf(s) == {record_of(s[k].id, DefaultBits) : k \in DOMAIN s}

FieldHits(s, r) == {h \in Range(s) : record_of(h.id, DefaultBits) = r}

\* Mutant: a record's later hits overwrite its score.
Collapsed_last(s) ==
  {LET field == BestFirst(FieldHits(s, r))
   IN  [record_id |-> r, score |-> field[Len(field)].score,
        matched_slots |-> [k \in DOMAIN field |-> slot_of(field[k].id, DefaultBits)]] :
     r \in RecordsOf(s)}

\* Folds field hits into one hit per record: its best score, its matching slots
\* best first.
Collapsed(s) ==
  {LET field == BestFirst(FieldHits(s, r))
   IN  [record_id |-> r, score |-> field[1].score,
        matched_slots |-> [k \in DOMAIN field |-> slot_of(field[k].id, DefaultBits)]] :
     r \in RecordsOf(s)}

RankedBefore(x, y) == x.score < y.score \/ (x.score = y.score /\ x.record_id < y.record_id)

RankedFirst(S) == InOrder(S, {p \in S \X S : RankedBefore(p[1], p[2])})

\* saturating_mul
RawLimit(limit) ==
  LET wanted == limit * Max({fields, 1}) IN IF wanted > MaxU32 THEN MaxU32 ELSE wanted

\* Mutant: the hint is ignored, so a page of hits is taken for a page of records.
search_records_no_overfetch(limit) ==
  First(limit, RankedFirst(Collapsed(First(limit, hits))))

search_records(limit) ==
  First(limit, RankedFirst(Collapsed(First(RawLimit(limit), hits))))

match_count_records == Cardinality(RecordsOf(First(MaxU32, hits)))

search_records_page ==
  LET offset == page * per_page
  IN  /\ records /\ ended = "no"
      /\ IF offset + per_page > MaxU32 THEN Overflow
         ELSE Answer(First(per_page, Skip(offset, search_records(offset + per_page))))

-----------------------------------------------------------------------------
Init ==
  /\ \E ranking \in Rankings, matches \in SUBSET Ids : hits \in Orders(ranking, matches)
  /\ sql \in BOOLEAN /\ records \in BOOLEAN
  /\ per_page \in PerPage /\ fields \in Hints
  /\ page = 0 /\ shown = <<>> /\ ended = "no"

Next == search_page \/ search_records_page

Spec == Init /\ [][Next]_vars

-----------------------------------------------------------------------------
\* The pages of search_page() are consecutive pieces of the result of search():
\* nothing twice, nothing left out.  Scrolling ends at the end of the results,
\* or with an error once no further page could be numbered in a u32.
DocumentPages ==
  ~records =>
    /\ IsPrefix(shown, hits)
    /\ ended = "empty" /\ per_page > 0 => shown = hits
    /\ ended = "overflow" => Len(shown) + per_page > MaxU32 \/ shown = hits

\* fields_per_record is at least the number of fields any record matches in.
HintIsEnough == \A r \in RecordsOf(hits) : Cardinality(FieldHits(hits, r)) <= fields

RecordsShown == [k \in DOMAIN shown |-> shown[k].record_id]

\* With a field count that is not too small, the pages of search_records_page()
\* show every matching record once, although each page collapses a different
\* number of field hits: no record is on two pages, and at the end there are as
\* many as match_count_records() says.
RecordPages ==
  records /\ HintIsEnough =>
    /\ IsInjective(RecordsShown)
    /\ ended = "empty" /\ per_page > 0 => Len(shown) = match_count_records

Ranked(s) == [k \in DOMAIN s |-> <<s[k].record_id, s[k].score, Head(s[k].matched_slots)>>]

\* Under a strategy that ranks, the records shown are the first of all matching
\* records by the score of their best field, over the whole index, and each is
\* shown with that score and that field's slot first: the over-fetch is deep
\* enough for the page's records to be the best ones.
RecordsRanked ==
  records /\ HintIsEnough =>
    IsPrefix(Ranked(shown), Ranked(RankedFirst(Collapsed(hits))))
=============================================================================
