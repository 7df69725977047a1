---------------------------- MODULE EditDistance ----------------------------
(***************************************************************************)
(* The bounded edit distances of core/src/search/editdist.rs, one row of   *)
(* the table per step: levenshtein(), and osa(), which also counts the     *)
(* swap of two adjacent characters as one edit.  Both give up as soon as a *)
(* whole row exceeds the bound.                                            *)
(***************************************************************************)
EXTENDS Integers, SequencesExt, EditPaths

CONSTANTS
  Chars,
  MaxLen,       \* bound on the length of the words compared
  MaxMax,       \* bound on the distance bound
  Running,      \* a call that has not returned yet
  None          \* "more than max"

ASSUME DistanceAssumption ==
  MaxLen \in Nat /\ MaxMax \in Nat /\ Running \notin Nat \cup {None} /\ None \notin Nat

Words == UNION {[1 .. n -> Chars] : n \in 0 .. MaxLen}

VARIABLES
  a, b, max,
  swaps,        \* osa() rather than levenshtein()
  i,            \* rows filled
  prev2, prev,  \* the last two rows, indexed by 0 .. Len(b)
  result        \* what the call returns, or Running

vars == <<a, b, max, swaps, i, prev2, prev, result>>

Difference(m, n) == IF m > n THEN m - n ELSE n - m

\* Mutant: a swap reads from the row above instead of the one above that.
NextRow_short_swap(n, above, above2) ==
  LET cost(j) == IF a[n] = b[j] THEN 0 ELSE 1
      swapped(j) == swaps /\ n > 1 /\ j > 1 /\ a[n] = b[j - 1] /\ a[n - 1] = b[j]
      row[j \in 0 .. Len(b)] ==
        IF j = 0 THEN n
        ELSE Min({above[j] + 1, row[j - 1] + 1, above[j - 1] + cost(j)}
                     \cup IF swapped(j) THEN {above[j - 2] + 1} ELSE {})
  IN  row

\* Row n of the table, from the row above it and the one above that.
NextRow(n, above, above2) ==
  LET cost(j) == IF a[n] = b[j] THEN 0 ELSE 1
      swapped(j) == swaps /\ n > 1 /\ j > 1 /\ a[n] = b[j - 1] /\ a[n - 1] = b[j]
      row[j \in 0 .. Len(b)] ==
        IF j = 0 THEN n
        ELSE Min({above[j] + 1, row[j - 1] + 1, above[j - 1] + cost(j)}
                     \cup IF swapped(j) THEN {above2[j - 2] + 1} ELSE {})
  IN  row

\* Mutant: gives up when the last cell of the row, not the whole row, is too far.
GivesUp_at_last_cell(row) == row[Len(b)] > max

GivesUp(row) == Min({row[j] : j \in DOMAIN row}) > max

\* Words whose lengths alone differ by more than max, and empty words, need no
\* table.
start ==
  /\ result = Running /\ i = 0
  /\ IF Difference(Len(a), Len(b)) > max THEN result' = None /\ UNCHANGED i
     ELSE IF a = <<>> \/ b = <<>> THEN result' = Len(a) + Len(b) /\ UNCHANGED i
     ELSE i' = 1 /\ UNCHANGED result
  /\ UNCHANGED <<a, b, max, swaps, prev2, prev>>

fill_row ==
  LET row == NextRow(i, prev, prev2)
  IN  /\ result = Running /\ i \in 1 .. Len(a)
      /\ IF GivesUp(row) THEN result' = None /\ UNCHANGED <<i, prev, prev2>>
         ELSE i' = i + 1 /\ prev2' = prev /\ prev' = row /\ UNCHANGED result
      /\ UNCHANGED <<a, b, max, swaps>>

finish ==
  /\ result = Running /\ i = Len(a) + 1 /\ i > 1
  /\ result' = IF prev[Len(b)] > max THEN None ELSE prev[Len(b)]
  /\ UNCHANGED <<a, b, max, swaps, i, prev2, prev>>

Init ==
  /\ a \in Words /\ b \in Words /\ max \in 0 .. MaxMax /\ swaps \in BOOLEAN
  /\ i = 0
  /\ prev2 = [j \in 0 .. Len(b) |-> 0]
  /\ prev = [j \in 0 .. Len(b) |-> j]
  /\ result = Running

Next == start \/ fill_row \/ finish

Spec == Init /\ [][Next]_vars

-----------------------------------------------------------------------------
(* What the functions are to compute, independently of the table.          *)

\* An alignment pairs some of w's characters with as many of u's, in order.
Alignments(w, u) ==
  {x \in UNION {[P -> DOMAIN u] : P \in SUBSET DOMAIN w} :
     \A k, l \in DOMAIN x : k < l => x[k] < x[l]}

Mismatches(w, u, x) == {k \in DOMAIN x : w[k] # u[x[k]]}

\* Two pairs, next to each other in both words, that match when exchanged.
SwapAt(w, u, x, k) ==
  /\ {k, k + 1} \subseteq Mismatches(w, u, x)
  /\ x[k + 1] = x[k] + 1
  /\ w[k] = u[x[k + 1]] /\ w[k + 1] = u[x[k]]

\* Sets of swaps of which no two share a character: nothing is edited twice.
SwapSets(w, u, x) ==
  IF swaps THEN {K \in SUBSET {k \in DOMAIN x : SwapAt(w, u, x, k)} : \A k \in K : k + 1 \notin K}
  ELSE {{}}

\* What is not paired is deleted or inserted, a mismatch is a substitution, and
\* a swap does for two of them.
Edits(w, u, x, K) ==
  Len(w) + Len(u) - 2 * Cardinality(DOMAIN x) + Cardinality(Mismatches(w, u, x)) - Cardinality(K)

Costs(w, u) == UNION {{Edits(w, u, x, K) : K \in SwapSets(w, u, x)} : x \in Alignments(w, u)}

Distance(w, u) == Min(Costs(w, u))

-----------------------------------------------------------------------------
\* The early exits are exact: the call answers the distance when it is at most
\* max, and "too far" only when it is larger, which is when no max edits lead
\* through both words.
Exact ==
  result # Running =>
    /\ result = IF Distance(a, b) > max THEN None ELSE Distance(a, b)
    /\ result # None <=> within(a, b, swaps, max)

\* The rolling rows hold the distances between the words' prefixes, so the row
\* a swap reads from is the right one.
CellsAreDistances ==
  i > 0 => \A j \in 0 .. Len(b) :
             prev[j] = Distance(SubSeq(a, 1, i - 1), SubSeq(b, 1, j))
=============================================================================
