----------------------------- MODULE EditPaths ------------------------------
(***************************************************************************)
(* What levenshtein() and osa() of core/src/search/editdist.rs decide: are *)
(* two words at most max edits apart?  Both words are read at once, and a  *)
(* place is the positions to be read next in each.                         *)
(***************************************************************************)
EXTENDS Integers, Sequences

Places(q, w) == (1 .. Len(q) + 1) \X (1 .. Len(w) + 1)

Start == <<1, 1>>

End(q, w) == <<Len(q) + 1, Len(w) + 1>>

\* Where reading equal characters, any number of them, leads from p.
AlikeFrom(q, w, p) ==
  {<<p[1] + n, p[2] + n>> :
     n \in {m \in 0 .. Len(q) :
              /\ p[1] + m <= Len(q) + 1 /\ p[2] + m <= Len(w) + 1
              /\ \A j \in 0 .. m - 1 : q[p[1] + j] = w[p[2] + j]}}

SwapFrom(q, w, p) ==
  /\ p[1] < Len(q) /\ p[2] < Len(w)
  /\ q[p[1]] = w[p[2] + 1] /\ q[p[1] + 1] = w[p[2]]

\* Where an edit of q leads: a character left out, one of w put in, one put for
\* another, or two neighbours exchanged.
OneEditFrom(q, w, swap, p) ==
  {<<p[1] + 1, p[2]>>, <<p[1], p[2] + 1>>, <<p[1] + 1, p[2] + 1>>}
    \cup IF swap /\ SwapFrom(q, w, p) THEN {<<p[1] + 2, p[2] + 2>>} ELSE {}

Alike(q, w, S) == UNION {AlikeFrom(q, w, p) : p \in S}

OneEditMore(q, w, swap, S) ==
  S \cup ((UNION {OneEditFrom(q, w, swap, p) : p \in S}) \cap Places(q, w))

\* The places where at most n edits lead from the start.
PlacesAfter(q, w, swap, n) ==
  LET places[m \in 0 .. n] ==
        Alike(q, w, IF m = 0 THEN {Start} ELSE OneEditMore(q, w, swap, places[m - 1]))
  IN  places[n]

within(q, w, swap, max) == End(q, w) \in PlacesAfter(q, w, swap, max)
=============================================================================
