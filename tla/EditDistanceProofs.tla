------------------------- MODULE EditDistanceProofs -------------------------
(***************************************************************************)
(* levenshtein() and osa() decide the distance they are named for, for     *)
(* words of any length over any characters.  A cell of the table is the    *)
(* least cost of an alignment of two prefixes, because an alignment ends   *)
(* in a character left out, a pair, or two pairs swapped; and no cell of a *)
(* row is less than all cells of the row above.                            *)
(***************************************************************************)
EXTENDS EditDistance, FunctionTheorems, FiniteSetTheorems, WellFoundedInduction, TLAPS

-----------------------------------------------------------------------------
(* Numbers. *)

LEMMA Descends ==
  ASSUME NEW x \in Nat, NEW y \in Nat, y < x
  PROVE  <<y, x>> \in OpToRel(<, Nat)
<1>1. <<y, x>> \in Nat \X Nat
  OBVIOUS
<1>2. <<y, x>>[1] < <<y, x>>[2]
  OBVIOUS
<1> QED
  BY <1>1, <1>2, Zenon DEF OpToRel

\* A set of numbers has a least one, which Min chooses.
LEMMA Least ==
  ASSUME NEW T, T \subseteq Nat, T # {}
  PROVE  Min(T) \in T /\ \A y \in T : Min(T) <= y
<1>1. PICK x \in T : \A y \in T : ~ (<<y, x>> \in OpToRel(<, Nat))
  BY WFMin, NatLessThanWellFounded, Zenon
<1>2. \A y \in T : y \in Nat /\ x \in Nat
  OBVIOUS
<1>3. \A y \in T : ~ (y < x)
  BY <1>1, <1>2, Descends, Zenon
<1>4. \A y \in T : x <= y
  BY <1>2, <1>3
<1> QED
  BY <1>4, Zenon DEF Min

LEMMA SetInduction ==
  ASSUME NEW S, 0 \in S, \A n \in Nat : n \in S => n + 1 \in S
  PROVE  Nat \subseteq S
<1> DEFINE T == Nat \ S
<1>1. SUFFICES ASSUME T # {} PROVE FALSE
  OBVIOUS
<1> DEFINE x == Min(T)
<1>2. x \in T /\ \A y \in T : x <= y
  <2> HIDE DEF T
  <2>1. T \subseteq Nat
    BY DEF T
  <2> QED BY <1>1, <2>1, Least
<1> HIDE DEF x
<1>3. x # 0 /\ x - 1 \in Nat /\ x - 1 < x /\ x = (x - 1) + 1
  BY <1>2
<1>4. x - 1 \notin T
  BY <1>2, <1>3
<1> QED
  BY <1>2, <1>3, <1>4

-----------------------------------------------------------------------------
(* Alignments of the first m characters of a with the first n of b. *)

Rises(x) == \A k, l \in DOMAIN x : k < l => x[k] < x[l]

Pairings(m, n) == {x \in UNION {[P -> 1 .. n] : P \in SUBSET (1 .. m)} : Rises(x)}

Missed(x) == {k \in DOMAIN x : a[k] # b[x[k]]}

Swappable(x, k) ==
  /\ {k, k + 1} \subseteq Missed(x)
  /\ x[k + 1] = x[k] + 1
  /\ a[k] = b[x[k + 1]] /\ a[k + 1] = b[x[k]]

Apart(K) == \A k \in K : k + 1 \notin K

Swappings(x) ==
  IF swaps THEN {K \in SUBSET {k \in DOMAIN x : Swappable(x, k)} : Apart(K)} ELSE {{}}

Price(m, n, x, K) == m + n - 2 * Cardinality(DOMAIN x) + Cardinality(Missed(x)) - Cardinality(K)

Prices(m, n) == {c \in Int : \E x \in Pairings(m, n) : \E K \in Swappings(x) : c = Price(m, n, x, K)}

\* A cell and a row of the table.
Cell(m, n) == Min(Prices(m, n))

Row(m) == [j \in 0 .. Len(b) |-> Cell(m, j)]

LEMMA PairingType ==
  ASSUME NEW m \in Nat, NEW n \in Nat, NEW x
  PROVE  x \in Pairings(m, n) <=>
           /\ x = [k \in DOMAIN x |-> x[k]]
           /\ DOMAIN x \subseteq 1 .. m
           /\ \A k \in DOMAIN x : x[k] \in 1 .. n
           /\ Rises(x)
<1>1. ASSUME x \in Pairings(m, n)
      PROVE  /\ x = [k \in DOMAIN x |-> x[k]] /\ DOMAIN x \subseteq 1 .. m
             /\ \A k \in DOMAIN x : x[k] \in 1 .. n
  <2>1. PICK P \in SUBSET (1 .. m) : x \in [P -> 1 .. n]
    BY <1>1 DEF Pairings
  <2> QED BY <2>1
<1>2. ASSUME x = [k \in DOMAIN x |-> x[k]], DOMAIN x \subseteq 1 .. m,
             \A k \in DOMAIN x : x[k] \in 1 .. n, Rises(x)
      PROVE  x \in Pairings(m, n)
  <2>1. x \in [DOMAIN x -> 1 .. n]
    BY <1>2
  <2>2. [DOMAIN x -> 1 .. n] \in {[P -> 1 .. n] : P \in SUBSET (1 .. m)}
    BY <1>2
  <2> QED BY <1>2, <2>1, <2>2 DEF Pairings
<1> QED BY <1>1, <1>2 DEF Pairings

\* Pairs are at most as many as the characters of either word.
LEMMA PairsFit ==
  ASSUME NEW m \in Nat, NEW n \in Nat, NEW x \in Pairings(m, n)
  PROVE  /\ IsFiniteSet(DOMAIN x)
         /\ Cardinality(DOMAIN x) \in 0 .. m
         /\ Cardinality(DOMAIN x) \in 0 .. n
<1>1. /\ x = [k \in DOMAIN x |-> x[k]] /\ DOMAIN x \subseteq 1 .. m
      /\ \A k \in DOMAIN x : x[k] \in 1 .. n
      /\ Rises(x)
  BY PairingType
<1>2. \A p \in Nat : IsFiniteSet(1 .. p) /\ Cardinality(1 .. p) = p
  <2>1. ASSUME NEW p \in Nat PROVE IsFiniteSet(1 .. p) /\ Cardinality(1 .. p) = p
    <3>1. 1 \in Int /\ p \in Int /\ (1 > p => p = 0) /\ p - 1 + 1 = p
      OBVIOUS
    <3> QED BY <3>1, FS_Interval
  <2> QED BY <2>1
<1>3. /\ IsFiniteSet(DOMAIN x) /\ Cardinality(DOMAIN x) \in Nat /\ Cardinality(DOMAIN x) <= m
  BY <1>1, <1>2, FS_Subset, FS_CardinalityType
<1>4. x \in Injection(DOMAIN x, 1 .. n)
  <2>1. x \in [DOMAIN x -> 1 .. n]
    BY <1>1
  <2>2. ASSUME NEW k \in DOMAIN x, NEW l \in DOMAIN x, x[k] = x[l] PROVE k = l
    <3>1. k \in Nat /\ l \in Nat /\ x[k] \in Nat /\ x[l] \in Nat
      BY <1>1
    <3> QED BY <1>1, <2>2, <3>1 DEF Rises
  <2> QED BY <2>1, <2>2 DEF Injection, IsInjective
<1>5. Cardinality(DOMAIN x) <= n
  BY <1>2, <1>4, FS_Injection
<1> QED BY <1>3, <1>5

\* A swap is two mismatches, so nothing is counted twice.
LEMMA SwapsFit ==
  ASSUME NEW m \in Nat, NEW n \in Nat, NEW x \in Pairings(m, n), NEW K \in Swappings(x)
  PROVE  /\ IsFiniteSet(Missed(x)) /\ IsFiniteSet(K) /\ K \subseteq Missed(x)
         /\ Cardinality(Missed(x)) \in 0 .. Cardinality(DOMAIN x)
         /\ Cardinality(K) \in 0 .. Cardinality(Missed(x))
<1>1. IsFiniteSet(DOMAIN x) /\ Cardinality(DOMAIN x) \in Nat
  BY PairsFit
<1>2. IsFiniteSet(Missed(x)) /\ Cardinality(Missed(x)) \in 0 .. Cardinality(DOMAIN x)
  <2>1. Missed(x) \in SUBSET DOMAIN x
    BY DEF Missed
  <2> QED BY <1>1, <2>1, FS_Subset, FS_CardinalityType
<1>3. K \subseteq Missed(x)
  BY DEF Swappings, Swappable
<1>4. IsFiniteSet(K) /\ Cardinality(K) \in 0 .. Cardinality(Missed(x))
  BY <1>2, <1>3, FS_Subset, FS_CardinalityType
<1> QED BY <1>2, <1>3, <1>4

LEMMA CountsAreNumbers ==
  ASSUME NEW m \in Nat, NEW n \in Nat, NEW x \in Pairings(m, n), NEW K \in Swappings(x)
  PROVE  /\ Cardinality(DOMAIN x) \in Nat /\ Cardinality(Missed(x)) \in Nat
         /\ Cardinality(K) \in Nat
BY PairsFit, SwapsFit

\* No alignment costs less than the difference of the lengths.
LEMMA PricesAreNumbers ==
  ASSUME NEW m \in Nat, NEW n \in Nat
  PROVE  /\ Prices(m, n) \subseteq Nat
         /\ \A c \in Prices(m, n) : m - n <= c /\ n - m <= c
<1>1. SUFFICES ASSUME NEW c \in Prices(m, n)
               PROVE  c \in Nat /\ m - n <= c /\ n - m <= c
  OBVIOUS
<1>2. PICK x \in Pairings(m, n) : \E K \in Swappings(x) : c = Price(m, n, x, K)
  BY DEF Prices
<1>3. PICK K \in Swappings(x) : c = Price(m, n, x, K)
  BY <1>2
<1> QED BY <1>3, PairsFit, SwapsFit DEF Price

LEMMA PriceType ==
  ASSUME NEW m \in Nat, NEW n \in Nat, NEW x \in Pairings(m, n), NEW K \in Swappings(x)
  PROVE  Price(m, n, x, K) \in Int /\ Price(m, n, x, K) \in Prices(m, n)
<1>1. Price(m, n, x, K) \in Int
  BY PairsFit, SwapsFit DEF Price
<1> QED BY <1>1 DEF Prices

\* Everything may be left out.
LEMMA SomePrice ==
  ASSUME NEW m \in Nat, NEW n \in Nat
  PROVE  m + n \in Prices(m, n)
<1> DEFINE x == [k \in {} |-> 0]
<1>1. x \in Pairings(m, n) /\ DOMAIN x = {}
  BY PairingType DEF Rises
<1>2. Missed(x) = {} /\ {} \in Swappings(x)
  BY DEF Missed, Swappings, Apart
<1>3. Price(m, n, x, {}) = m + n
  BY <1>1, <1>2, FS_EmptySet DEF Price
<1> QED BY <1>1, <1>2, <1>3, PriceType

LEMMA CellIsLeast ==
  ASSUME NEW m \in Nat, NEW n \in Nat
  PROVE  /\ Cell(m, n) \in Nat /\ Cell(m, n) \in Prices(m, n)
         /\ \A c \in Prices(m, n) : Cell(m, n) <= c
         /\ m - n <= Cell(m, n) /\ n - m <= Cell(m, n)
BY PricesAreNumbers, SomePrice, Least DEF Cell

\* The edges of the table: all of the other word is left out.
LEMMA Edges ==
  ASSUME NEW m \in Nat
  PROVE  Cell(m, 0) = m /\ Cell(0, m) = m
<1>1. m + 0 = m /\ 0 + m = m
  OBVIOUS
<1>2. Cell(m, 0) \in Nat /\ Cell(m, 0) <= m /\ m - 0 <= Cell(m, 0)
  BY <1>1, CellIsLeast, SomePrice
<1>3. Cell(0, m) \in Nat /\ Cell(0, m) <= m /\ m - 0 <= Cell(0, m)
  BY <1>1, CellIsLeast, SomePrice
<1> QED BY <1>2, <1>3

-----------------------------------------------------------------------------
(* A longer alignment from a shorter one. *)

\* A character left out costs one.
LEMMA LeaveOut ==
  ASSUME NEW m \in Nat, NEW n \in Nat, NEW c \in Prices(m, n)
  PROVE  c + 1 \in Prices(m + 1, n) /\ c + 1 \in Prices(m, n + 1)
<1>0. PICK x \in Pairings(m, n) : \E K \in Swappings(x) : c = Price(m, n, x, K)
  BY DEF Prices
<1>1. PICK K \in Swappings(x) : c = Price(m, n, x, K)
  BY <1>0
<1>2. x \in Pairings(m + 1, n) /\ x \in Pairings(m, n + 1)
  <2>1. /\ x = [k \in DOMAIN x |-> x[k]] /\ DOMAIN x \subseteq 1 .. m
        /\ \A k \in DOMAIN x : x[k] \in 1 .. n
        /\ Rises(x)
    BY PairingType
  <2>2. /\ m + 1 \in Nat /\ n + 1 \in Nat /\ DOMAIN x \subseteq 1 .. m + 1
        /\ \A k \in DOMAIN x : x[k] \in 1 .. n + 1
    BY <2>1
  <2> QED BY <2>1, <2>2, PairingType
<1>3. Price(m + 1, n, x, K) = c + 1 /\ Price(m, n + 1, x, K) = c + 1
  BY <1>1, PairsFit, SwapsFit DEF Price
<1> QED BY <1>2, <1>3, PriceType

Joined(x, p, q) == [k \in DOMAIN x \cup {p} |-> IF k = p THEN q ELSE x[k]]

\* y is x with one more pair.
Extended(x, y, m, n) ==
  /\ y \in Pairings(m + 1, n + 1)
  /\ DOMAIN y = DOMAIN x \cup {m + 1} /\ m + 1 \notin DOMAIN x
  /\ Cardinality(DOMAIN y) = Cardinality(DOMAIN x) + 1
  /\ y[m + 1] = n + 1 /\ \A k \in DOMAIN x : y[k] = x[k]
  /\ Missed(y) = Missed(x) \cup IF a[m + 1] = b[n + 1] THEN {} ELSE {m + 1}
  /\ Cardinality(Missed(y)) = Cardinality(Missed(x)) + IF a[m + 1] = b[n + 1] THEN 0 ELSE 1
  /\ Swappings(x) \subseteq Swappings(y)

LEMMA JoinedFacts ==
  ASSUME NEW m \in Nat, NEW n \in Nat, NEW x \in Pairings(m, n)
  PROVE  Extended(x, Joined(x, m + 1, n + 1), m, n)
<1> DEFINE y == Joined(x, m + 1, n + 1)
<1>1. /\ x = [k \in DOMAIN x |-> x[k]] /\ DOMAIN x \subseteq 1 .. m
      /\ \A k \in DOMAIN x : x[k] \in 1 .. n
      /\ Rises(x)
  BY PairingType
<1>2. /\ y = [k \in DOMAIN y |-> y[k]] /\ DOMAIN y = DOMAIN x \cup {m + 1}
      /\ m + 1 \notin DOMAIN x
      /\ y[m + 1] = n + 1 /\ \A k \in DOMAIN x : y[k] = x[k]
  BY <1>1 DEF Joined
<1> HIDE DEF y
<1>3. y \in Pairings(m + 1, n + 1)
  <2>1. DOMAIN y \subseteq 1 .. m + 1 /\ \A k \in DOMAIN y : y[k] \in 1 .. n + 1
    BY <1>1, <1>2
  <2>2. ASSUME NEW k \in DOMAIN y, NEW l \in DOMAIN y, k < l PROVE y[k] < y[l]
    <3>1. k \in DOMAIN x
      BY <1>1, <1>2, <2>1, <2>2
    <3>2. CASE l = m + 1
      BY <1>1, <1>2, <3>1, <3>2
    <3>3. CASE l \in DOMAIN x
      BY <1>1, <1>2, <2>2, <3>1, <3>3 DEF Rises
    <3> QED BY <1>2, <3>2, <3>3
  <2>3. m + 1 \in Nat /\ n + 1 \in Nat /\ Rises(y)
    BY <2>2 DEF Rises
  <2> QED BY <1>2, <2>1, <2>3, PairingType
<1>4. IsFiniteSet(DOMAIN x) /\ IsFiniteSet(Missed(x)) /\ Missed(x) \subseteq DOMAIN x
  <2>1. Missed(x) \in SUBSET DOMAIN x
    BY DEF Missed
  <2> QED BY <2>1, PairsFit, FS_Subset
<1>5. Cardinality(DOMAIN y) = Cardinality(DOMAIN x) + 1
  <2>1. Cardinality(DOMAIN x \cup {m + 1}) = Cardinality(DOMAIN x) + 1
    BY <1>2, <1>4, FS_AddElement
  <2> QED BY <1>2, <2>1
<1>6. Missed(y) = Missed(x) \cup IF a[m + 1] = b[n + 1] THEN {} ELSE {m + 1}
  BY <1>2 DEF Missed
<1>7. Cardinality(Missed(y)) = Cardinality(Missed(x)) + IF a[m + 1] = b[n + 1] THEN 0 ELSE 1
  <2>1. Cardinality(Missed(x)) \in Nat /\ m + 1 \notin Missed(x)
    BY <1>2, <1>4, FS_CardinalityType
  <2>2. CASE a[m + 1] = b[n + 1]
    BY <1>6, <2>1, <2>2
  <2>3. CASE a[m + 1] # b[n + 1]
    BY <1>4, <1>6, <2>1, <2>3, FS_AddElement
  <2> QED BY <2>2, <2>3
<1>8. Swappings(x) \subseteq Swappings(y)
  <2>1. ASSUME NEW k \in DOMAIN x, Swappable(x, k) PROVE k \in DOMAIN y /\ Swappable(y, k)
    <3>1. k \in DOMAIN x /\ k + 1 \in DOMAIN x
      BY <2>1 DEF Swappable, Missed
    <3> QED BY <1>2, <1>6, <2>1, <3>1 DEF Swappable
  <2> QED BY <2>1 DEF Swappings
<1>9. Extended(x, y, m, n)
  BY <1>2, <1>3, <1>5, <1>6, <1>7, <1>8 DEF Extended
<1> QED BY <1>9 DEF y

\* A pair costs one if its characters differ.
LEMMA PairUp ==
  ASSUME NEW m \in Nat, NEW n \in Nat, NEW c \in Prices(m, n)
  PROVE  c + (IF a[m + 1] = b[n + 1] THEN 0 ELSE 1) \in Prices(m + 1, n + 1)
<1>0. PICK x \in Pairings(m, n) : \E K \in Swappings(x) : c = Price(m, n, x, K)
  BY DEF Prices
<1>1. PICK K \in Swappings(x) : c = Price(m, n, x, K)
  BY <1>0
<1> DEFINE y == Joined(x, m + 1, n + 1)
<1>2. /\ y \in Pairings(m + 1, n + 1) /\ K \in Swappings(y)
      /\ Cardinality(DOMAIN y) = Cardinality(DOMAIN x) + 1
      /\ Cardinality(Missed(y)) =
           Cardinality(Missed(x)) + IF a[m + 1] = b[n + 1] THEN 0 ELSE 1
  <2>1. Extended(x, y, m, n)
    BY JoinedFacts
  <2> HIDE DEF y
  <2> QED BY <2>1 DEF Extended
<1> HIDE DEF y
<1>3. Price(m + 1, n + 1, y, K) = c + IF a[m + 1] = b[n + 1] THEN 0 ELSE 1
  BY <1>1, <1>2, PairsFit, SwapsFit DEF Price
<1> QED BY <1>2, <1>3, PriceType

\* Two pairs that match when exchanged cost one at most.
LEMMA Swap ==
  ASSUME NEW m \in Nat, NEW n \in Nat, NEW c \in Prices(m, n), swaps,
         a[m + 2] = b[n + 1], a[m + 1] = b[n + 2]
  PROVE  \E e \in Prices(m + 2, n + 2) : e <= c + 1
<1>0. PICK x \in Pairings(m, n) : \E K \in Swappings(x) : c = Price(m, n, x, K)
  BY DEF Prices
<1>1. PICK K \in Swappings(x) : c = Price(m, n, x, K)
  BY <1>0
<1>2. m + 1 \in Nat /\ n + 1 \in Nat /\ (m + 1) + 1 = m + 2 /\ (n + 1) + 1 = n + 2
  OBVIOUS
<1>3. CASE a[m + 1] = b[n + 1]
  <2>1. c \in Nat /\ c + 0 = c
    BY PricesAreNumbers
  <2>2. c \in Prices(m + 1, n + 1)
    BY <1>3, <2>1, PairUp
  <2>3. a[m + 2] = b[n + 2]
    BY <1>3
  <2>4. c \in Prices(m + 2, n + 2)
    BY <1>2, <2>1, <2>2, <2>3, PairUp
  <2> QED BY <2>1, <2>4
<1>4. CASE a[m + 1] # b[n + 1]
  <2> DEFINE y == Joined(x, m + 1, n + 1)
             z == Joined(y, m + 2, n + 2)
  <2>1. /\ y \in Pairings(m + 1, n + 1) /\ K \in Swappings(y)
        /\ DOMAIN y = DOMAIN x \cup {m + 1}
        /\ Cardinality(DOMAIN y) = Cardinality(DOMAIN x) + 1
        /\ y[m + 1] = n + 1
        /\ Missed(y) = Missed(x) \cup {m + 1}
        /\ Cardinality(Missed(y)) = Cardinality(Missed(x)) + 1
    <3>1. Extended(x, y, m, n)
      BY JoinedFacts
    <3> HIDE DEF y
    <3> QED BY <1>4, <3>1 DEF Extended
  <2> HIDE DEF y
  <2>2. a[m + 2] # b[n + 2]
    BY <1>4
  <2>3. /\ z \in Pairings(m + 2, n + 2) /\ K \in Swappings(z)
        /\ DOMAIN z = DOMAIN y \cup {m + 2}
        /\ Cardinality(DOMAIN z) = Cardinality(DOMAIN y) + 1
        /\ z[m + 2] = n + 2 /\ \A k \in DOMAIN y : z[k] = y[k]
        /\ Missed(z) = Missed(y) \cup {m + 2}
        /\ Cardinality(Missed(z)) = Cardinality(Missed(y)) + 1
    <3>1. Extended(y, z, m + 1, n + 1)
      BY <1>2, <2>1, JoinedFacts
    <3> HIDE DEF z
    <3> QED BY <1>2, <2>1, <2>2, <3>1 DEF Extended
  <2> HIDE DEF z
  <2>4. \A k \in DOMAIN x : k \in 1 .. m
    BY PairingType
  <2>5. m + 1 \in DOMAIN z /\ Swappable(z, m + 1)
    BY <1>2, <2>1, <2>3 DEF Swappable
  <2>6. \A k \in K : k \in DOMAIN x /\ k + 1 \in DOMAIN x
    BY DEF Swappings, Swappable, Missed
  <2>7. m + 1 \notin K /\ Apart(K \cup {m + 1})
    <3>1. \A k \in K : k \in 1 .. m /\ k + 1 \in 1 .. m
      BY <2>4, <2>6
    <3>2. \A k \in K : k + 1 # m + 1 /\ k + 1 \notin K
      BY <3>1 DEF Swappings, Apart
    <3>3. (m + 1) + 1 \notin K /\ (m + 1) + 1 # m + 1 /\ m + 1 \notin K
      BY <3>1
    <3> QED BY <3>2, <3>3 DEF Apart
  <2>8. K \cup {m + 1} \in Swappings(z)
    BY <2>3, <2>5, <2>7 DEF Swappings
  <2>9. Cardinality(K \cup {m + 1}) = Cardinality(K) + 1 /\ Cardinality(K) \in Nat
    BY <2>7, SwapsFit, FS_AddElement, FS_CardinalityType
  <2>10. Price(m + 2, n + 2, z, K \cup {m + 1}) = c + 1
    BY <1>1, <2>1, <2>3, <2>9, PairsFit, SwapsFit DEF Price
  <2>11. c + 1 \in Prices(m + 2, n + 2)
    BY <2>3, <2>8, <2>10, PriceType
  <2>12. c + 1 \in Nat
    BY PricesAreNumbers
  <2> QED BY <2>11, <2>12
<1> QED BY <1>3, <1>4

-----------------------------------------------------------------------------
(* A shorter alignment from a longer one. *)

\* x without the pairs of p.
Without(x, p) == [k \in DOMAIN x \ {p} |-> x[k]]

\* y is x without its last pair.
Shortened(x, y, m, n) ==
  /\ y \in Pairings(m, n)
  /\ DOMAIN y = DOMAIN x \ {m + 1}
  /\ Cardinality(DOMAIN x) = Cardinality(DOMAIN y) + 1
  /\ \A k \in DOMAIN y : y[k] = x[k]
  /\ Missed(y) = Missed(x) \ {m + 1}
  /\ Cardinality(Missed(x)) = Cardinality(Missed(y)) + IF a[m + 1] = b[n + 1] THEN 0 ELSE 1

LEMMA WithoutFacts ==
  ASSUME NEW m \in Nat, NEW n \in Nat, NEW x \in Pairings(m + 1, n + 1),
         m + 1 \in DOMAIN x, x[m + 1] = n + 1
  PROVE  Shortened(x, Without(x, m + 1), m, n)
<1> DEFINE y == Without(x, m + 1)
<1>1. /\ x = [k \in DOMAIN x |-> x[k]] /\ DOMAIN x \subseteq 1 .. m + 1
      /\ \A k \in DOMAIN x : x[k] \in 1 .. n + 1
      /\ Rises(x)
  <2>1. m + 1 \in Nat /\ n + 1 \in Nat
    OBVIOUS
  <2> QED BY <2>1, PairingType
<1>2. /\ y = [k \in DOMAIN y |-> y[k]] /\ DOMAIN y = DOMAIN x \ {m + 1}
      /\ \A k \in DOMAIN y : y[k] = x[k]
  BY DEF Without
<1> HIDE DEF y
<1>3. y \in Pairings(m, n)
  <2>1. DOMAIN y \subseteq 1 .. m
    BY <1>1, <1>2
  <2>2. \A k \in DOMAIN y : y[k] \in 1 .. n
    <3>1. SUFFICES ASSUME NEW k \in DOMAIN y PROVE y[k] \in 1 .. n
      OBVIOUS
    <3>2. k \in DOMAIN x /\ k \in 1 .. m /\ k < m + 1
      BY <1>2, <2>1
    <3>3. x[k] < n + 1 /\ x[k] \in 1 .. n + 1
      BY <1>1, <3>2 DEF Rises
    <3> QED BY <1>2, <3>3
  <2>3. Rises(y)
    BY <1>1, <1>2 DEF Rises
  <2> QED BY <1>2, <2>1, <2>2, <2>3, PairingType
<1>4. IsFiniteSet(DOMAIN y) /\ IsFiniteSet(Missed(y)) /\ Missed(y) \subseteq DOMAIN y
  <2>1. Missed(y) \in SUBSET DOMAIN y
    BY DEF Missed
  <2> QED BY <1>3, <2>1, PairsFit, FS_Subset
<1>5. Cardinality(DOMAIN x) = Cardinality(DOMAIN y) + 1
  <2>1. Cardinality(DOMAIN y \cup {m + 1}) = Cardinality(DOMAIN y) + 1
    <3>1. m + 1 \notin DOMAIN y
      BY <1>2
    <3> QED BY <1>4, <3>1, FS_AddElement
  <2>2. DOMAIN x = DOMAIN y \cup {m + 1}
    BY <1>2
  <2> QED BY <2>1, <2>2
<1>6. Missed(y) = Missed(x) \ {m + 1}
  BY <1>2 DEF Missed
<1>7. Cardinality(Missed(x)) = Cardinality(Missed(y)) + IF a[m + 1] = b[n + 1] THEN 0 ELSE 1
  <2>1. Cardinality(Missed(y)) \in Nat /\ m + 1 \notin Missed(y)
    BY <1>4, <1>6, FS_CardinalityType
  <2>2. CASE a[m + 1] = b[n + 1]
    <3>1. Missed(x) = Missed(y)
      BY <1>6, <2>2 DEF Missed
    <3> QED BY <2>1, <2>2, <3>1
  <2>3. CASE a[m + 1] # b[n + 1]
    <3>1. Missed(x) = Missed(y) \cup {m + 1}
      BY <1>6, <2>3 DEF Missed
    <3>2. Cardinality(Missed(y) \cup {m + 1}) = Cardinality(Missed(y)) + 1
      BY <1>4, <2>1, FS_AddElement
    <3> QED BY <2>3, <3>1, <3>2
  <2> QED BY <2>2, <2>3
<1>8. Shortened(x, y, m, n)
  BY <1>2, <1>3, <1>5, <1>6, <1>7 DEF Shortened
<1> QED BY <1>8 DEF y

\* The last characters of the two prefixes may be exchanged with those before.
SwapCell(m, n) == swaps /\ m > 1 /\ n > 1 /\ a[m] = b[n - 1] /\ a[m - 1] = b[n]

\* What a cell may come from: a character left out on either side, a pair, or
\* two pairs swapped.
Sources(m, n) ==
  {Cell(m - 1, n) + 1, Cell(m, n - 1) + 1, Cell(m - 1, n - 1) + IF a[m] = b[n] THEN 0 ELSE 1}
    \cup IF SwapCell(m, n) THEN {Cell(m - 2, n - 2) + 1} ELSE {}

\* An alignment ends in one of these.
LEMMA SomeSource ==
  ASSUME NEW m \in Nat, NEW n \in Nat
  PROVE  \E s \in Sources(m + 1, n + 1) : s <= Cell(m + 1, n + 1)
<1> DEFINE c == Cell(m + 1, n + 1)
<1>1. /\ m + 1 \in Nat /\ n + 1 \in Nat /\ (m + 1) - 1 = m /\ (n + 1) - 1 = n
      /\ (m + 1) - 2 = m - 1 /\ (n + 1) - 2 = n - 1
  OBVIOUS
<1>2. c \in Prices(m + 1, n + 1) /\ c \in Nat
  BY <1>1, CellIsLeast
<1>3. PICK x \in Pairings(m + 1, n + 1) : \E K \in Swappings(x) : c = Price(m + 1, n + 1, x, K)
  BY <1>2 DEF Prices
<1>4. PICK K \in Swappings(x) : c = Price(m + 1, n + 1, x, K)
  BY <1>3
<1> HIDE DEF c
<1>5. /\ x = [k \in DOMAIN x |-> x[k]] /\ DOMAIN x \subseteq 1 .. m + 1
      /\ \A k \in DOMAIN x : x[k] \in 1 .. n + 1
      /\ Rises(x)
  BY <1>1, PairingType
<1>6. /\ Cardinality(DOMAIN x) \in Nat /\ Cardinality(Missed(x)) \in Nat
      /\ IsFiniteSet(K) /\ Cardinality(K) \in Nat
  BY <1>1, PairsFit, SwapsFit
<1>7. CASE m + 1 \notin DOMAIN x
  <2>1. x \in Pairings(m, n + 1)
    <3>1. DOMAIN x \subseteq 1 .. m
      BY <1>5, <1>7
    <3> QED BY <1>1, <1>5, <3>1, PairingType
  <2>2. Price(m, n + 1, x, K) = c - 1
    BY <1>4, <1>6 DEF Price
  <2>3. Cell(m, n + 1) \in Nat /\ Cell(m, n + 1) <= c - 1
    BY <1>1, <1>4, <2>1, <2>2, CellIsLeast, PriceType
  <2>4. Cell(m, n + 1) + 1 \in Sources(m + 1, n + 1)
    BY <1>1 DEF Sources
  <2>5. Cell(m, n + 1) + 1 <= c
    BY <1>2, <2>3
  <2> QED BY <2>4, <2>5 DEF c
<1>8. CASE \A k \in DOMAIN x : x[k] # n + 1
  <2>1. x \in Pairings(m + 1, n)
    <3>1. \A k \in DOMAIN x : x[k] \in 1 .. n
      BY <1>5, <1>8
    <3> QED BY <1>1, <1>5, <3>1, PairingType
  <2>2. Price(m + 1, n, x, K) = c - 1
    BY <1>4, <1>6 DEF Price
  <2>3. Cell(m + 1, n) \in Nat /\ Cell(m + 1, n) <= c - 1
    BY <1>1, <1>4, <2>1, <2>2, CellIsLeast, PriceType
  <2>4. Cell(m + 1, n) + 1 \in Sources(m + 1, n + 1)
    BY <1>1 DEF Sources
  <2>5. Cell(m + 1, n) + 1 <= c
    BY <1>2, <2>3
  <2> QED BY <2>4, <2>5 DEF c
<1>9. CASE m + 1 \in DOMAIN x /\ \E k \in DOMAIN x : x[k] = n + 1
  <2>1. x[m + 1] = n + 1
    <3>1. PICK k \in DOMAIN x : x[k] = n + 1
      BY <1>9
    <3>2. k \in 1 .. m + 1 /\ x[m + 1] \in 1 .. n + 1
      BY <1>5, <1>9
    <3>3. k < m + 1 => x[k] < x[m + 1]
      BY <1>5, <1>9 DEF Rises
    <3> QED BY <3>1, <3>2, <3>3
  <2> DEFINE y == Without(x, m + 1)
  <2>2. /\ y \in Pairings(m, n)
        /\ DOMAIN y = DOMAIN x \ {m + 1}
        /\ Cardinality(DOMAIN x) = Cardinality(DOMAIN y) + 1
        /\ \A k \in DOMAIN y : y[k] = x[k]
        /\ Missed(y) = Missed(x) \ {m + 1}
        /\ Cardinality(Missed(x)) =
             Cardinality(Missed(y)) + IF a[m + 1] = b[n + 1] THEN 0 ELSE 1
    <3>1. Shortened(x, y, m, n)
      BY <1>9, <2>1, WithoutFacts
    <3> HIDE DEF y
    <3> QED BY <3>1 DEF Shortened
  <2> HIDE DEF y
  <2>3. /\ \A k \in K : Swappable(x, k) /\ k \in Missed(x) /\ k + 1 \in Missed(x)
        /\ \A k \in K : k \in DOMAIN x /\ k + 1 \in DOMAIN x
        /\ Apart(K)
    BY DEF Swappings, Swappable, Missed, Apart
  <2>4. \A k \in K : k \in 1 .. m /\ k # m + 1
    <3>1. \A k \in K : k \in 1 .. m + 1 /\ k + 1 \in 1 .. m + 1
      BY <1>5, <2>3
    <3> QED BY <3>1
  <2>5. CASE m \notin K
    <3>1. \A k \in K : k + 1 # m + 1
      BY <2>4, <2>5
    <3>2. \A k \in K : k \in DOMAIN y /\ Swappable(y, k)
      BY <2>2, <2>3, <2>4, <3>1 DEF Swappable
    <3>3. K \in Swappings(y)
      BY <2>3, <3>2 DEF Swappings
    <3>4. Price(m, n, y, K) = c - IF a[m + 1] = b[n + 1] THEN 0 ELSE 1
      <4>1. Cardinality(DOMAIN y) \in Nat /\ Cardinality(Missed(y)) \in Nat
        <5>1. y \in Pairings(m, n)
          BY <2>2
        <5> QED BY <3>3, <5>1, CountsAreNumbers
      <4> QED BY <1>4, <1>6, <2>2, <4>1 DEF Price
    <3>5. Cell(m, n) \in Nat /\ Cell(m, n) <= c - IF a[m + 1] = b[n + 1] THEN 0 ELSE 1
      BY <2>2, <3>3, <3>4, CellIsLeast, PriceType, Zenon
    <3>6. Cell(m, n) + (IF a[m + 1] = b[n + 1] THEN 0 ELSE 1) \in Sources(m + 1, n + 1)
      BY <1>1 DEF Sources
    <3>7. Cell(m, n) + (IF a[m + 1] = b[n + 1] THEN 0 ELSE 1) <= c
      BY <1>2, <3>5
    <3> QED BY <3>6, <3>7 DEF c
  <2>6. CASE m \in K
    <3>1. /\ m \in Missed(x) /\ m + 1 \in Missed(x) /\ m \in DOMAIN x /\ m \in 1 .. m
          /\ n + 1 = x[m] + 1 /\ a[m] = b[n + 1] /\ a[m + 1] = b[x[m]] /\ swaps
      BY <2>1, <2>3, <2>4, <2>6 DEF Swappable, Swappings
    <3>2. x[m] = n /\ n \in 1 .. n + 1 /\ a[m + 1] = b[n]
      BY <1>5, <3>1
    <3>3. a[m + 1] # b[n + 1] /\ a[m] # b[n]
      BY <2>1, <3>1, <3>2 DEF Missed
    <3> DEFINE p == m - 1
               q == n - 1
               z == Without(y, p + 1)
    <3>4. p \in Nat /\ q \in Nat /\ p + 1 = m /\ q + 1 = n
      BY <3>1, <3>2
    <3> HIDE DEF p, q
    <3>5. /\ y \in Pairings(p + 1, q + 1) /\ p + 1 \in DOMAIN y /\ y[p + 1] = q + 1
      BY <2>2, <3>1, <3>2, <3>4
    <3>6. /\ z \in Pairings(p, q)
          /\ DOMAIN z = DOMAIN y \ {p + 1}
          /\ Cardinality(DOMAIN y) = Cardinality(DOMAIN z) + 1
          /\ \A k \in DOMAIN z : z[k] = y[k]
          /\ Missed(z) = Missed(y) \ {p + 1}
          /\ Cardinality(Missed(y)) =
               Cardinality(Missed(z)) + IF a[p + 1] = b[q + 1] THEN 0 ELSE 1
      <4>1. Shortened(y, z, p, q)
        BY <3>4, <3>5, WithoutFacts
      <4> HIDE DEF z
      <4> QED BY <4>1 DEF Shortened
    <3> HIDE DEF z
    <3> DEFINE L == K \ {m}
    <3> HIDE DEF L
    <3>7. L \in Swappings(z)
      <4>1. ASSUME NEW k \in L PROVE k \in DOMAIN z /\ Swappable(z, k)
        <5>1. k \in 1 .. m /\ k # m /\ k + 1 # m + 1 /\ k # m + 1
          BY <2>4 DEF L
        <5>2. k + 1 # m
          BY <2>3, <2>6 DEF Apart, L
        <5>3. k \in Missed(z) /\ k + 1 \in Missed(z) /\ k \in DOMAIN z /\ k + 1 \in DOMAIN z
          BY <2>2, <2>3, <3>4, <3>6, <5>1, <5>2 DEF L
        <5>4. z[k] = x[k] /\ z[k + 1] = x[k + 1]
          BY <2>2, <3>6, <5>3
        <5> QED BY <2>3, <5>3, <5>4 DEF Swappable, L
      <4>2. Apart(L)
        BY <2>3 DEF Apart, L
      <4> QED BY <3>1, <4>1, <4>2 DEF Swappings
    <3>8. Cardinality(K) = Cardinality(L) + 1
      <4>1. Cardinality(K \ {m}) = Cardinality(K) - 1
        BY <1>6, <2>6, FS_RemoveElement
      <4> QED BY <1>6, <4>1 DEF L
    <3>9. Price(p, q, z, L) = c - 1
      <4>1. /\ Cardinality(DOMAIN z) \in Nat /\ Cardinality(Missed(z)) \in Nat
            /\ Cardinality(L) \in Nat
        <5>1. z \in Pairings(p, q) /\ p \in Nat /\ q \in Nat
          BY <3>4, <3>6
        <5> QED BY <3>7, <5>1, CountsAreNumbers
      <4>2. /\ Cardinality(DOMAIN x) = Cardinality(DOMAIN z) + 2
            /\ Cardinality(Missed(x)) = Cardinality(Missed(z)) + 2
        BY <2>2, <3>3, <3>4, <3>6, <4>1
      <4> QED BY <1>4, <3>4, <3>8, <4>1, <4>2 DEF Price
    <3>10. Cell(p, q) \in Nat /\ Cell(p, q) <= c - 1
      BY <3>4, <3>6, <3>7, <3>9, CellIsLeast, PriceType
    <3>11. p = m - 1 /\ q = n - 1
      BY DEF p, q
    <3>12. SwapCell(m + 1, n + 1)
      BY <1>1, <3>1, <3>2, <3>4 DEF SwapCell
    <3>13. Cell(p, q) + 1 \in Sources(m + 1, n + 1)
      BY <1>1, <3>11, <3>12 DEF Sources
    <3>14. Cell(p, q) + 1 <= c
      BY <1>2, <3>10
    <3> QED BY <3>13, <3>14 DEF c
  <2> QED BY <2>5, <2>6
<1> QED BY <1>7, <1>8, <1>9

-----------------------------------------------------------------------------
(* The table. *)

LEMMA NoSourceCheaper ==
  ASSUME NEW m \in Nat, NEW n \in Nat, NEW s \in Sources(m + 1, n + 1)
  PROVE  s \in Nat /\ Cell(m + 1, n + 1) <= s
<1>1. /\ m + 1 \in Nat /\ n + 1 \in Nat /\ (m + 1) - 1 = m /\ (n + 1) - 1 = n
      /\ (m + 1) - 2 = m - 1 /\ (n + 1) - 2 = n - 1
  OBVIOUS
<1> DEFINE cost == IF a[m + 1] = b[n + 1] THEN 0 ELSE 1
<1>2. cost \in Nat
  OBVIOUS
<1>3. /\ Cell(m, n + 1) \in Nat /\ Cell(m + 1, n) \in Nat /\ Cell(m, n) \in Nat
      /\ Cell(m, n + 1) \in Prices(m, n + 1) /\ Cell(m + 1, n) \in Prices(m + 1, n)
      /\ Cell(m, n) \in Prices(m, n) /\ Cell(m + 1, n + 1) \in Nat
  BY <1>1, CellIsLeast
<1>4. Cell(m, n + 1) + 1 \in Prices(m + 1, n + 1) /\ Cell(m + 1, n) + 1 \in Prices(m + 1, n + 1)
  BY <1>1, <1>3, LeaveOut
<1>5. Cell(m, n) + cost \in Prices(m + 1, n + 1)
  BY <1>3, PairUp
<1>6. \A c \in Prices(m + 1, n + 1) : Cell(m + 1, n + 1) <= c
  BY <1>1, CellIsLeast
<1> HIDE DEF cost
<1>7. CASE s \in {Cell(m, n + 1) + 1, Cell(m + 1, n) + 1, Cell(m, n) + cost}
  BY <1>2, <1>3, <1>4, <1>5, <1>6, <1>7
<1>8. CASE SwapCell(m + 1, n + 1) /\ s = Cell(m - 1, n - 1) + 1
  <2> DEFINE p == m - 1
             q == n - 1
  <2>1. /\ p \in Nat /\ q \in Nat /\ p + 2 = m + 1 /\ q + 2 = n + 1 /\ p + 1 = m /\ q + 1 = n
        /\ swaps /\ a[p + 2] = b[q + 1] /\ a[p + 1] = b[q + 2]
    BY <1>1, <1>8 DEF SwapCell
  <2>2. s = Cell(p, q) + 1
    BY <1>8
  <2> HIDE DEF p, q
  <2>3. Cell(p, q) \in Nat /\ Cell(p, q) \in Prices(p, q)
    BY <2>1, CellIsLeast
  <2>4. PICK e \in Prices(p + 2, q + 2) : e <= Cell(p, q) + 1
    BY <2>1, <2>3, Swap
  <2>5. e \in Prices(m + 1, n + 1) /\ e \in Nat
    BY <1>1, <2>1, <2>4, PricesAreNumbers
  <2> QED BY <1>3, <1>6, <2>2, <2>3, <2>4, <2>5
<1>9. s \in {Cell(m, n + 1) + 1, Cell(m + 1, n) + 1, Cell(m, n) + cost}
      \/ (SwapCell(m + 1, n + 1) /\ s = Cell(m - 1, n - 1) + 1)
  BY <1>1 DEF Sources, cost
<1> QED BY <1>7, <1>8, <1>9

\* A cell is the least of what it may come from.
LEMMA CellFromSources ==
  ASSUME NEW m \in Nat, NEW n \in Nat
  PROVE  Cell(m + 1, n + 1) = Min(Sources(m + 1, n + 1))
<1> DEFINE T == Sources(m + 1, n + 1)
<1>1. PICK s \in T : s <= Cell(m + 1, n + 1)
  BY SomeSource
<1>2. \A e \in T : e \in Nat /\ Cell(m + 1, n + 1) <= e
  BY NoSourceCheaper
<1> HIDE DEF T
<1>3. Min(T) \in T /\ Min(T) <= s
  BY <1>1, <1>2, Least
<1>4. Cell(m + 1, n + 1) \in Nat
  BY CellIsLeast
<1>5. Cell(m + 1, n + 1) = Min(T)
  BY <1>1, <1>2, <1>3, <1>4
<1> QED BY <1>5 DEF T

\* A row whose cells all exceed a bound is followed by such rows only.  A swap
\* reads from two rows above, but no less than one below what is left of it.
LEMMA NextRowFar ==
  ASSUME NEW m \in Nat, NEW n \in Nat, NEW t \in Nat, \A j \in 0 .. n : Cell(m, j) > t
  PROVE  \A j \in 0 .. n : Cell(m + 1, j) > t
<1> DEFINE S == {j \in Nat : j <= n => Cell(m + 1, j) > t}
<1>1. 0 \in S
  <2>1. m + 1 \in Nat /\ 0 \in 0 .. n
    OBVIOUS
  <2>2. Cell(m, 0) = m /\ Cell(m + 1, 0) = m + 1
    BY <2>1, Edges
  <2> QED BY <2>1, <2>2
<1>2. ASSUME NEW j \in Nat, j \in S PROVE j + 1 \in S
  <2>1. SUFFICES ASSUME j + 1 <= n PROVE Cell(m + 1, j + 1) > t
    OBVIOUS
  <2>2. j \in 0 .. n /\ j + 1 \in 0 .. n /\ m + 1 \in Nat /\ j + 1 \in Nat
    BY <2>1
  <2>3. Cell(m + 1, j) > t /\ Cell(m, j) > t /\ Cell(m, j + 1) > t
    BY <1>2, <2>1, <2>2
  <2>4. /\ Cell(m + 1, j) \in Nat /\ Cell(m, j) \in Nat /\ Cell(m, j + 1) \in Nat
        /\ Cell(m + 1, j + 1) \in Nat
    BY <2>2, CellIsLeast
  <2>5. PICK s \in Sources(m + 1, j + 1) : s <= Cell(m + 1, j + 1)
    BY SomeSource
  <2>6. s \in Nat
    BY NoSourceCheaper
  <2>7. (m + 1) - 1 = m /\ (j + 1) - 1 = j /\ (m + 1) - 2 = m - 1 /\ (j + 1) - 2 = j - 1
    OBVIOUS
  <2>8. CASE SwapCell(m + 1, j + 1) /\ s = Cell(m - 1, j - 1) + 1
    <3> DEFINE p == m - 1
               q == j - 1
    <3>1. /\ p \in Nat /\ q \in Nat /\ p + 1 = m /\ q \in 0 .. n /\ s = Cell(p, q) + 1
      BY <2>2, <2>8 DEF SwapCell
    <3> HIDE DEF p, q
    <3>2. Cell(p, q) \in Nat /\ Cell(p, q) \in Prices(p, q)
      BY <3>1, CellIsLeast
    <3>3. Cell(p, q) + 1 \in Prices(m, q)
      BY <3>1, <3>2, LeaveOut
    <3>4. Cell(m, q) <= Cell(p, q) + 1 /\ Cell(m, q) \in Nat /\ Cell(m, q) > t
      BY <3>1, <3>3, CellIsLeast
    <3> QED BY <2>4, <2>5, <2>6, <3>1, <3>2, <3>4
  <2>9. CASE s \in {Cell(m, j + 1) + 1, Cell(m + 1, j) + 1,
                    Cell(m, j) + IF a[m + 1] = b[j + 1] THEN 0 ELSE 1}
    <3>1. s > t
      BY <2>3, <2>4, <2>9
    <3> QED BY <2>4, <2>5, <2>6, <3>1
  <2> QED BY <2>5, <2>7, <2>8, <2>9 DEF Sources
<1>3. Nat \subseteq S
  <2> HIDE DEF S
  <2> QED BY <1>1, <1>2, SetInduction
<1> QED BY <1>3

LEMMA RowsStayFar ==
  ASSUME NEW m \in Nat, NEW n \in Nat, NEW t \in Nat, \A j \in 0 .. n : Cell(m, j) > t,
         NEW p \in Nat, m <= p
  PROVE  Cell(p, n) > t
<1> DEFINE S == {d \in Nat : \A j \in 0 .. n : Cell(m + d, j) > t}
<1>1. 0 \in S
  <2>1. m + 0 = m
    OBVIOUS
  <2> QED BY <2>1
<1>2. ASSUME NEW d \in Nat, d \in S PROVE d + 1 \in S
  <2>1. m + d \in Nat /\ m + (d + 1) = (m + d) + 1
    OBVIOUS
  <2>2. \A j \in 0 .. n : Cell((m + d) + 1, j) > t
    BY <1>2, <2>1, NextRowFar
  <2> QED BY <2>1, <2>2
<1>3. Nat \subseteq S
  <2> HIDE DEF S
  <2> QED BY <1>1, <1>2, SetInduction
<1>4. p - m \in Nat /\ m + (p - m) = p /\ n \in 0 .. n
  OBVIOUS
<1>5. p - m \in S
  BY <1>3, <1>4
<1> QED BY <1>4, <1>5

\* The row that NextRow computes from the two rows above.
LEMMA NextRowIsNext ==
  ASSUME NEW m \in Nat, b \in Seq(Chars), NEW above, NEW above2,
         above = Row(m), m > 0 => above2 = Row(m - 1)
  PROVE  NextRow(m + 1, above, above2) = Row(m + 1)
<1> DEFINE next(r, j) ==
      Min({above[j] + 1, r[j - 1] + 1, above[j - 1] + IF a[m + 1] = b[j] THEN 0 ELSE 1}
            \cup IF swaps /\ m + 1 > 1 /\ j > 1 /\ a[m + 1] = b[j - 1] /\ a[(m + 1) - 1] = b[j]
                 THEN {above2[j - 2] + 1} ELSE {})
    Filled(r) == r = [j \in 0 .. Len(b) |-> IF j = 0 THEN m + 1 ELSE next(r, j)]
    row == [j \in 0 .. Len(b) |-> Cell(m + 1, j)]
<1>1. NextRow(m + 1, above, above2) = CHOOSE r : Filled(r)
  BY DEF NextRow
<1>2. Len(b) \in Nat /\ m + 1 \in Nat /\ (m + 1) - 1 = m /\ (m + 1) - 2 = m - 1
  OBVIOUS
<1>3. ASSUME NEW r, NEW j \in Nat, j + 1 <= Len(b), r[j] = Cell(m + 1, j)
      PROVE  next(r, j + 1) = Cell(m + 1, j + 1)
  <2>1. (j + 1) - 1 = j /\ (j + 1) - 2 = j - 1 /\ j + 1 \in 0 .. Len(b) /\ j \in 0 .. Len(b)
    BY <1>2, <1>3
  <2>2. above[j + 1] = Cell(m, j + 1) /\ above[j] = Cell(m, j)
    BY <2>1 DEF Row
  <2>3. SwapCell(m + 1, j + 1) => above2[j - 1] = Cell(m - 1, j - 1)
    <3>1. SUFFICES ASSUME SwapCell(m + 1, j + 1) PROVE above2[j - 1] = Cell(m - 1, j - 1)
      OBVIOUS
    <3>2. m > 0 /\ j - 1 \in 0 .. Len(b)
      BY <2>1, <3>1 DEF SwapCell
    <3> QED BY <3>2 DEF Row
  <2> DEFINE more == IF swaps /\ m + 1 > 1 /\ j + 1 > 1 /\ a[m + 1] = b[j] /\ a[m] = b[j + 1]
                     THEN {above2[j - 1] + 1} ELSE {}
  <2>4. more = IF SwapCell(m + 1, j + 1) THEN {Cell(m - 1, j - 1) + 1} ELSE {}
    BY <1>2, <2>1, <2>3 DEF SwapCell
  <2>5. next(r, j + 1) =
          Min({Cell(m, j + 1) + 1, Cell(m + 1, j) + 1,
               Cell(m, j) + IF a[m + 1] = b[j + 1] THEN 0 ELSE 1} \cup more)
    BY <1>2, <1>3, <2>1, <2>2
  <2> HIDE DEF more, next
  <2>6. {Cell(m, j + 1) + 1, Cell(m + 1, j) + 1,
         Cell(m, j) + IF a[m + 1] = b[j + 1] THEN 0 ELSE 1} \cup more = Sources(m + 1, j + 1)
    BY <1>2, <2>1, <2>4 DEF Sources
  <2> QED BY <2>5, <2>6, CellFromSources
<1>4. Filled(row)
  <2> HIDE DEF next
  <2>1. ASSUME NEW j \in 0 .. Len(b)
        PROVE  Cell(m + 1, j) = IF j = 0 THEN m + 1 ELSE next(row, j)
    <3>1. CASE j = 0
      BY <1>2, <3>1, Edges
    <3>2. CASE j # 0
      <4>1. j - 1 \in Nat /\ j - 1 \in 0 .. Len(b) /\ (j - 1) + 1 = j /\ j <= Len(b)
        BY <1>2, <3>2
      <4>2. row[j - 1] = Cell(m + 1, j - 1)
        BY <4>1
      <4> HIDE DEF row
      <4> QED BY <1>3, <3>2, <4>1, <4>2
    <3> QED BY <3>1, <3>2
  <2> QED BY <2>1
<1>5. ASSUME NEW r, Filled(r) PROVE r = row
  <2> HIDE DEF next
  <2> DEFINE S == {j \in Nat : j <= Len(b) => r[j] = Cell(m + 1, j)}
  <2>1. r[0] = m + 1 /\ \A j \in 1 .. Len(b) : r[j] = next(r, j)
    <3> DEFINE u(j) == next(r, j)
    <3>1. r = [j \in 0 .. Len(b) |-> IF j = 0 THEN m + 1 ELSE u(j)]
      BY <1>5
    <3> HIDE DEF u
    <3>2. r[0] = m + 1 /\ \A j \in 1 .. Len(b) : r[j] = u(j)
      BY <1>2, <3>1
    <3> QED BY <3>2 DEF u
  <2>2. 0 \in S
    BY <1>2, <2>1, Edges
  <2>3. ASSUME NEW j \in Nat, j \in S PROVE j + 1 \in S
    <3>1. SUFFICES ASSUME j + 1 <= Len(b) PROVE r[j + 1] = Cell(m + 1, j + 1)
      OBVIOUS
    <3>2. j <= Len(b) /\ j + 1 \in 1 .. Len(b)
      BY <1>2, <3>1
    <3>3. r[j] = Cell(m + 1, j)
      BY <2>3, <3>2
    <3>4. next(r, j + 1) = Cell(m + 1, j + 1)
      BY <1>3, <3>1, <3>3
    <3> QED BY <2>1, <3>2, <3>4
  <2>4. Nat \subseteq S
    <3> HIDE DEF S
    <3> QED BY <2>2, <2>3, SetInduction
  <2>5. \A j \in 0 .. Len(b) : r[j] = Cell(m + 1, j)
    BY <1>2, <2>4
  <2>6. r = [j \in 0 .. Len(b) |-> r[j]]
    <3> DEFINE u(j) == next(r, j)
    <3>1. r = [j \in 0 .. Len(b) |-> IF j = 0 THEN m + 1 ELSE u(j)]
      BY <1>5
    <3> HIDE DEF u
    <3> QED BY <3>1
  <2> QED BY <2>5, <2>6
<1> HIDE DEF Filled, row
<1>6. Filled(CHOOSE r : Filled(r))
  BY <1>4
<1>7. (CHOOSE r : Filled(r)) = row
  BY <1>5, <1>6
<1> QED BY <1>1, <1>7 DEF row, Row

-----------------------------------------------------------------------------
(* What the functions are to compute, in these terms. *)

LEMMA CostsArePrices ==
  ASSUME a \in Seq(Chars), b \in Seq(Chars), NEW m \in 0 .. Len(a), NEW n \in 0 .. Len(b)
  PROVE  Costs(SubSeq(a, 1, m), SubSeq(b, 1, n)) = Prices(m, n)
<1> DEFINE w == SubSeq(a, 1, m)
           u == SubSeq(b, 1, n)
<1>1. /\ m \in Nat /\ n \in Nat
      /\ Len(w) = m /\ DOMAIN w = 1 .. m /\ \A k \in 1 .. m : w[k] = a[k]
      /\ Len(u) = n /\ DOMAIN u = 1 .. n /\ \A k \in 1 .. n : u[k] = b[k]
  OBVIOUS
<1> HIDE DEF w, u
<1>2. Alignments(w, u) = Pairings(m, n)
  BY <1>1 DEF Alignments, Pairings, Rises
<1>3. ASSUME NEW x \in Pairings(m, n)
      PROVE  /\ Mismatches(w, u, x) = Missed(x) /\ SwapSets(w, u, x) = Swappings(x)
             /\ \A K : Edits(w, u, x, K) = Price(m, n, x, K)
  <2>1. /\ DOMAIN x \subseteq 1 .. m /\ \A k \in DOMAIN x : x[k] \in 1 .. n
    BY <1>1, PairingType
  <2>2. \A k \in DOMAIN x : w[k] = a[k] /\ u[x[k]] = b[x[k]]
    BY <1>1, <2>1
  <2>3. Mismatches(w, u, x) = Missed(x)
    BY <2>2 DEF Mismatches, Missed
  <2>4. \A k \in DOMAIN x : SwapAt(w, u, x, k) <=> Swappable(x, k)
    <3>1. SUFFICES ASSUME NEW k \in DOMAIN x, {k, k + 1} \subseteq Missed(x)
                   PROVE  /\ w[k] = a[k] /\ u[x[k + 1]] = b[x[k + 1]]
                          /\ w[k + 1] = a[k + 1] /\ u[x[k]] = b[x[k]]
      BY <2>3 DEF SwapAt, Swappable
    <3>2. k + 1 \in DOMAIN x
      BY <3>1 DEF Missed
    <3> QED BY <2>2, <3>2
  <2>5. SwapSets(w, u, x) = Swappings(x)
    BY <2>4 DEF SwapSets, Swappings, Apart
  <2> QED BY <1>1, <2>3, <2>5 DEF Edits, Price
<1>4. ASSUME NEW c PROVE c \in Costs(w, u) <=> c \in Prices(m, n)
  <2>1. c \in Costs(w, u) <=>
          \E x \in Alignments(w, u) : \E K \in SwapSets(w, u, x) : c = Edits(w, u, x, K)
    BY DEF Costs
  <2>2. c \in Costs(w, u) <=>
          \E x \in Pairings(m, n) : \E K \in Swappings(x) : c = Price(m, n, x, K)
    BY <1>2, <1>3, <2>1
  <2>3. \A x \in Pairings(m, n) : \A K \in Swappings(x) : Price(m, n, x, K) \in Int
    BY <1>1, PriceType
  <2> QED BY <2>2, <2>3 DEF Prices
<1>5. Costs(w, u) = Prices(m, n)
  BY <1>4
<1> QED BY <1>5 DEF w, u

LEMMA CellIsDistance ==
  ASSUME a \in Seq(Chars), b \in Seq(Chars), NEW m \in 0 .. Len(a), NEW n \in 0 .. Len(b)
  PROVE  Distance(SubSeq(a, 1, m), SubSeq(b, 1, n)) = Cell(m, n)
BY CostsArePrices DEF Distance, Cell

LEMMA LastCellIsDistance ==
  ASSUME a \in Seq(Chars), b \in Seq(Chars)
  PROVE  Distance(a, b) = Cell(Len(a), Len(b))
<1>1. SubSeq(a, 1, Len(a)) = a /\ SubSeq(b, 1, Len(b)) = b
  OBVIOUS
<1>2. Len(a) \in 0 .. Len(a) /\ Len(b) \in 0 .. Len(b)
  OBVIOUS
<1> QED BY <1>1, <1>2, CellIsDistance

-----------------------------------------------------------------------------
(* The cells within a bound are the places as many edits lead to. *)

\* To have read m characters of a and n of b is to be at the place after them.
At(m, n) == <<m + 1, n + 1>>

Near(t) == {p \in Places(a, b) : Cell(p[1] - 1, p[2] - 1) <= t}

LEMMA NearPlaces ==
  ASSUME a \in Seq(Chars), b \in Seq(Chars), NEW t
  PROVE  /\ \A m \in Nat, n \in Nat :
              At(m, n) \in Near(t) <=> m <= Len(a) /\ n <= Len(b) /\ Cell(m, n) <= t
         /\ \A m \in Nat, n \in Nat :
              At(m, n) \in Places(a, b) <=> m <= Len(a) /\ n <= Len(b)
         /\ \A p \in Places(a, b) : \E m \in Nat, n \in Nat : p = At(m, n)
<1>1. Len(a) \in Nat /\ Len(b) \in Nat
  OBVIOUS
<1>2. ASSUME NEW m \in Nat, NEW n \in Nat
      PROVE  At(m, n) \in Places(a, b) <=> m <= Len(a) /\ n <= Len(b)
  BY <1>1 DEF At, Places
<1>3. ASSUME NEW m \in Nat, NEW n \in Nat
      PROVE  At(m, n) \in Near(t) <=> m <= Len(a) /\ n <= Len(b) /\ Cell(m, n) <= t
  <2>1. At(m, n)[1] - 1 = m /\ At(m, n)[2] - 1 = n
    BY DEF At
  <2>2. At(m, n) \in Near(t) <=>
          At(m, n) \in Places(a, b) /\ Cell(At(m, n)[1] - 1, At(m, n)[2] - 1) <= t
    BY DEF Near
  <2> QED BY <1>2, <2>1, <2>2
<1>4. ASSUME NEW p \in Places(a, b)
      PROVE  \E m \in Nat, n \in Nat : p = At(m, n)
  <2>1. PICK k \in 1 .. Len(a) + 1, l \in 1 .. Len(b) + 1 : p = <<k, l>>
    BY DEF Places
  <2>2. k - 1 \in Nat /\ l - 1 \in Nat /\ p = At(k - 1, l - 1)
    BY <2>1 DEF At
  <2> QED BY <2>2
<1> QED BY <1>2, <1>3, <1>4

\* No step costs more than one: leaving a character out, pairing two, a swap.
LEMMA CostsOneMore ==
  ASSUME NEW m \in Nat, NEW n \in Nat
  PROVE  /\ Cell(m, n) \in Nat
         /\ Cell(m + 1, n) <= Cell(m, n) + 1
         /\ Cell(m, n + 1) <= Cell(m, n) + 1
         /\ Cell(m + 1, n + 1) <= Cell(m, n) + 1
         /\ a[m + 1] = b[n + 1] => Cell(m + 1, n + 1) <= Cell(m, n)
         /\ SwapCell(m + 2, n + 2) => Cell(m + 2, n + 2) <= Cell(m, n) + 1
<1>1. m + 1 \in Nat /\ n + 1 \in Nat /\ m + 2 = (m + 1) + 1 /\ n + 2 = (n + 1) + 1
  OBVIOUS
<1>2. Cell(m, n) \in Nat /\ Cell(m, n) \in Prices(m, n)
  BY CellIsLeast
<1>3. Cell(m, n) + 1 \in Prices(m + 1, n) /\ Cell(m, n) + 1 \in Prices(m, n + 1)
  BY <1>2, LeaveOut
<1>4. Cell(m + 1, n) <= Cell(m, n) + 1 /\ Cell(m, n + 1) <= Cell(m, n) + 1
  BY <1>1, <1>3, CellIsLeast
<1>5. /\ a[m + 1] = b[n + 1] => Cell(m + 1, n + 1) <= Cell(m, n)
      /\ Cell(m + 1, n + 1) <= Cell(m, n) + 1
  <2> DEFINE cost == IF a[m + 1] = b[n + 1] THEN 0 ELSE 1
  <2>1. Cell(m, n) + cost \in Prices(m + 1, n + 1)
    BY <1>2, PairUp
  <2>2. Cell(m + 1, n + 1) <= Cell(m, n) + cost /\ Cell(m + 1, n + 1) \in Nat
    BY <1>1, <2>1, CellIsLeast
  <2>3. a[m + 1] = b[n + 1] => cost = 0
    OBVIOUS
  <2>4. cost \in 0 .. 1
    OBVIOUS
  <2> HIDE DEF cost
  <2> QED BY <1>2, <2>2, <2>3, <2>4
<1>6. ASSUME SwapCell(m + 2, n + 2) PROVE Cell(m + 2, n + 2) <= Cell(m, n) + 1
  <2>1. (m + 2) - 2 = m /\ (n + 2) - 2 = n
    OBVIOUS
  <2>2. Cell(m, n) + 1 \in Sources(m + 2, n + 2)
    BY <1>6, <2>1 DEF Sources
  <2> QED BY <1>1, <2>2, NoSourceCheaper
<1> QED BY <1>2, <1>4, <1>5, <1>6

\* Reading equal characters leads from near places to near ones,
LEMMA ReadingStaysNear ==
  ASSUME a \in Seq(Chars), b \in Seq(Chars), NEW t \in Nat
  PROVE  Alike(a, b, Near(t)) \subseteq Near(t)
<1>1. SUFFICES ASSUME NEW p \in Near(t), NEW e \in AlikeFrom(a, b, p)
               PROVE  e \in Near(t)
  BY DEF Alike
<1>2. p \in Places(a, b)
  BY DEF Near
<1>3. PICK m \in Nat, n \in Nat : p = At(m, n)
  BY <1>2, NearPlaces
<1>4. m <= Len(a) /\ n <= Len(b) /\ Cell(m, n) <= t
  BY <1>3, NearPlaces
<1>5. PICK k \in 0 .. Len(a) :
        /\ (m + 1) + k <= Len(a) + 1 /\ (n + 1) + k <= Len(b) + 1
        /\ \A j \in 0 .. k - 1 : a[(m + 1) + j] = b[(n + 1) + j]
        /\ e = <<(m + 1) + k, (n + 1) + k>>
  BY <1>3 DEF AlikeFrom, At
<1> DEFINE S == {x \in Nat : x <= k => Cell(m + x, n + x) <= t}
<1>6. 0 \in S
  <2>1. m + 0 = m /\ n + 0 = n
    OBVIOUS
  <2> QED BY <1>4, <2>1
<1>7. ASSUME NEW x \in Nat, x \in S PROVE x + 1 \in S
  <2>1. SUFFICES ASSUME x + 1 <= k PROVE Cell(m + (x + 1), n + (x + 1)) <= t
    OBVIOUS
  <2>2. Cell(m + x, n + x) <= t
    BY <1>7, <2>1
  <2> DEFINE u == m + x
             v == n + x
  <2>3. /\ u \in Nat /\ v \in Nat /\ u + 1 \in Nat /\ v + 1 \in Nat /\ x \in 0 .. k - 1
        /\ (m + 1) + x = u + 1 /\ (n + 1) + x = v + 1
        /\ m + (x + 1) = u + 1 /\ n + (x + 1) = v + 1
    BY <2>1
  <2>4. a[u + 1] = b[v + 1]
    BY <1>5, <2>3
  <2>5. Cell(u, v) <= t
    BY <2>2
  <2> HIDE DEF u, v
  <2>6. Cell(u + 1, v + 1) <= Cell(u, v)
    BY <2>3, <2>4, CostsOneMore, Zenon
  <2>7. Cell(u, v) \in Nat /\ Cell(u + 1, v + 1) \in Nat
    BY <2>3, CellIsLeast
  <2> QED BY <2>3, <2>5, <2>6, <2>7
<1>8. Nat \subseteq S
  <2> HIDE DEF S
  <2> QED BY <1>6, <1>7, SetInduction
<1>9. Cell(m + k, n + k) <= t
  BY <1>8
<1>10. m + k \in Nat /\ n + k \in Nat /\ m + k <= Len(a) /\ n + k <= Len(b) /\ e = At(m + k, n + k)
  BY <1>5 DEF At
<1> QED BY <1>9, <1>10, NearPlaces

\* ... and an edit to places not more than one farther.
LEMMA EditingStaysNear ==
  ASSUME a \in Seq(Chars), b \in Seq(Chars), NEW t \in Nat
  PROVE  OneEditMore(a, b, swaps, Near(t)) \subseteq Near(t + 1)
<1>1. Near(t) \subseteq Near(t + 1)
  <2>1. SUFFICES ASSUME NEW p \in Near(t) PROVE p \in Near(t + 1)
    OBVIOUS
  <2>2. PICK m \in Nat, n \in Nat : p = At(m, n)
    BY NearPlaces DEF Near
  <2>3. m <= Len(a) /\ n <= Len(b) /\ Cell(m, n) <= t /\ Cell(m, n) \in Nat
    BY <2>2, NearPlaces, CellIsLeast
  <2>4. Cell(m, n) <= t + 1
    BY <2>3
  <2> QED BY <2>2, <2>3, <2>4, NearPlaces
<1>2. ASSUME NEW p \in Near(t), NEW e \in OneEditFrom(a, b, swaps, p), e \in Places(a, b)
      PROVE  e \in Near(t + 1)
  <2>1. PICK m \in Nat, n \in Nat : p = At(m, n)
    BY NearPlaces DEF Near
  <2>2. Cell(m, n) <= t /\ Cell(m, n) \in Nat
    BY <2>1, NearPlaces, CellIsLeast
  <2>3. /\ m + 1 \in Nat /\ n + 1 \in Nat /\ m + 2 \in Nat /\ n + 2 \in Nat
        /\ (m + 1) + 1 = m + 2 /\ (n + 1) + 1 = n + 2
    OBVIOUS
  <2>4. /\ Cell(m + 1, n) \in Nat /\ Cell(m, n + 1) \in Nat /\ Cell(m + 1, n + 1) \in Nat
        /\ Cell(m + 2, n + 2) \in Nat
    BY <2>3, CellIsLeast
  <2>5. ASSUME NEW k \in Nat, NEW l \in Nat, At(k, l) \in Places(a, b), Cell(k, l) <= t + 1
        PROVE  At(k, l) \in Near(t + 1)
    BY <2>5, NearPlaces
  <2>6. CASE e \in {At(m + 1, n), At(m, n + 1), At(m + 1, n + 1)}
    <3>1. /\ Cell(m + 1, n) <= Cell(m, n) + 1 /\ Cell(m, n + 1) <= Cell(m, n) + 1
          /\ Cell(m + 1, n + 1) <= Cell(m, n) + 1
      BY CostsOneMore, Zenon
    <3>2. Cell(m + 1, n) <= t + 1 /\ Cell(m, n + 1) <= t + 1 /\ Cell(m + 1, n + 1) <= t + 1
      BY <2>2, <2>4, <3>1, SMTT(30)
    <3> QED BY <1>2, <2>3, <2>6, <2>5, <3>2, Zenon
  <2>7. CASE swaps /\ SwapFrom(a, b, p) /\ e = At(m + 2, n + 2)
    <3>1. p[1] = m + 1 /\ p[2] = n + 1
      BY <2>1 DEF At
    <3>2. a[m + 1] = b[n + 2] /\ a[m + 2] = b[n + 1]
      BY <2>3, <2>7, <3>1 DEF SwapFrom
    <3>3. (m + 2) - 1 = m + 1 /\ (n + 2) - 1 = n + 1 /\ m + 2 > 1 /\ n + 2 > 1
      OBVIOUS
    <3>4. SwapCell(m + 2, n + 2)
      BY <2>7, <3>2, <3>3 DEF SwapCell
    <3>5. Cell(m + 2, n + 2) <= Cell(m, n) + 1
      BY <3>4, CostsOneMore, Zenon
    <3>6. Cell(m + 2, n + 2) <= t + 1
      BY <2>2, <2>4, <3>5, SMTT(30)
    <3> QED BY <1>2, <2>3, <2>7, <2>5, <3>6, Zenon
  <2>8. /\ <<p[1] + 1, p[2]>> = At(m + 1, n) /\ <<p[1], p[2] + 1>> = At(m, n + 1)
        /\ <<p[1] + 1, p[2] + 1>> = At(m + 1, n + 1)
        /\ <<p[1] + 2, p[2] + 2>> = At(m + 2, n + 2)
    BY <2>1, <2>3 DEF At
  <2> QED BY <2>6, <2>7, <2>8 DEF OneEditFrom
<1> QED BY <1>1, <1>2 DEF OneEditMore

LEMMA AlikeOneMore ==
  ASSUME a \in Seq(Chars), b \in Seq(Chars), NEW S, S \subseteq Places(a, b),
         NEW m \in Nat, NEW n \in Nat, At(m, n) \in Alike(a, b, S),
         m < Len(a), n < Len(b), a[m + 1] = b[n + 1]
  PROVE  At(m + 1, n + 1) \in Alike(a, b, S)
<1>1. PICK p \in S : At(m, n) \in AlikeFrom(a, b, p)
  BY DEF Alike
<1>2. PICK k \in Nat, l \in Nat : p = At(k, l)
  BY <1>1, NearPlaces
<1>3. PICK x \in 0 .. Len(a) :
        /\ \A j \in 0 .. x - 1 : a[(k + 1) + j] = b[(l + 1) + j]
        /\ At(m, n) = <<(k + 1) + x, (l + 1) + x>>
  BY <1>1, <1>2 DEF AlikeFrom, At
<1>4. m = k + x /\ n = l + x
  BY <1>3 DEF At
<1>5. /\ x + 1 \in 0 .. Len(a)
      /\ (k + 1) + (x + 1) <= Len(a) + 1 /\ (l + 1) + (x + 1) <= Len(b) + 1
      /\ At(m + 1, n + 1) = <<(k + 1) + (x + 1), (l + 1) + (x + 1)>>
  BY <1>4 DEF At
<1>6. ASSUME NEW j \in 0 .. (x + 1) - 1 PROVE a[(k + 1) + j] = b[(l + 1) + j]
  <2>1. CASE j \in 0 .. x - 1
    BY <1>3, <2>1
  <2>2. CASE j = x
    <3>1. (k + 1) + j = m + 1 /\ (l + 1) + j = n + 1
      BY <1>4, <2>2
    <3> QED BY <3>1
  <2> QED BY <2>1, <2>2
<1>7. At(m + 1, n + 1) \in AlikeFrom(a, b, At(k, l))
  <2>1. At(k, l)[1] = k + 1 /\ At(k, l)[2] = l + 1
    BY DEF At
  <2> DEFINE N == {y \in 0 .. Len(a) :
                     /\ At(k, l)[1] + y <= Len(a) + 1 /\ At(k, l)[2] + y <= Len(b) + 1
                     /\ \A j \in 0 .. y - 1 : a[At(k, l)[1] + j] = b[At(k, l)[2] + j]}
  <2>2. x + 1 \in N
    BY <1>5, <1>6, <2>1
  <2>3. AlikeFrom(a, b, At(k, l)) = {<<At(k, l)[1] + y, At(k, l)[2] + y>> : y \in N}
    BY DEF AlikeFrom
  <2> HIDE DEF N
  <2> QED BY <1>5, <2>1, <2>2, <2>3
<1> QED BY <1>1, <1>2, <1>7 DEF Alike

LEMMA AlikeHasAll ==
  ASSUME a \in Seq(Chars), b \in Seq(Chars), NEW S, S \subseteq Places(a, b)
  PROVE  S \subseteq Alike(a, b, S)
<1>1. SUFFICES ASSUME NEW p \in S PROVE p \in AlikeFrom(a, b, p)
  BY DEF Alike
<1>2. PICK k \in 1 .. Len(a) + 1, l \in 1 .. Len(b) + 1 : p = <<k, l>>
  BY DEF Places
<1>3. 0 \in 0 .. Len(a) /\ k + 0 = k /\ l + 0 = l
  OBVIOUS
<1> QED BY <1>2, <1>3 DEF AlikeFrom

\* An edit is the last step of the way to a place.
ByEdit(m, n, t) ==
  \/ m > 0 /\ Cell(m - 1, n) < t
  \/ n > 0 /\ Cell(m, n - 1) < t
  \/ m > 0 /\ n > 0 /\ Cell(m - 1, n - 1) < t
  \/ SwapCell(m, n) /\ Cell(m - 2, n - 2) < t

\* A near place is reached by reading equal characters, from the start or from
\* a place reached by an edit.
LEMMA NearCameFrom ==
  ASSUME a \in Seq(Chars), b \in Seq(Chars), NEW t \in Nat, NEW S, S \subseteq Places(a, b),
         Start \in S,
         \A m \in Nat, n \in Nat :
           At(m, n) \in Places(a, b) /\ ByEdit(m, n, t) => At(m, n) \in S
  PROVE  Near(t) \subseteq Alike(a, b, S)
<1> DEFINE T == {m \in Nat : \A n \in Nat : At(m, n) \in Near(t) => At(m, n) \in Alike(a, b, S)}
<1>1. ASSUME NEW m \in Nat, NEW n \in Nat, At(m, n) \in Near(t), ByEdit(m, n, t)
      PROVE  At(m, n) \in Alike(a, b, S)
  BY <1>1, AlikeHasAll DEF Near
<1>2. 0 \in T
  <2>1. SUFFICES ASSUME NEW n \in Nat, At(0, n) \in Near(t)
                 PROVE  At(0, n) \in Alike(a, b, S)
    OBVIOUS
  <2>2. CASE n = 0
    <3>1. At(0, 0) = Start
      BY DEF At, Start
    <3> QED BY <2>2, <3>1, AlikeHasAll
  <2>3. CASE n > 0
    <3>1. n - 1 \in Nat /\ Cell(0, n) = n /\ Cell(0, n - 1) = n - 1 /\ Cell(0, n) <= t
      BY <2>1, <2>3, Edges, NearPlaces
    <3>2. ByEdit(0, n, t)
      BY <2>3, <3>1 DEF ByEdit
    <3> QED BY <1>1, <2>1, <3>2
  <2> QED BY <2>2, <2>3
<1>3. ASSUME NEW m \in Nat, m \in T PROVE m + 1 \in T
  <2>1. SUFFICES ASSUME NEW n \in Nat, At(m + 1, n) \in Near(t)
                 PROVE  At(m + 1, n) \in Alike(a, b, S)
    OBVIOUS
  <2>2. m + 1 \in Nat /\ m + 1 > 0 /\ (m + 1) - 1 = m /\ (m + 1) - 2 = m - 1
    OBVIOUS
  <2>3. m + 1 <= Len(a) /\ n <= Len(b) /\ Cell(m + 1, n) <= t /\ Cell(m + 1, n) \in Nat
    BY <2>1, <2>2, NearPlaces, CellIsLeast
  <2>4. CASE n = 0
    <3>1. Cell(m + 1, 0) = m + 1 /\ Cell(m, 0) = m
      BY <2>2, Edges
    <3>2. ByEdit(m + 1, n, t)
      BY <2>2, <2>3, <2>4, <3>1 DEF ByEdit
    <3> QED BY <1>1, <2>1, <2>2, <3>2
  <2>5. CASE n > 0
    <3> DEFINE k == n - 1
    <3>1. k \in Nat /\ n = k + 1 /\ (k + 1) - 1 = k /\ (k + 1) - 2 = k - 1
      BY <2>5
    <3> HIDE DEF k
    <3>2. PICK s \in Sources(m + 1, k + 1) : s <= Cell(m + 1, k + 1)
      BY <3>1, SomeSource
    <3>3. s \in Nat /\ s <= t
      <4>1. s \in Nat
        BY <3>1, <3>2, NoSourceCheaper, Zenon
      <4>2. Cell(m + 1, k + 1) = Cell(m + 1, n)
        BY <3>1
      <4> QED BY <2>3, <3>2, <4>1, <4>2
    <3>4. Cell(m, k) \in Nat /\ Cell(m, k + 1) \in Nat /\ Cell(m + 1, k) \in Nat
      BY <2>2, <3>1, CellIsLeast
    <3>5. CASE s \in {Cell(m, k + 1) + 1, Cell(m + 1, k) + 1}
      <4>1. Cell(m, k + 1) < t \/ Cell(m + 1, k) < t
        BY <3>3, <3>4, <3>5
      <4>2. ByEdit(m + 1, n, t)
        BY <2>2, <2>5, <3>1, <4>1 DEF ByEdit
      <4> QED BY <1>1, <2>1, <2>2, <4>2
    <3>6. CASE a[m + 1] # b[k + 1] /\ s = Cell(m, k) + 1
      <4>1. Cell(m, k) < t
        BY <3>3, <3>4, <3>6
      <4>2. ByEdit(m + 1, n, t)
        BY <2>2, <2>5, <3>1, <4>1 DEF ByEdit
      <4> QED BY <1>1, <2>1, <2>2, <4>2
    <3>7. CASE a[m + 1] = b[k + 1] /\ s = Cell(m, k) + 0
      <4>1. Cell(m, k) <= t /\ m < Len(a) /\ k < Len(b) /\ m <= Len(a) /\ k <= Len(b)
        BY <2>3, <3>1, <3>3, <3>4, <3>7
      <4>2. At(m, k) \in Alike(a, b, S)
        BY <1>3, <3>1, <4>1, NearPlaces
      <4> QED BY <3>1, <3>7, <4>1, <4>2, AlikeOneMore
    <3>8. CASE SwapCell(m + 1, k + 1) /\ s = Cell(m - 1, k - 1) + 1
      <4>1. m - 1 \in Nat /\ k - 1 \in Nat
        <5>1. m + 1 > 1 /\ k + 1 > 1
          BY <3>8, Zenon DEF SwapCell
        <5> QED BY <3>1, <5>1
      <4>2. Cell(m - 1, k - 1) \in Nat
        BY <4>1, CellIsLeast, Zenon
      <4>3. Cell(m - 1, k - 1) < t
        BY <3>3, <3>8, <4>2
      <4>4. ByEdit(m + 1, n, t)
        BY <2>2, <3>1, <3>8, <4>3 DEF ByEdit
      <4> QED BY <1>1, <2>1, <2>2, <4>4
    <3> QED BY <2>2, <3>1, <3>2, <3>5, <3>6, <3>7, <3>8 DEF Sources
  <2> QED BY <2>4, <2>5
<1>4. Nat \subseteq T
  <2> HIDE DEF T
  <2> QED BY <1>2, <1>3, SetInduction
<1>5. ASSUME NEW p \in Near(t) PROVE p \in Alike(a, b, S)
  <2>1. PICK m \in Nat, n \in Nat : p = At(m, n)
    BY NearPlaces DEF Near
  <2> QED BY <1>4, <2>1
<1> QED BY <1>5

LEMMA NearByEdit ==
  ASSUME a \in Seq(Chars), b \in Seq(Chars)
  PROVE  /\ Near(0) = Alike(a, b, {Start})
         /\ \A t \in Nat : Near(t + 1) = Alike(a, b, OneEditMore(a, b, swaps, Near(t)))
<1>1. Start = At(0, 0) /\ Start \in Places(a, b) /\ \A t \in Nat : Start \in Near(t)
  <2>1. Start = At(0, 0)
    BY DEF Start, At
  <2>2. Cell(0, 0) = 0
    BY Edges
  <2> QED BY <2>1, <2>2, NearPlaces
<1>2. Near(0) = Alike(a, b, {Start})
  <2>1. Alike(a, b, {Start}) \subseteq Alike(a, b, Near(0))
    BY <1>1 DEF Alike
  <2>2. \A m \in Nat, n \in Nat : ~ ByEdit(m, n, 0)
    <3>1. SUFFICES ASSUME NEW m \in Nat, NEW n \in Nat, ByEdit(m, n, 0) PROVE FALSE
      OBVIOUS
    <3>2. SwapCell(m, n) => m > 1 /\ n > 1
      BY DEF SwapCell
    <3>3. PICK k \in Nat, l \in Nat : Cell(k, l) < 0
      <4>1. m > 0 => m - 1 \in Nat
        OBVIOUS
      <4>2. n > 0 => n - 1 \in Nat
        OBVIOUS
      <4>3. m > 1 /\ n > 1 => m - 2 \in Nat /\ n - 2 \in Nat
        OBVIOUS
      <4> QED BY <3>1, <3>2, <4>1, <4>2, <4>3, Zenon DEF ByEdit
    <3>4. Cell(k, l) \in Nat
      BY CellIsLeast
    <3> QED BY <3>3, <3>4
  <2>3. Near(0) \subseteq Alike(a, b, {Start})
    BY <1>1, <2>2, NearCameFrom
  <2> QED BY <2>1, <2>3, ReadingStaysNear
<1>3. ASSUME NEW t \in Nat
      PROVE  Near(t + 1) = Alike(a, b, OneEditMore(a, b, swaps, Near(t)))
  <2> DEFINE S == OneEditMore(a, b, swaps, Near(t))
  <2>1. S \subseteq Near(t + 1) /\ S \subseteq Places(a, b) /\ Start \in S /\ t + 1 \in Nat
    BY <1>1, EditingStaysNear DEF OneEditMore, Near
  <2>2. ASSUME NEW m \in Nat, NEW n \in Nat, At(m, n) \in Places(a, b), ByEdit(m, n, t + 1)
        PROVE  At(m, n) \in S
    <3>1. m <= Len(a) /\ n <= Len(b)
      BY <2>2, NearPlaces
    <3>2. SUFFICES \E p \in Near(t) : At(m, n) \in OneEditFrom(a, b, swaps, p)
      BY <2>2 DEF OneEditMore
    <3>3. ASSUME NEW k \in Nat, NEW l \in Nat, k <= m, l <= n, Cell(k, l) < t + 1
          PROVE  At(k, l) \in Near(t) /\ At(k, l)[1] = k + 1 /\ At(k, l)[2] = l + 1
      <4>1. k <= Len(a) /\ l <= Len(b)
        BY <3>1, <3>3
      <4>2. Cell(k, l) <= t
        <5>1. Cell(k, l) \in Nat
          BY CellIsLeast, Zenon
        <5> QED BY <3>3, <5>1
      <4> QED BY <4>1, <4>2, NearPlaces DEF At
    <3>4. CASE m > 0 /\ Cell(m - 1, n) < t + 1
      <4>1. m - 1 \in Nat /\ m - 1 <= m /\ ((m - 1) + 1) + 1 = m + 1
        BY <3>4
      <4>2. At(m, n) \in OneEditFrom(a, b, swaps, At(m - 1, n)) /\ At(m - 1, n) \in Near(t)
        BY <3>3, <3>4, <4>1 DEF OneEditFrom, At
      <4> QED BY <4>2
    <3>5. CASE n > 0 /\ Cell(m, n - 1) < t + 1
      <4>1. n - 1 \in Nat /\ n - 1 <= n /\ ((n - 1) + 1) + 1 = n + 1
        BY <3>5
      <4>2. At(m, n) \in OneEditFrom(a, b, swaps, At(m, n - 1)) /\ At(m, n - 1) \in Near(t)
        BY <3>3, <3>5, <4>1 DEF OneEditFrom, At
      <4> QED BY <4>2
    <3>6. CASE m > 0 /\ n > 0 /\ Cell(m - 1, n - 1) < t + 1
      <4>1. /\ m - 1 \in Nat /\ m - 1 <= m /\ ((m - 1) + 1) + 1 = m + 1
            /\ n - 1 \in Nat /\ n - 1 <= n /\ ((n - 1) + 1) + 1 = n + 1
        BY <3>6
      <4>2. At(m, n) \in OneEditFrom(a, b, swaps, At(m - 1, n - 1)) /\ At(m - 1, n - 1) \in Near(t)
        BY <3>3, <3>6, <4>1 DEF OneEditFrom, At
      <4> QED BY <4>2
    <3>7. CASE SwapCell(m, n) /\ Cell(m - 2, n - 2) < t + 1
      <4> DEFINE k == m - 2
                 l == n - 2
      <4>1. /\ k \in Nat /\ k <= m /\ (k + 1) + 2 = m + 1 /\ (k + 1) + 1 = m /\ k + 1 = m - 1
            /\ l \in Nat /\ l <= n /\ (l + 1) + 2 = n + 1 /\ (l + 1) + 1 = n /\ l + 1 = n - 1
            /\ k + 1 < Len(a) /\ l + 1 < Len(b)
        BY <3>1, <3>7 DEF SwapCell
      <4>2. Cell(k, l) < t + 1
        BY <3>7
      <4> HIDE DEF k, l
      <4>3. At(k, l) \in Near(t) /\ At(k, l)[1] = k + 1 /\ At(k, l)[2] = l + 1
        BY <3>3, <4>1, <4>2
      <4>4. swaps /\ SwapFrom(a, b, At(k, l))
        BY <3>7, <4>1, <4>3 DEF SwapFrom, SwapCell
      <4>5. At(m, n) = <<At(k, l)[1] + 2, At(k, l)[2] + 2>>
        BY <4>1, <4>3 DEF At
      <4>6. At(m, n) \in OneEditFrom(a, b, swaps, At(k, l))
        BY <4>4, <4>5 DEF OneEditFrom
      <4> QED BY <4>3, <4>6
    <3> QED BY <2>2, <3>4, <3>5, <3>6, <3>7 DEF ByEdit
  <2> HIDE DEF S
  <2>3. Near(t + 1) \subseteq Alike(a, b, S)
    BY <2>1, <2>2, NearCameFrom
  <2>4. Alike(a, b, S) \subseteq Alike(a, b, Near(t + 1))
    BY <2>1 DEF Alike
  <2> QED BY <2>1, <2>3, <2>4, ReadingStaysNear DEF S
<1> QED BY <1>2, <1>3

\* The equation that defines PlacesAfter() has one solution.
LEMMA PlacesAreNear ==
  ASSUME a \in Seq(Chars), b \in Seq(Chars), NEW t \in Nat
  PROVE  PlacesAfter(a, b, swaps, t) = Near(t)
<1> DEFINE next(g, m) == Alike(a, b, IF m = 0 THEN {Start} ELSE OneEditMore(a, b, swaps, g[m - 1]))
           Solves(g) == g = [m \in 0 .. t |-> next(g, m)]
           near == [m \in 0 .. t |-> Near(m)]
<1>1. PlacesAfter(a, b, swaps, t) = (CHOOSE g : Solves(g))[t]
  BY DEF PlacesAfter
<1>2. ASSUME NEW g, NEW m \in 0 .. t, m > 0 => g[m - 1] = Near(m - 1)
      PROVE  next(g, m) = Near(m)
  <2>1. CASE m = 0
    BY <2>1, NearByEdit
  <2>2. CASE m > 0
    <3>1. m - 1 \in Nat /\ (m - 1) + 1 = m /\ m # 0
      BY <2>2
    <3>2. next(g, m) = Alike(a, b, OneEditMore(a, b, swaps, Near(m - 1)))
      BY <1>2, <2>2, <3>1
    <3>3. Near((m - 1) + 1) = Alike(a, b, OneEditMore(a, b, swaps, Near(m - 1)))
      BY <3>1, NearByEdit
    <3> QED BY <3>1, <3>2, <3>3
  <2> QED BY <2>1, <2>2
<1> HIDE DEF next
<1>3. Solves(near)
  <2>1. ASSUME NEW m \in 0 .. t PROVE next(near, m) = Near(m)
    <3>1. m > 0 => near[m - 1] = Near(m - 1)
      OBVIOUS
    <3> HIDE DEF near
    <3> QED BY <1>2, <3>1
  <2> QED BY <2>1
<1>4. ASSUME NEW g, Solves(g) PROVE g[t] = Near(t)
  <2> DEFINE S == {m \in Nat : m <= t => g[m] = Near(m)}
  <2>1. \A m \in 0 .. t : g[m] = next(g, m)
    BY <1>4
  <2>2. 0 \in S
    BY <1>2, <2>1
  <2>3. ASSUME NEW m \in Nat, m \in S PROVE m + 1 \in S
    <3>1. SUFFICES ASSUME m + 1 <= t PROVE g[m + 1] = Near(m + 1)
      OBVIOUS
    <3>2. m + 1 \in 0 .. t /\ (m + 1) - 1 = m /\ g[m] = Near(m)
      BY <2>3, <3>1
    <3> QED BY <1>2, <2>1, <3>2
  <2>4. Nat \subseteq S
    <3> HIDE DEF S
    <3> QED BY <2>2, <2>3, SetInduction
  <2> QED BY <2>4
<1> HIDE DEF Solves, near
<1> QED BY <1>1, <1>3, <1>4

LEMMA WithinIsNear ==
  ASSUME a \in Seq(Chars), b \in Seq(Chars), max \in Nat
  PROVE  within(a, b, swaps, max) <=> Cell(Len(a), Len(b)) <= max
<1>1. Len(a) \in Nat /\ Len(b) \in Nat /\ End(a, b) = At(Len(a), Len(b))
  BY DEF End, At
<1> QED BY <1>1, PlacesAreNear, NearPlaces DEF within

-----------------------------------------------------------------------------
(* The inductive invariant. *)

RowsOK ==
  /\ i \in 0 .. Len(a) + 1
  /\ i = 0 => prev = Row(0)
  /\ i > 0 => prev = Row(i - 1)
  /\ i > 1 => prev2 = Row(i - 2)

AnswerOK ==
  LET d == Cell(Len(a), Len(b))
  IN  result # Running => result = IF d > max THEN None ELSE d

TableInv == a \in Seq(Chars) /\ b \in Seq(Chars) /\ max \in Nat /\ RowsOK /\ AnswerOK

LEMMA InitTable == DistanceAssumption /\ Init => TableInv
<1> SUFFICES ASSUME DistanceAssumption, Init PROVE TableInv
  OBVIOUS
<1>1. a \in Seq(Chars) /\ b \in Seq(Chars) /\ max \in Nat
  BY DEF Init, Words, DistanceAssumption
<1>2. \A j \in 0 .. Len(b) : Cell(0, j) = j
  BY <1>1, Edges
<1>3. RowsOK
  BY <1>1, <1>2 DEF Init, RowsOK, Row
<1> QED BY <1>1, <1>3 DEF TableInv, Init, AnswerOK

\* The words do not change, so neither does their table.
LEMMA TableStays ==
  ASSUME UNCHANGED <<a, b, swaps>>
  PROVE  (\A m, n : Cell(m, n)' = Cell(m, n)) /\ \A m : Row(m)' = Row(m)
<1>1. ASSUME NEW x PROVE Missed(x)' = Missed(x) /\ Swappings(x)' = Swappings(x)
  BY DEF Missed, Swappings, Swappable
<1>2. ASSUME NEW m, NEW n, NEW x, NEW K PROVE Price(m, n, x, K)' = Price(m, n, x, K)
  BY <1>1 DEF Price
<1>3. ASSUME NEW m, NEW n PROVE Prices(m, n)' = Prices(m, n)
  BY <1>1, <1>2 DEF Prices
<1>4. ASSUME NEW m, NEW n PROVE Cell(m, n)' = Cell(m, n)
  BY <1>3 DEF Cell
<1> QED BY <1>4 DEF Row

LEMMA StartKeepsTable ==
  ASSUME TableInv, start
  PROVE  TableInv'
<1> DEFINE d == Cell(Len(a), Len(b))
<1>1. UNCHANGED <<a, b, swaps, max, prev, prev2>>
  BY DEF start
<1>2. d' = d /\ \A m : Row(m)' = Row(m)
  BY <1>1, TableStays
<1>3. Len(a) \in Nat /\ Len(b) \in Nat /\ max \in Nat
  BY DEF TableInv
<1>4. d \in Nat /\ Len(a) - Len(b) <= d /\ Len(b) - Len(a) <= d
  BY <1>3, CellIsLeast
<1>5. prev = Row(0) /\ i = 0 /\ result = Running
  BY DEF TableInv, RowsOK, start
<1>6. CASE Difference(Len(a), Len(b)) > max
  <2>1. result' = None /\ i' = i /\ d > max
    BY <1>3, <1>4, <1>6 DEF start, Difference
  <2> HIDE DEF d
  <2> QED BY <1>1, <1>2, <2>1 DEF TableInv, RowsOK, AnswerOK, d
<1>7. CASE Difference(Len(a), Len(b)) <= max /\ (a = <<>> \/ b = <<>>)
  <2>1. result' = Len(a) + Len(b) /\ i' = i
    BY <1>3, <1>7 DEF start, Difference
  <2>2. d = Len(a) + Len(b) /\ d <= max
    <3>1. a = <<>> => Len(a) = 0
      OBVIOUS
    <3>2. b = <<>> => Len(b) = 0
      OBVIOUS
    <3>3. Len(a) = 0 => d = Len(b)
      BY <1>3, Edges
    <3>4. Len(b) = 0 => d = Len(a)
      BY <1>3, Edges
    <3> HIDE DEF d
    <3> QED BY <1>3, <1>7, <3>1, <3>2, <3>3, <3>4 DEF Difference
  <2> HIDE DEF d
  <2> QED BY <1>1, <1>2, <1>3, <2>1, <2>2 DEF TableInv, RowsOK, AnswerOK, d
<1>8. CASE Difference(Len(a), Len(b)) <= max /\ ~(a = <<>> \/ b = <<>>)
  <2>1. result' = Running /\ i' = 1
    BY <1>3, <1>5, <1>8 DEF start, Difference
  <2>2. RowsOK'
    BY <1>1, <1>2, <1>3, <1>5, <2>1 DEF RowsOK
  <2> QED BY <1>1, <2>1, <2>2 DEF TableInv, AnswerOK
<1>9. Difference(Len(a), Len(b)) \in Int
  BY <1>3 DEF Difference
<1> QED BY <1>3, <1>6, <1>7, <1>8, <1>9

LEMMA FillRowKeepsTable ==
  ASSUME TableInv, fill_row
  PROVE  TableInv'
<1> DEFINE row == NextRow(i, prev, prev2)
           m == i - 1
<1>1. UNCHANGED <<a, b, swaps, max>> /\ i \in 1 .. Len(a) /\ result = Running
  BY DEF fill_row
<1>2. /\ \A p, q : Cell(p, q)' = Cell(p, q)
      /\ \A p : Row(p)' = Row(p)
  BY <1>1, TableStays
<1>3. Len(a) \in Nat /\ Len(b) \in Nat /\ max \in Nat /\ b \in Seq(Chars) /\ a \in Seq(Chars)
  BY DEF TableInv
<1>4. m \in Nat /\ m + 1 = i /\ m - 1 = i - 2 /\ (m > 0 => i > 1)
  BY <1>1, <1>3
<1>5. prev = Row(m) /\ (m > 0 => prev2 = Row(m - 1))
  BY <1>1, <1>4 DEF TableInv, RowsOK
<1>6. row = Row(i)
  <2> HIDE DEF m
  <2>1. NextRow(m + 1, prev, prev2) = Row(m + 1)
    BY <1>3, <1>4, <1>5, NextRowIsNext
  <2> QED BY <1>4, <2>1
<1>7. CASE GivesUp(row)
  <2>1. result' = None /\ UNCHANGED <<i, prev, prev2>>
    BY <1>7 DEF fill_row
  <2>2. \A j \in 0 .. Len(b) : Cell(i, j) > max
    <3> DEFINE T == {Row(i)[j] : j \in DOMAIN Row(i)}
    <3>1. Min(T) > max
      BY <1>6, <1>7 DEF GivesUp
    <3>2. \A j \in 0 .. Len(b) : Cell(i, j) \in T
      BY DEF Row
    <3>3. T \subseteq Nat /\ T # {}
      <4>1. \A j \in 0 .. Len(b) : Cell(i, j) \in Nat
        BY <1>1, <1>3, CellIsLeast
      <4>2. 0 \in 0 .. Len(b)
        BY <1>3
      <4> QED BY <3>2, <4>1, <4>2 DEF Row
    <3> HIDE DEF T
    <3>4. Min(T) \in Nat /\ \A y \in T : Min(T) <= y /\ y \in Nat
      BY <3>3, Least
    <3> QED BY <1>3, <3>1, <3>2, <3>4
  <2>3. Cell(Len(a), Len(b)) > max
    <3>1. i \in Nat /\ i <= Len(a)
      BY <1>1, <1>3
    <3> QED BY <1>3, <2>2, <3>1, RowsStayFar
  <2>4. RowsOK'
    BY <1>1, <1>2, <2>1 DEF RowsOK, TableInv
  <2>5. AnswerOK'
    BY <1>1, <1>2, <2>1, <2>3 DEF AnswerOK
  <2> QED BY <1>1, <2>4, <2>5 DEF TableInv
<1>8. CASE ~GivesUp(row)
  <2>1. i' = i + 1 /\ prev2' = prev /\ prev' = row /\ result' = Running
    BY <1>1, <1>8 DEF fill_row
  <2>2. RowsOK'
    <3>1. /\ i + 1 \in 0 .. Len(a) + 1 /\ i + 1 # 0 /\ (i + 1) - 1 = i /\ (i + 1) - 2 = m
      BY <1>1, <1>3
    <3> HIDE DEF m, row
    <3>2. i' \in 0 .. Len(a) + 1 /\ i' # 0 /\ i' - 1 = i /\ i' - 2 = m
      BY <2>1, <3>1
    <3> QED BY <1>1, <1>2, <1>5, <1>6, <2>1, <3>2 DEF RowsOK
  <2> QED BY <1>1, <2>1, <2>2 DEF TableInv, AnswerOK
<1> QED BY <1>7, <1>8

LEMMA FinishKeepsTable ==
  ASSUME TableInv, finish
  PROVE  TableInv'
<1>1. UNCHANGED <<a, b, swaps, max, i, prev, prev2>> /\ i = Len(a) + 1
  BY DEF finish
<1>2. /\ \A p, q : Cell(p, q)' = Cell(p, q)
      /\ \A p : Row(p)' = Row(p)
  BY <1>1, TableStays
<1>3. Len(a) \in Nat /\ Len(b) \in Nat /\ i > 0 /\ i - 1 = Len(a) /\ Len(b) \in 0 .. Len(b)
  BY <1>1 DEF TableInv
<1>4. prev[Len(b)] = Cell(Len(a), Len(b))
  BY <1>3 DEF TableInv, RowsOK, Row
<1>5. AnswerOK'
  BY <1>1, <1>2, <1>4 DEF AnswerOK, finish
<1>6. RowsOK'
  BY <1>1, <1>2 DEF RowsOK, TableInv
<1> QED BY <1>1, <1>5, <1>6 DEF TableInv

LEMMA TableInvariant == Spec => []TableInv
<1>1. Init => TableInv
  BY InitTable, DistanceAssumption
<1>2. TableInv /\ [Next]_vars => TableInv'
  <2> SUFFICES ASSUME TableInv, [Next]_vars PROVE TableInv'
    OBVIOUS
  <2>1. CASE start
    BY <2>1, StartKeepsTable
  <2>2. CASE fill_row
    BY <2>2, FillRowKeepsTable
  <2>3. CASE finish
    BY <2>3, FinishKeepsTable
  <2>4. CASE UNCHANGED vars
    <3>1. /\ \A p, q : Cell(p, q)' = Cell(p, q)
          /\ \A p : Row(p)' = Row(p)
      BY <2>4, TableStays DEF vars
    <3>2. RowsOK' /\ AnswerOK'
      BY <2>4, <3>1 DEF RowsOK, AnswerOK, TableInv, vars
    <3> QED BY <2>4, <3>2 DEF TableInv, vars
  <2> QED BY <2>1, <2>2, <2>3, <2>4 DEF Next
<1> QED BY <1>1, <1>2, PTL DEF Spec

-----------------------------------------------------------------------------
(* Theorems. *)

\* For any two words and any bound, the rows kept are the distances between the
\* words' prefixes: each cell is the least number of edits, of any alignment.
THEOREM CellsHoldDistances == Spec => []CellsAreDistances
<1>1. TableInv => CellsAreDistances
  <2>1. SUFFICES ASSUME TableInv, i > 0, NEW j \in 0 .. Len(b)
                 PROVE  prev[j] = Distance(SubSeq(a, 1, i - 1), SubSeq(b, 1, j))
    BY DEF CellsAreDistances
  <2>2. a \in Seq(Chars) /\ b \in Seq(Chars) /\ i - 1 \in 0 .. Len(a) /\ prev = Row(i - 1)
    BY <2>1 DEF TableInv, RowsOK
  <2>3. prev[j] = Cell(i - 1, j)
    BY <2>2 DEF Row
  <2> QED BY <2>2, <2>3, CellIsDistance
<1> QED BY <1>1, TableInvariant, PTL

\* For any two words and any bound, levenshtein() and osa() return the distance
\* if it is within the bound and nothing if it is not, although they may stop at
\* the lengths or at the first row that is too far; and they return something
\* just for the words that `within` takes to be near.
THEOREM DistancesAreExact == Spec => []Exact
<1>1. TableInv => Exact
  <2>1. SUFFICES ASSUME TableInv, result # Running
                 PROVE  /\ result = IF Distance(a, b) > max THEN None ELSE Distance(a, b)
                        /\ result # None <=> within(a, b, swaps, max)
    BY DEF Exact
  <2> DEFINE d == Cell(Len(a), Len(b))
  <2>2. a \in Seq(Chars) /\ b \in Seq(Chars) /\ max \in Nat
    BY <2>1 DEF TableInv
  <2>3. d \in Nat /\ d # None
    BY <2>2, CellIsLeast, DistanceAssumption
  <2>4. result = IF d > max THEN None ELSE d
    BY <2>1 DEF TableInv, AnswerOK
  <2>5. Distance(a, b) = d /\ (within(a, b, swaps, max) <=> d <= max)
    BY <2>2, LastCellIsDistance, WithinIsNear
  <2> HIDE DEF d
  <2> QED BY <2>2, <2>3, <2>4, <2>5
<1> QED BY <1>1, TableInvariant, PTL
=============================================================================
