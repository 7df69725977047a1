---------------------------- MODULE PagingProofs ----------------------------
(***************************************************************************)
(* The pages of documents are consecutive pieces of the results.  Under a  *)
(* strategy that ranks, the pages of records show the best records of the  *)
(* whole index, each once, although every page collapses a prefix of the   *)
(* field hits of its own.                                                  *)
(***************************************************************************)
EXTENDS Paging, PackingProofs, FiniteSetTheorems, SequenceTheorems

-----------------------------------------------------------------------------
(* Sets in order. *)

\* R orders S strictly and totally.
StrictOrder(R, S) ==
  /\ \A x \in S : <<x, x>> \notin R
  /\ \A x, y, z \in S : <<x, y>> \in R /\ <<y, z>> \in R => <<x, z>> \in R
  /\ \A x, y \in S : x = y \/ <<x, y>> \in R \/ <<y, x>> \in R

Rank(S, R, x) == Cardinality({y \in S : <<y, x>> \in R})

LEMMA RanksGrow ==
  ASSUME NEW S, IsFiniteSet(S), NEW R, StrictOrder(R, S),
         NEW x \in S, NEW y \in S, <<x, y>> \in R
  PROVE  Rank(S, R, x) < Rank(S, R, y)
<1> DEFINE X == {z \in S : <<z, x>> \in R}
           Y == {z \in S : <<z, y>> \in R}
<1>1. X \subseteq Y /\ x \in Y /\ x \notin X
  BY DEF StrictOrder
<1>2. IsFiniteSet(Y) /\ Cardinality(Y) \in Nat
  BY FS_Subset, FS_CardinalityType
<1>3. IsFiniteSet(X) /\ Cardinality(X) \in Nat /\ Cardinality(X) <= Cardinality(Y)
  BY <1>1, <1>2, FS_Subset, FS_CardinalityType
<1>4. Cardinality(X) # Cardinality(Y)
  BY <1>1, <1>2, FS_Subset
<1> QED BY <1>2, <1>3, <1>4 DEF Rank

\* Every place of InOrder(S, R) is that of one element, the one of that rank.
LEMMA RanksFill ==
  ASSUME NEW S, IsFiniteSet(S), NEW R, StrictOrder(R, S)
  PROVE  /\ \A x \in S : Rank(S, R, x) \in 0 .. Cardinality(S) - 1
         /\ \A n \in 0 .. Cardinality(S) - 1 : \E x \in S : Rank(S, R, x) = n
<1> DEFINE T == 0 .. Cardinality(S) - 1
           f == [x \in S |-> Rank(S, R, x)]
<1>1. Cardinality(S) \in Nat
  BY FS_CardinalityType
<1>2. ASSUME NEW x \in S PROVE Rank(S, R, x) \in T
  <2> DEFINE X == {y \in S : <<y, x>> \in R}
  <2>1. X \subseteq S /\ X # S
    BY DEF StrictOrder
  <2>2. IsFiniteSet(X) /\ Cardinality(X) \in Nat /\ Cardinality(X) <= Cardinality(S)
    BY <2>1, FS_Subset, FS_CardinalityType
  <2>3. Cardinality(X) # Cardinality(S)
    BY <2>1, FS_Subset
  <2> QED BY <1>1, <2>2, <2>3 DEF Rank
<1>3. IsFiniteSet(T) /\ Cardinality(T) = Cardinality(S)
  BY <1>1, FS_Interval
<1>4. \A x, y \in S : f[x] = f[y] => x = y
  <2> SUFFICES ASSUME NEW x \in S, NEW y \in S, x # y PROVE f[x] # f[y]
    OBVIOUS
  <2>1. f[x] \in Int /\ f[y] \in Int
    BY <1>2
  <2>2. f[x] < f[y] \/ f[y] < f[x]
    BY RanksGrow DEF StrictOrder
  <2> QED BY <2>1, <2>2
<1>5. f \in Injection(S, T)
  <2>1. f \in [S -> T]
    BY <1>2
  <2>2. IsInjective(f)
    BY <1>4 DEF IsInjective
  <2> QED BY <2>1, <2>2 DEF Injection
<1>6. f \in Surjection(S, T)
  BY <1>3, <1>5, FS_Injection
<1>7. \A n \in T : \E x \in S : f[x] = n
  BY <1>6 DEF Surjection
<1> QED BY <1>2, <1>7

LEMMA InOrderFacts ==
  ASSUME NEW S, IsFiniteSet(S), NEW R, StrictOrder(R, S)
  PROVE  /\ Cardinality(S) \in Nat
         /\ InOrder(S, R) \in [1 .. Cardinality(S) -> S]
         /\ \A k \in 1 .. Cardinality(S) : Rank(S, R, InOrder(S, R)[k]) = k - 1
         /\ \A x \in S : \E k \in 1 .. Cardinality(S) : InOrder(S, R)[k] = x
         /\ \A j, k \in 1 .. Cardinality(S) :
              j < k <=> <<InOrder(S, R)[j], InOrder(S, R)[k]>> \in R
<1> DEFINE n == Cardinality(S)
           s == InOrder(S, R)
<1>1. n \in Nat
  BY FS_CardinalityType
<1>2. \A k \in 1 .. n : s[k] \in S /\ Rank(S, R, s[k]) = k - 1
  <2> SUFFICES ASSUME NEW k \in 1 .. n PROVE s[k] \in S /\ Rank(S, R, s[k]) = k - 1
    OBVIOUS
  <2>1. s[k] = CHOOSE x \in S : Rank(S, R, x) = k - 1
    BY DEF InOrder, Rank
  <2>2. k - 1 \in 0 .. n - 1
    BY <1>1
  <2>3. \E x \in S : Rank(S, R, x) = k - 1
    BY <2>2, RanksFill
  <2> QED BY <2>1, <2>3
<1>3. s \in [1 .. n -> S]
  <2> DEFINE e(k) == CHOOSE x \in S : Rank(S, R, x) = k - 1
  <2>1. s = [k \in 1 .. n |-> e(k)]
    BY DEF InOrder, Rank
  <2>2. \A k \in 1 .. n : e(k) \in S
    <3>1. \A k \in 1 .. n : e(k) = s[k]
      BY <2>1
    <3> QED BY <1>2, <3>1
  <2> HIDE DEF e
  <2> QED BY <2>1, <2>2
<1>4. ASSUME NEW x \in S, NEW y \in S, Rank(S, R, x) = Rank(S, R, y) PROVE x = y
  <2>1. Rank(S, R, x) \in Int /\ Rank(S, R, y) \in Int
    BY RanksFill
  <2>2. <<x, y>> \notin R
    BY <1>4, <2>1, RanksGrow
  <2>3. <<y, x>> \notin R
    BY <1>4, <2>1, RanksGrow
  <2> QED BY <2>2, <2>3 DEF StrictOrder
<1>5. \A x \in S : \E k \in 1 .. n : s[k] = x
  <2> SUFFICES ASSUME NEW x \in S PROVE \E k \in 1 .. n : s[k] = x
    OBVIOUS
  <2> DEFINE k == Rank(S, R, x) + 1
  <2>1. k \in 1 .. n /\ k - 1 = Rank(S, R, x)
    BY <1>1, RanksFill
  <2>2. s[k] = x
    BY <1>2, <1>4, <2>1
  <2> QED BY <2>1, <2>2
<1>6. ASSUME NEW j \in 1 .. n, NEW k \in 1 .. n
      PROVE  j < k <=> <<s[j], s[k]>> \in R
  <2>1. /\ s[j] \in S /\ s[k] \in S
        /\ Rank(S, R, s[j]) = j - 1 /\ Rank(S, R, s[k]) = k - 1
    BY <1>2
  <2>2. <<s[j], s[k]>> \in R => j < k
    <3>1. <<s[j], s[k]>> \in R => Rank(S, R, s[j]) < Rank(S, R, s[k])
      BY <2>1, RanksGrow
    <3> QED BY <1>1, <2>1, <3>1
  <2>3. <<s[k], s[j]>> \in R => k < j
    <3>1. <<s[k], s[j]>> \in R => Rank(S, R, s[k]) < Rank(S, R, s[j])
      BY <2>1, RanksGrow
    <3> QED BY <1>1, <2>1, <3>1
  <2>4. s[j] = s[k] => j = k
    <3>1. s[j] = s[k] => j - 1 = k - 1
      BY <2>1
    <3> QED BY <1>1, <3>1
  <2>5. s[j] = s[k] \/ <<s[j], s[k]>> \in R \/ <<s[k], s[j]>> \in R
    BY <2>1 DEF StrictOrder
  <2> QED BY <1>1, <2>2, <2>3, <2>4, <2>5
<1> QED BY <1>1, <1>2, <1>3, <1>5, <1>6
-----------------------------------------------------------------------------
(* Pieces of a sequence. *)

LEMMA FirstFacts ==
  ASSUME NEW T, NEW s \in Seq(T), NEW n \in Nat
  PROVE  /\ First(n, s) \in Seq(T)
         /\ Len(First(n, s)) = IF n < Len(s) THEN n ELSE Len(s)
         /\ \A k \in 1 .. Len(First(n, s)) : k \in 1 .. Len(s) /\ First(n, s)[k] = s[k]
<1> DEFINE m == IF n < Len(s) THEN n ELSE Len(s)
<1>1. Len(s) \in Nat /\ m \in Nat /\ m <= Len(s)
  BY LenProperties
<1>2. \A k \in 1 .. m : k \in 1 .. Len(s) /\ s[k] \in T
  BY <1>1, ElementOfSeq
<1>3. First(n, s) = SubSeq(s, 1, m)
  BY DEF First
<1> HIDE DEF m
<1>4. /\ SubSeq(s, 1, m) \in Seq(T)
      /\ Len(SubSeq(s, 1, m)) = m
      /\ \A k \in 1 .. m : SubSeq(s, 1, m)[k] = s[k]
  BY <1>1, <1>2, SubSeqProperties
<1> QED BY <1>2, <1>3, <1>4 DEF m

LEMMA SkipFacts ==
  ASSUME NEW T, NEW s \in Seq(T), NEW n \in Nat
  PROVE  /\ Skip(n, s) \in Seq(T)
         /\ Len(Skip(n, s)) = IF n < Len(s) THEN Len(s) - n ELSE 0
         /\ \A k \in 1 .. Len(Skip(n, s)) : n + k \in 1 .. Len(s) /\ Skip(n, s)[k] = s[n + k]
<1>1. Len(s) \in Nat
  BY LenProperties
<1>2. \A k \in n + 1 .. Len(s) : s[k] \in T
  BY <1>1, ElementOfSeq
<1>3. /\ SubSeq(s, n + 1, Len(s)) \in Seq(T)
      /\ Len(SubSeq(s, n + 1, Len(s)))
           = IF n + 1 <= Len(s) THEN Len(s) - (n + 1) + 1 ELSE 0
      /\ \A k \in 1 .. Len(s) - (n + 1) + 1 :
           SubSeq(s, n + 1, Len(s))[k] = s[(n + 1) + k - 1]
  BY <1>1, <1>2, SubSeqProperties
<1>4. Len(Skip(n, s)) = IF n < Len(s) THEN Len(s) - n ELSE 0
  BY <1>1, <1>3 DEF Skip
<1>5. ASSUME NEW k \in 1 .. Len(Skip(n, s))
      PROVE  n + k \in 1 .. Len(s) /\ Skip(n, s)[k] = s[n + k]
  <2>1. k \in 1 .. Len(s) - (n + 1) + 1 /\ (n + 1) + k - 1 = n + k /\ n + k \in 1 .. Len(s)
    BY <1>1, <1>4
  <2> QED BY <1>3, <2>1 DEF Skip
<1> QED BY <1>3, <1>4, <1>5 DEF Skip

\* A page that follows the ones shown so far makes them one page longer.
LEMMA NextPage ==
  ASSUME NEW T, NEW s \in Seq(T), NEW n \in Nat, NEW m \in Nat
  PROVE  First(n, s) \o First(m, Skip(n, s)) = First(n + m, s)
<1> DEFINE a == First(n, s)
           b == First(m, Skip(n, s))
           c == First(n + m, s)
<1>1. Len(s) \in Nat
  BY LenProperties
<1>2. /\ a \in Seq(T) /\ Len(a) = IF n < Len(s) THEN n ELSE Len(s)
      /\ \A k \in 1 .. Len(a) : a[k] = s[k]
  BY FirstFacts
<1>3. /\ b \in Seq(T)
      /\ Len(b) = IF m < Len(Skip(n, s)) THEN m ELSE Len(Skip(n, s))
      /\ \A k \in 1 .. Len(b) : k \in 1 .. Len(Skip(n, s)) /\ b[k] = Skip(n, s)[k]
  BY SkipFacts, FirstFacts
<1>4. /\ c \in Seq(T) /\ Len(c) = IF n + m < Len(s) THEN n + m ELSE Len(s)
      /\ \A k \in 1 .. Len(c) : c[k] = s[k]
  BY FirstFacts
<1>5. \A k \in 1 .. Len(b) : b[k] = s[n + k]
  BY <1>3, SkipFacts
<1>6. Len(Skip(n, s)) = IF n < Len(s) THEN Len(s) - n ELSE 0
  BY SkipFacts
<1> HIDE DEF a, b, c
<1>7. /\ a \o b \in Seq(T) /\ Len(a \o b) = Len(a) + Len(b)
      /\ \A k \in 1 .. Len(a) + Len(b) :
           (a \o b)[k] = IF k <= Len(a) THEN a[k] ELSE b[k - Len(a)]
  <2>1. a \in Seq(T)
    BY <1>2
  <2>2. b \in Seq(T)
    BY <1>3
  <2> QED BY ONLY <2>1, <2>2, ConcatProperties
<1>8. Len(a) + Len(b) = Len(c)
  <2>1. Len(a) = IF n < Len(s) THEN n ELSE Len(s)
    BY <1>2
  <2>2. Len(b) = IF m < Len(Skip(n, s)) THEN m ELSE Len(Skip(n, s))
    BY <1>3
  <2>3. Len(c) = IF n + m < Len(s) THEN n + m ELSE Len(s)
    BY <1>4
  <2>4. CASE n < Len(s)
    BY <1>1, <1>6, <2>1, <2>2, <2>3, <2>4
  <2>5. CASE ~ (n < Len(s))
    BY <1>1, <1>6, <2>1, <2>2, <2>3, <2>5
  <2> QED BY <2>4, <2>5
<1>9. ASSUME NEW k \in 1 .. Len(c) PROVE (a \o b)[k] = c[k]
  <2>1. CASE k <= Len(a)
    <3>1. k \in 1 .. Len(a)
      BY <1>1, <1>2, <2>1
    <3> QED BY <1>2, <1>4, <1>7, <1>8, <3>1
  <2>2. CASE ~ (k <= Len(a))
    <3>1. Len(a) = n /\ k - n \in 1 .. Len(b) /\ n + (k - n) = k
      BY <1>1, <1>2, <1>4, <1>8, <2>2
    <3>2. (a \o b)[k] = b[k - n]
      BY <1>7, <1>8, <2>2, <3>1
    <3> QED BY <1>4, <1>5, <1>8, <3>1, <3>2
  <2> QED BY <2>1, <2>2
<1>10. a \o b = c
  <2>1. /\ a \o b \in Seq(T) /\ c \in Seq(T) /\ Len(a \o b) = Len(c)
        /\ \A k \in 1 .. Len(a \o b) : (a \o b)[k] = c[k]
    BY <1>4, <1>7, <1>8, <1>9
  <2> QED BY ONLY <2>1, SeqEqual
<1> QED BY <1>10 DEF a, b, c

\* Taking a page and the ones before it and dropping these is taking the page.
LEMMA SkipOfFirst ==
  ASSUME NEW T, NEW s \in Seq(T), NEW n \in Nat, NEW m \in Nat
  PROVE  Skip(n, First(m + n, s)) = First(m, Skip(n, s))
<1> DEFINE a == Skip(n, First(m + n, s))
           b == First(m, Skip(n, s))
<1>1. Len(s) \in Nat /\ m + n \in Nat
  BY LenProperties
<1>2. /\ First(m + n, s) \in Seq(T)
      /\ Len(First(m + n, s)) = IF m + n < Len(s) THEN m + n ELSE Len(s)
      /\ \A k \in 1 .. Len(First(m + n, s)) : First(m + n, s)[k] = s[k]
  BY <1>1, FirstFacts
<1>3. /\ a \in Seq(T)
      /\ Len(a) = IF n < Len(First(m + n, s)) THEN Len(First(m + n, s)) - n ELSE 0
      /\ \A k \in 1 .. Len(a) : n + k \in 1 .. Len(First(m + n, s))
                                  /\ a[k] = First(m + n, s)[n + k]
  BY <1>2, SkipFacts
<1>4. /\ Skip(n, s) \in Seq(T)
      /\ Len(Skip(n, s)) = IF n < Len(s) THEN Len(s) - n ELSE 0
      /\ \A k \in 1 .. Len(Skip(n, s)) : Skip(n, s)[k] = s[n + k]
  BY SkipFacts
<1>5. /\ b \in Seq(T)
      /\ Len(b) = IF m < Len(Skip(n, s)) THEN m ELSE Len(Skip(n, s))
      /\ \A k \in 1 .. Len(b) : k \in 1 .. Len(Skip(n, s)) /\ b[k] = Skip(n, s)[k]
  BY <1>4, FirstFacts
<1> HIDE DEF a, b
<1>6. Len(a) = Len(b)
  BY <1>1, <1>2, <1>3, <1>4, <1>5
<1>7. \A k \in 1 .. Len(a) : a[k] = b[k]
  BY <1>2, <1>3, <1>4, <1>5, <1>6
<1>8. a = b
  BY <1>3, <1>5, <1>6, <1>7, SeqEqual
<1> QED BY <1>8 DEF a, b
-----------------------------------------------------------------------------
(* Hits in order. *)

Hit == [id : Nat, score : Nat]

DistinctIds(S) == \A g, h \in S : g.id = h.id => g = h

LEMMA BestFirstFacts ==
  ASSUME NEW S \in SUBSET Hit, IsFiniteSet(S), DistinctIds(S)
  PROVE  /\ Cardinality(S) \in Nat
         /\ BestFirst(S) \in [1 .. Cardinality(S) -> S]
         /\ \A h \in S : \E k \in 1 .. Cardinality(S) : BestFirst(S)[k] = h
         /\ \A j, k \in 1 .. Cardinality(S) :
              j < k <=> Better(BestFirst(S)[j], BestFirst(S)[k])
<1> DEFINE R == {p \in S \X S : Better(p[1], p[2])}
<1>1. \A g, h \in S : <<g, h>> \in R <=> Better(g, h)
  OBVIOUS
<1>2. \A h \in S : h.id \in Nat /\ h.score \in Nat
  BY DEF Hit
<1>3. BestFirst(S) = InOrder(S, R)
  BY DEF BestFirst
<1> HIDE DEF R
<1>4. StrictOrder(R, S)
  BY <1>1, <1>2 DEF StrictOrder, Better, DistinctIds
<1>5. /\ Cardinality(S) \in Nat
      /\ InOrder(S, R) \in [1 .. Cardinality(S) -> S]
      /\ \A h \in S : \E k \in 1 .. Cardinality(S) : InOrder(S, R)[k] = h
      /\ \A j, k \in 1 .. Cardinality(S) :
           j < k <=> <<InOrder(S, R)[j], InOrder(S, R)[k]>> \in R
  BY <1>4, InOrderFacts
<1>6. \A j, k \in 1 .. Cardinality(S) :
        <<InOrder(S, R)[j], InOrder(S, R)[k]>> \in R
          <=> Better(InOrder(S, R)[j], InOrder(S, R)[k])
  BY <1>1, <1>5
<1> QED BY <1>3, <1>5, <1>6

\* What a strategy may return: no document twice.
IsHitList(s) ==
  /\ s \in Seq(Hit) /\ Len(s) <= Cardinality(Ids)
  /\ \A j, k \in 1 .. Len(s) : s[j].id = s[k].id => j = k

InRank(s) == \A j, k \in 1 .. Len(s) : j < k <=> Better(s[j], s[k])

LEMMA OrdersFacts ==
  ASSUME NEW ranking, NEW matches \in SUBSET Ids, NEW s \in Orders(ranking, matches)
  PROVE  IsHitList(s) /\ (ranking = "ranked" => InRank(s))
<1>1. /\ IsFiniteSet(matches) /\ Cardinality(matches) \in Nat
      /\ Cardinality(matches) <= Cardinality(Ids) /\ Cardinality(Ids) \in Nat
  BY FS_Subset, FS_CardinalityType, PagingAssumption
<1>2. matches \subseteq Nat /\ Scores \subseteq Nat
  BY PagingAssumption
<1>3. CASE ranking = "ranked"
  <2>1. PICK f \in [matches -> Scores] :
          s = BestFirst({[id |-> m, score |-> f[m]] : m \in matches})
    BY <1>3 DEF Orders
  <2> DEFINE S == {[id |-> m, score |-> f[m]] : m \in matches}
             g == [m \in matches |-> [id |-> m, score |-> f[m]]]
  <2>2. S \in SUBSET Hit /\ DistinctIds(S)
    <3>1. \A h \in S : \E m \in matches : h = [id |-> m, score |-> f[m]]
      OBVIOUS
    <3>2. \A m \in matches : m \in Nat /\ f[m] \in Nat
      BY <1>2
    <3> HIDE DEF S
    <3> QED BY <3>1, <3>2 DEF Hit, DistinctIds
  <2>3. g \in Surjection(matches, S)
    BY DEF Surjection
  <2>4. /\ IsFiniteSet(S) /\ Cardinality(S) <= Cardinality(matches)
    BY <1>1, <2>3, FS_Surjection
  <2>5. s = BestFirst(S)
    BY <2>1
  <2> HIDE DEF S
  <2>6. /\ Cardinality(S) \in Nat
        /\ s \in [1 .. Cardinality(S) -> S]
        /\ \A j, k \in 1 .. Cardinality(S) : j < k <=> Better(s[j], s[k])
    BY <2>2, <2>4, <2>5, BestFirstFacts
  <2>7. s \in Seq(Hit) /\ Len(s) = Cardinality(S)
    <3>1. s \in [1 .. Cardinality(S) -> Hit]
      BY <2>2, <2>6
    <3> QED BY <2>6, <3>1
  <2>8. \A j, k \in 1 .. Cardinality(S) : s[j].id = s[k].id => j = k
    <3> SUFFICES ASSUME NEW j \in 1 .. Cardinality(S), NEW k \in 1 .. Cardinality(S),
                        s[j].id = s[k].id
                 PROVE  j = k
      OBVIOUS
    <3>1. s[j] = s[k] /\ s[j].id \in Nat /\ s[j].score \in Nat
      BY <2>2, <2>6 DEF DistinctIds, Hit
    <3>2. ~ Better(s[j], s[k]) /\ ~ Better(s[k], s[j])
      BY <3>1 DEF Better
    <3> QED BY <2>6, <3>2
  <2> QED BY <1>1, <2>4, <2>6, <2>7, <2>8 DEF IsHitList, InRank
<1>4. CASE ranking # "ranked"
  <2>1. PICK order \in SetToSeqs(matches) :
          s = [k \in DOMAIN order |-> [id |-> order[k], score |-> 0]]
    BY <1>4 DEF Orders
  <2> DEFINE n == Cardinality(matches)
  <2>2. order \in [1 .. n -> matches] /\ \A j, k \in 1 .. n : j # k => order[j] # order[k]
    BY <2>1 DEF SetToSeqs
  <2>3. /\ s \in [1 .. n -> Hit]
        /\ \A k \in 1 .. n : s[k].id = order[k]
    BY <1>2, <2>1, <2>2 DEF Hit
  <2>4. s \in Seq(Hit) /\ Len(s) = n
    BY <1>1, <2>3
  <2> QED BY <1>1, <1>4, <2>2, <2>3, <2>4 DEF IsHitList
<1> QED BY <1>3, <1>4
-----------------------------------------------------------------------------
(* The pages of search_page(). *)

RecordHit == [record_id : Nat, score : Nat, matched_slots : Seq(Nat)]

\* What the host passes and what it was given have their types, and the hits are
\* those of a strategy.
ScrollInv ==
  /\ per_page \in Nat /\ fields \in Nat /\ page \in Nat
  /\ sql \in BOOLEAN /\ records \in BOOLEAN /\ ended \in {"no", "empty", "overflow"}
  /\ IsHitList(hits) /\ (Rankings = {"ranked"} => InRank(hits))

\* The pages shown are the first of the results, page after page.
DocumentsInv ==
  /\ ScrollInv
  /\ ~records =>
       /\ shown = First(page * per_page, hits)
       /\ ended = "empty" /\ per_page > 0 => Len(hits) <= page * per_page
       /\ ended = "overflow" => page * per_page + per_page > MaxU32

LEMMA PageNumbers ==
  ASSUME NEW p \in Nat, NEW n \in Nat
  PROVE  p * n \in Nat /\ (p + 1) * n = p * n + n
OBVIOUS

LEMMA ScrollInit == Init => ScrollInv
<1> SUFFICES ASSUME Init PROVE ScrollInv
  OBVIOUS
<1>1. PICK ranking \in Rankings, matches \in SUBSET Ids : hits \in Orders(ranking, matches)
  BY DEF Init
<1>2. IsHitList(hits) /\ (ranking = "ranked" => InRank(hits))
  BY <1>1, OrdersFacts
<1>3. per_page \in Nat /\ fields \in Nat
  BY PagingAssumption DEF Init
<1> QED BY <1>1, <1>2, <1>3 DEF Init, ScrollInv

LEMMA ScrollStep ==
  ASSUME ScrollInv, [Next]_vars
  PROVE  ScrollInv'
<1>1. CASE UNCHANGED vars
  BY <1>1 DEF ScrollInv, vars, IsHitList, InRank
<1>2. ASSUME UNCHANGED host, page' \in {page, page + 1}, ended' \in {"no", "empty", "overflow"}
      PROVE  ScrollInv'
  BY <1>2 DEF ScrollInv, host, IsHitList, InRank
<1>3. ASSUME NEW results, Answer(results)
      PROVE  /\ UNCHANGED host /\ page' \in {page, page + 1}
             /\ ended' \in {"no", "empty", "overflow"}
  BY <1>3 DEF Answer
<1>4. ASSUME Overflow
      PROVE  /\ UNCHANGED host /\ page' \in {page, page + 1}
             /\ ended' \in {"no", "empty", "overflow"}
  BY <1>4 DEF Overflow
<1>5. CASE Next
  BY <1>2, <1>3, <1>4, <1>5 DEF Next, search_page, search_records_page
<1> QED BY <1>1, <1>5

LEMMA DocumentsInit == Init => DocumentsInv
<1> SUFFICES ASSUME Init PROVE DocumentsInv
  OBVIOUS
<1>1. ScrollInv
  BY ScrollInit
<1>2. hits \in Seq(Hit) /\ page * per_page = 0 /\ shown = <<>> /\ ended = "no"
  BY <1>1 DEF Init, ScrollInv, IsHitList
<1>3. First(0, hits) = <<>>
  <2>1. First(0, hits) \in Seq(Hit) /\ Len(First(0, hits)) = 0
    BY <1>2, FirstFacts, LenProperties
  <2> QED BY <2>1, EmptySeq
<1> QED BY <1>1, <1>2, <1>3 DEF DocumentsInv

\* A page answered, by LIMIT and OFFSET or by dropping the first hits.
LEMMA PageAnswered ==
  ASSUME ScrollInv
  PROVE  search_paged(per_page, page * per_page) = First(per_page, Skip(page * per_page, hits))
<1>1. hits \in Seq(Hit) /\ page * per_page \in Nat /\ per_page \in Nat
  BY PageNumbers DEF ScrollInv, IsHitList
<1> QED BY <1>1, SkipOfFirst DEF search_paged

LEMMA DocumentsStep ==
  ASSUME DocumentsInv, [Next]_vars
  PROVE  DocumentsInv'
<1>1. ScrollInv /\ ScrollInv'
  BY ScrollStep DEF DocumentsInv
<1>2. CASE UNCHANGED vars
  BY <1>1, <1>2 DEF DocumentsInv, vars
<1>3. CASE search_records_page
  BY <1>1, <1>3 DEF DocumentsInv, search_records_page, Answer, Overflow, host
<1>4. CASE search_page
  <2> DEFINE n == page * per_page
             m == per_page
             results == First(m, Skip(n, hits))
  <2>1. /\ hits \in Seq(Hit) /\ n \in Nat /\ m \in Nat /\ page \in Nat
        /\ (page + 1) * per_page = n + m
    BY <1>1, PageNumbers DEF ScrollInv, IsHitList
  <2>2. ~records /\ ended = "no" /\ shown = First(n, hits)
    BY <1>4 DEF search_page, DocumentsInv
  <2>3. CASE search_page_overflows
    <3>1. ended' = "overflow" /\ UNCHANGED <<host, page, shown>>
      BY <1>4, <2>3 DEF search_page, Overflow
    <3>2. n + m > MaxU32
      BY <2>1, <2>3, PagingAssumption DEF search_page_overflows
    <3> QED BY <1>1, <2>2, <3>1, <3>2 DEF DocumentsInv, host
  <2>4. CASE ~search_page_overflows
    <3>1. /\ shown' = shown \o results /\ page' = page + 1 /\ UNCHANGED host
          /\ ended' = IF results = <<>> THEN "empty" ELSE "no"
      BY <1>1, <1>4, <2>4, PageAnswered DEF search_page, Answer
    <3>2. page' * per_page' = n + m /\ hits' = hits /\ per_page' = m /\ records' = records
      BY <2>1, <3>1 DEF host
    <3>3. shown' = First(n + m, hits)
      BY <2>1, <2>2, <3>1, NextPage
    <3>4. results = <<>> /\ m > 0 => Len(hits) <= n + m
      <4>1. /\ Skip(n, hits) \in Seq(Hit)
            /\ Len(Skip(n, hits)) = IF n < Len(hits) THEN Len(hits) - n ELSE 0
        BY <2>1, SkipFacts
      <4>2. Len(results) = IF m < Len(Skip(n, hits)) THEN m ELSE Len(Skip(n, hits))
        BY <2>1, <4>1, FirstFacts
      <4>3. Len(hits) \in Nat /\ Len(<<>>) = 0
        BY <2>1, LenProperties, EmptySeq
      <4> QED BY <2>1, <4>1, <4>2, <4>3
    <3> QED BY <1>1, <3>1, <3>2, <3>3, <3>4 DEF DocumentsInv
  <2> QED BY <2>3, <2>4
<1> QED BY <1>2, <1>3, <1>4 DEF Next

LEMMA DocumentsShown == DocumentsInv => DocumentPages
<1> SUFFICES ASSUME DocumentsInv, ~records PROVE DocumentPages
  BY DEF DocumentPages
<1> DEFINE n == page * per_page
<1>1. /\ hits \in Seq(Hit) /\ n \in Nat /\ per_page \in Nat /\ Len(hits) \in Nat
      /\ shown = First(n, hits) /\ records \in BOOLEAN
  BY PageNumbers, LenProperties DEF DocumentsInv, ScrollInv, IsHitList
<1>2. /\ shown \in Seq(Hit) /\ Len(shown) = IF n < Len(hits) THEN n ELSE Len(hits)
      /\ \A k \in 1 .. Len(shown) : shown[k] = hits[k]
  BY <1>1, FirstFacts
<1>3. IsPrefix(shown, hits)
  <2>1. Len(shown) <= Len(hits)
    BY <1>1, <1>2
  <2>2. shown = SubSeq(hits, 1, Len(shown))
    BY <1>1, <1>2 DEF First
  <2>3. SubSeq(shown, 1, Len(shown)) = shown
    BY <1>2, SubSeqFull
  <2> QED BY <2>1, <2>2, <2>3 DEF IsPrefix
<1>4. Len(hits) <= n => shown = hits
  <2> SUFFICES ASSUME Len(hits) <= n PROVE shown = hits
    OBVIOUS
  <2>1. Len(shown) = Len(hits)
    BY <1>1, <1>2
  <2> QED BY <1>1, <1>2, <2>1, SeqEqual
<1>5. ended = "empty" /\ per_page > 0 => shown = hits
  BY <1>4 DEF DocumentsInv
<1>6. ended = "overflow" => Len(shown) + per_page > MaxU32 \/ shown = hits
  BY <1>1, <1>2, <1>4, PagingAssumption DEF DocumentsInv
<1> QED BY <1>3, <1>5, <1>6 DEF DocumentPages

\* However the strategy orders its hits, scrolling with search_page() gives its
\* whole result in pieces that follow one another.
THEOREM PagesFollowOneAnother == Spec => []DocumentPages
<1> QED BY DocumentsInit, DocumentsStep, DocumentsShown, PTL DEF Spec
-----------------------------------------------------------------------------
(* Records of hits. *)

Rec(h) == record_of(h.id, DefaultBits)
Slot(h) == slot_of(h.id, DefaultBits)

LEMMA Unpacked ==
  ASSUME NEW h \in Hit
  PROVE  /\ 2^DefaultBits \in Nat \ {0}
         /\ Rec(h) \in Nat /\ Slot(h) \in 0 .. 2^DefaultBits - 1
         /\ h.id \in Nat /\ h.id = 2^DefaultBits * Rec(h) + Slot(h)
<1> DEFINE d == 2^DefaultBits
           i == h.id
           q == i \div d
           u == i % d
<1>1. d \in Nat \ {0}
  BY WordAssumption, PowerType DEF FieldBits, MaxFieldBits
<1>2. i \in Nat
  BY DEF Hit
<1>3. Rec(h) = q /\ Slot(h) = u % d
  BY DEF Rec, Slot, record_of, slot_of, slot_bits, Shr
<1> HIDE DEF d, i
<1>4. q \in Int /\ u \in 0 .. d - 1 /\ i = d * q + u
  BY <1>1, <1>2, DivMod
<1> HIDE DEF q, u
<1>5. q >= 0
  <2> SUFFICES ASSUME q < 0 PROVE FALSE
    BY <1>4
  <2>1. d * q + d <= d * 0
    BY <1>1, <1>4, MulMono
  <2>2. d * q \in Int
    BY <1>1, <1>4
  <2> QED BY <1>1, <1>2, <1>4, <2>1, <2>2
<1>6. u % d = u
  <2>1. u = d * 0 + u
    BY <1>1, <1>4
  <2> QED BY <1>1, <1>4, <2>1, DivUnique
<1> QED BY <1>1, <1>2, <1>3, <1>4, <1>5, <1>6 DEF d, i

\* A smaller id is of the same record or of an earlier one.
LEMMA RecordsGrow ==
  ASSUME NEW g \in Hit, NEW h \in Hit, g.id < h.id
  PROVE  Rec(g) <= Rec(h)
<1> DEFINE d == 2^DefaultBits
           p == Rec(g)
           q == Rec(h)
<1>1. /\ d \in Nat \ {0} /\ p \in Nat /\ q \in Nat
      /\ Slot(g) \in 0 .. d - 1 /\ Slot(h) \in 0 .. d - 1
      /\ d * p + Slot(g) < d * q + Slot(h)
  BY Unpacked
<1> HIDE DEF d, p, q
<1>2. p <= q
  <2> SUFFICES ASSUME q < p PROVE FALSE
    BY <1>1
  <2>1. d * q + d <= d * p
    BY <1>1, MulMono
  <2>2. d * q \in Int /\ d * p \in Int
    BY <1>1
  <2> QED BY <1>1, <2>1, <2>2
<1> QED BY <1>2 DEF p, q

LEMMA HitListFacts ==
  ASSUME NEW s, IsHitList(s)
  PROVE  /\ Len(s) \in Nat /\ DOMAIN s = 1 .. Len(s)
         /\ \A k \in 1 .. Len(s) : s[k] \in Hit
         /\ \A r : FieldHits(s, r) = {h \in Range(s) : Rec(h) = r}
         /\ Range(s) = {s[k] : k \in 1 .. Len(s)}
         /\ RecordsOf(s) = {Rec(s[k]) : k \in 1 .. Len(s)}
         /\ Range(s) \in SUBSET Hit /\ DistinctIds(Range(s))
         /\ IsFiniteSet(Range(s)) /\ Cardinality(Range(s)) = Len(s)
         /\ IsFiniteSet(RecordsOf(s)) /\ Cardinality(RecordsOf(s)) \in Nat
<1>1. Len(s) \in Nat /\ DOMAIN s = 1 .. Len(s) /\ s \in [1 .. Len(s) -> Hit]
  BY LenProperties DEF IsHitList
<1>2. \A r : FieldHits(s, r) = {h \in Range(s) : Rec(h) = r}
  BY DEF FieldHits, Rec
<1>3. Range(s) = {s[k] : k \in 1 .. Len(s)}
  BY <1>1 DEF Range
<1>4. RecordsOf(s) = {Rec(s[k]) : k \in 1 .. Len(s)}
  BY <1>1 DEF RecordsOf, Rec
<1>5. Range(s) \in SUBSET Hit /\ DistinctIds(Range(s))
  <2>1. Range(s) \subseteq Hit
    BY <1>1, <1>3
  <2>2. \A j, k \in 1 .. Len(s) : s[j].id = s[k].id => s[j] = s[k]
    BY DEF IsHitList
  <2> QED BY <1>3, <2>1, <2>2 DEF DistinctIds
<1> DEFINE D == 1 .. Len(s)
<1>6. IsFiniteSet(D) /\ Cardinality(D) = Len(s)
  BY <1>1, FS_Interval
<1>7. IsFiniteSet(Range(s)) /\ Cardinality(Range(s)) = Len(s)
  <2>1. s \in Surjection(D, Range(s))
    BY <1>1, <1>3 DEF Surjection
  <2>2. s \in Injection(D, Range(s))
    BY <1>1, <1>3 DEF Injection, IsInjective, IsHitList
  <2> QED BY <1>6, <2>1, <2>2, FS_Surjection
<1>8. IsFiniteSet(RecordsOf(s)) /\ Cardinality(RecordsOf(s)) \in Nat
  <2> DEFINE g == [k \in D |-> Rec(s[k])]
  <2>1. g \in Surjection(D, RecordsOf(s))
    BY <1>4 DEF Surjection
  <2>2. IsFiniteSet(RecordsOf(s))
    BY <1>6, <2>1, FS_Surjection
  <2> QED BY <2>2, FS_CardinalityType
<1> QED BY <1>1, <1>2, <1>3, <1>4, <1>5, <1>7, <1>8

\* The best hit of record r in s.
Best(s, r) == BestFirst(FieldHits(s, r))[1]

\* What Collapsed makes of record r.
Row(s, r) ==
  LET field == BestFirst(FieldHits(s, r))
  IN  [record_id |-> r, score |-> field[1].score,
       matched_slots |-> [k \in DOMAIN field |-> slot_of(field[k].id, DefaultBits)]]

Key(x) == <<x.record_id, x.score, Head(x.matched_slots)>>

LEMMA BestFacts ==
  ASSUME NEW s, IsHitList(s), NEW r \in RecordsOf(s)
  PROVE  /\ Best(s, r) \in FieldHits(s, r)
         /\ \A h \in FieldHits(s, r) : h = Best(s, r) \/ Better(Best(s, r), h)
         /\ Row(s, r) \in RecordHit
         /\ Row(s, r).record_id = r /\ Row(s, r).score = Best(s, r).score
         /\ Key(Row(s, r)) = <<r, Best(s, r).score, Slot(Best(s, r))>>
<1> DEFINE F == FieldHits(s, r)
           n == Cardinality(F)
           field == BestFirst(F)
<1>1. F = {h \in Range(s) : Rec(h) = r} /\ F # {}
  BY HitListFacts
<1>2. F \in SUBSET Hit /\ DistinctIds(F) /\ IsFiniteSet(F)
  <2>1. F \subseteq Range(s)
    BY <1>1
  <2>2. Range(s) \in SUBSET Hit /\ DistinctIds(Range(s)) /\ IsFiniteSet(Range(s))
    BY HitListFacts
  <2> QED BY <2>1, <2>2, FS_Subset DEF DistinctIds
<1> HIDE DEF F
<1>3. /\ n \in Nat
      /\ field \in [1 .. n -> F]
      /\ \A h \in F : \E k \in 1 .. n : field[k] = h
      /\ \A j, k \in 1 .. n : j < k <=> Better(field[j], field[k])
  BY <1>2, BestFirstFacts
<1>4. 1 \in 1 .. n
  BY <1>1, <1>3
<1>5. Best(s, r) = field[1]
  BY DEF Best, F
<1> HIDE DEF field, n
<1>6. Best(s, r) \in F
  BY <1>3, <1>4, <1>5
<1>7. \A h \in F : h = Best(s, r) \/ Better(Best(s, r), h)
  <2> SUFFICES ASSUME NEW h \in F PROVE h = Best(s, r) \/ Better(Best(s, r), h)
    OBVIOUS
  <2>1. PICK k \in 1 .. n : field[k] = h
    BY <1>3
  <2>2. k = 1 \/ 1 < k
    BY <1>3
  <2> QED BY <1>3, <1>4, <1>5, <2>1, <2>2
<1> DEFINE slots == [k \in 1 .. n |-> Slot(field[k])]
<1>8. Row(s, r) = [record_id |-> r, score |-> field[1].score, matched_slots |-> slots]
  <2>1. DOMAIN field = 1 .. n
    BY <1>3
  <2> QED BY <2>1 DEF Row, Slot, field, F
<1>9. slots \in Seq(Nat) /\ Len(slots) = n /\ slots[1] = Slot(Best(s, r))
  <2>1. \A k \in 1 .. n : Slot(field[k]) \in Nat
    BY <1>2, <1>3, Unpacked
  <2>2. slots \in [1 .. n -> Nat]
    BY <2>1
  <2> QED BY <1>3, <1>4, <1>5, <2>2
<1>10. Head(slots) = slots[1]
  BY <1>3, <1>4, <1>9
<1>11. r \in Nat /\ Best(s, r).score \in Nat
  <2>1. Best(s, r) \in Hit /\ Rec(Best(s, r)) = r
    BY <1>1, <1>2, <1>6
  <2> QED BY <2>1, Unpacked DEF Hit
<1> HIDE DEF slots
<1> QED BY <1>5, <1>6, <1>7, <1>8, <1>9, <1>10, <1>11 DEF F, Key, RecordHit
DistinctRecords(S) == \A x, y \in S : x.record_id = y.record_id => x = y

LEMMA CollapsedFacts ==
  ASSUME NEW s, IsHitList(s)
  PROVE  /\ Collapsed(s) = {Row(s, r) : r \in RecordsOf(s)}
         /\ Collapsed(s) \in SUBSET RecordHit /\ DistinctRecords(Collapsed(s))
         /\ IsFiniteSet(Collapsed(s))
         /\ Cardinality(Collapsed(s)) = Cardinality(RecordsOf(s))
<1>1. Collapsed(s) = {Row(s, r) : r \in RecordsOf(s)}
  BY DEF Collapsed, Row
<1>2. \A r \in RecordsOf(s) : Row(s, r) \in RecordHit /\ Row(s, r).record_id = r
  BY BestFacts
<1> DEFINE C == Collapsed(s)
           f == [r \in RecordsOf(s) |-> Row(s, r)]
<1>3. C \in SUBSET RecordHit
  BY <1>1, <1>2
<1>4. DistinctRecords(C)
  BY <1>1, <1>2 DEF DistinctRecords
<1>5. f \in Surjection(RecordsOf(s), C)
  BY <1>1 DEF Surjection
<1>6. f \in Injection(RecordsOf(s), C)
  <2>1. f \in [RecordsOf(s) -> C]
    BY <1>1
  <2>2. \A q, r \in RecordsOf(s) : f[q] = f[r] => q = r
    BY <1>2
  <2> QED BY <2>1, <2>2 DEF Injection, IsInjective
<1>7. IsFiniteSet(C) /\ Cardinality(C) = Cardinality(RecordsOf(s))
  BY <1>5, <1>6, HitListFacts, FS_Surjection
<1> QED BY <1>1, <1>3, <1>4, <1>7

LEMMA RankedFirstFacts ==
  ASSUME NEW S \in SUBSET RecordHit, IsFiniteSet(S), DistinctRecords(S)
  PROVE  /\ Cardinality(S) \in Nat
         /\ RankedFirst(S) \in Seq(RecordHit) /\ Len(RankedFirst(S)) = Cardinality(S)
         /\ \A k \in 1 .. Cardinality(S) : RankedFirst(S)[k] \in S
         /\ \A x \in S : \E k \in 1 .. Cardinality(S) : RankedFirst(S)[k] = x
         /\ \A j, k \in 1 .. Cardinality(S) :
              j < k <=> RankedBefore(RankedFirst(S)[j], RankedFirst(S)[k])
<1> DEFINE R == {p \in S \X S : RankedBefore(p[1], p[2])}
           n == Cardinality(S)
<1>1. \A x, y \in S : <<x, y>> \in R <=> RankedBefore(x, y)
  OBVIOUS
<1>2. \A x \in S : x.record_id \in Nat /\ x.score \in Nat
  BY DEF RecordHit
<1>3. RankedFirst(S) = InOrder(S, R)
  BY DEF RankedFirst
<1> HIDE DEF R
<1>4. StrictOrder(R, S)
  BY <1>1, <1>2 DEF StrictOrder, RankedBefore, DistinctRecords
<1>5. /\ n \in Nat
      /\ InOrder(S, R) \in [1 .. n -> S]
      /\ \A x \in S : \E k \in 1 .. n : InOrder(S, R)[k] = x
      /\ \A j, k \in 1 .. n : j < k <=> <<InOrder(S, R)[j], InOrder(S, R)[k]>> \in R
  BY <1>4, InOrderFacts
<1>6. \A j, k \in 1 .. n :
        <<InOrder(S, R)[j], InOrder(S, R)[k]>> \in R
          <=> RankedBefore(InOrder(S, R)[j], InOrder(S, R)[k])
  BY <1>1, <1>5
<1> HIDE DEF n
<1>7. InOrder(S, R) \in Seq(RecordHit) /\ Len(InOrder(S, R)) = n
  <2>1. InOrder(S, R) \in [1 .. n -> RecordHit]
    BY <1>5
  <2> QED BY <1>5, <2>1
<1> QED BY <1>3, <1>5, <1>6, <1>7 DEF n

\* The records of s in rank.
InRecordRank(s) == RankedFirst(Collapsed(s))

LEMMA RecordRankFacts ==
  ASSUME NEW s, IsHitList(s)
  PROVE  /\ Cardinality(RecordsOf(s)) \in Nat
         /\ InRecordRank(s) \in Seq(RecordHit)
         /\ Len(InRecordRank(s)) = Cardinality(RecordsOf(s))
         /\ \A k \in 1 .. Len(InRecordRank(s)) :
              \E r \in RecordsOf(s) : InRecordRank(s)[k] = Row(s, r)
         /\ \A r \in RecordsOf(s) : \E k \in 1 .. Len(InRecordRank(s)) :
              InRecordRank(s)[k] = Row(s, r)
         /\ \A j, k \in 1 .. Len(InRecordRank(s)) :
              j < k <=> RankedBefore(InRecordRank(s)[j], InRecordRank(s)[k])
<1> DEFINE C == Collapsed(s)
           t == RankedFirst(C)
<1>1. /\ C = {Row(s, r) : r \in RecordsOf(s)}
      /\ C \in SUBSET RecordHit /\ DistinctRecords(C) /\ IsFiniteSet(C)
      /\ Cardinality(C) = Cardinality(RecordsOf(s))
  BY CollapsedFacts
<1>2. InRecordRank(s) = t
  BY DEF InRecordRank
<1> HIDE DEF C
<1>3. /\ Cardinality(C) \in Nat
      /\ t \in Seq(RecordHit) /\ Len(t) = Cardinality(C)
      /\ \A k \in 1 .. Cardinality(C) : t[k] \in C
      /\ \A x \in C : \E k \in 1 .. Cardinality(C) : t[k] = x
      /\ \A j, k \in 1 .. Cardinality(C) : j < k <=> RankedBefore(t[j], t[k])
  BY <1>1, RankedFirstFacts
<1> HIDE DEF t
<1>4. \A k \in 1 .. Cardinality(C) : \E r \in RecordsOf(s) : t[k] = Row(s, r)
  BY <1>1, <1>3
<1>5. \A r \in RecordsOf(s) : \E k \in 1 .. Cardinality(C) : t[k] = Row(s, r)
  BY <1>1, <1>3
<1>6. Len(t) = Cardinality(C) /\ Cardinality(C) = Cardinality(RecordsOf(s))
  BY <1>1, <1>3
<1> QED BY <1>2, <1>3, <1>4, <1>5, <1>6

-----------------------------------------------------------------------------
(* The first hits of a ranked strategy. *)

LEMMA FirstHits ==
  ASSUME NEW s, IsHitList(s), InRank(s), NEW n \in Nat
  PROVE  /\ IsHitList(First(n, s)) /\ InRank(First(n, s))
         /\ Len(First(n, s)) = IF n < Len(s) THEN n ELSE Len(s)
         /\ \A k \in 1 .. Len(First(n, s)) : k \in 1 .. Len(s) /\ First(n, s)[k] = s[k]
<1> DEFINE p == First(n, s)
<1>1. s \in Seq(Hit) /\ Len(s) \in Nat /\ Cardinality(Ids) \in Nat
  BY LenProperties, FS_CardinalityType, PagingAssumption DEF IsHitList
<1>2. /\ p \in Seq(Hit) /\ Len(p) = IF n < Len(s) THEN n ELSE Len(s)
      /\ \A k \in 1 .. Len(p) : k \in 1 .. Len(s) /\ p[k] = s[k]
  BY <1>1, FirstFacts
<1> HIDE DEF p
<1>3. IsHitList(p)
  BY <1>1, <1>2 DEF IsHitList
<1>4. InRank(p)
  BY <1>2 DEF InRank
<1> QED BY <1>2, <1>3, <1>4 DEF p

\* A record with a hit among the first ones has its best hit there.
LEMMA BestAmongFirst ==
  ASSUME NEW s, IsHitList(s), InRank(s), NEW n \in Nat, NEW r \in RecordsOf(First(n, s))
  PROVE  r \in RecordsOf(s) /\ Best(First(n, s), r) = Best(s, r)
<1> DEFINE p == First(n, s)
           g == Best(p, r)
           h == Best(s, r)
<1>1. /\ IsHitList(p) /\ InRank(p)
      /\ Len(p) = IF n < Len(s) THEN n ELSE Len(s)
      /\ \A k \in 1 .. Len(p) : k \in 1 .. Len(s) /\ p[k] = s[k]
  BY FirstHits
<1>2. r \in RecordsOf(p)
  OBVIOUS
<1> HIDE DEF p
<1>3. /\ Len(s) \in Nat /\ Len(p) \in Nat
      /\ Range(p) = {p[k] : k \in 1 .. Len(p)} /\ RecordsOf(p) = {Rec(p[k]) : k \in 1 .. Len(p)}
      /\ Range(s) = {s[k] : k \in 1 .. Len(s)} /\ RecordsOf(s) = {Rec(s[k]) : k \in 1 .. Len(s)}
      /\ FieldHits(p, r) = {x \in Range(p) : Rec(x) = r}
      /\ FieldHits(s, r) = {x \in Range(s) : Rec(x) = r}
  BY <1>1, HitListFacts
<1>4. r \in RecordsOf(s)
  BY <1>1, <1>2, <1>3
<1>5. g \in FieldHits(p, r) /\ \A x \in FieldHits(p, r) : x = g \/ Better(g, x)
  BY <1>1, <1>2, BestFacts
<1>6. h \in FieldHits(s, r) /\ \A x \in FieldHits(s, r) : x = h \/ Better(h, x)
  BY <1>4, BestFacts
<1> HIDE DEF g, h
<1>7. PICK j \in 1 .. Len(p) : g = p[j]
  BY <1>3, <1>5
<1>8. PICK k \in 1 .. Len(s) : h = s[k]
  BY <1>3, <1>6
<1>9. g = s[j] /\ j \in 1 .. Len(s) /\ g \in FieldHits(s, r)
  BY <1>1, <1>3, <1>5, <1>7
<1>10. g = h
  <2> SUFFICES ASSUME g # h PROVE FALSE
    OBVIOUS
  <2>1. Better(h, g)
    BY <1>6, <1>9
  <2>2. k < j
    BY <1>8, <1>9, <2>1 DEF InRank
  <2>3. k \in 1 .. Len(p) /\ h = p[k]
    BY <1>1, <1>3, <1>7, <1>8, <2>2
  <2>4. h \in FieldHits(p, r)
    BY <1>3, <1>6, <2>3
  <2>5. Better(g, h)
    BY <1>5, <2>4
  <2>6. j < k
    BY <1>8, <1>9, <2>5 DEF InRank
  <2> QED BY <1>3, <2>2, <2>6
<1> QED BY <1>4, <1>10 DEF p, g, h

\* A record with no hit among the first ones ranks after those that have one.
LEMMA OthersRankAfter ==
  ASSUME NEW s, IsHitList(s), InRank(s), NEW n \in Nat,
         NEW q \in RecordsOf(First(n, s)), NEW r \in RecordsOf(s) \ RecordsOf(First(n, s))
  PROVE  RankedBefore(Row(s, q), Row(s, r))
<1> DEFINE p == First(n, s)
           g == Best(s, q)
           h == Best(s, r)
<1>1. /\ IsHitList(p)
      /\ Len(p) = IF n < Len(s) THEN n ELSE Len(s)
      /\ \A k \in 1 .. Len(p) : k \in 1 .. Len(s) /\ p[k] = s[k]
  BY FirstHits
<1>2. q \in RecordsOf(p) /\ q \in RecordsOf(s) /\ g = Best(p, q) /\ r \notin RecordsOf(p)
  BY BestAmongFirst
<1> HIDE DEF p
<1>3. /\ Len(s) \in Nat /\ Len(p) \in Nat
      /\ Range(p) = {p[k] : k \in 1 .. Len(p)} /\ RecordsOf(p) = {Rec(p[k]) : k \in 1 .. Len(p)}
      /\ Range(s) = {s[k] : k \in 1 .. Len(s)}
      /\ FieldHits(p, q) = {x \in Range(p) : Rec(x) = q}
      /\ FieldHits(s, r) = {x \in Range(s) : Rec(x) = r}
      /\ \A k \in 1 .. Len(s) : s[k] \in Hit
  BY <1>1, HitListFacts
<1>4. g \in FieldHits(p, q)
  BY <1>1, <1>2, BestFacts
<1>5. h \in FieldHits(s, r)
  BY BestFacts
<1>6. /\ Row(s, q).record_id = q /\ Row(s, q).score = g.score
      /\ Row(s, r).record_id = r /\ Row(s, r).score = h.score
  BY <1>2, BestFacts
<1> HIDE DEF g, h
<1>7. PICK j \in 1 .. Len(p) : g = p[j] /\ Rec(g) = q
  BY <1>3, <1>4
<1>8. PICK k \in 1 .. Len(s) : h = s[k] /\ Rec(h) = r
  BY <1>3, <1>5
<1>9. j \in 1 .. Len(s) /\ g = s[j]
  BY <1>1, <1>7
<1>10. j < k
  <2>1. k \notin 1 .. Len(p)
    BY <1>1, <1>2, <1>3, <1>8
  <2> QED BY <1>3, <1>7, <1>8, <2>1
<1>11. Better(g, h)
  BY <1>8, <1>9, <1>10 DEF InRank
<1>12. g \in Hit /\ h \in Hit /\ q # r
  BY <1>2, <1>3, <1>8, <1>9
<1>13. g.id < h.id => q < r
  <2>1. q \in Nat /\ r \in Nat
    BY <1>7, <1>8, <1>12, Unpacked
  <2> QED BY <1>7, <1>8, <1>12, <2>1, RecordsGrow
<1> QED BY <1>6, <1>11, <1>13 DEF Better, RankedBefore
-----------------------------------------------------------------------------
(* The records of the first hits are the first records. *)

LEMMA SameKey ==
  ASSUME NEW s, IsHitList(s), InRank(s), NEW n \in Nat, NEW r \in RecordsOf(First(n, s))
  PROVE  r \in RecordsOf(s) /\ Key(Row(First(n, s), r)) = Key(Row(s, r))
<1>1. IsHitList(First(n, s))
  BY FirstHits
<1>2. r \in RecordsOf(s) /\ Best(First(n, s), r) = Best(s, r)
  BY BestAmongFirst
<1> QED BY <1>1, <1>2, BestFacts

\* What the record ranking sees of a row is in its key.
LEMMA KeysRank ==
  ASSUME NEW s, IsHitList(s), NEW t, IsHitList(t),
         NEW q \in RecordsOf(s), NEW r \in RecordsOf(s),
         NEW u \in RecordsOf(t), NEW v \in RecordsOf(t),
         Key(Row(s, q)) = Key(Row(t, u)), Key(Row(s, r)) = Key(Row(t, v)),
         RankedBefore(Row(s, q), Row(s, r))
  PROVE  RankedBefore(Row(t, u), Row(t, v))
<1>1. /\ Row(s, q).record_id = Row(t, u).record_id /\ Row(s, q).score = Row(t, u).score
      /\ Row(s, r).record_id = Row(t, v).record_id /\ Row(s, r).score = Row(t, v).score
  BY DEF Key
<1> QED BY <1>1 DEF RankedBefore

\* The record at a place of the ranking is in one place only.
LEMMA OnePlace ==
  ASSUME NEW s, IsHitList(s),
         NEW j \in 1 .. Len(InRecordRank(s)), NEW k \in 1 .. Len(InRecordRank(s)),
         InRecordRank(s)[j].record_id = InRecordRank(s)[k].record_id
  PROVE  j = k
<1> DEFINE t == InRecordRank(s)
<1>1. PICK q \in RecordsOf(s) : t[j] = Row(s, q)
  BY RecordRankFacts
<1>2. PICK r \in RecordsOf(s) : t[k] = Row(s, r)
  BY RecordRankFacts
<1>3. t[j] = t[k] /\ t[j].score \in Nat /\ t[j].record_id \in Nat
  BY <1>1, <1>2, BestFacts DEF RecordHit
<1>4. ~ RankedBefore(t[j], t[k]) /\ ~ RankedBefore(t[k], t[j])
  BY <1>3 DEF RankedBefore
<1>5. ~ (j < k) /\ ~ (k < j)
  BY <1>4, RecordRankFacts
<1>6. Len(t) \in Nat
  BY RecordRankFacts
<1> QED BY <1>5, <1>6

\* One more place: the record in it is the same in both rankings.
LEMMA NextRecord ==
  ASSUME NEW s, IsHitList(s), InRank(s), NEW n \in Nat,
         NEW i \in Nat, i + 1 <= Len(InRecordRank(First(n, s))),
         \A j \in 1 .. i : /\ j <= Len(InRecordRank(s))
                           /\ Key(InRecordRank(First(n, s))[j]) = Key(InRecordRank(s)[j])
  PROVE  /\ i + 1 <= Len(InRecordRank(s))
         /\ Key(InRecordRank(First(n, s))[i + 1]) = Key(InRecordRank(s)[i + 1])
<1> DEFINE p == First(n, s)
           A == InRecordRank(p)
           B == InRecordRank(s)
           m == i + 1
<1>1. IsHitList(p)
  BY FirstHits
<1>2. /\ Len(A) \in Nat
      /\ \A k \in 1 .. Len(A) : \E r \in RecordsOf(p) : A[k] = Row(p, r)
      /\ \A r \in RecordsOf(p) : \E k \in 1 .. Len(A) : A[k] = Row(p, r)
      /\ \A j, k \in 1 .. Len(A) : j < k <=> RankedBefore(A[j], A[k])
  BY <1>1, RecordRankFacts
<1>3. /\ Len(B) \in Nat
      /\ \A k \in 1 .. Len(B) : \E r \in RecordsOf(s) : B[k] = Row(s, r)
      /\ \A r \in RecordsOf(s) : \E k \in 1 .. Len(B) : B[k] = Row(s, r)
      /\ \A j, k \in 1 .. Len(B) : j < k <=> RankedBefore(B[j], B[k])
  BY RecordRankFacts
<1>4. m \in 1 .. Len(A) /\ \A j \in 1 .. i : j <= Len(B) /\ Key(A[j]) = Key(B[j])
  BY <1>2
<1>5. /\ \A r \in RecordsOf(p) : r \in RecordsOf(s) /\ Key(Row(p, r)) = Key(Row(s, r))
      /\ \A r \in RecordsOf(p) : Row(p, r).record_id = r
      /\ \A r \in RecordsOf(s) : Row(s, r).record_id = r
  BY <1>1, SameKey, BestFacts
<1>6. /\ \A j, k \in 1 .. Len(A) : A[j].record_id = A[k].record_id => j = k
      /\ \A j, k \in 1 .. Len(B) : B[j].record_id = B[k].record_id => j = k
  BY <1>1, OnePlace
<1>7. \A q \in RecordsOf(p), r \in RecordsOf(s) \ RecordsOf(p) :
        RankedBefore(Row(s, q), Row(s, r))
  BY OthersRankAfter
<1>8. \A q, r \in RecordsOf(p) :
        RankedBefore(Row(p, q), Row(p, r)) => RankedBefore(Row(s, q), Row(s, r))
  BY <1>1, <1>5, KeysRank
<1> HIDE DEF A, B, p
<1>9. PICK q \in RecordsOf(p) : A[m] = Row(p, q)
  BY <1>2, <1>4
<1>10. PICK k \in 1 .. Len(B) : B[k] = Row(s, q)
  BY <1>3, <1>5
<1>11. k >= m
  <2> SUFFICES ASSUME k < m PROVE FALSE
    BY <1>3
  <2>1. k \in 1 .. i /\ k \in 1 .. Len(A) /\ k # m
    BY <1>2, <1>4
  <2>2. Key(A[k]) = Key(A[m])
    BY <1>4, <1>5, <1>9, <1>10, <2>1
  <2>3. A[k].record_id = A[m].record_id
    BY <2>2 DEF Key
  <2> QED BY <1>4, <1>6, <2>1, <2>3
<1>12. m \in 1 .. Len(B)
  BY <1>3, <1>11
<1>13. PICK r \in RecordsOf(s) : B[m] = Row(s, r)
  BY <1>3, <1>12
<1>14. k = m
  <2> SUFFICES ASSUME k # m PROVE FALSE
    OBVIOUS
  <2>1. m < k
    BY <1>11
  <2>2. RankedBefore(Row(s, r), Row(s, q))
    BY <1>3, <1>10, <1>12, <1>13, <2>1
  <2>3. ~ RankedBefore(Row(s, q), Row(s, r))
    <3>1. ~ (k < m)
      BY <2>1
    <3> QED BY <1>3, <1>10, <1>12, <1>13, <3>1
  <2>4. r \in RecordsOf(p)
    BY <1>7, <2>3
  <2>5. PICK j \in 1 .. Len(A) : A[j] = Row(p, r)
    BY <1>2, <2>4
  <2>6. ~ (m < j)
    BY <1>2, <1>4, <1>8, <1>9, <2>3, <2>4, <2>5
  <2>7. j # m
    <3>1. r # q
      BY <1>6, <1>10, <1>12, <1>13, <2>1
    <3> QED BY <1>5, <1>9, <2>4, <2>5, <3>1
  <2>8. j \in 1 .. i /\ j \in 1 .. Len(B)
    BY <1>4, <2>6, <2>7
  <2>9. Key(B[j]) = Key(B[m])
    BY <1>4, <1>5, <1>13, <2>4, <2>5, <2>8
  <2>10. B[j].record_id = B[m].record_id
    BY <2>9 DEF Key
  <2> QED BY <1>6, <1>12, <2>7, <2>8, <2>10
<1>15. Key(A[m]) = Key(B[m])
  BY <1>5, <1>9, <1>10, <1>14
<1> QED BY <1>12, <1>15 DEF A, B, p

LEMMA FirstRecords ==
  ASSUME NEW s, IsHitList(s), InRank(s), NEW n \in Nat
  PROVE  /\ Len(InRecordRank(First(n, s))) <= Len(InRecordRank(s))
         /\ \A k \in 1 .. Len(InRecordRank(First(n, s))) :
              Key(InRecordRank(First(n, s))[k]) = Key(InRecordRank(s)[k])
<1> DEFINE A == InRecordRank(First(n, s))
           B == InRecordRank(s)
           I == {i \in Nat : i <= Len(A) =>
                   \A j \in 1 .. i : j <= Len(B) /\ Key(A[j]) = Key(B[j])}
<1>1. Len(A) \in Nat /\ Len(B) \in Nat
  BY FirstHits, RecordRankFacts
<1>2. \A i \in Nat : i + 1 <= Len(A) /\ (\A j \in 1 .. i : j <= Len(B) /\ Key(A[j]) = Key(B[j]))
                       => i + 1 <= Len(B) /\ Key(A[i + 1]) = Key(B[i + 1])
  BY NextRecord
<1> HIDE DEF A, B
<1>3. 0 \in I
  OBVIOUS
<1>4. \A i \in Nat : i \in I => i + 1 \in I
  <2> TAKE i \in Nat
  <2> HAVE i \in I
  <2> SUFFICES ASSUME i + 1 <= Len(A), NEW j \in 1 .. i + 1
               PROVE  j <= Len(B) /\ Key(A[j]) = Key(B[j])
    OBVIOUS
  <2>1. \A k \in 1 .. i : k <= Len(B) /\ Key(A[k]) = Key(B[k])
    BY <1>1
  <2>2. i + 1 <= Len(B) /\ Key(A[i + 1]) = Key(B[i + 1])
    BY <1>2, <2>1
  <2>3. j = i + 1 \/ j \in 1 .. i
    OBVIOUS
  <2> QED BY <2>1, <2>2, <2>3
<1>5. Nat \subseteq I
  <2> HIDE DEF I
  <2> QED BY <1>3, <1>4, SetInduction
<1>6. \A j \in 1 .. Len(A) : j <= Len(B) /\ Key(A[j]) = Key(B[j])
  BY <1>1, <1>5
<1> QED BY <1>1, <1>6 DEF A, B
-----------------------------------------------------------------------------
(* The over-fetch is deep enough. *)

\* As many hits as records times the hits of a record, at most.
LEMMA HintBounds ==
  ASSUME NEW s, IsHitList(s), NEW f \in Nat,
         \A r \in RecordsOf(s) : Cardinality(FieldHits(s, r)) <= f
  PROVE  Len(s) <= f * Cardinality(RecordsOf(s))
<1> DEFINE HitsOf(R) == {h \in Range(s) : Rec(h) \in R}
           I == {m \in Nat : \A R \in SUBSET RecordsOf(s) :
                               Cardinality(R) = m => Cardinality(HitsOf(R)) <= f * m}
<1>1. /\ IsFiniteSet(RecordsOf(s)) /\ Cardinality(RecordsOf(s)) \in Nat
      /\ IsFiniteSet(Range(s)) /\ Cardinality(Range(s)) = Len(s) /\ Len(s) \in Nat
      /\ \A r : FieldHits(s, r) = {h \in Range(s) : Rec(h) = r}
      /\ HitsOf(RecordsOf(s)) = Range(s)
  BY HitListFacts
<1>2. ASSUME NEW S \in SUBSET Range(s) PROVE IsFiniteSet(S) /\ Cardinality(S) \in Nat
  BY <1>1, FS_Subset, FS_CardinalityType
<1>3. 0 \in I
  <2> SUFFICES ASSUME NEW R \in SUBSET RecordsOf(s), Cardinality(R) = 0
               PROVE  Cardinality(HitsOf(R)) <= f * 0
    OBVIOUS
  <2>1. R = {}
    BY <1>1, FS_Subset, FS_EmptySet
  <2>2. HitsOf(R) = {}
    BY <2>1
  <2> HIDE DEF HitsOf
  <2> QED BY <2>2, FS_EmptySet
<1>4. \A m \in Nat : m \in I => m + 1 \in I
  <2> TAKE m \in Nat
  <2> HAVE m \in I
  <2> SUFFICES ASSUME NEW R \in SUBSET RecordsOf(s), Cardinality(R) = m + 1
               PROVE  Cardinality(HitsOf(R)) <= f * (m + 1)
    OBVIOUS
  <2>1. IsFiniteSet(R) /\ R # {}
    BY <1>1, FS_Subset, FS_EmptySet
  <2>2. PICK r : r \in R
    BY <2>1
  <2> DEFINE Q == R \ {r}
  <2>3. Q \in SUBSET RecordsOf(s) /\ Cardinality(Q) = m
    <3>1. Cardinality(Q) = Cardinality(R) - 1
      BY <2>1, <2>2, FS_RemoveElement
    <3>2. Q \in SUBSET RecordsOf(s)
      OBVIOUS
    <3> HIDE DEF I, Q
    <3> QED BY <3>1, <3>2
  <2>4. Cardinality(HitsOf(Q)) <= f * m
    BY <2>3
  <2>5. Cardinality(FieldHits(s, r)) <= f
    BY <2>2
  <2>6. HitsOf(R) = HitsOf(Q) \cup FieldHits(s, r)
    BY <1>1, <2>2
  <2>7. HitsOf(Q) \in SUBSET Range(s) /\ FieldHits(s, r) \in SUBSET Range(s)
    BY <1>1
  <2> HIDE DEF HitsOf, Q
  <2>8. /\ IsFiniteSet(HitsOf(Q)) /\ Cardinality(HitsOf(Q)) \in Nat
        /\ IsFiniteSet(FieldHits(s, r)) /\ Cardinality(FieldHits(s, r)) \in Nat
        /\ Cardinality(HitsOf(Q) \cap FieldHits(s, r)) \in Nat
    BY <1>2, <2>7
  <2>9. Cardinality(HitsOf(R)) <= Cardinality(HitsOf(Q)) + Cardinality(FieldHits(s, r))
    <3> DEFINE c == Cardinality(HitsOf(Q) \cap FieldHits(s, r))
    <3>1. Cardinality(HitsOf(Q) \cup FieldHits(s, r))
            = Cardinality(HitsOf(Q)) + Cardinality(FieldHits(s, r)) - c
      BY <2>8, FS_Union
    <3>2. c \in Nat
      BY <2>8
    <3> HIDE DEF c, I
    <3> QED BY <2>6, <2>8, <3>1, <3>2
  <2>10. HitsOf(R) \in SUBSET Range(s)
    BY DEF HitsOf
  <2>11. Cardinality(HitsOf(R)) \in Nat
    BY <1>2, <2>10
  <2>12. f * m \in Nat /\ f * (m + 1) = f * m + f
    OBVIOUS
  <2> QED BY <2>4, <2>5, <2>8, <2>9, <2>11, <2>12
<1>5. Nat \subseteq I
  <2> HIDE DEF I
  <2> QED BY <1>3, <1>4, SetInduction
<1>6. Cardinality(HitsOf(RecordsOf(s))) <= f * Cardinality(RecordsOf(s))
  BY <1>1, <1>5
<1> QED BY <1>1, <1>6

LEMMA FirstAll ==
  ASSUME NEW T, NEW s \in Seq(T), NEW n \in Nat, Len(s) <= n
  PROVE  First(n, s) = s
<1>1. /\ First(n, s) \in Seq(T) /\ Len(First(n, s)) = Len(s)
      /\ \A k \in 1 .. Len(First(n, s)) : First(n, s)[k] = s[k]
  BY FirstFacts, LenProperties
<1> QED BY <1>1, SeqEqual

LEMMA AtLeastOne ==
  ASSUME NEW n \in Nat
  PROVE  Max({n, 1}) = IF n = 0 THEN 1 ELSE n
<1>1. \E x \in {n, 1} : \A y \in {n, 1} : x >= y
  <2>1. CASE n = 0
    BY <2>1
  <2>2. CASE n # 0
    BY <2>2
  <2> QED BY <2>1, <2>2
<1>2. Max({n, 1}) \in {n, 1} /\ \A y \in {n, 1} : Max({n, 1}) >= y
  BY <1>1 DEF Max
<1> QED BY <1>2

\* The hits fetched are of as many records as the page can show, or are all.
LEMMA FetchedEnough ==
  ASSUME ScrollInv, Rankings = {"ranked"}, Cardinality(Ids) <= MaxU32, HintIsEnough,
         NEW limit \in Nat
  PROVE  /\ RawLimit(limit) \in Nat
         /\ \/ First(RawLimit(limit), hits) = hits
            \/ limit <= Cardinality(RecordsOf(First(RawLimit(limit), hits)))
<1> DEFINE n == RawLimit(limit)
           p == First(n, hits)
<1>1. /\ IsHitList(hits) /\ InRank(hits) /\ fields \in Nat /\ MaxU32 \in Nat
      /\ hits \in Seq(Hit) /\ Len(hits) \in Nat /\ Len(hits) <= MaxU32
  <2>1. Cardinality(Ids) \in Nat /\ MaxU32 \in Nat
    BY FS_CardinalityType, PagingAssumption
  <2> QED BY <2>1, LenProperties DEF ScrollInv, IsHitList
<1>2. \A r \in RecordsOf(hits) : Cardinality(FieldHits(hits, r)) <= fields
  BY DEF HintIsEnough
<1>3. limit * (IF fields = 0 THEN 1 ELSE fields) \in Nat
  BY <1>1, MulNat
<1>4. n = IF limit * (IF fields = 0 THEN 1 ELSE fields) > MaxU32 THEN MaxU32
          ELSE limit * (IF fields = 0 THEN 1 ELSE fields)
  BY <1>1, AtLeastOne DEF RawLimit
<1>5. n \in Nat
  BY <1>1, <1>3, <1>4
<1> HIDE DEF n
<1>6. CASE Len(hits) <= n
  BY <1>1, <1>5, <1>6, FirstAll DEF n
<1>7. CASE n < Len(hits)
  <2>1. fields # 0
    <3> SUFFICES ASSUME fields = 0 PROVE FALSE
      OBVIOUS
    <3>1. Len(hits) <= 0 * Cardinality(RecordsOf(hits))
      BY <1>1, <1>2, HintBounds
    <3>2. Cardinality(RecordsOf(hits)) \in Nat
      BY <1>1, HitListFacts
    <3> QED BY <1>1, <1>5, <1>7, <3>1, <3>2
  <2>2. n = limit * fields
    BY <1>1, <1>3, <1>4, <1>5, <1>7, <2>1
  <2>3. /\ IsHitList(p) /\ Len(p) = n
        /\ \A k \in 1 .. Len(p) : k \in 1 .. Len(hits) /\ p[k] = hits[k]
    BY <1>1, <1>5, <1>7, FirstHits
  <2>4. \A r \in RecordsOf(p) : r \in RecordsOf(hits)
    BY <1>1, <1>5, BestAmongFirst
  <2> HIDE DEF p
  <2>5. ASSUME NEW r \in RecordsOf(p) PROVE Cardinality(FieldHits(p, r)) <= fields
    <3>1. /\ FieldHits(p, r) = {h \in Range(p) : Rec(h) = r} /\ Range(p) = {p[k] : k \in 1 .. Len(p)}
          /\ FieldHits(hits, r) = {h \in Range(hits) : Rec(h) = r}
          /\ Range(hits) = {hits[k] : k \in 1 .. Len(hits)} /\ IsFiniteSet(Range(hits))
      BY <1>1, <2>3, HitListFacts
    <3>2. FieldHits(p, r) \subseteq FieldHits(hits, r) /\ FieldHits(hits, r) \subseteq Range(hits)
      BY <2>3, <3>1
    <3>3. /\ IsFiniteSet(FieldHits(hits, r)) /\ Cardinality(FieldHits(hits, r)) \in Nat
          /\ Cardinality(FieldHits(p, r)) \in Nat
          /\ Cardinality(FieldHits(p, r)) <= Cardinality(FieldHits(hits, r))
      BY <3>1, <3>2, FS_Subset, FS_CardinalityType
    <3>4. Cardinality(FieldHits(hits, r)) <= fields
      BY <1>2, <2>4
    <3> QED BY <1>1, <3>3, <3>4
  <2>6. Cardinality(RecordsOf(p)) \in Nat /\ limit * fields <= fields * Cardinality(RecordsOf(p))
    BY <1>1, <2>2, <2>3, <2>5, HintBounds, HitListFacts
  <2>7. limit <= Cardinality(RecordsOf(p))
    <3> DEFINE c == Cardinality(RecordsOf(p))
    <3> SUFFICES ASSUME c < limit PROVE FALSE
      BY <2>6
    <3>1. fields \in Nat \ {0} /\ c \in Nat /\ limit * fields = fields * limit
      BY <1>1, <2>1, <2>6
    <3> HIDE DEF c
    <3>2. fields * c + fields <= fields * limit
      BY <3>1, MulMono
    <3>3. fields * c \in Nat /\ fields * limit \in Nat
      BY <3>1, MulNat
    <3> QED BY <2>6, <3>1, <3>2, <3>3 DEF c
  <2> QED BY <1>5, <2>7 DEF p, n
<1> QED BY <1>1, <1>5, <1>6, <1>7
-----------------------------------------------------------------------------
(* The pages of search_records_page(). *)

\* t is the first n records of the ranking B, by what the host sees of a record
\* and of its best field.
Shows(t, B, n) ==
  /\ t \in Seq(RecordHit)
  /\ Len(t) = IF n < Len(B) THEN n ELSE Len(B)
  /\ \A k \in 1 .. Len(t) : Key(t[k]) = Key(B[k])

LEMMA RecordsFound ==
  ASSUME ScrollInv, Rankings = {"ranked"}, Cardinality(Ids) <= MaxU32, HintIsEnough,
         NEW limit \in Nat
  PROVE  /\ InRecordRank(hits) \in Seq(RecordHit) /\ Len(InRecordRank(hits)) \in Nat
         /\ Shows(search_records(limit), InRecordRank(hits), limit)
<1> DEFINE p == First(RawLimit(limit), hits)
           A == InRecordRank(p)
           B == InRecordRank(hits)
<1>1. IsHitList(hits) /\ InRank(hits)
  BY DEF ScrollInv
<1>2. RawLimit(limit) \in Nat /\ (p = hits \/ limit <= Cardinality(RecordsOf(p)))
  BY FetchedEnough
<1>3. B \in Seq(RecordHit) /\ Len(B) \in Nat
  BY <1>1, RecordRankFacts
<1>4. A \in Seq(RecordHit) /\ Len(A) = Cardinality(RecordsOf(p)) /\ Len(A) \in Nat
  BY <1>1, <1>2, FirstHits, RecordRankFacts
<1>5. Len(A) <= Len(B) /\ \A k \in 1 .. Len(A) : Key(A[k]) = Key(B[k])
  BY <1>1, <1>2, FirstRecords
<1>6. Len(A) = Len(B) \/ limit <= Len(A)
  BY <1>2, <1>4
<1>7. search_records(limit) = First(limit, A)
  BY DEF search_records, InRecordRank
<1> HIDE DEF p, A, B
<1>8. /\ First(limit, A) \in Seq(RecordHit)
      /\ Len(First(limit, A)) = IF limit < Len(A) THEN limit ELSE Len(A)
      /\ \A k \in 1 .. Len(First(limit, A)) : k \in 1 .. Len(A) /\ First(limit, A)[k] = A[k]
  BY <1>4, FirstFacts
<1>9. Len(First(limit, A)) = IF limit < Len(B) THEN limit ELSE Len(B)
  BY <1>3, <1>4, <1>5, <1>6, <1>8
<1>10. Shows(First(limit, A), B, limit)
  BY <1>5, <1>8, <1>9 DEF Shows
<1> QED BY <1>3, <1>7, <1>10 DEF B

\* The records shown are the first of the ranking of all records.
RecordsInv ==
  /\ ScrollInv
  /\ records /\ HintIsEnough =>
       /\ Shows(shown, InRecordRank(hits), page * per_page)
       /\ ended = "empty" /\ per_page > 0 => Len(InRecordRank(hits)) <= page * per_page

LEMMA RecordsInit == Init => RecordsInv
<1> SUFFICES ASSUME Init PROVE RecordsInv
  OBVIOUS
<1>1. ScrollInv
  BY ScrollInit
<1>2. page * per_page = 0 /\ shown = <<>> /\ ended = "no"
  BY <1>1 DEF Init, ScrollInv
<1>3. Len(InRecordRank(hits)) \in Nat
  BY <1>1, RecordRankFacts DEF ScrollInv
<1>4. shown \in Seq(RecordHit) /\ Len(shown) = 0
  BY <1>2, EmptySeq
<1>5. Shows(shown, InRecordRank(hits), 0)
  BY <1>3, <1>4 DEF Shows
<1> QED BY <1>1, <1>2, <1>5 DEF RecordsInv

\* One more page of records, of those found with the page's limit.
LEMMA RecordsPage ==
  ASSUME NEW B \in Seq(RecordHit), NEW a, NEW t, NEW n \in Nat, NEW m \in Nat,
         Shows(t, B, n), Shows(a, B, n + m)
  PROVE  /\ Shows(t \o First(m, Skip(n, a)), B, n + m)
         /\ First(m, Skip(n, a)) = <<>> /\ m > 0 => Len(B) <= n
<1> DEFINE b == Skip(n, a)
           c == First(m, b)
<1>1. /\ Len(B) \in Nat /\ Len(a) \in Nat /\ Len(t) \in Nat
      /\ a \in Seq(RecordHit) /\ t \in Seq(RecordHit)
      /\ Len(t) = IF n < Len(B) THEN n ELSE Len(B)
      /\ Len(a) = IF n + m < Len(B) THEN n + m ELSE Len(B)
      /\ \A k \in 1 .. Len(t) : Key(t[k]) = Key(B[k])
      /\ \A k \in 1 .. Len(a) : Key(a[k]) = Key(B[k])
  BY LenProperties DEF Shows
<1>2. /\ b \in Seq(RecordHit)
      /\ Len(b) = IF n < Len(a) THEN Len(a) - n ELSE 0
      /\ \A k \in 1 .. Len(b) : n + k \in 1 .. Len(a) /\ b[k] = a[n + k]
  BY <1>1, SkipFacts
<1> HIDE DEF b
<1>3. /\ c \in Seq(RecordHit) /\ Len(c) \in Nat /\ Len(c) = IF m < Len(b) THEN m ELSE Len(b)
      /\ \A k \in 1 .. Len(c) : k \in 1 .. Len(b) /\ c[k] = b[k]
  BY <1>2, FirstFacts, LenProperties
<1> HIDE DEF c
<1>4. Len(b) = (IF n < Len(B) THEN (IF n + m < Len(B) THEN m ELSE Len(B) - n) ELSE 0)
  <2>1. CASE n < Len(B)
    BY <1>1, <1>2, <2>1
  <2>2. CASE ~ (n < Len(B))
    BY <1>1, <1>2, <2>2
  <2> QED BY <2>1, <2>2
<1>5. Len(c) = Len(b)
  <2>1. CASE n < Len(B)
    BY <1>1, <1>3, <1>4, <2>1
  <2>2. CASE ~ (n < Len(B))
    BY <1>1, <1>3, <1>4, <2>2
  <2> QED BY <2>1, <2>2
<1>6. Len(t) + Len(c) = IF n + m < Len(B) THEN n + m ELSE Len(B)
  <2>1. CASE n < Len(B)
    BY <1>1, <1>4, <1>5, <2>1
  <2>2. CASE ~ (n < Len(B))
    BY <1>1, <1>4, <1>5, <2>2
  <2> QED BY <2>1, <2>2
<1>7. /\ t \o c \in Seq(RecordHit) /\ Len(t \o c) = Len(t) + Len(c)
      /\ \A k \in 1 .. Len(t) + Len(c) :
           (t \o c)[k] = IF k <= Len(t) THEN t[k] ELSE c[k - Len(t)]
  <2>1. c \in Seq(RecordHit)
    BY <1>3
  <2> QED BY ONLY <1>1, <2>1, ConcatProperties
<1>8. ASSUME NEW k \in 1 .. Len(t) + Len(c) PROVE Key((t \o c)[k]) = Key(B[k])
  <2>1. CASE k <= Len(t)
    <3>1. k \in 1 .. Len(t)
      BY <1>1, <2>1
    <3>2. (t \o c)[k] = t[k]
      BY <1>7, <2>1
    <3> QED BY <1>1, <3>1, <3>2
  <2>2. CASE ~ (k <= Len(t))
    <3> DEFINE j == k - Len(t)
    <3>1. j \in 1 .. Len(c) /\ k = Len(t) + j
      <4>1. Len(t) \in Nat /\ Len(c) \in Nat
        BY <1>1, <1>3
      <4> QED BY <2>2, <4>1
    <3>2. (t \o c)[k] = c[j]
      BY <1>7, <2>2
    <3> HIDE DEF j
    <3>3. Len(t) = n
      <4>1. CASE n < Len(B)
        BY <1>1, <4>1
      <4>2. CASE ~ (n < Len(B))
        BY <1>1, <1>4, <1>5, <3>1, <4>2
      <4> QED BY <4>1, <4>2
    <3>4. k \in 1 .. Len(a) /\ c[j] = a[k]
      BY <1>2, <1>3, <3>1, <3>3
    <3> QED BY <1>1, <3>2, <3>4
  <2> QED BY <2>1, <2>2
<1>9. c = <<>> /\ m > 0 => Len(B) <= n
  <2>1. c = <<>> => Len(c) = 0
    BY EmptySeq
  <2> QED BY <1>1, <1>4, <1>5, <2>1
<1>10. Shows(t \o c, B, n + m)
  BY <1>6, <1>7, <1>8 DEF Shows
<1> QED BY <1>9, <1>10 DEF b, c

LEMMA RecordsStep ==
  ASSUME Rankings = {"ranked"}, Cardinality(Ids) <= MaxU32, RecordsInv, [Next]_vars
  PROVE  RecordsInv'
<1>1. ScrollInv /\ ScrollInv'
  BY ScrollStep DEF RecordsInv
<1>2. UNCHANGED host => (HintIsEnough' <=> HintIsEnough)
                          /\ InRecordRank(hits)' = InRecordRank(hits)
  BY DEF HintIsEnough, host
<1>3. CASE UNCHANGED vars
  BY <1>1, <1>2, <1>3 DEF RecordsInv, vars, host
<1>4. CASE search_page
  BY <1>1, <1>4 DEF RecordsInv, search_page, Answer, Overflow, host
<1>5. CASE search_records_page
  <2> DEFINE n == page * per_page
             m == per_page
             a == search_records(n + m)
             B == InRecordRank(hits)
             results == First(m, Skip(n, a))
  <2>1. /\ n \in Nat /\ m \in Nat /\ page \in Nat /\ n + m \in Nat
        /\ (page + 1) * per_page = n + m
    BY <1>1, PageNumbers DEF ScrollInv
  <2>2. CASE Overflow
    BY <1>1, <1>2, <2>2 DEF RecordsInv, Overflow, host
  <2>3. CASE Answer(results)
    <3>1. /\ UNCHANGED host /\ shown' = shown \o results /\ page' = page + 1
          /\ ended' = IF results = <<>> THEN "empty" ELSE "no"
      BY <2>3 DEF Answer
    <3>2. hits' = hits /\ per_page' = m /\ page' * per_page' = n + m /\ records' = records
      BY <2>1, <3>1 DEF host
    <3> SUFFICES ASSUME records, HintIsEnough
                 PROVE  /\ Shows(shown', B, n + m)
                        /\ ended' = "empty" /\ m > 0 => Len(B) <= n + m
      BY <1>1, <1>2, <3>1, <3>2 DEF RecordsInv
    <3>3. B \in Seq(RecordHit) /\ Len(B) \in Nat /\ Shows(a, B, n + m)
      BY <1>1, <2>1, RecordsFound
    <3>4. Shows(shown, B, n)
      BY DEF RecordsInv
    <3> HIDE DEF n, m, a, B
    <3>5. /\ Shows(shown \o results, B, n + m)
          /\ results = <<>> /\ m > 0 => Len(B) <= n
      BY <2>1, <3>3, <3>4, RecordsPage
    <3> HIDE DEF results
    <3> QED BY <2>1, <3>1, <3>3, <3>5
  <2> QED BY <1>5, <2>2, <2>3 DEF search_records_page
<1> QED BY <1>3, <1>4, <1>5 DEF Next
LEMMA RankedFacts ==
  ASSUME NEW t \in Seq(RecordHit)
  PROVE  /\ Ranked(t) \in Seq({Key(t[k]) : k \in 1 .. Len(t)})
         /\ Len(Ranked(t)) = Len(t)
         /\ \A k \in 1 .. Len(t) : Ranked(t)[k] = Key(t[k])
<1> DEFINE T == {Key(t[k]) : k \in 1 .. Len(t)}
<1>1. Len(t) \in Nat /\ DOMAIN t = 1 .. Len(t)
  BY LenProperties
<1>2. Ranked(t) = [k \in 1 .. Len(t) |-> Key(t[k])]
  BY <1>1 DEF Ranked, Key
<1>3. Ranked(t) \in [1 .. Len(t) -> T]
  BY <1>2
<1>4. Ranked(t) \in Seq(T) /\ Len(Ranked(t)) = Len(t)
  <2> HIDE DEF T
  <2> QED BY <1>1, <1>3
<1> QED BY <1>2, <1>4

LEMMA ShowsPrefix ==
  ASSUME NEW B \in Seq(RecordHit), NEW t, NEW n \in Nat, Shows(t, B, n)
  PROVE  IsPrefix(Ranked(t), Ranked(B))
<1> DEFINE T == {Key(t[k]) : k \in 1 .. Len(t)}
           S == {Key(B[k]) : k \in 1 .. Len(B)}
           a == Ranked(t)
           b == Ranked(B)
           m == Len(t)
<1>1. /\ t \in Seq(RecordHit) /\ Len(t) \in Nat /\ Len(B) \in Nat /\ Len(t) <= Len(B)
      /\ \A k \in 1 .. Len(t) : Key(t[k]) = Key(B[k])
  BY LenProperties DEF Shows
<1>2. a \in Seq(T) /\ Len(a) = Len(t) /\ \A k \in 1 .. Len(t) : a[k] = Key(t[k])
  BY <1>1, RankedFacts
<1>3. b \in Seq(S) /\ Len(b) = Len(B) /\ \A k \in 1 .. Len(B) : b[k] = Key(B[k])
  BY RankedFacts
<1> HIDE DEF a, b, T, S
<1>4. SubSeq(a, 1, m) = a
  BY <1>2, SubSeqFull
<1>5. \A k \in 1 .. m : b[k] = a[k] /\ a[k] \in T
  <2>1. \A k \in 1 .. m : a[k] \in T
    BY <1>1, <1>2, ElementOfSeq
  <2>2. \A k \in 1 .. m : k \in 1 .. Len(B)
    BY <1>1
  <2> QED BY <1>1, <1>2, <1>3, <2>1, <2>2
<1>6. /\ SubSeq(b, 1, m) \in Seq(T) /\ Len(SubSeq(b, 1, m)) = m
      /\ \A k \in 1 .. m : SubSeq(b, 1, m)[k] = b[k]
  <2>1. \A k \in 1 .. m : b[k] \in T
    BY <1>5
  <2>2. /\ SubSeq(b, 1, m) \in Seq(T)
        /\ Len(SubSeq(b, 1, m)) = IF 1 <= m THEN m - 1 + 1 ELSE 0
        /\ \A k \in 1 .. m - 1 + 1 : SubSeq(b, 1, m)[k] = b[1 + k - 1]
    BY <1>1, <2>1, SubSeqProperties
  <2> QED BY <1>1, <2>2
<1>7. a = SubSeq(b, 1, m)
  <2>1. \A k \in 1 .. Len(a) : a[k] = SubSeq(b, 1, m)[k]
    BY <1>2, <1>5, <1>6
  <2> QED BY <1>2, <1>6, <2>1, SeqEqual
<1>8. IsPrefix(a, b)
  BY <1>1, <1>2, <1>3, <1>4, <1>7 DEF IsPrefix
<1> QED BY <1>8 DEF a, b

LEMMA RecordsShownRanked == RecordsInv => RecordsRanked
<1> SUFFICES ASSUME RecordsInv, records, HintIsEnough
             PROVE  IsPrefix(Ranked(shown), Ranked(InRecordRank(hits)))
  BY DEF RecordsRanked, InRecordRank
<1>1. page * per_page \in Nat /\ IsHitList(hits)
  BY PageNumbers DEF RecordsInv, ScrollInv
<1>2. InRecordRank(hits) \in Seq(RecordHit)
  BY <1>1, RecordRankFacts
<1> QED BY <1>1, <1>2, ShowsPrefix DEF RecordsInv

LEMMA RecordsShownOnce ==
  ASSUME RecordsInv, Cardinality(Ids) <= MaxU32
  PROVE  RecordPages
<1> DEFINE B == InRecordRank(hits)
           n == page * per_page
<1> SUFFICES ASSUME records, HintIsEnough
             PROVE  /\ IsInjective(RecordsShown)
                    /\ ended = "empty" /\ per_page > 0 => Len(shown) = match_count_records
  BY DEF RecordPages
<1>1. /\ IsHitList(hits) /\ n \in Nat /\ shown \in Seq(RecordHit)
      /\ Len(shown) = IF n < Len(B) THEN n ELSE Len(B)
      /\ \A k \in 1 .. Len(shown) : Key(shown[k]) = Key(B[k])
  BY PageNumbers DEF RecordsInv, ScrollInv, Shows
<1>2. Len(B) = Cardinality(RecordsOf(hits)) /\ Len(B) \in Nat
  BY <1>1, RecordRankFacts
<1>3. DOMAIN shown = 1 .. Len(shown) /\ Len(shown) \in Nat /\ Len(shown) <= Len(B)
  BY <1>1, <1>2, LenProperties
<1>4. ASSUME NEW j \in 1 .. Len(shown), NEW k \in 1 .. Len(shown),
             shown[j].record_id = shown[k].record_id
      PROVE  j = k
  <2>1. j \in 1 .. Len(B) /\ k \in 1 .. Len(B)
    BY <1>2, <1>3
  <2>2. B[j].record_id = shown[j].record_id /\ B[k].record_id = shown[k].record_id
    BY <1>1 DEF Key
  <2> QED BY <1>1, <1>4, <2>1, <2>2, OnePlace
<1>5. IsInjective(RecordsShown)
  BY <1>3, <1>4 DEF IsInjective, RecordsShown
<1>6. ended = "empty" /\ per_page > 0 => Len(shown) = match_count_records
  <2>1. hits \in Seq(Hit) /\ Len(hits) <= MaxU32 /\ MaxU32 \in Nat
    <3>1. Cardinality(Ids) \in Nat /\ MaxU32 \in Nat
      BY FS_CardinalityType, PagingAssumption
    <3> QED BY <1>1, <3>1, LenProperties DEF IsHitList
  <2>2. match_count_records = Cardinality(RecordsOf(hits))
    BY <2>1, FirstAll DEF match_count_records
  <2>3. ended = "empty" /\ per_page > 0 => Len(B) <= n
    BY DEF RecordsInv
  <2> QED BY <1>1, <1>2, <2>2, <2>3
<1> QED BY <1>5, <1>6

\* What search_records() fetches is enough for the page asked for: with a hint
\* that is not too small, under a ranking strategy, the pages show the best
\* records of the index in their order, however the hits of one record are
\* scattered.  An index that matches in more documents than a u32 counts is
\* beyond it, since the over-fetch saturates there.
THEOREM PagesShowTheBestRecords ==
  ASSUME Rankings = {"ranked"}, Cardinality(Ids) <= MaxU32
  PROVE  Spec => []RecordsRanked
<1>1. RecordsInv /\ [Next]_vars => RecordsInv'
  BY RecordsStep
<1> QED BY <1>1, RecordsInit, RecordsShownRanked, PTL DEF Spec

\* Under the same conditions no record is shown twice, and scrolling to the end
\* shows as many as match_count_records() announced.
THEOREM PagesShowEachRecordOnce ==
  ASSUME Rankings = {"ranked"}, Cardinality(Ids) <= MaxU32
  PROVE  Spec => []RecordPages
<1>1. RecordsInv /\ [Next]_vars => RecordsInv'
  BY RecordsStep
<1>2. RecordsInv => RecordPages
  BY RecordsShownOnce
<1> QED BY <1>1, <1>2, RecordsInit, PTL DEF Spec
=============================================================================
