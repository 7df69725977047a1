--------------------------- MODULE PackingProofs ---------------------------
(***************************************************************************)
(* What the encoding of document ids in Packing promises for a word of any *)
(* width: a record and a slot that fit are packed without loss, the ids of *)
(* a record are one interval, and moving an id to another encoding keeps   *)
(* its record and its slot.                                                *)
(***************************************************************************)
EXTENDS IndexFile, WellFoundedInduction, TLAPS

-----------------------------------------------------------------------------
(* Induction on the natural numbers, for sets.  *)

LEMMA Below ==
  ASSUME NEW x \in Nat, NEW y \in Nat, y < x
  PROVE  <<y, x>> \in OpToRel(<, Nat)
<1>1. <<y, x>> \in Nat \X Nat
  OBVIOUS
<1>2. <<y, x>>[1] < <<y, x>>[2]
  OBVIOUS
<1> QED
  BY <1>1, <1>2, Zenon DEF OpToRel

LEMMA Least ==
  ASSUME NEW T, T \subseteq Nat, T # {}
  PROVE  \E x \in T : \A y \in T : ~ (y < x)
<1>1. PICK x \in T : \A y \in T : ~ (<<y, x>> \in OpToRel(<, Nat))
  BY WFMin, NatLessThanWellFounded, Zenon
<1>2. \A y \in T : y \in Nat /\ x \in Nat
  OBVIOUS
<1>3. \A y \in T : ~ (y < x)
  BY <1>1, <1>2, Below, Zenon
<1> QED
  BY <1>3

LEMMA SetInduction ==
  ASSUME NEW S, 0 \in S, \A n \in Nat : n \in S => n + 1 \in S
  PROVE  Nat \subseteq S
<1> DEFINE T == Nat \ S
<1>1. SUFFICES ASSUME T # {} PROVE FALSE
  OBVIOUS
<1>2. PICK x \in T : \A y \in T : ~ (y < x)
  <2> HIDE DEF T
  <2>1. T \subseteq Nat
    BY DEF T
  <2> QED
    BY <1>1, <2>1, Least
<1>3. x # 0 /\ x - 1 \in Nat /\ x - 1 < x /\ x = (x - 1) + 1
  BY <1>2
<1>4. x - 1 \notin T
  BY <1>2, <1>3
<1> QED
  BY <1>2, <1>3, <1>4

-----------------------------------------------------------------------------
(* Quotients and remainders. *)

LEMMA DivUnique ==
  ASSUME NEW q \in Int, NEW d \in Nat \ {0}, NEW r \in 0 .. d - 1,
         NEW a \in Int, a = d * q + r
  PROVE  a \div d = q /\ a % d = r
OBVIOUS

LEMMA DivMod ==
  ASSUME NEW d \in Nat \ {0}, NEW a \in Int
  PROVE  /\ a \div d \in Int
         /\ a % d \in 0 .. d - 1
         /\ a = d * (a \div d) + (a % d)
OBVIOUS

LEMMA MulMono ==
  ASSUME NEW d \in Nat \ {0}, NEW p \in Int, NEW q \in Int, p < q
  PROVE  d * p + d <= d * q
OBVIOUS

LEMMA MulNat ==
  ASSUME NEW p \in Nat, NEW q \in Nat
  PROVE  p * q \in Nat
OBVIOUS

-----------------------------------------------------------------------------
(* Powers of two: those of the word, up to 2^(W + 1). *)

LEMMA PowerType ==
  ASSUME NEW n \in 0 .. W + 1
  PROVE  2^n \in Nat \ {0}
BY PowerAssumption

LEMMA PowerStep ==
  ASSUME NEW n \in 0 .. W
  PROVE  2^(n + 1) = 2 * 2^n
BY PowerAssumption, WordAssumption

LEMMA PowerSum ==
  ASSUME NEW m \in Nat, NEW n \in Nat, m + n <= W + 1
  PROVE  2^(m + n) = 2^m * 2^n
<1> DEFINE S == {k \in Nat : m + k <= W + 1 => 2^(m + k) = 2^m * 2^k}
<1>1. 0 \in S
  <2>1. m \in 0 .. W + 1 /\ m + 0 = m
    BY WordAssumption
  <2>2. 2^m \in Nat
    BY <2>1, PowerType
  <2>3. 2^m = 2^m * 2^0
    BY <2>2, PowerAssumption
  <2> QED
    BY <2>1, <2>3
<1>2. ASSUME NEW k \in Nat, k \in S PROVE k + 1 \in S
  <2>1. SUFFICES ASSUME m + (k + 1) <= W + 1
                 PROVE  2^(m + (k + 1)) = 2^m * 2^(k + 1)
    OBVIOUS
  <2>2. m + k \in 0 .. W /\ k \in 0 .. W /\ m \in 0 .. W /\ m + (k + 1) = (m + k) + 1
    BY <2>1, WordAssumption
  <2>3. 2^(m + k) = 2^m * 2^k
    BY <1>2, <2>2, WordAssumption
  <2>4. 2^((m + k) + 1) = 2 * 2^(m + k)
    BY <2>2, PowerStep
  <2>5. 2^(k + 1) = 2 * 2^k
    BY <2>2, PowerStep
  <2>6. 2^m \in Nat /\ 2^k \in Nat
    BY <2>2, PowerType, WordAssumption
  <2> HIDE DEF S
  <2> QED
    BY <2>2, <2>3, <2>4, <2>5, <2>6
<1>3. Nat \subseteq S
  <2> HIDE DEF S
  <2> QED
    BY <1>1, <1>2, SetInduction
<1> QED
  BY <1>3

-----------------------------------------------------------------------------
(* BitOr joins a multiple of 2^n and a number below 2^n: it adds them. *)

Bit(c, i) == ((c \div 2^i) % 2) * 2^i

IsSum(g, c) == g = [i \in 0 .. W |-> Bit(c, i) + (IF i = 0 THEN 0 ELSE g[i - 1])]

\* The low i + 1 bits of a number are its low i bits and the one above them.
LEMMA NextBit ==
  ASSUME NEW c \in Nat, NEW i \in 0 .. W
  PROVE  c % 2^(i + 1) = Bit(c, i) + (c % 2^i)
<1> DEFINE d == 2^i
           q == c \div d
           r == c % d
           h == q \div 2
           t == q % 2
<1>1. d \in Nat \ {0} /\ 2^(i + 1) = 2 * d
  BY PowerType, PowerStep, WordAssumption
<1>2. q \in Int /\ r \in 0 .. d - 1 /\ c = d * q + r
  <2> HIDE DEF d
  <2> QED
    BY <1>1, DivMod
<1>3. h \in Int /\ t \in 0 .. 1 /\ q = 2 * h + t
  <2> HIDE DEF q
  <2> QED
    BY <1>2, DivMod
<1>4. c = (2 * d) * h + (t * d + r) /\ t * d + r \in 0 .. (2 * d) - 1 /\ 2 * d \in Nat \ {0}
  <2> HIDE DEF d, q, r, h, t
  <2>1. t = 0 \/ t = 1
    BY <1>3
  <2> QED
    BY <1>1, <1>2, <1>3, <2>1
<1>5. c % (2 * d) = t * d + r
  <2> HIDE DEF d, q, r, h, t
  <2> QED
    BY <1>3, <1>4, DivUnique
<1> QED
  BY <1>1, <1>5 DEF Bit

LEMMA SumOfBits ==
  ASSUME NEW c \in Nat, NEW g, IsSum(g, c)
  PROVE  \A i \in 0 .. W : g[i] = c % 2^(i + 1)
<1> DEFINE S == {i \in Nat : i <= W => g[i] = c % 2^(i + 1)}
<1>1. \A i \in 0 .. W : g[i] = Bit(c, i) + (IF i = 0 THEN 0 ELSE g[i - 1])
  BY DEF IsSum
<1>2. 0 \in S
  <2>1. g[0] = Bit(c, 0) + 0 /\ 0 \in 0 .. W
    BY <1>1, WordAssumption
  <2>2. c % 2^0 = 0
    BY PowerAssumption
  <2> QED
    BY <2>1, <2>2, NextBit
<1>3. ASSUME NEW i \in Nat, i \in S PROVE i + 1 \in S
  <2>1. SUFFICES ASSUME i + 1 <= W PROVE g[i + 1] = c % 2^((i + 1) + 1)
    OBVIOUS
  <2>2. i + 1 \in 0 .. W /\ i <= W /\ i + 1 # 0 /\ (i + 1) - 1 = i
    BY <2>1, WordAssumption
  <2>3. g[i + 1] = Bit(c, i + 1) + g[i]
    BY <1>1, <2>2
  <2>4. g[i] = c % 2^(i + 1)
    BY <1>3, <2>2
  <2> QED
    BY <2>2, <2>3, <2>4, NextBit
<1>4. Nat \subseteq S
  <2> HIDE DEF S
  <2> QED
    BY <1>2, <1>3, SetInduction
<1> QED
  BY <1>4

LEMMA SumExists ==
  ASSUME NEW c \in Nat
  PROVE  IsSum([i \in 0 .. W |-> c % 2^(i + 1)], c)
<1> DEFINE g == [i \in 0 .. W |-> c % 2^(i + 1)]
<1>1. ASSUME NEW i \in 0 .. W
      PROVE  c % 2^(i + 1) = Bit(c, i) + (IF i = 0 THEN 0 ELSE g[i - 1])
  <2>1. c % 2^(i + 1) = Bit(c, i) + (c % 2^i)
    BY NextBit
  <2>2. CASE i = 0
    <3>1. c % 2^0 = 0
      BY PowerAssumption
    <3> QED
      BY <2>1, <2>2, <3>1
  <2>3. CASE i # 0
    <3>1. i - 1 \in 0 .. W /\ (i - 1) + 1 = i
      BY <2>3, WordAssumption
    <3>2. g[i - 1] = c % 2^i
      BY <3>1
    <3> HIDE DEF g
    <3> QED
      BY <2>1, <2>3, <3>2
  <2> QED
    BY <2>2, <2>3
<1> QED
  BY <1>1, Zenon DEF IsSum

LEMMA Parity ==
  ASSUME NEW x \in Int
  PROVE  x % 2 \in 0 .. 1
OBVIOUS

LEMMA ParityOfSum ==
  ASSUME NEW x \in Int, NEW y \in Int
  PROVE  (2 * x) % 2 = 0 /\ (2 * x + y) % 2 = y % 2
<1>1. y \div 2 \in Int /\ y % 2 \in 0 .. 1 /\ y = 2 * (y \div 2) + (y % 2)
  BY DivMod
<1>2. 2 * x + y = 2 * (x + (y \div 2)) + (y % 2)
  BY <1>1
<1>3. (2 * x + y) % 2 = y % 2
  BY <1>1, <1>2, DivUnique
<1> QED
  BY <1>3

LEMMA DivAdd ==
  ASSUME NEW d \in Nat \ {0}, NEW p \in Int, NEW y \in Int
  PROVE  (d * p + y) \div d = p + (y \div d)
<1> DEFINE q == y \div d
           u == y % d
<1>1. q \in Int /\ u \in 0 .. d - 1 /\ y = d * q + u
  BY DivMod
<1> HIDE DEF q, u
<1>2. p + q \in Int /\ d * p + y \in Int
  BY <1>1
<1>3. d * (p + q) = d * p + d * q
  BY <1>1
<1>4. d * p + y = d * (p + q) + u
  BY <1>1, <1>3
<1>5. (d * p + y) \div d = p + q
  BY <1>1, <1>2, <1>4, DivUnique
<1> QED
  BY <1>5 DEF q

LEMMA DivDiv ==
  ASSUME NEW d \in Nat \ {0}, NEW k \in Nat \ {0}, NEW r \in Nat, NEW s \in 0 .. d - 1
  PROVE  (r * d + s) \div (d * k) = r \div k
<1> DEFINE q == r \div k
           u == r % k
           e == d * k
           v == d * u + s
<1>1. q \in Int /\ u \in 0 .. k - 1 /\ r = k * q + u
  BY DivMod
<1> HIDE DEF q, u
<1>2. e \in Nat \ {0}
  OBVIOUS
<1>3. d * u + d <= e /\ d * u \in Nat
  BY <1>1, MulMono, MulNat
<1>4. v \in 0 .. e - 1
  <2> HIDE DEF e
  <2> QED
    BY <1>2, <1>3
<1>5. r * d = e * q + d * u
  <2>1. r * d = d * (k * q + u)
    BY <1>1
  <2>2. k * q \in Int /\ d * (k * q) = (d * k) * q
    BY <1>1
  <2>3. d * (k * q + u) = d * (k * q) + d * u
    BY <1>1, <2>2
  <2> QED
    BY <2>1, <2>2, <2>3
<1>6. r * d + s = e * q + v /\ r * d + s \in Int
  <2> DEFINE a == r * d
             b == e * q
             c == d * u
  <2>1. a \in Int /\ b \in Int /\ c \in Int /\ s \in Int /\ a = b + c
    BY <1>1, <1>2, <1>3, <1>5
  <2> HIDE DEF a, b, c, e
  <2>2. a + s = b + (c + s) /\ a + s \in Int
    BY <2>1
  <2> QED
    BY <2>2, Zenon DEF a, b, c
<1> HIDE DEF e, v
<1>7. (r * d + s) \div e = q
  BY <1>1, <1>2, <1>4, <1>6, DivUnique
<1> QED
  BY <1>7 DEF e, q

LEMMA LowBits ==
  ASSUME NEW n \in 0 .. W, NEW r \in Nat, NEW s \in 0 .. 2^n - 1, NEW i \in 0 .. n - 1
  PROVE  /\ Shr(r * 2^n, i) % 2 = 0
         /\ Shr(r * 2^n + s, i) % 2 = Shr(s, i) % 2
<1> DEFINE d == 2^i
           k == 2^(n - i - 1)
           x == r * k
<1>1. /\ i \in 0 .. W /\ i \in 0 .. W + 1
      /\ n - i - 1 \in 0 .. W + 1
      /\ i + 1 \in 0 .. W + 1
      /\ (i + 1) + (n - i - 1) = n
  BY WordAssumption
<1>2. d \in Nat \ {0} /\ k \in Nat \ {0} /\ 2^n \in Nat
  BY <1>1, PowerType, WordAssumption
<1>3. 2^n = (2 * d) * k
  <2>1. 2^n = 2^(i + 1) * 2^(n - i - 1)
    BY <1>1, PowerSum, WordAssumption
  <2> QED
    BY <2>1, <1>1, PowerStep
<1> HIDE DEF d, k
<1>4. x \in Nat /\ 2 * x \in Int /\ s \in Int
  BY <1>2, MulNat
<1>5. r * 2^n = d * (2 * x)
  BY <1>2, <1>3
<1> HIDE DEF x
<1>6. (d * (2 * x)) \div d = 2 * x
  <2>1. d * (2 * x) + 0 = d * (2 * x) /\ 0 \div d = 0 /\ 0 \in Int
    BY <1>2, <1>4
  <2>2. (d * (2 * x) + 0) \div d = 2 * x + (0 \div d)
    BY <1>2, <1>4, <2>1, DivAdd
  <2> QED
    BY <2>1, <2>2, <1>4
<1>7. (d * (2 * x) + s) \div d = 2 * x + (s \div d)
  BY <1>2, <1>4, DivAdd
<1>8. s \div d \in Int
  BY <1>2, <1>4, DivMod
<1>9. (2 * x) % 2 = 0 /\ (2 * x + (s \div d)) % 2 = (s \div d) % 2
  BY <1>4, <1>8, ParityOfSum
<1> QED
  BY <1>5, <1>6, <1>7, <1>9 DEF Shr, d

LEMMA HighBits ==
  ASSUME NEW n \in 0 .. W, NEW r \in Nat, NEW s \in 0 .. 2^n - 1, NEW i \in n .. W
  PROVE  /\ Shr(s, i) = 0
         /\ Shr(r * 2^n + s, i) = Shr(r * 2^n, i)
<1> DEFINE d == 2^n
           k == 2^(i - n)
<1>1. i - n \in 0 .. W + 1 /\ n \in 0 .. W + 1 /\ n \in Nat /\ i - n \in Nat
      /\ n + (i - n) = i /\ i <= W + 1
  BY WordAssumption
<1>2. d \in Nat \ {0} /\ k \in Nat \ {0}
  BY <1>1, PowerType
<1>3. 2^i = d * k
  BY <1>1, PowerSum
<1>4. s \in 0 .. d - 1
  OBVIOUS
<1> HIDE DEF d, k
<1>5. 0 \in Nat /\ 0 \in 0 .. d - 1 /\ 0 * d + s = s /\ r * d + 0 = r * d
  BY <1>2, <1>4
<1>6. (0 * d + s) \div (d * k) = 0 \div k /\ 0 \div k = 0
  BY <1>2, <1>4, <1>5, DivDiv
<1>7. (r * d + s) \div (d * k) = r \div k
  BY <1>2, <1>4, DivDiv, ZenonT(30)
<1>8. (r * d + 0) \div (d * k) = r \div k
  BY <1>2, <1>5, DivDiv
<1> QED
  BY <1>3, <1>5, <1>6, <1>7, <1>8 DEF Shr, d

LEMMA WrapFits ==
  ASSUME NEW c \in 0 .. MaxId
  PROVE  Wrap(c) = c
<1> DEFINE h == 2^W
<1>1. h \in Nat \ {0} /\ 2^(W + 1) = 2 * h
  BY PowerType, PowerStep, WordAssumption
<1>2. c \in 0 .. h - 1
  BY DEF MaxId
<1> HIDE DEF h
<1>3. /\ 2 * h \in Nat \ {0} /\ c + h \in Int /\ c + h \in 0 .. (2 * h) - 1
      /\ c + h = (2 * h) * 0 + (c + h)
  BY <1>1, <1>2
<1>4. (c + h) % (2 * h) = c + h
  BY <1>3, DivUnique
<1>5. (c + h) - h = c
  BY <1>1, <1>2
<1> QED
  BY <1>1, <1>4, <1>5 DEF Wrap, h

LEMMA BitOrAdds ==
  ASSUME NEW n \in 0 .. W, NEW r \in Nat, NEW s \in 0 .. 2^n - 1, r * 2^n + s \in 0 .. MaxId
  PROVE  BitOr(r * 2^n, s) = r * 2^n + s
<1> DEFINE a == r * 2^n
           c == a + s
           bit(i) == IF Shr(a, i) % 2 = 1 \/ Shr(s, i) % 2 = 1 THEN 2^i ELSE 0
           IsBitSum(g) == g = [i \in 0 .. W |-> bit(i) + (IF i = 0 THEN 0 ELSE g[i - 1])]
           total == CHOOSE g : IsBitSum(g)
<1>0. c \in Nat /\ c \in 0 .. MaxId
  <2> HIDE DEF a
  <2> QED
    BY DEF a
<1>1. ASSUME NEW i \in 0 .. W PROVE bit(i) = Bit(c, i)
  <2>1. (Shr(a, i) % 2 = 1 \/ Shr(s, i) % 2 = 1) <=> Shr(c, i) % 2 = 1
    <3>1. CASE i < n
      <4>1. i \in 0 .. n - 1
        BY <3>1
      <4>2. Shr(a, i) % 2 = 0 /\ Shr(c, i) % 2 = Shr(s, i) % 2
        BY <4>1, LowBits
      <4> QED
        BY <4>2
    <3>2. CASE ~ (i < n)
      <4>1. i \in n .. W
        BY <3>2
      <4>2. Shr(s, i) = 0 /\ Shr(c, i) = Shr(a, i)
        BY <4>1, HighBits
      <4>3. 0 % 2 = 0
        OBVIOUS
      <4> HIDE DEF a, c
      <4> QED
        BY <4>2, <4>3
    <3> QED
      BY <3>1, <3>2
  <2> DEFINE t == Shr(c, i) % 2
  <2> HIDE DEF a, c
  <2>2. 2^i \in Nat \ {0}
    BY PowerType, WordAssumption
  <2>3. Shr(c, i) \in Int
    BY <1>0, <2>2, DivMod DEF Shr
  <2>4. t \in 0 .. 1
    BY <2>3, Parity
  <2>5. bit(i) = IF t = 1 THEN 2^i ELSE 0
    BY <2>1, Zenon
  <2>6. Bit(c, i) = t * 2^i
    BY DEF Bit, Shr
  <2> HIDE DEF t, bit
  <2> QED
    BY <2>2, <2>4, <2>5, <2>6
<1>2. ASSUME NEW g PROVE IsBitSum(g) <=> IsSum(g, c)
  <2> HIDE DEF bit, a, c
  <2>1. [i \in 0 .. W |-> bit(i) + (IF i = 0 THEN 0 ELSE g[i - 1])]
        = [i \in 0 .. W |-> Bit(c, i) + (IF i = 0 THEN 0 ELSE g[i - 1])]
    BY <1>1, Zenon
  <2> QED
    BY <2>1, Zenon DEF IsSum
<1>3. IsBitSum(total)
  <2> HIDE DEF IsBitSum, a, c, bit
  <2>1. \E g : IsBitSum(g)
    BY <1>0, <1>2, SumExists
  <2> QED
    BY <2>1, Zenon
<1>4. total[W] = c % 2^(W + 1)
  <2> HIDE DEF IsBitSum, a, c, bit, total
  <2>1. IsSum(total, c)
    BY <1>2, <1>3, Zenon
  <2> QED
    BY <1>0, <2>1, SumOfBits, WordAssumption
<1>5. c % 2^(W + 1) = c
  <2> DEFINE h == 2^W
  <2>1. h \in Nat \ {0} /\ 2^(W + 1) = 2 * h
    BY PowerType, PowerStep, WordAssumption
  <2>2. c \in 0 .. h - 1
    BY <1>0 DEF MaxId
  <2> HIDE DEF h, c
  <2>3. /\ 2 * h \in Nat \ {0} /\ c \in Int /\ c \in 0 .. (2 * h) - 1
        /\ c = (2 * h) * 0 + c
    BY <2>1, <2>2
  <2>4. c % (2 * h) = c
    BY <2>3, DivUnique
  <2> QED
    BY <2>1, <2>4
<1>6. BitOr(a, s) = Wrap(total[W])
  <2> HIDE DEF a
  <2> QED
    BY Zenon DEF BitOr
<1> HIDE DEF total, c
<1> QED
  BY <1>0, <1>4, <1>5, <1>6, WrapFits DEF c

-----------------------------------------------------------------------------
(* What the encoding promises. *)

\* The ids of a record and a slot that fit an encoding of b slot bits.
LEMMA PackedFits ==
  ASSUME NEW b \in FieldBits, NEW r \in 0 .. max_record_id(b), NEW s \in 0 .. 2^b - 1
  PROVE  /\ r \in Nat /\ s \in Nat
         /\ r * 2^b + s \in 0 .. MaxId
         /\ r * 2^b \in 0 .. MaxId
<1> DEFINE d == 2^b
           q == MaxId \div d
<1>1. d \in Nat \ {0} /\ MaxId \in Nat
  BY PowerType, WordAssumption DEF MaxId, FieldBits, MaxFieldBits
<1>2. MaxId + 1 = d * 2^(W - b)
  <2>1. b \in Nat /\ W - b \in Nat /\ b + (W - b) = W /\ W <= W + 1
    BY WordAssumption DEF FieldBits, MaxFieldBits
  <2>2. 2^W \in Nat
    BY PowerType, WordAssumption
  <2> QED
    BY <2>1, <2>2, PowerSum DEF MaxId
<1>3. 2^(W - b) \in Nat \ {0}
  BY PowerType, WordAssumption DEF FieldBits, MaxFieldBits
<1>4. r \in 0 .. q /\ q = max_record_id(b)
  BY DEF max_record_id, Shr
<1>5. s \in 0 .. d - 1
  OBVIOUS
<1> DEFINE k == 2^(W - b)
<1> HIDE DEF d, k
<1>6. q = k - 1
  <2> DEFINE p == k - 1
             v == d - 1
  <2>1. MaxId = d * p + v /\ v \in 0 .. d - 1 /\ p \in Int /\ MaxId \in Int
    BY <1>1, <1>2, <1>3 DEF k
  <2> HIDE DEF p, v
  <2>2. MaxId \div d = p
    BY <1>1, <2>1, DivUnique
  <2> QED
    BY <2>2 DEF p
<1> HIDE DEF q
<1>7. r \in Nat /\ r < k /\ k \in Nat
  BY <1>3, <1>4, <1>6 DEF k
<1>8. d * r + d <= d * k
  BY <1>1, <1>7, MulMono
<1>9. d * r \in Nat /\ r * d = d * r
  BY <1>1, <1>7, MulNat
<1>10. d * k = MaxId + 1
  BY <1>2 DEF k
<1> QED
  BY <1>1, <1>5, <1>7, <1>8, <1>9, <1>10 DEF d

LEMMA PackAdds ==
  ASSUME NEW b \in FieldBits, NEW r \in 0 .. max_record_id(b), NEW s \in 0 .. 2^b - 1
  PROVE  /\ range_lo(r, b) = r * 2^b
         /\ pack(r, s, b) = r * 2^b + s
<1>1. Shl(r, b) = r * 2^b
  BY PackedFits, WrapFits DEF Shl
<1>2. b \in 0 .. W
  BY WordAssumption DEF FieldBits, MaxFieldBits
<1>3. BitOr(r * 2^b, s) = r * 2^b + s
  BY <1>2, PackedFits, BitOrAdds
<1> QED
  BY <1>1, <1>3 DEF pack, range_lo

\* What is packed comes out again: search_records and change_field_bits read
\* the record and the slot a host has indexed (pack_record_id, and the shifts
\* and masks that undo it), and every packed id is a document id a host may use.
THEOREM PackedComesBack ==
  ASSUME NEW b \in FieldBits, NEW r \in 0 .. max_record_id(b), NEW s \in 0 .. 2^b - 1
  PROVE  /\ pack(r, s, b) \in 0 .. MaxId
         /\ record_of(pack(r, s, b), b) = r
         /\ slot_bits(pack(r, s, b), b) = s
<1> DEFINE d == 2^b
           c == r * d + s
<1>1. d \in Nat \ {0}
  BY PowerType, WordAssumption DEF FieldBits, MaxFieldBits
<1>2. r \in Int /\ s \in 0 .. d - 1 /\ c \in 0 .. MaxId /\ c \in Int /\ c = d * r + s
  BY <1>1, PackedFits
<1>3. pack(r, s, b) = c
  BY PackAdds
<1> HIDE DEF d, c
<1>4. c \div d = r /\ c % d = s
  BY <1>1, <1>2
<1> QED
  BY <1>2, <1>3, <1>4 DEF record_of, slot_bits, Shr, d

\* Every id that is not negative is the packing of its own record and slot.
THEOREM UnpackedGoesBack ==
  ASSUME NEW b \in FieldBits, NEW id \in 0 .. MaxId
  PROVE  /\ record_of(id, b) \in 0 .. max_record_id(b)
         /\ slot_bits(id, b) \in 0 .. 2^b - 1
         /\ pack(record_of(id, b), slot_bits(id, b), b) = id
<1> DEFINE d == 2^b
           q == id \div d
           u == id % d
           m == MaxId \div d
           v == MaxId % d
<1>1. d \in Nat \ {0} /\ MaxId \in Nat
  BY PowerType, WordAssumption DEF FieldBits, MaxFieldBits, MaxId
<1> HIDE DEF d
<1>2. q \in Int /\ u \in 0 .. d - 1 /\ id = d * q + u /\ id \in Int
  BY <1>1, DivMod
<1>3. m \in Int /\ v \in 0 .. d - 1 /\ MaxId = d * m + v
  BY <1>1, DivMod
<1> HIDE DEF q, u, m, v
<1>4. q >= 0
  <2>1. SUFFICES ASSUME q < 0 PROVE FALSE
    BY <1>2
  <2>2. d * q + d <= d * 0
    BY <1>1, <1>2, <2>1, MulMono
  <2>3. d * 0 = 0 /\ d * q \in Int
    BY <1>1, <1>2
  <2> QED
    BY <1>1, <1>2, <2>2, <2>3
<1>5. q <= m
  <2>1. SUFFICES ASSUME m < q PROVE FALSE
    BY <1>2, <1>3
  <2>2. d * m + d <= d * q
    BY <1>1, <1>2, <1>3, <2>1, MulMono
  <2>3. d * m \in Int /\ d * q \in Int
    BY <1>1, <1>2, <1>3
  <2> QED
    BY <1>1, <1>2, <1>3, <2>2, <2>3
<1>6. record_of(id, b) = q /\ slot_bits(id, b) = u /\ max_record_id(b) = m
  BY DEF record_of, slot_bits, max_record_id, Shr, d, q, u, m
<1>7. q \in 0 .. m /\ u \in 0 .. 2^b - 1
  BY <1>2, <1>3, <1>4, <1>5 DEF d
<1>8. pack(q, u, b) = q * d + u
  BY <1>6, <1>7, PackAdds DEF d
<1>9. q * d = d * q
  BY <1>1, <1>2
<1> QED
  BY <1>2, <1>6, <1>7, <1>8, <1>9

\* The range index_record, remove_record and contains_record address holds the ids of
\* that record and no other, whatever the width of the word (record_id_range).
THEOREM RangeIsTheRecord ==
  ASSUME NEW b \in FieldBits, NEW r \in 0 .. max_record_id(b)
  PROVE  /\ range_lo(r, b) \in 0 .. MaxId
         /\ range_hi(range_lo(r, b), b) \in 0 .. MaxId
         /\ \A id \in Id : id \in range_lo(r, b) .. range_hi(range_lo(r, b), b)
                             <=> record_of(id, b) = r
<1> DEFINE d == 2^b
           lo == d * r
           hi == lo + (d - 1)
<1>1. d \in Nat \ {0} /\ r \in Int
  BY PackedFits, PowerType, WordAssumption DEF FieldBits, MaxFieldBits
<1>2. d - 1 \in 0 .. 2^b - 1 /\ 0 \in 0 .. 2^b - 1
  BY <1>1
<1>3. /\ r * 2^b \in 0 .. MaxId
      /\ r * 2^b + (d - 1) \in 0 .. MaxId
      /\ range_lo(r, b) = r * 2^b
  BY <1>2, PackedFits, PackAdds
<1>4. b \in 0 .. W /\ r \in Nat
  BY <1>2, PackedFits, WordAssumption DEF FieldBits, MaxFieldBits
<1>5. BitOr(r * 2^b, d - 1) = r * 2^b + (d - 1)
  BY <1>2, <1>3, <1>4, BitOrAdds
<1>6. range_hi(range_lo(r, b), b) = r * 2^b + (d - 1)
  BY <1>3, <1>5 DEF range_hi, Mask
<1>7. r * 2^b = lo /\ lo \in Int
  BY <1>1
<1>8. ASSUME NEW id \in Id PROVE id \in lo .. hi <=> record_of(id, b) = r
  <2> DEFINE q == id \div d
             u == id % d
  <2>1. id \in Int
    <3>1. 2^W \in Nat
      BY PowerType, WordAssumption
    <3> QED
      BY <3>1 DEF Id
  <2> HIDE DEF d
  <2>2. q \in Int /\ u \in 0 .. d - 1 /\ id = d * q + u
    BY <1>1, <2>1, DivMod
  <2>3. record_of(id, b) = q
    BY DEF record_of, Shr, d
  <2> HIDE DEF q, u
  <2>4. ASSUME q = r PROVE id \in lo .. hi
    BY <1>1, <1>7, <2>2, <2>4
  <2>5. ASSUME id \in lo .. hi PROVE q = r
    <3>1. CASE q < r
      <4>1. d * q + d <= d * r /\ d * q \in Int /\ d * r \in Int
        BY <1>1, <2>2, <3>1, MulMono
      <4> QED
        BY <1>1, <2>2, <2>5, <4>1
    <3>2. CASE r < q
      <4>1. d * r + d <= d * q /\ d * q \in Int /\ d * r \in Int
        BY <1>1, <2>2, <3>2, MulMono
      <4> QED
        BY <1>1, <2>2, <2>5, <4>1
    <3> QED
      BY <1>1, <2>2, <3>1, <3>2
  <2> QED
    BY <2>3, <2>4, <2>5
<1> HIDE DEF lo
<1> QED
  BY <1>3, <1>6, <1>7, <1>8

\* A row change_field_bits accepts keeps its record and its slot, and no two of
\* them meet: the duplicate ids its INSERT would stumble on cannot arise.
THEOREM RepackedKeeps ==
  ASSUME NEW old \in FieldBits, NEW new \in FieldBits,
         NEW i \in Id, NEW j \in Id, Fits(i, old, new), Fits(j, old, new)
  PROVE  /\ Repack(i, old, new) \in 0 .. MaxId
         /\ record_of(Repack(i, old, new), new) = record_of(i, old)
         /\ slot_bits(Repack(i, old, new), new) = slot_bits(i, old)
         /\ Repack(i, old, new) = Repack(j, old, new) => i = j
<1>1. ASSUME NEW k \in Id, Fits(k, old, new)
      PROVE  /\ Repack(k, old, new) \in 0 .. MaxId
             /\ record_of(Repack(k, old, new), new) = record_of(k, old)
             /\ slot_bits(Repack(k, old, new), new) = slot_bits(k, old)
             /\ pack(record_of(k, old), slot_bits(k, old), old) = k
  <2>1. k \in 0 .. MaxId
    <3>1. 2^W \in Nat
      BY PowerType, WordAssumption
    <3> QED
      BY <1>1, <3>1 DEF Fits, Id, MaxId
  <2>2. /\ record_of(k, old) \in 0 .. max_record_id(old)
        /\ slot_bits(k, old) \in 0 .. 2^old - 1
        /\ pack(record_of(k, old), slot_bits(k, old), old) = k
    BY <2>1, UnpackedGoesBack
  <2>3. 2^old \in Nat /\ 2^new \in Nat /\ max_record_id(new) \in Int
    <3>1. 2^old \in Nat /\ 2^new \in Nat \ {0} /\ 2^W \in Nat
      BY PowerType, WordAssumption DEF FieldBits, MaxFieldBits
    <3> QED
      BY <3>1, DivMod DEF max_record_id, Shr, MaxId
  <2>4. record_of(k, old) \in 0 .. max_record_id(new)
    BY <1>1, <2>2, <2>3 DEF Fits
  <2>5. slot_bits(k, old) \in 0 .. 2^new - 1
    BY <1>1, <2>2, <2>3 DEF Fits
  <2> QED
    BY <2>2, <2>4, <2>5, PackedComesBack DEF Repack
<1> QED
  BY <1>1
=============================================================================
