-------------------------- MODULE StrategiesProofs --------------------------
(***************************************************************************)
(* What the strategies find, for every index and every query.  A text that *)
(* was quoted for LIKE or FTS5 is read back as it was.  The candidates of  *)
(* FuzzyTrigram leave out nothing similar.  The range scans of Prefix and  *)
(* Suffix find what they are asked for: the key and its upper bound        *)
(* enclose the texts that begin with the key, and nothing else unless the  *)
(* key has the character that comes last before the surrogates.            *)
(***************************************************************************)
EXTENDS Strategies, FiniteSetTheorems, WellFoundedInduction, TLAPS

Text(s) == s \in Seq(Int) /\ \A k \in DOMAIN s : IsChar(s[k])

-----------------------------------------------------------------------------
(* The least and the greatest of a set of positions. *)

LEMMA Descends ==
  ASSUME NEW x \in Nat, NEW y \in Nat, y < x
  PROVE  <<y, x>> \in OpToRel(<, Nat)
<1>1. <<y, x>> \in Nat \X Nat
  OBVIOUS
<1>2. <<y, x>>[1] < <<y, x>>[2]
  OBVIOUS
<1> QED
  BY <1>1, <1>2, Zenon DEF OpToRel

LEMMA First ==
  ASSUME NEW T, T \subseteq Nat, T # {}
  PROVE  \E x \in T : \A y \in T : x <= y
<1>1. PICK x \in T : \A y \in T : ~ (<<y, x>> \in OpToRel(<, Nat))
  BY WFMin, NatLessThanWellFounded, Zenon
<1>2. \A y \in T : y \in Nat /\ x \in Nat
  OBVIOUS
<1>3. \A y \in T : ~ (y < x)
  BY <1>1, <1>2, Descends, Zenon
<1> QED
  BY <1>2, <1>3

LEMMA MaxIsGreatest ==
  ASSUME NEW n \in Nat, NEW T, T \subseteq 1 .. n, T # {}
  PROVE  Max(T) \in T /\ \A y \in T : y <= Max(T)
<1> DEFINE U == {n - y : y \in T}
<1>1. U \subseteq Nat /\ U # {}
  <2>1. \A y \in T : n - y \in Nat
    OBVIOUS
  <2>2. PICK y \in T : TRUE
    OBVIOUS
  <2>3. n - y \in U
    BY <2>2
  <2> QED BY <2>1, <2>3
<1>2. PICK z \in U : \A y \in U : z <= y
  <2> HIDE DEF U
  <2> QED BY <1>1, First
<1>3. PICK x \in T : z = n - x
  BY <1>2
<1>4. \A y \in T : n - y \in U
  OBVIOUS
<1>5. \A y \in T : x >= y
  BY <1>2, <1>3, <1>4
<1>6. Max(T) \in T /\ \A y \in T : Max(T) >= y
  BY <1>5, Zenon DEF Max
<1> QED
  BY <1>6

-----------------------------------------------------------------------------
(* Texts written and read one character after another. *)

LEMMA SetInduction ==
  ASSUME NEW S, 0 \in S, \A n \in Nat : n \in S => n + 1 \in S
  PROVE  Nat \subseteq S
<1> DEFINE T == Nat \ S
<1>1. SUFFICES ASSUME T # {} PROVE FALSE
  OBVIOUS
<1>2. PICK x \in T : \A y \in T : x <= y
  <2> HIDE DEF T
  <2>1. T \subseteq Nat
    BY DEF T
  <2> QED
    BY <1>1, <2>1, First
<1>3. x # 0 /\ x - 1 \in Nat /\ x - 1 < x /\ x = (x - 1) + 1
  BY <1>2
<1>4. x - 1 \notin T
  BY <1>2, <1>3
<1> QED
  BY <1>2, <1>3, <1>4

\* What holds of the empty text, and of a text with one more character, holds of
\* every text.
LEMMA TextInduction ==
  ASSUME NEW P, <<>> \in P,
         \A x \in Seq(Int), c \in Int : x \in P => Append(x, c) \in P
  PROVE  Seq(Int) \subseteq P
<1> DEFINE S == {n \in Nat : \A x \in Seq(Int) : Len(x) = n => x \in P}
<1>1. 0 \in S
  <2>1. \A x \in Seq(Int) : Len(x) = 0 => x = <<>>
    OBVIOUS
  <2> QED BY <2>1
<1>2. ASSUME NEW n \in Nat, n \in S PROVE n + 1 \in S
  <2>1. SUFFICES ASSUME NEW x \in Seq(Int), Len(x) = n + 1 PROVE x \in P
    OBVIOUS
  <2> DEFINE y == SubSeq(x, 1, n)
  <2>2. y \in Seq(Int) /\ Len(y) = n /\ x[n + 1] \in Int /\ x = Append(y, x[n + 1])
    BY <2>1
  <2>3. y \in P
    BY <1>2, <2>2
  <2> HIDE DEF y
  <2> QED BY <2>2, <2>3
<1>3. Nat \subseteq S
  <2> HIDE DEF S
  <2> QED BY <1>1, <1>2, SetInduction
<1> QED BY <1>3

\* The states g passes through when it reads x by a step function.
Passes(g, base, step, x) ==
  g = [k \in 0 .. Len(x) |-> IF k = 0 THEN base ELSE step[<<g[k - 1], x[k]>>]]

\* Every step stays within T.
StepsIn(T, step) == step \in [T \X Int -> T]

\* Where that ends.
Reached(base, step, x) == (CHOOSE g : Passes(g, base, step, x))[Len(x)]

LEMMA PassesThrough ==
  ASSUME NEW T, NEW base \in T, NEW step, StepsIn(T, step), NEW x \in Seq(Int),
         NEW g, Passes(g, base, step, x)
  PROVE  \A k \in 0 .. Len(x) : g[k] \in T
<1> DEFINE S == {n \in Nat : n <= Len(x) => g[n] \in T}
<1>1. 0 \in S
  BY DEF Passes
<1>2. ASSUME NEW n \in Nat, n \in S PROVE n + 1 \in S
  <2>1. SUFFICES ASSUME n + 1 <= Len(x) PROVE g[n + 1] \in T
    OBVIOUS
  <2>2. n + 1 \in 0 .. Len(x) /\ n + 1 # 0 /\ (n + 1) - 1 = n /\ x[n + 1] \in Int /\ g[n] \in T
    BY <1>2, <2>1
  <2>3. g[n + 1] = step[<<g[n], x[n + 1]>>]
    BY <2>2 DEF Passes
  <2>4. <<g[n], x[n + 1]>> \in T \X Int
    BY <2>2
  <2> QED BY <2>3, <2>4 DEF StepsIn
<1>3. Nat \subseteq S
  <2> HIDE DEF S
  <2> QED BY <1>1, <1>2, SetInduction
<1> QED BY <1>3

LEMMA PassesExist ==
  ASSUME NEW base, NEW step, NEW x \in Seq(Int)
  PROVE  \E g : Passes(g, base, step, x)
<1> DEFINE Upto(g, n) == g = [k \in 0 .. n |-> IF k = 0 THEN base ELSE step[<<g[k - 1], x[k]>>]]
           S == {n \in Nat : n <= Len(x) => \E g : Upto(g, n)}
<1>1. 0 \in S
  <2> DEFINE g == [k \in 0 .. 0 |-> base]
  <2>1. Upto(g, 0)
    OBVIOUS
  <2> HIDE DEF Upto
  <2> QED BY <2>1
<1>2. ASSUME NEW n \in Nat, n \in S PROVE n + 1 \in S
  <2>1. SUFFICES ASSUME n + 1 <= Len(x) PROVE \E g : Upto(g, n + 1)
    OBVIOUS
  <2>2. PICK g : Upto(g, n)
    BY <1>2, <2>1
  <2> DEFINE h == [k \in 0 .. n + 1 |-> IF k = n + 1 THEN step[<<g[n], x[n + 1]>>] ELSE g[k]]
  <2>3. ASSUME NEW k \in 0 .. n + 1
        PROVE  h[k] = IF k = 0 THEN base ELSE step[<<h[k - 1], x[k]>>]
    <3>1. CASE k = n + 1
      <4>1. k # 0 /\ k - 1 = n /\ h[k - 1] = g[n]
        BY <3>1
      <4> QED BY <3>1, <4>1
    <3>2. CASE k = 0
      BY <2>2, <3>2
    <3>3. CASE k \in 1 .. n
      <4>1. k \in 0 .. n /\ k # 0 /\ h[k] = g[k] /\ h[k - 1] = g[k - 1]
        BY <3>3
      <4> QED BY <2>2, <4>1
    <3> QED BY <3>1, <3>2, <3>3
  <2>4. Upto(h, n + 1)
    <3>1. h = [k \in 0 .. n + 1 |-> h[k]]
      OBVIOUS
    <3> HIDE DEF h
    <3> QED BY <2>3, <3>1
  <2> HIDE DEF Upto, h
  <2> QED BY <2>4
<1>3. Nat \subseteq S
  <2> HIDE DEF S
  <2> QED BY <1>1, <1>2, SetInduction
<1>4. Len(x) \in S
  <2> HIDE DEF S
  <2> QED BY <1>3
<1>5. \E g : Upto(g, Len(x))
  <2> HIDE DEF Upto
  <2> QED BY <1>4
<1> QED BY <1>5 DEF Passes

\* Two texts that begin alike are read alike so far.
LEMMA PassesAlike ==
  ASSUME NEW base, NEW step, NEW x \in Seq(Int), NEW y \in Seq(Int), Len(x) <= Len(y),
         \A k \in 1 .. Len(x) : x[k] = y[k],
         NEW g, Passes(g, base, step, x), NEW h, Passes(h, base, step, y)
  PROVE  g[Len(x)] = h[Len(x)]
<1> DEFINE S == {n \in Nat : n <= Len(x) => g[n] = h[n]}
<1>1. 0 \in S
  BY DEF Passes
<1>2. ASSUME NEW n \in Nat, n \in S PROVE n + 1 \in S
  <2>1. SUFFICES ASSUME n + 1 <= Len(x) PROVE g[n + 1] = h[n + 1]
    OBVIOUS
  <2>2. /\ n + 1 \in 0 .. Len(x) /\ n + 1 \in 0 .. Len(y) /\ n + 1 # 0 /\ (n + 1) - 1 = n
        /\ x[n + 1] = y[n + 1] /\ g[n] = h[n]
    BY <1>2, <2>1
  <2>3. g[n + 1] = step[<<g[n], x[n + 1]>>] /\ h[n + 1] = step[<<h[n], y[n + 1]>>]
    BY <2>2 DEF Passes
  <2> QED BY <2>2, <2>3
<1>3. Nat \subseteq S
  <2> HIDE DEF S
  <2> QED BY <1>1, <1>2, SetInduction
<1> QED BY <1>3

LEMMA ReachedByChar ==
  ASSUME NEW T, NEW base \in T, NEW step, StepsIn(T, step)
  PROVE  /\ Reached(base, step, <<>>) = base
         /\ \A x \in Seq(Int) : Reached(base, step, x) \in T
         /\ \A x \in Seq(Int), c \in Int :
              Reached(base, step, Append(x, c)) = step[<<Reached(base, step, x), c>>]
<1> DEFINE Run(x) == CHOOSE g : Passes(g, base, step, x)
<1>1. \A x \in Seq(Int) : Passes(Run(x), base, step, x)
  BY PassesExist
<1>2. \A x \in Seq(Int) : Reached(base, step, x) = Run(x)[Len(x)]
  BY DEF Reached
<1> HIDE DEF Run
<1>3. Reached(base, step, <<>>) = base
  <2>1. <<>> \in Seq(Int) /\ Len(<<>>) = 0 /\ 0 \in 0 .. 0
    OBVIOUS
  <2> QED BY <1>1, <1>2, <2>1 DEF Passes
<1>4. ASSUME NEW x \in Seq(Int) PROVE Reached(base, step, x) \in T
  <2>1. \A k \in 0 .. Len(x) : Run(x)[k] \in T
    BY <1>1, PassesThrough
  <2> QED BY <1>2, <2>1
<1>5. ASSUME NEW x \in Seq(Int), NEW c \in Int
      PROVE  Reached(base, step, Append(x, c)) = step[<<Reached(base, step, x), c>>]
  <2> DEFINE y == Append(x, c)
             n == Len(x)
  <2>1. /\ y \in Seq(Int) /\ Len(y) = n + 1 /\ n \in Nat /\ y[n + 1] = c
        /\ \A k \in 1 .. n : x[k] = y[k]
    OBVIOUS
  <2>2. Run(y)[n] = Run(x)[n]
    <3> HIDE DEF y
    <3> QED BY <1>1, <2>1, PassesAlike
  <2>3. Run(y)[n + 1] = step[<<Run(y)[n], y[n + 1]>>]
    <3> HIDE DEF y
    <3>1. n + 1 \in 0 .. Len(y) /\ n + 1 # 0 /\ (n + 1) - 1 = n
      BY <2>1
    <3> QED BY <1>1, <2>1, <3>1 DEF Passes
  <2> QED BY <1>2, <2>1, <2>2, <2>3
<1> QED BY <1>3, <1>4, <1>5

Follows(g, base, step, x, T) ==
  /\ g[0] = base
  /\ \A k \in 1 .. Len(x) : g[k - 1] \in T => g[k] = step[<<g[k - 1], x[k]>>]

\* A recursion of the model that agrees with a step function on the states it
\* passes through ends where the step function does.
LEMMA ReachedAlike ==
  ASSUME NEW T, NEW base \in T, NEW step, StepsIn(T, step), NEW x \in Seq(Int),
         NEW g, Follows(g, base, step, x, T)
  PROVE  g[Len(x)] = Reached(base, step, x)
<1> DEFINE h == CHOOSE h : Passes(h, base, step, x)
           S == {n \in Nat : n <= Len(x) => g[n] = h[n] /\ h[n] \in T}
<1>1. Passes(h, base, step, x)
  BY PassesExist
<1>2. Reached(base, step, x) = h[Len(x)]
  BY DEF Reached
<1> HIDE DEF h
<1>3. \A k \in 0 .. Len(x) : h[k] \in T
  BY <1>1, PassesThrough
<1>4. 0 \in S
  BY <1>1 DEF Passes, Follows
<1>5. ASSUME NEW n \in Nat, n \in S PROVE n + 1 \in S
  <2>1. SUFFICES ASSUME n + 1 <= Len(x) PROVE g[n + 1] = h[n + 1] /\ h[n + 1] \in T
    OBVIOUS
  <2>2. /\ n + 1 \in 0 .. Len(x) /\ n + 1 \in 1 .. Len(x) /\ n + 1 # 0 /\ (n + 1) - 1 = n
        /\ g[n] = h[n] /\ g[n] \in T
    BY <1>5, <2>1
  <2>3. h[n + 1] = step[<<h[n], x[n + 1]>>]
    BY <1>1, <2>2 DEF Passes
  <2>4. g[n + 1] = step[<<g[n], x[n + 1]>>]
    BY <2>2 DEF Follows
  <2> QED BY <1>3, <2>2, <2>3, <2>4
<1>6. Nat \subseteq S
  <2> HIDE DEF S
  <2> QED BY <1>4, <1>5, SetInduction
<1> QED BY <1>2, <1>6

\* escape_like() and the doubling of quotes write each character by itself.
LEMMA EscapedByChar ==
  /\ escape_like(<<>>) = <<>>
  /\ \A x \in Seq(Int) : escape_like(x) \in Seq(Int)
  /\ \A x \in Seq(Int), c \in Int : escape_like(Append(x, c)) = escape_like(x) \o Escaped(c)
<1> DEFINE T == Seq(Int)
           base == <<>>
           step == [p \in T \X Int |-> p[1] \o Escaped(p[2])]
<1>1. base \in T /\ StepsIn(T, step)
  BY DEF StepsIn, Escaped, Backslash, Percent, Underscore
<1>2. \A y \in T, c \in Int : step[<<y, c>>] = y \o Escaped(c)
  OBVIOUS
<1>3. ASSUME NEW x \in Seq(Int) PROVE escape_like(x) = Reached(base, step, x)
  <2> DEFINE Run(g) == g = [k \in 0 .. Len(x) |-> IF k = 0 THEN base ELSE g[k - 1] \o Escaped(x[k])]
             run == CHOOSE g : Run(g)
  <2>1. escape_like(x) = run[Len(x)]
    BY DEF escape_like
  <2> HIDE DEF step, base, T
  <2>2. \A k \in 1 .. Len(x) : k - 1 \in 0 .. Len(x) /\ x[k] \in Int
    OBVIOUS
  <2>3. PICK g : Passes(g, base, step, x)
    BY PassesExist
  <2>4. \A k \in 0 .. Len(x) : g[k] \in T
    BY <1>1, <2>3, PassesThrough
  <2>5. Run(g)
    <3> DEFINE u(k) == step[<<g[k - 1], x[k]>>]
               v(k) == g[k - 1] \o Escaped(x[k])
    <3>1. ASSUME NEW k \in 0 .. Len(x), k # 0 PROVE u(k) = v(k)
      <4>1. k \in 1 .. Len(x)
        BY <3>1
      <4> QED BY <1>2, <2>2, <2>4, <4>1
    <3>2. g = [k \in 0 .. Len(x) |-> IF k = 0 THEN base ELSE u(k)]
      BY <2>3 DEF Passes
    <3> HIDE DEF u, v
    <3>3. g = [k \in 0 .. Len(x) |-> IF k = 0 THEN base ELSE v(k)]
      BY <3>1, <3>2
    <3> QED BY <3>3 DEF v
  <2>6. Run(run)
    <3> HIDE DEF Run
    <3> QED BY <2>5
  <2> HIDE DEF run
  <2>7. run[0] = base /\ \A k \in 1 .. Len(x) : run[k] = run[k - 1] \o Escaped(x[k])
    <3> DEFINE w(k) == run[k - 1] \o Escaped(x[k])
    <3>1. run = [k \in 0 .. Len(x) |-> IF k = 0 THEN base ELSE w(k)]
      BY <2>6
    <3> HIDE DEF w
    <3>2. run[0] = base /\ \A k \in 1 .. Len(x) : run[k] = w(k)
      BY <3>1
    <3> QED BY <3>2 DEF w
  <2>8. Follows(run, base, step, x, T)
    BY <1>2, <2>2, <2>7 DEF Follows
  <2>9. run[Len(x)] = Reached(base, step, x)
    BY <1>1, <2>8, ReachedAlike
  <2> QED BY <2>1, <2>9
<1> HIDE DEF step, base, T
<1>4. /\ Reached(base, step, <<>>) = base
      /\ \A x \in Seq(Int) : Reached(base, step, x) \in T
      /\ \A x \in Seq(Int), c \in Int :
           Reached(base, step, Append(x, c)) = step[<<Reached(base, step, x), c>>]
  BY <1>1, ReachedByChar
<1>5. \A x \in Seq(Int), c \in Int : Append(x, c) \in Seq(Int)
  OBVIOUS
<1>6. escape_like(<<>>) = base
  <2>1. <<>> \in Seq(Int)
    OBVIOUS
  <2> QED BY <1>3, <1>4, <2>1
<1>7. \A x \in Seq(Int) : escape_like(x) \in T
  BY <1>3, <1>4
<1>8. ASSUME NEW x \in Seq(Int), NEW c \in Int
      PROVE  escape_like(Append(x, c)) = escape_like(x) \o Escaped(c)
  <2> DEFINE y == Reached(base, step, x)
  <2>1. y \in T /\ escape_like(x) = y
    BY <1>3, <1>4
  <2>2. escape_like(Append(x, c)) = Reached(base, step, Append(x, c))
    BY <1>3, <1>5
  <2>3. Reached(base, step, Append(x, c)) = step[<<y, c>>]
    BY <1>4
  <2> HIDE DEF y
  <2>4. step[<<y, c>>] = y \o Escaped(c)
    BY <1>2, <2>1
  <2> QED BY <2>1, <2>2, <2>3, <2>4
<1> QED BY <1>6, <1>7, <1>8 DEF base, T

LEMMA DoubledByChar ==
  /\ doubled(<<>>) = <<>>
  /\ \A x \in Seq(Int) : doubled(x) \in Seq(Int)
  /\ \A x \in Seq(Int), c \in Int : doubled(Append(x, c)) = doubled(x) \o Doubled(c)
<1> DEFINE T == Seq(Int)
           base == <<>>
           step == [p \in T \X Int |-> p[1] \o Doubled(p[2])]
<1>1. base \in T /\ StepsIn(T, step)
  BY DEF StepsIn, Doubled, Quote
<1>2. \A y \in T, c \in Int : step[<<y, c>>] = y \o Doubled(c)
  OBVIOUS
<1>3. ASSUME NEW x \in Seq(Int) PROVE doubled(x) = Reached(base, step, x)
  <2> DEFINE Run(g) == g = [k \in 0 .. Len(x) |-> IF k = 0 THEN base ELSE g[k - 1] \o Doubled(x[k])]
             run == CHOOSE g : Run(g)
  <2>1. doubled(x) = run[Len(x)]
    BY DEF doubled
  <2> HIDE DEF step, base, T
  <2>2. \A k \in 1 .. Len(x) : k - 1 \in 0 .. Len(x) /\ x[k] \in Int
    OBVIOUS
  <2>3. PICK g : Passes(g, base, step, x)
    BY PassesExist
  <2>4. \A k \in 0 .. Len(x) : g[k] \in T
    BY <1>1, <2>3, PassesThrough
  <2>5. Run(g)
    <3> DEFINE u(k) == step[<<g[k - 1], x[k]>>]
               v(k) == g[k - 1] \o Doubled(x[k])
    <3>1. ASSUME NEW k \in 0 .. Len(x), k # 0 PROVE u(k) = v(k)
      <4>1. k \in 1 .. Len(x)
        BY <3>1
      <4> QED BY <1>2, <2>2, <2>4, <4>1
    <3>2. g = [k \in 0 .. Len(x) |-> IF k = 0 THEN base ELSE u(k)]
      BY <2>3 DEF Passes
    <3> HIDE DEF u, v
    <3>3. g = [k \in 0 .. Len(x) |-> IF k = 0 THEN base ELSE v(k)]
      BY <3>1, <3>2
    <3> QED BY <3>3 DEF v
  <2>6. Run(run)
    <3> HIDE DEF Run
    <3> QED BY <2>5
  <2> HIDE DEF run
  <2>7. run[0] = base /\ \A k \in 1 .. Len(x) : run[k] = run[k - 1] \o Doubled(x[k])
    <3> DEFINE w(k) == run[k - 1] \o Doubled(x[k])
    <3>1. run = [k \in 0 .. Len(x) |-> IF k = 0 THEN base ELSE w(k)]
      BY <2>6
    <3> HIDE DEF w
    <3>2. run[0] = base /\ \A k \in 1 .. Len(x) : run[k] = w(k)
      BY <3>1
    <3> QED BY <3>2 DEF w
  <2>8. Follows(run, base, step, x, T)
    BY <1>2, <2>2, <2>7 DEF Follows
  <2>9. run[Len(x)] = Reached(base, step, x)
    BY <1>1, <2>8, ReachedAlike
  <2> QED BY <2>1, <2>9
<1> HIDE DEF step, base, T
<1>4. /\ Reached(base, step, <<>>) = base
      /\ \A x \in Seq(Int) : Reached(base, step, x) \in T
      /\ \A x \in Seq(Int), c \in Int :
           Reached(base, step, Append(x, c)) = step[<<Reached(base, step, x), c>>]
  BY <1>1, ReachedByChar
<1>5. \A x \in Seq(Int), c \in Int : Append(x, c) \in Seq(Int)
  OBVIOUS
<1>6. doubled(<<>>) = base
  <2>1. <<>> \in Seq(Int)
    OBVIOUS
  <2> QED BY <1>3, <1>4, <2>1
<1>7. \A x \in Seq(Int) : doubled(x) \in T
  BY <1>3, <1>4
<1>8. ASSUME NEW x \in Seq(Int), NEW c \in Int
      PROVE  doubled(Append(x, c)) = doubled(x) \o Doubled(c)
  <2> DEFINE y == Reached(base, step, x)
  <2>1. y \in T /\ doubled(x) = y
    BY <1>3, <1>4
  <2>2. doubled(Append(x, c)) = Reached(base, step, Append(x, c))
    BY <1>3, <1>5
  <2>3. Reached(base, step, Append(x, c)) = step[<<y, c>>]
    BY <1>4
  <2> HIDE DEF y
  <2>4. step[<<y, c>>] = y \o Doubled(c)
    BY <1>2, <2>1
  <2> QED BY <2>1, <2>2, <2>3, <2>4
<1> QED BY <1>6, <1>7, <1>8 DEF base, T

\* LIKE and FTS5 read one character after another.
LikeStates(s) == [at : SUBSET (0 .. Len(s)), escaped : BOOLEAN]

LEMMA LikeReadByChar ==
  ASSUME NEW s \in Seq(Int)
  PROVE  /\ LikeRead(<<>>, s) = [at |-> {0}, escaped |-> FALSE]
         /\ \A x \in Seq(Int) : LikeRead(x, s) \in LikeStates(s)
         /\ \A x \in Seq(Int), c \in Int : LikeRead(Append(x, c), s) = LikeNext(LikeRead(x, s), c, s)
<1> DEFINE T == LikeStates(s)
           base == [at |-> {0}, escaped |-> FALSE]
           step == [p \in T \X Int |-> LikeNext(p[1], p[2], s)]
<1>1. base \in T /\ StepsIn(T, step)
  BY DEF StepsIn, LikeStates, LikeNext, LikeSame, LikeOne, LikeAny
<1>2. \A y \in T, c \in Int : step[<<y, c>>] = LikeNext(y, c, s)
  OBVIOUS
<1>3. ASSUME NEW x \in Seq(Int) PROVE LikeRead(x, s) = Reached(base, step, x)
  <2> DEFINE Run(g) == g = [k \in 0 .. Len(x) |-> IF k = 0 THEN base ELSE LikeNext(g[k - 1], x[k], s)]
             run == CHOOSE g : Run(g)
  <2>1. LikeRead(x, s) = run[Len(x)]
    BY DEF LikeRead
  <2> HIDE DEF step, base, T
  <2>2. \A k \in 1 .. Len(x) : k - 1 \in 0 .. Len(x) /\ x[k] \in Int
    OBVIOUS
  <2>3. PICK g : Passes(g, base, step, x)
    BY PassesExist
  <2>4. \A k \in 0 .. Len(x) : g[k] \in T
    BY <1>1, <2>3, PassesThrough
  <2>5. Run(g)
    <3> DEFINE u(k) == step[<<g[k - 1], x[k]>>]
               v(k) == LikeNext(g[k - 1], x[k], s)
    <3>1. ASSUME NEW k \in 0 .. Len(x), k # 0 PROVE u(k) = v(k)
      <4>1. k \in 1 .. Len(x)
        BY <3>1
      <4> QED BY <1>2, <2>2, <2>4, <4>1
    <3>2. g = [k \in 0 .. Len(x) |-> IF k = 0 THEN base ELSE u(k)]
      BY <2>3 DEF Passes
    <3> HIDE DEF u, v
    <3>3. g = [k \in 0 .. Len(x) |-> IF k = 0 THEN base ELSE v(k)]
      BY <3>1, <3>2
    <3> QED BY <3>3 DEF v
  <2>6. Run(run)
    <3> HIDE DEF Run
    <3> QED BY <2>5
  <2> HIDE DEF run
  <2>7. run[0] = base /\ \A k \in 1 .. Len(x) : run[k] = LikeNext(run[k - 1], x[k], s)
    <3> DEFINE w(k) == LikeNext(run[k - 1], x[k], s)
    <3>1. run = [k \in 0 .. Len(x) |-> IF k = 0 THEN base ELSE w(k)]
      BY <2>6
    <3> HIDE DEF w
    <3>2. run[0] = base /\ \A k \in 1 .. Len(x) : run[k] = w(k)
      BY <3>1
    <3> QED BY <3>2 DEF w
  <2>8. Follows(run, base, step, x, T)
    BY <1>2, <2>2, <2>7 DEF Follows
  <2>9. run[Len(x)] = Reached(base, step, x)
    BY <1>1, <2>8, ReachedAlike
  <2> QED BY <2>1, <2>9
<1> HIDE DEF step, base, T
<1>4. /\ Reached(base, step, <<>>) = base
      /\ \A x \in Seq(Int) : Reached(base, step, x) \in T
      /\ \A x \in Seq(Int), c \in Int :
           Reached(base, step, Append(x, c)) = step[<<Reached(base, step, x), c>>]
  BY <1>1, ReachedByChar
<1>5. \A x \in Seq(Int), c \in Int : Append(x, c) \in Seq(Int)
  OBVIOUS
<1>6. LikeRead(<<>>, s) = base
  <2>1. <<>> \in Seq(Int)
    OBVIOUS
  <2> QED BY <1>3, <1>4, <2>1
<1>7. \A x \in Seq(Int) : LikeRead(x, s) \in T
  BY <1>3, <1>4
<1>8. ASSUME NEW x \in Seq(Int), NEW c \in Int
      PROVE  LikeRead(Append(x, c), s) = LikeNext(LikeRead(x, s), c, s)
  <2> DEFINE y == Reached(base, step, x)
  <2>1. y \in T /\ LikeRead(x, s) = y
    BY <1>3, <1>4
  <2>2. LikeRead(Append(x, c), s) = Reached(base, step, Append(x, c))
    BY <1>3, <1>5
  <2>3. Reached(base, step, Append(x, c)) = step[<<y, c>>]
    BY <1>4
  <2> HIDE DEF y
  <2>4. step[<<y, c>>] = LikeNext(y, c, s)
    BY <1>2, <2>1
  <2> QED BY <2>1, <2>2, <2>3, <2>4
<1> QED BY <1>6, <1>7, <1>8 DEF base, T

Fts5States == [text : Seq(Int), odd : BOOLEAN, ended : BOOLEAN]

LEMMA Fts5ReadByChar ==
  /\ Fts5Read(<<>>) = [text |-> <<>>, odd |-> FALSE, ended |-> FALSE]
  /\ \A x \in Seq(Int) : Fts5Read(x) \in Fts5States
  /\ \A x \in Seq(Int), c \in Int : Fts5Read(Append(x, c)) = Fts5Next(Fts5Read(x), c)
<1> DEFINE T == Fts5States
           base == [text |-> <<>>, odd |-> FALSE, ended |-> FALSE]
           step == [p \in T \X Int |-> Fts5Next(p[1], p[2])]
<1>1. base \in T /\ StepsIn(T, step)
  BY DEF StepsIn, Fts5States, Fts5Next
<1>2. \A y \in T, c \in Int : step[<<y, c>>] = Fts5Next(y, c)
  OBVIOUS
<1>3. ASSUME NEW x \in Seq(Int) PROVE Fts5Read(x) = Reached(base, step, x)
  <2> DEFINE Run(g) == g = [k \in 0 .. Len(x) |-> IF k = 0 THEN base ELSE Fts5Next(g[k - 1], x[k])]
             run == CHOOSE g : Run(g)
  <2>1. Fts5Read(x) = run[Len(x)]
    BY DEF Fts5Read
  <2> HIDE DEF step, base, T
  <2>2. \A k \in 1 .. Len(x) : k - 1 \in 0 .. Len(x) /\ x[k] \in Int
    OBVIOUS
  <2>3. PICK g : Passes(g, base, step, x)
    BY PassesExist
  <2>4. \A k \in 0 .. Len(x) : g[k] \in T
    BY <1>1, <2>3, PassesThrough
  <2>5. Run(g)
    <3> DEFINE u(k) == step[<<g[k - 1], x[k]>>]
               v(k) == Fts5Next(g[k - 1], x[k])
    <3>1. ASSUME NEW k \in 0 .. Len(x), k # 0 PROVE u(k) = v(k)
      <4>1. k \in 1 .. Len(x)
        BY <3>1
      <4> QED BY <1>2, <2>2, <2>4, <4>1
    <3>2. g = [k \in 0 .. Len(x) |-> IF k = 0 THEN base ELSE u(k)]
      BY <2>3 DEF Passes
    <3> HIDE DEF u, v
    <3>3. g = [k \in 0 .. Len(x) |-> IF k = 0 THEN base ELSE v(k)]
      BY <3>1, <3>2
    <3> QED BY <3>3 DEF v
  <2>6. Run(run)
    <3> HIDE DEF Run
    <3> QED BY <2>5
  <2> HIDE DEF run
  <2>7. run[0] = base /\ \A k \in 1 .. Len(x) : run[k] = Fts5Next(run[k - 1], x[k])
    <3> DEFINE w(k) == Fts5Next(run[k - 1], x[k])
    <3>1. run = [k \in 0 .. Len(x) |-> IF k = 0 THEN base ELSE w(k)]
      BY <2>6
    <3> HIDE DEF w
    <3>2. run[0] = base /\ \A k \in 1 .. Len(x) : run[k] = w(k)
      BY <3>1
    <3> QED BY <3>2 DEF w
  <2>8. Follows(run, base, step, x, T)
    BY <1>2, <2>2, <2>7 DEF Follows
  <2>9. run[Len(x)] = Reached(base, step, x)
    BY <1>1, <2>8, ReachedAlike
  <2> QED BY <2>1, <2>9
<1> HIDE DEF step, base, T
<1>4. /\ Reached(base, step, <<>>) = base
      /\ \A x \in Seq(Int) : Reached(base, step, x) \in T
      /\ \A x \in Seq(Int), c \in Int :
           Reached(base, step, Append(x, c)) = step[<<Reached(base, step, x), c>>]
  BY <1>1, ReachedByChar
<1>5. \A x \in Seq(Int), c \in Int : Append(x, c) \in Seq(Int)
  OBVIOUS
<1>6. Fts5Read(<<>>) = base
  <2>1. <<>> \in Seq(Int)
    OBVIOUS
  <2> QED BY <1>3, <1>4, <2>1
<1>7. \A x \in Seq(Int) : Fts5Read(x) \in T
  BY <1>3, <1>4
<1>8. ASSUME NEW x \in Seq(Int), NEW c \in Int
      PROVE  Fts5Read(Append(x, c)) = Fts5Next(Fts5Read(x), c)
  <2> DEFINE y == Reached(base, step, x)
  <2>1. y \in T /\ Fts5Read(x) = y
    BY <1>3, <1>4
  <2>2. Fts5Read(Append(x, c)) = Reached(base, step, Append(x, c))
    BY <1>3, <1>5
  <2>3. Reached(base, step, Append(x, c)) = step[<<y, c>>]
    BY <1>4
  <2> HIDE DEF y
  <2>4. step[<<y, c>>] = Fts5Next(y, c)
    BY <1>2, <2>1
  <2> QED BY <2>1, <2>2, <2>3, <2>4
<1> QED BY <1>6, <1>7, <1>8 DEF base, T

-----------------------------------------------------------------------------
(* Prefixes and the order of texts, position by position. *)

LEMMA SameText ==
  ASSUME NEW s \in Seq(Int), NEW t \in Seq(Int), Len(s) = Len(t),
         \A j \in 1 .. Len(s) : s[j] = t[j]
  PROVE  s = t
OBVIOUS

LEMMA FrontByPosition ==
  ASSUME NEW s \in Seq(Int), NEW n \in Nat, n <= Len(s)
  PROVE  /\ SubSeq(s, 1, n) \in Seq(Int) /\ Len(SubSeq(s, 1, n)) = n
         /\ \A j \in 1 .. n : SubSeq(s, 1, n)[j] = s[j]
OBVIOUS

LEMMA SameFront ==
  ASSUME NEW s \in Seq(Int), NEW t \in Seq(Int), NEW n \in Nat, n <= Len(s), n <= Len(t)
  PROVE  SubSeq(s, 1, n) = SubSeq(t, 1, n) <=> \A j \in 1 .. n : s[j] = t[j]
<1>1. ASSUME \A j \in 1 .. n : s[j] = t[j]  PROVE SubSeq(s, 1, n) = SubSeq(t, 1, n)
  <2> DEFINE fs == SubSeq(s, 1, n)
             ft == SubSeq(t, 1, n)
  <2>1. fs \in Seq(Int) /\ Len(fs) = n /\ \A j \in 1 .. n : fs[j] = s[j]
    BY FrontByPosition
  <2>2. ft \in Seq(Int) /\ Len(ft) = n /\ \A j \in 1 .. n : ft[j] = t[j]
    BY FrontByPosition
  <2> HIDE DEF fs, ft
  <2>3. Len(fs) = Len(ft) /\ \A j \in 1 .. Len(fs) : fs[j] = ft[j]
    BY <1>1, <2>1, <2>2
  <2>4. fs = ft
    BY <2>1, <2>2, <2>3, SameText
  <2> QED BY <2>4 DEF fs, ft
<1>2. ASSUME SubSeq(s, 1, n) = SubSeq(t, 1, n)  PROVE \A j \in 1 .. n : s[j] = t[j]
  <2>1. \A j \in 1 .. n : SubSeq(s, 1, n)[j] = s[j]
    BY FrontByPosition
  <2>2. \A j \in 1 .. n : SubSeq(t, 1, n)[j] = t[j]
    BY FrontByPosition
  <2> QED BY <1>2, <2>1, <2>2, Zenon
<1> QED
  BY <1>1, <1>2

LEMMA PrefixByPosition ==
  ASSUME NEW s \in Seq(Int), NEW t \in Seq(Int)
  PROVE  IsPrefix(s, t) <=> Len(s) <= Len(t) /\ \A j \in 1 .. Len(s) : s[j] = t[j]
BY SameFront DEF IsPrefix

\* A text is before another when it has the smaller character where the two
\* first differ, or when it ends there.
LEMMA BeforeByPosition ==
  ASSUME NEW s \in Seq(Int), NEW t \in Seq(Int)
  PROVE  Before(s, t) <=>
           \/ IsPrefix(s, t) /\ s # t
           \/ \E k \in 1 .. Len(s) :
                k <= Len(t) /\ s[k] < t[k] /\ \A j \in 1 .. k - 1 : s[j] = t[j]
<1>1. \A k : k \in DOMAIN s \cap DOMAIN t <=> k \in 1 .. Len(s) /\ k <= Len(t)
  OBVIOUS
<1>2. \A k \in 1 .. Len(s) : k <= Len(t) =>
        (SubSeq(s, 1, k - 1) = SubSeq(t, 1, k - 1) <=> \A j \in 1 .. k - 1 : s[j] = t[j])
  BY SameFront
<1> QED
  BY <1>1, <1>2 DEF Before, IsStrictPrefix

-----------------------------------------------------------------------------
(* The upper bound. *)

\* u is the key up to its last character with a successor, which replaces it.
IsBound(key, u, m) ==
  /\ m \in 1 .. Len(key) /\ IsChar(key[m] + 1)
  /\ \A k \in 1 .. Len(key) : IsChar(key[k] + 1) => k <= m
  /\ u \in Seq(Int) /\ Len(u) = m /\ u[m] = key[m] + 1
  /\ \A j \in 1 .. m - 1 : u[j] = key[j]

LEMMA UpperBound ==
  ASSUME NEW key \in Seq(Int)
  PROVE  \/ /\ \A k \in 1 .. Len(key) : ~ IsChar(key[k] + 1)
            /\ range_upper_bound(key) = None
         \/ \E m : IsBound(key, range_upper_bound(key), m)
<1> DEFINE increments == {k \in DOMAIN key : IsChar(key[k] + 1)}
           m == Max(increments)
           u == Append(SubSeq(key, 1, m - 1), key[m] + 1)
<1>1. CASE increments = {}
  BY <1>1 DEF range_upper_bound
<1>2. CASE increments # {}
  <2>1. range_upper_bound(key) = u
    BY <1>2 DEF range_upper_bound
  <2>2. Len(key) \in Nat /\ increments \subseteq 1 .. Len(key)
    OBVIOUS
  <2>3. m \in increments /\ \A y \in increments : y <= m
    <3> HIDE DEF increments
    <3> QED BY <1>2, <2>2, MaxIsGreatest
  <2>4. /\ m \in 1 .. Len(key) /\ IsChar(key[m] + 1)
        /\ \A k \in 1 .. Len(key) : IsChar(key[k] + 1) => k <= m
    <3> HIDE DEF m
    <3> QED BY <2>3
  <2>5. /\ u \in Seq(Int) /\ Len(u) = m /\ u[m] = key[m] + 1
        /\ \A j \in 1 .. m - 1 : u[j] = key[j]
    <3> HIDE DEF m
    <3>1. /\ SubSeq(key, 1, m - 1) \in Seq(Int) /\ Len(SubSeq(key, 1, m - 1)) = m - 1
          /\ \A j \in 1 .. m - 1 : SubSeq(key, 1, m - 1)[j] = key[j]
          /\ key[m] + 1 \in Int
      BY <2>4
    <3> QED BY <3>1, <2>4
  <2> HIDE DEF u, m
  <2>6. IsBound(key, u, m)
    BY <2>4, <2>5 DEF IsBound
  <2> QED BY <2>1, <2>6
<1> QED
  BY <1>1, <1>2

\* The range holds every text that begins with the key.
LEMMA RangeHoldsPrefixed ==
  ASSUME TextAssumption, NEW key \in Seq(Int), NEW s \in Seq(Int), IsPrefix(key, s)
  PROVE  InRange(s, key, range_upper_bound(key))
<1> DEFINE u == range_upper_bound(key)
<1>1. Len(key) <= Len(s) /\ \A j \in 1 .. Len(key) : s[j] = key[j]
  BY PrefixByPosition
<1>2. ~ Before(s, key)
  <2>1. ASSUME IsPrefix(s, key)  PROVE s = key
    <3>1. Len(s) <= Len(key)
      BY <2>1, PrefixByPosition
    <3>2. Len(s) = Len(key)
      BY <1>1, <3>1
    <3> QED BY <1>1, <3>2, SameText
  <2>2. \A k \in 1 .. Len(s) : k <= Len(key) => ~ (s[k] < key[k])
    BY <1>1
  <2> QED BY <2>1, <2>2, BeforeByPosition
<1>3. ASSUME u # None  PROVE Before(s, u)
  <2>1. PICK m : IsBound(key, u, m)
    BY <1>3, UpperBound
  <2> HIDE DEF u
  <2>2. /\ m \in 1 .. Len(s) /\ m <= Len(u) /\ s[m] < u[m]
        /\ \A j \in 1 .. m - 1 : s[j] = u[j]
    BY <1>1, <2>1 DEF IsBound
  <2>3. u \in Seq(Int)
    BY <2>1 DEF IsBound
  <2> QED BY <2>2, <2>3, BeforeByPosition
<1> QED
  BY <1>2, <1>3 DEF InRange

\* A text of the range begins with the key, if every character of the key but
\* char::MAX has a successor.
LEMMA RangeHoldsNothingElse ==
  ASSUME TextAssumption, NEW key, Text(key), NEW s, Text(s),
         \A k \in DOMAIN key : ~ BeforeGap(key[k]),
         InRange(s, key, range_upper_bound(key))
  PROVE  IsPrefix(key, s)
<1> DEFINE u == range_upper_bound(key)
           D == {k \in 1 .. Len(key) : k <= Len(s) /\ s[k] # key[k]}
<1>1. key \in Seq(Int) /\ s \in Seq(Int)
  BY DEF Text
<1>2. ~ Before(s, key) /\ (u # None => Before(s, u))
  BY DEF InRange
<1>3. CASE D = {}
  <2>1. ASSUME Len(s) < Len(key)  PROVE FALSE
    <3>1. IsPrefix(s, key)
      <4>1. \A j \in 1 .. Len(s) : s[j] = key[j]
        <5>1. SUFFICES ASSUME NEW j \in 1 .. Len(s), s[j] # key[j]  PROVE FALSE
          OBVIOUS
        <5>2. j \in 1 .. Len(key) /\ j <= Len(s)
          BY <1>1, <2>1
        <5>3. j \in D
          BY <5>1, <5>2
        <5> QED BY <1>3, <5>3
      <4> HIDE DEF D
      <4> QED BY <1>1, <2>1, <4>1, PrefixByPosition
    <3>2. s # key
      BY <2>1
    <3> QED BY <1>1, <1>2, <3>1, <3>2, BeforeByPosition
  <2>2. Len(key) <= Len(s) /\ \A j \in 1 .. Len(key) : s[j] = key[j]
    BY <1>1, <1>3, <2>1
  <2> QED BY <1>1, <2>2, PrefixByPosition
<1>4. CASE D # {}
  <2>1. PICK k \in D : \A j \in D : k <= j
    <3>1. D \subseteq Nat
      BY <1>1
    <3> HIDE DEF D
    <3> QED BY <1>4, <3>1, First
  <2>2. /\ k \in 1 .. Len(key) /\ k \in 1 .. Len(s) /\ s[k] # key[k]
        /\ \A j \in 1 .. k - 1 : s[j] = key[j]
    <3>1. k \in 1 .. Len(key) /\ k \in 1 .. Len(s) /\ s[k] # key[k]
      BY <1>1, <2>1
    <3>2. SUFFICES ASSUME NEW j \in 1 .. k - 1, s[j] # key[j]  PROVE FALSE
      BY <3>1
    <3>3. j \in D
      BY <1>1, <3>1, <3>2
    <3> HIDE DEF D
    <3> QED BY <2>1, <3>1, <3>2, <3>3
  <2>3. key[k] < s[k]
    <3>1. ~ (s[k] < key[k])
      BY <1>1, <1>2, <2>2, BeforeByPosition
    <3> QED BY <1>1, <2>2, <3>1
  <2>4. IsChar(key[k] + 1)
    <3>1. s[k] \in Int /\ key[k] \in Int /\ s[k] <= MaxChar /\ ~ BeforeGap(key[k])
      BY <1>1, <2>2 DEF Text, IsChar
    <3> QED BY <2>3, <3>1 DEF BeforeGap, MaxChar
  <2>5. PICK m : IsBound(key, u, m)
    BY <1>1, <2>2, <2>4, UpperBound
  <2> HIDE DEF u, D
  <2>6. /\ u \in Seq(Int) /\ m \in 1 .. Len(key) /\ k <= m /\ Len(u) = m
        /\ u[m] = key[m] + 1 /\ \A j \in 1 .. m - 1 : u[j] = key[j]
    BY <2>2, <2>4, <2>5 DEF IsBound
  <2>7. Before(s, u)
    <3>1. u # None
      BY <2>6 DEF TextAssumption
    <3> QED BY <1>2, <3>1
  <2>8. u[k] <= s[k] /\ (k < m => u[k] < s[k])
    <3>1. s[k] \in Int /\ key[k] \in Int /\ k \in Int /\ m \in Int
      BY <1>1, <2>2, <2>6
    <3>2. CASE k = m
      BY <2>3, <2>6, <3>1, <3>2
    <3>3. CASE k < m
      <4>1. k \in 1 .. m - 1
        BY <2>2, <3>1, <3>3
      <4>2. u[k] = key[k]
        BY <2>6, <4>1
      <4> QED BY <2>3, <3>1, <4>2
    <3> QED BY <2>6, <3>1, <3>2, <3>3
  <2>9. ~ (IsPrefix(s, u) /\ s # u)
    <3>1. SUFFICES ASSUME IsPrefix(s, u)  PROVE s = u
      OBVIOUS
    <3>2. Len(s) <= Len(u) /\ \A j \in 1 .. Len(s) : s[j] = u[j]
      BY <1>1, <2>6, <3>1, PrefixByPosition
    <3>3. k = m
      BY <2>2, <2>6, <2>8, <3>2
    <3> QED BY <1>1, <2>2, <2>6, <3>2, <3>3, SameText
  <2>10. PICK i \in 1 .. Len(s) :
           i <= Len(u) /\ s[i] < u[i] /\ \A j \in 1 .. i - 1 : s[j] = u[j]
    BY <1>1, <2>6, <2>7, <2>9, BeforeByPosition
  <2>11. CASE i < k
    <3>1. i \in 1 .. k - 1 /\ i \in 1 .. m - 1
      BY <2>2, <2>6, <2>10, <2>11
    <3>2. s[i] = key[i] /\ u[i] = key[i]
      BY <2>2, <2>6, <3>1
    <3> QED BY <1>1, <2>10, <3>2
  <2>12. CASE i = k
    BY <1>1, <2>2, <2>6, <2>8, <2>10, <2>12
  <2>13. CASE k < i
    <3>1. k \in 1 .. i - 1 /\ k < m
      BY <2>2, <2>6, <2>10, <2>13
    <3>2. s[k] = u[k] /\ u[k] < s[k]
      BY <2>8, <2>10, <3>1
    <3> QED BY <1>1, <2>2, <3>2
  <2> QED BY <2>2, <2>10, <2>11, <2>12, <2>13
<1> QED
  BY <1>3, <1>4

-----------------------------------------------------------------------------
(* What LIKE and FTS5 make of a quoted text. *)

\* FTS5 reads the text back that fts5_phrase() was given, quotes and all.
LEMMA PhraseReadBack ==
  ASSUME NEW q \in Seq(Int)
  PROVE  Fts5String(fts5_phrase(q)) = q
<1> DEFINE Back(x) == [text |-> x, odd |-> FALSE, ended |-> FALSE]
           P == {x \in Seq(Int) : Fts5Read(doubled(x)) = Back(x)}
<1>1. <<>> \in P
  BY DoubledByChar, Fts5ReadByChar
<1>2. ASSUME NEW x \in Seq(Int), NEW c \in Int, x \in P PROVE Append(x, c) \in P
  <2> DEFINE d == doubled(x)
  <2>1. d \in Seq(Int) /\ Fts5Read(d) = Back(x) /\ Append(x, c) \in Seq(Int)
    BY <1>2, DoubledByChar
  <2>2. doubled(Append(x, c)) = d \o Doubled(c)
    BY DoubledByChar
  <2> HIDE DEF d
  <2>3. CASE c = Quote
    <3> DEFINE e == Append(d, Quote)
    <3>1. e \in Seq(Int) /\ Quote \in Int /\ d \o Doubled(c) = Append(e, Quote)
      BY <2>1, <2>3 DEF Doubled, Quote
    <3>2. Fts5Read(e) = Fts5Next(Back(x), Quote)
      BY <2>1, <3>1, Fts5ReadByChar
    <3>3. Fts5Read(e) = [text |-> x, odd |-> TRUE, ended |-> FALSE]
      BY <3>2 DEF Fts5Next
    <3> HIDE DEF e
    <3>4. Fts5Read(Append(e, Quote)) = Fts5Next(Fts5Read(e), Quote)
      BY <3>1, Fts5ReadByChar
    <3> DEFINE z == [text |-> x, odd |-> TRUE, ended |-> FALSE]
    <3>5. z.text = x /\ z.odd /\ ~z.ended
      OBVIOUS
    <3> HIDE DEF z
    <3>6. Fts5Next(z, Quote) = Back(Append(x, Quote))
      BY <3>5, Zenon DEF Fts5Next
    <3>7. Fts5Read(Append(e, Quote)) = Back(Append(x, c))
      BY <2>3, <3>3, <3>4, <3>6 DEF z
    <3> QED BY <2>1, <2>2, <3>1, <3>7
  <2>4. CASE c # Quote
    <3>1. d \o Doubled(c) = Append(d, c)
      BY <2>1, <2>4 DEF Doubled
    <3>2. Fts5Read(Append(d, c)) = Fts5Next(Back(x), c)
      BY <2>1, Fts5ReadByChar
    <3>3. Fts5Read(Append(d, c)) = Back(Append(x, c))
      BY <2>4, <3>2 DEF Fts5Next
    <3> QED BY <2>1, <2>2, <3>1, <3>3
  <2> QED BY <2>3, <2>4
<1>3. q \in P
  <2> HIDE DEF P
  <2> QED BY <1>1, <1>2, TextInduction
<1> DEFINE d == doubled(q)
           expr == fts5_phrase(q)
<1>4. d \in Seq(Int)
  BY DoubledByChar
<1>5. SubSeq(expr, 2, Len(expr) - 1) = d
  <2> HIDE DEF d
  <2> DEFINE e == <<Quote>> \o d \o <<Quote>>
  <2>1. e \in Seq(Int) /\ Len(e) = Len(d) + 2 /\ \A k \in 1 .. Len(d) : e[k + 1] = d[k]
    BY <1>4 DEF Quote
  <2>2. expr = e
    BY DEF fts5_phrase, d
  <2> HIDE DEF e
  <2>3. Len(e) - 1 = Len(d) + 1 /\ Len(d) \in Nat
    BY <1>4, <2>1
  <2>4. SubSeq(e, 2, Len(d) + 1) \in Seq(Int) /\ Len(SubSeq(e, 2, Len(d) + 1)) = Len(d)
    BY <2>1, <2>3
  <2>5. \A k \in 1 .. Len(d) : SubSeq(e, 2, Len(d) + 1)[k] = d[k]
    BY <2>1, <2>3
  <2> QED BY <1>4, <2>2, <2>3, <2>4, <2>5, SameText
<1>6. Fts5Read(d) = Back(q)
  BY <1>3
<1> HIDE DEF expr, d
<1>7. Fts5Read(SubSeq(expr, 2, Len(expr) - 1)) = Back(q)
  BY <1>5, <1>6
<1> DEFINE z == Back(q)
<1>8. z.text = q /\ ~z.odd /\ ~z.ended
  OBVIOUS
<1> HIDE DEF z
<1> QED BY <1>7, <1>8, Zenon DEF Fts5String, expr, z

\* The ends of the pieces of s that are x but for the case of ASCII letters.
Ends(x, s) ==
  {k \in 0 .. Len(s) :
     Len(x) <= k /\ \A j \in 1 .. Len(x) : AsciiFold(s[(k - Len(x)) + j]) = AsciiFold(x[j])}

LEMMA EndsByChar ==
  ASSUME NEW x \in Seq(Int), NEW c \in Int, NEW s \in Seq(Int)
  PROVE  /\ Ends(<<>>, s) = 0 .. Len(s)
         /\ Ends(Append(x, c), s) =
              {j \in {k + 1 : k \in {e \in Ends(x, s) : e < Len(s)}} : AsciiFold(s[j]) = AsciiFold(c)}
<1>1. Ends(<<>>, s) = 0 .. Len(s)
  BY DEF Ends
<1> DEFINE y == Append(x, c)
           n == Len(x)
           R == {j \in {k + 1 : k \in {e \in Ends(x, s) : e < Len(s)}} : AsciiFold(s[j]) = AsciiFold(c)}
<1>2. n \in Nat /\ Len(y) = n + 1 /\ y[n + 1] = c /\ \A j \in 1 .. n : y[j] = x[j]
  OBVIOUS
<1> HIDE DEF y
<1>3. ASSUME NEW k \in Ends(y, s) PROVE k \in R
  <2>1. k \in 1 .. Len(s) /\ n <= k - 1 /\ k - 1 \in 0 .. Len(s) /\ k - 1 < Len(s) /\ k = (k - 1) + 1
    BY <1>2 DEF Ends
  <2>2. \A j \in 1 .. n + 1 : AsciiFold(s[(k - (n + 1)) + j]) = AsciiFold(y[j])
    BY <1>2 DEF Ends
  <2>3. AsciiFold(s[k]) = AsciiFold(c)
    <3>1. n + 1 \in 1 .. n + 1 /\ (k - (n + 1)) + (n + 1) = k
      BY <1>2, <2>1
    <3> QED BY <1>2, <2>2, <3>1
  <2>4. ASSUME NEW j \in 1 .. n PROVE AsciiFold(s[((k - 1) - n) + j]) = AsciiFold(x[j])
    <3>1. j \in 1 .. n + 1 /\ (k - (n + 1)) + j = ((k - 1) - n) + j
      BY <1>2, <2>1
    <3> QED BY <1>2, <2>2, <3>1
  <2>5. k - 1 \in Ends(x, s)
    BY <2>1, <2>4 DEF Ends
  <2> QED BY <2>1, <2>3, <2>5
<1>4. ASSUME NEW k \in R PROVE k \in Ends(y, s)
  <2>1. PICK e \in Ends(x, s) : e < Len(s) /\ k = e + 1
    OBVIOUS
  <2>2. /\ e \in 0 .. Len(s) /\ n <= e /\ AsciiFold(s[k]) = AsciiFold(c)
        /\ \A j \in 1 .. n : AsciiFold(s[(e - n) + j]) = AsciiFold(x[j])
    BY DEF Ends
  <2>3. k \in 0 .. Len(s) /\ n + 1 <= k
    BY <1>2, <2>1, <2>2
  <2>4. ASSUME NEW j \in 1 .. n + 1 PROVE AsciiFold(s[(k - (n + 1)) + j]) = AsciiFold(y[j])
    <3>1. CASE j = n + 1
      <4>1. (k - (n + 1)) + j = k
        BY <1>2, <2>1, <2>2, <3>1
      <4> QED BY <1>2, <2>2, <3>1, <4>1
    <3>2. CASE j \in 1 .. n
      <4>1. (k - (n + 1)) + j = (e - n) + j
        BY <1>2, <2>1, <2>2
      <4> QED BY <1>2, <2>2, <3>2, <4>1
    <3> QED BY <1>2, <3>1, <3>2
  <2> QED BY <1>2, <2>3, <2>4 DEF Ends
<1>5. Ends(y, s) = R
  <2> HIDE DEF R
  <2> QED BY <1>3, <1>4
<1> QED BY <1>1, <1>5 DEF y

LEMMA LikeNextCases ==
  ASSUME NEW A, NEW c, NEW s
  PROVE  /\ c = Backslash =>
              LikeNext([at |-> A, escaped |-> FALSE], c, s) = [at |-> A, escaped |-> TRUE]
         /\ c = Percent =>
              LikeNext([at |-> A, escaped |-> FALSE], c, s) = [at |-> LikeAny(A, s), escaped |-> FALSE]
         /\ c \notin {Backslash, Percent, Underscore} =>
              LikeNext([at |-> A, escaped |-> FALSE], c, s) = [at |-> LikeSame(A, c, s), escaped |-> FALSE]
         /\ LikeNext([at |-> A, escaped |-> TRUE], c, s) = [at |-> LikeSame(A, c, s), escaped |-> FALSE]
<1> DEFINE u == [at |-> A, escaped |-> FALSE]
           v == [at |-> A, escaped |-> TRUE]
<1>1. u.at = A /\ ~u.escaped /\ v.at = A /\ v.escaped
  OBVIOUS
<1>2. Percent # Backslash /\ Percent # Underscore /\ Backslash # Underscore
  BY DEF Percent, Backslash, Underscore
<1> HIDE DEF u, v
<1>3. c = Backslash => LikeNext(u, c, s) = [at |-> A, escaped |-> TRUE]
  BY <1>1, <1>2 DEF LikeNext
<1>4. c = Percent => LikeNext(u, c, s) = [at |-> LikeAny(A, s), escaped |-> FALSE]
  BY <1>1, <1>2 DEF LikeNext
<1>5. c \notin {Backslash, Percent, Underscore} =>
        LikeNext(u, c, s) = [at |-> LikeSame(A, c, s), escaped |-> FALSE]
  BY <1>1 DEF LikeNext
<1>6. LikeNext(v, c, s) = [at |-> LikeSame(A, c, s), escaped |-> FALSE]
  BY <1>1 DEF LikeNext
<1> QED BY <1>3, <1>4, <1>5, <1>6 DEF u, v

LEMMA TwoMore ==
  ASSUME NEW p \in Seq(Int), NEW a \in Int, NEW b \in Int
  PROVE  Append(p, a) \in Seq(Int) /\ p \o <<a, b>> = Append(Append(p, a), b)
OBVIOUS

LEMMA JoinedText ==
  ASSUME NEW a \in Seq(Int), NEW b \in Seq(Int), NEW e \in Seq(Int)
  PROVE  a \o (b \o e) = (a \o b) \o e
<1> DEFINE s == a \o (b \o e)
           t == (a \o b) \o e
<1>1. s \in Seq(Int) /\ t \in Seq(Int) /\ Len(s) = Len(t)
  OBVIOUS
<1>2. ASSUME NEW j \in 1 .. Len(s) PROVE s[j] = t[j]
  <2>1. CASE j \in 1 .. Len(a)
    BY <2>1
  <2>2. CASE j \in Len(a) + 1 .. Len(a) + Len(b)
    BY <2>2
  <2>3. CASE j > Len(a) + Len(b)
    BY <2>3
  <2> QED BY <2>1, <2>2, <2>3
<1> HIDE DEF s, t
<1>3. s = t
  BY <1>1, <1>2, SameText
<1> QED BY <1>3 DEF s, t

\* '%' || escape_like(q)
AfterPercent(q) == <<Percent>> \o escape_like(q)

LEMMA AfterPercentByChar ==
  /\ AfterPercent(<<>>) = Append(<<>>, Percent)
  /\ \A x \in Seq(Int) : AfterPercent(x) \in Seq(Int)
  /\ \A x \in Seq(Int), c \in Int : AfterPercent(Append(x, c)) = AfterPercent(x) \o Escaped(c)
<1>1. <<Percent>> \in Seq(Int) /\ <<Percent>> \o <<>> = Append(<<>>, Percent)
  BY DEF Percent
<1>2. AfterPercent(<<>>) = Append(<<>>, Percent)
  BY <1>1, EscapedByChar DEF AfterPercent
<1>3. ASSUME NEW x \in Seq(Int) PROVE AfterPercent(x) \in Seq(Int)
  BY <1>1, EscapedByChar DEF AfterPercent
<1>4. ASSUME NEW x \in Seq(Int), NEW c \in Int
      PROVE  AfterPercent(Append(x, c)) = AfterPercent(x) \o Escaped(c)
  <2>1. escape_like(x) \in Seq(Int) /\ Escaped(c) \in Seq(Int)
    BY EscapedByChar DEF Escaped, Backslash
  <2>2. escape_like(Append(x, c)) = escape_like(x) \o Escaped(c)
    BY EscapedByChar
  <2>3. <<Percent>> \o (escape_like(x) \o Escaped(c)) = (<<Percent>> \o escape_like(x)) \o Escaped(c)
    <3> DEFINE a == <<Percent>>
               b == escape_like(x)
               e == Escaped(c)
    <3>1. a \in Seq(Int) /\ b \in Seq(Int) /\ e \in Seq(Int)
      BY <1>1, <2>1
    <3> HIDE DEF a, b, e
    <3>2. a \o (b \o e) = (a \o b) \o e
      BY <3>1, JoinedText, SMTT(30)
    <3> QED BY <3>2 DEF a, b, e
  <2> QED BY <2>2, <2>3 DEF AfterPercent
<1> QED BY <1>2, <1>3, <1>4

\* Read after a %, a text that escape_like() escaped stands for the text alone,
\* wherever it begins.
LEMMA EscapedReadBack ==
  ASSUME NEW q \in Seq(Int), NEW s \in Seq(Int)
  PROVE  LikeRead(AfterPercent(q), s) = [at |-> Ends(q, s), escaped |-> FALSE]
<1> DEFINE P == {x \in Seq(Int) : LikeRead(AfterPercent(x), s) = [at |-> Ends(x, s), escaped |-> FALSE]}
<1>1. Percent \in Int /\ Backslash \in Int
  BY DEF Percent, Backslash
<1>2. <<>> \in P
  <2>1. <<>> \in Seq(Int)
    OBVIOUS
  <2>2. LikeRead(Append(<<>>, Percent), s) = LikeNext([at |-> {0}, escaped |-> FALSE], Percent, s)
    BY <1>1, <2>1, LikeReadByChar
  <2>3. LikeAny({0}, s) = 0 .. Len(s)
    BY DEF LikeAny
  <2>4. Ends(<<>>, s) = 0 .. Len(s)
    BY <1>1, <2>1, EndsByChar
  <2>5. LikeRead(Append(<<>>, Percent), s) = [at |-> LikeAny({0}, s), escaped |-> FALSE]
    BY <2>2, LikeNextCases
  <2> QED BY <2>1, <2>3, <2>4, <2>5, AfterPercentByChar
<1>3. ASSUME NEW x \in Seq(Int), NEW c \in Int, x \in P PROVE Append(x, c) \in P
  <2> DEFINE p == AfterPercent(x)
             A == Ends(x, s)
             B == LikeSame(A, c, s)
  <2>1. p \in Seq(Int) /\ LikeRead(p, s) = [at |-> A, escaped |-> FALSE] /\ Append(x, c) \in Seq(Int)
    BY <1>3, AfterPercentByChar
  <2>2. AfterPercent(Append(x, c)) = p \o Escaped(c)
    BY AfterPercentByChar
  <2>3. Ends(Append(x, c), s) = B
    BY EndsByChar DEF LikeSame, LikeOne
  <2> HIDE DEF p, A
  <2>4. CASE c \in {Backslash, Percent, Underscore}
    <3> DEFINE b == Append(p, Backslash)
    <3>1. Escaped(c) = <<Backslash, c>>
      BY <2>4 DEF Escaped
    <3>2. b \in Seq(Int) /\ p \o Escaped(c) = Append(b, c)
      BY <1>1, <2>1, <3>1, TwoMore
    <3>3. LikeRead(b, s) = LikeNext([at |-> A, escaped |-> FALSE], Backslash, s)
      BY <1>1, <2>1, LikeReadByChar, Zenon
    <3>4. LikeRead(b, s) = [at |-> A, escaped |-> TRUE]
      BY <3>3, LikeNextCases
    <3> HIDE DEF b
    <3>5. LikeRead(Append(b, c), s) = LikeNext([at |-> A, escaped |-> TRUE], c, s)
      BY <3>2, <3>4, LikeReadByChar
    <3>6. LikeRead(Append(b, c), s) = [at |-> B, escaped |-> FALSE]
      BY <3>5, LikeNextCases
    <3> QED BY <2>1, <2>2, <2>3, <3>2, <3>6
  <2>5. CASE c \notin {Backslash, Percent, Underscore}
    <3>1. p \o Escaped(c) = Append(p, c)
      BY <2>1, <2>5 DEF Escaped
    <3>2. LikeRead(Append(p, c), s) = LikeNext([at |-> A, escaped |-> FALSE], c, s)
      BY <2>1, LikeReadByChar
    <3>3. LikeRead(Append(p, c), s) = [at |-> B, escaped |-> FALSE]
      BY <2>5, <3>2, LikeNextCases
    <3> QED BY <2>1, <2>2, <2>3, <3>1, <3>3
  <2> QED BY <2>4, <2>5
<1>4. q \in P
  <2> HIDE DEF P
  <2> QED BY <1>2, <1>3, TextInduction
<1> QED BY <1>4

\* norm LIKE '%' || escape_like(q) || '%' asks whether q occurs, but for case.
LEMMA InfixOccurs ==
  ASSUME NEW q \in Seq(Int), NEW s \in Seq(Int)
  PROVE  LikeInfix(q, s) <=> Ends(q, s) # {}
<1> DEFINE p == AfterPercent(q)
           A == Ends(q, s)
           w == [at |-> LikeAny(A, s), escaped |-> FALSE]
<1>1. Percent \in Int
  BY DEF Percent
<1>2. p \in Seq(Int) /\ LikeRead(p, s) = [at |-> A, escaped |-> FALSE]
  BY AfterPercentByChar, EscapedReadBack
<1>3. LikeInfix(q, s) <=> Like(p \o <<Percent>>, s)
  BY DEF LikeInfix, AfterPercent
<1>4. Len(s) \in LikeAny(A, s) <=> A # {}
  <2>1. Len(s) \in 0 .. Len(s) /\ \A e \in A : e <= Len(s)
    BY DEF Ends
  <2> HIDE DEF A
  <2> QED BY <2>1 DEF LikeAny
<1>5. w.at = LikeAny(A, s) /\ ~w.escaped
  OBVIOUS
<1> HIDE DEF p, A, w
<1>6. p \o <<Percent>> = Append(p, Percent)
  BY <1>1, <1>2
<1>7. LikeRead(Append(p, Percent), s) = LikeNext([at |-> A, escaped |-> FALSE], Percent, s)
  BY <1>1, <1>2, LikeReadByChar
<1>8. LikeRead(Append(p, Percent), s) = w
  BY <1>7, LikeNextCases DEF w
<1>9. Like(Append(p, Percent), s) <=> Len(s) \in LikeAny(A, s)
  BY <1>5, <1>8, Zenon DEF Like
<1> QED BY <1>3, <1>4, <1>6, <1>9 DEF A

LEMMA FoldedText ==
  ASSUME NEW s \in Seq(Int)
  PROVE  /\ Folded(s) \in Seq(Int) /\ Len(Folded(s)) = Len(s)
         /\ \A k \in 1 .. Len(s) : Folded(s)[k] = UnicodeFold(s[k])
BY DEF Folded, UnicodeFold, AsciiFold

LEMMA OccursByPosition ==
  ASSUME NEW q \in Seq(Int), NEW s \in Seq(Int), NEW k \in 1 .. Len(s) + 1
  PROVE  OccursAt(q, s, k) <=> /\ (k + Len(q)) - 1 <= Len(s)
                               /\ \A j \in 1 .. Len(q) : s[(k - 1) + j] = q[j]
<1> DEFINE n == Len(q)
           t == SubSeq(s, k, (k + n) - 1)
<1>1. SUFFICES ASSUME (k + n) - 1 <= Len(s)
               PROVE  t = q <=> \A j \in 1 .. n : s[(k - 1) + j] = q[j]
  BY DEF OccursAt
<1>2. t \in Seq(Int) /\ Len(t) = n /\ \A j \in 1 .. n : t[j] = s[(k - 1) + j]
  <2> DEFINE m == (k + n) - 1
  <2>1. n \in Nat /\ k \in Nat /\ m \in Nat /\ (m - k) + 1 = n /\ k <= m + 1 /\ m <= Len(s)
    BY <1>1
  <2>2. t \in Seq(Int)
    BY <1>1
  <2> HIDE DEF m
  <2>3. \A j \in 1 .. n : (k + j) - 1 \in 1 .. Len(s) /\ (k + j) - 1 = (k - 1) + j
    BY <2>1
  <2>4. Len(t) = n /\ \A j \in 1 .. n : t[j] = s[(k + j) - 1]
    BY <2>1 DEF m
  <2> QED BY <2>2, <2>3, <2>4
<1> HIDE DEF t
<1> QED BY <1>2, SameText

LEMMA FoldsAgree ==
  ASSUME NEW c \in Int, NEW d \in Int, AsciiFold(c) = AsciiFold(d)
  PROVE  UnicodeFold(c) = UnicodeFold(d)
BY DEF UnicodeFold, AsciiFold

\* A text that occurs is found by LIKE, and what LIKE finds occurs but for case.
LEMMA InfixIsLiteral ==
  ASSUME NEW q \in Seq(Int), NEW s \in Seq(Int)
  PROVE  /\ Has(s, q) => LikeInfix(q, s)
         /\ LikeInfix(q, s) => Has(Folded(s), Folded(q))
         /\ Has(s, q) => Has(Folded(s), Folded(q))
<1> DEFINE n == Len(q)
<1>1. ASSUME Has(s, q) PROVE LikeInfix(q, s)
  <2>1. PICK k \in 1 .. Len(s) + 1 : OccursAt(q, s, k)
    BY <1>1 DEF Has
  <2>2. (k + n) - 1 <= Len(s) /\ \A j \in 1 .. n : s[(k - 1) + j] = q[j]
    BY <2>1, OccursByPosition
  <2> DEFINE e == (k + n) - 1
  <2>3. e \in 0 .. Len(s) /\ n <= e /\ e - n = k - 1
    BY <2>2
  <2> HIDE DEF e
  <2>4. e \in Ends(q, s)
    BY <2>2, <2>3 DEF Ends
  <2> QED BY <2>4, InfixOccurs
<1>2. ASSUME LikeInfix(q, s) PROVE Has(Folded(s), Folded(q))
  <2>1. PICK e \in Ends(q, s) : TRUE
    BY <1>2, InfixOccurs
  <2>2. /\ e \in 0 .. Len(s) /\ n <= e
        /\ \A j \in 1 .. n : AsciiFold(s[(e - n) + j]) = AsciiFold(q[j])
    BY DEF Ends
  <2> DEFINE k == (e - n) + 1
  <2>3. k \in 1 .. Len(s) + 1 /\ (k + n) - 1 <= Len(s) /\ k - 1 = e - n
    BY <2>2
  <2> HIDE DEF k
  <2>4. ASSUME NEW j \in 1 .. n PROVE Folded(s)[(k - 1) + j] = Folded(q)[j]
    <3>1. (k - 1) + j \in 1 .. Len(s)
      BY <2>3
    <3>2. AsciiFold(s[(k - 1) + j]) = AsciiFold(q[j])
      BY <2>2, <2>3, Zenon
    <3>3. UnicodeFold(s[(k - 1) + j]) = UnicodeFold(q[j])
      <4>1. s[(k - 1) + j] \in Int /\ q[j] \in Int
        BY <3>1
      <4> QED BY <3>2, <4>1, FoldsAgree
    <3> QED BY <3>1, <3>3, FoldedText
  <2>5. OccursAt(Folded(q), Folded(s), k)
    <3>1. /\ Folded(q) \in Seq(Int) /\ Folded(s) \in Seq(Int) /\ Len(Folded(s)) = Len(s)
          /\ Len(Folded(q)) = n
      BY FoldedText
    <3> QED BY <2>3, <2>4, <3>1, OccursByPosition
  <2> QED BY <2>3, <2>5, FoldedText DEF Has
<1> QED BY <1>1, <1>2

\* docs MATCH fts5_phrase(q) finds the texts that have q in them, but for case.
LEMMA MatchIsLiteral ==
  ASSUME TextAssumption, NEW q \in Seq(Int), Len(q) >= 3
  PROVE  Fts5Match(fts5_phrase(q)) = {s \in index : Has(Folded(s), Folded(q))}
<1>1. q # None
  BY DEF TextAssumption
<1> QED BY <1>1, PhraseReadBack DEF Fts5Match

\* Sets of trigrams that are similar enough have one in common.
LEMMA SimilarShare ==
  ASSUME NEW a, NEW b, IsFiniteSet(a), IsFiniteSet(b), Similar(a, b)
  PROVE  a \cap b # {}
<1>1. IsFiniteSet(a \cup b) /\ a \cup b # {}
  BY FS_Union DEF Similar
<1>2. Cardinality(a \cup b) \in Nat /\ Cardinality(a \cup b) # 0
  BY <1>1, FS_CardinalityType, FS_EmptySet
<1>3. a \cap b = {} => Cardinality(a \cap b) = 0
  BY FS_EmptySet
<1> QED BY <1>2, <1>3 DEF Similar

LEMMA TrigramsOf ==
  ASSUME NEW s \in Seq(Int)
  PROVE  /\ IsFiniteSet(trigrams(s))
         /\ \A t \in trigrams(s) : t \in Seq(Int) /\ Len(t) = 3 /\ Has(s, t)
<1>1. IsFiniteSet(trigrams(s))
  <2> DEFINE K == 1 .. Len(s) - 2
             f == [k \in K |-> SubSeq(s, k, k + 2)]
  <2>1. IsFiniteSet(K)
    BY FS_Interval
  <2>2. f \in Surjection(K, trigrams(s))
    BY DEF trigrams, Surjection
  <2> HIDE DEF K, f
  <2> QED BY <2>1, <2>2, FS_Surjection
<1>2. ASSUME NEW t \in trigrams(s) PROVE t \in Seq(Int) /\ Len(t) = 3 /\ Has(s, t)
  <2>1. PICK k \in 1 .. Len(s) - 2 : t = SubSeq(s, k, k + 2)
    BY DEF trigrams
  <2>2. k \in 1 .. Len(s) + 1 /\ k + 2 <= Len(s) /\ (k + 3) - 1 = k + 2
    OBVIOUS
  <2>3. t \in Seq(Int) /\ Len(t) = 3
    BY <2>1, <2>2
  <2>4. OccursAt(t, s, k)
    <3>1. (k + Len(t)) - 1 = k + 2
      BY <2>2, <2>3
    <3> QED BY <2>1, <2>2, <3>1 DEF OccursAt
  <2> QED BY <2>2, <2>3, <2>4 DEF Has
<1> QED BY <1>1, <1>2

\* Whatever is similar to the query is among the candidates.
LEMMA CandidatesSuffice ==
  ASSUME TextAssumption, NEW q \in Seq(Int), NEW s \in Seq(Int), s \in index,
         Similar(trigrams(q), trigrams(s))
  PROVE  s \in Candidates(q)
<1>1. PICK t \in trigrams(q) : t \in trigrams(s)
  BY SimilarShare, TrigramsOf
<1>2. t \in Seq(Int) /\ Len(t) = 3 /\ Has(s, t)
  BY <1>1, TrigramsOf
<1>3. Has(Folded(s), Folded(t))
  BY <1>2, InfixIsLiteral
<1>4. s \in Fts5Match(fts5_phrase(t))
  <2>1. Len(t) >= 3
    BY <1>2
  <2>2. Fts5Match(fts5_phrase(t)) = {u \in index : Has(Folded(u), Folded(t))}
    BY <1>2, <2>1, MatchIsLiteral, Zenon
  <2> QED BY <1>3, <2>2
<1> QED BY <1>1, <1>4 DEF Candidates

-----------------------------------------------------------------------------
(* Places and words, edit by edit. *)

\* What PlacesAfter() and Edited() are the last value of.
PlacesUpto(g, q, w, swap, n) ==
  g = [m \in 0 .. n |->
         Alike(q, w, IF m = 0 THEN {Start} ELSE OneEditMore(q, w, swap, g[m - 1]))]

EditedOnce(S, swap) == S \cup UNION {OneEdit(u, swap) : u \in S}

WordsUpto(g, w, swap, n) ==
  g = [m \in 0 .. n |->
         IF m = 0 THEN {w} ELSE EditedOnce(g[m - 1], swap)]

LEMMA PlacesClimb ==
  ASSUME NEW q, NEW w, NEW swap, NEW n \in Nat, NEW g, PlacesUpto(g, q, w, swap, n)
  PROVE  /\ g[0] = Alike(q, w, {Start})
         /\ \A m \in 0 .. n - 1 : g[m + 1] = Alike(q, w, OneEditMore(q, w, swap, g[m]))
<1> DEFINE u(m) == Alike(q, w, IF m = 0 THEN {Start} ELSE OneEditMore(q, w, swap, g[m - 1]))
<1>1. g = [m \in 0 .. n |-> u(m)]
  BY DEF PlacesUpto
<1> HIDE DEF u
<1>2. \A m \in 0 .. n : g[m] = u(m)
  BY <1>1
<1>3. u(0) = Alike(q, w, {Start})
  BY DEF u
<1>4. ASSUME NEW m \in 0 .. n - 1 PROVE u(m + 1) = Alike(q, w, OneEditMore(q, w, swap, g[m]))
  <2>1. m + 1 # 0 /\ (m + 1) - 1 = m
    OBVIOUS
  <2> QED BY <2>1 DEF u
<1> QED BY <1>2, <1>3, <1>4

LEMMA PlacesUptoExist ==
  ASSUME NEW q, NEW w, NEW swap, NEW n \in Nat
  PROVE  \E g : PlacesUpto(g, q, w, swap, n)
<1> DEFINE S == {k \in Nat : \E g : PlacesUpto(g, q, w, swap, k)}
<1>1. 0 \in S
  <2> DEFINE base == Alike(q, w, {Start})
             g == [m \in 0 .. 0 |-> base]
  <2>1. g = [m \in 0 .. 0 |-> Alike(q, w, IF m = 0 THEN {Start} ELSE OneEditMore(q, w, swap, g[m - 1]))]
    <3> DEFINE v(m) == OneEditMore(q, w, swap, g[m - 1])
    <3> HIDE DEF v
    <3>1. g = [m \in 0 .. 0 |-> Alike(q, w, IF m = 0 THEN {Start} ELSE v(m))]
      OBVIOUS
    <3> QED BY <3>1 DEF v
  <2> HIDE DEF g
  <2>2. PlacesUpto(g, q, w, swap, 0)
    BY <2>1 DEF PlacesUpto
  <2> QED BY <2>2
<1>2. ASSUME NEW k \in Nat, k \in S PROVE k + 1 \in S
  <2>1. PICK g : PlacesUpto(g, q, w, swap, k)
    BY <1>2
  <2> DEFINE last == Alike(q, w, OneEditMore(q, w, swap, g[k]))
             h == [m \in 0 .. k + 1 |-> IF m = k + 1 THEN last ELSE g[m]]
  <2>2. /\ g[0] = Alike(q, w, {Start})
        /\ \A m \in 0 .. k - 1 : g[m + 1] = Alike(q, w, OneEditMore(q, w, swap, g[m]))
    BY <2>1, PlacesClimb
  <2>3. ASSUME NEW m \in 0 .. k + 1
        PROVE  h[m] = Alike(q, w, IF m = 0 THEN {Start} ELSE OneEditMore(q, w, swap, h[m - 1]))
    <3>1. CASE m = k + 1
      <4>1. m # 0 /\ m - 1 = k /\ h[m - 1] = g[k] /\ h[m] = last
        BY <3>1
      <4> QED BY <4>1
    <3>2. CASE m = 0
      <4>1. h[m] = g[0]
        BY <3>2
      <4> QED BY <2>2, <3>2, <4>1
    <3>3. CASE m \in 1 .. k
      <4>1. m # 0 /\ m - 1 \in 0 .. k - 1 /\ (m - 1) + 1 = m /\ h[m] = g[m] /\ h[m - 1] = g[m - 1]
        BY <3>3
      <4>2. g[m] = Alike(q, w, OneEditMore(q, w, swap, g[m - 1]))
        BY <2>2, <4>1
      <4> QED BY <4>1, <4>2
    <3> QED BY <3>1, <3>2, <3>3
  <2>4. h = [m \in 0 .. k + 1 |-> h[m]]
    OBVIOUS
  <2> HIDE DEF h
  <2>5. PlacesUpto(h, q, w, swap, k + 1)
    BY <2>3, <2>4 DEF PlacesUpto
  <2> QED BY <2>5
<1>3. Nat \subseteq S
  <2> HIDE DEF S
  <2> QED BY <1>1, <1>2, SetInduction
<1> QED BY <1>3

\* So the places after one edit more are those that an edit and reading equal
\* characters lead to.
LEMMA PlacesByEdit ==
  ASSUME NEW q, NEW w, NEW swap
  PROVE  /\ PlacesAfter(q, w, swap, 0) = Alike(q, w, {Start})
         /\ \A n \in Nat : PlacesAfter(q, w, swap, n + 1) =
                             Alike(q, w, OneEditMore(q, w, swap, PlacesAfter(q, w, swap, n)))
<1> DEFINE Run(n) == CHOOSE g : PlacesUpto(g, q, w, swap, n)
<1>1. \A n \in Nat : PlacesUpto(Run(n), q, w, swap, n)
  BY PlacesUptoExist
<1>2. \A n \in Nat : PlacesAfter(q, w, swap, n) = Run(n)[n]
  BY DEF PlacesAfter, PlacesUpto
<1> HIDE DEF Run
<1>3. PlacesAfter(q, w, swap, 0) = Alike(q, w, {Start})
  BY <1>1, <1>2, PlacesClimb
<1>4. ASSUME NEW n \in Nat
      PROVE  PlacesAfter(q, w, swap, n + 1) =
               Alike(q, w, OneEditMore(q, w, swap, PlacesAfter(q, w, swap, n)))
  <2> DEFINE g == Run(n)
             h == Run(n + 1)
  <2>1. /\ g[0] = Alike(q, w, {Start})
        /\ \A m \in 0 .. n - 1 : g[m + 1] = Alike(q, w, OneEditMore(q, w, swap, g[m]))
    BY <1>1, PlacesClimb
  <2>2. /\ h[0] = Alike(q, w, {Start})
        /\ \A m \in 0 .. (n + 1) - 1 : h[m + 1] = Alike(q, w, OneEditMore(q, w, swap, h[m]))
    BY <1>1, PlacesClimb
  <2> HIDE DEF g, h
  <2> DEFINE S == {m \in Nat : m <= n => g[m] = h[m]}
  <2>3. 0 \in S
    BY <2>1, <2>2
  <2>4. ASSUME NEW m \in Nat, m \in S PROVE m + 1 \in S
    <3>1. SUFFICES ASSUME m + 1 <= n PROVE g[m + 1] = h[m + 1]
      OBVIOUS
    <3>2. m \in 0 .. n - 1 /\ m \in 0 .. (n + 1) - 1 /\ g[m] = h[m]
      BY <2>4, <3>1
    <3> QED BY <2>1, <2>2, <3>2
  <2>5. Nat \subseteq S
    <3> HIDE DEF S
    <3> QED BY <2>3, <2>4, SetInduction
  <2>6. g[n] = h[n] /\ n \in 0 .. (n + 1) - 1
    BY <2>5
  <2>7. h[n + 1] = Alike(q, w, OneEditMore(q, w, swap, g[n]))
    BY <2>2, <2>6
  <2> QED BY <1>2, <2>7 DEF g, h
<1> QED BY <1>3, <1>4

Climbs(g, w, swap, n) ==
  /\ g[0] = {w}
  /\ \A m \in 0 .. n - 1 : g[m + 1] = EditedOnce(g[m], swap)

LEMMA WordsClimb ==
  ASSUME NEW w, NEW swap, NEW n \in Nat, NEW g, WordsUpto(g, w, swap, n)
  PROVE  Climbs(g, w, swap, n)
<1> DEFINE v(m) == EditedOnce(g[m - 1], swap)
<1>1. g = [m \in 0 .. n |-> IF m = 0 THEN {w} ELSE v(m)]
  BY DEF WordsUpto
<1> HIDE DEF v
<1>2. g[0] = {w} /\ \A m \in 0 .. n : m # 0 => g[m] = v(m)
  BY <1>1
<1>3. ASSUME NEW m \in 0 .. n - 1 PROVE g[m + 1] = EditedOnce(g[m], swap)
  <2>1. m + 1 # 0 /\ (m + 1) - 1 = m /\ m + 1 \in 0 .. n
    OBVIOUS
  <2>2. g[m + 1] = v(m + 1)
    BY <1>2, <2>1
  <2>3. v(m + 1) = EditedOnce(g[m], swap)
    BY <2>1 DEF v
  <2> QED BY <2>2, <2>3
<1> QED BY <1>2, <1>3 DEF Climbs

LEMMA WordsUptoExist ==
  ASSUME NEW w, NEW swap, NEW n \in Nat
  PROVE  \E g : WordsUpto(g, w, swap, n)
<1> DEFINE S == {k \in Nat : \E g : WordsUpto(g, w, swap, k)}
<1>1. 0 \in S
  <2> DEFINE g == [m \in 0 .. 0 |-> {w}]
             v(m) == EditedOnce(g[m - 1], swap)
  <2>1. g = [m \in 0 .. 0 |-> IF m = 0 THEN {w} ELSE v(m)]
    <3> HIDE DEF v
    <3> QED OBVIOUS
  <2> HIDE DEF g
  <2>2. WordsUpto(g, w, swap, 0)
    BY <2>1 DEF WordsUpto
  <2> QED BY <2>2
<1>2. ASSUME NEW k \in Nat, k \in S PROVE k + 1 \in S
  <2>1. PICK g : WordsUpto(g, w, swap, k)
    BY <1>2
  <2> DEFINE last == EditedOnce(g[k], swap)
             h == [m \in 0 .. k + 1 |-> IF m = k + 1 THEN last ELSE g[m]]
  <2>2. /\ g[0] = {w}
        /\ \A m \in 0 .. k - 1 : g[m + 1] = EditedOnce(g[m], swap)
    <3>1. Climbs(g, w, swap, k)
      BY <2>1, WordsClimb
    <3> QED BY <3>1 DEF Climbs
  <2>3. ASSUME NEW m \in 0 .. k + 1
        PROVE  h[m] = IF m = 0 THEN {w}
                      ELSE EditedOnce(h[m - 1], swap)
    <3>1. CASE m = k + 1
      <4>1. m # 0 /\ m - 1 = k /\ h[m - 1] = g[k] /\ h[m] = last
        BY <3>1
      <4> QED BY <4>1
    <3>2. CASE m = 0
      <4>1. h[m] = g[0]
        BY <3>2
      <4> QED BY <2>2, <3>2, <4>1
    <3>3. CASE m \in 1 .. k
      <4>1. m # 0 /\ m - 1 \in 0 .. k - 1 /\ (m - 1) + 1 = m /\ h[m] = g[m] /\ h[m - 1] = g[m - 1]
        BY <3>3
      <4>2. g[m] = EditedOnce(g[m - 1], swap)
        BY <2>2, <4>1
      <4> QED BY <4>1, <4>2
    <3> QED BY <3>1, <3>2, <3>3
  <2>4. h = [m \in 0 .. k + 1 |-> h[m]]
    OBVIOUS
  <2> HIDE DEF h
  <2>5. WordsUpto(h, w, swap, k + 1)
    BY <2>3, <2>4 DEF WordsUpto
  <2> QED BY <2>5
<1>3. Nat \subseteq S
  <2> HIDE DEF S
  <2> QED BY <1>1, <1>2, SetInduction
<1> QED BY <1>3

LEMMA WordsByEdit ==
  ASSUME NEW w, NEW swap
  PROVE  /\ Edited(w, 0, swap) = {w}
         /\ \A n \in Nat :
              Edited(w, n + 1, swap) = EditedOnce(Edited(w, n, swap), swap)
<1> DEFINE Run(n) == CHOOSE g : WordsUpto(g, w, swap, n)
<1>1. \A n \in Nat : WordsUpto(Run(n), w, swap, n)
  BY WordsUptoExist
<1>2. \A n \in Nat : Edited(w, n, swap) = Run(n)[n]
  BY DEF Edited, WordsUpto, EditedOnce
<1> HIDE DEF Run
<1>3. Edited(w, 0, swap) = {w}
  <2> DEFINE g == Run(0)
  <2>1. WordsUpto(g, w, swap, 0)
    BY <1>1
  <2> HIDE DEF g
  <2>2. g[0] = {w}
    <3>1. Climbs(g, w, swap, 0)
      BY <2>1, WordsClimb
    <3> QED BY <3>1 DEF Climbs
  <2> QED BY <1>2, <2>2 DEF g
<1>4. ASSUME NEW n \in Nat
      PROVE  Edited(w, n + 1, swap) = EditedOnce(Edited(w, n, swap), swap)
  <2> DEFINE g == Run(n)
             h == Run(n + 1)
  <2>1. /\ g[0] = {w}
        /\ \A m \in 0 .. n - 1 : g[m + 1] = EditedOnce(g[m], swap)
    <3>1. WordsUpto(g, w, swap, n)
      BY <1>1
    <3> HIDE DEF g
    <3>2. Climbs(g, w, swap, n)
      BY <3>1, WordsClimb
    <3> QED BY <3>2 DEF Climbs
  <2>2. /\ h[0] = {w}
        /\ \A m \in 0 .. (n + 1) - 1 : h[m + 1] = EditedOnce(h[m], swap)
    <3>1. n + 1 \in Nat /\ WordsUpto(h, w, swap, n + 1)
      BY <1>1
    <3> HIDE DEF h
    <3>2. Climbs(h, w, swap, n + 1)
      BY <3>1, WordsClimb
    <3> QED BY <3>2 DEF Climbs
  <2> HIDE DEF g, h
  <2> DEFINE S == {m \in Nat : m <= n => g[m] = h[m]}
  <2>3. 0 \in S
    BY <2>1, <2>2
  <2>4. ASSUME NEW m \in Nat, m \in S PROVE m + 1 \in S
    <3>1. SUFFICES ASSUME m + 1 <= n PROVE g[m + 1] = h[m + 1]
      OBVIOUS
    <3>2. m \in 0 .. n - 1 /\ m \in 0 .. (n + 1) - 1 /\ g[m] = h[m]
      BY <2>4, <3>1
    <3>3. g[m + 1] = EditedOnce(g[m], swap)
      BY <2>1, <3>2
    <3>4. h[m + 1] = EditedOnce(h[m], swap)
      BY <2>2, <3>2
    <3> QED BY <3>2, <3>3, <3>4
  <2>5. Nat \subseteq S
    <3> HIDE DEF S
    <3> QED BY <2>3, <2>4, SetInduction
  <2>6. g[n] = h[n] /\ n \in 0 .. (n + 1) - 1
    BY <2>5
  <2>7. h[n + 1] = EditedOnce(h[n], swap)
    BY <2>2, <2>6
  <2>8. Edited(w, n, swap) = g[n] /\ Edited(w, n + 1, swap) = h[n + 1]
    BY <1>2 DEF g, h
  <2> QED BY <2>6, <2>7, <2>8
<1> QED BY <1>3, <1>4

\* From position i of q and k of w on, m characters are equal.
AlikeTo(q, w, i, k, m) ==
  /\ i + m <= Len(q) + 1 /\ k + m <= Len(w) + 1
  /\ \A j \in 0 .. m - 1 : q[i + j] = w[k + j]

LEMMA AlikeOf ==
  ASSUME NEW q \in Seq(Int), NEW w \in Seq(Int), NEW S, S \subseteq Places(q, w),
         NEW i \in Nat, NEW k \in Nat, NEW m \in Nat, <<i, k>> \in S, AlikeTo(q, w, i, k, m)
  PROVE  <<i + m, k + m>> \in Alike(q, w, S)
<1>1. i \in 1 .. Len(q) + 1 /\ k \in 1 .. Len(w) + 1
  BY DEF Places
<1>2. m \in 0 .. Len(q)
  BY <1>1 DEF AlikeTo
<1>3. <<i + m, k + m>> \in AlikeFrom(q, w, <<i, k>>)
  BY <1>2 DEF AlikeFrom, AlikeTo
<1> QED BY <1>3 DEF Alike

CameFrom(t, q, w, S) ==
  \E i \in Nat, k \in Nat, m \in Nat :
     <<i, k>> \in S /\ AlikeTo(q, w, i, k, m) /\ t = <<i + m, k + m>>

LEMMA AlikeCameFrom ==
  ASSUME NEW q \in Seq(Int), NEW w \in Seq(Int), NEW S, S \subseteq Places(q, w),
         NEW t \in Alike(q, w, S)
  PROVE  t \in Places(q, w) /\ CameFrom(t, q, w, S)
<1>1. PICK p \in S : t \in AlikeFrom(q, w, p)
  BY DEF Alike
<1>2. PICK i \in 1 .. Len(q) + 1, k \in 1 .. Len(w) + 1 : p = <<i, k>>
  BY <1>1 DEF Places
<1>3. PICK m \in 0 .. Len(q) : AlikeTo(q, w, i, k, m) /\ t = <<i + m, k + m>>
  BY <1>1, <1>2 DEF AlikeFrom, AlikeTo
<1>4. i + m \in 1 .. Len(q) + 1 /\ k + m \in 1 .. Len(w) + 1
  BY <1>3 DEF AlikeTo
<1>5. i \in Nat /\ k \in Nat /\ m \in Nat
  BY <1>2, <1>3
<1> QED BY <1>1, <1>2, <1>3, <1>4, <1>5 DEF Places, CameFrom

LEMMA AlikeOnward ==
  ASSUME NEW q, NEW w, NEW i \in Nat, NEW k \in Nat, NEW m \in Nat, NEW n \in Nat,
         AlikeTo(q, w, i, k, m), AlikeTo(q, w, i + m, k + m, n)
  PROVE  AlikeTo(q, w, i, k, m + n)
<1>1. ASSUME NEW j \in 0 .. (m + n) - 1 PROVE q[i + j] = w[k + j]
  <2>1. CASE j < m
    BY <2>1 DEF AlikeTo
  <2>2. CASE j >= m
    <3>1. j - m \in 0 .. n - 1 /\ (i + m) + (j - m) = i + j /\ (k + m) + (j - m) = k + j
      BY <2>2
    <3> QED BY <3>1 DEF AlikeTo
  <2> QED BY <2>1, <2>2
<1> QED BY <1>1 DEF AlikeTo

\* Reading on, or editing, from a place leads to a place.
LEMMA PlacesOnward ==
  ASSUME NEW q \in Seq(Int), NEW w \in Seq(Int), NEW swap
  PROVE  \A n \in Nat :
           /\ PlacesAfter(q, w, swap, n) \subseteq Places(q, w)
           /\ PlacesAfter(q, w, swap, n) \subseteq PlacesAfter(q, w, swap, n + 1)
           /\ \A i \in Nat, k \in Nat, m \in Nat :
                <<i, k>> \in PlacesAfter(q, w, swap, n) /\ AlikeTo(q, w, i, k, m)
                  => <<i + m, k + m>> \in PlacesAfter(q, w, swap, n)
           /\ \A p \in PlacesAfter(q, w, swap, n) :
                OneEditFrom(q, w, swap, p) \cap Places(q, w) \subseteq PlacesAfter(q, w, swap, n + 1)
<1> DEFINE R(n) == PlacesAfter(q, w, swap, n)
           S(n) == IF n = 0 THEN {Start} ELSE OneEditMore(q, w, swap, R(n - 1))
<1>1. \A n \in Nat : R(n) = Alike(q, w, S(n))
  <2>1. R(0) = Alike(q, w, {Start})
    BY PlacesByEdit
  <2>2. \A n \in Nat : R(n + 1) = Alike(q, w, OneEditMore(q, w, swap, R(n)))
    BY PlacesByEdit
  <2>3. ASSUME NEW n \in Nat, n # 0 PROVE R(n) = Alike(q, w, S(n))
    <3>1. n - 1 \in Nat /\ (n - 1) + 1 = n
      BY <2>3
    <3>2. R((n - 1) + 1) = Alike(q, w, OneEditMore(q, w, swap, R(n - 1)))
      BY <2>2, <3>1
    <3> HIDE DEF R
    <3> QED BY <2>3, <3>1, <3>2
  <2> HIDE DEF R
  <2> QED BY <2>1, <2>3
<1>2. \A n \in Nat : S(n + 1) = OneEditMore(q, w, swap, R(n))
  <2> HIDE DEF R
  <2> SUFFICES ASSUME NEW n \in Nat PROVE S(n + 1) = OneEditMore(q, w, swap, R(n))
    OBVIOUS
  <2>1. n + 1 # 0 /\ (n + 1) - 1 = n
    OBVIOUS
  <2> QED BY <2>1
<1>3. S(0) = {Start}
  OBVIOUS
<1> HIDE DEF R, S
<1>4. \A n \in Nat : S(n) \subseteq Places(q, w)
  <2> DEFINE T == {n \in Nat : S(n) \subseteq Places(q, w)}
  <2>1. 0 \in T
    BY <1>3 DEF Places, Start
  <2>2. ASSUME NEW n \in Nat, n \in T PROVE n + 1 \in T
    <3>1. R(n) \subseteq Places(q, w)
      BY <1>1, <2>2, AlikeCameFrom
    <3>2. S(n + 1) \subseteq Places(q, w)
      BY <1>2, <3>1 DEF OneEditMore
    <3> QED BY <3>2
  <2>3. Nat \subseteq T
    <3> HIDE DEF T
    <3> QED BY <2>1, <2>2, SetInduction
  <2> QED BY <2>3
<1>5. ASSUME NEW n \in Nat PROVE R(n) \subseteq Places(q, w)
  BY <1>1, <1>4, AlikeCameFrom
<1>6. ASSUME NEW n \in Nat, NEW i \in Nat, NEW k \in Nat, <<i, k>> \in S(n)
      PROVE  <<i, k>> \in R(n)
  <2>1. i \in 1 .. Len(q) + 1 /\ k \in 1 .. Len(w) + 1
    BY <1>4, <1>6 DEF Places
  <2>2. AlikeTo(q, w, i, k, 0) /\ i + 0 = i /\ k + 0 = k
    BY <2>1 DEF AlikeTo
  <2>3. <<i + 0, k + 0>> \in Alike(q, w, S(n))
    BY <1>4, <1>6, <2>2, AlikeOf
  <2> QED BY <1>1, <2>2, <2>3
<1>7. ASSUME NEW n \in Nat PROVE S(n + 1) \subseteq R(n + 1)
  <2>1. SUFFICES ASSUME NEW t \in S(n + 1) PROVE t \in R(n + 1)
    OBVIOUS
  <2>2. n + 1 \in Nat
    OBVIOUS
  <2>3. PICK i \in 1 .. Len(q) + 1, k \in 1 .. Len(w) + 1 : t = <<i, k>>
    BY <1>4, <2>1, <2>2 DEF Places
  <2>4. i \in Nat /\ k \in Nat
    OBVIOUS
  <2> QED BY <1>6, <2>1, <2>2, <2>3, <2>4
<1>8. ASSUME NEW n \in Nat
      PROVE  /\ R(n) \subseteq R(n + 1)
             /\ \A p \in R(n) : OneEditFrom(q, w, swap, p) \cap Places(q, w) \subseteq R(n + 1)
  BY <1>2, <1>7 DEF OneEditMore
<1>9. ASSUME NEW n \in Nat, NEW i \in Nat, NEW k \in Nat, NEW m \in Nat,
             <<i, k>> \in R(n), AlikeTo(q, w, i, k, m)
      PROVE  <<i + m, k + m>> \in R(n)
  <2>1. PICK i0 \in Nat, k0 \in Nat, m0 \in Nat :
           <<i0, k0>> \in S(n) /\ AlikeTo(q, w, i0, k0, m0) /\ <<i, k>> = <<i0 + m0, k0 + m0>>
    <3>1. CameFrom(<<i, k>>, q, w, S(n))
      BY <1>1, <1>4, <1>9, AlikeCameFrom
    <3> QED BY <3>1 DEF CameFrom
  <2>2. i = i0 + m0 /\ k = k0 + m0
    BY <2>1
  <2>3. AlikeTo(q, w, i0, k0, m0 + m)
    BY <1>9, <2>1, <2>2, AlikeOnward
  <2>4. m0 + m \in Nat /\ i0 + (m0 + m) = i + m /\ k0 + (m0 + m) = k + m
    BY <2>2
  <2>5. <<i0 + (m0 + m), k0 + (m0 + m)>> \in Alike(q, w, S(n))
    BY <1>4, <2>1, <2>3, <2>4, AlikeOf
  <2> QED BY <1>1, <2>4, <2>5
<1> QED BY <1>5, <1>8, <1>9 DEF R

\* A property that the start has, and that reading on and an edit preserve, is
\* one of every place.
LEMMA PlacesInduction ==
  ASSUME NEW q \in Seq(Int), NEW w \in Seq(Int), NEW swap,
         NEW P, <<0, Start>> \in P,
         \A n \in Nat, i \in Nat, k \in Nat, m \in Nat :
            <<n, <<i, k>>>> \in P /\ <<i, k>> \in Places(q, w) /\ AlikeTo(q, w, i, k, m)
              => <<n, <<i + m, k + m>>>> \in P,
         \A n \in Nat, t \in Places(q, w) : <<n, t>> \in P => <<n + 1, t>> \in P,
         \A n \in Nat, p \in Places(q, w) :
            p \in PlacesAfter(q, w, swap, n) /\ <<n, p>> \in P =>
              \A t \in OneEditFrom(q, w, swap, p) \cap Places(q, w) : <<n + 1, t>> \in P
  PROVE  \A n \in Nat : \A t \in PlacesAfter(q, w, swap, n) : <<n, t>> \in P
<1> DEFINE S == {n \in Nat : \A t \in PlacesAfter(q, w, swap, n) : <<n, t>> \in P}
<1>1. 0 \in S
  <2>1. PlacesAfter(q, w, swap, 0) = Alike(q, w, {Start})
    BY PlacesByEdit
  <2>2. {Start} \subseteq Places(q, w)
    BY DEF Places, Start
  <2>3. ASSUME NEW t \in Alike(q, w, {Start}) PROVE <<0, t>> \in P
    <3>1. PICK i \in Nat, k \in Nat, m \in Nat :
             <<i, k>> \in {Start} /\ AlikeTo(q, w, i, k, m) /\ t = <<i + m, k + m>>
      <4>1. CameFrom(t, q, w, {Start})
        BY <2>2, AlikeCameFrom
      <4> QED BY <4>1 DEF CameFrom
    <3>2. <<i, k>> = Start /\ <<i, k>> \in Places(q, w)
      BY <2>2, <3>1
    <3> QED BY <3>1, <3>2
  <2> QED BY <2>1, <2>3
<1>2. ASSUME NEW n \in Nat, n \in S PROVE n + 1 \in S
  <2>1. SUFFICES ASSUME NEW t \in PlacesAfter(q, w, swap, n + 1) PROVE <<n + 1, t>> \in P
    OBVIOUS
  <2> DEFINE R == PlacesAfter(q, w, swap, n)
             E == OneEditMore(q, w, swap, R)
  <2>2. PlacesAfter(q, w, swap, n + 1) = Alike(q, w, E)
    BY PlacesByEdit
  <2>3. R \subseteq Places(q, w)
    BY PlacesOnward
  <2>4. E \subseteq Places(q, w)
    BY <2>3 DEF OneEditMore
  <2>5. PICK i \in Nat, k \in Nat, m \in Nat :
           <<i, k>> \in E /\ AlikeTo(q, w, i, k, m) /\ t = <<i + m, k + m>>
    <3> HIDE DEF E
    <3>1. CameFrom(t, q, w, E)
      BY <2>1, <2>2, <2>4, AlikeCameFrom
    <3> QED BY <3>1 DEF CameFrom
  <2>6. \A p \in R : <<n, p>> \in P
    BY <1>2
  <2>7. <<n + 1, <<i, k>>>> \in P
    <3> HIDE DEF R
    <3>1. CASE <<i, k>> \in R
      BY <2>3, <2>6, <3>1
    <3>2. CASE <<i, k>> \notin R
      <4>1. PICK p \in R : <<i, k>> \in OneEditFrom(q, w, swap, p) \cap Places(q, w)
        BY <2>5, <3>2 DEF OneEditMore
      <4> QED BY <2>3, <2>6, <4>1 DEF R
    <3> QED BY <3>1, <3>2
  <2>8. <<i, k>> \in Places(q, w) /\ n + 1 \in Nat
    BY <2>4, <2>5
  <2> QED BY <2>5, <2>7, <2>8
<1>3. Nat \subseteq S
  <2> HIDE DEF S
  <2> QED BY <1>1, <1>2, SetInduction
<1> QED BY <1>3

-----------------------------------------------------------------------------
(* What an edit makes of a word, position by position. *)

LEMMA Joined ==
  ASSUME NEW s \in Seq(Int), NEW t \in Seq(Int)
  PROVE  /\ s \o t \in Seq(Int) /\ Len(s \o t) = Len(s) + Len(t)
         /\ \A j \in 1 .. Len(s) : (s \o t)[j] = s[j]
         /\ \A j \in 1 .. Len(t) : (s \o t)[Len(s) + j] = t[j]
OBVIOUS

LEMMA Middle ==
  ASSUME NEW s \in Seq(Int), NEW m \in Nat, NEW n \in Nat, 1 <= m, m <= n + 1, n <= Len(s)
  PROVE  /\ SubSeq(s, m, n) \in Seq(Int) /\ Len(SubSeq(s, m, n)) = (n + 1) - m
         /\ \A j \in 1 .. (n + 1) - m : SubSeq(s, m, n)[j] = s[(m + j) - 1]
BY SMTT(30)

LEMMA Removed ==
  ASSUME NEW s \in Seq(Int), NEW k \in 1 .. Len(s)
  PROVE  /\ RemoveAt(s, k) \in Seq(Int) /\ Len(RemoveAt(s, k)) = Len(s) - 1
         /\ \A j \in 1 .. k - 1 : RemoveAt(s, k)[j] = s[j]
         /\ \A j \in k .. Len(s) - 1 : RemoveAt(s, k)[j] = s[j + 1]
<1> DEFINE x == SubSeq(s, 1, k - 1)
           y == SubSeq(s, k + 1, Len(s))
<1>1. x \in Seq(Int) /\ Len(x) = k - 1 /\ \A j \in 1 .. k - 1 : x[j] = s[j]
  <2>1. k - 1 \in Nat /\ k - 1 <= Len(s)
    OBVIOUS
  <2> QED BY <2>1, FrontByPosition
<1>2. /\ y \in Seq(Int) /\ Len(y) = Len(s) - k
      /\ \A j \in 1 .. Len(s) - k : y[j] = s[k + j]
  <2> DEFINE m == k + 1
             n == Len(s)
  <2>1. m \in Nat /\ n \in Nat /\ 1 <= m /\ m <= n + 1 /\ n <= Len(s)
    OBVIOUS
  <2>2. (n + 1) - m = Len(s) - k
    OBVIOUS
  <2>3. y = SubSeq(s, m, n)
    OBVIOUS
  <2> HIDE DEF m, n, y
  <2>4. /\ y \in Seq(Int) /\ Len(y) = (n + 1) - m
        /\ \A j \in 1 .. (n + 1) - m : y[j] = s[(m + j) - 1]
    BY <2>1, <2>3, Middle
  <2>5. ASSUME NEW j \in 1 .. Len(s) - k PROVE y[j] = s[k + j]
    <3>1. y[j] = s[(m + j) - 1]
      BY <2>2, <2>4
    <3>2. (m + j) - 1 = k + j
      BY DEF m
    <3> QED BY <3>1, <3>2, Zenon
  <2> QED BY <2>2, <2>4, <2>5
<1>3. RemoveAt(s, k) = x \o y
  BY DEF RemoveAt
<1> HIDE DEF x, y
<1>4. ASSUME NEW j \in k .. Len(s) - 1 PROVE (x \o y)[j] = s[j + 1]
  <2>1. (j - k) + 1 \in 1 .. Len(y) /\ k + ((j - k) + 1) = j + 1 /\ (k - 1) + ((j - k) + 1) = j
    <3>1. j \in Nat /\ k \in Nat /\ Len(s) \in Nat /\ k <= j /\ j <= Len(s) - 1
      OBVIOUS
    <3>2. (j - k) + 1 \in 1 .. Len(s) - k
      BY <3>1
    <3>3. k + ((j - k) + 1) = j + 1 /\ (k - 1) + ((j - k) + 1) = j
      BY <3>1
    <3> QED BY <1>2, <3>2, <3>3
  <2>2. (x \o y)[Len(x) + ((j - k) + 1)] = y[(j - k) + 1]
    BY <1>1, <1>2, <2>1, Joined
  <2> QED BY <1>1, <1>2, <2>1, <2>2
<1>5. /\ x \o y \in Seq(Int) /\ Len(x \o y) = Len(x) + Len(y)
      /\ \A j \in 1 .. Len(x) : (x \o y)[j] = x[j]
  BY <1>1, <1>2, Joined
<1>6. Len(x) + Len(y) = Len(s) - 1 /\ \A j \in 1 .. k - 1 : (x \o y)[j] = s[j]
  BY <1>1, <1>2, <1>5
<1> DEFINE r == x \o y
<1> HIDE DEF r
<1>7. /\ r \in Seq(Int) /\ Len(r) = Len(s) - 1 /\ RemoveAt(s, k) = r
      /\ \A j \in 1 .. k - 1 : r[j] = s[j]
  BY <1>3, <1>5, <1>6 DEF r
<1>8. \A j \in k .. Len(s) - 1 : r[j] = s[j + 1]
  BY <1>4 DEF r
<1> QED BY <1>7, <1>8

IsInserted(t, s, k, c) ==
  /\ t \in Seq(Int) /\ Len(t) = Len(s) + 1
  /\ \A j \in 1 .. k - 1 : t[j] = s[j]
  /\ t[k] = c
  /\ \A j \in k + 1 .. Len(s) + 1 : t[j] = s[j - 1]

LEMMA Inserted ==
  ASSUME NEW s \in Seq(Int), NEW k \in 1 .. Len(s) + 1, NEW c \in Int
  PROVE  IsInserted(InsertAt(s, k, c), s, k, c)
<1> DEFINE x == SubSeq(s, 1, k - 1)
           y == SubSeq(s, k, Len(s))
           z == x \o <<c>>
<1>1. x \in Seq(Int) /\ Len(x) = k - 1 /\ \A j \in 1 .. k - 1 : x[j] = s[j]
  <2>1. k - 1 \in Nat /\ k - 1 <= Len(s)
    OBVIOUS
  <2> QED BY <2>1, FrontByPosition
<1>2. /\ y \in Seq(Int) /\ Len(y) = (Len(s) + 1) - k
      /\ \A j \in 1 .. (Len(s) + 1) - k : y[j] = s[(k + j) - 1]
  BY Middle
<1>3. InsertAt(s, k, c) = z \o y
  BY DEF InsertAt
<1>4. z \in Seq(Int) /\ Len(z) = k /\ z[k] = c /\ \A j \in 1 .. k - 1 : z[j] = x[j]
  <2> DEFINE e == <<c>>
  <2>1. e \in Seq(Int) /\ Len(e) = 1 /\ e[1] = c /\ 1 \in 1 .. 1 /\ (k - 1) + 1 = k
    OBVIOUS
  <2> HIDE DEF e, x
  <2>2. /\ x \o e \in Seq(Int) /\ Len(x \o e) = Len(x) + Len(e)
        /\ \A j \in 1 .. Len(x) : (x \o e)[j] = x[j]
        /\ \A j \in 1 .. Len(e) : (x \o e)[Len(x) + j] = e[j]
    BY <1>1, <2>1, Joined
  <2>3. (x \o e)[(k - 1) + 1] = c
    BY <1>1, <2>1, <2>2
  <2> QED BY <1>1, <2>1, <2>2, <2>3 DEF e
<1> HIDE DEF x, y, z
<1>5. ASSUME NEW j \in k + 1 .. Len(s) + 1 PROVE (z \o y)[j] = s[j - 1]
  <2>1. j - k \in 1 .. Len(y) /\ (k + (j - k)) - 1 = j - 1 /\ k + (j - k) = j
    BY <1>2
  <2>2. (z \o y)[Len(z) + (j - k)] = y[j - k]
    BY <1>2, <1>4, <2>1, Joined
  <2> QED BY <1>2, <1>4, <2>1, <2>2
<1>6. /\ z \o y \in Seq(Int) /\ Len(z \o y) = Len(z) + Len(y)
      /\ \A j \in 1 .. Len(z) : (z \o y)[j] = z[j]
  BY <1>2, <1>4, Joined
<1>7. k \in 1 .. Len(z) /\ \A j \in 1 .. k - 1 : j \in 1 .. Len(z)
  BY <1>4
<1> DEFINE r == z \o y
<1> HIDE DEF r
<1>8. /\ r \in Seq(Int) /\ Len(r) = Len(s) + 1 /\ InsertAt(s, k, c) = r /\ r[k] = c
      /\ \A j \in 1 .. k - 1 : r[j] = s[j]
  BY <1>1, <1>2, <1>3, <1>4, <1>6, <1>7 DEF r
<1>9. \A j \in k + 1 .. Len(s) + 1 : r[j] = s[j - 1]
  BY <1>5 DEF r
<1> QED BY <1>8, <1>9 DEF IsInserted

IsReplaced(t, s, k, c) ==
  /\ t \in Seq(Int) /\ Len(t) = Len(s)
  /\ \A j \in 1 .. Len(s) : t[j] = IF j = k THEN c ELSE s[j]

LEMMA Replaced ==
  ASSUME NEW s \in Seq(Int), NEW k \in 1 .. Len(s), NEW c \in Int
  PROVE  IsReplaced(ReplaceAt(s, k, c), s, k, c)
BY DEF ReplaceAt, IsReplaced

Exchanged(s, k) == [s EXCEPT ![k] = s[k + 1], ![k + 1] = s[k]]

LEMMA ExchangedByPosition ==
  ASSUME NEW s \in Seq(Int), NEW k \in 1 .. Len(s) - 1
  PROVE  /\ Exchanged(s, k) \in Seq(Int) /\ Len(Exchanged(s, k)) = Len(s)
         /\ \A j \in 1 .. Len(s) :
              Exchanged(s, k)[j] = IF j = k THEN s[k + 1] ELSE IF j = k + 1 THEN s[k] ELSE s[j]
BY DEF Exchanged

Letters == UNION {Range(s) : s \in index}

LEMMA OneEditCases ==
  ASSUME NEW u \in Seq(Int), NEW swap \in BOOLEAN, NEW w
  PROVE  w \in OneEdit(u, swap) <=>
           \/ \E k \in 1 .. Len(u) : w = RemoveAt(u, k)
           \/ \E k \in 1 .. Len(u) + 1, c \in Letters : w = InsertAt(u, k, c)
           \/ \E k \in 1 .. Len(u), c \in Letters : w = ReplaceAt(u, k, c)
           \/ swap /\ \E k \in 1 .. Len(u) - 1 : w = Exchanged(u, k)
<1> DEFINE removed == {RemoveAt(u, k) : k \in 1 .. Len(u)}
           inserted == {InsertAt(u, k, c) : k \in 1 .. Len(u) + 1, c \in Letters}
           replaced == {ReplaceAt(u, k, c) : k \in 1 .. Len(u), c \in Letters}
           exchanged == {Exchanged(u, k) : k \in 1 .. Len(u) - 1}
<1>1. DOMAIN u = 1 .. Len(u)
  OBVIOUS
<1>2. OneEdit(u, swap) = removed \cup inserted \cup replaced \cup IF swap THEN exchanged ELSE {}
  BY <1>1 DEF OneEdit, Letters, Exchanged
<1>3. w \in removed <=> \E k \in 1 .. Len(u) : w = RemoveAt(u, k)
  OBVIOUS
<1>4. w \in inserted <=> \E k \in 1 .. Len(u) + 1, c \in Letters : w = InsertAt(u, k, c)
  OBVIOUS
<1>5. w \in replaced <=> \E k \in 1 .. Len(u), c \in Letters : w = ReplaceAt(u, k, c)
  OBVIOUS
<1>6. w \in exchanged <=> \E k \in 1 .. Len(u) - 1 : w = Exchanged(u, k)
  OBVIOUS
<1> HIDE DEF removed, inserted, replaced, exchanged
<1> QED BY <1>2, <1>3, <1>4, <1>5, <1>6

LEMMA LettersAreNumbers ==
  ASSUME TextAssumption, index \in Indexes
  PROVE  Letters \subseteq Int
<1>1. \A s \in index : s \in Seq(Int)
  BY DEF TextAssumption
<1>2. \A s \in index : Range(s) \subseteq Int
  BY <1>1 DEF Range
<1> QED BY <1>2 DEF Letters

LEMMA OneEditIsText ==
  ASSUME Letters \subseteq Int, NEW u \in Seq(Int), NEW swap \in BOOLEAN, NEW w \in OneEdit(u, swap)
  PROVE  w \in Seq(Int)
<1>1. CASE \E k \in 1 .. Len(u) : w = RemoveAt(u, k)
  BY <1>1, Removed
<1>2. CASE \E k \in 1 .. Len(u) + 1, c \in Letters : w = InsertAt(u, k, c)
  BY <1>2, Inserted DEF IsInserted
<1>3. CASE \E k \in 1 .. Len(u), c \in Letters : w = ReplaceAt(u, k, c)
  BY <1>3, Replaced DEF IsReplaced
<1>4. CASE \E k \in 1 .. Len(u) - 1 : w = Exchanged(u, k)
  BY <1>4, ExchangedByPosition
<1> QED BY <1>1, <1>2, <1>3, <1>4, OneEditCases

-----------------------------------------------------------------------------
(* A place that some edits lead to is a word that as many edits make. *)

\* r is what has become of q when i and k are the positions to be read next: the
\* beginning of w and the end of q.
HalfEdited(r, q, w, i, k) ==
  /\ r \in Seq(Int) /\ Len(r) = (Len(q) - i) + k
  /\ \A j \in 1 .. Len(r) : r[j] = IF j < k THEN w[j] ELSE q[(j - k) + i]

LEMMA ReadingKeeps ==
  ASSUME NEW q \in Seq(Int), NEW w \in Seq(Int), NEW m \in Nat, NEW r,
         NEW i \in 1 .. Len(q) + 1, NEW k \in 1 .. Len(w) + 1,
         HalfEdited(r, q, w, i, k), AlikeTo(q, w, i, k, m)
  PROVE  HalfEdited(r, q, w, i + m, k + m)
<1>1. r \in Seq(Int) /\ Len(r) = (Len(q) - (i + m)) + (k + m)
  BY DEF HalfEdited
<1>2. ASSUME NEW j \in 1 .. Len(r)
      PROVE  r[j] = IF j < k + m THEN w[j] ELSE q[(j - (k + m)) + (i + m)]
  <2>1. r[j] = IF j < k THEN w[j] ELSE q[(j - k) + i]
    BY DEF HalfEdited
  <2>2. j \in Int
    OBVIOUS
  <2>3. CASE j < k
    BY <2>1, <2>2, <2>3
  <2>4. CASE j >= k /\ j < k + m
    <3>1. j - k \in 0 .. m - 1 /\ k + (j - k) = j /\ i + (j - k) = (j - k) + i
      BY <2>2, <2>4
    <3>2. q[i + (j - k)] = w[k + (j - k)]
      BY <3>1 DEF AlikeTo
    <3> QED BY <2>1, <2>2, <2>4, <3>1, <3>2
  <2>5. CASE j >= k + m
    <3>1. (j - (k + m)) + (i + m) = (j - k) + i /\ ~(j < k) /\ ~(j < k + m)
      BY <2>2, <2>5
    <3> QED BY <2>1, <3>1
  <2> QED BY <2>2, <2>3, <2>4, <2>5
<1> QED BY <1>1, <1>2 DEF HalfEdited

\* The four ways to go on from a place, as edits.
LEMMA LeavingOut ==
  ASSUME NEW q \in Seq(Int), NEW w \in Seq(Int), NEW r,
         NEW i \in 1 .. Len(q), NEW k \in 1 .. Len(w) + 1, HalfEdited(r, q, w, i, k)
  PROVE  k \in 1 .. Len(r) /\ HalfEdited(RemoveAt(r, k), q, w, i + 1, k)
<1> DEFINE e == RemoveAt(r, k)
<1>1. r \in Seq(Int) /\ Len(r) = (Len(q) - i) + k /\ Len(q) \in Nat
  BY DEF HalfEdited
<1>2. k \in 1 .. Len(r)
  BY <1>1
<1>3. /\ e \in Seq(Int) /\ Len(e) = Len(r) - 1
      /\ \A j \in 1 .. k - 1 : e[j] = r[j]
      /\ \A j \in k .. Len(r) - 1 : e[j] = r[j + 1]
  BY <1>1, <1>2, Removed
<1> HIDE DEF e
<1>4. Len(e) = (Len(q) - (i + 1)) + k
  BY <1>1, <1>3
<1>5. ASSUME NEW j \in 1 .. Len(e)
      PROVE  e[j] = IF j < k THEN w[j] ELSE q[(j - k) + (i + 1)]
  <2>1. CASE j < k
    <3>1. j \in 1 .. k - 1 /\ j \in 1 .. Len(r)
      BY <1>1, <1>3, <2>1
    <3> QED BY <1>3, <2>1, <3>1 DEF HalfEdited
  <2>2. CASE j >= k
    <3>1. j \in Nat /\ k \in Nat /\ Len(r) \in Nat /\ j <= Len(r) - 1 /\ 1 <= j
      <4>1. j \in Nat /\ k \in Nat /\ 1 <= j /\ j <= Len(e)
        BY <1>3
      <4>2. Len(r) \in Nat /\ Len(e) = Len(r) - 1
        BY <1>1, <1>3
      <4> QED BY <4>1, <4>2
    <3>2. j \in k .. Len(r) - 1 /\ j + 1 \in 1 .. Len(r) /\ ~(j + 1 < k) /\ ~(j < k)
      BY <2>2, <3>1
    <3>3. ((j + 1) - k) + i = (j - k) + (i + 1)
      BY <3>1
    <3>4. r[j + 1] = q[((j + 1) - k) + i]
      BY <3>2 DEF HalfEdited
    <3> QED BY <1>3, <3>2, <3>3, <3>4
  <2> QED BY <1>1, <1>3, <2>1, <2>2
<1>6. HalfEdited(e, q, w, i + 1, k)
  BY <1>3, <1>4, <1>5 DEF HalfEdited
<1> QED BY <1>2, <1>6 DEF e

LEMMA PuttingIn ==
  ASSUME NEW q \in Seq(Int), NEW w \in Seq(Int), NEW r,
         NEW i \in 1 .. Len(q) + 1, NEW k \in 1 .. Len(w), HalfEdited(r, q, w, i, k)
  PROVE  k \in 1 .. Len(r) + 1 /\ HalfEdited(InsertAt(r, k, w[k]), q, w, i, k + 1)
<1> DEFINE e == InsertAt(r, k, w[k])
<1>1. r \in Seq(Int) /\ Len(r) = (Len(q) - i) + k /\ Len(q) \in Nat /\ w[k] \in Int
  BY DEF HalfEdited
<1>2. k \in 1 .. Len(r) + 1
  BY <1>1
<1>3. /\ e \in Seq(Int) /\ Len(e) = Len(r) + 1
      /\ \A j \in 1 .. k - 1 : e[j] = r[j]
      /\ e[k] = w[k]
      /\ \A j \in k + 1 .. Len(r) + 1 : e[j] = r[j - 1]
  <2>1. IsInserted(e, r, k, w[k])
    BY <1>1, <1>2, Inserted
  <2> HIDE DEF e
  <2> QED BY <2>1 DEF IsInserted
<1> HIDE DEF e
<1>4. Len(e) = (Len(q) - i) + (k + 1)
  BY <1>1, <1>3
<1>5. ASSUME NEW j \in 1 .. Len(e)
      PROVE  e[j] = IF j < k + 1 THEN w[j] ELSE q[(j - (k + 1)) + i]
  <2>1. CASE j < k
    <3>1. j \in 1 .. k - 1 /\ j \in 1 .. Len(r) /\ j < k + 1
      BY <1>1, <1>3, <2>1
    <3> QED BY <1>3, <2>1, <3>1 DEF HalfEdited
  <2>2. CASE j = k
    <3>1. j < k + 1
      BY <2>2
    <3> QED BY <1>3, <2>2, <3>1
  <2>3. CASE j > k
    <3>1. j \in k + 1 .. Len(r) + 1 /\ j - 1 \in 1 .. Len(r) /\ ~(j - 1 < k) /\ ~(j < k + 1)
      BY <1>1, <1>3, <2>3
    <3>2. ((j - 1) - k) + i = (j - (k + 1)) + i
      BY <3>1
    <3>3. r[j - 1] = q[((j - 1) - k) + i]
      BY <3>1 DEF HalfEdited
    <3> QED BY <1>3, <3>1, <3>2, <3>3
  <2> QED BY <1>1, <1>3, <2>1, <2>2, <2>3
<1>6. HalfEdited(e, q, w, i, k + 1)
  BY <1>3, <1>4, <1>5 DEF HalfEdited
<1> QED BY <1>2, <1>6 DEF e

LEMMA PuttingForAnother ==
  ASSUME NEW q \in Seq(Int), NEW w \in Seq(Int), NEW r,
         NEW i \in 1 .. Len(q), NEW k \in 1 .. Len(w), HalfEdited(r, q, w, i, k)
  PROVE  k \in 1 .. Len(r) /\ HalfEdited(ReplaceAt(r, k, w[k]), q, w, i + 1, k + 1)
<1> DEFINE e == ReplaceAt(r, k, w[k])
<1>1. r \in Seq(Int) /\ Len(r) = (Len(q) - i) + k /\ Len(q) \in Nat /\ w[k] \in Int
  BY DEF HalfEdited
<1>2. k \in 1 .. Len(r)
  BY <1>1
<1>3. /\ e \in Seq(Int) /\ Len(e) = Len(r)
      /\ \A j \in 1 .. Len(r) : e[j] = IF j = k THEN w[k] ELSE r[j]
  <2> DEFINE c == w[k]
  <2>1. c \in Int
    BY <1>1
  <2> HIDE DEF c
  <2>2. IsReplaced(ReplaceAt(r, k, c), r, k, c)
    BY <1>1, <1>2, <2>1, Replaced
  <2>3. IsReplaced(e, r, k, w[k])
    BY <2>2 DEF c
  <2> HIDE DEF e
  <2> QED BY <2>3 DEF IsReplaced
<1> HIDE DEF e
<1>4. Len(e) = (Len(q) - (i + 1)) + (k + 1)
  BY <1>1, <1>3
<1>5. ASSUME NEW j \in 1 .. Len(e)
      PROVE  e[j] = IF j < k + 1 THEN w[j] ELSE q[(j - (k + 1)) + (i + 1)]
  <2>1. j \in 1 .. Len(r) /\ (j - (k + 1)) + (i + 1) = (j - k) + i
    BY <1>3
  <2>2. r[j] = IF j < k THEN w[j] ELSE q[(j - k) + i]
    BY <2>1 DEF HalfEdited
  <2>3. e[j] = IF j = k THEN w[k] ELSE r[j]
    BY <1>3, <2>1
  <2> QED BY <2>1, <2>2, <2>3
<1>6. HalfEdited(e, q, w, i + 1, k + 1)
  BY <1>3, <1>4, <1>5 DEF HalfEdited
<1> QED BY <1>2, <1>6 DEF e

LEMMA Exchanging ==
  ASSUME NEW q \in Seq(Int), NEW w \in Seq(Int), NEW r,
         NEW i \in 1 .. Len(q) - 1, NEW k \in 1 .. Len(w) - 1,
         q[i] = w[k + 1], q[i + 1] = w[k], HalfEdited(r, q, w, i, k)
  PROVE  k \in 1 .. Len(r) - 1 /\ HalfEdited(Exchanged(r, k), q, w, i + 2, k + 2)
<1> DEFINE e == Exchanged(r, k)
<1>1. r \in Seq(Int) /\ Len(r) = (Len(q) - i) + k /\ Len(q) \in Nat
  BY DEF HalfEdited
<1>2. k \in 1 .. Len(r) - 1
  BY <1>1
<1>3. /\ e \in Seq(Int) /\ Len(e) = Len(r)
      /\ \A j \in 1 .. Len(r) : e[j] = IF j = k THEN r[k + 1] ELSE IF j = k + 1 THEN r[k] ELSE r[j]
  BY <1>1, <1>2, ExchangedByPosition
<1> HIDE DEF e
<1>4. Len(e) = (Len(q) - (i + 2)) + (k + 2)
  BY <1>1, <1>3
<1>5. r[k] = w[k + 1] /\ r[k + 1] = w[k]
  <2>1. k \in 1 .. Len(r) /\ k + 1 \in 1 .. Len(r) /\ ~(k < k) /\ ~(k + 1 < k)
        /\ (k - k) + i = i /\ ((k + 1) - k) + i = i + 1
    BY <1>2
  <2> QED BY <2>1 DEF HalfEdited
<1>6. ASSUME NEW j \in 1 .. Len(e)
      PROVE  e[j] = IF j < k + 2 THEN w[j] ELSE q[(j - (k + 2)) + (i + 2)]
  <2>1. j \in 1 .. Len(r) /\ (j - (k + 2)) + (i + 2) = (j - k) + i
    BY <1>3
  <2>2. r[j] = IF j < k THEN w[j] ELSE q[(j - k) + i]
    BY <2>1 DEF HalfEdited
  <2>3. e[j] = IF j = k THEN r[k + 1] ELSE IF j = k + 1 THEN r[k] ELSE r[j]
    BY <1>3, <2>1
  <2>4. j \in Int /\ k \in Int
    BY <2>1
  <2>5. (j < k + 2 <=> j < k \/ j = k \/ j = k + 1) /\ k # k + 1 /\ k < k + 2 /\ k + 1 < k + 2
    BY <2>4, SMTT(30)
  <2>6. CASE j = k
    BY <1>5, <2>3, <2>5, <2>6
  <2>7. CASE j = k + 1
    BY <1>5, <2>3, <2>5, <2>7
  <2>8. CASE j # k /\ j # k + 1
    BY <2>1, <2>2, <2>3, <2>5, <2>8
  <2> QED BY <2>6, <2>7, <2>8
<1>7. HalfEdited(e, q, w, i + 2, k + 2)
  BY <1>3, <1>4, <1>6 DEF HalfEdited
<1> QED BY <1>2, <1>7 DEF e

LEMMA EditingChanges ==
  ASSUME NEW q \in Seq(Int), NEW w \in Seq(Int), NEW r, NEW swap \in BOOLEAN,
         Range(w) \subseteq Letters,
         NEW i \in 1 .. Len(q) + 1, NEW k \in 1 .. Len(w) + 1, HalfEdited(r, q, w, i, k),
         NEW i2 \in 1 .. Len(q) + 1, NEW k2 \in 1 .. Len(w) + 1,
         <<i2, k2>> \in OneEditFrom(q, w, swap, <<i, k>>)
  PROVE  \E e \in OneEdit(r, swap) : HalfEdited(e, q, w, i2, k2)
<1>1. \/ i2 = i + 1 /\ k2 = k
      \/ i2 = i /\ k2 = k + 1
      \/ i2 = i + 1 /\ k2 = k + 1
      \/ swap /\ SwapFrom(q, w, <<i, k>>) /\ i2 = i + 2 /\ k2 = k + 2
  BY DEF OneEditFrom
<1>2. r \in Seq(Int)
  BY DEF HalfEdited
<1>3. CASE i2 = i + 1 /\ k2 = k
  <2>1. i \in 1 .. Len(q)
    BY <1>3
  <2>2. k \in 1 .. Len(r) /\ HalfEdited(RemoveAt(r, k), q, w, i2, k2)
    BY <1>3, <2>1, LeavingOut
  <2>3. RemoveAt(r, k) \in OneEdit(r, swap)
    BY <1>2, <2>2, OneEditCases
  <2> QED BY <2>2, <2>3
<1>4. CASE i2 = i /\ k2 = k + 1
  <2>1. k \in 1 .. Len(w)
    BY <1>4
  <2>2. k \in 1 .. Len(r) + 1 /\ HalfEdited(InsertAt(r, k, w[k]), q, w, i2, k2)
    BY <1>4, <2>1, PuttingIn
  <2>3. w[k] \in Letters
    BY <2>1 DEF Range
  <2>4. InsertAt(r, k, w[k]) \in OneEdit(r, swap)
    BY <1>2, <2>2, <2>3, OneEditCases
  <2> QED BY <2>2, <2>4
<1>5. CASE i2 = i + 1 /\ k2 = k + 1
  <2>1. i \in 1 .. Len(q) /\ k \in 1 .. Len(w)
    BY <1>5
  <2>2. k \in 1 .. Len(r) /\ HalfEdited(ReplaceAt(r, k, w[k]), q, w, i2, k2)
    BY <1>5, <2>1, PuttingForAnother
  <2>3. w[k] \in Letters
    BY <2>1 DEF Range
  <2>4. ReplaceAt(r, k, w[k]) \in OneEdit(r, swap)
    BY <1>2, <2>2, <2>3, OneEditCases
  <2> QED BY <2>2, <2>4
<1>6. CASE swap /\ SwapFrom(q, w, <<i, k>>) /\ i2 = i + 2 /\ k2 = k + 2
  <2>1. i \in 1 .. Len(q) - 1 /\ k \in 1 .. Len(w) - 1
    BY <1>6
  <2>2. q[i] = w[k + 1] /\ q[i + 1] = w[k]
    <3>1. <<i, k>>[1] = i /\ <<i, k>>[2] = k
      OBVIOUS
    <3> QED BY <1>6, <3>1 DEF SwapFrom
  <2>3. k \in 1 .. Len(r) - 1 /\ HalfEdited(Exchanged(r, k), q, w, i2, k2)
    BY <1>6, <2>1, <2>2, Exchanging
  <2>4. Exchanged(r, k) \in OneEdit(r, swap)
    BY <1>2, <1>6, <2>3, OneEditCases
  <2> QED BY <2>3, <2>4
<1> QED BY <1>1, <1>3, <1>4, <1>5, <1>6

\* After m edits, i and k can be the positions to be read next.
PlaceReached(q, w, swap, m, i, k) == \E r \in Edited(q, m, swap) : HalfEdited(r, q, w, i, k)

\* The words within n edits are among those that n edits make.
LEMMA WithinEdited ==
  ASSUME NEW q \in Seq(Int), NEW w \in Seq(Int), Range(w) \subseteq Letters,
         NEW swap \in BOOLEAN, NEW n \in Nat, within(q, w, swap, n)
  PROVE  w \in Edited(q, n, swap)
<1> DEFINE P == {x \in Nat \X Places(q, w) : PlaceReached(q, w, swap, x[1], x[2][1], x[2][2])}
<1>1. ASSUME NEW m \in Nat, NEW i \in 1 .. Len(q) + 1, NEW k \in 1 .. Len(w) + 1
      PROVE  <<m, <<i, k>>>> \in P <=> PlaceReached(q, w, swap, m, i, k)
  BY DEF Places
<1>2. ASSUME NEW m \in Nat, NEW p, <<m, p>> \in P
      PROVE  \E i \in 1 .. Len(q) + 1, k \in 1 .. Len(w) + 1 : p = <<i, k>>
  BY <1>2 DEF Places
<1> HIDE DEF P
<1>3. <<0, Start>> \in P
  <2>1. q \in Edited(q, 0, swap)
    BY WordsByEdit
  <2>2. HalfEdited(q, q, w, 1, 1)
    <3>1. ASSUME NEW j \in 1 .. Len(q) PROVE q[j] = IF j < 1 THEN w[j] ELSE q[(j - 1) + 1]
      <4>1. ~(j < 1) /\ (j - 1) + 1 = j
        OBVIOUS
      <4> QED BY <4>1
    <3>2. Len(q) = (Len(q) - 1) + 1
      OBVIOUS
    <3> QED BY <3>1, <3>2 DEF HalfEdited
  <2>3. PlaceReached(q, w, swap, 0, 1, 1)
    BY <2>1, <2>2 DEF PlaceReached
  <2>4. 0 \in Nat /\ 1 \in 1 .. Len(q) + 1 /\ 1 \in 1 .. Len(w) + 1
    OBVIOUS
  <2>5. <<0, <<1, 1>>>> \in P
    BY <1>1, <2>3, <2>4
  <2> QED BY <2>5 DEF Start
<1>4. ASSUME NEW m \in Nat, NEW i \in Nat, NEW k \in Nat, NEW l \in Nat,
             <<m, <<i, k>>>> \in P, <<i, k>> \in Places(q, w), AlikeTo(q, w, i, k, l)
      PROVE  <<m, <<i + l, k + l>>>> \in P
  <2>1. i \in 1 .. Len(q) + 1 /\ k \in 1 .. Len(w) + 1
    BY <1>4 DEF Places
  <2>2. i + l \in 1 .. Len(q) + 1 /\ k + l \in 1 .. Len(w) + 1
    BY <1>4, <2>1 DEF AlikeTo
  <2>3. PICK r \in Edited(q, m, swap) : HalfEdited(r, q, w, i, k)
    BY <1>1, <1>4, <2>1 DEF PlaceReached
  <2>4. HalfEdited(r, q, w, i + l, k + l)
    BY <1>4, <2>1, <2>3, ReadingKeeps
  <2>5. PlaceReached(q, w, swap, m, i + l, k + l)
    BY <2>3, <2>4 DEF PlaceReached
  <2> QED BY <1>1, <2>2, <2>5
<1>5. ASSUME NEW m \in Nat, NEW t \in Places(q, w), <<m, t>> \in P PROVE <<m + 1, t>> \in P
  <2>1. PICK i \in 1 .. Len(q) + 1, k \in 1 .. Len(w) + 1 : t = <<i, k>>
    BY <1>2, <1>5
  <2>2. PlaceReached(q, w, swap, m, i, k)
    BY <1>1, <1>5, <2>1
  <2>3. Edited(q, m, swap) \subseteq Edited(q, m + 1, swap)
    <3>1. Edited(q, m + 1, swap) = EditedOnce(Edited(q, m, swap), swap)
      BY WordsByEdit
    <3> QED BY <3>1 DEF EditedOnce
  <2>4. PlaceReached(q, w, swap, m + 1, i, k) /\ m + 1 \in Nat
    BY <2>2, <2>3 DEF PlaceReached
  <2> QED BY <1>1, <2>1, <2>4
<1>6. ASSUME NEW m \in Nat, NEW p \in Places(q, w), <<m, p>> \in P,
             NEW t \in OneEditFrom(q, w, swap, p) \cap Places(q, w)
      PROVE  <<m + 1, t>> \in P
  <2>1. PICK i \in 1 .. Len(q) + 1, k \in 1 .. Len(w) + 1 : p = <<i, k>>
    BY <1>2, <1>6
  <2>2. PICK i2 \in 1 .. Len(q) + 1, k2 \in 1 .. Len(w) + 1 : t = <<i2, k2>>
    BY <1>6 DEF Places
  <2>3. PICK r \in Edited(q, m, swap) : HalfEdited(r, q, w, i, k)
    BY <1>1, <1>6, <2>1 DEF PlaceReached
  <2>4. <<i2, k2>> \in OneEditFrom(q, w, swap, <<i, k>>)
    BY <1>6, <2>1, <2>2
  <2>5. PICK e \in OneEdit(r, swap) : HalfEdited(e, q, w, i2, k2)
    BY <2>3, <2>4, EditingChanges
  <2>6. e \in Edited(q, m + 1, swap)
    <3>1. Edited(q, m + 1, swap) = EditedOnce(Edited(q, m, swap), swap)
      BY WordsByEdit
    <3> QED BY <2>3, <2>5, <3>1 DEF EditedOnce
  <2>7. PlaceReached(q, w, swap, m + 1, i2, k2) /\ m + 1 \in Nat
    BY <2>5, <2>6 DEF PlaceReached
  <2> QED BY <1>1, <2>2, <2>7
<1>7. \A m \in Nat : \A t \in PlacesAfter(q, w, swap, m) : <<m, t>> \in P
  BY <1>3, <1>4, <1>5, <1>6, PlacesInduction
<1>8. <<n, <<Len(q) + 1, Len(w) + 1>>>> \in P
  BY <1>7 DEF within, End
<1>9. Len(q) + 1 \in 1 .. Len(q) + 1 /\ Len(w) + 1 \in 1 .. Len(w) + 1
  OBVIOUS
<1>10. PICK r \in Edited(q, n, swap) : HalfEdited(r, q, w, Len(q) + 1, Len(w) + 1)
  BY <1>1, <1>8, <1>9 DEF PlaceReached
<1>11. r = w
  <2>1. r \in Seq(Int) /\ Len(r) = Len(w)
    BY <1>10 DEF HalfEdited
  <2>2. \A j \in 1 .. Len(w) : r[j] = w[j]
    <3>1. ASSUME NEW j \in 1 .. Len(w) PROVE r[j] = w[j]
      <4>1. j < Len(w) + 1 /\ j \in 1 .. Len(r)
        BY <2>1
      <4> QED BY <1>10, <4>1 DEF HalfEdited
    <3> QED BY <3>1
  <2> QED BY <2>1, <2>2, SameText
<1> QED BY <1>10, <1>11

-----------------------------------------------------------------------------
(* A word that some edits make is a place that as many edits lead to. *)

\* P goes on from place to place: by reading a character, and by an edit.
Spreads(P, q, w, swap) ==
  /\ \A n \in Nat, i \in 1 .. Len(q), k \in 1 .. Len(w) :
       <<n, <<i, k>>>> \in P /\ q[i] = w[k] => <<n, <<i + 1, k + 1>>>> \in P
  /\ \A n \in Nat, t \in Places(q, w) : <<n, t>> \in P => <<n + 1, t>> \in P
  /\ \A n \in Nat, p \in Places(q, w) :
       p \in PlacesAfter(q, w, swap, n) /\ <<n, p>> \in P =>
         \A t \in OneEditFrom(q, w, swap, p) \cap Places(q, w) : <<n + 1, t>> \in P

\* Characters can be read one at a time.
LEMMA PlaceByPlace ==
  ASSUME NEW q \in Seq(Int), NEW w \in Seq(Int), NEW swap,
         NEW P, <<0, Start>> \in P, Spreads(P, q, w, swap)
  PROVE  \A n \in Nat : \A t \in PlacesAfter(q, w, swap, n) : <<n, t>> \in P
<1>1. ASSUME NEW n \in Nat, NEW i \in Nat, NEW k \in Nat, NEW m \in Nat,
             <<n, <<i, k>>>> \in P, <<i, k>> \in Places(q, w), AlikeTo(q, w, i, k, m)
      PROVE  <<n, <<i + m, k + m>>>> \in P
  <2> DEFINE S == {l \in Nat : l <= m => <<n, <<i + l, k + l>>>> \in P}
  <2>1. 0 \in S
    <3>1. i + 0 = i /\ k + 0 = k
      OBVIOUS
    <3> QED BY <1>1, <3>1
  <2>2. ASSUME NEW l \in Nat, l \in S PROVE l + 1 \in S
    <3>1. SUFFICES ASSUME l + 1 <= m PROVE <<n, <<i + (l + 1), k + (l + 1)>>>> \in P
      OBVIOUS
    <3>2. l \in 0 .. m - 1 /\ <<n, <<i + l, k + l>>>> \in P
      BY <2>2, <3>1
    <3>3. i + m <= Len(q) + 1 /\ k + m <= Len(w) + 1 /\ q[i + l] = w[k + l]
      BY <1>1, <3>2 DEF AlikeTo
    <3>4. i \in 1 .. Len(q) + 1 /\ k \in 1 .. Len(w) + 1
      BY <1>1 DEF Places
    <3>5. i + l \in 1 .. Len(q) /\ k + l \in 1 .. Len(w)
      <4>1. Len(q) \in Nat /\ Len(w) \in Nat /\ 1 <= i /\ 1 <= k /\ i + m <= Len(q) + 1 /\ k + m <= Len(w) + 1
        BY <3>3, <3>4, SMTT(30)
      <4> HIDE DEF S
      <4> QED BY <3>1, <4>1
    <3>6. <<n, <<(i + l) + 1, (k + l) + 1>>>> \in P
      BY <3>2, <3>3, <3>5 DEF Spreads
    <3>7. (i + l) + 1 = i + (l + 1) /\ (k + l) + 1 = k + (l + 1)
      OBVIOUS
    <3> QED BY <3>6, <3>7
  <2>3. Nat \subseteq S
    <3> HIDE DEF S
    <3> QED BY <2>1, <2>2, SetInduction
  <2>4. m \in S
    BY <2>3
  <2> QED BY <2>4
<1>2. ASSUME NEW n \in Nat, NEW t \in Places(q, w), <<n, t>> \in P PROVE <<n + 1, t>> \in P
  BY <1>2 DEF Spreads
<1>3. ASSUME NEW n \in Nat, NEW p \in Places(q, w), p \in PlacesAfter(q, w, swap, n), <<n, p>> \in P,
             NEW t \in OneEditFrom(q, w, swap, p) \cap Places(q, w)
      PROVE  <<n + 1, t>> \in P
  BY <1>3 DEF Spreads
<1>4. <<0, Start>> \in P
  OBVIOUS
<1> QED BY <1>1, <1>2, <1>3, <1>4, PlacesInduction

\* How to go on from a place: by an edit, or by reading a character that is equal.
LEMMA GoOn ==
  ASSUME NEW q \in Seq(Int), NEW w \in Seq(Int), NEW swap, NEW n \in Nat, NEW i \in Nat, NEW k \in Nat,
         <<i, k>> \in PlacesAfter(q, w, swap, n)
  PROVE  /\ <<i, k>> \in PlacesAfter(q, w, swap, n + 1)
         /\ i + 1 <= Len(q) + 1 => <<i + 1, k>> \in PlacesAfter(q, w, swap, n + 1)
         /\ k + 1 <= Len(w) + 1 => <<i, k + 1>> \in PlacesAfter(q, w, swap, n + 1)
         /\ i + 1 <= Len(q) + 1 /\ k + 1 <= Len(w) + 1 =>
              <<i + 1, k + 1>> \in PlacesAfter(q, w, swap, n + 1)
<1>1. /\ PlacesAfter(q, w, swap, n) \subseteq Places(q, w)
      /\ PlacesAfter(q, w, swap, n) \subseteq PlacesAfter(q, w, swap, n + 1)
      /\ OneEditFrom(q, w, swap, <<i, k>>) \cap Places(q, w) \subseteq PlacesAfter(q, w, swap, n + 1)
  BY PlacesOnward
<1>2. i \in 1 .. Len(q) + 1 /\ k \in 1 .. Len(w) + 1
  BY <1>1 DEF Places
<1>3. {<<i + 1, k>>, <<i, k + 1>>, <<i + 1, k + 1>>} \subseteq OneEditFrom(q, w, swap, <<i, k>>)
  BY DEF OneEditFrom
<1>4. /\ i + 1 <= Len(q) + 1 => i + 1 \in 1 .. Len(q) + 1
      /\ k + 1 <= Len(w) + 1 => k + 1 \in 1 .. Len(w) + 1
  BY <1>2
<1>5. i + 1 <= Len(q) + 1 => <<i + 1, k>> \in PlacesAfter(q, w, swap, n + 1)
  BY <1>1, <1>2, <1>3, <1>4 DEF Places
<1>6. k + 1 <= Len(w) + 1 => <<i, k + 1>> \in PlacesAfter(q, w, swap, n + 1)
  BY <1>1, <1>2, <1>3, <1>4 DEF Places
<1>7. i + 1 <= Len(q) + 1 /\ k + 1 <= Len(w) + 1 => <<i + 1, k + 1>> \in PlacesAfter(q, w, swap, n + 1)
  BY <1>1, <1>2, <1>3, <1>4 DEF Places
<1> QED BY <1>1, <1>5, <1>6, <1>7

LEMMA ReadOn ==
  ASSUME NEW q \in Seq(Int), NEW w \in Seq(Int), NEW swap, NEW n \in Nat, NEW i \in Nat, NEW k \in Nat,
         <<i, k>> \in PlacesAfter(q, w, swap, n), i <= Len(q), k <= Len(w), q[i] = w[k]
  PROVE  <<i + 1, k + 1>> \in PlacesAfter(q, w, swap, n)
<1>1. AlikeTo(q, w, i, k, 1)
  <2>1. \A j \in 0 .. 1 - 1 : j = 0 /\ i + j = i /\ k + j = k
    OBVIOUS
  <2>2. i + 1 <= Len(q) + 1 /\ k + 1 <= Len(w) + 1
    OBVIOUS
  <2> QED BY <2>1, <2>2 DEF AlikeTo
<1> QED BY <1>1, PlacesOnward

\* From position p on, drop characters of u (one or none) are put (one or none) of w.
OneApart(u, w, p, drop, put) ==
  /\ p \in Nat \ {0} /\ drop \in {0, 1} /\ put \in {0, 1} /\ drop + put > 0
  /\ Len(w) = (Len(u) - drop) + put
  /\ p + drop <= Len(u) + 1
  /\ \A j \in 1 .. p - 1 : w[j] = u[j]
  /\ \A j \in p + drop .. Len(u) : w[(j - drop) + put] = u[j]

LEMMA EditIsOneApart ==
  ASSUME Letters \subseteq Int, NEW u \in Seq(Int), NEW w \in OneEdit(u, FALSE)
  PROVE  w \in Seq(Int) /\ \E p, drop, put : OneApart(u, w, p, drop, put)
<1>1. Len(u) \in Nat
  OBVIOUS
<1>2. ASSUME NEW k \in 1 .. Len(u), w = RemoveAt(u, k)
      PROVE  w \in Seq(Int) /\ OneApart(u, w, k, 1, 0)
  <2>1. /\ w \in Seq(Int) /\ Len(w) = Len(u) - 1
        /\ \A j \in 1 .. k - 1 : w[j] = u[j]
        /\ \A j \in k .. Len(u) - 1 : w[j] = u[j + 1]
    BY <1>2, Removed
  <2>2. ASSUME NEW j \in k + 1 .. Len(u) PROVE w[(j - 1) + 0] = u[j]
    <3>1. j - 1 \in k .. Len(u) - 1 /\ (j - 1) + 0 = j - 1 /\ (j - 1) + 1 = j
      BY <1>1
    <3> QED BY <2>1, <3>1
  <2>3. k \in Nat \ {0} /\ Len(w) = (Len(u) - 1) + 0 /\ k + 1 <= Len(u) + 1 /\ 1 + 0 > 0
    BY <1>1, <2>1
  <2> QED BY <2>1, <2>2, <2>3 DEF OneApart
<1>3. ASSUME NEW k \in 1 .. Len(u) + 1, NEW c \in Letters, w = InsertAt(u, k, c)
      PROVE  w \in Seq(Int) /\ OneApart(u, w, k, 0, 1)
  <2>1. /\ w \in Seq(Int) /\ Len(w) = Len(u) + 1
        /\ \A j \in 1 .. k - 1 : w[j] = u[j]
        /\ \A j \in k + 1 .. Len(u) + 1 : w[j] = u[j - 1]
    <3>1. c \in Int
      OBVIOUS
    <3>2. IsInserted(w, u, k, c)
      BY <1>3, <3>1, Inserted
    <3> QED BY <3>2 DEF IsInserted
  <2>2. ASSUME NEW j \in k + 0 .. Len(u) PROVE w[(j - 0) + 1] = u[j]
    <3>1. j + 1 \in k + 1 .. Len(u) + 1 /\ (j - 0) + 1 = j + 1 /\ (j + 1) - 1 = j
      BY <1>1
    <3> QED BY <2>1, <3>1
  <2>3. k \in Nat \ {0} /\ Len(w) = (Len(u) - 0) + 1 /\ k + 0 <= Len(u) + 1 /\ 0 + 1 > 0
    BY <1>1, <2>1
  <2> QED BY <2>1, <2>2, <2>3 DEF OneApart
<1>4. ASSUME NEW k \in 1 .. Len(u), NEW c \in Letters, w = ReplaceAt(u, k, c)
      PROVE  w \in Seq(Int) /\ OneApart(u, w, k, 1, 1)
  <2>1. IsReplaced(w, u, k, c)
    BY <1>4, Replaced
  <2>2. /\ w \in Seq(Int) /\ Len(w) = Len(u)
        /\ \A j \in 1 .. Len(u) : j # k => w[j] = u[j]
    BY <2>1 DEF IsReplaced
  <2>3. ASSUME NEW j \in k + 1 .. Len(u) PROVE w[(j - 1) + 1] = u[j]
    <3>1. j \in 1 .. Len(u) /\ (j - 1) + 1 = j /\ j # k
      BY <1>1
    <3> QED BY <2>2, <3>1
  <2>4. ASSUME NEW j \in 1 .. k - 1 PROVE w[j] = u[j]
    <3>1. j \in 1 .. Len(u) /\ j # k
      BY <1>1
    <3> QED BY <2>2, <3>1
  <2>5. k \in Nat \ {0} /\ Len(w) = (Len(u) - 1) + 1 /\ k + 1 <= Len(u) + 1 /\ 1 + 1 > 0
    BY <1>1, <2>2
  <2> QED BY <2>2, <2>3, <2>4, <2>5 DEF OneApart
<1>5. \/ \E k \in 1 .. Len(u) : w = RemoveAt(u, k)
      \/ \E k \in 1 .. Len(u) + 1, c \in Letters : w = InsertAt(u, k, c)
      \/ \E k \in 1 .. Len(u), c \in Letters : w = ReplaceAt(u, k, c)
  <2>1. FALSE \in BOOLEAN
    OBVIOUS
  <2> QED BY <2>1, OneEditCases
<1>6. CASE \E k \in 1 .. Len(u) : w = RemoveAt(u, k)
  BY <1>2, <1>6
<1>7. CASE \E k \in 1 .. Len(u) + 1, c \in Letters : w = InsertAt(u, k, c)
  BY <1>3, <1>7
<1>8. CASE \E k \in 1 .. Len(u), c \in Letters : w = ReplaceAt(u, k, c)
  BY <1>4, <1>8
<1> QED BY <1>5, <1>6, <1>7, <1>8

\* Where in w is what is at k in u?
Past(k, drop, put) == (k - drop) + put

\* What OneApart() says of the lengths a and b of u and w.
Crosses(p, drop, put, a, b) ==
  /\ p \in Nat /\ p >= 1 /\ a \in Nat /\ b \in Nat /\ drop \in {0, 1} /\ put \in {0, 1}
  /\ drop = 0 => put = 1
  /\ b = (a - drop) + put /\ p + drop <= a + 1 /\ p + put <= b + 1

LEMMA Apart ==
  ASSUME NEW u \in Seq(Int), NEW w \in Seq(Int), NEW p, NEW drop, NEW put, OneApart(u, w, p, drop, put)
  PROVE  Crosses(p, drop, put, Len(u), Len(w))
<1>1. /\ p \in Nat /\ p >= 1 /\ Len(u) \in Nat /\ Len(w) \in Nat /\ drop \in {0, 1} /\ put \in {0, 1}
      /\ drop = 0 => put = 1
      /\ Len(w) = (Len(u) - drop) + put /\ p + drop <= Len(u) + 1
  BY DEF OneApart
<1>2. p + put <= Len(w) + 1
  BY <1>1
<1> QED BY <1>1, <1>2 DEF Crosses

LEMMA Shifted ==
  ASSUME NEW a, NEW b, NEW p, NEW drop, NEW put, Crosses(p, drop, put, a, b),
         NEW k \in Nat, k >= p + drop, k <= a + 1
  PROVE  /\ Past(k, drop, put) \in Nat
         /\ Past(k, drop, put) <= b + 1
         /\ k <= a => Past(k, drop, put) <= b
BY DEF Crosses, Past

LEMMA ShiftedOne ==
  ASSUME NEW k \in Nat, NEW drop \in {0, 1}, NEW put \in {0, 1}
  PROVE  Past(k + 1, drop, put) = Past(k, drop, put) + 1
BY DEF Past

\* A place of q and u is one of q and w as long as both are the same, and with
\* the edit that tells them apart it is one again afterwards.
Carried(q, w, p, drop, put, n, i, k) ==
  /\ k <= p => <<i, k>> \in PlacesAfter(q, w, FALSE, n)
  /\ k >= p + drop => <<i, Past(k, drop, put)>> \in PlacesAfter(q, w, FALSE, n + 1)

\* Before p a step leads to p at most; the step that leads past what is dropped
\* is the one from p, or, where nothing is dropped, the one to p.
LEMMA LastStep ==
  ASSUME NEW p \in Nat, NEW k \in Nat, NEW drop \in {0, 1}, k + 1 >= p + drop, ~(k >= p + drop)
  PROVE  (k = p /\ drop = 1) \/ (k + 1 = p /\ drop = 0)
OBVIOUS

\* To have reached the position after what is dropped, it is enough to have
\* reached the one before what is put.
LEMMA Crossing ==
  ASSUME NEW q \in Seq(Int), NEW u \in Seq(Int), NEW w \in Seq(Int),
         NEW p, NEW drop, NEW put, OneApart(u, w, p, drop, put),
         NEW n \in Nat, NEW i \in 1 .. Len(q) + 1, <<i, p>> \in PlacesAfter(q, w, FALSE, n)
  PROVE  /\ <<i, p + put>> \in PlacesAfter(q, w, FALSE, n + 1)
         /\ drop = 1 /\ i <= Len(q) => <<i + 1, p + put>> \in PlacesAfter(q, w, FALSE, n + 1)
<1>0. Crosses(p, drop, put, Len(u), Len(w))
  BY Apart
<1>1. /\ p \in Nat /\ Len(q) \in Nat /\ i \in Nat /\ p + put <= Len(w) + 1
      /\ (drop = 1 /\ put = 0) \/ (drop = 0 /\ put = 1) \/ (drop = 1 /\ put = 1)
  BY <1>0 DEF Crosses
<1> DEFINE R == PlacesAfter(q, w, FALSE, n + 1)
<1>2. /\ <<i, p>> \in R
      /\ i + 1 <= Len(q) + 1 => <<i + 1, p>> \in R
      /\ p + 1 <= Len(w) + 1 => <<i, p + 1>> \in R
      /\ i + 1 <= Len(q) + 1 /\ p + 1 <= Len(w) + 1 => <<i + 1, p + 1>> \in R
  BY <1>1, GoOn
<1> HIDE DEF R
<1>3. i <= Len(q) => i + 1 <= Len(q) + 1
  BY <1>1
<1>4. CASE put = 0
  <2>1. p + put = p
    BY <1>1, <1>4
  <2> QED BY <1>2, <1>3, <2>1 DEF R
<1>5. CASE put = 1
  BY <1>1, <1>2, <1>3, <1>5 DEF R
<1> QED BY <1>1, <1>4, <1>5

LEMMA CarriedOnward ==
  ASSUME NEW q \in Seq(Int), NEW u \in Seq(Int), NEW w \in Seq(Int),
         NEW p, NEW drop, NEW put, OneApart(u, w, p, drop, put),
         NEW n \in Nat, NEW i \in 1 .. Len(q), NEW k \in 1 .. Len(u), q[i] = u[k],
         Carried(q, w, p, drop, put, n, i, k)
  PROVE  Carried(q, w, p, drop, put, n, i + 1, k + 1)
<1>0. Crosses(p, drop, put, Len(u), Len(w))
  BY Apart
<1>1. /\ p \in Nat /\ p >= 1 /\ Len(u) \in Nat /\ Len(w) \in Nat
      /\ drop \in {0, 1} /\ put \in {0, 1} /\ p + drop <= Len(u) + 1 /\ p + put <= Len(w) + 1
  BY <1>0 DEF Crosses
<1>2. Len(q) \in Nat /\ i + 1 <= Len(q) + 1 /\ i \in Nat /\ k \in Nat /\ i + 1 \in 1 .. Len(q) + 1
      /\ k <= Len(u) /\ i \in 1 .. Len(q) + 1 /\ i <= Len(q)
  OBVIOUS
<1>3. ASSUME k + 1 <= p PROVE <<i + 1, k + 1>> \in PlacesAfter(q, w, FALSE, n)
  <2>1. k <= p /\ k \in 1 .. p - 1 /\ k <= Len(w)
    <3>1. k \in Nat /\ p \in Nat /\ put \in Nat /\ Len(w) \in Nat /\ 1 <= k /\ p + put <= Len(w) + 1
      BY <1>1, <1>2
    <3> QED BY <1>3, <3>1
  <2>2. w[k] = u[k]
    BY <2>1 DEF OneApart
  <2>3. <<i, k>> \in PlacesAfter(q, w, FALSE, n)
    BY <2>1 DEF Carried
  <2> QED BY <1>2, <2>1, <2>2, <2>3, ReadOn
<1>4. ASSUME k + 1 >= p + drop
      PROVE  <<i + 1, Past(k + 1, drop, put)>> \in PlacesAfter(q, w, FALSE, n + 1)
  <2>1. CASE k >= p + drop
    <3> DEFINE l == Past(k, drop, put)
    <3>1. l \in Nat /\ l <= Len(w) /\ l + 1 = Past(k + 1, drop, put)
      <4>1. k <= Len(u) + 1
        BY <1>1, <1>2
      <4>2. l \in Nat /\ l <= Len(w)
        BY <1>0, <1>2, <2>1, <4>1, Shifted
      <4>3. Past(k + 1, drop, put) = l + 1
        BY <1>1, <1>2, ShiftedOne
      <4> QED BY <4>2, <4>3
    <3>2. <<i, l>> \in PlacesAfter(q, w, FALSE, n + 1)
      BY <2>1 DEF Carried
    <3>3. w[l] = u[k]
      <4>1. k \in p + drop .. Len(u)
        BY <1>1, <1>2, <2>1
      <4> QED BY <4>1 DEF OneApart, Past
    <3> HIDE DEF l
    <3>4. <<i + 1, l + 1>> \in PlacesAfter(q, w, FALSE, n + 1)
      <4>1. n + 1 \in Nat /\ q[i] = w[l]
        BY <3>3
      <4> QED BY <1>2, <3>1, <3>2, <4>1, ReadOn
    <3> QED BY <3>1, <3>4
  <2>2. CASE k = p /\ drop = 1
    <3>1. Past(k + 1, drop, put) = p + put /\ k <= p
      BY <1>1, <2>2 DEF Past
    <3>2. <<i, p>> \in PlacesAfter(q, w, FALSE, n)
      BY <2>2, <3>1 DEF Carried
    <3> QED BY <1>2, <2>2, <3>1, <3>2, Crossing
  <2>3. CASE k + 1 = p /\ drop = 0
    <3>1. Past(k + 1, drop, put) = p + put /\ k + 1 <= p
      BY <1>1, <2>3 DEF Past
    <3>2. <<i + 1, p>> \in PlacesAfter(q, w, FALSE, n)
      BY <1>3, <2>3, <3>1
    <3> QED BY <1>2, <3>1, <3>2, Crossing
  <2>4. k >= p + drop \/ (k = p /\ drop = 1) \/ (k + 1 = p /\ drop = 0)
    BY <1>1, <1>2, <1>4, LastStep
  <2> QED BY <2>1, <2>2, <2>3, <2>4
<1> QED BY <1>3, <1>4 DEF Carried

LEMMA CarriedByEdit ==
  ASSUME NEW q \in Seq(Int), NEW u \in Seq(Int), NEW w \in Seq(Int),
         NEW p, NEW drop, NEW put, OneApart(u, w, p, drop, put), NEW n \in Nat,
         NEW i \in 1 .. Len(q) + 1, NEW k \in 1 .. Len(u) + 1,
         NEW i2 \in 1 .. Len(q) + 1, NEW k2 \in 1 .. Len(u) + 1,
         i2 = i \/ i2 = i + 1, k2 = k \/ k2 = k + 1,
         Carried(q, w, p, drop, put, n, i, k)
  PROVE  Carried(q, w, p, drop, put, n + 1, i2, k2)
<1>0. Crosses(p, drop, put, Len(u), Len(w))
  BY Apart
<1>1. /\ p \in Nat /\ p >= 1 /\ Len(u) \in Nat /\ Len(w) \in Nat
      /\ drop \in {0, 1} /\ put \in {0, 1} /\ p + drop <= Len(u) + 1 /\ p + put <= Len(w) + 1
  BY <1>0 DEF Crosses
<1>2. /\ Len(q) \in Nat /\ i \in Nat /\ k \in Nat /\ i2 \in Nat /\ k2 \in Nat /\ n + 1 \in Nat
      /\ i2 <= Len(q) + 1 /\ k2 <= Len(u) + 1 /\ i <= Len(q) + 1
  OBVIOUS
\* The same edit, with w for u.
<1>3. ASSUME NEW m \in Nat, NEW l \in Nat, NEW l2 \in Nat, <<i, l>> \in PlacesAfter(q, w, FALSE, m),
             l2 = l \/ l2 = l + 1, l2 <= Len(w) + 1
      PROVE  <<i2, l2>> \in PlacesAfter(q, w, FALSE, m + 1)
  BY <1>2, <1>3, GoOn
<1>4. ASSUME k2 <= p PROVE <<i2, k2>> \in PlacesAfter(q, w, FALSE, n + 1)
  <2>1. k <= p /\ k2 <= Len(w) + 1
    <3>1. k \in Nat /\ k2 \in Nat /\ p \in Nat /\ put \in Nat /\ Len(w) \in Nat /\ p + put <= Len(w) + 1
      BY <1>1, <1>2
    <3>2. k2 = k \/ k2 = k + 1
      OBVIOUS
    <3> QED BY <1>4, <3>1, <3>2
  <2>2. <<i, k>> \in PlacesAfter(q, w, FALSE, n)
    BY <2>1 DEF Carried
  <2> QED BY <1>2, <1>3, <2>1, <2>2
<1>5. ASSUME k2 >= p + drop
      PROVE  <<i2, Past(k2, drop, put)>> \in PlacesAfter(q, w, FALSE, (n + 1) + 1)
  <2>1. CASE k >= p + drop
    <3> DEFINE l == Past(k, drop, put)
               l2 == Past(k2, drop, put)
    <3>1. l \in Nat /\ l2 \in Nat /\ (l2 = l \/ l2 = l + 1) /\ l2 <= Len(w) + 1
      <4>1. k2 = k \/ k2 = k + 1
        OBVIOUS
      <4>2. k <= Len(u) + 1 /\ k2 >= p + drop
        <5>1. k \in Nat /\ p \in Nat /\ drop \in Nat /\ Len(u) \in Nat /\ k2 <= Len(u) + 1
          BY <1>1, <1>2
        <5> QED BY <2>1, <4>1, <5>1
      <4>3. l \in Nat /\ Past(k + 1, drop, put) = l + 1
        <5>1. l \in Nat
          BY <1>0, <1>2, <2>1, <4>2, Shifted
        <5>2. Past(k + 1, drop, put) = l + 1
          BY <1>1, <1>2, ShiftedOne
        <5> QED BY <5>1, <5>2
      <4>4. l2 \in Nat /\ l2 <= Len(w) + 1
        BY <1>0, <1>1, <1>2, <4>2, Shifted
      <4>5. l2 = l \/ l2 = l + 1
        BY <4>1, <4>3
      <4> QED BY <4>3, <4>4, <4>5
    <3>2. <<i, l>> \in PlacesAfter(q, w, FALSE, n + 1)
      BY <2>1 DEF Carried
    <3> HIDE DEF l, l2
    <3>3. <<i2, l2>> \in PlacesAfter(q, w, FALSE, (n + 1) + 1)
      BY <1>2, <1>3, <3>1, <3>2
    <3> QED BY <3>3 DEF l2
  <2>2. CASE k = p /\ drop = 1 /\ k2 = k + 1
    <3>1. Past(k2, drop, put) = p + put /\ k <= p /\ p + put <= Len(w) + 1 /\ p + put \in Nat
          /\ (p + put = p \/ p + put = p + 1)
      BY <1>1, <2>2 DEF Past
    <3>2. <<i, p>> \in PlacesAfter(q, w, FALSE, n)
      BY <2>2, <3>1 DEF Carried
    <3>3. <<i2, p + put>> \in PlacesAfter(q, w, FALSE, n + 1)
      BY <1>1, <1>3, <3>1, <3>2
    <3>4. <<i2, p + put>> \in PlacesAfter(q, w, FALSE, (n + 1) + 1)
      BY <1>2, <3>1, <3>3, GoOn
    <3> QED BY <3>1, <3>4
  <2>3. CASE k + 1 = p /\ drop = 0 /\ k2 = k + 1
    <3>1. Past(k2, drop, put) = p + put /\ k2 <= p
      BY <1>1, <2>3 DEF Past
    <3>2. <<i2, p>> \in PlacesAfter(q, w, FALSE, n + 1)
      BY <1>4, <2>3, <3>1
    <3> QED BY <1>2, <3>1, <3>2, Crossing
  <2>4. k >= p + drop \/ (k = p /\ drop = 1 /\ k2 = k + 1) \/ (k + 1 = p /\ drop = 0 /\ k2 = k + 1)
    <3>1. CASE k2 = k
      BY <1>5, <3>1
    <3>2. CASE k2 = k + 1
      BY <1>1, <1>2, <1>5, <3>2, LastStep
    <3> QED BY <3>1, <3>2
  <2> QED BY <2>1, <2>2, <2>3, <2>4
<1> QED BY <1>4, <1>5 DEF Carried

LEMMA EditStaysWithin ==
  ASSUME Letters \subseteq Int, NEW q \in Seq(Int), NEW u \in Seq(Int), NEW w \in OneEdit(u, FALSE),
         NEW n \in Nat, within(q, u, FALSE, n)
  PROVE  within(q, w, FALSE, n + 1)
<1>1. w \in Seq(Int)
  BY EditIsOneApart
<1>2. PICK p, drop, put : OneApart(u, w, p, drop, put)
  BY EditIsOneApart
<1>3. Crosses(p, drop, put, Len(u), Len(w))
  BY <1>1, <1>2, Apart
<1>4. /\ p \in Nat /\ p >= 1 /\ Len(u) \in Nat /\ Len(w) \in Nat
      /\ drop \in {0, 1} /\ put \in {0, 1} /\ p + drop <= Len(u) + 1
  BY <1>3 DEF Crosses
<1> DEFINE C(m, i, k) == Carried(q, w, p, drop, put, m, i, k)
           P == {x \in Nat \X Places(q, u) : C(x[1], x[2][1], x[2][2])}
<1>5. ASSUME NEW m \in Nat, NEW i \in 1 .. Len(q) + 1, NEW k \in 1 .. Len(u) + 1
      PROVE  <<m, <<i, k>>>> \in P <=> Carried(q, w, p, drop, put, m, i, k)
  BY DEF Places
<1> HIDE DEF P
<1>6. <<0, Start>> \in P
  <2>1. <<1, 1>> \in PlacesAfter(q, w, FALSE, 0)
    <3>1. <<1, 1>> \in {Start} /\ {Start} \subseteq Places(q, w)
      BY <1>1 DEF Start, Places
    <3>2. AlikeTo(q, w, 1, 1, 0) /\ 1 + 0 = 1
      BY <1>1 DEF AlikeTo
    <3>3. <<1 + 0, 1 + 0>> \in Alike(q, w, {Start})
      BY <1>1, <3>1, <3>2, AlikeOf
    <3> QED BY <3>2, <3>3, PlacesByEdit
  <2>2. 1 \in 1 .. Len(q) + 1 /\ 1 \in 1 .. Len(u) + 1
    OBVIOUS
  <2>3. ASSUME 1 >= p + drop PROVE <<1, Past(1, drop, put)>> \in PlacesAfter(q, w, FALSE, 0 + 1)
    <3>1. p = 1 /\ drop = 0
      BY <1>4, <2>3
    <3>2. Past(1, drop, put) = p + put
      BY <1>4, <3>1 DEF Past
    <3>3. <<1, p + put>> \in PlacesAfter(q, w, FALSE, 0 + 1)
      BY <1>1, <1>2, <2>1, <2>2, <3>1, Crossing
    <3> QED BY <3>2, <3>3
  <2>4. Carried(q, w, p, drop, put, 0, 1, 1)
    BY <2>1, <2>3 DEF Carried
  <2> QED BY <1>5, <2>2, <2>4 DEF Start
<1>7. Spreads(P, q, u, FALSE)
  <2>1. ASSUME NEW m \in Nat, NEW i \in 1 .. Len(q), NEW k \in 1 .. Len(u), <<m, <<i, k>>>> \in P, q[i] = u[k]
        PROVE  <<m, <<i + 1, k + 1>>>> \in P
    <3>1. i \in 1 .. Len(q) + 1 /\ k \in 1 .. Len(u) + 1 /\ i + 1 \in 1 .. Len(q) + 1 /\ k + 1 \in 1 .. Len(u) + 1
      OBVIOUS
    <3>2. Carried(q, w, p, drop, put, m, i, k)
      BY <1>5, <2>1, <3>1
    <3>3. Carried(q, w, p, drop, put, m, i + 1, k + 1)
      BY <1>1, <1>2, <2>1, <3>2, CarriedOnward
    <3> QED BY <1>5, <3>1, <3>3
  <2>2. ASSUME NEW m \in Nat, NEW i \in 1 .. Len(q) + 1, NEW k \in 1 .. Len(u) + 1,
               NEW i2 \in 1 .. Len(q) + 1, NEW k2 \in 1 .. Len(u) + 1,
               i2 = i \/ i2 = i + 1, k2 = k \/ k2 = k + 1, <<m, <<i, k>>>> \in P
        PROVE  <<m + 1, <<i2, k2>>>> \in P
    <3>1. Carried(q, w, p, drop, put, m, i, k)
      BY <1>5, <2>2
    <3>2. Carried(q, w, p, drop, put, m + 1, i2, k2) /\ m + 1 \in Nat
      BY <1>1, <1>2, <2>2, <3>1, CarriedByEdit
    <3> QED BY <1>5, <3>2
  <2>3. ASSUME NEW m \in Nat, NEW t \in Places(q, u), <<m, t>> \in P PROVE <<m + 1, t>> \in P
    <3>1. PICK i \in 1 .. Len(q) + 1, k \in 1 .. Len(u) + 1 : t = <<i, k>>
      BY DEF Places
    <3> QED BY <2>2, <2>3, <3>1
  <2>4. ASSUME NEW m \in Nat, NEW s \in Places(q, u), <<m, s>> \in P,
               NEW t \in OneEditFrom(q, u, FALSE, s) \cap Places(q, u)
        PROVE  <<m + 1, t>> \in P
    <3>1. PICK i \in 1 .. Len(q) + 1, k \in 1 .. Len(u) + 1 : s = <<i, k>>
      BY DEF Places
    <3>2. PICK i2 \in 1 .. Len(q) + 1, k2 \in 1 .. Len(u) + 1 : t = <<i2, k2>>
      BY DEF Places
    <3>3. (i2 = i \/ i2 = i + 1) /\ (k2 = k \/ k2 = k + 1)
      BY <2>4, <3>1, <3>2 DEF OneEditFrom
    <3> QED BY <2>2, <2>4, <3>1, <3>2, <3>3
  <2> QED BY <2>1, <2>3, <2>4 DEF Spreads
<1>8. <<n, <<Len(q) + 1, Len(u) + 1>>>> \in P
  BY <1>6, <1>7, PlaceByPlace DEF within, End
<1>9. Len(q) + 1 \in 1 .. Len(q) + 1 /\ Len(u) + 1 \in 1 .. Len(u) + 1
  OBVIOUS
<1>10. Carried(q, w, p, drop, put, n, Len(q) + 1, Len(u) + 1)
  BY <1>5, <1>8, <1>9
<1>11. Past(Len(u) + 1, drop, put) = Len(w) + 1
  BY <1>3 DEF Crosses, Past
<1>12. Len(u) + 1 >= p + drop
  BY <1>4
<1> QED BY <1>10, <1>11, <1>12 DEF Carried, within, End

LEMMA WithinItself ==
  ASSUME NEW q \in Seq(Int), NEW swap
  PROVE  within(q, q, swap, 0)
<1>1. <<1, 1>> \in {Start} /\ {Start} \subseteq Places(q, q)
  BY DEF Start, Places
<1>2. AlikeTo(q, q, 1, 1, Len(q)) /\ 1 + Len(q) = Len(q) + 1 /\ Len(q) \in Nat
  BY DEF AlikeTo
<1>3. <<1 + Len(q), 1 + Len(q)>> \in Alike(q, q, {Start})
  BY <1>1, <1>2, AlikeOf
<1> QED BY <1>2, <1>3, PlacesByEdit DEF within, End

LEMMA WithinMore ==
  ASSUME NEW q \in Seq(Int), NEW w \in Seq(Int), NEW swap, NEW n \in Nat, within(q, w, swap, n)
  PROVE  within(q, w, swap, n + 1)
BY PlacesOnward DEF within

AllWithin(q, n) == \A w \in Edited(q, n, FALSE) : w \in Seq(Int) /\ within(q, w, FALSE, n)

\* The words that n edits make are within n edits.
LEMMA EditedWithin ==
  ASSUME Letters \subseteq Int, NEW q \in Seq(Int), NEW n \in Nat, NEW w \in Edited(q, n, FALSE)
  PROVE  w \in Seq(Int) /\ within(q, w, FALSE, n)
<1> DEFINE S == {m \in Nat : AllWithin(q, m)}
<1>1. 0 \in S
  <2>1. Edited(q, 0, FALSE) = {q}
    BY WordsByEdit
  <2>2. within(q, q, FALSE, 0)
    BY WithinItself
  <2>3. AllWithin(q, 0)
    BY <2>1, <2>2 DEF AllWithin
  <2> QED BY <2>3
<1>2. ASSUME NEW m \in Nat, AllWithin(q, m) PROVE AllWithin(q, m + 1)
  <2>1. SUFFICES ASSUME NEW x \in Edited(q, m + 1, FALSE)
                 PROVE  x \in Seq(Int) /\ within(q, x, FALSE, m + 1)
    BY DEF AllWithin
  <2>2. Edited(q, m + 1, FALSE) = EditedOnce(Edited(q, m, FALSE), FALSE)
    BY WordsByEdit
  <2>3. \A u \in Edited(q, m, FALSE) : u \in Seq(Int) /\ within(q, u, FALSE, m)
    BY <1>2 DEF AllWithin
  <2>4. CASE x \in Edited(q, m, FALSE)
    BY <2>3, <2>4, WithinMore
  <2>5. CASE x \notin Edited(q, m, FALSE)
    <3>1. PICK u \in Edited(q, m, FALSE) : x \in OneEdit(u, FALSE)
      BY <2>1, <2>2, <2>5 DEF EditedOnce
    <3>2. u \in Seq(Int) /\ within(q, u, FALSE, m)
      BY <2>3
    <3>3. x \in Seq(Int)
      BY <3>1, <3>2, EditIsOneApart
    <3>4. within(q, x, FALSE, m + 1)
      BY <3>1, <3>2, EditStaysWithin
    <3> QED BY <3>3, <3>4
  <2> QED BY <2>4, <2>5
<1>3. \A m \in S : m + 1 \in S
  BY <1>2
<1>4. Nat \subseteq S
  <2> HIDE DEF S
  <2> QED BY <1>1, <1>3, SetInduction
<1>5. AllWithin(q, n)
  BY <1>4
<1> QED BY <1>5 DEF AllWithin

\* To exchange neighbours is one more way, not one less.
LEMMA SwapAllowsMore ==
  ASSUME NEW q \in Seq(Int), NEW w \in Seq(Int), NEW n \in Nat, within(q, w, FALSE, n)
  PROVE  within(q, w, TRUE, n)
<1> DEFINE P == {x \in Nat \X Places(q, w) : x[2] \in PlacesAfter(q, w, TRUE, x[1])}
<1>1. ASSUME NEW m \in Nat, NEW t \in Places(q, w)
      PROVE  <<m, t>> \in P <=> t \in PlacesAfter(q, w, TRUE, m)
  OBVIOUS
<1>2. P \subseteq Nat \X Places(q, w)
  OBVIOUS
<1> HIDE DEF P
<1>3. Start \in Places(q, w)
  BY DEF Start, Places
<1>4. <<0, Start>> \in P
  <2>1. <<1, 1>> \in {Start} /\ {Start} \subseteq Places(q, w)
    BY DEF Start, Places
  <2>2. AlikeTo(q, w, 1, 1, 0) /\ 1 + 0 = 1
    BY DEF AlikeTo
  <2>3. <<1 + 0, 1 + 0>> \in Alike(q, w, {Start})
    BY <2>1, <2>2, AlikeOf
  <2>4. Start \in PlacesAfter(q, w, TRUE, 0)
    BY <2>2, <2>3, PlacesByEdit DEF Start
  <2> QED BY <1>1, <1>3, <2>4
<1>5. Spreads(P, q, w, FALSE)
  <2>1. ASSUME NEW m \in Nat, NEW i \in 1 .. Len(q), NEW k \in 1 .. Len(w), <<m, <<i, k>>>> \in P, q[i] = w[k]
        PROVE  <<m, <<i + 1, k + 1>>>> \in P
    <3>1. /\ <<i, k>> \in Places(q, w) /\ <<i + 1, k + 1>> \in Places(q, w)
          /\ i \in Nat /\ k \in Nat /\ i <= Len(q) /\ k <= Len(w)
      BY DEF Places
    <3>2. <<i, k>> \in PlacesAfter(q, w, TRUE, m)
      BY <1>1, <2>1, <3>1
    <3>3. <<i + 1, k + 1>> \in PlacesAfter(q, w, TRUE, m)
      BY <2>1, <3>1, <3>2, ReadOn
    <3> QED BY <1>1, <3>1, <3>3
  <2>2. ASSUME NEW m \in Nat, NEW t \in Places(q, w), <<m, t>> \in P PROVE <<m + 1, t>> \in P
    <3>1. t \in PlacesAfter(q, w, TRUE, m)
      BY <1>1, <2>2
    <3>2. PlacesAfter(q, w, TRUE, m) \subseteq PlacesAfter(q, w, TRUE, m + 1)
      BY PlacesOnward
    <3>3. m + 1 \in Nat
      OBVIOUS
    <3> QED BY <1>1, <3>1, <3>2, <3>3
  <2>3. ASSUME NEW m \in Nat, NEW s \in Places(q, w), <<m, s>> \in P,
               NEW t \in OneEditFrom(q, w, FALSE, s) \cap Places(q, w)
        PROVE  <<m + 1, t>> \in P
    <3>1. s \in PlacesAfter(q, w, TRUE, m)
      BY <1>1, <2>3
    <3>2. t \in OneEditFrom(q, w, TRUE, s) \cap Places(q, w)
      BY <2>3 DEF OneEditFrom
    <3>3. t \in PlacesAfter(q, w, TRUE, m + 1)
      BY <3>1, <3>2, PlacesOnward
    <3>4. m + 1 \in Nat
      OBVIOUS
    <3> QED BY <1>1, <3>3, <3>4
  <2> QED BY <2>1, <2>2, <2>3 DEF Spreads
<1>6. <<n, End(q, w)>> \in P
  BY <1>4, <1>5, PlaceByPlace DEF within
<1> QED BY <1>1, <1>2, <1>6 DEF within, End, Places

\* A word with two neighbours exchanged is within one edit.
LEMMA ExchangeWithin ==
  ASSUME NEW q \in Seq(Int), NEW k \in 1 .. Len(q) - 1
  PROVE  within(q, Exchanged(q, k), TRUE, 1)
<1> DEFINE w == Exchanged(q, k)
<1>1. /\ w \in Seq(Int) /\ Len(w) = Len(q)
      /\ \A j \in 1 .. Len(q) : w[j] = IF j = k THEN q[k + 1] ELSE IF j = k + 1 THEN q[k] ELSE q[j]
  BY ExchangedByPosition
<1> HIDE DEF w
<1>2. /\ k \in Nat /\ k - 1 \in Nat /\ Len(q) \in Nat /\ k >= 1 /\ k + 1 <= Len(q)
      /\ 1 + (k - 1) = k /\ k \in 1 .. Len(q) /\ k + 1 \in 1 .. Len(q) /\ k + 1 # k
  OBVIOUS
<1>3. <<k, k>> \in PlacesAfter(q, w, TRUE, 0)
  <2>1. <<1, 1>> \in {Start} /\ {Start} \subseteq Places(q, w)
    BY <1>1 DEF Start, Places
  <2>2. AlikeTo(q, w, 1, 1, k - 1)
    <3>1. ASSUME NEW j \in 0 .. (k - 1) - 1 PROVE q[1 + j] = w[1 + j]
      <4>1. 1 + j \in 1 .. Len(q) /\ 1 + j # k /\ 1 + j # k + 1
        BY <1>2
      <4> QED BY <1>1, <4>1
    <3>2. 1 + (k - 1) <= Len(q) + 1 /\ 1 + (k - 1) <= Len(w) + 1
      BY <1>1, <1>2
    <3> QED BY <3>1, <3>2 DEF AlikeTo
  <2>3. <<1 + (k - 1), 1 + (k - 1)>> \in Alike(q, w, {Start})
    BY <1>1, <1>2, <2>1, <2>2, AlikeOf
  <2> QED BY <1>2, <2>3, PlacesByEdit
<1>4. <<k + 2, k + 2>> \in PlacesAfter(q, w, TRUE, 1)
  <2>1. w[k] = q[k + 1] /\ w[k + 1] = q[k]
    BY <1>1, <1>2
  <2>2. SwapFrom(q, w, <<k, k>>)
    <3>1. <<k, k>>[1] = k /\ <<k, k>>[2] = k /\ k < Len(q) /\ k < Len(w)
      BY <1>1, <1>2
    <3> QED BY <2>1, <3>1 DEF SwapFrom
  <2>3. <<k + 2, k + 2>> \in OneEditFrom(q, w, TRUE, <<k, k>>)
    BY <2>2 DEF OneEditFrom
  <2>4. <<k + 2, k + 2>> \in Places(q, w)
    BY <1>1, <1>2 DEF Places
  <2>5. 0 \in Nat /\ 0 + 1 = 1
    OBVIOUS
  <2>6. OneEditFrom(q, w, TRUE, <<k, k>>) \cap Places(q, w) \subseteq PlacesAfter(q, w, TRUE, 0 + 1)
    BY <1>1, <1>3, <2>5, PlacesOnward
  <2> QED BY <2>3, <2>4, <2>5, <2>6
<1>5. <<Len(q) + 1, Len(q) + 1>> \in PlacesAfter(q, w, TRUE, 1)
  <2> DEFINE l == Len(q) - (k + 1)
  <2>1. l \in Nat /\ (k + 2) + l = Len(q) + 1 /\ k + 2 \in Nat
    BY <1>2
  <2>2. AlikeTo(q, w, k + 2, k + 2, l)
    <3>1. ASSUME NEW j \in 0 .. l - 1 PROVE q[(k + 2) + j] = w[(k + 2) + j]
      <4>1. (k + 2) + j \in 1 .. Len(q) /\ (k + 2) + j # k /\ (k + 2) + j # k + 1
        BY <1>2
      <4> QED BY <1>1, <4>1
    <3> QED BY <1>1, <2>1, <3>1 DEF AlikeTo
  <2> HIDE DEF l
  <2>3. <<(k + 2) + l, (k + 2) + l>> \in PlacesAfter(q, w, TRUE, 1)
    BY <1>1, <1>4, <2>1, <2>2, PlacesOnward
  <2> QED BY <2>1, <2>3
<1> QED BY <1>1, <1>5 DEF within, End, w

\* What n typing errors make of q is within n edits, for a swap that counts as
\* one too if it is the only error.
LEMMA ErrorsWithin ==
  ASSUME Letters \subseteq Int, NEW q \in Seq(Int), NEW n \in Nat, NEW swap \in BOOLEAN,
         NEW w \in Edited(q, n, swap /\ n = 1)
  PROVE  within(q, w, swap, n)
<1>1. ASSUME NEW m \in Nat, NEW x \in Edited(q, m, FALSE) PROVE within(q, x, swap, m)
  <2>1. x \in Seq(Int) /\ within(q, x, FALSE, m)
    BY <1>1, EditedWithin
  <2>2. CASE swap = FALSE
    BY <2>1, <2>2
  <2>3. CASE swap = TRUE
    <3>1. within(q, x, TRUE, m)
      BY <2>1, SwapAllowsMore
    <3> QED BY <2>3, <3>1
  <2> QED BY <2>2, <2>3
<1>2. CASE ~swap \/ n # 1
  <2>1. (swap /\ n = 1) = FALSE
    BY <1>2
  <2>2. w \in Edited(q, n, FALSE)
    BY <2>1
  <2> QED BY <1>1, <2>2
<1>3. CASE swap = TRUE /\ n = 1
  <2>1. (swap /\ n = 1) = TRUE
    BY <1>3
  <2>2. w \in Edited(q, 1, TRUE)
    BY <1>3, <2>1
  <2>3. \A s \in BOOLEAN : Edited(q, 1, s) = {q} \cup OneEdit(q, s)
    <3> SUFFICES ASSUME NEW s \in BOOLEAN PROVE Edited(q, 1, s) = {q} \cup OneEdit(q, s)
      OBVIOUS
    <3>1. Edited(q, 0, s) = {q}
      BY WordsByEdit
    <3>2. Edited(q, 0 + 1, s) = EditedOnce(Edited(q, 0, s), s)
      BY WordsByEdit
    <3>3. 0 + 1 = 1
      OBVIOUS
    <3>4. Edited(q, 1, s) = EditedOnce({q}, s)
      BY <3>1, <3>2, <3>3
    <3>5. EditedOnce({q}, s) = {q} \cup OneEdit(q, s)
      BY DEF EditedOnce
    <3> QED BY <3>4, <3>5
  <2>4. FALSE \in BOOLEAN /\ TRUE \in BOOLEAN
    OBVIOUS
  <2>5. CASE w = q \/ w \in OneEdit(q, FALSE)
    <3>1. w \in Edited(q, 1, FALSE)
      BY <2>3, <2>4, <2>5
    <3>2. within(q, w, swap, 1)
      BY <1>1, <3>1
    <3> QED BY <1>3, <3>2
  <2>6. CASE ~(w = q \/ w \in OneEdit(q, FALSE))
    <3>1. w \in OneEdit(q, TRUE)
      BY <2>2, <2>3, <2>4, <2>6
    <3>2. PICK k \in 1 .. Len(q) - 1 : w = Exchanged(q, k)
      BY <2>4, <2>6, <3>1, OneEditCases
    <3>3. within(q, w, TRUE, 1)
      BY <3>2, ExchangeWithin
    <3> QED BY <1>3, <3>3
  <2> QED BY <2>5, <2>6
<1> QED BY <1>2, <1>3

LEMMA AllowedErrors ==
  ASSUME NEW q \in Seq(Int)
  PROVE  /\ max_distance(q) \in Nat
         /\ max_distance(q) = IF Len(q) < 8 THEN 1 ELSE Len(q) \div 4
<1> DEFINE a == Len(q) \div 4
           S == {a, 1}
<1>1. a \in Nat /\ (Len(q) < 8 => a <= 1) /\ (Len(q) >= 8 => a >= 1) /\ Len(q) \in Nat
  OBVIOUS
<1> HIDE DEF a
<1>2. \E x \in S : \A y \in S : x >= y
  <2>1. CASE a <= 1
    <3>1. \A y \in S : 1 >= y
      BY <1>1, <2>1
    <3> QED BY <3>1
  <2>2. CASE a >= 1
    <3>1. \A y \in S : a >= y
      BY <1>1, <2>2
    <3> QED BY <3>1
  <2> QED BY <1>1, <2>1, <2>2
<1> HIDE DEF S
<1>3. Max(S) \in S /\ \A y \in S : Max(S) >= y
  BY <1>2, Zenon DEF Max
<1> USE DEF S
<1>4. max_distance(q) = Max(S)
  BY DEF max_distance, a
<1> DEFINE m == Max(S)
<1>5. (m = a \/ m = 1) /\ m >= a /\ m >= 1
  BY <1>3
<1> HIDE DEF m, S
<1>6. m = IF Len(q) < 8 THEN 1 ELSE a
  BY <1>1, <1>5
<1>7. m \in Nat
  BY <1>1, <1>5
<1> QED BY <1>4, <1>6, <1>7 DEF a, m

-----------------------------------------------------------------------------
(* The answers. *)

\* The hits that the scan of a column makes of a query.
Scanned == {s \in index : InRange(s, query, range_upper_bound(query))}

ScannedReversed ==
  {s \in index : InRange(Reverse(s), Reverse(query), range_upper_bound(Reverse(query)))}

\* The documents AllTerms and FuzzyTrigram find.
WithAllWords == {s \in index : Words(query) # {} /\ \A w \in Words(query) : LikeInfix(w, s)}

SimilarCandidates == {s \in Candidates(query) : Similar(trigrams(query), trigrams(s))}

\* What is kept between the steps: a query of the index is answered once, by
\* its strategy.
AnswersInv ==
  /\ index \in Indexes
  /\ query \in index
  /\ Answered({"Prefix"}) => hits = Scanned
  /\ Answered({"Suffix"}) => hits = ScannedReversed
  /\ Answered({"TrigramBm25", "Substring"}) => hits = Substrings(query)
  /\ Answered({"AllTerms"}) => hits = WithAllWords
  /\ Answered({"FuzzyTrigram"}) /\ Len(query) >= 3 => hits = SimilarCandidates
  /\ Answered({"Levenshtein"}) => hits = word_fuzzy_search(FALSE)
  /\ Answered({"DamerauLevenshtein"}) => hits = word_fuzzy_search(TRUE)

LEMMA AnswersStay ==
  ASSUME UNCHANGED <<index, query>>
  PROVE  /\ Scanned' = Scanned /\ ScannedReversed' = ScannedReversed
         /\ Substrings(query)' = Substrings(query) /\ WithAllWords' = WithAllWords
         /\ SimilarCandidates' = SimilarCandidates
         /\ word_fuzzy_search(FALSE)' = word_fuzzy_search(FALSE)
         /\ word_fuzzy_search(TRUE)' = word_fuzzy_search(TRUE)
<1>1. Scanned' = Scanned /\ ScannedReversed' = ScannedReversed
  BY DEF Scanned, ScannedReversed
<1>2. Substrings(query)' = Substrings(query)
  BY DEF Substrings, Fts5Match
<1>3. WithAllWords' = WithAllWords
  BY DEF WithAllWords
<1>4. SimilarCandidates' = SimilarCandidates
  BY DEF SimilarCandidates, Candidates, Fts5Match
<1>5. /\ word_fuzzy_search(FALSE)' = word_fuzzy_search(FALSE)
      /\ word_fuzzy_search(TRUE)' = word_fuzzy_search(TRUE)
  BY DEF word_fuzzy_search
<1> QED BY <1>1, <1>2, <1>3, <1>4, <1>5

\* No other strategy answers for a query's own.
LEMMA AnsweredOnce ==
  ASSUME NEW name, NEW found, Answer(name, found), AnswersInv,
         name = "Prefix" => found = Scanned,
         name = "Suffix" => found = ScannedReversed,
         name \in {"TrigramBm25", "Substring"} => found = Substrings(query),
         name = "AllTerms" => found = WithAllWords,
         name = "FuzzyTrigram" /\ Len(query) >= 3 => found = SimilarCandidates,
         name = "Levenshtein" => found = word_fuzzy_search(FALSE),
         name = "DamerauLevenshtein" => found = word_fuzzy_search(TRUE)
  PROVE  AnswersInv'
<1>1. UNCHANGED <<index, strategy, query>> /\ strategy = name /\ hits' = found
  BY DEF Answer
<1> QED
  BY <1>1, AnswersStay DEF AnswersInv, Answered

LEMMA InitAnswers == Init => AnswersInv
BY DEF Init, AnswersInv, Answered

LEMMA NextAnswers ==
  ASSUME TextAssumption
  PROVE  AnswersInv /\ [Next]_vars => AnswersInv'
<1> SUFFICES ASSUME AnswersInv, [Next]_vars  PROVE AnswersInv'
  OBVIOUS
<1>1. CASE trigram_bm25
  BY <1>1, AnsweredOnce DEF trigram_bm25
<1>2. CASE substring
  BY <1>2, AnsweredOnce DEF substring
<1>3. CASE all_terms
  <2> DEFINE found == IF Words(query) = {} THEN {} ELSE {s \in index : \A w \in Words(query) : LikeInfix(w, s)}
  <2>1. found = WithAllWords
    BY DEF WithAllWords
  <2> HIDE DEF found
  <2>2. Answer("AllTerms", found)
    BY <1>3 DEF all_terms, found
  <2> QED BY <2>1, <2>2, AnsweredOnce
<1>4. CASE prefix
  BY <1>4, AnsweredOnce DEF prefix, Scanned
<1>5. CASE suffix
  BY <1>5, AnsweredOnce DEF suffix, ScannedReversed
<1>6. CASE fuzzy_trigram
  <2> DEFINE found == IF Len(query) < 3 THEN {s \in index : s = query} ELSE SimilarCandidates
  <2>1. Answer("FuzzyTrigram", found)
    BY <1>6 DEF fuzzy_trigram, SimilarCandidates
  <2>2. Len(query) >= 3 => found = SimilarCandidates
    <3>1. Len(query) \in Nat
      BY DEF AnswersInv, TextAssumption
    <3> QED BY <3>1
  <2> HIDE DEF found
  <2> QED BY <2>1, <2>2, AnsweredOnce
<1>7. CASE levenshtein
  BY <1>7, AnsweredOnce DEF levenshtein
<1>8. CASE damerau_levenshtein
  BY <1>8, AnsweredOnce DEF damerau_levenshtein
<1>9. CASE UNCHANGED vars
  BY <1>9, AnswersStay DEF vars, AnswersInv, Answered
<1> QED
  BY <1>1, <1>2, <1>3, <1>4, <1>5, <1>6, <1>7, <1>8, <1>9 DEF Next

LEMMA AnswersInvariance == Spec => []AnswersInv
BY InitAnswers, NextAnswers, TextAssumption, PTL DEF Spec

LEMMA ReversedText ==
  ASSUME NEW s, Text(s)
  PROVE  Text(Reverse(s))
<1>1. Len(s) \in Nat /\ s \in Seq(Int)
  BY DEF Text
<1>2. \A i \in 1 .. Len(s) : Len(s) - i + 1 \in DOMAIN s
  BY <1>1
<1>3. Reverse(s) \in Seq(Int) /\ DOMAIN Reverse(s) = 1 .. Len(s)
  BY <1>1, <1>2 DEF Reverse
<1> QED
  BY <1>2, <1>3 DEF Text, Reverse

LEMMA TextsOfIndex ==
  ASSUME TextAssumption, AnswersInv
  PROVE  \A s \in index : Text(s)
BY DEF TextAssumption, AnswersInv, Text

LEMMA InvMisses == TextAssumption /\ AnswersInv => ScanMissesNothing
<1> SUFFICES ASSUME TextAssumption, AnswersInv, Answered({"Prefix", "Suffix"}),
                    NEW s \in index, s \in Matches
             PROVE  s \in hits
  BY DEF ScanMissesNothing, Matches
<1>1. Text(s) /\ Text(query)
  BY TextsOfIndex DEF AnswersInv
<1>2. CASE strategy = "Prefix"
  <2>1. hits = Scanned /\ IsPrefix(query, s)
    BY <1>2 DEF AnswersInv, Answered, Matches
  <2> QED BY <1>1, <2>1, RangeHoldsPrefixed DEF Scanned, Text
<1>3. CASE strategy = "Suffix"
  <2>1. hits = ScannedReversed /\ IsPrefix(Reverse(query), Reverse(s))
    BY <1>3 DEF AnswersInv, Answered, Matches, IsSuffix
  <2>2. Reverse(s) \in Seq(Int) /\ Reverse(query) \in Seq(Int)
    BY <1>1, ReversedText DEF Text
  <2> QED BY <2>1, <2>2, RangeHoldsPrefixed DEF ScannedReversed
<1> QED
  BY <1>2, <1>3 DEF Answered

LEMMA InvTight == TextAssumption /\ AnswersInv => ScanIsTight
<1> SUFFICES ASSUME TextAssumption, AnswersInv, Answered({"Prefix", "Suffix"}),
                    \A k \in DOMAIN query : ~ BeforeGap(query[k]),
                    NEW s \in hits
             PROVE  s \in Matches
  BY DEF ScanIsTight
<1>1. CASE strategy = "Prefix"
  <2>1. s \in index /\ InRange(s, query, range_upper_bound(query))
    BY <1>1 DEF AnswersInv, Answered, Scanned
  <2>2. Text(s) /\ Text(query)
    BY <2>1, TextsOfIndex DEF AnswersInv
  <2>3. IsPrefix(query, s)
    BY <2>1, <2>2, RangeHoldsNothingElse
  <2> QED BY <1>1, <2>1, <2>3 DEF Matches
<1>2. CASE strategy = "Suffix"
  <2>1. s \in index /\ InRange(Reverse(s), Reverse(query), range_upper_bound(Reverse(query)))
    BY <1>2 DEF AnswersInv, Answered, ScannedReversed
  <2>2. Text(query) /\ Text(Reverse(s)) /\ Text(Reverse(query))
    BY <2>1, TextsOfIndex, ReversedText DEF AnswersInv
  <2>3. \A k \in DOMAIN Reverse(query) : ~ BeforeGap(Reverse(query)[k])
    BY <2>2 DEF Text, Reverse
  <2>4. IsPrefix(Reverse(query), Reverse(s))
    BY <2>1, <2>2, <2>3, RangeHoldsNothingElse
  <2> QED BY <1>2, <2>1, <2>4 DEF Matches, IsSuffix
<1> QED
  BY <1>1, <1>2 DEF Answered

\* The words of a text are texts.
LEMMA WordsAreTexts ==
  ASSUME NEW s \in Seq(Int), NEW w \in Words(s)
  PROVE  w \in Seq(Int)
<1>1. PICK p \in (DOMAIN s) \X (DOMAIN s) : w = SubSeq(s, p[1], p[2])
  BY DEF Words
<1>2. p[1] \in 1 .. Len(s) /\ p[2] \in 1 .. Len(s)
  OBVIOUS
<1>3. \A a \in 1 .. Len(s), b \in 1 .. Len(s) : SubSeq(s, a, b) \in Seq(Int)
  OBVIOUS
<1> QED BY <1>1, <1>2, <1>3

LEMMA InvLiteral == TextAssumption /\ AnswersInv => MatchesLiterally
<1> SUFFICES ASSUME TextAssumption, AnswersInv, Answered({"TrigramBm25", "Substring", "AllTerms"})
             PROVE  LET terms == IF strategy = "AllTerms" THEN Words(query) ELSE {query}
                    IN  /\ {s \in index : terms # {} /\ \A t \in terms : Has(s, t)} \subseteq hits
                        /\ \A s \in hits : terms # {} /\ \A t \in terms : Has(Folded(s), Folded(t))
  BY DEF MatchesLiterally
<1>1. query \in Seq(Int) /\ \A s \in index : s \in Seq(Int)
  BY TextsOfIndex DEF AnswersInv, Text
<1>2. CASE strategy = "AllTerms"
  <2>1. hits = WithAllWords
    BY <1>2 DEF AnswersInv, Answered
  <2>2. \A w \in Words(query) : w \in Seq(Int)
    BY <1>1, WordsAreTexts
  <2>3. \A s \in index : \A w \in Words(query) :
          (Has(s, w) => LikeInfix(w, s)) /\ (LikeInfix(w, s) => Has(Folded(s), Folded(w)))
    BY <1>1, <2>2, InfixIsLiteral
  <2> QED BY <1>2, <2>1, <2>3 DEF WithAllWords
<1>3. CASE strategy \in {"TrigramBm25", "Substring"}
  <2>1. hits = Substrings(query)
    BY <1>3 DEF AnswersInv, Answered
  <2>2. \A s \in index : /\ Has(s, query) => LikeInfix(query, s)
                         /\ LikeInfix(query, s) => Has(Folded(s), Folded(query))
                         /\ Has(s, query) => Has(Folded(s), Folded(query))
    BY <1>1, InfixIsLiteral
  <2>3. CASE Len(query) < 3
    <3>1. hits = {s \in index : LikeInfix(query, s)}
      BY <2>1, <2>3 DEF Substrings, below_trigram_len
    <3> QED BY <1>3, <2>2, <3>1
  <2>4. CASE Len(query) >= 3
    <3>1. hits = Fts5Match(fts5_phrase(query))
      BY <1>1, <2>1, <2>4 DEF Substrings, below_trigram_len
    <3>2. hits = {s \in index : Has(Folded(s), Folded(query))}
      BY <1>1, <2>4, <3>1, MatchIsLiteral
    <3> QED BY <1>3, <2>2, <3>2
  <2>5. Len(query) < 3 \/ Len(query) >= 3
    BY <1>1
  <2> QED BY <2>3, <2>4, <2>5, Zenon
<1> QED
  BY <1>2, <1>3 DEF Answered

LEMMA InvPreFilter == TextAssumption /\ AnswersInv => PreFilterLosesNothing
<1> SUFFICES ASSUME TextAssumption, AnswersInv, Answered({"FuzzyTrigram"}), ~below_trigram_len(query)
             PROVE  hits = {s \in index : Similar(trigrams(query), trigrams(s))}
  BY DEF PreFilterLosesNothing
<1>1. query \in Seq(Int) /\ \A s \in index : s \in Seq(Int)
  BY TextsOfIndex DEF AnswersInv, Text
<1>2. hits = SimilarCandidates
  <2>1. Len(query) >= 3
    BY <1>1 DEF below_trigram_len
  <2> QED BY <2>1 DEF AnswersInv
<1>3. Candidates(query) \subseteq index
  BY DEF Candidates, Fts5Match
<1>4. \A s \in index : Similar(trigrams(query), trigrams(s)) => s \in Candidates(query)
  BY <1>1, CandidatesSuffice
<1> QED BY <1>2, <1>3, <1>4 DEF SimilarCandidates

LEMMA LettersOfWords ==
  ASSUME NEW s \in index, s \in Seq(Int), NEW w \in Words(s)
  PROVE  w \in Seq(Int) /\ Range(w) \subseteq Letters
<1>1. PICK p \in (DOMAIN s) \X (DOMAIN s) : w = SubSeq(s, p[1], p[2]) /\ p[1] <= p[2]
  BY DEF Words
<1>2. PICK a \in 1 .. Len(s), b \in 1 .. Len(s) : w = SubSeq(s, a, b) /\ a <= b
  <2>1. p[1] \in 1 .. Len(s) /\ p[2] \in 1 .. Len(s)
    OBVIOUS
  <2> QED BY <1>1, <2>1
<1>3. w \in Seq(Int)
  BY WordsAreTexts
<1>4. ASSUME NEW j \in DOMAIN w PROVE w[j] \in Letters
  <2>1. (a + j) - 1 \in 1 .. Len(s) /\ w[j] = s[(a + j) - 1]
    <3>1. a \in Nat /\ b \in Nat /\ 1 <= a /\ a <= b + 1 /\ b <= Len(s) /\ Len(s) \in Nat
      BY <1>2
    <3>2. /\ Len(w) = (b + 1) - a
          /\ \A l \in 1 .. (b + 1) - a : w[l] = s[(a + l) - 1]
      BY <1>2, <3>1, Middle
    <3>3. j \in 1 .. (b + 1) - a
      <4>1. DOMAIN w = 1 .. Len(w)
        BY <1>3
      <4>2. j \in 1 .. Len(w)
        BY <1>4, <4>1
      <4> QED BY <3>2, <4>2
    <3>4. (a + j) - 1 \in 1 .. Len(s)
      <4>1. j \in Nat /\ 1 <= j /\ j <= (b + 1) - a
        BY <3>1, <3>3
      <4>2. (a + j) - 1 \in Int /\ 1 <= (a + j) - 1 /\ (a + j) - 1 <= b
        BY <3>1, <4>1
      <4> QED BY <3>1, <4>2
    <3> QED BY <3>2, <3>3, <3>4
  <2>2. s[(a + j) - 1] \in Range(s)
    BY <2>1 DEF Range
  <2> QED BY <2>1, <2>2 DEF Letters
<1> QED BY <1>3, <1>4 DEF Range

LEMMA InvTypos == TextAssumption /\ AnswersInv => FindsTypos
<1> DEFINE n == IF Len(query) < 8 THEN 1 ELSE Len(query) \div 4
           damerau == strategy = "DamerauLevenshtein"
<1> SUFFICES ASSUME TextAssumption, AnswersInv, Answered({"Levenshtein", "DamerauLevenshtein"})
             PROVE  /\ hits \subseteq WithWordIn(Edited(query, n, damerau))
                    /\ WithWordIn(Edited(query, n, damerau /\ n = 1)) \subseteq hits
  BY DEF FindsTypos
<1>1. query \in Seq(Int) /\ \A s \in index : s \in Seq(Int)
  BY TextsOfIndex DEF AnswersInv, Text
<1>2. n \in Nat /\ max_distance(query) = n
  BY <1>1, AllowedErrors
<1>3. hits = word_fuzzy_search(damerau)
  <2>1. CASE strategy = "Levenshtein"
    <3>1. damerau = FALSE
      BY <2>1
    <3> QED BY <2>1, <3>1 DEF AnswersInv, Answered
  <2>2. CASE strategy = "DamerauLevenshtein"
    <3>1. damerau = TRUE
      BY <2>2
    <3> QED BY <2>2, <3>1 DEF AnswersInv, Answered
  <2> QED BY <2>1, <2>2 DEF Answered
<1>4. damerau \in BOOLEAN /\ Letters \subseteq Int
  BY LettersAreNumbers DEF AnswersInv
<1> HIDE DEF n, damerau
<1>5. hits = {s \in index : \E w \in Words(s) : within(query, w, damerau, n)}
  BY <1>2, <1>3 DEF word_fuzzy_search
<1>6. ASSUME NEW s \in index, NEW w \in Words(s), within(query, w, damerau, n)
      PROVE  w \in Edited(query, n, damerau)
  <2>1. w \in Seq(Int) /\ Range(w) \subseteq Letters
    BY <1>1, LettersOfWords
  <2> QED BY <1>1, <1>2, <1>4, <1>6, <2>1, WithinEdited
<1>7. ASSUME NEW w \in Edited(query, n, damerau /\ n = 1) PROVE within(query, w, damerau, n)
  BY <1>1, <1>2, <1>4, ErrorsWithin
<1> QED BY <1>5, <1>6, <1>7 DEF WithWordIn

\* A Prefix (Suffix) query finds every document that starts (ends) with it,
\* although the upper bound of the scan drops the characters at the end of the
\* key that have no successor (range_upper_bound in core/src/search/mod.rs).
THEOREM NothingMissed == Spec => []ScanMissesNothing
BY AnswersInvariance, InvMisses, TextAssumption, PTL

\* A Prefix (Suffix) query finds no other document, as long as each character
\* of the query but char::MAX has a successor: the bound that replaces the last
\* character with a successor cuts the scan off where the prefix ends.
THEOREM NothingElseFound == Spec => []ScanIsTight
BY AnswersInvariance, InvTight, TextAssumption, PTL

\* Whatever a user types, TrigramBm25, Substring and AllTerms look for it as it
\* is: no character of it is read as a wildcard, an escape, a quote or an operator
\* (escape_like and fts5_phrase in core/src/search/mod.rs), and a document found
\* has the text (every word, for AllTerms), but for the case of its letters.
THEOREM QueriesAreLiteral == Spec => []MatchesLiterally
BY AnswersInvariance, InvLiteral, TextAssumption, PTL

\* FuzzyTrigram finds every document similar to the query, not only those among
\* the candidates of build_fts5_or(): to be similar takes a common trigram.
THEOREM CandidatesAreEnough == Spec => []PreFilterLosesNothing
BY AnswersInvariance, InvPreFilter, TextAssumption, PTL

\* Levenshtein and DamerauLevenshtein (word_fuzzy_search in
\* core/src/search/editdist.rs) find the documents with a word that typing errors make
\* of the query, one for every four of its characters but at least one: every such
\* document and no other, whatever the query and the words.
THEOREM TyposAreFound == Spec => []FindsTypos
BY AnswersInvariance, InvTypos, TextAssumption, PTL
=============================================================================
