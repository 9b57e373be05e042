---------------------------- MODULE SamplingProofs ----------------------------
(***************************************************************************)
(* What the draws of Sampling return, for lists of any length and ints of  *)
(* any width: the lemmas that the proofs about Dressing and Validation     *)
(* share.                                                                  *)
(***************************************************************************)
EXTENDS Sampling, FiniteSetTheorems, TLAPS

-----------------------------------------------------------------------------
(* Recursion along a list *)

\* Every nonempty set of numbers has a least one.
LEMMA LeastNatural ==
  ASSUME NEW T \in SUBSET Nat, T # {}
  PROVE  \E x \in T : \A y \in T : x <= y
<1> DEFINE R == OpToRel(<, Nat)
<1>1. IsWellFoundedOn(R, Nat)
  BY NatLessThanWellFounded
<1>2. \E x \in T : \A y \in T : <<y, x>> \notin R
  <2> HIDE DEF R
  <2> QED
    BY <1>1, WFMin
<1>3. \A x, y \in Nat : <<y, x>> \notin R => x <= y
  BY DEF OpToRel
<1>4. QED
  BY <1>2, <1>3

\* A set with 0 and the successor of each of its members holds every number.
LEMMA InductionOnNat ==
  ASSUME NEW T \in SUBSET Nat, 0 \in T, \A n \in T : n + 1 \in T
  PROVE  T = Nat
<1> SUFFICES ASSUME Nat \ T # {} PROVE FALSE
  OBVIOUS
<1>1. PICK m \in Nat \ T : \A y \in Nat \ T : m <= y
  BY LeastNatural
<1>2. m # 0 /\ m - 1 \in Nat /\ m - 1 \notin Nat \ T
  BY <1>1
<1>3. QED
  BY <1>1, <1>2

\* Steps along 1..n make a function of 0..n.
LEMMA Along ==
  ASSUME NEW n \in Nat, NEW base \in Int, NEW h \in [(1..n) \X Int -> Int]
  PROVE  \E g \in [0..n -> Int] : g[0] = base /\ \A i \in 1..n : g[i] = h[<<i, g[i - 1]>>]
<1> DEFINE Upto(k, g) == g[0] = base /\ \A i \in 1..k : g[i] = h[<<i, g[i - 1]>>]
           Reached(k) == \E g \in [0..k -> Int] : Upto(k, g)
           T == {k \in Nat : k <= n => Reached(k)}
<1>1. Reached(0)
  <2>1. Upto(0, [i \in 0..0 |-> base]) /\ [i \in 0..0 |-> base] \in [0..0 -> Int]
    OBVIOUS
  <2> QED
    BY <2>1
<1>2. ASSUME NEW k \in Nat, k + 1 <= n, Reached(k) PROVE Reached(k + 1)
  <2>1. PICK f \in [0..k -> Int] : Upto(k, f)
    BY <1>2
  <2> DEFINE g == [i \in 0..(k + 1) |-> IF i = k + 1 THEN h[<<k + 1, f[k]>>] ELSE f[i]]
  <2>2. h[<<k + 1, f[k]>>] \in Int
    <3>1. <<k + 1, f[k]>> \in (1..n) \X Int
      BY <1>2
    <3> QED
      BY <3>1
  <2>3. g \in [0..(k + 1) -> Int]
    BY <2>2
  <2>4. (\A i \in 0..k : g[i] = f[i]) /\ g[k + 1] = h[<<k + 1, f[k]>>]
    OBVIOUS
  <2>5. Upto(k + 1, g)
    <3> HIDE DEF g
    <3>1. g[0] = base /\ g[k] = f[k]
      BY <2>1, <2>4
    <3>2. ASSUME NEW i \in 1..(k + 1) PROVE g[i] = h[<<i, g[i - 1]>>]
      <4>1. CASE i = k + 1
        <5>1. i - 1 = k
          BY <4>1
        <5> QED
          BY <2>4, <3>1, <4>1, <5>1
      <4>2. CASE i # k + 1
        <5>1. i \in 1..k /\ i \in 0..k /\ i - 1 \in 0..k
          BY <4>2
        <5> QED
          BY <2>1, <2>4, <5>1
      <4> QED
        BY <4>1, <4>2
    <3> QED
      BY <3>1, <3>2
  <2> HIDE DEF g, Upto
  <2> QED
    BY <2>3, <2>5
<1>3. T = Nat
  <2> HIDE DEF Reached
  <2>1. 0 \in T
    BY <1>1
  <2>2. ASSUME NEW k \in T PROVE k + 1 \in T
    BY <1>2
  <2>3. T \in SUBSET Nat
    OBVIOUS
  <2> HIDE DEF T
  <2> QED
    BY <2>1, <2>2, <2>3, InductionOnNat
<1>4. Reached(n)
  <2> HIDE DEF Reached
  <2> QED
    BY <1>3
<1> QED
  BY <1>4

\* What wraps stays an int, and wrapping never adds to what is not below the range.
LEMMA Wraps ==
  ASSUME NEW n \in Int
  PROVE  /\ Wrap(n) \in (-MaxInt - 1)..MaxInt
         /\ n >= -MaxInt - 1 => Wrap(n) <= n
         /\ n \in (-MaxInt - 1)..MaxInt => Wrap(n) = n
<1> DEFINE H == MaxInt + 1
           D == 2 * H
           m == n + H
           q == m \div D
           r == m % D
<1>1. H \in Nat \ {0} /\ m \in Int /\ D \in Nat \ {0} /\ D = 2 * H
  BY MaxIntAssumption
<1>2. Wrap(n) = r - H
  BY DEF Wrap
<1>3. /\ q \in Int /\ r \in 0..(D - 1) /\ m = D * q + r
      /\ m >= 0 => q >= 0
      /\ m \in 0..(D - 1) => r = m
  <2> HIDE DEF H, D, m
  <2> QED
    BY <1>1
<1>4. q >= 0 => D * q >= 0
  <2> HIDE DEF q, D
  <2> QED
    BY <1>1, <1>3
<1>5. m = n + H /\ H = MaxInt + 1
  OBVIOUS
<1> HIDE DEF q, r, m, H, D
<1> QED
  BY <1>1, <1>2, <1>3, <1>4, <1>5, MaxIntAssumption

\* The sums of weights, one after the other.
LEMMA SumsFrom ==
  ASSUME NEW w \in Seq(Int)
  PROVE  /\ Sums(w) \in [0..Len(w) -> Int] /\ Sums(w)[0] = 0
         /\ \A i \in 1..Len(w) :
              Sums(w)[i] = IF w[i] > 0 THEN Wrap(Sums(w)[i - 1] + w[i]) ELSE Sums(w)[i - 1]
<1> DEFINE n == Len(w)
           step(g) == [i \in 0..n |-> IF i = 0 THEN 0
                         ELSE IF w[i] > 0 THEN Wrap(g[i - 1] + w[i]) ELSE g[i - 1]]
           h == [p \in (1..n) \X Int |-> IF w[p[1]] > 0 THEN Wrap(p[2] + w[p[1]]) ELSE p[2]]
<1>1. n \in Nat /\ \A i \in 1..n : w[i] \in Int
  OBVIOUS
<1>2. h \in [(1..n) \X Int -> Int]
  BY <1>1, Wraps
<1>3. PICK g \in [0..n -> Int] : g[0] = 0 /\ \A i \in 1..n : g[i] = h[<<i, g[i - 1]>>]
  <2>1. 0 \in Int
    OBVIOUS
  <2> HIDE DEF h, n
  <2> QED
    BY <1>1, <1>2, <2>1, Along, Zenon
<1>4. \A i \in 1..n : g[i] = IF w[i] > 0 THEN Wrap(g[i - 1] + w[i]) ELSE g[i - 1]
  <2> SUFFICES ASSUME NEW i \in 1..n
               PROVE  g[i] = IF w[i] > 0 THEN Wrap(g[i - 1] + w[i]) ELSE g[i - 1]
    OBVIOUS
  <2>1. <<i, g[i - 1]>> \in (1..n) \X Int
    <3> HIDE DEF n
    <3> QED
      BY <1>1
  <2> QED
    BY <1>3, <2>1
<1>5. g = step(g)
  BY <1>1, <1>3, <1>4
<1>6. Sums(w) = CHOOSE f : f = step(f)
  BY DEF Sums
<1>7. Sums(w) = step(Sums(w))
  <2> HIDE DEF step
  <2> QED
    BY <1>5, <1>6
<1> DEFINE s == Sums(w)
<1>8. s[0] = 0 /\ \A i \in 1..n : s[i] = IF w[i] > 0 THEN Wrap(s[i - 1] + w[i]) ELSE s[i - 1]
  <2> HIDE DEF s, n
  <2>1. s = step(s)
    BY <1>7 DEF s
  <2>2. \A i \in 0..n : s[i] = step(s)[i]
    BY <2>1
  <2>3. 0 \in 0..n /\ \A i \in 1..n : i \in 0..n /\ i # 0
    BY <1>1
  <2>4. \A i \in 0..n : step(s)[i] = IF i = 0 THEN 0
                         ELSE IF w[i] > 0 THEN Wrap(s[i - 1] + w[i]) ELSE s[i - 1]
    OBVIOUS
  <2> HIDE DEF step
  <2> QED
    BY <2>2, <2>3, <2>4
<1> DEFINE T == {i \in Nat : i <= n => s[i] \in Int}
<1>9. T = Nat
  <2> HIDE DEF s
  <2>1. 0 \in T
    BY <1>8
  <2>2. ASSUME NEW i \in T PROVE i + 1 \in T
    <3> HIDE DEF n
    <3>1. CASE i + 1 <= n
      <4>1. s[i] \in Int /\ i + 1 \in 1..n /\ (i + 1) - 1 = i /\ w[i + 1] \in Int
        BY <1>1, <3>1
      <4>2. Wrap(s[i] + w[i + 1]) \in Int
        BY <4>1, Wraps
      <4> QED
        BY <1>8, <4>1, <4>2
    <3>2. CASE ~(i + 1 <= n)
      BY <3>2
    <3> QED
      BY <3>1, <3>2
  <2>3. T \in SUBSET Nat
    OBVIOUS
  <2> HIDE DEF T
  <2> QED
    BY <2>1, <2>2, <2>3, InductionOnNat
<1>10. s \in [0..n -> Int]
  <2> HIDE DEF s
  <2>1. s = step(s)
    BY <1>7 DEF s
  <2>2. \A i \in 0..n : s[i] \in Int
    BY <1>1, <1>9
  <2> QED
    BY <2>1, <2>2
<1> QED
  BY <1>8, <1>10

\* What the walk has left of a draw, weight after weight.
LEMMA WalkFrom ==
  ASSUME NEW w \in Seq(Int), NEW r \in Int
  PROVE  /\ Walk(w, r) \in [0..Len(w) -> Int] /\ Walk(w, r)[0] = r
         /\ \A i \in 1..Len(w) :
              Walk(w, r)[i] = IF w[i] <= 0 THEN Walk(w, r)[i - 1] ELSE Walk(w, r)[i - 1] - w[i]
<1> DEFINE n == Len(w)
           step(g) == [i \in 0..n |-> IF i = 0 THEN r
                         ELSE IF w[i] <= 0 THEN g[i - 1] ELSE g[i - 1] - w[i]]
           h == [p \in (1..n) \X Int |-> IF w[p[1]] <= 0 THEN p[2] ELSE p[2] - w[p[1]]]
<1>1. n \in Nat /\ \A i \in 1..n : w[i] \in Int
  OBVIOUS
<1>2. h \in [(1..n) \X Int -> Int]
  BY <1>1
<1>3. PICK g \in [0..n -> Int] : g[0] = r /\ \A i \in 1..n : g[i] = h[<<i, g[i - 1]>>]
  <2> HIDE DEF h, n
  <2> QED
    BY <1>1, <1>2, Along, Zenon
<1>4. \A i \in 1..n : g[i] = IF w[i] <= 0 THEN g[i - 1] ELSE g[i - 1] - w[i]
  <2> SUFFICES ASSUME NEW i \in 1..n
               PROVE  g[i] = IF w[i] <= 0 THEN g[i - 1] ELSE g[i - 1] - w[i]
    OBVIOUS
  <2>1. <<i, g[i - 1]>> \in (1..n) \X Int
    <3> HIDE DEF n
    <3> QED
      BY <1>1
  <2> QED
    BY <1>3, <2>1
<1>5. g = step(g)
  BY <1>1, <1>3, <1>4
<1>6. Walk(w, r) = CHOOSE f : f = step(f)
  BY DEF Walk
<1>7. Walk(w, r) = step(Walk(w, r))
  <2> HIDE DEF step
  <2> QED
    BY <1>5, <1>6
<1> DEFINE s == Walk(w, r)
<1>8. s[0] = r /\ \A i \in 1..n : s[i] = IF w[i] <= 0 THEN s[i - 1] ELSE s[i - 1] - w[i]
  <2> HIDE DEF s, n
  <2>1. s = step(s)
    BY <1>7 DEF s
  <2>2. \A i \in 0..n : s[i] = step(s)[i]
    BY <2>1
  <2>3. 0 \in 0..n /\ \A i \in 1..n : i \in 0..n /\ i # 0
    BY <1>1
  <2>4. \A i \in 0..n : step(s)[i] = IF i = 0 THEN r
                         ELSE IF w[i] <= 0 THEN s[i - 1] ELSE s[i - 1] - w[i]
    OBVIOUS
  <2> HIDE DEF step
  <2> QED
    BY <2>2, <2>3, <2>4
<1> DEFINE T == {i \in Nat : i <= n => s[i] \in Int}
<1>9. T = Nat
  <2> HIDE DEF s
  <2>1. 0 \in T
    BY <1>8
  <2>2. ASSUME NEW i \in T PROVE i + 1 \in T
    <3> HIDE DEF n
    <3>1. CASE i + 1 <= n
      <4>1. s[i] \in Int /\ i + 1 \in 1..n /\ (i + 1) - 1 = i /\ w[i + 1] \in Int
        BY <1>1, <3>1
      <4> QED
        BY <1>8, <4>1
    <3>2. CASE ~(i + 1 <= n)
      BY <3>2
    <3> QED
      BY <3>1, <3>2
  <2>3. T \in SUBSET Nat
    OBVIOUS
  <2> HIDE DEF T
  <2> QED
    BY <2>1, <2>2, <2>3, InductionOnNat
<1>10. s \in [0..n -> Int]
  <2> HIDE DEF s
  <2>1. s = step(s)
    BY <1>7 DEF s
  <2>2. \A i \in 0..n : s[i] \in Int
    BY <1>1, <1>9
  <2> QED
    BY <2>1, <2>2
<1> QED
  BY <1>8, <1>10

-----------------------------------------------------------------------------
(* Weighted picks *)

\* Every draw that PickWeighted makes is a natural number below the sum, if that
\* is positive, or else 0.
LEMMA DrawRange ==
  ASSUME NEW n \in Int, NEW r \in Intn(n)
  PROVE  r \in Nat /\ (r = 0 \/ r < n)
BY DEF Intn

\* What the walk has left is at most the draw without the sum so far, which wrapping
\* can only have made smaller; and it is the draw as long as the sum is 0.
LEMMA WalkBelowSum ==
  ASSUME NEW w \in Seq(Int), NEW r \in Int, NEW i \in 0..Len(w)
  PROVE  /\ Walk(w, r)[i] <= r /\ Walk(w, r)[i] + Sums(w)[i] <= r
         /\ Walk(w, r)[i] = r => Sums(w)[i] = 0
         /\ Sums(w)[i] \in (-MaxInt - 1)..MaxInt
<1> DEFINE n == Len(w)
           l == Walk(w, r)
           s == Sums(w)
           Good(k) == /\ l[k] <= r /\ l[k] + s[k] <= r /\ (l[k] = r => s[k] = 0)
                      /\ s[k] \in (-MaxInt - 1)..MaxInt
           T == {k \in Nat : k <= n => Good(k)}
<1>1. n \in Nat /\ \A k \in 1..n : w[k] \in Int
  OBVIOUS
<1>2. /\ l \in [0..n -> Int] /\ l[0] = r
      /\ \A k \in 1..n : l[k] = IF w[k] <= 0 THEN l[k - 1] ELSE l[k - 1] - w[k]
  BY WalkFrom
<1>3. /\ s \in [0..n -> Int] /\ s[0] = 0
      /\ \A k \in 1..n : s[k] = IF w[k] > 0 THEN Wrap(s[k - 1] + w[k]) ELSE s[k - 1]
  BY SumsFrom
<1> HIDE DEF n, l, s
<1>4. 0 \in T
  BY <1>2, <1>3, MaxIntAssumption
<1>5. ASSUME NEW k \in T PROVE k + 1 \in T
  <2> SUFFICES ASSUME k + 1 <= n PROVE Good(k + 1)
    OBVIOUS
  <2>1. /\ k \in 0..n /\ k + 1 \in 1..n /\ (k + 1) - 1 = k
        /\ l[k] \in Int /\ s[k] \in Int /\ w[k + 1] \in Int
    BY <1>1, <1>2, <1>3
  <2>2. Good(k)
    BY <2>1
  <2>3. CASE w[k + 1] <= 0
    <3>1. l[k + 1] = l[k] /\ s[k + 1] = s[k]
      BY <1>2, <1>3, <2>1, <2>3
    <3> QED
      BY <2>2, <3>1
  <2>4. CASE w[k + 1] > 0
    <3>1. PICK m \in Int : m = s[k] + w[k + 1]
      BY <2>1
    <3>2. l[k + 1] = l[k] - w[k + 1] /\ s[k + 1] = Wrap(m)
      BY <1>2, <1>3, <2>1, <2>4, <3>1
    <3>3. m >= -MaxInt - 1
      BY <2>1, <2>2, <2>4, <3>1, MaxIntAssumption
    <3>4. Wrap(m) \in (-MaxInt - 1)..MaxInt /\ Wrap(m) <= m
      BY <3>3, Wraps
    <3>5. Wrap(m) \in Int
      BY <3>4, MaxIntAssumption
    <3>6. l[k + 1] + s[k + 1] <= l[k] + s[k]
      BY <2>1, <3>1, <3>2, <3>4, <3>5
    <3>7. l[k + 1] < r
      BY <2>1, <2>2, <2>4, <3>2
    <3>8. l[k] + s[k] \in Int /\ l[k + 1] + s[k + 1] \in Int /\ l[k + 1] \in Int
      BY <2>1, <3>2, <3>5
    <3> QED
      BY <2>2, <3>2, <3>4, <3>6, <3>7, <3>8
  <2> QED
    BY <2>1, <2>3, <2>4
<1>6. T = Nat
  <2>1. T \in SUBSET Nat
    OBVIOUS
  <2> HIDE DEF T
  <2> QED
    BY <1>4, <1>5, <2>1, InductionOnNat
<1>7. Good(i)
  BY <1>1, <1>6 DEF n
<1> QED
  BY <1>7 DEF l, s

\* The minimum of numbers is the least of them.
LEMMA MinIsLeast ==
  ASSUME NEW S \in SUBSET Nat, S # {}
  PROVE  Min(S) \in S /\ \A y \in S : Min(S) <= y
BY LeastNatural DEF Min

\* PickAt finds a positive weight: the first one behind which nothing is left of
\* the draw. That there is none, for which the code has a last resort, never happens.
LEMMA PickAtHits ==
  ASSUME NEW w \in Seq(Int), SumOf(w) # 0, NEW r \in Intn(SumOf(w))
  PROVE  /\ PickAt(w, r) \in 1..Len(w) /\ w[PickAt(w, r)] > 0
         /\ Walk(w, r)[PickAt(w, r)] < 0
         /\ \A j \in 1..Len(w) : w[j] > 0 /\ Walk(w, r)[j] < 0 => PickAt(w, r) <= j
<1> DEFINE n == Len(w)
           l == Walk(w, r)
           hit == {i \in 1..n : w[i] > 0 /\ l[i] < 0}
<1>1. n \in Nat /\ \A k \in 1..n : w[k] \in Int
  OBVIOUS
<1>2. SumOf(w) = Sums(w)[n] /\ SumOf(w) \in Int
  BY <1>1, SumsFrom DEF SumOf
<1>3. r \in Nat /\ (r = 0 \/ r < SumOf(w))
  BY <1>2, DrawRange
<1>4. /\ l \in [0..n -> Int] /\ l[0] = r
      /\ \A k \in 1..n : l[k] = IF w[k] <= 0 THEN l[k - 1] ELSE l[k - 1] - w[k]
  BY <1>3, WalkFrom
<1>5. l[n] <= r /\ l[n] + SumOf(w) <= r /\ l[n] # r
  <2>1. n \in 0..Len(w) /\ r \in Int
    BY <1>1, <1>3
  <2> QED
    BY <1>2, <2>1, WalkBelowSum
<1> HIDE DEF n, l
<1>6. l[n] < 0
  <2>1. l[n] \in Int
    BY <1>1, <1>4
  <2> QED
    BY <1>2, <1>3, <1>5, <2>1
<1>7. hit # {}
  <2> DEFINE S == {k \in 0..n : l[k] < 0}
  <2>1. S \in SUBSET Nat /\ n \in S
    BY <1>1, <1>6
  <2>2. PICK k \in S : \A y \in S : k <= y
    <3> HIDE DEF S
    <3> QED
      BY <2>1, LeastNatural
  <2>3. k \in 0..n /\ l[k] < 0 /\ k # 0
    BY <1>3, <1>4
  <2>4. k - 1 \in 0..n /\ k \in 1..n /\ k - 1 \notin S
    BY <1>1, <2>2, <2>3
  <2>5. l[k - 1] \in Int /\ l[k - 1] >= 0
    <3>1. l[k - 1] \in Int
      BY <1>4, <2>4
    <3>2. ~(l[k - 1] < 0)
      BY <2>4
    <3> QED
      BY <3>1, <3>2
  <2>6. w[k] > 0
    BY <1>1, <1>4, <2>3, <2>4, <2>5
  <2> QED
    BY <2>3, <2>4, <2>6
<1>8. PickAt(w, r) = Min(hit)
  BY <1>7 DEF PickAt, n, l
<1>9. hit \in SUBSET Nat
  BY <1>1
<1>10. Min(hit) \in hit /\ \A y \in hit : Min(hit) <= y
  <2> HIDE DEF hit
  <2> QED
    BY <1>7, <1>9, MinIsLeast
<1> QED
  BY <1>8, <1>10 DEF n, l

=============================================================================
