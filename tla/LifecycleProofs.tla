--------------------------- MODULE LifecycleProofs ---------------------------
(***************************************************************************)
(* Theorems about the scheduler and the program around it: the pace of the *)
(* routes, surges noticed in time, no emission left behind, and that the   *)
(* goroutines implement the session, for any routes, rates, surges and     *)
(* bounds on time. What they need comes first: induction over numbers and  *)
(* over finite sets, for sets instead of predicates, and what the folds of *)
(* the community modules return for sums and products.                     *)
(***************************************************************************)
EXTENDS Lifecycle, FiniteSetTheorems, WellFoundedInduction, TLAPS

-----------------------------------------------------------------------------
(* Induction *)

\* Every nonempty set of numbers has a least one.
LEMMA LeastNatural ==
  ASSUME NEW T \in SUBSET Nat, T # {}
  PROVE  \E x \in T : \A y \in T : x <= y
<1> DEFINE R == OpToRel(<, Nat)
<1>1. IsWellFoundedOn(R, Nat)
  BY NatLessThanWellFounded
<1>2. \E x \in T : \A y \in T : <<y, x>> \notin R
  <2> HIDE DEF R
  <2> QED
    BY <1>1, WFMin
<1>3. \A x, y \in Nat : <<y, x>> \notin R => x <= y
  BY DEF OpToRel
<1>4. QED
  BY <1>2, <1>3

\* A set with 0 and the successor of each of its members holds every number.
LEMMA InductionOnNat ==
  ASSUME NEW T \in SUBSET Nat, 0 \in T, \A n \in T : n + 1 \in T
  PROVE  T = Nat
<1> SUFFICES ASSUME Nat \ T # {} PROVE FALSE
  OBVIOUS
<1>1. PICK m \in Nat \ T : \A y \in Nat \ T : m <= y
  BY LeastNatural
<1>2. m # 0 /\ m - 1 \in Nat /\ m - 1 \notin Nat \ T
  BY <1>1
<1>3. QED
  BY <1>1, <1>2

\* A set of subsets of D that holds one whenever it holds what is left of it
\* without any one of its elements, holds all of them.
LEMMA InductionOnSubsets ==
  ASSUME NEW D, IsFiniteSet(D), NEW T \in SUBSET (SUBSET D),
         \A s \in SUBSET D : (\A x \in s : s \ {x} \in T) => s \in T
  PROVE  T = SUBSET D
<1> DEFINE N == {n \in Nat : \A s \in SUBSET D : Cardinality(s) = n => s \in T}
<1>1. \A s \in SUBSET D : IsFiniteSet(s) /\ Cardinality(s) \in Nat
  BY FS_Subset, FS_CardinalityType
<1>2. 0 \in N
  <2>1. \A s \in SUBSET D : Cardinality(s) = 0 => s = {}
    BY <1>1, FS_EmptySet
  <2>2. {} \in T
    OBVIOUS
  <2>3. QED
    BY <2>1, <2>2
<1>3. ASSUME NEW n \in N PROVE n + 1 \in N
  <2> SUFFICES ASSUME NEW s \in SUBSET D, Cardinality(s) = n + 1 PROVE s \in T
    OBVIOUS
  <2>1. n \in Nat /\ n + 1 - 1 = n
    OBVIOUS
  <2>2. ASSUME NEW x \in s PROVE s \ {x} \in T
    <3>1. Cardinality(s \ {x}) = Cardinality(s) - 1
      BY <1>1, FS_RemoveElement
    <3>2. s \ {x} \in SUBSET D /\ Cardinality(s \ {x}) = n
      BY <2>1, <3>1
    <3>3. QED
      BY <3>2
  <2>3. QED
    BY <2>2
<1>4. N = Nat
  <2> HIDE DEF N
  <2>1. N \in SUBSET Nat
    BY DEF N
  <2>2. QED
    BY <1>2, <1>3, <2>1, InductionOnNat
<1>5. QED
  BY <1>1, <1>4

-----------------------------------------------------------------------------
(* Folds *)

\* The element a fold of Functions takes next.
Pick(s) == CHOOSE x \in s : TRUE

\* g is what a fold of f by a recurses to, on the sets of S.
FoldsTo(g, S, f, a, base) ==
  g = [s \in S |-> IF s = {} THEN base ELSE a[<<f[Pick(s)], g[s \ {Pick(s)}]>>]]

\* The recursion of a fold over a finite set has a value, of the type its
\* operation has.
LEMMA FoldExists ==
  ASSUME NEW D, IsFiniteSet(D), NEW V, NEW f \in [D -> V],
         NEW a \in [V \X V -> V], NEW base \in V
  PROVE  \E g \in [SUBSET D -> V] : FoldsTo(g, SUBSET D, f, a, base)
<1> DEFINE Small(n) == {s \in SUBSET D : Cardinality(s) <= n}
           N == {n \in Nat : \E g \in [Small(n) -> V] : FoldsTo(g, Small(n), f, a, base)}
<1>1. \A s \in SUBSET D : IsFiniteSet(s) /\ Cardinality(s) \in Nat
  BY FS_Subset, FS_CardinalityType
<1>2. \A s \in SUBSET D : s # {} => Pick(s) \in s /\ f[Pick(s)] \in V
  BY DEF Pick
<1>3. ASSUME NEW n \in Nat, NEW s \in Small(n + 1), s # {}
      PROVE  s \ {Pick(s)} \in Small(n)
  <2>1. IsFiniteSet(s) /\ Pick(s) \in s /\ s \in SUBSET D
    BY <1>1, <1>2, <1>3
  <2>2. Cardinality(s \ {Pick(s)}) = Cardinality(s) - 1
    BY <2>1, FS_RemoveElement
  <2>3. QED
    BY <1>1, <2>1, <2>2
<1>4. 0 \in N
  <2>1. \A s \in SUBSET D : Cardinality(s) <= 0 => s = {}
    BY <1>1, FS_EmptySet
  <2>2. {} \in SUBSET D /\ Cardinality({}) = 0
    BY FS_EmptySet
  <2>3. Small(0) = {{}}
    BY <2>1, <2>2
  <2>4. FoldsTo([s \in Small(0) |-> base], Small(0), f, a, base)
    BY <2>3 DEF FoldsTo
  <2>5. [s \in Small(0) |-> base] \in [Small(0) -> V]
    OBVIOUS
  <2>6. QED
    BY <2>4, <2>5
<1>5. ASSUME NEW n \in N PROVE n + 1 \in N
  <2> DEFINE M == Small(n + 1)
             P == Small(n)
  <2>1. PICK g \in [P -> V] : FoldsTo(g, P, f, a, base)
    OBVIOUS
  <2>2. n \in Nat
    OBVIOUS
  <2>3. P \subseteq M
    BY <1>1, <2>2
  <2>4. \A s \in M : s # {} => s \ {Pick(s)} \in P /\ f[Pick(s)] \in V
    BY <1>2, <1>3, <2>2
  <2> DEFINE h == [s \in M |-> IF s = {} THEN base ELSE a[<<f[Pick(s)], g[s \ {Pick(s)}]>>]]
  <2>5. h \in [M -> V]
    <3> HIDE DEF M, P
    <3> QED
      BY <2>4
  <2>6. \A s \in P : h[s] = g[s]
    <3> HIDE DEF M, P
    <3> QED
      BY <2>1, <2>3 DEF FoldsTo
  <2>7. FoldsTo(h, M, f, a, base)
    <3>1. \A s \in M : s # {} => h[s \ {Pick(s)}] = g[s \ {Pick(s)}]
      BY <2>4, <2>6
    <3> HIDE DEF M, P
    <3> QED
      BY <3>1 DEF FoldsTo
  <2>8. \E k \in [M -> V] : FoldsTo(k, M, f, a, base)
    <3> HIDE DEF M, P, h
    <3> QED
      BY <2>5, <2>7
  <2>9. n + 1 \in Nat
    BY <2>2
  <2>10. QED
    BY ONLY <2>8, <2>9, Zenon DEF M
<1>6. N = Nat
  <2> HIDE DEF N
  <2>1. N \in SUBSET Nat
    BY DEF N
  <2>2. QED
    BY <1>4, <1>5, <2>1, InductionOnNat
<1>7. Cardinality(D) \in Nat /\ Small(Cardinality(D)) = SUBSET D
  BY <1>1, FS_Subset
<1>8. Cardinality(D) \in N
  BY <1>6, <1>7
<1>9. \E g \in [Small(Cardinality(D)) -> V] : FoldsTo(g, Small(Cardinality(D)), f, a, base)
  BY <1>8
<1>10. QED
  BY <1>7, <1>9

-----------------------------------------------------------------------------
(* Sums *)

\* What the sum of f is over each set of S.
SumsTo(g, S, f) ==
  g = [s \in S |-> IF s = {} THEN 0 ELSE f[Pick(s)] + g[s \ {Pick(s)}]]

\* Two such recursions agree on the sets on which their functions do.
LEMMA SumsAgree ==
  ASSUME NEW D, IsFiniteSet(D), NEW f, NEW h, NEW g, NEW k,
         SumsTo(g, SUBSET D, f), SumsTo(k, SUBSET D, h),
         NEW A \in SUBSET D, \A x \in A : f[x] = h[x]
  PROVE  g[A] = k[A]
<1> DEFINE T == {s \in SUBSET A : g[s] = k[s]}
<1>1. \A s \in SUBSET D : g[s] = IF s = {} THEN 0 ELSE f[Pick(s)] + g[s \ {Pick(s)}]
  BY DEF SumsTo
<1>2. \A s \in SUBSET D : k[s] = IF s = {} THEN 0 ELSE h[Pick(s)] + k[s \ {Pick(s)}]
  BY DEF SumsTo
<1>3. ASSUME NEW s \in SUBSET A, \A x \in s : s \ {x} \in T PROVE s \in T
  <2>1. CASE s = {}
    BY <1>1, <1>2, <2>1
  <2>2. CASE s # {}
    <3>1. Pick(s) \in s
      BY <2>2 DEF Pick
    <3>2. g[s \ {Pick(s)}] = k[s \ {Pick(s)}]
      BY <1>3, <3>1
    <3>3. f[Pick(s)] = h[Pick(s)]
      BY <3>1
    <3>4. g[s] = f[Pick(s)] + g[s \ {Pick(s)}] /\ k[s] = h[Pick(s)] + k[s \ {Pick(s)}]
      BY <1>1, <1>2, <2>2
    <3>5. QED
      BY <3>2, <3>3, <3>4
  <2>3. QED
    BY <2>1, <2>2
<1>4. T = SUBSET A
  <2>1. IsFiniteSet(A)
    BY FS_Subset
  <2>2. T \in SUBSET (SUBSET A)
    OBVIOUS
  <2> HIDE DEF T
  <2>3. QED
    BY <1>3, <2>1, <2>2, InductionOnSubsets
<1>5. QED
  BY <1>4

\* SumFunction is the top of such a recursion.
LEMMA SumRecursion ==
  ASSUME NEW D, IsFiniteSet(D), NEW f \in [D -> Nat]
  PROVE  \E g \in [SUBSET D -> Nat] : SumsTo(g, SUBSET D, f) /\ SumFunction(f) = g[D]
<1> DEFINE a == [p \in Nat \X Nat |-> p[1] + p[2]]
           g == CHOOSE h : SumsTo(h, SUBSET D, f)
<1>1. PICK k \in [SUBSET D -> Nat] : FoldsTo(k, SUBSET D, f, a, 0)
  <2>1. a \in [Nat \X Nat -> Nat]
    OBVIOUS
  <2> HIDE DEF a
  <2>2. QED
    BY <2>1, FoldExists
<1>2. \A s \in SUBSET D : s # {} =>
        a[<<f[Pick(s)], k[s \ {Pick(s)}]>>] = f[Pick(s)] + k[s \ {Pick(s)}]
  <2>1. \A s \in SUBSET D : s # {} => f[Pick(s)] \in Nat /\ k[s \ {Pick(s)}] \in Nat
    BY DEF Pick
  <2>2. \A x, y \in Nat : a[<<x, y>>] = x + y
    OBVIOUS
  <2>3. QED
    BY <2>1, <2>2
<1>3. SumsTo(k, SUBSET D, f)
  <2> HIDE DEF a
  <2> QED
    BY <1>1, <1>2 DEF FoldsTo, SumsTo
<1>4. SumsTo(g, SUBSET D, f)
  BY <1>3
<1>5. DOMAIN f = D
  OBVIOUS
<1>6. SumFunction(f) = g[D]
  BY <1>5 DEF SumFunction, SumFunctionOnSet, FoldFunctionOnSet, MapThenFoldSet, SumsTo, Pick
<1>7. g[D] = k[D]
  <2> HIDE DEF g
  <2> QED
    BY <1>3, <1>4, SumsAgree
<1>8. QED
  BY <1>3, <1>6, <1>7

\* The order in which a sum is taken does not matter: any element may come
\* first.
LEMMA SumSplits ==
  ASSUME NEW D, IsFiniteSet(D), NEW f \in [D -> Nat],
         NEW g \in [SUBSET D -> Nat], SumsTo(g, SUBSET D, f),
         NEW x \in D
  PROVE  g[D] = f[x] + g[D \ {x}]
<1> DEFINE T == {s \in SUBSET D : \A y \in s : g[s] = f[y] + g[s \ {y}]}
<1>1. \A s \in SUBSET D : s # {} =>
        Pick(s) \in s /\ g[s] = f[Pick(s)] + g[s \ {Pick(s)}]
  BY DEF SumsTo, Pick
<1>2. ASSUME NEW s \in SUBSET D, \A y \in s : s \ {y} \in T PROVE s \in T
  <2> SUFFICES ASSUME NEW y \in s, y # Pick(s) PROVE g[s] = f[y] + g[s \ {y}]
    BY <1>1
  <2> DEFINE p == Pick(s)
  <2>1. p \in s /\ g[s] = f[p] + g[s \ {p}]
    BY <1>1
  <2> HIDE DEF p
  <2>2. y \in s \ {p} /\ p \in s \ {y}
    BY <2>1 DEF p
  <2>3. g[s \ {p}] = f[y] + g[(s \ {p}) \ {y}]
    BY <1>2, <2>1, <2>2
  <2>4. g[s \ {y}] = f[p] + g[(s \ {y}) \ {p}]
    BY <1>2, <2>1, <2>2
  <2>5. (s \ {p}) \ {y} = (s \ {y}) \ {p}
    OBVIOUS
  <2>6. f[p] \in Nat /\ f[y] \in Nat /\ g[(s \ {y}) \ {p}] \in Nat
    BY <2>1
  <2>7. g[s] = f[p] + (f[y] + g[(s \ {y}) \ {p}])
    BY <2>1, <2>3, <2>5, Zenon
  <2>8. \A i, j, k \in Nat : i + (j + k) = j + (i + k)
    OBVIOUS
  <2>9. g[s] = f[y] + (f[p] + g[(s \ {y}) \ {p}])
    BY <2>6, <2>7, <2>8, Zenon
  <2>10. QED
    BY <2>4, <2>9, Zenon
<1>3. T = SUBSET D
  <2> HIDE DEF T
  <2>1. T \in SUBSET (SUBSET D)
    BY DEF T
  <2>2. QED
    BY <1>2, <2>1, InductionOnSubsets
<1>4. QED
  BY <1>3

\* A sum of numbers is a number, at least each of them.
LEMMA SumType ==
  ASSUME NEW D, IsFiniteSet(D), NEW f \in [D -> Nat]
  PROVE  SumFunction(f) \in Nat /\ \A x \in D : SumFunction(f) >= f[x]
<1>1. PICK g \in [SUBSET D -> Nat] : SumsTo(g, SUBSET D, f) /\ SumFunction(f) = g[D]
  BY SumRecursion
<1>2. g[D] \in Nat /\ \A x \in D : g[D \ {x}] \in Nat /\ f[x] \in Nat
  OBVIOUS
<1>3. \A x \in D : g[D] = f[x] + g[D \ {x}]
  BY <1>1, SumSplits
<1>4. \A i, j, k \in Nat : i = j + k => i >= j
  OBVIOUS
<1>5. \A x \in D : g[D] >= f[x]
  BY <1>2, <1>3, <1>4, Zenon
<1>6. QED
  BY <1>1, <1>2, <1>5, Zenon

\* When one value changes the sum changes by as much.
LEMMA SumChanges ==
  ASSUME NEW D, IsFiniteSet(D), NEW f \in [D -> Nat], NEW h \in [D -> Nat],
         NEW x \in D, \A y \in D \ {x} : h[y] = f[y]
  PROVE  SumFunction(h) + f[x] = SumFunction(f) + h[x]
<1>1. PICK g \in [SUBSET D -> Nat] : SumsTo(g, SUBSET D, f) /\ SumFunction(f) = g[D]
  BY SumRecursion
<1>2. PICK k \in [SUBSET D -> Nat] : SumsTo(k, SUBSET D, h) /\ SumFunction(h) = k[D]
  BY SumRecursion
<1>3. g[D] = f[x] + g[D \ {x}] /\ k[D] = h[x] + k[D \ {x}]
  BY <1>1, <1>2, SumSplits
<1>4. g[D \ {x}] = k[D \ {x}]
  BY <1>1, <1>2, SumsAgree
<1>5. f[x] \in Nat /\ h[x] \in Nat /\ g[D \ {x}] \in Nat
  OBVIOUS
<1>6. QED
  BY <1>1, <1>2, <1>3, <1>4, <1>5

\* A sum of zeros is zero.
LEMMA SumOfZeros ==
  ASSUME NEW D, IsFiniteSet(D), NEW f \in [D -> Nat], \A x \in D : f[x] = 0
  PROVE  SumFunction(f) = 0
<1>1. PICK g \in [SUBSET D -> Nat] : SumsTo(g, SUBSET D, f) /\ SumFunction(f) = g[D]
  BY SumRecursion
<1> DEFINE T == {s \in SUBSET D : g[s] = 0}
<1>2. ASSUME NEW s \in SUBSET D, \A y \in s : s \ {y} \in T PROVE s \in T
  BY <1>1, <1>2 DEF SumsTo, Pick
<1>3. T = SUBSET D
  <2> HIDE DEF T
  <2>1. T \in SUBSET (SUBSET D)
    BY DEF T
  <2>2. QED
    BY <1>2, <2>1, InductionOnSubsets
<1>4. QED
  BY <1>1, <1>3

-----------------------------------------------------------------------------
(* Products *)

\* What the product of f is over each set of S.
ProductsTo(g, S, f) ==
  g = [s \in S |-> IF s = {} THEN 1 ELSE f[Pick(s)] * g[s \ {Pick(s)}]]

\* A product of positive numbers is a positive number.
LEMMA ProductType ==
  ASSUME NEW D, IsFiniteSet(D), NEW f \in [D -> Nat \ {0}]
  PROVE  FoldFunction( *, 1, f) \in Nat \ {0}
<1> DEFINE Pos == Nat \ {0}
           a == [p \in Pos \X Pos |-> p[1] * p[2]]
           g == CHOOSE h : ProductsTo(h, SUBSET D, f)
           T == {s \in SUBSET D : g[s] \in Pos}
<1>1. \A i, j \in Pos : i * j \in Pos
  OBVIOUS
<1>2. PICK k \in [SUBSET D -> Pos] : FoldsTo(k, SUBSET D, f, a, 1)
  <2>1. a \in [Pos \X Pos -> Pos]
    BY <1>1
  <2>2. 1 \in Pos
    OBVIOUS
  <2> HIDE DEF a, Pos
  <2>3. f \in [D -> Pos]
    BY DEF Pos
  <2>4. QED
    BY <2>1, <2>2, <2>3, FoldExists
<1>3. \A s \in SUBSET D : s # {} =>
        a[<<f[Pick(s)], k[s \ {Pick(s)}]>>] = f[Pick(s)] * k[s \ {Pick(s)}]
  <2>1. \A s \in SUBSET D : s # {} => f[Pick(s)] \in Pos /\ k[s \ {Pick(s)}] \in Pos
    BY DEF Pick
  <2>2. \A x, y \in Pos : a[<<x, y>>] = x * y
    OBVIOUS
  <2>3. QED
    BY <2>1, <2>2, Zenon
<1>4. ProductsTo(k, SUBSET D, f)
  <2> HIDE DEF a
  <2> QED
    BY <1>2, <1>3 DEF FoldsTo, ProductsTo
<1>5. ProductsTo(g, SUBSET D, f)
  BY <1>4
<1>6. DOMAIN f = D
  OBVIOUS
<1>7. FoldFunction( *, 1, f) = g[D]
  BY <1>6 DEF FoldFunction, FoldFunctionOnSet, MapThenFoldSet, ProductsTo, Pick
<1>8. ASSUME NEW s \in SUBSET D, \A y \in s : s \ {y} \in T PROVE s \in T
  <2>1. g[s] = IF s = {} THEN 1 ELSE f[Pick(s)] * g[s \ {Pick(s)}]
    <3> HIDE DEF g
    <3> QED
      BY <1>5 DEF ProductsTo
  <2> HIDE DEF g
  <2>2. CASE s = {}
    BY <2>1, <2>2
  <2>3. CASE s # {}
    <3>1. f[Pick(s)] \in Pos /\ g[s \ {Pick(s)}] \in Pos
      BY <1>8, <2>3 DEF Pick
    <3>2. g[s] \in Pos
      BY <1>1, <2>1, <2>3, <3>1, Zenon
    <3>3. QED
      BY <3>2
  <2>4. QED
    BY <2>2, <2>3
<1>9. T = SUBSET D
  <2> HIDE DEF T
  <2>1. T \in SUBSET (SUBSET D)
    BY DEF T
  <2>2. QED
    BY <1>8, <2>1, InductionOnSubsets
<1>10. g[D] \in Pos
  <2> HIDE DEF g
  <2> QED
    BY <1>9
<1>11. QED
  BY <1>7, <1>10

-----------------------------------------------------------------------------
(* Intervals *)

\* Open surges compound to a positive factor.
LEMMA MultiplierType ==
  ASSUME NEW r \in Root, NEW t \in Nat
  PROVE  multiplierAt(r, t) \in Nat \ {0}
<1> DEFINE open == {i \in 1..Len(Surges) : surgeApplies(Surges[i], r) /\ Open(Surges[i], t)}
           f == [i \in open |-> Surges[i].multiplier]
<1>1. Len(Surges) \in Nat
  BY SurgeAssumption
<1>2. IsFiniteSet(open)
  <2>1. IsFiniteSet(1..Len(Surges))
    BY <1>1, FS_Interval
  <2>2. open \in SUBSET (1..Len(Surges))
    OBVIOUS
  <2> HIDE DEF open
  <2>3. QED
    BY <2>1, <2>2, FS_Subset
<1>3. f \in [open -> Nat \ {0}]
  <2>1. ASSUME NEW i \in 1..Len(Surges) PROVE Surges[i].multiplier \in Nat \ {0}
    <3> DEFINE S == [everyMinutes : Nat \ {0}, durationSeconds : Nat \ {0},
                     multiplier : Nat \ {0}, routes : SUBSET Root]
    <3>1. Surges \in Seq(S)
      BY SurgeAssumption
    <3>2. Surges[i] \in S
      <4> HIDE DEF S
      <4> QED
        BY <3>1
    <3>3. QED
      BY <3>2
  <2>2. QED
    BY <2>1
<1>4. multiplierAt(r, t) = FoldFunction( *, 1, f)
  BY Zenon DEF multiplierAt
<1>5. QED
  <2> HIDE DEF open, f
  <2> QED
    BY <1>2, <1>3, <1>4, ProductType

\* An interval is a number of units, the floor at least.
LEMMA IntervalType ==
  ASSUME NEW r \in Root, NEW t \in Nat
  PROVE  effectiveInterval(r, t) \in Nat /\ effectiveInterval(r, t) >= MinInterval
<1> DEFINE m == multiplierAt(r, t)
           base == intervalFor(TracesPerHour[r])
<1>1. m \in Nat \ {0}
  BY MultiplierType
<1>2. base \in Nat /\ base >= MinInterval
  <2>1. TracesPerHour[r] \in Nat \ {0}
    BY RateAssumption
  <2>2. Hour \div TracesPerHour[r] \in Nat
    BY <2>1, TimeAssumption
  <2>3. QED
    BY <2>1, <2>2, TimeAssumption DEF intervalFor, AtLeast
<1>3. effectiveInterval(r, t) = IF m <= 1 THEN base ELSE AtLeast(MinInterval, base \div m)
  BY DEF effectiveInterval
<1> HIDE DEF m, base
<1>4. base \div m \in Nat
  BY <1>1, <1>2
<1>5. QED
  BY <1>2, <1>3, <1>4, TimeAssumption DEF AtLeast

\* There is a shortest interval, and it is positive.
LEMMA QuickestType ==
  ASSUME NEW r \in Root
  PROVE  /\ Quickest(r) \in Nat \ {0}
         /\ \A t \in 0..MaxTime : Quickest(r) <= effectiveInterval(r, t)
<1> DEFINE T == {effectiveInterval(r, t) : t \in 0..MaxTime}
<1>1. \A t \in 0..MaxTime : effectiveInterval(r, t) \in Nat \ {0}
  BY IntervalType, TimeAssumption
<1>2. T \in SUBSET Nat /\ T # {}
  <2>1. 0 \in 0..MaxTime
    BY TimeAssumption
  <2>2. QED
    BY <1>1, <2>1
<1>3. \E i \in T : \A j \in T : i <= j
  <2> HIDE DEF T
  <2> QED
    BY <1>2, LeastNatural
<1>4. \E i \in T : \A t \in 0..MaxTime : i <= effectiveInterval(r, t)
  BY <1>3
<1>5. Quickest(r) \in T /\ \A t \in 0..MaxTime : Quickest(r) <= effectiveInterval(r, t)
  BY <1>4, Zenon DEF Quickest
<1>6. QED
  BY <1>1, <1>5

-----------------------------------------------------------------------------
(* Types of the scheduler *)

\* The routes' goroutines keep their variables in their types.
LEMMA SchedulerTypes ==
  ASSUME TypeOK, [Next]_vars
  PROVE  TypeOK'
<1> USE DEF TypeOK
<1> USE TimeAssumption
<1>1. ASSUME NEW r \in Root, Begin(r) PROVE TypeOK'
  <2>1. effectiveInterval(r, now) \in Nat /\ now \in Nat
    BY IntervalType
  <2>2. QED
    BY <1>1, <2>1 DEF Begin
<1>2. ASSUME NEW r \in Root, Receive(r) PROVE TypeOK'
  BY <1>2 DEF Receive
<1>3. ASSUME NEW r \in Root, Adjust(r) PROVE TypeOK'
  <2>1. effectiveInterval(r, now) \in Nat /\ now \in Nat
    BY IntervalType
  <2>2. CASE effectiveInterval(r, now) = current[r]
    BY <1>3, <2>1, <2>2 DEF Adjust
  <2>3. CASE effectiveInterval(r, now) # current[r]
    <3> DEFINE next == effectiveInterval(r, now)
    <3>1. /\ current' = [current EXCEPT ![r] = next]
          /\ due' = [due EXCEPT ![r] = now + next]
          /\ tick' = [tick EXCEPT ![r] = FALSE]
      BY <1>3, <2>3 DEF Adjust
    <3>2. next \in Nat /\ now + next \in Nat
      BY <2>1
    <3> HIDE DEF next
    <3>3. current' \in [Root -> Nat] /\ due' \in [Root -> Nat] /\ tick' \in [Root -> BOOLEAN]
      BY <3>1, <3>2
    <3>4. QED
      BY <1>3, <3>3 DEF Adjust
  <2>4. QED
    BY <2>2, <2>3
<1>4. ASSUME NEW r \in Root, Stop(r) PROVE TypeOK'
  BY <1>4 DEF Stop
<1>5. ASSUME NEW r \in Root, Drain(r) PROVE TypeOK'
  BY <1>5 DEF Drain
<1>6. ASSUME NEW r \in Root, Finish(r) PROVE TypeOK'
  BY <1>6 DEF Finish
<1>7. CASE Cancel
  BY <1>7 DEF Cancel
<1>8. CASE Pass
  <2>1. due' \in [Root -> Nat]
    BY <1>8 DEF Pass
  <2>2. tick' \in [Root -> BOOLEAN]
    BY <1>8 DEF Pass, Ticking
  <2>3. QED
    BY <1>8, <2>1, <2>2 DEF Pass
<1>9. CASE UNCHANGED vars
  BY <1>9 DEF vars
<1>10. QED
  BY <1>1, <1>2, <1>3, <1>4, <1>5, <1>6, <1>7, <1>8, <1>9 DEF Next, RouteStep, Halted

\* A route's step leaves the other routes alone.
LEMMA OthersUntouched ==
  ASSUME TypeOK, NEW r \in Root, RouteStep(r) \/ Finish(r), NEW x \in Root, x # r
  PROVE  /\ pc'[x] = pc[x] /\ current'[x] = current[x] /\ due'[x] = due[x]
         /\ tick'[x] = tick[x] /\ inflight'[x] = inflight[x] /\ emitted'[x] = emitted[x]
         /\ now' = now /\ prompt' = prompt
<1> USE DEF TypeOK
<1>1. CASE Begin(r)
  BY <1>1 DEF Begin
<1>2. CASE Receive(r)
  BY <1>2 DEF Receive
<1>3. CASE Adjust(r)
  <2>1. CASE effectiveInterval(r, now) = current[r]
    BY <1>3, <2>1 DEF Adjust
  <2>2. CASE effectiveInterval(r, now) # current[r]
    BY <1>3, <2>2 DEF Adjust
  <2>3. QED
    BY <2>1, <2>2
<1>4. CASE Stop(r)
  BY <1>4 DEF Stop
<1>5. CASE Drain(r)
  BY <1>5 DEF Drain
<1>6. CASE Finish(r)
  BY <1>6 DEF Finish
<1>7. QED
  BY <1>1, <1>2, <1>3, <1>4, <1>5, <1>6 DEF RouteStep

-----------------------------------------------------------------------------
(* The pace of a route *)

\* The ticks a route has used: those it has served and the one that waits.
Ticks(r) == emitted[r] + (IF tick[r] THEN 1 ELSE 0)

\* A route has used no more ticks than its quickest interval makes of the time
\* gone, and its ticker will not fire before the next is due at that pace.
Paced(r) ==
  /\ pc[r] = "start" => Ticks(r) = 0
  /\ pc[r] # "start" => current[r] >= Quickest(r) /\ current[r] >= MinInterval
  /\ Ticks(r) * Quickest(r) <= now
  /\ Ticking(r) => due[r] > now /\ (Ticks(r) + 1) * Quickest(r) <= due[r]

\* Every step keeps every route's pace.
LEMMA PaceKept ==
  ASSUME TypeOK, TypeOK', [Next]_vars, NEW x \in Root, Paced(x)
  PROVE  Paced(x)'
<1> DEFINE q == Quickest(x)
<1>1. q \in Nat \ {0} /\ q' = q
  BY QuickestType
<1>2. /\ now \in 0..MaxTime /\ now \in Nat /\ now' \in Nat
      /\ emitted[x] \in Nat /\ tick[x] \in BOOLEAN /\ current[x] \in Nat /\ due[x] \in Nat
      /\ emitted'[x] \in Nat /\ tick'[x] \in BOOLEAN
  BY TimeAssumption DEF TypeOK
<1>3. Ticks(x) \in Nat /\ Ticks(x)' \in Nat
  BY <1>2 DEF Ticks
<1>4. \A n \in Nat : n * q \in Nat /\ (n + 1) * q = n * q + q
  BY <1>1
<1>5. ASSUME pc'[x] = pc[x], current'[x] = current[x], due'[x] = due[x],
             tick'[x] = tick[x], emitted'[x] = emitted[x], now' = now
      PROVE  Paced(x)'
  <2>1. Ticks(x)' = Ticks(x) /\ Ticking(x)' = Ticking(x)
    BY <1>5 DEF Ticks, Ticking
  <2>2. QED
    BY <1>1, <1>5, <2>1 DEF Paced
<1>6. CASE Begin(x)
  <2> DEFINE first == effectiveInterval(x, now)
  <2>1. first \in Nat /\ first >= q /\ first >= MinInterval
    BY <1>2, IntervalType, QuickestType
  <2>2. /\ pc[x] = "start" /\ pc'[x] = "select" /\ current'[x] = first
        /\ due'[x] = now + first /\ tick'[x] = tick[x] /\ emitted'[x] = emitted[x]
        /\ now' = now
    BY <1>6 DEF Begin, TypeOK
  <2>3. Ticks(x)' = 0 /\ Ticks(x) = 0
    BY <2>2 DEF Ticks, Paced
  <2> HIDE DEF first
  <2>4. (0 + 1) * q = q /\ 0 * q = 0
    BY <1>1
  <2>5. QED
    BY <1>1, <1>2, <2>1, <2>2, <2>3, <2>4 DEF Paced
<1>7. CASE Receive(x)
  <2>1. /\ pc[x] = "select" /\ pc'[x] = "adjust" /\ tick[x] /\ ~tick'[x]
        /\ emitted'[x] = emitted[x] + 1 /\ now' = now
        /\ current'[x] = current[x] /\ due'[x] = due[x]
    BY <1>7 DEF Receive, TypeOK
  <2>2. Ticks(x)' = Ticks(x) /\ Ticking(x)' /\ Ticking(x)
    BY <1>2, <2>1 DEF Ticks, Ticking
  <2>3. QED
    BY <1>1, <2>1, <2>2 DEF Paced
<1>8. CASE Adjust(x)
  <2> DEFINE next == effectiveInterval(x, now)
  <2>1. next \in Nat /\ next >= q /\ next >= MinInterval
    BY <1>2, IntervalType, QuickestType
  <2>2. /\ pc[x] = "adjust" /\ pc'[x] = "select" /\ emitted'[x] = emitted[x] /\ now' = now
    BY <1>8 DEF Adjust, TypeOK
  <2>3. Ticking(x) /\ Ticking(x)'
    BY <2>2 DEF Ticking
  <2>4. CASE next = current[x]
    <3>1. current'[x] = current[x] /\ due'[x] = due[x] /\ tick'[x] = tick[x]
      BY <1>8, <2>4 DEF Adjust
    <3>2. Ticks(x)' = Ticks(x)
      BY <2>2, <3>1 DEF Ticks
    <3>3. QED
      BY <1>1, <2>2, <2>3, <3>1, <3>2 DEF Paced
  <2>5. CASE next # current[x]
    <3>1. current'[x] = next /\ due'[x] = now + next /\ ~tick'[x]
      BY <1>8, <2>5 DEF Adjust, TypeOK
    <3>2. Ticks(x)' = emitted[x] /\ emitted[x] <= Ticks(x)
      BY <1>2, <2>2, <3>1 DEF Ticks
    <3>3. emitted[x] * q <= Ticks(x) * q
      BY <1>1, <1>2, <1>3, <3>2
    <3>4. Ticks(x) * q <= now /\ emitted[x] * q \in Nat /\ Ticks(x) * q \in Nat
      BY <1>2, <1>3, <1>4 DEF Paced
    <3>5. (emitted[x] + 1) * q = emitted[x] * q + q
      BY <1>2, <1>4
    <3> HIDE DEF next
    <3>6. /\ emitted[x] * q <= now'
          /\ due'[x] > now' /\ (emitted[x] + 1) * q <= due'[x]
      BY <1>1, <1>2, <2>1, <2>2, <3>1, <3>3, <3>4, <3>5
    <3>7. QED
      BY <1>1, <2>1, <2>2, <3>1, <3>2, <3>6 DEF Paced
  <2>6. QED
    BY <2>4, <2>5
<1>9. CASE Stop(x)
  <2>1. pc[x] = "select" /\ pc'[x] = "drain"
    BY <1>9 DEF Stop, TypeOK
  <2>2. UNCHANGED <<now, current, due, tick, emitted>>
    BY <1>9 DEF Stop
  <2>3. Ticks(x)' = Ticks(x) /\ Ticking(x)
    BY <2>1, <2>2 DEF Ticks, Ticking
  <2>4. QED
    BY <1>1, <2>1, <2>2, <2>3 DEF Paced
<1>10. CASE Drain(x)
  <2>1. pc[x] = "drain" /\ pc'[x] = "done" /\ ~tick'[x]
    BY <1>10 DEF Drain, TypeOK
  <2>2. UNCHANGED <<now, current, emitted>>
    BY <1>10 DEF Drain
  <2>3. Ticks(x)' = emitted[x] /\ emitted[x] <= Ticks(x) /\ ~Ticking(x)'
    BY <1>2, <2>1, <2>2 DEF Ticks, Ticking
  <2>4. emitted[x] * q <= Ticks(x) * q
    BY <1>1, <1>2, <1>3, <2>3
  <2>5. Ticks(x) * q <= now /\ emitted[x] * q \in Nat /\ Ticks(x) * q \in Nat
    BY <1>2, <1>3, <1>4 DEF Paced
  <2>6. Ticks(x)' * q <= now'
    BY <1>2, <2>2, <2>3, <2>4, <2>5
  <2>7. QED
    BY <1>1, <2>1, <2>2, <2>3, <2>6 DEF Paced
<1>11. CASE Pass
  <2>1. /\ now' = now + 1 /\ UNCHANGED <<pc, current, emitted>>
        /\ tick'[x] = (tick[x] \/ (Ticking(x) /\ due[x] = now + 1))
        /\ due'[x] = IF Ticking(x) /\ due[x] = now + 1 THEN due[x] + current[x] ELSE due[x]
    BY <1>11 DEF Pass
  <2>2. CASE Ticking(x) /\ due[x] = now + 1
    <3>0. tick'[x]
      BY <2>1, <2>2
    <3>1. Ticks(x)' = emitted[x] + 1 /\ Ticks(x)' <= Ticks(x) + 1 /\ Ticking(x)'
      BY <1>2, <2>1, <2>2, <3>0 DEF Ticks, Ticking
    <3>2. (Ticks(x) + 1) * q <= now' /\ current[x] >= q /\ due'[x] = now' + current[x]
      BY <2>1, <2>2 DEF Paced, Ticking
    <3>3. Ticks(x)' * q <= (Ticks(x) + 1) * q
      BY <1>1, <1>3, <3>1
    <3>4. Ticks(x)' * q \in Nat /\ (Ticks(x) + 1) * q \in Nat
      BY <1>3, <1>4
    <3>5. Ticks(x)' * q <= now'
      BY <1>2, <3>2, <3>3, <3>4
    <3>6. (Ticks(x)' + 1) * q = Ticks(x)' * q + q
      BY <1>3, <1>4
    <3>7. due'[x] > now' /\ (Ticks(x)' + 1) * q <= due'[x]
      BY <1>1, <1>2, <3>2, <3>4, <3>5, <3>6
    <3>8. pc'[x] # "start" /\ current'[x] >= q /\ current'[x] >= MinInterval
      BY <2>1, <3>1 DEF Ticking, Paced
    <3>9. QED
      BY <1>1, <3>1, <3>5, <3>7, <3>8 DEF Paced
  <2>3. CASE ~(Ticking(x) /\ due[x] = now + 1)
    <3>1. tick'[x] = tick[x] /\ due'[x] = due[x]
      <4>1. tick'[x] <=> tick[x]
        BY <2>1, <2>3
      <4>2. QED
        BY <1>2, <2>1, <2>3, <4>1
    <3>2. Ticks(x)' = Ticks(x) /\ Ticking(x)' = Ticking(x)
      BY <2>1, <3>1 DEF Ticks, Ticking
    <3>3. Ticks(x) * q <= now /\ Ticks(x) * q \in Nat
      BY <1>3, <1>4 DEF Paced
    <3>4. Ticks(x) * q <= now'
      BY <1>2, <2>1, <3>3
    <3>5. Ticking(x) => due[x] > now'
      BY <1>2, <2>1, <2>3 DEF Paced
    <3>6. QED
      BY <1>1, <2>1, <3>1, <3>2, <3>4, <3>5 DEF Paced
  <2>4. QED
    BY <2>2, <2>3
<1>12. CASE Finish(x)
  BY <1>5, <1>12 DEF Finish
<1>13. ASSUME NEW r \in Root, r # x, RouteStep(r) \/ Finish(r) PROVE Paced(x)'
  BY <1>5, <1>13, OthersUntouched
<1>14. CASE Cancel \/ UNCHANGED vars
  BY <1>5, <1>14 DEF Cancel, vars
<1>15. QED
  BY <1>6, <1>7, <1>8, <1>9, <1>10, <1>11, <1>12, <1>13, <1>14 DEF Next, RouteStep, Halted

-----------------------------------------------------------------------------
(* Surges are noticed in time *)

\* Without delays, the interval of a route in select was right at a time t
\* that is no further back than the interval: its ticker fires by then, or has
\* just fired. While it adjusts its ticker has just fired too.
Noticed(r) ==
  prompt =>
    /\ pc[r] = "adjust" => ~tick[r] /\ due[r] = now + current[r]
    /\ pc[r] = "select" =>
         \E t \in 0..now :
           /\ current[r] = effectiveInterval(r, t)
           /\ tick[r] => due[r] = now + current[r] /\ now <= t + current[r]
           /\ ~tick[r] => due[r] <= t + current[r]

\* Every step keeps it, for every route.
LEMMA NoticedKept ==
  ASSUME TypeOK, TypeOK', [Next]_vars, NEW x \in Root, Paced(x), Noticed(x)
  PROVE  Noticed(x)'
<1>1. /\ prompt \in BOOLEAN /\ prompt' = prompt /\ now \in Nat /\ now' \in Nat
      /\ tick[x] \in BOOLEAN /\ current[x] \in Nat /\ due[x] \in Nat
  <2>1. prompt' = prompt
    BY DEF Next, RouteStep, Begin, Receive, Adjust, Stop, Drain, Finish, Cancel, Pass, Halted, vars
  <2>2. QED
    BY <2>1, TimeAssumption DEF TypeOK
<1>2. ASSUME pc'[x] = pc[x], current'[x] = current[x], due'[x] = due[x],
             tick'[x] = tick[x], now' = now
      PROVE  Noticed(x)'
  BY <1>1, <1>2 DEF Noticed
<1> SUFFICES ASSUME prompt PROVE Noticed(x)'
  BY <1>1 DEF Noticed
<1>3. effectiveInterval(x, now) \in Nat /\ now \in 0..now
  BY <1>1, IntervalType
<1>4. CASE Begin(x)
  <2>1. /\ pc[x] = "start" /\ pc'[x] = "select" /\ current'[x] = effectiveInterval(x, now)
        /\ due'[x] = now + current'[x] /\ tick'[x] = tick[x] /\ now' = now
    BY <1>4 DEF Begin, TypeOK
  <2>2. ~tick[x]
    <3>1. emitted[x] \in Nat /\ Ticks(x) = 0
      BY <2>1 DEF Paced, TypeOK
    <3>2. QED
      BY <3>1 DEF Ticks
  <2>3. QED
    BY <1>3, <2>1, <2>2 DEF Noticed
<1>5. CASE Receive(x)
  <2>1. /\ pc[x] = "select" /\ pc'[x] = "adjust" /\ tick[x] /\ ~tick'[x] /\ now' = now
        /\ current'[x] = current[x] /\ due'[x] = due[x]
    BY <1>5 DEF Receive, TypeOK
  <2>2. QED
    BY <2>1 DEF Noticed
<1>6. CASE Adjust(x)
  <2>1. pc[x] = "adjust" /\ pc'[x] = "select" /\ now' = now
    BY <1>6 DEF Adjust, TypeOK
  <2>2. ~tick[x] /\ due[x] = now + current[x]
    BY <2>1 DEF Noticed
  <2>3. /\ current'[x] = effectiveInterval(x, now) /\ ~tick'[x]
        /\ due'[x] = now + current'[x]
    <3>1. CASE effectiveInterval(x, now) = current[x]
      BY <1>6, <2>2, <3>1 DEF Adjust
    <3>2. CASE effectiveInterval(x, now) # current[x]
      BY <1>6, <3>2 DEF Adjust, TypeOK
    <3>3. QED
      BY <3>1, <3>2
  <2>4. QED
    BY <1>3, <2>1, <2>3 DEF Noticed
<1>7. CASE Stop(x)
  <2>1. pc'[x] = "drain"
    BY <1>7 DEF Stop, TypeOK
  <2>2. QED
    BY <2>1 DEF Noticed
<1>8. CASE Drain(x)
  <2>1. pc'[x] = "done"
    BY <1>8 DEF Drain, TypeOK
  <2>2. QED
    BY <2>1 DEF Noticed
<1>9. CASE Pass
  <2>1. /\ pc'[x] = pc[x] /\ current'[x] = current[x] /\ now' = now + 1
        /\ pc[x] # "adjust" /\ (pc[x] = "select" => ~tick[x])
    BY <1>9 DEF Pass
  <2> SUFFICES ASSUME pc[x] = "select" PROVE Noticed(x)'
    BY <2>1 DEF Noticed
  <2>2. Ticking(x) /\ due[x] > now
    BY DEF Ticking, Paced
  <2>3. PICK t \in 0..now : current[x] = effectiveInterval(x, t) /\ due[x] <= t + current[x]
    BY <2>1 DEF Noticed
  <2>4. t \in 0..now'
    BY <1>1, <2>1
  <2>5. CASE due[x] = now + 1
    <3>1. tick'[x] /\ due'[x] = due[x] + current[x]
      BY <1>9, <2>2, <2>5 DEF Pass
    <3>2. due'[x] = now' + current'[x] /\ now' <= t + current'[x]
      BY <2>1, <2>3, <2>5, <3>1
    <3>3. QED
      BY <2>1, <2>3, <2>4, <3>1, <3>2 DEF Noticed
  <2>6. CASE due[x] # now + 1
    <3>1. due'[x] = due[x]
      BY <1>9, <2>6 DEF Pass
    <3>2. ~tick'[x]
      BY <1>9, <2>1, <2>6 DEF Pass
    <3>3. QED
      BY <2>1, <2>3, <2>4, <3>1, <3>2 DEF Noticed
  <2>7. QED
    BY <2>5, <2>6
<1>10. CASE Finish(x)
  BY <1>2, <1>10 DEF Finish
<1>11. ASSUME NEW r \in Root, r # x, RouteStep(r) \/ Finish(r) PROVE Noticed(x)'
  BY <1>2, <1>11, OthersUntouched
<1>12. CASE Cancel \/ UNCHANGED vars
  BY <1>2, <1>12 DEF Cancel, vars
<1>13. QED
  BY <1>4, <1>5, <1>6, <1>7, <1>8, <1>9, <1>10, <1>11, <1>12 DEF Next, RouteStep, Halted

-----------------------------------------------------------------------------
(* The scheduler's invariant *)

\* No emission outlives its route's goroutine: one more step of it does not.
LEMMA DrainKept ==
  ASSUME TypeOK, TypeOK', [Next]_vars, NothingOutlivesRun
  PROVE  NothingOutlivesRun'
<1> SUFFICES ASSUME NEW x \in Root, pc'[x] = "done" PROVE inflight'[x] = 0
  BY DEF NothingOutlivesRun
<1>1. ASSUME pc'[x] = pc[x], inflight'[x] = inflight[x] PROVE inflight'[x] = 0
  BY <1>1 DEF NothingOutlivesRun
<1>2. pc'[x] # "select" /\ pc'[x] # "adjust" /\ pc'[x] # "drain"
  OBVIOUS
<1>3. ~Begin(x) /\ ~Receive(x) /\ ~Adjust(x) /\ ~Stop(x)
  BY <1>2 DEF Begin, Receive, Adjust, Stop, TypeOK
<1>4. CASE Drain(x)
  BY <1>4 DEF Drain
<1>5. CASE Finish(x)
  BY <1>5 DEF Finish, NothingOutlivesRun
<1>6. ASSUME NEW r \in Root, r # x, RouteStep(r) \/ Finish(r) PROVE inflight'[x] = 0
  BY <1>1, <1>6, OthersUntouched
<1>7. CASE Cancel \/ Pass \/ UNCHANGED vars
  BY <1>1, <1>7 DEF Cancel, Pass, vars
<1>8. QED
  BY <1>3, <1>4, <1>5, <1>6, <1>7 DEF Next, RouteStep, Halted

\* What every reachable state of the scheduler satisfies.
SchedulerInv ==
  /\ TypeOK
  /\ NothingOutlivesRun
  /\ \A r \in Root : Paced(r) /\ Noticed(r)

\* It holds at the start.
LEMMA SchedulerStarts == Init => SchedulerInv
<1> SUFFICES ASSUME Init PROVE SchedulerInv
  OBVIOUS
<1> USE DEF Init
<1>1. TypeOK
  <2>1. 0 \in 0..MaxTime /\ 0 \in 0..MaxInflight /\ 0 \in Nat
    BY TimeAssumption
  <2>2. inflight \in [Root -> 0..MaxInflight] /\ now \in 0..MaxTime
    BY <2>1
  <2>3. /\ pc \in [Root -> {"start", "select", "adjust", "drain", "done"}]
        /\ tick \in [Root -> BOOLEAN] /\ cancelled \in BOOLEAN
    OBVIOUS
  <2>4. current \in [Root -> Nat] /\ due \in [Root -> Nat] /\ emitted \in [Root -> Nat]
    BY <2>1
  <2>5. QED
    BY <2>2, <2>3, <2>4 DEF TypeOK
<1>2. ASSUME NEW r \in Root PROVE Paced(r) /\ Noticed(r)
  <2>1. Ticks(r) = 0 /\ Quickest(r) \in Nat /\ ~Ticking(r) /\ pc[r] = "start"
    BY QuickestType DEF Ticks, Ticking
  <2>2. 0 * Quickest(r) <= now
    BY <2>1
  <2>3. QED
    BY <2>1, <2>2 DEF Paced, Noticed
<1>3. NothingOutlivesRun
  BY DEF NothingOutlivesRun
<1>4. QED
  BY <1>1, <1>2, <1>3 DEF SchedulerInv

\* Every step keeps it.
LEMMA SchedulerSteps == SchedulerInv /\ [Next]_vars => SchedulerInv'
<1> SUFFICES ASSUME SchedulerInv, [Next]_vars PROVE SchedulerInv'
  OBVIOUS
<1>1. TypeOK /\ TypeOK'
  BY SchedulerTypes DEF SchedulerInv
<1>2. NothingOutlivesRun'
  BY <1>1, DrainKept DEF SchedulerInv
<1>3. \A r \in Root : Paced(r)' /\ Noticed(r)'
  BY <1>1, PaceKept, NoticedKept DEF SchedulerInv
<1>4. QED
  BY <1>1, <1>2, <1>3 DEF SchedulerInv

\* It gives what the scheduler promises.
LEMMA SchedulerPromises ==
  SchedulerInv => TickerAboveFloor /\ NeverTooMany /\ NoticedWithinOneTick
<1> SUFFICES ASSUME SchedulerInv, NEW r \in Root
             PROVE  /\ pc[r] # "start" => current[r] >= MinInterval
                    /\ emitted[r] * Quickest(r) <= now
                    /\ prompt /\ pc[r] = "select" =>
                         \E t \in 0..now : now - t <= current[r]
                                           /\ current[r] = effectiveInterval(r, t)
  BY DEF TickerAboveFloor, NeverTooMany, NoticedWithinOneTick
<1>1. TypeOK /\ Paced(r) /\ Noticed(r)
  BY DEF SchedulerInv
<1>2. /\ now \in Nat /\ emitted[r] \in Nat /\ tick[r] \in BOOLEAN
      /\ due[r] \in Nat /\ current[r] \in Nat
  BY <1>1, TimeAssumption DEF TypeOK
<1>3. emitted[r] * Quickest(r) <= now
  <2>1. Quickest(r) \in Nat
    BY QuickestType
  <2>2. Ticks(r) \in Nat /\ emitted[r] <= Ticks(r)
    BY <1>2 DEF Ticks
  <2>3. emitted[r] * Quickest(r) <= Ticks(r) * Quickest(r)
    BY <1>2, <2>1, <2>2
  <2>4. emitted[r] * Quickest(r) \in Nat /\ Ticks(r) * Quickest(r) \in Nat
    BY <1>2, <2>1, <2>2
  <2>5. QED
    BY <1>1, <1>2, <2>3, <2>4 DEF Paced
<1>4. ASSUME prompt, pc[r] = "select"
      PROVE  \E t \in 0..now : now - t <= current[r] /\ current[r] = effectiveInterval(r, t)
  <2>1. due[r] > now
    BY <1>1, <1>4 DEF Paced, Ticking
  <2>2. PICK t \in 0..now :
          /\ current[r] = effectiveInterval(r, t)
          /\ tick[r] => now <= t + current[r]
          /\ ~tick[r] => due[r] <= t + current[r]
    BY <1>1, <1>4 DEF Noticed
  <2>3. now - t <= current[r]
    BY <1>2, <2>1, <2>2
  <2>4. QED
    BY <2>2, <2>3
<1>5. QED
  BY <1>1, <1>3, <1>4 DEF Paced

\* Every reachable state of the scheduler satisfies it.
THEOREM SchedulerInvariance == Spec => []SchedulerInv
<1>1. Init => SchedulerInv
  BY SchedulerStarts
<1>2. SchedulerInv /\ [Next]_vars => SchedulerInv'
  BY SchedulerSteps
<1>3. QED
  BY <1>1, <1>2, PTL DEF Spec

-----------------------------------------------------------------------------
(* The program around the scheduler *)

\* All a step of the program does to the scheduler's variables is a step of
\* the scheduler.
LEMMA ProgramStepsScheduler == [ProgramNext]_allVars => [Next]_vars
<1> SUFFICES ASSUME [ProgramNext]_allVars PROVE [Next]_vars
  OBVIOUS
<1>1. CASE MainStep
  BY <1>1 DEF MainStep, Load, Setup, RunReturns, Join, Flush, Summarise
<1>2. CASE Signal
  BY <1>2 DEF Signal, Next
<1>3. CASE Generate
  BY <1>3 DEF Generate, Next
<1>4. ASSUME NEW r \in Root, Emitted(r) PROVE [Next]_vars
  BY <1>4 DEF Emitted, Next
<1>5. CASE ReporterStops
  BY <1>5 DEF ReporterStops
<1>6. CASE Exited \/ UNCHANGED allVars
  BY <1>6 DEF Exited, allVars
<1>7. QED
  BY <1>1, <1>2, <1>3, <1>4, <1>5, <1>6 DEF ProgramNext

\* A run of the program is a run of its scheduler.
LEMMA ProgramRunsScheduler == ProgramSpec => Init /\ [][Next]_vars
<1>1. ProgramInit => Init
  BY DEF ProgramInit
<1>2. [ProgramNext]_allVars => [Next]_vars
  BY ProgramStepsScheduler
<1>3. QED
  BY <1>1, <1>2, PTL DEF ProgramSpec

\* So the scheduler's invariant holds in the program.
LEMMA SchedulerInProgram == ProgramSpec => []SchedulerInv
<1>1. Init => SchedulerInv
  BY SchedulerStarts
<1>2. SchedulerInv /\ [Next]_vars => SchedulerInv'
  BY SchedulerSteps
<1>3. QED
  BY <1>1, <1>2, ProgramRunsScheduler, PTL

\* However late goroutines are and however surges open and close, no route of
\* the program emits more than its fastest legal rate makes of the time gone:
\* runRoute's ticker and its Reset.
THEOREM ProgramNeverTooMany == ProgramSpec => []NeverTooMany
<1>1. SchedulerInv => NeverTooMany
  BY SchedulerPromises
<1>2. QED
  BY <1>1, SchedulerInProgram, PTL

\* Every interval a ticker of the program is made or reset with is at least the
\* floor, whatever surges compound.
THEOREM ProgramTickerAboveFloor == ProgramSpec => []TickerAboveFloor
<1>1. SchedulerInv => TickerAboveFloor
  BY SchedulerPromises
<1>2. QED
  BY <1>1, SchedulerInProgram, PTL

\* Without delays of the machine's making, a surge that opens or closes is
\* noticed at the next tick of every route.
THEOREM ProgramNoticesSurges == ProgramSpec => []NoticedWithinOneTick
<1>1. SchedulerInv => NoticedWithinOneTick
  BY SchedulerPromises
<1>2. QED
  BY <1>1, SchedulerInProgram, PTL

\* What main.run and the reporter add: nothing is started before the engine
\* runs, the engine is left when its goroutines are done, and the counters of
\* traces add up.
ProgramInv ==
  /\ ProgramTypeOK
  /\ main \in {"load", "setup"} =>
       /\ reporter = "none" /\ traces = 0 /\ flushed = 0 /\ summary = 0
       /\ \A r \in Root : pc[r] = "start" /\ inflight[r] = 0
  /\ main \in {"join", "flush", "summary"} => Returned
  /\ main = "exited" => \A r \in Root : inflight[r] = 0
  /\ main \in {"flush", "summary", "exited"} => reporter # "ticking"
  /\ traces + SumFunction(inflight) = SumFunction(emitted)
  /\ main = "summary" => flushed = traces
  /\ status = "ok" => flushed = traces /\ summary = traces

\* The two sums are numbers.
LEMMA SumsAreNumbers ==
  ASSUME TypeOK
  PROVE  /\ inflight \in [Root -> Nat] /\ emitted \in [Root -> Nat]
         /\ SumFunction(inflight) \in Nat /\ SumFunction(emitted) \in Nat
<1>1. 0..MaxInflight \subseteq Nat
  BY TimeAssumption
<1>2. inflight \in [Root -> Nat] /\ emitted \in [Root -> Nat]
  BY <1>1 DEF TypeOK
<1>3. QED
  BY <1>2, RootAssumption, SumType

\* Without emissions in progress their sum is zero, and only then.
LEMMA SumOfQuiet ==
  ASSUME TypeOK
  PROVE  SumFunction(inflight) = 0 <=> \A r \in Root : inflight[r] = 0
<1>1. inflight \in [Root -> Nat] /\ SumFunction(inflight) \in Nat
  BY SumsAreNumbers
<1>2. (\A r \in Root : inflight[r] = 0) => SumFunction(inflight) = 0
  BY <1>1, RootAssumption, SumOfZeros
<1>3. \A r \in Root : SumFunction(inflight) >= inflight[r] /\ inflight[r] \in Nat
  BY <1>1, RootAssumption, SumType
<1>4. SumFunction(inflight) = 0 => \A r \in Root : inflight[r] = 0
  BY <1>3
<1>5. QED
  BY <1>2, <1>4

\* A tick received adds one to both sums.
LEMMA ReceiveAdds ==
  ASSUME TypeOK, TypeOK', NEW r \in Root, Receive(r)
  PROVE  /\ SumFunction(inflight') = SumFunction(inflight) + 1
         /\ SumFunction(emitted') = SumFunction(emitted) + 1
<1>1. /\ inflight \in [Root -> Nat] /\ emitted \in [Root -> Nat]
      /\ SumFunction(inflight) \in Nat /\ SumFunction(emitted) \in Nat
  BY SumsAreNumbers
<1>2. inflight' \in [Root -> Nat] /\ emitted' \in [Root -> Nat]
  BY TimeAssumption DEF TypeOK
<1>3. SumFunction(inflight') \in Nat /\ SumFunction(emitted') \in Nat
  BY <1>2, RootAssumption, SumType
<1>4. /\ inflight'[r] = inflight[r] + 1 /\ emitted'[r] = emitted[r] + 1
      /\ \A y \in Root \ {r} : inflight'[y] = inflight[y] /\ emitted'[y] = emitted[y]
  BY <1>1 DEF Receive
<1>5. SumFunction(inflight') + inflight[r] = SumFunction(inflight) + inflight'[r]
  BY <1>1, <1>2, <1>4, RootAssumption, SumChanges
<1>6. SumFunction(emitted') + emitted[r] = SumFunction(emitted) + emitted'[r]
  BY <1>1, <1>2, <1>4, RootAssumption, SumChanges
<1>7. QED
  BY <1>1, <1>3, <1>4, <1>5, <1>6

\* An emission that returns takes one from those in progress.
LEMMA FinishTakes ==
  ASSUME TypeOK, TypeOK', NEW r \in Root, Finish(r)
  PROVE  /\ SumFunction(inflight) > 0
         /\ SumFunction(inflight') = SumFunction(inflight) - 1
<1>1. inflight \in [Root -> Nat] /\ SumFunction(inflight) \in Nat
  BY SumsAreNumbers
<1>2. inflight' \in [Root -> Nat]
  BY TimeAssumption DEF TypeOK
<1>3. SumFunction(inflight') \in Nat
  BY <1>2, RootAssumption, SumType
<1>4. /\ inflight[r] > 0 /\ inflight'[r] = inflight[r] - 1
      /\ \A y \in Root \ {r} : inflight'[y] = inflight[y]
  BY <1>1 DEF Finish
<1>5. SumFunction(inflight') + inflight[r] = SumFunction(inflight) + inflight'[r]
  BY <1>1, <1>2, <1>4, RootAssumption, SumChanges
<1>6. SumFunction(inflight) >= inflight[r]
  BY <1>1, RootAssumption, SumType
<1>7. QED
  BY <1>1, <1>3, <1>4, <1>5, <1>6

\* Once the engine's goroutines are done no emission is in progress, and no
\* step of a route starts one.
LEMMA DoneIsQuiet ==
  ASSUME SchedulerInv, Returned
  PROVE  \A r \in Root : inflight[r] = 0 /\ ~RouteStep(r) /\ ~Finish(r)
<1>1. \A r \in Root : inflight[r] = 0
  BY DEF SchedulerInv, NothingOutlivesRun, Returned
<1>2. \A r \in Root : ~RouteStep(r) /\ ~Finish(r)
  BY <1>1 DEF Returned, RouteStep, Begin, Receive, Adjust, Stop, Drain, Finish
<1>3. QED
  BY <1>1, <1>2

\* The program starts in its invariant.
LEMMA ProgramStarts == ProgramInit => ProgramInv
<1> SUFFICES ASSUME ProgramInit PROVE ProgramInv
  OBVIOUS
<1>1. Init /\ TypeOK
  BY SchedulerStarts DEF ProgramInit, SchedulerInv
<1>2. \A r \in Root : pc[r] = "start" /\ inflight[r] = 0 /\ emitted[r] = 0
  BY <1>1 DEF Init
<1>3. SumFunction(inflight) = 0 /\ SumFunction(emitted) = 0
  BY <1>1, <1>2, SumsAreNumbers, RootAssumption, SumOfZeros
<1>4. QED
  BY <1>2, <1>3 DEF ProgramInit, ProgramInv, ProgramTypeOK

\* Every step of the program keeps it.
LEMMA ProgramSteps ==
  ASSUME SchedulerInv, SchedulerInv', ProgramInv, [ProgramNext]_allVars
  PROVE  ProgramInv'
<1> DEFINE live == SumFunction(inflight)
           started == SumFunction(emitted)
<1>1. TypeOK /\ TypeOK' /\ live \in Nat /\ started \in Nat
  BY SumsAreNumbers DEF SchedulerInv
<1>2. /\ traces \in Nat /\ flushed \in Nat /\ summary \in Nat
      /\ traces + live = started
  BY DEF ProgramInv, ProgramTypeOK
<1>3. live = 0 <=> \A r \in Root : inflight[r] = 0
  BY <1>1, SumOfQuiet
<1> HIDE DEF live, started
<1>4. ASSUME UNCHANGED vars
      PROVE  live' = live /\ started' = started /\ Returned' = Returned
             /\ UNCHANGED <<pc, inflight>>
  BY <1>4 DEF live, started, vars, Returned
<1>5. CASE Load
  <2>1. UNCHANGED vars
    BY <1>5 DEF Load
  <2>2. QED
    BY <1>2, <1>4, <1>5, <2>1 DEF Load, Exit, ProgramInv, ProgramTypeOK, live, started
<1>6. CASE Setup
  <2>1. UNCHANGED vars
    BY <1>6 DEF Setup
  <2>2. QED
    BY <1>2, <1>4, <1>6, <2>1 DEF Setup, Exit, ProgramInv, ProgramTypeOK, live, started
<1>7. CASE RunReturns
  <2>1. UNCHANGED vars
    BY <1>7 DEF RunReturns
  <2>2. QED
    BY <1>2, <1>4, <1>7, <2>1 DEF RunReturns, ProgramInv, ProgramTypeOK, live, started
<1>8. CASE Join
  <2>1. UNCHANGED vars
    BY <1>8 DEF Join
  <2>2. QED
    BY <1>2, <1>4, <1>8, <2>1 DEF Join, ProgramInv, ProgramTypeOK, live, started
<1>9. CASE Flush
  <2>1. UNCHANGED vars
    BY <1>9 DEF Flush
  <2>2. QED
    BY <1>2, <1>4, <1>9, <2>1 DEF Flush, ProgramInv, ProgramTypeOK, live, started
<1>10. CASE Summarise
  <2>1. UNCHANGED vars
    BY <1>10 DEF Summarise
  <2>2. \A r \in Root : inflight[r] = 0
    BY <1>10, DoneIsQuiet DEF Summarise, ProgramInv
  <2>3. QED
    BY <1>2, <1>4, <1>10, <2>1, <2>2 DEF Summarise, Exit, ProgramInv, ProgramTypeOK, live, started
<1>11. CASE main = "load" /\ Exit("killed") /\ UNCHANGED vars
            /\ UNCHANGED <<reportEvery, reporter, traces, flushed, summary>>
  BY <1>2, <1>4, <1>11 DEF Exit, ProgramInv, ProgramTypeOK, live, started
<1>12. CASE main \notin {"load", "exited"} /\ Cancel /\ UNCHANGED mvars
  <2>1. UNCHANGED <<pc, inflight, emitted>>
    BY <1>12 DEF Cancel
  <2>2. live' = live /\ started' = started /\ Returned' = Returned
    BY <2>1 DEF live, started, Returned
  <2>3. QED
    BY <1>2, <1>12, <2>1, <2>2 DEF mvars, ProgramInv, ProgramTypeOK, live, started
<1>13. CASE Generate
  <2>1. main = "run" /\ UNCHANGED mvars
    BY <1>13 DEF Generate
  <2>2. traces + live' = started'
    <3>1. CASE Pass
      <4>1. UNCHANGED <<inflight, emitted>>
        BY <3>1 DEF Pass
      <4>2. QED
        BY <1>2, <4>1 DEF live, started
    <3>2. ASSUME NEW r \in Root, Receive(r) PROVE traces + live' = started'
      <4>1. live' = live + 1 /\ started' = started + 1
        BY <1>1, <3>2, ReceiveAdds DEF live, started
      <4>2. QED
        BY <1>1, <1>2, <4>1
    <3>3. ASSUME NEW r \in Root, Begin(r) \/ Adjust(r) \/ Stop(r) \/ Drain(r)
          PROVE  traces + live' = started'
      <4>1. UNCHANGED <<inflight, emitted>>
        BY <3>3 DEF Begin, Adjust, Stop, Drain
      <4>2. QED
        BY <1>2, <4>1 DEF live, started
    <3>4. QED
      BY <1>13, <3>1, <3>2, <3>3 DEF Generate, RouteStep
  <2>3. QED
    BY <2>1, <2>2 DEF mvars, ProgramInv, ProgramTypeOK, live, started
<1>14. ASSUME NEW r \in Root, Emitted(r) PROVE ProgramInv'
  <2>1. /\ Finish(r) /\ traces' = traces + 1
        /\ UNCHANGED <<main, status, reportEvery, reporter, flushed, summary>>
    BY <1>14 DEF Emitted
  <2>2. main = "run"
    <3>1. ~Returned
      BY <2>1, DoneIsQuiet
    <3>2. QED
      BY <1>14, <3>1 DEF Emitted, ProgramInv
  <2>3. live > 0 /\ live' = live - 1
    BY <1>1, <2>1, FinishTakes DEF live
  <2>4. started' = started
    BY <2>1 DEF Finish, started
  <2>5. traces' + live' = started'
    BY <1>1, <1>2, <2>1, <2>3, <2>4
  <2>6. traces' \in Nat /\ status # "ok"
    BY <1>2, <2>1, <2>2 DEF ProgramInv, ProgramTypeOK
  <2>7. QED
    BY <2>1, <2>2, <2>5, <2>6 DEF ProgramInv, ProgramTypeOK, live, started
<1>15. CASE ReporterStops
  <2>1. UNCHANGED vars
    BY <1>15 DEF ReporterStops
  <2>2. QED
    BY <1>2, <1>4, <1>15, <2>1 DEF ReporterStops, ProgramInv, ProgramTypeOK, live, started
<1>16. CASE UNCHANGED allVars
  BY <1>2, <1>4, <1>16 DEF allVars, mvars, ProgramInv, ProgramTypeOK, live, started
<1>17. QED
  BY <1>5, <1>6, <1>7, <1>8, <1>9, <1>10, <1>11, <1>12, <1>13, <1>14, <1>15, <1>16
  DEF ProgramNext, MainStep, Signal, Exited

\* Every reachable state of the program satisfies both invariants.
THEOREM ProgramInvariance == ProgramSpec => [](SchedulerInv /\ ProgramInv)
<1>1. ProgramInit => SchedulerInv /\ ProgramInv
  BY SchedulerStarts, ProgramStarts DEF ProgramInit
<1>2. SchedulerInv /\ ProgramInv /\ [ProgramNext]_allVars => (SchedulerInv /\ ProgramInv)'
  BY SchedulerSteps, ProgramStepsScheduler, ProgramSteps
<1>3. QED
  BY <1>1, <1>2, PTL DEF ProgramSpec

\* From the flush on nothing is being emitted and no progress line is logged.
LEMMA QuietThen ==
  SchedulerInv /\ ProgramInv => QuietBeforeFlush
<1> SUFFICES ASSUME SchedulerInv, ProgramInv, main \in {"flush", "summary", "exited"}
             PROVE  SumFunction(inflight) = 0 /\ reporter # "ticking"
  BY DEF QuietBeforeFlush
<1>1. \A r \in Root : inflight[r] = 0
  BY DoneIsQuiet DEF ProgramInv
<1>2. QED
  BY <1>1, SumOfQuiet DEF SchedulerInv, ProgramInv

\* The flush of main.run begins when no emission is in progress and the
\* reporter has stopped.
THEOREM ProgramQuietBeforeFlush == ProgramSpec => []QuietBeforeFlush
<1>1. SchedulerInv /\ ProgramInv => QuietBeforeFlush
  BY QuietThen
<1>2. QED
  BY <1>1, ProgramInvariance, PTL

\* A run of main.run that ends in order has flushed, and counted in its
\* summary, every trace it ever started.
THEOREM ProgramLosesNothing == ProgramSpec => []NothingLostAtExit
<1>1. SchedulerInv /\ ProgramInv => NothingLostAtExit
  <2> SUFFICES ASSUME SchedulerInv, ProgramInv, status = "ok"
               PROVE  flushed = SumFunction(emitted) /\ summary = SumFunction(emitted)
    BY DEF NothingLostAtExit
  <2>1. main = "exited" /\ traces \in Nat
    BY DEF ProgramInv, ProgramTypeOK
  <2>2. SumFunction(inflight) = 0
    BY <2>1, QuietThen DEF QuietBeforeFlush
  <2>3. traces = SumFunction(emitted)
    BY <2>1, <2>2 DEF ProgramInv
  <2>4. QED
    BY <2>3 DEF ProgramInv
<1>2. QED
  BY <1>1, ProgramInvariance, PTL

-----------------------------------------------------------------------------
(* The program implements the session *)

\* The phase of the session at each place of main.run.
LEMMA Phases ==
  ASSUME ProgramTypeOK
  PROVE  /\ main \in {"load", "setup"} => phase = "starting"
         /\ main \in {"run", "join"} => phase = "generating"
         /\ main \in {"flush", "summary"} => phase = "flushing"
         /\ main = "exited" => phase = "over"
BY DEF phase, ProgramTypeOK

\* A step of the program is a step of the session or leaves it as it is.
LEMMA SessionStep ==
  ASSUME SchedulerInv, SchedulerInv', ProgramInv, ProgramInv', [ProgramNext]_allVars
  PROVE  [ProgramSession!Next]_ProgramSession!vars
<1> DEFINE live == SumFunction(inflight)
           started == SumFunction(emitted)
<1>1. TypeOK /\ TypeOK' /\ live \in Nat /\ started \in Nat /\ traces \in Nat
      /\ ProgramTypeOK /\ ProgramTypeOK' /\ traces + live = started
  BY SumsAreNumbers DEF SchedulerInv, ProgramInv, ProgramTypeOK
<1>2. /\ main \in {"load", "setup"} => phase = "starting"
      /\ main \in {"run", "join"} => phase = "generating"
      /\ main \in {"flush", "summary"} => phase = "flushing"
      /\ main = "exited" => phase = "over"
  BY <1>1, Phases
<1>3. /\ main' \in {"load", "setup"} => phase' = "starting"
      /\ main' \in {"run", "join"} => phase' = "generating"
      /\ main' \in {"flush", "summary"} => phase' = "flushing"
      /\ main' = "exited" => phase' = "over"
  BY <1>1 DEF phase, ProgramTypeOK
<1>4. main \in {"join", "flush", "summary"} => live = 0 /\ traces = started
  <2>1. ASSUME main \in {"join", "flush", "summary"} PROVE live = 0
    BY <1>1, <2>1, DoneIsQuiet, SumOfQuiet DEF ProgramInv
  <2>2. QED
    BY <1>1, <2>1
<1> USE DEF ProgramSession!Next, ProgramSession!vars
<1> HIDE DEF live, started
<1>5. ASSUME UNCHANGED vars PROVE live' = live /\ started' = started
  BY <1>5 DEF live, started, vars
<1>6. CASE Load
  BY <1>2, <1>3, <1>5, <1>6
  DEF Load, Exit, live, started, ProgramSession!Refuse
<1>7. CASE Setup
  BY <1>2, <1>3, <1>5, <1>7
  DEF Setup, Exit, live, started, ProgramSession!Refuse, ProgramSession!Open
<1>8. CASE RunReturns
  BY <1>2, <1>3, <1>5, <1>8 DEF RunReturns, live, started
<1>9. CASE Join
  BY <1>2, <1>3, <1>4, <1>5, <1>9 DEF Join, live, started, ProgramSession!Close
<1>10. CASE Flush
  BY <1>2, <1>3, <1>4, <1>5, <1>10 DEF Flush, live, started, ProgramSession!Flush
<1>11. CASE Summarise
  <2>1. flushed = traces
    BY <1>11 DEF Summarise, ProgramInv
  <2>2. QED
    BY <1>2, <1>3, <1>4, <1>5, <1>11, <2>1
    DEF Summarise, Exit, live, started, ProgramSession!Summarise
<1>12. CASE main = "load" /\ Exit("killed") /\ UNCHANGED vars
            /\ UNCHANGED <<reportEvery, reporter, traces, flushed, summary>>
  BY <1>2, <1>3, <1>5, <1>12 DEF Exit, live, started, ProgramSession!Refuse
<1>13. CASE main \notin {"load", "exited"} /\ Cancel /\ UNCHANGED mvars
  BY <1>13 DEF Cancel, mvars, phase
<1>14. CASE Generate
  <2>1. main = "run" /\ UNCHANGED <<main, flushed, summary>>
    BY <1>14 DEF Generate, mvars
  <2>2. phase = "generating" /\ phase' = phase
    BY <1>2, <1>3, <2>1
  <2>3. ASSUME NEW r \in Root, Receive(r) PROVE ProgramSession!Start
    <3>1. live' = live + 1 /\ started' = started + 1
      BY <1>1, <2>3, ReceiveAdds DEF live, started
    <3>2. QED
      BY <2>1, <2>2, <3>1 DEF live, started, ProgramSession!Start
  <2>4. ASSUME NEW r \in Root, Begin(r) \/ Adjust(r) \/ Stop(r) \/ Drain(r)
        PROVE  UNCHANGED ProgramSession!vars
    <3>1. UNCHANGED <<inflight, emitted>>
      BY <2>4 DEF Begin, Adjust, Stop, Drain
    <3>2. QED
      BY <2>1, <2>2, <3>1
  <2>5. CASE Pass
    BY <2>1, <2>2, <2>5 DEF Pass
  <2>6. QED
    BY <1>14, <2>3, <2>4, <2>5 DEF Generate, RouteStep
<1>15. ASSUME NEW r \in Root, Emitted(r) PROVE ProgramSession!Finish
  <2>1. Finish(r) /\ UNCHANGED <<main, flushed, summary, emitted>>
    BY <1>15 DEF Emitted, Finish
  <2>2. main = "run"
    <3>1. ~Returned
      BY <2>1, DoneIsQuiet
    <3>2. QED
      BY <1>15, <3>1 DEF Emitted, ProgramInv
  <2>3. phase = "generating" /\ phase' = phase
    BY <1>2, <1>3, <2>1, <2>2
  <2>4. live > 0 /\ live' = live - 1
    BY <1>1, <2>1, FinishTakes DEF live
  <2>5. QED
    BY <2>1, <2>3, <2>4 DEF live, ProgramSession!Finish
<1>16. CASE ReporterStops
  BY <1>5, <1>16 DEF ReporterStops, phase, live, started
<1>17. CASE UNCHANGED allVars
  BY <1>5, <1>17 DEF allVars, mvars, phase, live, started
<1>18. QED
  BY <1>6, <1>7, <1>8, <1>9, <1>10, <1>11, <1>12, <1>13, <1>14, <1>15, <1>16, <1>17
  DEF ProgramNext, MainStep, Signal, Exited

\* The goroutines of the program, with their surges, delays and signals,
\* implement the session: traces are started only before the flush, and a run
\* that ends in order ends with all of them flushed and counted.
THEOREM ProgramImplementsSession == ProgramSpec => ImplementsSession
<1>1. ProgramInit => ProgramSession!Init
  <2> SUFFICES ASSUME ProgramInit PROVE ProgramSession!Init
    OBVIOUS
  <2>1. TypeOK /\ \A r \in Root : inflight[r] = 0 /\ emitted[r] = 0
    BY SchedulerStarts DEF ProgramInit, SchedulerInv, Init
  <2>2. SumFunction(inflight) = 0 /\ SumFunction(emitted) = 0
    BY <2>1, SumsAreNumbers, RootAssumption, SumOfZeros
  <2>3. phase = "starting" /\ flushed = 0 /\ summary = 0
    BY DEF ProgramInit, phase
  <2>4. QED
    BY <2>2, <2>3 DEF ProgramSession!Init
<1>2. SchedulerInv /\ ProgramInv /\ (SchedulerInv /\ ProgramInv)' /\ [ProgramNext]_allVars
        => [ProgramSession!Next]_ProgramSession!vars
  BY SessionStep
<1>3. QED
  BY <1>1, <1>2, ProgramInvariance, PTL DEF ProgramSpec, ImplementsSession, ProgramSession!Spec

=============================================================================
