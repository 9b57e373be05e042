------------------------------- MODULE Sampling -------------------------------
(***************************************************************************)
(* The draws of the package chaos, each as the set of its outcomes, and    *)
(* the rules by which validation accepts their inputs.                     *)
(*                                                                         *)
(* An int lies between -MaxInt - 1 and MaxInt. A latency is counted in     *)
(* quarters of a millisecond and a multiplier in quarters of one, so that  *)
(* what happens between two whole milliseconds is seen.                    *)
(***************************************************************************)
EXTENDS Integers, Sequences, SequencesExt

CONSTANT MaxInt  \* the largest int

ASSUME MaxIntAssumption == MaxInt \in Nat

Wrap(n) == LET half == MaxInt + 1 IN ((n + half) % (2 * half)) - half

-----------------------------------------------------------------------------
(* Weights *)

Intn(n) == IF n <= 1 THEN {0} ELSE 0..(n - 1)

\* The sums of the first weights, as the machine adds.
Sums(weights) ==
  LET sum[i \in 0..Len(weights)] ==
        IF i = 0 THEN 0 ELSE IF weights[i] > 0 THEN Wrap(sum[i - 1] + weights[i]) ELSE sum[i - 1]
  IN  sum

SumOf(weights) == Sums(weights)[Len(weights)]

\* What the walk over the list has left of the draw r, weight after weight.
Walk(weights, r) ==
  LET left[i \in 0..Len(weights)] ==
        IF i = 0 THEN r ELSE IF weights[i] <= 0 THEN left[i - 1] ELSE left[i - 1] - weights[i]
  IN  left

\* Mutant: the walk stops one draw early.
PickAtOrEqual(weights, r) ==
  LET left == Walk(weights, r)
      hit == {i \in 1..Len(weights) : weights[i] > 0 /\ left[i] <= 0}
  IN  IF hit = {} THEN Len(weights) ELSE Min(hit)

\* The first positive weight that takes what is left of r below zero.
PickAt(weights, r) ==
  LET left == Walk(weights, r)
      hit == {i \in 1..Len(weights) : weights[i] > 0 /\ left[i] < 0}
  IN  IF hit = {} THEN Len(weights) ELSE Min(hit)

\* No index is 0 here; the code's is -1.
PickWeighted(weights) ==
  IF SumOf(weights) = 0 THEN {0} ELSE {PickAt(weights, r) : r \in Intn(SumOf(weights))}

\* Mutant: validation lets a list without a positive weight pass.
ValidWeightsAnySum(weights) == \A i \in 1..Len(weights) : weights[i] >= 0

ValidWeights(weights) ==
  /\ \A i \in 1..Len(weights) : weights[i] >= 0
  /\ weights # <<>> => SumOf(weights) # 0

-----------------------------------------------------------------------------
(* Latencies: records p50, p99, rate (whether an outlier may be drawn) and   *)
(* multiplier, in quarters                                                   *)

Larger(a, b) == IF a < b THEN b ELSE a

ValidLatency(l) ==
  /\ l.p50 >= 1 /\ l.p99 >= l.p50
  /\ l.rate => l.multiplier >= 4

\* Mutant: one flat range instead of two halves.
DrawsFlat(l, half) == Larger(4, l.p50)..(4 * l.p99)

\* The lower half of the samples is drawn between p50/4 and p50, the upper one
\* between p50 and p99.
Draws(l, half) ==
  LET p50 == Larger(1, l.p50)
      p99 == Larger(p50, l.p99)
  IN  CASE p99 = p50                   -> {4 * p50}
        [] p99 # p50 /\ half = "lower" -> Larger(4, p50)..(4 * p50)
        [] p99 # p50 /\ half = "upper" -> (4 * p50)..(4 * p99)

\* An outlier, in sixteenths: multiplied, and lifted over p99 if truncating it
\* does not leave it there.
Stretch(l, quarters) ==
  LET p99 == Larger(Larger(1, l.p50), l.p99)
      sixteenths == quarters * l.multiplier
  IN  IF sixteenths \div 16 <= p99 THEN 16 * (p99 + 1) ELSE sixteenths

MayStretch(l) == l.rate /\ l.multiplier > 4

\* math.Round, then at least a millisecond.
Millis(sixteenths) == Larger(1, (sixteenths + 8) \div 16)

=============================================================================
