---------------------------- MODULE DressingProofs ----------------------------
(***************************************************************************)
(* Proofs about Dressing, for any lists of sets, latencies and names that  *)
(* validation lets pass, and ints of any width: what is drawn may be       *)
(* drawn, shares are weights, a span has one outcome, nothing is lost in   *)
(* conversion, backends can name the route, and latencies keep their       *)
(* shape.                                                                  *)
(***************************************************************************)
EXTENDS Dressing, SamplingProofs

-----------------------------------------------------------------------------
(* The sets of a list *)

\* The weights of a list are a list of ints.
LEMMA WeightsOf ==
  ASSUME NEW S, NEW sets \in Seq(S), \A x \in S : x.weight \in Int
  PROVE  /\ weightsOf(sets) \in Seq(Int) /\ Len(weightsOf(sets)) = Len(sets)
         /\ \A i \in 1..Len(sets) : weightsOf(sets)[i] = sets[i].weight
<1>1. weightsOf(sets) \in [1..Len(sets) -> Int]
  BY DEF weightsOf
<1> QED
  BY <1>1 DEF weightsOf

\* From a list that validation lets pass a set of positive weight is picked.
LEMMA PickSetHits ==
  ASSUME NEW S, NEW sets \in Seq(S), \A x \in S : x.weight \in Int,
         ValidWeights(weightsOf(sets)), NEW i \in PickSet(sets)
  PROVE  /\ sets = <<>> => i = 0
         /\ sets # <<>> => i \in 1..Len(sets) /\ sets[i].weight > 0
<1> DEFINE w == weightsOf(sets)
<1>1. CASE sets = <<>>
  BY <1>1 DEF PickSet
<1>2. CASE sets # <<>>
  <2>1. /\ w \in Seq(Int) /\ Len(w) = Len(sets)
        /\ \A j \in 1..Len(sets) : w[j] = sets[j].weight
    BY WeightsOf
  <2> HIDE DEF w
  <2>2. w # <<>>
    BY <1>2, <2>1
  <2>3. SumOf(w) # 0
    BY <2>2 DEF ValidWeights, w
  <2>4. i \in {PickAt(w, r) : r \in Intn(SumOf(w))}
    BY <1>2, <2>3 DEF PickSet, PickWeighted, w
  <2>5. PICK r \in Intn(SumOf(w)) : i = PickAt(w, r)
    BY <2>4
  <2>6. i \in 1..Len(w) /\ w[i] > 0
    BY <2>1, <2>3, <2>5, PickAtHits
  <2> QED
    BY <1>2, <2>1, <2>6
<1> QED
  BY <1>1, <1>2

-----------------------------------------------------------------------------
(* The invariant *)

\* The inputs are those that validation lets pass.
InputInv ==
  /\ svcSets \in Seq(AttributeSet) /\ ValidWeights(weightsOf(svcSets))
  /\ routeSets \in Seq(AttributeSet) /\ ValidWeights(weightsOf(routeSets))
  /\ svcEvents \in Seq(EventSet) /\ ValidWeights(weightsOf(svcEvents))
  /\ routeEvents \in Seq(EventSet) /\ ValidWeights(weightsOf(routeEvents))
  /\ latency \in Latency /\ ValidLatency(latency)
  /\ name \in Seq(Word)
  /\ overflow \in {MinInt64, MaxInt64}

\* What each statement has left behind.
NamedInv == pc # "name" => named = routeAttributes(name, spanKind)
SvcInv == pc \in {"route", "events", "outcome", "sample", "done"} => svc \in PickSet(svcSets)
RouteInv == pc \in {"events", "outcome", "sample", "done"} => route \in PickSet(routeSets)
EventInv ==
  pc \in {"outcome", "sample", "done"} =>
    events \in PickSet(svcEvents) \X PickSet(routeEvents)
SpanInv ==
  pc \in {"sample", "done"} =>
    /\ span.code = Applied(Drawn, "code") /\ span.tags = Applied(Drawn, "tags")
    /\ failed = SomeError(Drawn) /\ statusCode = Outcome(Drawn).code
LatencyInv ==
  pc = "done" =>
    /\ half \in {"lower", "upper"} /\ outlier \in BOOLEAN
    /\ outlier => MayStretch(latency)
    /\ \E q \in Draws(latency, half) :
         millis = Millis(IF outlier THEN Stretch(latency, q) ELSE 4 * q)

Inv ==
  /\ pc \in {"name", "service", "route", "events", "outcome", "sample", "done"}
  /\ InputInv /\ NamedInv /\ SvcInv /\ RouteInv /\ EventInv /\ SpanInv /\ LatencyInv

\* It holds of every input before the span is dressed.
LEMMA InitInv == Init => Inv
<1> SUFFICES ASSUME Init PROVE Inv
  OBVIOUS
<1>1. InputInv
  <2>1. PICK input \in Inputs :
          /\ svcSets \in {s \in input.svcSets : ValidWeights(weightsOf(s))}
          /\ routeSets \in {s \in input.routeSets : ValidWeights(weightsOf(s))}
          /\ svcEvents \in {s \in input.events : ValidWeights(weightsOf(s))}
          /\ routeEvents \in {s \in input.events : ValidWeights(weightsOf(s))}
          /\ latency \in {l \in input.latency : ValidLatency(l)}
          /\ name \in input.name
    BY DEF Init
  <2>2. /\ input.svcSets \subseteq Seq(AttributeSet) /\ input.routeSets \subseteq Seq(AttributeSet)
        /\ input.events \subseteq Seq(EventSet) /\ input.latency \subseteq Latency
        /\ input.name \subseteq Seq(Word)
    BY InputsAssumption
  <2>3. overflow \in {MinInt64, MaxInt64}
    BY DEF Init, OverflowInit
  <2> QED
    BY <2>1, <2>2, <2>3 DEF InputInv
<1>2. pc = "name"
  BY DEF Init
<1> QED
  BY <1>1, <1>2 DEF Inv, NamedInv, SvcInv, RouteInv, EventInv, SpanInv, LatencyInv

\* Inputs do not change.
LEMMA InputsStay == ASSUME InputInv, UNCHANGED inputs PROVE InputInv'
<1>1. /\ ValidWeights(weightsOf(svcSets))' <=> ValidWeights(weightsOf(svcSets))
      /\ ValidWeights(weightsOf(routeSets))' <=> ValidWeights(weightsOf(routeSets))
      /\ ValidWeights(weightsOf(svcEvents))' <=> ValidWeights(weightsOf(svcEvents))
      /\ ValidWeights(weightsOf(routeEvents))' <=> ValidWeights(weightsOf(routeEvents))
      /\ ValidLatency(latency)' <=> ValidLatency(latency)
  BY DEF inputs, weightsOf, ValidWeights, SumOf, Sums, ValidLatency
<1> QED
  BY <1>1 DEF InputInv, inputs, MinInt64

\* Nor does what was drawn, while neither the lists nor the picks change; and what
\* is made of a value does not change while the machine stays the same.
LEMMA ValuesStay ==
  ASSUME UNCHANGED overflow, NEW x
  PROVE  convertOne(x)' = convertOne(x)
BY DEF convertOne, convertSlice, List, Scalar, None, Plain, AsInt, AsFloat, stringify, IsIntegral,
       Int64, Trunc, All, AllIntegral, MinInt64

\* So the attributes and the outcome of what was drawn stay.
LEMMA DrawnStays ==
  ASSUME UNCHANGED <<svcSets, routeSets, svc, route, overflow>>
  PROVE  /\ Drawn' = Drawn
         /\ \A key : Applied(Drawn, key)' = Applied(Drawn, key)
         /\ SomeError(Drawn)' <=> SomeError(Drawn)
         /\ Outcome(Drawn).code' = Outcome(Drawn).code
<1>1. Drawn' = Drawn
  BY DEF Drawn
<1>2. ASSUME NEW key PROVE Applied(Drawn, key)' = Applied(Drawn, key)
  <2>1. \A x : convertOne(x)' = convertOne(x)
    BY ValuesStay
  <2>2. SelectLastInSeq(Drawn, LAMBDA set : convertOne(set[key]) # None)'
        = SelectLastInSeq(Drawn, LAMBDA set : convertOne(set[key]) # None)
    BY <1>1, <2>1 DEF SelectLastInSeq, None
  <2> QED
    BY <1>1, <2>1, <2>2 DEF Applied, None
<1>3. SomeError(Drawn)' <=> SomeError(Drawn)
  BY <1>1 DEF SomeError, HasErrorDirective
<1>4. Outcome(Drawn).code' = Outcome(Drawn).code
  <2>1. \A h : Int64(h)' = Int64(h)
    BY DEF Int64, Trunc, MinInt64
  <2>2. SelectLastInSeq(Drawn, LAMBDA set : set.code.type = "number")'
        = SelectLastInSeq(Drawn, LAMBDA set : set.code.type = "number")
    BY <1>1 DEF SelectLastInSeq
  <2> QED
    BY <1>1, <2>1, <2>2 DEF Outcome
<1> QED
  BY <1>1, <1>2, <1>3, <1>4

\* Lists of weights are picked from in the same way while they stay.
LEMMA PicksStay ==
  ASSUME UNCHANGED inputs
  PROVE  /\ PickSet(svcSets)' = PickSet(svcSets) /\ PickSet(routeSets)' = PickSet(routeSets)
         /\ PickSet(svcEvents)' = PickSet(svcEvents) /\ PickSet(routeEvents)' = PickSet(routeEvents)
         /\ routeAttributes(name, spanKind)' = routeAttributes(name, spanKind)
BY DEF inputs, PickSet, PickWeighted, weightsOf, SumOf, Sums, Intn, PickAt, Walk,
       routeAttributes, splitHTTPRoute, splitMessagingRoute, Cased, isEntryPoint

\* The attributes of the name are put on first.
LEMMA NameKeeps == ASSUME Inv, Name PROVE Inv'
<1>1. InputInv'
  BY InputsStay DEF Inv, Name
<1>2. NamedInv'
  BY PicksStay DEF Name, NamedInv
<1> QED
  BY <1>1, <1>2 DEF Inv, Name, SvcInv, RouteInv, EventInv, SpanInv, LatencyInv

\* The three picks keep what was picked before.
LEMMA PickServiceKeeps == ASSUME Inv, PickService PROVE Inv'
<1>1. InputInv'
  BY InputsStay DEF Inv, PickService
<1>2. NamedInv' /\ SvcInv'
  BY PicksStay DEF Inv, PickService, NamedInv, SvcInv
<1> QED
  BY <1>1, <1>2 DEF Inv, PickService, RouteInv, EventInv, SpanInv, LatencyInv

\* The route's set after the service's.
LEMMA PickRouteKeeps == ASSUME Inv, PickRoute PROVE Inv'
<1>1. InputInv'
  BY InputsStay DEF Inv, PickRoute
<1>2. NamedInv' /\ SvcInv' /\ RouteInv'
  BY PicksStay DEF Inv, PickRoute, NamedInv, SvcInv, RouteInv
<1> QED
  BY <1>1, <1>2 DEF Inv, PickRoute, EventInv, SpanInv, LatencyInv

\* The events after the attributes.
LEMMA PickEventsKeeps == ASSUME Inv, PickEvents PROVE Inv'
<1>1. InputInv'
  BY InputsStay DEF Inv, PickEvents
<1>2. NamedInv' /\ SvcInv' /\ RouteInv' /\ EventInv'
  BY PicksStay DEF Inv, PickEvents, NamedInv, SvcInv, RouteInv, EventInv
<1> QED
  BY <1>1, <1>2 DEF Inv, PickEvents, SpanInv, LatencyInv

\* The span gets the attributes and the outcome of the drawn sets.
LEMMA ResolveKeeps == ASSUME Inv, Resolve PROVE Inv'
<1>1. InputInv'
  BY InputsStay DEF Inv, Resolve
<1>2. NamedInv' /\ SvcInv' /\ RouteInv' /\ EventInv'
  BY PicksStay DEF Inv, Resolve, NamedInv, SvcInv, RouteInv, EventInv
<1>3. SpanInv'
  <2>1. /\ span'.code = Applied(Drawn, "code") /\ span'.tags = Applied(Drawn, "tags")
        /\ failed' = Outcome(Drawn).failed /\ statusCode' = Outcome(Drawn).code
    BY DEF Resolve
  <2>2. Outcome(Drawn).failed = SomeError(Drawn)
    BY DEF Outcome
  <2>3. UNCHANGED <<svcSets, routeSets, svc, route, overflow>>
    BY DEF Resolve, inputs
  <2> QED
    BY <2>1, <2>2, <2>3, DrawnStays DEF SpanInv
<1> QED
  BY <1>1, <1>2, <1>3 DEF Inv, Resolve, LatencyInv

\* The latency comes last.
LEMMA SampleKeeps == ASSUME Inv, Sample PROVE Inv'
<1>1. InputInv'
  BY InputsStay DEF Inv, Sample
<1>2. NamedInv' /\ SvcInv' /\ RouteInv' /\ EventInv'
  BY PicksStay DEF Inv, Sample, NamedInv, SvcInv, RouteInv, EventInv
<1>3. SpanInv'
  <2>1. UNCHANGED <<svcSets, routeSets, svc, route, overflow, span, failed, statusCode>>
    BY DEF Sample, inputs
  <2> QED
    BY <2>1, DrawnStays DEF SpanInv, Inv, Sample
<1>4. LatencyInv'
  <2>1. latency' = latency
    BY DEF Sample, inputs
  <2> QED
    BY <2>1 DEF Sample, LatencyInv
<1> QED
  BY <1>1, <1>2, <1>3, <1>4 DEF Inv, Sample

\* Nothing changes once the span is dressed.
LEMMA StutterKeeps == ASSUME Inv, UNCHANGED vars PROVE Inv'
<1>1. InputInv'
  BY InputsStay DEF Inv, vars
<1>2. NamedInv' /\ SvcInv' /\ RouteInv' /\ EventInv'
  BY PicksStay DEF Inv, vars, NamedInv, SvcInv, RouteInv, EventInv
<1>3. SpanInv'
  <2>1. UNCHANGED <<svcSets, routeSets, svc, route, overflow, span, failed, statusCode, pc>>
    BY DEF vars, inputs
  <2> QED
    BY <2>1, DrawnStays DEF SpanInv, Inv
<1>4. LatencyInv'
  BY DEF vars, inputs, Inv, LatencyInv
<1> QED
  BY <1>1, <1>2, <1>3, <1>4 DEF Inv, vars

\* Every span is dressed within the invariant.
THEOREM DressingInvariance == Spec => []Inv
<1>1. Init => Inv
  BY InitInv
<1>2. Inv /\ [Next]_vars => Inv'
  BY NameKeeps, PickServiceKeeps, PickRouteKeeps, PickEventsKeeps, ResolveKeeps, SampleKeeps,
     StutterKeeps DEF Next, Dressed
<1> QED
  BY <1>1, <1>2, PTL DEF Spec

-----------------------------------------------------------------------------
(* Draws and latencies *)

\* From an accepted list a set is always drawn, and never one of weight 0, also when
\* PickWeighted's total wraps.
THEOREM OnlySelectableIsDrawn == Spec => []DrawnIsSelectable
<1>1. Inv => DrawnIsSelectable
  <2> SUFFICES ASSUME Inv, pc \in {"outcome", "sample", "done"} PROVE DrawnIsSelectable
    BY DEF DrawnIsSelectable
  <2>1. /\ svcSets \in Seq(AttributeSet) /\ routeSets \in Seq(AttributeSet)
        /\ svcEvents \in Seq(EventSet) /\ routeEvents \in Seq(EventSet)
    BY DEF Inv, InputInv
  <2>2. /\ svc \in PickSet(svcSets) /\ route \in PickSet(routeSets)
        /\ events[1] \in PickSet(svcEvents) /\ events[2] \in PickSet(routeEvents)
    BY DEF Inv, SvcInv, RouteInv, EventInv
  <2>3. (\A x \in AttributeSet : x.weight \in Int) /\ (\A x \in EventSet : x.weight \in Int)
    BY DEF AttributeSet, EventSet
  <2>4. /\ ValidWeights(weightsOf(svcSets)) /\ ValidWeights(weightsOf(routeSets))
        /\ ValidWeights(weightsOf(svcEvents)) /\ ValidWeights(weightsOf(routeEvents))
    BY DEF Inv, InputInv
  <2>5. svcSets # <<>> => svc > 0 /\ svcSets[svc].weight > 0
    BY <2>1, <2>2, <2>3, <2>4, PickSetHits
  <2>6. routeSets # <<>> => route > 0 /\ routeSets[route].weight > 0
    BY <2>1, <2>2, <2>3, <2>4, PickSetHits
  <2>7. svcEvents # <<>> => events[1] > 0 /\ svcEvents[events[1]].weight > 0
    BY <2>1, <2>2, <2>3, <2>4, PickSetHits
  <2>8. routeEvents # <<>> => events[2] > 0 /\ routeEvents[events[2]].weight > 0
    BY <2>1, <2>2, <2>3, <2>4, PickSetHits
  <2> QED
    BY <2>5, <2>6, <2>7, <2>8 DEF DrawnIsSelectable
<1> QED
  BY <1>1, DressingInvariance, PTL

\* A sample that is no outlier lies in its half, after rounding.
LEMMA SampleInHalf ==
  ASSUME NEW l \in Latency, ValidLatency(l), NEW h \in {"lower", "upper"},
         NEW q \in Draws(l, h)
  PROVE  /\ q \in Nat /\ q <= 4 * l.p99
         /\ Millis(4 * q) <= l.p99
         /\ h = "lower" => Millis(4 * q) <= l.p50
         /\ h = "upper" => Millis(4 * q) >= l.p50
<1>1. l.p50 \in Nat /\ l.p99 \in Nat /\ 1 <= l.p50 /\ l.p50 <= l.p99
  BY DEF Latency, ValidLatency
<1>2. Larger(1, l.p50) = l.p50 /\ Larger(l.p50, l.p99) = l.p99
  BY <1>1 DEF Larger
<1>3. Larger(4, l.p50) \in Nat
  BY <1>1 DEF Larger
<1>4. /\ q \in Nat /\ q <= 4 * l.p99
      /\ h = "lower" => q <= 4 * l.p50
      /\ h = "upper" => q >= 4 * l.p50
  <2>1. CASE l.p99 = l.p50
    BY <1>1, <1>2, <2>1 DEF Draws
  <2>2. CASE l.p99 # l.p50 /\ h = "lower"
    <3>1. q \in Larger(4, l.p50)..(4 * l.p50)
      BY <1>2, <2>2 DEF Draws
    <3> QED
      BY <1>1, <1>3, <2>2, <3>1
  <2>3. CASE l.p99 # l.p50 /\ h = "upper"
    <3>1. q \in (4 * l.p50)..(4 * l.p99)
      BY <1>2, <2>3 DEF Draws
    <3> QED
      BY <1>1, <2>3, <3>1
  <2> QED
    BY <2>1, <2>2, <2>3
<1>5. (4 * q + 8) \div 16 \in Nat
  BY <1>4
<1>6. ASSUME NEW p \in Nat, 1 <= p, q <= 4 * p PROVE Millis(4 * q) <= p
  BY <1>4, <1>5, <1>6 DEF Millis, Larger
<1>7. ASSUME NEW p \in Nat, q >= 4 * p PROVE Millis(4 * q) >= p
  BY <1>4, <1>5, <1>7 DEF Millis, Larger
<1> QED
  BY <1>1, <1>4, <1>6, <1>7

\* An outlier lies beyond p99, after rounding, whatever truncating makes of it.
LEMMA OutlierBeyond ==
  ASSUME NEW l \in Latency, ValidLatency(l), NEW q \in Nat
  PROVE  Millis(Stretch(l, q)) > l.p99 \/ ~MayStretch(l)
<1> SUFFICES ASSUME MayStretch(l) PROVE Millis(Stretch(l, q)) > l.p99
  OBVIOUS
<1>1. l.p50 \in Nat /\ l.p99 \in Nat /\ 1 <= l.p50 /\ l.p50 <= l.p99 /\ l.multiplier \in Nat
  BY DEF Latency, ValidLatency, MayStretch
<1>2. Larger(Larger(1, l.p50), l.p99) = l.p99
  BY <1>1 DEF Larger
<1>3. PICK m \in Nat : m = q * l.multiplier
  BY <1>1
<1>4. Stretch(l, q) = IF m \div 16 <= l.p99 THEN 16 * (l.p99 + 1) ELSE m
  BY <1>2, <1>3 DEF Stretch
<1>5. CASE m \div 16 <= l.p99
  <2>1. (16 * (l.p99 + 1) + 8) \div 16 = l.p99 + 1
    BY <1>1
  <2> QED
    BY <1>1, <1>4, <1>5, <2>1 DEF Millis, Larger
<1>6. CASE m \div 16 > l.p99
  <2>1. (m + 8) \div 16 > l.p99 /\ (m + 8) \div 16 \in Nat
    BY <1>1, <1>3, <1>6
  <2>2. Stretch(l, q) = m
    BY <1>1, <1>3, <1>4, <1>6
  <2> QED
    BY <1>1, <2>1, <2>2 DEF Millis, Larger
<1> QED
  BY <1>1, <1>3, <1>5, <1>6

\* p50 halves the samples and p99 bounds them, except for outliers, which stand out.
THEOREM LatenciesKeepShape == Spec => []LatencyShape
<1>1. Inv => LatencyShape
  <2> SUFFICES ASSUME Inv, pc = "done" PROVE LatencyShape
    BY DEF LatencyShape
  <2>1. latency \in Latency /\ ValidLatency(latency)
    BY DEF Inv, InputInv
  <2>2. half \in {"lower", "upper"} /\ outlier \in BOOLEAN /\ (outlier => MayStretch(latency))
    BY DEF Inv, LatencyInv
  <2>3. PICK q \in Draws(latency, half) :
          millis = Millis(IF outlier THEN Stretch(latency, q) ELSE 4 * q)
    BY DEF Inv, LatencyInv
  <2>4. /\ q \in Nat /\ Millis(4 * q) <= latency.p99
        /\ half = "lower" => Millis(4 * q) <= latency.p50
        /\ half = "upper" => Millis(4 * q) >= latency.p50
    BY <2>1, <2>2, SampleInHalf
  <2>5. CASE outlier
    BY <2>1, <2>2, <2>3, <2>4, <2>5, OutlierBeyond DEF LatencyShape
  <2>6. CASE ~outlier
    BY <2>3, <2>4, <2>6 DEF LatencyShape
  <2> QED
    BY <2>5, <2>6
<1> QED
  BY <1>1, DressingInvariance, PTL

-----------------------------------------------------------------------------
(* The outcome *)

\* The greatest of some positions.
LEMMA MaxIsLast ==
  ASSUME NEW n \in Nat, NEW I \in SUBSET (1..n), I # {}
  PROVE  Max(I) \in I /\ \A i \in I : i <= Max(I)
<1> DEFINE T == {n - i : i \in I}
<1>1. T \in SUBSET Nat /\ T # {}
  <2>1. \A i \in I : n - i \in Nat
    OBVIOUS
  <2> QED
    BY <2>1
<1>2. PICK t \in T : \A y \in T : t <= y
  <2> HIDE DEF T
  <2> QED
    BY <1>1, LeastNatural
<1>3. PICK m \in I : t = n - m
  BY <1>2
<1>4. \A i \in I : m >= i
  <2> SUFFICES ASSUME NEW i \in I PROVE m >= i
    OBVIOUS
  <2>1. t <= n - i
    BY <1>2
  <2> QED
    BY <1>3, <2>1
<1>5. Max(I) \in I /\ \A y \in I : Max(I) >= y
  BY <1>3, <1>4 DEF Max
<1> QED
  BY <1>5

\* What is left of a key is what the last set makes of it that makes anything of it.
LEMMA AppliedIs ==
  ASSUME NEW sets \in Seq(AttributeSet), NEW key
  PROVE  \/ Applied(sets, key) = None /\ \A i \in 1..Len(sets) : convertOne(sets[i][key]) = None
         \/ \E i \in 1..Len(sets) :
              /\ Applied(sets, key) = convertOne(sets[i][key]) /\ convertOne(sets[i][key]) # None
              /\ \A j \in 1..Len(sets) : j > i => convertOne(sets[j][key]) = None
<1> DEFINE n == Len(sets)
           I == {i \in 1..n : convertOne(sets[i][key]) # None}
<1>1. n \in Nat /\ I \in SUBSET (1..n)
  OBVIOUS
<1>2. Applied(sets, key) = IF (IF I # {} THEN Max(I) ELSE 0) = 0 THEN None
                           ELSE convertOne(sets[IF I # {} THEN Max(I) ELSE 0][key])
  BY DEF Applied, SelectLastInSeq
<1>3. CASE I = {}
  BY <1>2, <1>3
<1>4. CASE I # {}
  <2>1. Max(I) \in I /\ \A i \in I : i <= Max(I)
    <3> HIDE DEF I, n
    <3> QED
      BY <1>1, <1>4, MaxIsLast
  <2> DEFINE m == Max(I)
  <2>2. m \in I /\ \A i \in I : i <= m
    BY <2>1
  <2>3. Applied(sets, key) = convertOne(sets[m][key])
    <3>1. m # 0
      BY <1>1, <2>2
    <3> QED
      BY <1>2, <1>4, <3>1
  <2> HIDE DEF m
  <2>4. \A j \in 1..n : j > m => convertOne(sets[j][key]) = None
    BY <1>1, <2>2
  <2> QED
    BY <2>2, <2>3, <2>4
<1> QED
  BY <1>3, <1>4

\* The status code is the last number of the sets, and 0 without one.
LEMMA CodeIs ==
  ASSUME NEW sets \in Seq(AttributeSet), NEW i \in 1..Len(sets), sets[i].code.type = "number",
         \A j \in 1..Len(sets) : j > i => sets[j].code.type # "number"
  PROVE  Outcome(sets).code = Int64(sets[i].code.number)
<1> DEFINE n == Len(sets)
           I == {j \in 1..n : sets[j].code.type = "number"}
<1>1. n \in Nat /\ I \in SUBSET (1..n) /\ i \in I /\ \A j \in I : j <= i
  OBVIOUS
<1>2. Max(I) = i
  <2>1. Max(I) \in I /\ i <= Max(I)
    <3> HIDE DEF I, n
    <3> QED
      BY <1>1, MaxIsLast
  <2>2. Max(I) <= i
    BY <1>1, <2>1
  <2> HIDE DEF I
  <2> QED
    BY <1>1, <2>1, <2>2
<1>3. SelectLastInSeq(sets, LAMBDA set : set.code.type = "number") = i
  BY <1>1, <1>2 DEF SelectLastInSeq
<1> QED
  BY <1>1, <1>3 DEF Outcome

\* What a value becomes, by its type.
LEMMA ConvertedIs ==
  ASSUME NEW x \in Value
  PROVE  /\ x.type \in {"absent", "null", "object"} => convertOne(x) = None
         /\ x.type \in {"bool", "string"} => convertOne(x) = Scalar(<<x.type, x.number>>)
         /\ x.type = "number" =>
              convertOne(x) = Scalar(IF IsIntegral(x) THEN <<"int", Int64(x.number)>>
                                     ELSE <<"float", x.number>>)
         /\ x.type = "array" => convertOne(x) = convertSlice(x.elems)
<1>1. x.type \in JsonType
  BY DEF Value
<1>2. CASE x.type \in {"absent", "null", "object"}
  BY <1>2 DEF convertOne
<1>3. CASE x.type \in {"bool", "string"}
  BY <1>3 DEF convertOne, Plain
<1>4. CASE x.type = "number"
  BY <1>4 DEF convertOne, AsInt, AsFloat
<1>5. CASE x.type = "array"
  BY <1>5 DEF convertOne
<1> QED
  BY <1>1, <1>2, <1>3, <1>4, <1>5 DEF JsonType

\* A list of values is a list, or nothing when it is empty.
LEMMA SliceIs ==
  ASSUME NEW xs \in Seq(Item)
  PROVE  /\ xs = <<>> => convertSlice(xs) = None
         /\ xs # <<>> => convertSlice(xs).list = TRUE
<1>1. xs = <<>> => convertSlice(xs) = None
  BY DEF convertSlice
<1>2. CASE xs # <<>> /\ (All(xs, "bool") \/ All(xs, "string"))
  BY <1>2 DEF convertSlice, List
<1>3. CASE xs # <<>> /\ ~(All(xs, "bool") \/ All(xs, "string")) /\ All(xs, "number")
  BY <1>3 DEF convertSlice, List
<1>4. CASE xs # <<>> /\ ~(All(xs, "bool") \/ All(xs, "string")) /\ ~All(xs, "number")
  BY <1>4 DEF convertSlice, List
<1> QED
  BY <1>1, <1>2, <1>3, <1>4

\* What is one value and not nothing has one element.
LEMMA ScalarIs ==
  ASSUME NEW e
  PROVE  /\ Scalar(e).list = FALSE /\ Scalar(e).elems = <<e>> /\ Scalar(e).elems[1] = e
         /\ Scalar(e) # None
<1>1. Scalar(e).elems = <<e>> /\ None.elems = <<>> /\ <<e>> # <<>>
  BY DEF Scalar, None
<1> QED
  BY <1>1 DEF Scalar

\* The items of a list are values.
LEMMA ItemsAreValues ==
  ASSUME NEW x \in Value
  PROVE  x.type \in JsonType /\ x.number \in Int /\ x.elems \in Seq(Item)
BY DEF Value

\* The sets drawn are sets of the lists.
LEMMA DrawnAreSets ==
  ASSUME Inv, pc \in {"sample", "done"}
  PROVE  Drawn \in Seq(AttributeSet)
<1>1. /\ svcSets \in Seq(AttributeSet) /\ routeSets \in Seq(AttributeSet)
      /\ ValidWeights(weightsOf(svcSets)) /\ ValidWeights(weightsOf(routeSets))
      /\ svc \in PickSet(svcSets) /\ route \in PickSet(routeSets)
  BY DEF Inv, InputInv, SvcInv, RouteInv
<1>2. \A x \in AttributeSet : x.weight \in Int
  BY DEF AttributeSet
<1>3. svc # 0 => svc \in 1..Len(svcSets)
  BY <1>1, <1>2, PickSetHits
<1>4. route # 0 => route \in 1..Len(routeSets)
  BY <1>1, <1>2, PickSetHits
<1> DEFINE a == IF svc = 0 THEN <<>> ELSE <<svcSets[svc]>>
           b == IF route = 0 THEN <<>> ELSE <<routeSets[route]>>
<1>5. a \in Seq(AttributeSet) /\ b \in Seq(AttributeSet)
  BY <1>1, <1>3, <1>4
<1>6. Drawn = a \o b
  BY DEF Drawn
<1> HIDE DEF a, b
<1> QED
  BY <1>5, <1>6

\* A span fails when a set with the directive was drawn for it, and its metrics have
\* the status code that is on the span.
THEOREM OutcomesMatch == Spec => []OutcomeMatchesSpan
<1>1. Inv => OutcomeMatchesSpan
  <2> SUFFICES ASSUME Inv, pc \in {"sample", "done"} PROVE OutcomeMatchesSpan
    BY DEF OutcomeMatchesSpan
  <2>1. /\ span.code = Applied(Drawn, "code") /\ failed = SomeError(Drawn)
        /\ statusCode = Outcome(Drawn).code
    BY DEF Inv, SpanInv
  <2>2. Drawn \in Seq(AttributeSet)
    BY DrawnAreSets
  <2>3. failed = (\E i \in DOMAIN Drawn : HasErrorDirective(Drawn[i]))
    BY <2>1 DEF SomeError
  <2> DEFINE a == span.code
             e == a.elems[1]
  <2>4. ASSUME ~a.list, a # None
        PROVE  /\ e[1] = "int" => statusCode = e[2]
               /\ e[1] = "float" => statusCode = Int64(e[2])
    <3>1. PICK i \in 1..Len(Drawn) :
            /\ a = convertOne(Drawn[i].code) /\ convertOne(Drawn[i].code) # None
            /\ \A j \in 1..Len(Drawn) : j > i => convertOne(Drawn[j].code) = None
      <4>1. Applied(Drawn, "code") # None
        BY <2>1, <2>4
      <4> QED
        BY <2>1, <2>2, <4>1, AppliedIs
    <3> DEFINE x == Drawn[i].code
    <3>2. \A j \in 1..Len(Drawn) : Drawn[j].code \in Value
      <4>1. \A j \in 1..Len(Drawn) : Drawn[j] \in AttributeSet
        BY <2>2
      <4> QED
        BY <4>1 DEF AttributeSet
    <3>3. x \in Value /\ x.type \in JsonType /\ x.elems \in Seq(Item)
      BY <3>2, ItemsAreValues
    <3>4. a = convertOne(x) /\ convertOne(x) # None
      BY <3>1
    <3>5. \A j \in 1..Len(Drawn) : j > i => Drawn[j].code.type # "number"
      <4>1. \A y \in Value : y.type = "number" => convertOne(y) # None
        BY ConvertedIs, ScalarIs
      <4> QED
        BY <3>1, <3>2, <4>1
    <3>6. x.type = "number" => statusCode = Int64(x.number)
      BY <2>1, <2>2, <3>5, CodeIs
    <3> HIDE DEF x, a
    <3>7. CASE x.type \in {"absent", "null", "object"}
      BY <3>3, <3>4, <3>7, ConvertedIs
    <3>8. CASE x.type \in {"bool", "string"}
      <4>1. e = <<x.type, x.number>>
        BY <3>3, <3>4, <3>8, ConvertedIs, ScalarIs
      <4> QED
        BY <3>8, <4>1
    <3>9. CASE x.type = "number"
      <4>1. e = IF IsIntegral(x) THEN <<"int", Int64(x.number)>> ELSE <<"float", x.number>>
        BY <3>3, <3>4, <3>9, ConvertedIs, ScalarIs
      <4> QED
        BY <3>6, <3>9, <4>1
    <3>10. CASE x.type = "array"
      BY <2>4, <3>3, <3>4, <3>10, ConvertedIs, SliceIs
    <3> QED
      BY <3>3, <3>7, <3>8, <3>9, <3>10 DEF JsonType
  <2>5. ~span.code.list /\ span.code # None =>
         CASE span.code.elems[1][1] = "int"    -> statusCode = span.code.elems[1][2]
           [] span.code.elems[1][1] = "float"  -> statusCode = Int64(span.code.elems[1][2])
           [] OTHER                            -> TRUE
    <3> HIDE DEF a
    <3>1. (e[1] = "int" => statusCode = e[2]) /\ (e[1] = "float" => statusCode = Int64(e[2]))
          => CASE e[1] = "int"    -> statusCode = e[2]
               [] e[1] = "float"  -> statusCode = Int64(e[2])
               [] OTHER           -> TRUE
      OBVIOUS
    <3> QED
      BY <2>4, <3>1 DEF a
  <2> QED
    BY <2>3, <2>5 DEF OutcomeMatchesSpan
<1> QED
  BY <1>1, DressingInvariance, PTL

-----------------------------------------------------------------------------
(* The name of the route *)

\* The words of a key that one attribute only has.
LEMMA WordsIs ==
  ASSUME NEW key, NEW words, <<key, words>> \in named,
         \A attribute \in named : attribute[1] = key => attribute = <<key, words>>
  PROVE  key \in Keys /\ Words(key) = words
<1> DEFINE A == CHOOSE attribute \in named : attribute[1] = key
<1>1. <<key, words>>[1] = key
  OBVIOUS
<1>2. A \in named /\ A[1] = key
  BY <1>1
<1>3. A = <<key, words>>
  BY <1>2
<1> QED
  BY <1>1, <1>3 DEF Keys, Words

\* The first word, however it is cased now, and the other words are all the words.
LEMMA WordsStay ==
  ASSUME NEW words \in Seq(Word), Len(words) > 1, NEW case
  PROVE  /\ Len(<<Cased(words[1], case)>> \o Tail(words)) = Len(words)
         /\ \A i \in DOMAIN words :
              (<<Cased(words[1], case)>> \o Tail(words))[i].letters = words[i].letters
<1> DEFINE n == Len(words)
           t == Tail(words)
           c == Cased(words[1], case)
<1>1. n \in Nat /\ n > 1 /\ DOMAIN words = 1..n
  OBVIOUS
<1>2. t \in Seq(Word) /\ Len(t) = n - 1 /\ \A i \in 1..(n - 1) : t[i] = words[i + 1]
  OBVIOUS
<1> DEFINE S == Word \cup {c}
<1>3. c.letters = words[1].letters /\ c \in S /\ t \in Seq(S)
  <2>1. words[1] \in Word
    BY <1>1
  <2>2. c.letters = words[1].letters
    BY <2>1 DEF Cased, Word
  <2>3. t \in Seq(S)
    BY <1>2
  <2> QED
    BY <2>2, <2>3
<1> HIDE DEF n, t, c, S
<1>4. /\ Len(<<c>> \o t) = n /\ (<<c>> \o t)[1] = c
      /\ \A i \in 2..n : (<<c>> \o t)[i] = t[i - 1]
  <2>1. <<c>> \in Seq(S) /\ Len(<<c>>) = 1 /\ <<c>>[1] = c
    BY <1>3
  <2> QED
    BY <1>1, <1>2, <1>3, <2>1
<1>5. ASSUME NEW i \in 1..n PROVE (<<c>> \o t)[i].letters = words[i].letters
  <2>1. CASE i = 1
    BY <1>3, <1>4, <2>1
  <2>2. CASE i # 1
    <3>1. i \in 2..n /\ i - 1 \in 1..(n - 1) /\ (i - 1) + 1 = i
      BY <1>1, <2>2
    <3>2. t[i - 1] = words[i]
      BY <1>2, <3>1
    <3> QED
      BY <1>4, <3>1, <3>2
  <2> QED
    BY <2>1, <2>2
<1>6. \A i \in DOMAIN words : (<<c>> \o t)[i].letters = words[i].letters
  BY <1>1, <1>5
<1> QED
  BY <1>4, <1>6 DEF n, t, c

\* Every route but a blank one has a name that backends know, with all of its words.
THEOREM RoutesAreNamed == Spec => []RouteIsNamed
<1>1. Inv => RouteIsNamed
  <2> SUFFICES ASSUME Inv, pc # "name" PROVE RouteIsNamed
    BY DEF RouteIsNamed
  <2>1. name \in Seq(Word) /\ named = routeAttributes(name, spanKind)
    BY DEF Inv, InputInv, NamedInv
  <2> DEFINE words == CASE "http.route" \in Keys -> Words("http.request.method") \o Words("http.route")
                        [] "db.operation.name" \in Keys -> Words("db.operation.name")
                        [] OTHER -> Words("messaging.operation.name") \o Words("messaging.destination.name")
  <2>2. CASE name = <<>>
    <3>1. named = {}
      <4>1. ~splitHTTPRoute(name) /\ ~splitMessagingRoute(name)
        BY <2>2 DEF splitHTTPRoute, splitMessagingRoute
      <4> QED
        BY <2>1, <2>2, <4>1 DEF routeAttributes
    <3>2. Keys = {}
      BY <3>1 DEF Keys
    <3>3. Len(name) = 0
      BY <2>2
    <3> QED
      BY <2>2, <3>1, <3>2, <3>3 DEF RouteIsNamed
  <2>3. CASE name # <<>> /\ splitHTTPRoute(name)
    <3> DEFINE m == <<Cased(name[1], "upper")>>
               t == Tail(name)
    <3>1. named = {<<"http.request.method", m>>, <<"http.route", t>>}
                  \cup (IF isEntryPoint(spanKind) THEN {<<"url.path", t>>} ELSE {})
      BY <2>1, <2>3 DEF routeAttributes
    <3>2. Len(name) > 1
      BY <2>1, <2>3 DEF splitHTTPRoute
    <3>3. Len(m \o t) = Len(name) /\ \A i \in DOMAIN name : (m \o t)[i].letters = name[i].letters
      BY <2>1, <3>2, WordsStay
    <3> HIDE DEF m, t
    <3>4. "http.request.method" \in Keys /\ Words("http.request.method") = m
      <4>1. /\ <<"http.request.method", m>> \in named
            /\ \A attribute \in named :
                 attribute[1] = "http.request.method" => attribute = <<"http.request.method", m>>
        BY <3>1
      <4> QED
        BY <4>1, WordsIs
    <3>5. "http.route" \in Keys /\ Words("http.route") = t
      <4>1. /\ <<"http.route", t>> \in named
            /\ \A attribute \in named :
                 attribute[1] = "http.route" => attribute = <<"http.route", t>>
        BY <3>1
      <4> QED
        BY <4>1, WordsIs
    <3>6. isEntryPoint(spanKind) => "url.path" \in Keys /\ Words("url.path") = t
      BY <3>1, WordsIs
    <3>7. ~isEntryPoint(spanKind) => "url.path" \notin Keys
      BY <3>1 DEF Keys
    <3>8. words = m \o t
      <4>1. "db.operation.name" \notin Keys
        BY <3>1 DEF Keys
      <4> QED
        BY <3>4, <3>5, <4>1
    <3>9. named # {}
      BY <3>1
    <3>10. isEntryPoint(spanKind) = ("url.path" \in Keys)
      BY <3>6, <3>7 DEF isEntryPoint
    <3> QED
      BY <2>3, <3>3, <3>5, <3>6, <3>7, <3>8, <3>9, <3>10 DEF RouteIsNamed
  <2>4. CASE name # <<>> /\ ~splitHTTPRoute(name) /\ splitMessagingRoute(name)
    <3> DEFINE m == <<Cased(name[1], "lower")>>
               t == Tail(name)
    <3>1. named = {<<"messaging.operation.name", m>>, <<"messaging.destination.name", t>>}
      BY <2>1, <2>4 DEF routeAttributes
    <3>2. Len(name) > 1
      BY <2>1, <2>4 DEF splitMessagingRoute
    <3>3. Len(m \o t) = Len(name) /\ \A i \in DOMAIN name : (m \o t)[i].letters = name[i].letters
      BY <2>1, <3>2, WordsStay
    <3> HIDE DEF m, t
    <3>4. Words("messaging.operation.name") = m /\ Words("messaging.destination.name") = t
      BY <3>1, WordsIs
    <3>5. Keys = {"messaging.operation.name", "messaging.destination.name"}
      BY <3>1 DEF Keys
    <3>6. words = m \o t
      BY <3>4, <3>5
    <3>7. name[1].letters \notin httpMethods
      BY <2>1, <2>4, <3>2 DEF splitHTTPRoute
    <3>8. named # {} /\ "url.path" \notin Keys
      BY <3>1, <3>5
    <3> QED
      BY <2>4, <3>3, <3>6, <3>7, <3>8 DEF RouteIsNamed
  <2>5. CASE name # <<>> /\ ~splitHTTPRoute(name) /\ ~splitMessagingRoute(name)
    <3>1. named = {<<"db.operation.name", name>>}
      BY <2>1, <2>5 DEF routeAttributes
    <3>2. Words("db.operation.name") = name
      BY <3>1, WordsIs
    <3>3. Keys = {"db.operation.name"}
      BY <3>1 DEF Keys
    <3>4. words = name
      BY <3>2, <3>3
    <3>5. Len(name) > 1 => name[1].letters \notin httpMethods
      BY <2>1, <2>5 DEF splitHTTPRoute
    <3>6. named # {} /\ "url.path" \notin Keys
      BY <3>1, <3>3
    <3> QED
      BY <2>5, <3>4, <3>5, <3>6 DEF RouteIsNamed
  <2> QED
    BY <2>2, <2>3, <2>4, <2>5
<1> QED
  BY <1>1, DressingInvariance, PTL

-----------------------------------------------------------------------------
(* The values *)

\* Twice the int that a whole number becomes is the number, except for the one that
\* no int holds; and a number that becomes a float is not whole.
LEMMA IntegralIs ==
  ASSUME NEW x, x.number \in Int
  PROVE  /\ IsIntegral(x) /\ x.number # 2 * (MaxInt64 + 1) => x.number = 2 * Int64(x.number)
         /\ ~IsIntegral(x) => ~Whole(x)
<1> DEFINE h == x.number
<1>1. h \in Int /\ MaxInt64 \in Nat
  BY MaxInt64Assumption
<1>2. ~IsIntegral(x) => ~Whole(x)
  <2> HIDE DEF h
  <2>1. IsIntegral(x) <=> (h % 2 = 0 /\ h >= 2 * MinInt64 /\ h <= 2 * (MaxInt64 + 1))
    BY DEF IsIntegral, h
  <2>2. Whole(x) <=> (h % 2 = 0 /\ h \in (2 * MinInt64)..(2 * MaxInt64))
    BY DEF Whole, h
  <2> QED
    BY <1>1, <2>1, <2>2 DEF MinInt64
<1>3. ASSUME IsIntegral(x), h # 2 * (MaxInt64 + 1) PROVE h = 2 * Int64(h)
  <2>1. h % 2 = 0 /\ h >= 2 * MinInt64 /\ h <= 2 * (MaxInt64 + 1)
    BY <1>3 DEF IsIntegral
  <2> HIDE DEF h
  <2>2. PICK k \in Int : h = 2 * k
    <3>1. h \div 2 \in Int /\ h = 2 * (h \div 2) + (h % 2)
      BY <1>1
    <3> QED
      BY <2>1, <3>1
  <2>3. k \in MinInt64..MaxInt64
    BY <1>1, <1>3, <2>1, <2>2 DEF MinInt64
  <2>4. Trunc(h) = k
    <3>1. CASE k >= 0
      BY <2>2, <3>1 DEF Trunc
    <3>2. CASE k < 0
      BY <2>2, <3>2 DEF Trunc
    <3> QED
      BY <3>1, <3>2
  <2> QED
    BY <2>2, <2>3, <2>4 DEF Int64
<1> QED
  BY <1>2, <1>3

\* The parts of an element.
LEMMA PartsAre ==
  ASSUME NEW e, NEW a, NEW b, e = <<a, b>>
  PROVE  e[1] = a /\ e[2] = b
OBVIOUS

\* A number as an attribute means the number.
LEMMA NumberMeans ==
  ASSUME NEW x, x.type = "number", x.number \in Int, ~Lost(x)
  PROVE  /\ IsIntegral(x) => Means(<<"int", Int64(x.number)>>, x)
         /\ IsIntegral(x) => Means(<<"text of int", Int64(x.number)>>, x)
         /\ Means(<<"float", x.number>>, x) /\ Means(<<"text of float", x.number>>, x)
<1>1. IsIntegral(x) => x.number = 2 * Int64(x.number)
  BY IntegralIs DEF Lost
<1>2. ASSUME NEW v, NEW word \in {"int", "text of int"}, x.number = 2 * v
      PROVE  Means(<<word, v>>, x)
  BY <1>2 DEF Means
<1>3. ASSUME NEW word \in {"float", "text of float"}
      PROVE  Means(<<word, x.number>>, x)
  BY <1>3 DEF Means
<1> QED
  BY <1>1, <1>2, <1>3

\* So does a boolean or a string.
LEMMA PlainMeans ==
  ASSUME NEW x, x.type \in {"bool", "string"}
  PROVE  Means(<<x.type, x.number>>, x)
BY DEF Means, Plain

\* In a list of several types every element is a string of its own kind, which means it.
LEMMA TextMeans ==
  ASSUME NEW x \in Item, ~Lost(x)
  PROVE  stringify(x)[1] \in Strings /\ Means(stringify(x), x)
<1>1. x.type \in {"bool", "string", "number", "null", "object", "array"} /\ x.number \in Int
  BY DEF Item, JsonType
<1>2. CASE x.type = "string"
  <2>1. stringify(x) = <<x.type, x.number>>
    BY <1>2 DEF stringify, Plain
  <2> QED
    BY <1>2, <2>1, PlainMeans DEF Strings
<1>3. CASE x.type = "bool"
  <2>1. stringify(x) = <<"text of bool", x.number>>
    BY <1>3 DEF stringify
  <2>2. stringify(x)[1] = "text of bool" /\ stringify(x)[2] = x.number
    BY <2>1, PartsAre, Zenon
  <2> QED
    BY <1>3, <2>2 DEF Strings, Means
<1>4. CASE x.type = "number"
  <2>1. stringify(x) = IF IsIntegral(x) THEN <<"text of int", Int64(x.number)>>
                       ELSE <<"text of float", x.number>>
    BY <1>4 DEF stringify
  <2>2. CASE IsIntegral(x)
    <3>1. stringify(x) = <<"text of int", Int64(x.number)>>
      BY <2>1, <2>2
    <3>2. stringify(x)[1] = "text of int"
      BY <3>1, PartsAre, Zenon
    <3>3. Means(stringify(x), x)
      BY <1>1, <1>4, <2>2, <3>1, NumberMeans
    <3> QED
      BY <3>2, <3>3 DEF Strings
  <2>3. CASE ~IsIntegral(x)
    <3>1. stringify(x) = <<"text of float", x.number>>
      BY <2>1, <2>3
    <3>2. stringify(x)[1] = "text of float"
      BY <3>1, PartsAre, Zenon
    <3>3. Means(stringify(x), x)
      BY <1>1, <1>4, <3>1, NumberMeans
    <3> QED
      BY <3>2, <3>3 DEF Strings
  <2> QED
    BY <2>2, <2>3
<1>5. CASE x.type = "null"
  <2>1. stringify(x) = <<"string", 0>>
    BY <1>5 DEF stringify
  <2> QED
    BY <1>5, <2>1 DEF Strings, Means
<1>6. CASE x.type \in {"object", "array"}
  <2>1. stringify(x) = <<"unsupported", 0>>
    BY <1>6 DEF stringify
  <2> QED
    BY <1>6, <2>1 DEF Strings, Means
<1> QED
  BY <1>1, <1>2, <1>3, <1>4, <1>5, <1>6

\* What becomes of a number that is lost is a text as well.
LEMMA TextIsText ==
  ASSUME NEW x \in Item
  PROVE  stringify(x)[1] \in Strings
<1>1. x.type \in {"bool", "string", "number", "null", "object", "array"} /\ x.number \in Int
  BY DEF Item, JsonType
<1>2. CASE x.type = "number"
  <2>1. stringify(x) = IF IsIntegral(x) THEN <<"text of int", Int64(x.number)>>
                       ELSE <<"text of float", x.number>>
    BY <1>2 DEF stringify
  <2>2. stringify(x)[1] = "text of int" \/ stringify(x)[1] = "text of float"
    BY <2>1, PartsAre, Zenon
  <2> QED
    BY <2>2 DEF Strings
<1>3. CASE x.type # "number"
  BY <1>1, <1>3, TextMeans DEF Lost
<1> QED
  BY <1>2, <1>3

\* What ConversionKeeps says of the elements es that the values xs became.
Keeps(es, xs) ==
  /\ DOMAIN es = DOMAIN xs
  /\ \A k \in DOMAIN xs : ~Lost(xs[k]) => Means(es[k], xs[k])
  /\ \A k, l \in DOMAIN xs : es[k][1] = es[l][1] \/ {es[k][1], es[l][1]} \subseteq Strings
  /\ es[1][1] = "float" => \E k \in DOMAIN xs : ~Whole(xs[k])

\* A value that is not dropped keeps what it says, as one element.
LEMMA OneKeeps ==
  ASSUME NEW x \in Value, x.type \in {"bool", "string", "number"}
  PROVE  ~convertOne(x).list /\ convertOne(x) # None /\ Keeps(convertOne(x).elems, <<x>>)
<1>1. x.number \in Int
  BY DEF Value
<1>2. PICK e : convertOne(x) = Scalar(e)
  BY ConvertedIs
<1>3. ~convertOne(x).list /\ convertOne(x) # None /\ convertOne(x).elems = <<e>>
      /\ convertOne(x).elems[1] = e
  BY <1>2, ScalarIs
<1>4. /\ ~Lost(x) => Means(e, x)
      /\ e[1] = "float" => ~Whole(x)
  <2>1. CASE x.type \in {"bool", "string"}
    <3>1. e = <<x.type, x.number>>
      <4>1. convertOne(x) = Scalar(<<x.type, x.number>>)
        BY <2>1, ConvertedIs
      <4> QED
        BY <1>3, <4>1, ScalarIs
    <3> QED
      BY <2>1, <3>1, PlainMeans
  <2>2. CASE x.type = "number" /\ IsIntegral(x)
    <3>1. e = <<"int", Int64(x.number)>>
      BY <1>3, <2>2, ConvertedIs, ScalarIs
    <3>2. e[1] # "float"
      BY <3>1
    <3> QED
      BY <1>1, <2>2, <3>1, <3>2, NumberMeans
  <2>3. CASE x.type = "number" /\ ~IsIntegral(x)
    <3>1. e = <<"float", x.number>>
      BY <1>3, <2>3, ConvertedIs, ScalarIs
    <3> QED
      BY <1>1, <2>3, <3>1, NumberMeans, IntegralIs
  <2> QED
    BY <2>1, <2>2, <2>3
<1>5. /\ DOMAIN <<e>> = {1} /\ DOMAIN <<x>> = {1} /\ <<e>>[1] = e /\ <<x>>[1] = x
  OBVIOUS
<1> QED
  BY <1>3, <1>4, <1>5 DEF Keeps

\* The elements of a list keep what they say, in their order, and are of one type.
LEMMA SliceKeeps ==
  ASSUME NEW xs \in Seq(Item), xs # <<>>
  PROVE  convertSlice(xs).list = TRUE /\ convertSlice(xs) # None /\ Keeps(convertSlice(xs).elems, xs)
<1> DEFINE es == convertSlice(xs).elems
<1>1. /\ Len(xs) \in Nat \ {0} /\ DOMAIN xs = 1..Len(xs) /\ 1 \in DOMAIN xs
      /\ \A k \in DOMAIN xs : xs[k] \in Item
  OBVIOUS
<1>2. \A k \in DOMAIN xs : xs[k].number \in Int
  BY <1>1 DEF Item
<1>3. convertSlice(xs).list = TRUE
  BY SliceIs
<1>4. convertSlice(xs) # None
  BY <1>3 DEF None
<1>5. CASE All(xs, "bool") \/ All(xs, "string")
  <2>1. es = [k \in DOMAIN xs |-> <<xs[k].type, xs[k].number>>]
    <3>1. ~All(xs, "number")
      BY <1>1, <1>5 DEF All
    <3> QED
      BY <1>5, <3>1 DEF convertSlice, List, Plain
  <2> HIDE DEF es
  <2>2. \A k \in DOMAIN xs : es[k] = <<xs[k].type, xs[k].number>>
    BY <2>1
  <2>3. PICK type \in {"bool", "string"} : \A k \in DOMAIN xs : xs[k].type = type
    BY <1>5 DEF All
  <2>4. ASSUME NEW k \in DOMAIN xs PROVE Means(es[k], xs[k]) /\ es[k][1] = type
    <3>1. es[k] = <<xs[k].type, xs[k].number>> /\ xs[k].type = type
      BY <2>2, <2>3
    <3>2. es[k][1] = type
      BY <3>1
    <3> QED
      BY <3>1, <3>2, PlainMeans
  <2>5. es[1][1] # "float" /\ DOMAIN es = DOMAIN xs
    BY <1>1, <2>1, <2>4
  <2> QED
    BY <1>3, <1>4, <2>4, <2>5 DEF Keeps, es
<1>6. CASE ~(All(xs, "bool") \/ All(xs, "string")) /\ All(xs, "number") /\ AllIntegral(xs)
  <2>1. es = [k \in DOMAIN xs |-> <<"int", Int64(xs[k].number)>>]
    BY <1>6 DEF convertSlice, List, AsInt
  <2> HIDE DEF es
  <2>2. \A k \in DOMAIN xs : es[k] = <<"int", Int64(xs[k].number)>>
    BY <2>1
  <2>3. \A k \in DOMAIN xs : xs[k].type = "number" /\ IsIntegral(xs[k])
    BY <1>6 DEF All, AllIntegral
  <2>4. ASSUME NEW k \in DOMAIN xs
        PROVE  (~Lost(xs[k]) => Means(es[k], xs[k])) /\ es[k][1] = "int"
    <3>1. es[k] = <<"int", Int64(xs[k].number)>>
      BY <2>2
    <3>2. es[k][1] = "int"
      BY <3>1
    <3> QED
      BY <1>2, <2>3, <3>1, <3>2, NumberMeans
  <2>5. es[1][1] # "float" /\ DOMAIN es = DOMAIN xs
    BY <1>1, <2>1, <2>4
  <2> QED
    BY <1>3, <1>4, <2>4, <2>5 DEF Keeps, es
<1>7. CASE ~(All(xs, "bool") \/ All(xs, "string")) /\ All(xs, "number") /\ ~AllIntegral(xs)
  <2>1. es = [k \in DOMAIN xs |-> <<"float", xs[k].number>>]
    BY <1>7 DEF convertSlice, List, AsFloat
  <2> HIDE DEF es
  <2>2. \A k \in DOMAIN xs : es[k] = <<"float", xs[k].number>>
    BY <2>1
  <2>3. \A k \in DOMAIN xs : xs[k].type = "number"
    BY <1>7 DEF All
  <2>4. ASSUME NEW k \in DOMAIN xs
        PROVE  (~Lost(xs[k]) => Means(es[k], xs[k])) /\ es[k][1] = "float"
    <3>1. es[k] = <<"float", xs[k].number>>
      BY <2>2
    <3>2. es[k][1] = "float"
      BY <3>1
    <3> QED
      BY <1>2, <2>3, <3>1, <3>2, NumberMeans
  <2>5. \E k \in DOMAIN xs : ~Whole(xs[k])
    BY <1>2, <1>7, IntegralIs DEF AllIntegral
  <2>6. DOMAIN es = DOMAIN xs
    BY <2>1
  <2> QED
    BY <1>3, <1>4, <2>4, <2>5, <2>6 DEF Keeps, es
<1>8. CASE ~(All(xs, "bool") \/ All(xs, "string")) /\ ~All(xs, "number")
  <2>1. es = [k \in DOMAIN xs |-> stringify(xs[k])]
    BY <1>8 DEF convertSlice, List
  <2> HIDE DEF es
  <2>2. \A k \in DOMAIN xs : es[k] = stringify(xs[k])
    BY <2>1
  <2>3. \A k \in DOMAIN xs : (~Lost(xs[k]) => Means(es[k], xs[k])) /\ es[k][1] \in Strings
    BY <1>1, <2>2, TextMeans, TextIsText
  <2>4. es[1][1] # "float" /\ DOMAIN es = DOMAIN xs
    BY <1>1, <2>1, <2>3 DEF Strings
  <2> QED
    BY <1>3, <1>4, <2>3, <2>4 DEF Keeps, es
<1> QED
  BY <1>5, <1>6, <1>7, <1>8

\* What is drawn for a span is on it, by the last set that has it: no value is lost,
\* and no list loses the order or the type of its elements, but for the one number.
THEOREM ConversionIsFaithful == Spec => []ConversionKeeps
<1>1. Inv => ConversionKeeps
  <2> SUFFICES ASSUME Inv, pc = "done" PROVE ConversionKeeps
    BY DEF ConversionKeeps
  <2>1. span.tags = Applied(Drawn, "tags")
    BY DEF Inv, SpanInv
  <2>2. Drawn \in Seq(AttributeSet) /\ DOMAIN Drawn = 1..Len(Drawn)
    BY DrawnAreSets
  <2> SUFFICES ASSUME NEW i \in 1..Len(Drawn),
                      Drawn[i].tags.type \notin {"absent", "null", "object"},
                      (IF Drawn[i].tags.type = "array" THEN Drawn[i].tags.elems
                       ELSE <<Drawn[i].tags>>) # <<>>,
                      \A j \in 1..Len(Drawn) : j > i => convertOne(Drawn[j].tags) = None
               PROVE  /\ span.tags.list = (Drawn[i].tags.type = "array")
                      /\ Keeps(span.tags.elems, IF Drawn[i].tags.type = "array"
                                                THEN Drawn[i].tags.elems ELSE <<Drawn[i].tags>>)
    BY <2>2 DEF ConversionKeeps, Keeps
  <2> DEFINE x == Drawn[i].tags
             xs == IF x.type = "array" THEN x.elems ELSE <<x>>
  <2>3. x \in Value
    <3>1. Drawn[i] \in AttributeSet
      BY <2>2
    <3> QED
      BY <3>1 DEF AttributeSet
  <2>4. x.type \in {"bool", "string", "number", "array"} /\ x.elems \in Seq(Item)
    BY <2>3, ItemsAreValues DEF JsonType
  <2>5. /\ convertOne(x) # None /\ convertOne(x).list = (x.type = "array")
        /\ Keeps(convertOne(x).elems, xs)
    <3>1. xs # <<>>
      OBVIOUS
    <3> HIDE DEF x
    <3>2. CASE x.type = "array"
      BY <2>3, <2>4, <3>1, <3>2, ConvertedIs, SliceKeeps
    <3>3. CASE x.type # "array"
      <4>1. ~convertOne(x).list /\ convertOne(x) # None /\ Keeps(convertOne(x).elems, <<x>>)
        BY <2>3, <2>4, <3>3, OneKeeps
      <4>2. convertOne(x).list = FALSE
        <5>1. \E e : convertOne(x) = Scalar(e)
          BY <2>3, <2>4, <3>3, ConvertedIs
        <5> QED
          BY <5>1, ScalarIs
      <4> QED
        BY <3>3, <4>1, <4>2
    <3> QED
      BY <3>2, <3>3
  <2>6. span.tags = convertOne(x)
    <3>1. PICK m \in 1..Len(Drawn) :
            /\ span.tags = convertOne(Drawn[m].tags) /\ convertOne(Drawn[m].tags) # None
            /\ \A j \in 1..Len(Drawn) : j > m => convertOne(Drawn[j].tags) = None
      BY <2>1, <2>2, <2>5, AppliedIs
    <3>2. m = i
      BY <2>5, <3>1
    <3> QED
      BY <3>1, <3>2
  <2> QED
    BY <2>5, <2>6
<1> QED
  BY <1>1, DressingInvariance, PTL

-----------------------------------------------------------------------------
(* Shares *)

\* What weights add up to.
LEMMA TotalsFrom ==
  ASSUME NEW w \in Seq(Int)
  PROVE  /\ Totals(w) \in [0..Len(w) -> Int] /\ Totals(w)[0] = 0
         /\ \A i \in 1..Len(w) :
              Totals(w)[i] = Totals(w)[i - 1] + w[i]
<1> DEFINE n == Len(w)
           step(g) == [i \in 0..n |-> IF i = 0 THEN 0
                         ELSE g[i - 1] + w[i]]
           h == [p \in (1..n) \X Int |-> p[2] + w[p[1]]]
<1>1. n \in Nat /\ \A i \in 1..n : w[i] \in Int
  OBVIOUS
<1>2. h \in [(1..n) \X Int -> Int]
  BY <1>1
<1>3. PICK g \in [0..n -> Int] : g[0] = 0 /\ \A i \in 1..n : g[i] = h[<<i, g[i - 1]>>]
  <2>1. 0 \in Int
    OBVIOUS
  <2> HIDE DEF h, n
  <2> QED
    BY <1>1, <1>2, <2>1, Along, Zenon
<1>4. \A i \in 1..n : g[i] = g[i - 1] + w[i]
  <2> SUFFICES ASSUME NEW i \in 1..n
               PROVE  g[i] = g[i - 1] + w[i]
    OBVIOUS
  <2>1. <<i, g[i - 1]>> \in (1..n) \X Int
    <3> HIDE DEF n
    <3> QED
      BY <1>1
  <2> QED
    BY <1>3, <2>1
<1>5. g = step(g)
  BY <1>1, <1>3, <1>4
<1>6. Totals(w) = CHOOSE f : f = step(f)
  BY DEF Totals
<1>7. Totals(w) = step(Totals(w))
  <2> HIDE DEF step
  <2> QED
    BY <1>5, <1>6
<1> DEFINE s == Totals(w)
<1>8. s[0] = 0 /\ \A i \in 1..n : s[i] = s[i - 1] + w[i]
  <2> HIDE DEF s, n
  <2>1. s = step(s)
    BY <1>7 DEF s
  <2>2. \A i \in 0..n : s[i] = step(s)[i]
    BY <2>1
  <2>3. 0 \in 0..n /\ \A i \in 1..n : i \in 0..n /\ i # 0
    BY <1>1
  <2>4. \A i \in 0..n : step(s)[i] = IF i = 0 THEN 0
                         ELSE s[i - 1] + w[i]
    OBVIOUS
  <2> HIDE DEF step
  <2> QED
    BY <2>2, <2>3, <2>4
<1> DEFINE T == {i \in Nat : i <= n => s[i] \in Int}
<1>9. T = Nat
  <2> HIDE DEF s
  <2>1. 0 \in T
    BY <1>8
  <2>2. ASSUME NEW i \in T PROVE i + 1 \in T
    <3> HIDE DEF n
    <3>1. CASE i + 1 <= n
      <4>1. s[i] \in Int /\ i + 1 \in 1..n /\ (i + 1) - 1 = i /\ w[i + 1] \in Int
        BY <1>1, <3>1
      <4> QED
        BY <1>8, <4>1
    <3>2. CASE ~(i + 1 <= n)
      BY <3>2
    <3> QED
      BY <3>1, <3>2
  <2>3. T \in SUBSET Nat
    OBVIOUS
  <2> HIDE DEF T
  <2> QED
    BY <2>1, <2>2, <2>3, InductionOnNat
<1>10. s \in [0..n -> Int]
  <2> HIDE DEF s
  <2>1. s = step(s)
    BY <1>7 DEF s
  <2>2. \A i \in 0..n : s[i] \in Int
    BY <1>1, <1>9
  <2> QED
    BY <2>1, <2>2
<1> QED
  BY <1>8, <1>10

\* They grow.
LEMMA TotalsGrow ==
  ASSUME NEW w \in Seq(Int), \A k \in 1..Len(w) : w[k] >= 0,
         NEW i \in 0..Len(w), NEW j \in 0..Len(w), i <= j
  PROVE  Totals(w)[i] <= Totals(w)[j]
<1> DEFINE n == Len(w)
           t == Totals(w)
           T == {k \in Nat : i <= k /\ k <= n => t[i] <= t[k]}
<1>1. n \in Nat /\ \A k \in 1..n : w[k] \in Int /\ w[k] >= 0
  OBVIOUS
<1>2. t \in [0..n -> Int] /\ \A k \in 1..n : t[k] = t[k - 1] + w[k]
  BY TotalsFrom
<1> HIDE DEF n, t
<1>3. i \in 0..n /\ j \in 0..n
  BY DEF n
<1>4. 0 \in T
  BY <1>2, <1>3
<1>5. ASSUME NEW k \in T PROVE k + 1 \in T
  <2> SUFFICES ASSUME i <= k + 1, k + 1 <= n PROVE t[i] <= t[k + 1]
    OBVIOUS
  <2>1. k \in Nat /\ (i <= k /\ k <= n => t[i] <= t[k])
    OBVIOUS
  <2>2. CASE i = k + 1
    BY <1>2, <1>3, <2>2
  <2>3. CASE i # k + 1
    <3>1. k \in 0..n /\ k + 1 \in 1..n /\ (k + 1) - 1 = k /\ i <= k
      BY <1>1, <1>3, <2>1, <2>3
    <3>2. t[i] <= t[k] /\ t[k + 1] = t[k] + w[k + 1]
      BY <1>1, <1>2, <2>1, <3>1
    <3>3. t[i] \in Int /\ t[k] \in Int /\ w[k + 1] \in Int /\ w[k + 1] >= 0
      BY <1>1, <1>2, <1>3, <3>1
    <3> QED
      BY <3>2, <3>3
  <2> QED
    BY <2>2, <2>3
<1>6. T = Nat
  <2>1. T \in SUBSET Nat
    OBVIOUS
  <2> HIDE DEF T
  <2> QED
    BY <1>4, <1>5, <2>1, InductionOnNat
<1> QED
  BY <1>1, <1>3, <1>6 DEF t

\* As long as no sum wraps, the machine adds as one should, and what is left of a draw
\* is the draw without what was added.
LEMMA SumsAreTotals ==
  ASSUME NEW w \in Seq(Int), \A k \in 1..Len(w) : w[k] >= 0, Totals(w)[Len(w)] <= MaxInt,
         NEW r \in Int, NEW i \in 0..Len(w)
  PROVE  Sums(w)[i] = Totals(w)[i] /\ Walk(w, r)[i] = r - Totals(w)[i]
<1> DEFINE n == Len(w)
           t == Totals(w)
           s == Sums(w)
           l == Walk(w, r)
           T == {k \in Nat : k <= n => s[k] = t[k] /\ l[k] = r - t[k]}
<1>1. n \in Nat /\ \A k \in 1..n : w[k] \in Int /\ w[k] >= 0
  OBVIOUS
<1>2. t \in [0..n -> Int] /\ t[0] = 0 /\ \A k \in 1..n : t[k] = t[k - 1] + w[k]
  BY TotalsFrom
<1>3. /\ s \in [0..n -> Int] /\ s[0] = 0
      /\ \A k \in 1..n : s[k] = IF w[k] > 0 THEN Wrap(s[k - 1] + w[k]) ELSE s[k - 1]
  BY SumsFrom
<1>4. /\ l \in [0..n -> Int] /\ l[0] = r
      /\ \A k \in 1..n : l[k] = IF w[k] <= 0 THEN l[k - 1] ELSE l[k - 1] - w[k]
  BY WalkFrom
<1>5. \A k \in 0..n : 0 <= t[k] /\ t[k] <= MaxInt
  <2> SUFFICES ASSUME NEW k \in 0..n PROVE 0 <= t[k] /\ t[k] <= MaxInt
    OBVIOUS
  <2>1. t[0] <= t[k] /\ t[k] <= t[n]
    BY <1>1, TotalsGrow
  <2>2. t[n] <= MaxInt /\ 0 \in 0..n /\ n \in 0..n
    BY <1>1
  <2> HIDE DEF t, n
  <2>3. t[k] \in Int /\ t[n] \in Int
    BY <1>2, <2>2
  <2> QED
    BY <1>2, <2>1, <2>2, <2>3, MaxIntAssumption
<1> HIDE DEF n, t, s, l
<1>6. 0 \in T
  BY <1>2, <1>3, <1>4
<1>7. ASSUME NEW k \in T PROVE k + 1 \in T
  <2> SUFFICES ASSUME k + 1 <= n PROVE s[k + 1] = t[k + 1] /\ l[k + 1] = r - t[k + 1]
    OBVIOUS
  <2>1. /\ k \in 0..n /\ k + 1 \in 1..n /\ k + 1 \in 0..n /\ (k + 1) - 1 = k
        /\ w[k + 1] \in Int /\ w[k + 1] >= 0 /\ t[k] \in Int /\ t[k + 1] \in Int
    BY <1>1, <1>2
  <2>2. s[k] = t[k] /\ l[k] = r - t[k] /\ t[k + 1] = t[k] + w[k + 1]
    BY <1>2, <2>1
  <2>3. l[k + 1] = r - t[k + 1]
    <3>1. l[k + 1] = IF w[k + 1] <= 0 THEN l[k] ELSE l[k] - w[k + 1]
      BY <1>4, <2>1
    <3> QED
      BY <2>1, <2>2, <3>1
  <2>4. s[k + 1] = t[k + 1]
    <3>1. s[k + 1] = IF w[k + 1] > 0 THEN Wrap(s[k] + w[k + 1]) ELSE s[k]
      BY <1>3, <2>1
    <3>2. s[k] + w[k + 1] = t[k + 1] /\ t[k + 1] \in (-MaxInt - 1)..MaxInt
      BY <1>5, <2>1, <2>2, MaxIntAssumption
    <3>3. Wrap(s[k] + w[k + 1]) = t[k + 1]
      BY <3>2, Wraps
    <3> QED
      BY <2>1, <2>2, <3>1, <3>3
  <2> QED
    BY <2>3, <2>4
<1>8. T = Nat
  <2>1. T \in SUBSET Nat
    OBVIOUS
  <2> HIDE DEF T
  <2> QED
    BY <1>6, <1>7, <2>1, InductionOnNat
<1> QED
  BY <1>1, <1>8 DEF n, t, s, l

\* A weight is picked by the draws from the sum before it to the sum with it.
LEMMA ShareOf ==
  ASSUME NEW w \in Seq(Int), \A k \in 1..Len(w) : w[k] >= 0,
         Totals(w)[Len(w)] > 0, Totals(w)[Len(w)] <= MaxInt, NEW i \in 1..Len(w)
  PROVE  {r \in Intn(SumOf(w)) : PickAt(w, r) = i} = Totals(w)[i - 1]..(Totals(w)[i] - 1)
<1> DEFINE n == Len(w)
           t == Totals(w)
<1>1. n \in Nat /\ n > 0 /\ \A k \in 1..n : w[k] \in Int /\ w[k] >= 0
  OBVIOUS
<1>2. t \in [0..n -> Int] /\ t[0] = 0 /\ \A k \in 1..n : t[k] = t[k - 1] + w[k]
  BY TotalsFrom
<1>3. t[n] > 0 /\ t[n] <= MaxInt /\ t[n] \in Nat
  BY <1>1, <1>2
<1>4. \A j, k \in 0..n : j <= k => t[j] <= t[k]
  BY TotalsGrow
<1>5. SumOf(w) = t[n]
  <2>1. n \in 0..Len(w) /\ 0 \in Int
    BY <1>1
  <2> QED
    BY <1>3, <2>1, SumsAreTotals DEF SumOf
<1>6. Intn(SumOf(w)) = 0..(t[n] - 1)
  <2> HIDE DEF t, n
  <2>1. ASSUME NEW m \in Nat, m > 0 PROVE Intn(m) = 0..(m - 1)
    <3>1. CASE m = 1
      <4>1. Intn(m) = {0} /\ 0..(m - 1) = {0}
        BY <3>1 DEF Intn
      <4> QED
        BY <4>1
    <3>2. CASE m > 1
      BY <3>2 DEF Intn
    <3> QED
      BY <2>1, <3>1, <3>2
  <2> QED
    BY <1>3, <1>5, <2>1
<1>7. ASSUME NEW r \in 0..(t[n] - 1)
      PROVE  PickAt(w, r) = i <=> (t[i - 1] <= r /\ r < t[i])
  <2> DEFINE p == PickAt(w, r)
             l == Walk(w, r)
  <2>1. /\ p \in 1..n /\ w[p] > 0 /\ l[p] < 0
        /\ \A j \in 1..n : w[j] > 0 /\ l[j] < 0 => p <= j
    <3>1. r \in Intn(SumOf(w)) /\ SumOf(w) # 0
      BY <1>3, <1>5, <1>6
    <3> QED
      BY <3>1, PickAtHits
  <2>2. r \in Int
    OBVIOUS
  <2>3. \A j \in 0..n : l[j] = r - t[j]
    BY <1>3, <2>2, SumsAreTotals
  <2> HIDE DEF p, l, t, n
  <2>4. i \in 1..n /\ i \in 0..n /\ i - 1 \in 0..n
    BY <1>1 DEF n
  <2>5. /\ \A j \in 0..n : l[j] < 0 <=> r < t[j]
        /\ p \in 0..n /\ r < t[p]
    <3>1. ASSUME NEW j \in 0..n PROVE l[j] < 0 <=> r < t[j]
      <4>1. l[j] = r - t[j] /\ t[j] \in Int
        BY <1>2, <2>3
      <4> QED
        BY <2>2, <4>1
    <3>2. p \in 0..n
      BY <1>1, <2>1
    <3> QED
      BY <2>1, <3>1, <3>2
  <2>6. ASSUME p = i PROVE t[i - 1] <= r /\ r < t[i]
    <3> DEFINE S == {k \in 0..n : r < t[k]}
    <3>1. S \in SUBSET Nat /\ i \in S
      BY <1>1, <2>4, <2>5, <2>6
    <3>2. PICK k \in S : \A y \in S : k <= y
      <4> HIDE DEF S
      <4> QED
        BY <3>1, LeastNatural
    <3>3. k \in 0..n /\ r < t[k] /\ k # 0
      BY <1>2, <3>2
    <3>4. k \in 1..n /\ k - 1 \in 0..n /\ k - 1 \notin S
      BY <1>1, <3>2, <3>3
    <3>5. t[k - 1] <= r /\ t[k - 1] \in Int
      BY <1>2, <2>2, <3>4
    <3>6. w[k] > 0
      <4>1. t[k] = t[k - 1] + w[k] /\ w[k] \in Int /\ t[k] \in Int
        BY <1>1, <1>2, <3>4
      <4> QED
        BY <2>2, <3>3, <3>5, <4>1
    <3>7. i <= k
      BY <2>1, <2>5, <2>6, <3>3, <3>4, <3>6
    <3>8. i - 1 \notin S
      BY <1>1, <2>4, <3>2, <3>3, <3>7
    <3>9. t[i - 1] <= r
      <4>1. ~(r < t[i - 1])
        BY <2>4, <3>8
      <4>2. t[i - 1] \in Int
        BY <1>2, <2>4
      <4> QED
        BY <2>2, <4>1, <4>2
    <3> QED
      BY <2>5, <2>6, <3>9
  <2>7. ASSUME t[i - 1] <= r, r < t[i] PROVE p = i
    <3>1. t[i] = t[i - 1] + w[i] /\ t[i - 1] \in Int /\ t[i] \in Int /\ w[i] \in Int
      BY <1>1, <1>2, <2>4
    <3>2. p <= i
      BY <2>1, <2>2, <2>4, <2>5, <2>7, <3>1
    <3>3. ASSUME p < i PROVE FALSE
      <4>1. p <= i - 1
        BY <2>1, <2>4, <3>3
      <4>2. t[p] <= t[i - 1] /\ t[p] \in Int
        BY <1>2, <1>4, <2>4, <2>5, <4>1
      <4> QED
        BY <2>2, <2>5, <2>7, <3>1, <4>2
    <3> QED
      BY <1>1, <2>1, <2>4, <3>2, <3>3
  <2> QED
    BY <2>6, <2>7 DEF p
<1>8. t[i - 1] \in Int /\ t[i] \in Int /\ 0 <= t[i - 1] /\ t[i] <= t[n]
  <2>1. i - 1 \in 0..n /\ i \in 0..n /\ 0 \in 0..n /\ n \in 0..n /\ 0 <= i - 1 /\ i <= n
    BY <1>1
  <2> HIDE DEF t, n
  <2> QED
    BY <1>2, <1>4, <2>1
<1> HIDE DEF t, n
<1>9. {r \in 0..(t[n] - 1) : PickAt(w, r) = i} = t[i - 1]..(t[i] - 1)
  <2>1. {r \in 0..(t[n] - 1) : PickAt(w, r) = i}
        = {r \in 0..(t[n] - 1) : t[i - 1] <= r /\ r < t[i]}
    BY <1>7
  <2> QED
    BY <1>3, <1>8, <2>1
<1> QED
  BY <1>6, <1>9 DEF t

\* Every set is drawn as often as its weight says, unless the sum of the weights wraps.
THEOREM WeightsAreShares == Spec => []SharesAreWeights
<1>1. Inv => SharesAreWeights
  <2> SUFFICES ASSUME Inv PROVE SharesAreWeights
    OBVIOUS
  <2> DEFINE w == weightsOf(svcSets)
  <2>1. svcSets \in Seq(AttributeSet) /\ ValidWeights(w)
    BY DEF Inv, InputInv
  <2>2. w \in Seq(Int)
    <3>1. \A x \in AttributeSet : x.weight \in Int
      BY DEF AttributeSet
    <3> QED
      BY <2>1, <3>1, WeightsOf
  <2>3. \A k \in 1..Len(w) : w[k] >= 0
    BY <2>1 DEF ValidWeights
  <2> HIDE DEF w
  <2>4. ASSUME Totals(w)[Len(w)] > 0, Totals(w)[Len(w)] = Wrap(Totals(w)[Len(w)]),
               NEW i \in DOMAIN w
        PROVE  Cardinality({r \in Intn(SumOf(w)) : PickAt(w, r) = i}) = w[i]
    <3>1. i \in 1..Len(w) /\ Len(w) \in Nat
      BY <2>2, <2>4
    <3>2. Totals(w)[Len(w)] \in Int
      <4>1. Len(w) \in 0..Len(w)
        BY <3>1
      <4> QED
        BY <2>2, <4>1, TotalsFrom
    <3>3. Totals(w)[Len(w)] <= MaxInt
      <4>1. Wrap(Totals(w)[Len(w)]) \in (-MaxInt - 1)..MaxInt
        BY <3>2, Wraps
      <4> QED
        BY <2>4, <4>1, MaxIntAssumption
    <3>4. {r \in Intn(SumOf(w)) : PickAt(w, r) = i} = Totals(w)[i - 1]..(Totals(w)[i] - 1)
      BY <2>2, <2>3, <2>4, <3>1, <3>3, ShareOf
    <3>5. /\ Totals(w)[i - 1] \in Int /\ Totals(w)[i] \in Int /\ w[i] \in Int /\ w[i] >= 0
          /\ Totals(w)[i] = Totals(w)[i - 1] + w[i]
      <4>1. i \in 0..Len(w) /\ i - 1 \in 0..Len(w)
        BY <3>1
      <4> QED
        BY <2>2, <2>3, <3>1, <4>1, TotalsFrom
    <3> QED
      <4> DEFINE a == Totals(w)[i - 1]
                 b == Totals(w)[i] - 1
      <4>1. b - a + 1 = w[i] /\ a \in Int /\ b \in Int
        BY <3>5
      <4>2. Cardinality(a..b) = IF a > b THEN 0 ELSE b - a + 1
        <5> HIDE DEF a, b
        <5> QED
          BY <4>1, FS_Interval
      <4>3. Cardinality(a..b) = w[i]
        <5> HIDE DEF a, b
        <5> QED
          BY <3>5, <4>1, <4>2
      <4> QED
        BY <3>4, <4>3
  <2> QED
    BY <2>4 DEF SharesAreWeights, w
<1> QED
  BY <1>1, DressingInvariance, PTL

=============================================================================
