------------------------------- MODULE Dressing -------------------------------
(***************************************************************************)
(* What EmitTrace puts on one span, in the order it does: the attributes   *)
(* of the route's name, the attribute sets drawn for the service and for   *)
(* the route, the outcome they make, and the latency. The module Emission  *)
(* has these as the steps "dress" and "sample".                            *)
(*                                                                         *)
(* An attribute set is its weight, its error directive, its HTTP status    *)
(* code and one more attribute, the last two as JSON values; an event set  *)
(* is its weight. Instances are left out.                                  *)
(***************************************************************************)
EXTENDS Sampling, Attributes, FiniteSets

CONSTANT
  Inputs        \* records svcSets, routeSets, events, latency, name: sets of inputs

AttributeSet == [weight : Int, error : STRING, code : Value, tags : Value]
EventSet == [weight : Int]
Latency == [p50 : Int, p99 : Int, rate : BOOLEAN, multiplier : Int]

ASSUME InputsAssumption ==
  Inputs \subseteq [svcSets : SUBSET Seq(AttributeSet), routeSets : SUBSET Seq(AttributeSet),
                    events : SUBSET Seq(EventSet), latency : SUBSET Latency,
                    name : SUBSET Seq(Word)]

VARIABLES
  svcSets, routeSets,   \* inputs: the lists of the service and of the route
  svcEvents, routeEvents,  \* inputs: their lists of event sets
  latency,              \* input: the route's latency
  name, spanKind,       \* inputs: the route's name and the kind of its spans
  pc,                   \* what EmitTrace does next
  named,                \* attributes from the route's name
  svc, route,           \* index of the set drawn from each list, 0 for none
  events,               \* a pair of such for the event sets
  failed, statusCode,   \* the outcome
  span,                 \* the attributes code and tags of the span
  half, outlier,        \* how the latency was drawn
  millis                \* the latency

inputs == <<svcSets, routeSets, svcEvents, routeEvents, latency, name, spanKind, overflow>>
vars == <<inputs, pc, named, svc, route, events, failed, statusCode, span, half, outlier, millis>>

weightsOf(sets) == [i \in DOMAIN sets |-> sets[i].weight]

\* The inputs are those that validation lets pass.
Init ==
  /\ \E input \in Inputs :
       /\ svcSets \in {s \in input.svcSets : ValidWeights(weightsOf(s))}
       /\ routeSets \in {s \in input.routeSets : ValidWeights(weightsOf(s))}
       /\ svcEvents \in {s \in input.events : ValidWeights(weightsOf(s))}
       /\ routeEvents \in {s \in input.events : ValidWeights(weightsOf(s))}
       /\ latency \in {l \in input.latency : ValidLatency(l)}
       /\ name \in input.name
  /\ spanKind \in {"", "internal", "server", "client", "producer", "consumer"}
  /\ OverflowInit
  /\ pc = "name" /\ named = {} /\ svc = 0 /\ route = 0 /\ events = <<0, 0>>
  /\ failed = FALSE /\ statusCode = 0 /\ span = [code |-> None, tags |-> None]
  /\ half = "lower" /\ outlier = FALSE /\ millis = 0

\* The attributes of the route's name come first: a set may replace them.
Name ==
  /\ pc = "name" /\ pc' = "service"
  /\ named' = routeAttributes(name, spanKind)
  /\ UNCHANGED <<inputs, svc, route, events, failed, statusCode, span, half, outlier, millis>>

\* PickAttributeSet, on a list and as an index into it.
PickSet(sets) == IF sets = <<>> THEN {0} ELSE PickWeighted(weightsOf(sets))

PickService ==
  /\ pc = "service" /\ pc' = "route"
  /\ svc' \in PickSet(svcSets)
  /\ UNCHANGED <<inputs, named, route, events, failed, statusCode, span, half, outlier, millis>>

PickRoute ==
  /\ pc = "route" /\ pc' = "events"
  /\ route' \in PickSet(routeSets)
  /\ UNCHANGED <<inputs, named, svc, events, failed, statusCode, span, half, outlier, millis>>

\* PickEventSet, for both lists.
PickEvents ==
  /\ pc = "events" /\ pc' = "outcome"
  /\ events' \in PickSet(svcEvents) \X PickSet(routeEvents)
  /\ UNCHANGED <<inputs, named, svc, route, failed, statusCode, span, half, outlier, millis>>

\* The sets that were drawn, the service's before the route's.
Drawn ==
  (IF svc = 0 THEN <<>> ELSE <<svcSets[svc]>>) \o
  (IF route = 0 THEN <<>> ELSE <<routeSets[route]>>)

HasErrorDirective(set) == set.error = "true"

\* applyAttributes, set by set: a later value replaces an earlier one, and a
\* value that is dropped replaces none.
Applied(sets, key) ==
  LET last == SelectLastInSeq(sets, LAMBDA set : convertOne(set[key]) # None)
  IN  IF last = 0 THEN None ELSE convertOne(sets[last][key])

SomeError(sets) == \E i \in DOMAIN sets : HasErrorDirective(sets[i])

\* Mutant: the code of the first set counts.
OutcomeOfFirst(sets) ==
  [failed |-> SomeError(sets),
   code   |-> IF sets = <<>> \/ sets[1].code.type # "number" THEN 0 ELSE Int64(sets[1].code.number)]

\* resolveOutcome; statusCodeOf takes numbers only, and the last one counts.
Outcome(sets) ==
  LET last == SelectLastInSeq(sets, LAMBDA set : set.code.type = "number")
  IN  [failed |-> SomeError(sets),
       code   |-> IF last = 0 THEN 0 ELSE Int64(sets[last].code.number)]

Resolve ==
  /\ pc = "outcome" /\ pc' = "sample"
  /\ span' = [key \in {"code", "tags"} |-> Applied(Drawn, key)]
  /\ failed' = Outcome(Drawn).failed /\ statusCode' = Outcome(Drawn).code
  /\ UNCHANGED <<inputs, named, svc, route, events, half, outlier, millis>>

\* SampleLatencyMillis.
Sample ==
  /\ pc = "sample" /\ pc' = "done"
  /\ half' \in {"lower", "upper"}
  /\ outlier' \in (IF MayStretch(latency) THEN BOOLEAN ELSE {FALSE})
  /\ \E q \in Draws(latency, half') :
       millis' = Millis(IF outlier' THEN Stretch(latency, q) ELSE 4 * q)
  /\ UNCHANGED <<inputs, named, svc, route, events, failed, statusCode, span>>

Dressed == pc = "done" /\ UNCHANGED vars

Next == Name \/ PickService \/ PickRoute \/ PickEvents \/ Resolve \/ Sample \/ Dressed

Spec == Init /\ [][Next]_vars

-----------------------------------------------------------------------------
(* What the draws promise *)

\* From a list that validation accepted a set is always drawn, and never one
\* of weight 0, even when the sum of the weights wraps: what the code calls
\* unreachable in PickWeighted is.
DrawnIsSelectable ==
  pc \in {"outcome", "sample", "done"} =>
    \A draw \in {<<svcSets, svc>>, <<routeSets, route>>,
                <<svcEvents, events[1]>>, <<routeEvents, events[2]>>} :
      draw[1] # <<>> => draw[2] > 0 /\ draw[1][draw[2]].weight > 0

\* What weights add up to, where a machine may wrap.
Totals(weights) ==
  LET total[i \in 0..Len(weights)] == IF i = 0 THEN 0 ELSE total[i - 1] + weights[i]
  IN  total

\* C11: as many of the equally likely draws fall on each set as its weight
\* says, whatever the weights add up to (within the width of an int).
SharesAreWeights ==
  LET weights == weightsOf(svcSets)
      total == Totals(weights)[Len(weights)]
  IN  total > 0 /\ total = Wrap(total) =>
        \A i \in DOMAIN weights :
          Cardinality({r \in Intn(SumOf(weights)) : PickAt(weights, r) = i}) = weights[i]

\* C10: a span fails when a set with the directive was drawn for it, and if its
\* own status code is a number, then that of its metrics is the same, without
\* the fraction.
OutcomeMatchesSpan ==
  pc \in {"sample", "done"} =>
    /\ failed = (\E i \in DOMAIN Drawn : HasErrorDirective(Drawn[i]))
    /\ ~span.code.list /\ span.code # None =>
         CASE span.code.elems[1][1] = "int"    -> statusCode = span.code.elems[1][2]
           [] span.code.elems[1][1] = "float"  -> statusCode = Int64(span.code.elems[1][2])
           [] OTHER                            -> TRUE

\* The element e of an attribute says what x does, and no more is lost than
\* the inside of a nested value.
Means(e, x) ==
  CASE e[1] \in {"bool", "string"}          -> e = Plain(x) \/ (x.type = "null" /\ e[2] = 0)
    [] e[1] = "text of bool"                -> x.type = "bool" /\ x.number = e[2]
    [] e[1] \in {"int", "text of int"}      -> x.type = "number" /\ x.number = 2 * e[2]
    [] e[1] \in {"float", "text of float"}  -> x.type = "number" /\ x.number = e[2]
    [] e[1] = "unsupported"                 -> x.type \in {"array", "object"}

Strings == {"string", "text of bool", "text of int", "text of float", "unsupported"}
Lost(x) == x.type = "number" /\ x.number = 2 * (MaxInt64 + 1)
Whole(x) == x.number % 2 = 0 /\ x.number \in (2 * MinInt64)..(2 * MaxInt64)

\* C5, C6: every value drawn for the span is on it, unless it is null, an
\* object or an empty list; a list keeps its elements, in order, and is of one
\* type; a whole number is an int. One number is lost: 2^63 is taken for one
\* that an int holds.
ConversionKeeps ==
  pc = "done" => \A i \in DOMAIN Drawn :
    LET x == Drawn[i].tags
        a == span.tags
        xs == IF x.type = "array" THEN x.elems ELSE <<x>>
        kept == x.type \notin {"absent", "null", "object"} /\ xs # <<>>
    IN  kept /\ (\A j \in DOMAIN Drawn : j > i => convertOne(Drawn[j].tags) = None) =>
          /\ a.list = (x.type = "array") /\ DOMAIN a.elems = DOMAIN xs
          /\ \A k \in DOMAIN xs : ~Lost(xs[k]) => Means(a.elems[k], xs[k])
          /\ \A k, l \in DOMAIN xs :
               a.elems[k][1] = a.elems[l][1] \/ {a.elems[k][1], a.elems[l][1]} \subseteq Strings
          /\ a.elems[1][1] = "float" => \E k \in DOMAIN xs : ~Whole(xs[k])

Keys == {attribute[1] : attribute \in named}
Words(key) == (CHOOSE attribute \in named : attribute[1] = key)[2]

\* A backend names a transaction from http.route: every route with a method, in
\* whatever case, and a path has it, at an entry point with url.path beside it;
\* only a blank route is without any attribute, and whatever the convention,
\* the attributes hold the words of the route, each once.
RouteIsNamed ==
  pc # "name" =>
    /\ (named = {}) = (name = <<>>)
    /\ Len(name) > 1 /\ name[1].letters \in httpMethods =>
         /\ "http.route" \in Keys
         /\ isEntryPoint(spanKind) = ("url.path" \in Keys)
    /\ "url.path" \in Keys => Words("url.path") = Words("http.route")
    /\ named # {} =>
         LET words == CASE "http.route" \in Keys -> Words("http.request.method") \o Words("http.route")
                        [] "db.operation.name" \in Keys -> Words("db.operation.name")
                        [] OTHER -> Words("messaging.operation.name") \o Words("messaging.destination.name")
         IN  Len(words) = Len(name) /\ \A i \in DOMAIN name : words[i].letters = name[i].letters

\* p50 is a median and p99 a maximum of what is no outlier, after rounding; an
\* outlier is visibly beyond p99, even after rounding.
LatencyShape ==
  pc = "done" =>
    IF outlier THEN millis > latency.p99
    ELSE /\ millis <= latency.p99
         /\ half = "lower" => millis <= latency.p50
         /\ half = "upper" => millis >= latency.p50

=============================================================================
