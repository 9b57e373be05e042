----------------------------- MODULE MCValidation -----------------------------
(* Every call graph of two services with two routes each and every list of   *)
(* one or two different roots, in documents without any other defect; and a  *)
(* small graph with every field in turn at its limits.                       *)
EXTENDS Validation

CONSTANTS ra, rb

MCRootLists ==
  {<<>>} \cup {<<n>> : n \in Node} \cup {rs \in Node \X Node : rs[1] # rs[2]}

FairLatency == [p50 |-> 1, p99 |-> 2, rate |-> TRUE, multiplier |-> 8]
FairRoute(name) ==
  [name |-> name, spanKind |-> "server", latency |-> FairLatency,
   sets |-> <<3, 1>>, events |-> <<>>, business |-> <<>>]
FairService(name) ==
  [name |-> name, instances |-> <<"i1">>, sets |-> <<>>, events |-> <<2>>,
   routes |-> <<FairRoute(ra), FairRoute(rb)>>]
FairServices == <<FairService(1), FairService(2)>>
FairSurge == [everyMinutes |-> 2, durationSeconds |-> 1, multiplier |-> 2, routes |-> {}]

Graphs ==
  [services |-> FairServices, calls |-> [Node -> CallMap], roots |-> MCRootLists \ {<<>>},
   rates |-> <<1, 2>>, surges |-> <<FairSurge>>]

\* <<1, ra>> calls <<2, rb>>, and nothing else calls anything.
Chain == [n \in Node |-> [s \in (IF n = <<1, ra>> THEN {2} ELSE {}) |-> rb]]
Base ==
  [services |-> FairServices, calls |-> {Chain}, roots |-> {<<<<1, ra>>>>}, rates |-> <<1>>,
   surges |-> <<>>]

\* Route rb of service 2 with one field changed.
Routes ==
  {[FairRoute(rb) EXCEPT !.spanKind = k] : k \in {"", "consumer", "other"}} \cup
  {[FairRoute(rb) EXCEPT !.latency = l] :
     l \in [p50 : 0..2, p99 : 0..2, rate : BOOLEAN, multiplier : {3, 4}]} \cup
  {[FairRoute(rb) EXCEPT !.sets = w] : w \in {<<0, 0>>, <<-1, 3>>, <<0, 7>>, <<7, 7>>, <<7, 7, 2>>}} \cup
  {[FairRoute(rb) EXCEPT !.events = w] : w \in {<<0>>, <<7, 2>>}} \cup
  {[FairRoute(rb) EXCEPT !.name = n] : n \in {ra, NoRoute}} \cup
  {[FairRoute(rb) EXCEPT !.business = <<m>>] :
     m \in [name : {"", "m"}, kind : {"counter", "histogram", "gauge"}, min : 0..2, max : 0..2]}

SecondServices ==
  {[FairService(2) EXCEPT !.routes = <<FairRoute(ra), r>>] : r \in Routes} \cup
  {[FairService(2) EXCEPT !.routes = rs] : rs \in {<<>>, <<FairRoute(ra)>>, <<FairRoute(rb)>>}} \cup
  {[FairService(2) EXCEPT !.name = n] : n \in {0, 1}} \cup
  {[FairService(2) EXCEPT !.instances = is] : is \in {<<>>, <<"i1", "">>, <<"i1", "i2">>}} \cup
  {[FairService(2) EXCEPT !.sets = w, !.events = v] : w, v \in {<<>>, <<0>>, <<7, 3>>}}

Fields ==
  {[Base EXCEPT !.services = <<FairService(1), s>>] : s \in SecondServices} \cup
  {[Base EXCEPT !.services = ss] : ss \in {<<>>, <<FairService(1)>>, <<FairService(2)>>}} \cup
  {[Base EXCEPT !.roots = MCRootLists, !.rates = <<v, 1>>] : v \in -1..1} \cup
  {[Base EXCEPT !.surges = <<FairSurge, g>>] :
     g \in [everyMinutes : -1..2, durationSeconds : 0..5, multiplier : 0..1,
            routes : {{}, {ra}, {rb}, {ra, rb}}]}

MCDocuments == {Graphs} \cup Fields

=============================================================================
