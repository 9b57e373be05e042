----------------------------- MODULE MCScheduler -----------------------------
(* A quick and a slow route; one surge for both, one for the quick route.    *)
EXTENDS Scheduler

CONSTANTS quick, slow

MCRates == [r \in Root |-> IF r = quick THEN 6 ELSE 2]

MCSurges ==
  <<[everyMinutes |-> 3, durationSeconds |-> 2, multiplier |-> 2, routes |-> {}],
    [everyMinutes |-> 2, durationSeconds |-> 2, multiplier |-> 3, routes |-> {quick}]>>

=============================================================================
