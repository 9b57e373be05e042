------------------------------- MODULE MCTiming -------------------------------
(* Three ticks, faster than the largest latency, of which the first makes a  *)
(* callee of a callee; and a fan-out of two with every delay.                *)
EXTENDS Timing

CONSTANTS a1, a2, a3, b1, c1, d1, d2, d3

MCCall == {a1, a2, a3, b1, c1, d1, d2, d3}
MCRuns == {<<TRUE, <<a1, b1, c1>>>>, <<FALSE, <<d1>>>>}
MCChildren ==
  [c \in MCCall |-> CASE c = a1 -> {a2} [] c = a2 -> {a3} [] c = d1 -> {d2, d3}
                     [] OTHER -> {}]

=============================================================================
