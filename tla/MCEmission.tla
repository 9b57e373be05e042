------------------------------ MODULE MCEmission ------------------------------
(* A trace whose root makes two calls, one of which makes another.           *)
EXTENDS Emission

CONSTANTS a1, a2, a3, b1

MCCall == {a1, a2, a3, b1}
MCRoot == {a1}
MCChildren ==
  [c \in MCCall |-> CASE c = a1 -> {a2, b1} [] c = a2 -> {a3} [] OTHER -> {}]

=============================================================================
