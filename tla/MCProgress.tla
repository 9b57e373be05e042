------------------------------ MODULE MCProgress ------------------------------
(* A reporter beside one trace of two nested calls.                          *)
EXTENDS Progress

CONSTANTS a1, a2

MCCall == {a1, a2}
MCRoot == {a1}
MCChildren == [c \in MCCall |-> IF c = a1 THEN {a2} ELSE {}]

=============================================================================
