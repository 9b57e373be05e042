---------------------------- MODULE MCInstruments ----------------------------
(* Two visits: their routes declare the same counter with different units,   *)
(* one of them twice, and one of them a histogram of the counter's name and  *)
(* a metric the SDK refuses.                                                 *)
EXTENDS Instruments, TLC

CONSTANTS v1, v2

Declare(k, n, u) == [kind |-> k, name |-> n, unit |-> u]

MCVisit == {v1, v2}

MCDeclared ==
  (v1 :> <<Declare("counter", "orders", "{order}"), Declare("counter", "orders", "1")>>) @@
  (v2 :> <<Declare("counter", "9bad", ""), Declare("histogram", "orders", ""),
           Declare("counter", "orders", "1")>>)

=============================================================================
