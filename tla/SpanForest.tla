------------------------------ MODULE SpanForest ------------------------------
(***************************************************************************)
(* What a trace promises its backend, whatever the engine does inside: a   *)
(* forest of spans that nest. A span opens under an open parent, it ends   *)
(* only when the spans below it are settled, and one that a panic cut off  *)
(* is lost without taking an open span below it along.                     *)
(***************************************************************************)
CONSTANTS
  Call,         \* the spans that may be emitted
  Root,         \* those that start a trace
  Children      \* Children[c]: the spans directly below c

VARIABLE status

Settled == {"ended", "lost"}

Init == status = [c \in Call |-> "absent"]

\* Nothing can happen to c before the span it hangs under is open.
Allowed(c) == c \in Root \/ \E p \in Call : c \in Children[p] /\ status[p] = "open"

Open(c) ==
  /\ status[c] = "absent" /\ Allowed(c)
  /\ status' = [status EXCEPT ![c] = "open"]

End(c) ==
  /\ status[c] = "open"
  /\ \A d \in Children[c] : status[d] \in Settled
  /\ status' = [status EXCEPT ![c] = "ended"]

Lose(c) ==
  /\ status[c] = "open" \/ (status[c] = "absent" /\ Allowed(c))
  /\ \A d \in Children[c] : status[d] # "open"
  /\ status' = [status EXCEPT ![c] = "lost"]

Next == \E c \in Call : Open(c) \/ End(c) \/ Lose(c)

Spec == Init /\ [][Next]_status

=============================================================================
