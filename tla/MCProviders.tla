----------------------------- MODULE MCProviders -----------------------------
(* Two services; at most two exporters do badly, at most one wedged.    *)
EXTENDS Providers

MCHealths ==
  {h \in [Provider -> {"quick", "failing", "wedged"}] :
     /\ Cardinality({p \in Provider : h[p] # "quick"}) <= 2
     /\ Cardinality({p \in Provider : h[p] = "wedged"}) <= 1}

=============================================================================
