------------------------------- MODULE Session -------------------------------
(***************************************************************************)
(* What a run of the program promises, without its goroutines: traces are  *)
(* started only between the opening and the flush, the flush comes when    *)
(* none is in progress, and the run is over with every trace in the flush  *)
(* and in the summary. A run that cannot be opened emits nothing.          *)
(***************************************************************************)
EXTENDS Integers

VARIABLES
  phase,        \* starting, generating, flushing or over
  live,         \* traces in progress
  started,      \* traces started
  flushed,      \* traces covered by the flush
  summary       \* traces in the final summary

vars == <<phase, live, started, flushed, summary>>

Init ==
  /\ phase = "starting"
  /\ live = 0 /\ started = 0 /\ flushed = 0 /\ summary = 0

Open ==
  /\ phase = "starting" /\ phase' = "generating"
  /\ UNCHANGED <<live, started, flushed, summary>>

Refuse ==
  /\ phase = "starting" /\ phase' = "over"
  /\ UNCHANGED <<live, started, flushed, summary>>

Start ==
  /\ phase = "generating"
  /\ live' = live + 1 /\ started' = started + 1
  /\ UNCHANGED <<phase, flushed, summary>>

Finish ==
  /\ phase = "generating" /\ live > 0
  /\ live' = live - 1
  /\ UNCHANGED <<phase, started, flushed, summary>>

Close ==
  /\ phase = "generating" /\ live = 0
  /\ phase' = "flushing"
  /\ UNCHANGED <<live, started, flushed, summary>>

Flush ==
  /\ phase = "flushing" /\ flushed' = started
  /\ UNCHANGED <<phase, live, started, summary>>

Summarise ==
  /\ phase = "flushing" /\ flushed = started
  /\ phase' = "over" /\ summary' = started
  /\ UNCHANGED <<live, started, flushed>>

Next == Open \/ Refuse \/ Start \/ Finish \/ Close \/ Flush \/ Summarise

Spec == Init /\ [][Next]_vars

=============================================================================
