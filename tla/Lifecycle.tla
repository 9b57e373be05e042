------------------------------ MODULE Lifecycle ------------------------------
(***************************************************************************)
(* The program from start to exit: main.run loads the topology, builds the *)
(* providers, lets Engine.Run drive the scheduler and the reporter until a *)
(* signal or the configured duration ends the context, flushes on a fresh  *)
(* context and logs the summary. The scheduler's variables and steps are   *)
(* those of the module Scheduler.                                          *)
(***************************************************************************)
EXTENDS Scheduler

VARIABLES
  main,         \* where main.run is
  status,       \* exit status: none, ok, error or killed
  reportEvery,  \* whether a report interval is configured
  reporter,     \* the reporter's goroutine
  traces,       \* the engine's counter of traces
  flushed,      \* the traces whose spans had ended when the flush was made
  summary       \* the traces of the run summary

mvars == <<main, status, reportEvery, reporter, traces, flushed, summary>>
allVars == <<vars, mvars>>

ProgramTypeOK ==
  /\ main \in {"load", "setup", "run", "join", "flush", "summary", "exited"}
  /\ status \in {"none", "ok", "error", "killed"}
  /\ reportEvery \in BOOLEAN
  /\ reporter \in {"none", "ticking", "done"}
  /\ {traces, flushed, summary} \subseteq Nat
  /\ reporter # "none" => reportEvery
  /\ (status # "none") = (main = "exited")

ProgramInit ==
  /\ Init
  /\ main = "load" /\ status = "none" /\ reportEvery \in BOOLEAN /\ reporter = "none"
  /\ traces = 0 /\ flushed = 0 /\ summary = 0

-----------------------------------------------------------------------------
(* main.run up to the engine *)

Exit(s) == main' = "exited" /\ status' = s

\* Flags and topology are read and validated before anything is built; with
\* --validate-only that is all.
Load ==
  /\ main = "load"
  /\ \/ main' = "setup" /\ status' = status
     \/ Exit("error")
     \/ Exit("ok")
  /\ UNCHANGED <<vars, reportEvery, reporter, traces, flushed, summary>>

\* The providers are built, and Engine.Run starts its reporter.
Setup ==
  /\ main = "setup"
  /\ \/ /\ main' = "run" /\ status' = status
        /\ reporter' = IF reportEvery THEN "ticking" ELSE reporter
     \/ Exit("error") /\ reporter' = reporter
  /\ UNCHANGED <<vars, reportEvery, traces, flushed, summary>>

\* Before signals are caught one ends the program; afterwards it ends the
\* context, and a second one does nothing. So does the configured duration.
Signal ==
  \/ main = "load" /\ Exit("killed") /\ UNCHANGED vars
     /\ UNCHANGED <<reportEvery, reporter, traces, flushed, summary>>
  \/ main \notin {"load", "exited"} /\ Cancel /\ UNCHANGED mvars

-----------------------------------------------------------------------------
(* Engine.Run *)

Generate ==
  /\ main = "run"
  /\ Pass \/ \E r \in Root : RouteStep(r)
  /\ UNCHANGED mvars

\* An emission counts its trace and ends its spans before it returns.
Emitted(r) ==
  /\ main \in {"run", "join", "flush", "summary"} /\ Finish(r)
  /\ traces' = traces + 1
  /\ UNCHANGED <<main, status, reportEvery, reporter, flushed, summary>>

\* Mutant: the reporter has no case for the context.
ReporterTicksOn == reporter = "ticking" /\ cancelled /\ UNCHANGED allVars

ReporterStops ==
  /\ reporter = "ticking" /\ cancelled
  /\ reporter' = "done"
  /\ UNCHANGED <<vars, main, status, reportEvery, traces, flushed, summary>>

\* Mutant: the scheduler's Run does not wait for its goroutines.
RunReturnsAtOnce ==
  /\ main = "run" /\ cancelled
  /\ main' = "join"
  /\ UNCHANGED <<vars, status, reportEvery, reporter, traces, flushed, summary>>

RunReturns ==
  /\ main = "run" /\ Returned
  /\ main' = "join"
  /\ UNCHANGED <<vars, status, reportEvery, reporter, traces, flushed, summary>>

\* Mutant: Engine.Run does not wait for the reporter.
JoinAtOnce ==
  /\ main = "join"
  /\ main' = "flush"
  /\ UNCHANGED <<vars, status, reportEvery, reporter, traces, flushed, summary>>

\* The deferred stop waits for the reporter, if there is one.
Join ==
  /\ main = "join" /\ reporter # "ticking"
  /\ main' = "flush"
  /\ UNCHANGED <<vars, status, reportEvery, reporter, traces, flushed, summary>>

-----------------------------------------------------------------------------
(* main.run after the engine *)

\* Shutdown, as the module Providers has it, in bounded time and whatever its
\* error: a failed flush is a warning.
Flush ==
  /\ main = "flush"
  /\ flushed' = traces
  /\ main' = "summary"
  /\ UNCHANGED <<vars, status, reportEvery, reporter, traces, summary>>

Summarise ==
  /\ main = "summary"
  /\ summary' = traces
  /\ Exit("ok")
  /\ UNCHANGED <<vars, reportEvery, reporter, traces, flushed>>

-----------------------------------------------------------------------------

MainStep == Load \/ Setup \/ RunReturns \/ Join \/ Flush \/ Summarise

Exited == main = "exited" /\ UNCHANGED allVars

ProgramNext ==
  \/ MainStep \/ Signal
  \/ Generate \/ \E r \in Root : Emitted(r)
  \/ ReporterStops
  \/ Exited

\* The goroutines of the run under the scheduler's fairness; main goes on, and
\* the reporter's select does not pass over a done context for ever.
ProgramFairness ==
  /\ \A r \in Root :
       /\ WF_allVars(main = "run" /\ RouteStep(r) /\ UNCHANGED mvars)
       /\ SF_allVars(main = "run" /\ Stop(r) /\ UNCHANGED mvars)
       /\ WF_allVars(Emitted(r))
  /\ WF_allVars(MainStep) /\ SF_allVars(ReporterStops)

ProgramSpec == ProgramInit /\ [][ProgramNext]_allVars /\ ProgramFairness

-----------------------------------------------------------------------------
(* What the program promises *)

\* Nothing is emitted and no progress line is logged once the flush begins.
QuietBeforeFlush ==
  main \in {"flush", "summary", "exited"} =>
    SumFunction(inflight) = 0 /\ reporter # "ticking"

\* C8: a run that ends in order has flushed, and counted in its summary, every
\* trace it ever started.
NothingLostAtExit ==
  status = "ok" => flushed = SumFunction(emitted) /\ summary = SumFunction(emitted)

\* A signal or the end of the duration ends the program.
CancelExits == cancelled ~> (main = "exited")

\* The goroutines implement the session.
phase ==
  CASE main \in {"load", "setup"}    -> "starting"
    [] main \in {"run", "join"}      -> "generating"
    [] main \in {"flush", "summary"} -> "flushing"
    [] main = "exited"               -> "over"

ProgramSession == INSTANCE Session WITH
  live <- SumFunction(inflight), started <- SumFunction(emitted)

ImplementsSession == ProgramSession!Spec

=============================================================================
