------------------------------- MODULE Progress -------------------------------
(***************************************************************************)
(* The reporter of engine.startReporter beside the emissions it reports on. *)
(* Stats loads the five counters one after another, each under its own     *)
(* mutex, so emissions go on between two loads.                            *)
(***************************************************************************)
EXTENDS Emission

VARIABLES
  at,           \* the reporter: away between ticks, else what Stats does next
  now,          \* the Stats being filled in
  last,         \* the Stats of the previous report
  began         \* history: the counters when the call of Stats began

reporterVars == <<at, now, last, began>>
allVars == <<vars, reporterVars>>

Fields == {"traces", "spans", "errSpans", "logs", "panics"}
Stats == [Fields -> Nat]
Zero == [f \in Fields |-> 0]

\* The engine's counters at this instant.
Counters ==
  [f \in Fields |->
     CASE f = "traces" -> traces
       [] f = "spans" -> spans
       [] f = "errSpans" -> errSpans
       [] f = "logs" -> logs
       [] f = "panics" -> panics]

ReporterTypeOK ==
  /\ TypeOK
  /\ at \in {"away", "report"} \cup Fields
  /\ now \in Stats /\ last \in Stats /\ began \in Stats

ReporterInit ==
  /\ Init
  /\ at = "away"
  /\ now = Zero /\ last = Zero /\ began = Zero

\* The ticker fires.
Fire ==
  /\ at = "away"
  /\ at' = "traces"
  /\ now' = Zero
  /\ began' = Counters
  /\ UNCHANGED <<vars, last>>

\* Stats loads one field and goes on with the next.
Load(f, following) ==
  /\ at = f
  /\ at' = following
  /\ now' = [now EXCEPT ![f] = Counters[f]]
  /\ UNCHANGED <<vars, last, began>>

\* Mutant: the loads are ordered by what a report prints, which has no Panics.
ReadWithoutPanics ==
  \/ Load("traces", "spans") \/ Load("spans", "errSpans")
  \/ Load("errSpans", "logs") \/ Load("logs", "report")
  \/ Load("panics", "report")

\* The fields of the composite literal, in the order they are written.
Read ==
  \/ Load("traces", "spans") \/ Load("spans", "errSpans")
  \/ Load("errSpans", "logs") \/ Load("logs", "panics")
  \/ Load("panics", "report")

\* Mutant: a report is added to the last one, as if it held the deltas.
LogAccumulates ==
  /\ at = "report"
  /\ at' = "away"
  /\ last' = [f \in Fields |-> last[f] + now[f]]
  /\ UNCHANGED <<vars, now, began>>

\* The progress line, and last = now.
Log ==
  /\ at = "report"
  /\ at' = "away"
  /\ last' = now
  /\ UNCHANGED <<vars, now, began>>

Report == Fire \/ Read \/ Log

ReporterNext ==
  \/ Next /\ UNCHANGED reporterVars
  \/ Report

ReporterSpec == ReporterInit /\ [][ReporterNext]_allVars

-----------------------------------------------------------------------------
(* What a report says *)

\* Each number of a report was the counter's value at some instant of the call:
\* at least what it was when Stats began, at most what it is when it is logged.
\* So Stats is exact when no emission runs, as after Engine.Run.
ReportIsCurrent ==
  at = "report" => \A f \in Fields : began[f] <= now[f] /\ now[f] <= Counters[f]

\* The per-interval numbers of the progress line are never negative: a counter
\* loaded later is no smaller, in whatever order the loads and emissions fall.
DeltasNeverNegative ==
  [][at = "report" /\ at' = "away" => \A f \in Fields : last[f] <= now[f]]_allVars

=============================================================================
