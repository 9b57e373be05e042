------------------------------- MODULE Emission -------------------------------
(***************************************************************************)
(* engine.EmitTrace and emitDownstreams: one goroutine per span of a       *)
(* trace, each parent fanning out to its downstream calls and waiting for  *)
(* them before it ends its own span, with a recover around every one.      *)
(*                                                                         *)
(* An element of Call is one invocation of EmitTrace. The invocations form *)
(* a forest: a validated topology is acyclic (CycleCheck), so unrolling    *)
(* downstreamCalls from a root gives a finite tree, in which a service     *)
(* called along two paths occurs twice. References resolve for the same    *)
(* reason, so the early returns for unknown names never fire.              *)
(*                                                                         *)
(* Left out: what a span carries (attributes, events, timestamps).         *)
(***************************************************************************)
EXTENDS Integers, FiniteSets

CONSTANTS
  Call,         \* invocations of EmitTrace
  Root,         \* those a tick of the scheduler makes, with no parent span
  Children      \* Children[c]: those the fan-out of c makes

CallsAreFinite == IsFiniteSet(Call)
CallsAreForest ==
  /\ Root \subseteq Call
  /\ Children \in [Call -> SUBSET Call]
  /\ \A c \in Call : Children[c] \cap Root = {}
  /\ \A c, d \in Call : c # d => Children[c] \cap Children[d] = {}
  /\ \A c \in Call : c \notin Children[c]

ASSUME CallAssumption   == CallsAreFinite
ASSUME ForestAssumption == CallsAreForest

VARIABLES
  pc,           \* where the goroutine of each call is
  span,         \* its span: none, open (Start has returned) or ended
  failed,       \* the outcome resolveOutcome gave it
  panicked,     \* the calls that have panicked
  wg,           \* the WaitGroup of its emitDownstreams
  traces, spans, errSpans, logs, panics,  \* the engine's counters
  reqCount, errCount                      \* the RED counters, all services

counters == <<traces, spans, errSpans, logs, panics>>
metrics == <<reqCount, errCount>>
vars == <<pc, span, failed, panicked, wg, counters, metrics>>

\* Where a goroutine is before, in, and after the body of EmitTrace.
Body == {"enter", "count", "start", "dress", "errcount", "logcount", "sample",
         "fanout", "wait", "end", "record", "business"}
Exit == {"recover", "return"}

TypeOK ==
  /\ pc \in [Call -> {"idle", "done"} \cup Body \cup Exit]
  /\ span \in [Call -> {"none", "open", "ended"}]
  /\ failed \in [Call -> BOOLEAN]
  /\ panicked \in SUBSET Call
  /\ wg \in [Call -> Nat]
  /\ traces \in Nat /\ spans \in Nat /\ errSpans \in Nat /\ logs \in Nat
  /\ panics \in Nat /\ reqCount \in Nat /\ errCount \in Nat

Init ==
  /\ pc = [c \in Call |-> "idle"]
  /\ span = [c \in Call |-> "none"]
  /\ failed = [c \in Call |-> FALSE]
  /\ panicked = {}
  /\ wg = [c \in Call |-> 0]
  /\ traces = 0 /\ spans = 0 /\ errSpans = 0 /\ logs = 0 /\ panics = 0
  /\ reqCount = 0 /\ errCount = 0

\* The goroutine of c gets from one statement to another.
Goto(c, from, to) == pc[c] = from /\ pc' = [pc EXCEPT ![c] = to]

-----------------------------------------------------------------------------
(* The body of EmitTrace, statement by statement *)

\* A tick of the scheduler starts the goroutine that emits a trace.
Tick(c) ==
  /\ c \in Root
  /\ Goto(c, "idle", "enter")
  /\ UNCHANGED <<span, failed, panicked, wg, counters, metrics>>

\* A context without a valid span starts a new trace.
CountTrace(c) ==
  /\ Goto(c, "enter", "count")
  /\ traces' = IF c \in Root THEN traces + 1 ELSE traces
  /\ UNCHANGED <<span, failed, panicked, wg, spans, errSpans, logs, panics, metrics>>

CountSpan(c) ==
  /\ Goto(c, "count", "start")
  /\ spans' = spans + 1
  /\ UNCHANGED <<span, failed, panicked, wg, traces, errSpans, logs, panics, metrics>>

\* Tracer().Start.
Start(c) ==
  /\ Goto(c, "start", "dress")
  /\ span' = [span EXCEPT ![c] = "open"]
  /\ UNCHANGED <<failed, panicked, wg, counters, metrics>>

\* The attribute and event draws, resolveOutcome, and the log record; which
\* way the outcome goes is up to the sets drawn.
Dress(c) ==
  /\ \/ Goto(c, "dress", "errcount") /\ failed' = [failed EXCEPT ![c] = TRUE]
     \/ Goto(c, "dress", "logcount") /\ failed' = failed
  /\ UNCHANGED <<span, panicked, wg, counters, metrics>>

CountError(c) ==
  /\ Goto(c, "errcount", "logcount")
  /\ errSpans' = errSpans + 1
  /\ UNCHANGED <<span, failed, panicked, wg, traces, spans, logs, panics, metrics>>

CountLog(c) ==
  /\ Goto(c, "logcount", "sample")
  /\ logs' = logs + 1
  /\ UNCHANGED <<span, failed, panicked, wg, traces, spans, errSpans, panics, metrics>>

\* SampleLatencyMillis.
Sample(c) ==
  /\ Goto(c, "sample", "fanout")
  /\ UNCHANGED <<span, failed, panicked, wg, counters, metrics>>

\* One round of the loop over the downstreamCalls map, in no fixed order:
\* wg.Add(1), then the goroutine of the callee.
Launch(c, d) ==
  /\ pc[c] = "fanout"
  /\ d \in Children[c] /\ pc[d] = "idle"
  /\ wg' = [wg EXCEPT ![c] = @ + 1]
  /\ pc' = [pc EXCEPT ![d] = "enter"]
  /\ UNCHANGED <<span, failed, panicked, counters, metrics>>

\* Mutant: the fan-out stops at a callee that panicked.
LaunchedOrPanicked(c) ==
  /\ \/ \A d \in Children[c] : pc[d] # "idle"
     \/ \E d \in Children[c] : d \in panicked
  /\ Goto(c, "fanout", "wait")
  /\ UNCHANGED <<span, failed, panicked, wg, counters, metrics>>

\* Mutant: the loop does not end when every callee is launched.
LaunchedNever(c) ==
  /\ \A d \in Children[c] : pc[d] # "idle"
  /\ Goto(c, "fanout", "fanout")
  /\ UNCHANGED <<span, failed, panicked, wg, counters, metrics>>

\* The loop is over; the goroutine reaches wg.Wait().
Launched(c) ==
  /\ \A d \in Children[c] : pc[d] # "idle"
  /\ Goto(c, "fanout", "wait")
  /\ UNCHANGED <<span, failed, panicked, wg, counters, metrics>>

\* Mutant: the parent does not wait for the calls it made.
JoinAtOnce(c) ==
  /\ Goto(c, "wait", "end")
  /\ UNCHANGED <<span, failed, panicked, wg, counters, metrics>>

\* wg.Wait() returns.
Join(c) ==
  /\ wg[c] = 0
  /\ Goto(c, "wait", "end")
  /\ UNCHANGED <<span, failed, panicked, wg, counters, metrics>>

\* Mutant: a failed span returns early, without the RED metrics.
EndSkipsFailed(c) ==
  /\ Goto(c, "end", IF failed[c] THEN "business" ELSE "record")
  /\ span' = [span EXCEPT ![c] = "ended"]
  /\ UNCHANGED <<failed, panicked, wg, counters, metrics>>

\* The nested mode's sleep, if any, and span.End.
EndSpan(c) ==
  /\ Goto(c, "end", "record")
  /\ span' = [span EXCEPT ![c] = "ended"]
  /\ UNCHANGED <<failed, panicked, wg, counters, metrics>>

RecordRED(c) ==
  /\ Goto(c, "record", "business")
  /\ reqCount' = reqCount + 1
  /\ errCount' = IF failed[c] THEN errCount + 1 ELSE errCount
  /\ UNCHANGED <<span, failed, panicked, wg, counters>>

\* recordBusinessMetrics; EmitTrace returns into its deferred recover, which
\* has nothing to recover.
RecordBusiness(c) ==
  /\ Goto(c, "business", "return")
  /\ UNCHANGED <<span, failed, panicked, wg, counters, metrics>>

-----------------------------------------------------------------------------
(* Panics *)

\* The statements that call into the SDK or draw at random, where a malformed
\* route can panic. The counters in between cannot.
Fragile == {"start", "dress", "sample", "end", "record", "business"}

\* A panic unwinds to the deferred recoverEmission. In "record" it may strike
\* between the request counter and the error counter.
Panic(c) ==
  /\ pc[c] \in Fragile
  /\ pc' = [pc EXCEPT ![c] = "recover"]
  /\ panicked' = panicked \cup {c}
  /\ \/ reqCount' = reqCount
     \/ pc[c] = "record" /\ reqCount' = reqCount + 1
  /\ UNCHANGED <<span, failed, wg, counters, errCount>>

\* recoverEmission.
Recover(c) ==
  /\ Goto(c, "recover", "return")
  /\ panics' = panics + 1
  /\ UNCHANGED <<span, failed, panicked, wg, traces, spans, errSpans, logs, metrics>>

\* Mutant: Done is not deferred, so a call that panicked never reports back.
ReturnUnlessPanicked(c) ==
  /\ Goto(c, "return", "done")
  /\ wg' = [p \in Call |-> IF c \in Children[p] /\ c \notin panicked THEN wg[p] - 1 ELSE wg[p]]
  /\ UNCHANGED <<span, failed, panicked, counters, metrics>>

\* EmitTrace returns to the goroutine that called it: the deferred wg.Done()
\* of a callee. (For a root it is the scheduler's inflight.Done().)
Return(c) ==
  /\ Goto(c, "return", "done")
  /\ wg' = [p \in Call |-> IF c \in Children[p] THEN wg[p] - 1 ELSE wg[p]]
  /\ UNCHANGED <<span, failed, panicked, counters, metrics>>

-----------------------------------------------------------------------------

\* The statements that run whenever the goroutine of c is scheduled.
Step(c) ==
  \/ CountTrace(c) \/ CountSpan(c) \/ Start(c) \/ Dress(c)
  \/ CountError(c) \/ CountLog(c) \/ Sample(c)
  \/ (\E d \in Children[c] : Launch(c, d)) \/ Launched(c) \/ Join(c)
  \/ EndSpan(c) \/ RecordRED(c) \/ RecordBusiness(c)
  \/ Recover(c) \/ Return(c)

Finished == (\A c \in Call : pc[c] \in {"idle", "done"}) /\ (\A r \in Root : pc[r] = "done")

Next ==
  \/ \E c \in Call : Tick(c) \/ Step(c) \/ Panic(c)
  \/ Finished /\ UNCHANGED vars

\* Go schedules every goroutine that can run. Ticks and panics may stop.
Spec == Init /\ [][Next]_vars /\ \A c \in Call : WF_vars(Step(c))

-----------------------------------------------------------------------------
(* What emission promises *)

Running(c) == pc[c] \notin {"idle", "done"}

\* "The parent's span is still open while children are created" (and while
\* they run): no goroutine of a fan-out outlives the span it is nested in,
\* whichever of them panics.
ParentSpanOpen ==
  \A c \in Call : \A d \in Children[c] :
    Running(d) => span[c] = "open" /\ pc[c] \in {"fanout", "wait"}

\* The WaitGroup holds exactly the callees still to come back, so Wait neither
\* returns early nor blocks for ever and Done never drives it below zero.
WaitGroupExact ==
  \A c \in Call : wg[c] = Cardinality({d \in Children[c] : Running(d)})

\* A panic costs the span it strikes and the calls that span had yet to make,
\* nothing else: when a call is over, each of its callees was made unless the
\* call itself panicked, and only a call that panicked lacks an ended span.
PanicStaysLocal ==
  \A c \in Call :
    pc[c] = "done" /\ c \notin panicked =>
      /\ span[c] = "ended"
      /\ \A d \in Children[c] : pc[d] = "done"

\* The counters when no emission is under way, which is when main logs its
\* last Stats: every span counted was ended or cut by a counted panic, each
\* ended span has a log and, without panics, its request in the RED metrics.
StatsSettle ==
  (\A c \in Call : ~Running(c)) =>
    LET ran == {c \in Call : pc[c] = "done"}
        ended == {c \in Call : span[c] = "ended"}
    IN  /\ traces = Cardinality(ran \cap Root)
        /\ spans = Cardinality(ran)
        /\ panics = Cardinality(panicked)
        /\ spans - panics <= Cardinality(ended)
        /\ Cardinality(ended) <= logs /\ logs <= spans
        /\ errSpans <= errCount + panics /\ errCount <= errSpans
        /\ reqCount <= Cardinality(ended) /\ Cardinality(ended) <= reqCount + panics

\* Every tick's trace comes to an end, so inflight.Wait in runRoute returns.
TracesFinish == \A r \in Root : (pc[r] = "enter") ~> (pc[r] = "done")

\* The engine's goroutines implement the forest of nested spans.
Status ==
  [c \in Call |->
     CASE span[c] = "ended" -> "ended"
       [] span[c] # "ended" /\ c \in panicked -> "lost"
       [] span[c] = "open" /\ c \notin panicked -> "open"
       [] OTHER -> "absent"]

Forest == INSTANCE SpanForest WITH status <- Status

\* A span opens under an open one, ends after the spans below it settled, and
\* is lost only with nothing open below it.
ImplementsForest == Forest!Spec

=============================================================================
