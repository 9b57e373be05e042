------------------------------- MODULE Providers -------------------------------
(***************************************************************************)
(* telemetry.Setup and Providers.Shutdown: three SDK providers for each    *)
(* service over one connection, built one service after another, flushed   *)
(* one after another under one deadline, then stopped, and the connection  *)
(* closed last.                                                            *)
(*                                                                         *)
(* The SDK is external. A provider holds at most one batch; how its        *)
(* exporter answers is an input: quick (delivers at once), failing         *)
(* (returns an error at once) or wedged (answers only when its context     *)
(* ends).                                                                  *)
(***************************************************************************)
EXTENDS Integers, Sequences, FiniteSets

CONSTANTS
  N,            \* number of services in the topology
  Healths       \* the ways the exporters may answer: functions on Provider

Kind == <<"trace", "metric", "log">>
Provider == (1..N) \X (1..Len(Kind))

ASSUME NAssumption == N \in Nat \ {0}
ASSUME HealthAssumption == Healths \subseteq [Provider -> {"quick", "failing", "wedged"}]

VARIABLES
  health,       \* how each provider's exporter answers
  grpc,         \* the protocol, which decides whether there is a connection
  step,         \* where Setup or Shutdown is
  adding,       \* index of the service addService works on
  conn,         \* the shared gRPC connection
  provider,     \* each provider: absent, registered, orphan or stopped
  batch,        \* what it holds
  cleanup,      \* Shutdown was called by Setup, with a context without deadline
  pos,          \* how many providers the current pass of forEachProvider did
  expired,      \* the deadline of the flush context has passed
  errs          \* the errors collected: operation and provider

inputs == <<health, grpc>>
vars == <<inputs, step, adding, conn, provider, batch, cleanup, pos, expired, errs>>

TypeOK ==
  /\ health \in Healths /\ grpc \in BOOLEAN
  /\ step \in {"dial", "add", "run", "flush", "stop", "close", "closed", "failed"}
  /\ adding \in 1..(N + 1)
  /\ conn \in {"none", "open", "closed"}
  /\ provider \in [Provider -> {"absent", "registered", "orphan", "stopped"}]
  /\ batch \in [Provider -> {"empty", "held", "sent", "dropped"}]
  /\ cleanup \in BOOLEAN /\ expired \in BOOLEAN
  /\ pos \in 0..(N * Len(Kind))
  /\ errs \in SUBSET ({"flush", "stop"} \X Provider)

Init ==
  /\ health \in Healths /\ grpc \in BOOLEAN
  /\ step = "dial" /\ adding = 1 /\ conn = "none"
  /\ provider = [p \in Provider |-> "absent"]
  /\ batch = [p \in Provider |-> "empty"]
  /\ cleanup = FALSE /\ pos = 0 /\ expired = FALSE /\ errs = {}

-----------------------------------------------------------------------------
(* Setup *)

\* The endpoint and the headers are resolved, and for gRPC the connection is
\* dialled; HTTP exporters bring their own. Any of these may fail.
Dial ==
  /\ step = "dial"
  /\ \/ /\ step' = "add"
        /\ conn' = IF grpc THEN "open" ELSE "none"
     \/ step' = "failed" /\ conn' = conn
  /\ UNCHANGED <<inputs, adding, provider, batch, cleanup, pos, expired, errs>>

\* addService registers the three providers of the next service.
AddService ==
  /\ step = "add" /\ adding <= N
  /\ provider' = [p \in Provider |-> IF p[1] = adding THEN "registered" ELSE provider[p]]
  /\ adding' = adding + 1
  /\ UNCHANGED <<inputs, step, conn, batch, cleanup, pos, expired, errs>>

\* Mutant: Setup returns the error of addService at once.
AddFailsUncleaned ==
  /\ step = "add" /\ adding <= N
  /\ step' = "failed" /\ cleanup' = TRUE
  /\ UNCHANGED <<inputs, adding, conn, provider, batch, pos, expired, errs>>

\* addService fails, before its providers exist (resource, exporters) or after
\* (newEmitter), when they run but nothing refers to them. Setup shuts down
\* what is registered, with a context that never ends.
AddFails ==
  /\ step = "add" /\ adding <= N
  /\ \/ provider' = provider
     \/ provider' = [p \in Provider |-> IF p[1] = adding THEN "orphan" ELSE provider[p]]
  /\ step' = "flush" /\ cleanup' = TRUE
  /\ UNCHANGED <<inputs, adding, conn, batch, pos, expired, errs>>

\* Setup returns; the engine runs.
SetUp ==
  /\ step = "add" /\ adding = N + 1
  /\ step' = "run"
  /\ UNCHANGED <<inputs, adding, conn, provider, batch, cleanup, pos, expired, errs>>

\* The run is over and main calls Shutdown. The batchers have exported in the
\* background what they did; any provider may hold a last batch.
CallShutdown ==
  /\ step = "run"
  /\ \E held \in SUBSET Provider :
       batch' = [p \in Provider |-> IF p \in held THEN "held" ELSE "empty"]
  /\ step' = "flush"
  /\ UNCHANGED <<inputs, adding, conn, provider, cleanup, pos, expired, errs>>

-----------------------------------------------------------------------------
(* Shutdown *)

\* The slices of registered providers, as long as services were registered.
Registered == adding - 1
Last == Registered * Len(Kind)

\* forEachProvider goes through all traces, then all metrics, then all logs.
Nth(i) == <<((i - 1) % Registered) + 1, ((i - 1) \div Registered) + 1>>

\* Under a deadline a wedged exporter gives up when it passes; without one,
\* when its own export timeout does.
Answers(p) == health[p] = "wedged" => expired \/ cleanup
Delivers(p) == health[p] = "quick" /\ ~expired /\ (grpc => conn = "open")

\* Mutant: errors of the flush are thrown away.
ExportForgetsFlush(p, op) ==
  \/ /\ Delivers(p)
     /\ batch' = [batch EXCEPT ![p] = IF @ = "held" THEN "sent" ELSE @]
     /\ errs' = errs
  \/ /\ ~Delivers(p)
     /\ \/ batch' = [batch EXCEPT ![p] = IF @ = "held" THEN "dropped" ELSE @]
        \/ expired /\ batch' = batch
     /\ errs' = IF op = "stop" /\ batch[p] = "held" THEN errs \cup {<<op, p>>} ELSE errs

\* The outcome of one ForceFlush or Shutdown of a provider. An export that
\* fails empties the batch all the same; one that is not even tried because
\* the context is over leaves it.
Export(p, op) ==
  \/ /\ Delivers(p)
     /\ batch' = [batch EXCEPT ![p] = IF @ = "held" THEN "sent" ELSE @]
     /\ errs' = errs
  \/ /\ ~Delivers(p)
     /\ \/ batch' = [batch EXCEPT ![p] = IF @ = "held" THEN "dropped" ELSE @]
        \/ expired /\ batch' = batch
     /\ errs' = IF expired \/ batch[p] = "held" THEN errs \cup {<<op, p>>} ELSE errs

\* Mutant: forEachProvider returns at the first error.
AdvanceToFirstError(p) == pos' = IF errs' # errs THEN Last ELSE pos + 1

\* Mutant: forEachProvider retries the provider that failed.
AdvanceIfDelivered(p) == pos' = IF Delivers(p) THEN pos + 1 ELSE pos

\* Errors are collected, and the pass goes on to the next provider.
Advance(p) == pos' = pos + 1

Flush ==
  /\ step = "flush" /\ pos < Last
  /\ LET p == Nth(pos + 1) IN Answers(p) /\ Export(p, "flush") /\ Advance(p)
  /\ UNCHANGED <<inputs, step, adding, conn, provider, cleanup, expired>>

\* Mutant: only the providers of traces are flushed.
FlushedTraces ==
  /\ step = "flush" /\ pos = Registered
  /\ step' = "stop" /\ pos' = 0
  /\ UNCHANGED <<inputs, adding, conn, provider, batch, cleanup, expired, errs>>

FlushedAll ==
  /\ step = "flush" /\ pos = Last
  /\ step' = "stop" /\ pos' = 0
  /\ UNCHANGED <<inputs, adding, conn, provider, batch, cleanup, expired, errs>>

\* A provider's Shutdown stops it whatever becomes of its last export.
Stop ==
  /\ step = "stop" /\ pos < Last
  /\ LET p == Nth(pos + 1)
     IN  /\ Answers(p) \/ batch[p] # "held"
         /\ Export(p, "stop") /\ Advance(p)
         /\ provider' = [provider EXCEPT ![p] = "stopped"]
  /\ UNCHANGED <<inputs, step, adding, conn, cleanup, expired>>

StoppedAll ==
  /\ step = "stop" /\ pos = Last
  /\ step' = "close"
  /\ UNCHANGED <<inputs, adding, conn, provider, batch, cleanup, pos, expired, errs>>

\* The connection closes last, and Shutdown (or the failing Setup) returns.
Close ==
  /\ step = "close"
  /\ conn' = IF conn = "open" THEN "closed" ELSE conn
  /\ step' = "closed"
  /\ UNCHANGED <<inputs, adding, provider, batch, cleanup, pos, expired, errs>>

\* Ten seconds pass. Quick and failing exporters take no time to speak of, so
\* this happens while a wedged one is waited for.
Expire ==
  /\ step \in {"flush", "stop"} /\ pos < Last /\ ~cleanup /\ ~expired
  /\ health[Nth(pos + 1)] = "wedged"
  /\ expired' = TRUE
  /\ UNCHANGED <<inputs, step, adding, conn, provider, batch, cleanup, pos, errs>>

-----------------------------------------------------------------------------

Finished == step \in {"closed", "failed"} /\ UNCHANGED vars

Next ==
  \/ Dial \/ AddService \/ AddFails \/ SetUp \/ CallShutdown
  \/ Flush \/ FlushedAll \/ Stop \/ StoppedAll \/ Close \/ Expire
  \/ Finished

\* Shutdown runs on, and time passes. Setup and the run take as long as they do.
Spec ==
  /\ Init /\ [][Next]_vars
  /\ WF_vars(Flush \/ FlushedAll \/ Stop \/ StoppedAll \/ Close \/ Expire)

-----------------------------------------------------------------------------
(* What Setup and Shutdown promise *)

\* A provider is stopped, and the connection they export over closed, only after
\* each registered one had its flush: neither takes away a batch whose turn has
\* not come, and what is still held then is so because the deadline passed.
FlushBeforeStop ==
  conn = "closed" \/ (\E p \in Provider : provider[p] = "stopped") =>
    \A p \in Provider : batch[p] = "held" => expired

\* One failing exporter does not keep the others' batches from being sent.
FailureStrandsNobody ==
  step = "closed" /\ ~expired =>
    \A p \in Provider : health[p] = "quick" => batch[p] \in {"empty", "sent"}

\* Telemetry lost in the shutdown is reported: main logs a warning exactly when
\* Shutdown returns an error.
LossIsReported ==
  step = "closed" /\ (\E p \in Provider : batch[p] \in {"held", "dropped"}) => errs # {}

\* When Setup fails after a partial build, whatever it had registered is
\* stopped and the connection is not left open.
FailedSetupCleansUp ==
  step = "failed" \/ (step = "closed" /\ cleanup) =>
    conn # "open" /\ \A p \in Provider : provider[p] # "registered"

\* Shutdown returns, wedged exporters or not.
ShutdownReturns == (step = "flush") ~> (step = "closed")

\* providers.go:184, "so a slow provider cannot cause a faster one's batch to
\* be dropped": a batch whose exporter would deliver it at once is delivered.
SlowNeverDropsFast ==
  step = "closed" =>
    \A p \in Provider : health[p] = "quick" => batch[p] \in {"empty", "sent"}

=============================================================================
