# Verification of otel-ecom-load-genrator

The program generates synthetic OpenTelemetry load: it loads a topology of
services and routes, drives root routes at configured rates, emits for every
tick a trace whose spans fan out along the declared downstream calls, reports
its progress, and flushes everything when it is stopped. This directory holds
TLA+ modules for its logic, TLC configurations that check them on small
instances, and TLAPS proofs that hold for every instance. Paths below are
relative to the repository; line numbers are those of the commit beside it.

## 1. Inventory

| Component | State it keeps | Operations | What makes it correct |
|---|---|---|---|
| Validation (`config/validate.go`) | three-colour marks, the stack of the walk, the visited set | rules on names, references, weights, latencies, rates, surges; depth-first walks from the root routes | what is accepted meets every precondition of the run and cannot recurse for ever; what is rejected as cyclic is; warnings are exact; it returns |
| Loading (`config/load.go`) | none | read, decode | nothing is built from a document that was refused |
| Emission (`engine/engine.go`: `EmitTrace`, `emitDownstreams`, `recoverEmission`) | one goroutine, span and WaitGroup per call; shared counters | count, start, dress, fan out, wait, end, record, recover | spans nest, waits are exact, panics stay local, counters settle |
| Timing modes (`TimingMode`, the sleep of nested spans) | start and sampled latency of each span | end at a computed time, or sleep the remainder | children end within their parent; how long a drain takes; how far emissions pile up |
| Draws, outcome, attributes (`chaos`, `resolveOutcome`, `attributes.go`, `routeattrs.go`) | none | weighted pick, latency sample, outcome, conversion, naming | shares equal weights, one outcome per span, types and elements kept, backends can name the route |
| Instruments (`telemetry/emitter.go`, `recordBusinessMetrics`, `deltaTemporalitySelector`) | maps of lazily made instruments behind a mutex | `RecordRED`, `Counter`, `Histogram`, export | one instrument per name and kind, sums that add up, no visit left waiting for the mutex |
| Counters and reporter (`Engine.Stats`, `startReporter`) | five counters, each with a mutex; the last report | load, report | each number is current, deltas are not negative |
| Scheduler (`engine/scheduler.go`) | ticker, interval and WaitGroup per root route | tick, adjust, stop, drain | no emission outlives it, rates are respected, cancelling ends it |
| Providers (`telemetry/providers.go`) | three SDK providers per service, one gRPC connection | set up, flush, stop, close | everything is flushed before anything stops; errors are kept |
| Endpoint (`telemetry/backend.go`, `exporters.go`) | none | parse, resolve, dial, build, describe | precedence of the sources, the transport asked for, a log that says the truth |
| Process (`main.run`, `Engine.Run`) | the context, exit status | load, set up, run, flush, summarise | nothing is lost at exit; a signal always ends the run |
| Test harness (`telemetry/testing.go`) | in-memory exporters | - | - |

How they interact. `main.run` calls `config.Load`, `telemetry.Setup`,
`engine.New`, `Engine.Run`, `Providers.Shutdown` and `Engine.Stats` one after
another. `Engine.Run` starts the reporter and the scheduler; the scheduler
starts a goroutine for each root route, which starts one for each emission,
which starts one for each downstream call. They share the context, which
`main` cancels on a signal or when the duration is over; the engine's counters;
and the emitters with their instruments. The SDK's providers export in the
background.

Hard behaviour: fan-out beside panics; select between a tick and a done
context; counters read while they change; instruments made by whichever
emission comes first, and a panic while the mutex is held; a flush that must
come after every emission and share one deadline among all providers; intervals
computed at one tick and used until the next; settings read at three places
that must agree; arithmetic at its limits. `PROJECT.json` lists each hazard at
its line with the properties that cover it.

## 2. Modules

| Module | Models | Notes |
|---|---|---|
| `CycleCheck` | `detectCycles`, `unreachableServices` | the recursion is the sequence `stack`; each call of `visit` is a step |
| `Validation` | `ValidateWithWarnings` | extends `CycleCheck` and `Sampling`: one step for each pass, and the walks as two of the passes |
| `SpanForest` | abstract: nested spans | what `Emission` implements |
| `Emission` | `EmitTrace`, `emitDownstreams`, `recoverEmission`, RED counters | `pc[c]` is the statement the goroutine of call `c` is at |
| `Timing` | synthetic and nested timing | the time that `Emission` leaves out: a clock, sleeps, and a route that ticks |
| `Progress` | `Stats`, `startReporter` | extends `Emission`: loads interleave with its steps |
| `Sampling` | package `chaos`, `validateWeighted`, `validateLatency` | a draw is the set of its outcomes |
| `Attributes` | `ConvertAttributes`, `routeAttributes` | a JSON value is its type, a number and its elements; a route name is a sequence of words |
| `Dressing` | what `EmitTrace` puts on one span | extends `Sampling` and `Attributes`; the detail of two steps of `Emission` |
| `Instruments` | `RecordRED`, `recordBusinessMetrics`, `Counter`, `Histogram`, the reader | the detail of the step of `Emission` that records; visits share maps and mutex |
| `Scheduler` | `scheduler`, `runRoute`, surges | a clock, and a ticker per route |
| `Session` | abstract: one run of the program | what `Lifecycle` implements |
| `Lifecycle` | `main.run`, `Engine.Run`, the reporter's life | extends `Scheduler`: its steps run while `main` is in `Engine.Run` |
| `Endpoint` | flags, `resolveEndpoint`, `grpcTarget`, `hostPort`, exporters, `DescribeEndpoint` | a URL is a record of its parts |
| `Providers` | `Setup`, `addService`, `Shutdown`, `forEachProvider` | the SDK is an input |
| `SamplingProofs` | lemmas | what the draws return, for lists of any length; shared by the proofs of `Dressing` and `Validation` |
| `ValidationProofs` | theorems | about `CycleCheck` and `Validation` |
| `EmissionProofs` | theorems | about `Emission`, its refinement of `SpanForest`, and `Progress` |
| `TimingProofs`, `DressingProofs`, `InstrumentsProofs` | theorems | about the module of that name |
| `LifecycleProofs` | theorems | about `Scheduler`, `Lifecycle` and its refinement of `Session` |
| `TelemetryProofs` | theorems | about `Providers` and `Endpoint` |
| `MC*` | constants of the runs | each extends the module it instantiates |

Correspondence.

- `Validation.stage` is the pass that runs. Each pass of field rules is one
  step to the next pass or to `rejected`; `DetectCycles` and `FindUnreachable`
  take the steps of `CycleCheck`, so its properties are checked where the code
  meets them: on documents that came through the passes before.
- `Emission.Step(c)` is the goroutine of one call; its disjuncts follow the
  statements of `EmitTrace` in order, `Panic` may strike at any statement that
  enters the SDK or a draw, and `Recover` and `Return` are the deferred calls.
- `Timing` keeps of a call what time depends on. A run is *prompt* if the clock
  waits for every goroutine that can go on, so that only sleeps take time;
  otherwise each goroutine is as late as it likes.
- In `Instruments` a visit is the metrics part of one emission. `Ask` takes the
  mutex; `Hit`, `Create`, `Refused` and `Unwind` release it, as the deferred
  `Unlock` does on every way out. `Collect` is an export of the SDK's reader.
- `Dressing` follows `EmitTrace` from the name's attributes to the latency;
  its inputs are the lists that validation lets pass.
- `Scheduler.RouteStep(r)` is `runRoute`: `Begin` makes the ticker, `Receive`
  and `Stop` are the cases of the select, `Adjust` is what follows a tick,
  `Drain` is the deferred calls; `Pass` is time and the runtime's timers. Time
  may pass between `Receive` and `Adjust`, and `Adjust` empties the ticker's
  channel as `Reset` does since Go 1.23. With `prompt` time waits while any goroutine
  has something to do: to begin, to adjust, to take a tick or a done context, or to
  leave once its emissions are back.
- `Lifecycle.main` is the program counter of `main.run`; `Flush` stands for
  `Shutdown`, whose inside is `Providers`; there `Advance` is what
  `forEachProvider` does after each provider, whatever its error.
- `Endpoint` runs from the parsed flags (`Parse`) through `Setup` (`Resolve`),
  `dialGRPC` (`Connect`) and the factory (`Build`, one exporter a step). What the
  SDK's HTTP exporters take from the environment, beside an endpoint
  (`AtHostPort`) or without one (`FromSDK`), is how the pinned version behaves.

Mutants (definitions with a comment "Mutant:") are plausible bugs. No
specification uses them; putting one in the place of the definition after it
makes the property named in `PROJECT.json` fail.

## 3. Runs

| Run | Instance | Shows |
|---|---|---|
| `validation` | 2 services x 2 routes, all call maps, 1 or 2 roots; and a small document with each field in turn at its limits | `AcceptedHasNoCycle`, `ReportedCycleIsReal`, `WarnsExactlyUnreachable`, `AcceptedIsRunnable`, `Returns` |
| `emission` | one root, two callees, one of them with a callee of its own; panics anywhere | `ParentSpanOpen`, `WaitGroupExact`, `PanicStaysLocal`, `StatsSettle`, `TracesFinish`, and that `SpanForest` is implemented |
| `timing` | three ticks faster than the largest latency, all prompt; and one fan-out with every delay | `NestedSpansNest`, `SpanLength`, `BacklogIsBounded` |
| `progress` | two nested calls beside the reporter | `ReportIsCurrent`, `DeltasNeverNegative` |
| `dressing` | lists of up to three sets, ints that end at 7, JSON values of every type and lists of two, names of every convention, latencies up to 3 ms | `DrawnIsSelectable`, `SharesAreWeights`, `OutcomeMatchesSpan`, `ConversionKeeps`, `RouteIsNamed`, `LatencyShape` |
| `instruments` | two visits that declare the same counter with different units, one of them twice, a histogram of the same name, a refused name; panics anywhere, exports at any moment | `BackendAddsUp`, `OneInstrument`, `VisitsFinish` |
| `program` | a quick and a slow route, two surges that overlap, clock to 7, signals at any moment | `TickerAboveFloor`, `NeverTooMany`, `NoticedWithinOneTick`, `QuietBeforeFlush`, `NothingLostAtExit`, `CancelExits`, and that `Session` is implemented |
| `providers` | two services, up to two bad exporters of which one wedged | `FlushBeforeStop`, `FailureStrandsNobody`, `LossIsReported`, `FailedSetupCleansUp`, `ShutdownReturns` |
| `endpoint` | every combination of flag, environment, backend, protocol, region and license key | `PrecedenceHolds`, `TransportAsAsked`, `DescriptionIsTrue` |

Three runs state what a document or comment says and what the code does not do:

| Run | Statement | Code |
|---|---|---|
| `scheduler_window` | surges multiply the rate for `durationSeconds` (`README.md:206`) | windows are noticed at ticks only; a slow route can miss one, even if every goroutine reacts at once |
| `providers_slow` | a slow provider cannot cost a faster one its batch (`providers.go:184`) | flushes are sequential under one deadline |
| `endpoint_described` | the startup log is never ambiguous (`README.md:143`) | with `--backend otlp` over gRPC and no endpoint anywhere the log says localhost, and `grpcTarget` dials New Relic |

Other places where code and words part, found while modelling. The models
follow the code.

- The design document's rule 4 and `README.md:213` reject cycles; the walk
  begins at root routes, so a cycle that none of them reaches is accepted. It
  is never entered: `AcceptedHasNoCycle` is what holds.
- "Stats is a snapshot" (`engine.go:79`): it is five separate loads, and a report
  may show more failed spans than spans. `ReportIsCurrent` is what holds.
- The route's set is "authoritative" (`engine.go:310`) for the status code; the
  failure may come from either set. `OutcomeMatchesSpan` is what holds.
- "The reported duration matches wall clock" (`engine.go:213`): the histogram gets
  the sampled latency; the span is longer when its callees take longer. `SpanLength`
  says by how much.
- `README.md:228` says that nested timing is not implemented; it is.
- `isIntegral` admits 2^63, which an int64 does not hold: `ConversionKeeps`
  asks nothing of that number, and everything of the others in its list.
- "`--endpoint` flag: wins over everything" (`README.md:133`) holds of host and
  port only. The HTTP exporters get `WithEndpoint` and, for plaintext,
  `WithInsecure`, but no path and no option for TLS (`exporters.go:73-78`), and the
  SDK reads `OTEL_EXPORTER_OTLP_ENDPOINT` before its options: beside a flag the
  path of that URL stays in force, and an `http` URL there makes even an `https`
  flag plaintext, the license key included. `Options.Endpoint`
  (`backend.go:99-105`) names neither. `PrecedenceHolds` and `TransportAsAsked`
  say exactly what is left: the flag's host and port, the environment's path,
  and TLS if it is asked for and the environment is not `http`.
- An endpoint without a scheme keeps its path on gRPC, and an `https` URL
  with the local backend is plaintext over HTTP; the two properties name these
  exceptions too (`WellFormed`, `PlaintextAnyway`).

Bounds and why they are enough.

- *Topology.* Two routes on each of two services give self-calls, calls
  between routes of one service, diamonds, and cycles of up to four nodes on
  and off the roots' side. Every map of that size is an initial state. The proofs
  lift the bound.
- *Fields.* A rule looks at one field, or at two of one record, so one field (or
  record) differs from a valid document at a time; a pass is reached only if the
  passes before it accept, so defects do not combine. A minute has two
  seconds: `durationSeconds` runs from 0 past the longest period.
- *Calls.* Four calls have a fan-out, a sibling that runs beside a subtree, and
  depth three. Two traces at once share only the counters; the proofs cover any
  finite forest.
- *Timing.* Latencies 1 and 3 around an interval of 2 make an emission end
  before, and after, the next tick; a chain of three and a fan-out of two have
  callees shorter and longer than their callers; by time 9 the last emission is
  over.
- *Width.* `MaxInt` is 7: the sum of two weights of 7 wraps to -2 while single
  weights fit, and numbers below, at and above both limits are inputs. Nothing
  depends on 64; the proofs are about every `MaxInt`.
- *Quarters of a millisecond* show everything truncation and rounding can do;
  p50 and p99 up to 3 give equal, adjacent and distant percentiles, a p50 whose
  quarter is below the minimum, and multipliers that leave the sample on
  either side of p99.
- *Visits.* Two visits have every race for one instrument: the map holds what
  at most one of them made.
- *Clock and inflight.* `MaxTime` covers a period of each surge and the start
  of the next; the unit is chosen so that one interval meets the floor.
  `MaxInflight` = 2 lets an emission overlap the next tick; a route at the
  bound takes no tick until one ends. The clock does not pass `MaxTime`.
- *Providers.* Two services put providers before and behind a bad one in each
  of the three passes. More than one wedged exporter adds nothing: the first
  uses up the deadline.

Fairness. Each goroutine that can run is run by the Go scheduler in the end:
weak fairness of `Step(c)`, `RouteStep(r)`, `MainStep`, of validation's one
goroutine and of the steps of `Shutdown`. Emissions end (`TracesFinish` shows
it of `Emission`, `SpanLength` with nested timing), so `Finish(r)` is weakly
fair. A select with a tick and a done context ready takes either at random, so
it does not take the tick for ever: strong fairness of `Stop(r)` and
`ReporterStops`. A visit in `Instruments` is strongly fair, because
`sync.Mutex` hands itself over in order of arrival once somebody has waited a
millisecond. Ticks, panics, signals, reports, exports, the moment when `Setup`
ends and what exporters answer carry no fairness; that time passes while
`Shutdown` waits (`Expire`) does. Nothing but a signal or the duration ends a
run, so liveness starts from a cancelled context or from a call that has begun.

## 4. Proofs

`tlapm` checks these for all values of the constants that satisfy the named
assumptions. Every invariant the runs check is proved, and so are the action
properties and both refinements; what is left to TLC alone is liveness. A
property is seldom inductive as it stands, so each module has an invariant that
is: `Init` implies it, each action keeps it (one lemma per action or per part of
it), and the properties follow.

| Module | Invariant | Theorems on the properties of the runs |
|---|---|---|
| `ValidationProofs` | `IInv`, `PassInv` | `AcceptanceIsSound`, `RejectionIsJustified`, `WarningsAreExact`, and of the whole validation `ValidatedHasNoCycle`, `ValidationErrorIsReal`, `ValidationWarnsExactly`, `AcceptedRuns` |
| `EmissionProofs` | `IInv`, `CountInv`, `RInv` | `SpansNest`, `WaitGroupsCount`, `PanicsStayLocal`, `StatsAddUp`, `EmissionImplementsForest`, `ReportsAreCurrent`, `DeltasAreNatural` |
| `TimingProofs` | `IInv`, `PInv`, `BInv` | `NestedTimingNests`, `LengthsAreSampled`, `BacklogIsSmall` |
| `DressingProofs` | `Inv` | `OnlySelectableIsDrawn`, `WeightsAreShares`, `OutcomesMatch`, `ConversionIsFaithful`, `RoutesAreNamed`, `LatenciesKeepShape` |
| `InstrumentsProofs` | `IInv`, `SumInv` | `OneInstrumentPerKey`, `BackendIsRight` |
| `LifecycleProofs` | `SchedulerInv`, `ProgramInv` | `ProgramTickerAboveFloor`, `ProgramNeverTooMany`, `ProgramNoticesSurges`, `ProgramQuietBeforeFlush`, `ProgramLosesNothing`, `ProgramImplementsSession` |
| `TelemetryProofs` | `ProvidersInv`, `EndpointInv` | `FlushesBeforeStopping`, `FailuresStrandNobody`, `LossesAreReported`, `FailedSetupsCleanUp`, `PrecedenceIsKept`, `TransportIsAsAsked`, `TheLogIsTrue` |

Along which arguments.

- *The search for cycles.* That a node marked done heads no cycle holds only
  because all its callees were done before it; the path in an error is a cycle
  only because each stack entry calls the next and `left` holds exactly the keys
  not yet visited. `IInv` says so, with the finished part of the graph acyclic at
  every step and, in the survey, visited and pending nodes closed under calls.
  Reachability and acyclicity are stated with closed sets, so no recursion is
  needed.
- *The whole validation.* Every step of `Validation` is a step of `CycleCheck` or
  leaves its variables alone (`ValidationIsCycleCheck`). `PassInv` adds that no
  pass is skipped and that none changes what those before it looked at. The
  nodes that resolve are closed under calls, so all that a root route leads to
  resolve (`ReachableResolves`); each of these can be emitted by the lemmas on
  draws (`ResolvedIsEmittable`).
- *Emission.* `IInv` ties the three descriptions of a fan-out together: the
  WaitGroup equals the number of running callees, callees run only while their
  parent is in its fan-out or its wait, and the span's state follows from the
  program counter and whether the call panicked. `CountInv` gives each counter the
  set of calls it has counted; where a panic may strike between two statements
  of one call there are two sets, one that is certain and one that is possible,
  with the counter between them.
- *Reports.* `RInv` keeps, field by field, that what is loaded lies between the
  counter when `Stats` began and the counter now, and that the last report lies
  below where this one began.
- *Timing.* `IInv` orders the life of a callee within its caller's, however late
  each goroutine is. `PInv` is about punctual runs: a callee starts in the instant
  its caller did; a caller waits no longer than the longest sample below some
  callee; so it wakes, whether or not its callees took longer than its own
  sample, when the longest sample at or below it is over. `BInv` adds that each
  tick is taken when it is due, hence the emissions in progress started within
  the largest latency, an interval apart.
- *Draws.* What `PickWeighted` has left of a draw is at most the draw without the
  sum so far, also if that wrapped (`WalkBelowSum`); so it ends below zero, and
  the last resort at the end of the code is never reached. If no sum wraps, the
  draws that pick a set are those between two consecutive totals (`ShareOf`).
- *Conversion and names.* `Inv` of `Dressing` is what each statement has left
  behind; the rest is by cases over the types of a value, the directives of the
  sets and the kinds of a name.
- *Instruments.* The mutex is held by exactly the visits inside `Counter` or
  `Histogram`, at most one, and one about to make an instrument has found none;
  both survive a panic because the unlock is deferred. `Tally` counts events: what
  is recorded for a key lies between those that are certain and those that are
  possible, as in `CountInv`.
- *Scheduler and program.* `Paced` says that the ticks taken so far, and the one
  that waits, fit at the fastest legal interval into the time gone; `Noticed`
  that the interval in use was right at a moment not longer ago than the interval
  itself. Both are kept through surges because every interval is at least the
  fastest one. `ProgramInv` balances traces ended, in progress and started, and
  says when nothing is in progress; the refinement of `Session` reads its
  traces off these numbers.
- *Providers.* `Progressed` says what a pass has done up to its position, and
  positions and providers correspond one to one by division with remainder
  (`ProvidersHavePositions`). `Accounted` tells what became of each batch.
- *Endpoint.* `ChoiceInv` says that past `Resolve` the endpoint is the one that
  `resolveEndpoint` would still choose, for the inputs it reads do not change;
  `ExporterInv` that each exporter was made from it and, over HTTP, from the
  environment.

Induction. Statements about a recursive function or a fold for every input
(`Sums`, `Walk`, `Totals`, `Below`, `SumFunction`, the product of the multipliers)
are proved from the fact that every nonempty set of naturals has a least
element (`LeastNatural`): a set of naturals that holds 0 and the successor of
each member holds all. That the `CHOOSE` behind a recursive function has a value
is shown by building one, step by step along the list (`Along`), or for `Below`
from the callees up (`BelowIs`), for which `CallAssumption` says that the calls
are well-founded.

Assumptions, and why the code justifies them: calls are finitely many, each
made by one fan-out, and form a forest (`Emission`) or are well-founded
(`Timing`), which `AcceptedHasNoCycle` gives; root routes and visits are finite;
latencies are positive and bounded, as `LatencyShape` shows of those sampled
(an outlier is a multiple of a bounded sample); rates, periods, durations and
multipliers of surges are positive, which validation enforces; documents and
URLs are of the types that decoding gives; there is at least one service.

Only model-checked: `Returns`, `TracesFinish`, `VisitsFinish`, `CancelExits` and
`ShutdownReturns`, because liveness needs ENABLED, which the prover does not
handle.

## 5. Not modelled

- Parsing of flags, JSON, URLs and durations, logging, pprof, formatting of
  errors. A URL is a record of its parts, a document is decoded.
- Which error validation returns when one pass has several; its warnings on
  sums of weights; an `outlierRate` outside [0, 1), which only changes how often
  outliers are drawn.
- `PickInstance`, `Float64` and `IntRange` (uniform draws, the last one without a
  caller), and `SampleLatencyMillis`' distribution inside each half.
- Values and attributes of measurements, the aggregation of histograms, the
  bodies of logs.
- The SDK's batching, export intervals and retries during the run; what TLS
  does.
- The other `OTEL_EXPORTER_OTLP_*` variables, which only the SDK reads (an endpoint
  per signal, headers, plaintext, deadlines): the properties of `Endpoint` are for
  runs in which they are not set.
- The cases of `ConvertAttributes` for callers that build maps in Go: there
  are none. The test harness, which has no logic of its own.
- `Emission` has no early returns for unknown names: `AcceptedIsRunnable` says
  that validation excludes them. Surge multipliers are whole numbers.
- The orphaned providers of a service whose emitter could not be built are in
  `Providers` (`AddFails`), without a property: the emitter's instruments have
  constant names.

## 6. Plan

The models of the plan are done, and every safety property, action property and
refinement that a run checks is proved. What would extend the project:

1. Lemmas that shorten the liveness arguments: for each of the five properties,
   that the step which is waited for is possible (a guard that follows from the
   invariant), and a variant that it lowers, as theorems without fairness.
2. The uniform draws that are left out (`PickInstance`, `IntRange`).
3. Products of `everyMinutes` and `durationSeconds` in 64 bits, the one numeric
   hazard without a property.
