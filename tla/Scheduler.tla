------------------------------ MODULE Scheduler ------------------------------
(***************************************************************************)
(* scheduler.Run: one goroutine for each root route ticks at the route's   *)
(* rate, starts an emission in a goroutine of its own at every tick, and   *)
(* asks again at each tick which surges are open. Cancelling the context   *)
(* ends them all; Run returns when every emission is over.                 *)
(*                                                                         *)
(* Time is counted in units from `started`. A ticker has the time it fires *)
(* next and a channel for one tick: a tick that finds it full is dropped,  *)
(* and Reset empties it (Go 1.23 and later; go.mod asks for 1.25).         *)
(***************************************************************************)
EXTENDS Integers, Sequences, FiniteSets, Functions

CONSTANTS
  Root,         \* the root routes
  TracesPerHour,\* their rates
  Hour,         \* length of an hour, in units of time
  Minute,       \* of a minute
  Second,       \* of a second
  Surges,       \* a sequence of records everyMinutes, durationSeconds, multiplier, routes
  MinInterval,  \* the floor of every interval
  MaxTime,      \* bound on the clock
  MaxInflight   \* bound on a route's emissions in progress

ASSUME TimeAssumption ==
  /\ Hour \in Nat \ {0} /\ Minute \in Nat \ {0} /\ Second \in Nat \ {0}
  /\ MinInterval \in Nat \ {0}
  /\ MaxTime \in Nat /\ MaxInflight \in Nat \ {0}
ASSUME RootAssumption == IsFiniteSet(Root)
ASSUME RateAssumption == TracesPerHour \in [Root -> Nat \ {0}]
ASSUME SurgeAssumption ==
  Surges \in Seq([everyMinutes : Nat \ {0}, durationSeconds : Nat \ {0},
                  multiplier : Nat \ {0}, routes : SUBSET Root])

VARIABLES
  prompt,       \* input: goroutines react before time goes on
  now,          \* the clock
  cancelled,    \* the context is done
  pc,           \* where each route's goroutine is
  current,      \* the interval its ticker runs at
  due,          \* when its ticker fires next
  tick,         \* a tick waits in its channel
  inflight,     \* how many of its emissions are in progress
  emitted       \* how many it has started

vars == <<prompt, now, cancelled, pc, current, due, tick, inflight, emitted>>

-----------------------------------------------------------------------------
(* Intervals *)

\* Mutant: the floor is forgotten.
AtLeastNothing(floor, d) == d

AtLeast(floor, d) == IF d < floor THEN floor ELSE d

\* A rate that validation would reject means the default of an hour.
intervalFor(tracesPerHour) ==
  IF tracesPerHour <= 0 THEN Hour ELSE AtLeast(MinInterval, Hour \div tracesPerHour)

\* An empty list of routes means every root route.
surgeApplies(surge, r) == surge.routes = {} \/ r \in surge.routes

\* A window opens at the start of each period.
Open(surge, since) ==
  LET period == surge.everyMinutes * Minute
  IN  period > 0 /\ since % period < surge.durationSeconds * Second

\* Surges that overlap compound.
multiplierAt(r, since) ==
  LET open == {i \in 1..Len(Surges) : surgeApplies(Surges[i], r) /\ Open(Surges[i], since)}
  IN  FoldFunction( *, 1, [i \in open |-> Surges[i].multiplier])

effectiveInterval(r, since) ==
  LET base == intervalFor(TracesPerHour[r])
      mult == multiplierAt(r, since)
  IN  IF mult <= 1 THEN base ELSE AtLeast(MinInterval, base \div mult)

-----------------------------------------------------------------------------
(* The goroutines of the routes *)

TypeOK ==
  /\ prompt \in BOOLEAN /\ now \in 0..MaxTime /\ cancelled \in BOOLEAN
  /\ pc \in [Root -> {"start", "select", "adjust", "drain", "done"}]
  /\ current \in [Root -> Nat] /\ due \in [Root -> Nat]
  /\ tick \in [Root -> BOOLEAN]
  /\ inflight \in [Root -> 0..MaxInflight]
  /\ emitted \in [Root -> Nat]

Init ==
  /\ prompt \in BOOLEAN /\ now = 0 /\ cancelled = FALSE
  /\ pc = [r \in Root |-> "start"]
  /\ current = [r \in Root |-> 0] /\ due = [r \in Root |-> 0]
  /\ tick = [r \in Root |-> FALSE]
  /\ inflight = [r \in Root |-> 0] /\ emitted = [r \in Root |-> 0]

Ticking(r) == pc[r] \notin {"start", "done"}

\* Mutant: the ticker fires as soon as it is made.
BeginAtOnce(r) ==
  /\ pc[r] = "start"
  /\ LET first == effectiveInterval(r, now)
     IN  /\ current' = [current EXCEPT ![r] = first]
         /\ due' = [due EXCEPT ![r] = now + first]
  /\ tick' = [tick EXCEPT ![r] = TRUE]
  /\ pc' = [pc EXCEPT ![r] = "select"]
  /\ UNCHANGED <<prompt, now, cancelled, inflight, emitted>>

\* The goroutine makes its ticker, at the interval in force by then.
Begin(r) ==
  /\ pc[r] = "start"
  /\ LET first == effectiveInterval(r, now)
     IN  /\ current' = [current EXCEPT ![r] = first]
         /\ due' = [due EXCEPT ![r] = now + first]
  /\ pc' = [pc EXCEPT ![r] = "select"]
  /\ UNCHANGED <<prompt, now, cancelled, tick, inflight, emitted>>

\* It receives a tick, even if the context is done as well: select takes
\* either. An emission starts in a goroutine of its own.
Receive(r) ==
  /\ pc[r] = "select" /\ tick[r] /\ inflight[r] < MaxInflight
  /\ tick' = [tick EXCEPT ![r] = FALSE]
  /\ inflight' = [inflight EXCEPT ![r] = @ + 1]
  /\ emitted' = [emitted EXCEPT ![r] = @ + 1]
  /\ pc' = [pc EXCEPT ![r] = "adjust"]
  /\ UNCHANGED <<prompt, now, cancelled, current, due>>

\* Mutant: the ticker is set faster when a surge opens, never back.
AdjustFasterOnly(r) ==
  /\ pc[r] = "adjust"
  /\ LET next == effectiveInterval(r, now)
     IN  IF next < current[r]
         THEN /\ current' = [current EXCEPT ![r] = next]
              /\ due' = [due EXCEPT ![r] = now + next]
              /\ tick' = [tick EXCEPT ![r] = FALSE]
         ELSE UNCHANGED <<current, due, tick>>
  /\ pc' = [pc EXCEPT ![r] = "select"]
  /\ UNCHANGED <<prompt, now, cancelled, inflight, emitted>>

\* The ticker is reset when a surge has opened or closed since the last tick.
Adjust(r) ==
  /\ pc[r] = "adjust"
  /\ LET next == effectiveInterval(r, now)
     IN  IF next # current[r]
         THEN /\ current' = [current EXCEPT ![r] = next]
              /\ due' = [due EXCEPT ![r] = now + next]
              /\ tick' = [tick EXCEPT ![r] = FALSE]
         ELSE UNCHANGED <<current, due, tick>>
  /\ pc' = [pc EXCEPT ![r] = "select"]
  /\ UNCHANGED <<prompt, now, cancelled, inflight, emitted>>

\* The context is done: the loop is left.
Stop(r) ==
  /\ pc[r] = "select" /\ cancelled
  /\ pc' = [pc EXCEPT ![r] = "drain"]
  /\ UNCHANGED <<prompt, now, cancelled, current, due, tick, inflight, emitted>>

\* Mutant: nothing waits for the emissions in progress.
DrainNothing(r) ==
  /\ pc[r] = "drain"
  /\ pc' = [pc EXCEPT ![r] = "done"] /\ tick' = [tick EXCEPT ![r] = FALSE]
  /\ UNCHANGED <<prompt, now, cancelled, current, due, inflight, emitted>>

\* The deferred calls: emissions in progress are waited for, then the ticker
\* is stopped.
Drain(r) ==
  /\ pc[r] = "drain" /\ inflight[r] = 0
  /\ pc' = [pc EXCEPT ![r] = "done"] /\ tick' = [tick EXCEPT ![r] = FALSE]
  /\ UNCHANGED <<prompt, now, cancelled, current, due, inflight, emitted>>

\* An emission returns; whatever happens in it, EmitTrace recovers.
Finish(r) ==
  /\ inflight[r] > 0
  /\ inflight' = [inflight EXCEPT ![r] = @ - 1]
  /\ UNCHANGED <<prompt, now, cancelled, pc, current, due, tick, emitted>>

-----------------------------------------------------------------------------
(* Around them *)

\* A signal, or the end of the configured duration.
Cancel ==
  /\ ~cancelled /\ cancelled' = TRUE
  /\ UNCHANGED <<prompt, now, pc, current, due, tick, inflight, emitted>>

\* A unit of time passes, and the tickers that are due fire. With prompt
\* goroutines none has anything left to do at the old time.
Pass ==
  /\ now < MaxTime /\ now' = now + 1
  /\ prompt => \A r \in Root :
       /\ pc[r] \notin {"start", "adjust"}
       /\ ~(pc[r] = "select" /\ (tick[r] \/ cancelled))
       /\ ~(pc[r] = "drain" /\ inflight[r] = 0)
  /\ LET fires(r) == Ticking(r) /\ due[r] = now + 1
     IN  /\ tick' = [r \in Root |-> tick[r] \/ fires(r)]
         /\ due' = [r \in Root |-> IF fires(r) THEN due[r] + current[r] ELSE due[r]]
  /\ UNCHANGED <<prompt, cancelled, pc, current, inflight, emitted>>

\* Run's WaitGroup: every route's goroutine is back.
Returned == \A r \in Root : pc[r] = "done"

RouteStep(r) == Begin(r) \/ Receive(r) \/ Adjust(r) \/ Stop(r) \/ Drain(r)

\* Nothing more happens: Run has returned, or the clock is at its bound.
Halted == Returned /\ UNCHANGED vars

Next ==
  \/ \E r \in Root : RouteStep(r) \/ Finish(r)
  \/ Cancel \/ Pass
  \/ Halted

(***************************************************************************)
(* Runnable goroutines run, emissions end, and select, which chooses at    *)
(* random, does not pass over a done context for ever. Nothing makes the   *)
(* context end.                                                            *)
(***************************************************************************)
Fairness ==
  \A r \in Root :
    WF_vars(RouteStep(r)) /\ SF_vars(Stop(r)) /\ WF_vars(Finish(r))

Spec == Init /\ [][Next]_vars /\ Fairness

-----------------------------------------------------------------------------
(* What the scheduler promises *)

\* No emission outlives its route's goroutine, so none outlives Run.
NothingOutlivesRun == \A r \in Root : pc[r] = "done" => inflight[r] = 0

\* No surges, alone or compounded, bring a ticker's interval under the floor:
\* NewTicker and Reset panic at zero.
TickerAboveFloor ==
  \A r \in Root : pc[r] # "start" => current[r] >= MinInterval

\* The shortest interval a route's rate and surges allow.
Quickest(r) ==
  CHOOSE i \in {effectiveInterval(r, t) : t \in 0..MaxTime} :
    \A t \in 0..MaxTime : i <= effectiveInterval(r, t)

\* However late its goroutine is, and however often its ticker is reset, a
\* route never emits more than its fastest legal rate makes of the time gone.
NeverTooMany == \A r \in Root : emitted[r] * Quickest(r) <= now

\* Without delays of the machine's making, the interval a ticker runs at was
\* right at most one such interval ago: an opened or closed window is noticed
\* at the next tick.
NoticedWithinOneTick ==
  \A r \in Root : prompt /\ pc[r] = "select" =>
    \E t \in 0..now : now - t <= current[r] /\ current[r] = effectiveInterval(r, t)

\* README.md:206, "surges multiply a route's rate for durationSeconds every
\* everyMinutes": without delays of the machine's making, a route runs at the
\* multiplied rate by the last moment of a window.
WindowTakesEffect ==
  \A r \in Root : \A i \in 1..Len(Surges) :
    /\ prompt /\ pc[r] = "select" /\ ~tick[r] /\ surgeApplies(Surges[i], r)
    /\ Open(Surges[i], now) /\ ~Open(Surges[i], now + 1)
    => current[r] = effectiveInterval(r, now)

=============================================================================
