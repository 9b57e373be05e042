-------------------------------- MODULE Timing --------------------------------
(***************************************************************************)
(* The two timing modes of EmitTrace over a discrete clock: synthetic      *)
(* spans are given an end time at once, nested ones sleep until their      *)
(* sampled latency is over. It is the time that Emission leaves out.       *)
(*                                                                         *)
(* A run of the model is prompt if every goroutine acts before time goes   *)
(* on, so that time passes in sleeps only; else it acts as late as it      *)
(* likes. Left out: panics, and what a span carries.                       *)
(***************************************************************************)
EXTENDS Integers, Sequences, FiniteSetsExt

CONSTANTS
  Call,         \* invocations of EmitTrace, as in Emission
  Runs,         \* runs considered: whether prompt, and the calls the ticks make, in order
  Children,     \* Children[c]: those the fan-out of c makes
  Latency,      \* what SampleLatencyMillis may draw
  Interval,     \* between two ticks
  MaxTime       \* bound: when the clock stops

ASSUME TimeAssumption ==
  /\ Latency \subseteq Nat \ {0} /\ Interval \in Nat \ {0} /\ MaxTime \in Nat
  /\ \E longest \in Latency : \A l \in Latency : l <= longest

\* Each invocation is made by one fan-out, or by a tick, and as no cycle passes
\* validation, some invocation of any makes none of them.
ASSUME CallAssumption ==
  /\ Children \in [Call -> SUBSET Call]
  /\ \A c, d \in Call : c # d => Children[c] \cap Children[d] = {}
  /\ \A S \in SUBSET Call : S # {} => \E c \in S : Children[c] \cap S = {}

ASSUME RunAssumption ==
  /\ Runs \subseteq BOOLEAN \X Seq(Call)
  /\ \A run \in Runs : \A i \in DOMAIN run[2] : \A c \in Call : run[2][i] \notin Children[c]

VARIABLES
  mode,         \* input: --timing
  prompt, roots,\* inputs: a member of Runs
  now,          \* the clock
  ticks,        \* ticks the route has had
  pc,           \* idle, ready, running, waiting, sleeping or done
  start,        \* time.Now() at the start of each call
  sample,       \* its durationMillis
  wake,         \* when its sleep ends
  end           \* the end timestamp of its span

inputs == <<mode, prompt, roots>>
vars == <<inputs, now, ticks, pc, start, sample, wake, end>>

TypeOK ==
  /\ mode \in {"synthetic", "nested"} /\ <<prompt, roots>> \in Runs
  /\ now \in Nat /\ ticks \in Nat
  /\ pc \in [Call -> {"idle", "ready", "running", "waiting", "sleeping", "done"}]
  /\ start \in [Call -> Nat] /\ sample \in [Call -> Nat]
  /\ wake \in [Call -> Nat] /\ end \in [Call -> Nat]

Init ==
  /\ mode \in {"synthetic", "nested"} /\ \E run \in Runs : prompt = run[1] /\ roots = run[2]
  /\ now = 0 /\ ticks = 0
  /\ pc = [c \in Call |-> "idle"]
  /\ start = [c \in Call |-> 0] /\ sample = [c \in Call |-> 0]
  /\ wake = [c \in Call |-> 0] /\ end = [c \in Call |-> 0]

Goto(c, from, to) == pc[c] = from /\ pc' = [pc EXCEPT ![c] = to]

\* runRoute takes a tick and starts an emission.
Tick ==
  /\ ticks < Len(roots) /\ now >= Interval * (ticks + 1)
  /\ ticks' = ticks + 1 /\ Goto(roots[ticks + 1], "idle", "ready")
  /\ UNCHANGED <<inputs, now, start, sample, wake, end>>

Begin(c) ==
  /\ Goto(c, "ready", "running")
  /\ start' = [start EXCEPT ![c] = now]
  /\ UNCHANGED <<inputs, now, ticks, sample, wake, end>>

\* The latency is sampled, then the fan-out starts a goroutine per callee.
FanOut(c) ==
  /\ pc[c] = "running"
  /\ pc' = [d \in Call |-> IF d = c THEN "waiting" ELSE IF d \in Children[c] THEN "ready" ELSE pc[d]]
  /\ \E l \in Latency : sample' = [sample EXCEPT ![c] = l]
  /\ UNCHANGED <<inputs, now, ticks, start, wake, end>>

\* Mutant: the fan-out does not wait.
JoinedAtOnce(c) == TRUE

\* wg.Wait has returned.
Joined(c) == \A d \in Children[c] : pc[d] = "done"

\* Mutant: the sleep takes no account of the time the callees took.
WholeSample(c) == now + sample[c]

\* When the sleep of the remainder ends; at once, if nothing remains.
Remainder(c) == Max({now, start[c] + sample[c]})

\* Mutant: both modes sleep.
SleepsAlways == TRUE

Sleeps == mode = "nested"

Sleep(c) ==
  /\ Joined(c) /\ Sleeps /\ Goto(c, "waiting", "sleeping")
  /\ wake' = [wake EXCEPT ![c] = Remainder(c)]
  /\ UNCHANGED <<inputs, now, ticks, start, sample, end>>

EndNested(c) ==
  /\ now >= wake[c] /\ Goto(c, "sleeping", "done")
  /\ end' = [end EXCEPT ![c] = now]
  /\ UNCHANGED <<inputs, now, ticks, start, sample, wake>>

Computed(c) == start[c] + sample[c]

EndSynthetic(c) ==
  /\ Joined(c) /\ ~Sleeps /\ Goto(c, "waiting", "done")
  /\ end' = [end EXCEPT ![c] = Computed(c)]
  /\ UNCHANGED <<inputs, now, ticks, start, sample, wake>>

\* Something other than the clock can go on.
Runnable ==
  \/ ticks < Len(roots) /\ now >= Interval * (ticks + 1)
  \/ \E c \in Call :
       \/ pc[c] \in {"ready", "running"}
       \/ pc[c] = "waiting" /\ Joined(c)
       \/ pc[c] = "sleeping" /\ now >= wake[c]

Pass ==
  /\ now < MaxTime /\ (prompt => ~Runnable)
  /\ now' = now + 1
  /\ UNCHANGED <<inputs, ticks, pc, start, sample, wake, end>>

Over == now = MaxTime /\ UNCHANGED vars

Next ==
  \/ Tick \/ Pass \/ Over
  \/ \E c \in Call : Begin(c) \/ FanOut(c) \/ Sleep(c) \/ EndNested(c) \/ EndSynthetic(c)

Spec == Init /\ [][Next]_vars

-----------------------------------------------------------------------------
(* What the modes promise *)

Begun(c) == pc[c] \notin {"idle", "ready"}

\* A call and all it leads to.
Below[c \in Call] == {c} \cup UNION {Below[d] : d \in Children[c]}
LongestSample(c) == Max({sample[d] : d \in Below[c]})

\* engine.go:30, "children genuinely complete within their parent's window",
\* however late any goroutine is.
NestedSpansNest ==
  mode = "nested" => \A c \in Call : \A d \in Children[c] :
    /\ Begun(d) => start[c] <= start[d]
    /\ pc[c] = "done" => end[d] <= end[c]

\* A synthetic span lasts as long as was sampled for it. A nested one lasts
\* at least that long; nobody being late, as long as the largest sample of
\* the calls below it: sleeps of parent and callees overlap, they do not add.
\* So long, or no time at all, may an emission hold up the drain of a run whose
\* context is done, which no sleep looks at.
SpanLength ==
  \A c \in Call :
    /\ pc[c] = "done" =>
         LET length == end[c] - start[c]
         IN  IF mode = "synthetic" THEN length = sample[c]
             ELSE length >= sample[c] /\ (prompt => length = LongestSample(c))
    /\ prompt /\ Begun(c) /\ pc[c] # "done" =>
         now - start[c] <= (IF mode = "synthetic" THEN 0 ELSE LongestSample(c))

\* A route's emissions pile up no further than the largest latency lasts,
\* although runRoute never looks at how many are in progress.
BacklogIsBounded ==
  prompt =>
    Cardinality({i \in 1..ticks : pc[roots[i]] # "done"}) <=
      (IF mode = "nested" THEN Max(Latency) \div Interval ELSE 0) + 1

=============================================================================
