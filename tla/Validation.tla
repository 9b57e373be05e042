------------------------------ MODULE Validation ------------------------------
(***************************************************************************)
(* config.ValidateWithWarnings from its first rule to its verdict, over a  *)
(* decoded topology: the fields of services and routes, references, root   *)
(* routes, the search for cycles (CycleCheck), surges, and the survey      *)
(* (CycleCheck again); and what the run then does with the fields.         *)
(*                                                                         *)
(* The call maps and the root routes are CycleCheck's inputs; Service and  *)
(* Route are the names a document may use, declared or not. 0 and NoRoute  *)
(* are empty names. Each pass is one step: no pass leaves a trace but its  *)
(* verdict. Left out: which error comes first within a pass, the warning   *)
(* on sums of weights, and an outlierRate outside [0, 1).                  *)
(***************************************************************************)
EXTENDS CycleCheck, Sampling

CONSTANTS
  NoRoute,          \* the empty route name
  SecondsPerMinute, \* 60
  Documents         \* records services, rates, surges, and sets of calls and roots

ASSUME NoRouteAssumption == NoRoute \notin Route /\ 0 \notin Service

\* What a decoded document declares; of a set there is its weight.
MetricDecl == [name : STRING, kind : STRING, min : Int, max : Int]
LatencyDecl == [p50 : Int, p99 : Int, rate : BOOLEAN, multiplier : Int]
RouteDecl ==
  [name : Route \cup {NoRoute}, spanKind : STRING, latency : LatencyDecl,
   sets : Seq(Int), events : Seq(Int), business : Seq(MetricDecl)]
ServiceDecl ==
  [name : Service \cup {0}, instances : Seq(STRING), sets : Seq(Int), events : Seq(Int),
   routes : Seq(RouteDecl)]
SurgeDecl ==
  [everyMinutes : Int, durationSeconds : Int, multiplier : Int, routes : SUBSET Route]

ASSUME DocumentAssumption ==
  /\ SecondsPerMinute \in Nat \ {0}
  /\ \A d \in Documents :
       d.services \in Seq(ServiceDecl) /\ d.rates \in Seq(Int) /\ d.surges \in Seq(SurgeDecl)

VARIABLES
  services,     \* the declared services, a sequence
  rates,        \* tracesPerHour of each root route
  surges,       \* a sequence
  stage         \* the pass that runs, or the verdict

document == <<services, rates, surges>>
allVars == <<vars, document, stage>>

ValidationInit ==
  /\ \E d \in Documents :
       /\ services = d.services /\ rates = d.rates /\ surges = d.surges
       /\ calls \in d.calls /\ roots \in d.roots
  /\ Init
  /\ stage = "services"

-----------------------------------------------------------------------------
(* Lookups *)

FindService(name) == SelectInSeq(services, LAMBDA s : s.name = name)
FindRoute(s, name) == SelectInSeq(s.routes, LAMBDA r : r.name = name)

Resolves(n) ==
  FindService(n[1]) # 0 /\ FindRoute(services[FindService(n[1])], n[2]) # 0

-----------------------------------------------------------------------------
(* The rules *)

\* No element of the list has the name of an earlier one, or none.
Named(list, empty) ==
  \A i \in DOMAIN list : list[i].name # empty /\ \A j \in 1..(i - 1) : list[j].name # list[i].name

ValidBusiness(b) ==
  /\ b.name # ""
  /\ b.kind \in {"counter", "histogram"}
  /\ b.kind = "histogram" => b.max >= b.min

ValidRoute(r) ==
  /\ r.spanKind \in {"", "internal", "server", "client", "producer", "consumer"}
  /\ ValidLatency(r.latency)
  /\ ValidWeights(r.sets) /\ ValidWeights(r.events)
  /\ \A k \in DOMAIN r.business : ValidBusiness(r.business[k])

ValidService(s) ==
  /\ s.instances # <<>> /\ \A k \in DOMAIN s.instances : s.instances[k] # ""
  /\ s.routes # <<>>
  /\ ValidWeights(s.sets) /\ ValidWeights(s.events)
  /\ Named(s.routes, NoRoute) /\ \A j \in DOMAIN s.routes : ValidRoute(s.routes[j])

\* Mutant: a window may be as long as its period.
SurgeMayFillPeriod(g) ==
  /\ g.everyMinutes > 0 /\ g.durationSeconds > 0 /\ g.multiplier >= 1
  /\ g.durationSeconds <= g.everyMinutes * SecondsPerMinute
  /\ \A name \in g.routes : \E n \in RootSet : n[2] = name

ValidSurge(g) ==
  /\ g.everyMinutes > 0 /\ g.durationSeconds > 0 /\ g.multiplier >= 1
  /\ g.durationSeconds < g.everyMinutes * SecondsPerMinute
  /\ \A name \in g.routes : \E n \in RootSet : n[2] = name

-----------------------------------------------------------------------------
(* The passes *)

Pass(from, to, ok) == stage = from /\ stage' = (IF ok THEN to ELSE "rejected")

CheckServices ==
  /\ Pass("services", "references",
       /\ services # <<>> /\ roots # <<>>
       /\ Named(services, 0) /\ \A i \in DOMAIN services : ValidService(services[i]))
  /\ UNCHANGED <<vars, document>>

ResolveReferences ==
  /\ Pass("references", "roots",
       \A n \in Node : Resolves(n) => \A s \in DOMAIN calls[n] : Resolves(Target(n, s)))
  /\ UNCHANGED <<vars, document>>

CheckRoots ==
  /\ Pass("roots", "graph", \A i \in DOMAIN roots : Resolves(roots[i]) /\ rates[i] > 0)
  /\ UNCHANGED <<vars, document>>

DetectCycles ==
  /\ stage = "graph"
  /\ VisitRoot \/ VisitCallee \/ Leave \/ Accept
  /\ stage' = CASE phase' = "cycle" -> "rejected" [] phase' = "survey" -> "surges" [] OTHER -> "graph"
  /\ UNCHANGED document

CheckSurges ==
  /\ Pass("surges", "survey", \A i \in DOMAIN surges : ValidSurge(surges[i]))
  /\ UNCHANGED <<vars, document>>

FindUnreachable ==
  /\ stage = "survey"
  /\ Return \/ \E n \in Node : Survey(n)
  /\ stage' = IF phase' = "done" THEN "accepted" ELSE "survey"
  /\ UNCHANGED document

Validated == stage \in {"accepted", "rejected"} /\ UNCHANGED allVars

ValidationNext ==
  \/ CheckServices \/ ResolveReferences \/ CheckRoots \/ DetectCycles
  \/ CheckSurges \/ FindUnreachable \/ Validated

\* Validation runs in one goroutine, which is never blocked.
ValidationSpec == ValidationInit /\ [][ValidationNext]_allVars /\ WF_allVars(ValidationNext)

-----------------------------------------------------------------------------
(* What the run does with the fields *)

\* sampleInRange, over whole numbers.
SampleInRange(min, max) ==
  IF max > min THEN min..max ELSE IF min > 0 THEN {min} ELSE {1}

\* recordBusinessMetrics has a case for these kinds.
Recorded == {"counter", "histogram"}

\* multiplierAt: whether the window is open so many seconds after the start.
WindowOpen(g, since) ==
  LET period == g.everyMinutes * SecondsPerMinute
  IN  period > 0 /\ since % period < g.durationSeconds

-----------------------------------------------------------------------------
(* What acceptance promises *)

\* A draw from a list that is not empty finds an element of positive weight.
Drawable(weights) ==
  weights # <<>> => \A i \in PickWeighted(weights) : i > 0 /\ weights[i] > 0

\* The emission of a call gets through: EmitTrace finds service and route and
\* returns early nowhere, every draw has an outcome, every metric a value.
Emittable(n) ==
  /\ Resolves(n)
  /\ LET s == services[FindService(n[1])]
         r == s.routes[FindRoute(s, n[2])]
     IN  /\ s.instances # <<>>
         /\ Drawable(s.sets) /\ Drawable(s.events) /\ Drawable(r.sets) /\ Drawable(r.events)
         /\ \A half \in {"lower", "upper"} : Draws(r.latency, half) # {}
         /\ \A k \in DOMAIN r.business :
              LET b == r.business[k]
              IN  b.kind \in Recorded /\ (b.kind = "histogram" /\ b.min < b.max =>
                    SampleInRange(b.min, b.max) \subseteq b.min..b.max)

\* An accepted topology meets what the run takes for granted: every call that a
\* root route leads to can be emitted, no two services share an emitter, every
\* root route has traffic, and every surge opens and closes in each period, for
\* some root route.
AcceptedIsRunnable ==
  stage = "accepted" =>
    /\ \A n \in Reachable : Emittable(n)
    /\ \A i, j \in DOMAIN services : services[i].name = services[j].name => i = j
    /\ RootSet # {} /\ \A i \in DOMAIN roots : rates[i] > 0
    /\ \A i \in DOMAIN surges :
         LET g == surges[i]
             period == 0..(g.everyMinutes * SecondsPerMinute - 1)
         IN  /\ \E t \in period : WindowOpen(g, t)
             /\ \E t \in period : ~WindowOpen(g, t)
             /\ g.routes = {} \/ \E n \in RootSet : n[2] \in g.routes

\* Validation of any document returns, whatever its graph.
Returns == <>(stage \in {"accepted", "rejected"})

=============================================================================
