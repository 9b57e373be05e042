------------------------------ MODULE CycleCheck ------------------------------
(***************************************************************************)
(* The last two passes of config.ValidateWithWarnings over a topology      *)
(* whose references already resolve: detectCycles, the depth-first search  *)
(* that keeps a cyclic call graph from ever being emitted, and             *)
(* unreachableServices, which warns of services nothing calls.             *)
(*                                                                         *)
(* The topology is an input: it is chosen by Init and never changes.       *)
(* Service names are numbers, so that sort.Strings on the keys of a        *)
(* downstreamCalls map is the order of the numbers.                        *)
(***************************************************************************)
EXTENDS Integers, Sequences, FiniteSets

CONSTANTS
  Service,      \* service names
  Route,        \* route names; every service declares every route
  RootLists     \* the rootRoutes lists considered

ServicesAreNames == Service \subseteq Nat

Node == Service \X Route     \* one (service, route) pair of the call graph

ASSUME ServiceAssumption  == ServicesAreNames
ASSUME RootListAssumption == RootLists \subseteq Seq(Node)

\* A downstreamCalls map: at most one route of each called service.
CallMap == UNION {[D -> Route] : D \in SUBSET Service}

VARIABLES
  calls,        \* downstreamCalls of every route
  roots,        \* rootRoutes
  phase,        \* which loop is running, and the verdict
  next,         \* index into roots of the next root to visit
  mark,         \* detectCycles' state map
  stack,        \* detectCycles' stack slice; also the recursion's frames
  left,         \* for each node, the sorted keys its frame has yet to visit
  cycle,        \* the path in the error, <<>> when there is none
  visited,      \* unreachableServices' visited map
  todo          \* nodes unreachableServices has been asked to visit

detectVars == <<next, mark, stack, left, cycle>>
surveyVars == <<visited, todo>>
vars == <<calls, roots, phase, detectVars, surveyVars>>

Marks == {"unvisited", "onStack", "done"}

TypeOK ==
  /\ calls \in [Node -> CallMap]
  /\ roots \in Seq(Node)
  /\ phase \in {"detect", "cycle", "survey", "done"}
  /\ next \in Nat \ {0}
  /\ mark \in [Node -> Marks]
  /\ stack \in Seq(Node)
  /\ left \in [Node -> SUBSET Service]
  /\ cycle \in Seq(Node)
  /\ visited \in SUBSET Node
  /\ todo \in SUBSET Node

RootSet == {roots[i] : i \in 1..Len(roots)}
Target(n, s) == <<s, calls[n][s]>>
Callees(n) == {Target(n, s) : s \in DOMAIN calls[n]}

Init ==
  /\ calls \in [Node -> CallMap]
  /\ roots \in RootLists
  /\ phase = "detect"
  /\ next = 1
  /\ mark = [n \in Node |-> "unvisited"]
  /\ stack = <<>>
  /\ left = [n \in Node |-> DOMAIN calls[n]]
  /\ cycle = <<>>
  /\ visited = {}
  /\ todo = {}

-----------------------------------------------------------------------------
(* detectCycles *)

\* Mutant: the path of the error starts at the bottom of the stack.
FormatWholeStack(n) == Append(stack, n)

\* formatCycle: the stack from the first occurrence of the repeated node on.
FormatCycle(n) ==
  LET start == CHOOSE i \in 1..Len(stack) :
                 stack[i] = n /\ \A j \in 1..(i - 1) : stack[j] # n
  IN  Append(SubSeq(stack, start, Len(stack)), n)

\* The three cases of visit(n): a node on the stack closes a cycle, a node
\* that is done is not walked again, an unvisited one gets a frame.
CloseCycle(n) ==
  /\ mark[n] = "onStack"
  /\ phase' = "cycle"
  /\ cycle' = FormatCycle(n)
  /\ UNCHANGED <<mark, stack>>

SkipDone(n) ==
  /\ mark[n] = "done"
  /\ UNCHANGED <<phase, mark, stack, cycle>>

Push(n) ==
  /\ mark[n] = "unvisited"
  /\ mark' = [mark EXCEPT ![n] = "onStack"]
  /\ stack' = Append(stack, n)
  /\ UNCHANGED <<phase, cycle>>

\* Mutant: visit treats a node that is still on the stack as done.
VisitForgetsStack(n) ==
  \/ /\ mark[n] # "unvisited"
     /\ UNCHANGED <<phase, mark, stack, cycle>>
  \/ Push(n)

Visit(n) == CloseCycle(n) \/ SkipDone(n) \/ Push(n)

\* Mutant: the loop over the root routes never advances.
VisitSameRoot ==
  /\ phase = "detect" /\ stack = <<>>
  /\ next <= Len(roots)
  /\ Visit(roots[next])
  /\ UNCHANGED <<calls, roots, next, left, surveyVars>>

\* The loop over f.RootRoutes calls visit on the next root.
VisitRoot ==
  /\ phase = "detect" /\ stack = <<>>
  /\ next <= Len(roots)
  /\ Visit(roots[next])
  /\ next' = next + 1
  /\ UNCHANGED <<calls, roots, left, surveyVars>>

\* The topmost frame calls visit on the target of its smallest unvisited key.
VisitCallee ==
  /\ phase = "detect" /\ stack # <<>>
  /\ LET n == stack[Len(stack)]
     IN  \E s \in left[n] :
           /\ \A k \in left[n] : s <= k
           /\ Visit(Target(n, s))
           /\ left' = [left EXCEPT ![n] = @ \ {s}]
  /\ UNCHANGED <<calls, roots, next, surveyVars>>

\* The topmost frame has visited all its keys: pop it and mark it done.
Leave ==
  /\ phase = "detect" /\ stack # <<>>
  /\ LET n == stack[Len(stack)]
     IN  /\ left[n] = {}
         /\ mark' = [mark EXCEPT ![n] = "done"]
  /\ stack' = SubSeq(stack, 1, Len(stack) - 1)
  /\ UNCHANGED <<calls, roots, phase, next, left, cycle, surveyVars>>

\* Every root is visited: detectCycles returns nil, and unreachableServices
\* starts its own walk from the roots.
Accept ==
  /\ phase = "detect" /\ stack = <<>>
  /\ next > Len(roots)
  /\ phase' = "survey"
  /\ todo' = RootSet
  /\ UNCHANGED <<calls, roots, detectVars, visited>>

-----------------------------------------------------------------------------
(* unreachableServices *)

\* Mutant: the survey does not follow the calls of the routes it visits.
SurveyRootsOnly(n) ==
  /\ phase = "survey" /\ n \in todo
  /\ visited' = visited \cup {n}
  /\ todo' = todo \ visited'
  /\ UNCHANGED <<calls, roots, phase, detectVars>>

\* visit(n). Go's map iteration order is random, so the next node is any one
\* whose visit is pending.
Survey(n) ==
  /\ phase = "survey" /\ n \in todo
  /\ visited' = visited \cup {n}
  /\ todo' = (todo \cup Callees(n)) \ visited'
  /\ UNCHANGED <<calls, roots, phase, detectVars>>

\* No visit is pending: the warnings are returned with a nil error.
Return ==
  /\ phase = "survey" /\ todo = {}
  /\ phase' = "done"
  /\ UNCHANGED <<calls, roots, detectVars, surveyVars>>

\* The services unreachableServices warns about.
Warned == {s \in Service : \A r \in Route : <<s, r>> \notin visited}

-----------------------------------------------------------------------------

Finished == phase \in {"cycle", "done"} /\ UNCHANGED vars

Next ==
  \/ VisitRoot
  \/ VisitCallee
  \/ Leave
  \/ Accept
  \/ \E n \in Node : Survey(n)
  \/ Return
  \/ Finished

Spec == Init /\ [][Next]_vars

-----------------------------------------------------------------------------
(* What the two passes promise *)

\* The nodes a walk from the root routes gets to, without a recursion: those
\* in every set that holds the roots and is closed under calls.
Closed(S) == RootSet \subseteq S /\ \A n \in S : Callees(n) \subseteq S
Reachable == {n \in Node : \A S \in SUBSET Node : Closed(S) => n \in S}

\* No set of routes in S can pass a request around for ever: each nonempty
\* one has a member that calls nothing inside it. For a finite S this is the
\* absence of cycles.
Acyclic(S) ==
  \A C \in SUBSET S : C # {} => \E n \in C : Callees(n) \cap C = {}

\* A topology that validation accepts has no cycle that an emission started
\* at a root route could ever walk into (spec C4, engine.EmitTrace recurses
\* without any check of its own).
AcceptedHasNoCycle == phase \in {"survey", "done"} => Acyclic(Reachable)

\* A rejection is never spurious: the path the error prints is a cycle of the
\* call graph, each hop a declared call, and a root route reaches it.
ReportedCycleIsReal ==
  phase = "cycle" =>
    /\ Len(cycle) > 1
    /\ cycle[1] = cycle[Len(cycle)]
    /\ \A i \in 1..(Len(cycle) - 1) :
         /\ cycle[i] \in Reachable
         /\ cycle[i + 1] \in Callees(cycle[i])

\* When validation returns, a service is warned about exactly when no root
\* route reaches any of its routes, so a service without a warning does emit.
WarnsExactlyUnreachable ==
  phase = "done" =>
    Warned = {s \in Service : \A r \in Route : <<s, r>> \notin Reachable}

=============================================================================
