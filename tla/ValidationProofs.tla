--------------------------- MODULE ValidationProofs ---------------------------
(***************************************************************************)
(* Proofs about CycleCheck, for every set of services and routes, every    *)
(* topology and every list of root routes; and about the whole of          *)
(* Validation, which goes through the steps of CycleCheck and no others,   *)
(* and whose passes together make a document one that can be run.          *)
(***************************************************************************)
EXTENDS Validation, SamplingProofs, SequenceTheorems

DoneSet == {n \in Node : mark[n] = "done"}

(***************************************************************************)
(* The inductive invariant. The stack holds exactly the nodes marked       *)
(* onStack, once each, and is a path of calls; a key its frame has already *)
(* visited leads to a node that is done or is the next frame; a done node  *)
(* calls only done nodes, so no cycle can pass through one.                *)
(***************************************************************************)
StackInv ==
  /\ \A n \in Node : mark[n] = "onStack" <=> \E i \in 1..Len(stack) : stack[i] = n
  /\ \A i, j \in 1..Len(stack) : stack[i] = stack[j] => i = j
  /\ \A i \in 1..(Len(stack) - 1) : stack[i + 1] \in Callees(stack[i])

KeyInv ==
  /\ \A n \in Node : left[n] \subseteq DOMAIN calls[n]
  /\ \A n \in Node : mark[n] = "unvisited" => left[n] = DOMAIN calls[n]
  /\ phase # "cycle" =>
       \A i \in 1..Len(stack) : \A s \in DOMAIN calls[stack[i]] \ left[stack[i]] :
         \/ Target(stack[i], s) \in DoneSet
         \/ i < Len(stack) /\ stack[i + 1] = Target(stack[i], s)

DoneInv ==
  /\ \A n \in DoneSet : Callees(n) \subseteq DoneSet
  /\ Acyclic(DoneSet)

RootInv ==
  /\ phase # "cycle" =>
       \A j \in 1..Len(roots) : j < next =>
         \/ roots[j] \in DoneSet
         \/ stack # <<>> /\ stack[1] = roots[j]
  /\ phase \in {"survey", "done"} => stack = <<>> /\ next > Len(roots)

ReachInv == \A n \in Node : mark[n] # "unvisited" => n \in Reachable

SurveyInv ==
  /\ phase \in {"survey", "done"} =>
       /\ RootSet \subseteq visited \cup todo
       /\ \A n \in visited : Callees(n) \subseteq visited \cup todo
       /\ visited \cup todo \subseteq Reachable
  /\ phase = "done" => todo = {}
  /\ phase = "detect" => visited = {}

CycleInv == ReportedCycleIsReal

IInv ==
  /\ TypeOK
  /\ StackInv
  /\ KeyInv
  /\ DoneInv
  /\ RootInv
  /\ ReachInv
  /\ SurveyInv
  /\ CycleInv

-----------------------------------------------------------------------------
(* Facts about the call graph *)

\* Roots and call targets are nodes: every reference resolves.
LEMMA CallsStayInGraph ==
  ASSUME TypeOK
  PROVE  /\ RootSet \subseteq Node
         /\ \A n \in Node : \A s \in DOMAIN calls[n] : Target(n, s) \in Node
         /\ \A n \in Node : Callees(n) \subseteq Node
<1>1. RootSet \subseteq Node
  BY DEF TypeOK, RootSet
<1>2. ASSUME NEW n \in Node, NEW s \in DOMAIN calls[n]
      PROVE  Target(n, s) \in Node
  <2>1. PICK D \in SUBSET Service : calls[n] \in [D -> Route]
    BY DEF TypeOK, CallMap
  <2>2. s \in Service /\ calls[n][s] \in Route
    BY <2>1
  <2> QED
    BY <2>2 DEF Target, Node
<1> QED
  BY <1>1, <1>2 DEF Callees

\* Reachable is the least set with the roots that is closed under calls.
LEMMA ReachableIsClosed ==
  ASSUME TypeOK
  PROVE  /\ Reachable \subseteq Node
         /\ RootSet \subseteq Reachable
         /\ \A n \in Reachable : Callees(n) \subseteq Reachable
         /\ \A S \in SUBSET Node : Closed(S) => Reachable \subseteq S
BY CallsStayInGraph DEF Reachable, Closed

\* Adding a node that calls only members of a closed acyclic set, and is not
\* itself a member, keeps the set acyclic.
LEMMA AcyclicGrows ==
  ASSUME NEW S, NEW n, n \notin S,
         Acyclic(S), Callees(n) \subseteq S,
         \A m \in S : Callees(m) \subseteq S
  PROVE  Acyclic(S \cup {n})
<1> SUFFICES ASSUME NEW C \in SUBSET (S \cup {n}), C # {}
             PROVE  \E m \in C : Callees(m) \cap C = {}
  BY DEF Acyclic
<1>1. CASE n \notin C
  BY <1>1 DEF Acyclic
<1>2. CASE C = {n}
  BY <1>2
<1>3. CASE n \in C /\ C # {n}
  <2> DEFINE B == C \ {n}
  <2>1. B \in SUBSET S /\ B # {}
    BY <1>3
  <2>2. PICK m \in B : Callees(m) \cap B = {}
    BY <2>1 DEF Acyclic
  <2>3. Callees(m) \cap C = {}
    BY <2>1, <2>2
  <2> QED
    BY <2>3
<1> QED
  BY <1>1, <1>2, <1>3

\* Dropping the last element of a sequence that is not empty.
LEMMA FrontProperties ==
  ASSUME NEW S, NEW x \in Seq(S), Len(x) >= 1
  PROVE  /\ SubSeq(x, 1, Len(x) - 1) \in Seq(S)
         /\ Len(SubSeq(x, 1, Len(x) - 1)) = Len(x) - 1
         /\ \A i \in 1..(Len(x) - 1) : SubSeq(x, 1, Len(x) - 1)[i] = x[i]
<1> DEFINE y == SubSeq(x, 1, Len(x) - 1)
<1>1. y \in Seq(S) /\ \A i \in 1..(Len(x) - 1) : y[i] = x[i]
  OBVIOUS
<1>2. Len(y) = IF 1 <= Len(x) - 1 THEN Len(x) - 1 - 1 + 1 ELSE 0
  BY SubSeqProperties
<1>3. ASSUME NEW n \in Nat, n >= 1, NEW m, m = IF 1 <= n - 1 THEN n - 1 - 1 + 1 ELSE 0
      PROVE  m = n - 1
  BY <1>3
<1>4. Len(x) \in Nat
  OBVIOUS
<1>5. Len(y) = Len(x) - 1
  <2> HIDE DEF y
  <2> QED
    BY <1>2, <1>3, <1>4, Zenon
<1> QED
  BY <1>1, <1>5

\* The input never changes, so neither does what it determines.
LEMMA GraphIsConstant ==
  ASSUME calls' = calls, roots' = roots
  PROVE  /\ RootSet' = RootSet
         /\ \A n : Callees(n)' = Callees(n)
         /\ \A n, s : Target(n, s)' = Target(n, s)
         /\ Reachable' = Reachable
BY DEF RootSet, Callees, Target, Reachable, Closed

\* Before the first visit nothing is marked.
LEMMA InitInv == Init => IInv
<1> SUFFICES ASSUME Init PROVE IInv
  OBVIOUS
<1>1. TypeOK
  <2>1. \A n \in Node : DOMAIN calls[n] \in SUBSET Service
    BY DEF Init, CallMap
  <2> QED
    BY <2>1, RootListAssumption DEF Init, TypeOK, Marks
<1>2. StackInv /\ KeyInv /\ ReachInv /\ SurveyInv /\ CycleInv
  BY DEF Init, StackInv, KeyInv, ReachInv, SurveyInv, CycleInv, ReportedCycleIsReal
<1>3. DoneInv
  <2>1. DoneSet = {}
    BY DEF Init, DoneSet
  <2> QED
    BY <2>1 DEF DoneInv, Acyclic
<1>4. RootInv
  BY <1>1 DEF Init, RootInv, TypeOK
<1> QED
  BY <1>1, <1>2, <1>3, <1>4 DEF IInv


-----------------------------------------------------------------------------
(* One lemma per action: the step preserves the invariant *)

\* A visit of a root keeps the types.
LEMMA VisitRootType ==
  ASSUME IInv, VisitRoot PROVE TypeOK'
<1>1. roots[next] \in Node
  BY DEF IInv, TypeOK, VisitRoot
<1>2. CASE CloseCycle(roots[next])
  <2>1. FALSE
    BY <1>1, <1>2 DEF IInv, StackInv, CloseCycle, VisitRoot
  <2> QED
    BY <2>1
<1>3. CASE SkipDone(roots[next])
  BY <1>3 DEF IInv, TypeOK, VisitRoot, SkipDone, surveyVars
<1>4. CASE Push(roots[next])
  BY <1>1, <1>4 DEF IInv, TypeOK, Marks, VisitRoot, Push, surveyVars
<1> QED
  BY <1>2, <1>3, <1>4 DEF VisitRoot, Visit

\* A visit of a root starts a walk at an empty stack.
LEMMA VisitRootInv ==
  ASSUME IInv, VisitRoot PROVE IInv'
<1> DEFINE n == roots[next]
<1>1. TypeOK'
  BY VisitRootType
<1>2. /\ n \in RootSet
      /\ n \in Node
      /\ n \in Reachable
      /\ phase = "detect" /\ stack = <<>> /\ next' = next + 1
      /\ calls' = calls /\ roots' = roots /\ left' = left
      /\ visited' = visited /\ todo' = todo
  BY ReachableIsClosed DEF IInv, TypeOK, VisitRoot, surveyVars, RootSet
<1>3. /\ Reachable' = Reachable
      /\ \A m : Callees(m)' = Callees(m)
      /\ \A m, s : Target(m, s)' = Target(m, s)
  BY <1>2, GraphIsConstant
<1>4. CASE SkipDone(n)
  <2>1. phase' = phase /\ mark' = mark /\ stack' = stack /\ cycle' = cycle
    BY <1>4 DEF SkipDone
  <2>2. DoneSet' = DoneSet /\ n \in DoneSet
    BY <1>2, <1>4, <2>1 DEF DoneSet, SkipDone
  <2>3. StackInv' /\ KeyInv'
    BY <1>2, <1>3, <2>1, <2>2 DEF IInv, StackInv, KeyInv
  <2>4. DoneInv'
    BY <1>3, <2>2 DEF IInv, DoneInv, Acyclic
  <2>5. RootInv'
    BY <1>2, <2>1, <2>2 DEF IInv, RootInv, TypeOK
  <2>6. ReachInv' /\ SurveyInv' /\ CycleInv'
    BY <1>2, <1>3, <2>1 DEF IInv, ReachInv, SurveyInv, CycleInv, ReportedCycleIsReal
  <2> QED
    BY <1>1, <2>3, <2>4, <2>5, <2>6 DEF IInv
<1>5. CASE Push(n)
  <2>1. /\ phase' = phase /\ cycle' = cycle
        /\ mark[n] = "unvisited"
        /\ mark' = [mark EXCEPT ![n] = "onStack"]
        /\ stack' = <<n>>
    BY <1>2, <1>5 DEF Push
  <2>2. DoneSet' = DoneSet
    BY <1>2, <2>1 DEF DoneSet, IInv, TypeOK
  <2>3. /\ Len(stack') = 1
        /\ stack'[1] = n
        /\ \A i \in 1..Len(stack') : i = 1
    BY <1>2, <2>1
  <2>4. StackInv'
    BY <1>2, <2>1, <2>3 DEF IInv, StackInv, TypeOK
  <2>5. KeyInv'
    BY <1>2, <1>3, <2>1, <2>2, <2>3 DEF IInv, KeyInv, TypeOK
  <2>6. DoneInv'
    BY <1>3, <2>2 DEF IInv, DoneInv, Acyclic
  <2>7. RootInv'
    BY <1>2, <2>1, <2>2, <2>3 DEF IInv, RootInv, TypeOK
  <2>8. ReachInv' /\ SurveyInv' /\ CycleInv'
    BY <1>2, <1>3, <2>1
    DEF IInv, ReachInv, SurveyInv, CycleInv, ReportedCycleIsReal, TypeOK
  <2> QED
    BY <1>1, <2>4, <2>5, <2>6, <2>7, <2>8 DEF IInv
<1>6. ~CloseCycle(n)
  BY <1>2 DEF IInv, StackInv, CloseCycle
<1> QED
  BY <1>4, <1>5, <1>6 DEF VisitRoot, Visit

\* The node a frame leaves joins the done nodes, which stay closed and acyclic:
\* all its keys are visited and none led to a node still on the stack.
LEMMA LeaveInv ==
  ASSUME IInv, Leave PROVE IInv'
<1> DEFINE n == stack[Len(stack)]
<1>1. /\ phase = "detect" /\ stack # <<>> /\ stack \in Seq(Node)
      /\ n \in Node
      /\ left[n] = {}
      /\ mark' = [mark EXCEPT ![n] = "done"]
      /\ calls' = calls /\ roots' = roots /\ phase' = phase
      /\ next' = next /\ left' = left /\ cycle' = cycle
      /\ visited' = visited /\ todo' = todo
  BY DEF IInv, TypeOK, Leave, surveyVars
<1>len. stack \in Seq(Node) /\ Len(stack) \in Nat /\ Len(stack) >= 1
  BY <1>1
<1>2. /\ stack' \in Seq(Node)
      /\ Len(stack') = Len(stack) - 1
      /\ \A i \in 1..Len(stack') : stack'[i] = stack[i]
  BY <1>len, FrontProperties DEF Leave
<1>3. /\ Reachable' = Reachable
      /\ \A m : Callees(m)' = Callees(m)
      /\ \A m, s : Target(m, s)' = Target(m, s)
  BY <1>1, GraphIsConstant
<1>4. TypeOK'
  BY <1>1, <1>2 DEF IInv, TypeOK, Marks
<1>5. mark[n] = "onStack" /\ n \notin DoneSet
  BY <1>1 DEF IInv, StackInv, DoneSet
<1>6. DoneSet' = DoneSet \cup {n}
  BY <1>1 DEF DoneSet, IInv, TypeOK
<1>7. Callees(n) \subseteq DoneSet
  BY <1>1 DEF IInv, KeyInv, Callees
<1>8. StackInv'
  <2>1. ASSUME NEW m \in Node
        PROVE  mark'[m] = "onStack" <=> \E i \in 1..Len(stack') : stack'[i] = m
    <3>1. CASE m = n
      <4>1. mark'[m] = "done"
        BY <1>1, <3>1 DEF IInv, TypeOK
      <4>2. \A i \in 1..Len(stack') : stack'[i] # stack[Len(stack)]
        BY <1>len, <1>2 DEF IInv, StackInv
      <4> QED
        BY <3>1, <4>1, <4>2
    <3>2. CASE m # n
      <4>1. mark'[m] = mark[m]
        BY <1>1, <3>2 DEF IInv, TypeOK
      <4>2. \A i \in 1..Len(stack) : stack[i] = m => i \in 1..Len(stack')
        BY <1>len, <1>2, <3>2
      <4>3. \A i \in 1..Len(stack') : i \in 1..Len(stack)
        BY <1>1, <1>2
      <4> QED
        BY <1>2, <4>1, <4>2, <4>3 DEF IInv, StackInv
    <3> QED
      BY <3>1, <3>2
  <2>2. \A i, j \in 1..Len(stack') : stack'[i] = stack'[j] => i = j
    BY <1>1, <1>2 DEF IInv, StackInv
  <2>3. ASSUME NEW i \in 1..(Len(stack') - 1)
        PROVE  stack'[i + 1] \in Callees(stack[i])
    <3>1. /\ i \in 1..(Len(stack) - 1)
          /\ stack'[i + 1] = stack[i + 1]
      BY <1>1, <1>2
    <3> QED
      BY <3>1 DEF IInv, StackInv
  <2>4. \A i \in 1..(Len(stack') - 1) : stack'[i] = stack[i]
    BY <1>1, <1>2
  <2> QED
    BY <2>1, <2>2, <2>3, <2>4, <1>1 DEF StackInv, Callees, Target
<1>9. KeyInv'
  <2>1. \A m \in Node : left'[m] \subseteq DOMAIN calls'[m]
    BY <1>1 DEF IInv, KeyInv
  <2>2. \A m \in Node : mark'[m] = "unvisited" => left'[m] = DOMAIN calls'[m]
    BY <1>1 DEF IInv, KeyInv, TypeOK
  <2>3. ASSUME NEW i \in 1..Len(stack'), NEW s \in DOMAIN calls[stack'[i]] \ left[stack'[i]]
        PROVE  \/ Target(stack'[i], s) \in DoneSet'
               \/ i < Len(stack') /\ stack'[i + 1] = Target(stack'[i], s)
    <3>1. i \in 1..Len(stack) /\ i < Len(stack) /\ stack'[i] = stack[i]
      BY <1>1, <1>2
    <3>2. \/ Target(stack[i], s) \in DoneSet
          \/ stack[i + 1] = Target(stack[i], s)
      BY <1>1, <2>3, <3>1 DEF IInv, KeyInv
    <3>3. CASE i + 1 = Len(stack)
      BY <1>6, <3>1, <3>2, <3>3
    <3>4. CASE i + 1 # Len(stack)
      BY <1>1, <1>2, <1>6, <3>1, <3>2, <3>4
    <3> QED
      BY <3>3, <3>4
  <2> QED
    BY <1>1, <1>3, <2>1, <2>2, <2>3 DEF KeyInv
<1>10. DoneInv'
  <2>1. Acyclic(DoneSet \cup {n})
    BY <1>5, <1>7, AcyclicGrows DEF IInv, DoneInv
  <2> QED
    BY <1>3, <1>6, <1>7, <2>1 DEF IInv, DoneInv, Acyclic
<1>11. RootInv'
  <2>1. ASSUME NEW j \in 1..Len(roots), j < next
        PROVE  \/ roots[j] \in DoneSet'
               \/ stack' # <<>> /\ stack'[1] = roots[j]
    <3>1. roots[j] \in DoneSet \/ stack[1] = roots[j]
      BY <1>1, <2>1 DEF IInv, RootInv
    <3>2. CASE Len(stack) = 1
      BY <1>6, <3>1, <3>2
    <3>3. CASE Len(stack) > 1
      <4>1. 1 \in 1..Len(stack') /\ stack' # <<>>
        BY <1>1, <1>2, <3>3
      <4> QED
        BY <1>2, <1>6, <3>1, <4>1
    <3>4. Len(stack) = 1 \/ Len(stack) > 1
      BY <1>len
    <3> QED
      BY <3>2, <3>3, <3>4
  <2> QED
    BY <1>1, <2>1 DEF RootInv
<1>12. ReachInv'
  BY <1>1, <1>3, <1>5 DEF IInv, ReachInv, TypeOK
<1>13. SurveyInv' /\ CycleInv'
  BY <1>1 DEF IInv, SurveyInv, CycleInv, ReportedCycleIsReal
<1> QED
  BY <1>4, <1>8, <1>9, <1>10, <1>11, <1>12, <1>13 DEF IInv

\* What VisitCallee reads: the frame on top, the key it takes, the target.
LEMMA VisitCalleeFacts ==
  ASSUME IInv, phase = "detect", stack # <<>>,
         NEW n, n = stack[Len(stack)],
         NEW s \in left[n], NEW t, t = Target(n, s)
  PROVE  /\ stack \in Seq(Node) /\ Len(stack) \in Nat /\ Len(stack) >= 1
         /\ n \in Node /\ t \in Node
         /\ s \in DOMAIN calls[n]
         /\ t \in Callees(n)
         /\ mark[n] = "onStack"
         /\ t \in Reachable
<1>1. stack \in Seq(Node) /\ Len(stack) \in Nat /\ Len(stack) >= 1
  BY DEF IInv, TypeOK
<1>2. Len(stack) \in 1..Len(stack)
  BY <1>1
<1>3. n \in Node
  BY <1>1, <1>2
<1>4. s \in DOMAIN calls[n]
  BY <1>3 DEF IInv, KeyInv
<1>5. t \in Callees(n)
  BY <1>4 DEF Callees
<1>6. mark[n] = "onStack"
  BY <1>2, <1>3 DEF IInv, StackInv
<1>7. t \in Reachable /\ t \in Node
  BY <1>3, <1>5, <1>6, ReachableIsClosed DEF IInv, ReachInv
<1> QED
  BY <1>1, <1>3, <1>4, <1>5, <1>6, <1>7

\* The path formatCycle prints closes on itself and follows declared calls.
LEMMA FormatCycleIsCycle ==
  ASSUME IInv, stack # <<>>,
         NEW t \in Node, mark[t] = "onStack", t \in Callees(stack[Len(stack)])
  PROVE  LET c == FormatCycle(t)
         IN  /\ c \in Seq(Node)
             /\ Len(c) > 1
             /\ c[1] = c[Len(c)]
             /\ \A i \in 1..(Len(c) - 1) :
                  /\ c[i] \in Reachable
                  /\ c[i + 1] \in Callees(c[i])
<1>1. stack \in Seq(Node) /\ Len(stack) \in Nat /\ Len(stack) >= 1
  BY DEF IInv, TypeOK
<1>2. PICK k \in 1..Len(stack) :
        /\ stack[k] = t
        /\ FormatCycle(t) = Append(SubSeq(stack, k, Len(stack)), t)
  <2>1. PICK i \in 1..Len(stack) : stack[i] = t
    BY DEF IInv, StackInv
  <2>2. \A j \in 1..(i - 1) : stack[j] # t
    BY <1>1, <2>1 DEF IInv, StackInv
  <2> QED
    BY <2>1, <2>2 DEF FormatCycle
<1> DEFINE b == SubSeq(stack, k, Len(stack))
           c == Append(b, t)
<1>3. PICK l \in Nat : l = Len(stack)
  BY <1>1
<1>4. /\ k \in 1..l /\ l >= 1
      /\ b \in Seq(Node)
      /\ Len(b) = l - k + 1
      /\ \A i \in 1..(l - k + 1) : b[i] = stack[k + i - 1]
  <2>1. k \in 1..l /\ l >= 1 /\ k \in Int /\ k <= l
    BY <1>1, <1>3
  <2>2. \A i \in k..l : stack[i] \in Node
    BY <1>1, <1>3
  <2>3. /\ b \in Seq(Node)
        /\ Len(b) = IF k <= l THEN l - k + 1 ELSE 0
        /\ \A i \in 1..(l - k + 1) : b[i] = stack[k + i - 1]
    BY <1>3, <2>1, <2>2, SubSeqProperties
  <2> QED
    BY <2>1, <2>3, Zenon
<1>5. /\ c \in Seq(Node)
      /\ Len(c) = l - k + 2
      /\ c[l - k + 2] = t
      /\ \A i \in 1..(l - k + 1) : c[i] = stack[k + i - 1]
  <2> HIDE DEF b
  <2> QED
    BY <1>4
<1>6. c[1] = t
  BY <1>2, <1>4, <1>5
<1>7. ASSUME NEW i \in 1..(l - k + 1)
      PROVE  c[i] \in Reachable /\ c[i + 1] \in Callees(c[i])
  <2> HIDE DEF c
  <2>1. c[i] = stack[k + i - 1] /\ k + i - 1 \in 1..Len(stack)
    BY <1>3, <1>4, <1>5
  <2>2. c[i] \in Reachable
    BY <1>1, <2>1 DEF IInv, StackInv, ReachInv
  <2>3. CASE i = l - k + 1
    <3>1. i + 1 = l - k + 2
      BY <1>4, <2>3
    <3>3. c[i + 1] = t
      BY <1>5, <3>1
    <3>2. k + i - 1 = Len(stack)
      BY <1>3, <1>4, <2>3
    <3> QED
      BY <2>1, <2>2, <3>2, <3>3
  <2>4. CASE i # l - k + 1
    <3>1. i + 1 \in 1..(l - k + 1) /\ k + (i + 1) - 1 = (k + i - 1) + 1
      BY <1>4, <2>4
    <3>2. c[i + 1] = stack[(k + i - 1) + 1]
      BY <1>5, <3>1
    <3>3. k + i - 1 \in 1..(Len(stack) - 1)
      BY <1>3, <1>4, <2>4
    <3> QED
      BY <2>1, <2>2, <3>2, <3>3 DEF IInv, StackInv
  <2> QED
    BY <2>3, <2>4
<1>8. /\ Len(c) > 1
      /\ Len(c) - 1 = l - k + 1
      /\ c[1] = c[Len(c)]
  <2> HIDE DEF c
  <2> QED
    BY <1>4, <1>5, <1>6
<1> QED
  BY <1>2, <1>5, <1>7, <1>8

\* A visit of a node on the stack reports a cycle that is real.
LEMMA VisitCalleeCloses ==
  ASSUME IInv, VisitCallee, phase' = "cycle" PROVE IInv'
<1> DEFINE n == stack[Len(stack)]
<1>1. PICK s \in left[n] :
        /\ Visit(Target(n, s))
        /\ left' = [left EXCEPT ![n] = @ \ {s}]
  BY DEF VisitCallee
<1> DEFINE t == Target(n, s)
<1>2. /\ phase = "detect" /\ stack # <<>>
      /\ calls' = calls /\ roots' = roots /\ next' = next
      /\ visited' = visited /\ todo' = todo
  BY DEF VisitCallee, surveyVars
<1>3. /\ n \in Node /\ t \in Node /\ t \in Callees(n)
      /\ mark[n] = "onStack"
  BY <1>2, VisitCalleeFacts
<1>4. mark[t] = "onStack" /\ cycle' = FormatCycle(t) /\ mark' = mark /\ stack' = stack
  BY <1>1, <1>2 DEF Visit, CloseCycle, SkipDone, Push
<1>5. /\ Reachable' = Reachable
      /\ \A m : Callees(m)' = Callees(m)
      /\ \A m, k : Target(m, k)' = Target(m, k)
  BY <1>2, GraphIsConstant
<1>6. /\ cycle' \in Seq(Node)
      /\ Len(cycle') > 1
      /\ cycle'[1] = cycle'[Len(cycle')]
      /\ \A i \in 1..(Len(cycle') - 1) :
           /\ cycle'[i] \in Reachable
           /\ cycle'[i + 1] \in Callees(cycle'[i])
  BY <1>2, <1>3, <1>4, FormatCycleIsCycle
<1>7. TypeOK'
  BY <1>1, <1>2, <1>3, <1>4, <1>6 DEF IInv, TypeOK
<1>8. StackInv'
  BY <1>2, <1>4, <1>5 DEF IInv, StackInv, Callees, Target
<1>9. KeyInv'
  BY <1>1, <1>2, <1>3, <1>4 DEF IInv, KeyInv, TypeOK
<1>10. DoneInv' /\ ReachInv'
  BY <1>2, <1>4, <1>5 DEF IInv, DoneInv, DoneSet, Acyclic, ReachInv
<1>11. RootInv' /\ SurveyInv'
  BY DEF RootInv, SurveyInv
<1>12. CycleInv'
  BY <1>2, <1>5, <1>6 DEF CycleInv, ReportedCycleIsReal, Callees, Target
<1> QED
  BY <1>7, <1>8, <1>9, <1>10, <1>11, <1>12 DEF IInv

\* A visit of a done node only takes the key.
LEMMA VisitCalleeSkips ==
  ASSUME IInv, VisitCallee, mark' = mark, phase' = phase PROVE IInv'
<1> DEFINE n == stack[Len(stack)]
<1>1. PICK s \in left[n] :
        /\ Visit(Target(n, s))
        /\ left' = [left EXCEPT ![n] = @ \ {s}]
  BY DEF VisitCallee
<1> DEFINE t == Target(n, s)
<1>2. /\ phase = "detect" /\ stack # <<>>
      /\ calls' = calls /\ roots' = roots /\ next' = next
      /\ visited' = visited /\ todo' = todo
  BY DEF VisitCallee, surveyVars
<1>3. /\ stack \in Seq(Node) /\ Len(stack) \in Nat /\ Len(stack) >= 1
      /\ n \in Node /\ t \in Node
      /\ s \in DOMAIN calls[n]
      /\ mark[n] = "onStack"
  BY <1>2, VisitCalleeFacts
<1>4. ~CloseCycle(t)
  BY <1>2 DEF CloseCycle
<1>5. ~Push(t)
  BY <1>3 DEF Push, IInv, TypeOK
<1>6. mark[t] = "done" /\ stack' = stack /\ cycle' = cycle
  BY <1>1, <1>4, <1>5 DEF Visit, SkipDone
<1>7. /\ Reachable' = Reachable
      /\ \A m : Callees(m)' = Callees(m)
      /\ \A m, k : Target(m, k)' = Target(m, k)
      /\ DoneSet' = DoneSet
      /\ t \in DoneSet
  BY <1>2, <1>3, <1>6, GraphIsConstant DEF DoneSet
<1>8. TypeOK'
  BY <1>1, <1>2, <1>6 DEF IInv, TypeOK
<1>9. StackInv'
  BY <1>2, <1>6, <1>7 DEF IInv, StackInv, Callees, Target
<1>10. KeyInv'
  <2>1. /\ \A m \in Node : left'[m] \subseteq DOMAIN calls[m]
        /\ \A m \in Node : mark[m] = "unvisited" => left'[m] = DOMAIN calls[m]
    BY <1>1, <1>3 DEF IInv, KeyInv, TypeOK
  <2>2. ASSUME NEW i \in 1..Len(stack), NEW k \in DOMAIN calls[stack[i]] \ left'[stack[i]]
        PROVE  \/ Target(stack[i], k) \in DoneSet
               \/ i < Len(stack) /\ stack[i + 1] = Target(stack[i], k)
    <3>1. stack[i] \in Node
      BY <1>3
    <3>2. CASE stack[i] = n /\ k = s
      BY <1>7, <3>2
    <3>3. CASE ~(stack[i] = n /\ k = s)
      <4>1. k \notin left[stack[i]]
        BY <1>1, <3>1, <3>3 DEF IInv, TypeOK
      <4> QED
        BY <1>2, <4>1 DEF IInv, KeyInv
    <3> QED
      BY <3>2, <3>3
  <2> QED
    BY <1>2, <1>6, <1>7, <2>1, <2>2 DEF KeyInv, Target
<1>11. DoneInv' /\ ReachInv'
  BY <1>2, <1>7 DEF IInv, DoneInv, Acyclic, ReachInv
<1>12. RootInv' /\ SurveyInv' /\ CycleInv'
  BY <1>2, <1>6, <1>7
  DEF IInv, RootInv, SurveyInv, CycleInv, ReportedCycleIsReal
<1> QED
  BY <1>8, <1>9, <1>10, <1>11, <1>12 DEF IInv

\* A visit of an unvisited node extends the path on the stack.
LEMMA VisitCalleePushes ==
  ASSUME IInv, VisitCallee, mark' # mark PROVE IInv'
<1> DEFINE n == stack[Len(stack)]
<1>1. PICK s \in left[n] :
        /\ Visit(Target(n, s))
        /\ left' = [left EXCEPT ![n] = @ \ {s}]
  BY DEF VisitCallee
<1> DEFINE t == Target(n, s)
<1>2. /\ phase = "detect" /\ stack # <<>>
      /\ calls' = calls /\ roots' = roots /\ next' = next
      /\ visited' = visited /\ todo' = todo
  BY DEF VisitCallee, surveyVars
<1>3. /\ stack \in Seq(Node) /\ Len(stack) \in Nat /\ Len(stack) >= 1
      /\ n \in Node /\ t \in Node
      /\ s \in DOMAIN calls[n]
      /\ t \in Callees(n)
      /\ mark[n] = "onStack"
      /\ t \in Reachable
  BY <1>2, VisitCalleeFacts
<1>4. /\ mark[t] = "unvisited"
      /\ mark' = [mark EXCEPT ![t] = "onStack"]
      /\ stack' = Append(stack, t)
      /\ phase' = phase /\ cycle' = cycle
  BY <1>1 DEF Visit, CloseCycle, SkipDone, Push
<1>5. PICK l \in Nat : l = Len(stack)
  BY <1>3
<1>6. /\ l >= 1
      /\ stack' \in Seq(Node)
      /\ Len(stack') = l + 1
      /\ stack'[l + 1] = t
      /\ \A i \in 1..l : stack'[i] = stack[i]
  BY <1>3, <1>4, <1>5
<1>7. /\ Reachable' = Reachable
      /\ \A m : Callees(m)' = Callees(m)
      /\ \A m, k : Target(m, k)' = Target(m, k)
  BY <1>2, GraphIsConstant
<1>8. DoneSet' = DoneSet
  BY <1>3, <1>4 DEF DoneSet, IInv, TypeOK
<1>9. t # n /\ \A i \in 1..l : stack[i] # t
  BY <1>3, <1>4, <1>5 DEF IInv, StackInv
<1>10. TypeOK'
  BY <1>1, <1>2, <1>3, <1>4, <1>6 DEF IInv, TypeOK, Marks
<1>11. StackInv'
  <2>1. ASSUME NEW m \in Node
        PROVE  mark'[m] = "onStack" <=> \E i \in 1..(l + 1) : stack'[i] = m
    <3>1. CASE m = t
      BY <1>3, <1>4, <1>6, <3>1 DEF IInv, TypeOK
    <3>2. CASE m # t
      <4>1. mark'[m] = mark[m]
        BY <1>4, <3>2 DEF IInv, TypeOK
      <4>2. \A i \in 1..(l + 1) : stack'[i] = m => i \in 1..l
        BY <1>6, <3>2
      <4>3. \A i \in 1..l : i \in 1..(l + 1)
        OBVIOUS
      <4> QED
        BY <1>5, <1>6, <4>1, <4>2, <4>3 DEF IInv, StackInv
    <3> QED
      BY <3>1, <3>2
  <2>2. ASSUME NEW i \in 1..(l + 1), NEW j \in 1..(l + 1), stack'[i] = stack'[j]
        PROVE  i = j
    <3>1. (i = l + 1 \/ i \in 1..l) /\ (j = l + 1 \/ j \in 1..l)
      OBVIOUS
    <3> QED
      BY <1>5, <1>6, <1>9, <2>2, <3>1 DEF IInv, StackInv
  <2>3. ASSUME NEW i \in 1..l
        PROVE  stack'[i + 1] \in Callees(stack'[i])
    <3>1. CASE i = l
      BY <1>3, <1>5, <1>6, <3>1
    <3>2. CASE i # l
      <4>1. i + 1 \in 1..l /\ i \in 1..(l - 1)
        BY <3>2
      <4> QED
        BY <1>5, <1>6, <4>1 DEF IInv, StackInv
    <3> QED
      BY <3>1, <3>2
  <2>4. Len(stack') - 1 = l
    BY <1>6
  <2> QED
    BY <1>2, <1>6, <2>1, <2>2, <2>3, <2>4 DEF StackInv, Callees, Target
<1>12. KeyInv'
  <2>1. /\ \A m \in Node : left'[m] \subseteq DOMAIN calls[m]
        /\ \A m \in Node : mark'[m] = "unvisited" => left'[m] = DOMAIN calls[m]
    BY <1>1, <1>3, <1>4 DEF IInv, KeyInv, TypeOK
  <2>2. ASSUME NEW i \in 1..(l + 1),
               NEW k \in DOMAIN calls[stack'[i]] \ left'[stack'[i]]
        PROVE  \/ Target(stack'[i], k) \in DoneSet
               \/ i < l + 1 /\ stack'[i + 1] = Target(stack'[i], k)
    <3>1. CASE i = l + 1
      <4>1. left'[t] = DOMAIN calls[t]
        BY <1>1, <1>3, <1>4, <1>9 DEF IInv, KeyInv, TypeOK
      <4> QED
        BY <1>6, <3>1, <4>1
    <3>2. CASE i = l
      <4>1. stack'[i] = n /\ stack'[i + 1] = t /\ i < l + 1
        BY <1>5, <1>6, <3>2
      <4>2. CASE k = s
        BY <4>1, <4>2
      <4>3. CASE k # s
        <5>1. k \in DOMAIN calls[n] \ left[n]
          BY <1>1, <1>3, <4>1, <4>3 DEF IInv, TypeOK
        <5>2. Target(n, k) \in DoneSet
          BY <1>2, <1>3, <1>5, <1>6, <5>1 DEF IInv, KeyInv
        <5> QED
          BY <4>1, <5>2
      <4> QED
        BY <4>2, <4>3
    <3>3. CASE i # l /\ i # l + 1
      <4>1. /\ i \in 1..l /\ i + 1 \in 1..l /\ i < l + 1
            /\ stack'[i] = stack[i] /\ stack'[i + 1] = stack[i + 1]
        BY <1>6, <3>3
      <4>2. stack[i] # n /\ stack[i] \in Node
        BY <1>3, <1>5, <1>6, <3>3, <4>1 DEF IInv, StackInv
      <4>3. k \in DOMAIN calls[stack[i]] \ left[stack[i]]
        BY <1>1, <4>1, <4>2 DEF IInv, TypeOK
      <4> QED
        BY <1>2, <1>5, <4>1, <4>3 DEF IInv, KeyInv
    <3> QED
      BY <3>1, <3>2, <3>3
  <2>3. /\ \A m \in Node : left'[m] \subseteq DOMAIN calls'[m]
        /\ \A m \in Node : mark'[m] = "unvisited" => left'[m] = DOMAIN calls'[m]
    BY <1>2, <2>1
  <2>4. \A i \in 1..(l + 1) : \A k \in DOMAIN calls[stack'[i]] \ left'[stack'[i]] :
          \/ <<k, calls[stack'[i]][k]>> \in DoneSet
          \/ i < l + 1 /\ stack'[i + 1] = <<k, calls[stack'[i]][k]>>
    BY <2>2, Zenon DEF Target
  <2>5. \A i \in 1..Len(stack') : \A k \in DOMAIN calls'[stack'[i]] \ left'[stack'[i]] :
          \/ <<k, calls'[stack'[i]][k]>> \in DoneSet'
          \/ i < Len(stack') /\ stack'[i + 1] = <<k, calls'[stack'[i]][k]>>
    BY <1>2, <1>6, <1>8, <2>4, Zenon
  <2> QED
    BY <2>3, <2>5, Zenon DEF KeyInv, Target
<1>13. DoneInv'
  BY <1>7, <1>8 DEF IInv, DoneInv, Acyclic
<1>14. RootInv'
  <2>1. stack' # <<>> /\ stack'[1] = stack[1]
    BY <1>6
  <2>2. ASSUME NEW j \in 1..Len(roots), j < next
        PROVE  roots[j] \in DoneSet \/ stack'[1] = roots[j]
    BY <1>2, <2>1, <2>2 DEF IInv, RootInv
  <2>3. phase' = "detect" /\ roots' = roots /\ next' = next
    BY <1>2, <1>4
  <2> QED
    BY <1>8, <2>1, <2>2, <2>3 DEF RootInv
<1>15. ReachInv'
  BY <1>2, <1>3, <1>4, <1>7 DEF IInv, ReachInv, TypeOK
<1>16. SurveyInv' /\ CycleInv'
  BY <1>2, <1>4 DEF IInv, SurveyInv, CycleInv, ReportedCycleIsReal
<1> QED
  BY <1>10, <1>11, <1>12, <1>13, <1>14, <1>15, <1>16 DEF IInv

\* The three cases of a visit together.
LEMMA VisitCalleeInv ==
  ASSUME IInv, VisitCallee PROVE IInv'
<1>1. \/ phase' = "cycle"
      \/ mark' = mark /\ phase' = phase
      \/ phase' = phase
  BY DEF VisitCallee, Visit, CloseCycle, SkipDone, Push
<1> QED
  BY <1>1, VisitCalleeCloses, VisitCalleeSkips, VisitCalleePushes

\* Handing over to unreachableServices keeps the invariant.
LEMMA AcceptInv ==
  ASSUME IInv, Accept PROVE IInv'
<1>1. /\ phase = "detect" /\ phase' = "survey"
      /\ stack = <<>> /\ next > Len(roots)
      /\ todo' = RootSet /\ visited' = visited
      /\ calls' = calls /\ roots' = roots /\ next' = next /\ mark' = mark
      /\ stack' = stack /\ left' = left /\ cycle' = cycle
  BY DEF Accept, detectVars
<1>2. /\ Reachable' = Reachable
      /\ RootSet' = RootSet
      /\ \A m : Callees(m)' = Callees(m)
      /\ DoneSet' = DoneSet
  BY <1>1, GraphIsConstant DEF DoneSet
<1>3. TypeOK'
  BY <1>1, CallsStayInGraph DEF IInv, TypeOK
<1>4. StackInv' /\ KeyInv' /\ ReachInv'
  BY <1>1, <1>2 DEF IInv, StackInv, KeyInv, ReachInv, Callees, Target
<1>5. DoneInv' /\ RootInv'
  BY <1>1, <1>2 DEF IInv, DoneInv, Acyclic, RootInv
<1>6. visited = {}
  BY <1>1 DEF IInv, SurveyInv
<1>7. SurveyInv'
  BY <1>1, <1>2, <1>6, ReachableIsClosed DEF IInv, SurveyInv
<1>8. CycleInv'
  BY <1>1 DEF CycleInv, ReportedCycleIsReal
<1> QED
  BY <1>3, <1>4, <1>5, <1>7, <1>8 DEF IInv

\* A survey step moves one node from todo to visited, and its callees to todo.
LEMMA SurveyStepInv ==
  ASSUME IInv, NEW n \in Node, Survey(n) PROVE IInv'
<1>1. /\ phase = "survey" /\ n \in todo
      /\ visited' = visited \cup {n}
      /\ todo' = (todo \cup Callees(n)) \ visited'
      /\ calls' = calls /\ roots' = roots /\ phase' = phase
      /\ next' = next /\ mark' = mark
      /\ stack' = stack /\ left' = left /\ cycle' = cycle
  BY DEF Survey, detectVars
<1>2. /\ Reachable' = Reachable
      /\ RootSet' = RootSet
      /\ \A m : Callees(m)' = Callees(m)
      /\ DoneSet' = DoneSet
  BY <1>1, GraphIsConstant DEF DoneSet
<1>3. TypeOK'
  BY <1>1, CallsStayInGraph DEF IInv, TypeOK
<1>4. StackInv' /\ KeyInv' /\ ReachInv'
  BY <1>1, <1>2 DEF IInv, StackInv, KeyInv, ReachInv, Callees, Target
<1>5. DoneInv' /\ RootInv'
  BY <1>1, <1>2 DEF IInv, DoneInv, Acyclic, RootInv
<1>6. visited' \cup todo' = visited \cup todo \cup Callees(n)
  BY <1>1
<1>7. SurveyInv'
  BY <1>1, <1>2, <1>6, ReachableIsClosed DEF IInv, SurveyInv
<1>8. CycleInv'
  BY <1>1 DEF CycleInv, ReportedCycleIsReal
<1> QED
  BY <1>3, <1>4, <1>5, <1>7, <1>8 DEF IInv

\* Returning leaves the survey as it is.
LEMMA ReturnInv ==
  ASSUME IInv, Return PROVE IInv'
<1>1. /\ phase = "survey" /\ todo = {} /\ phase' = "done"
      /\ visited' = visited /\ todo' = todo
      /\ calls' = calls /\ roots' = roots /\ next' = next /\ mark' = mark
      /\ stack' = stack /\ left' = left /\ cycle' = cycle
  BY DEF Return, detectVars, surveyVars
<1>2. /\ Reachable' = Reachable
      /\ RootSet' = RootSet
      /\ \A m : Callees(m)' = Callees(m)
      /\ DoneSet' = DoneSet
  BY <1>1, GraphIsConstant DEF DoneSet
<1>3. TypeOK'
  BY <1>1 DEF IInv, TypeOK
<1>4. StackInv' /\ KeyInv' /\ ReachInv'
  BY <1>1, <1>2 DEF IInv, StackInv, KeyInv, ReachInv, Callees, Target
<1>5. DoneInv' /\ RootInv'
  BY <1>1, <1>2 DEF IInv, DoneInv, Acyclic, RootInv
<1>6. SurveyInv' /\ CycleInv'
  BY <1>1, <1>2 DEF IInv, SurveyInv, CycleInv, ReportedCycleIsReal
<1> QED
  BY <1>3, <1>4, <1>5, <1>6 DEF IInv

\* A stuttering step keeps the invariant.
LEMMA StutterInv ==
  ASSUME IInv, UNCHANGED vars PROVE IInv'
<1>1. /\ calls' = calls /\ roots' = roots /\ phase' = phase /\ next' = next
      /\ mark' = mark /\ stack' = stack /\ left' = left /\ cycle' = cycle
      /\ visited' = visited /\ todo' = todo
  BY DEF vars, detectVars, surveyVars
<1>2. /\ Reachable' = Reachable
      /\ RootSet' = RootSet
      /\ \A m : Callees(m)' = Callees(m)
      /\ DoneSet' = DoneSet
  BY <1>1, GraphIsConstant DEF DoneSet
<1>3. TypeOK'
  BY <1>1 DEF IInv, TypeOK
<1>4. StackInv' /\ KeyInv' /\ ReachInv'
  BY <1>1, <1>2 DEF IInv, StackInv, KeyInv, ReachInv, Callees, Target
<1>5. DoneInv' /\ RootInv'
  BY <1>1, <1>2 DEF IInv, DoneInv, Acyclic, RootInv
<1>6. SurveyInv' /\ CycleInv'
  BY <1>1, <1>2 DEF IInv, SurveyInv, CycleInv, ReportedCycleIsReal, Callees, Target
<1> QED
  BY <1>3, <1>4, <1>5, <1>6 DEF IInv

\* IInv holds in every state of every validation.
THEOREM Invariance == Spec => []IInv
<1>1. Init => IInv
  BY InitInv
<1>2. IInv /\ [Next]_vars => IInv'
  <2> SUFFICES ASSUME IInv, [Next]_vars PROVE IInv'
    OBVIOUS
  <2>1. CASE VisitRoot
    BY <2>1, VisitRootInv
  <2>2. CASE VisitCallee
    BY <2>2, VisitCalleeInv
  <2>3. CASE Leave
    BY <2>3, LeaveInv
  <2>4. CASE Accept
    BY <2>4, AcceptInv
  <2>5. CASE \E n \in Node : Survey(n)
    BY <2>5, SurveyStepInv
  <2>6. CASE Return
    BY <2>6, ReturnInv
  <2>7. CASE UNCHANGED vars
    BY <2>7, StutterInv
  <2> QED
    BY <2>1, <2>2, <2>3, <2>4, <2>5, <2>6, <2>7 DEF Next, Finished
<1> QED
  BY <1>1, <1>2, PTL DEF Spec

-----------------------------------------------------------------------------
(* What follows from the invariant *)

\* The variables keep their types for every topology and root list.
THEOREM TypeCorrect == Spec => []TypeOK
<1>1. IInv => TypeOK
  BY DEF IInv
<1> QED
  BY <1>1, Invariance, PTL

\* C4: whatever the topology, one that detectCycles accepts has no cycle among
\* the nodes a root route reaches, so the recursion of EmitTrace is finite.
\* The done nodes hold every root and are closed under calls, hence hold all
\* that is reachable, and the invariant keeps them acyclic.
THEOREM AcceptanceIsSound == Spec => []AcceptedHasNoCycle
<1>1. IInv => AcceptedHasNoCycle
  <2> SUFFICES ASSUME IInv, phase \in {"survey", "done"}
               PROVE  Acyclic(Reachable)
    BY DEF AcceptedHasNoCycle
  <2>1. RootSet \subseteq DoneSet
    BY DEF IInv, RootInv, RootSet, TypeOK
  <2>2. Closed(DoneSet) /\ DoneSet \in SUBSET Node
    BY <2>1 DEF IInv, DoneInv, Closed, DoneSet
  <2>3. Reachable \subseteq DoneSet
    BY <2>2, ReachableIsClosed DEF IInv
  <2> QED
    BY <2>3 DEF IInv, DoneInv, Acyclic
<1> QED
  BY <1>1, Invariance, PTL

\* A rejected topology always has the cycle that formatCycle prints, and a
\* root route reaches it: validation never turns away a sound topology here.
THEOREM RejectionIsJustified == Spec => []ReportedCycleIsReal
<1>1. IInv => ReportedCycleIsReal
  BY DEF IInv, CycleInv
<1> QED
  BY <1>1, Invariance, PTL

\* The warnings of unreachableServices are exact when validation returns.
THEOREM WarningsAreExact == Spec => []WarnsExactlyUnreachable
<1>1. IInv => WarnsExactlyUnreachable
  <2> SUFFICES ASSUME IInv, phase = "done"
               PROVE  Warned = {s \in Service : \A r \in Route : <<s, r>> \notin Reachable}
    BY DEF WarnsExactlyUnreachable
  <2>1. /\ todo = {}
        /\ RootSet \subseteq visited
        /\ \A n \in visited : Callees(n) \subseteq visited
        /\ visited \subseteq Reachable
    BY DEF IInv, SurveyInv
  <2>2. Closed(visited) /\ visited \in SUBSET Node
    BY <2>1 DEF Closed, IInv, TypeOK
  <2>3. visited = Reachable
    BY <2>1, <2>2, ReachableIsClosed DEF IInv
  <2> QED
    BY <2>3 DEF Warned
<1> QED
  BY <1>1, Invariance, PTL

-----------------------------------------------------------------------------
(* Validation: what holds of the walks holds of it, for every set of documents *)

\* Only the pass that walks the graph, and the survey, touch the variables of the
\* walks, and each of their steps is one of CycleCheck's.
LEMMA StepIsCycleCheck == [ValidationNext]_allVars => [Next]_vars
<1> SUFFICES ASSUME [ValidationNext]_allVars PROVE [Next]_vars
  OBVIOUS
<1>1. CASE CheckServices \/ ResolveReferences \/ CheckRoots \/ CheckSurges
  BY <1>1 DEF CheckServices, ResolveReferences, CheckRoots, CheckSurges
<1>2. CASE DetectCycles
  BY <1>2 DEF DetectCycles, Next
<1>3. CASE FindUnreachable
  BY <1>3 DEF FindUnreachable, Next
<1>4. CASE Validated \/ UNCHANGED allVars
  BY <1>4 DEF Validated, allVars
<1>5. QED
  BY <1>1, <1>2, <1>3, <1>4 DEF ValidationNext

\* Whatever the documents and however the passes of field rules come out, the
\* validation is one of CycleCheck's runs.
THEOREM ValidationIsCycleCheck == ValidationSpec => Spec
<1>1. ValidationInit => Init
  BY DEF ValidationInit
<1>2. [ValidationNext]_allVars => [Next]_vars
  BY StepIsCycleCheck
<1>3. QED
  BY <1>1, <1>2, PTL DEF ValidationSpec, Spec

\* No document that gets past the search for cycles can be walked for ever.
THEOREM ValidatedHasNoCycle == ValidationSpec => []AcceptedHasNoCycle
BY ValidationIsCycleCheck, AcceptanceIsSound, PTL

\* No document is rejected for a cycle that is not there.
THEOREM ValidationErrorIsReal == ValidationSpec => []ReportedCycleIsReal
BY ValidationIsCycleCheck, RejectionIsJustified, PTL

\* The services ValidateWithWarnings warns about are those nothing reaches.
THEOREM ValidationWarnsExactly == ValidationSpec => []WarnsExactlyUnreachable
BY ValidationIsCycleCheck, WarningsAreExact, PTL

-----------------------------------------------------------------------------
(* What an accepted document is worth *)

\* What each pass makes sure of.
ServicesPass ==
  /\ services # <<>> /\ roots # <<>>
  /\ Named(services, 0) /\ \A i \in DOMAIN services : ValidService(services[i])
ReferencesPass ==
  \A n \in Node : Resolves(n) => \A s \in DOMAIN calls[n] : Resolves(Target(n, s))
RootsPass == \A i \in DOMAIN roots : Resolves(roots[i]) /\ rates[i] > 0
SurgesPass == \A i \in DOMAIN surges : ValidSurge(surges[i])

\* No pass is skipped, and none changes what those before it looked at.
PassInv ==
  /\ services \in Seq(ServiceDecl) /\ surges \in Seq(SurgeDecl)
  /\ stage \in {"services", "references", "roots", "graph", "surges", "survey", "accepted", "rejected"}
  /\ stage \notin {"services", "rejected"} => ServicesPass
  /\ stage \notin {"services", "references", "rejected"} => ReferencesPass
  /\ stage \in {"graph", "surges", "survey", "accepted"} => RootsPass
  /\ stage \in {"survey", "accepted"} => SurgesPass

\* The passes depend on the document and on nothing else.
LEMMA PassesStay ==
  ASSUME UNCHANGED <<calls, roots, document>>
  PROVE  /\ ServicesPass' <=> ServicesPass
         /\ ReferencesPass' <=> ReferencesPass
         /\ RootsPass' <=> RootsPass
         /\ SurgesPass' <=> SurgesPass
<1>1. UNCHANGED <<calls, roots, services, rates, surges>>
  BY DEF document
<1>2. ASSUME NEW n PROVE Resolves(n)' <=> Resolves(n)
  BY <1>1 DEF Resolves, FindService, FindRoute, SelectInSeq
<1>3. ServicesPass' <=> ServicesPass
  BY <1>1 DEF ServicesPass
<1>4. ReferencesPass' <=> ReferencesPass
  BY <1>1, <1>2 DEF ReferencesPass, Resolves, FindService, FindRoute, SelectInSeq, Target
<1>5. RootsPass' <=> RootsPass
  BY <1>1, <1>2 DEF RootsPass, Resolves, FindService, FindRoute, SelectInSeq
<1>6. SurgesPass' <=> SurgesPass
  BY <1>1 DEF SurgesPass, ValidSurge, RootSet
<1> QED
  BY <1>3, <1>4, <1>5, <1>6

\* No step changes the document.
LEMMA DocumentStays == [ValidationNext]_allVars => UNCHANGED <<calls, roots, document>>
<1>1. [ValidationNext]_allVars =>
        \/ UNCHANGED <<vars, document>>
        \/ UNCHANGED document /\ (VisitRoot \/ VisitCallee \/ Leave \/ Accept)
        \/ UNCHANGED document /\ (Return \/ \E n \in Node : Survey(n))
  BY DEF ValidationNext, allVars, CheckServices, ResolveReferences, CheckRoots, DetectCycles,
         CheckSurges, FindUnreachable, Validated
<1>2. VisitRoot \/ VisitCallee \/ Leave \/ Accept => UNCHANGED <<calls, roots>>
  BY DEF VisitRoot, VisitCallee, Leave, Accept
<1>3. ASSUME Return \/ \E n \in Node : Survey(n) PROVE UNCHANGED <<calls, roots>>
  BY <1>3 DEF Return, Survey
<1>4. UNCHANGED <<vars, document>> => UNCHANGED <<calls, roots, document>>
  BY DEF vars
<1> QED
  BY <1>1, <1>2, <1>3, <1>4

\* Each pass hands over to the next if its rules hold.
LEMMA PassesKeep == ASSUME PassInv, [ValidationNext]_allVars PROVE PassInv'
<1>1. /\ services' = services /\ surges' = surges
      /\ ServicesPass' <=> ServicesPass
      /\ ReferencesPass' <=> ReferencesPass
      /\ RootsPass' <=> RootsPass
      /\ SurgesPass' <=> SurgesPass
  BY DocumentStays, PassesStay DEF document
<1>2. CASE CheckServices
  <2>1. Pass("services", "references", ServicesPass)
    BY <1>2, Zenon DEF CheckServices, ServicesPass
  <2>2. ServicesPass => stage' = "references"
    BY <2>1, Zenon DEF Pass
  <2>3. ~ServicesPass => stage' = "rejected"
    BY <2>1, Zenon DEF Pass
  <2>4. stage = "services"
    BY <2>1 DEF Pass
  <2> QED
    BY <1>1, <2>2, <2>3, <2>4 DEF PassInv
<1>3. CASE ResolveReferences
  <2>1. Pass("references", "roots", ReferencesPass)
    BY <1>3, Zenon DEF ResolveReferences, ReferencesPass
  <2>2. ReferencesPass => stage' = "roots"
    BY <2>1, Zenon DEF Pass
  <2>3. ~ReferencesPass => stage' = "rejected"
    BY <2>1, Zenon DEF Pass
  <2>4. stage = "references"
    BY <2>1 DEF Pass
  <2> QED
    BY <1>1, <2>2, <2>3, <2>4 DEF PassInv
<1>4. CASE CheckRoots
  <2>1. Pass("roots", "graph", RootsPass)
    BY <1>4, Zenon DEF CheckRoots, RootsPass
  <2>2. RootsPass => stage' = "graph"
    BY <2>1, Zenon DEF Pass
  <2>3. ~RootsPass => stage' = "rejected"
    BY <2>1, Zenon DEF Pass
  <2>4. stage = "roots"
    BY <2>1 DEF Pass
  <2> QED
    BY <1>1, <2>2, <2>3, <2>4 DEF PassInv
<1>5. CASE DetectCycles
  <2>1. stage = "graph" /\ stage' \in {"rejected", "surges", "graph"}
    BY <1>5 DEF DetectCycles
  <2> QED
    BY <1>1, <2>1 DEF PassInv
<1>6. CASE CheckSurges
  <2>1. Pass("surges", "survey", SurgesPass)
    BY <1>6, Zenon DEF CheckSurges, SurgesPass
  <2>2. SurgesPass => stage' = "survey"
    BY <2>1, Zenon DEF Pass
  <2>3. ~SurgesPass => stage' = "rejected"
    BY <2>1, Zenon DEF Pass
  <2>4. stage = "surges"
    BY <2>1 DEF Pass
  <2> QED
    BY <1>1, <2>2, <2>3, <2>4 DEF PassInv
<1>7. CASE FindUnreachable
  <2>1. stage = "survey" /\ stage' \in {"survey", "accepted"}
    BY <1>7 DEF FindUnreachable
  <2> QED
    BY <1>1, <2>1 DEF PassInv
<1>8. CASE Validated \/ UNCHANGED allVars
  <2>1. stage' = stage
    BY <1>8 DEF Validated, allVars
  <2> QED
    BY <1>1, <2>1 DEF PassInv
<1> QED
  BY <1>2, <1>3, <1>4, <1>5, <1>6, <1>7, <1>8 DEF ValidationNext

\* Every document starts in front of the first pass.
LEMMA PassesStart == ValidationInit => PassInv
BY DocumentAssumption DEF ValidationInit, PassInv

\* A lookup that succeeds finds an element of the name.
LEMMA ServiceFound ==
  ASSUME services \in Seq(ServiceDecl), NEW name, FindService(name) # 0
  PROVE  FindService(name) \in 1..Len(services) /\ services[FindService(name)].name = name
<1> DEFINE I == {i \in 1..Len(services) : services[i].name = name}
<1>1. FindService(name) = IF I # {} THEN Min(I) ELSE 0
  BY DEF FindService, SelectInSeq
<1>2. I \in SUBSET Nat
  OBVIOUS
<1>3. I # {} => Min(I) \in I
  <2> HIDE DEF I
  <2> QED
    BY <1>2, MinIsLeast
<1> QED
  BY <1>1, <1>3

\* So does one among the routes of a service.
LEMMA RouteFound ==
  ASSUME NEW s, s.routes \in Seq(RouteDecl), NEW name, FindRoute(s, name) # 0
  PROVE  FindRoute(s, name) \in 1..Len(s.routes)
<1> DEFINE I == {i \in 1..Len(s.routes) : s.routes[i].name = name}
<1>1. FindRoute(s, name) = IF I # {} THEN Min(I) ELSE 0
  BY DEF FindRoute, SelectInSeq
<1>2. I \in SUBSET Nat
  OBVIOUS
<1>3. I # {} => Min(I) \in I
  <2> HIDE DEF I
  <2> QED
    BY <1>2, MinIsLeast
<1> QED
  BY <1>1, <1>3

\* From a list that passes an element of positive weight is drawn.
LEMMA ValidIsDrawable ==
  ASSUME NEW w \in Seq(Int), ValidWeights(w) PROVE Drawable(w)
<1> SUFFICES ASSUME w # <<>>, NEW i \in PickWeighted(w) PROVE i > 0 /\ w[i] > 0
  BY DEF Drawable
<1>1. SumOf(w) # 0
  BY DEF ValidWeights
<1>2. PICK r \in Intn(SumOf(w)) : i = PickAt(w, r)
  BY <1>1 DEF PickWeighted
<1>3. i \in 1..Len(w) /\ w[i] > 0
  BY <1>1, <1>2, PickAtHits
<1> QED
  BY <1>3

\* A latency that passes has samples in both halves.
LEMMA ValidHasDraws ==
  ASSUME NEW l \in LatencyDecl, ValidLatency(l), NEW half \in {"lower", "upper"}
  PROVE  Draws(l, half) # {}
<1>1. l.p50 \in Int /\ l.p99 \in Int /\ 1 <= l.p50 /\ l.p50 <= l.p99
  BY DEF LatencyDecl, ValidLatency
<1>2. Larger(1, l.p50) = l.p50 /\ Larger(l.p50, l.p99) = l.p99
  BY <1>1 DEF Larger
<1>3. Larger(4, l.p50) \in Int /\ Larger(4, l.p50) <= 4 * l.p50
  BY <1>1 DEF Larger
<1>4. CASE l.p99 = l.p50
  BY <1>2, <1>4 DEF Draws
<1>5. CASE l.p99 # l.p50 /\ half = "lower"
  <2>1. Draws(l, half) = Larger(4, l.p50)..(4 * l.p50)
    BY <1>2, <1>5 DEF Draws
  <2>2. 4 * l.p50 \in Larger(4, l.p50)..(4 * l.p50)
    BY <1>1, <1>3
  <2> QED
    BY <2>1, <2>2
<1>6. CASE l.p99 # l.p50 /\ half = "upper"
  <2>1. Draws(l, half) = (4 * l.p50)..(4 * l.p99)
    BY <1>2, <1>6 DEF Draws
  <2>2. 4 * l.p50 \in (4 * l.p50)..(4 * l.p99)
    BY <1>1
  <2> QED
    BY <2>1, <2>2
<1> QED
  BY <1>4, <1>5, <1>6

\* A call whose service and route are declared gets through its emission.
LEMMA ResolvedIsEmittable ==
  ASSUME PassInv, ServicesPass, NEW n, Resolves(n)
  PROVE  Emittable(n)
<1> DEFINE i == FindService(n[1])
           s == services[i]
           j == FindRoute(s, n[2])
           r == s.routes[j]
<1>1. i \in 1..Len(services) /\ services \in Seq(ServiceDecl) /\ j # 0
  BY ServiceFound DEF PassInv, Resolves
<1>2. s \in ServiceDecl /\ ValidService(s)
  <2> HIDE DEF i
  <2>1. DOMAIN services = 1..Len(services)
    BY <1>1
  <2> QED
    BY <1>1, <2>1 DEF ServicesPass
<1> HIDE DEF i, s
<1>3. /\ s.sets \in Seq(Int) /\ s.events \in Seq(Int) /\ s.routes \in Seq(RouteDecl)
      /\ s.instances # <<>> /\ ValidWeights(s.sets) /\ ValidWeights(s.events)
      /\ \A k \in DOMAIN s.routes : ValidRoute(s.routes[k])
  BY <1>2 DEF ServiceDecl, ValidService
<1>4. j \in 1..Len(s.routes)
  BY <1>1, <1>3, RouteFound
<1> HIDE DEF j
<1>5. r \in RouteDecl /\ ValidRoute(r)
  <2>1. DOMAIN s.routes = 1..Len(s.routes)
    BY <1>3
  <2> QED
    BY <1>3, <1>4, <2>1
<1> HIDE DEF r
<1>6. /\ r.sets \in Seq(Int) /\ r.events \in Seq(Int) /\ r.latency \in LatencyDecl
      /\ r.business \in Seq(MetricDecl) /\ ValidLatency(r.latency)
      /\ ValidWeights(r.sets) /\ ValidWeights(r.events)
      /\ \A k \in DOMAIN r.business : ValidBusiness(r.business[k])
  BY <1>5 DEF RouteDecl, ValidRoute
<1>7. Drawable(s.sets) /\ Drawable(s.events) /\ Drawable(r.sets) /\ Drawable(r.events)
  BY <1>3, <1>6, ValidIsDrawable
<1>8. \A half \in {"lower", "upper"} : Draws(r.latency, half) # {}
  BY <1>6, ValidHasDraws
<1>9. ASSUME NEW k \in DOMAIN r.business
      PROVE  /\ r.business[k].kind \in Recorded
             /\ r.business[k].kind = "histogram" /\ r.business[k].min < r.business[k].max =>
                  SampleInRange(r.business[k].min, r.business[k].max)
                    \subseteq r.business[k].min..r.business[k].max
  <2> DEFINE b == r.business[k]
  <2>1. b \in MetricDecl /\ ValidBusiness(b)
    <3>1. DOMAIN r.business = 1..Len(r.business)
      BY <1>6
    <3> QED
      BY <1>6, <3>1
  <2> HIDE DEF b
  <2>2. b.min \in Int /\ b.max \in Int /\ b.kind \in {"counter", "histogram"}
    BY <2>1 DEF MetricDecl, ValidBusiness
  <2>3. b.min < b.max => SampleInRange(b.min, b.max) = b.min..b.max
    BY <2>2 DEF SampleInRange
  <2> QED
    BY <2>2, <2>3 DEF Recorded, b
<1> QED
  BY <1>3, <1>7, <1>8, <1>9 DEF Emittable, r, j, s, i

\* Every call a root route leads to is declared.
LEMMA ReachableResolves ==
  ASSUME TypeOK, ReferencesPass, RootsPass, NEW n \in Reachable
  PROVE  Resolves(n)
<1> DEFINE S == {m \in Node : Resolves(m)}
<1>1. RootSet \subseteq S
  <2>1. roots \in Seq(Node) /\ DOMAIN roots = 1..Len(roots)
    BY DEF TypeOK
  <2> QED
    BY <2>1 DEF RootsPass, RootSet
<1>2. ASSUME NEW m \in S PROVE Callees(m) \subseteq S
  <2>1. m \in Node /\ calls[m] \in CallMap
    BY DEF TypeOK
  <2>2. DOMAIN calls[m] \subseteq Service /\ \A s \in DOMAIN calls[m] : calls[m][s] \in Route
    BY <2>1 DEF CallMap
  <2>3. \A s \in DOMAIN calls[m] : Target(m, s) \in Node /\ Resolves(Target(m, s))
    BY <2>1, <2>2 DEF Target, Node, ReferencesPass
  <2> QED
    BY <2>3 DEF Callees
<1>3. Closed(S)
  BY <1>1, <1>2 DEF Closed
<1> QED
  BY <1>3 DEF Reachable

\* A window that passes opens and closes in every period.
LEMMA WindowOpensAndCloses ==
  ASSUME NEW g \in SurgeDecl, ValidSurge(g)
  PROVE  /\ \E t \in 0..(g.everyMinutes * SecondsPerMinute - 1) : WindowOpen(g, t)
         /\ \E t \in 0..(g.everyMinutes * SecondsPerMinute - 1) : ~WindowOpen(g, t)
<1> DEFINE period == g.everyMinutes * SecondsPerMinute
           open == g.durationSeconds
<1>1. g.everyMinutes \in Nat \ {0} /\ open \in Nat \ {0} /\ open < period
  BY DEF SurgeDecl, ValidSurge
<1>2. SecondsPerMinute \in Nat \ {0}
  BY DocumentAssumption
<1>3. period \in Nat
  BY <1>1, <1>2
<1>4. \A t : WindowOpen(g, t) <=> period > 0 /\ t % period < open
  BY DEF WindowOpen
<1> HIDE DEF period, open
<1>5. 0 % period = 0 /\ open % period = open
  BY <1>1, <1>3
<1>6. 0 \in 0..(period - 1) /\ open \in 0..(period - 1)
  BY <1>1, <1>3
<1>7. WindowOpen(g, 0) /\ ~WindowOpen(g, open)
  BY <1>1, <1>3, <1>4, <1>5
<1> QED
  BY <1>6, <1>7 DEF period

\* Services are told apart by their names.
LEMMA NamesDiffer ==
  ASSUME NEW list, NEW empty, Named(list, empty), NEW m \in Nat, DOMAIN list = 1..m,
         NEW i \in DOMAIN list, NEW j \in DOMAIN list, list[i].name = list[j].name
  PROVE  i = j
<1>1. i \in 1..m /\ j \in 1..m
  OBVIOUS
<1>2. ~(i < j)
  <2>1. i < j => i \in 1..(j - 1)
    BY <1>1
  <2> QED
    BY <2>1 DEF Named
<1>3. ~(j < i)
  <2>1. j < i => j \in 1..(i - 1)
    BY <1>1
  <2> QED
    BY <2>1 DEF Named
<1> QED
  BY <1>1, <1>2, <1>3

\* What has come through all passes can be run.
LEMMA PassedIsRunnable == PassInv /\ TypeOK => AcceptedIsRunnable
<1> SUFFICES ASSUME PassInv, TypeOK, stage = "accepted" PROVE AcceptedIsRunnable
  BY DEF AcceptedIsRunnable
<1>1. ServicesPass /\ ReferencesPass /\ RootsPass /\ SurgesPass
  BY DEF PassInv
<1>2. services \in Seq(ServiceDecl) /\ surges \in Seq(SurgeDecl) /\ roots \in Seq(Node)
  BY DEF PassInv, TypeOK
<1>3. \A n \in Reachable : Emittable(n)
  BY <1>1, ReachableResolves, ResolvedIsEmittable
<1>4. ASSUME NEW i \in DOMAIN services, NEW j \in DOMAIN services,
             services[i].name = services[j].name
      PROVE  i = j
  <2>1. Len(services) \in Nat /\ DOMAIN services = 1..Len(services)
    BY <1>2
  <2>2. Named(services, 0)
    BY <1>1 DEF ServicesPass
  <2> QED
    BY <1>4, <2>1, <2>2, NamesDiffer
<1>5. RootSet # {} /\ \A i \in DOMAIN roots : rates[i] > 0
  <2>1. roots # <<>>
    BY <1>1 DEF ServicesPass
  <2>2. Len(roots) \in Nat /\ Len(roots) # 0
    BY <1>2, <2>1
  <2>3. roots[1] \in RootSet
    BY <2>2 DEF RootSet
  <2> QED
    BY <1>1, <2>3 DEF RootsPass
<1>6. ASSUME NEW i \in DOMAIN surges
      PROVE  LET g == surges[i]
                 period == 0..(g.everyMinutes * SecondsPerMinute - 1)
             IN  /\ \E t \in period : WindowOpen(g, t)
                 /\ \E t \in period : ~WindowOpen(g, t)
                 /\ g.routes = {} \/ \E n \in RootSet : n[2] \in g.routes
  <2> DEFINE g == surges[i]
  <2>1. g \in SurgeDecl /\ ValidSurge(g)
    <3>1. DOMAIN surges = 1..Len(surges)
      BY <1>2
    <3> QED
      BY <1>1, <1>2, <3>1 DEF SurgesPass
  <2> HIDE DEF g
  <2>2. g.routes = {} \/ \E n \in RootSet : n[2] \in g.routes
    BY <2>1 DEF ValidSurge
  <2> QED
    BY <2>1, <2>2, WindowOpensAndCloses DEF g
<1> QED
  BY <1>3, <1>4, <1>5, <1>6 DEF AcceptedIsRunnable

\* A document that is accepted meets what the run takes for granted.
THEOREM AcceptedRuns == ValidationSpec => []AcceptedIsRunnable
<1>1. ValidationSpec => []PassInv
  <2>1. PassInv /\ [ValidationNext]_allVars => PassInv'
    BY PassesKeep
  <2> QED
    BY <2>1, PassesStart, PTL DEF ValidationSpec
<1>2. ValidationSpec => []TypeOK
  BY ValidationIsCycleCheck, TypeCorrect, PTL
<1>3. PassInv /\ TypeOK => AcceptedIsRunnable
  BY PassedIsRunnable
<1> QED
  BY <1>1, <1>2, <1>3, PTL

=============================================================================
