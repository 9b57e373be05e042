---------------------------- MODULE EmissionProofs ----------------------------
(***************************************************************************)
(* Proofs about Emission, and about the reporter of Progress that reads    *)
(* its counters, for every finite forest of calls.                         *)
(***************************************************************************)
EXTENDS Progress, TLAPS, FiniteSetTheorems

\* Where a goroutine stands relative to the life of its span.
SpanInv ==
  \A c \in Call :
    /\ pc[c] \in {"idle", "enter", "count", "start"} => span[c] = "none" /\ c \notin panicked
    /\ pc[c] \in {"dress", "errcount", "logcount", "sample", "fanout", "wait", "end"} =>
         span[c] = "open" /\ c \notin panicked
    /\ pc[c] \in {"record", "business"} => span[c] = "ended" /\ c \notin panicked
    /\ pc[c] = "recover" => c \in panicked
    /\ pc[c] \in {"return", "done"} /\ c \notin panicked => span[c] = "ended"

\* A call reached its fan-out, or is past it, or was cut off by a panic.
Fanning == {"fanout", "wait"}
Fanned == {"fanout", "wait", "end", "record", "business", "recover", "return", "done"}

\* Where a callee can stand, given where its caller stands.
FanInv ==
  \A c \in Call : \A d \in Children[c] :
    /\ pc[d] # "idle" => pc[c] \in Fanned
    /\ Running(d) => pc[c] \in Fanning
    /\ pc[c] \in {"wait", "end", "record", "business"} => pc[d] # "idle"
    /\ span[c] = "ended" => pc[d] = "done"

\* Only a tick or a caller starts a call.
MadeInv ==
  \A d \in Call : pc[d] # "idle" => d \in Root \/ \E c \in Call : d \in Children[c]

IInv ==
  /\ TypeOK
  /\ SpanInv
  /\ FanInv
  /\ MadeInv
  /\ WaitGroupExact

RunningBelow(c) == {d \in Children[c] : Running(d)}

-----------------------------------------------------------------------------
(* The forest *)

\* What the assumption on the constants says of one call and its callees.
LEMMA ForestFacts ==
  /\ \A c \in Call : Children[c] \subseteq Call
  /\ \A c \in Call : \A d \in Children[c] : d \in Call /\ d # c /\ d \notin Root
  /\ \A c, p \in Call : \A d \in Children[c] : d \in Children[p] => p = c
BY ForestAssumption DEF CallsAreForest

\* The callees of a call still running are finitely many.
LEMMA RunningIsFinite ==
  ASSUME NEW c \in Call
  PROVE  IsFiniteSet(RunningBelow(c))
<1>1. RunningBelow(c) \subseteq Call
  BY ForestFacts DEF RunningBelow
<1> QED
  BY <1>1, CallAssumption, FS_Subset DEF CallsAreFinite

\* A step between two statements of one goroutine leaves every WaitGroup and
\* every set of running callees as they are.
LEMMA InnerStepWaits ==
  ASSUME IInv, NEW c \in Call, NEW from, NEW to,
         from \notin {"idle", "done"}, to \notin {"idle", "done"},
         Goto(c, from, to), wg' = wg
  PROVE  WaitGroupExact'
<1>1. \A d \in Call : Running(d)' <=> Running(d)
  BY DEF Running, Goto, IInv, TypeOK
<1>2. \A p \in Call : {d \in Children[p] : Running(d)}' = {d \in Children[p] : Running(d)}
  BY <1>1, ForestFacts
<1> QED
  BY <1>2 DEF IInv, WaitGroupExact

-----------------------------------------------------------------------------
(* One lemma per action, the quiet ones together *)

\* Before the first tick nothing runs.
LEMMA InitInv == Init => IInv
<1> SUFFICES ASSUME Init PROVE IInv
  OBVIOUS
<1>1. TypeOK
  BY DEF Init, TypeOK
<1>2. SpanInv /\ MadeInv
  BY DEF Init, SpanInv, MadeInv
<1>3. FanInv
  BY ForestFacts DEF Init, FanInv, Running
<1>4. WaitGroupExact
  <2> SUFFICES ASSUME NEW c \in Call
               PROVE  wg[c] = Cardinality({d \in Children[c] : Running(d)})
    BY DEF WaitGroupExact
  <2>1. {d \in Children[c] : Running(d)} = {}
    BY ForestFacts DEF Init, Running
  <2> QED
    BY <2>1, FS_EmptySet DEF Init
<1> QED
  BY <1>1, <1>2, <1>3, <1>4 DEF IInv

\* The statements that only count, draw, record or recover.
Quiet(c) ==
  \/ CountTrace(c) \/ CountSpan(c) \/ Start(c) \/ Dress(c) \/ CountError(c)
  \/ CountLog(c) \/ Sample(c) \/ Launched(c) \/ EndSpan(c) \/ RecordRED(c)
  \/ RecordBusiness(c) \/ Recover(c)

\* A statement that moves one goroutine and no WaitGroup keeps the invariant.
LEMMA QuietInv ==
  ASSUME IInv, NEW c \in Call, Quiet(c) PROVE IInv'
<1>1. TypeOK'
  <2> USE DEF IInv, TypeOK, Goto, counters, metrics, Body, Exit
  <2>1. CASE CountTrace(c)
    BY <2>1 DEF CountTrace
  <2>2. CASE CountSpan(c)
    BY <2>2 DEF CountSpan
  <2>3. CASE Start(c)
    BY <2>3 DEF Start
  <2>4. CASE Dress(c)
    BY <2>4 DEF Dress
  <2>5. CASE CountError(c)
    BY <2>5 DEF CountError
  <2>6. CASE CountLog(c)
    BY <2>6 DEF CountLog
  <2>7. CASE Sample(c)
    BY <2>7 DEF Sample
  <2>8. CASE Launched(c)
    BY <2>8 DEF Launched
  <2>9. CASE EndSpan(c)
    BY <2>9 DEF EndSpan
  <2>10. CASE RecordRED(c)
    BY <2>10 DEF RecordRED
  <2>11. CASE RecordBusiness(c)
    BY <2>11 DEF RecordBusiness
  <2>12. CASE Recover(c)
    BY <2>12 DEF Recover
  <2> QED
    BY <2>1, <2>2, <2>3, <2>4, <2>5, <2>6, <2>7, <2>8, <2>9, <2>10, <2>11, <2>12 DEF Quiet
<1>2. SpanInv'
  BY DEF IInv, TypeOK, SpanInv, Quiet, Goto,
         CountTrace, CountSpan, Start, Dress, CountError, CountLog, Sample,
         Launched, EndSpan, RecordRED, RecordBusiness, Recover
<1>3. MadeInv'
  BY DEF IInv, TypeOK, MadeInv, Quiet, Goto,
         CountTrace, CountSpan, Start, Dress, CountError, CountLog, Sample,
         Launched, EndSpan, RecordRED, RecordBusiness, Recover
<1>4. FanInv'
  <2> USE ForestFacts DEF IInv, TypeOK, SpanInv, FanInv, Fanning, Fanned, Running, Goto
  <2>1. CASE CountTrace(c)
    BY <2>1 DEF CountTrace
  <2>2. CASE CountSpan(c)
    BY <2>2 DEF CountSpan
  <2>3. CASE Start(c)
    BY <2>3 DEF Start
  <2>4. CASE Dress(c)
    BY <2>4 DEF Dress
  <2>5. CASE CountError(c)
    BY <2>5 DEF CountError
  <2>6. CASE CountLog(c)
    BY <2>6 DEF CountLog
  <2>7. CASE Sample(c)
    BY <2>7 DEF Sample
  <2>8. CASE Launched(c)
    BY <2>8 DEF Launched
  <2>9. CASE EndSpan(c)
    BY <2>9 DEF EndSpan
  <2>10. CASE RecordRED(c)
    BY <2>10 DEF RecordRED
  <2>11. CASE RecordBusiness(c)
    BY <2>11 DEF RecordBusiness
  <2>12. CASE Recover(c)
    BY <2>12 DEF Recover
  <2> QED
    BY <2>1, <2>2, <2>3, <2>4, <2>5, <2>6, <2>7, <2>8, <2>9, <2>10, <2>11, <2>12 DEF Quiet
<1>5. WaitGroupExact'
  BY InnerStepWaits
  DEF Quiet, CountTrace, CountSpan, Start, Dress, CountError, CountLog, Sample,
      Launched, EndSpan, RecordRED, RecordBusiness, Recover
<1> QED
  BY <1>1, <1>2, <1>3, <1>4, <1>5 DEF IInv

\* A tick starts a root, which is nobody's callee.
LEMMA TickInv ==
  ASSUME IInv, NEW c \in Call, Tick(c) PROVE IInv'
<1>1. c \in Root /\ \A p \in Call : c \notin Children[p]
  BY ForestFacts DEF Tick
<1>2. TypeOK'
  BY DEF IInv, TypeOK, Tick, Goto, counters, metrics, Body
<1>3. SpanInv'
  BY DEF IInv, TypeOK, SpanInv, Tick, Goto
<1>4. FanInv'
  BY <1>1, ForestFacts
  DEF IInv, TypeOK, FanInv, Fanning, Fanned, Running, Tick, Goto
<1>5. MadeInv'
  BY <1>1 DEF IInv, TypeOK, MadeInv, Tick, Goto
<1>6. WaitGroupExact'
  <2>1. \A p \in Call : \A d \in Children[p] : Running(d)' <=> Running(d)
    BY <1>1, ForestFacts DEF IInv, TypeOK, Running, Tick, Goto
  <2>2. \A p \in Call : {d \in Children[p] : Running(d)}' = {d \in Children[p] : Running(d)}
    BY <2>1
  <2> QED
    BY <2>2 DEF IInv, WaitGroupExact, Tick
<1> QED
  BY <1>2, <1>3, <1>4, <1>5, <1>6 DEF IInv

\* A launch adds the callee to the WaitGroup and to the running callees of
\* its caller, and of no other call.
LEMMA LaunchInv ==
  ASSUME IInv, NEW c \in Call, NEW d \in Children[c], Launch(c, d) PROVE IInv'
<1>1. /\ d \in Call /\ d # c
      /\ pc[c] = "fanout" /\ pc[d] = "idle"
      /\ pc' = [pc EXCEPT ![d] = "enter"]
      /\ wg' = [wg EXCEPT ![c] = @ + 1]
      /\ span' = span /\ panicked' = panicked
      /\ \A p \in Call : d \in Children[p] => p = c
  BY ForestFacts DEF Launch
<1>2. TypeOK'
  BY <1>1 DEF IInv, TypeOK, Launch, counters, metrics, Body
<1>3. SpanInv'
  BY <1>1 DEF IInv, TypeOK, SpanInv
<1>4. FanInv'
  <2>1. span[d] = "none" /\ span[c] = "open"
    BY <1>1 DEF IInv, SpanInv
  <2>2. \A k \in Children[d] : pc[k] = "idle"
    BY <1>1, ForestFacts DEF IInv, FanInv, Fanned
  <2> QED
    BY <1>1, <2>1, <2>2, ForestFacts
    DEF IInv, TypeOK, FanInv, Fanning, Fanned, Running
<1>5. MadeInv'
  BY <1>1 DEF IInv, TypeOK, MadeInv
<1>6. WaitGroupExact'
  <2> SUFFICES ASSUME NEW p \in Call
               PROVE  wg'[p] = Cardinality(RunningBelow(p)')
    BY DEF WaitGroupExact, RunningBelow
  <2>1. CASE p = c
    <3>1. RunningBelow(c)' = RunningBelow(c) \cup {d}
      BY <1>1, ForestFacts DEF RunningBelow, Running, IInv, TypeOK
    <3>2. d \notin RunningBelow(c)
      BY <1>1 DEF RunningBelow, Running
    <3>3. Cardinality(RunningBelow(c)') = Cardinality(RunningBelow(c)) + 1
      BY <3>1, <3>2, RunningIsFinite, FS_AddElement
    <3>4. wg'[c] = wg[c] + 1
      BY <1>1 DEF IInv, TypeOK
    <3> QED
      BY <2>1, <3>3, <3>4 DEF IInv, WaitGroupExact, RunningBelow
  <2>2. CASE p # c
    <3>1. RunningBelow(p)' = RunningBelow(p)
      BY <1>1, <2>2, ForestFacts DEF RunningBelow, Running, IInv, TypeOK
    <3>2. wg'[p] = wg[p]
      BY <1>1, <2>2 DEF IInv, TypeOK
    <3> QED
      BY <3>1, <3>2 DEF IInv, WaitGroupExact, RunningBelow
  <2> QED
    BY <2>1, <2>2
<1> QED
  BY <1>2, <1>3, <1>4, <1>5, <1>6 DEF IInv

\* Wait returns when no callee runs, and by then each has been launched.
LEMMA JoinInv ==
  ASSUME IInv, NEW c \in Call, Join(c) PROVE IInv'
<1>1. \A d \in Children[c] : pc[d] = "done"
  <2>1. RunningBelow(c) = {}
    BY RunningIsFinite, FS_EmptySet DEF Join, IInv, WaitGroupExact, RunningBelow
  <2> QED
    BY <2>1 DEF RunningBelow, Running, Join, Goto, IInv, FanInv
<1>2. TypeOK'
  BY DEF IInv, TypeOK, Join, Goto, counters, metrics, Body
<1>3. SpanInv' /\ MadeInv'
  BY DEF IInv, TypeOK, SpanInv, MadeInv, Join, Goto
<1>4. FanInv'
  BY <1>1, ForestFacts
  DEF IInv, TypeOK, FanInv, Fanning, Fanned, Running, Join, Goto
<1>5. WaitGroupExact'
  BY InnerStepWaits DEF Join
<1> QED
  BY <1>2, <1>3, <1>4, <1>5 DEF IInv

\* A panic never strikes while a callee runs: no statement of the fan-out is
\* fragile.
LEMMA PanicInv ==
  ASSUME IInv, NEW c \in Call, Panic(c) PROVE IInv'
<1>1. TypeOK'
  BY DEF IInv, TypeOK, Panic, counters, Exit
<1>2. SpanInv' /\ MadeInv'
  BY DEF IInv, TypeOK, SpanInv, MadeInv, Panic, Fragile
<1>3. FanInv'
  BY ForestFacts
  DEF IInv, TypeOK, FanInv, Fanning, Fanned, Running, Panic, Fragile
<1>4. WaitGroupExact'
  <2>1. \A d \in Call : Running(d)' <=> Running(d)
    BY DEF IInv, TypeOK, Running, Panic, Fragile
  <2>2. \A p \in Call : {d \in Children[p] : Running(d)}' = {d \in Children[p] : Running(d)}
    BY <2>1, ForestFacts
  <2> QED
    BY <2>2 DEF IInv, WaitGroupExact, Panic
<1> QED
  BY <1>1, <1>2, <1>3, <1>4 DEF IInv

\* The deferred Done takes the callee off its caller's WaitGroup and off the
\* callees that run.
LEMMA ReturnInv ==
  ASSUME IInv, NEW c \in Call, Return(c) PROVE IInv'
<1>1. /\ pc[c] = "return" /\ pc' = [pc EXCEPT ![c] = "done"]
      /\ wg' = [p \in Call |-> IF c \in Children[p] THEN wg[p] - 1 ELSE wg[p]]
      /\ span' = span /\ panicked' = panicked
  BY DEF Return, Goto
<1>2. SpanInv' /\ MadeInv'
  BY <1>1 DEF IInv, TypeOK, SpanInv, MadeInv
<1>3. FanInv'
  BY <1>1, ForestFacts DEF IInv, TypeOK, FanInv, Fanning, Fanned, Running
<1>4. ASSUME NEW p \in Call
      PROVE  /\ wg'[p] = Cardinality(RunningBelow(p)')
             /\ wg'[p] \in Nat
  <2>1. wg[p] = Cardinality(RunningBelow(p)) /\ wg[p] \in Nat
    BY DEF IInv, TypeOK, WaitGroupExact, RunningBelow
  <2>2. CASE c \in Children[p]
    <3>1. RunningBelow(p)' = RunningBelow(p) \ {c}
      BY <1>1, ForestFacts DEF RunningBelow, Running, IInv, TypeOK
    <3>2. c \in RunningBelow(p)
      BY <1>1, <2>2 DEF RunningBelow, Running
    <3>3. Cardinality(RunningBelow(p)') = Cardinality(RunningBelow(p)) - 1
      BY <3>1, <3>2, RunningIsFinite, FS_RemoveElement
    <3>4. IsFiniteSet(RunningBelow(p)')
      BY <3>1, RunningIsFinite, FS_RemoveElement
    <3>5. Cardinality(RunningBelow(p)') \in Nat
      BY <3>4, FS_CardinalityType
    <3>6. wg'[p] = wg[p] - 1
      BY <1>1, <2>2
    <3> QED
      BY <2>1, <3>3, <3>5, <3>6
  <2>3. CASE c \notin Children[p]
    <3>1. RunningBelow(p)' = RunningBelow(p)
      BY <1>1, <2>3, ForestFacts DEF RunningBelow, Running, IInv, TypeOK
    <3>2. wg'[p] = wg[p]
      BY <1>1, <2>3
    <3> QED
      BY <2>1, <3>1, <3>2
  <2> QED
    BY <2>2, <2>3
<1>5. WaitGroupExact'
  BY <1>4 DEF WaitGroupExact, RunningBelow
<1>6. TypeOK'
  <2>1. wg' \in [Call -> Nat]
    BY <1>1, <1>4
  <2> QED
    BY <1>1, <2>1 DEF IInv, TypeOK, Return, counters, metrics
<1> QED
  BY <1>2, <1>3, <1>5, <1>6 DEF IInv

\* A stuttering step keeps it.
LEMMA StutterInv ==
  ASSUME IInv, UNCHANGED vars PROVE IInv'
BY DEF IInv, vars, counters, metrics, TypeOK, SpanInv, FanInv, MadeInv,
       WaitGroupExact, Running

\* Whatever step the goroutines take keeps the invariant.
LEMMA NextInv ==
  ASSUME IInv, [Next]_vars PROVE IInv'
<1>1. CASE UNCHANGED vars
  BY <1>1, StutterInv
<1>2. ASSUME NEW c \in Call, Tick(c) \/ Step(c) \/ Panic(c)
      PROVE  IInv'
  <2>1. CASE Quiet(c)
    BY <2>1, QuietInv
  <2>2. CASE \E d \in Children[c] : Launch(c, d)
    BY <2>2, LaunchInv
  <2>3. CASE Join(c)
    BY <2>3, JoinInv
  <2>4. CASE Return(c)
    BY <2>4, ReturnInv
  <2>5. CASE Tick(c)
    BY <2>5, TickInv
  <2>6. CASE Panic(c)
    BY <2>6, PanicInv
  <2> QED
    BY <1>2, <2>1, <2>2, <2>3, <2>4, <2>5, <2>6 DEF Step, Quiet
<1> QED
  BY <1>1, <1>2 DEF Next

\* IInv holds whatever the goroutines do and whichever of them panic.
THEOREM Invariance == Spec => []IInv
<1>1. Init => IInv
  BY InitInv
<1>2. IInv /\ [Next]_vars => IInv'
  BY NextInv
<1> QED
  BY <1>1, <1>2, PTL DEF Spec

-----------------------------------------------------------------------------
(* What follows from the invariant *)

\* The variables keep their types; in particular no WaitGroup goes negative,
\* which would be a panic of its own.
THEOREM TypeCorrect == Spec => []TypeOK
<1>1. IInv => TypeOK
  BY DEF IInv
<1> QED
  BY <1>1, Invariance, PTL

\* No callee outlives the open span it is nested in, for any forest of calls
\* and any pattern of panics.
THEOREM SpansNest == Spec => []ParentSpanOpen
<1>1. IInv => ParentSpanOpen
  <2> SUFFICES ASSUME IInv, NEW c \in Call, NEW d \in Children[c], Running(d)
               PROVE  span[c] = "open" /\ pc[c] \in {"fanout", "wait"}
    BY DEF ParentSpanOpen
  <2>1. pc[c] \in {"fanout", "wait"}
    BY DEF IInv, FanInv, Fanning
  <2> QED
    BY <2>1 DEF IInv, SpanInv
<1> QED
  BY <1>1, Invariance, PTL

\* The WaitGroup always counts the callees that have yet to come back.
THEOREM WaitGroupsCount == Spec => []WaitGroupExact
<1>1. IInv => WaitGroupExact
  BY DEF IInv
<1> QED
  BY <1>1, Invariance, PTL

\* A call that did not panic itself ends its span and makes all its calls.
THEOREM PanicsStayLocal == Spec => []PanicStaysLocal
<1>1. IInv => PanicStaysLocal
  BY DEF IInv, SpanInv, FanInv, PanicStaysLocal
<1> QED
  BY <1>1, Invariance, PTL

-----------------------------------------------------------------------------
(* The goroutines implement the forest of spans *)

\* The status of one call, without the function around it.
LEMMA StatusOf ==
  ASSUME NEW c \in Call, IInv
  PROVE  /\ Status[c] = "ended" <=> span[c] = "ended"
         /\ Status[c] = "lost" <=> span[c] # "ended" /\ c \in panicked
         /\ Status[c] = "open" <=> span[c] = "open" /\ c \notin panicked
         /\ Status[c] = "absent" <=> span[c] = "none" /\ c \notin panicked
BY DEF Status, IInv, TypeOK

\* Whoever has left "idle" hangs under an open span, while it runs.
LEMMA RunningIsAllowed ==
  ASSUME IInv, NEW c \in Call, Running(c)
  PROVE  Forest!Allowed(c)
<1>1. CASE c \in Root
  BY <1>1 DEF Forest!Allowed
<1>2. CASE c \notin Root
  <2>1. PICK p \in Call : c \in Children[p]
    BY <1>2 DEF IInv, MadeInv, Running
  <2>2. span[p] = "open" /\ p \notin panicked
    BY <2>1 DEF IInv, FanInv, SpanInv, Fanning
  <2>3. Status[p] = "open"
    BY <2>2, StatusOf
  <2> QED
    BY <2>1, <2>3 DEF Forest!Allowed
<1> QED
  BY <1>1, <1>2

\* Tracer.Start opens the span of a call, as the forest allows.
LEMMA StartOpens ==
  ASSUME IInv, NEW c \in Call, Start(c) PROVE Forest!Open(c)
<1>1. Status[c] = "absent"
  BY StatusOf DEF IInv, SpanInv, Start, Goto
<1>2. Forest!Allowed(c)
  BY RunningIsAllowed DEF Start, Goto, Running
<1>3. Status' = [Status EXCEPT ![c] = "open"]
  BY DEF Status, Start, Goto, IInv, TypeOK, SpanInv
<1> QED
  BY <1>1, <1>2, <1>3 DEF Forest!Open

\* span.End ends it when every span below is settled.
LEMMA EndSpanEnds ==
  ASSUME IInv, NEW c \in Call, EndSpan(c) PROVE Forest!End(c)
<1>1. Status[c] = "open"
  BY StatusOf DEF IInv, SpanInv, EndSpan, Goto
<1>2. ASSUME NEW d \in Children[c] PROVE Status[d] \in {"ended", "lost"}
  <2>1. d \in Call
    BY ForestFacts
  <2>2. pc[d] = "done"
    BY DEF IInv, FanInv, Running, Fanning, EndSpan, Goto
  <2> QED
    BY <2>1, <2>2, StatusOf DEF IInv, SpanInv
<1>3. Status' = [Status EXCEPT ![c] = "ended"]
  BY DEF Status, EndSpan, Goto, IInv, TypeOK, SpanInv
<1> QED
  BY <1>1, <1>2, <1>3 DEF Forest!End, Forest!Settled

\* A panic loses the span, with none open below it, unless it has ended.
LEMMA PanicLoses ==
  ASSUME IInv, NEW c \in Call, Panic(c)
  PROVE  Forest!Lose(c) \/ Status' = Status
<1>1. CASE span[c] = "ended"
  BY <1>1 DEF Status, Panic, IInv, TypeOK
<1>2. CASE span[c] # "ended"
  <2>1. Status[c] = "open" \/ (Status[c] = "absent" /\ Forest!Allowed(c))
    BY <1>2, StatusOf, RunningIsAllowed DEF Panic, Fragile, Running, IInv, TypeOK, SpanInv
  <2>2. ASSUME NEW d \in Children[c] PROVE Status[d] # "open"
    <3>1. d \in Call
      BY ForestFacts
    <3>2. pc[d] \in {"idle", "done"}
      BY DEF IInv, FanInv, Running, Fanning, Panic, Fragile
    <3> QED
      BY <3>1, <3>2, StatusOf DEF IInv, SpanInv
  <2>3. Status' = [Status EXCEPT ![c] = "lost"]
    BY <1>2 DEF Status, Panic, IInv, TypeOK
  <2> QED
    BY <2>1, <2>2, <2>3 DEF Forest!Lose
<1> QED
  BY <1>1, <1>2

\* EmitTrace implements SpanForest: for every forest of calls, each step of a
\* goroutine opens, ends or loses one span as SpanForest allows, or changes
\* none.
THEOREM EmissionImplementsForest == Spec => ImplementsForest
<1>1. Init => Forest!Init
  BY DEF Init, Forest!Init, Status
<1>2. IInv /\ [Next]_vars => [Forest!Next]_Status
  <2> SUFFICES ASSUME IInv, [Next]_vars PROVE [Forest!Next]_Status
    OBVIOUS
  <2>1. CASE UNCHANGED vars
    BY <2>1 DEF vars, Status
  <2>2. ASSUME NEW c \in Call, Tick(c) \/ Step(c) \/ Panic(c)
        PROVE  Forest!Open(c) \/ Forest!End(c) \/ Forest!Lose(c) \/ Status' = Status
    <3>1. CASE Start(c)
      BY <3>1, StartOpens
    <3>2. CASE EndSpan(c)
      BY <3>2, EndSpanEnds
    <3>3. CASE Panic(c)
      BY <3>3, PanicLoses
    <3>4. CASE span' = span /\ panicked' = panicked
      BY <3>4 DEF Status
    <3> QED
      BY <2>2, <3>1, <3>2, <3>3, <3>4
      DEF Step, Tick, CountTrace, CountSpan, Dress, CountError, CountLog, Sample,
          Launch, Launched, Join, RecordRED, RecordBusiness, Recover, Return
  <2> QED
    BY <2>1, <2>2 DEF Next, Forest!Next
<1> QED
  BY <1>1, <1>2, Invariance, PTL DEF Spec, ImplementsForest, Forest!Spec

-----------------------------------------------------------------------------
(* The counters *)

\* Of which calls a counter certainly, and at most, tells.
Traced    == {c \in Call : c \in Root /\ pc[c] \notin {"idle", "enter"}}
Spanned   == {c \in Call : pc[c] \notin {"idle", "enter", "count"}}
Recovered == {c \in Call : c \in panicked /\ pc[c] # "recover"}
Erred     == {c \in Call : failed[c] /\ pc[c] # "errcount"}
Logged    == {c \in Call : \/ pc[c] \in {"sample", "fanout", "wait", "end", "record", "business"}
                           \/ span[c] = "ended"}
LoggedMost == {c \in Call : c \in Logged \/ c \in panicked}
Requested == {c \in Call : pc[c] = "business" \/ (pc[c] \in {"return", "done"} /\ c \notin panicked)}
RequestedMost == {c \in Call : span[c] = "ended" /\ pc[c] # "record"}
Denied     == {c \in Call : failed[c] /\ c \in Requested}
DeniedMost == {c \in Call : failed[c] /\ (c \in Requested \/ c \in panicked)}

\* A call fails when it is dressed. The counters of traces, spans, panics and
\* failed spans tell of certain calls; of logs and the RED metrics a panic blurs
\* what is told of the call it strikes.
CountInv ==
  /\ \A c \in Call : /\ pc[c] \in {"idle", "enter", "count", "start", "dress"} => failed[c] = FALSE
                     /\ pc[c] = "errcount" => failed[c] = TRUE
  /\ traces = Cardinality(Traced)
  /\ spans = Cardinality(Spanned)
  /\ panics = Cardinality(Recovered)
  /\ errSpans = Cardinality(Erred)
  /\ Cardinality(Logged) <= logs /\ logs <= Cardinality(LoggedMost)
  /\ Cardinality(Requested) <= reqCount /\ reqCount <= Cardinality(RequestedMost)
  /\ Cardinality(Denied) <= errCount /\ errCount <= Cardinality(DeniedMost)

\* The cardinalities of two sets that differ in c at most.
Moves(S, T, c) ==
  /\ Cardinality(S) \in Nat /\ Cardinality(T) \in Nat
  /\ (c \in S <=> c \in T) => Cardinality(T) = Cardinality(S)
  /\ c \notin S /\ c \in T => Cardinality(T) = Cardinality(S) + 1
  /\ c \in S /\ c \notin T => Cardinality(S) = Cardinality(T) + 1

\* An element more or less is one more or less.
LEMMA OneMoves ==
  ASSUME NEW S \in SUBSET Call, NEW T \in SUBSET Call, NEW c \in Call,
         \A d \in Call : d # c => (d \in S <=> d \in T)
  PROVE  Moves(S, T, c)
<1>1. IsFiniteSet(S) /\ IsFiniteSet(T)
  BY CallAssumption, FS_Subset DEF CallsAreFinite
<1>2. Cardinality(S) \in Nat /\ Cardinality(T) \in Nat
  BY <1>1, FS_CardinalityType
<1>3. (c \in S <=> c \in T) => S = T
  OBVIOUS
<1>4. c \notin S /\ c \in T => T = S \cup {c}
  OBVIOUS
<1>5. c \in S /\ c \notin T => S = T \cup {c}
  OBVIOUS
<1>6. /\ c \notin S => Cardinality(S \cup {c}) = Cardinality(S) + 1
      /\ c \notin T => Cardinality(T \cup {c}) = Cardinality(T) + 1
  BY <1>1, FS_AddElement
<1> QED
  BY <1>2, <1>3, <1>4, <1>5, <1>6 DEF Moves

\* What is told of a call, before and after a step.
LEMMA Told ==
  ASSUME NEW c \in Call
  PROVE  /\ c \in Traced <=> c \in Root /\ pc[c] \notin {"idle", "enter"}
         /\ c \in Spanned <=> pc[c] \notin {"idle", "enter", "count"}
         /\ c \in Recovered <=> c \in panicked /\ pc[c] # "recover"
         /\ c \in Erred <=> failed[c] /\ pc[c] # "errcount"
         /\ c \in Logged <=> \/ pc[c] \in {"sample", "fanout", "wait", "end", "record", "business"}
                             \/ span[c] = "ended"
         /\ c \in LoggedMost <=> c \in Logged \/ c \in panicked
         /\ c \in Requested <=> \/ pc[c] = "business"
                                \/ pc[c] \in {"return", "done"} /\ c \notin panicked
         /\ c \in RequestedMost <=> span[c] = "ended" /\ pc[c] # "record"
         /\ c \in Denied <=> failed[c] /\ c \in Requested
         /\ c \in DeniedMost <=> failed[c] /\ (c \in Requested \/ c \in panicked)
BY DEF Traced, Spanned, Recovered, Erred, Logged, LoggedMost, Requested, RequestedMost, Denied, DeniedMost

\* The same of the state after it.
LEMMA ToldNext ==
  ASSUME NEW c \in Call
  PROVE  /\ c \in Traced' <=> c \in Root /\ pc'[c] \notin {"idle", "enter"}
         /\ c \in Spanned' <=> pc'[c] \notin {"idle", "enter", "count"}
         /\ c \in Recovered' <=> c \in panicked' /\ pc'[c] # "recover"
         /\ c \in Erred' <=> failed'[c] /\ pc'[c] # "errcount"
         /\ c \in Logged' <=> \/ pc'[c] \in {"sample", "fanout", "wait", "end", "record", "business"}
                              \/ span'[c] = "ended"
         /\ c \in LoggedMost' <=> c \in Logged' \/ c \in panicked'
         /\ c \in Requested' <=> \/ pc'[c] = "business"
                                 \/ pc'[c] \in {"return", "done"} /\ c \notin panicked'
         /\ c \in RequestedMost' <=> span'[c] = "ended" /\ pc'[c] # "record"
         /\ c \in Denied' <=> failed'[c] /\ c \in Requested'
         /\ c \in DeniedMost' <=> failed'[c] /\ (c \in Requested' \/ c \in panicked')
BY DEF Traced, Spanned, Recovered, Erred, Logged, LoggedMost, Requested, RequestedMost, Denied, DeniedMost

\* A step of one goroutine.
Only(c) ==
  \A d \in Call : d # c =>
    /\ pc'[d] = pc[d] /\ span'[d] = span[d]
    /\ failed'[d] = failed[d] /\ (d \in panicked' <=> d \in panicked)

\* It changes what is told of its call alone.
LEMMA SetsMove ==
  ASSUME NEW c \in Call, Only(c)
  PROVE  /\ Moves(Traced, Traced', c) /\ Moves(Spanned, Spanned', c)
         /\ Moves(Recovered, Recovered', c) /\ Moves(Erred, Erred', c)
         /\ Moves(Logged, Logged', c) /\ Moves(LoggedMost, LoggedMost', c)
         /\ Moves(Requested, Requested', c) /\ Moves(RequestedMost, RequestedMost', c)
         /\ Moves(Denied, Denied', c) /\ Moves(DeniedMost, DeniedMost', c)
<1>1. Moves(Traced, Traced', c)
  BY OneMoves DEF Only, Traced
<1>2. Moves(Spanned, Spanned', c)
  BY OneMoves DEF Only, Spanned
<1>3. Moves(Recovered, Recovered', c)
  BY OneMoves DEF Only, Recovered
<1>4. Moves(Erred, Erred', c)
  BY OneMoves DEF Only, Erred
<1>5. Moves(Logged, Logged', c)
  BY OneMoves DEF Only, Logged
<1>6. Moves(LoggedMost, LoggedMost', c)
  BY OneMoves DEF Only, LoggedMost, Logged
<1>7. Moves(Requested, Requested', c)
  BY OneMoves DEF Only, Requested
<1>8. Moves(RequestedMost, RequestedMost', c)
  BY OneMoves DEF Only, RequestedMost
<1>9. Moves(Denied, Denied', c)
  BY OneMoves DEF Only, Denied, Requested
<1>10. Moves(DeniedMost, DeniedMost', c)
  BY OneMoves DEF Only, DeniedMost, Requested
<1> QED
  BY <1>1, <1>2, <1>3, <1>4, <1>5, <1>6, <1>7, <1>8, <1>9, <1>10

\* Before the first tick there is nothing to tell.
LEMMA InitCount == Init => CountInv
<1> SUFFICES ASSUME Init PROVE CountInv
  OBVIOUS
<1>1. /\ Traced = {} /\ Spanned = {} /\ Recovered = {} /\ Erred = {} /\ Logged = {}
      /\ Requested = {} /\ RequestedMost = {}
  BY DEF Init, Traced, Spanned, Recovered, Erred, Logged, Requested, RequestedMost
<1>2. LoggedMost = {} /\ Denied = {} /\ DeniedMost = {}
  BY DEF Init, Logged, LoggedMost, Requested, Denied, DeniedMost
<1>3. \A c \in Call : failed[c] = FALSE
  BY DEF Init
<1> QED
  BY <1>1, <1>2, <1>3, FS_EmptySet DEF Init, CountInv

\* A step of one goroutine that launches no call.
Statement(c) ==
  \/ Tick(c) \/ CountTrace(c) \/ CountSpan(c) \/ Start(c) \/ Dress(c) \/ CountError(c)
  \/ CountLog(c) \/ Sample(c) \/ Launched(c) \/ Join(c) \/ EndSpan(c) \/ RecordRED(c)
  \/ RecordBusiness(c) \/ Recover(c) \/ Return(c) \/ Panic(c)

\* It moves no other goroutine.
LEMMA StatementIsOwn ==
  ASSUME IInv, NEW c \in Call, Statement(c)
  PROVE  Only(c)
BY DEF Only, IInv, TypeOK, Goto, Statement, Tick, CountTrace, CountSpan, Start, Dress, CountError, CountLog, Sample,
       Launched, Join, EndSpan, RecordRED, RecordBusiness, Recover, Return, Panic

\* A counter that tells of certain calls is increased when it tells of one more.
LEMMA TracesTold ==
  ASSUME IInv, CountInv, NEW c \in Call, Statement(c)
  PROVE  traces' = Cardinality(Traced')
<1>1. \/ traces' = traces /\ (c \in Traced' <=> c \in Traced)
      \/ traces' = traces + 1 /\ c \notin Traced /\ c \in Traced'
  BY DEF IInv, TypeOK, Goto, counters, Traced, Fragile, Statement, Tick, CountTrace, CountSpan, Start, Dress, CountError, CountLog, Sample,
       Launched, Join, EndSpan, RecordRED, RecordBusiness, Recover, Return, Panic
<1>2. Moves(Traced, Traced', c)
  BY StatementIsOwn, SetsMove
<1> QED
  BY <1>1, <1>2 DEF Moves, CountInv

\* One more span is started when one more call is past its count.
LEMMA SpansTold ==
  ASSUME IInv, CountInv, NEW c \in Call, Statement(c)
  PROVE  spans' = Cardinality(Spanned')
<1>1. \/ spans' = spans /\ (c \in Spanned' <=> c \in Spanned)
      \/ spans' = spans + 1 /\ c \notin Spanned /\ c \in Spanned'
  BY DEF IInv, TypeOK, Goto, counters, Spanned, Fragile, Statement, Tick, CountTrace, CountSpan, Start, Dress, CountError, CountLog, Sample,
       Launched, Join, EndSpan, RecordRED, RecordBusiness, Recover, Return, Panic
<1>2. Moves(Spanned, Spanned', c)
  BY StatementIsOwn, SetsMove
<1> QED
  BY <1>1, <1>2 DEF Moves, CountInv

\* A panic is counted when its call recovers.
LEMMA PanicsTold ==
  ASSUME IInv, CountInv, NEW c \in Call, Statement(c)
  PROVE  panics' = Cardinality(Recovered')
<1>1. \/ panics' = panics /\ (c \in Recovered' <=> c \in Recovered)
      \/ panics' = panics + 1 /\ c \notin Recovered /\ c \in Recovered'
  BY DEF IInv, TypeOK, SpanInv, Goto, counters, Recovered, Fragile, Statement, Tick, CountTrace, CountSpan, Start, Dress, CountError, CountLog, Sample,
       Launched, Join, EndSpan, RecordRED, RecordBusiness, Recover, Return, Panic
<1>2. Moves(Recovered, Recovered', c)
  BY StatementIsOwn, SetsMove
<1> QED
  BY <1>1, <1>2 DEF Moves, CountInv

\* A failed span is counted once, when it is dressed.
LEMMA ErrorsTold ==
  ASSUME IInv, CountInv, NEW c \in Call, Statement(c)
  PROVE  errSpans' = Cardinality(Erred')
<1>1. (pc[c] = "dress" => ~failed[c]) /\ (pc[c] = "errcount" => failed[c])
  BY DEF CountInv
<1>2. \/ errSpans' = errSpans /\ (c \in Erred' <=> c \in Erred)
      \/ errSpans' = errSpans + 1 /\ c \notin Erred /\ c \in Erred'
  BY <1>1 DEF IInv, TypeOK, Goto, counters, Erred, Fragile, Statement, Tick, CountTrace, CountSpan, Start, Dress, CountError, CountLog, Sample,
       Launched, Join, EndSpan, RecordRED, RecordBusiness, Recover, Return, Panic
<1>3. Moves(Erred, Erred', c)
  BY StatementIsOwn, SetsMove
<1> QED
  BY <1>1, <1>2, <1>3 DEF Moves, CountInv

\* Of a call that a panic strikes a counter may tell or not; it tells of no call
\* twice, and forgets none.
LEMMA LogsTold ==
  ASSUME IInv, CountInv, NEW c \in Call, Statement(c)
  PROVE  Cardinality(Logged') <= logs' /\ logs' <= Cardinality(LoggedMost')
<1>1. \/ /\ logs' = logs
         /\ c \in Logged' => c \in Logged
         /\ c \in LoggedMost => c \in LoggedMost'
      \/ logs' = logs + 1 /\ c \notin LoggedMost /\ c \in LoggedMost'
  BY DEF IInv, TypeOK, SpanInv, Goto, counters, Logged, LoggedMost, Fragile, Statement, Tick, CountTrace, CountSpan, Start, Dress, CountError, CountLog, Sample,
       Launched, Join, EndSpan, RecordRED, RecordBusiness, Recover, Return, Panic
<1>2. Moves(Logged, Logged', c) /\ Moves(LoggedMost, LoggedMost', c)
  BY StatementIsOwn, SetsMove
<1>3. logs \in Nat
  BY DEF IInv, TypeOK
<1> QED
  BY <1>1, <1>2, <1>3 DEF Moves, CountInv

\* So do requests: RecordRED counts one, and a panic in it loses at most that one.
LEMMA RequestsTold ==
  ASSUME IInv, CountInv, NEW c \in Call, Statement(c)
  PROVE  Cardinality(Requested') <= reqCount' /\ reqCount' <= Cardinality(RequestedMost')
<1>1. \/ /\ reqCount' = reqCount
         /\ c \in Requested' => c \in Requested
         /\ c \in RequestedMost => c \in RequestedMost'
      \/ reqCount' = reqCount + 1 /\ c \notin RequestedMost /\ c \in RequestedMost'
  BY DEF IInv, TypeOK, SpanInv, Goto, metrics, Requested, RequestedMost, Fragile, Statement, Tick, CountTrace, CountSpan, Start, Dress, CountError, CountLog, Sample,
       Launched, Join, EndSpan, RecordRED, RecordBusiness, Recover, Return, Panic
<1>2. Moves(Requested, Requested', c) /\ Moves(RequestedMost, RequestedMost', c)
  BY StatementIsOwn, SetsMove
<1>3. reqCount \in Nat
  BY DEF IInv, TypeOK
<1> QED
  BY <1>1, <1>2, <1>3 DEF Moves, CountInv

\* So do errors, which are requests of failed spans.
LEMMA DenialsTold ==
  ASSUME IInv, CountInv, NEW c \in Call, Statement(c)
  PROVE  Cardinality(Denied') <= errCount' /\ errCount' <= Cardinality(DeniedMost')
<1>1. \/ /\ errCount' = errCount
         /\ c \in Denied' => c \in Denied
         /\ c \in DeniedMost => c \in DeniedMost'
      \/ errCount' = errCount + 1 /\ c \notin DeniedMost /\ c \in DeniedMost'
  BY DEF IInv, TypeOK, SpanInv, Goto, metrics, Requested, Denied, DeniedMost, Fragile, Statement, Tick, CountTrace, CountSpan, Start, Dress, CountError, CountLog, Sample,
       Launched, Join, EndSpan, RecordRED, RecordBusiness, Recover, Return, Panic
<1>2. Moves(Denied, Denied', c) /\ Moves(DeniedMost, DeniedMost', c)
  BY StatementIsOwn, SetsMove
<1>3. errCount \in Nat
  BY DEF IInv, TypeOK
<1> QED
  BY <1>1, <1>2, <1>3 DEF Moves, CountInv

\* When it is settled that a call failed.
LEMMA FailureTold ==
  ASSUME IInv, CountInv, NEW c \in Call, Statement(c), NEW d \in Call
  PROVE  /\ pc'[d] \in {"idle", "enter", "count", "start", "dress"} => failed'[d] = FALSE
         /\ pc'[d] = "errcount" => failed'[d] = TRUE
<1>1. CASE d # c
  <2>1. pc'[d] = pc[d] /\ failed'[d] = failed[d]
    BY <1>1, StatementIsOwn DEF Only
  <2> QED
    BY <2>1 DEF CountInv
<1>2. CASE d = c
  <2>1. pc[c] \in {"idle", "enter", "count", "start", "dress"} => failed[c] = FALSE
    BY DEF CountInv
  <2> QED
    BY <1>2, <2>1 DEF IInv, TypeOK, Goto, Fragile, Statement, Tick, CountTrace, CountSpan, Start, Dress, CountError, CountLog, Sample,
       Launched, Join, EndSpan, RecordRED, RecordBusiness, Recover, Return, Panic
<1> QED
  BY <1>1, <1>2

\* A call that is made, and not yet entered, is told of by no counter.
LEMMA LaunchCounts ==
  ASSUME IInv, CountInv, NEW c \in Call, NEW d \in Children[c], Launch(c, d)
  PROVE  CountInv'
<1>1. d \in Call
  BY ForestFacts
<1>2. pc[d] = "idle" /\ pc' = [pc EXCEPT ![d] = "enter"] /\ pc \in [Call -> {"idle", "done"} \cup Body \cup Exit]
  BY DEF Launch, IInv, TypeOK
<1>3. UNCHANGED <<span, failed, panicked, traces, spans, errSpans, logs, panics, reqCount, errCount>>
  BY DEF Launch, counters, metrics
<1>4. Traced' = Traced /\ Spanned' = Spanned /\ Recovered' = Recovered /\ Erred' = Erred
  BY <1>1, <1>2, <1>3 DEF Traced, Spanned, Recovered, Erred
<1>5. Logged' = Logged /\ Requested' = Requested /\ RequestedMost' = RequestedMost
  BY <1>1, <1>2, <1>3 DEF Logged, Requested, RequestedMost
<1>6. LoggedMost' = LoggedMost /\ Denied' = Denied /\ DeniedMost' = DeniedMost
  BY <1>3, <1>5 DEF LoggedMost, Denied, DeniedMost
<1>7. \A e \in Call : /\ pc'[e] \in {"idle", "enter", "count", "start", "dress"} => failed'[e] = FALSE
                      /\ pc'[e] = "errcount" => failed'[e] = TRUE
  BY <1>1, <1>2, <1>3 DEF CountInv
<1> QED
  BY <1>3, <1>4, <1>5, <1>6, <1>7 DEF CountInv

\* Nothing is told by a step that does nothing.
LEMMA StutterCounts ==
  ASSUME CountInv, UNCHANGED vars
  PROVE  CountInv'
<1>1. Traced' = Traced /\ Spanned' = Spanned /\ Recovered' = Recovered /\ Erred' = Erred
  BY DEF vars, Traced, Spanned, Recovered, Erred
<1>2. Logged' = Logged /\ Requested' = Requested /\ RequestedMost' = RequestedMost
  BY DEF vars, Logged, Requested, RequestedMost
<1>3. LoggedMost' = LoggedMost /\ Denied' = Denied /\ DeniedMost' = DeniedMost
  BY <1>2 DEF vars, LoggedMost, Denied, DeniedMost
<1>4. UNCHANGED <<pc, failed, traces, spans, errSpans, logs, panics, reqCount, errCount>>
  BY DEF vars, counters, metrics
<1> QED
  BY <1>1, <1>2, <1>3, <1>4 DEF CountInv

\* The counters tell what has happened, whatever happens at once.
LEMMA NextCounts == IInv /\ CountInv /\ [Next]_vars => CountInv'
<1> SUFFICES ASSUME IInv, CountInv, [Next]_vars PROVE CountInv'
  OBVIOUS
<1>1. CASE \E c \in Call : Statement(c)
  <2>1. PICK c \in Call : Statement(c)
    BY <1>1
  <2>2. \A d \in Call : /\ pc'[d] \in {"idle", "enter", "count", "start", "dress"} => failed'[d] = FALSE
                        /\ pc'[d] = "errcount" => failed'[d] = TRUE
    BY <2>1, FailureTold
  <2>3. /\ traces' = Cardinality(Traced') /\ spans' = Cardinality(Spanned')
        /\ panics' = Cardinality(Recovered') /\ errSpans' = Cardinality(Erred')
    BY <2>1, TracesTold, SpansTold, PanicsTold, ErrorsTold
  <2>4. /\ Cardinality(Logged') <= logs' /\ logs' <= Cardinality(LoggedMost')
        /\ Cardinality(Requested') <= reqCount' /\ reqCount' <= Cardinality(RequestedMost')
        /\ Cardinality(Denied') <= errCount' /\ errCount' <= Cardinality(DeniedMost')
    BY <2>1, LogsTold, RequestsTold, DenialsTold
  <2> QED
    BY <2>2, <2>3, <2>4 DEF CountInv
<1>2. CASE \E c \in Call : \E d \in Children[c] : Launch(c, d)
  BY <1>2, LaunchCounts
<1>3. CASE UNCHANGED vars
  BY <1>3, StutterCounts
<1> QED
  BY <1>1, <1>2, <1>3 DEF Next, Step, Statement

\* What each counter tells of, throughout a run.
THEOREM CountInvariance == Spec => [](IInv /\ CountInv)
<1>1. Init => CountInv
  BY InitCount
<1>2. IInv /\ CountInv /\ [Next]_vars => CountInv'
  BY NextCounts
<1> QED
  BY <1>1, <1>2, Invariance, PTL DEF Spec

\* Sets of calls are finite, and a part of one or two is no larger than they.
LEMMA PartsCount ==
  ASSUME NEW S \in SUBSET Call, NEW T \in SUBSET Call, NEW U \in SUBSET Call
  PROVE  /\ Cardinality(S) \in Nat
         /\ S \subseteq T => Cardinality(S) <= Cardinality(T)
         /\ S \subseteq T \cup U => Cardinality(S) <= Cardinality(T) + Cardinality(U)
<1>1. IsFiniteSet(S) /\ IsFiniteSet(T) /\ IsFiniteSet(U)
  BY CallAssumption, FS_Subset DEF CallsAreFinite
<1>2. IsFiniteSet(T \cup U) /\ IsFiniteSet(T \cap U)
  BY <1>1, FS_Union, FS_Intersection
<1>3. Cardinality(T \cup U) = Cardinality(T) + Cardinality(U) - Cardinality(T \cap U)
  BY <1>1, FS_Union
<1>4. /\ Cardinality(S) \in Nat /\ Cardinality(T) \in Nat /\ Cardinality(U) \in Nat
      /\ Cardinality(T \cap U) \in Nat
  BY <1>1, <1>2, FS_CardinalityType
<1>5. /\ S \subseteq T => Cardinality(S) <= Cardinality(T)
      /\ S \subseteq T \cup U => Cardinality(S) <= Cardinality(T \cup U)
  BY <1>1, <1>2, FS_Subset
<1> QED
  BY <1>3, <1>4, <1>5

\* The counters main logs at the end, when no emission is under way: of calls that
\* ran, failed or ended none is counted twice, and only a panic may keep one from
\* being counted.
THEOREM StatsAddUp == Spec => []StatsSettle
<1>1. IInv /\ CountInv => StatsSettle
  <2> SUFFICES ASSUME IInv, CountInv, \A c \in Call : ~Running(c) PROVE StatsSettle
    BY DEF StatsSettle
  <2> DEFINE ran == {c \in Call : pc[c] = "done"}
             ended == {c \in Call : span[c] = "ended"}
  <2>1. \A c \in Call : pc[c] \in {"idle", "done"}
    BY DEF Running
  <2>2. \A c \in Call : /\ pc[c] = "idle" => ~failed[c] /\ c \notin panicked /\ span[c] = "none"
                        /\ pc[c] = "done" /\ c \notin panicked => span[c] = "ended"
    BY DEF IInv, SpanInv, CountInv
  <2>3. panicked \in SUBSET Call /\ ran \in SUBSET Call /\ ended \in SUBSET Call
    BY DEF IInv, TypeOK
  <2>4. /\ Logged \in SUBSET Call /\ LoggedMost \in SUBSET Call /\ Erred \in SUBSET Call
        /\ Requested \in SUBSET Call /\ RequestedMost \in SUBSET Call
        /\ Denied \in SUBSET Call /\ DeniedMost \in SUBSET Call
    BY DEF Logged, LoggedMost, Erred, Requested, RequestedMost, Denied, DeniedMost
  <2>5. Traced = ran \cap Root /\ Spanned = ran /\ Recovered = panicked
    BY <2>1, <2>2, <2>3 DEF Traced, Spanned, Recovered
  <2>6. ran \subseteq ended \cup panicked
    BY <2>2
  <2>7. ended \subseteq Logged /\ LoggedMost \subseteq ran
    BY <2>1, <2>2 DEF Logged, LoggedMost
  <2>8. Erred \subseteq Denied \cup panicked /\ DeniedMost \subseteq Erred
    BY <2>1, <2>2 DEF Erred, Denied, DeniedMost, Requested
  <2>9. RequestedMost \subseteq ended /\ ended \subseteq Requested \cup panicked
    BY <2>1, <2>2 DEF Requested, RequestedMost
  <2> HIDE DEF ran, ended
  <2>10. /\ Cardinality(ran) <= Cardinality(ended) + Cardinality(panicked)
         /\ Cardinality(ended) <= Cardinality(Logged)
         /\ Cardinality(LoggedMost) <= Cardinality(ran)
    BY <2>3, <2>4, <2>6, <2>7, PartsCount
  <2>11. /\ Cardinality(Erred) <= Cardinality(Denied) + Cardinality(panicked)
         /\ Cardinality(DeniedMost) <= Cardinality(Erred)
    BY <2>3, <2>4, <2>8, PartsCount
  <2>12. /\ Cardinality(RequestedMost) <= Cardinality(ended)
         /\ Cardinality(ended) <= Cardinality(Requested) + Cardinality(panicked)
    BY <2>3, <2>4, <2>9, PartsCount
  <2>13. /\ Cardinality(ran) \in Nat /\ Cardinality(ended) \in Nat /\ Cardinality(panicked) \in Nat
         /\ Cardinality(Logged) \in Nat /\ Cardinality(LoggedMost) \in Nat
         /\ Cardinality(Erred) \in Nat
         /\ Cardinality(Denied) \in Nat /\ Cardinality(DeniedMost) \in Nat
         /\ Cardinality(Requested) \in Nat /\ Cardinality(RequestedMost) \in Nat
    BY <2>3, <2>4, PartsCount
  <2>14. logs \in Nat /\ reqCount \in Nat /\ errCount \in Nat
    BY DEF IInv, TypeOK
  <2>15. traces = Cardinality(ran \cap Root) /\ spans = Cardinality(ran) /\ panics = Cardinality(panicked)
    BY <2>5 DEF CountInv
  <2>16. /\ spans - panics <= Cardinality(ended)
         /\ Cardinality(ended) <= logs /\ logs <= spans
    BY <2>10, <2>13, <2>14, <2>15 DEF CountInv
  <2>17. errSpans <= errCount + panics /\ errCount <= errSpans
    BY <2>11, <2>13, <2>14, <2>15 DEF CountInv
  <2>18. reqCount <= Cardinality(ended) /\ Cardinality(ended) <= reqCount + panics
    BY <2>12, <2>13, <2>14, <2>15 DEF CountInv
  <2> QED
    BY <2>15, <2>16, <2>17, <2>18 DEF StatsSettle, ran, ended
<1> QED
  BY <1>1, CountInvariance, PTL

-----------------------------------------------------------------------------
(* Progress: what a report made of five separate loads still guarantees *)

Between(f) == began[f] <= now[f] /\ now[f] <= Counters[f]

\* A field lies between the two readings of its counter once it is loaded, the
\* counters have not fallen since Stats began, and Stats began after the last
\* report.
ReportInv ==
  /\ \A f \in Fields : last[f] <= Counters[f]
  /\ at # "away" => \A f \in Fields : last[f] <= began[f] /\ began[f] <= Counters[f]
  /\ at \in {"spans", "errSpans", "logs", "panics", "report"} => Between("traces")
  /\ at \in {"errSpans", "logs", "panics", "report"} => Between("spans")
  /\ at \in {"logs", "panics", "report"} => Between("errSpans")
  /\ at \in {"panics", "report"} => Between("logs")
  /\ at = "report" => Between("panics")

RInv ==
  /\ IInv
  /\ ReporterTypeOK
  /\ ReportInv

\* The counters are numbers.
LEMMA CountersType ==
  ASSUME TypeOK PROVE Counters \in Stats
BY DEF TypeOK, Counters, Stats, Fields

\* No statement of an emission lowers a counter.
LEMMA CountersRise ==
  ASSUME IInv, [Next]_vars
  PROVE  \A f \in Fields : Counters[f] <= Counters'[f]
<1>1. /\ traces <= traces' /\ spans <= spans' /\ errSpans <= errSpans'
      /\ logs <= logs' /\ panics <= panics'
  <2>1. CASE UNCHANGED vars
    BY <2>1 DEF vars, counters, IInv, TypeOK
  <2>2. ASSUME NEW c \in Call, Tick(c) \/ Step(c) \/ Panic(c)
        PROVE  /\ traces <= traces' /\ spans <= spans' /\ errSpans <= errSpans'
               /\ logs <= logs' /\ panics <= panics'
    BY <2>2 DEF IInv, TypeOK, Step, Panic, Tick, CountTrace, CountSpan, Start,
       Dress, CountError, CountLog, Sample, Launch, Launched, Join, EndSpan,
       RecordRED, RecordBusiness, Recover, Return, counters
  <2> QED
    BY <2>1, <2>2 DEF Next
<1> QED
  BY <1>1 DEF Counters, Fields

\* An emission step while the reporter stands still keeps the invariant.
LEMMA EmissionStep ==
  ASSUME RInv, [Next]_vars, UNCHANGED reporterVars
  PROVE  RInv'
<1>1. IInv' /\ TypeOK'
  BY NextInv DEF RInv, IInv
<1>2. /\ at' = at /\ now' = now /\ last' = last /\ began' = began
  BY DEF reporterVars
<1>3. ReporterTypeOK'
  BY <1>1, <1>2 DEF RInv, ReporterTypeOK
<1>4. /\ Counters \in Stats /\ Counters' \in Stats
      /\ \A f \in Fields : Counters[f] <= Counters'[f]
  BY <1>1, CountersType, CountersRise DEF RInv, IInv, TypeOK, Counters, Stats, Fields
<1>5. ReportInv'
  <2> DEFINE C == Counters
             D == Counters'
  <2>1. /\ C \in [Fields -> Nat] /\ D \in [Fields -> Nat]
        /\ now \in [Fields -> Nat] /\ last \in [Fields -> Nat] /\ began \in [Fields -> Nat]
        /\ \A f \in Fields : C[f] <= D[f]
    BY <1>4 DEF RInv, ReporterTypeOK, Stats
  <2>2. ASSUME NEW f \in Fields
        PROVE  /\ last[f] <= C[f] => last[f] <= D[f]
               /\ began[f] <= C[f] => began[f] <= D[f]
               /\ now[f] <= C[f] => now[f] <= D[f]
    <3> HIDE DEF C, D
    <3> QED
      BY <2>1
  <2> QED
    BY <1>2, <2>2 DEF RInv, ReportInv, Between, Fields
<1> QED
  BY <1>1, <1>3, <1>5 DEF RInv

\* A step of the reporter leaves the counters alone and keeps the invariant.
LEMMA ReporterStep ==
  ASSUME RInv, Report
  PROVE  RInv'
<1>1. UNCHANGED vars
  BY DEF Report, Fire, Read, Load, Log
<1>2. IInv' /\ TypeOK'
  BY <1>1, StutterInv DEF RInv, IInv
<1>3. Counters' = Counters /\ Counters \in Stats
  <2>1. /\ traces' = traces /\ spans' = spans /\ errSpans' = errSpans
        /\ logs' = logs /\ panics' = panics
    BY <1>1 DEF vars, counters
  <2>2. Counters' = Counters
    BY <2>1 DEF Counters
  <2>3. Counters \in Stats
    BY CountersType DEF RInv, IInv
  <2> QED
    BY <2>2, <2>3
<1>4. ReporterTypeOK'
  <2>1. CASE Fire
    BY <1>2, <1>3, <2>1 DEF Fire, RInv, ReporterTypeOK, Stats, Zero, Fields
  <2>2. CASE Read
    BY <1>2, <1>3, <2>2 DEF Read, Load, RInv, ReporterTypeOK, Stats, Fields
  <2>3. CASE Log
    BY <1>2, <2>3 DEF Log, RInv, ReporterTypeOK
  <2> QED
    BY <2>1, <2>2, <2>3 DEF Report
<1>5. ReportInv'
  <2> DEFINE C == Counters
  <2>1. /\ C \in [Fields -> Nat] /\ Counters' = C
        /\ now \in [Fields -> Nat] /\ last \in [Fields -> Nat] /\ began \in [Fields -> Nat]
    BY <1>3 DEF RInv, ReporterTypeOK, Stats
  <2>2. CASE Fire
    <3>1. at' = "traces" /\ began' = C /\ last' = last
      BY <2>2 DEF Fire
    <3>2. \A f \in Fields : C[f] <= C[f]
      <4> HIDE DEF C
      <4> QED
        BY <2>1
    <3> QED
      BY <2>1, <3>1, <3>2 DEF RInv, ReportInv
  <2>3. CASE Read
    <3>1. ASSUME NEW f \in Fields, NEW g, Load(f, g), g \in Fields \cup {"report"}
          PROVE  /\ at = f /\ at' = g /\ began' = began /\ last' = last
                 /\ \A h \in Fields : now'[h] = IF h = f THEN C[h] ELSE now[h]
      BY <2>1, <3>1 DEF Load
    <3>2. \A f \in Fields : C[f] <= C[f]
      <4> HIDE DEF C
      <4> QED
        BY <2>1
    <3>3. CASE Load("traces", "spans")
      BY <2>1, <3>1, <3>2, <3>3 DEF RInv, ReportInv, Between, Fields
    <3>4. CASE Load("spans", "errSpans")
      BY <2>1, <3>1, <3>2, <3>4 DEF RInv, ReportInv, Between, Fields
    <3>5. CASE Load("errSpans", "logs")
      BY <2>1, <3>1, <3>2, <3>5 DEF RInv, ReportInv, Between, Fields
    <3>6. CASE Load("logs", "panics")
      BY <2>1, <3>1, <3>2, <3>6 DEF RInv, ReportInv, Between, Fields
    <3>7. CASE Load("panics", "report")
      BY <2>1, <3>1, <3>2, <3>7 DEF RInv, ReportInv, Between, Fields
    <3> QED
      BY <2>3, <3>3, <3>4, <3>5, <3>6, <3>7 DEF Read
  <2>4. CASE Log
    <3>1. at = "report" /\ at' = "away" /\ last' = now
      BY <2>4 DEF Log
    <3>2. \A f \in Fields : now[f] <= C[f]
      BY <3>1 DEF RInv, ReportInv, Between, Fields
    <3> QED
      BY <2>1, <3>1, <3>2 DEF ReportInv
  <2> QED
    BY <2>2, <2>3, <2>4 DEF Report
<1> QED
  BY <1>2, <1>4, <1>5 DEF RInv

\* RInv holds however loads and emissions interleave.
THEOREM ReportInvariance == ReporterSpec => []RInv
<1>1. ReporterInit => RInv
  <2> SUFFICES ASSUME ReporterInit PROVE RInv
    OBVIOUS
  <2>1. IInv
    BY InitInv DEF ReporterInit
  <2>2. ReporterTypeOK /\ ReportInv
    BY <2>1 DEF ReporterInit, Init, IInv, ReporterTypeOK, ReportInv, Stats, Zero, Fields, Counters
  <2> QED
    BY <2>1, <2>2 DEF RInv
<1>2. RInv /\ [ReporterNext]_allVars => RInv'
  BY EmissionStep, ReporterStep DEF ReporterNext, allVars
<1> QED
  BY <1>1, <1>2, PTL DEF ReporterSpec

\* Every number of a report was true at some instant of the call of Stats.
THEOREM ReportsAreCurrent == ReporterSpec => []ReportIsCurrent
<1>1. RInv => ReportIsCurrent
  BY DEF RInv, ReportInv, ReportIsCurrent, Between, Fields
<1> QED
  BY <1>1, ReportInvariance, PTL

\* The per-interval deltas of the progress line are never negative.
THEOREM DeltasAreNatural == ReporterSpec => DeltasNeverNegative
<1>1. RInv /\ at = "report" => \A f \in Fields : last[f] <= now[f]
  <2> SUFFICES ASSUME RInv, at = "report", NEW f \in Fields
               PROVE  last[f] <= now[f]
    OBVIOUS
  <2>1. /\ last[f] \in Nat /\ began[f] \in Nat /\ now[f] \in Nat
    BY DEF RInv, ReporterTypeOK, Stats
  <2>2. last[f] <= began[f] /\ began[f] <= now[f]
    BY DEF RInv, ReportInv, Between, Fields
  <2> QED
    BY <2>1, <2>2
<1>2. RInv => [at = "report" /\ at' = "away" => \A f \in Fields : last[f] <= now[f]]_allVars
  BY <1>1
<1> QED
  BY <1>2, ReportInvariance, PTL DEF DeltasNeverNegative

=============================================================================
