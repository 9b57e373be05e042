----------------------------- MODULE TimingProofs -----------------------------
(***************************************************************************)
(* Proofs about Timing, for any calls, ticks and latencies. However late   *)
(* each goroutine is, nested spans nest, and none is shorter than its      *)
(* sample. Nobody being late, a nested span lasts as long as the largest   *)
(* sample of the calls below it, and a route has few emissions in progress.*)
(***************************************************************************)
EXTENDS Timing, FiniteSetTheorems, TLAPS

\* Nothing begins, and no nested span ends, in the future.
Past ==
  \A c \in Call :
    /\ Begun(c) => start[c] <= now
    /\ pc[c] = "done" /\ mode = "nested" => end[c] <= now

\* A callee starts in the fan-out of its caller and is done before the caller
\* goes on.
Family ==
  \A c \in Call : \A d \in Children[c] :
    /\ pc[d] # "idle" => pc[c] \in {"waiting", "sleeping", "done"}
    /\ pc[c] \in {"sleeping", "done"} => pc[d] = "done"
    /\ Begun(d) => start[c] <= start[d]
    /\ pc[c] = "done" /\ mode = "nested" => end[d] <= end[c]

\* The sleep leaves no part of the sample out.
Lengths ==
  \A c \in Call :
    /\ pc[c] = "sleeping" => wake[c] >= start[c] + sample[c] /\ mode = "nested"
    /\ pc[c] = "done" /\ mode = "nested" => end[c] >= start[c] + sample[c]
    /\ pc[c] = "done" /\ mode = "synthetic" => end[c] = start[c] + sample[c]

IInv == TypeOK /\ Past /\ Family /\ Lengths

\* The larger of two times is a time, and is neither of them made smaller.
LEMMA MaxOfTwo ==
  ASSUME NEW a \in Nat, NEW b \in Nat
  PROVE  Max({a, b}) \in Nat /\ Max({a, b}) >= a /\ Max({a, b}) >= b
<1>1. \E x \in {a, b} : \A y \in {a, b} : x >= y
  OBVIOUS
<1>2. Max({a, b}) \in {a, b} /\ \A y \in {a, b} : Max({a, b}) >= y
  BY <1>1, Zenon DEF Max
<1>3. QED
  BY <1>2

\* A callee is in no other fan-out, and no tick makes it.
LEMMA OneCaller ==
  ASSUME TypeOK, NEW c \in Call, NEW d \in Children[c]
  PROVE  /\ d \in Call
         /\ \A e \in Call : d \in Children[e] => e = c
         /\ \A i \in DOMAIN roots : roots[i] # d
<1>1. d \in Call /\ \A e \in Call : d \in Children[e] => e = c
  BY CallAssumption
<1>2. \A i \in DOMAIN roots : roots[i] # d
  <2>1. PICK run \in Runs : run = <<prompt, roots>>
    BY DEF TypeOK
  <2>2. \A i \in DOMAIN run[2] : \A e \in Call : run[2][i] \notin Children[e]
    BY <2>1, RunAssumption
  <2>3. run[2] = roots
    BY <2>1
  <2>4. QED
    BY <2>2, <2>3
<1>3. QED
  BY <1>1, <1>2

\* Before the first tick every call is idle.
LEMMA InitIInv == Init => IInv
<1> SUFFICES ASSUME Init PROVE IInv
  OBVIOUS
<1>1. TypeOK
  <2>1. <<prompt, roots>> \in Runs /\ roots \in Seq(Call)
    BY RunAssumption DEF Init
  <2>2. QED
    BY <2>1 DEF Init, TypeOK
<1>2. Past /\ Family /\ Lengths
  BY CallAssumption DEF Init, Past, Family, Lengths, Begun
<1>3. QED
  BY <1>1, <1>2 DEF IInv

\* A tick makes a call that is nobody's callee.
LEMMA TickKeeps == ASSUME IInv, Tick PROVE IInv'
<1> USE DEF IInv, Tick, Goto, inputs
<1>1. roots \in Seq(Call) /\ roots[ticks + 1] \in Call /\ ticks + 1 \in DOMAIN roots
  BY RunAssumption DEF TypeOK
<1>2. TypeOK'
  BY <1>1 DEF TypeOK
<1>3. Past'
  BY <1>1 DEF Past, Begun, TypeOK
<1>4. Family'
  BY <1>1, OneCaller DEF Family, Begun, TypeOK
<1>5. Lengths'
  BY <1>1 DEF Lengths, TypeOK
<1>6. QED
  BY <1>2, <1>3, <1>4, <1>5

\* A call begins now, and its caller began before.
LEMMA BeginKeeps == ASSUME IInv, NEW c \in Call, Begin(c) PROVE IInv'
<1> USE DEF IInv, Begin, Goto, inputs
<1>1. TypeOK'
  BY DEF TypeOK
<1>2. Past'
  BY DEF Past, Begun, TypeOK
<1>3. Family'
  <2> SUFFICES ASSUME NEW e \in Call, NEW d \in Children[e]
      PROVE  /\ pc'[d] # "idle" => pc'[e] \in {"waiting", "sleeping", "done"}
             /\ pc'[e] \in {"sleeping", "done"} => pc'[d] = "done"
             /\ Begun(d)' => start'[e] <= start'[d]
             /\ pc'[e] = "done" /\ mode' = "nested" => end'[d] <= end'[e]
    BY DEF Family
  <2>1. d \in Call
    BY OneCaller
  <2>2. CASE d = c
    BY <2>1, <2>2 DEF Family, Past, Begun, TypeOK
  <2>3. CASE d # c /\ e = c
    BY <2>1, <2>3 DEF Family, Begun, TypeOK
  <2>4. CASE d # c /\ e # c
    BY <2>1, <2>4 DEF Family, Begun, TypeOK
  <2>5. QED
    BY <2>2, <2>3, <2>4
<1>4. Lengths'
  BY DEF Lengths, TypeOK
<1>5. QED
  BY <1>1, <1>2, <1>3, <1>4

\* The fan-out makes the callees of its call, which were idle.
LEMMA FanOutKeeps == ASSUME IInv, NEW c \in Call, FanOut(c) PROVE IInv'
<1> USE DEF IInv, FanOut, inputs
<1>1. PICK l \in Latency : sample' = [sample EXCEPT ![c] = l]
  OBVIOUS
<1>2. \A d \in Children[c] : d \in Call /\ d # c /\ pc[d] = "idle"
  BY OneCaller DEF Family
<1>3. TypeOK'
  BY <1>1, TimeAssumption DEF TypeOK
<1>4. Past'
  BY <1>2 DEF Past, Begun, TypeOK
<1>5. Family'
  <2> SUFFICES ASSUME NEW e \in Call, NEW d \in Children[e]
      PROVE  /\ pc'[d] # "idle" => pc'[e] \in {"waiting", "sleeping", "done"}
             /\ pc'[e] \in {"sleeping", "done"} => pc'[d] = "done"
             /\ Begun(d)' => start'[e] <= start'[d]
             /\ pc'[e] = "done" /\ mode' = "nested" => end'[d] <= end'[e]
    BY DEF Family
  <2>1. d \in Call /\ \A f \in Call : d \in Children[f] => f = e
    BY OneCaller
  <2>2. CASE e = c
    BY <1>2, <2>1, <2>2 DEF Family, Begun, TypeOK
  <2>3. CASE e # c /\ d = c
    BY <1>2, <2>1, <2>3 DEF Family, Begun, TypeOK
  <2>4. CASE e # c /\ d # c
    BY <1>2, <2>1, <2>4 DEF Family, Begun, TypeOK
  <2>5. QED
    BY <2>2, <2>3, <2>4
<1>6. Lengths'
  BY <1>1, <1>2 DEF Lengths, TypeOK
<1>7. QED
  BY <1>3, <1>4, <1>5, <1>6

\* A call goes to sleep when its callees are done, until its sample is over.
LEMMA SleepKeeps == ASSUME IInv, NEW c \in Call, Sleep(c) PROVE IInv'
<1> USE DEF IInv, Sleep, Goto, inputs
<1>1. start[c] + sample[c] \in Nat /\ now \in Nat
  BY DEF TypeOK
<1>2. Remainder(c) \in Nat /\ Remainder(c) >= start[c] + sample[c]
  BY <1>1, MaxOfTwo DEF Remainder
<1>3. TypeOK'
  BY <1>2 DEF TypeOK
<1>4. Past'
  BY DEF Past, Begun, TypeOK
<1>5. Family'
  BY OneCaller DEF Family, Joined, Begun, TypeOK
<1>6. Lengths'
  BY <1>2 DEF Lengths, Sleeps, TypeOK
<1>7. QED
  BY <1>3, <1>4, <1>5, <1>6

\* A nested span ends now, so after its callees and after its sample.
LEMMA EndNestedKeeps == ASSUME IInv, NEW c \in Call, EndNested(c) PROVE IInv'
<1> USE DEF IInv, EndNested, Goto, inputs
<1>1. TypeOK'
  BY DEF TypeOK
<1>2. Past'
  BY DEF Past, Begun, TypeOK
<1>3. Family'
  <2> SUFFICES ASSUME NEW e \in Call, NEW d \in Children[e]
      PROVE  /\ pc'[d] # "idle" => pc'[e] \in {"waiting", "sleeping", "done"}
             /\ pc'[e] \in {"sleeping", "done"} => pc'[d] = "done"
             /\ Begun(d)' => start'[e] <= start'[d]
             /\ pc'[e] = "done" /\ mode' = "nested" => end'[d] <= end'[e]
    BY DEF Family
  <2>1. d \in Call
    BY OneCaller
  <2>2. CASE e = c
    BY <2>1, <2>2 DEF Family, Past, Begun, TypeOK
  <2>3. CASE e # c
    BY <2>1, <2>3 DEF Family, Past, Begun, TypeOK
  <2>4. QED
    BY <2>2, <2>3
<1>4. Lengths'
  <2>1. sample[c] \in Nat
    BY DEF TypeOK
  <2>2. now >= start[c] + sample[c] /\ mode = "nested"
    BY <2>1 DEF Lengths, TypeOK
  <2>3. QED
    BY <2>1, <2>2 DEF Lengths, TypeOK
<1>5. QED
  BY <1>1, <1>2, <1>3, <1>4

\* A synthetic span is given the end its sample asks for.
LEMMA EndSyntheticKeeps == ASSUME IInv, NEW c \in Call, EndSynthetic(c) PROVE IInv'
<1> USE DEF IInv, EndSynthetic, Goto, inputs
<1>1. mode = "synthetic" /\ sample[c] \in Nat
  BY DEF Sleeps, TypeOK
<1>2. TypeOK'
  BY <1>1 DEF TypeOK, Computed
<1>3. Past'
  BY <1>1 DEF Past, Begun, TypeOK
<1>4. Family'
  BY <1>1, OneCaller DEF Family, Joined, Begun, TypeOK
<1>5. Lengths'
  BY <1>1 DEF Lengths, Computed, TypeOK
<1>6. QED
  BY <1>2, <1>3, <1>4, <1>5

\* Time passes, or nothing happens.
LEMMA PassKeeps == ASSUME IInv, Pass \/ UNCHANGED vars PROVE IInv'
<1> USE DEF IInv, Pass, vars, inputs
<1>1. TypeOK'
  BY DEF TypeOK
<1>2. Past'
  BY DEF Past, Begun, TypeOK
<1>3. Family'
  BY DEF Family, Begun
<1>4. Lengths'
  BY DEF Lengths
<1>5. QED
  BY <1>1, <1>2, <1>3, <1>4

\* Every step keeps the invariant.
LEMMA NextIInv == IInv /\ [Next]_vars => IInv'
BY TickKeeps, BeginKeeps, FanOutKeeps, SleepKeeps, EndNestedKeeps, EndSyntheticKeeps,
   PassKeeps DEF Next, Over

\* The invariant holds of every run.
THEOREM Invariance == Spec => []IInv
BY InitIInv, NextIInv, PTL DEF Spec

\* The clock, the ticks and the times of every call keep their types.
THEOREM TypeCorrect == Spec => []TypeOK
<1>1. IInv => TypeOK
  BY DEF IInv
<1>2. QED
  BY <1>1, Invariance, PTL

\* However late its goroutines are, a nested callee begins and ends within its
\* caller.
THEOREM NestedTimingNests == Spec => []NestedSpansNest
<1>1. IInv => NestedSpansNest
  BY DEF IInv, Family, NestedSpansNest
<1>2. QED
  BY <1>1, Invariance, PTL

\* A synthetic span lasts as long as was sampled, a nested one at least that long,
\* whatever happens between.
THEOREM SamplesAreKept ==
  Spec => [](\A c \in Call : pc[c] = "done" =>
               IF mode = "synthetic" THEN end[c] - start[c] = sample[c]
               ELSE end[c] - start[c] >= sample[c])
<1>1. IInv => \A c \in Call : pc[c] = "done" =>
               IF mode = "synthetic" THEN end[c] - start[c] = sample[c]
               ELSE end[c] - start[c] >= sample[c]
  <2> SUFFICES ASSUME IInv, NEW c \in Call, pc[c] = "done"
      PROVE  IF mode = "synthetic" THEN end[c] - start[c] = sample[c]
             ELSE end[c] - start[c] >= sample[c]
    OBVIOUS
  <2>1. start[c] \in Nat /\ end[c] \in Nat /\ sample[c] \in Nat
    BY DEF IInv, TypeOK
  <2>2. QED
    BY <2>1 DEF IInv, Lengths, TypeOK
<1>2. QED
  BY <1>1, Invariance, PTL

-----------------------------------------------------------------------------
(* The calls below a call *)

\* Every nonempty set of numbers has a least one.
LEMMA LeastNatural ==
  ASSUME NEW T \in SUBSET Nat, T # {}
  PROVE  \E x \in T : \A y \in T : x <= y
<1> DEFINE R == OpToRel(<, Nat)
<1>1. IsWellFoundedOn(R, Nat)
  BY NatLessThanWellFounded
<1>2. \E x \in T : \A y \in T : <<y, x>> \notin R
  <2> HIDE DEF R
  <2> QED
    BY <1>1, WFMin
<1>3. \A x, y \in Nat : <<y, x>> \notin R => x <= y
  BY DEF OpToRel
<1>4. QED
  BY <1>2, <1>3

\* The recursion defines the calls below a call: the smallest set of calls that holds
\* the call and the callees of all its members satisfies it.
LEMMA BelowIs ==
  ASSUME NEW c \in Call
  PROVE  Below[c] = {c} \cup UNION {Below[d] : d \in Children[c]}
<1> DEFINE Closed(S) == \A e \in S : Children[e] \subseteq S
           least == [b \in Call |-> {x \in Call : \A S \in SUBSET Call : b \in S /\ Closed(S) => x \in S}]
           step(f) == [b \in Call |-> {b} \cup UNION {f[d] : d \in Children[b]}]
<1>1. \A b \in Call : Children[b] \in SUBSET Call
  BY CallAssumption
<1>2. ASSUME NEW b \in Call PROVE least[b] = {b} \cup UNION {least[d] : d \in Children[b]}
  <2> DEFINE U == {b} \cup UNION {least[d] : d \in Children[b]}
  <2>1. U \subseteq least[b]
    <3> SUFFICES ASSUME NEW x \in U PROVE x \in least[b]
      OBVIOUS
    <3>1. CASE x = b
      BY <3>1
    <3>2. ASSUME NEW d \in Children[b], x \in least[d] PROVE x \in least[b]
      <4>1. d \in Call /\ x \in Call
        BY <1>1, <3>2
      <4>2. \A S \in SUBSET Call : b \in S /\ Closed(S) => x \in S
        BY <3>2, <4>1
      <4> QED
        BY <4>1, <4>2
    <3> QED
      BY <3>1, <3>2
  <2>2. least[b] \subseteq U
    <3>1. U \in SUBSET Call
      BY <1>1
    <3>2. Closed(U)
      <4> SUFFICES ASSUME NEW e \in U, NEW x \in Children[e] PROVE x \in U
        OBVIOUS
      <4>1. CASE e = b
        <5>1. x \in Children[b] /\ x \in Call
          BY <1>1, <4>1
        <5>2. x \in least[x]
          BY <5>1
        <5> QED
          BY <5>1, <5>2
      <4>2. ASSUME NEW d \in Children[b], e \in least[d] PROVE x \in U
        <5>1. d \in Call /\ e \in Call /\ x \in Call
          BY <1>1, <4>2
        <5>2. x \in least[d]
          BY <4>2, <5>1
        <5> QED
          BY <5>2
      <4> QED
        BY <4>1, <4>2
    <3> QED
      BY <3>1, <3>2
  <2> QED
    BY <2>1, <2>2
<1>3. least = step(least)
  <2> HIDE DEF least
  <2>1. least = [b \in Call |-> least[b]]
    BY DEF least
  <2> QED
    BY <1>2, <2>1
<1>4. Below = CHOOSE f : f = step(f)
  BY DEF Below
<1>5. Below = step(Below)
  <2> HIDE DEF step, least
  <2> QED
    BY <1>3, <1>4
<1> HIDE DEF least
<1>6. step(Below)[c] = {c} \cup UNION {Below[d] : d \in Children[c]}
  OBVIOUS
<1> HIDE DEF step
<1> QED
  BY <1>5, <1>6

\* A property that a call has when its callees have it holds of all calls.
LEMMA CalleesFirst ==
  ASSUME NEW S \in SUBSET Call, \A c \in Call : Children[c] \subseteq S => c \in S
  PROVE  S = Call
<1> SUFFICES ASSUME Call \ S # {} PROVE FALSE
  OBVIOUS
<1>1. PICK c \in Call \ S : Children[c] \cap (Call \ S) = {}
  BY CallAssumption
<1>2. Children[c] \subseteq S
  BY <1>1, CallAssumption
<1> QED
  BY <1>1, <1>2

\* All of them are calls.
LEMMA BelowAreCalls == \A c \in Call : Below[c] \subseteq Call /\ c \in Below[c]
<1> DEFINE S == {c \in Call : Below[c] \subseteq Call}
<1>1. ASSUME NEW c \in Call, Children[c] \subseteq S PROVE c \in S
  <2>1. \A d \in Children[c] : Below[d] \subseteq Call
    BY <1>1
  <2> QED
    BY <2>1, BelowIs
<1>2. S = Call
  <2>1. S \in SUBSET Call
    OBVIOUS
  <2> HIDE DEF S
  <2> QED
    BY <1>1, <2>1, CalleesFirst
<1>3. \A c \in Call : c \in Below[c]
  BY BelowIs
<1> QED
  BY <1>2, <1>3

\* Some number is the largest among bounded ones.
LEMMA MaxIsLargest ==
  ASSUME NEW V \in SUBSET Nat, V # {}, NEW bound \in Nat, \A v \in V : v <= bound
  PROVE  Max(V) \in V /\ \A v \in V : v <= Max(V)
<1> DEFINE T == {bound - v : v \in V}
<1>1. T \in SUBSET Nat /\ T # {}
  <2>1. \A v \in V : bound - v \in Nat
    OBVIOUS
  <2> QED
    BY <2>1
<1>2. PICK t \in T : \A y \in T : t <= y
  <2> HIDE DEF T
  <2> QED
    BY <1>1, LeastNatural
<1>3. PICK m \in V : t = bound - m
  BY <1>2
<1>4. \A v \in V : m >= v
  <2> SUFFICES ASSUME NEW v \in V PROVE m >= v
    OBVIOUS
  <2>1. t <= bound - v
    BY <1>2
  <2> QED
    BY <1>3, <2>1
<1>5. Max(V) \in V /\ \A y \in V : Max(V) >= y
  BY <1>3, <1>4 DEF Max
<1> QED
  BY <1>5

\* The largest latency that may be sampled.
LEMMA LongestLatency == Max(Latency) \in Latency /\ \A l \in Latency : l <= Max(Latency)
<1>1. PICK longest \in Latency : \A l \in Latency : l <= longest
  BY TimeAssumption
<1>2. Latency \in SUBSET Nat /\ longest \in Nat
  BY TimeAssumption
<1> QED
  BY <1>1, <1>2, MaxIsLargest

\* Samples are latencies.
Sampled == \A c \in Call : sample[c] \in Latency \cup {0}

\* The largest sample below a call is that of the call, or the largest below one of
\* its callees.
LEMMA LongestIs ==
  ASSUME Sampled, NEW c \in Call
  PROVE  /\ LongestSample(c) \in Nat /\ LongestSample(c) <= Max(Latency)
         /\ sample[c] <= LongestSample(c)
         /\ \A d \in Children[c] : LongestSample(d) <= LongestSample(c)
         /\ \/ LongestSample(c) = sample[c]
            \/ \E d \in Children[c] : LongestSample(c) = LongestSample(d)
<1> DEFINE V(b) == {sample[x] : x \in Below[b]}
           M == Max(Latency)
<1>1. M \in Nat /\ \A l \in Latency \cup {0} : l \in Nat /\ l <= M
  <2>1. M \in Latency /\ \A l \in Latency : l <= M
    BY LongestLatency
  <2>2. Latency \subseteq Nat
    BY TimeAssumption
  <2> HIDE DEF M
  <2> QED
    BY <2>1, <2>2
<1>2. \A b \in Call : V(b) \in SUBSET Nat /\ V(b) # {} /\ \A v \in V(b) : v <= M
  BY <1>1, BelowAreCalls DEF Sampled
<1>3. \A b \in Call : LongestSample(b) = Max(V(b))
  BY DEF LongestSample
<1>4. \A b \in Call : LongestSample(b) \in V(b) /\ \A v \in V(b) : v <= LongestSample(b)
  <2> HIDE DEF V, M
  <2> QED
    BY <1>1, <1>2, <1>3, MaxIsLargest
<1>5. V(c) = {sample[c]} \cup UNION {V(d) : d \in Children[c]}
  BY BelowIs
<1>6. Children[c] \subseteq Call
  BY CallAssumption
<1> HIDE DEF V, M
<1>7. LongestSample(c) \in Nat /\ LongestSample(c) <= M /\ sample[c] <= LongestSample(c)
  BY <1>2, <1>4, <1>5
<1>8. \A d \in Children[c] : LongestSample(d) <= LongestSample(c)
  BY <1>4, <1>5, <1>6
<1>9. CASE LongestSample(c) = sample[c]
  BY <1>7, <1>8, <1>9 DEF M
<1>10. CASE LongestSample(c) # sample[c]
  <2>1. PICK d \in Children[c] : LongestSample(c) \in V(d)
    BY <1>4, <1>5, <1>10
  <2>2. LongestSample(c) <= LongestSample(d)
    BY <1>4, <1>6, <2>1
  <2>3. LongestSample(d) \in Nat /\ LongestSample(d) <= LongestSample(c)
    BY <1>2, <1>4, <1>6, <1>8, <2>1
  <2>4. LongestSample(c) = LongestSample(d)
    BY <1>7, <2>2, <2>3
  <2> QED
    BY <1>7, <1>8, <2>4 DEF M
<1> QED
  BY <1>9, <1>10

-----------------------------------------------------------------------------
(* Nobody being late *)

\* A sample is drawn once, in the fan-out, which makes all the callees.
Fanned ==
  \A c \in Call :
    /\ pc[c] \in {"idle", "ready", "running"} => sample[c] = 0
    /\ pc[c] \in {"waiting", "sleeping", "done"} => \A d \in Children[c] : pc[d] # "idle"

\* As time passes in sleeps only, a call has fanned out when it starts, a callee
\* starts with its caller, and whatever waits, waits for the longest sample below it.
Punctual ==
  prompt => \A c \in Call :
    /\ pc[c] = "running" => now = start[c]
    /\ \A d \in Children[c] :
         /\ pc[d] = "ready" => now = start[c]
         /\ Begun(d) => start[d] = start[c]
    /\ pc[c] = "waiting" =>
         \/ now = start[c]
         \/ mode = "nested" /\ \E d \in Children[c] : now <= start[c] + LongestSample(d)
    /\ pc[c] = "sleeping" => wake[c] = start[c] + LongestSample(c) /\ now <= wake[c]
    /\ pc[c] = "done" /\ mode = "nested" => end[c] = start[c] + LongestSample(c)

PInv == IInv /\ Sampled /\ Fanned /\ Punctual

\* While no sample is drawn, the longest samples stay.
LEMMA SamplesStay ==
  ASSUME UNCHANGED sample
  PROVE  /\ Sampled => Sampled'
         /\ \A c : LongestSample(c)' = LongestSample(c)
<1>1. Sampled => Sampled'
  BY DEF Sampled
<1>2. ASSUME NEW c PROVE LongestSample(c)' = LongestSample(c)
  BY DEF LongestSample, Below
<1> QED
  BY <1>1, <1>2

\* When a call sleeps or is done, so are all the calls below it.
LEMMA BelowAreDone ==
  ASSUME IInv
  PROVE  \A c \in Call : pc[c] \in {"sleeping", "done"} =>
           \A x \in Below[c] : x # c => pc[x] = "done"
<1> DEFINE S == {c \in Call : pc[c] \in {"sleeping", "done"} =>
                                \A x \in Below[c] : x # c => pc[x] = "done"}
<1>1. ASSUME NEW c \in Call, Children[c] \subseteq S PROVE c \in S
  <2> SUFFICES ASSUME pc[c] \in {"sleeping", "done"}, NEW x \in Below[c], x # c PROVE pc[x] = "done"
    OBVIOUS
  <2>1. PICK d \in Children[c] : x \in Below[d]
    BY BelowIs
  <2>2. d \in Call /\ pc[d] = "done"
    BY CallAssumption DEF IInv, Family
  <2>3. x = d \/ pc[x] = "done"
    BY <1>1, <2>1, <2>2
  <2> QED
    BY <2>2, <2>3
<1>2. S = Call
  <2>1. S \in SUBSET Call
    OBVIOUS
  <2> HIDE DEF S
  <2> QED
    BY <1>1, <2>1, CalleesFirst
<1> QED
  BY <1>2

\* When nothing but the clock can go on, every call that waits does so for a longer
\* sample, in nested mode, and none at all waits in the other.
LEMMA WaitsForSleep ==
  ASSUME PInv, prompt, ~Runnable
  PROVE  \A c \in Call :
           pc[c] = "waiting" =>
             mode = "nested" /\ \E d \in Children[c] : now + 1 <= start[c] + LongestSample(d)
<1> DEFINE Waits(c) ==
             /\ pc[c] = "waiting" =>
                  mode = "nested" /\ \E d \in Children[c] : now + 1 <= start[c] + LongestSample(d)
             /\ pc[c] = "sleeping" => mode = "nested" /\ now + 1 <= start[c] + LongestSample(c)
           S == {c \in Call : Waits(c)}
<1>1. ASSUME NEW c \in Call, Children[c] \subseteq S PROVE Waits(c)
  <2>1. /\ now \in Nat /\ start[c] \in Nat /\ wake[c] \in Nat
        /\ \A d \in Call : LongestSample(d) \in Nat /\ start[d] \in Nat
    BY LongestIs DEF PInv, IInv, TypeOK
  <2>2. Children[c] \subseteq Call
    BY CallAssumption
  <2>3. CASE pc[c] = "sleeping"
    <3>1. ~(now >= wake[c]) /\ wake[c] = start[c] + LongestSample(c) /\ mode = "nested"
      BY <2>3 DEF Runnable, PInv, Punctual, IInv, Lengths
    <3> QED
      BY <2>1, <2>3, <3>1
  <2>4. CASE pc[c] = "waiting"
    <3>1. PICK d \in Children[c] : pc[d] # "done"
      BY <2>4 DEF Runnable, Joined
    <3>2. d \in Call /\ pc[d] \in {"waiting", "sleeping"}
      <4>1. pc[d] # "idle"
        BY <2>4 DEF PInv, Fanned
      <4>2. pc[d] \notin {"ready", "running"}
        BY <2>2 DEF Runnable
      <4> QED
        BY <2>2, <3>1, <4>1, <4>2 DEF PInv, IInv, TypeOK
    <3>3. start[d] = start[c]
      BY <3>2 DEF PInv, Punctual, Begun
    <3>4. Waits(d)
      BY <1>1
    <3>5. mode = "nested" /\ now + 1 <= start[c] + LongestSample(d)
      <4>1. CASE pc[d] = "sleeping"
        BY <3>3, <3>4, <4>1
      <4>2. CASE pc[d] = "waiting"
        <5>1. PICK e \in Children[d] : now + 1 <= start[d] + LongestSample(e)
          BY <3>4, <4>2
        <5>2. e \in Call /\ LongestSample(e) <= LongestSample(d)
          BY <3>2, CallAssumption, LongestIs DEF PInv
        <5> QED
          BY <2>1, <3>2, <3>3, <3>4, <4>2, <5>1, <5>2
      <4> QED
        BY <3>2, <4>1, <4>2
    <3> QED
      BY <2>4, <3>5
  <2> QED
    BY <2>3, <2>4
<1>2. S = Call
  <2>1. S \in SUBSET Call
    OBVIOUS
  <2>2. \A c \in Call : Children[c] \subseteq S => c \in S
    BY <1>1
  <2> HIDE DEF S
  <2> QED
    BY <2>1, <2>2, CalleesFirst
<1> QED
  BY <1>2

\* The latencies below every call are times.
LEMMA Times ==
  ASSUME PInv, NEW c \in Call
  PROVE  /\ now \in Nat /\ start[c] \in Nat /\ wake[c] \in Nat /\ end[c] \in Nat /\ sample[c] \in Nat
         /\ LongestSample(c) \in Nat
         /\ Children[c] \subseteq Call
BY LongestIs, CallAssumption DEF PInv, IInv, TypeOK

\* The longest samples are at least as long as the samples below.
Longest ==
  \A c \in Call :
    /\ LongestSample(c) \in Nat
    /\ sample[c] <= LongestSample(c)
    /\ \A d \in Children[c] : LongestSample(d) <= LongestSample(c)

\* That is so before and after a step.
LEMMA LongestPrimed == Sampled' => Longest'
<1>1. Sampled => Longest
  BY LongestIs DEF Longest
<1> QED
  BY <1>1, PTL

\* Before the first tick nothing is sampled.
LEMMA InitPInv == Init => PInv
<1> SUFFICES ASSUME Init PROVE PInv
  OBVIOUS
<1>1. Sampled /\ Fanned /\ Punctual
  BY CallAssumption DEF Init, Sampled, Fanned, Punctual, Begun
<1> QED
  BY <1>1, InitIInv DEF PInv

\* A call that a tick makes is nobody's callee.
LEMMA TickPunctual == ASSUME PInv, Tick PROVE PInv'
<1>1. IInv'
  BY TickKeeps DEF PInv
<1>2. Sampled' /\ \A c : LongestSample(c)' = LongestSample(c)
  BY SamplesStay DEF Tick, PInv
<1> DEFINE r == roots[ticks + 1]
<1>3. r \in Call /\ ticks + 1 \in DOMAIN roots /\ \A c \in Call : r \notin Children[c]
  <2>1. roots \in Seq(Call)
    BY RunAssumption DEF PInv, IInv, TypeOK
  <2>2. ticks + 1 \in DOMAIN roots /\ r \in Call
    BY <2>1 DEF Tick, PInv, IInv, TypeOK
  <2> QED
    BY <2>2, OneCaller DEF PInv, IInv
<1>4. /\ pc' = [pc EXCEPT ![r] = "ready"] /\ pc[r] = "idle" /\ DOMAIN pc = Call
      /\ UNCHANGED <<inputs, now, start, sample, wake, end>>
  <2>1. DOMAIN pc = Call
    BY DEF PInv, IInv, TypeOK
  <2> QED
    BY <2>1 DEF Tick, Goto
<1> HIDE DEF r
<1>5. \A c \in Call : c # r => pc'[c] = pc[c]
  BY <1>4
<1>6. pc'[r] = "ready"
  BY <1>3, <1>4
<1>7. Fanned'
  BY <1>3, <1>4, <1>5, <1>6, CallAssumption DEF PInv, Fanned
<1>8. Punctual'
  <2> SUFFICES ASSUME prompt, NEW c \in Call
               PROVE  /\ pc'[c] = "running" => now = start[c]
                      /\ \A d \in Children[c] :
                           /\ pc'[d] = "ready" => now = start[c]
                           /\ Begun(d)' => start[d] = start[c]
                      /\ pc'[c] = "waiting" =>
                           \/ now = start[c]
                           \/ mode = "nested" /\ \E d \in Children[c] : now <= start[c] + LongestSample(d)
                      /\ pc'[c] = "sleeping" => wake[c] = start[c] + LongestSample(c) /\ now <= wake[c]
                      /\ pc'[c] = "done" /\ mode = "nested" => end[c] = start[c] + LongestSample(c)
    BY <1>2, <1>4 DEF Punctual, inputs
  <2>1. \A d \in Children[c] : d \in Call /\ pc'[d] = pc[d]
    BY <1>3, <1>5, CallAssumption
  <2>2. CASE c = r
    BY <1>4, <1>6, <2>1, <2>2 DEF PInv, Punctual, Begun
  <2>3. CASE c # r
    BY <1>5, <2>1, <2>3 DEF PInv, Punctual, Begun
  <2> QED
    BY <2>2, <2>3
<1> QED
  BY <1>1, <1>2, <1>7, <1>8 DEF PInv

\* A call begins at the time it was made.
LEMMA BeginPunctual == ASSUME PInv, NEW b \in Call, Begin(b) PROVE PInv'
<1>1. IInv'
  BY BeginKeeps DEF PInv
<1>2. Sampled' /\ \A c : LongestSample(c)' = LongestSample(c)
  BY SamplesStay DEF Begin, PInv
<1>3. /\ pc' = [pc EXCEPT ![b] = "running"] /\ pc[b] = "ready" /\ start' = [start EXCEPT ![b] = now]
      /\ UNCHANGED <<mode, prompt, roots, now, sample, wake, end>>
  BY DEF Begin, Goto, inputs
<1>4. DOMAIN pc = Call /\ start \in [Call -> Nat]
  BY DEF PInv, IInv, TypeOK
<1>5. /\ \A c \in Call : c # b => pc'[c] = pc[c] /\ start'[c] = start[c]
      /\ pc'[b] = "running" /\ start'[b] = now
  BY <1>3, <1>4
<1>6. Fanned'
  BY <1>3, <1>5, CallAssumption DEF PInv, Fanned
<1>7. Punctual'
  <2> SUFFICES ASSUME prompt, NEW c \in Call
               PROVE  /\ pc'[c] = "running" => now = start'[c]
                      /\ \A d \in Children[c] :
                           /\ pc'[d] = "ready" => now = start'[c]
                           /\ Begun(d)' => start'[d] = start'[c]
                      /\ pc'[c] = "waiting" =>
                           \/ now = start'[c]
                           \/ mode = "nested" /\ \E d \in Children[c] : now <= start'[c] + LongestSample(d)
                      /\ pc'[c] = "sleeping" => wake[c] = start'[c] + LongestSample(c) /\ now <= wake[c]
                      /\ pc'[c] = "done" /\ mode = "nested" => end[c] = start'[c] + LongestSample(c)
    BY <1>2, <1>3 DEF Punctual
  <2>1. CASE c = b
    <3>1. \A d \in Children[c] : d \in Call /\ pc[d] = "idle" /\ d # c
      BY <1>3, <2>1, OneCaller DEF PInv, IInv, Family
    <3> QED
      BY <1>5, <2>1, <3>1 DEF Begun
  <2>2. CASE c # b
    <3>1. \A d \in Children[c] : d \in Call /\ (d = b => now = start[c])
      BY <1>3, CallAssumption DEF PInv, Punctual
    <3> QED
      BY <1>5, <2>2, <3>1 DEF PInv, Punctual, Begun
  <2> QED
    BY <2>1, <2>2
<1> QED
  BY <1>1, <1>2, <1>6, <1>7 DEF PInv

\* The fan-out, at the start of the call, makes the callees and draws a sample that
\* no call waits for that sleeps already.
LEMMA FanOutPunctual == ASSUME PInv, NEW b \in Call, FanOut(b) PROVE PInv'
<1>1. IInv'
  BY FanOutKeeps DEF PInv
<1>2. PICK l \in Latency : sample' = [sample EXCEPT ![b] = l]
  BY DEF FanOut
<1>3. /\ pc' = [d \in Call |-> IF d = b THEN "waiting" ELSE IF d \in Children[b] THEN "ready" ELSE pc[d]]
      /\ pc[b] = "running" /\ UNCHANGED <<mode, prompt, roots, now, start, wake, end>>
  BY DEF FanOut, inputs
<1>4. sample \in [Call -> Nat] /\ sample[b] = 0 /\ l \in Nat
  BY <1>3, TimeAssumption DEF PInv, IInv, TypeOK, Fanned
<1>5. \A d \in Children[b] : d \in Call /\ d # b /\ pc[d] = "idle"
  BY <1>3, OneCaller DEF PInv, IInv, Family
<1>6. /\ pc'[b] = "waiting" /\ \A d \in Children[b] : pc'[d] = "ready"
      /\ \A c \in Call : c # b /\ c \notin Children[b] => pc'[c] = pc[c]
  BY <1>3, <1>5
<1>7. sample'[b] = l /\ \A c \in Call : c # b => sample'[c] = sample[c]
  BY <1>2, <1>4
<1>8. Sampled'
  BY <1>7 DEF PInv, Sampled
<1>9. Fanned'
  <2> SUFFICES ASSUME NEW c \in Call
               PROVE  /\ pc'[c] \in {"idle", "ready", "running"} => sample'[c] = 0
                      /\ pc'[c] \in {"waiting", "sleeping", "done"} => \A d \in Children[c] : pc'[d] # "idle"
    BY DEF Fanned
  <2>1. Children[c] \subseteq Call
    BY CallAssumption
  <2>2. CASE c = b
    BY <1>6, <2>2
  <2>3. CASE c \in Children[b]
    BY <1>5, <1>6, <1>7, <2>3 DEF PInv, Fanned
  <2>4. CASE c # b /\ c \notin Children[b]
    BY <1>5, <1>6, <1>7, <2>1, <2>4 DEF PInv, Fanned
  <2> QED
    BY <2>2, <2>3, <2>4
<1>10. \A c \in Call : LongestSample(c) \in Nat /\ LongestSample(c)' \in Nat
                       /\ LongestSample(c) <= LongestSample(c)'
  <2> DEFINE S == {c \in Call : LongestSample(c) <= LongestSample(c)'}
  <2>1. ASSUME NEW c \in Call, Children[c] \subseteq S PROVE LongestSample(c) <= LongestSample(c)'
    <3>1. sample[c] <= sample'[c] /\ sample[c] \in Nat /\ sample'[c] \in Nat
      BY <1>4, <1>7
    <3>2. /\ LongestSample(c)' \in Nat
          /\ sample'[c] <= LongestSample(c)'
          /\ \A d \in Children[c] : LongestSample(d)' <= LongestSample(c)'
      BY <1>8, LongestPrimed DEF Longest
    <3>3. /\ LongestSample(c) \in Nat
          /\ \/ LongestSample(c) = sample[c]
             \/ \E d \in Children[c] : LongestSample(c) = LongestSample(d)
      BY LongestIs DEF PInv
    <3>4. CASE LongestSample(c) = sample[c]
      BY <3>1, <3>2, <3>4
    <3>5. ASSUME NEW d \in Children[c], LongestSample(c) = LongestSample(d)
          PROVE  LongestSample(c) <= LongestSample(c)'
      <4>1. d \in Call /\ LongestSample(d) <= LongestSample(d)'
        BY <2>1
      <4>2. LongestSample(d)' \in Nat
        BY <1>8, <4>1, LongestPrimed DEF Longest
      <4> QED
        BY <3>2, <3>3, <3>5, <4>1, <4>2
    <3> QED
      BY <3>3, <3>4, <3>5
  <2>2. S = Call
    <3>1. S \in SUBSET Call
      OBVIOUS
    <3>2. \A c \in Call : Children[c] \subseteq S => c \in S
      BY <2>1
    <3> HIDE DEF S
    <3> QED
      BY <3>1, <3>2, CalleesFirst
  <2>3. \A c \in Call : LongestSample(c) \in Nat /\ LongestSample(c)' \in Nat
    BY <1>8, LongestIs, LongestPrimed DEF PInv, Longest
  <2> QED
    BY <2>2, <2>3
<1>11. ASSUME NEW c \in Call, pc[c] \in {"sleeping", "done"}
       PROVE  LongestSample(c)' = LongestSample(c)
  <2>1. \A x \in Below[c] : x \in Call /\ x # b
    BY <1>3, <1>11, BelowAreDone, BelowAreCalls DEF PInv
  <2>2. {sample'[x] : x \in Below[c]} = {sample[x] : x \in Below[c]}
    BY <1>7, <2>1
  <2>3. Below' = Below
    BY DEF Below
  <2> QED
    BY <2>2, <2>3 DEF LongestSample
<1>12. Punctual'
  <2> SUFFICES ASSUME prompt, NEW c \in Call
               PROVE  /\ pc'[c] = "running" => now = start[c]
                      /\ \A d \in Children[c] :
                           /\ pc'[d] = "ready" => now = start[c]
                           /\ Begun(d)' => start[d] = start[c]
                      /\ pc'[c] = "waiting" =>
                           \/ now = start[c]
                           \/ mode = "nested" /\ \E d \in Children[c] : now <= start[c] + LongestSample(d)'
                      /\ pc'[c] = "sleeping" => wake[c] = start[c] + LongestSample(c)' /\ now <= wake[c]
                      /\ pc'[c] = "done" /\ mode = "nested" => end[c] = start[c] + LongestSample(c)'
    BY <1>3 DEF Punctual
  <2>1. Children[c] \subseteq Call /\ start[c] \in Nat /\ now \in Nat
    BY CallAssumption DEF PInv, IInv, TypeOK
  <2>2. /\ pc[c] = "running" => now = start[c]
        /\ \A d \in Children[c] :
             /\ pc[d] = "ready" => now = start[c]
             /\ Begun(d) => start[d] = start[c]
    BY DEF PInv, Punctual
  <2>3. CASE c = b
    <3>1. now = start[c]
      BY <1>3, <2>2, <2>3
    <3>2. \A d \in Children[c] : pc'[d] = "ready"
      BY <1>6, <2>3
    <3> QED
      BY <1>6, <2>3, <3>1, <3>2 DEF Begun
  <2>4. CASE c \in Children[b]
    <3>1. \A d \in Children[c] : d # b /\ d \notin Children[b]
      <4>1. \A d \in Children[c] : pc[d] = "idle"
        BY <1>5, <2>1, <2>4 DEF PInv, IInv, Family
      <4>2. c # b
        BY <1>5, <2>4
      <4>3. \A d \in Children[c] : d \notin Children[b]
        BY <1>5, <2>4, <4>2, OneCaller DEF PInv, IInv
      <4> QED
        BY <1>3, <4>1, <4>3
    <3>2. \A d \in Children[c] : pc'[d] = pc[d]
      BY <1>6, <2>1, <3>1
    <3> QED
      BY <1>6, <2>2, <2>4, <3>2 DEF Begun
  <2>5. CASE c # b /\ c \notin Children[b]
    <3>1. pc'[c] = pc[c]
      BY <1>6, <2>5
    <3>2. \A d \in Children[c] : d \notin Children[b]
      BY <2>5, OneCaller DEF PInv, IInv
    <3>3. \A d \in Children[c] : d # b => pc'[d] = pc[d]
      BY <1>6, <2>1, <3>2
    <3>4. b \in Children[c] => start[b] = start[c]
      BY <1>3, <2>2 DEF Begun
    <3>5. /\ \A d \in Children[c] : pc'[d] = "ready" => now = start[c]
          /\ \A d \in Children[c] : Begun(d)' => start[d] = start[c]
      BY <1>6, <2>2, <3>3, <3>4 DEF Begun
    <3>6. pc'[c] = "waiting" =>
             \/ now = start[c]
             \/ mode = "nested" /\ \E d \in Children[c] : now <= start[c] + LongestSample(d)'
      <4> SUFFICES ASSUME pc[c] = "waiting", now # start[c]
                   PROVE  mode = "nested" /\ \E d \in Children[c] : now <= start[c] + LongestSample(d)'
        BY <3>1
      <4>1. PICK d \in Children[c] : now <= start[c] + LongestSample(d)
        BY DEF PInv, Punctual
      <4>2. mode = "nested"
        BY DEF PInv, Punctual
      <4>3. now <= start[c] + LongestSample(d)'
        BY <1>10, <2>1, <4>1
      <4> QED
        BY <4>2, <4>3
    <3>7. /\ pc'[c] = "sleeping" => wake[c] = start[c] + LongestSample(c)' /\ now <= wake[c]
          /\ pc'[c] = "done" /\ mode = "nested" => end[c] = start[c] + LongestSample(c)'
      BY <1>11, <3>1 DEF PInv, Punctual
    <3>8. pc'[c] = "running" => now = start[c]
      BY <2>2, <3>1
    <3> QED
      BY <3>5, <3>6, <3>7, <3>8
  <2> QED
    BY <2>3, <2>4, <2>5
<1> QED
  BY <1>1, <1>8, <1>9, <1>12 DEF PInv

\* What changes when one call goes on, and neither the clock nor a sample does.
LEMMA OneGoesOn ==
  ASSUME PInv, NEW b \in Call, NEW to, pc' = [pc EXCEPT ![b] = to],
         UNCHANGED <<mode, prompt, roots, now, start, sample>>,
         pc[b] \in {"waiting", "sleeping"}, to \in {"sleeping", "done"},
         \A c \in Call : c # b => wake'[c] = wake[c] /\ end'[c] = end[c],
         prompt /\ to = "sleeping" => wake'[b] = start[b] + LongestSample(b) /\ now <= wake'[b],
         prompt /\ to = "done" /\ mode = "nested" => end'[b] = start[b] + LongestSample(b)
  PROVE  Sampled' /\ Fanned' /\ Punctual'
<1>1. Sampled' /\ \A c : LongestSample(c)' = LongestSample(c)
  BY SamplesStay DEF PInv
<1>2. DOMAIN pc = Call
  BY DEF PInv, IInv, TypeOK
<1>3. pc'[b] = to /\ \A c \in Call : c # b => pc'[c] = pc[c]
  BY <1>2
<1>4. Fanned'
  BY <1>3, CallAssumption DEF PInv, Fanned
<1>5. Punctual'
  <2> SUFFICES ASSUME prompt, NEW c \in Call
               PROVE  /\ pc'[c] = "running" => now = start[c]
                      /\ \A d \in Children[c] :
                           /\ pc'[d] = "ready" => now = start[c]
                           /\ Begun(d)' => start[d] = start[c]
                      /\ pc'[c] = "waiting" =>
                           \/ now = start[c]
                           \/ mode = "nested" /\ \E d \in Children[c] : now <= start[c] + LongestSample(d)
                      /\ pc'[c] = "sleeping" => wake'[c] = start[c] + LongestSample(c) /\ now <= wake'[c]
                      /\ pc'[c] = "done" /\ mode = "nested" => end'[c] = start[c] + LongestSample(c)
    BY <1>1 DEF Punctual
  <2>1. \A d \in Children[c] :
           /\ pc'[d] = "ready" => now = start[c]
           /\ Begun(d)' => start[d] = start[c]
    BY <1>3, CallAssumption DEF PInv, Punctual, Begun
  <2>2. CASE c = b
    BY <1>3, <2>1, <2>2
  <2>3. CASE c # b
    BY <1>3, <2>1, <2>3 DEF PInv, Punctual
  <2> QED
    BY <2>2, <2>3
<1> QED
  BY <1>1, <1>4, <1>5

\* The larger of two times is one of them.
LEMMA MaxIsOne ==
  ASSUME NEW a \in Nat, NEW b \in Nat
  PROVE  Max({a, b}) = a \/ Max({a, b}) = b
<1>1. \E x \in {a, b} : \A y \in {a, b} : x >= y
  OBVIOUS
<1>2. Max({a, b}) \in {a, b}
  BY <1>1, Zenon DEF Max
<1> QED
  BY <1>2

\* A call goes to sleep when its callees are done, and till the longest of the samples
\* below it is over: it has waited for the longest below its callees.
LEMMA SleepPunctual == ASSUME PInv, NEW b \in Call, Sleep(b) PROVE PInv'
<1>1. IInv'
  BY SleepKeeps DEF PInv
<1>2. /\ pc' = [pc EXCEPT ![b] = "sleeping"] /\ pc[b] = "waiting"
      /\ wake' = [wake EXCEPT ![b] = Remainder(b)]
      /\ UNCHANGED <<mode, prompt, roots, now, start, sample, end>>
      /\ mode = "nested" /\ \A d \in Children[b] : pc[d] = "done"
  BY DEF Sleep, Goto, Joined, Sleeps, inputs
<1>3. wake'[b] = Remainder(b) /\ \A c \in Call : c # b => wake'[c] = wake[c]
  BY <1>2 DEF PInv, IInv, TypeOK
<1> DEFINE L == LongestSample(b)
           s == start[b]
           w == Remainder(b)
<1>4. /\ now \in Nat /\ s \in Nat /\ sample[b] \in Nat /\ L \in Nat
      /\ \A d \in Children[b] : LongestSample(d) \in Nat /\ start[d] \in Nat /\ end[d] \in Nat
  BY Times
<1>5. w \in Nat /\ w >= now /\ w >= s + sample[b] /\ (w = now \/ w = s + sample[b])
  <2>1. s + sample[b] \in Nat
    BY <1>4
  <2> QED
    BY <1>4, <2>1, MaxOfTwo, MaxIsOne DEF Remainder
<1>6. ASSUME prompt PROVE w = s + L
  <2>1. sample[b] <= L /\ \A d \in Children[b] : LongestSample(d) <= L
    BY LongestIs DEF PInv
  <2>2. \A d \in Children[b] : s + LongestSample(d) <= now
    <3> SUFFICES ASSUME NEW d \in Children[b] PROVE s + LongestSample(d) <= now
      OBVIOUS
    <3>1. d \in Call /\ pc[d] = "done"
      BY <1>2, CallAssumption
    <3>2. end[d] = start[d] + LongestSample(d) /\ start[d] = s
      BY <1>2, <1>6, <3>1 DEF PInv, Punctual, Begun
    <3>3. end[d] <= now
      BY <1>2, <3>1 DEF PInv, IInv, Past
    <3> QED
      BY <3>2, <3>3
  <2>3. now = s \/ \E d \in Children[b] : now <= s + LongestSample(d)
    BY <1>2, <1>6 DEF PInv, Punctual
  <2>4. L = sample[b] \/ \E d \in Children[b] : L = LongestSample(d)
    BY LongestIs DEF PInv
  <2> HIDE DEF L, s, w
  <2>5. now <= s + L
    BY <1>4, <2>1, <2>3
  <2>6. s + L <= w
    BY <1>4, <1>5, <2>2, <2>4
  <2> QED
    BY <1>4, <1>5, <2>1, <2>5, <2>6
<1>7. Sampled' /\ Fanned' /\ Punctual'
  BY <1>2, <1>3, <1>5, <1>6, OneGoesOn
<1> QED
  BY <1>1, <1>7 DEF PInv

\* A call wakes up when its sleep is over, and not later.
LEMMA EndNestedPunctual == ASSUME PInv, NEW b \in Call, EndNested(b) PROVE PInv'
<1>1. IInv'
  BY EndNestedKeeps DEF PInv
<1>2. /\ pc' = [pc EXCEPT ![b] = "done"] /\ pc[b] = "sleeping" /\ now >= wake[b]
      /\ end' = [end EXCEPT ![b] = now]
      /\ UNCHANGED <<mode, prompt, roots, now, start, sample, wake>>
  BY DEF EndNested, Goto, inputs
<1>3. end'[b] = now /\ \A c \in Call : c # b => end'[c] = end[c]
  BY <1>2 DEF PInv, IInv, TypeOK
<1>4. ASSUME prompt PROVE now = start[b] + LongestSample(b)
  <2>1. wake[b] = start[b] + LongestSample(b) /\ now <= wake[b]
    BY <1>2, <1>4 DEF PInv, Punctual
  <2>2. now \in Nat /\ wake[b] \in Nat
    BY Times
  <2> QED
    BY <1>2, <2>1, <2>2
<1>5. Sampled' /\ Fanned' /\ Punctual'
  BY <1>2, <1>3, <1>4, OneGoesOn
<1> QED
  BY <1>1, <1>5 DEF PInv

\* A synthetic span needs no time.
LEMMA EndSyntheticPunctual == ASSUME PInv, NEW b \in Call, EndSynthetic(b) PROVE PInv'
<1>1. IInv'
  BY EndSyntheticKeeps DEF PInv
<1>2. /\ pc' = [pc EXCEPT ![b] = "done"] /\ pc[b] = "waiting" /\ mode # "nested"
      /\ end' = [end EXCEPT ![b] = Computed(b)]
      /\ UNCHANGED <<mode, prompt, roots, now, start, sample, wake>>
  BY DEF EndSynthetic, Goto, Sleeps, inputs
<1>3. \A c \in Call : c # b => end'[c] = end[c]
  BY <1>2 DEF PInv, IInv, TypeOK
<1>4. Sampled' /\ Fanned' /\ Punctual'
  BY <1>2, <1>3, OneGoesOn
<1> QED
  BY <1>1, <1>4 DEF PInv

\* Time passes, with nobody late, while every call that has begun waits or sleeps.
LEMMA PassPunctual == ASSUME PInv, Pass PROVE PInv'
<1>1. IInv'
  BY PassKeeps DEF PInv
<1>2. Sampled' /\ \A c : LongestSample(c)' = LongestSample(c)
  BY SamplesStay DEF Pass, PInv
<1>3. /\ now' = now + 1 /\ (prompt => ~Runnable)
      /\ UNCHANGED <<mode, prompt, roots, pc, start, sample, wake, end>>
  BY DEF Pass, inputs
<1>4. Fanned'
  BY <1>3 DEF PInv, Fanned
<1>5. Punctual'
  <2> SUFFICES ASSUME prompt, NEW c \in Call
               PROVE  /\ pc[c] = "running" => now + 1 = start[c]
                      /\ \A d \in Children[c] :
                           /\ pc[d] = "ready" => now + 1 = start[c]
                           /\ Begun(d) => start[d] = start[c]
                      /\ pc[c] = "waiting" =>
                           \/ now + 1 = start[c]
                           \/ mode = "nested" /\ \E d \in Children[c] : now + 1 <= start[c] + LongestSample(d)
                      /\ pc[c] = "sleeping" => wake[c] = start[c] + LongestSample(c) /\ now + 1 <= wake[c]
                      /\ pc[c] = "done" /\ mode = "nested" => end[c] = start[c] + LongestSample(c)
    BY <1>2, <1>3 DEF Punctual, Begun
  <2>1. ~Runnable
    BY <1>3
  <2>2. pc[c] # "running" /\ \A d \in Children[c] : pc[d] # "ready"
    BY <2>1, CallAssumption DEF Runnable
  <2>3. pc[c] = "waiting" =>
           mode = "nested" /\ \E d \in Children[c] : now + 1 <= start[c] + LongestSample(d)
    BY <2>1, WaitsForSleep
  <2>4. pc[c] = "sleeping" => wake[c] = start[c] + LongestSample(c) /\ now + 1 <= wake[c]
    <3>1. now \in Nat /\ wake[c] \in Nat
      BY Times
    <3> QED
      BY <2>1, <3>1 DEF Runnable, PInv, Punctual
  <2>5. /\ \A d \in Children[c] : Begun(d) => start[d] = start[c]
        /\ pc[c] = "done" /\ mode = "nested" => end[c] = start[c] + LongestSample(c)
    BY DEF PInv, Punctual
  <2> QED
    BY <2>2, <2>3, <2>4, <2>5
<1> QED
  BY <1>1, <1>2, <1>4, <1>5 DEF PInv

\* A step of nobody changes nothing.
LEMMA StutterPunctual == ASSUME PInv, UNCHANGED vars PROVE PInv'
<1>1. IInv'
  BY PassKeeps DEF PInv
<1>2. Sampled' /\ \A c : LongestSample(c)' = LongestSample(c)
  BY SamplesStay DEF vars, PInv
<1>3. Fanned' /\ Punctual'
  BY <1>2 DEF PInv, Fanned, Punctual, Begun, vars, inputs
<1> QED
  BY <1>1, <1>2, <1>3 DEF PInv

\* In a run in which nobody is late, every sleep ends with the longest sample below.
THEOREM PunctualInvariance == Spec => []PInv
<1>1. Init => PInv
  BY InitPInv
<1>2. PInv /\ [Next]_vars => PInv'
  BY TickPunctual, BeginPunctual, FanOutPunctual, SleepPunctual, EndNestedPunctual,
     EndSyntheticPunctual, PassPunctual, StutterPunctual DEF Next, Over
<1> QED
  BY <1>1, <1>2, PTL DEF Spec

\* A call that is not done has not lasted longer than the longest sample below it.
LEMMA WithinLength ==
  ASSUME PInv, NEW c \in Call, prompt, Begun(c), pc[c] # "done"
  PROVE  now - start[c] <= (IF mode = "synthetic" THEN 0 ELSE LongestSample(c))
<1>1. /\ now \in Nat /\ start[c] \in Nat /\ wake[c] \in Nat /\ end[c] \in Nat /\ sample[c] \in Nat
      /\ LongestSample(c) \in Nat /\ Children[c] \subseteq Call
  BY Times
<1>2. mode \in {"synthetic", "nested"}
      /\ pc[c] \in {"idle", "ready", "running", "waiting", "sleeping", "done"}
  BY DEF PInv, IInv, TypeOK
<1>3. CASE pc[c] = "running"
  BY <1>1, <1>3 DEF PInv, Punctual
<1>4. CASE pc[c] = "waiting"
  <2>1. now = start[c] \/ (mode = "nested" /\ \E d \in Children[c] : now <= start[c] + LongestSample(d))
    BY <1>4 DEF PInv, Punctual
  <2>2. \A d \in Children[c] : LongestSample(d) <= LongestSample(c) /\ LongestSample(d) \in Nat
    BY <1>1, LongestIs, Times DEF PInv
  <2> QED
    BY <1>1, <2>1, <2>2
<1>5. CASE pc[c] = "sleeping"
  BY <1>1, <1>5 DEF PInv, Punctual, IInv, Lengths
<1> QED
  BY <1>2, <1>3, <1>4, <1>5 DEF Begun

\* A synthetic span is as long as its sample, a nested one at least; nobody being late,
\* it is as long as the longest sample below it, and so is the time it may hold up a
\* drain, which a synthetic one does not at all.
THEOREM LengthsAreSampled == Spec => []SpanLength
<1>1. PInv => SpanLength
  <2> SUFFICES ASSUME PInv, NEW c \in Call
               PROVE  /\ pc[c] = "done" =>
                           IF mode = "synthetic" THEN end[c] - start[c] = sample[c]
                           ELSE /\ end[c] - start[c] >= sample[c]
                                /\ prompt => end[c] - start[c] = LongestSample(c)
                      /\ prompt /\ Begun(c) /\ pc[c] # "done" =>
                           now - start[c] <= (IF mode = "synthetic" THEN 0 ELSE LongestSample(c))
    BY DEF SpanLength
  <2>1. /\ now \in Nat /\ start[c] \in Nat /\ wake[c] \in Nat /\ end[c] \in Nat /\ sample[c] \in Nat
        /\ LongestSample(c) \in Nat /\ Children[c] \subseteq Call
    BY Times
  <2>2. mode \in {"synthetic", "nested"}
        /\ pc[c] \in {"idle", "ready", "running", "waiting", "sleeping", "done"}
    BY DEF PInv, IInv, TypeOK
  <2>3. ASSUME pc[c] = "done"
        PROVE  IF mode = "synthetic" THEN end[c] - start[c] = sample[c]
               ELSE /\ end[c] - start[c] >= sample[c]
                    /\ prompt => end[c] - start[c] = LongestSample(c)
    <3>1. mode = "synthetic" => end[c] = start[c] + sample[c]
      BY <2>3 DEF PInv, IInv, Lengths
    <3>2. mode = "nested" => end[c] >= start[c] + sample[c]
      BY <2>3 DEF PInv, IInv, Lengths
    <3>3. mode = "nested" /\ prompt => end[c] = start[c] + LongestSample(c)
      BY <2>3 DEF PInv, Punctual
    <3> QED
      BY <2>1, <2>2, <3>1, <3>2, <3>3
  <2>4. prompt /\ Begun(c) /\ pc[c] # "done" =>
           now - start[c] <= (IF mode = "synthetic" THEN 0 ELSE LongestSample(c))
    BY WithinLength
  <2> QED
    BY <2>3, <2>4
<1> QED
  BY <1>1, PunctualInvariance, PTL

-----------------------------------------------------------------------------
(* The backlog of a route *)

\* Nobody being late, every tick is taken when it is due, and its call begins then.
OnTime ==
  /\ ticks <= Len(roots)
  /\ prompt =>
       /\ ticks < Len(roots) => now <= Interval * (ticks + 1)
       /\ \A i \in 1..ticks :
            /\ pc[roots[i]] # "idle" /\ Interval * i <= now
            /\ pc[roots[i]] = "ready" => now = Interval * i
            /\ Begun(roots[i]) => start[roots[i]] = Interval * i

BInv == PInv /\ OnTime

\* What a step that is no tick may do to the calls of the ticks.
LEMMA CallsOfTicks ==
  ASSUME BInv, UNCHANGED <<prompt, roots, ticks, now>>,
         \A i \in 1..ticks :
           \/ pc'[roots[i]] = pc[roots[i]] /\ start'[roots[i]] = start[roots[i]]
           \/ pc[roots[i]] = "ready" /\ pc'[roots[i]] = "running" /\ start'[roots[i]] = now
           \/ Begun(roots[i]) /\ pc'[roots[i]] \notin {"idle", "ready"} /\ start'[roots[i]] = start[roots[i]]
  PROVE  OnTime'
<1> SUFFICES ASSUME prompt
             PROVE  /\ ticks < Len(roots) => now <= Interval * (ticks + 1)
                    /\ \A i \in 1..ticks :
                         /\ pc'[roots[i]] # "idle" /\ Interval * i <= now
                         /\ pc'[roots[i]] = "ready" => now = Interval * i
                         /\ pc'[roots[i]] \notin {"idle", "ready"} => start'[roots[i]] = Interval * i
  BY DEF BInv, OnTime, Begun
<1>1. ticks < Len(roots) => now <= Interval * (ticks + 1)
  BY DEF BInv, OnTime
<1>2. ASSUME NEW i \in 1..ticks
      PROVE  /\ pc'[roots[i]] # "idle" /\ Interval * i <= now
             /\ pc'[roots[i]] = "ready" => now = Interval * i
             /\ pc'[roots[i]] \notin {"idle", "ready"} => start'[roots[i]] = Interval * i
  <2> DEFINE r == roots[i]
             due == Interval * i
  <2>1. /\ pc[r] # "idle" /\ due <= now
        /\ pc[r] = "ready" => now = due
        /\ Begun(r) => start[r] = due
    BY DEF BInv, OnTime
  <2>2. \/ pc'[r] = pc[r] /\ start'[r] = start[r]
        \/ pc[r] = "ready" /\ pc'[r] = "running" /\ start'[r] = now
        \/ Begun(r) /\ pc'[r] \notin {"idle", "ready"} /\ start'[r] = start[r]
    OBVIOUS
  <2> HIDE DEF r, due
  <2>3. /\ pc'[r] # "idle" /\ due <= now
        /\ pc'[r] = "ready" => now = due
        /\ pc'[r] \notin {"idle", "ready"} => start'[r] = due
    <3>1. CASE pc'[r] = pc[r] /\ start'[r] = start[r]
      BY <2>1, <3>1 DEF Begun
    <3>2. CASE pc[r] = "ready" /\ pc'[r] = "running" /\ start'[r] = now
      BY <2>1, <3>2 DEF Begun
    <3>3. CASE Begun(r) /\ pc'[r] \notin {"idle", "ready"} /\ start'[r] = start[r]
      BY <2>1, <3>3
    <3> QED
      BY <2>2, <3>1, <3>2, <3>3
  <2> QED
    BY <2>3 DEF r, due
<1> QED
  BY <1>1, <1>2

\* The calls of ticks are nobody's callees.
LEMMA TicksMakeRoots ==
  ASSUME BInv
  PROVE  /\ roots \in Seq(Call) /\ ticks \in Nat /\ now \in Nat /\ Len(roots) \in Nat
         /\ \A i \in 1..Len(roots) : roots[i] \in Call /\ \A c \in Call : roots[i] \notin Children[c]
         /\ 1..ticks \subseteq 1..Len(roots)
<1>1. roots \in Seq(Call) /\ ticks \in Nat /\ now \in Nat
  BY RunAssumption DEF BInv, PInv, IInv, TypeOK
<1>2. Len(roots) \in Nat /\ DOMAIN roots = 1..Len(roots) /\ \A i \in 1..Len(roots) : roots[i] \in Call
  BY <1>1
<1>3. ticks <= Len(roots)
  BY DEF BInv, OnTime
<1>4. \A i \in 1..Len(roots) : \A c \in Call : roots[i] \notin Children[c]
  BY <1>2, OneCaller DEF BInv, PInv, IInv
<1>5. 1..ticks \subseteq 1..Len(roots)
  BY <1>1, <1>2, <1>3
<1> QED
  BY <1>1, <1>2, <1>4, <1>5

\* Each step keeps the ticks on time.
LEMMA NextOnTime == ASSUME BInv, [Next]_vars PROVE OnTime'
<1>0. /\ roots \in Seq(Call) /\ ticks \in Nat /\ now \in Nat /\ Len(roots) \in Nat
      /\ \A i \in 1..Len(roots) : roots[i] \in Call /\ \A c \in Call : roots[i] \notin Children[c]
      /\ 1..ticks \subseteq 1..Len(roots)
      /\ DOMAIN pc = Call /\ start \in [Call -> Nat]
  BY TicksMakeRoots DEF BInv, PInv, IInv, TypeOK
<1>1. CASE Tick
  <2>1. /\ ticks < Len(roots) /\ now >= Interval * (ticks + 1) /\ ticks' = ticks + 1
        /\ pc' = [pc EXCEPT ![roots[ticks + 1]] = "ready"] /\ pc[roots[ticks + 1]] = "idle"
        /\ UNCHANGED <<prompt, roots, now, start>>
    BY <1>1 DEF Tick, Goto, inputs
  <2>2. ticks + 1 \in 1..Len(roots) /\ ticks' <= Len(roots)
    BY <1>0, <2>1
  <2> SUFFICES ASSUME prompt
               PROVE  /\ ticks + 1 < Len(roots) => now <= Interval * (ticks + 1 + 1)
                      /\ \A i \in 1..(ticks + 1) :
                           /\ pc'[roots[i]] # "idle" /\ Interval * i <= now
                           /\ pc'[roots[i]] = "ready" => now = Interval * i
                           /\ pc'[roots[i]] \notin {"idle", "ready"} => start[roots[i]] = Interval * i
    BY <2>1, <2>2 DEF OnTime, Begun
  <2> DEFINE due == Interval * (ticks + 1)
  <2>3. due \in Nat /\ Interval * (ticks + 1 + 1) = due + Interval /\ Interval \in Nat
    BY <1>0, TimeAssumption
  <2>4. now = due
    <3>1. now <= due
      BY <2>1 DEF BInv, OnTime
    <3> HIDE DEF due
    <3> QED
      BY <1>0, <2>1, <2>3, <3>1 DEF due
  <2>5. pc'[roots[ticks + 1]] = "ready"
    BY <1>0, <2>1, <2>2
  <2>6. ASSUME NEW i \in 1..ticks
        PROVE  /\ pc'[roots[i]] # "idle" /\ Interval * i <= now
               /\ pc'[roots[i]] = "ready" => now = Interval * i
               /\ pc'[roots[i]] \notin {"idle", "ready"} => start[roots[i]] = Interval * i
    <3>1. /\ pc[roots[i]] # "idle" /\ Interval * i <= now
          /\ pc[roots[i]] = "ready" => now = Interval * i
          /\ Begun(roots[i]) => start[roots[i]] = Interval * i
      BY DEF BInv, OnTime
    <3>2. roots[i] \in Call /\ roots[i] # roots[ticks + 1]
      BY <1>0, <2>1, <3>1
    <3>3. pc'[roots[i]] = pc[roots[i]]
      BY <1>0, <2>1, <3>2
    <3> QED
      BY <3>1, <3>3 DEF Begun
  <2>7. \A i \in 1..(ticks + 1) : i \in 1..ticks \/ i = ticks + 1
    BY <1>0
  <2>8. now <= Interval * (ticks + 1 + 1)
    BY <2>3, <2>4
  <2>9. ASSUME NEW i \in 1..(ticks + 1), i = ticks + 1
        PROVE  /\ pc'[roots[i]] # "idle" /\ Interval * i <= now
               /\ pc'[roots[i]] = "ready" => now = Interval * i
               /\ pc'[roots[i]] \notin {"idle", "ready"} => start[roots[i]] = Interval * i
    <3>1. Interval * i = now
      BY <2>4, <2>9
    <3>2. pc'[roots[i]] = "ready"
      BY <2>5, <2>9
    <3> QED
      BY <1>0, <3>1, <3>2 DEF Begun
  <2> QED
    BY <2>6, <2>7, <2>8, <2>9
<1>2. CASE Pass
  <2>1. /\ now' = now + 1 /\ (prompt => ~Runnable) /\ UNCHANGED <<prompt, roots, ticks, pc, start>>
    BY <1>2 DEF Pass, inputs
  <2> SUFFICES ASSUME prompt
               PROVE  /\ ticks < Len(roots) => now + 1 <= Interval * (ticks + 1)
                      /\ \A i \in 1..ticks :
                           /\ pc[roots[i]] # "idle" /\ Interval * i <= now + 1
                           /\ pc[roots[i]] = "ready" => now + 1 = Interval * i
                           /\ Begun(roots[i]) => start[roots[i]] = Interval * i
    BY <2>1 DEF BInv, OnTime, Begun
  <2>2. ticks < Len(roots) => ~(now >= Interval * (ticks + 1))
    BY <2>1 DEF Runnable
  <2>3. Interval * (ticks + 1) \in Nat
    BY <1>0, TimeAssumption
  <2>4. ASSUME NEW i \in 1..ticks
        PROVE  /\ pc[roots[i]] # "idle" /\ Interval * i <= now + 1
               /\ pc[roots[i]] = "ready" => now + 1 = Interval * i
               /\ Begun(roots[i]) => start[roots[i]] = Interval * i
    <3>1. /\ pc[roots[i]] # "idle" /\ Interval * i <= now
          /\ Begun(roots[i]) => start[roots[i]] = Interval * i
      BY DEF BInv, OnTime
    <3>2. pc[roots[i]] # "ready"
      BY <1>0, <2>1 DEF Runnable
    <3>3. PICK due \in Nat : due = Interval * i
      BY TimeAssumption
    <3>4. due <= now + 1
      BY <1>0, <3>1, <3>3
    <3> QED
      BY <3>1, <3>2, <3>3, <3>4
  <2>5. ticks < Len(roots) => now + 1 <= Interval * (ticks + 1)
    <3>1. PICK due \in Nat : due = Interval * (ticks + 1)
      BY <2>3
    <3> QED
      BY <1>0, <2>2, <3>1
  <2> QED
    BY <2>4, <2>5
<1>3. ASSUME NEW b \in Call, Begin(b) PROVE OnTime'
  <2>1. /\ pc' = [pc EXCEPT ![b] = "running"] /\ pc[b] = "ready" /\ start' = [start EXCEPT ![b] = now]
        /\ UNCHANGED <<prompt, roots, ticks, now>>
    BY <1>3 DEF Begin, Goto, inputs
  <2>2. \A c \in Call : c # b => pc'[c] = pc[c] /\ start'[c] = start[c]
    BY <1>0, <2>1
  <2>3. pc'[b] = "running" /\ start'[b] = now
    BY <1>0, <2>1
  <2>4. \A i \in 1..ticks : roots[i] \in Call
    BY <1>0
  <2> QED
    BY <2>1, <2>2, <2>3, <2>4, CallsOfTicks
<1>4. ASSUME NEW b \in Call, FanOut(b) PROVE OnTime'
  <2>1. /\ pc' = [d \in Call |-> IF d = b THEN "waiting" ELSE IF d \in Children[b] THEN "ready" ELSE pc[d]]
        /\ pc[b] = "running" /\ UNCHANGED <<prompt, roots, ticks, now, start>>
    BY <1>4 DEF FanOut, inputs
  <2>2. \A i \in 1..ticks : roots[i] \in Call /\ roots[i] \notin Children[b]
    BY <1>0
  <2>3. \A i \in 1..ticks : pc'[roots[i]] = IF roots[i] = b THEN "waiting" ELSE pc[roots[i]]
    BY <2>1, <2>2
  <2>4. Begun(b) /\ "waiting" \notin {"idle", "ready"}
    BY <2>1 DEF Begun
  <2> QED
    BY <2>1, <2>3, <2>4, CallsOfTicks
<1>5. ASSUME NEW b \in Call, Sleep(b) \/ EndNested(b) \/ EndSynthetic(b) PROVE OnTime'
  <2>1. /\ pc' = [pc EXCEPT ![b] = "sleeping"] \/ pc' = [pc EXCEPT ![b] = "done"]
        /\ pc[b] \in {"waiting", "sleeping"} /\ UNCHANGED <<prompt, roots, ticks, now, start>>
    BY <1>5 DEF Sleep, EndNested, EndSynthetic, Goto, inputs
  <2>2. pc'[b] \in {"sleeping", "done"} /\ \A c \in Call : c # b => pc'[c] = pc[c]
    BY <1>0, <2>1
  <2>3. Begun(b) /\ pc'[b] \notin {"idle", "ready"}
    BY <2>1, <2>2 DEF Begun
  <2>4. \A i \in 1..ticks : roots[i] \in Call
    BY <1>0
  <2> QED
    BY <2>1, <2>2, <2>3, <2>4, CallsOfTicks
<1>6. CASE UNCHANGED vars
  <2>1. UNCHANGED <<prompt, roots, ticks, now, pc, start>>
    BY <1>6 DEF vars, inputs
  <2> QED
    BY <2>1, CallsOfTicks
<1> QED
  BY <1>1, <1>2, <1>3, <1>4, <1>5, <1>6 DEF Next, Over

\* As many intervals fit into a time as their division says.
LEMMA Fits ==
  ASSUME NEW unit \in Nat \ {0}, NEW time \in Nat, NEW k \in Nat, unit * k <= time
  PROVE  k <= time \div unit
<1> DEFINE q == time \div unit
           r == time % unit
<1>1. q \in Nat /\ r \in 0..(unit - 1) /\ time = unit * q + r
  OBVIOUS
<1> HIDE DEF q, r
<1>2. ASSUME k > q PROVE FALSE
  <2>1. PICK m \in Nat : k = q + 1 + m
    <3>1. k - q - 1 \in Nat /\ k = q + 1 + (k - q - 1)
      BY <1>1, <1>2
    <3> QED
      BY <3>1
  <2>2. unit * k = unit * q + unit + unit * m
    BY <1>1, <2>1
  <2>3. unit * m \in Nat /\ unit * q \in Nat
    BY <1>1
  <2> QED
    BY <1>1, <2>2, <2>3
<1> QED
  BY <1>1, <1>2 DEF q

\* A route's emissions pile up no further than the largest latency lasts.
THEOREM BacklogIsSmall == Spec => []BacklogIsBounded
<1>1. Init => BInv
  <2> SUFFICES ASSUME Init PROVE OnTime
    BY InitPInv DEF BInv
  <2>1. /\ now = 0 /\ ticks = 0 /\ roots \in Seq(Call)
    <3>1. \E run \in Runs : roots = run[2]
      BY DEF Init
    <3> QED
      BY <3>1, RunAssumption DEF Init
  <2>2. Len(roots) \in Nat /\ Interval * (0 + 1) \in Nat
    BY <2>1, TimeAssumption
  <2> QED
    BY <2>1, <2>2 DEF OnTime
<1>2. BInv /\ [Next]_vars => BInv'
  <2>1. PInv /\ [Next]_vars => PInv'
    BY TickPunctual, BeginPunctual, FanOutPunctual, SleepPunctual, EndNestedPunctual,
       EndSyntheticPunctual, PassPunctual, StutterPunctual DEF Next, Over
  <2> QED
    BY <2>1, NextOnTime DEF BInv
<1>3. BInv => BacklogIsBounded
  <2> DEFINE U == {i \in 1..ticks : pc[roots[i]] # "done"}
             bound == IF mode = "nested" THEN Max(Latency) ELSE 0
             n == bound \div Interval
  <2> SUFFICES ASSUME BInv, prompt PROVE Cardinality(U) <= n + 1
    <3>1. (IF mode = "nested" THEN Max(Latency) \div Interval ELSE 0) = n
      BY TimeAssumption
    <3> QED
      BY <3>1 DEF BacklogIsBounded
  <2>1. bound \in Nat /\ Interval \in Nat \ {0} /\ n \in Nat
    <3>1. Max(Latency) \in Nat /\ Interval \in Nat \ {0}
      BY LongestLatency, TimeAssumption
    <3>2. bound \in Nat
      BY <3>1
    <3> HIDE DEF bound
    <3> QED
      BY <3>1, <3>2
  <2>2. /\ ticks \in Nat /\ now \in Nat /\ \A i \in 1..ticks : roots[i] \in Call
    BY TicksMakeRoots
  <2>3. CASE U = {}
    <3>1. Cardinality(U) = 0
      BY <2>3, FS_EmptySet
    <3> HIDE DEF U, n
    <3> QED
      BY <2>1, <3>1
  <2>4. CASE U # {}
    <3>1. PICK m \in U : \A i \in U : m <= i
      <4>1. U \in SUBSET Nat
        OBVIOUS
      <4> HIDE DEF U
      <4> QED
        BY <2>4, <4>1, LeastNatural
    <3>2. m \in 1..ticks /\ pc[roots[m]] # "done" /\ roots[m] \in Call
      BY <2>2, <3>1
    <3>3. now <= Interval * m + bound
      <4> DEFINE c == roots[m]
                 due == Interval * m
      <4>1. /\ pc[c] # "idle" /\ due <= now /\ due \in Nat
            /\ pc[c] = "ready" => now = due
            /\ Begun(c) => start[c] = due
        BY <2>1, <3>2 DEF BInv, OnTime
      <4>2. c \in Call /\ pc[c] # "done" /\ LongestSample(c) \in Nat /\ LongestSample(c) <= Max(Latency)
            /\ start[c] \in Nat
        BY <3>2, LongestIs, Times DEF BInv, PInv
      <4>3. Begun(c) => now - start[c] <= (IF mode = "synthetic" THEN 0 ELSE LongestSample(c))
        BY <4>2, WithinLength DEF BInv
      <4>4. mode \in {"synthetic", "nested"} /\ Max(Latency) \in Nat
        BY LongestLatency, TimeAssumption DEF BInv, PInv, IInv, TypeOK
      <4>5. CASE Begun(c)
        <5>1. now - start[c] <= bound
          <6>1. CASE mode = "synthetic"
            BY <4>3, <4>5, <6>1
          <6>2. CASE mode = "nested"
            <7>1. now - start[c] <= LongestSample(c) /\ bound = Max(Latency)
              BY <4>3, <4>5, <6>2
            <7> HIDE DEF bound, c
            <7> DEFINE long == LongestSample(c)
                       most == Max(Latency)
                       late == now - start[c]
            <7>2. long \in Nat /\ most \in Nat /\ late \in Int /\ late <= long /\ long <= most
              BY <2>2, <4>2, <4>4, <7>1
            <7>3. bound = most
              BY <7>1
            <7> HIDE DEF long, most, late
            <7>4. late <= bound
              BY <7>2, <7>3
            <7> QED
              BY <7>4 DEF late
          <6> QED
            BY <4>4, <6>1, <6>2
        <5>2. start[c] = due
          BY <4>1, <4>5
        <5> HIDE DEF bound, c, due
        <5>3. now <= due + bound
          BY <2>1, <2>2, <4>1, <4>2, <5>1, <5>2
        <5> QED
          BY <5>3 DEF due
      <4>6. CASE ~Begun(c)
        <5>1. now = due
          BY <4>1, <4>6 DEF Begun
        <5> HIDE DEF bound, c, due
        <5>2. now <= due + bound
          BY <2>1, <2>2, <5>1
        <5> QED
          BY <5>2 DEF due
      <4> QED
        BY <4>5, <4>6
    <3>4. ASSUME NEW i \in U PROVE i \in m..(m + n)
      <4>1. i \in 1..ticks /\ m <= i /\ Interval * i <= now
        BY <3>1 DEF BInv, OnTime
      <4>2. PICK k \in Nat : i = m + k
        <5>1. i - m \in Nat /\ i = m + (i - m)
          BY <3>2, <4>1
        <5> QED
          BY <5>1
      <4> HIDE DEF bound, n
      <4>3. Interval * i = Interval * m + Interval * k /\ Interval * m \in Nat /\ Interval * k \in Nat
        BY <2>1, <3>2, <4>2
      <4>4. Interval * k <= bound
        BY <2>1, <2>2, <3>3, <4>1, <4>3
      <4>5. k <= n
        BY <2>1, <4>4, Fits DEF n
      <4> QED
        BY <2>1, <3>2, <4>2, <4>5
    <3> HIDE DEF U, n, bound
    <3>5. PICK last \in Int : last = m + n
      BY <2>1, <3>2
    <3>6. m \in Int /\ last - m + 1 = n + 1 /\ ~(m > last)
      BY <2>1, <3>2, <3>5
    <3>7. IsFiniteSet(m..last) /\ Cardinality(m..last) = IF m > last THEN 0 ELSE last - m + 1
      BY <3>6, FS_Interval
    <3>8. Cardinality(m..last) = n + 1
      BY <3>6, <3>7
    <3>9. U \subseteq m..last
      BY <3>4, <3>5
    <3>10. Cardinality(U) <= Cardinality(m..last)
      BY <3>7, <3>9, FS_Subset
    <3> QED
      BY <3>8, <3>10
  <2> QED
    BY <2>3, <2>4
<1> QED
  BY <1>1, <1>2, <1>3, PTL DEF Spec

=============================================================================
