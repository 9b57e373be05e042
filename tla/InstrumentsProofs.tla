--------------------------- MODULE InstrumentsProofs ---------------------------
(***************************************************************************)
(* Proofs about Instruments, for any finite set of visits and any metrics  *)
(* they declare: the mutex guards the maps, each key gets one instrument,  *)
(* and nothing is exported that was not recorded.                          *)
(***************************************************************************)
EXTENDS Instruments, FiniteSetTheorems, TLAPS

\* Where a visit holds the mutex.
Critical == {"find", "create"}

\* The index of a visit that deals with a business metric is one it declares.
InLoop == \A v \in Visit : pc[v] \in Critical \cup {"add"} => at[v] \in 1..Len(Declared[v])

\* The mutex is held by those in Counter or Histogram, of which there is one.
Held == mu = {v \in Visit : pc[v] \in Critical}
Alone == \A v, w \in mu : v = w

\* A visit that makes an instrument has found none.
MissedKey == \A v \in Visit : pc[v] = "create" => unit[key(v)] = "none"

\* What is in the maps was made once, and nothing else was made.
MadeOnce == \A k \in Business : made[k] = IF unit[k] = "none" THEN 0 ELSE 1

\* The reader has seen no more than was recorded.
SeenIsRecorded == \A k \in Key : collected[k] <= recorded[k]

IInv == TypeOK /\ InLoop /\ Held /\ Alone /\ MissedKey /\ MadeOnce /\ SeenIsRecorded

\* Every key a visit comes to is one of Business, with a unit that is not "none".
LEMMA KeyInBusiness ==
  ASSUME NEW v \in Visit, at[v] \in 1..Len(Declared[v])
  PROVE  key(v) \in Business /\ metric(v) \in Metric
<1>1. Declared[v] \in Seq(Metric)
  BY DeclaredAssumption
<1>2. metric(v) \in Metric
  BY <1>1 DEF metric
<1>3. key(v) \in {KeyOf(Declared[v][i]) : i \in 1..Len(Declared[v])}
  BY DEF key, metric
<1>4. QED
  BY <1>2, <1>3 DEF Business

\* An emitter starts with empty maps and a free mutex.
LEMMA InitIInv == Init => IInv
<1> SUFFICES ASSUME Init PROVE IInv
  OBVIOUS
<1>1. TypeOK
  <2>1. pc \in [Visit -> Statements] /\ at \in [Visit -> Nat \ {0}]
    BY DEF Init, Statements
  <2>2. unit \in [Business -> Unit \cup {"none"}] /\ made \in [Business -> Nat]
    BY DEF Init
  <2>3. /\ recorded \in [Key -> Nat] /\ collected \in [Key -> Nat]
        /\ exported \in [Key -> Nat]
    BY DEF Init
  <2>4. QED
    BY <2>1, <2>2, <2>3 DEF Init, TypeOK
<1>2. InLoop /\ Held /\ Alone /\ MissedKey
  BY DEF Init, InLoop, Held, Alone, MissedKey, Critical
<1>3. MadeOnce /\ SeenIsRecorded
  BY DEF Init, MadeOnce, SeenIsRecorded
<1>4. QED
  BY <1>1, <1>2, <1>3 DEF IInv

\* A step of one visit outside Counter and Histogram that leaves the maps and the
\* reader alone keeps the invariant.
LEMMA Outside ==
  ASSUME IInv, NEW v \in Visit, NEW to \in {"request", "error", "next", "done"},
         pc[v] \notin Critical, pc' = [pc EXCEPT ![v] = to],
         at' = at \/ at' = [at EXCEPT ![v] = @ + 1],
         cut' \in SUBSET Visit,
         recorded' = recorded \/ \E k \in Key : Count(k),
         UNCHANGED <<failed, mapVars, readerVars>>
  PROVE  IInv'
<1> USE DEF IInv, Critical
<1>1. TypeOK'
  <2>1. recorded' \in [Key -> Nat]
    BY DEF TypeOK, Count
  <2>2. at' \in [Visit -> Nat \ {0}]
    BY DEF TypeOK
  <2>3. QED
    BY <2>1, <2>2 DEF TypeOK, Statements, mapVars, readerVars
<1>2. InLoop'
  BY DEF InLoop, TypeOK
<1>3. Held' /\ Alone'
  BY DEF Held, Alone, TypeOK, mapVars
<1>4. MissedKey'
  BY DEF MissedKey, TypeOK, mapVars, key, metric
<1>5. MadeOnce'
  BY DEF MadeOnce, mapVars
<1>6. SeenIsRecorded'
  BY DEF SeenIsRecorded, TypeOK, Count, readerVars
<1>7. QED
  BY <1>1, <1>2, <1>3, <1>4, <1>5, <1>6

\* RecordRED, the loop's end, and the recording of a business metric.
LEMMA OutsideSteps ==
  ASSUME IInv, NEW v \in Visit,
         RecordDuration(v) \/ CountRequest(v) \/ CountError(v) \/ Add(v) \/ Leave(v)
  PROVE  IInv'
<1>1. {Durations, Requests, Errors} \subseteq Key
  BY DEF Key
<1>2. CASE RecordDuration(v)
  BY <1>1, <1>2, Outside DEF RecordDuration, Goto, IInv, TypeOK, Critical
<1>3. CASE CountRequest(v)
  <2>1. CASE failed[v]
    BY <1>1, <1>3, <2>1, Outside DEF CountRequest, Goto, IInv, TypeOK, Critical
  <2>2. CASE ~failed[v]
    BY <1>1, <1>3, <2>2, Outside DEF CountRequest, Goto, IInv, TypeOK, Critical
  <2>3. QED
    BY <2>1, <2>2
<1>4. CASE CountError(v)
  BY <1>1, <1>4, Outside DEF CountError, Goto, IInv, TypeOK, Critical
<1>5. CASE Add(v)
  <2>1. key(v) \in Key
    BY <1>5, KeyInBusiness DEF Add, Goto, IInv, InLoop, Key
  <2>2. QED
    BY <1>5, <2>1, Outside DEF Add, Goto, Advance, IInv, TypeOK, Critical
<1>6. CASE Leave(v)
  BY <1>6, Outside DEF Leave, Goto, IInv, TypeOK, Critical
<1>7. QED
  BY <1>2, <1>3, <1>4, <1>5, <1>6

\* The mutex is free when a visit takes it, so nobody else is inside.
LEMMA AskKeeps == ASSUME IInv, NEW v \in Visit, Ask(v) PROVE IInv'
<1> USE DEF IInv, Ask, Goto, Lock, Critical
<1>1. TypeOK'
  BY DEF TypeOK, Statements, readerVars
<1>2. InLoop'
  <2>1. at[v] \in 1..Len(Declared[v])
    BY DeclaredAssumption DEF TypeOK
  <2>2. QED
    BY <2>1 DEF InLoop, TypeOK
<1>3. Held' /\ Alone'
  BY DEF Held, Alone, TypeOK
<1>4. MissedKey'
  BY DEF MissedKey, Held, TypeOK, key, metric
<1>5. MadeOnce' /\ SeenIsRecorded'
  BY DEF MadeOnce, SeenIsRecorded, readerVars
<1>6. QED
  BY <1>1, <1>2, <1>3, <1>4, <1>5

\* Finding the instrument, or not, changes no map.
LEMMA FindKeeps == ASSUME IInv, NEW v \in Visit, Hit(v) \/ Miss(v) PROVE IInv'
<1> USE DEF IInv, Hit, Miss, Goto, Unlock, Critical
<1>1. TypeOK'
  BY DEF TypeOK, Statements, mapVars, readerVars
<1>2. InLoop'
  BY DEF InLoop, TypeOK
<1>3. Held' /\ Alone'
  BY DEF Held, Alone, TypeOK, mapVars
<1>4. MissedKey'
  BY DEF MissedKey, TypeOK, mapVars, key, metric
<1>5. MadeOnce' /\ SeenIsRecorded'
  BY DEF MadeOnce, SeenIsRecorded, mapVars, readerVars
<1>6. QED
  BY <1>1, <1>2, <1>3, <1>4, <1>5

\* The instrument is made for a key that has none, by the only visit inside.
LEMMA CreateKeeps == ASSUME IInv, NEW v \in Visit, Create(v) PROVE IInv'
<1> USE DEF IInv, Create, Goto, Unlock, Critical
<1>1. key(v) \in Business /\ metric(v) \in Metric
  BY KeyInBusiness DEF InLoop
<1>2. metric(v).unit \in Unit /\ metric(v).unit # "none"
  BY <1>1 DEF Metric, Unit
<1>3. unit[key(v)] = "none"
  BY DEF MissedKey
<1>4. TypeOK'
  BY <1>1, <1>2 DEF TypeOK, Statements, readerVars
<1>5. InLoop'
  BY DEF InLoop, TypeOK
<1>6. Held' /\ Alone'
  BY DEF Held, Alone, TypeOK
<1>7. MissedKey'
  BY DEF MissedKey, Held, Alone, TypeOK
<1>8. MadeOnce'
  BY <1>1, <1>2, <1>3 DEF MadeOnce, TypeOK
<1>9. SeenIsRecorded'
  BY DEF SeenIsRecorded, readerVars
<1>10. QED
  BY <1>4, <1>5, <1>6, <1>7, <1>8, <1>9

\* A refused name leaves the maps as they are.
LEMMA RefusedKeeps == ASSUME IInv, NEW v \in Visit, Refused(v) PROVE IInv'
<1> USE DEF IInv, Refused, Goto, Advance, Unlock, Critical
<1>1. TypeOK'
  BY DEF TypeOK, Statements, readerVars
<1>2. InLoop'
  BY DEF InLoop, TypeOK
<1>3. Held' /\ Alone'
  BY DEF Held, Alone, TypeOK
<1>4. MissedKey'
  BY DEF MissedKey, TypeOK, key, metric
<1>5. MadeOnce' /\ SeenIsRecorded'
  BY DEF MadeOnce, SeenIsRecorded, readerVars
<1>6. QED
  BY <1>1, <1>2, <1>3, <1>4, <1>5

\* A panic releases the mutex if the visit holds it, and only then.
LEMMA PanicKeeps == ASSUME IInv, NEW v \in Visit, Panic(v) PROVE IInv'
<1> USE DEF IInv, Panic, Unwind, Unlock, Critical
<1>1. TypeOK'
  BY DEF TypeOK, Statements, readerVars
<1>2. InLoop'
  BY DEF InLoop, TypeOK
<1>3. Held' /\ Alone'
  BY DEF Held, Alone, TypeOK
<1>4. MissedKey'
  BY DEF MissedKey, TypeOK, key, metric
<1>5. MadeOnce' /\ SeenIsRecorded'
  BY DEF MadeOnce, SeenIsRecorded, readerVars
<1>6. QED
  BY <1>1, <1>2, <1>3, <1>4, <1>5

\* An export sends what was recorded since the last one.
LEMMA CollectKeeps == ASSUME IInv, NEW k \in Key, Collect(k) PROVE IInv'
<1> USE DEF IInv, Collect
<1>1. recorded[k] \in Nat /\ collected[k] \in Nat /\ collected[k] <= recorded[k]
  BY DEF TypeOK, SeenIsRecorded
<1>2. collected' \in [Key -> Nat] /\ exported' \in [Key -> Nat]
  BY <1>1 DEF TypeOK
<1>3. TypeOK'
  BY <1>2 DEF TypeOK, mapVars
<1>4. InLoop' /\ Held' /\ Alone' /\ MissedKey' /\ MadeOnce'
  BY DEF InLoop, Held, Alone, MissedKey, MadeOnce, mapVars, key, metric
<1>5. SeenIsRecorded'
  BY <1>1 DEF SeenIsRecorded, TypeOK
<1>6. QED
  BY <1>3, <1>4, <1>5

\* A step that changes nothing.
LEMMA StutterKeeps == ASSUME IInv, UNCHANGED vars PROVE IInv'
BY DEF IInv, TypeOK, InLoop, Held, Alone, MissedKey, MadeOnce, SeenIsRecorded, vars,
   mapVars, readerVars, key, metric

\* Visits and exports keep the invariant.
LEMMA NextIInv == IInv /\ [Next]_vars => IInv'
<1> SUFFICES ASSUME IInv, [Next]_vars PROVE IInv'
  OBVIOUS
<1>1. CASE \E v \in Visit : Record(v)
  <2>1. PICK v \in Visit : Record(v)
    BY <1>1
  <2>2. QED
    BY <2>1, OutsideSteps, AskKeeps, FindKeeps, CreateKeeps, RefusedKeeps DEF Record
<1>2. CASE \E v \in Visit : Panic(v)
  BY <1>2, PanicKeeps
<1>3. CASE \E k \in Key : Collect(k)
  BY <1>3, CollectKeeps
<1>4. CASE Idle \/ UNCHANGED vars
  BY <1>4, StutterKeeps DEF Idle
<1>5. QED
  BY <1>1, <1>2, <1>3, <1>4 DEF Next

\* The invariant holds of every run, whatever its fairness.
THEOREM Invariance == Spec => []IInv
<1>1. Init => IInv
  BY InitIInv
<1>2. IInv /\ [Next]_vars => IInv'
  BY NextIInv
<1>3. QED
  BY <1>1, <1>2, PTL DEF Spec

\* Every variable keeps its type; in particular the backend's sums, from which
\* nothing that was not recorded before is ever taken away.
THEOREM TypeCorrect == Spec => []TypeOK
<1>1. IInv => TypeOK
  BY DEF IInv
<1>2. QED
  BY <1>1, Invariance, PTL

\* No two visits are inside Counter or Histogram at once, so the maps are never
\* read and written at the same time, even after panics.
THEOREM NoConcurrentMapAccess == Spec => []MapsGuarded
<1>1. IInv => MapsGuarded
  <2> SUFFICES ASSUME IInv PROVE MapsGuarded
    OBVIOUS
  <2>1. mu = {v \in Visit : pc[v] \in {"find", "create"}}
    BY DEF IInv, Held, Critical
  <2>2. CASE mu = {}
    BY <2>1, <2>2, FS_EmptySet DEF MapsGuarded
  <2>3. CASE mu # {}
    <3>1. PICK v : v \in mu
      BY <2>3
    <3>2. mu = {v}
      BY <3>1 DEF IInv, Alone
    <3>3. Cardinality(mu) = 1
      BY <3>2, FS_Singleton
    <3>4. QED
      BY <2>1, <3>3 DEF MapsGuarded
  <2>4. QED
    BY <2>2, <2>3
<1>2. QED
  BY <1>1, Invariance, PTL

\* Once a key has an instrument no other one is made for it, and its unit stays
\* that of the first visit to ask.
THEOREM OneInstrumentPerKey == Spec => OneInstrument
<1> DEFINE Stays == \A k \in Business : made[k] > 0 => made'[k] = made[k] /\ unit'[k] = unit[k]
<1>1. ASSUME IInv, [Next]_vars PROVE Stays \/ UNCHANGED vars
  <2>1. CASE UNCHANGED <<made, unit>>
    BY <2>1
  <2>2. CASE \E v \in Visit : Create(v)
    <3>1. PICK v \in Visit : Create(v)
      BY <2>2
    <3>2. key(v) \in Business /\ unit[key(v)] = "none"
      BY <1>1, <3>1, KeyInBusiness DEF Create, Goto, IInv, InLoop, MissedKey, Critical
    <3>3. made[key(v)] = 0
      BY <1>1, <3>2 DEF IInv, MadeOnce
    <3>4. \A k \in Business : k # key(v) => made'[k] = made[k] /\ unit'[k] = unit[k]
      BY <1>1, <3>1 DEF Create, IInv, TypeOK
    <3>5. QED
      BY <3>3, <3>4
  <2>3. QED
    BY <1>1, <2>1, <2>2 DEF Next, Record, RecordDuration, CountRequest, CountError, Ask, Hit,
      Miss, Refused, Add, Leave, Panic, Collect, Idle, vars, mapVars
<1>2. Spec => [][Stays]_vars
  BY <1>1, Invariance, PTL DEF Spec
<1>3. QED
  BY <1>2 DEF OneInstrument

-----------------------------------------------------------------------------
(* The sums of the backend *)

\* The statements before the one that records a RED metric.
Before(k) ==
  IF k = Durations THEN {"duration"}
  ELSE IF k = Requests THEN {"duration", "request"} ELSE {"duration", "request", "error"}

\* Whether an emission has the statement behind it that records event p for k.
Behind(p, k) == IF p[2] = 0 THEN pc[p[1]] \notin Before(k) ELSE p[2] < at[p[1]]

\* What was recorded for k at most; and certainly, for a panic may have struck
\* in the middle of RecordRED.
Most(k)  == {p \in Events(Visit) : Concerns(p, k) /\ Behind(p, k)}
Least(k) == {p \in Events(Visit) : /\ Concerns(p, k) /\ Behind(p, k)
                                   /\ p[2] = 0 => p[1] \notin cut}

\* Only failed visits count an error, only names the SDK takes are recorded to, and
\* a visit leaves the loop at its end or in a panic.
Course ==
  \A v \in Visit : /\ pc[v] = "error" => failed[v] = TRUE
                   /\ pc[v] = "add" => metric(v).name \notin Malformed
                   /\ pc[v] = "done" /\ v \notin cut => at[v] > Len(Declared[v])

\* The maps hold no instrument of a name that the SDK refuses.
WellNamed == \A k \in Business : unit[k] # "none" => k[2] \notin Malformed

\* The reader has sent what it has seen.
SentIsSeen == exported = collected

Tally ==
  \A k \in Key : /\ Cardinality(Least(k)) <= recorded[k]
                 /\ recorded[k] <= Cardinality(Most(k))

SumInv == Course /\ WellNamed /\ SentIsSeen /\ Tally

\* An event is a visit with zero or an index of what it declares.
LEMMA EventIs ==
  ASSUME NEW S
  PROVE  /\ \A p \in Events(S) : /\ p[1] \in S /\ p[2] \in 0..Len(Declared[p[1]])
                                 /\ p = <<p[1], p[2]>>
         /\ \A v \in S : \A i \in 0..Len(Declared[v]) : <<v, i>> \in Events(S)
<1>1. ASSUME NEW p \in Events(S)
      PROVE  /\ p[1] \in S /\ p[2] \in 0..Len(Declared[p[1]])
             /\ p = <<p[1], p[2]>>
  <2>1. PICK v \in S : p \in {v} \X (0..Len(Declared[v]))
    BY Zenon DEF Events
  <2> QED
    BY <2>1
<1>2. ASSUME NEW v \in S, NEW i \in 0..Len(Declared[v])
      PROVE  <<v, i>> \in Events(S)
  <2>1. <<v, i>> \in {v} \X (0..Len(Declared[v]))
    OBVIOUS
  <2> QED
    BY <2>1, Zenon DEF Events
<1> QED
  BY <1>1, <1>2

\* The events of a finite set of visits are finitely many.
LEMMA EventsAreFinite ==
  ASSUME NEW S \in SUBSET Visit
  PROVE  IsFiniteSet(Events(S))
<1> DEFINE f == [v \in S |-> {v} \X (0..Len(Declared[v]))]
           All == {{v} \X (0..Len(Declared[v])) : v \in S}
<1>1. IsFiniteSet(S)
  BY VisitAssumption, FS_Subset
<1>2. f \in Surjection(S, All)
  BY DEF Surjection
<1>3. IsFiniteSet(All)
  BY <1>1, <1>2, FS_Surjection
<1>4. ASSUME NEW v \in S PROVE IsFiniteSet({v} \X (0..Len(Declared[v])))
  <2>1. Len(Declared[v]) \in Nat
    BY DeclaredAssumption
  <2>2. IsFiniteSet({v})
    BY FS_Singleton
  <2>3. IsFiniteSet(0..Len(Declared[v]))
    BY <2>1, FS_Interval
  <2> QED
    BY <2>2, <2>3, FS_Product
<1>5. \A T \in All : IsFiniteSet(T)
  BY <1>4
<1>6. IsFiniteSet(UNION All)
  BY <1>3, <1>5, FS_UNION
<1> QED
  BY <1>6 DEF Events

\* Two sets of events that differ in e at most differ by one at most.
LEMMA OneMore ==
  ASSUME NEW S \in SUBSET Events(Visit), NEW T \in SUBSET Events(Visit), NEW e,
         \A p \in Events(Visit) : p # e => (p \in S <=> p \in T)
  PROVE  /\ Cardinality(S) \in Nat /\ Cardinality(T) \in Nat
         /\ (e \in T => e \in S) => Cardinality(T) <= Cardinality(S)
         /\ Cardinality(T) <= Cardinality(S) + 1
         /\ e \notin S /\ e \in T => Cardinality(T) = Cardinality(S) + 1
<1>1. IsFiniteSet(Events(Visit))
  BY EventsAreFinite
<1>2. IsFiniteSet(S) /\ IsFiniteSet(T) /\ Cardinality(S) \in Nat /\ Cardinality(T) \in Nat
  BY <1>1, FS_Subset, FS_CardinalityType
<1>3. CASE e \in T => e \in S
  <2>1. T \in SUBSET S
    BY <1>3
  <2>2. Cardinality(T) <= Cardinality(S)
    BY <1>2, <2>1, FS_Subset
  <2> QED
    BY <1>2, <1>3, <2>2
<1>4. CASE e \in T /\ e \notin S
  <2>1. T = S \cup {e}
    BY <1>4
  <2>2. Cardinality(T) = Cardinality(S) + 1
    BY <1>2, <1>4, <2>1, FS_AddElement
  <2> QED
    BY <1>2, <1>4, <2>2
<1> QED
  BY <1>3, <1>4

\* A step that moves one event for k, and counts k when it puts it behind an
\* emission, keeps the tally of k.
LEMMA OneEvent ==
  ASSUME NEW k \in Key, recorded[k] \in Nat, recorded'[k] \in Nat,
         Cardinality(Least(k)) <= recorded[k], recorded[k] <= Cardinality(Most(k)),
         NEW e,
         \A p \in Events(Visit) : p # e => (p \in Least(k) <=> p \in Least(k)'),
         \A p \in Events(Visit) : p # e => (p \in Most(k) <=> p \in Most(k)'),
         \/ /\ recorded'[k] = recorded[k]
            /\ e \in Least(k)' => e \in Least(k)
            /\ e \in Most(k) => e \in Most(k)'
         \/ recorded'[k] = recorded[k] + 1 /\ e \notin Most(k) /\ e \in Most(k)'
  PROVE  Cardinality(Least(k)') <= recorded'[k] /\ recorded'[k] <= Cardinality(Most(k)')
<1>1. /\ Least(k) \in SUBSET Events(Visit) /\ Least(k)' \in SUBSET Events(Visit)
      /\ Most(k) \in SUBSET Events(Visit) /\ Most(k)' \in SUBSET Events(Visit)
  BY DEF Least, Most
<1>2. /\ Cardinality(Least(k)) \in Nat /\ Cardinality(Least(k)') \in Nat
      /\ (e \in Least(k)' => e \in Least(k)) => Cardinality(Least(k)') <= Cardinality(Least(k))
      /\ Cardinality(Least(k)') <= Cardinality(Least(k)) + 1
  BY <1>1, OneMore
<1>3. /\ Cardinality(Most(k)) \in Nat /\ Cardinality(Most(k)') \in Nat
      /\ (e \in Most(k) => e \in Most(k)') => Cardinality(Most(k)) <= Cardinality(Most(k)')
  BY <1>1, OneMore
<1>4. e \notin Most(k) /\ e \in Most(k)' => Cardinality(Most(k)') = Cardinality(Most(k)) + 1
  BY <1>1, OneMore
<1> QED
  BY <1>2, <1>3, <1>4

\* What a step leaves alone when it records nothing for k and moves no event of k.
LEMMA NoEvent ==
  ASSUME Tally, NEW k \in Key, recorded'[k] = recorded[k],
         Least(k)' = Least(k), Most(k)' = Most(k)
  PROVE  Cardinality(Least(k)') <= recorded'[k] /\ recorded'[k] <= Cardinality(Most(k)')
<1>1. Cardinality(Least(k)) <= recorded[k] /\ recorded[k] <= Cardinality(Most(k))
  BY DEF Tally
<1> QED
  BY <1>1, Zenon

\* The keys of the RED metrics are three.
LEMMA ThreeKeys ==
  /\ Durations # Requests /\ Durations # Errors /\ Requests # Errors
  /\ {Durations, Requests, Errors} \subseteq Key
BY DEF Durations, Requests, Errors, Key

\* The step of visit v in RecordRED: what becomes of its event of the RED metrics.
LEMMA RedStep ==
  ASSUME IInv, SumInv, NEW v \in Visit, NEW k \in Key,
         \/ RecordDuration(v) \/ CountRequest(v) \/ CountError(v)
         \/ Panic(v)
  PROVE  Cardinality(Least(k)') <= recorded'[k] /\ recorded'[k] <= Cardinality(Most(k)')
<1> DEFINE e == <<v, 0>>
<1>1. recorded \in [Key -> Nat] /\ recorded'[k] \in Nat
  BY DEF IInv, TypeOK, RecordDuration, CountRequest, CountError, Panic, Count
<1>2. Cardinality(Least(k)) <= recorded[k] /\ recorded[k] <= Cardinality(Most(k))
  BY DEF SumInv, Tally
<1>3. /\ at' = at /\ failed' = failed
      /\ \A w \in Visit : w # v => pc'[w] = pc[w] /\ (w \in cut' <=> w \in cut)
  BY DEF IInv, TypeOK, RecordDuration, CountRequest, CountError, Panic, Goto
<1>4. ASSUME NEW p \in Events(Visit), p # e
      PROVE  (p \in Least(k) <=> p \in Least(k)') /\ (p \in Most(k) <=> p \in Most(k)')
  <2>1. p[1] \in Visit /\ p = <<p[1], p[2]>>
    BY EventIs
  <2>2. p[2] = 0 => p[1] # v
    BY <1>4, <2>1
  <2>3. Concerns(p, k)' <=> Concerns(p, k)
    BY <1>3 DEF Concerns
  <2>4. Behind(p, k)' <=> Behind(p, k)
    BY <1>3, <2>1, <2>2 DEF Behind
  <2> QED
    BY <1>3, <2>1, <2>2, <2>3, <2>4 DEF Least, Most
<1>5. e \in Events(Visit) /\ e[1] = v /\ e[2] = 0
  <2>1. 0 \in 0..Len(Declared[v])
    BY DeclaredAssumption
  <2> QED
    BY <2>1, EventIs
<1>6. /\ e \in Most(k) <=> Concerns(e, k) /\ pc[v] \notin Before(k)
      /\ e \in Most(k)' <=> Concerns(e, k) /\ pc'[v] \notin Before(k)
      /\ e \in Least(k) <=> Concerns(e, k) /\ pc[v] \notin Before(k) /\ v \notin cut
      /\ e \in Least(k)' <=> Concerns(e, k) /\ pc'[v] \notin Before(k) /\ v \notin cut'
  BY <1>3, <1>5 DEF Most, Least, Behind, Concerns
<1>7. Concerns(e, k) <=> k \in {Durations, Requests} \/ (k = Errors /\ failed[v])
  BY <1>5 DEF Concerns
<1>8. \/ /\ recorded'[k] = recorded[k]
         /\ e \in Least(k)' => e \in Least(k)
         /\ e \in Most(k) => e \in Most(k)'
      \/ recorded'[k] = recorded[k] + 1 /\ e \notin Most(k) /\ e \in Most(k)'
  <2> HIDE DEF e
  <2>1. CASE RecordDuration(v)
    BY <1>1, <1>6, <1>7, <2>1, ThreeKeys DEF RecordDuration, Goto, Count, Before, IInv, TypeOK
  <2>2. CASE CountRequest(v)
    BY <1>1, <1>6, <1>7, <2>2, ThreeKeys DEF CountRequest, Goto, Count, Before, IInv, TypeOK
  <2>3. CASE CountError(v)
    <3>1. failed[v]
      BY <2>3 DEF CountError, Goto, SumInv, Course
    <3> QED
      BY <1>1, <1>6, <1>7, <2>3, <3>1, ThreeKeys DEF CountError, Goto, Count, Before, IInv, TypeOK
  <2>4. CASE Panic(v)
    BY <1>1, <1>6, <2>4 DEF Panic, Before, IInv, TypeOK
  <2> QED
    BY <2>1, <2>2, <2>3, <2>4
<1> HIDE DEF e
<1> QED
  BY <1>1, <1>2, <1>4, <1>8, OneEvent

\* The step of visit v past a business metric: recorded if the SDK took its name,
\* passed over if not.
LEMMA MetricStep ==
  ASSUME IInv, SumInv, NEW v \in Visit, NEW k \in Key, Add(v) \/ Refused(v)
  PROVE  Cardinality(Least(k)') <= recorded'[k] /\ recorded'[k] <= Cardinality(Most(k)')
<1>1. /\ pc[v] \in {"add", "create"} /\ pc' = [pc EXCEPT ![v] = "next"]
      /\ at' = [at EXCEPT ![v] = @ + 1] /\ failed' = failed /\ cut' = cut
      /\ pc \in [Visit -> Statements] /\ at \in [Visit -> Nat \ {0}]
  BY DEF IInv, TypeOK, Add, Refused, Goto, Advance
<1>2. at[v] \in 1..Len(Declared[v]) /\ key(v) \in Key
  BY <1>1, KeyInBusiness DEF IInv, InLoop, Critical, Key
<1>3. PICK i \in Nat \ {0} : i = at[v]
  BY <1>1
<1> DEFINE e == <<v, i>>
<1>4. recorded \in [Key -> Nat] /\ recorded'[k] \in Nat
  <2>1. recorded \in [Key -> Nat]
    BY DEF IInv, TypeOK
  <2>2. Count(key(v)) \/ recorded' = recorded
    BY DEF Add, Refused
  <2> QED
    BY <1>2, <2>1, <2>2 DEF Count
<1>5. Cardinality(Least(k)) <= recorded[k] /\ recorded[k] <= Cardinality(Most(k))
  BY DEF SumInv, Tally
<1>6. ASSUME NEW p \in Events(Visit), p # e
      PROVE  (p \in Least(k) <=> p \in Least(k)') /\ (p \in Most(k) <=> p \in Most(k)')
  <2>1. p[1] \in Visit /\ p[2] \in 0..Len(Declared[p[1]]) /\ p = <<p[1], p[2]>>
    BY EventIs
  <2>2. p[1] = v => p[2] # i
    BY <1>6, <2>1
  <2>3. Concerns(p, k)' <=> Concerns(p, k)
    BY <1>1 DEF Concerns
  <2>4. p[2] \in Int
    BY <2>1
  <2>5. Behind(p, k)' <=> Behind(p, k)
    <3>1. CASE p[1] # v
      BY <1>1, <2>1, <3>1 DEF Behind
    <3>2. CASE p[1] = v /\ p[2] = 0
      BY <1>1, <3>2 DEF Behind, Before
    <3>3. CASE p[1] = v /\ p[2] # 0
      BY <1>1, <1>3, <2>2, <2>4, <3>3 DEF Behind
    <3> QED
      BY <3>1, <3>2, <3>3
  <2> QED
    BY <1>1, <2>3, <2>5 DEF Least, Most
<1>7. e \in Events(Visit) /\ e[1] = v /\ e[2] = i
  <2>1. i \in 0..Len(Declared[v])
    BY <1>2, <1>3
  <2> QED
    BY <2>1, EventIs
<1>8. /\ e \notin Most(k) /\ e \notin Least(k)
      /\ e \in Most(k)' <=> Concerns(e, k)
      /\ e \in Least(k)' <=> Concerns(e, k)
  BY <1>1, <1>3, <1>7 DEF Most, Least, Behind, Concerns
<1>9. Concerns(e, k) <=> key(v) = k /\ metric(v).name \notin Malformed
  BY <1>3, <1>7 DEF Concerns, key, metric
<1>10. \/ /\ recorded'[k] = recorded[k]
          /\ e \in Least(k)' => e \in Least(k)
          /\ e \in Most(k) => e \in Most(k)'
       \/ recorded'[k] = recorded[k] + 1 /\ e \notin Most(k) /\ e \in Most(k)'
  <2> HIDE DEF e
  <2>1. CASE Add(v)
    <3>1. metric(v).name \notin Malformed
      BY <2>1 DEF Add, Goto, SumInv, Course
    <3> QED
      BY <1>4, <1>8, <1>9, <2>1, <3>1 DEF Add, Count
  <2>2. CASE Refused(v)
    BY <1>8, <1>9, <2>2 DEF Refused
  <2> QED
    BY <2>1, <2>2
<1> HIDE DEF e
<1> QED
  BY <1>4, <1>5, <1>6, <1>10, OneEvent

\* The other steps of a visit and the exports put nothing behind anybody.
LEMMA QuietStep ==
  ASSUME IInv, SumInv, NEW k \in Key,
         \/ \E v \in Visit : Ask(v) \/ Hit(v) \/ Miss(v) \/ Create(v) \/ Leave(v)
         \/ \E h \in Key : Collect(h)
         \/ UNCHANGED vars
  PROVE  Cardinality(Least(k)') <= recorded'[k] /\ recorded'[k] <= Cardinality(Most(k)')
<1>1. /\ recorded'[k] = recorded[k] /\ at' = at /\ failed' = failed /\ cut' = cut
      /\ \A w \in Visit : pc'[w] \in Before(k) <=> pc[w] \in Before(k)
  BY DEF IInv, TypeOK, Ask, Hit, Miss, Create, Leave, Collect, vars, Goto, Before
<1>2. ASSUME NEW p \in Events(Visit)
      PROVE  (Concerns(p, k)' <=> Concerns(p, k)) /\ (Behind(p, k)' <=> Behind(p, k))
  <2>1. p[1] \in Visit
    BY EventIs
  <2> QED
    BY <1>1, <2>1 DEF Concerns, Behind
<1>3. Least(k)' = Least(k) /\ Most(k)' = Most(k)
  BY <1>1, <1>2 DEF Least, Most
<1> QED
  BY <1>1, <1>3, NoEvent DEF SumInv

\* Nothing is recorded before the first emission.
LEMMA InitSum == Init => SumInv
<1> SUFFICES ASSUME Init PROVE SumInv
  OBVIOUS
<1>1. Course /\ WellNamed /\ SentIsSeen
  BY DEF Init, Course, WellNamed, SentIsSeen
<1>2. ASSUME NEW k \in Key
      PROVE  Cardinality(Least(k)) <= recorded[k] /\ recorded[k] <= Cardinality(Most(k))
  <2>1. \A p \in Events(Visit) : ~Behind(p, k)
    <3>1. \A v \in Visit : pc[v] \in Before(k) /\ at[v] = 1
      BY DEF Init, Before
    <3>2. \A p \in Events(Visit) : p[1] \in Visit /\ p[2] \in 0..Len(Declared[p[1]])
      BY EventIs
    <3>3. \A v \in Visit : Len(Declared[v]) \in Nat
      BY DeclaredAssumption
    <3> QED
      BY <3>1, <3>2, <3>3 DEF Behind
  <2>2. Least(k) = {} /\ Most(k) = {}
    BY <2>1 DEF Least, Most
  <2>3. recorded[k] = 0
    BY DEF Init
  <2> QED
    BY <2>2, <2>3, FS_EmptySet
<1> QED
  BY <1>1, <1>2 DEF SumInv, Tally

\* What a visit brings to a key is settled by the statements it has behind it.
LEMMA CourseKept == ASSUME IInv, SumInv, [Next]_vars PROVE Course'
<1>1. ASSUME NEW w \in Visit
      PROVE  /\ pc'[w] = "error" => failed'[w] = TRUE
             /\ pc'[w] = "add" => metric(w)'.name \notin Malformed
             /\ pc'[w] = "done" /\ w \notin cut' => at'[w] > Len(Declared[w])
  <2>1. /\ pc[w] = "error" => failed[w] = TRUE
        /\ pc[w] = "add" => metric(w).name \notin Malformed
        /\ pc[w] = "done" /\ w \notin cut => at[w] > Len(Declared[w])
    BY DEF SumInv, Course
  <2>2. CASE UNCHANGED <<pc, at, failed, cut>>
    BY <2>1, <2>2 DEF metric
  <2>3. ASSUME NEW v \in Visit, v # w, Record(v) \/ Panic(v)
        PROVE  /\ pc'[w] = pc[w] /\ at'[w] = at[w] /\ failed'[w] = failed[w]
               /\ w \in cut' <=> w \in cut
    BY <2>3 DEF IInv, TypeOK, Record, RecordDuration, CountRequest, CountError, Ask, Hit, Miss,
       Create, Refused, Add, Leave, Panic, Goto, Advance
  <2>4. CASE \E v \in Visit : v # w /\ (Record(v) \/ Panic(v))
    BY <2>1, <2>3, <2>4 DEF metric
  <2>5. CASE Hit(w)
    <3>1. pc[w] = "find" /\ unit[key(w)] # "none" /\ at' = at
      BY <2>5 DEF Hit, Goto
    <3>2. key(w) \in Business
      BY <3>1, KeyInBusiness DEF IInv, InLoop, Critical
    <3>3. key(w)[2] \notin Malformed
      BY <3>1, <3>2 DEF SumInv, WellNamed
    <3>4. key(w)[2] = metric(w).name
      BY DEF key, KeyOf, metric
    <3> QED
      BY <2>5, <3>1, <3>3, <3>4 DEF Hit, Goto, IInv, TypeOK, metric
  <2>6. CASE Create(w)
    <3>1. metric(w).name \notin Malformed /\ metric(w)' = metric(w)
      BY <2>6 DEF Create, metric
    <3> QED
      BY <2>6, <3>1 DEF Create, Goto, IInv, TypeOK
  <2>7. CASE RecordDuration(w) \/ CountError(w) \/ Ask(w) \/ Miss(w) \/ Refused(w) \/ Add(w)
    BY <2>7 DEF RecordDuration, CountError, Ask, Miss, Refused, Add, Goto, IInv, TypeOK
  <2>8. CASE CountRequest(w)
    BY <2>8 DEF CountRequest, Goto, IInv, TypeOK
  <2>9. CASE Leave(w)
    BY <2>9 DEF Leave, Goto, IInv, TypeOK
  <2>10. CASE Panic(w)
    BY <2>10 DEF Panic, IInv, TypeOK
  <2> QED
    BY <2>2, <2>4, <2>5, <2>6, <2>7, <2>8, <2>9, <2>10 DEF Next, Record, Collect, Idle, vars
<1> QED
  BY <1>1 DEF Course, metric

\* Only Create puts an instrument into the maps.
LEMMA WellNamedKept == ASSUME IInv, SumInv, [Next]_vars PROVE WellNamed'
<1>1. CASE unit' = unit
  BY <1>1 DEF SumInv, WellNamed
<1>2. CASE \E v \in Visit : Create(v)
  <2>1. PICK v \in Visit : Create(v)
    BY <1>2
  <2>2. metric(v).name \notin Malformed /\ unit' = [unit EXCEPT ![key(v)] = metric(v).unit]
    BY <2>1 DEF Create
  <2>3. key(v)[2] = metric(v).name
    BY DEF key, KeyOf
  <2>4. \A k \in Business : k # key(v) => unit'[k] = unit[k]
    BY <2>2 DEF IInv, TypeOK
  <2> QED
    BY <2>2, <2>3, <2>4 DEF SumInv, WellNamed
<1> QED
  BY <1>1, <1>2 DEF Next, Record, RecordDuration, CountRequest, CountError, Ask, Hit,
     Miss, Refused, Add, Leave, Panic, Collect, Idle, vars, mapVars

\* An export sends the difference to the one before.
LEMMA SentKept == ASSUME IInv, SumInv, [Next]_vars PROVE SentIsSeen'
<1>1. CASE UNCHANGED readerVars
  BY <1>1 DEF SumInv, SentIsSeen, readerVars
<1>2. CASE \E k \in Key : Collect(k)
  <2>1. PICK k \in Key : Collect(k)
    BY <1>2
  <2>2. k[1] \in {"counter", "histogram"}
    <3>1. CASE k \in {Durations, Requests, Errors}
      BY <3>1 DEF Durations, Requests, Errors
    <3>2. CASE k \in Business
      <4>1. PICK v \in Visit : \E i \in 1..Len(Declared[v]) : k = KeyOf(Declared[v][i])
        BY <3>2 DEF Business
      <4>2. PICK i \in 1..Len(Declared[v]) : k = KeyOf(Declared[v][i])
        BY <4>1
      <4>3. Declared[v][i] \in Metric
        BY DeclaredAssumption
      <4> QED
        BY <4>2, <4>3 DEF KeyOf, Metric
    <3> QED
      BY <3>1, <3>2 DEF Key
  <2>3. Temporality(k[1]) = "delta"
    BY <2>2 DEF Temporality
  <2>4. /\ collected' = [collected EXCEPT ![k] = recorded[k]]
        /\ exported' = [exported EXCEPT ![k] = exported[k] + recorded[k] - collected[k]]
    BY <2>1, <2>3 DEF Collect
  <2>5. exported[k] = collected[k] /\ exported[k] \in Nat /\ recorded[k] \in Nat
    BY DEF SumInv, SentIsSeen, IInv, TypeOK
  <2>6. exported[k] + recorded[k] - collected[k] = recorded[k]
    BY <2>5
  <2>7. exported' = [collected EXCEPT ![k] = recorded[k]]
    BY <2>4, <2>6 DEF SumInv, SentIsSeen
  <2> QED
    BY <2>4, <2>7 DEF SentIsSeen
<1> QED
  BY <1>1, <1>2 DEF Next, Record, RecordDuration, CountRequest, CountError, Ask, Hit,
     Miss, Create, Refused, Add, Leave, Panic, Idle, vars

\* Every step of the emitter and of the reader keeps the account.
LEMMA NextSum == IInv /\ SumInv /\ [Next]_vars => SumInv'
<1> SUFFICES ASSUME IInv, SumInv, [Next]_vars PROVE SumInv'
  OBVIOUS
<1>1. ASSUME NEW k \in Key
      PROVE  Cardinality(Least(k)') <= recorded'[k] /\ recorded'[k] <= Cardinality(Most(k)')
  BY RedStep, MetricStep, QuietStep DEF Next, Record, Idle
<1>2. Tally'
  BY <1>1 DEF Tally
<1> QED
  BY <1>2, CourseKept, WellNamedKept, SentKept DEF SumInv

\* What is recorded for every key is told by the statements behind the emissions,
\* and the backend has been sent all that the reader saw.
THEOREM SumInvariance == Spec => [](IInv /\ SumInv)
<1>1. Init => IInv /\ SumInv
  BY InitIInv, InitSum
<1>2. IInv /\ SumInv /\ [Next]_vars => IInv' /\ SumInv'
  BY NextIInv, NextSum
<1> QED
  BY <1>1, <1>2, PTL DEF Spec

\* Once everything is exported the sums of the backend are what happened: each
\* visit that did not panic is in them, once, with each metric it declares and the
\* SDK takes; and no visit is in them twice.
THEOREM BackendIsRight == Spec => []BackendAddsUp
<1>1. IInv /\ SumInv => BackendAddsUp
  <2> SUFFICES ASSUME IInv, SumInv, collected = recorded, \A v \in Visit : pc[v] = "done",
                      NEW k \in Key
               PROVE  exported[k] \in Occurrences(Visit \ cut, k)..Occurrences(Visit, k)
    BY DEF BackendAddsUp
  <2> DEFINE Sure == {p \in Events(Visit \ cut) : Concerns(p, k)}
             Told == {p \in Events(Visit) : Concerns(p, k)}
  <2>1. exported[k] = recorded[k] /\ recorded[k] \in Nat
    BY DEF SumInv, SentIsSeen, IInv, TypeOK
  <2>2. Cardinality(Least(k)) <= recorded[k] /\ recorded[k] <= Cardinality(Most(k))
    BY DEF SumInv, Tally
  <2>3. Most(k) \in SUBSET Told
    BY DEF Most
  <2>4. Sure \in SUBSET Least(k)
    <3> SUFFICES ASSUME NEW p \in Events(Visit \ cut), Concerns(p, k)
                 PROVE  p \in Least(k)
      OBVIOUS
    <3>1. p[1] \in Visit \ cut /\ p[2] \in 0..Len(Declared[p[1]]) /\ p = <<p[1], p[2]>>
      BY EventIs
    <3>2. p \in Events(Visit)
      BY <3>1, EventIs
    <3>3. p[2] # 0 => p[2] < at[p[1]]
      <4>1. at[p[1]] > Len(Declared[p[1]])
        BY <3>1 DEF SumInv, Course
      <4>2. at[p[1]] \in Nat /\ Len(Declared[p[1]]) \in Nat
        BY <3>1, DeclaredAssumption DEF IInv, TypeOK
      <4> QED
        BY <3>1, <4>1, <4>2
    <3>4. pc[p[1]] \notin Before(k)
      BY <3>1 DEF Before
    <3>5. Behind(p, k)
      BY <3>3, <3>4 DEF Behind
    <3> QED
      BY <3>1, <3>2, <3>5 DEF Least
  <2>5. IsFiniteSet(Events(Visit)) /\ Told \in SUBSET Events(Visit) /\ Least(k) \in SUBSET Events(Visit)
    BY EventsAreFinite DEF Least
  <2> HIDE DEF Sure, Told
  <2>6. IsFiniteSet(Told) /\ IsFiniteSet(Least(k))
    BY <2>5, FS_Subset
  <2>7. /\ Cardinality(Most(k)) <= Cardinality(Told) /\ Cardinality(Sure) <= Cardinality(Least(k))
        /\ IsFiniteSet(Most(k)) /\ IsFiniteSet(Sure)
    BY <2>3, <2>4, <2>6, FS_Subset
  <2>8. /\ Cardinality(Told) \in Nat /\ Cardinality(Sure) \in Nat
        /\ Cardinality(Most(k)) \in Nat /\ Cardinality(Least(k)) \in Nat
    BY <2>6, <2>7, FS_CardinalityType
  <2>9. exported[k] \in Cardinality(Sure)..Cardinality(Told)
    BY <2>1, <2>2, <2>7, <2>8
  <2> QED
    BY <2>9 DEF Occurrences, Sure, Told
<1>2. QED
  BY <1>1, SumInvariance, PTL

=============================================================================
