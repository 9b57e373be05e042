------------------------------ MODULE Instruments ------------------------------
(***************************************************************************)
(* The metrics of one service's Emitter, under emissions that run at once: *)
(* RecordRED, then recordBusinessMetrics, whose instruments are made at    *)
(* first use and kept in maps behind a mutex; and the reader that exports  *)
(* what was recorded. A panic in the SDK unwinds through the deferred      *)
(* Unlock to recoverEmission.                                              *)
(*                                                                         *)
(* The two maps are one function on keys, a key being a kind and a name.   *)
(* Left out: attributes and values of a measurement.                       *)
(***************************************************************************)
EXTENDS Integers, Sequences, FiniteSets

CONSTANTS
  Visit,        \* emissions of routes of the service
  Declared,     \* Declared[v]: the business metrics of its route
  Malformed     \* names the SDK refuses

Unit == STRING \ {"none"}
Metric == [kind : {"counter", "histogram"}, name : STRING, unit : Unit]

ASSUME VisitAssumption == IsFiniteSet(Visit)
ASSUME DeclaredAssumption == Declared \in [Visit -> Seq(Metric)]

KeyOf(metric) == <<metric.kind, metric.name>>

\* The instruments newEmitter makes, and those the routes declare.
Durations == <<"histogram", "http.server.request.duration">>
Requests  == <<"counter", "http.server.request.count">>
Errors    == <<"counter", "http.server.error.count">>
Business  == UNION {{KeyOf(Declared[v][i]) : i \in 1..Len(Declared[v])} : v \in Visit}
Key == {Durations, Requests, Errors} \cup Business

VARIABLES
  pc,           \* the statement each emission is at
  at,           \* the index of the business metric it records
  failed,       \* input: its outcome
  cut,          \* those that panicked
  mu,           \* who holds the mutex: a set of at most one
  unit,         \* unit of the instrument the maps hold for a key, or "none"
  made,         \* how many instruments of a key were made
  recorded,     \* how often each was recorded to
  collected,    \* the part of it the reader has seen
  exported      \* the sum of what the backend was sent

readerVars == <<collected, exported>>
mapVars == <<mu, unit, made>>
vars == <<pc, at, failed, cut, mapVars, recorded, readerVars>>

Statements ==
  {"duration", "request", "error", "next", "find", "create", "add", "done"}

TypeOK ==
  /\ pc \in [Visit -> Statements]
  /\ at \in [Visit -> Nat \ {0}]
  /\ failed \in [Visit -> BOOLEAN]
  /\ cut \in SUBSET Visit /\ mu \in SUBSET Visit
  /\ unit \in [Business -> Unit \cup {"none"}] /\ made \in [Business -> Nat]
  /\ recorded \in [Key -> Nat] /\ collected \in [Key -> Nat] /\ exported \in [Key -> Nat]

Init ==
  /\ pc = [v \in Visit |-> "duration"] /\ at = [v \in Visit |-> 1]
  /\ failed \in [Visit -> BOOLEAN] /\ cut = {} /\ mu = {}
  /\ unit = [k \in Business |-> "none"] /\ made = [k \in Business |-> 0]
  /\ recorded = [k \in Key |-> 0]
  /\ collected = [k \in Key |-> 0] /\ exported = [k \in Key |-> 0]

Goto(v, from, to) == pc[v] = from /\ pc' = [pc EXCEPT ![v] = to]
Count(k) == recorded' = [recorded EXCEPT ![k] = @ + 1]
metric(v) == Declared[v][at[v]]
key(v) == KeyOf(metric(v))
Advance(v) == at' = [at EXCEPT ![v] = @ + 1]

-----------------------------------------------------------------------------
(* RecordRED *)

RecordDuration(v) ==
  /\ Goto(v, "duration", "request") /\ Count(Durations)
  /\ UNCHANGED <<at, failed, cut, mapVars, readerVars>>

CountRequest(v) ==
  /\ Goto(v, "request", IF failed[v] THEN "error" ELSE "next") /\ Count(Requests)
  /\ UNCHANGED <<at, failed, cut, mapVars, readerVars>>

CountError(v) ==
  /\ Goto(v, "error", "next") /\ Count(Errors)
  /\ UNCHANGED <<at, failed, cut, mapVars, readerVars>>

-----------------------------------------------------------------------------
(* recordBusinessMetrics, Counter and Histogram *)

\* Mutant: the maps have no lock.
LockNothing(v) == mu' = mu

Lock(v) == mu = {} /\ mu' = {v}

\* Unlock is deferred: it runs on every way out of Counter or Histogram.
Unlock(v) == mu' = mu \ {v}

\* The loop takes the next metric; Counter or Histogram locks.
Ask(v) ==
  /\ at[v] <= Len(Declared[v])
  /\ Goto(v, "next", "find") /\ Lock(v)
  /\ UNCHANGED <<at, failed, cut, unit, made, recorded, readerVars>>

\* The map holds the instrument.
Hit(v) ==
  /\ Goto(v, "find", "add") /\ unit[key(v)] # "none" /\ Unlock(v)
  /\ UNCHANGED <<at, failed, cut, unit, made, recorded, readerVars>>

Miss(v) ==
  /\ Goto(v, "find", "create") /\ unit[key(v)] = "none"
  /\ UNCHANGED <<at, failed, cut, mapVars, recorded, readerVars>>

\* The SDK makes the instrument, and the map takes it.
Create(v) ==
  /\ Goto(v, "create", "add") /\ metric(v).name \notin Malformed
  /\ unit' = [unit EXCEPT ![key(v)] = metric(v).unit]
  /\ made' = [made EXCEPT ![key(v)] = @ + 1]
  /\ Unlock(v)
  /\ UNCHANGED <<at, failed, cut, recorded, readerVars>>

\* The SDK refuses the name: a warning, and the next metric.
Refused(v) ==
  /\ Goto(v, "create", "next") /\ metric(v).name \in Malformed
  /\ Advance(v) /\ Unlock(v)
  /\ UNCHANGED <<failed, cut, unit, made, recorded, readerVars>>

Add(v) ==
  /\ Goto(v, "add", "next") /\ Count(key(v)) /\ Advance(v)
  /\ UNCHANGED <<failed, cut, mapVars, readerVars>>

Leave(v) ==
  /\ at[v] > Len(Declared[v]) /\ Goto(v, "next", "done")
  /\ UNCHANGED <<at, failed, cut, mapVars, recorded, readerVars>>

\* Mutant: Unlock is the last statement instead of a deferred one.
UnwindLocked(v) == mu' = mu

\* What a panic runs on its way out of the emission.
Unwind(v) == Unlock(v)

Panic(v) ==
  /\ pc[v] \in {"duration", "request", "error", "create", "add"}
  /\ pc' = [pc EXCEPT ![v] = "done"] /\ cut' = cut \cup {v}
  /\ Unwind(v)
  /\ UNCHANGED <<at, failed, unit, made, recorded, readerVars>>

-----------------------------------------------------------------------------
(* The reader *)

\* Mutant: counters keep the default of the SDK.
TemporalityOfSDK(kind) == IF kind = "histogram" THEN "delta" ELSE "cumulative"

\* deltaTemporalitySelector, for the kinds an Emitter makes.
Temporality(kind) == IF kind \in {"counter", "histogram"} THEN "delta" ELSE "cumulative"

\* An export of one instrument; the backend adds up what it is sent.
Collect(k) ==
  /\ recorded[k] # collected[k]
  /\ collected' = [collected EXCEPT ![k] = recorded[k]]
  /\ exported' = [exported EXCEPT ![k] =
       @ + recorded[k] - (IF Temporality(k[1]) = "delta" THEN collected[k] ELSE 0)]
  /\ UNCHANGED <<pc, at, failed, cut, mapVars, recorded>>

-----------------------------------------------------------------------------

Record(v) ==
  \/ RecordDuration(v) \/ CountRequest(v) \/ CountError(v)
  \/ Ask(v) \/ Hit(v) \/ Miss(v) \/ Create(v) \/ Refused(v) \/ Add(v) \/ Leave(v)

\* A collection that finds nothing new.
Idle == collected = recorded /\ UNCHANGED vars

Next ==
  \/ \E v \in Visit : Record(v) \/ Panic(v)
  \/ \E k \in Key : Collect(k)
  \/ Idle

\* Go runs each goroutine in the end. A sync.Mutex that waiters find locked
\* passes into starvation mode after a millisecond and is then handed over in
\* order of arrival, so no waiter is passed over for ever.
Spec ==
  /\ Init /\ [][Next]_vars
  /\ \A v \in Visit : SF_vars(Record(v))

-----------------------------------------------------------------------------
(* What the emitter promises *)

\* Counter and Histogram never touch the maps at once: Go ends the program
\* on a concurrent map read and write, which recoverEmission cannot catch.
MapsGuarded == Cardinality({v \in Visit : pc[v] \in {"find", "create"}}) <= 1

\* However many routes declare it, and whichever unit each gives, a key has one
\* instrument: once the first emission to ask has made it, with its unit, no
\* second one is made and the unit stays.
OneInstrument ==
  [][\A k \in Business :
       made[k] > 0 => made'[k] = made[k] /\ unit'[k] = unit[k]]_vars

\* What the visits in S record: 0 stands for the RED metrics of a visit, an index
\* for a metric that it declares.
Events(S) == UNION {{v} \X (0..Len(Declared[v])) : v \in S}

\* Whether such an event adds to the sum of k. A route may declare a metric under
\* the name of a RED metric.
Concerns(p, k) ==
  IF p[2] = 0 THEN k \in {Durations, Requests} \/ (k = Errors /\ failed[p[1]])
  ELSE LET m == Declared[p[1]][p[2]] IN KeyOf(m) = k /\ m.name \notin Malformed

Occurrences(S, k) == Cardinality({p \in Events(S) : Concerns(p, k)})

\* When everything is exported the backend's sums are what happened: every
\* visit that did not panic is in them, once, and so is each metric it declares
\* and the SDK takes; what the others recorded is in them at most once.
BackendAddsUp ==
  collected = recorded /\ (\A v \in Visit : pc[v] = "done") =>
    \A k \in Key :
      exported[k] \in Occurrences(Visit \ cut, k)..Occurrences(Visit, k)

\* A visit ends, also when another panicked while it held the mutex.
VisitsFinish == \A v \in Visit : <>(pc[v] = "done")

=============================================================================
