--------------------------- MODULE TelemetryProofs ---------------------------
(***************************************************************************)
(* Theorems about the package telemetry. Setup and Shutdown of the         *)
(* providers: each has its flush before any is stopped, one that fails     *)
(* harms no other, what is lost is reported, and a failed Setup leaves     *)
(* nothing running that it registered, for any number of services and any  *)
(* behaviour of the exporters. Endpoint: the flag, the environment and the *)
(* fallbacks are read at three different places, and the exporters still   *)
(* agree, for all URLs.                                                    *)
(***************************************************************************)
EXTENDS Providers, Endpoint, TLAPS

-----------------------------------------------------------------------------
(* The order of a pass *)

\* Division of a number written with its quotient and remainder.
LEMMA DivisionOf ==
  ASSUME NEW R \in Nat \ {0}, NEW a \in 0..(R - 1), NEW k \in {0, 1, 2}
  PROVE  (k * R + a) \div R = k /\ (k * R + a) % R = a
<1>1. CASE k = 0
  BY <1>1
<1>2. CASE k = 1
  BY <1>2
<1>3. CASE k = 2
  BY <1>3
<1>4. QED
  BY <1>1, <1>2, <1>3

\* Quotient and remainder of a number below three times the divisor.
LEMMA DivisionIn ==
  ASSUME NEW R \in Nat \ {0}, NEW i \in 0..(3 * R - 1)
  PROVE  i \div R \in {0, 1, 2} /\ i % R \in 0..(R - 1)
<1>1. i \in Nat
  OBVIOUS
<1>2. i % R \in 0..(R - 1)
  BY <1>1
<1>3. i \div R \in {0, 1, 2}
  <2>1. i = R * (i \div R) + (i % R)
    BY <1>1
  <2>2. i \div R \in Nat
    BY <1>1
  <2>3. i \div R < 3
    BY <1>2, <2>1, <2>2
  <2>4. QED
    BY <2>2, <2>3
<1>4. QED
  BY <1>2, <1>3

\* There are three kinds of provider.
LEMMA KindsOf == Len(Kind) = 3
BY DEF Kind

\* Every position of a pass is a provider's.
LEMMA PositionsAreProviders ==
  ASSUME adding \in 1..(N + 1), NEW i \in 1..Last
  PROVE  Nth(i) \in Provider /\ Nth(i)[1] < adding
<1>1. Registered \in Nat /\ Last = 3 * Registered
  BY NAssumption, KindsOf DEF Registered, Last
<1>2. Registered \in Nat \ {0} /\ i - 1 \in 0..(3 * Registered - 1)
  BY <1>1
<1>3. (i - 1) \div Registered \in {0, 1, 2} /\ (i - 1) % Registered \in 0..(Registered - 1)
  BY <1>2, DivisionIn
<1>4. Nth(i)[1] \in 1..Registered /\ Nth(i)[2] \in 1..3
  BY <1>1, <1>3 DEF Nth
<1>5. Nth(i) = <<Nth(i)[1], Nth(i)[2]>>
  BY DEF Nth
<1>6. Nth(i)[1] \in 1..N /\ Nth(i)[1] < adding
  BY <1>4, NAssumption DEF Registered
<1>7. QED
  BY <1>4, <1>5, <1>6, KindsOf DEF Provider

\* Where a pass comes to a provider.
Index(p) == (p[2] - 1) * Registered + p[1]

\* Every registered provider has a position in a pass.
LEMMA ProvidersHavePositions ==
  ASSUME adding \in 1..(N + 1), NEW p \in Provider, p[1] < adding
  PROVE  Index(p) \in 1..Last /\ Nth(Index(p)) = p
<1>1. Registered \in Nat /\ Last = 3 * Registered
  BY NAssumption, KindsOf DEF Registered, Last
<1>2. p = <<p[1], p[2]>> /\ p[1] \in 1..N /\ p[2] \in 1..3
  BY KindsOf DEF Provider
<1>3. p[1] \in 1..Registered
  BY <1>2, NAssumption DEF Registered
<1>4. Registered \in Nat \ {0}
  BY <1>1, <1>3
<1> DEFINE k == p[2] - 1
           a == p[1] - 1
           R == Registered
<1>5. k \in {0, 1, 2} /\ a \in 0..(R - 1)
  BY <1>1, <1>2, <1>3
<1>6. Index(p) - 1 = k * R + a
  <2>1. k * R \in Nat
    BY <1>1, <1>5
  <2>2. QED
    BY <1>2, <2>1 DEF Index
<1>7. (k * R + a) \div R = k /\ (k * R + a) % R = a
  <2> HIDE DEF k, a, R
  <2>1. R \in Nat \ {0}
    BY <1>4 DEF R
  <2>2. QED
    BY <1>5, <2>1, DivisionOf
<1>8. Nth(Index(p)) = <<a + 1, k + 1>>
  BY <1>6, <1>7 DEF Nth
<1>9. Nth(Index(p)) = p
  BY <1>2, <1>8
<1>10. Index(p) \in 1..(3 * R)
  <2>1. CASE k = 0
    BY <1>1, <1>5, <1>6, <2>1, <1>2 DEF Index
  <2>2. CASE k = 1
    BY <1>1, <1>5, <1>6, <2>2, <1>2 DEF Index
  <2>3. CASE k = 2
    BY <1>1, <1>5, <1>6, <2>3, <1>2 DEF Index
  <2>4. QED
    BY <1>5, <2>1, <2>2, <2>3
<1>11. QED
  BY <1>1, <1>9, <1>10

-----------------------------------------------------------------------------
(* The invariant *)

\* Nothing is held, lost or counted before Shutdown, and no provider was made
\* when Setup fails without a clean-up.
BeforeShutdown ==
  step \in {"dial", "add", "run", "failed"} =>
    /\ errs = {} /\ pos = 0 /\ ~expired /\ ~cleanup
    /\ \A p \in Provider : batch[p] = "empty"
    /\ step \in {"dial", "failed"} => adding = 1

\* The connection, if there is one, is open from Setup to the end of Shutdown.
Connected ==
  /\ step \in {"dial", "failed"} => conn = "none"
  /\ step \in {"add", "run", "flush", "stop", "close"} =>
       conn = IF grpc THEN "open" ELSE "none"
  /\ step = "closed" => conn # "open"

\* Every service is registered unless Setup is cleaning up, and then nothing
\* is held.
Complete ==
  /\ step = "run" => adding = N + 1
  /\ step \in {"flush", "stop", "close", "closed"} /\ ~cleanup => adding = N + 1
  /\ cleanup => \A p \in Provider : batch[p] = "empty"

\* What is registered stays so until its Shutdown.
Registry ==
  \A p \in Provider :
    /\ p[1] < adding => provider[p] \in {"registered", "stopped"}
    /\ p[1] >= adding => provider[p] \in {"absent", "orphan"}
    /\ step \notin {"stop", "close", "closed"} => provider[p] # "stopped"
    /\ step \in {"close", "closed"} /\ p[1] < adding => provider[p] = "stopped"

\* How far the current pass is, and what it has done.
Progressed ==
  /\ step \in {"flush", "stop", "close", "closed"} => pos \in 0..Last
  /\ step = "flush" => \A i \in 1..pos : batch[Nth(i)] = "held" => expired
  /\ step = "stop" => \A i \in 1..pos : /\ provider[Nth(i)] = "stopped"
                                        /\ batch[Nth(i)] = "held" => errs # {}

\* What became of the batches.
Accounted ==
  \A p \in Provider :
    /\ step \in {"stop", "close", "closed"} /\ batch[p] = "held" => expired
    /\ step \in {"close", "closed"} /\ batch[p] = "held" => errs # {}
    /\ batch[p] = "dropped" => errs # {}
    /\ batch[p] = "dropped" /\ health[p] = "quick" => expired

ProvidersInv ==
  TypeOK /\ BeforeShutdown /\ Connected /\ Complete /\ Registry /\ Progressed /\ Accounted

-----------------------------------------------------------------------------
(* Its steps *)

\* What one ForceFlush or Shutdown of a provider does to its batch and to the
\* errors: what is left behind is left because the deadline passed, and is
\* reported.
LEMMA ExportEffect ==
  ASSUME TypeOK, NEW p \in Provider, NEW op \in {"flush", "stop"}, Export(p, op)
  PROVE  /\ batch' \in [Provider -> {"empty", "held", "sent", "dropped"}]
         /\ \A q \in Provider : q # p => batch'[q] = batch[q]
         /\ batch[p] = "empty" => batch'[p] = "empty"
         /\ batch'[p] = "held" => expired /\ errs' # {}
         /\ batch'[p] = "dropped" => errs' # {} \/ batch[p] = "dropped"
         /\ batch'[p] = "dropped" /\ batch[p] # "dropped" => ~Delivers(p)
         /\ errs \subseteq errs' /\ errs' \in SUBSET ({"flush", "stop"} \X Provider)
<1>1. <<op, p>> \in {"flush", "stop"} \X Provider
  OBVIOUS
<1>2. /\ batch \in [Provider -> {"empty", "held", "sent", "dropped"}]
      /\ errs \in SUBSET ({"flush", "stop"} \X Provider) /\ expired \in BOOLEAN
  BY DEF TypeOK
<1>3. CASE Delivers(p)
  BY <1>2, <1>3 DEF Export
<1>4. CASE ~Delivers(p)
  <2>1. errs' = IF expired \/ batch[p] = "held" THEN errs \cup {<<op, p>>} ELSE errs
    BY <1>4 DEF Export
  <2>2. errs \subseteq errs' /\ errs' \in SUBSET ({"flush", "stop"} \X Provider)
    BY <1>1, <1>2, <2>1
  <2>3. expired \/ batch[p] = "held" => errs' # {}
    BY <2>1
  <2>4. CASE batch' = [batch EXCEPT ![p] = IF @ = "held" THEN "dropped" ELSE @]
    BY <1>2, <1>4, <2>2, <2>3, <2>4
  <2>5. CASE expired /\ batch' = batch
    BY <1>2, <1>4, <2>2, <2>3, <2>5
  <2>6. QED
    BY <1>4, <2>4, <2>5 DEF Export
<1>5. QED
  BY <1>3, <1>4

\* It holds at the start.
LEMMA ProvidersStart == Init => ProvidersInv
<1> SUFFICES ASSUME Init PROVE ProvidersInv
  OBVIOUS
<1> USE DEF Init
<1>1. TypeOK
  <2>1. 1 \in 1..(N + 1) /\ 0 \in 0..(N * Len(Kind))
    BY NAssumption, KindsOf
  <2>2. QED
    BY <2>1 DEF TypeOK
<1>2. BeforeShutdown /\ Connected /\ Complete /\ Progressed /\ Accounted
  BY DEF BeforeShutdown, Connected, Complete, Progressed, Accounted
<1>3. Registry
  <2>1. \A p \in Provider : ~(p[1] < 1)
    BY NAssumption DEF Provider
  <2>2. \A p \in Provider : provider[p] = "absent"
    OBVIOUS
  <2>3. QED
    BY <2>1, <2>2 DEF Registry
<1>4. QED
  BY <1>1, <1>2, <1>3 DEF ProvidersInv

\* A pass is never longer than there are providers.
LEMMA PassLength ==
  ASSUME adding \in 1..(N + 1)
  PROVE  Last \in Nat /\ Last <= N * Len(Kind)
BY NAssumption, KindsOf DEF Last, Registered

\* The steps of Setup.
LEMMA SetupKeeps ==
  ASSUME ProvidersInv, Dial \/ AddService \/ AddFails \/ SetUp \/ CallShutdown
  PROVE  ProvidersInv'
<1> USE DEF ProvidersInv
<1>0. /\ adding \in 1..(N + 1) /\ adding \in Nat
      /\ \A p \in Provider : p[1] \in 1..N /\ p[1] \in Nat
  BY NAssumption DEF TypeOK, Provider
<1>1. CASE Dial
  <2>1. TypeOK'
    BY <1>1 DEF Dial, TypeOK, inputs
  <2>2. BeforeShutdown' /\ Connected' /\ Complete' /\ Progressed' /\ Accounted'
    BY <1>1 DEF Dial, inputs, BeforeShutdown, Connected, Complete, Progressed, Accounted
  <2>3. Registry'
    BY <1>1 DEF Dial, Registry
  <2>4. QED
    BY <2>1, <2>2, <2>3
<1>2. CASE AddService
  <2>1. TypeOK'
    BY <1>0, <1>2, NAssumption DEF AddService, TypeOK, inputs
  <2>2. BeforeShutdown' /\ Connected' /\ Complete' /\ Progressed' /\ Accounted'
    BY <1>2 DEF AddService, inputs, BeforeShutdown, Connected, Complete, Progressed, Accounted
  <2>3. Registry'
    <3> SUFFICES ASSUME NEW p \in Provider
                 PROVE  /\ p[1] < adding' => provider'[p] = "registered"
                        /\ p[1] >= adding' => provider'[p] \in {"absent", "orphan"}
      BY <1>2 DEF AddService, Registry
    <3>1. provider[p] # "stopped"
      BY <1>2 DEF AddService, Registry
    <3>2. CASE p[1] = adding
      BY <1>0, <1>2, <3>2 DEF AddService
    <3>3. CASE p[1] # adding
      BY <1>0, <1>2, <3>1, <3>3 DEF AddService, Registry
    <3>4. QED
      BY <3>2, <3>3
  <2>4. QED
    BY <2>1, <2>2, <2>3
<1>3. CASE AddFails
  <2>1. TypeOK'
    BY <1>3 DEF AddFails, TypeOK, inputs
  <2>2. Connected' /\ Complete' /\ Accounted' /\ BeforeShutdown'
    BY <1>3 DEF AddFails, inputs, BeforeShutdown, Connected, Complete, Accounted
  <2>3. Progressed'
    BY <1>0, <1>3, PassLength DEF AddFails, BeforeShutdown, Progressed, Last, Registered
  <2>4. Registry'
    <3> SUFFICES ASSUME NEW p \in Provider
                 PROVE  /\ p[1] < adding => provider'[p] = "registered"
                        /\ p[1] >= adding => provider'[p] \in {"absent", "orphan"}
      BY <1>3 DEF AddFails, Registry
    <3>1. provider'[p] = provider[p] \/ (p[1] = adding /\ provider'[p] = "orphan")
      BY <1>3 DEF AddFails
    <3>2. provider[p] # "stopped"
      BY <1>3 DEF AddFails, Registry
    <3>3. QED
      BY <1>0, <3>1, <3>2 DEF Registry
  <2>5. QED
    BY <2>1, <2>2, <2>3, <2>4
<1>4. CASE SetUp
  <2>1. TypeOK'
    BY <1>4 DEF SetUp, TypeOK, inputs
  <2>2. BeforeShutdown' /\ Connected' /\ Complete' /\ Progressed' /\ Accounted'
    BY <1>4 DEF SetUp, inputs, BeforeShutdown, Connected, Complete, Progressed, Accounted
  <2>3. Registry'
    BY <1>4 DEF SetUp, Registry
  <2>4. QED
    BY <2>1, <2>2, <2>3
<1>5. CASE CallShutdown
  <2>0. /\ batch' \in [Provider -> {"empty", "held"}]
        /\ step = "run" /\ step' = "flush"
        /\ UNCHANGED <<inputs, adding, conn, provider, cleanup, pos, expired, errs>>
    BY <1>5 DEF CallShutdown
  <2>1. TypeOK'
    BY <2>0 DEF TypeOK, inputs
  <2>2. Connected' /\ Complete' /\ Accounted' /\ BeforeShutdown'
    BY <2>0 DEF inputs, BeforeShutdown, Connected, Complete, Accounted
  <2>3. Progressed'
    BY <1>0, <2>0, PassLength DEF BeforeShutdown, Progressed, Last, Registered
  <2>4. Registry'
    BY <2>0 DEF Registry
  <2>5. QED
    BY <2>1, <2>2, <2>3, <2>4
<1>6. QED
  BY <1>1, <1>2, <1>3, <1>4, <1>5

\* A batch that an exporter would deliver at once is lost only to the deadline,
\* for the connection is open throughout Shutdown.
LEMMA OnlyTheDeadlineDrops ==
  ASSUME ProvidersInv, step \in {"flush", "stop"}, NEW p \in Provider,
         health[p] = "quick", ~Delivers(p)
  PROVE  expired
BY DEF ProvidersInv, Connected, Delivers

\* A provider in the pass of the flush, or in that of the stop, has answered.
LEMMA PassKeeps ==
  ASSUME ProvidersInv, Flush \/ Stop
  PROVE  ProvidersInv'
<1> USE DEF ProvidersInv
<1> DEFINE p == Nth(pos + 1)
           op == IF step = "flush" THEN "flush" ELSE "stop"
<1>1. /\ step \in {"flush", "stop"} /\ pos < Last /\ pos' = pos + 1 /\ Export(p, op)
      /\ UNCHANGED <<inputs, step, adding, conn, cleanup, expired>>
      /\ step = "flush" => UNCHANGED provider
      /\ step = "stop" => provider' = [provider EXCEPT ![p] = "stopped"]
  BY DEF Flush, Stop, Advance
<1>2. adding \in 1..(N + 1) /\ pos \in Nat /\ pos + 1 \in 1..Last /\ Last \in Nat
      /\ Last <= N * Len(Kind) /\ N * Len(Kind) \in Nat /\ pos' \in 0..Last
      /\ 1..pos' = (1..pos) \cup {pos + 1}
  BY <1>1, PassLength, NAssumption, KindsOf DEF TypeOK, Progressed
<1>3. p \in Provider /\ p[1] < adding
  BY <1>2, PositionsAreProviders
<1>4. Last' = Last /\ \A i : Nth(i)' = Nth(i)
  BY <1>1 DEF Last, Registered, Nth
<1>5. /\ batch' \in [Provider -> {"empty", "held", "sent", "dropped"}]
      /\ \A q \in Provider : q # p => batch'[q] = batch[q]
      /\ batch[p] = "empty" => batch'[p] = "empty"
      /\ batch'[p] = "held" => expired /\ errs' # {}
      /\ batch'[p] = "dropped" => errs' # {} \/ batch[p] = "dropped"
      /\ batch'[p] = "dropped" /\ batch[p] # "dropped" => ~Delivers(p)
      /\ errs \subseteq errs' /\ errs' \in SUBSET ({"flush", "stop"} \X Provider)
  <2>1. op \in {"flush", "stop"}
    OBVIOUS
  <2> HIDE DEF p, op
  <2>2. QED
    BY <1>1, <1>3, <2>1, ExportEffect
<1>6. batch'[p] = "dropped" /\ health[p] = "quick" => expired
  <2> SUFFICES ASSUME batch'[p] = "dropped", health[p] = "quick" PROVE expired
    OBVIOUS
  <2>1. CASE batch[p] = "dropped"
    BY <1>3, <2>1 DEF Accounted
  <2>2. CASE batch[p] # "dropped"
    BY <1>1, <1>3, <1>5, <2>2, OnlyTheDeadlineDrops
  <2>3. QED
    BY <2>1, <2>2
<1>7. \A i \in 1..pos' : i = pos + 1 \/ i \in 1..pos
  BY <1>2
<1>8. \A i \in 1..pos : Nth(i) \in Provider
  BY <1>2, PositionsAreProviders
<1> HIDE DEF p, op
<1>9. p = Nth(pos + 1)
  BY DEF p
<1>10. TypeOK'
  <2>1. pos' \in 0..(N * Len(Kind))
    BY <1>2
  <2>2. provider' \in [Provider -> {"absent", "registered", "orphan", "stopped"}]
    BY <1>1, <1>3 DEF TypeOK
  <2>3. QED
    BY <1>1, <1>5, <2>1, <2>2 DEF TypeOK, inputs
<1>11. BeforeShutdown' /\ Connected'
  BY <1>1 DEF BeforeShutdown, Connected, inputs
<1>12. Complete'
  BY <1>1, <1>3, <1>5 DEF Complete
<1>13. Registry'
  BY <1>1, <1>3 DEF Registry, TypeOK
<1>14. Progressed'
  <2>1. step = "flush" => \A i \in 1..pos' : batch'[Nth(i)] = "held" => expired
    BY <1>5, <1>7, <1>8, <1>9 DEF Progressed
  <2>2. step = "stop" => \A i \in 1..pos' : provider'[Nth(i)] = "stopped"
    BY <1>1, <1>3, <1>7, <1>8, <1>9 DEF Progressed, TypeOK
  <2>3. step = "stop" => \A i \in 1..pos' : batch'[Nth(i)] = "held" => errs' # {}
    BY <1>5, <1>7, <1>8, <1>9 DEF Progressed
  <2>4. QED
    BY <1>1, <1>2, <1>4, <2>1, <2>2, <2>3 DEF Progressed
<1>15. Accounted'
  <2> SUFFICES ASSUME NEW q \in Provider
               PROVE  /\ step = "stop" /\ batch'[q] = "held" => expired
                      /\ batch'[q] = "dropped" => errs' # {}
                      /\ batch'[q] = "dropped" /\ health[q] = "quick" => expired
    BY <1>1 DEF Accounted, inputs
  <2>1. CASE q = p
    BY <1>3, <1>5, <1>6, <2>1 DEF Accounted
  <2>2. CASE q # p
    BY <1>5, <2>2 DEF Accounted
  <2>3. QED
    BY <2>1, <2>2
<1>16. QED
  BY <1>10, <1>11, <1>12, <1>13, <1>14, <1>15

\* The turns between the passes, the end, and the deadline.
LEMMA TurnsKeep ==
  ASSUME ProvidersInv, FlushedAll \/ StoppedAll \/ Close \/ Expire \/ UNCHANGED vars
  PROVE  ProvidersInv'
<1> USE DEF ProvidersInv
<1>1. adding \in 1..(N + 1) /\ Last \in Nat
  BY PassLength DEF TypeOK
<1>2. \A q \in Provider : q[1] < adding \/ q[1] >= adding
  BY <1>1, NAssumption DEF Provider
<1>3. ASSUME step \in {"flush", "stop"}, pos = Last, NEW q \in Provider
      PROVE  /\ step = "flush" /\ batch[q] = "held" => expired
             /\ step = "stop" /\ batch[q] = "held" => errs # {}
             /\ step = "stop" /\ q[1] < adding => provider[q] = "stopped"
  <2>1. CASE q[1] < adding
    <3>1. Index(q) \in 1..pos /\ Nth(Index(q)) = q
      BY <1>1, <1>3, <2>1, ProvidersHavePositions
    <3>2. QED
      BY <1>3, <3>1 DEF Progressed
  <2>2. CASE ~(q[1] < adding)
    <3>1. q[1] \in 1..N
      BY <1>3 DEF Provider
    <3>2. cleanup
      BY <1>3, <2>2, <3>1, NAssumption DEF Complete, TypeOK
    <3>3. QED
      BY <1>3, <2>2, <3>2 DEF Complete
  <2>3. QED
    BY <2>1, <2>2
<1>4. CASE FlushedAll
  <2>1. TypeOK' /\ BeforeShutdown' /\ Connected' /\ Complete'
    BY <1>4, NAssumption, KindsOf DEF FlushedAll, TypeOK, BeforeShutdown, Connected, Complete, inputs
  <2>2. Registry' /\ Progressed'
    BY <1>1, <1>4 DEF FlushedAll, Registry, Progressed, Last, Registered
  <2>3. Accounted'
    BY <1>3, <1>4 DEF FlushedAll, Accounted, inputs
  <2>4. QED
    BY <2>1, <2>2, <2>3
<1>5. CASE StoppedAll
  <2>1. TypeOK' /\ BeforeShutdown' /\ Connected' /\ Complete'
    BY <1>5 DEF StoppedAll, TypeOK, BeforeShutdown, Connected, Complete, inputs
  <2>2. Registry'
    BY <1>3, <1>5 DEF StoppedAll, Registry
  <2>3. Progressed'
    BY <1>5 DEF StoppedAll, Progressed, Last, Registered
  <2>4. Accounted'
    BY <1>3, <1>5 DEF StoppedAll, Accounted, inputs
  <2>5. QED
    BY <2>1, <2>2, <2>3, <2>4
<1>6. CASE Close
  <2>1. TypeOK' /\ BeforeShutdown' /\ Connected' /\ Complete'
    BY <1>6 DEF Close, TypeOK, BeforeShutdown, Connected, Complete, inputs
  <2>2. Registry' /\ Accounted'
    BY <1>6 DEF Close, Registry, Accounted, inputs
  <2>3. Progressed'
    BY <1>6 DEF Close, Progressed, Last, Registered
  <2>4. QED
    BY <2>1, <2>2, <2>3
<1>7. CASE Expire
  <2>1. TypeOK' /\ BeforeShutdown' /\ Connected' /\ Complete'
    BY <1>7 DEF Expire, TypeOK, BeforeShutdown, Connected, Complete, inputs
  <2>2. Registry' /\ Accounted'
    BY <1>7 DEF Expire, Registry, Accounted, inputs
  <2>3. Progressed'
    BY <1>7 DEF Expire, Progressed, Last, Registered, Nth
  <2>4. QED
    BY <2>1, <2>2, <2>3
<1>8. CASE UNCHANGED vars
  <2>1. TypeOK' /\ BeforeShutdown' /\ Connected' /\ Complete'
    BY <1>8 DEF vars, TypeOK, BeforeShutdown, Connected, Complete, inputs
  <2>2. Registry' /\ Accounted'
    BY <1>8 DEF vars, Registry, Accounted, inputs
  <2>3. Progressed'
    BY <1>8 DEF vars, Progressed, Last, Registered, Nth
  <2>4. QED
    BY <2>1, <2>2, <2>3
<1>9. QED
  BY <1>4, <1>5, <1>6, <1>7, <1>8

\* Every reachable state of Setup and Shutdown satisfies the invariant.
THEOREM ProvidersInvariance == Spec => []ProvidersInv
<1>1. Init => ProvidersInv
  BY ProvidersStart
<1>2. ProvidersInv /\ [Next]_vars => ProvidersInv'
  BY SetupKeeps, PassKeeps, TurnsKeep DEF Next, Finished
<1>3. QED
  BY <1>1, <1>2, PTL DEF Spec

-----------------------------------------------------------------------------
(* The promises *)

\* forEachProvider flushes every registered provider before Shutdown stops one
\* or closes the connection: what is held then is held because the deadline
\* passed.
THEOREM FlushesBeforeStopping == Spec => []FlushBeforeStop
<1>1. ProvidersInv => FlushBeforeStop
  <2> SUFFICES ASSUME ProvidersInv, NEW p \in Provider, batch[p] = "held",
                      conn = "closed" \/ \E q \in Provider : provider[q] = "stopped"
               PROVE  expired
    BY DEF FlushBeforeStop
  <2>1. step \in {"stop", "close", "closed"}
    BY DEF ProvidersInv, TypeOK, Connected, Registry
  <2>2. QED
    BY <2>1 DEF ProvidersInv, Accounted
<1>2. QED
  BY <1>1, ProvidersInvariance, PTL

\* Within the deadline an exporter that fails costs no other its batch:
\* forEachProvider collects errors and goes on.
THEOREM FailuresStrandNobody == Spec => []FailureStrandsNobody
<1>1. ProvidersInv => FailureStrandsNobody
  <2> SUFFICES ASSUME ProvidersInv, step = "closed", ~expired,
                      NEW p \in Provider, health[p] = "quick"
               PROVE  batch[p] \in {"empty", "sent"}
    BY DEF FailureStrandsNobody
  <2>1. batch[p] \in {"empty", "held", "sent", "dropped"}
    BY DEF ProvidersInv, TypeOK
  <2>2. QED
    BY <2>1 DEF ProvidersInv, Accounted
<1>2. QED
  BY <1>1, ProvidersInvariance, PTL

\* Shutdown's joined error is not nil whenever a batch was lost.
THEOREM LossesAreReported == Spec => []LossIsReported
<1>1. ProvidersInv => LossIsReported
  BY DEF ProvidersInv, Accounted, LossIsReported
<1>2. QED
  BY <1>1, ProvidersInvariance, PTL

\* A Setup that fails has stopped every provider it had registered and leaves
\* no connection open.
THEOREM FailedSetupsCleanUp == Spec => []FailedSetupCleansUp
<1>1. ProvidersInv => FailedSetupCleansUp
  <2> SUFFICES ASSUME ProvidersInv, step = "failed" \/ (step = "closed" /\ cleanup)
               PROVE  conn # "open" /\ \A p \in Provider : provider[p] # "registered"
    BY DEF FailedSetupCleansUp
  <2>1. conn # "open"
    BY DEF ProvidersInv, Connected
  <2>2. ASSUME NEW p \in Provider PROVE provider[p] # "registered"
    <3>1. p[1] \in 1..N /\ adding \in 1..(N + 1)
      BY DEF ProvidersInv, TypeOK, Provider
    <3>2. p[1] < adding \/ p[1] >= adding
      BY <3>1, NAssumption
    <3>3. CASE step = "failed"
      BY <3>1, <3>2, <3>3, NAssumption DEF ProvidersInv, BeforeShutdown, Registry
    <3>4. CASE step = "closed"
      BY <3>2, <3>4 DEF ProvidersInv, Registry
    <3>5. QED
      BY <3>3, <3>4
  <2>3. QED
    BY <2>1, <2>2
<1>2. QED
  BY <1>1, ProvidersInvariance, PTL

-----------------------------------------------------------------------------
(* Where telemetry goes *)

InputsInv ==
  /\ flag \in FlagUrls \cup {Unset} /\ env \in EnvUrls \cup {Unset}
  /\ backend \in {"newrelic", "otlp", "local", "other"}
  /\ region \in {"", "us", "eu", "other"} /\ key \in BOOLEAN

\* Past Parse both words are known, past Resolve the endpoint is the one that
\* resolveEndpoint chooses for inputs that do not change any more.
ChoiceInv ==
  /\ pc \in {"parse", "resolve", "connect", "build", "done", "failed"}
  /\ pc = "parse" => protocol \in {"grpc", "http", "http/protobuf", "other"}
  /\ pc \in {"resolve", "connect", "build", "done"} =>
       backend # "other" /\ protocol \in {"grpc", "http"}
  /\ pc \in {"connect", "build", "done"} => endpoint = ResolveEndpoint

\* One connection serves every exporter of gRPC; those of HTTP are made one by
\* one from the same endpoint.
ExporterInv ==
  /\ pc \in {"parse", "resolve", "connect"} => exporters = [s \in {} |-> Nowhere]
  /\ pc \in {"build", "done"} =>
       /\ target = IF protocol = "grpc" THEN GrpcTarget(Fallback) ELSE Nowhere
       /\ \A s \in DOMAIN exporters :
            exporters[s] = IF protocol = "grpc" THEN target ELSE HttpExporter(s)
  /\ pc = "done" => DOMAIN exporters = Signal

EndpointInv == InputsInv /\ ChoiceInv /\ ExporterInv

\* Nothing has been chosen or made at the start.
LEMMA EndpointStart == EndpointInit => EndpointInv
BY DEF EndpointInit, EndpointInv, InputsInv, ChoiceInv, ExporterInv

\* Parse is the last to change a word; what resolveEndpoint reads stays.
LEMMA ParseInv == EndpointInv /\ Parse => EndpointInv'
<1> SUFFICES ASSUME EndpointInv, Parse PROVE EndpointInv'
  OBVIOUS
<1>1. InputsInv'
  BY DEF EndpointInv, InputsInv, Parse, options
<1>2. pc = "parse" /\ pc' \in {"failed", "resolve"} /\ exporters' = exporters
  BY DEF Parse
<1>3. pc' = "resolve" => backend' # "other" /\ protocol' \in {"grpc", "http"}
  BY DEF EndpointInv, InputsInv, ChoiceInv, Parse, ParseProtocol
<1>4. ChoiceInv' /\ ExporterInv'
  BY <1>2, <1>3 DEF EndpointInv, ChoiceInv, ExporterInv
<1> QED
  BY <1>1, <1>4 DEF EndpointInv

\* Resolve chooses, from the values that the exporters are made with later.
LEMMA ResolveInv == EndpointInv /\ Resolve => EndpointInv'
<1> SUFFICES ASSUME EndpointInv, Resolve PROVE EndpointInv'
  OBVIOUS
<1>1. InputsInv'
  BY DEF EndpointInv, InputsInv, Resolve, options
<1>2. /\ pc = "resolve" /\ pc' \in {"failed", "connect"} /\ exporters' = exporters
      /\ pc' = "connect" => endpoint' = ResolveEndpoint
  BY DEF Resolve
<1>3. ResolveEndpoint' = ResolveEndpoint /\ backend' = backend /\ protocol' = protocol
  BY DEF Resolve, options, ResolveEndpoint, newRelicUS, newRelicEU, localhost, At, defaultPort
<1>4. ChoiceInv' /\ ExporterInv'
  BY <1>2, <1>3 DEF EndpointInv, ChoiceInv, ExporterInv
<1> QED
  BY <1>1, <1>4 DEF EndpointInv

\* What the later steps leave alone.
Chosen == <<options, backend, protocol, endpoint>>

\* Nothing that is computed from the choice changes while the choice stays.
LEMMA ChosenStays ==
  ASSUME UNCHANGED Chosen
  PROVE  /\ InputsInv => InputsInv'
         /\ ResolveEndpoint' = ResolveEndpoint
         /\ GrpcTarget(Fallback)' = GrpcTarget(Fallback)
         /\ \A s : HttpExporter(s)' = HttpExporter(s)
<1> USE DEF Chosen, options, newRelicUS, newRelicEU, localhost, At, defaultPort
<1>1. InputsInv => InputsInv'
  BY DEF InputsInv
<1>2. ResolveEndpoint' = ResolveEndpoint
  BY DEF ResolveEndpoint
<1>3. Fallback' = Fallback
  BY DEF Fallback
<1>4. GrpcTarget(Fallback)' = GrpcTarget(Fallback)
  BY <1>3 DEF GrpcTarget, Dest, BareUsesTLS, headers
<1>5. ASSUME NEW s PROVE HttpExporter(s)' = HttpExporter(s)
  BY DEF HttpExporter, HostPortOk, AtHostPort, Dest, Insecure, headers, FromSDK
<1> QED
  BY <1>1, <1>2, <1>4, <1>5

\* The connection is dialed once, to the endpoint or to what stands in for it.
LEMMA ConnectInv == EndpointInv /\ Connect => EndpointInv'
<1> SUFFICES ASSUME EndpointInv, Connect PROVE EndpointInv'
  OBVIOUS
<1>1. UNCHANGED Chosen /\ exporters' = exporters /\ pc = "connect" /\ pc' = "build"
  BY DEF Connect, Chosen
<1>2. InputsInv' /\ ChoiceInv'
  BY <1>1, ChosenStays DEF EndpointInv, ChoiceInv, Chosen
<1>3. target' = IF protocol' = "grpc" THEN GrpcTarget(Fallback)' ELSE Nowhere
  BY <1>1, ChosenStays DEF Connect, Chosen
<1>4. ExporterInv'
  BY <1>1, <1>3 DEF EndpointInv, ExporterInv
<1> QED
  BY <1>2, <1>4 DEF EndpointInv

\* Each exporter that is made goes where those before it go.
LEMMA BuildInv == EndpointInv /\ Build => EndpointInv'
<1> SUFFICES ASSUME EndpointInv, Build PROVE EndpointInv'
  OBVIOUS
<1>1. UNCHANGED Chosen /\ target' = target /\ pc = "build" /\ pc' \in {"build", "done"}
  BY DEF Build, Chosen
<1>2. InputsInv' /\ ChoiceInv'
  BY <1>1, ChosenStays DEF EndpointInv, ChoiceInv, Chosen
<1>3. target' = IF protocol' = "grpc" THEN GrpcTarget(Fallback)' ELSE Nowhere
  BY <1>1, ChosenStays DEF EndpointInv, ExporterInv, Chosen
<1>4. PICK signal \in Signal :
        /\ signal = "logs" => DOMAIN exporters = {"traces", "metrics"}
        /\ exporters' = [s \in DOMAIN exporters \cup {signal} |->
             IF s # signal THEN exporters[s]
             ELSE IF protocol = "grpc" THEN target ELSE HttpExporter(s)]
        /\ pc' = IF signal = "logs" THEN "done" ELSE "build"
  BY DEF Build, Signal
<1>5. \A s \in DOMAIN exporters' :
        exporters'[s] = IF protocol = "grpc" THEN target ELSE HttpExporter(s)
  BY <1>1, <1>4 DEF EndpointInv, ExporterInv
<1>6. \A s \in DOMAIN exporters' :
        exporters'[s] = IF protocol' = "grpc" THEN target' ELSE HttpExporter(s)'
  BY <1>1, <1>5, ChosenStays DEF Chosen
<1>7. pc' = "done" => DOMAIN exporters' = Signal
  BY <1>4 DEF Signal
<1>8. ExporterInv'
  BY <1>1, <1>3, <1>6, <1>7 DEF ExporterInv
<1> QED
  BY <1>2, <1>8 DEF EndpointInv

\* A run that is done or has failed changes nothing.
LEMMA ReadyInv == EndpointInv /\ UNCHANGED endpointVars => EndpointInv'
<1> SUFFICES ASSUME EndpointInv, UNCHANGED endpointVars PROVE EndpointInv'
  OBVIOUS
<1>1. UNCHANGED Chosen /\ UNCHANGED <<pc, target, exporters>>
  BY DEF endpointVars, Chosen
<1>2. InputsInv' /\ ChoiceInv'
  BY <1>1, ChosenStays DEF EndpointInv, ChoiceInv, Chosen
<1>3. \A s : HttpExporter(s)' = HttpExporter(s)
  BY <1>1, ChosenStays
<1>4. GrpcTarget(Fallback)' = GrpcTarget(Fallback)
  BY <1>1, ChosenStays
<1>5. ExporterInv'
  BY <1>1, <1>3, <1>4 DEF EndpointInv, ExporterInv, Chosen
<1> QED
  BY <1>2, <1>5 DEF EndpointInv

\* EndpointInv holds throughout: what an exporter was made with is a function of the
\* inputs, whichever of the three signals it is for.
THEOREM EndpointInvariance == EndpointSpec => []EndpointInv
<1>1. EndpointInit => EndpointInv
  BY EndpointStart
<1>2. EndpointInv /\ [EndpointNext]_endpointVars => EndpointInv'
  BY ParseInv, ResolveInv, ConnectInv, BuildInv, ReadyInv DEF EndpointNext, Ready
<1> QED
  BY <1>1, <1>2, PTL DEF EndpointSpec

-----------------------------------------------------------------------------
(* What follows for a run that is set up *)

Record(url) ==
  url = [scheme |-> url.scheme, host |-> url.host, port |-> url.port, path |-> url.path]

\* Every URL a run deals with has the four fields, Unset and the defaults
\* included.
LEMMA UrlsAreRecords ==
  ASSUME InputsInv
  PROVE  /\ Record(flag) /\ Record(env) /\ Record(Unset)
         /\ flag.path \in BOOLEAN /\ env.path \in BOOLEAN
         /\ \A scheme, host : Record(At(scheme, host))
<1>1. \A url \in URL : Record(url) /\ url.path \in BOOLEAN
  BY DEF URL, Record
<1>2. Record(Unset) /\ Unset.path \in BOOLEAN
  BY DEF Unset, Record
<1>3. Record(flag) /\ flag.path \in BOOLEAN
  BY <1>1, <1>2, FlagAssumption DEF InputsInv
<1>4. Record(env) /\ env.path \in BOOLEAN
  BY <1>1, <1>2, EnvAssumption DEF InputsInv
<1>5. \A scheme, host : Record(At(scheme, host))
  BY DEF At, Record
<1> QED
  BY <1>2, <1>3, <1>4, <1>5

To(host, port, path) == [scheme |-> "none", host |-> host, port |-> port, path |-> path]

WithPath(url, path) == [url EXCEPT !.path = path]

\* What a transport is made with is the host and port of the URL it is made from.
LEMMA DestKeepsHost ==
  ASSUME NEW url, Record(url), NEW tls, NEW k
  PROVE  /\ Host(Dest(url, tls, k).to) = Host(url)
         /\ Dest(url, tls, k).to.path = url.path
         /\ Dest(url, tls, k).tls = tls
<1>1. [url EXCEPT !.scheme = "none"] = To(url.host, url.port, url.path)
  BY DEF Record, To
<1>2. Dest(url, tls, k) = [to |-> To(url.host, url.port, url.path), tls |-> tls, key |-> k]
  BY <1>1, Zenon DEF Dest
<1> QED
  BY <1>2 DEF To, Host

\* It is also when the URL is made from another one by cutting off the path.
LEMMA CutKeepsHost ==
  ASSUME NEW url, Record(url), NEW path, NEW tls, NEW k
  PROVE  /\ Host(Dest(WithPath(url, path), tls, k).to) = Host(url)
         /\ Dest(WithPath(url, path), tls, k).to.path = path
         /\ Dest(WithPath(url, path), tls, k).tls = tls
<1> DEFINE other == [scheme |-> url.scheme, host |-> url.host, port |-> url.port, path |-> path]
<1>1. WithPath(url, path) = other
  BY DEF Record, WithPath
<1>2. [other EXCEPT !.scheme = "none"] = To(url.host, url.port, path)
  BY DEF To
<1>3. Dest(WithPath(url, path), tls, k) = [to |-> To(url.host, url.port, path), tls |-> tls, key |-> k]
  BY <1>1, <1>2, Zenon DEF Dest
<1> QED
  BY <1>3 DEF To, Host

\* gRPC dials the host and port of the URL; only the path of a URL without a
\* scheme is kept, and only such a URL takes its transport from the backend.
LEMMA GrpcGoesThere ==
  ASSUME NEW url, Record(url)
  PROVE  /\ Host(GrpcTarget(url).to) = Host(url)
         /\ GrpcTarget(url).to.path = (IF url.scheme = "none" THEN url.path ELSE FALSE)
         /\ GrpcTarget(url).tls =
              (IF url.scheme = "none" THEN BareUsesTLS ELSE url.scheme = "https")
<1>1. CASE url.scheme = "none"
  <2>1. GrpcTarget(url) = Dest(url, BareUsesTLS, headers)
    BY <1>1, Zenon DEF GrpcTarget
  <2>2. /\ Host(Dest(url, BareUsesTLS, headers).to) = Host(url)
        /\ Dest(url, BareUsesTLS, headers).to.path = url.path
        /\ Dest(url, BareUsesTLS, headers).tls = (BareUsesTLS)
    BY DestKeepsHost
  <2> QED
    BY <1>1, <2>1, <2>2, Zenon
<1>2. CASE url.scheme # "none"
  <2>1. GrpcTarget(url) = Dest(WithPath(url, FALSE), url.scheme = "https", headers)
    BY <1>2, Zenon DEF GrpcTarget, WithPath
  <2>2. /\ Host(Dest(WithPath(url, FALSE), url.scheme = "https", headers).to) = Host(url)
        /\ Dest(WithPath(url, FALSE), url.scheme = "https", headers).to.path = FALSE
        /\ Dest(WithPath(url, FALSE), url.scheme = "https", headers).tls = (url.scheme = "https")
    <3>1. ASSUME NEW no, NEW tls
          PROVE  LET d == Dest(WithPath(url, no), tls, headers)
                 IN  Host(d.to) = Host(url) /\ d.to.path = no /\ d.tls = tls
      BY CutKeepsHost
    <3> QED
      BY <3>1, Zenon
  <2> QED
    BY <1>2, <2>1, <2>2, Zenon
<1> QED
  BY <1>1, <1>2, Zenon

\* The transport of an HTTP exporter that is made with an endpoint.
HttpTLS == ~Insecure /\ env.scheme # "http"

\* An HTTP exporter takes the endpoint when it has a host, with the path and the
\* plaintext of the environment, and leaves everything to the SDK otherwise.
LEMMA HttpGoesThere ==
  ASSUME Record(endpoint), Record(env), NEW s
  PROVE  /\ endpoint.host # "" =>
              /\ Host(HttpExporter(s).to) = Host(endpoint)
              /\ HttpExporter(s).to.path = env.path
              /\ HttpExporter(s).tls = HttpTLS
         /\ endpoint.host = "" /\ env # Unset => Host(HttpExporter(s).to) = Host(env)
         /\ endpoint.host = "" /\ env = Unset =>
              Host(HttpExporter(s).to) = Host(At("https", "localhost"))
<1>1. ASSUME endpoint.host # ""
      PROVE  /\ Host(HttpExporter(s).to) = Host(endpoint)
             /\ HttpExporter(s).to.path = env.path
             /\ HttpExporter(s).tls = HttpTLS
  <2>1. HttpExporter(s) = Dest(WithPath(endpoint, env.path), HttpTLS, headers)
    BY <1>1, Zenon DEF HttpExporter, HostPortOk, AtHostPort, HttpTLS, WithPath
  <2>2. /\ Host(Dest(WithPath(endpoint, env.path), HttpTLS, headers).to) = Host(endpoint)
        /\ Dest(WithPath(endpoint, env.path), HttpTLS, headers).to.path = env.path
        /\ Dest(WithPath(endpoint, env.path), HttpTLS, headers).tls = (HttpTLS)
    <3>1. ASSUME NEW no, NEW tls
          PROVE  LET d == Dest(WithPath(endpoint, no), tls, headers)
                 IN  Host(d.to) = Host(endpoint) /\ d.to.path = no /\ d.tls = tls
      BY CutKeepsHost
    <3> QED
      BY <3>1, Zenon
  <2> QED
    BY <2>1, <2>2, Zenon
<1>2. ASSUME endpoint.host = "", env # Unset
      PROVE  Host(HttpExporter(s).to) = Host(env)
  <2>1. HttpExporter(s) = Dest(env, env.scheme = "https", headers)
    BY <1>2, Zenon DEF HttpExporter, HostPortOk, FromSDK
  <2>2. Host(Dest(env, env.scheme = "https", headers).to) = Host(env)
    BY DestKeepsHost
  <2> QED
    BY <2>1, <2>2, Zenon
<1>3. ASSUME endpoint.host = "", env = Unset
      PROVE  Host(HttpExporter(s).to) = Host(At("https", "localhost"))
  <2>1. HttpExporter(s) = Dest(At("https", "localhost"), TRUE, headers)
    BY <1>3, Zenon DEF HttpExporter, HostPortOk, FromSDK
  <2>2. ASSUME NEW tls, NEW k
        PROVE  Host(Dest(At("https", "localhost"), tls, k).to) = Host(At("https", "localhost"))
    BY DEF Dest, At, Host
  <2> QED
    BY <2>1, <2>2, Zenon
<1> QED
  BY <1>1, <1>2, <1>3, Zenon

\* Where the exporters of a run that is set up go, and how: to the endpoint if it
\* has a host, and otherwise each protocol has its own way to the same place.
LEMMA ExportersGo ==
  ASSUME EndpointInv, pc = "done", NEW s \in Signal
  PROVE  /\ endpoint = ResolveEndpoint
         /\ backend \in {"newrelic", "otlp", "local"} /\ protocol \in {"grpc", "http"}
         /\ endpoint.host # "" =>
              /\ Host(exporters[s].to) = Host(endpoint)
              /\ exporters[s].to.path =
                   (IF protocol = "http" THEN env.path
                    ELSE IF endpoint.scheme = "none" THEN endpoint.path ELSE FALSE)
              /\ exporters[s].tls =
                   (IF protocol = "http" THEN HttpTLS
                    ELSE IF endpoint.scheme = "none" THEN BareUsesTLS ELSE endpoint.scheme = "https")
         /\ endpoint = Unset /\ env # Unset => Host(exporters[s].to) = Host(env)
         /\ endpoint = Unset /\ env = Unset /\ protocol = "http" =>
              Host(exporters[s].to) = Host(At("https", "localhost"))
         /\ endpoint = Unset /\ env = Unset /\ protocol = "grpc" /\ backend = "otlp" =>
              Host(exporters[s].to) = Host(newRelicUS)
<1>1. /\ endpoint = ResolveEndpoint
      /\ backend \in {"newrelic", "otlp", "local"} /\ protocol \in {"grpc", "http"}
  BY DEF EndpointInv, InputsInv, ChoiceInv
<1>2. exporters[s] = IF protocol = "grpc" THEN GrpcTarget(Fallback) ELSE HttpExporter(s)
  BY DEF EndpointInv, ExporterInv
<1>3. /\ Record(flag) /\ Record(env) /\ Record(Unset)
      /\ \A scheme, host : Record(At(scheme, host))
  BY UrlsAreRecords DEF EndpointInv
<1>4. Record(endpoint)
  BY <1>1, <1>3, Zenon DEF ResolveEndpoint, newRelicUS, newRelicEU, localhost
<1>5. Unset.host = ""
  BY DEF Unset
<1>6. CASE protocol = "grpc"
  <2>1. exporters[s] = GrpcTarget(Fallback) /\ protocol # "http"
    BY <1>2, <1>6
  <2>2. /\ endpoint # Unset => Fallback = endpoint
        /\ endpoint = Unset /\ env # Unset => Fallback = env
        /\ endpoint = Unset /\ env = Unset /\ backend = "otlp" => Fallback = newRelicUS
    BY DEF Fallback
  <2>3. Record(Fallback)
    BY <1>3, <1>4, Zenon DEF Fallback, localhost, newRelicUS
  <2>4. /\ Host(exporters[s].to) = Host(Fallback)
        /\ exporters[s].to.path = (IF Fallback.scheme = "none" THEN Fallback.path ELSE FALSE)
        /\ exporters[s].tls =
             (IF Fallback.scheme = "none" THEN BareUsesTLS ELSE Fallback.scheme = "https")
    BY <2>1, <2>3, GrpcGoesThere
  <2>5. endpoint.host # "" => endpoint # Unset
    BY <1>5
  <2> QED
    BY <1>1, <1>6, <2>1, <2>2, <2>4, <2>5
<1>7. CASE protocol = "http"
  <2>1. exporters[s] = HttpExporter(s) /\ protocol # "grpc"
    BY <1>2, <1>7
  <2> QED
    BY <1>1, <1>3, <1>4, <1>5, <1>7, <2>1, HttpGoesThere
<1> QED
  BY <1>1, <1>6, <1>7

\* Host and port are the flag's, then the environment's, then the backend's
\* default, for every exporter, protocol and URL (README, "Setting the endpoint");
\* the path is none of the flag's, but over HTTP the environment's.
THEOREM PrecedenceIsKept == EndpointSpec => []PrecedenceHolds
<1>1. EndpointInv => PrecedenceHolds
  <2> SUFFICES ASSUME EndpointInv, pc = "done", NEW s \in Signal
               PROVE  LET to == Host(exporters[s].to)
                      IN  CASE flag # Unset -> WellFormed(flag) =>
                                 to = Host(flag) /\ exporters[s].to.path = (protocol = "http" /\ env.path)
                            [] flag = Unset /\ env # Unset -> to = Host(env)
                            [] OTHER ->
                                 /\ to[2] = (IF protocol = "grpc" THEN 4317 ELSE 4318)
                                 /\ backend = "local" => to[1] = "localhost"
                                 /\ backend = "newrelic" =>
                                      to[1] = (IF region = "eu" THEN "otlp.eu01.nr-data.net"
                                               ELSE "staging-otlp.nr-data.net")
    BY DEF PrecedenceHolds
  <2>1. CASE flag # Unset
    <3>1. endpoint = flag
      BY <2>1, ExportersGo, Zenon DEF ResolveEndpoint
    <3>2. flag.path \in BOOLEAN /\ env.path \in BOOLEAN
      BY UrlsAreRecords DEF EndpointInv
    <3>3. ASSUME WellFormed(flag)
          PROVE  /\ Host(exporters[s].to) = Host(flag)
                 /\ exporters[s].to.path = (protocol = "http" /\ env.path)
      BY <3>1, <3>2, <3>3, ExportersGo DEF WellFormed
    <3> QED
      BY <2>1, <3>3
  <2>2. CASE flag = Unset /\ env # Unset
    <3>1. endpoint = Unset
      BY <2>2, ExportersGo, Zenon DEF ResolveEndpoint
    <3>2. Host(exporters[s].to) = Host(env)
      BY <2>2, <3>1, ExportersGo
    <3> QED
      BY <2>2, <3>2
  <2>3. CASE flag = Unset /\ env = Unset
    <3>1. backend \in {"newrelic", "otlp", "local"} /\ protocol \in {"grpc", "http"}
      BY ExportersGo
    <3>2. endpoint = CASE backend = "newrelic" -> IF region = "eu" THEN newRelicEU ELSE newRelicUS
                       [] backend = "local"    -> localhost
                       [] OTHER                -> Unset
      BY <2>3, ExportersGo, Zenon DEF ResolveEndpoint
    <3>3. /\ backend = "newrelic" => endpoint = IF region = "eu" THEN newRelicEU ELSE newRelicUS
          /\ backend = "local" => endpoint = localhost
          /\ backend = "otlp" => endpoint = Unset
      BY <3>2
    <3>4. CASE backend # "otlp"
      <4>1. endpoint \in {newRelicEU, newRelicUS, localhost}
        BY <3>1, <3>3, <3>4
      <4>2. endpoint.host # "" /\ endpoint.port = defaultPort
        <5>1. \A scheme, host : At(scheme, host).host = host /\ At(scheme, host).port = defaultPort
          BY DEF At
        <5>2. /\ endpoint.host \in {"staging-otlp.nr-data.net", "otlp.eu01.nr-data.net", "localhost"}
              /\ endpoint.port = defaultPort
          <6>1. PICK scheme, host : /\ endpoint = At(scheme, host)
                                    /\ host \in {"staging-otlp.nr-data.net", "otlp.eu01.nr-data.net", "localhost"}
            BY <4>1, Zenon DEF newRelicUS, newRelicEU, localhost
          <6> QED
            BY <5>1, <6>1, Zenon
        <5> QED
          BY <5>2
      <4>3. Host(exporters[s].to) = Host(endpoint)
        <5>1. endpoint.host # "" => Host(exporters[s].to) = Host(endpoint)
          BY ExportersGo
        <5> QED
          BY <4>2, <5>1
      <4>4. Host(exporters[s].to)[1] = endpoint.host /\ Host(exporters[s].to)[2] = endpoint.port
        BY <4>3 DEF Host
      <4>5. Host(exporters[s].to)[2] = (IF protocol = "grpc" THEN 4317 ELSE 4318)
        <5>1. Host(exporters[s].to)[2] = defaultPort
          BY <4>2, <4>4, Zenon
        <5> QED
          BY <3>1, <5>1 DEF defaultPort
      <4>6. backend = "local" => Host(exporters[s].to)[1] = "localhost"
        BY <3>3, <4>4 DEF localhost, At
      <4>7. ASSUME backend = "newrelic"
            PROVE  Host(exporters[s].to)[1] = (IF region = "eu" THEN "otlp.eu01.nr-data.net"
                                               ELSE "staging-otlp.nr-data.net")
        <5>1. CASE region = "eu"
          BY <3>3, <4>4, <4>7, <5>1 DEF newRelicEU, At
        <5>2. CASE region # "eu"
          BY <3>3, <4>4, <4>7, <5>2 DEF newRelicUS, At
        <5> QED
          BY <5>1, <5>2
      <4> QED
        BY <2>3, <4>5, <4>6, <4>7
    <3>5. CASE backend = "otlp"
      <4>1. Host(exporters[s].to) =
              Host(IF protocol = "http" THEN At("https", "localhost") ELSE newRelicUS)
        BY <2>3, <3>1, <3>3, <3>5, ExportersGo
      <4>2. Host(exporters[s].to)[2] = (IF protocol = "grpc" THEN 4317 ELSE 4318)
        BY <3>1, <4>1 DEF Host, newRelicUS, At, defaultPort
      <4> QED
        BY <2>3, <3>5, <4>2
    <3> QED
      BY <3>4, <3>5
  <2> QED
    BY <2>1, <2>2, <2>3
<1> QED
  BY <1>1, EndpointInvariance, PTL

\* An exporter uses TLS exactly when the flag's scheme, or without one the
\* backend, asks for it and neither the local backend nor the environment
\* makes HTTP plaintext (Options.Endpoint).
THEOREM TransportIsAsAsked == EndpointSpec => []TransportAsAsked
<1>1. EndpointInv => TransportAsAsked
  <2> SUFFICES ASSUME EndpointInv, pc = "done", flag # Unset, WellFormed(flag), NEW s \in Signal
               PROVE  exporters[s].tls = (TLSAsked /\ ~PlaintextAnyway)
    BY DEF TransportAsAsked
  <2>1. endpoint = flag
    BY ExportersGo, Zenon DEF ResolveEndpoint
  <2>2. flag.scheme \in {"none", "http", "https"}
    BY FlagAssumption DEF EndpointInv, InputsInv, URL
  <2>3. /\ protocol \in {"grpc", "http"}
        /\ exporters[s].tls =
             (IF protocol = "http" THEN HttpTLS
              ELSE IF flag.scheme = "none" THEN BareUsesTLS ELSE flag.scheme = "https")
    BY <2>1, ExportersGo DEF WellFormed
  <2>4. HttpTLS = (~(backend = "local" \/ flag.scheme = "http") /\ env.scheme # "http")
    BY <2>1 DEF HttpTLS, Insecure
  <2> QED
    BY <2>2, <2>3, <2>4 DEF TLSAsked, PlaintextAnyway, BareUsesTLS
<1> QED
  BY <1>1, EndpointInvariance, PTL

\* When the startup log names a URL with a host, every exporter goes there.
THEOREM TheLogIsTrue == EndpointSpec => []DescriptionIsTrue
<1>1. EndpointInv => DescriptionIsTrue
  <2> SUFFICES ASSUME EndpointInv, pc = "done", WellFormed(Described), NEW s \in Signal
               PROVE  Host(exporters[s].to) = Host(Described)
    BY DEF DescriptionIsTrue
  <2>1. CASE flag = Unset /\ env # Unset
    <3>1. endpoint = Unset /\ Described = env
      BY <2>1, ExportersGo, Zenon DEF ResolveEndpoint, Described
    <3> QED
      BY <2>1, <3>1, ExportersGo
  <2>2. CASE ~(flag = Unset /\ env # Unset)
    <3>1. Described = ResolveEndpoint
      BY <2>2, Zenon DEF Described, ResolveEndpoint
    <3> QED
      BY <3>1, ExportersGo DEF WellFormed
  <2> QED
    BY <2>1, <2>2
<1> QED
  BY <1>1, EndpointInvariance, PTL

=============================================================================
