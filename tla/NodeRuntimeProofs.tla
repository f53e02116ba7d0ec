-------------------------- MODULE NodeRuntimeProofs --------------------------
(***************************************************************************)
(* Proofs about NodeRuntime: no adapter drops out of supervision whatever  *)
(* fails, the restart budget is forgiven only for a run that works, and    *)
(* the process ends in order, for any finite set of adapters, any channel  *)
(* capacities, any budgets and any configuration.                          *)
(***************************************************************************)
EXTENDS NodeRuntimeSteps, FiniteSetTheorems, TLAPS

----------------------------------------------------------------------------
(* Facts about data                                                        *)

\* A set of natural numbers that has 0 and every successor has them all.
LEMMA Induction ==
    ASSUME NEW S \in SUBSET Nat, 0 \in S, \A n \in S : n + 1 \in S
    PROVE  S = Nat
<1> SUFFICES ASSUME Nat \ S # {} PROVE FALSE
  BY Zenon
<1> DEFINE T == Nat \ S
           R == {ss \in Nat \X Nat : ss[1] < ss[2]}
<1>1. OpToRel(<, Nat) = R
  BY Zenon DEF OpToRel
<1>2. IsWellFoundedOn(R, Nat)
  BY <1>1, NatLessThanWellFounded, Zenon
<1>3. \A x, y \in T : x < y => <<x, y>> \in R
  BY SMT
<1> HIDE DEF R
<1>4. T \subseteq Nat /\ T # {}
  BY Zenon
<1>5. PICK x \in T : \A y \in T : ~(<<y, x>> \in R)
  BY <1>2, <1>4, WFMin, Zenon
<1>6. x \in Nat /\ x # 0 /\ x - 1 \in Nat
  BY <1>5
<1>7. x - 1 \in T
  BY <1>5, <1>6
<1>8. x - 1 < x
  BY <1>6
<1>9. QED
  BY <1>3, <1>5, <1>7, <1>8, Zenon

\* One more waiting or exhausted adapter
LEMMA CountOneMore ==
    ASSUME NEW S \in SUBSET Instances, NEW a \in Instances, a \notin S
    PROVE  Cardinality(S \cup {a}) = Cardinality(S) + 1 /\ Cardinality(S) \in Nat
<1>1. IsFiniteSet(S)
  BY FS_Subset, NodeAssumption, Zenon
<1>2. QED
  BY <1>1, FS_AddElement, FS_CardinalityType, Zenon

\* One waiting adapter less
LEMMA CountOneLess ==
    ASSUME NEW S \in SUBSET Instances, NEW a \in S
    PROVE  Cardinality(S \ {a}) = Cardinality(S) - 1 /\ Cardinality(S) - 1 \in Nat
<1>1. IsFiniteSet(S) /\ IsFiniteSet(S \ {a})
  BY FS_Subset, NodeAssumption, Zenon
<1>2. Cardinality(S \ {a}) = Cardinality(S) - 1
  BY <1>1, FS_RemoveElement, Zenon
<1>3. Cardinality(S \ {a}) \in Nat
  BY <1>1, FS_CardinalityType, Zenon
<1>4. QED
  BY <1>2, <1>3, Zenon

\* A count of zero: nobody
LEMMA CountNobody ==
    ASSUME NEW S \in SUBSET Instances
    PROVE  Cardinality(S) \in Nat /\ (Cardinality(S) = 0 <=> S = {})
<1>1. IsFiniteSet(S)
  BY FS_Subset, NodeAssumption, Zenon
<1>2. QED
  BY <1>1, FS_EmptySet, FS_CardinalityType, Zenon

\* An instance of the configuration is an instance, and waits nowhere twice.
LEMMA CountWithout ==
    ASSUME NodeTypes, NEW a \in Instances, a \notin timers
    PROVE  Cardinality(timers \ {a}) = Cardinality(timers)
<1>1. timers \ {a} = timers
  BY Zenon
<1>2. QED
  BY <1>1, Zenon

\* The recursion of CycleEvents is well founded.
LEMMA ConcatenationExists ==
    ASSUME NEW N \in Nat, NEW e \in [1 .. N -> Seq(Events)]
    PROVE  \E f : f = [i \in 0 .. N |-> IF i = 0 THEN <<>> ELSE f[i - 1] \o e[i]]
<1> DEFINE Upto(n) ==
               \E f \in [0 .. n -> Seq(Events)] :
                   \A i \in 0 .. n : f[i] = IF i = 0 THEN <<>> ELSE f[i - 1] \o e[i]
           S == {n \in Nat : n <= N => Upto(n)}
<1>1. Upto(0)
  <2> DEFINE g == [i \in 0 .. 0 |-> <<>>]
  <2>1. g \in [0 .. 0 -> Seq(Events)]
    OBVIOUS
  <2>2. \A i \in 0 .. 0 : g[i] = IF i = 0 THEN <<>> ELSE g[i - 1] \o e[i]
    OBVIOUS
  <2>3. QED
    BY <2>1, <2>2, Zenon
<1>2. ASSUME NEW n \in Nat, n + 1 <= N, Upto(n)
      PROVE  Upto(n + 1)
  <2>1. PICK f \in [0 .. n -> Seq(Events)] :
            \A i \in 0 .. n : f[i] = IF i = 0 THEN <<>> ELSE f[i - 1] \o e[i]
    BY <1>2, Zenon
  <2> DEFINE g == [i \in 0 .. n + 1 |-> IF i \in 0 .. n THEN f[i] ELSE f[n] \o e[n + 1]]
  <2>2. f[n] \o e[n + 1] \in Seq(Events)
    BY <1>2, <2>1
  <2>3. g \in [0 .. n + 1 -> Seq(Events)]
    BY <2>1, <2>2, Zenon
  <2>4. \A i \in 0 .. n : g[i] = f[i]
    BY <1>2
  <2>5. g[n + 1] = f[n] \o e[n + 1]
    BY <1>2
  <2> HIDE DEF g
  <2>6. ASSUME NEW i \in 0 .. n + 1
        PROVE  g[i] = IF i = 0 THEN <<>> ELSE g[i - 1] \o e[i]
    <3>1. CASE i = 0
      <4>1. 0 \in 0 .. n
        BY <1>2
      <4>2. QED
        BY <2>1, <2>4, <3>1, <4>1, Zenon
    <3>2. CASE i # 0 /\ i <= n
      <4>1. i \in 0 .. n /\ i - 1 \in 0 .. n
        BY <1>2, <3>2
      <4>2. QED
        BY <2>1, <2>4, <3>2, <4>1, Zenon
    <3>3. CASE i = n + 1
      <4>1. i - 1 = n /\ i # 0 /\ n \in 0 .. n
        BY <1>2, <3>3
      <4>2. g[i] = f[n] \o e[i] /\ g[i - 1] = f[n]
        BY <2>4, <2>5, <3>3, <4>1, Zenon
      <4>3. QED
        BY <4>1, <4>2, Zenon
    <3>4. QED
      BY <1>2, <3>1, <3>2, <3>3
  <2>7. QED
    BY <2>3, <2>6, Zenon
<1> HIDE DEF Upto
<1>3. 0 \in S
  BY <1>1, Zenon
<1>4. \A n \in S : n + 1 \in S
  BY <1>2
<1>5. N \in S
  BY <1>3, <1>4, Induction, Zenon
<1>6. PICK f \in [0 .. N -> Seq(Events)] :
          \A i \in 0 .. N : f[i] = IF i = 0 THEN <<>> ELSE f[i - 1] \o e[i]
  BY <1>5 DEF Upto
<1>7. f = [i \in 0 .. N |-> IF i = 0 THEN <<>> ELSE f[i - 1] \o e[i]]
  BY <1>6, Zenon
<1>8. QED
  BY <1>7, Zenon

\* The events of a poll cycle are events.
LEMMA CycleEventsTyped ==
    ASSUME NEW ts, NEW os, \A i \in Targets : AppliedEvents(ts[i], os[i]) \in Seq(Events)
    PROVE  CycleEvents(ts, os) \in Seq(Events)
<1> DEFINE e == [i \in Targets |-> AppliedEvents(ts[i], os[i])]
           F(f) == [i \in 0 .. NTargets |->
                       IF i = 0 THEN <<>> ELSE f[i - 1] \o AppliedEvents(ts[i], os[i])]
           sent == CHOOSE f : f = F(f)
<1>1. NTargets \in Nat
  BY PollingAssumption, Zenon
<1>2. CycleEvents(ts, os) = sent[NTargets]
  BY Zenon DEF CycleEvents
<1>3. e \in [1 .. NTargets -> Seq(Events)]
  BY Zenon DEF Targets
<1>4. PICK f : f = [i \in 0 .. NTargets |-> IF i = 0 THEN <<>> ELSE f[i - 1] \o e[i]]
  <2> HIDE DEF e
  <2>1. QED
    BY <1>1, <1>3, ConcatenationExists, Zenon
<1>5. \A i \in 0 .. NTargets : i # 0 => e[i] = AppliedEvents(ts[i], os[i])
  BY <1>1 DEF Targets
<1>6. f = F(f)
  <2> HIDE DEF e
  <2>1. \A i \in 0 .. NTargets :
            f[i] = IF i = 0 THEN <<>> ELSE f[i - 1] \o AppliedEvents(ts[i], os[i])
    BY <1>4, <1>5, Zenon
  <2>2. QED
    BY <1>4, <2>1, Zenon
<1>7. sent = F(sent)
  BY <1>6, Zenon
<1> HIDE DEF sent, e
<1>8. sent[0] = <<>> /\ \A i \in 1 .. NTargets : sent[i] = sent[i - 1] \o AppliedEvents(ts[i], os[i])
  <2>1. \A i \in 0 .. NTargets :
            sent[i] = IF i = 0 THEN <<>> ELSE sent[i - 1] \o AppliedEvents(ts[i], os[i])
    BY <1>7, Zenon
  <2> HIDE DEF F
  <2>2. 0 \in 0 .. NTargets /\ \A i \in 1 .. NTargets : i \in 0 .. NTargets /\ i # 0
    BY <1>1
  <2>3. QED
    BY <2>1, <2>2, Zenon
<1> HIDE DEF F
<1> DEFINE S == {n \in Nat : n <= NTargets => sent[n] \in Seq(Events)}
<1>9. 0 \in S
  <2>1. <<>> \in Seq(Events)
    OBVIOUS
  <2>2. sent[0] \in Seq(Events)
    BY <1>8, <2>1, Zenon
  <2>3. QED
    BY <2>2, Zenon
<1>10. ASSUME NEW n \in S PROVE n + 1 \in S
  <2>1. CASE n + 1 <= NTargets
    <3>1. n + 1 \in 1 .. NTargets /\ (n + 1) - 1 = n
      BY <1>1, <2>1
    <3>2. sent[n + 1] = sent[n] \o AppliedEvents(ts[n + 1], os[n + 1])
      BY <1>8, <3>1, Zenon
    <3>3. sent[n] \in Seq(Events)
      BY <1>1, <2>1
    <3>4. AppliedEvents(ts[n + 1], os[n + 1]) \in Seq(Events)
      BY <3>1, Zenon DEF Targets
    <3>5. \A p, q \in Seq(Events) : p \o q \in Seq(Events)
      OBVIOUS
    <3>6. sent[n + 1] \in Seq(Events)
      BY <3>2, <3>3, <3>4, <3>5, Zenon
    <3>7. QED
      BY <3>6
  <2>2. QED
    BY <1>1, <2>1
<1>11. NTargets \in S
  BY <1>1, <1>9, <1>10, Induction, Zenon
<1>12. QED
  BY <1>1, <1>2, <1>11

----------------------------------------------------------------------------
(* The loop is entered, and left                                           *)

\* A node without adapters supervises nothing.
LEMMA NoAdapters ==
    ASSUME NodeInvariant, main \in Supervising, conf.adapters = {}
    PROVE  host = <<>> /\ pending = 0 /\ exhausted = 0
<1>1. Placement /\ NodeTypes
  BY Zenon DEF NodeInvariant
<1>2. \A a \in Instances : health[a] = "none" /\ Placed(a)
  BY <1>1, Zenon DEF Placement
<1>3. \A a \in Instances : a \notin timers /\ ~InHost(a) /\ health[a] # "exhausted"
  BY <1>2, Zenon DEF Placed
<1>4. timers = {} /\ Exhausted = {}
  BY <1>1, <1>3, Zenon DEF NodeTypes, Exhausted
<1>5. pending = Cardinality({}) /\ exhausted = Cardinality({})
  BY <1>1, <1>4, Zenon DEF Placement
<1>6. Cardinality({}) = 0
  BY FS_EmptySet, Zenon
<1>7. host = <<>>
  <2>1. host \in Seq(Instances) /\ \A i \in 1 .. Len(host) : host[i] \in Instances
    BY <1>1 DEF NodeTypes
  <2>2. \A i \in 1 .. Len(host) : FALSE
    BY <1>3, <2>1, Zenon DEF InHost
  <2>3. Len(host) \in Nat
    BY <2>1
  <2>4. Len(host) = 0
    BY <2>2, <2>3
  <2>5. QED
    BY <2>1, <2>4
<1>8. QED
  BY <1>5, <1>6, <1>7, Zenon

\* Every adapter was started or waits: the loop is entered.
LEMMA EnterLoopKeeps ==
    ASSUME NodeInvariant, EnterLoop
    PROVE  NodeInvariant'
<1>1. ControlFrame /\ main = "start" /\ main' = "loop"
  BY FrameExpanded, Zenon DEF EnterLoop
<1>2. svc \in Service /\ Ending /\ conf' = conf /\ UNCHANGED <<completion, comp, watch, host>>
  BY <1>1, Zenon DEF NodeInvariant, NodeTypes, ControlFrame
<1>3. \A a \in conf.adapters : health[a] # "none"
  BY Zenon DEF EnterLoop
<1>4. conf.api \in BOOLEAN /\ conf.mqtt \in BOOLEAN /\ svc.apiRunning \in BOOLEAN
  BY <1>2, NodeAssumption, ServiceFields, Zenon DEF NodeInvariant, NodeTypes
<1>5. PICK o \in {"running", "off"} :
          svc' = [svc EXCEPT !.output = o,
                             !.serviceOnly = host = <<>> /\ pending = 0 /\ exhausted = 0
                                                 /\ (svc.apiRunning \/ conf.mqtt)]
  BY Zenon DEF EnterLoop
<1>6. svc'.serviceOnly = (host = <<>> /\ pending = 0 /\ exhausted = 0 /\ (svc.apiRunning \/ conf.mqtt))
  BY <1>2, <1>5, Zenon DEF Service
<1>7. /\ svc' \in Service /\ svc'.late = svc.late /\ svc'.apiFailed = svc.apiFailed
      /\ svc'.apiRunning = svc.apiRunning /\ svc'.output # "stopped"
  BY <1>2, <1>5, Zenon DEF Service
<1>8. \A a \in Instances : Joined(a)'
  BY <1>1, <1>2, <1>7, JoinedStays, Zenon DEF Ending
<1>9. ~svc'.apiFailed => svc'.apiRunning = conf.api
  BY <1>1, <1>2, <1>7, Zenon DEF Ending
<1>10. ~svc.apiFailed
  BY <1>1, <1>2, Zenon DEF Ending
<1>11. conf.adapters = {} => svc'.serviceOnly = (conf.api \/ conf.mqtt)
  <2>1. main \in Supervising
    BY <1>1, Zenon DEF Supervising
  <2>2. conf.adapters = {} => svc'.serviceOnly = (svc.apiRunning \/ conf.mqtt)
    BY <1>6, <2>1, NoAdapters, Zenon
  <2>3. QED
    BY <1>7, <1>9, <1>10, <2>2, Zenon
<1>12. Ending'
  BY <1>1, <1>2, <1>7, <1>8, <1>9, <1>11, Zenon DEF Ending, Cleaning
<1>13. main' \in MainStates /\ main \in Supervising /\ main' \notin Early
  BY <1>1, Zenon DEF MainStates, Supervising, Early
<1>14. QED
  BY <1>1, <1>3, <1>7, <1>12, <1>13, ControlKeeps, Zenon

\* The loop is left: for a signal, for a failure, or for want of anything to run.
LEMMA LeaveLoopKeeps ==
    ASSUME NodeInvariant, StreamsClosed \/ OnSignal \/ OnOutputExit \/ OnIngestExit
    PROVE  NodeInvariant'
<1>1. /\ main = "loop" /\ main' = "cleanup" /\ timers' = {} /\ notices' = <<>>
      /\ UNCHANGED <<activity, stop, completion, ingest, comp, outcome, loop, out, events, command,
                     reader, retries, bytes, target, conf, host, stream, watch, active, gens,
                     restarts, pending, exhausted, faults, health>>
  BY Zenon DEF StreamsClosed, OnSignal, OnOutputExit, OnIngestExit, LeaveLoop, Selecting, runs,
               adapterVars, hostApi, loopVars, serialVars
<1>2. AdapterTypes /\ NodeTypes /\ Placement /\ Watches /\ Ending /\ svc \in Service
  BY Zenon DEF NodeInvariant, NodeTypes
<1>3. \/ StreamsClosed /\ svc' = svc
      \/ svc' = [svc EXCEPT !.signalled = TRUE, !.apiAsked = svc.apiRunning]
      \/ svc' = [svc EXCEPT !.output = "off", !.outputFailed = TRUE]
      \/ svc' = [svc EXCEPT !.collectorAlive = FALSE]
  BY Zenon DEF StreamsClosed, OnSignal, OnOutputExit, OnIngestExit
<1>4. /\ svc' \in Service /\ svc'.late = svc.late
      /\ svc'.apiRunning = svc.apiRunning /\ svc'.apiFailed = svc.apiFailed
      /\ (svc'.output = "stopped" => svc.output = "stopped")
      /\ (StreamsClosed /\ svc' = svc) \/ svc'.signalled \/ svc'.outputFailed \/ ~svc'.collectorAlive
  BY <1>2, <1>3, Zenon DEF Service
<1>5. AdapterTypes'
  BY <1>1, <1>2, TypesStay, Zenon
<1>6. NodeTypes'
  <2>1. main' \in MainStates /\ <<>> \in Seq(Notice)
    BY <1>1 DEF MainStates
  <2>2. QED
    BY <1>1, <1>2, <1>4, <2>1, Zenon DEF NodeTypes
<1>7. Placement'
  <2>1. Once' /\ main' \in Cleaning /\ main' # "joinAdapter"
    BY <1>1, <1>2, Zenon DEF Placement, Once, Cleaning
  <2>2. QED
    BY <1>1, <1>2, <2>1, CleanupPlacement, Zenon
<1>8. Watches'
  BY <1>1, <1>2, WatchesStay, Zenon
<1>9. main \in Supervising
  BY <1>1, Zenon DEF Supervising
<1>10. ASSUME NEW a \in Instances PROVE Joined(a)'
  <2>1. Joined(a) /\ Placed(a)
    BY <1>2, <1>9, Zenon DEF Ending, Placement
  <2>2. watch[a].on => InHost(a)
    BY <2>1, Zenon DEF Placed
  <2>3. QED
    BY <1>1, <1>4, <2>1, <2>2, JoinedStays, Zenon
<1>11. ASSUME StreamsClosed, svc' = svc, ~svc.apiFailed
       PROVE  NothingToRun
  <2>1. Stopping
    BY <1>11, Zenon DEF StreamsClosed
  <2>2. timers = {} /\ Exhausted = {}
    <3>1. timers \in SUBSET Instances /\ Exhausted \in SUBSET Instances
      BY <1>2, Zenon DEF NodeTypes, Exhausted
    <3>2. Cardinality(timers) = 0 /\ Cardinality(Exhausted) = 0
      BY <1>2, <1>9, <2>1, Zenon DEF Placement, Stopping, ShouldStop
    <3>3. QED
      BY <3>1, <3>2, CountNobody, Zenon
  <2>3. conf.adapters \subseteq Instances /\ conf.api \in BOOLEAN /\ conf.mqtt \in BOOLEAN
    BY <1>2, NodeAssumption, Zenon DEF NodeTypes
  <2>4. conf.adapters = {}
    <3>1. ASSUME NEW a \in conf.adapters PROVE FALSE
      <4>1. a \in Instances /\ Placed(a) /\ health[a] # "none"
        BY <1>1, <1>2, <1>9, <2>3, Zenon DEF Placement
      <4>2. stream[a] = "none" /\ a \notin timers /\ health[a] # "exhausted"
        BY <2>1, <2>2, <4>1, Zenon DEF Stopping, Exhausted
      <4>3. QED
        BY <4>1, <4>2, Zenon DEF Placed
    <3>2. QED
      BY <3>1, Zenon
  <2>5. svc.apiRunning = conf.api /\ svc.serviceOnly = (conf.api \/ conf.mqtt)
    BY <1>1, <1>2, <1>11, <2>4, Zenon DEF Ending
  <2>6. ~svc.serviceOnly \/ ~(svc.apiRunning \/ conf.mqtt)
    BY <2>1, Zenon DEF Stopping, ShouldStop
  <2>7. QED
    BY <2>3, <2>4, <2>5, <2>6, Zenon DEF NothingToRun
<1>12. NothingToRun' <=> NothingToRun
  BY <1>1, Zenon DEF NothingToRun
<1>13. NoFailure' => svc'.signalled \/ NothingToRun
  BY <1>4, <1>11, Zenon DEF NoFailure
<1>14. Ending'
  BY <1>1, <1>2, <1>4, <1>10, <1>12, <1>13, Zenon DEF Ending, Cleaning
<1>15. QED
  BY <1>5, <1>6, <1>7, <1>8, <1>14, Zenon DEF NodeInvariant

----------------------------------------------------------------------------
(* Supervision                                                             *)

\* tracker.next_delay: the two counts follow the timers and the exhausted.
LEMMA DelayCounts ==
    ASSUME NodeTypes, NEW a \in Instances, NEW n, n = Cardinality(timers \ {a}),
           exhausted = Cardinality(Exhausted), health[a] # "exhausted", NextDelay(a, n)
    PROVE  Delayed(a)
<1>1. /\ timers \in SUBSET Instances /\ Exhausted \in SUBSET Instances /\ a \notin Exhausted
      /\ health \in [Instances -> Statuses] /\ restarts \in [Instances -> 0 .. MaxRestarts]
      /\ timers \ {a} \in SUBSET Instances /\ MaxRestarts \in Nat
  BY NodeAssumption, Zenon DEF NodeTypes, Exhausted
<1>2. n \in Nat /\ exhausted \in Nat
  BY <1>1, CountNobody, Zenon
<1>3. CASE restarts[a] < MaxRestarts
  <2>1. /\ restarts' = [restarts EXCEPT ![a] = restarts[a] + 1] /\ timers' = timers \cup {a}
        /\ pending' = n + 1 /\ health' = [health EXCEPT ![a] = "restarting"] /\ exhausted' = exhausted
    BY <1>1, <1>3 DEF NextDelay
  <2>2. timers' = (timers \ {a}) \cup {a}
    BY <2>1, Zenon
  <2>3. Cardinality((timers \ {a}) \cup {a}) = Cardinality(timers \ {a}) + 1
    BY <1>1, CountOneMore, Zenon
  <2>4. pending' = Cardinality(timers') /\ pending' \in Nat
    BY <1>2, <2>1, <2>2, <2>3
  <2>5. health'[a] = "restarting" /\ \A b \in Instances \ {a} : health'[b] = health[b]
    BY <1>1, <2>1, Zenon
  <2>6. Exhausted' = Exhausted
    BY <1>1, <2>5, Zenon DEF Exhausted
  <2>7. restarts' \in [Instances -> 0 .. MaxRestarts]
    BY <1>1, <1>3, <2>1
  <2>8. health' \in [Instances -> Statuses]
    BY <1>1, <2>1, Zenon DEF Statuses
  <2>9. timers' \in SUBSET Instances /\ a \in timers'
            /\ \A b \in Instances \ {a} : b \in timers' <=> b \in timers
    BY <1>1, <2>1, Zenon
  <2>10. QED
    BY <1>2, <2>1, <2>4, <2>5, <2>6, <2>7, <2>8, <2>9, Zenon DEF Delayed
<1>4. CASE ~(restarts[a] < MaxRestarts)
  <2>1. /\ restarts' = restarts /\ timers' = timers \ {a}
        /\ pending' = n /\ health' = [health EXCEPT ![a] = "exhausted"] /\ exhausted' = exhausted + 1
    BY <1>4, Zenon DEF NextDelay
  <2>2. health'[a] = "exhausted" /\ \A b \in Instances \ {a} : health'[b] = health[b]
    BY <1>1, <2>1, Zenon
  <2>3. Exhausted' = Exhausted \cup {a}
    BY <1>1, <2>2, Zenon DEF Exhausted
  <2>4. exhausted' = Cardinality(Exhausted')
    BY <1>1, <2>1, <2>3, CountOneMore, Zenon
  <2>5. health' \in [Instances -> Statuses]
    BY <1>1, <2>1, Zenon DEF Statuses
  <2>6. timers' \in SUBSET Instances /\ a \notin timers'
            /\ \A b \in Instances \ {a} : b \in timers' <=> b \in timers
    BY <1>1, <2>1, Zenon
  <2>7. exhausted' \in Nat
    BY <1>1, <1>2, <2>1
  <2>8. QED
    BY <1>1, <1>2, <2>1, <2>2, <2>4, <2>5, <2>6, <2>7, Zenon DEF Delayed
<1>5. QED
  BY <1>3, <1>4, Zenon

\* The first start of an adapter keeps the invariant.
LEMMA StartInstanceKeeps ==
    ASSUME NodeInvariant, NEW a \in Instances, StartInstance(a)
    PROVE  NodeInvariant'
<1>1. /\ main = "start" /\ a \in conf.adapters /\ health[a] = "none"
      /\ UNCHANGED <<conf, main, notices, svc>>
  BY Zenon DEF StartInstance
<1>2. NodeTypes /\ Placement /\ Watches /\ main \in Supervising
  BY <1>1, Zenon DEF NodeInvariant, Supervising
<1>3. Placed(a) /\ Mirrored(a) /\ pending = Cardinality(timers)
  BY <1>2, Zenon DEF Placement, Watches
<1>4. stream[a] = "none" /\ a \notin timers /\ ~faults[a] /\ gens[a] = 0
  BY <1>1, <1>3, Zenon DEF Placed, Mirrored
<1>5. health[a] # "exhausted"
  BY <1>1, Zenon
<1>6. Cardinality(timers \ {a}) = pending /\ timers \ {a} = timers
  BY <1>2, <1>3, <1>4, CountWithout, Zenon
<1>7. CASE StartFailed(a, pending) /\ UNCHANGED gens
  <2>1. Delayed(a)
    BY <1>2, <1>5, <1>6, <1>7, DelayCounts, Zenon DEF Placement, StartFailed
  <2>2. /\ gens' \in [Instances -> 0 .. MaxGeneration] /\ gens'[a] >= gens[a]
        /\ \A b \in Instances \ {a} : gens'[b] = gens[b]
    <3>1. gens \in [Instances -> 0 .. MaxGeneration] /\ 0 >= 0
      BY <1>2 DEF NodeTypes
    <3>2. QED
      BY <1>4, <1>7, <3>1, Zenon
  <2>3. QED
    BY <1>1, <1>4, <1>5, <1>7, <2>1, <2>2, StartFailedKeeps, Zenon
<1>8. CASE /\ Started(a) /\ Registered(a, 1)
           /\ active' = [active EXCEPT ![a] = 1] /\ gens' = [gens EXCEPT ![a] = 1]
           /\ health' = [health EXCEPT ![a] = "running"]
           /\ UNCHANGED <<restarts, timers, pending, exhausted, faults>>
  <2>1. 1 \in 1 .. MaxGeneration /\ 1 > gens[a]
    BY <1>4, NodeAssumption
  <2>2. timers' = timers \ {a} /\ pending' = Cardinality(timers') /\ pending' \in Nat
    BY <1>2, <1>3, <1>6, <1>8, Zenon DEF NodeTypes
  <2>3. PICK g \in 1 .. MaxGeneration : g = 1
    BY <2>1, Zenon
  <2>4. /\ g > gens[a] /\ Started(a) /\ Registered(a, g)
        /\ active' = [active EXCEPT ![a] = g] /\ gens' = [gens EXCEPT ![a] = g]
        /\ health' = [health EXCEPT ![a] = "running"]
        /\ UNCHANGED <<restarts, exhausted, faults>>
    BY <1>8, <2>1, <2>3, Zenon
  <2>5. QED
    BY <1>1, <1>4, <1>5, <2>2, <2>4, StartedKeeps, Zenon
<1>9. QED
  BY <1>7, <1>8, Zenon DEF StartInstance

\* So does a restart.
LEMMA OnRestartKeeps ==
    ASSUME NodeInvariant, NEW a \in Instances, OnRestart(a)
    PROVE  NodeInvariant'
<1>1. /\ main = "loop" /\ a \in timers /\ gens[a] < MaxGeneration
      /\ gens' = [gens EXCEPT ![a] = gens[a] + 1]
      /\ UNCHANGED <<conf, notices, svc>>
  BY Zenon DEF OnRestart, Selecting
<1>2. NodeTypes /\ Placement /\ main \in Supervising
  BY <1>1, Zenon DEF NodeInvariant, Supervising
<1>3. Placed(a) /\ pending = Cardinality(timers)
  BY <1>2, Zenon DEF Placement
<1>4. stream[a] = "none" /\ health[a] # "exhausted" /\ health[a] # "none"
  BY <1>1, <1>3, Zenon DEF Placed
<1>5. a \in conf.adapters
  BY <1>2, <1>4, Zenon DEF Placement
<1>6. Cardinality(timers \ {a}) = pending - 1 /\ pending - 1 \in Nat
  BY <1>1, <1>2, <1>3, CountOneLess, Zenon DEF NodeTypes
<1>7. gens[a] \in Nat /\ gens[a] + 1 \in 1 .. MaxGeneration /\ gens[a] + 1 > gens[a]
  BY <1>1, <1>2, NodeAssumption DEF NodeTypes
<1>8. CASE StartFailed(a, pending - 1) /\ UNCHANGED main
  <2>1. Delayed(a)
    BY <1>2, <1>4, <1>6, <1>8, DelayCounts, Zenon DEF Placement, StartFailed
  <2>2. /\ gens' \in [Instances -> 0 .. MaxGeneration] /\ gens'[a] >= gens[a]
        /\ \A b \in Instances \ {a} : gens'[b] = gens[b]
    BY <1>1, <1>2, <1>7 DEF NodeTypes
  <2>3. QED
    BY <1>1, <1>4, <1>5, <1>8, <2>1, <2>2, StartFailedKeeps, Zenon
<1>9. CASE /\ Started(a) /\ Registered(a, gens[a] + 1)
           /\ pending' = pending - 1 /\ main' = "restarted"
           /\ active' = [active EXCEPT ![a] = gens[a] + 1]
           /\ health' = [health EXCEPT ![a] = "running"]
           /\ timers' = timers \ {a}
           /\ UNCHANGED <<restarts, exhausted, faults>>
  <2>1. pending' = Cardinality(timers') /\ pending' \in Nat
    BY <1>6, <1>9, Zenon
  <2>2. QED
    BY <1>1, <1>4, <1>5, <1>7, <1>9, <2>1, StartedKeeps, Zenon
<1>10. QED
  BY <1>8, <1>9, Zenon DEF OnRestart

\* When a stream closes, the adapter is delayed.
LEMMA ClosedDelays ==
    ASSUME NodeInvariant, NEW a \in Instances, OnAdapterClosed(a)
    PROVE  Delayed(a)
<1>1. main = "loop" /\ stream[a] # "none" /\ NextDelay(a, pending)
  BY Zenon DEF OnAdapterClosed, Selecting
<1>2. NodeTypes /\ Placement /\ main \in Supervising
  BY <1>1, Zenon DEF NodeInvariant, Supervising
<1>3. Placed(a) /\ pending = Cardinality(timers) /\ exhausted = Cardinality(Exhausted)
  BY <1>2, Zenon DEF Placement
<1>4. a \notin timers /\ health[a] # "exhausted"
  BY <1>1, <1>3, Zenon DEF Placed
<1>5. pending = Cardinality(timers \ {a})
  BY <1>2, <1>3, <1>4, CountWithout, Zenon
<1>6. QED
  BY <1>1, <1>2, <1>3, <1>4, <1>5, DelayCounts, Zenon

----------------------------------------------------------------------------
(* The theorems                                                            *)

\* Every step of the process keeps the invariant.
LEMMA NextKeeps ==
    ASSUME NodeInvariant, [Next]_vars
    PROVE  NodeInvariant'
<1>1. CASE Startup
  BY <1>1, EarlyKeeps, EnterLoopKeeps, StartInstanceKeeps, Zenon DEF Startup
<1>2. CASE Loop
  BY <1>2, LeaveLoopKeeps, TaskEndsKeeps, NoticeKeeps, AfterRestartKeeps, OnRestartKeeps,
     ClosedDelays, AdapterClosedKeeps, Zenon DEF Loop
<1>3. CASE Cleanup \/ Timeouts
  BY <1>3, StopAdapterKeeps, JoinAdapterKeeps, StopApiKeeps, ExitKeeps, Zenon DEF Cleanup, Timeouts
<1>4. CASE ApiTaskEnds \/ OutputTaskEnds
  BY <1>4, TaskEndsKeeps, Zenon
<1>5. ASSUME NEW a \in Instances,
             \/ ReaderThread(a) \/ WorkerLoop(a) \/ Composition(a) \/ Finishing(a)
             \/ IngestClientEnds(a)
      PROVE  NodeInvariant'
  <2>1. AdapterTypes
    BY Zenon DEF NodeInvariant
  <2>2. CyclesTyped
    BY CycleEventsTyped, Zenon DEF CyclesTyped
  <2>3. AdapterTypes' /\ RunEffect /\ UNCHANGED nodeVars
    BY <1>5, <2>1, <2>2, RunStep, Zenon
  <2>4. QED
    BY <2>3, RunKeeps, Zenon
<1>6. ASSUME NEW a \in Instances, Watching(a)
      PROVE  NodeInvariant'
  BY <1>6, ActivityTickKeeps, MirrorKeeps, JoinTaskKeeps, Zenon DEF Watching
<1>7. CASE UNCHANGED vars
  <2>1. ControlFrame /\ UNCHANGED <<main, svc>>
    BY <1>7, Zenon DEF vars, ControlFrame, nodeVars, adapterVars, hostApi, loopVars, serialVars, supervision
  <2>2. AdapterTypes' /\ RunEffect /\ UNCHANGED nodeVars
    BY <1>7, <2>1, TypesStay, NoEffect, Zenon DEF NodeInvariant, ControlFrame, vars
  <2>3. QED
    BY <2>2, RunKeeps, Zenon
<1>8. QED
  BY <1>1, <1>2, <1>3, <1>4, <1>5, <1>6, <1>7, Zenon DEF Next, Terminated

\* A started adapter is in exactly one of the three places.
LEMMA OnePlace ==
    ASSUME NEW a, Placed(a), health[a] # "none"
    PROVE  Cardinality({x \in {<<1, stream[a] # "none">>, <<2, a \in timers>>,
                               <<3, health[a] = "exhausted">>} : x[2]}) = 1
<1>1. PICK p, q, r : /\ p = <<1, stream[a] # "none">> /\ q = <<2, a \in timers>>
                     /\ r = <<3, health[a] = "exhausted">>
  BY Zenon
<1>2. /\ p[2] = (stream[a] # "none") /\ q[2] = (a \in timers)
      /\ r[2] = (health[a] = "exhausted")
  BY <1>1, Zenon
<1> USE DEF Placed
<1>3. \E x : {y \in {p, q, r} : y[2]} = {x}
  <2>1. CASE stream[a] # "none"
    <3>1. {y \in {p, q, r} : y[2]} = {p}
      BY <1>2, <2>1, Zenon
    <3>2. QED
      BY <3>1, Zenon
  <2>2. CASE a \in timers
    <3>1. {y \in {p, q, r} : y[2]} = {q}
      BY <1>2, <2>2, Zenon
    <3>2. QED
      BY <3>1, Zenon
  <2>3. CASE health[a] = "exhausted"
    <3>1. {y \in {p, q, r} : y[2]} = {r}
      BY <1>2, <2>3, Zenon
    <3>2. QED
      BY <3>1, Zenon
  <2>4. QED
    BY <2>1, <2>2, <2>3, Zenon
<1>4. QED
  BY <1>1, <1>3, FS_Singleton, Zenon

\* The inductive invariant implies that every adapter is supervised and that no
\* open interface has a fault.
LEMMA InvariantSupervises ==
    ASSUME NodeInvariant
    PROVE  SupervisionInvariant
<1>1. AdapterTypes /\ NodeTypes /\ Placement /\ Watches
  BY Zenon DEF NodeInvariant
<1>2. EveryAdapterSupervised
  <2> SUFFICES ASSUME main \in {"loop", "restarted"} PROVE EveryAdapterSupervised
    BY Zenon DEF EveryAdapterSupervised
  <2>1. main \in Supervising /\ conf.adapters \subseteq Instances
    BY <1>1, NodeAssumption, Zenon DEF Supervising, NodeTypes
  <2>2. pending = Cardinality(timers)
            /\ exhausted = Cardinality({a \in Instances : health[a] = "exhausted"})
    BY <1>1, <2>1, Zenon DEF Placement, Exhausted
  <2>3. ASSUME NEW a \in conf.adapters
        PROVE  Cardinality({x \in {<<1, stream[a] # "none">>, <<2, a \in timers>>,
                                   <<3, health[a] = "exhausted">>} : x[2]}) = 1
    <3>1. Placed(a) /\ health[a] # "none"
      BY <1>1, <2>1, Zenon DEF Placement
    <3>2. QED
      BY <3>1, OnePlace, Zenon
  <2>4. QED
    BY <2>2, <2>3, Zenon DEF EveryAdapterSupervised
<1>3. OpenInterfaceHasNoFault
  BY <1>1, Zenon DEF Watches, Mirrored, OpenInterfaceHasNoFault
<1>4. QED
  BY <1>1, <1>2, <1>3, TypesSuffice, Zenon DEF SupervisionInvariant

\* The inductive invariant of the node runtime
THEOREM NodeInvariantHolds == Spec => []NodeInvariant
<1>1. Init => NodeInvariant
  BY InitKeeps, FS_EmptySet, Zenon
<1>2. NodeInvariant /\ [Next]_vars => NodeInvariant'
  BY NextKeeps, Zenon
<1>3. QED
  BY <1>1, <1>2, PTL DEF Spec

\* In the fan-in loop of fn run every configured adapter is registered, waits
\* for exactly one restart or is exhausted, the counts of the stop test are
\* exact, and no open interface has an interface-open-failed fault: in every
\* behaviour, for any set of adapters, any budget and any configuration.
THEOREM SupervisionHolds == Spec => []SupervisionInvariant
<1>1. NodeInvariant => SupervisionInvariant
  BY InvariantSupervises, Zenon
<1>2. QED
  BY <1>1, NodeInvariantHolds, PTL

\* The graceful offline is sent only when every adapter that was given the time
\* to stop has stopped, and the process ends with exit code 0 only when it was
\* asked to end or had nothing to run.
THEOREM OrderlyExitHolds == Spec => []OrderlyExit
<1>1. NodeInvariant => OrderlyExit
  BY InvariantEndsInOrder, Zenon
<1>2. QED
  BY <1>1, NodeInvariantHolds, PTL

\* note_healthy is reached only for the run that is active and has decoded
\* something: a late notice of an earlier run never refills the budget.
THEOREM RestartBudgetHolds == Spec => RestartBudget
<1>1. NodeInvariant /\ [Next]_vars => [BudgetStep]_vars
  BY NextKeepsBudgets, Zenon
<1>2. QED
  BY <1>1, NodeInvariantHolds, PTL DEF Spec, RestartBudget, BudgetStep
=============================================================================
