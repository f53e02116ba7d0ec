-------------------------- MODULE NodeRuntimeSteps --------------------------
(***************************************************************************)
(* The inductive invariant of NodeRuntime, and lemmas about the steps that *)
(* keep it: those of the runs, of the tasks beside the loop, and of        *)
(* startup and cleanup.  NodeRuntimeProofs adds the steps that count       *)
(* adapters, and the theorems.                                             *)
(***************************************************************************)
EXTENDS NodeRuntime, TLAPS

----------------------------------------------------------------------------
(* The inductive invariant                                                 *)

Activities == [decode : {"none", "new", "seen"}, iface : Interfaces]
Completions == {"none", "requested", "unexpected"}

HostTypes ==
    /\ activity \in [Instances -> Activities]
    /\ stop \in [Instances -> BOOLEAN]
    /\ completion \in [Instances -> Completions]
    /\ ingest \in [Instances -> {"open", "closed"}]
    /\ comp \in [Instances -> CompStates]
    /\ outcome \in [Instances -> Completions]
    /\ command \in [Instances -> BOOLEAN]

\* The channels hold events; a loop that sends has something to send.
LoopTypes ==
    /\ loop \in [Instances -> LoopStates]
    /\ out \in [Instances -> Seq(Events)]
    /\ events \in [Instances -> Seq(Events)]
    /\ \A a \in Instances : Len(events[a]) <= EventCap
    /\ \A a \in Instances : loop[a] \in {"emit", "lastEmit"} => out[a] # <<>>

SerialTypes == SerialTypeOK /\ bytes \in [Serial -> Seq({"data", "failed"})]

AdapterTypes == HostTypes /\ LoopTypes /\ SerialTypes /\ PollingTypeOK

Notice == [adapter : Instances, gen : 1 .. MaxGeneration]
Watch == [on : BOOLEAN, gen : 0 .. MaxGeneration, iface : Interfaces, due : BOOLEAN]
Service ==
    [api : {"off", "running", "exited"}, apiRunning : BOOLEAN, apiAsked : BOOLEAN,
     apiFailed : BOOLEAN, output : {"off", "running", "exited", "stopped"},
     outputFailed : BOOLEAN, collectorAlive : BOOLEAN, serviceOnly : BOOLEAN,
     signalled : BOOLEAN, late : BOOLEAN, cleaned : BOOLEAN, exitOk : BOOLEAN]

NodeTypes ==
    /\ conf \in Configs /\ main \in MainStates /\ svc \in Service
    /\ host \in Seq(Instances)
    /\ stream \in [Instances -> {"none", "open", "closed"}]
    /\ watch \in [Instances -> Watch]
    /\ active \in [Instances -> 0 .. MaxGeneration]
    /\ gens \in [Instances -> 0 .. MaxGeneration]
    /\ restarts \in [Instances -> 0 .. MaxRestarts]
    /\ timers \in SUBSET Instances /\ pending \in Nat /\ exhausted \in Nat
    /\ notices \in Seq(Notice)
    /\ faults \in [Instances -> BOOLEAN] /\ health \in [Instances -> Statuses]

\* The list of the host
InHost(a) == \E i \in 1 .. Len(host) : host[i] = a
Once == \A i, j \in 1 .. Len(host) : host[i] = host[j] => i = j

Early == {"prepare", "api", "reconcile"}
Supervising == Early \cup {"start", "loop", "restarted"}
Cleaning == {"cleanup", "joinAdapter", "joinApi", "stopOutput"}

\* An adapter is nowhere before it is started, and then registered, waiting for
\* a restart or exhausted.
Placed(a) ==
    /\ health[a] = "none" => stream[a] = "none" /\ a \notin timers /\ ~faults[a]
    /\ health[a] = "exhausted" => stream[a] = "none" /\ a \notin timers
    /\ a \in timers => stream[a] = "none"
    /\ health[a] # "none" => stream[a] # "none" \/ a \in timers \/ health[a] = "exhausted"
    /\ stream[a] # "none" <=> active[a] # 0
    /\ stream[a] # "none" <=> InHost(a)
    /\ stream[a] = "open" <=> watch[a].on

Exhausted == {a \in Instances : health[a] = "exhausted"}

Placement ==
    /\ exhausted = Cardinality(Exhausted)
    /\ \A a \in Instances \ conf.adapters : health[a] = "none"
    /\ Once
    /\ main \in Early => \A a \in Instances : health[a] = "none"
    /\ main \in Supervising =>
          /\ pending = Cardinality(timers)
          /\ \A a \in Instances : Placed(a)
    /\ main \in {"loop", "restarted"} => \A a \in conf.adapters : health[a] # "none"
    /\ main \in {"restarted", "joinAdapter"} => host # <<>>

\* The activity task, the fault it mirrors and the notices it sends
Mirrored(a) ==
    /\ a \in Polling => activity[a].iface = "unreported" /\ watch[a].iface = "unreported"
    /\ watch[a].due => watch[a].on /\ a \notin Polling
    /\ watch[a].on /\ ~watch[a].due /\ watch[a].iface = "open" => ~faults[a]
    /\ watch[a].on /\ a \in Polling /\ ~(main = "restarted" /\ a = LastHost) => ~faults[a]
    /\ watch[a].on => watch[a].gen \in 1 .. gens[a]
    /\ active[a] <= gens[a]
    /\ health[a] = "none" => gens[a] = 0

Noticed(n) ==
    /\ n.gen <= gens[n.adapter]
    /\ n.gen = active[n.adapter] => activity[n.adapter].decode # "none"

Watches ==
    /\ \A a \in Instances : Mirrored(a)
    /\ \A i \in 1 .. Len(notices) : Noticed(notices[i])

\* A run that was joined is over, and cleanup joins what is registered.
Joined(a) ==
    /\ completion[a] # "none" => comp[a] = "done"
    /\ ~watch[a].on => comp[a] \in {"none", "done"}
    /\ main \in {"cleanup", "joinAdapter"} /\ ~svc.late /\ watch[a].on => InHost(a)
    /\ main \in {"joinApi", "stopOutput"} /\ ~svc.late => ~watch[a].on
    /\ svc.output = "stopped" /\ ~svc.late => comp[a] \in {"none", "done"}

NothingToRun == conf.adapters = {} /\ ~conf.api /\ ~conf.mqtt
NoFailure == svc.collectorAlive /\ ~svc.apiFailed /\ ~svc.outputFailed

Ending ==
    /\ \A a \in Instances : Joined(a)
    /\ svc.output = "stopped" => main = "exited"
    /\ main \in {"prepare", "api"} => ~svc.apiRunning
    /\ main \in {"prepare", "api", "reconcile", "start"} => ~svc.apiFailed
    /\ main \notin {"prepare", "api", "exited"} /\ ~svc.apiFailed => svc.apiRunning = conf.api
    /\ main \in {"loop", "restarted"} /\ conf.adapters = {} =>
          svc.serviceOnly = (conf.api \/ conf.mqtt)
    /\ main \in Cleaning /\ NoFailure => svc.signalled \/ NothingToRun
    /\ main = "exited" /\ svc.exitOk => svc.signalled \/ NothingToRun

NodeInvariant == AdapterTypes /\ NodeTypes /\ Placement /\ Watches /\ Ending

----------------------------------------------------------------------------
(* Facts about data                                                        *)

\* Taking the tail of a sequence
LEMMA TailFacts ==
    ASSUME NEW S, NEW s \in Seq(S), s # <<>>
    PROVE  /\ Len(Tail(s)) = Len(s) - 1
           /\ Len(s) \in Nat \ {0}
           /\ Tail(s) \in Seq(S)
           /\ \A i \in 1 .. Len(s) - 1 : Tail(s)[i] = s[i + 1]
           /\ Head(s) = s[1]
           /\ s[1] \in S
OBVIOUS

\* Appending: the old elements stay, the new one is last.
LEMMA AppendFacts ==
    ASSUME NEW S, NEW s \in Seq(S), NEW e \in S
    PROVE  /\ Append(s, e) \in Seq(S)
           /\ Len(Append(s, e)) = Len(s) + 1
           /\ Len(s) \in Nat
           /\ \A i \in 1 .. Len(s) : Append(s, e)[i] = s[i]
           /\ Append(s, e)[Len(s) + 1] = e
OBVIOUS

\* A sequence without its element at k
LEMMA RemoveFacts ==
    ASSUME NEW S, NEW s \in Seq(S), NEW k \in 1 .. Len(s)
    PROVE  LET r == SubSeq(s, 1, k - 1) \o SubSeq(s, k + 1, Len(s))
           IN  /\ r \in Seq(S)
               /\ Len(r) = Len(s) - 1
               /\ \A i \in 1 .. k - 1 : r[i] = s[i]
               /\ \A i \in k .. Len(s) - 1 : r[i] = s[i + 1]
<1>1. Len(s) \in Nat /\ k \in Nat
  OBVIOUS
<1>2. PICK p : p = SubSeq(s, 1, k - 1)
  BY Zenon
<1>3. PICK q : q = SubSeq(s, k + 1, Len(s))
  BY Zenon
<1>4. p \in Seq(S) /\ Len(p) = k - 1 /\ \A i \in 1 .. k - 1 : p[i] = s[i]
  BY <1>1, <1>2
<1>5. q \in Seq(S) /\ Len(q) = Len(s) - k /\ \A i \in 1 .. Len(s) - k : q[i] = s[i + k]
  BY <1>1, <1>3
<1>6. p \in Seq(S) /\ q \in Seq(S)
  BY <1>4, <1>5, Zenon
<1>7. /\ p \o q \in Seq(S) /\ Len(p \o q) = Len(p) + Len(q)
      /\ \A i \in 1 .. Len(p) : (p \o q)[i] = p[i]
      /\ \A i \in 1 .. Len(q) : (p \o q)[Len(p) + i] = q[i]
  BY <1>6
<1>8. PICK r : r = p \o q
  BY Zenon
<1>9. /\ Len(r) = Len(p) + Len(q) /\ \A i \in 1 .. Len(p) : r[i] = p[i]
      /\ \A i \in 1 .. Len(q) : r[Len(p) + i] = q[i]
  BY <1>7, <1>8, Zenon
<1>10. /\ Len(r) = Len(s) - 1
       /\ \A i \in 1 .. k - 1 : r[i] = s[i]
       /\ \A i \in k .. Len(s) - 1 : r[i] = s[i + 1]
  <2>1. PICK n \in Nat : n = Len(s)
    BY <1>1, Zenon
  <2>2. Len(q) = n - k /\ (\A i \in 1 .. n - k : q[i] = s[i + k]) /\ k \in 1 .. n
    BY <1>5, <2>1, Zenon
  <2>3. Len(r) = n - 1
    BY <1>4, <1>9, <2>2
  <2>4. ASSUME NEW i \in k .. n - 1
        PROVE  r[i] = s[i + 1]
    <3>1. PICK j \in 1 .. n - k : k - 1 + j = i /\ j + k = i + 1
      <4>1. i - k + 1 \in 1 .. n - k /\ k - 1 + (i - k + 1) = i /\ (i - k + 1) + k = i + 1
        BY <2>2
      <4>2. QED
        BY <4>1, Zenon
    <3>2. r[Len(p) + j] = q[j] /\ q[j] = s[j + k]
      BY <1>9, <2>2, Zenon
    <3>3. QED
      BY <1>4, <3>1, <3>2, Zenon
  <2>5. \A i \in 1 .. k - 1 : r[i] = s[i]
    BY <1>4, <1>9, Zenon
  <2>6. QED
    BY <2>1, <2>3, <2>4, <2>5, Zenon
<1>11. QED
  BY <1>2, <1>3, <1>7, <1>8, <1>10, Zenon

\* A sequence without its last element
LEMMA FrontFacts ==
    ASSUME NEW S, NEW s \in Seq(S), s # <<>>
    PROVE  /\ SubSeq(s, 1, Len(s) - 1) \in Seq(S)
           /\ Len(SubSeq(s, 1, Len(s) - 1)) = Len(s) - 1
           /\ Len(s) \in Nat \ {0}
           /\ \A i \in 1 .. Len(s) - 1 : SubSeq(s, 1, Len(s) - 1)[i] = s[i]
<1>1. Len(s) \in Nat \ {0}
  OBVIOUS
<1>2. PICK k \in 1 .. Len(s) : k = Len(s)
  BY <1>1
<1>3. /\ SubSeq(s, 1, k - 1) \in Seq(S) /\ Len(SubSeq(s, 1, k - 1)) = k - 1
      /\ \A i \in 1 .. k - 1 : SubSeq(s, 1, k - 1)[i] = s[i]
  BY <1>1
<1>4. QED
  BY <1>1, <1>2, <1>3, Zenon

\* The events of a poll cycle are events (a theorem of NodeRuntimeProofs: it takes
\* an induction over the targets).
CyclesTyped ==
    \A ts, os : (\A i \in Targets : AppliedEvents(ts[i], os[i]) \in Seq(Events))
                    => CycleEvents(ts, os) \in Seq(Events)

----------------------------------------------------------------------------
(* Types                                                                   *)

\* The invariant's types are those of the type invariant.
LEMMA TypesSuffice ==
    ASSUME AdapterTypes, NodeTypes
    PROVE  TypeOK
<1>1. AdaptersTypeOK
  BY Zenon DEF AdapterTypes, HostTypes, LoopTypes, AdaptersTypeOK, Activities, Completions
<1>2. QED
  BY <1>1, Zenon DEF AdapterTypes, SerialTypes, NodeTypes, TypeOK, Watch

\* apply_outcomes keeps every failure count below its threshold.
LEMMA AppliedTyped ==
    ASSUME NEW t \in TargetStates, NEW o \in PollOutcomes(t)
    PROVE  Applied(t, o) \in TargetStates /\ AppliedEvents(t, o) \in Seq(Events)
<1>1. MaxReadFailures \in Nat \ {0} /\ MaxDetectFailures \in Nat \ {0} /\ MaxInitFailures \in Nat \ {0}
  BY PollingAssumption, Zenon
<1>2. \A n \in 0 .. MaxDetectFailures, e \in BOOLEAN : Pending(n, e) \in TargetStates
  BY DEF TargetStates
<1>3. \A n \in 1 .. MaxInitFailures - 1 : Detected(n) \in TargetStates
  BY DEF TargetStates
<1>4. \A n \in 0 .. MaxReadFailures - 1 : Active(n) \in TargetStates
  BY DEF TargetStates
<1>5. NewPending \in TargetStates /\ Active(0) \in TargetStates
  <2>1. 0 \in 0 .. MaxDetectFailures /\ 0 \in 0 .. MaxReadFailures - 1 /\ FALSE \in BOOLEAN
    BY <1>1
  <2>2. QED
    BY <1>2, <1>4, <2>1, Zenon DEF NewPending
<1>6. \/ t.st = "pending" /\ t.failures \in 0 .. MaxDetectFailures /\ t.escalated \in BOOLEAN
      \/ t.st = "detected" /\ t.failures \in 1 .. MaxInitFailures - 1
      \/ t.st = "active" /\ t.failures \in 0 .. MaxReadFailures - 1
  BY DEF TargetStates, Pending, Detected, Active
<1>7. \/ t.st = "pending" /\ o \in {"discovered", "initFailed", "detectFailed", "detectPanic"}
      \/ t.st = "detected" /\ o \in {"discovered", "initFailed"}
      \/ t.st = "active" /\ o \in {"reading", "readError"}
  BY <1>6, Zenon DEF PollOutcomes
<1>8. AppliedEvents(t, o) \in Seq(Events)
  <2>1. <<"other">> \in Seq(Events) /\ <<"observation">> \in Seq(Events)
            /\ <<"other", "other">> \in Seq(Events) /\ <<>> \in Seq(Events)
    BY DEF Events
  <2>2. AppliedEvents(t, o) \in {<<"other">>, <<"observation">>, <<"other", "other">>, <<>>}
    BY <1>7, Zenon DEF AppliedEvents
  <2>3. QED
    BY <2>1, <2>2, Zenon
<1>9. Applied(t, o) \in TargetStates
  <2>1. CASE o \in {"discovered", "reading"}
    <3>1. Applied(t, o) = Active(0)
      BY <2>1, Zenon DEF Applied
    <3>2. QED
      BY <1>5, <3>1, Zenon
  <2>2. CASE o = "initFailed"
    <3>1. InitFailures(t) \in Nat \ {0}
      BY <1>1, <1>6, <1>7, <2>2 DEF InitFailures
    <3>2. Applied(t, o) = IF InitFailures(t) >= MaxInitFailures THEN NewPending
                          ELSE Detected(InitFailures(t))
      BY <2>2, Zenon DEF Applied
    <3>3. InitFailures(t) >= MaxInitFailures \/ InitFailures(t) \in 1 .. MaxInitFailures - 1
      BY <1>1, <3>1
    <3>4. QED
      BY <1>3, <1>5, <3>2, <3>3, Zenon
  <2>3. CASE o = "readError"
    <3>1. Applied(t, o) = IF t.failures + 1 >= MaxReadFailures THEN NewPending
                          ELSE Active(t.failures + 1)
      BY <2>3, Zenon DEF Applied
    <3>2. t.failures + 1 >= MaxReadFailures \/ t.failures + 1 \in 0 .. MaxReadFailures - 1
      BY <1>1, <1>6, <1>7, <2>3
    <3>3. QED
      BY <1>4, <1>5, <3>1, <3>2, Zenon
  <2>4. CASE o \in {"detectFailed", "detectPanic"}
    <3>1. Applied(t, o) = Pending(Capped(t.failures + 1, MaxDetectFailures),
                                  t.escalated \/ Escalates(t, o))
      BY <2>4, Zenon DEF Applied
    <3>2. Capped(t.failures + 1, MaxDetectFailures) \in 0 .. MaxDetectFailures
      BY <1>1, <1>6, <1>7, <2>4 DEF Capped
    <3>3. (t.escalated \/ Escalates(t, o)) \in BOOLEAN
      BY Zenon
    <3>4. QED
      BY <1>2, <3>1, <3>2, <3>3, Zenon
  <2>5. QED
    BY <1>7, <2>1, <2>2, <2>3, <2>4, Zenon
<1>10. QED
  BY <1>8, <1>9, Zenon

----------------------------------------------------------------------------
(* The steps of a run, as the node sees them                               *)

\* A physical decode is not taken back, an I2C adapter reports no interface, a
\* run that is over does not go on, and only a run that is over has completed.
RunEffect ==
    /\ \A b \in Instances : activity'[b].decode = "none" => activity[b].decode = "none"
    /\ \A b \in Polling : activity'[b].iface = activity[b].iface
    /\ \A b \in Instances : comp[b] \in {"none", "done"} => comp'[b] = comp[b]
    /\ \A b \in Instances : (completion[b] # "none" => comp[b] = "done")
                                => (completion'[b] # "none" => comp'[b] = "done")

\* A step that leaves the host API and the composition alone has no effect.
LEMMA NoEffect ==
    ASSUME UNCHANGED <<activity, comp, completion>>
    PROVE  RunEffect
  BY Zenon DEF RunEffect

\* The events a loop has to send: some, when it sends
LEMMA SendsTyped ==
    ASSUME LoopTypes, NEW a \in Instances, NEW es \in Seq(Events), NEW last \in BOOLEAN,
           last => es # <<>>, Sends(a, es, last), UNCHANGED events
    PROVE  LoopTypes'
<1>1. PICK pc \in LoopStates :
          /\ loop' = [loop EXCEPT ![a] = pc]
          /\ pc \in {"emit", "lastEmit"} => es # <<>>
  BY Zenon DEF Sends, LoopStates
<1>2. out' = [out EXCEPT ![a] = es]
  BY Zenon DEF Sends
<1>3. QED
  BY <1>1, <1>2, Zenon DEF LoopTypes

\* A loop that returns has nothing left to send.
LEMMA ReturnsTyped ==
    ASSUME LoopTypes, NEW a \in Instances, LoopReturns(a), UNCHANGED events
    PROVE  LoopTypes'
<1>1. "done" \in LoopStates /\ "done" \notin {"emit", "lastEmit"} /\ <<>> \in Seq(Events)
  BY DEF LoopStates
<1>2. QED
  BY <1>1, Zenon DEF LoopTypes, LoopReturns

\* A channel whose receiver takes an event or is dropped
LEMMA EventsTyped ==
    ASSUME LoopTypes, NEW a \in Instances, NEW es \in Seq(Events), Len(es) <= EventCap,
           events' = [events EXCEPT ![a] = es], UNCHANGED <<loop, out>>
    PROVE  LoopTypes'
  BY Zenon DEF LoopTypes

\* event_tx.send
LEMMA EmitStep ==
    ASSUME AdapterTypes, NEW a \in Instances, Emit(a)
    PROVE  LoopTypes' /\ UNCHANGED <<hostApi, comp, outcome, command>>
<1>1. LoopTypes
  BY Zenon DEF AdapterTypes
<1>2. ASSUME EventsClosed(a) PROVE LoopTypes'
  BY <1>1, <1>2, ReturnsTyped, Zenon DEF Emit
<1>3. ASSUME ~EventsClosed(a) PROVE LoopTypes'
  <2>1. /\ loop[a] \in {"emit", "lastEmit"} /\ Len(events[a]) < EventCap
        /\ events' = [events EXCEPT ![a] = Append(@, Head(out[a]))]
        /\ out' = [out EXCEPT ![a] = Tail(@)]
        /\ loop' = IF Len(out[a]) > 1 THEN loop
                   ELSE [loop EXCEPT ![a] = IF @ = "emit" THEN "select" ELSE "done"]
    BY <1>3, Zenon DEF Emit
  <2>2. events[a] \in Seq(Events) /\ out[a] \in Seq(Events) /\ out[a] # <<>>
    BY <1>1, <2>1, Zenon DEF LoopTypes
  <2>3. Head(out[a]) \in Events /\ Tail(out[a]) \in Seq(Events)
            /\ (Len(out[a]) > 1 => Tail(out[a]) # <<>>)
    <3>1. /\ Len(Tail(out[a])) = Len(out[a]) - 1 /\ Len(out[a]) \in Nat
          /\ Head(out[a]) \in Events /\ Tail(out[a]) \in Seq(Events)
      <4>1. /\ Len(Tail(out[a])) = Len(out[a]) - 1 /\ Len(out[a]) \in Nat \ {0}
            /\ Head(out[a]) = out[a][1] /\ out[a][1] \in Events /\ Tail(out[a]) \in Seq(Events)
        BY <2>2, TailFacts, Zenon
      <4>2. QED
        BY <4>1, Zenon
    <3>2. Len(<<>>) = 0
      BY Zenon
    <3>3. Len(out[a]) > 1 => Len(Tail(out[a])) # 0
      <4>1. \A n \in Nat : n > 1 => n - 1 # 0
        OBVIOUS
      <4>2. QED
        BY <3>1, <4>1, Zenon
    <3>4. QED
      BY <3>1, <3>2, <3>3, Zenon
  <2>4. Append(events[a], Head(out[a])) \in Seq(Events)
            /\ Len(Append(events[a], Head(out[a]))) <= EventCap
    BY <2>1, <2>2, <2>3, InputAdaptersAssumption
  <2>5. events' \in [Instances -> Seq(Events)]
            /\ \A b \in Instances : Len(events'[b]) <= EventCap
    BY <1>1, <2>1, <2>4, Zenon DEF LoopTypes
  <2>6. out' \in [Instances -> Seq(Events)]
    BY <1>1, <2>1, <2>3, Zenon DEF LoopTypes
  <2>7. CASE Len(out[a]) > 1
    <3>1. loop' = loop
      BY <2>1, <2>7, Zenon
    <3>2. \A b \in Instances : loop'[b] \in {"emit", "lastEmit"} => out'[b] # <<>>
      <4>1. out'[a] # <<>> /\ \A b \in Instances \ {a} : out'[b] = out[b]
        BY <1>1, <2>1, <2>3, <2>7, Zenon DEF LoopTypes
      <4>2. QED
        BY <1>1, <3>1, <4>1, Zenon DEF LoopTypes
    <3>3. QED
      BY <1>1, <2>5, <2>6, <3>1, <3>2, Zenon DEF LoopTypes
  <2>8. CASE ~(Len(out[a]) > 1)
    <3>1. PICK pc \in {"select", "done"} : loop' = [loop EXCEPT ![a] = pc]
      BY <2>1, <2>8, Zenon
    <3>2. loop' \in [Instances -> LoopStates]
      BY <1>1, <3>1, Zenon DEF LoopTypes, LoopStates
    <3>3. \A b \in Instances : loop'[b] \in {"emit", "lastEmit"} => out'[b] # <<>>
      <4>1. loop'[a] \notin {"emit", "lastEmit"}
                /\ \A b \in Instances \ {a} : out'[b] = out[b] /\ loop'[b] = loop[b]
        BY <1>1, <2>1, <3>1, Zenon DEF LoopTypes
      <4>2. QED
        BY <1>1, <4>1, Zenon DEF LoopTypes
    <3>4. QED
      BY <2>5, <2>6, <3>2, <3>3, Zenon DEF LoopTypes
  <2>9. QED
    BY <2>7, <2>8, Zenon
<1>4. QED
  BY <1>2, <1>3, Zenon DEF Emit

\* The reader thread: it reports its port and fills the bytes channel.
LEMMA ReaderStep ==
    ASSUME AdapterTypes, NEW a \in Serial, Reader(a)
    PROVE  HostTypes' /\ SerialTypes' /\ RunEffect
<1>1. a \in Instances /\ a \notin Polling
  BY InputAdaptersAssumption, Zenon DEF Instances
<1>2. /\ activity \in [Instances -> Activities]
      /\ reader \in [Serial -> ReaderStates] /\ retries \in [Serial -> 0 .. MaxRetries]
      /\ bytes \in [Serial -> Seq({"data", "failed"})]
      /\ \A b \in Serial : Len(bytes[b]) <= BytesCap
      /\ MaxRetries \in Nat /\ BytesCap \in Nat
  BY SerialAssumption, Zenon DEF AdapterTypes, HostTypes, SerialTypes, SerialTypeOK
<1>3. UNCHANGED <<stop, completion, ingest, comp, outcome, command>>
  BY Zenon DEF Reader, ReaderConnect, ReaderRetry, ReaderReopen, ReaderRead, ReaderSend, OpenPort,
               Reports, hostApi, loopVars
<1>4. activity' = activity \/ \E i \in Interfaces : activity' = [activity EXCEPT ![a].iface = i]
  BY Zenon DEF Reader, ReaderConnect, ReaderRetry, ReaderReopen, ReaderRead, ReaderSend, OpenPort,
               Reports, hostApi, Interfaces
<1>5. /\ activity' \in [Instances -> Activities]
      /\ \A b \in Instances : activity'[b].decode = activity[b].decode
      /\ \A b \in Instances \ {a} : activity'[b] = activity[b]
  <2>1. CASE activity' = activity
    BY <1>2, <2>1, Zenon
  <2>2. CASE activity' # activity
    <3>1. PICK i \in Interfaces : activity' = [activity EXCEPT ![a].iface = i]
      BY <1>4, <2>2, Zenon
    <3>2. PICK r : r = [activity[a] EXCEPT !.iface = i]
      BY Zenon
    <3>3. activity[a] \in Activities
      BY <1>1, <1>2, Zenon
    <3>4. r \in Activities /\ r.decode = activity[a].decode
      BY <3>2, <3>3, Zenon DEF Activities
    <3>5. activity' = [activity EXCEPT ![a] = r]
      BY <3>1, <3>2, Zenon
    <3>6. QED
      BY <1>1, <1>2, <3>4, <3>5, Zenon
  <2>3. QED
    BY <2>1, <2>2, Zenon
<1>6. HostTypes'
  BY <1>3, <1>5, Zenon DEF AdapterTypes, HostTypes
<1>7. RunEffect
  <2>1. \A b \in Polling : b \in Instances \ {a}
    BY <1>1, Zenon DEF Instances
  <2>2. QED
    BY <1>3, <1>5, <2>1, Zenon DEF RunEffect
<1>8. \E pc \in ReaderStates : reader' = [reader EXCEPT ![a] = pc]
  BY Zenon DEF Reader, ReaderConnect, ReaderRetry, ReaderReopen, ReaderRead, ReaderSend, OpenPort,
               ReaderTo, ReaderStates
<1>9. retries' = retries \/ \E n \in 0 .. MaxRetries : retries' = [retries EXCEPT ![a] = n]
  <2>1. \/ retries' = retries \/ retries' = [retries EXCEPT ![a] = 0]
        \/ ~(retries[a] + 1 > MaxRetries) /\ retries' = [retries EXCEPT ![a] = retries[a] + 1]
    BY Zenon DEF Reader, ReaderConnect, ReaderRetry, ReaderReopen, ReaderRead, ReaderSend, OpenPort
  <2>2. 0 \in 0 .. MaxRetries /\ (~(retries[a] + 1 > MaxRetries) => retries[a] + 1 \in 0 .. MaxRetries)
    BY <1>2
  <2>3. QED
    BY <2>1, <2>2, Zenon
<1>10. \/ bytes' = bytes
       \/ \E x \in {"data", "failed"} :
              Len(bytes[a]) < BytesCap /\ bytes' = [bytes EXCEPT ![a] = Append(bytes[a], x)]
  BY Zenon DEF Reader, ReaderConnect, ReaderRetry, ReaderReopen, ReaderRead, ReaderSend, OpenPort
<1>11. /\ bytes' \in [Serial -> Seq({"data", "failed"})]
       /\ \A b \in Serial : Len(bytes'[b]) <= BytesCap
  <2>1. CASE bytes' = bytes
    BY <1>2, <2>1, Zenon
  <2>2. CASE bytes' # bytes
    <3>1. PICK x \in {"data", "failed"} :
              Len(bytes[a]) < BytesCap /\ bytes' = [bytes EXCEPT ![a] = Append(bytes[a], x)]
      BY <1>10, <2>2, Zenon
    <3>2. bytes[a] \in Seq({"data", "failed"})
      BY <1>2, Zenon
    <3>3. PICK s \in Seq({"data", "failed"}) : s = Append(bytes[a], x) /\ Len(s) <= BytesCap
      <4>1. Append(bytes[a], x) \in Seq({"data", "failed"}) /\ Len(Append(bytes[a], x)) <= BytesCap
        BY <1>2, <3>1, <3>2
      <4>2. QED
        BY <4>1, Zenon
    <3>4. bytes' = [bytes EXCEPT ![a] = s]
      BY <3>1, <3>3, Zenon
    <3>5. QED
      BY <1>2, <3>3, <3>4, Zenon
  <2>3. QED
    BY <2>1, <2>2, Zenon
<1>12. SerialTypes'
  <2>1. reader' \in [Serial -> ReaderStates] /\ retries' \in [Serial -> 0 .. MaxRetries]
    BY <1>2, <1>8, <1>9, Zenon
  <2>2. QED
    BY <1>11, <2>1, Zenon DEF SerialTypes, SerialTypeOK
<1>13. QED
  BY <1>6, <1>7, <1>12, Zenon

\* decoded_event_loop
LEMMA DecodedStep ==
    ASSUME AdapterTypes, NEW a \in Serial, DecodedEventLoop(a)
    PROVE  LoopTypes' /\ SerialTypes' /\ UNCHANGED <<hostApi, comp, outcome, command>>
<1>1. a \in Instances /\ LoopTypes /\ SerialTypes
  BY Zenon DEF Instances, AdapterTypes
<1>2. <<"other">> \in Seq(Events) /\ <<"other">> # <<>> /\ TRUE \in BOOLEAN /\ FALSE \in BOOLEAN
  BY DEF Events
<1>3. \A es \in FrameEvents : es \in Seq(Events)
  <2>1. <<"observation">> \in Seq(Events) /\ <<"other", "observation">> \in Seq(Events) /\ <<>> \in Seq(Events)
    BY DEF Events
  <2>2. QED
    BY <1>2, <2>1, Zenon DEF FrameEvents
<1>4. CASE LoopBytes(a)
  <2>1. LoopTypes'
    <3>1. \E es \in Seq(Events), last \in BOOLEAN : (last => es # <<>>) /\ Sends(a, es, last)
      BY <1>2, <1>3, <1>4, Zenon DEF LoopBytes
    <3>2. events' = events
      BY <1>4, Zenon DEF LoopBytes
    <3>3. QED
      BY <1>1, <3>1, <3>2, SendsTyped, Zenon
  <2>2. SerialTypes'
    <3>1. /\ bytes \in [Serial -> Seq({"data", "failed"})] /\ \A b \in Serial : Len(bytes[b]) <= BytesCap
          /\ bytes[a] # <<>> /\ bytes' = [bytes EXCEPT ![a] = Tail(bytes[a])]
          /\ UNCHANGED <<reader, retries>>
      BY <1>1, <1>4, Zenon DEF LoopBytes, SerialTypes, SerialTypeOK
    <3>2. PICK s \in Seq({"data", "failed"}) : s = Tail(bytes[a]) /\ Len(s) <= BytesCap
      <4>1. bytes[a] \in Seq({"data", "failed"}) /\ Len(bytes[a]) <= BytesCap
        BY <3>1, Zenon
      <4>2. /\ Tail(bytes[a]) \in Seq({"data", "failed"})
            /\ Len(Tail(bytes[a])) = Len(bytes[a]) - 1 /\ Len(bytes[a]) \in Nat \ {0}
        BY <3>1, <4>1, TailFacts, Zenon
      <4>3. \A n \in Nat : n <= BytesCap => n - 1 <= BytesCap
        BY SerialAssumption
      <4>4. QED
        BY <4>1, <4>2, <4>3, Zenon
    <3>3. bytes' = [bytes EXCEPT ![a] = s]
      BY <3>1, <3>2, Zenon
    <3>4. bytes' \in [Serial -> Seq({"data", "failed"})] /\ \A b \in Serial : Len(bytes'[b]) <= BytesCap
      BY <3>1, <3>2, <3>3, Zenon
    <3>5. QED
      BY <1>1, <3>1, <3>4, Zenon DEF SerialTypes, SerialTypeOK
  <2>3. QED
    BY <1>4, <2>1, <2>2, Zenon DEF LoopBytes
<1>5. CASE LoopReaderGone(a)
  <2>1. Sends(a, <<"other">>, TRUE) /\ events' = events
    BY <1>5, Zenon DEF LoopReaderGone
  <2>2. LoopTypes'
    BY <1>1, <1>2, <2>1, SendsTyped, Zenon
  <2>3. SerialTypes'
    BY <1>1, <1>5, Zenon DEF LoopReaderGone, serialVars, SerialTypes, SerialTypeOK
  <2>4. QED
    BY <1>5, <2>2, <2>3, Zenon DEF LoopReaderGone
<1>6. CASE Emit(a) /\ UNCHANGED serialVars
  <2>1. SerialTypes'
    BY <1>1, <1>6, Zenon DEF serialVars, SerialTypes, SerialTypeOK
  <2>2. QED
    BY <1>1, <1>6, <2>1, EmitStep, Zenon
<1>7. QED
  BY <1>4, <1>5, <1>6, Zenon DEF DecodedEventLoop

\* polling_loop
LEMMA PollingStep ==
    ASSUME AdapterTypes, CyclesTyped, NEW a \in Polling, PollingLoop(a)
    PROVE  LoopTypes' /\ PollingTypeOK' /\ UNCHANGED <<hostApi, comp, outcome, command>>
<1>1. a \in Instances /\ LoopTypes /\ target \in [Polling -> [Targets -> TargetStates]]
  BY Zenon DEF Instances, AdapterTypes, PollingTypeOK
<1>2. <<"other">> \in Seq(Events) /\ <<"other">> # <<>> /\ <<>> \in Seq(Events)
          /\ TRUE \in BOOLEAN /\ FALSE \in BOOLEAN
  BY DEF Events
<1>3. ASSUME NEW probe, Cycle(a, probe), UNCHANGED events
      PROVE  LoopTypes' /\ PollingTypeOK'
  <2>1. PICK os \in [Targets -> UNION {PollOutcomes(target[a][i]) : i \in Targets}] :
            /\ \A i \in Targets : os[i] \in PollOutcomes(target[a][i])
            /\ target' = [target EXCEPT ![a] = [i \in Targets |-> Applied(target[a][i], os[i])]]
            /\ Sends(a, CycleEvents(target[a], os)
                            \o (IF probe /\ AllFailed(os) THEN <<"other">> ELSE <<>>), FALSE)
    BY <1>3, Zenon DEF Cycle
  <2>2. \A i \in Targets : target[a][i] \in TargetStates
    BY <1>1, Zenon
  <2>3. \A i \in Targets : /\ Applied(target[a][i], os[i]) \in TargetStates
                           /\ AppliedEvents(target[a][i], os[i]) \in Seq(Events)
    BY <2>1, <2>2, AppliedTyped, Zenon
  <2>4. [i \in Targets |-> Applied(target[a][i], os[i])] \in [Targets -> TargetStates]
    BY <2>3, Zenon
  <2>5. PollingTypeOK'
    <3>1. PICK t \in [Targets -> TargetStates] : target' = [target EXCEPT ![a] = t]
      BY <2>1, <2>4, Zenon
    <3>2. QED
      BY <1>1, <3>1, Zenon DEF PollingTypeOK
  <2>6. CycleEvents(target[a], os) \in Seq(Events)
    BY <2>3, Zenon DEF CyclesTyped
  <2>7. PICK tail \in Seq(Events) : tail = IF probe /\ AllFailed(os) THEN <<"other">> ELSE <<>>
    BY <1>2, Zenon
  <2>8. \A p, q \in Seq(Events) : p \o q \in Seq(Events)
    OBVIOUS
  <2>9. PICK es \in Seq(Events) : Sends(a, es, FALSE)
    BY <2>1, <2>6, <2>7, <2>8, Zenon
  <2>10. LoopTypes'
    BY <1>1, <1>2, <1>3, <2>9, SendsTyped, Zenon
  <2>11. QED
    BY <2>5, <2>10, Zenon
<1>4. ASSUME CycleLost(a), UNCHANGED events
      PROVE  LoopTypes' /\ PollingTypeOK'
  <2>1. LoopTypes'
    BY <1>1, <1>2, <1>4, SendsTyped, Zenon DEF CycleLost
  <2>2. PollingTypeOK'
    BY <1>1, <1>4, Zenon DEF CycleLost, PollingTypeOK
  <2>3. QED
    BY <2>1, <2>2, Zenon
<1>5. CASE StartupProbe(a) \/ PollTick(a)
  BY <1>3, <1>4, <1>5, Zenon DEF StartupProbe, PollTick
<1>6. CASE Emit(a) /\ UNCHANGED target
  <2>1. PollingTypeOK'
    BY <1>1, <1>6, Zenon DEF PollingTypeOK
  <2>2. QED
    BY <1>1, <1>6, <2>1, EmitStep, Zenon
<1>7. QED
  BY <1>5, <1>6, Zenon DEF PollingLoop

\* The composition ends and drops its receiver.
LEMMA CompEndsStep ==
    ASSUME AdapterTypes, NEW a \in Instances, NEW why \in Completions, comp[a] = "run",
           CompEnds(a, why), UNCHANGED <<stop, completion, ingest, command, loop, out>>
    PROVE  /\ LoopTypes'
           /\ comp' \in [Instances -> CompStates] /\ outcome' \in [Instances -> Completions]
           /\ \A b \in Instances : comp[b] \in {"none", "done"} => comp'[b] = comp[b]
           /\ \A b \in Instances : (completion[b] # "none" => comp[b] = "done")
                                      => (completion'[b] # "none" => comp'[b] = "done")
<1>1. LoopTypes /\ comp \in [Instances -> CompStates] /\ outcome \in [Instances -> Completions]
  BY Zenon DEF AdapterTypes, HostTypes
<1>2. <<>> \in Seq(Events) /\ Len(<<>>) <= EventCap
  BY InputAdaptersAssumption
<1>3. LoopTypes'
  BY <1>1, <1>2, EventsTyped, Zenon DEF CompEnds
<1>4. comp' = [comp EXCEPT ![a] = "ended"] /\ outcome' = [outcome EXCEPT ![a] = why]
  BY Zenon DEF CompEnds
<1>5. comp' \in [Instances -> CompStates] /\ outcome' \in [Instances -> Completions]
  BY <1>1, <1>4, Zenon DEF CompStates
<1>6. \A b \in Instances \ {a} : comp'[b] = comp[b]
  BY <1>1, <1>4, Zenon
<1>7. QED
  BY <1>3, <1>5, <1>6, Zenon

\* A reading that is observed: the decode is noted; the adapter may end.
LEMMA ObserveStep ==
    ASSUME AdapterTypes, NEW a \in Instances, comp[a] = "run", Observe(a),
           events[a] # <<>> \/ a \in Sample
    PROVE  HostTypes' /\ LoopTypes' /\ RunEffect
<1>1. LoopTypes /\ HostTypes /\ "unexpected" \in Completions
  BY Zenon DEF AdapterTypes, Completions
<1>2. /\ activity' = [activity EXCEPT ![a].decode = "new"]
      /\ UNCHANGED <<stop, completion, ingest, loop, out, command>>
  BY Zenon DEF Observe
<1>3. /\ activity' \in [Instances -> Activities]
      /\ \A b \in Instances : activity'[b].decode = "none" => activity[b].decode = "none"
      /\ \A b \in Instances : activity'[b].iface = activity[b].iface
  <2>1. PICK r : r = [activity[a] EXCEPT !.decode = "new"]
    BY Zenon
  <2>2. activity \in [Instances -> Activities] /\ activity[a] \in Activities
    BY <1>1, Zenon DEF HostTypes
  <2>3. r \in Activities /\ r.decode # "none" /\ r.iface = activity[a].iface
    BY <2>1, <2>2, Zenon DEF Activities
  <2>4. activity' = [activity EXCEPT ![a] = r]
    BY <1>2, <2>1, Zenon
  <2>5. QED
    BY <2>2, <2>3, <2>4, Zenon
<1>4. \A b \in Polling : b \in Instances
  BY Zenon DEF Instances
<1>5. CASE UNCHANGED <<comp, outcome>> /\ events' = [events EXCEPT ![a] = IF @ = <<>> THEN @ ELSE Tail(@)]
  <2>1. PICK es \in Seq(Events) :
            Len(es) <= EventCap /\ es = IF events[a] = <<>> THEN events[a] ELSE Tail(events[a])
    <3>1. events[a] \in Seq(Events) /\ Len(events[a]) <= EventCap
      BY <1>1, Zenon DEF LoopTypes
    <3>2. CASE events[a] = <<>>
      BY <3>1, <3>2, Zenon
    <3>3. CASE events[a] # <<>>
      <4>1. /\ Tail(events[a]) \in Seq(Events) /\ Len(Tail(events[a])) = Len(events[a]) - 1
            /\ Len(events[a]) \in Nat \ {0}
        BY <3>1, <3>3, TailFacts, Zenon
      <4>2. \A n \in Nat : n <= EventCap => n - 1 <= EventCap
        BY InputAdaptersAssumption
      <4>3. Len(Tail(events[a])) <= EventCap
        BY <3>1, <4>1, <4>2, Zenon
      <4>4. QED
        BY <3>3, <4>1, <4>3, Zenon
    <3>4. QED
      BY <3>2, <3>3, Zenon
  <2>2. events' = [events EXCEPT ![a] = es]
    BY <1>5, <2>1, Zenon
  <2>3. LoopTypes'
    BY <1>1, <1>2, <2>1, <2>2, EventsTyped, Zenon
  <2>4. HostTypes'
    BY <1>1, <1>2, <1>3, <1>5, Zenon DEF HostTypes
  <2>5. RunEffect
    BY <1>2, <1>3, <1>4, <1>5, Zenon DEF RunEffect
  <2>6. QED
    BY <2>3, <2>4, <2>5, Zenon
<1>6. CASE CompEnds(a, "unexpected")
  <2>1. /\ LoopTypes'
        /\ comp' \in [Instances -> CompStates] /\ outcome' \in [Instances -> Completions]
        /\ \A b \in Instances : comp[b] \in {"none", "done"} => comp'[b] = comp[b]
        /\ \A b \in Instances : (completion[b] # "none" => comp[b] = "done")
                                   => (completion'[b] # "none" => comp'[b] = "done")
    BY <1>1, <1>2, <1>6, CompEndsStep, Zenon
  <2>2. HostTypes'
    BY <1>1, <1>2, <1>3, <2>1, Zenon DEF HostTypes
  <2>3. RunEffect
    BY <1>3, <1>4, <2>1, Zenon DEF RunEffect
  <2>4. QED
    BY <2>1, <2>2, <2>3, Zenon
<1>7. QED
  BY <1>5, <1>6, Zenon DEF Observe

\* The composition takes an event or a tick.
LEMMA CompositionStep ==
    ASSUME AdapterTypes, NEW a \in Instances, CompEvent(a) \/ SampleTick(a)
    PROVE  HostTypes' /\ LoopTypes' /\ RunEffect
<1>1. LoopTypes /\ HostTypes
  BY Zenon DEF AdapterTypes
<1>2. CASE Observe(a)
  BY <1>2, ObserveStep, Zenon DEF CompEvent, SampleTick
<1>3. CASE ~Observe(a)
  <2>1. /\ events[a] # <<>> /\ events' = [events EXCEPT ![a] = Tail(events[a])]
        /\ UNCHANGED <<hostApi, comp, outcome, loop, out, command>>
    BY <1>3, Zenon DEF CompEvent, SampleTick
  <2>2. PICK es \in Seq(Events) : Len(es) <= EventCap /\ es = Tail(events[a])
    <3>1. events[a] \in Seq(Events) /\ Len(events[a]) <= EventCap
      BY <1>1, Zenon DEF LoopTypes
    <3>2. /\ Tail(events[a]) \in Seq(Events) /\ Len(Tail(events[a])) = Len(events[a]) - 1
          /\ Len(events[a]) \in Nat \ {0}
      BY <2>1, <3>1, TailFacts, Zenon
    <3>3. \A n \in Nat : n <= EventCap => n - 1 <= EventCap
      BY InputAdaptersAssumption
    <3>4. QED
      BY <3>1, <3>2, <3>3, Zenon
  <2>3. LoopTypes'
    BY <1>1, <2>1, <2>2, EventsTyped, Zenon
  <2>4. HostTypes'
    BY <1>1, <2>1, Zenon DEF HostTypes, hostApi
  <2>5. RunEffect
    BY <2>1, NoEffect, Zenon DEF hostApi
  <2>6. QED
    BY <2>3, <2>4, <2>5, Zenon
<1>4. QED
  BY <1>2, <1>3, Zenon

\* The steps of an adapter's end
LEMMA FinishingStep ==
    ASSUME AdapterTypes, NEW a \in Instances, NEW readerDone,
           \/ CompStop(a) \/ CompWorkerReturned(a) \/ FinalShutdown(a)
           \/ FinalComplete(a, readerDone) \/ LoopStop(a)
    PROVE  HostTypes' /\ LoopTypes' /\ RunEffect
<1>1. LoopTypes /\ HostTypes /\ "unexpected" \in Completions /\ "requested" \in Completions
  BY Zenon DEF AdapterTypes, Completions
<1>2. CASE CompStop(a) \/ CompWorkerReturned(a)
  <2>1. /\ comp[a] = "run" /\ UNCHANGED <<hostApi, loop, out, command>>
        /\ \E why \in Completions : CompEnds(a, why)
    BY <1>1, <1>2, Zenon DEF CompStop, CompWorkerReturned
  <2>2. UNCHANGED <<activity, stop, completion, ingest, loop, out, command>>
    BY <2>1, Zenon DEF hostApi
  <2>3. /\ LoopTypes'
        /\ comp' \in [Instances -> CompStates] /\ outcome' \in [Instances -> Completions]
        /\ \A b \in Instances : comp[b] \in {"none", "done"} => comp'[b] = comp[b]
        /\ \A b \in Instances : (completion[b] # "none" => comp[b] = "done")
                                   => (completion'[b] # "none" => comp'[b] = "done")
    BY <2>1, <2>2, CompEndsStep, Zenon
  <2>4. HostTypes'
    BY <1>1, <2>2, <2>3, Zenon DEF HostTypes
  <2>5. RunEffect
    BY <2>2, <2>3, Zenon DEF RunEffect
  <2>6. QED
    BY <2>3, <2>4, <2>5, Zenon
<1>3. CASE FinalShutdown(a)
  <2>1. /\ comp[a] = "ended" /\ comp' = [comp EXCEPT ![a] = "joining"]
        /\ command' = [command EXCEPT ![a] = TRUE]
        /\ UNCHANGED <<activity, stop, completion, ingest, outcome, loop, out, events>>
    BY <1>3, Zenon DEF FinalShutdown, hostApi
  <2>2. comp' \in [Instances -> CompStates] /\ command' \in [Instances -> BOOLEAN]
    BY <1>1, <2>1, Zenon DEF HostTypes, CompStates
  <2>3. \A b \in Instances \ {a} : comp'[b] = comp[b]
    BY <1>1, <2>1, Zenon DEF HostTypes
  <2>4. HostTypes' /\ LoopTypes'
    BY <1>1, <2>1, <2>2, Zenon DEF HostTypes, LoopTypes
  <2>5. RunEffect
    BY <2>1, <2>3, Zenon DEF RunEffect
  <2>6. QED
    BY <2>4, <2>5, Zenon
<1>4. CASE FinalComplete(a, readerDone)
  <2>1. /\ comp[a] \in {"ended", "joining"} /\ comp' = [comp EXCEPT ![a] = "done"]
        /\ completion' = [completion EXCEPT ![a] = outcome[a]]
        /\ UNCHANGED <<activity, stop, ingest, outcome, command, loop, out, events>>
    BY <1>4, Zenon DEF FinalComplete, loopVars
  <2>2. comp' \in [Instances -> CompStates] /\ completion' \in [Instances -> Completions]
    BY <1>1, <2>1, Zenon DEF HostTypes, CompStates
  <2>3. comp'[a] = "done" /\ \A b \in Instances \ {a} : comp'[b] = comp[b] /\ completion'[b] = completion[b]
    BY <1>1, <2>1, Zenon DEF HostTypes
  <2>4. HostTypes' /\ LoopTypes'
    BY <1>1, <2>1, <2>2, Zenon DEF HostTypes, LoopTypes
  <2>5. RunEffect
    BY <2>1, <2>3, Zenon DEF RunEffect
  <2>6. QED
    BY <2>4, <2>5, Zenon
<1>5. CASE LoopStop(a)
  <2>1. LoopReturns(a) /\ UNCHANGED <<activity, stop, completion, ingest, comp, outcome, events, command>>
    BY <1>5, Zenon DEF LoopStop, hostApi
  <2>2. LoopTypes'
    BY <1>1, <2>1, ReturnsTyped, Zenon
  <2>3. HostTypes'
    BY <1>1, <2>1, Zenon DEF HostTypes
  <2>4. RunEffect
    BY <2>1, NoEffect, Zenon
  <2>5. QED
    BY <2>2, <2>3, <2>4, Zenon
<1>6. QED
  BY <1>2, <1>3, <1>4, <1>5, Zenon

\* Every step of a run keeps the types and has only the effect above.
LEMMA RunStep ==
    ASSUME AdapterTypes, CyclesTyped, NEW a \in Instances,
           \/ ReaderThread(a) \/ WorkerLoop(a) \/ Composition(a) \/ Finishing(a)
           \/ IngestClientEnds(a)
    PROVE  AdapterTypes' /\ RunEffect /\ UNCHANGED nodeVars
<1>1. HostTypes /\ LoopTypes /\ SerialTypes /\ PollingTypeOK
  BY Zenon DEF AdapterTypes
<1>2. CASE ReaderThread(a)
  <2>1. a \in Serial /\ Reader(a) /\ UNCHANGED <<target, nodeVars, loop, out, events>>
    BY <1>2, Zenon DEF ReaderThread, Reader, loopVars
  <2>2. HostTypes' /\ SerialTypes' /\ RunEffect
    BY <2>1, ReaderStep, Zenon
  <2>3. LoopTypes' /\ PollingTypeOK'
    BY <1>1, <2>1, Zenon DEF LoopTypes, PollingTypeOK
  <2>4. QED
    BY <2>1, <2>2, <2>3, Zenon DEF AdapterTypes
<1>3. ASSUME UNCHANGED <<hostApi, comp, outcome, command>>
      PROVE  HostTypes' /\ RunEffect
  <2>1. UNCHANGED <<activity, stop, completion, ingest, comp, outcome, command>>
    BY <1>3, Zenon DEF hostApi
  <2>2. HostTypes'
    BY <1>1, <2>1, Zenon DEF HostTypes
  <2>3. QED
    BY <2>1, <2>2, NoEffect, Zenon
<1>4. CASE WorkerLoop(a)
  <2>1. CASE a \in Serial /\ DecodedEventLoop(a) /\ UNCHANGED target
    <3>1. LoopTypes' /\ SerialTypes' /\ UNCHANGED <<hostApi, comp, outcome, command>>
      BY <2>1, DecodedStep, Zenon
    <3>2. PollingTypeOK'
      BY <1>1, <2>1, Zenon DEF PollingTypeOK
    <3>3. QED
      BY <1>3, <1>4, <3>1, <3>2, Zenon DEF WorkerLoop, AdapterTypes
  <2>2. CASE a \in Polling /\ PollingLoop(a) /\ UNCHANGED serialVars
    <3>1. LoopTypes' /\ PollingTypeOK' /\ UNCHANGED <<hostApi, comp, outcome, command>>
      BY <2>2, PollingStep, Zenon
    <3>2. SerialTypes'
      BY <1>1, <2>2, Zenon DEF SerialTypes, SerialTypeOK, serialVars
    <3>3. QED
      BY <1>3, <1>4, <3>1, <3>2, Zenon DEF WorkerLoop, AdapterTypes
  <2>3. QED
    BY <1>4, <2>1, <2>2, Zenon DEF WorkerLoop
<1>5. CASE Composition(a) \/ Finishing(a)
  <2>1. UNCHANGED <<serialVars, target, nodeVars>>
    BY <1>5, Zenon DEF Composition, Finishing
  <2>2. SerialTypes' /\ PollingTypeOK'
    BY <1>1, <2>1, Zenon DEF SerialTypes, SerialTypeOK, serialVars, PollingTypeOK
  <2>3. HostTypes' /\ LoopTypes' /\ RunEffect
    <3>1. CASE Composition(a)
      BY <3>1, CompositionStep, Zenon DEF Composition
    <3>2. CASE Finishing(a)
      <4>1. \E readerDone :
                \/ CompStop(a) \/ CompWorkerReturned(a) \/ FinalShutdown(a)
                \/ FinalComplete(a, readerDone) \/ LoopStop(a)
        BY <3>2, Zenon DEF Finishing
      <4>2. QED
        BY <4>1, FinishingStep, Zenon
    <3>3. QED
      BY <1>5, <3>1, <3>2, Zenon
  <2>4. QED
    BY <2>1, <2>2, <2>3, Zenon DEF AdapterTypes
<1>6. CASE IngestClientEnds(a)
  <2>1. /\ ingest' = [ingest EXCEPT ![a] = "closed"]
        /\ UNCHANGED <<activity, stop, completion, comp, outcome, loopVars, serialVars, target, nodeVars>>
    BY <1>6, Zenon DEF IngestClientEnds
  <2>2. HostTypes'
    BY <1>1, <2>1, Zenon DEF HostTypes, loopVars
  <2>3. LoopTypes' /\ SerialTypes' /\ PollingTypeOK'
    BY <1>1, <2>1, Zenon DEF LoopTypes, SerialTypes, SerialTypeOK, PollingTypeOK, loopVars, serialVars
  <2>4. RunEffect
    BY <2>1, NoEffect, Zenon
  <2>5. QED
    BY <2>1, <2>2, <2>3, <2>4, Zenon DEF AdapterTypes
<1>7. QED
  BY <1>2, <1>4, <1>5, <1>6, Zenon

\* A run that starts: nothing decoded, nothing completed, the composition at work
LEMMA StartedStep ==
    ASSUME AdapterTypes, NEW a \in Instances, Started(a)
    PROVE  /\ AdapterTypes'
           /\ activity' = [activity EXCEPT ![a] = NoActivity]
           /\ completion' = [completion EXCEPT ![a] = "none"]
           /\ comp' = [comp EXCEPT ![a] = "run"]
<1>1. HostTypes /\ LoopTypes /\ SerialTypes /\ PollingTypeOK
  BY Zenon DEF AdapterTypes
<1>2. PICK pc \in {"select", "probe", "done"} : StartTasks(a, pc)
  BY Zenon DEF Started, StartSerial, StartPolling
<1>3. HostTypes'
  <2>1. NoActivity \in Activities /\ "none" \in Completions /\ "run" \in CompStates
    BY Zenon DEF NoActivity, Activities, Completions, CompStates, Interfaces
  <2>2. QED
    BY <1>1, <1>2, <2>1, Zenon DEF HostTypes, StartTasks
<1>4. LoopTypes'
  <2>1. <<>> \in Seq(Events) /\ Len(<<>>) <= EventCap /\ pc \in LoopStates /\ pc \notin {"emit", "lastEmit"}
    BY InputAdaptersAssumption DEF LoopStates
  <2>2. /\ loop' = [loop EXCEPT ![a] = pc] /\ out' = [out EXCEPT ![a] = <<>>]
        /\ events' = [events EXCEPT ![a] = <<>>]
    BY <1>2, Zenon DEF StartTasks
  <2>3. QED
    BY <1>1, <2>1, <2>2, Zenon DEF LoopTypes
<1>5. SerialTypes'
  <2>1. CASE UNCHANGED serialVars
    BY <1>1, <2>1, Zenon DEF SerialTypes, SerialTypeOK, serialVars
  <2>2. CASE a \in Serial /\ StartSerial(a)
    <3>1. "open" \in ReaderStates /\ 0 \in 0 .. MaxRetries /\ <<>> \in Seq({"data", "failed"})
              /\ Len(<<>>) <= BytesCap
      BY SerialAssumption DEF ReaderStates
    <3>2. /\ reader' = [reader EXCEPT ![a] = "open"] /\ retries' = [retries EXCEPT ![a] = 0]
          /\ bytes' = [bytes EXCEPT ![a] = <<>>]
      BY <2>2, Zenon DEF StartSerial
    <3>3. QED
      BY <1>1, <3>1, <3>2, Zenon DEF SerialTypes, SerialTypeOK
  <2>3. QED
    BY <2>1, <2>2, Zenon DEF Started
<1>6. PollingTypeOK'
  <2>1. CASE UNCHANGED target
    BY <1>1, <2>1, Zenon DEF PollingTypeOK
  <2>2. CASE a \in Polling /\ StartPolling(a)
    <3>1. NewPending \in TargetStates
      <4>1. \A n \in 0 .. MaxDetectFailures, e \in BOOLEAN : Pending(n, e) \in TargetStates
        BY DEF TargetStates
      <4>2. 0 \in 0 .. MaxDetectFailures /\ FALSE \in BOOLEAN
        BY PollingAssumption
      <4>3. QED
        BY <4>1, <4>2, Zenon DEF NewPending
    <3>2. PICK t \in [Targets -> TargetStates] : target' = [target EXCEPT ![a] = t]
      BY <2>2, <3>1, Zenon DEF StartPolling
    <3>3. QED
      BY <1>1, <3>2, Zenon DEF PollingTypeOK
  <2>3. QED
    BY <2>1, <2>2, Zenon DEF Started
<1>7. QED
  BY <1>2, <1>3, <1>4, <1>5, <1>6, Zenon DEF AdapterTypes, StartTasks

----------------------------------------------------------------------------
(* Steps of a run keep the invariant                                       *)

\* The place of an instance is what these variables say.
LEMMA PlacedStays ==
    ASSUME NEW a, UNCHANGED <<health, stream, timers, faults, active, host, watch>>, Placed(a)
    PROVE  Placed(a)'
<1>1. InHost(a)' <=> InHost(a)
  BY Zenon DEF InHost
<1>2. QED
  BY <1>1, Zenon DEF Placed

\* What the node keeps about an instance survives the steps of the runs.
LEMMA RunKeeps ==
    ASSUME NodeInvariant, AdapterTypes', RunEffect, UNCHANGED nodeVars
    PROVE  NodeInvariant'
<1>1. UNCHANGED <<conf, main, host, stream, watch, active, gens, restarts, timers, pending,
                  exhausted, notices, faults, health, svc>>
  BY Zenon DEF nodeVars, supervision
<1>2. NodeTypes' /\ Placement'
  <2>1. NodeTypes'
    BY <1>1, Zenon DEF NodeInvariant, NodeTypes
  <2>2. \A a \in Instances : Placed(a) => Placed(a)'
    BY <1>1, PlacedStays, Zenon
  <2>3. exhausted' = exhausted /\ Exhausted' = Exhausted /\ (Once => Once')
    BY <1>1, Zenon DEF Exhausted, Once
  <2>4. Placement'
    BY <1>1, <2>2, <2>3, Zenon DEF NodeInvariant, Placement
  <2>5. QED
    BY <2>1, <2>4, Zenon
<1>3. Watches'
  <2>1. ASSUME NEW a \in Instances PROVE Mirrored(a)'
    <3>1. Mirrored(a) /\ (a \in Polling => activity'[a].iface = activity[a].iface)
      BY Zenon DEF NodeInvariant, Watches, RunEffect
    <3>2. QED
      BY <1>1, <3>1, Zenon DEF Mirrored, LastHost
  <2>2. ASSUME NEW i \in 1 .. Len(notices') PROVE Noticed(notices[i])'
    <3>1. i \in 1 .. Len(notices) /\ notices'[i] = notices[i]
      BY <1>1, Zenon
    <3>2. Noticed(notices[i]) /\ notices[i].adapter \in Instances
      <4>1. notices \in Seq(Notice)
        BY Zenon DEF NodeInvariant, NodeTypes
      <4>2. notices[i] \in Notice
        BY <3>1, <4>1
      <4>3. QED
        BY <3>1, <4>2, Zenon DEF NodeInvariant, Watches, Notice
    <3>3. QED
      BY <1>1, <3>1, <3>2, Zenon DEF Noticed, RunEffect
  <2>3. QED
    BY <2>1, <2>2, Zenon DEF Watches
<1>4. Ending'
  <2>1. ASSUME NEW a \in Instances PROVE Joined(a)'
    <3>1. Joined(a)
      BY Zenon DEF NodeInvariant, Ending
    <3>2. QED
      BY <1>1, <3>1, Zenon DEF Joined, RunEffect, InHost
  <2>2. QED
    BY <1>1, <2>1, Zenon DEF NodeInvariant, Ending, NothingToRun, NoFailure
<1>5. QED
  BY <1>2, <1>3, <1>4, Zenon DEF NodeInvariant

----------------------------------------------------------------------------
(* Steps of fn run that touch no adapter                                   *)

\* What such a step leaves alone
ControlFrame ==
    UNCHANGED <<activity, stop, completion, ingest, comp, outcome, loop, out, events, command,
                reader, retries, bytes, target, conf, host, stream, watch, active, gens,
                restarts, timers, pending, exhausted, notices, faults, health>>

\* The frame of the actions, spelled out
LEMMA FrameExpanded ==
    ASSUME UNCHANGED <<runs, conf, host, stream, watch, supervision, notices, faults, health>>
    PROVE  ControlFrame
  BY Zenon DEF ControlFrame, runs, adapterVars, hostApi, loopVars, serialVars, supervision

\* Unchanged runs keep their types.
LEMMA TypesStay ==
    ASSUME AdapterTypes,
           UNCHANGED <<activity, stop, completion, ingest, comp, outcome, loop, out, events, command,
                       reader, retries, bytes, target>>
    PROVE  AdapterTypes'
<1>1. HostTypes' /\ LoopTypes'
  BY Zenon DEF AdapterTypes, HostTypes, LoopTypes
<1>2. SerialTypes' /\ PollingTypeOK'
  BY Zenon DEF AdapterTypes, SerialTypes, SerialTypeOK, PollingTypeOK
<1>3. QED
  BY <1>1, <1>2, Zenon DEF AdapterTypes

\* A step of fn run to another of its states
LEMMA ControlKeeps ==
    ASSUME NodeInvariant, ControlFrame, main' \in MainStates, svc' \in Service,
           main # "restarted" \/ main' = main,
           main' \in Early => main \in Early,
           main' \in Supervising => main \in Supervising,
           main' \in {"loop", "restarted"} => \A a \in conf.adapters : health[a] # "none",
           main' \in {"restarted", "joinAdapter"} => host # <<>>,
           Ending'
    PROVE  NodeInvariant'
<1>1. AdapterTypes'
  BY TypesStay, Zenon DEF NodeInvariant, ControlFrame
<1>2. NodeTypes'
  BY Zenon DEF NodeInvariant, NodeTypes, ControlFrame
<1>3. Placement'
  <2>1. \A a \in Instances : Placed(a) => Placed(a)'
    BY PlacedStays, Zenon DEF ControlFrame
  <2>2. exhausted' = exhausted /\ Exhausted' = Exhausted /\ (Once => Once')
    BY Zenon DEF ControlFrame, Exhausted, Once
  <2>3. UNCHANGED <<conf, pending, timers, health, host>>
    BY Zenon DEF ControlFrame
  <2>4. QED
    BY <2>1, <2>2, <2>3, Zenon DEF NodeInvariant, Placement
<1>4. Watches'
  <2>1. UNCHANGED <<activity, watch, faults, gens, active, health, host, notices>>
    BY Zenon DEF ControlFrame
  <2>2. \A a \in Instances : Mirrored(a) => Mirrored(a)'
    BY <2>1, Zenon DEF Mirrored, LastHost
  <2>3. \A i \in 1 .. Len(notices) : Noticed(notices[i]) => Noticed(notices[i])'
    BY <2>1, Zenon DEF Noticed
  <2>4. QED
    BY <2>1, <2>2, <2>3, Zenon DEF NodeInvariant, Watches
<1>5. QED
  BY <1>1, <1>2, <1>3, <1>4, Zenon DEF NodeInvariant

\* The end of the runs is not disturbed by such a step, unless cleanup goes on.
LEMMA JoinedStays ==
    ASSUME NEW a, Joined(a), UNCHANGED <<completion, comp, watch, host>>,
           svc'.late = svc.late,
           main' \in {"cleanup", "joinAdapter"} =>
               main \in {"cleanup", "joinAdapter"} \/ (watch[a].on => InHost(a)),
           main' \in {"joinApi", "stopOutput"} /\ ~svc.late =>
               main \in {"joinApi", "stopOutput"} \/ ~watch[a].on,
           svc'.output = "stopped" /\ ~svc.late =>
               svc.output = "stopped" \/ comp[a] \in {"none", "done"}
    PROVE  Joined(a)'
<1>1. InHost(a)' <=> InHost(a)
  BY Zenon DEF InHost
<1>2. QED
  BY <1>1, Zenon DEF Joined

\* Every field of the services' record is of its type.
LEMMA ServiceFields ==
    ASSUME svc \in Service
    PROVE  /\ svc.apiRunning \in BOOLEAN /\ svc.apiFailed \in BOOLEAN /\ svc.late \in BOOLEAN
           /\ svc.output \in {"off", "running", "exited", "stopped"}
           /\ svc.collectorAlive \in BOOLEAN /\ svc.outputFailed \in BOOLEAN
  BY Zenon DEF Service

\* An early return: exit code 1
LEMMA FailsKeeps ==
    ASSUME NodeInvariant, ControlFrame, Fails, main \in Early
    PROVE  NodeInvariant'
<1>1. svc \in Service /\ Ending /\ conf' = conf /\ UNCHANGED <<completion, comp, watch, host>>
  BY Zenon DEF NodeInvariant, NodeTypes, ControlFrame
<1>2. /\ main' = "exited" /\ svc' \in Service /\ svc'.exitOk = FALSE
      /\ svc'.late = svc.late /\ svc'.output = svc.output
  BY <1>1, Zenon DEF Fails, Service
<1>3. \A a \in Instances : Joined(a)'
  BY <1>1, <1>2, JoinedStays, Zenon DEF Ending
<1>4. Ending'
  BY <1>2, <1>3, Zenon DEF Ending, Cleaning
<1>5. main' \in MainStates /\ main' \notin Supervising /\ main' \notin Early /\ main # "restarted"
  BY <1>2, Zenon DEF MainStates, Supervising, Early
<1>6. QED
  BY <1>2, <1>4, <1>5, ControlKeeps, Zenon

\* Startup, up to the first adapter
LEMMA EarlyKeeps ==
    ASSUME NodeInvariant, PrepareOutput \/ SpawnApi \/ ReconcilePipelines
    PROVE  NodeInvariant'
<1>1. ControlFrame /\ main \in Early
  BY FrameExpanded, Zenon DEF PrepareOutput, SpawnApi, ReconcilePipelines, Early
<1>2. svc \in Service /\ Ending /\ conf' = conf /\ UNCHANGED <<completion, comp, watch, host>>
  BY <1>1, Zenon DEF NodeInvariant, NodeTypes, ControlFrame
<1>3. CASE Fails
  BY <1>1, <1>3, FailsKeeps, Zenon
<1>4. CASE ~Fails
  <2>1. conf.api \in BOOLEAN
    BY NodeAssumption, Zenon DEF NodeInvariant, NodeTypes
  <2>2. /\ main' \in {"api", "reconcile", "start"} /\ (main' \in {"api"} <=> main = "prepare")
        /\ main \in {"prepare", "api", "reconcile"}
        /\ main = "prepare" => main' = "api" /\ svc' = svc
        /\ main = "reconcile" => main' = "start" /\ svc' = svc
        /\ main = "api" =>
              /\ main' = "reconcile"
              /\ svc' = IF conf.api THEN [svc EXCEPT !.api = "running", !.apiRunning = TRUE] ELSE svc
    BY <1>4, Zenon DEF PrepareOutput, SpawnApi, ReconcilePipelines
  <2>3. /\ svc' \in Service
        /\ svc'.late = svc.late /\ svc'.output = svc.output /\ svc'.apiFailed = svc.apiFailed
        /\ svc'.exitOk = svc.exitOk /\ svc'.signalled = svc.signalled
        /\ main = "api" /\ conf.api => svc'.apiRunning = TRUE
        /\ main # "api" \/ ~conf.api => svc'.apiRunning = svc.apiRunning
    BY <1>2, <2>2, ZenonT(40) DEF Service
  <2>4. \A a \in Instances : Joined(a)'
    BY <1>2, <2>2, <2>3, JoinedStays, Zenon DEF Ending
  <2>5. main' \notin {"prepare", "exited", "loop", "restarted"} /\ main' \notin Cleaning
    BY <2>2, Zenon DEF Cleaning
  <2>6. main' \notin {"prepare", "api", "exited"} /\ ~svc'.apiFailed => svc'.apiRunning = conf.api
    <3>1. svc.apiRunning \in BOOLEAN
      BY <1>2, ServiceFields, Zenon
    <3>2. CASE main = "api"
      <4>1. svc.apiRunning = FALSE
        BY <1>2, <3>1, <3>2, Zenon DEF Ending
      <4>2. QED
        BY <2>1, <2>3, <3>2, <4>1, Zenon
    <3>3. CASE main = "reconcile"
      BY <1>2, <2>2, <3>3, Zenon DEF Ending
    <3>4. CASE main = "prepare"
      BY <2>2, <3>4, Zenon
    <3>5. QED
      BY <2>2, <3>2, <3>3, <3>4, Zenon
  <2>7. ~svc'.apiFailed /\ (main' \in {"prepare", "api"} => ~svc'.apiRunning)
    BY <1>2, <2>2, <2>3, Zenon DEF Ending
  <2>8. svc'.output # "stopped"
    BY <1>2, <2>2, <2>3, Zenon DEF Ending
  <2>9. Ending'
    BY <1>2, <2>4, <2>5, <2>6, <2>7, <2>8, Zenon DEF Ending
  <2>10. main' \in MainStates /\ main' \in Supervising /\ (main' \in Early => main \in Early)
            /\ main \in Supervising /\ main # "restarted"
    BY <1>1, <2>2, Zenon DEF MainStates, Supervising, Early
  <2>11. QED
    BY <1>1, <2>2, <2>3, <2>5, <2>9, <2>10, ControlKeeps, Zenon
<1>5. QED
  BY <1>3, <1>4, Zenon

\* A task handle of the loop ends, or is heard of.
LEMMA TaskEndsKeeps ==
    ASSUME NodeInvariant, OnApiExit \/ ApiTaskEnds \/ OutputTaskEnds
    PROVE  NodeInvariant'
<1>1. ControlFrame /\ main' = main
  BY FrameExpanded, Zenon DEF OnApiExit, ApiTaskEnds, OutputTaskEnds, Hears
<1>2. svc \in Service /\ Ending /\ conf' = conf /\ UNCHANGED <<completion, comp, watch, host>>
  BY <1>1, Zenon DEF NodeInvariant, NodeTypes, ControlFrame
<1>3. /\ main \notin {"prepare", "api", "reconcile", "start", "exited"}
      /\ \/ svc' = [svc EXCEPT !.apiRunning = FALSE, !.apiFailed = TRUE]
         \/ svc' = [svc EXCEPT !.api = "exited"]
         \/ svc' = [svc EXCEPT !.output = "exited"]
  BY Zenon DEF OnApiExit, ApiTaskEnds, OutputTaskEnds, Hears, Alive, Selecting
<1>4. /\ svc' \in Service /\ svc'.late = svc.late /\ svc'.serviceOnly = svc.serviceOnly
      /\ svc'.signalled = svc.signalled /\ svc'.collectorAlive = svc.collectorAlive
      /\ svc'.outputFailed = svc.outputFailed
      /\ (svc'.output = "stopped" => svc.output = "stopped")
      /\ \/ svc'.apiFailed = TRUE
         \/ svc'.apiRunning = svc.apiRunning /\ svc'.apiFailed = svc.apiFailed
  BY <1>2, <1>3, ZenonT(40) DEF Service
<1>5. \A a \in Instances : Joined(a)'
  BY <1>1, <1>2, <1>4, JoinedStays, Zenon DEF Ending
<1>6. Ending'
  BY <1>1, <1>2, <1>3, <1>4, <1>5, Zenon DEF Ending, Cleaning, NoFailure, NothingToRun
<1>7. main \in MainStates
  BY Zenon DEF NodeInvariant, NodeTypes
<1>8. main \in {"restarted", "joinAdapter"} => host # <<>>
  BY Zenon DEF NodeInvariant, Placement
<1>9. main \in {"loop", "restarted"} => \A a \in conf.adapters : health[a] # "none"
  BY Zenon DEF NodeInvariant, Placement
<1>10. QED
  BY <1>1, <1>4, <1>6, <1>7, <1>8, <1>9, ControlKeeps, Zenon

----------------------------------------------------------------------------
(* Cleanup                                                                 *)

\* After the adapters: the API is stopped.
LEMMA StopApiKeeps ==
    ASSUME NodeInvariant, StopApi \/ JoinApi
    PROVE  NodeInvariant'
<1>1. /\ ControlFrame /\ main \in {"cleanup", "joinApi"} /\ main' \in {"joinApi", "stopOutput"}
      /\ main = "cleanup" => host = <<>>
  BY FrameExpanded, Zenon DEF StopApi, JoinApi
<1>2. svc \in Service /\ Ending /\ conf' = conf /\ UNCHANGED <<completion, comp, watch, host>>
  BY <1>1, Zenon DEF NodeInvariant, NodeTypes, ControlFrame
<1>3. svc' = svc \/ svc' = [svc EXCEPT !.apiAsked = svc.apiRunning]
  BY Zenon DEF StopApi, JoinApi
<1>4. /\ svc' \in Service /\ svc'.late = svc.late /\ svc'.signalled = svc.signalled
      /\ svc'.collectorAlive = svc.collectorAlive /\ svc'.outputFailed = svc.outputFailed
      /\ svc'.output = svc.output /\ svc'.apiRunning = svc.apiRunning /\ svc'.apiFailed = svc.apiFailed
  BY <1>2, <1>3, Zenon DEF Service
<1>5. ASSUME NEW a \in Instances PROVE Joined(a)'
  <2>1. Joined(a)
    BY <1>2, Zenon DEF Ending
  <2>2. host = <<>> => ~InHost(a)
    BY DEF InHost
  <2>3. main \in {"joinApi", "stopOutput"} \/ svc.late \/ ~watch[a].on
    BY <1>1, <2>1, <2>2, Zenon DEF Joined
  <2>4. QED
    BY <1>1, <1>2, <1>4, <2>1, <2>3, JoinedStays, Zenon
<1>6. Ending'
  BY <1>1, <1>2, <1>4, <1>5, Zenon DEF Ending, Cleaning, NoFailure, NothingToRun
<1>7. main' \in MainStates /\ main' \notin Supervising /\ main' \notin Early
          /\ main' \notin {"loop", "restarted", "joinAdapter"}
  BY <1>1, Zenon DEF MainStates, Supervising, Early
<1>8. QED
  BY <1>1, <1>4, <1>6, <1>7, ControlKeeps, Zenon

\* The process ends: the exit code tells of every failure.
LEMMA ExitKeeps ==
    ASSUME NodeInvariant, StopOutput \/ CleanupTimeout
    PROVE  NodeInvariant'
<1>1. ControlFrame /\ main \in Cleaning /\ main' = "exited" /\ (StopOutput => main = "stopOutput")
  BY FrameExpanded, Zenon DEF StopOutput, CleanupTimeout, Exits, Cleaning
<1>2. svc \in Service /\ Ending /\ conf' = conf /\ UNCHANGED <<completion, comp, watch, host>>
  BY <1>1, Zenon DEF NodeInvariant, NodeTypes, ControlFrame
<1>3. PICK flags :
          /\ svc' = [flags EXCEPT !.exitOk = flags.collectorAlive /\ ~flags.apiFailed
                                                 /\ ~flags.outputFailed /\ flags.cleaned]
          /\ \/ StopOutput /\ flags = [svc EXCEPT !.output = IF @ = "running" THEN "stopped" ELSE @]
             \/ flags = [svc EXCEPT !.cleaned = FALSE]
  BY Zenon DEF StopOutput, CleanupTimeout, Exits
<1>4. /\ flags \in Service /\ flags.late = svc.late /\ flags.signalled = svc.signalled
      /\ flags.collectorAlive = svc.collectorAlive /\ flags.outputFailed = svc.outputFailed
      /\ flags.apiFailed = svc.apiFailed
      /\ (flags.output = "stopped" => svc.output = "stopped" \/ StopOutput)
  BY <1>2, <1>3, Zenon DEF Service
<1>5. /\ svc' \in Service /\ svc'.late = svc.late /\ svc'.signalled = svc.signalled
      /\ svc'.output = flags.output
      /\ (svc'.exitOk => flags.collectorAlive /\ ~flags.apiFailed /\ ~flags.outputFailed)
  BY <1>3, <1>4, ZenonT(40) DEF Service
<1>6. ASSUME NEW a \in Instances PROVE Joined(a)'
  <2>1. Joined(a)
    BY <1>2, Zenon DEF Ending
  <2>2. StopOutput /\ ~svc.late => comp[a] \in {"none", "done"}
    BY <1>1, <2>1, Zenon DEF Joined
  <2>3. svc'.output = "stopped" /\ ~svc.late => svc.output = "stopped" \/ comp[a] \in {"none", "done"}
    BY <1>4, <1>5, <2>2, Zenon
  <2>4. QED
    BY <1>1, <1>2, <1>5, <2>1, <2>3, JoinedStays, Zenon
<1>7. svc'.exitOk => svc.signalled \/ NothingToRun
  BY <1>1, <1>2, <1>4, <1>5, Zenon DEF Ending, NoFailure
<1>8. NothingToRun' <=> NothingToRun
  BY <1>2, Zenon DEF NothingToRun
<1>9. Ending'
  BY <1>1, <1>5, <1>6, <1>7, <1>8, Zenon DEF Ending, Cleaning
<1>10. main' \in MainStates /\ main' \notin Supervising /\ main' \notin Early /\ main # "restarted"
  BY <1>1, Zenon DEF MainStates, Supervising, Early, Cleaning
<1>11. QED
  BY <1>1, <1>5, <1>9, <1>10, ControlKeeps, Zenon

\* The place of cleanup: nothing is supervised any more.
LEMMA CleanupPlacement ==
    ASSUME Placement, main' \in Cleaning, conf' = conf, exhausted' = exhausted, health' = health,
           Once', main' = "joinAdapter" => host' # <<>>
    PROVE  Placement'
<1>1. main' \notin Early /\ main' \notin Supervising /\ main' \notin {"loop", "restarted"}
          /\ (main' \in {"restarted", "joinAdapter"} => main' = "joinAdapter")
  BY Zenon DEF Early, Supervising, Cleaning
<1>2. Exhausted' = Exhausted
  BY Zenon DEF Exhausted
<1>3. QED
  BY <1>1, <1>2, Zenon DEF Placement

\* The watches do not change when nobody looks at the last of the host.
LEMMA WatchesStay ==
    ASSUME Watches, main # "restarted",
           UNCHANGED <<activity, watch, faults, gens, active, health>>,
           notices' = notices \/ notices' = <<>>
    PROVE  Watches'
<1>1. \A a \in Instances : Mirrored(a) => Mirrored(a)'
  BY Zenon DEF Mirrored
<1>2. CASE notices' = notices
  <2>1. \A i \in 1 .. Len(notices) : Noticed(notices[i]) => Noticed(notices[i])'
    BY <1>2, Zenon DEF Noticed
  <2>2. QED
    BY <1>1, <1>2, <2>1, Zenon DEF Watches
<1>3. CASE notices' = <<>>
  <2>1. \A i \in 1 .. Len(notices') : FALSE
    BY <1>3
  <2>2. QED
    BY <1>1, <2>1, Zenon DEF Watches
<1>4. QED
  BY <1>2, <1>3, Zenon

\* An adapter is asked to stop, and stays in the list until it is joined.
LEMMA StopAdapterKeeps ==
    ASSUME NodeInvariant, StopAdapter
    PROVE  NodeInvariant'
<1>1. /\ main = "cleanup" /\ main' = "joinAdapter" /\ host # <<>>
      /\ stop' = [stop EXCEPT ![LastHost] = TRUE]
      /\ stream' = [stream EXCEPT ![LastHost] = "none"]
      /\ UNCHANGED <<activity, completion, ingest, comp, outcome, loop, out, events, command, reader,
                     retries, bytes, target, conf, host, watch, active, gens, restarts, timers,
                     pending, exhausted, notices, faults, health, svc>>
  BY Zenon DEF StopAdapter, loopVars, serialVars, supervision
<1>2. AdapterTypes /\ NodeTypes /\ Placement /\ Watches /\ Ending
  BY Zenon DEF NodeInvariant
<1>3. AdapterTypes'
  <2>1. HostTypes'
    BY <1>1, <1>2, Zenon DEF AdapterTypes, HostTypes
  <2>2. LoopTypes' /\ SerialTypes' /\ PollingTypeOK'
    BY <1>1, <1>2, Zenon DEF AdapterTypes, LoopTypes, SerialTypes, SerialTypeOK, PollingTypeOK
  <2>3. QED
    BY <2>1, <2>2, Zenon DEF AdapterTypes
<1>4. NodeTypes'
  <2>1. stream' \in [Instances -> {"none", "open", "closed"}] /\ main' \in MainStates
    BY <1>1, <1>2, Zenon DEF NodeTypes, MainStates
  <2>2. QED
    BY <1>1, <1>2, <2>1, Zenon DEF NodeTypes
<1>5. Placement'
  <2>1. Once' /\ main' \in Cleaning
    BY <1>1, <1>2, Zenon DEF Placement, Once, Cleaning
  <2>2. QED
    BY <1>1, <1>2, <2>1, CleanupPlacement, Zenon
<1>6. Watches'
  BY <1>1, <1>2, WatchesStay, Zenon
<1>7. Ending'
  <2>1. ASSUME NEW a \in Instances PROVE Joined(a)'
    <3>1. Joined(a)
      BY <1>2, Zenon DEF Ending
    <3>2. QED
      BY <1>1, <3>1, JoinedStays, Zenon
  <2>2. QED
    BY <1>1, <1>2, <2>1, Zenon DEF Ending, Cleaning, NoFailure, NothingToRun
<1>8. QED
  BY <1>3, <1>4, <1>5, <1>6, <1>7, Zenon DEF NodeInvariant

\* The last adapter of the list was joined, or cleanup gave it up.
LEMMA JoinAdapterKeeps ==
    ASSUME NodeInvariant, AdapterJoined \/ AdapterJoinTimeout
    PROVE  NodeInvariant'
<1>1. /\ main = "joinAdapter" /\ main' = "cleanup"
      /\ host' = SubSeq(host, 1, Len(host) - 1)
      /\ UNCHANGED <<activity, stop, completion, ingest, comp, outcome, loop, out, events, command,
                     reader, retries, bytes, target, conf, stream, watch, active, gens, restarts,
                     timers, pending, exhausted, notices, faults, health>>
      /\ \/ svc' = svc /\ ~watch[LastHost].on
         \/ svc' = [svc EXCEPT !.late = TRUE]
  BY Zenon DEF AdapterJoined, AdapterJoinTimeout, runs, adapterVars, hostApi, loopVars, serialVars,
               supervision
<1>2. AdapterTypes /\ NodeTypes /\ Placement /\ Watches /\ Ending /\ host # <<>>
  BY <1>1, Zenon DEF NodeInvariant, Placement
<1>3. /\ host' \in Seq(Instances) /\ Len(host') = Len(host) - 1 /\ Len(host) \in Nat \ {0}
      /\ \A i \in 1 .. Len(host) - 1 : host'[i] = host[i]
  <2>1. host \in Seq(Instances)
    BY <1>2, Zenon DEF NodeTypes
  <2>2. QED
    BY <1>1, <1>2, <2>1, FrontFacts, Zenon
<1>4. /\ svc' \in Service /\ svc'.signalled = svc.signalled
      /\ svc'.collectorAlive = svc.collectorAlive /\ svc'.outputFailed = svc.outputFailed
      /\ svc'.output = svc.output /\ svc'.apiRunning = svc.apiRunning /\ svc'.apiFailed = svc.apiFailed
      /\ (~svc'.late => ~svc.late /\ ~watch[LastHost].on)
  <2>1. svc \in Service
    BY <1>2, Zenon DEF NodeTypes
  <2>2. QED
    BY <1>1, <2>1, Zenon DEF Service
<1>5. AdapterTypes'
  BY <1>1, <1>2, TypesStay, Zenon
<1>6. NodeTypes'
  <2>1. main' \in MainStates
    BY <1>1, Zenon DEF MainStates
  <2>2. QED
    BY <1>1, <1>2, <1>3, <1>4, <2>1, Zenon DEF NodeTypes
<1>7. Placement'
  <2>1. Once'
    <3>1. \A i \in 1 .. Len(host') : i \in 1 .. Len(host) /\ host'[i] = host[i]
      BY <1>3
    <3>2. QED
      BY <1>2, <3>1, Zenon DEF Placement, Once
  <2>2. main' \in Cleaning /\ main' # "joinAdapter"
    BY <1>1, Zenon DEF Cleaning
  <2>3. QED
    BY <1>1, <1>2, <2>1, <2>2, CleanupPlacement, Zenon
<1>8. Watches'
  BY <1>1, <1>2, WatchesStay, Zenon
<1>9. Ending'
  <2>1. ASSUME NEW a \in Instances PROVE Joined(a)'
    <3>1. Joined(a)
      BY <1>2, Zenon DEF Ending
    <3>2. ASSUME ~svc'.late, watch'[a].on
          PROVE  InHost(a)'
      <4>1. PICK i \in 1 .. Len(host) : host[i] = a
        BY <1>1, <1>4, <3>1, <3>2, Zenon DEF Joined, InHost
      <4>2. a # LastHost
        BY <1>1, <1>4, <3>2, Zenon
      <4>3. i # Len(host)
        BY <4>1, <4>2, Zenon DEF LastHost
      <4>4. i \in 1 .. Len(host') /\ i \in 1 .. Len(host) - 1
        BY <1>3, <4>1, <4>3
      <4>5. host'[i] = a
        BY <1>3, <4>1, <4>4, Zenon
      <4>6. QED
        BY <4>4, <4>5, Zenon DEF InHost
    <3>3. main' \notin {"joinApi", "stopOutput"} /\ UNCHANGED <<completion, comp, watch>>
      BY <1>1, Zenon
    <3>4. QED
      BY <1>4, <3>1, <3>2, <3>3, Zenon DEF Joined
  <2>2. QED
    BY <1>1, <1>2, <1>4, <2>1, Zenon DEF Ending, Cleaning, NoFailure, NothingToRun
<1>10. QED
  BY <1>5, <1>6, <1>7, <1>8, <1>9, Zenon DEF NodeInvariant

----------------------------------------------------------------------------
(* Supervision                                                             *)

\* An instance that a step does not touch stays where it is.
LEMMA PlacedElsewhere ==
    ASSUME NEW b, Placed(b), health'[b] = health[b], stream'[b] = stream[b],
           faults'[b] = faults[b], active'[b] = active[b], watch'[b] = watch[b],
           b \in timers' <=> b \in timers, InHost(b)' <=> InHost(b)
    PROVE  Placed(b)'
  BY Zenon DEF Placed

\* What a notice says stays true: a generation is never reused.
StillNoticed(n) ==
    /\ n.gen <= gens'[n.adapter]
    /\ n.gen = active'[n.adapter] => activity'[n.adapter].decode # "none"

\* No step makes an earlier notice wrong.
LEMMA NoticesStay ==
    ASSUME NodeTypes, Watches,
           gens' \in [Instances -> 0 .. MaxGeneration], active' \in [Instances -> 0 .. MaxGeneration],
           \A b \in Instances : gens'[b] >= gens[b],
           \A b \in Instances :
              \/ active'[b] = active[b] /\ (activity'[b].decode = "none" => activity[b].decode = "none")
              \/ active'[b] = 0
              \/ active'[b] > gens[b]
    PROVE  \A i \in 1 .. Len(notices) : StillNoticed(notices[i])
<1> SUFFICES ASSUME NEW i \in 1 .. Len(notices) PROVE StillNoticed(notices[i])
  BY Zenon
<1>1. PICK n : n = notices[i]
  BY Zenon
<1>2. n \in Notice
  <2>1. notices \in Seq(Notice)
    BY Zenon DEF NodeTypes
  <2>2. QED
    BY <1>1, <2>1
<1>3. Noticed(n)
  BY <1>1, Zenon DEF Watches
<1>4. PICK b \in Instances : b = n.adapter
  BY <1>2, Zenon DEF Notice
<1>5. n.gen \in 1 .. MaxGeneration
  BY <1>2, Zenon DEF Notice
<1>6. gens[b] \in Nat /\ gens'[b] \in Nat /\ active[b] \in Nat /\ active'[b] \in Nat /\ MaxGeneration \in Nat
  BY NodeAssumption DEF NodeTypes
<1>7. n.gen <= gens[b] /\ (n.gen = active[b] => activity[b].decode # "none")
  BY <1>3, <1>4, Zenon DEF Noticed
<1>8. n.gen <= gens'[b]
  BY <1>5, <1>6, <1>7
<1>9. n.gen = active'[b] => activity'[b].decode # "none"
  <2>1. ~(n.gen = 0) /\ ~(n.gen > gens[b])
    BY <1>5, <1>6, <1>7
  <2>2. QED
    BY <1>7, <2>1, Zenon
<1>10. QED
  BY <1>1, <1>4, <1>8, <1>9, Zenon DEF StillNoticed

\* Then all that is noticed later is the notices that were sent since.
LEMMA NoticesCarried ==
    ASSUME \A i \in 1 .. Len(notices) : StillNoticed(notices[i]), notices' = notices
    PROVE  \A i \in 1 .. Len(notices') : Noticed(notices[i])'
  BY Zenon DEF StillNoticed, Noticed

\* AdapterHost::deregister takes the one adapter out of the list.
LEMMA DeregisteredFacts ==
    ASSUME host \in Seq(Instances), Once, NEW a \in Instances, Deregistered(a)
    PROVE  /\ host' \in Seq(Instances) /\ Once' /\ ~InHost(a)'
           /\ \A b \in Instances \ {a} : InHost(b)' <=> InHost(b)
<1>1. PICK k \in 1 .. Len(host) :
          host[k] = a /\ host' = SubSeq(host, 1, k - 1) \o SubSeq(host, k + 1, Len(host))
  BY Zenon DEF Deregistered
<1>2. PICK n \in Nat : n = Len(host)
  OBVIOUS
<1>3. /\ host' \in Seq(Instances) /\ Len(host') = n - 1
      /\ \A i \in 1 .. k - 1 : host'[i] = host[i]
      /\ \A i \in k .. n - 1 : host'[i] = host[i + 1]
  BY <1>1, <1>2, RemoveFacts, Zenon
<1>4. k \in 1 .. n
  BY <1>1, <1>2, Zenon
<1> DEFINE Old(i) == IF i < k THEN i ELSE i + 1
<1>5. ASSUME NEW i \in 1 .. n - 1
      PROVE  Old(i) \in 1 .. n /\ Old(i) # k /\ host'[i] = host[Old(i)]
  <2>1. CASE i < k
    <3>1. i \in 1 .. k - 1 /\ Old(i) = i /\ i \in 1 .. n /\ i # k
      BY <1>4, <2>1
    <3>2. QED
      BY <1>3, <3>1, Zenon
  <2>2. CASE ~(i < k)
    <3>1. i \in k .. n - 1 /\ Old(i) = i + 1 /\ i + 1 \in 1 .. n /\ i + 1 # k
      BY <1>4, <2>2
    <3>2. QED
      BY <1>3, <3>1, Zenon
  <2>3. QED
    BY <2>1, <2>2, Zenon
<1>6. \A i, j \in 1 .. n - 1 : Old(i) = Old(j) => i = j
  BY <1>4
<1>7. \A j \in 1 .. n : j # k => \E i \in 1 .. n - 1 : Old(i) = j
  <2> TAKE j \in 1 .. n
  <2> HAVE j # k
  <2>1. CASE j < k
    <3>1. j \in 1 .. n - 1 /\ Old(j) = j
      BY <1>4, <2>1
    <3>2. QED
      BY <3>1, Zenon
  <2>2. CASE ~(j < k)
    <3>1. j - 1 \in 1 .. n - 1 /\ Old(j - 1) = j
      BY <1>4, <2>2
    <3>2. QED
      BY <3>1, Zenon
  <2>3. QED
    BY <2>1, <2>2, Zenon
<1> HIDE DEF Old
<1>8. \A i, j \in 1 .. n : host[i] = host[j] => i = j
  BY <1>2, Zenon DEF Once
<1>9. Once'
  <2>1. ASSUME NEW i \in 1 .. n - 1, NEW j \in 1 .. n - 1, host'[i] = host'[j]
        PROVE  i = j
    <3>1. host[Old(i)] = host[Old(j)] /\ Old(i) \in 1 .. n /\ Old(j) \in 1 .. n
      BY <1>5, <2>1, Zenon
    <3>2. Old(i) = Old(j)
      BY <1>8, <3>1, Zenon
    <3>3. QED
      BY <1>6, <3>2, Zenon
  <2>2. QED
    BY <1>3, <2>1, Zenon DEF Once
<1>10. ~InHost(a)'
  <2>1. ASSUME NEW i \in 1 .. n - 1, host'[i] = a PROVE FALSE
    <3>1. host[Old(i)] = host[k] /\ Old(i) \in 1 .. n /\ Old(i) # k
      BY <1>1, <1>5, <2>1, Zenon
    <3>2. QED
      BY <1>4, <1>8, <3>1, Zenon
  <2>2. QED
    BY <1>3, <2>1, Zenon DEF InHost
<1>11. ASSUME NEW b \in Instances \ {a} PROVE InHost(b)' <=> InHost(b)
  <2>1. ASSUME InHost(b)' PROVE InHost(b)
    <3>1. PICK i \in 1 .. n - 1 : host'[i] = b
      BY <1>3, <2>1, Zenon DEF InHost
    <3>2. Old(i) \in 1 .. n /\ host[Old(i)] = b
      BY <1>5, <3>1, Zenon
    <3>3. QED
      BY <1>2, <3>2, Zenon DEF InHost
  <2>2. ASSUME InHost(b) PROVE InHost(b)'
    <3>1. PICK j \in 1 .. n : host[j] = b
      BY <1>2, <2>2, Zenon DEF InHost
    <3>2. j # k
      BY <1>1, <3>1, Zenon
    <3>3. PICK i \in 1 .. n - 1 : Old(i) = j
      BY <1>7, <3>2, Zenon
    <3>4. host'[i] = b
      BY <1>5, <3>1, <3>3, Zenon
    <3>5. QED
      BY <1>3, <3>4, Zenon DEF InHost
  <2>3. QED
    BY <2>1, <2>2, Zenon
<1>12. QED
  BY <1>3, <1>9, <1>10, <1>11, Zenon

\* A notice is taken: the run it is about is registered.
LEMMA NoticeKeeps ==
    ASSUME NodeInvariant, OnNotice
    PROVE  /\ NodeInvariant'
           /\ \A a \in Instances : restarts'[a] < restarts[a] =>
                  active[a] # 0 /\ activity[a].decode # "none"
<1>1. PICK n : n = Head(notices)
  BY Zenon
<1>2. /\ main = "loop" /\ notices # <<>> /\ notices' = Tail(notices)
      /\ UNCHANGED <<activity, stop, completion, ingest, comp, outcome, loop, out, events, command,
                     reader, retries, bytes, target, conf, main, host, stream, watch, active, gens,
                     timers, pending, exhausted, faults, svc>>
  BY Zenon DEF OnNotice, Selecting, runs, adapterVars, hostApi, loopVars, serialVars
<1>3. IF active[n.adapter] = n.gen
      THEN /\ restarts' = [restarts EXCEPT ![n.adapter] = 0]
           /\ health' = [health EXCEPT ![n.adapter] = "running"]
      ELSE UNCHANGED <<restarts, health>>
  BY <1>1, Zenon DEF OnNotice, NoticeIsCurrent
<1>4. AdapterTypes /\ NodeTypes /\ Placement /\ Watches /\ Ending /\ main \in Supervising
  BY <1>2, Zenon DEF NodeInvariant, Supervising
<1>5. /\ Len(Tail(notices)) = Len(notices) - 1 /\ Len(notices) \in Nat \ {0}
      /\ Tail(notices) \in Seq(Notice) /\ n \in Notice /\ n = notices[1]
      /\ \A i \in 1 .. Len(notices) - 1 : Tail(notices)[i] = notices[i + 1]
  <2>1. notices \in Seq(Notice)
    BY <1>4, Zenon DEF NodeTypes
  <2>2. QED
    BY <1>1, <1>2, <2>1, TailFacts, Zenon
<1>6. PICK x \in Instances : x = n.adapter
  BY <1>5, Zenon DEF Notice
<1>7. n.gen \in 1 .. MaxGeneration /\ n.gen # 0
  BY <1>5, NodeAssumption DEF Notice
<1>8. Noticed(n)
  <2>1. 1 \in 1 .. Len(notices)
    BY <1>5
  <2>2. QED
    BY <1>4, <1>5, <2>1, Zenon DEF Watches
<1>9. \/ /\ restarts' = [restarts EXCEPT ![x] = 0] /\ health' = [health EXCEPT ![x] = "running"]
         /\ active[x] # 0 /\ activity[x].decode # "none"
      \/ restarts' = restarts /\ health' = health
  BY <1>3, <1>6, <1>7, <1>8, Zenon DEF Noticed
<1>10. /\ restarts' \in [Instances -> 0 .. MaxRestarts] /\ health' \in [Instances -> Statuses]
       /\ \A b \in Instances : \/ restarts'[b] = restarts[b] /\ health'[b] = health[b]
                               \/ /\ health'[b] = "running" /\ active[b] # 0
                                  /\ activity[b].decode # "none"
  <2>1. /\ restarts \in [Instances -> 0 .. MaxRestarts] /\ health \in [Instances -> Statuses]
        /\ 0 \in 0 .. MaxRestarts /\ "running" \in Statuses
    BY <1>4, NodeAssumption DEF NodeTypes, Statuses
  <2>2. QED
    BY <1>9, <2>1, Zenon
<1>11. ASSUME NEW b \in Instances
       PROVE  /\ Placed(b) /\ Placed(b)' /\ (health'[b] = "none" <=> health[b] = "none")
              /\ (health'[b] = "exhausted" <=> health[b] = "exhausted")
  <2>1. Placed(b) /\ (InHost(b)' <=> InHost(b))
    BY <1>2, <1>4, Zenon DEF Placement, InHost
  <2>2. CASE health'[b] = health[b]
    BY <1>2, <2>1, <2>2, PlacedElsewhere, Zenon
  <2>3. CASE health'[b] = "running" /\ active[b] # 0
    <3>1. stream[b] # "none" /\ b \notin timers /\ health[b] # "none" /\ health[b] # "exhausted"
      BY <2>1, <2>3, Zenon DEF Placed
    <3>2. health'[b] # "none" /\ health'[b] # "exhausted"
      BY <2>3, Zenon
    <3>3. QED
      BY <1>2, <2>1, <3>1, <3>2, Zenon DEF Placed
  <2>4. QED
    BY <1>10, <2>2, <2>3, Zenon
<1>12. AdapterTypes' /\ NodeTypes'
  <2>1. AdapterTypes'
    BY <1>2, <1>4, TypesStay, Zenon
  <2>2. NodeTypes'
    BY <1>2, <1>4, <1>5, <1>10, Zenon DEF NodeTypes
  <2>3. QED
    BY <2>1, <2>2, Zenon
<1>13. Placement'
  <2>1. Exhausted' = Exhausted /\ Once'
    BY <1>2, <1>4, <1>11, Zenon DEF Exhausted, Once, Placement
  <2>2. main' \notin Early /\ main' # "restarted" /\ main' # "joinAdapter"
    BY <1>2, Zenon DEF Early
  <2>3. conf.adapters \subseteq Instances
    BY <1>4, NodeAssumption, Zenon DEF NodeTypes
  <2>4. /\ \A b \in Instances \ conf'.adapters : health'[b] = "none"
        /\ \A b \in conf'.adapters : health'[b] # "none"
    BY <1>2, <1>4, <1>11, <2>3, Zenon DEF Placement
  <2>5. pending' = Cardinality(timers') /\ exhausted' = Cardinality(Exhausted')
    BY <1>2, <1>4, <2>1, Zenon DEF Placement
  <2>6. QED
    BY <1>11, <2>1, <2>2, <2>4, <2>5, Zenon DEF Placement
<1>14. Watches'
  <2>1. ASSUME NEW b \in Instances PROVE Mirrored(b)'
    <3>1. Mirrored(b)
      BY <1>4, Zenon DEF Watches
    <3>2. QED
      BY <1>2, <1>11, <3>1, Zenon DEF Mirrored, LastHost
  <2>2. ASSUME NEW i \in 1 .. Len(notices') PROVE Noticed(notices[i])'
    <3>1. i \in 1 .. Len(notices) - 1 /\ i + 1 \in 1 .. Len(notices)
      <4>1. PICK m \in Nat : m = Len(notices)
        BY <1>5, Zenon
      <4>2. i \in 1 .. m - 1
        BY <1>2, <1>5, <4>1, Zenon
      <4>3. i + 1 \in 1 .. m
        BY <4>1, <4>2
      <4>4. QED
        BY <4>1, <4>2, <4>3, Zenon
    <3>2. notices'[i] = notices[i + 1]
      BY <1>2, <1>5, <3>1, Zenon
    <3>3. Noticed(notices[i + 1])
      BY <1>4, <3>1, Zenon DEF Watches
    <3>4. QED
      BY <1>2, <3>2, <3>3, Zenon DEF Noticed
  <2>3. QED
    BY <2>1, <2>2, Zenon DEF Watches
<1>15. Ending'
  <2>1. ASSUME NEW b \in Instances PROVE Joined(b)'
    <3>1. Joined(b)
      BY <1>4, Zenon DEF Ending
    <3>2. QED
      BY <1>2, <3>1, Zenon DEF Joined, InHost
  <2>2. QED
    BY <1>2, <1>4, <2>1, Zenon DEF Ending, NothingToRun, NoFailure
<1>16. \A a \in Instances : restarts'[a] < restarts[a] =>
           active[a] # 0 /\ activity[a].decode # "none"
  <2>1. \A a \in Instances : ~(restarts[a] < restarts[a])
    BY <1>4, NodeAssumption DEF NodeTypes
  <2>2. QED
    BY <1>10, <2>1, Zenon
<1>17. QED
  BY <1>12, <1>13, <1>14, <1>15, <1>16, Zenon DEF NodeInvariant

\* interface_opened, after a restart: the fault of the restarted adapter is cleared.
LEMMA AfterRestartKeeps ==
    ASSUME NodeInvariant, AfterRestart
    PROVE  NodeInvariant'
<1>1. /\ main = "restarted" /\ main' = "loop" /\ faults' = [faults EXCEPT ![LastHost] = FALSE]
      /\ UNCHANGED <<activity, stop, completion, ingest, comp, outcome, loop, out, events, command,
                     reader, retries, bytes, target, conf, host, stream, watch, active, gens,
                     restarts, timers, pending, exhausted, notices, health, svc>>
  BY Zenon DEF AfterRestart, runs, adapterVars, hostApi, loopVars, serialVars, supervision
<1>2. AdapterTypes /\ NodeTypes /\ Placement /\ Watches /\ Ending /\ main \in Supervising
  BY <1>1, Zenon DEF NodeInvariant, Supervising
<1>3. faults \in [Instances -> BOOLEAN]
  BY <1>2, Zenon DEF NodeTypes
<1>4. /\ faults' \in [Instances -> BOOLEAN]
      /\ \A b \in Instances : (faults'[b] => faults[b]) /\ (b = LastHost => ~faults'[b])
  BY <1>1, <1>3, Zenon
<1>5. AdapterTypes'
  BY <1>1, <1>2, TypesStay, Zenon
<1>6. NodeTypes'
  <2>1. main' \in MainStates
    BY <1>1, Zenon DEF MainStates
  <2>2. QED
    BY <1>1, <1>2, <1>4, <2>1, Zenon DEF NodeTypes
<1>7. Placement'
  <2>1. ASSUME NEW b \in Instances PROVE Placed(b)'
    <3>1. Placed(b) /\ (InHost(b)' <=> InHost(b))
      BY <1>1, <1>2, Zenon DEF Placement, InHost
    <3>2. QED
      BY <1>1, <1>4, <3>1, Zenon DEF Placed
  <2>2. main' \notin Early /\ main' \notin {"restarted", "joinAdapter"}
    BY <1>1, Zenon DEF Early
  <2>3. Exhausted' = Exhausted /\ Once'
    BY <1>1, <1>2, Zenon DEF Exhausted, Once, Placement
  <2>4. QED
    BY <1>1, <1>2, <2>1, <2>2, <2>3, Zenon DEF Placement
<1>8. Watches'
  <2>1. ASSUME NEW b \in Instances PROVE Mirrored(b)'
    <3>1. Mirrored(b)
      BY <1>2, Zenon DEF Watches
    <3>2. QED
      BY <1>1, <1>4, <3>1, Zenon DEF Mirrored
  <2>2. \A i \in 1 .. Len(notices) : Noticed(notices[i]) => Noticed(notices[i])'
    BY <1>1, Zenon DEF Noticed
  <2>3. QED
    BY <1>1, <1>2, <2>1, <2>2, Zenon DEF Watches
<1>9. Ending'
  <2>1. ASSUME NEW b \in Instances PROVE Joined(b)'
    <3>1. Joined(b)
      BY <1>2, Zenon DEF Ending
    <3>2. QED
      BY <1>1, <3>1, JoinedStays, Zenon
  <2>2. QED
    BY <1>1, <1>2, <2>1, Zenon DEF Ending, Cleaning, NothingToRun, NoFailure
<1>10. QED
  BY <1>5, <1>6, <1>7, <1>8, <1>9, Zenon DEF NodeInvariant

----------------------------------------------------------------------------
(* The tasks beside the loop                                               *)

\* A step that changes nothing of the supervision but a watch, a fault or a
\* stream, of an adapter that stays where it is
LEMMA WatchingKeeps ==
    ASSUME NodeInvariant, AdapterTypes', NodeTypes', Watches', Ending',
           main \in Supervising => \A b \in Instances : Placed(b)',
           UNCHANGED <<conf, main, host, active, gens, restarts, timers, pending, exhausted, health>>
    PROVE  NodeInvariant'
<1>1. Placement
  BY Zenon DEF NodeInvariant
<1>2. Exhausted' = Exhausted /\ Once'
  BY <1>1, Zenon DEF Exhausted, Once, Placement
<1>3. Placement'
  BY <1>1, <1>2, Zenon DEF Placement
<1>4. QED
  BY <1>3, Zenon DEF NodeInvariant

\* The end of a tick: the device fault follows the interface.
LEMMA MirrorKeeps ==
    ASSUME NodeInvariant, NEW a \in Instances, MirrorInterface(a)
    PROVE  NodeInvariant'
<1>1. /\ watch[a].due /\ watch' = [watch EXCEPT ![a].due = FALSE]
      /\ faults' = [faults EXCEPT ![a] = watch[a].iface = "failed"]
      /\ UNCHANGED <<activity, stop, completion, ingest, comp, outcome, loop, out, events, command,
                     reader, retries, bytes, target, conf, main, host, stream, active, gens,
                     restarts, timers, pending, exhausted, notices, health, svc>>
  BY Zenon DEF MirrorInterface, runs, adapterVars, hostApi, loopVars, serialVars, supervision
<1>2. AdapterTypes /\ NodeTypes /\ Placement /\ Watches /\ Ending
  BY Zenon DEF NodeInvariant
<1>3. watch \in [Instances -> Watch] /\ faults \in [Instances -> BOOLEAN]
  BY <1>2, Zenon DEF NodeTypes
<1>4. /\ watch' \in [Instances -> Watch] /\ watch'[a].due = FALSE /\ watch'[a].on = watch[a].on
      /\ watch'[a].gen = watch[a].gen /\ watch'[a].iface = watch[a].iface
      /\ \A b \in Instances \ {a} : watch'[b] = watch[b]
  BY <1>1, <1>3, Zenon DEF Watch
<1>5. /\ faults' \in [Instances -> BOOLEAN] /\ faults'[a] = (watch[a].iface = "failed")
      /\ \A b \in Instances \ {a} : faults'[b] = faults[b]
  BY <1>1, <1>3, Zenon
<1>6. Mirrored(a) /\ watch[a].on /\ a \notin Polling
  BY <1>1, <1>2, Zenon DEF Watches, Mirrored
<1>7. AdapterTypes'
  BY <1>1, <1>2, TypesStay, Zenon
<1>8. NodeTypes'
  BY <1>1, <1>2, <1>4, <1>5, Zenon DEF NodeTypes
<1>9. Watches'
  <2>1. ASSUME NEW b \in Instances PROVE Mirrored(b)'
    <3>1. Mirrored(b)
      BY <1>2, Zenon DEF Watches
    <3>2. CASE b = a
      <4>1. watch[a].iface = "open" => ~faults'[a]
        BY <1>5, Zenon
      <4>2. QED
        BY <1>1, <1>4, <1>6, <3>1, <3>2, <4>1, Zenon DEF Mirrored
    <3>3. CASE b # a
      <4>1. watch'[b] = watch[b] /\ faults'[b] = faults[b]
        BY <1>4, <1>5, <3>3, Zenon
      <4>2. QED
        BY <1>1, <3>1, <4>1, Zenon DEF Mirrored, LastHost
    <3>4. QED
      BY <3>2, <3>3, Zenon
  <2>2. \A i \in 1 .. Len(notices) : Noticed(notices[i]) => Noticed(notices[i])'
    BY <1>1, Zenon DEF Noticed
  <2>3. QED
    BY <1>1, <1>2, <2>1, <2>2, Zenon DEF Watches
<1>10. main \in Supervising => \A b \in Instances : Placed(b)'
  <2> SUFFICES ASSUME main \in Supervising, NEW b \in Instances PROVE Placed(b)'
    BY Zenon
  <2>1. Placed(b) /\ (InHost(b)' <=> InHost(b))
    BY <1>1, <1>2, Zenon DEF Placement, InHost
  <2>2. CASE b = a
    <3>1. stream[a] = "open" /\ health[a] # "none"
      <4>1. stream[a] = "open"
        BY <1>6, <2>1, <2>2, Zenon DEF Placed
      <4>2. stream[a] # "none"
        BY <4>1, Zenon
      <4>3. QED
        BY <2>1, <2>2, <4>1, <4>2, Zenon DEF Placed
    <3>2. QED
      BY <1>1, <1>4, <2>1, <2>2, <3>1, Zenon DEF Placed
  <2>3. CASE b # a
    <3>1. watch'[b] = watch[b] /\ faults'[b] = faults[b]
      BY <1>4, <1>5, <2>3, Zenon
    <3>2. QED
      BY <1>1, <2>1, <3>1, PlacedElsewhere, Zenon
  <2>4. QED
    BY <2>2, <2>3, Zenon
<1>11. Ending'
  <2>1. ASSUME NEW b \in Instances PROVE Joined(b)'
    <3>1. Joined(b) /\ watch'[b].on = watch[b].on /\ (InHost(b)' <=> InHost(b))
      BY <1>1, <1>2, <1>4, Zenon DEF Ending, InHost
    <3>2. QED
      BY <1>1, <3>1, Zenon DEF Joined
  <2>2. QED
    BY <1>1, <1>2, <2>1, Zenon DEF Ending, NothingToRun, NoFailure
<1>12. QED
  BY <1>1, <1>7, <1>8, <1>9, <1>10, <1>11, WatchingKeeps, Zenon

\* The join task: a run that completed is over, and its stream closes.
LEMMA JoinTaskKeeps ==
    ASSUME NodeInvariant, NEW a \in Instances, JoinTask(a)
    PROVE  NodeInvariant'
<1>1. /\ watch[a].on /\ completion[a] # "none" /\ watch' = [watch EXCEPT ![a] = NoWatch]
      /\ stream' = [stream EXCEPT ![a] = IF stream[a] = "open" THEN "closed" ELSE stream[a]]
      /\ UNCHANGED <<activity, stop, completion, ingest, comp, outcome, loop, out, events, command,
                     reader, retries, bytes, target, conf, main, host, active, gens,
                     restarts, timers, pending, exhausted, notices, faults, health, svc>>
  BY Zenon DEF JoinTask, runs, adapterVars, hostApi, loopVars, serialVars, supervision
<1>2. AdapterTypes /\ NodeTypes /\ Placement /\ Watches /\ Ending
  BY Zenon DEF NodeInvariant
<1>3. watch \in [Instances -> Watch] /\ stream \in [Instances -> {"none", "open", "closed"}]
  BY <1>2, Zenon DEF NodeTypes
<1>4. NoWatch \in Watch /\ NoWatch.on = FALSE /\ NoWatch.due = FALSE /\ NoWatch.iface = "unreported"
  BY NodeAssumption DEF NoWatch, Watch, Interfaces
<1>5. /\ watch' \in [Instances -> Watch] /\ watch'[a] = NoWatch
      /\ \A b \in Instances \ {a} : watch'[b] = watch[b]
  BY <1>1, <1>3, <1>4, Zenon
<1>6. /\ stream' \in [Instances -> {"none", "open", "closed"}]
      /\ stream[a] = "open" => stream'[a] = "closed"
      /\ \A b \in Instances \ {a} : stream'[b] = stream[b]
  BY <1>1, <1>3, Zenon
<1>7. AdapterTypes'
  BY <1>1, <1>2, TypesStay, Zenon
<1>8. NodeTypes'
  BY <1>1, <1>2, <1>5, <1>6, Zenon DEF NodeTypes
<1>9. Watches'
  <2>1. ASSUME NEW b \in Instances PROVE Mirrored(b)'
    <3>1. Mirrored(b)
      BY <1>2, Zenon DEF Watches
    <3>2. CASE b = a
      BY <1>1, <1>4, <1>5, <3>1, <3>2, Zenon DEF Mirrored
    <3>3. CASE b # a
      BY <1>1, <1>5, <3>1, <3>3, Zenon DEF Mirrored, LastHost
    <3>4. QED
      BY <3>2, <3>3, Zenon
  <2>2. \A i \in 1 .. Len(notices) : Noticed(notices[i]) => Noticed(notices[i])'
    BY <1>1, Zenon DEF Noticed
  <2>3. QED
    BY <1>1, <1>2, <2>1, <2>2, Zenon DEF Watches
<1>10. main \in Supervising => \A b \in Instances : Placed(b)'
  <2> SUFFICES ASSUME main \in Supervising, NEW b \in Instances PROVE Placed(b)'
    BY Zenon
  <2>1. Placed(b) /\ (InHost(b)' <=> InHost(b))
    BY <1>1, <1>2, Zenon DEF Placement, InHost
  <2>2. CASE b = a
    <3>1. stream[a] = "open"
      BY <1>1, <2>1, <2>2, Zenon DEF Placed
    <3>2. stream[a] # "none" /\ stream'[a] # "none" /\ stream'[a] # "open"
      BY <1>6, <3>1, Zenon
    <3>3. health[a] # "none" /\ health[a] # "exhausted" /\ a \notin timers /\ active[a] # 0 /\ InHost(a)
      BY <2>1, <2>2, <3>2, Zenon DEF Placed
    <3>4. QED
      BY <1>1, <1>4, <1>5, <2>1, <2>2, <3>2, <3>3, Zenon DEF Placed
  <2>3. CASE b # a
    <3>1. watch'[b] = watch[b] /\ stream'[b] = stream[b]
      BY <1>5, <1>6, <2>3, Zenon
    <3>2. QED
      BY <1>1, <2>1, <3>1, PlacedElsewhere, Zenon
  <2>4. QED
    BY <2>2, <2>3, Zenon
<1>11. Ending'
  <2>1. ASSUME NEW b \in Instances PROVE Joined(b)'
    <3>1. Joined(b) /\ (InHost(b)' <=> InHost(b)) /\ (watch'[b].on => watch[b].on)
      BY <1>1, <1>2, <1>4, <1>5, Zenon DEF Ending, InHost
    <3>2. ~watch'[b].on => comp[b] \in {"none", "done"}
      <4>1. CASE b = a
        BY <1>1, <3>1, <4>1, Zenon DEF Joined
      <4>2. CASE b # a
        BY <1>5, <3>1, <4>2, Zenon DEF Joined
      <4>3. QED
        BY <4>1, <4>2, Zenon
    <3>3. QED
      BY <1>1, <3>1, <3>2, Zenon DEF Joined
  <2>2. QED
    BY <1>1, <1>2, <2>1, Zenon DEF Ending, NothingToRun, NoFailure
<1>12. QED
  BY <1>1, <1>7, <1>8, <1>9, <1>10, <1>11, WatchingKeeps, Zenon

\* A tick of the activity task: a notice about the run it watches, and what it
\* will mirror.
LEMMA ActivityTickKeeps ==
    ASSUME NodeInvariant, NEW a \in Instances, ActivityTick(a)
    PROVE  NodeInvariant'
<1>1. /\ watch[a].on /\ ~watch[a].due
      /\ activity' = [activity EXCEPT ![a].decode = IF @ = "new" THEN "seen" ELSE @]
      /\ \/ notices' = notices
         \/ /\ activity[a].decode = "new"
            /\ notices' = Append(notices, [adapter |-> a, gen |-> watch[a].gen])
      /\ watch' = [watch EXCEPT ![a].iface = activity[a].iface,
                                ![a].due = activity[a].iface # watch[a].iface]
      /\ UNCHANGED <<stop, completion, ingest, comp, outcome, loop, out, events, command,
                     reader, retries, bytes, target, conf, main, host, stream, active, gens,
                     restarts, timers, pending, exhausted, faults, health, svc>>
  BY Zenon DEF ActivityTick, loopVars, serialVars, supervision
<1>2. AdapterTypes /\ NodeTypes /\ Placement /\ Watches /\ Ending
  BY Zenon DEF NodeInvariant
<1>3. /\ watch \in [Instances -> Watch] /\ activity \in [Instances -> Activities]
      /\ activity[a].iface \in Interfaces /\ gens \in [Instances -> 0 .. MaxGeneration]
  BY <1>2, Zenon DEF NodeTypes, AdapterTypes, HostTypes, Activities
<1>4. /\ watch' \in [Instances -> Watch] /\ watch'[a].on = watch[a].on
      /\ watch'[a].gen = watch[a].gen /\ watch'[a].iface = activity[a].iface
      /\ \A b \in Instances \ {a} : watch'[b] = watch[b]
  BY <1>1, <1>3, Zenon DEF Watch
<1>5. watch'[a].due = (activity[a].iface # watch[a].iface)
  BY <1>1, <1>3, Zenon DEF Watch
<1>6. /\ activity' \in [Instances -> Activities]
      /\ \A b \in Instances : /\ activity'[b].iface = activity[b].iface
                              /\ activity'[b].decode = "none" => activity[b].decode = "none"
      /\ activity[a].decode = "new" => activity'[a].decode = "seen"
  BY <1>1, <1>3, Zenon DEF Activities
<1>7. Mirrored(a) /\ watch[a].gen \in 1 .. gens[a]
  BY <1>1, <1>2, Zenon DEF Watches, Mirrored
<1>8. AdapterTypes'
  <2>1. HostTypes'
    BY <1>1, <1>2, <1>6, Zenon DEF AdapterTypes, HostTypes
  <2>2. LoopTypes' /\ SerialTypes' /\ PollingTypeOK'
    BY <1>1, <1>2, Zenon DEF AdapterTypes, LoopTypes, SerialTypes, SerialTypeOK, PollingTypeOK
  <2>3. QED
    BY <2>1, <2>2, Zenon DEF AdapterTypes
<1>9. PICK n \in Notice : n = [adapter |-> a, gen |-> watch[a].gen] /\ n.adapter = a /\ n.gen = watch[a].gen
  <2>1. watch[a].gen \in 1 .. MaxGeneration
    BY <1>3, <1>7, NodeAssumption
  <2>2. [adapter |-> a, gen |-> watch[a].gen] \in Notice
    BY <2>1, Zenon DEF Notice
  <2>3. QED
    BY <2>2, Zenon
<1>10. notices \in Seq(Notice)
  BY <1>2, Zenon DEF NodeTypes
<1>11. /\ notices' \in Seq(Notice)
       /\ \A i \in 1 .. Len(notices') :
             \/ i \in 1 .. Len(notices) /\ notices'[i] = notices[i]
             \/ notices'[i] = n /\ activity[a].decode = "new"
  <2>1. CASE notices' = notices
    BY <1>10, <2>1, Zenon
  <2>2. CASE activity[a].decode = "new" /\ notices' = Append(notices, n)
    <3>1. /\ Append(notices, n) \in Seq(Notice) /\ Len(Append(notices, n)) = Len(notices) + 1
          /\ Len(notices) \in Nat
          /\ \A i \in 1 .. Len(notices) : Append(notices, n)[i] = notices[i]
          /\ Append(notices, n)[Len(notices) + 1] = n
      BY <1>10, AppendFacts
    <3>2. \A m \in Nat : \A i \in 1 .. m + 1 : i \in 1 .. m \/ i = m + 1
      OBVIOUS
    <3>3. QED
      BY <2>2, <3>1, <3>2, Zenon
  <2>3. QED
    BY <1>1, <1>9, <2>1, <2>2, Zenon
<1>12. NodeTypes'
  BY <1>1, <1>2, <1>4, <1>11, Zenon DEF NodeTypes
<1>13. Watches'
  <2>1. ASSUME NEW b \in Instances PROVE Mirrored(b)'
    <3>1. Mirrored(b)
      BY <1>2, Zenon DEF Watches
    <3>2. CASE b = a
      <4>1. b \in Polling => activity'[b].iface = "unreported" /\ watch'[b].iface = "unreported"
                                 /\ ~watch'[b].due
        BY <1>4, <1>5, <1>6, <3>1, <3>2, Zenon DEF Mirrored
      <4>2. ~watch'[b].due /\ watch'[b].iface = "open" => ~faults'[b]
        BY <1>1, <1>4, <1>5, <3>1, <3>2, Zenon DEF Mirrored
      <4>3. QED
        BY <1>1, <1>4, <3>1, <3>2, <4>1, <4>2, Zenon DEF Mirrored, LastHost
    <3>3. CASE b # a
      BY <1>1, <1>4, <1>6, <3>1, <3>3, Zenon DEF Mirrored, LastHost
    <3>4. QED
      BY <3>2, <3>3, Zenon
  <2>2. \A i \in 1 .. Len(notices) : StillNoticed(notices[i])
    <3>1. /\ gens' \in [Instances -> 0 .. MaxGeneration] /\ \A b \in Instances : gens[b] >= gens[b]
          /\ active' \in [Instances -> 0 .. MaxGeneration]
      BY <1>1, <1>2, NodeAssumption DEF NodeTypes
    <3>2. \A b \in Instances : gens'[b] >= gens[b] /\ active'[b] = active[b]
      BY <1>1, <3>1, Zenon
    <3>3. QED
      BY <1>2, <1>6, <3>1, <3>2, NoticesStay, Zenon
  <2>3. StillNoticed(n) \/ activity[a].decode # "new"
    <3>1. watch[a].gen <= gens'[a]
      BY <1>1, <1>3, <1>7
    <3>2. "seen" # "none"
      BY Zenon
    <3>3. QED
      BY <1>6, <1>9, <3>1, <3>2, Zenon DEF StillNoticed
  <2>4. \A i \in 1 .. Len(notices') : StillNoticed(notices'[i])
    BY <1>11, <2>2, <2>3, Zenon
  <2>5. QED
    BY <2>1, <2>4, Zenon DEF Watches, StillNoticed, Noticed
<1>14. main \in Supervising => \A b \in Instances : Placed(b)'
  <2> SUFFICES ASSUME main \in Supervising, NEW b \in Instances PROVE Placed(b)'
    BY Zenon
  <2>1. Placed(b) /\ (InHost(b)' <=> InHost(b)) /\ watch'[b].on = watch[b].on
    BY <1>1, <1>2, <1>4, Zenon DEF Placement, InHost
  <2>2. QED
    BY <1>1, <2>1, Zenon DEF Placed
<1>15. Ending'
  <2>1. ASSUME NEW b \in Instances PROVE Joined(b)'
    <3>1. Joined(b) /\ watch'[b].on = watch[b].on /\ (InHost(b)' <=> InHost(b))
      BY <1>1, <1>2, <1>4, Zenon DEF Ending, InHost
    <3>2. QED
      BY <1>1, <3>1, Zenon DEF Joined
  <2>2. QED
    BY <1>1, <1>2, <2>1, Zenon DEF Ending, NothingToRun, NoFailure
<1>16. QED
  BY <1>1, <1>8, <1>12, <1>13, <1>14, <1>15, WatchingKeeps, Zenon

----------------------------------------------------------------------------
(* Starts and ends of runs                                                 *)

\* What tracker.next_delay and the loop do to the supervision of an adapter: the
\* counts stay exact, and it waits or is exhausted.
Delayed(a) ==
    /\ pending' = Cardinality(timers') /\ exhausted' = Cardinality(Exhausted')
    /\ timers' \in SUBSET Instances /\ pending' \in Nat /\ exhausted' \in Nat
    /\ restarts' \in [Instances -> 0 .. MaxRestarts] /\ health' \in [Instances -> Statuses]
    /\ \A b \in Instances \ {a} : health'[b] = health[b] /\ (b \in timers' <=> b \in timers)
    /\ \/ health'[a] = "restarting" /\ a \in timers'
       \/ health'[a] = "exhausted" /\ a \notin timers'

\* A start that failed: the adapter waits for its next restart, or is exhausted.
LEMMA StartFailedKeeps ==
    ASSUME NodeInvariant, main \in {"start", "loop"}, NEW a \in Instances, a \in conf.adapters,
           stream[a] = "none", health[a] # "exhausted", NEW n, StartFailed(a, n), Delayed(a),
           gens' \in [Instances -> 0 .. MaxGeneration], gens'[a] >= gens[a],
           \A b \in Instances \ {a} : gens'[b] = gens[b],
           UNCHANGED <<conf, main, notices, svc>>
    PROVE  NodeInvariant'
<1>1. AdapterTypes /\ NodeTypes /\ Placement /\ Watches /\ Ending /\ main \in Supervising
  BY Zenon DEF NodeInvariant, Supervising
<1>2. /\ faults' = [faults EXCEPT ![a] = TRUE]
      /\ UNCHANGED <<activity, stop, completion, ingest, comp, outcome, loop, out, events, command,
                     reader, retries, bytes, target, host, stream, watch, active>>
  BY Zenon DEF StartFailed, runs, adapterVars, hostApi, loopVars, serialVars
<1>3. /\ pending' = Cardinality(timers') /\ exhausted' = Cardinality(Exhausted')
      /\ timers' \in SUBSET Instances /\ pending' \in Nat /\ exhausted' \in Nat
      /\ restarts' \in [Instances -> 0 .. MaxRestarts] /\ health' \in [Instances -> Statuses]
      /\ \A b \in Instances \ {a} : health'[b] = health[b] /\ (b \in timers' <=> b \in timers)
      /\ \/ health'[a] = "restarting" /\ a \in timers'
         \/ health'[a] = "exhausted" /\ a \notin timers'
  BY Zenon DEF Delayed
<1>4. /\ faults' \in [Instances -> BOOLEAN] /\ faults'[a] = TRUE
      /\ \A b \in Instances \ {a} : faults'[b] = faults[b]
  BY <1>1, <1>2, Zenon DEF NodeTypes
<1>5. AdapterTypes'
  BY <1>1, <1>2, TypesStay, Zenon
<1>6. NodeTypes'
  BY <1>1, <1>2, <1>3, <1>4, Zenon DEF NodeTypes
<1>7. Placed(a) /\ ~watch[a].on
  BY <1>1, Zenon DEF Placement, Placed
<1>8. Placement'
  <2>1. \A b \in Instances : InHost(b)' <=> InHost(b)
    BY <1>2, Zenon DEF InHost
  <2>2. ASSUME NEW b \in Instances PROVE Placed(b)'
    <3>1. CASE b = a
      <4>1. health'[a] # "none" /\ (stream'[a] = "none") /\ (active'[a] = active[a]) /\ (watch'[a] = watch[a])
        BY <1>2, <1>3, Zenon
      <4>2. stream[a] # "none" <=> InHost(a)
        BY <1>7, Zenon DEF Placed
      <4>3. QED
        BY <1>2, <1>3, <1>7, <2>1, <3>1, <4>1, <4>2, Zenon DEF Placed
    <3>2. CASE b # a
      <4>1. Placed(b) /\ b \in Instances \ {a}
        BY <1>1, <3>2, Zenon DEF Placement
      <4>2. QED
        BY <1>2, <1>3, <1>4, <2>1, <4>1, PlacedElsewhere, Zenon
    <3>3. QED
      BY <3>1, <3>2, Zenon
  <2>3. \A b \in Instances \ conf.adapters : health'[b] = "none"
    BY <1>1, <1>3, Zenon DEF Placement
  <2>4. \A b \in Instances : health[b] # "none" => health'[b] # "none"
    BY <1>3, Zenon
  <2>5. conf.adapters \subseteq Instances
    BY <1>1, NodeAssumption, Zenon DEF NodeTypes
  <2>6. main \in {"loop", "restarted"} => \A b \in conf.adapters : health'[b] # "none"
    BY <1>1, <2>4, <2>5, Zenon DEF Placement
  <2>7. main \notin Early /\ main # "restarted" /\ main # "joinAdapter"
    BY Zenon DEF Early
  <2>8. Once'
    BY <1>1, <1>2, Zenon DEF Placement, Once
  <2>9. QED
    BY <1>3, <2>2, <2>3, <2>6, <2>7, <2>8, Zenon DEF Placement
<1>9. Watches'
  <2>1. ASSUME NEW b \in Instances PROVE Mirrored(b)'
    <3>1. Mirrored(b)
      BY <1>1, Zenon DEF Watches
    <3>2. CASE b = a
      <4>1. ~watch[a].on /\ ~watch[a].due /\ health'[a] # "none" /\ watch' = watch /\ activity' = activity
        BY <1>2, <1>3, <1>7, <3>1, <3>2, Zenon DEF Mirrored
      <4>2. active'[a] <= gens'[a]
        <5>1. active[a] \in Nat /\ gens[a] \in Nat /\ gens'[a] \in Nat /\ active[a] <= gens[a]
          BY <1>1, <3>1, <3>2 DEF NodeTypes, Mirrored
        <5>2. QED
          BY <1>2, <5>1
      <4>3. QED
        BY <3>1, <3>2, <4>1, <4>2, Zenon DEF Mirrored
    <3>3. CASE b # a
      <4>1. b \in Instances \ {a}
        BY <3>3, Zenon
      <4>2. /\ health'[b] = health[b] /\ faults'[b] = faults[b] /\ gens'[b] = gens[b]
            /\ UNCHANGED <<activity, watch, active, host, main>>
        BY <1>2, <1>3, <1>4, <4>1, Zenon
      <4>3. QED
        BY <3>1, <4>2, Zenon DEF Mirrored, LastHost
    <3>4. QED
      BY <3>2, <3>3, Zenon
  <2>2. \A i \in 1 .. Len(notices') : Noticed(notices[i])'
    <3>1. /\ active' = active /\ activity' = activity /\ notices' = notices
          /\ active \in [Instances -> 0 .. MaxGeneration]
      BY <1>1, <1>2, Zenon DEF NodeTypes
    <3>2. \A b \in Instances : gens'[b] >= gens[b]
      <4>1. \A b \in Instances : gens[b] >= gens[b]
        BY <1>1, NodeAssumption DEF NodeTypes
      <4>2. QED
        BY <4>1, Zenon
    <3>3. \A i \in 1 .. Len(notices) : StillNoticed(notices[i])
      BY <1>1, <3>1, <3>2, NoticesStay, Zenon
    <3>4. QED
      BY <3>1, <3>3, NoticesCarried, Zenon
  <2>3. QED
    BY <2>1, <2>2, Zenon DEF Watches
<1>10. Ending'
  <2>1. ASSUME NEW b \in Instances PROVE Joined(b)'
    <3>1. Joined(b)
      BY <1>1, Zenon DEF Ending
    <3>2. QED
      BY <1>2, <3>1, JoinedStays, Zenon
  <2>2. QED
    BY <1>1, <2>1, Zenon DEF Ending, NothingToRun, NoFailure
<1>11. QED
  BY <1>5, <1>6, <1>8, <1>9, <1>10, Zenon DEF NodeInvariant

\* A start that succeeded: a new generation, registered and watched.
LEMMA StartedKeeps ==
    ASSUME NodeInvariant, main \in {"start", "loop"}, NEW a \in Instances, a \in conf.adapters,
           stream[a] = "none", health[a] # "exhausted",
           NEW g \in 1 .. MaxGeneration, g > gens[a], Started(a), Registered(a, g),
           active' = [active EXCEPT ![a] = g], gens' = [gens EXCEPT ![a] = g],
           health' = [health EXCEPT ![a] = "running"],
           timers' = timers \ {a}, pending' = Cardinality(timers'), pending' \in Nat,
           (main' = main /\ ~faults[a]) \/ (main' = "restarted" /\ main = "loop"),
           UNCHANGED <<restarts, exhausted, faults, conf, notices, svc>>
    PROVE  NodeInvariant'
<1>1. AdapterTypes /\ NodeTypes /\ Placement /\ Watches /\ Ending /\ main \in Supervising
  BY Zenon DEF NodeInvariant, Supervising
<1>2. /\ AdapterTypes'
      /\ activity' = [activity EXCEPT ![a] = NoActivity]
      /\ completion' = [completion EXCEPT ![a] = "none"]
      /\ comp' = [comp EXCEPT ![a] = "run"]
  BY <1>1, StartedStep, Zenon
<1>3. PICK w \in Watch : /\ w = [on |-> TRUE, gen |-> g, iface |-> "unreported", due |-> FALSE]
                         /\ w.on = TRUE /\ w.due = FALSE /\ w.gen = g /\ w.iface = "unreported"
  <2>1. g \in 0 .. MaxGeneration /\ "unreported" \in Interfaces
    BY NodeAssumption DEF Interfaces
  <2>2. [on |-> TRUE, gen |-> g, iface |-> "unreported", due |-> FALSE] \in Watch
    BY <2>1, Zenon DEF Watch
  <2>3. QED
    BY <2>2, Zenon
<1>4. /\ host' = Append(host, a) /\ stream' = [stream EXCEPT ![a] = "open"]
      /\ watch' = [watch EXCEPT ![a] = w]
  BY <1>3, Zenon DEF Registered
<1>5. /\ stream' \in [Instances -> {"none", "open", "closed"}] /\ stream'[a] = "open"
      /\ watch' \in [Instances -> Watch] /\ watch'[a] = w
      /\ \A b \in Instances \ {a} : stream'[b] = stream[b] /\ watch'[b] = watch[b]
  BY <1>1, <1>3, <1>4, Zenon DEF NodeTypes
<1>6. /\ active' \in [Instances -> 0 .. MaxGeneration] /\ gens' \in [Instances -> 0 .. MaxGeneration]
      /\ active'[a] = g /\ gens'[a] = g
      /\ \A b \in Instances \ {a} : active'[b] = active[b] /\ gens'[b] = gens[b]
  BY <1>1 DEF NodeTypes
<1>7. /\ health' \in [Instances -> Statuses] /\ health'[a] = "running"
      /\ \A b \in Instances \ {a} : health'[b] = health[b]
  BY <1>1, Zenon DEF NodeTypes, Statuses
<1>8. /\ activity'[a] = NoActivity /\ completion'[a] = "none" /\ comp'[a] = "run"
      /\ \A b \in Instances \ {a} : /\ activity'[b] = activity[b] /\ completion'[b] = completion[b]
                                    /\ comp'[b] = comp[b]
  BY <1>1, <1>2, Zenon DEF AdapterTypes, HostTypes
<1>9. /\ host' \in Seq(Instances) /\ Len(host') = Len(host) + 1 /\ Len(host) \in Nat
      /\ \A i \in 1 .. Len(host) : host'[i] = host[i]
      /\ host'[Len(host) + 1] = a
  <2>1. host \in Seq(Instances)
    BY <1>1, Zenon DEF NodeTypes
  <2>2. /\ Append(host, a) \in Seq(Instances)
        /\ Len(Append(host, a)) = Len(host) + 1
        /\ Len(host) \in Nat
        /\ \A i \in 1 .. Len(host) : Append(host, a)[i] = host[i]
        /\ Append(host, a)[Len(host) + 1] = a
    BY <2>1, AppendFacts
  <2>3. QED
    BY <1>4, <2>2, Zenon
<1>10. /\ timers' \in SUBSET Instances /\ pending' \in Nat
       /\ \A b \in Instances \ {a} : b \in timers' <=> b \in timers
  <2>1. timers' \in SUBSET Instances
    BY <1>1, Zenon DEF NodeTypes
  <2>2. QED
    BY <2>1, Zenon
<1>11. NodeTypes'
  <2>1. main' \in MainStates
    BY <1>1, Zenon DEF NodeTypes, MainStates
  <2>2. QED
    BY <1>1, <1>5, <1>6, <1>7, <1>9, <1>10, <2>1, Zenon DEF NodeTypes
<1>12. \A i \in 1 .. Len(host) : host[i] # a
  BY <1>1, Zenon DEF Placement, Placed, InHost
<1>13. \A i \in 1 .. Len(host') : i \in 1 .. Len(host) \/ i = Len(host) + 1
  BY <1>9
<1>14. Placement'
  <2>1. \A b \in Instances \ {a} : InHost(b)' <=> InHost(b)
    <3>1. 1 .. Len(host) \subseteq 1 .. Len(host')
      BY <1>9
    <3>2. QED
      BY <1>9, <1>13, <3>1, Zenon DEF InHost
  <2>2. InHost(a)'
    <3>1. Len(host) + 1 \in 1 .. Len(host')
      BY <1>9
    <3>2. QED
      BY <1>9, <3>1, Zenon DEF InHost
  <2>3. ASSUME NEW b \in Instances PROVE Placed(b)'
    <3>1. CASE b = a
      <4>1. a \notin timers' /\ g # 0
        BY <1>1
      <4>2. QED
        BY <1>3, <1>5, <1>6, <1>7, <2>2, <3>1, <4>1, Zenon DEF Placed
    <3>2. CASE b # a
      <4>1. Placed(b) /\ b \in Instances \ {a} /\ faults'[b] = faults[b]
        BY <1>1, <3>2, Zenon DEF Placement
      <4>2. QED
        BY <1>5, <1>6, <1>7, <1>10, <2>1, <4>1, PlacedElsewhere, Zenon
    <3>3. QED
      BY <3>1, <3>2, Zenon
  <2>4. \A b \in Instances \ conf.adapters : health'[b] = "none"
    BY <1>1, <1>7, Zenon DEF Placement
  <2>5. main' \in {"loop", "restarted"} => \A b \in conf.adapters : health'[b] # "none"
    <3>1. conf.adapters \subseteq Instances
      BY <1>1, NodeAssumption, Zenon DEF NodeTypes
    <3>2. QED
      BY <1>1, <1>7, <3>1, Zenon DEF Placement
  <2>6. main' \notin Early /\ main' # "joinAdapter" /\ host' # <<>>
    BY <1>9 DEF Early
  <2>7. Once'
    <3>1. ASSUME NEW i \in 1 .. Len(host'), NEW j \in 1 .. Len(host'), host'[i] = host'[j]
          PROVE  i = j
      <4>1. CASE i \in 1 .. Len(host) /\ j \in 1 .. Len(host)
        BY <1>1, <1>9, <3>1, <4>1, Zenon DEF Placement, Once
      <4>2. CASE i = Len(host) + 1
        BY <1>9, <1>12, <1>13, <3>1, <4>2, Zenon
      <4>3. CASE j = Len(host) + 1
        BY <1>9, <1>12, <1>13, <3>1, <4>3, Zenon
      <4>4. QED
        BY <1>13, <4>1, <4>2, <4>3, Zenon
    <3>2. QED
      BY <3>1, Zenon DEF Once
  <2>8. exhausted' = Cardinality(Exhausted')
    <3>1. Exhausted' = Exhausted
      BY <1>7, Zenon DEF Exhausted
    <3>2. QED
      BY <1>1, <3>1, Zenon DEF Placement
  <2>9. QED
    BY <2>3, <2>4, <2>5, <2>6, <2>7, <2>8, Zenon DEF Placement
<1>15. main # "restarted"
  BY Zenon
<1>16. Watches'
  <2>1. ASSUME NEW b \in Instances PROVE Mirrored(b)'
    <3>1. Mirrored(b)
      BY <1>1, Zenon DEF Watches
    <3>2. CASE b = a
      <4>1. NoActivity.iface = "unreported" /\ g \in 1 .. g /\ g <= g
        BY NodeAssumption DEF NoActivity
      <4>2. main' = "restarted" => LastHost' = a
        BY <1>9, Zenon DEF LastHost
      <4>3. main' # "restarted" => ~faults'[a]
        BY Zenon
      <4>4. /\ activity'[a].iface = "unreported" /\ watch'[a].iface = "unreported"
            /\ watch'[a].due = FALSE /\ watch'[a].gen = g /\ watch'[a].on = TRUE
        BY <1>3, <1>5, <1>8, <4>1, Zenon
      <4>5. "unreported" # "open" /\ "running" # "none"
        BY Zenon
      <4>6. QED
        BY <1>6, <1>7, <3>2, <4>1, <4>2, <4>3, <4>4, <4>5, Zenon DEF Mirrored
    <3>3. CASE b # a
      <4>1. b \in Instances \ {a} /\ faults'[b] = faults[b]
        BY <3>3, Zenon
      <4>2. /\ health'[b] = health[b] /\ gens'[b] = gens[b] /\ activity'[b] = activity[b]
            /\ watch'[b] = watch[b] /\ active'[b] = active[b]
        BY <1>5, <1>6, <1>7, <1>8, <4>1, Zenon
      <4>3. QED
        BY <1>15, <3>1, <4>1, <4>2, Zenon DEF Mirrored
    <3>4. QED
      BY <3>2, <3>3, Zenon
  <2>2. \A b \in Instances : gens'[b] >= gens[b]
    <3>1. g >= gens[a] /\ \A b \in Instances : gens[b] >= gens[b]
      BY <1>1, NodeAssumption DEF NodeTypes
    <3>2. QED
      BY <1>6, <3>1, Zenon
  <2>3. \A b \in Instances :
            \/ active'[b] = active[b] /\ (activity'[b].decode = "none" => activity[b].decode = "none")
            \/ active'[b] > gens[b]
    BY <1>6, <1>8, Zenon
  <2>4. \A i \in 1 .. Len(notices) : StillNoticed(notices[i])
    BY <1>1, <1>6, <2>2, <2>3, NoticesStay, Zenon
  <2>5. QED
    BY <2>1, <2>4, NoticesCarried, Zenon DEF Watches
<1>17. Ending'
  <2>1. main' \notin {"cleanup", "joinAdapter"} /\ main' \notin {"joinApi", "stopOutput"}
            /\ main # "exited" /\ main' \notin Cleaning /\ main' \notin {"prepare", "api", "exited"}
    BY Zenon DEF Cleaning
  <2>2. ASSUME NEW b \in Instances PROVE Joined(b)'
    <3>1. Joined(b)
      BY <1>1, Zenon DEF Ending
    <3>2. svc'.output # "stopped"
      BY <1>1, <2>1, Zenon DEF Ending
    <3>3. completion'[b] # "none" => comp'[b] = "done"
      BY <1>8, <3>1, Zenon DEF Joined
    <3>4. ~watch'[b].on => comp'[b] \in {"none", "done"}
      BY <1>3, <1>5, <1>8, <3>1, Zenon DEF Joined
    <3>5. QED
      BY <2>1, <3>2, <3>3, <3>4, Zenon DEF Joined
  <2>3. \/ main' = main
        \/ main' = "restarted" /\ main = "loop"
    BY Zenon
  <2>4. QED
    BY <1>1, <2>1, <2>2, <2>3, Zenon DEF Ending, Cleaning
<1>18. QED
  BY <1>2, <1>11, <1>14, <1>16, <1>17, Zenon DEF NodeInvariant

\* A stream that closed: the adapter is taken out of the host and waits, or is
\* exhausted.
LEMMA AdapterClosedKeeps ==
    ASSUME NodeInvariant, NEW a \in Instances, OnAdapterClosed(a), Delayed(a)
    PROVE  NodeInvariant'
<1>1. /\ main = "loop" /\ stream[a] = "closed"
      /\ stream' = [stream EXCEPT ![a] = "none"] /\ Deregistered(a)
      /\ active' = [active EXCEPT ![a] = 0]
      /\ UNCHANGED <<activity, stop, completion, ingest, comp, outcome, loop, out, events, command,
                     reader, retries, bytes, target, conf, main, watch, gens, notices, faults, svc>>
  BY Zenon DEF OnAdapterClosed, Selecting, runs, adapterVars, hostApi, loopVars, serialVars
<1>2. AdapterTypes /\ NodeTypes /\ Placement /\ Watches /\ Ending /\ main \in Supervising
  BY <1>1, Zenon DEF NodeInvariant, Supervising
<1>3. Placed(a) /\ Once /\ host \in Seq(Instances)
  BY <1>2, Zenon DEF Placement, NodeTypes
<1>4. /\ a \notin timers /\ health[a] # "exhausted" /\ health[a] # "none" /\ ~watch[a].on
  <2>1. stream[a] # "none" /\ stream[a] # "open"
    BY <1>1, Zenon
  <2>2. QED
    BY <1>3, <2>1, Zenon DEF Placed
<1>5. a \in conf.adapters
  BY <1>2, <1>4, Zenon DEF Placement
<1>6. /\ pending' = Cardinality(timers') /\ exhausted' = Cardinality(Exhausted')
      /\ timers' \in SUBSET Instances /\ pending' \in Nat /\ exhausted' \in Nat
      /\ restarts' \in [Instances -> 0 .. MaxRestarts] /\ health' \in [Instances -> Statuses]
      /\ \A b \in Instances \ {a} : health'[b] = health[b] /\ (b \in timers' <=> b \in timers)
      /\ \/ health'[a] = "restarting" /\ a \in timers'
         \/ health'[a] = "exhausted" /\ a \notin timers'
  BY Zenon DEF Delayed
<1>7. /\ host' \in Seq(Instances) /\ Once' /\ ~InHost(a)'
      /\ \A b \in Instances \ {a} : InHost(b)' <=> InHost(b)
  BY <1>1, <1>3, DeregisteredFacts, Zenon
<1>8. /\ stream' \in [Instances -> {"none", "open", "closed"}] /\ stream'[a] = "none"
      /\ active' \in [Instances -> 0 .. MaxGeneration] /\ active'[a] = 0
      /\ \A b \in Instances \ {a} : stream'[b] = stream[b] /\ active'[b] = active[b]
  BY <1>1, <1>2, NodeAssumption DEF NodeTypes
<1>9. AdapterTypes'
  BY <1>1, <1>2, TypesStay, Zenon
<1>10. NodeTypes'
  BY <1>1, <1>2, <1>6, <1>7, <1>8, Zenon DEF NodeTypes
<1>11. Placement'
  <2>1. ASSUME NEW b \in Instances PROVE Placed(b)'
    <3>1. CASE b = a
      BY <1>1, <1>4, <1>6, <1>7, <1>8, <3>1, Zenon DEF Placed
    <3>2. CASE b # a
      <4>1. Placed(b) /\ b \in Instances \ {a} /\ faults'[b] = faults[b] /\ watch'[b] = watch[b]
        BY <1>1, <1>2, <3>2, Zenon DEF Placement
      <4>2. QED
        BY <1>6, <1>7, <1>8, <4>1, PlacedElsewhere, Zenon
    <3>3. QED
      BY <3>1, <3>2, Zenon
  <2>2. \A b \in Instances \ conf'.adapters : health'[b] = "none"
    BY <1>1, <1>2, <1>5, <1>6, Zenon DEF Placement
  <2>3. \A b \in Instances : health[b] # "none" => health'[b] # "none"
    BY <1>6, Zenon
  <2>4. conf.adapters \subseteq Instances
    BY <1>2, NodeAssumption, Zenon DEF NodeTypes
  <2>5. \A b \in conf'.adapters : health'[b] # "none"
    BY <1>1, <1>2, <2>3, <2>4, Zenon DEF Placement
  <2>6. main' \notin Early /\ main' # "restarted" /\ main' # "joinAdapter"
    BY <1>1, Zenon DEF Early
  <2>7. QED
    BY <1>6, <1>7, <2>1, <2>2, <2>5, <2>6, Zenon DEF Placement
<1>12. Watches'
  <2>1. ASSUME NEW b \in Instances PROVE Mirrored(b)'
    <3>1. Mirrored(b)
      BY <1>2, Zenon DEF Watches
    <3>2. active'[b] <= gens'[b] /\ (health'[b] = "none" => gens'[b] = 0)
      <4>1. 0 <= gens[b] /\ (b = a => active'[b] = 0 /\ health'[b] # "none")
        BY <1>2, <1>6, <1>8 DEF NodeTypes
      <4>2. QED
        BY <1>1, <1>6, <1>8, <3>1, <4>1, Zenon DEF Mirrored
    <3>3. main # "restarted"
      BY <1>1, Zenon
    <3>4. QED
      BY <1>1, <3>1, <3>2, <3>3, Zenon DEF Mirrored
  <2>2. \A i \in 1 .. Len(notices') : Noticed(notices[i])'
    <3>1. gens' \in [Instances -> 0 .. MaxGeneration] /\ \A b \in Instances : gens[b] >= gens[b]
      BY <1>1, <1>2, NodeAssumption DEF NodeTypes
    <3>2. \A b \in Instances :
              \/ active'[b] = active[b] /\ (activity'[b].decode = "none" => activity[b].decode = "none")
              \/ active'[b] = 0
      BY <1>1, <1>8, Zenon
    <3>3. \A b \in Instances : gens'[b] >= gens[b]
      BY <1>1, <3>1, Zenon
    <3>4. \A i \in 1 .. Len(notices) : StillNoticed(notices[i])
      BY <1>2, <1>8, <3>1, <3>2, <3>3, NoticesStay, Zenon
    <3>5. QED
      BY <1>1, <3>4, NoticesCarried, Zenon
  <2>3. QED
    BY <2>1, <2>2, Zenon DEF Watches
<1>13. Ending'
  <2>1. ASSUME NEW b \in Instances PROVE Joined(b)'
    <3>1. Joined(b)
      BY <1>2, Zenon DEF Ending
    <3>2. main' \notin {"cleanup", "joinAdapter"} /\ main' \notin {"joinApi", "stopOutput"}
      BY <1>1, Zenon
    <3>3. QED
      BY <1>1, <3>1, <3>2, Zenon DEF Joined
  <2>2. QED
    BY <1>1, <1>2, <2>1, Zenon DEF Ending, NothingToRun, NoFailure
<1>14. QED
  BY <1>9, <1>10, <1>11, <1>12, <1>13, Zenon DEF NodeInvariant

----------------------------------------------------------------------------
(* The restart budgets                                                     *)

\* What a step may do to the budget of an adapter
BudgetStep ==
    \A a \in Instances : restarts'[a] < restarts[a] => active[a] # 0 /\ activity[a].decode # "none"

\* next_delay never gives restarts back.
LEMMA DelayForgivesNothing ==
    ASSUME NodeTypes, NEW x \in Instances, NEW n, NextDelay(x, n)
    PROVE  BudgetStep
<1>1. restarts \in [Instances -> 0 .. MaxRestarts] /\ MaxRestarts \in Nat
  BY NodeAssumption, Zenon DEF NodeTypes
<1>2. restarts' = restarts \/ restarts' = [restarts EXCEPT ![x] = restarts[x] + 1]
  BY Zenon DEF NextDelay
<1>3. \A a \in Instances : ~(restarts'[a] < restarts[a])
  BY <1>1, <1>2
<1>4. QED
  BY <1>3, Zenon DEF BudgetStep

\* A step that does not touch the budgets
LEMMA BudgetsStay ==
    ASSUME NodeTypes, restarts' = restarts
    PROVE  BudgetStep
<1>1. \A a \in Instances : ~(restarts[a] < restarts[a])
  BY NodeAssumption DEF NodeTypes
<1>2. QED
  BY <1>1, Zenon DEF BudgetStep

\* Only a notice of the active run gives an adapter its restarts back.
LEMMA NextKeepsBudgets ==
    ASSUME NodeInvariant, Next
    PROVE  BudgetStep
<1>1. NodeTypes
  BY Zenon DEF NodeInvariant
<1>2. ASSUME NEW a \in Instances, StartInstance(a) PROVE BudgetStep
  <2>1. (\E n : NextDelay(a, n)) \/ restarts' = restarts
    BY <1>2, Zenon DEF StartInstance, StartFailed
  <2>2. QED
    BY <1>1, <2>1, DelayForgivesNothing, BudgetsStay, Zenon
<1>3. ASSUME NEW a \in Instances, OnRestart(a) \/ OnAdapterClosed(a) PROVE BudgetStep
  <2>1. (\E n : NextDelay(a, n)) \/ restarts' = restarts
    BY <1>3, Zenon DEF OnRestart, OnAdapterClosed, StartFailed
  <2>2. QED
    BY <1>1, <2>1, DelayForgivesNothing, BudgetsStay, Zenon
<1>4. CASE OnNotice
  BY <1>4, NoticeKeeps, Zenon DEF BudgetStep
<1>5. CASE PrepareOutput \/ SpawnApi \/ ReconcilePipelines \/ EnterLoop
  BY <1>1, <1>5, BudgetsStay, Zenon DEF PrepareOutput, SpawnApi, ReconcilePipelines, EnterLoop, supervision
<1>6. CASE StreamsClosed \/ OnSignal \/ OnApiExit \/ OnOutputExit \/ OnIngestExit \/ AfterRestart
  BY <1>1, <1>6, BudgetsStay, Zenon
     DEF StreamsClosed, OnSignal, OnApiExit, OnOutputExit, OnIngestExit, AfterRestart, LeaveLoop, supervision
<1>7. CASE Cleanup \/ Timeouts
  BY <1>1, <1>7, BudgetsStay, Zenon
     DEF Cleanup, Timeouts, StopAdapter, AdapterJoined, AdapterJoinTimeout, StopApi, JoinApi, StopOutput,
         CleanupTimeout, supervision
<1>8. CASE ApiTaskEnds \/ OutputTaskEnds
  BY <1>1, <1>8, BudgetsStay, Zenon DEF ApiTaskEnds, OutputTaskEnds, Hears, supervision
<1>9. ASSUME NEW a \in Instances,
             \/ ReaderThread(a) \/ WorkerLoop(a) \/ Composition(a) \/ Finishing(a)
             \/ IngestClientEnds(a)
      PROVE  BudgetStep
  <2>1. UNCHANGED nodeVars
    BY <1>9, Zenon DEF ReaderThread, WorkerLoop, Composition, Finishing, IngestClientEnds
  <2>2. QED
    BY <1>1, <2>1, BudgetsStay, Zenon DEF nodeVars, supervision
<1>10. ASSUME NEW a \in Instances, Watching(a) PROVE BudgetStep
  BY <1>1, <1>10, BudgetsStay, Zenon DEF Watching, ActivityTick, MirrorInterface, JoinTask, supervision
<1>11. CASE Terminated
  BY <1>1, <1>11, BudgetsStay, Zenon DEF Terminated, vars, nodeVars, supervision
<1>12. QED
  BY <1>2, <1>3, <1>4, <1>5, <1>6, <1>7, <1>8, <1>9, <1>10, <1>11, Zenon DEF Next, Startup, Loop

----------------------------------------------------------------------------
(* The first state and the last                                            *)

\* The invariant holds when the process starts.
LEMMA InitKeeps ==
    ASSUME Init, Cardinality({}) = 0
    PROVE  NodeInvariant
<1>1. AdapterTypes
  <2>1. HostTypes
    <3>1. NoActivity \in Activities /\ "none" \in Completions /\ "none" \in CompStates
      BY Zenon DEF NoActivity, Activities, Completions, CompStates, Interfaces
    <3>2. QED
      BY <3>1, Zenon DEF Init, AdaptersInit, HostTypes
  <2>2. LoopTypes
    <3>1. <<>> \in Seq(Events) /\ Len(<<>>) <= EventCap /\ "done" \in LoopStates
              /\ "done" \notin {"emit", "lastEmit"}
      BY InputAdaptersAssumption DEF LoopStates
    <3>2. QED
      BY <3>1, Zenon DEF Init, AdaptersInit, LoopTypes
  <2>3. SerialTypes
    <3>1. "done" \in ReaderStates /\ 0 \in 0 .. MaxRetries /\ <<>> \in Seq({"data", "failed"})
              /\ Len(<<>>) <= BytesCap
      BY SerialAssumption DEF ReaderStates
    <3>2. QED
      BY <3>1, Zenon DEF Init, SerialInit, SerialTypes, SerialTypeOK
  <2>4. PollingTypeOK
    <3>1. \A n \in 0 .. MaxDetectFailures, e \in BOOLEAN : Pending(n, e) \in TargetStates
      BY DEF TargetStates
    <3>2. 0 \in 0 .. MaxDetectFailures /\ FALSE \in BOOLEAN
      BY PollingAssumption
    <3>3. NewPending \in TargetStates
      BY <3>1, <3>2, Zenon DEF NewPending
    <3>4. QED
      BY <3>3, Zenon DEF Init, PollingInit, PollingTypeOK
  <2>5. QED
    BY <2>1, <2>2, <2>3, <2>4, Zenon DEF AdapterTypes
<1>2. NodeTypes
  <2>1. "prepare" \in MainStates /\ "none" \in Statuses /\ <<>> \in Seq(Instances) /\ <<>> \in Seq(Notice)
            /\ 0 \in 0 .. MaxGeneration /\ 0 \in 0 .. MaxRestarts /\ {} \in SUBSET Instances /\ 0 \in Nat
    BY NodeAssumption DEF MainStates, Statuses
  <2>2. NoWatch \in Watch
    BY NodeAssumption DEF NoWatch, Watch, Interfaces
  <2>3. svc \in Service
    BY Zenon DEF Init, Service
  <2>4. /\ conf \in Configs /\ main = "prepare" /\ host = <<>> /\ notices = <<>>
        /\ timers = {} /\ pending = 0 /\ exhausted = 0
    BY Zenon DEF Init
  <2>5. /\ stream \in [Instances -> {"none", "open", "closed"}] /\ watch \in [Instances -> Watch]
        /\ active \in [Instances -> 0 .. MaxGeneration] /\ gens \in [Instances -> 0 .. MaxGeneration]
        /\ restarts \in [Instances -> 0 .. MaxRestarts]
        /\ faults \in [Instances -> BOOLEAN] /\ health \in [Instances -> Statuses]
    BY <2>1, <2>2, Zenon DEF Init
  <2>6. QED
    BY <2>1, <2>3, <2>4, <2>5, Zenon DEF NodeTypes
<1>3. /\ main = "prepare" /\ host = <<>> /\ notices = <<>>
      /\ timers = {} /\ pending = 0 /\ exhausted = 0
  BY Zenon DEF Init
<1>4. /\ Len(<<>>) = 0 /\ (\A i \in 1 .. 0 : FALSE) /\ Cardinality({}) = 0
      /\ NoWatch.on = FALSE /\ NoWatch.due = FALSE /\ NoWatch.iface = "unreported"
      /\ NoActivity.iface = "unreported" /\ 0 <= 0
  BY DEF NoWatch, NoActivity
<1>5. \A a \in Instances :
          /\ health[a] = "none" /\ stream[a] = "none" /\ ~faults[a] /\ active[a] = 0 /\ gens[a] = 0
          /\ watch[a] = NoWatch /\ activity[a] = NoActivity /\ completion[a] = "none" /\ comp[a] = "none"
  BY Zenon DEF Init, AdaptersInit
<1>6. Placement
  <2>1. Exhausted = {}
    BY <1>5, Zenon DEF Exhausted
  <2>2. \A a \in Instances : ~InHost(a)
    BY <1>3, <1>4, Zenon DEF InHost
  <2>3. Once
    BY <1>3, <1>4, Zenon DEF Once
  <2>4. "none" # "open" /\ "none" # "exhausted" /\ main \notin {"loop", "restarted"}
            /\ main \notin {"restarted", "joinAdapter"}
    BY <1>3, Zenon
  <2>5. \A a \in Instances : Placed(a)
    BY <1>3, <1>4, <1>5, <2>2, <2>4, Zenon DEF Placed
  <2>6. QED
    BY <1>3, <1>4, <1>5, <2>1, <2>3, <2>4, <2>5, Zenon DEF Placement
<1>7. Watches
  BY <1>3, <1>4, <1>5, Zenon DEF Watches, Mirrored
<1>8. Ending
  <2>1. /\ svc.output # "stopped" /\ ~svc.apiRunning /\ ~svc.apiFailed
    BY Zenon DEF Init
  <2>2. main \notin {"cleanup", "joinAdapter"} /\ main \notin {"joinApi", "stopOutput"}
            /\ main \notin Cleaning /\ main # "exited" /\ main \notin {"loop", "restarted"}
            /\ main \in {"prepare", "api", "exited"}
    BY <1>3, Zenon DEF Cleaning
  <2>3. \A a \in Instances : Joined(a)
    BY <1>5, <2>1, <2>2, Zenon DEF Joined
  <2>4. QED
    BY <2>1, <2>2, <2>3, Zenon DEF Ending
<1>9. QED
  BY <1>1, <1>2, <1>6, <1>7, <1>8, Zenon DEF NodeInvariant

\* The inductive invariant implies the order of the end.
LEMMA InvariantEndsInOrder ==
    ASSUME NodeInvariant
    PROVE  OrderlyExit
<1>1. Ending
  BY Zenon DEF NodeInvariant
<1>2. OfflineAfterAdapters
  BY <1>1, Zenon DEF Ending, Joined, OfflineAfterAdapters
<1>3. CleanExit
  BY <1>1, Zenon DEF Ending, NothingToRun, CleanExit
<1>4. QED
  BY <1>2, <1>3, Zenon DEF OrderlyExit
=============================================================================
