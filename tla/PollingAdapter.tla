--------------------------- MODULE PollingAdapter ---------------------------
(***************************************************************************)
(* The worker of the I2C adapter (input/runtimes/polling): polling_loop    *)
(* probes its targets once, then runs a poll cycle on every tick.  A cycle *)
(* makes the driver calls of every target on a snapshot of the states and  *)
(* applies the outcomes when it is back; the loop awaits it, so the states *)
(* do not change in between.  Failures are counted up to their threshold:  *)
(* what the code does depends on nothing above it.                         *)
(***************************************************************************)
EXTENDS InputAdapters

CONSTANTS
    NTargets,            \* targets on the bus
    MaxReadFailures,     \* MAX_READ_FAILURES (5)
    MaxDetectFailures,   \* MAX_DETECT_FAILURES (10)
    MaxInitFailures      \* MAX_INIT_FAILURES (5)

ASSUME PollingAssumption ==
    {NTargets, MaxReadFailures, MaxDetectFailures, MaxInitFailures} \subseteq Nat \ {0}

VARIABLES target         \* instance -> [1 .. NTargets -> TargetState]

Targets == 1 .. NTargets

Pending(n, escalated) == [st |-> "pending", failures |-> n, escalated |-> escalated]
Detected(n) == [st |-> "detected", failures |-> n, escalated |-> FALSE]
Active(n) == [st |-> "active", failures |-> n, escalated |-> FALSE]
NewPending == Pending(0, FALSE)

TargetStates ==
    {Pending(n, e) : n \in 0 .. MaxDetectFailures, e \in BOOLEAN}
        \cup {Detected(n) : n \in 1 .. MaxInitFailures - 1}
        \cup {Active(n) : n \in 0 .. MaxReadFailures - 1}

PollingTypeOK == target \in [Polling -> [Targets -> TargetStates]]

PollingInit == target = [a \in Polling |-> [i \in Targets |-> NewPending]]

StartPolling(a) ==
    /\ StartTasks(a, "probe")
    /\ target' = [target EXCEPT ![a] = [i \in Targets |-> NewPending]]

----------------------------------------------------------------------------
(* poll_cycle and apply_outcomes                                           *)

\* What the driver calls of a target may come to: detect, then init in the
\* same cycle; init again; read.  A panicking driver counts as a failure.
PollOutcomes(t) ==
    CASE t.st = "pending" -> {"discovered", "initFailed", "detectFailed", "detectPanic"}
      [] t.st = "detected" -> {"discovered", "initFailed"}
      [] t.st = "active" -> {"reading", "readError"}

Capped(n, cap) == IF n > cap THEN cap ELSE n

InitFailures(t) == IF t.st = "detected" THEN t.failures + 1 ELSE 1

\* A detect failure is reported once, at the threshold; a panic always.
Escalates(t, o) == o = "detectFailed" /\ t.failures + 1 >= MaxDetectFailures /\ ~t.escalated

\* apply_outcomes: the next state of a target, and the events it sends
Applied(t, o) ==
    CASE o = "discovered" -> Active(0)
      [] o = "initFailed" ->
            IF InitFailures(t) >= MaxInitFailures THEN NewPending ELSE Detected(InitFailures(t))
      [] o = "reading" -> Active(0)
      [] o = "readError" ->
            IF t.failures + 1 >= MaxReadFailures THEN NewPending ELSE Active(t.failures + 1)
      [] o \in {"detectFailed", "detectPanic"} ->
            Pending(Capped(t.failures + 1, MaxDetectFailures), t.escalated \/ Escalates(t, o))

AppliedEvents(t, o) ==
    CASE o = "discovered" -> <<"other">>
      [] o = "reading" -> <<"observation">>
      [] o = "readError" ->
            IF t.failures + 1 >= MaxReadFailures THEN <<"other", "other">> ELSE <<"other">>
      [] o \in {"initFailed", "detectPanic"} -> <<"other">>
      [] o = "detectFailed" -> IF Escalates(t, o) THEN <<"other">> ELSE <<>>

AllFailed(os) == \A i \in Targets : os[i] \in {"initFailed", "detectFailed", "detectPanic"}

\* The events of a cycle, target by target
CycleEvents(ts, os) ==
    LET sent[i \in 0 .. NTargets] ==
            IF i = 0 THEN <<>> ELSE sent[i - 1] \o AppliedEvents(ts[i], os[i])
    IN  sent[NTargets]

\* One cycle over all targets; the startup probe adds an error when all fail.
Cycle(a, probe) ==
    \E os \in [Targets -> UNION {PollOutcomes(target[a][i]) : i \in Targets}] :
        /\ \A i \in Targets : os[i] \in PollOutcomes(target[a][i])
        /\ target' = [target EXCEPT ![a] = [i \in Targets |-> Applied(target[a][i], os[i])]]
        /\ Sends(a, CycleEvents(target[a], os)
                        \o (IF probe /\ AllFailed(os) THEN <<"other">> ELSE <<>>), FALSE)

\* The blocking task of the cycle was lost: the loop reports it and returns.
CycleLost(a) == Sends(a, <<"other">>, TRUE) /\ UNCHANGED target

----------------------------------------------------------------------------
(* polling_loop                                                            *)

StartupProbe(a) ==
    /\ loop[a] = "probe"
    /\ Cycle(a, TRUE) \/ CycleLost(a)
    /\ UNCHANGED <<hostApi, comp, outcome, events, command>>

PollTick(a) ==
    /\ loop[a] = "select"
    /\ Cycle(a, FALSE) \/ CycleLost(a)
    /\ UNCHANGED <<hostApi, comp, outcome, events, command>>

PollingLoop(a) ==
    \/ StartupProbe(a) \/ PollTick(a)
    \/ Emit(a) /\ UNCHANGED target
=============================================================================
