----------------------------- MODULE Detection -----------------------------
(***************************************************************************)
(* One state or accumulated-count pipeline over its lifetime: inputs       *)
(* stamped with the uptime of the device, and reboots, which restart the   *)
(* uptime at zero while the evaluation state survives in SQLite.  The      *)
(* evaluation is compared with a definition of hysteresis and debounce     *)
(* over the whole history of inputs.                                       *)
(***************************************************************************)
EXTENDS Evaluator, Sequences, FiniteSets

CONSTANTS
    Definitions,   \* the pipeline definitions to try
    Inputs,        \* raw input values
    MaxTime,       \* bound: units of real time, for each kind of pipeline
    MaxInputs      \* bound: inputs in one behaviour, for each kind of pipeline

VARIABLES
    def,           \* the definition of the pipeline
    now,           \* real time
    boot,          \* the real time of the last boot
    state,         \* the stored EvaluationState
    history,       \* every input: [value, at (uptime), time (real)]
    emitted        \* what each input published, None when nothing

vars == <<def, now, boot, state, history, emitted>>

Init ==
    /\ def \in Definitions
    /\ now = 0 /\ boot = 0
    /\ state = FreshEvaluation
    /\ history = <<>> /\ emitted = <<>>

\* CLOCK_MONOTONIC.
Uptime == now - boot

Tick ==
    /\ now < MaxTime[def.kind]
    /\ now' = now + 1
    /\ UNCHANGED <<def, boot, state, history, emitted>>

Reboot ==
    /\ Uptime > 0
    /\ boot' = now
    /\ UNCHANGED <<def, now, state, history, emitted>>

\* process: evaluate at the uptime, keep the state that it returns.
Receive(input) ==
    LET result == Evaluate(def, state, input, Uptime)
    IN  /\ Len(history) < MaxInputs[def.kind]
        /\ state' = result.state
        /\ history' = Append(history, [value |-> input, at |-> Uptime, time |-> now])
        /\ emitted' = Append(emitted, result.value)
        /\ UNCHANGED <<def, now, boot>>

Next == Tick \/ Reboot \/ \E input \in Inputs : Receive(input)

Spec == Init /\ [][Next]_vars

-----------------------------------------------------------------------------
(* The reference: a detector changes its state when every input of some     *)
(* span has contradicted the state and the span is as long as the debounce. *)

Value(k) == history[k].value * def.calibration.scale + def.calibration.offset

High == def.detector.mode = "high-active"

\* Input k contradicts the state a.
Contradicts(k, a) ==
    IF High THEN IF a THEN Value(k) <= def.detector.fall_threshold
                      ELSE Value(k) >= def.detector.rise_threshold
            ELSE IF a THEN Value(k) >= def.detector.rise_threshold
                      ELSE Value(k) <= def.detector.fall_threshold

Window(a) ==
    IF High = a THEN def.detector.fall_debounce_ms ELSE def.detector.rise_debounce_ms

RisingIn(active, S) == {n \in S : n > 1 /\ active[n] /\ ~active[n - 1]}

\* The state after each input, read off the history.  At the counter's limit
\* an input that would raise it is refused and changes nothing.
ReferenceActive ==
    LET active[n \in 1 .. Len(history)] ==
          IF n = 1
          THEN Contradicts(1, FALSE)
          ELSE LET a == active[n - 1]
                   full == /\ def.kind = "accumulated-count" /\ ~a
                           /\ Cardinality(RisingIn(active, 1 .. n - 1)) = MaxSafeInteger
               IN  IF /\ ~full
                      /\ \E m \in 2 .. n :
                            /\ \A k \in m .. n : Contradicts(k, a) /\ active[k - 1] = a
                            /\ history[n].at - history[m].at >= Window(a)
                   THEN ~a ELSE a
    IN  active

TypeOK ==
    /\ def \in Definitions
    /\ now \in 0 .. MaxTime[def.kind] /\ boot \in 0 .. now
    /\ state \in EvaluationState
    /\ Len(history) <= MaxInputs[def.kind] /\ Len(emitted) = Len(history)

\* The incremental evaluation (one pending flag and one time stamp) computes
\* hysteresis and debounce over the whole history, whatever reboots happen and
\* wherever the values lie between the thresholds: the state, what is published
\* for it and the counter, also when the counter has reached its limit.
MatchesReference ==
    LET active == ReferenceActive
        rising == RisingIn(active, DOMAIN history)
    IN  TypeOK /\ \A n \in DOMAIN history :
            /\ n = Len(history) => state.active = active[n]
            /\ def.kind = "state" =>
                 emitted[n] = IF n = 1 \/ active[n] # active[n - 1] THEN active[n] ELSE None
            /\ def.kind = "accumulated-count" =>
                 emitted[n] = IF n \in rising THEN Cardinality(rising \cap 1 .. n) ELSE None

\* The debounce window is uptime, and a reboot in the middle of it must not
\* shorten it: when the state changes, the inputs have contradicted the old
\* state for the whole debounce in real time.
NeverEarly ==
    \A n \in 2 .. Len(history) :
        LET old == IF def.kind = "state" THEN ~emitted[n] ELSE FALSE
        IN  emitted[n] # None =>
              \E m \in 2 .. n :
                 /\ \A k \in m .. n : Contradicts(k, old)
                 /\ history[n].time - history[m].time >= Window(old)
=============================================================================
