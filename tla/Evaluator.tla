----------------------------- MODULE Evaluator -----------------------------
(***************************************************************************)
(* One pipeline's evaluation of one input (core/pipeline evaluator.rs,     *)
(* calibration.rs and the definition it reads): calibration, threshold     *)
(* with hysteresis, debounce, accumulated count.                           *)
(*                                                                         *)
(* A 64-bit float is an integer here; the magnitudes above MaxFinite stand *)
(* for infinity and NaN.  MaxSafeInteger stands for 2^53 - 1.              *)
(***************************************************************************)
EXTENDS Integers

CONSTANTS
    MaxSafeInteger,  \* the counter limit
    MaxFinite,       \* the largest finite magnitude
    None             \* an absent field

Kinds == {"measurement", "state", "accumulated-count"}

\* What evaluate returns besides a value.
Errors == {"invalid", "counter-limit"}

ASSUME EvaluatorAssumption ==
    /\ MaxSafeInteger \in Nat \ {0}
    /\ MaxFinite \in Nat
    /\ None \notin Int /\ None \notin BOOLEAN /\ None \notin Errors

EvaluationState ==
    [initialized : BOOLEAN, active : BOOLEAN, counter : 0 .. MaxSafeInteger,
     pending : BOOLEAN, pending_active : BOOLEAN, pending_since : Nat]

FreshEvaluation ==
    [initialized |-> FALSE, active |-> FALSE, counter |-> 0,
     pending |-> FALSE, pending_active |-> FALSE, pending_since |-> 0]

IsFinite(x) == -MaxFinite <= x /\ x <= MaxFinite

ValidCalibration(c) == IsFinite(c.scale) /\ c.scale # 0 /\ IsFinite(c.offset)

Calibrated(c, input) == input * c.scale + c.offset

CanApply(c, input) ==
    /\ ValidCalibration(c)
    /\ IsFinite(input)
    /\ IsFinite(Calibrated(c, input))

ValidDetector(d, maxDebounce) ==
    /\ IsFinite(d.rise_threshold) /\ IsFinite(d.fall_threshold)
    /\ d.rise_debounce_ms \in 0 .. maxDebounce
    /\ d.fall_debounce_ms \in 0 .. maxDebounce
    /\ d.fall_threshold <= d.rise_threshold

\* Mutant: no hysteresis, the detector lets go where it was activated.
DetectorActive_OneThreshold(d, s, value) ==
    IF d.mode = "high-active" THEN value >= d.rise_threshold ELSE value <= d.fall_threshold

\* Hysteresis: an active detector lets go at the far threshold only.
DetectorActive(d, s, value) ==
    LET held == s.initialized /\ s.active
    IN  IF d.mode = "high-active"
        THEN IF held THEN value > d.fall_threshold ELSE value >= d.rise_threshold
        ELSE IF held THEN value < d.rise_threshold ELSE value <= d.fall_threshold

\* The debounce follows the physical signal, which rises when a low-active
\* detector lets go.
TransitionDebounce(d, target) ==
    IF (d.mode = "high-active") = target THEN d.rise_debounce_ms ELSE d.fall_debounce_ms

Confirmed(s, candidate) == [s EXCEPT !.active = candidate, !.pending = FALSE]

\* Mutant: a stamp before the window counts as the end of it.
Settle_Backwards(d, s, candidate, at) ==
    LET debounce == TransitionDebounce(d, candidate)
        span     == IF at >= s.pending_since THEN at - s.pending_since ELSE debounce
    IN  CASE candidate = s.active -> [s EXCEPT !.pending = FALSE]
          [] candidate # s.active /\ ~s.pending /\ debounce # 0 ->
               [s EXCEPT !.pending = TRUE, !.pending_active = candidate, !.pending_since = at]
          [] candidate # s.active /\ (s.pending \/ debounce = 0) ->
               IF debounce # 0 /\ span < debounce THEN s ELSE Confirmed(s, candidate)

\* The window runs from the first input that contradicts the state; an input
\* stamped before the window restarts it.
Settle(d, s, candidate, at) ==
    LET debounce == TransitionDebounce(d, candidate)
        waiting  == s.pending /\ s.pending_active = candidate
    IN  CASE candidate = s.active -> [s EXCEPT !.pending = FALSE]
          [] candidate # s.active /\ debounce = 0 -> Confirmed(s, candidate)
          [] candidate # s.active /\ debounce # 0 /\ ~waiting ->
               [s EXCEPT !.pending = TRUE, !.pending_active = candidate, !.pending_since = at]
          [] candidate # s.active /\ debounce # 0 /\ waiting /\ at < s.pending_since ->
               [s EXCEPT !.pending_since = at]
          [] candidate # s.active /\ debounce # 0 /\ waiting /\ at >= s.pending_since ->
               IF at - s.pending_since < debounce THEN s ELSE Confirmed(s, candidate)

Silent(s) == [error |-> None, value |-> None, state |-> s]
Emit(v, s) == [error |-> None, value |-> v, state |-> s]
Fail(e, s) == [error |-> e, value |-> None, state |-> s]

EvaluateState(s, next) ==
    IF next.active # s.active THEN Emit(next.active, next) ELSE Silent(next)

\* While the window is open evaluate returns before it looks at the trigger.
EvaluateCount(def, s, next) ==
    CASE next.pending -> Silent(next)
      [] ~next.pending /\ def.trigger = None -> Fail("invalid", s)
      [] ~next.pending /\ def.trigger # None ->
           IF s.active \/ ~next.active
           THEN Silent(next)
           ELSE IF s.counter >= MaxSafeInteger
                THEN Fail("counter-limit", s)
                ELSE Emit(s.counter + 1, [next EXCEPT !.counter = @ + 1])

\* An error leaves the state of the pipeline as it was.
Evaluate(def, s, input, at) ==
    LET value     == Calibrated(def.calibration, input)
        candidate == DetectorActive(def.detector, s, value)
        next      == Settle(def.detector, s, candidate, at)
        first     == [s EXCEPT !.initialized = TRUE, !.active = candidate]
    IN  IF \/ ~CanApply(def.calibration, input)
           \/ def.kind # "measurement" /\ def.detector = None
        THEN Fail("invalid", s)
        ELSE CASE def.kind = "measurement" -> Emit(value, [s EXCEPT !.initialized = TRUE])
               [] def.kind = "state" ->
                    IF s.initialized THEN EvaluateState(s, next) ELSE Emit(candidate, first)
               [] def.kind = "accumulated-count" ->
                    IF s.initialized THEN EvaluateCount(def, s, next) ELSE Silent(first)
=============================================================================
