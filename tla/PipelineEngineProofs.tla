------------------------ MODULE PipelineEngineProofs ------------------------
(***************************************************************************)
(* What is proved of the pipelines: EngineInvariant is an invariant for    *)
(* every set of pipelines, candidate definitions and readings, the value   *)
(* retained for a count is of the current series, and a committed          *)
(* transaction follows the series rules.                                   *)
(***************************************************************************)
EXTENDS PipelineEngine, TLAPS

-----------------------------------------------------------------------------
(* Evaluation.                                                             *)

\* What a valid definition is known to be.
LEMMA DefinitionFacts ==
    ASSUME NEW def \in Definitions
    PROVE  /\ def \in Candidates /\ def # None
           /\ def.id \in Ids /\ def.kind \in Kinds
           /\ def.calibration.scale \in Int /\ def.calibration.offset \in Int
           /\ def.detector # None =>
                 /\ def.detector.rise_threshold \in Int
                 /\ def.detector.fall_threshold \in Int
<1>1. def \in Candidates
  BY Zenon DEF Definitions
<1>2. QED
  BY <1>1, EngineAssumption, Zenon DEF EngineAssumption

\* The detector answers yes or no.
LEMMA DetectorAnswers ==
    ASSUME NEW det, det.rise_threshold \in Int, det.fall_threshold \in Int,
           NEW s \in EvaluationState, NEW value \in Int
    PROVE  DetectorActive(det, s, value) \in BOOLEAN
<1>1. /\ (value > det.fall_threshold) \in BOOLEAN
      /\ (value >= det.rise_threshold) \in BOOLEAN
      /\ (value < det.rise_threshold) \in BOOLEAN
      /\ (value <= det.fall_threshold) \in BOOLEAN
  OBVIOUS
<1>2. CASE det.mode = "high-active" /\ s.initialized /\ s.active
  BY <1>1, <1>2, Zenon DEF DetectorActive
<1>3. CASE det.mode = "high-active" /\ ~(s.initialized /\ s.active)
  BY <1>1, <1>3, Zenon DEF DetectorActive
<1>4. CASE det.mode # "high-active" /\ s.initialized /\ s.active
  BY <1>1, <1>4, Zenon DEF DetectorActive
<1>5. CASE det.mode # "high-active" /\ ~(s.initialized /\ s.active)
  BY <1>1, <1>5, Zenon DEF DetectorActive
<1>6. QED
  BY <1>2, <1>3, <1>4, <1>5, Zenon

\* Settling keeps the state well typed and changes neither the count nor
\* whether there is a first value.
LEMMA SettleFacts ==
    ASSUME NEW det, NEW s \in EvaluationState, NEW candidate \in BOOLEAN, NEW at \in Nat
    PROVE  /\ Settle(det, s, candidate, at) \in EvaluationState
           /\ Settle(det, s, candidate, at).initialized = s.initialized
           /\ Settle(det, s, candidate, at).counter = s.counter
<1> DEFINE n == Settle(det, s, candidate, at)
           waiting == s.pending /\ s.pending_active = candidate
           debounce == TransitionDebounce(det, candidate)
<1> USE DEF EvaluationState
<1>1. s.active \in BOOLEAN
  BY Zenon
<1>2. CASE candidate = s.active
  <2>1. n = [s EXCEPT !.pending = FALSE]
    BY <1>2, Zenon DEF Settle
  <2>2. QED
    BY <2>1, Zenon
<1>3. CASE candidate # s.active /\ debounce = 0
  <2>1. n = [s EXCEPT !.active = candidate, !.pending = FALSE]
    BY <1>3, Zenon DEF Settle, Confirmed
  <2>2. QED
    BY <2>1, Zenon
<1>4. CASE candidate # s.active /\ debounce # 0 /\ ~waiting
  <2>1. n = [s EXCEPT !.pending = TRUE, !.pending_active = candidate, !.pending_since = at]
    BY <1>4, Zenon DEF Settle
  <2>2. QED
    BY <2>1, Zenon
<1>5. CASE candidate # s.active /\ debounce # 0 /\ waiting /\ at < s.pending_since
  <2>1. n = [s EXCEPT !.pending_since = at]
    BY <1>5 DEF Settle
  <2>2. QED
    BY <2>1, Zenon
<1>6. CASE candidate # s.active /\ debounce # 0 /\ waiting /\ at >= s.pending_since
  <2>1. n = s \/ n = [s EXCEPT !.active = candidate, !.pending = FALSE]
    BY <1>6 DEF Settle, Confirmed
  <2>2. QED
    BY <2>1, Zenon
<1>7. QED
  BY <1>2, <1>3, <1>4, <1>5, <1>6

\* What an evaluation returns.  An error leaves the state alone.  A state
\* emits its first value, and then only the opposite of the one it emitted
\* last; a count emits the counter it has just advanced; and what emits
\* nothing changes neither.
Outcome(def, s, r) ==
    /\ r.error # None => r.value = None
    /\ r.error = None =>
          /\ r.state \in EvaluationState
          /\ r.state.counter >= s.counter
          /\ def.kind = "measurement" => r.value \in Int
          /\ def.kind = "state" => r.state.initialized
    /\ r.error = None /\ r.value = None =>
          /\ def.kind = "state" => s.initialized /\ r.state.active = s.active
          /\ def.kind = "accumulated-count" => r.state.counter = s.counter
    /\ r.error = None /\ r.value # None =>
          /\ def.kind = "state" =>
                /\ r.value \in BOOLEAN /\ r.state.active = r.value
                /\ s.initialized => r.value = ~s.active
          /\ def.kind = "accumulated-count" =>
                r.value = s.counter + 1 /\ r.state.counter = s.counter + 1

\* Evaluate returns such an outcome, whatever the definition and the input.
LEMMA EvaluateFacts ==
    ASSUME NEW def \in Definitions, NEW s \in EvaluationState, NEW input \in Int, NEW at \in Nat
    PROVE  Outcome(def, s, Evaluate(def, s, input, at))
<1> SUFFICES ASSUME NEW r, r = Evaluate(def, s, input, at) PROVE Outcome(def, s, r)
  BY Zenon
<1> DEFINE value == Calibrated(def.calibration, input)
           candidate == DetectorActive(def.detector, s, value)
           next == Settle(def.detector, s, candidate, at)
           first == [s EXCEPT !.initialized = TRUE, !.active = candidate]
           bad == ~CanApply(def.calibration, input) \/ (def.kind # "measurement" /\ def.detector = None)
<1>0. None \notin Int /\ None \notin BOOLEAN /\ None # "invalid" /\ None # "counter-limit"
  BY EvaluatorAssumption, Zenon DEF EvaluatorAssumption, Errors
<1>a. value \in Int
  BY DefinitionFacts DEF Calibrated
<1>b. s.counter \in Nat /\ s.initialized \in BOOLEAN /\ s.active \in BOOLEAN
      /\ MaxSafeInteger \in Nat /\ s.counter \in 0 .. MaxSafeInteger
  BY EvaluatorAssumption DEF EvaluatorAssumption, EvaluationState
<1>c. ASSUME NEW e, e # None, r = Fail(e, s) PROVE Outcome(def, s, r)
  <2>1. r.error = e /\ r.value = None
    BY <1>c DEF Fail
  <2>2. QED
    BY <1>c, <2>1, Zenon DEF Outcome
<1>1. CASE bad
  <2>1. r = Fail("invalid", s)
    BY <1>1, Zenon DEF Evaluate
  <2>2. QED
    BY <1>0, <1>c, <2>1, Zenon
<1>2. CASE ~bad /\ def.kind = "measurement"
  <2>1. r = Emit(value, [s EXCEPT !.initialized = TRUE])
    BY <1>2, Zenon DEF Evaluate
  <2> HIDE DEF value
  <2>2. r.error = None /\ r.value = value /\ r.state = [s EXCEPT !.initialized = TRUE]
    BY <2>1 DEF Emit
  <2>3. r.state \in EvaluationState /\ r.state.counter = s.counter
    BY <2>2, Zenon DEF EvaluationState
  <2>4. QED
    BY <1>2, <1>a, <1>b, <2>2, <2>3 DEF Outcome
<1>3. CASE ~bad /\ def.kind # "measurement"
  <2>1. candidate \in BOOLEAN
    BY <1>3, <1>a, DefinitionFacts, DetectorAnswers, Zenon
  <2>2. /\ next \in EvaluationState /\ next.initialized = s.initialized
        /\ next.counter = s.counter
    BY <2>1, SettleFacts, Zenon
  <2>3. first \in EvaluationState /\ first.counter = s.counter /\ first.initialized = TRUE
        /\ first.active = candidate
    BY <2>1, Zenon DEF EvaluationState
  <2>4. next.active \in BOOLEAN /\ next.initialized \in BOOLEAN
    BY <2>2, Zenon DEF EvaluationState
  <2>a. def.kind = "state" \/ def.kind = "accumulated-count"
    BY <1>3, DefinitionFacts, Zenon DEF Kinds
  <2>5. CASE def.kind = "state"
    <3>1. r = IF s.initialized THEN EvaluateState(s, next) ELSE Emit(candidate, first)
      BY <1>3, <2>5, Zenon DEF Evaluate
    <3> HIDE DEF candidate, next, first, value
    <3>2. CASE s.initialized /\ next.active # s.active
      <4>1. r.error = None /\ r.value = next.active /\ r.state = next
        BY <3>1, <3>2 DEF EvaluateState, Emit
      <4>2. next.active = ~s.active
        BY <1>b, <2>4, <3>2, Zenon
      <4>3. next.initialized /\ r.state.counter >= s.counter
        BY <1>b, <2>2, <3>2, <4>1
      <4>4. r.value \in BOOLEAN /\ r.state \in EvaluationState /\ r.value # None
        BY <1>0, <2>2, <2>4, <4>1, Zenon
      <4>5. def.kind # "measurement" /\ def.kind # "accumulated-count"
        BY <2>5, Zenon
      <4>6. QED
        BY <2>5, <3>2, <4>1, <4>2, <4>3, <4>4, <4>5, Zenon DEF Outcome
    <3>3. CASE s.initialized /\ next.active = s.active
      <4>1. r.error = None /\ r.value = None /\ r.state = next
        BY <3>1, <3>3 DEF EvaluateState, Silent
      <4>2. next.initialized /\ r.state.counter >= s.counter
        BY <1>b, <2>2, <3>3, <4>1
      <4>3. def.kind # "measurement" /\ def.kind # "accumulated-count"
        BY <2>5, Zenon
      <4>4. QED
        BY <2>2, <2>5, <3>3, <4>1, <4>2, <4>3, Zenon DEF Outcome
    <3>4. CASE ~s.initialized
      <4>1. r.error = None /\ r.value = candidate /\ r.state = first
        BY <3>1, <3>4 DEF Emit
      <4>2. QED
        BY <1>0, <1>b, <2>1, <2>3, <2>5, <3>4, <4>1 DEF Outcome
    <3>5. QED
      BY <3>2, <3>3, <3>4, Zenon
  <2>6. CASE def.kind = "accumulated-count"
    <3>1. r = IF s.initialized THEN EvaluateCount(def, s, next) ELSE Silent(first)
      BY <1>3, <2>6, Zenon DEF Evaluate
    <3> HIDE DEF candidate, next, first, value
    <3>2. ASSUME NEW t \in EvaluationState, t.counter = s.counter, r = Silent(t)
          PROVE  Outcome(def, s, r)
      <4>1. r.error = None /\ r.value = None /\ r.state = t
        BY <3>2 DEF Silent
      <4>2. QED
        BY <1>0, <1>b, <2>6, <3>2, <4>1 DEF Outcome
    <3>3. CASE ~s.initialized
      BY <2>3, <3>1, <3>2, <3>3, Zenon
    <3>4. CASE s.initialized /\ next.pending
      <4>1. r = Silent(next)
        BY <3>1, <3>4, Zenon DEF EvaluateCount
      <4>2. QED
        BY <2>2, <3>2, <4>1, Zenon
    <3>5. CASE s.initialized /\ ~next.pending /\ def.trigger = None
      <4>1. r = Fail("invalid", s)
        BY <3>1, <3>5, Zenon DEF EvaluateCount
      <4>2. QED
        BY <1>0, <1>c, <4>1, Zenon
    <3>6. CASE s.initialized /\ ~next.pending /\ def.trigger # None
      <4>1. r = IF s.active \/ ~next.active THEN Silent(next)
                ELSE IF s.counter >= MaxSafeInteger THEN Fail("counter-limit", s)
                     ELSE Emit(s.counter + 1, [next EXCEPT !.counter = @ + 1])
        BY <3>1, <3>6, Zenon DEF EvaluateCount
      <4>2. CASE s.active \/ ~next.active
        BY <2>2, <3>2, <4>1, <4>2, Zenon
      <4>3. CASE ~(s.active \/ ~next.active) /\ s.counter >= MaxSafeInteger
        BY <1>0, <1>c, <4>1, <4>3, Zenon
      <4>4. CASE ~(s.active \/ ~next.active) /\ ~(s.counter >= MaxSafeInteger)
        <5>1. r = Emit(s.counter + 1, [next EXCEPT !.counter = @ + 1])
          BY <4>1, <4>4, Zenon
        <5>2. /\ r.error = None /\ r.value = s.counter + 1
              /\ r.state = [next EXCEPT !.counter = @ + 1]
          BY <5>1 DEF Emit
        <5>3. s.counter + 1 \in 0 .. MaxSafeInteger
          BY <1>b, <4>4
        <5>4. r.state \in EvaluationState /\ r.state.counter = s.counter + 1
          BY <2>2, <5>2, <5>3, Zenon DEF EvaluationState
        <5>5. QED
          BY <1>0, <1>b, <2>6, <5>2, <5>4 DEF Outcome
      <4>5. QED
        BY <4>2, <4>3, <4>4, Zenon
    <3>7. QED
      BY <3>3, <3>4, <3>5, <3>6, Zenon
  <2>7. QED
    BY <2>a, <2>5, <2>6, Zenon
<1>4. QED
  BY <1>1, <1>2, <1>3, Zenon

-----------------------------------------------------------------------------
(* Databases.                                                              *)

\* The fields of a database.
LEMMA DatabaseFields ==
    ASSUME NEW d \in Databases
    PROVE  /\ d.definition \in [Ids -> Definitions \cup {None}]
           /\ d.state \in [Ids -> PipelineStates \cup {None}]
           /\ d.outbox \in Seq(Rows) /\ Len(d.outbox) \in Nat
           /\ \A i \in 1 .. Len(d.outbox) : d.outbox[i] \in Rows
BY DEF Databases

\* A database is its fields.
LEMMA DatabaseIsFields ==
    ASSUME NEW d \in Databases
    PROVE  d = [definition |-> d.definition, state |-> d.state, outbox |-> d.outbox]
BY Zenon DEF Databases

\* Two databases with the same fields are the same.
LEMMA SameDatabase ==
    ASSUME NEW d \in Databases, NEW e \in Databases,
           d.definition = e.definition, d.state = e.state, d.outbox = e.outbox
    PROVE  d = e
BY DEF Databases

\* What the rows of the outbox are.
LEMMA RowFacts ==
    ASSUME NEW row \in Rows
    PROVE  /\ row.id \in Ids /\ row.kind \in Kinds
           /\ row.series \in Nat \ {0} \/ row.series = None
           /\ row.series # None => row.sequence \in Nat \ {0}
           /\ row.series = None => row.sequence = 0
           /\ row.sequence \in Nat
           /\ row.series # None /\ row.kind = "state" => row.value \in BOOLEAN
<1>0. None \notin Int
  BY EvaluatorAssumption, Zenon DEF EvaluatorAssumption
<1>1. CASE row \in ObservationsOf({"measurement", "accumulated-count"}, Int)
  BY <1>0, <1>1 DEF ObservationsOf, Kinds
<1>2. CASE row \in ObservationsOf({"state"}, BOOLEAN)
  BY <1>0, <1>2 DEF ObservationsOf, Kinds
<1>3. CASE row \in [id : Ids, kind : Kinds, series : {None}, sequence : {0}, value : {None}]
  BY <1>0, <1>3
<1>4. QED
  BY <1>1, <1>2, <1>3, Zenon DEF Rows

\* A stored state.
LEMMA StateFacts ==
    ASSUME NEW st \in PipelineStates
    PROVE  /\ st.series \in Nat \ {0} /\ st.next_sequence \in Nat \ {0}
           /\ st.evaluation \in EvaluationState
           /\ st.evaluation.counter \in Nat
           /\ st.evaluation.active \in BOOLEAN /\ st.evaluation.initialized \in BOOLEAN
           /\ st.series # None
<1>0. None \notin Int /\ MaxSafeInteger \in Nat
  BY EvaluatorAssumption, Zenon DEF EvaluatorAssumption
<1>1. /\ st.series \in Nat \ {0} /\ st.next_sequence \in Nat \ {0}
      /\ st.evaluation \in EvaluationState
  BY Zenon DEF PipelineStates
<1>2. QED
  BY <1>0, <1>1 DEF EvaluationState

\* Storing a state changes the state of one pipeline.
LEMMA PutStateFields ==
    ASSUME NEW d \in Databases, NEW id \in Ids, NEW st \in PipelineStates
    PROVE  /\ PutState(d, id, st) \in Databases
           /\ PutState(d, id, st).definition = d.definition
           /\ PutState(d, id, st).outbox = d.outbox
           /\ PutState(d, id, st).state = [d.state EXCEPT ![id] = st]
<1>1. PutState(d, id, st) = [definition |-> d.definition, state |-> [d.state EXCEPT ![id] = st],
                             outbox |-> d.outbox]
  BY DatabaseIsFields DEF PutState, Databases
<1>2. [d.state EXCEPT ![id] = st] \in [Ids -> PipelineStates \cup {None}]
  BY DatabaseFields, Zenon
<1>3. PutState(d, id, st) \in Databases
  BY <1>1, <1>2, DatabaseFields, Zenon DEF Databases
<1>4. QED
  BY <1>1, <1>3

\* An Observation of a valid definition is a row.
LEMMA ObservationFields ==
    ASSUME NEW def \in Definitions, NEW st \in PipelineStates, NEW v,
           def.kind = "state" => v \in BOOLEAN, def.kind # "state" => v \in Int
    PROVE  /\ Observation(def, st, v) \in Rows
           /\ Observation(def, st, v).id = def.id
           /\ Observation(def, st, v).kind = def.kind
           /\ Observation(def, st, v).series = st.series
           /\ Observation(def, st, v).sequence = st.next_sequence
           /\ Observation(def, st, v).value = v
<1>1. def.id \in Ids /\ def.kind \in Kinds /\ st.series \in Nat \ {0}
      /\ st.next_sequence \in Nat \ {0}
  BY DefinitionFacts, StateFacts, Zenon
<1>2. CASE def.kind = "state"
  BY <1>1, <1>2, Zenon DEF Observation, Rows, ObservationsOf
<1>3. CASE def.kind # "state"
  BY <1>1, <1>3, Zenon DEF Observation, Rows, ObservationsOf, Kinds
<1>4. QED
  BY <1>2, <1>3, Zenon

\* Appending to the outbox leaves the other fields alone.
LEMMA AppendRow ==
    ASSUME NEW d \in Databases, NEW r
    PROVE  [d EXCEPT !.outbox = Append(@, r)]
             = [definition |-> d.definition, state |-> d.state, outbox |-> Append(d.outbox, r)]
<1> DEFINE o == Append(d.outbox, r)
<1>1. [d EXCEPT !.outbox = Append(@, r)] = [d EXCEPT !.outbox = o]
  BY Zenon
<1> HIDE DEF o
<1>2. [d EXCEPT !.outbox = o] = [definition |-> d.definition, state |-> d.state, outbox |-> o]
  BY DEF Databases
<1>3. QED
  BY <1>1, <1>2, Zenon DEF o

\* Publishing appends the Observation and advances the sequence.
LEMMA PublishFields ==
    ASSUME NEW d \in Databases, NEW def \in Definitions, NEW st \in PipelineStates, NEW v,
           def.kind = "state" => v \in BOOLEAN, def.kind # "state" => v \in Int
    PROVE  /\ Publish(d, def, st, v) \in Databases
           /\ Publish(d, def, st, v).definition = d.definition
           /\ Publish(d, def, st, v).outbox = Append(d.outbox, Observation(def, st, v))
           /\ Publish(d, def, st, v).state
                = [d.state EXCEPT ![def.id] = [st EXCEPT !.next_sequence = @ + 1]]
<1> DEFINE next == [st EXCEPT !.next_sequence = @ + 1]
           states == [d.state EXCEPT ![def.id] = next]
           rows == Append(d.outbox, Observation(def, st, v))
<1>1. next \in PipelineStates
  BY DEF PipelineStates
<1>2. states \in [Ids -> PipelineStates \cup {None}]
  BY <1>1, DatabaseFields, DefinitionFacts, Zenon
<1>3. rows \in Seq(Rows)
  BY DatabaseFields, ObservationFields
<1> DEFINE sent == [d EXCEPT !.outbox = Append(@, Observation(def, st, v))]
<1>4. Publish(d, def, st, v) = [sent EXCEPT !.state[def.id] = next]
  BY Zenon DEF Publish
<1>5. sent = [definition |-> d.definition, state |-> d.state, outbox |-> rows]
  BY AppendRow, Zenon
<1> HIDE DEF next, rows, sent
<1>6. [sent EXCEPT !.state[def.id] = next]
        = [definition |-> d.definition, state |-> states, outbox |-> rows]
  BY <1>5
<1> HIDE DEF states
<1>7. Publish(d, def, st, v) = [definition |-> d.definition, state |-> states, outbox |-> rows]
  BY <1>4, <1>6, Zenon
<1>8. Publish(d, def, st, v) \in Databases
  BY <1>2, <1>3, <1>7, DatabaseFields, Zenon DEF Databases
<1>9. /\ Publish(d, def, st, v).definition = d.definition
      /\ Publish(d, def, st, v).state = states /\ Publish(d, def, st, v).outbox = rows
  BY <1>7
<1>10. QED
  BY <1>8, <1>9, Zenon DEF next, states, rows

\* Storing a definition.
LEMMA PutDefinitionFields ==
    ASSUME NEW d \in Databases, NEW def \in Definitions
    PROVE  /\ PutDefinition(d, def) \in Databases
           /\ PutDefinition(d, def).definition = [d.definition EXCEPT ![def.id] = def]
           /\ PutDefinition(d, def).outbox = d.outbox
           /\ PutDefinition(d, def).state = d.state
<1>1. PutDefinition(d, def) = [definition |-> [d.definition EXCEPT ![def.id] = def],
                               state |-> d.state, outbox |-> d.outbox]
  BY DatabaseIsFields DEF PutDefinition, Databases
<1>2. [d.definition EXCEPT ![def.id] = def] \in [Ids -> Definitions \cup {None}]
  BY DatabaseFields, DefinitionFacts, Zenon
<1>3. PutDefinition(d, def) \in Databases
  BY <1>1, <1>2, DatabaseFields, Zenon DEF Databases
<1>4. QED
  BY <1>1, <1>3

\* Deleting a definition, and its state with it.
LEMMA DeleteFields ==
    ASSUME NEW d \in Databases, NEW id \in Ids
    PROVE  /\ DeleteDefinition(d, id) \in Databases
           /\ DeleteDefinition(d, id).definition = [d.definition EXCEPT ![id] = None]
           /\ DeleteDefinition(d, id).outbox = d.outbox
           /\ DeleteDefinition(d, id).state = [d.state EXCEPT ![id] = None]
<1> DEFINE gone == [d.definition EXCEPT ![id] = None]
           states == [d.state EXCEPT ![id] = None]
           first == [d EXCEPT !.definition[id] = None]
<1>1. DeleteDefinition(d, id) = [first EXCEPT !.state[id] = None]
  BY Zenon DEF DeleteDefinition
<1>2. first = [definition |-> gone, state |-> d.state, outbox |-> d.outbox]
  BY DEF Databases
<1>3. /\ gone \in [Ids -> Definitions \cup {None}]
      /\ states \in [Ids -> PipelineStates \cup {None}]
  BY DatabaseFields, Zenon
<1> HIDE DEF first, gone
<1>4. [first EXCEPT !.state[id] = None]
        = [definition |-> gone, state |-> states, outbox |-> d.outbox]
  BY <1>2
<1> HIDE DEF states
<1>5. DeleteDefinition(d, id) = [definition |-> gone, state |-> states, outbox |-> d.outbox]
  BY <1>1, <1>4, Zenon
<1>6. DeleteDefinition(d, id) \in Databases
  BY <1>3, <1>5, DatabaseFields, Zenon DEF Databases
<1>7. /\ DeleteDefinition(d, id).definition = gone
      /\ DeleteDefinition(d, id).state = states /\ DeleteDefinition(d, id).outbox = d.outbox
  BY <1>5
<1>8. QED
  BY <1>6, <1>7, Zenon DEF gone, states

\* Clearing a topic appends a row that is of no series.
LEMMA DeletionFields ==
    ASSUME NEW d \in Databases, NEW def \in Definitions
    PROVE  /\ EnqueueDeletion(d, def) \in Databases
           /\ EnqueueDeletion(d, def).definition = d.definition
           /\ EnqueueDeletion(d, def).outbox = Append(d.outbox, Deletion(def))
           /\ EnqueueDeletion(d, def).state = d.state
           /\ Deletion(def) \in Rows /\ Deletion(def).id = def.id
           /\ Deletion(def).series = None /\ Deletion(def).sequence = 0
<1>1. /\ Deletion(def) \in Rows /\ Deletion(def).id = def.id
      /\ Deletion(def).series = None /\ Deletion(def).sequence = 0
  BY DefinitionFacts, Zenon DEF Deletion, Rows
<1>2. EnqueueDeletion(d, def)
        = [definition |-> d.definition, state |-> d.state, outbox |-> Append(d.outbox, Deletion(def))]
  BY DatabaseIsFields, SMTT(30) DEF EnqueueDeletion, Databases
<1>3. Append(d.outbox, Deletion(def)) \in Seq(Rows)
  BY <1>1, DatabaseFields
<1>4. EnqueueDeletion(d, def) \in Databases
  BY <1>2, <1>3, DatabaseFields, Zenon DEF Databases
<1>5. QED
  BY <1>1, <1>2, <1>4

-----------------------------------------------------------------------------
(* The rows of the outbox.                                                 *)

\* What holds of every database, committed or not, when n series ids have
\* been drawn.
Sound(d, n) == d \in Databases /\ Consistent(d, n) /\ CurrentCount(d)

\* The row that may follow the rows of d: of no series, or the next
\* Observation of its series.
MayFollow(d, row) ==
    row.series # None =>
        /\ \A i \in 1 .. Len(d.outbox) : d.outbox[i].series = row.series =>
              /\ d.outbox[i].id = row.id /\ d.outbox[i].kind = row.kind
              /\ d.outbox[i].sequence < row.sequence
        /\ row.sequence > 1 =>
              \E i \in 1 .. Len(d.outbox) :
                 /\ d.outbox[i].series = row.series
                 /\ d.outbox[i].sequence = row.sequence - 1
                 /\ row.kind = "state" => row.value = ~d.outbox[i].value
        /\ row.kind = "accumulated-count" => row.value = row.sequence - 1

\* Appending: the old rows stay, the new one is last.
LEMMA AppendFacts ==
    ASSUME NEW S, NEW s \in Seq(S), NEW e \in S
    PROVE  /\ Len(Append(s, e)) = Len(s) + 1
           /\ Len(s) \in Nat
           /\ \A i \in 1 .. Len(s) : Append(s, e)[i] = s[i]
           /\ Append(s, e)[Len(s) + 1] = e
OBVIOUS

\* The rules about rows hold with such a row appended.
LEMMA RowAppended ==
    ASSUME NEW d \in Databases, NEW e, NEW row \in Rows,
           Contiguous(d), CountsEachOnce(d), StatesAlternate(d),
           e.outbox = Append(d.outbox, row), MayFollow(d, row)
    PROVE  Contiguous(e) /\ CountsEachOnce(e) /\ StatesAlternate(e)
<1> DEFINE m == Len(d.outbox)
<1>1. /\ Len(e.outbox) = m + 1 /\ m \in Nat
      /\ \A i \in 1 .. m : e.outbox[i] = d.outbox[i]
      /\ e.outbox[m + 1] = row
  BY DatabaseFields, AppendFacts
<1>2. \A i \in 1 .. m : /\ d.outbox[i].sequence \in Nat
                        /\ d.outbox[i].series # None => d.outbox[i].sequence \in Nat \ {0}
  BY DatabaseFields, RowFacts, Zenon
<1>3. /\ row.sequence \in Nat
      /\ row.series = None => row.sequence = 0
  BY RowFacts, Zenon
<1> HIDE DEF m
<1>4. \A i \in 1 .. m + 1 : i \in 1 .. m \/ i = m + 1
  BY <1>1
<1>5. Contiguous(e)
  <2> SUFFICES ASSUME NEW i \in 1 .. m + 1
               PROVE  /\ \A j \in 1 .. m + 1 : SameSeries(e, i, j) =>
                            /\ e.outbox[i].id = e.outbox[j].id
                            /\ e.outbox[i].kind = e.outbox[j].kind
                            /\ i < j => e.outbox[i].sequence < e.outbox[j].sequence
                      /\ e.outbox[i].sequence > 1 =>
                            \E j \in 1 .. i - 1 :
                               /\ SameSeries(e, i, j)
                               /\ e.outbox[j].sequence = e.outbox[i].sequence - 1
    BY <1>1, Zenon DEF Contiguous
  <2>1. ASSUME NEW j \in 1 .. m + 1, SameSeries(e, i, j)
        PROVE  /\ e.outbox[i].id = e.outbox[j].id
               /\ e.outbox[i].kind = e.outbox[j].kind
               /\ i < j => e.outbox[i].sequence < e.outbox[j].sequence
    <3>1. CASE i \in 1 .. m /\ j \in 1 .. m
      <4>1. SameSeries(d, i, j)
        BY <1>1, <2>1, <3>1, Zenon DEF SameSeries
      <4>2. QED
        BY <1>1, <3>1, <4>1 DEF Contiguous, m
    <3>2. CASE i \in 1 .. m /\ j = m + 1
      BY <1>1, <2>1, <3>2, Zenon DEF SameSeries, MayFollow, m
    <3>3. CASE i = m + 1 /\ j \in 1 .. m
      <4>1. /\ e.outbox[i].id = e.outbox[j].id /\ e.outbox[i].kind = e.outbox[j].kind
        BY <1>1, <2>1, <3>3, Zenon DEF SameSeries, MayFollow, m
      <4>2. ~(i < j)
        BY <1>1, <3>3
      <4>3. QED
        BY <4>1, <4>2, Zenon
    <3>4. CASE i = m + 1 /\ j = m + 1
      BY <1>1, <3>4
    <3>5. QED
      BY <1>4, <3>1, <3>2, <3>3, <3>4, Zenon
  <2>2. ASSUME e.outbox[i].sequence > 1
        PROVE  \E j \in 1 .. i - 1 : /\ SameSeries(e, i, j)
                                     /\ e.outbox[j].sequence = e.outbox[i].sequence - 1
    <3>1. CASE i \in 1 .. m
      <4>1. PICK j \in 1 .. i - 1 : /\ SameSeries(d, i, j)
                                    /\ d.outbox[j].sequence = d.outbox[i].sequence - 1
        BY <1>1, <2>2, <3>1, Zenon DEF Contiguous, m
      <4>2. j \in 1 .. m
        BY <1>1, <3>1
      <4>3. QED
        BY <1>1, <3>1, <4>1, <4>2, Zenon DEF SameSeries
    <3>2. CASE i = m + 1
      <4>1. e.outbox[i] = row /\ row.sequence > 1
        BY <1>1, <2>2, <3>2, Zenon
      <4>2. row.series # None
        BY <1>3, <4>1
      <4>3. PICK j \in 1 .. m : /\ d.outbox[j].series = row.series
                                /\ d.outbox[j].sequence = row.sequence - 1
        BY <4>1, <4>2, Zenon DEF MayFollow, m
      <4>4. j \in 1 .. i - 1 /\ e.outbox[j] = d.outbox[j]
        BY <1>1, <3>2
      <4>5. QED
        BY <4>1, <4>2, <4>3, <4>4, Zenon DEF SameSeries
    <3>3. QED
      BY <1>4, <3>1, <3>2, Zenon
  <2>3. QED
    BY <2>1, <2>2, Zenon
<1>6. CountsEachOnce(e)
  BY <1>1, <1>4, Zenon DEF CountsEachOnce, MayFollow, m
<1>7. StatesAlternate(e)
  <2> SUFFICES ASSUME NEW i \in 1 .. m + 1, NEW j \in 1 .. m + 1,
                      e.outbox[i].kind = "state", SameSeries(e, i, j),
                      e.outbox[j].sequence = e.outbox[i].sequence + 1
               PROVE  e.outbox[j].value = ~e.outbox[i].value
    BY <1>1, Zenon DEF StatesAlternate
  <2>1. CASE i \in 1 .. m /\ j \in 1 .. m
    BY <1>1, <2>1 DEF StatesAlternate, SameSeries, m
  <2>2. CASE i \in 1 .. m /\ j = m + 1
    <3>1. /\ e.outbox[i] = d.outbox[i] /\ e.outbox[j] = row /\ row.series # None
          /\ d.outbox[i].series = row.series
          /\ row.sequence = d.outbox[i].sequence + 1
          /\ d.outbox[i].kind = "state"
      BY <1>1, <2>2, Zenon DEF SameSeries
    <3>2. row.sequence > 1 /\ row.kind = "state"
      BY <1>2, <2>2, <3>1 DEF MayFollow, m
    <3>3. PICK k \in 1 .. m : /\ d.outbox[k].series = row.series
                              /\ d.outbox[k].sequence = row.sequence - 1
                              /\ row.value = ~d.outbox[k].value
      BY <3>1, <3>2, Zenon DEF MayFollow, m
    <3>4. d.outbox[k].sequence = d.outbox[i].sequence
      BY <1>2, <2>2, <3>1, <3>3
    <3>5. SameSeries(d, i, k) /\ SameSeries(d, k, i)
      BY <3>1, <3>3, Zenon DEF SameSeries
    <3>6. /\ i < k => d.outbox[i].sequence < d.outbox[k].sequence
          /\ k < i => d.outbox[k].sequence < d.outbox[i].sequence
      BY <2>2, <3>5, Zenon DEF Contiguous, m
    <3>7. i = k
      BY <1>1, <1>2, <2>2, <3>4, <3>6
    <3>8. QED
      BY <3>1, <3>3, <3>7, Zenon
  <2>3. CASE i = m + 1
    <3>1. j \in 1 .. m => e.outbox[j].sequence < e.outbox[i].sequence
      BY <1>1, <2>3, Zenon DEF SameSeries, MayFollow, m
    <3>2. j = m + 1 => e.outbox[j].sequence = e.outbox[i].sequence
      BY <2>3, Zenon
    <3>3. e.outbox[i].sequence \in Nat
      BY <1>1, <1>3, <2>3, Zenon
    <3>4. e.outbox[j].sequence = e.outbox[i].sequence + 1
      BY Zenon
    <3>5. j \in 1 .. m \/ j = m + 1
      BY <1>4, Zenon
    <3>6. ASSUME NEW a \in Nat, NEW b, b = a + 1 PROVE ~(b < a) /\ b # a
      BY <3>6
    <3>7. ~(e.outbox[j].sequence < e.outbox[i].sequence)
          /\ e.outbox[j].sequence # e.outbox[i].sequence
      BY <3>3, <3>4, <3>6, Zenon
    <3>8. QED
      BY <3>1, <3>2, <3>5, <3>7, Zenon
  <2>4. QED
    BY <1>4, <2>1, <2>2, <2>3, Zenon
<1>8. QED
  BY <1>5, <1>6, <1>7, Zenon

\* The rules about rows are rules about the outbox alone.
LEMMA SameRows ==
    ASSUME NEW d, NEW e, e.outbox = d.outbox
    PROVE  /\ Contiguous(d) => Contiguous(e)
           /\ CountsEachOnce(d) => CountsEachOnce(e)
           /\ StatesAlternate(d) => StatesAlternate(e)
           /\ \A id, kind, st : Published(d, id, kind, st) => Published(e, id, kind, st)
           /\ \A id, kind, i : LastOnTopic(d, id, kind, i) => LastOnTopic(e, id, kind, i)
BY DEF Contiguous, CountsEachOnce, StatesAlternate, SameSeries, Published, LastOnTopic

\* A row of another series changes nothing for a stored state.
LEMMA OtherSeries ==
    ASSUME NEW d \in Databases, NEW e, NEW row \in Rows, e.outbox = Append(d.outbox, row),
           NEW id, NEW kind, NEW st, Published(d, id, kind, st), row.series # st.series
    PROVE  Published(e, id, kind, st)
<1> DEFINE m == Len(d.outbox)
<1>1. /\ Len(e.outbox) = m + 1 /\ m \in Nat
      /\ \A i \in 1 .. m : e.outbox[i] = d.outbox[i]
      /\ e.outbox[m + 1] = row
  BY DatabaseFields, AppendFacts
<1> HIDE DEF m
<1>2. {i \in 1 .. m + 1 : e.outbox[i].series = st.series}
        = {i \in 1 .. m : d.outbox[i].series = st.series}
  BY <1>1
<1>3. \A i \in {k \in 1 .. m : d.outbox[k].series = st.series} : e.outbox[i] = d.outbox[i]
  BY <1>1, Zenon
<1>4. QED
  BY <1>1, <1>2, <1>3 DEF Published, m

\* A row of another pipeline leaves the last row of a topic the last one.
LEMMA OtherTopic ==
    ASSUME NEW d \in Databases, NEW e, NEW row \in Rows, e.outbox = Append(d.outbox, row),
           NEW id, NEW kind, NEW i \in 1 .. Len(d.outbox), LastOnTopic(d, id, kind, i),
           row.id # id
    PROVE  LastOnTopic(e, id, kind, i) /\ i \in 1 .. Len(e.outbox) /\ e.outbox[i] = d.outbox[i]
<1> DEFINE m == Len(d.outbox)
<1>1. /\ Len(e.outbox) = m + 1 /\ m \in Nat
      /\ \A k \in 1 .. m : e.outbox[k] = d.outbox[k]
      /\ e.outbox[m + 1] = row
  BY DatabaseFields, AppendFacts
<1> HIDE DEF m
<1>2. i \in 1 .. m
  BY Zenon DEF m
<1>3. ASSUME NEW j \in i + 1 .. m + 1
      PROVE  e.outbox[j].id # id \/ e.outbox[j].kind # kind
  <2>1. CASE j = m + 1
    BY <1>1, <2>1, Zenon
  <2>2. CASE j # m + 1
    <3>1. j \in i + 1 .. m /\ j \in 1 .. m
      BY <1>1, <1>2, <2>2
    <3>2. QED
      BY <1>1, <3>1, Zenon DEF LastOnTopic, m
  <2>3. QED
    BY <2>1, <2>2, Zenon
<1>4. QED
  BY <1>1, <1>2, <1>3 DEF LastOnTopic, m

-----------------------------------------------------------------------------
(* One pipeline changes.                                                   *)

\* The stored state of a pipeline is that of its definition.
Current(d, n, def) ==
    LET st == d.state[def.id]
    IN  /\ d.definition[def.id] = def
        /\ st \in PipelineStates /\ st.hash = StructuralHash(def)
        /\ st.series <= n
        /\ \A a \in Ids : a # def.id /\ d.state[a] # None => d.state[a].series # st.series
        /\ Published(d, def.id, def.kind, st)
        /\ def.kind = "accumulated-count" =>
              \E i \in 1 .. Len(d.outbox) :
                 LastOnTopic(d, def.id, "accumulated-count", i) /\ d.outbox[i].series = st.series

\* The outbox of e is that of d, or has one row more, which is of pipeline id
\* and not of the series of another pipeline.
OneRowAt(d, e, n, id) ==
    \/ e.outbox = d.outbox
    \/ \E row \in Rows :
          /\ e.outbox = Append(d.outbox, row)
          /\ row.id = id /\ MayFollow(d, row)
          /\ row.series # None => row.series <= n
          /\ \A a \in Ids : a # id /\ d.state[a] # None => d.state[a].series # row.series

\* In a sound database every stored state is current.
LEMMA SoundIsCurrent ==
    ASSUME NEW d, NEW n, Sound(d, n), NEW id \in Ids, d.state[id] # None
    PROVE  d.definition[id] \in Definitions /\ d.definition[id].id = id
           /\ Current(d, n, d.definition[id])
<1>1. d \in Databases /\ StateOfDefinition(d) /\ StateIsPublished(d) /\ SeriesDrawn(d, n)
      /\ CurrentCount(d)
  BY Zenon DEF Sound, Consistent
<1>2. /\ d.definition[id] # None /\ d.definition[id].id = id
      /\ d.state[id].hash = StructuralHash(d.definition[id])
      /\ \A a \in Ids : a # id /\ d.state[a] # None => d.state[a].series # d.state[id].series
  BY <1>1, Zenon DEF StateOfDefinition
<1>3. d.definition[id] \in Definitions /\ d.state[id] \in PipelineStates
  BY <1>1, <1>2, DatabaseFields, Zenon
<1>4. /\ Published(d, id, d.definition[id].kind, d.state[id])
      /\ d.state[id].series <= n
      /\ d.definition[id].kind = "accumulated-count" =>
            \E i \in 1 .. Len(d.outbox) :
                LastOnTopic(d, id, "accumulated-count", i) /\ d.outbox[i].series = d.state[id].series
  BY <1>1, Zenon DEF StateIsPublished, SeriesDrawn, CurrentCount
<1>5. QED
  BY <1>2, <1>3, <1>4, Zenon DEF Current

\* Drawing more series ids keeps a database sound.
LEMMA SoundLater ==
    ASSUME NEW d, NEW n \in Nat, Sound(d, n)
    PROVE  Sound(d, n + 1)
<1>1. d \in Databases /\ SeriesDrawn(d, n)
  BY Zenon DEF Sound, Consistent
<1>2. \A i \in 1 .. Len(d.outbox) : d.outbox[i].series # None => d.outbox[i].series \in Nat
  BY <1>1, DatabaseFields, RowFacts, Zenon
<1>3. \A id \in Ids : d.state[id] # None => d.state[id].series \in Nat
  BY <1>1, DatabaseFields, StateFacts, Zenon
<1>4. SeriesDrawn(d, n + 1)
  BY <1>1, <1>2, <1>3 DEF SeriesDrawn
<1>5. QED
  BY <1>4, Zenon DEF Sound, Consistent

\* A change of one pipeline that leaves its state current, or leaves it
\* without one, keeps the whole database sound.
LEMMA ChangedAt ==
    ASSUME NEW n \in Nat, NEW d, Sound(d, n), NEW e \in Databases, NEW id \in Ids,
           \A a \in Ids : a # id => /\ e.definition[a] = d.definition[a]
                                    /\ e.state[a] = d.state[a],
           OneRowAt(d, e, n, id),
           e.definition[id] # None => e.definition[id].id = id,
           e.state[id] # None => e.definition[id] \in Definitions /\ Current(e, n, e.definition[id])
    PROVE  Sound(e, n)
<1>1. /\ d \in Databases /\ StateOfDefinition(d) /\ Contiguous(d) /\ CountsEachOnce(d)
      /\ StatesAlternate(d) /\ StateIsPublished(d) /\ SeriesDrawn(d, n) /\ CurrentCount(d)
  BY Zenon DEF Sound, Consistent
<1>2. Contiguous(e) /\ CountsEachOnce(e) /\ StatesAlternate(e)
  BY <1>1, SameRows, RowAppended, Zenon DEF OneRowAt
<1>3. ASSUME e.state[id] # None
      PROVE  /\ e.definition[id] # None /\ e.definition[id].id = id
             /\ e.state[id].hash = StructuralHash(e.definition[id])
             /\ e.state[id].series <= n
             /\ \A a \in Ids : a # id /\ e.state[a] # None => e.state[a].series # e.state[id].series
             /\ Published(e, id, e.definition[id].kind, e.state[id])
             /\ e.definition[id].kind = "accumulated-count" =>
                   \E i \in 1 .. Len(e.outbox) :
                      /\ LastOnTopic(e, id, "accumulated-count", i)
                      /\ e.outbox[i].series = e.state[id].series
  <2>1. e.definition[id] \in Definitions /\ Current(e, n, e.definition[id])
    BY <1>3, Zenon
  <2>2. e.definition[id] # None
    BY <2>1, DefinitionFacts, Zenon
  <2>3. QED
    BY <2>1, <2>2, Zenon DEF Current
<1>4. StateOfDefinition(e)
  <2>1. ASSUME NEW a \in Ids, e.definition[a] # None PROVE e.definition[a].id = a
    BY <1>1, <2>1, Zenon DEF StateOfDefinition
  <2>2. ASSUME NEW a \in Ids, e.state[a] # None
        PROVE  /\ e.definition[a] # None
               /\ e.state[a].hash = StructuralHash(e.definition[a])
    BY <1>1, <1>3, <2>2, Zenon DEF StateOfDefinition
  <2>3. ASSUME NEW a \in Ids, NEW b \in Ids, a # b, e.state[a] # None, e.state[b] # None
        PROVE  e.state[a].series # e.state[b].series
    BY <1>1, <1>3, <2>3 DEF StateOfDefinition
  <2>4. QED
    BY <2>1, <2>2, <2>3, Zenon DEF StateOfDefinition
<1>5. ASSUME NEW a \in Ids, a # id, e.state[a] # None
      PROVE  /\ Published(e, a, e.definition[a].kind, e.state[a])
             /\ e.definition[a].kind = "accumulated-count" =>
                   \E i \in 1 .. Len(e.outbox) :
                      /\ LastOnTopic(e, a, "accumulated-count", i)
                      /\ e.outbox[i].series = e.state[a].series
  <2>1. /\ e.definition[a] = d.definition[a] /\ e.state[a] = d.state[a] /\ d.state[a] # None
    BY <1>5, Zenon
  <2>2. /\ Published(d, a, d.definition[a].kind, d.state[a])
        /\ d.definition[a].kind = "accumulated-count" =>
              \E i \in 1 .. Len(d.outbox) :
                 /\ LastOnTopic(d, a, "accumulated-count", i)
                 /\ d.outbox[i].series = d.state[a].series
    BY <1>1, <2>1, Zenon DEF StateIsPublished, CurrentCount
  <2>3. CASE e.outbox = d.outbox
    BY <2>1, <2>2, <2>3, SameRows, Zenon
  <2>4. ASSUME NEW row \in Rows, e.outbox = Append(d.outbox, row), row.id = id,
               d.state[a].series # row.series
        PROVE  /\ Published(e, a, e.definition[a].kind, e.state[a])
               /\ e.definition[a].kind = "accumulated-count" =>
                     \E i \in 1 .. Len(e.outbox) :
                        /\ LastOnTopic(e, a, "accumulated-count", i)
                        /\ e.outbox[i].series = e.state[a].series
    <3>1. Published(e, a, d.definition[a].kind, d.state[a])
      BY <1>1, <2>2, <2>4, OtherSeries
    <3>2. ASSUME d.definition[a].kind = "accumulated-count"
          PROVE  \E i \in 1 .. Len(e.outbox) :
                    /\ LastOnTopic(e, a, "accumulated-count", i)
                    /\ e.outbox[i].series = d.state[a].series
      <4>1. PICK i \in 1 .. Len(d.outbox) : /\ LastOnTopic(d, a, "accumulated-count", i)
                                            /\ d.outbox[i].series = d.state[a].series
        BY <2>2, <3>2, Zenon
      <4>2. /\ LastOnTopic(e, a, "accumulated-count", i) /\ i \in 1 .. Len(e.outbox)
            /\ e.outbox[i] = d.outbox[i]
        BY <1>1, <1>5, <2>4, <4>1, OtherTopic
      <4>3. QED
        BY <4>1, <4>2, Zenon
    <3>3. QED
      BY <2>1, <3>1, <3>2, Zenon
  <2>5. QED
    BY <1>5, <2>1, <2>3, <2>4, Zenon DEF OneRowAt
<1>6. StateIsPublished(e) /\ CurrentCount(e)
  <2>1. StateIsPublished(e)
    BY <1>3, <1>5, Zenon DEF StateIsPublished
  <2>2. CurrentCount(e)
    BY <1>3, <1>5, Zenon DEF CurrentCount
  <2>3. QED
    BY <2>1, <2>2, Zenon
<1>7. SeriesDrawn(e, n)
  <2>1. \A a \in Ids : e.state[a] # None => e.state[a].series <= n
    BY <1>1, <1>3, Zenon DEF SeriesDrawn
  <2>2. \A i \in 1 .. Len(e.outbox) : e.outbox[i].series # None => e.outbox[i].series <= n
    <3>1. CASE e.outbox = d.outbox
      BY <1>1, <3>1, Zenon DEF SeriesDrawn
    <3>2. ASSUME NEW row \in Rows, e.outbox = Append(d.outbox, row),
                 row.series # None => row.series <= n
          PROVE  \A i \in 1 .. Len(e.outbox) : e.outbox[i].series # None => e.outbox[i].series <= n
      <4>1. /\ Len(e.outbox) = Len(d.outbox) + 1 /\ Len(d.outbox) \in Nat
            /\ \A i \in 1 .. Len(d.outbox) : e.outbox[i] = d.outbox[i]
            /\ e.outbox[Len(d.outbox) + 1] = row
        BY <1>1, <3>2, DatabaseFields, AppendFacts
      <4>2. QED
        BY <1>1, <3>2, <4>1 DEF SeriesDrawn
    <3>3. QED
      BY <3>1, <3>2, Zenon DEF OneRowAt
  <2>3. QED
    BY <2>1, <2>2, Zenon DEF SeriesDrawn
<1>8. QED
  BY <1>2, <1>4, <1>6, <1>7, Zenon DEF Sound, Consistent

\* The database c is d with def stored under its id.
Holding(c, d, def) ==
    /\ c \in Databases
    /\ c.definition[def.id] = def
    /\ \A a \in Ids : a # def.id => c.definition[a] = d.definition[a]
    /\ c.state = d.state /\ c.outbox = d.outbox

\* Storing a definition leaves the states and the rows.
LEMMA PutDefinitionHolds ==
    ASSUME NEW d \in Databases, NEW def \in Definitions
    PROVE  Holding(PutDefinition(d, def), d, def)
<1>1. def.id \in Ids /\ d.definition \in [Ids -> Definitions \cup {None}]
  BY DefinitionFacts, DatabaseFields, Zenon
<1>2. PutDefinition(d, def) \in Databases /\ PutDefinition(d, def).state = d.state
      /\ PutDefinition(d, def).outbox = d.outbox
      /\ PutDefinition(d, def).definition = [d.definition EXCEPT ![def.id] = def]
  BY PutDefinitionFields, Zenon
<1>3. QED
  BY <1>1, <1>2, Zenon DEF Holding

\* A state of def may be stored: its series is of no other pipeline.
MayStore(d, n, def, st) ==
    /\ st \in PipelineStates /\ st.hash = StructuralHash(def)
    /\ st.series <= n
    /\ \A a \in Ids : a # def.id /\ d.state[a] # None => d.state[a].series # st.series

\* Publishing the next Observation of a series, and storing its state.
LEMMA PublishCurrent ==
    ASSUME NEW n \in Nat, NEW d, Sound(d, n), NEW def \in Definitions, NEW c, Holding(c, d, def),
           NEW st, MayStore(d, n, def, st), NEW v,
           def.kind = "state" => v \in BOOLEAN, def.kind # "state" => v \in Int,
           MayFollow(d, Observation(def, st, v)),
           def.kind = "accumulated-count" => st.next_sequence = st.evaluation.counter + 1,
           def.kind = "state" => st.evaluation.initialized /\ st.evaluation.active = v
    PROVE  Sound(Publish(c, def, st, v), n) /\ Current(Publish(c, def, st, v), n, def)
<1> SUFFICES ASSUME NEW e, e = Publish(c, def, st, v) PROVE Sound(e, n) /\ Current(e, n, def)
  BY Zenon
<1> DEFINE row == Observation(def, st, v)
           new == [st EXCEPT !.next_sequence = @ + 1]
           id == def.id
           m == Len(d.outbox)
<1>1. /\ d \in Databases /\ c \in Databases /\ c.outbox = d.outbox /\ c.state = d.state
      /\ st \in PipelineStates /\ st.series <= n /\ st.hash = StructuralHash(def)
  BY Zenon DEF Holding, MayStore, Sound
<1>2. /\ id \in Ids /\ def # None /\ d.state \in [Ids -> PipelineStates \cup {None}]
  BY <1>1, DefinitionFacts, DatabaseFields, Zenon
<1>3. /\ e \in Databases /\ e.definition = c.definition
      /\ e.outbox = Append(d.outbox, row)
      /\ e.state = [d.state EXCEPT ![id] = new]
  BY <1>1, PublishFields, SMTT(30)
<1>4. /\ row \in Rows /\ row.id = id /\ row.kind = def.kind /\ row.series = st.series
      /\ row.sequence = st.next_sequence /\ row.value = v
  BY <1>1, ObservationFields
<1>5. /\ st.series \in Nat \ {0} /\ st.next_sequence \in Nat \ {0}
      /\ st.evaluation.counter \in Nat /\ st.series # None
      /\ st.evaluation.initialized \in BOOLEAN
  BY <1>1, StateFacts, Zenon
<1>6. /\ new.series = st.series /\ new.hash = st.hash /\ new.evaluation = st.evaluation
      /\ new.next_sequence = st.next_sequence + 1 /\ new \in PipelineStates
  BY <1>1, <1>5 DEF PipelineStates
<1>7. /\ Len(e.outbox) = m + 1 /\ m \in Nat
      /\ \A i \in 1 .. m : e.outbox[i] = d.outbox[i]
      /\ e.outbox[m + 1] = row
  BY <1>1, <1>3, <1>4, DatabaseFields, AppendFacts
<1>8. \A i \in 1 .. m : d.outbox[i].sequence \in Nat
  BY <1>1, DatabaseFields, RowFacts, Zenon
<1>9. MayFollow(d, row)
  BY Zenon
<1> HIDE DEF row, new, m
<1>10. \A i \in 1 .. m : d.outbox[i].series = st.series =>
          /\ d.outbox[i].id = id /\ d.outbox[i].kind = def.kind
          /\ d.outbox[i].sequence < st.next_sequence
  BY <1>4, <1>5, <1>9, Zenon DEF MayFollow, m
<1>11. Published(e, id, def.kind, new)
  <2>1. ASSUME NEW i \in 1 .. Len(e.outbox), e.outbox[i].series = new.series
        PROVE  /\ e.outbox[i].id = id /\ e.outbox[i].kind = def.kind
               /\ e.outbox[i].sequence < new.next_sequence
    <3>1. CASE i = m + 1
      BY <1>4, <1>5, <1>6, <1>7, <3>1
    <3>2. CASE i \in 1 .. m
      <4>1. e.outbox[i] = d.outbox[i] /\ d.outbox[i].series = st.series
            /\ d.outbox[i].sequence \in Nat
        BY <1>6, <1>7, <1>8, <2>1, <3>2, Zenon
      <4>2. /\ d.outbox[i].id = id /\ d.outbox[i].kind = def.kind
            /\ d.outbox[i].sequence < st.next_sequence
        BY <1>10, <3>2, <4>1, Zenon
      <4>3. d.outbox[i].sequence < st.next_sequence + 1
        BY <1>5, <4>1, <4>2
      <4>4. QED
        BY <1>6, <4>1, <4>2, <4>3, Zenon
    <3>3. QED
      BY <1>7, <2>1, <3>1, <3>2
  <2>2. /\ m + 1 \in 1 .. Len(e.outbox) /\ e.outbox[m + 1].series = new.series
        /\ e.outbox[m + 1].sequence = new.next_sequence - 1
        /\ def.kind = "state" => e.outbox[m + 1].value = new.evaluation.active
    BY <1>4, <1>5, <1>6, <1>7
  <2>3. def.kind = "accumulated-count" => new.next_sequence = new.evaluation.counter + 2
    BY <1>5, <1>6
  <2>4. def.kind = "state" => new.evaluation.initialized = (new.next_sequence > 1)
    BY <1>5, <1>6
  <2>5. QED
    BY <2>1, <2>2, <2>3, <2>4, Zenon DEF Published
<1>12. LastOnTopic(e, id, def.kind, m + 1) /\ e.outbox[m + 1].series = new.series
       /\ m + 1 \in 1 .. Len(e.outbox)
  BY <1>4, <1>6, <1>7 DEF LastOnTopic
<1>13. e.state[id] = new /\ \A a \in Ids : a # id => e.state[a] = d.state[a]
  BY <1>2, <1>3, Zenon
<1>14. /\ e.definition[id] = def
       /\ \A a \in Ids : a # id => e.definition[a] = d.definition[a]
  BY <1>3, Zenon DEF Holding
<1>15. \A a \in Ids : a # id /\ e.state[a] # None => e.state[a].series # new.series
  BY <1>6, <1>13, Zenon DEF MayStore
<1>16. Current(e, n, def)
  BY <1>1, <1>6, <1>11, <1>12, <1>13, <1>14, <1>15 DEF Current
<1>17. OneRowAt(d, e, n, id)
  <2>1. \A a \in Ids : a # id /\ d.state[a] # None => d.state[a].series # row.series
    BY <1>4, Zenon DEF MayStore
  <2>2. QED
    BY <1>1, <1>3, <1>4, <1>9, <2>1, Zenon DEF OneRowAt
<1>18. Sound(e, n)
  BY <1>2, <1>3, <1>13, <1>14, <1>16, <1>17, ChangedAt
<1>19. QED
  BY <1>16, <1>18, Zenon

\* Storing a state that the rows of its series account for.
LEMMA PutStateCurrent ==
    ASSUME NEW n \in Nat, NEW d, Sound(d, n), NEW def \in Definitions, NEW c, Holding(c, d, def),
           NEW st, MayStore(d, n, def, st), Published(d, def.id, def.kind, st),
           def.kind = "accumulated-count" =>
              \E i \in 1 .. Len(d.outbox) :
                 LastOnTopic(d, def.id, "accumulated-count", i) /\ d.outbox[i].series = st.series
    PROVE  Sound(PutState(c, def.id, st), n) /\ Current(PutState(c, def.id, st), n, def)
<1> SUFFICES ASSUME NEW e, e = PutState(c, def.id, st) PROVE Sound(e, n) /\ Current(e, n, def)
  BY Zenon
<1> DEFINE id == def.id
<1>1. /\ d \in Databases /\ c \in Databases /\ c.outbox = d.outbox /\ c.state = d.state
      /\ st \in PipelineStates /\ st.series <= n /\ st.hash = StructuralHash(def)
  BY Zenon DEF Holding, MayStore, Sound
<1>2. /\ id \in Ids /\ def # None /\ d.state \in [Ids -> PipelineStates \cup {None}]
  BY <1>1, DefinitionFacts, DatabaseFields, Zenon
<1>3. /\ e \in Databases /\ e.definition = c.definition /\ e.outbox = d.outbox
      /\ e.state = [d.state EXCEPT ![id] = st]
  BY <1>1, <1>2, PutStateFields
<1>4. e.state[id] = st /\ \A a \in Ids : a # id => e.state[a] = d.state[a]
  BY <1>2, <1>3, Zenon
<1>5. /\ e.definition[id] = def
      /\ \A a \in Ids : a # id => e.definition[a] = d.definition[a]
  BY <1>3, Zenon DEF Holding
<1>6. Published(e, id, def.kind, st)
  BY <1>3, SameRows
<1>7. def.kind = "accumulated-count" =>
         \E i \in 1 .. Len(e.outbox) :
            LastOnTopic(e, id, "accumulated-count", i) /\ e.outbox[i].series = st.series
  BY <1>3, SameRows, Zenon
<1>8. \A a \in Ids : a # id /\ e.state[a] # None => e.state[a].series # st.series
  BY <1>4, Zenon DEF MayStore
<1>9. Current(e, n, def)
  BY <1>1, <1>4, <1>5, <1>6, <1>7, <1>8, Zenon DEF Current
<1>10. Sound(e, n)
  BY <1>2, <1>3, <1>4, <1>5, <1>9, ChangedAt DEF OneRowAt
<1>11. QED
  BY <1>9, <1>10, Zenon

-----------------------------------------------------------------------------
(* The operations.                                                         *)

\* A new series is drawn after every series of the database.
LEMMA FreshSeries ==
    ASSUME NEW d, NEW n \in Nat, Sound(d, n)
    PROVE  /\ \A i \in 1 .. Len(d.outbox) : d.outbox[i].series # n + 1
           /\ \A a \in Ids : d.state[a] # None => d.state[a].series # n + 1
<1>1. d \in Databases /\ SeriesDrawn(d, n)
  BY Zenon DEF Sound, Consistent
<1>2. None \notin Int
  BY EvaluatorAssumption, Zenon DEF EvaluatorAssumption
<1>3. ASSUME NEW i \in 1 .. Len(d.outbox) PROVE d.outbox[i].series # n + 1
  <2>1. CASE d.outbox[i].series = None
    BY <1>2, <2>1
  <2>2. CASE d.outbox[i].series # None
    <3>1. d.outbox[i].series \in Nat /\ d.outbox[i].series <= n
      BY <1>1, <2>2, DatabaseFields, RowFacts, Zenon DEF SeriesDrawn
    <3>2. QED
      BY <3>1
  <2>3. QED
    BY <2>1, <2>2, Zenon
<1>4. ASSUME NEW a \in Ids, d.state[a] # None PROVE d.state[a].series # n + 1
  <2>1. d.state[a].series \in Nat /\ d.state[a].series <= n
    BY <1>1, <1>4, DatabaseFields, StateFacts, Zenon DEF SeriesDrawn
  <2>2. QED
    BY <2>1
<1>5. QED
  BY <1>3, <1>4, Zenon

\* The state a series starts with.
LEMMA NewStateFields ==
    ASSUME NEW def \in Definitions, NEW s \in Nat \ {0}
    PROVE  /\ NewState(def, s) \in PipelineStates
           /\ NewState(def, s).hash = StructuralHash(def)
           /\ NewState(def, s).series = s /\ NewState(def, s).next_sequence = 1
           /\ NewState(def, s).evaluation = FreshEvaluation
           /\ FreshEvaluation \in EvaluationState
           /\ FreshEvaluation.counter = 0 /\ FreshEvaluation.initialized = FALSE
<1>1. FreshEvaluation \in EvaluationState
  <2>1. MaxSafeInteger \in Nat
    BY EvaluatorAssumption, Zenon DEF EvaluatorAssumption
  <2>2. QED
    BY <2>1 DEF FreshEvaluation, EvaluationState
<1>2. FreshEvaluation.counter = 0 /\ FreshEvaluation.initialized = FALSE
  BY Zenon DEF FreshEvaluation
<1>3. StructuralHash(def) \in {StructuralHash(c) : c \in Candidates}
  BY DefinitionFacts, Zenon
<1>4. QED
  BY <1>1, <1>2, <1>3 DEF NewState, PipelineStates

\* start_series keeps the database sound, in every kind of pipeline.
LEMMA StartSound ==
    ASSUME NEW n \in Nat, NEW d, Sound(d, n), NEW def \in Definitions, NEW c, Holding(c, d, def)
    PROVE  /\ Sound(StartSeries(c, def, n + 1), n + 1)
           /\ Current(StartSeries(c, def, n + 1), n + 1, def)
           /\ StartSeries(c, def, n + 1).definition = c.definition
           /\ StartSeries(c, def, n + 1).state[def.id].series = n + 1
           /\ \A a \in Ids : a # def.id => StartSeries(c, def, n + 1).state[a] = d.state[a]
<1> DEFINE st == NewState(def, n + 1)
           id == def.id
           row == Observation(def, st, 0)
<1>1. Sound(d, n + 1) /\ d \in Databases /\ c \in Databases /\ c.state = d.state
  BY SoundLater, Zenon DEF Sound, Holding
<1>2. /\ st \in PipelineStates /\ st.hash = StructuralHash(def)
      /\ st.series = n + 1 /\ st.next_sequence = 1
      /\ st.evaluation.counter = 0 /\ st.evaluation.initialized = FALSE
  <2>1. n + 1 \in Nat \ {0}
    OBVIOUS
  <2>2. QED
    BY <2>1, NewStateFields, Zenon
<1>3. id \in Ids /\ c.state \in [Ids -> PipelineStates \cup {None}]
  BY <1>1, DefinitionFacts, DatabaseFields, Zenon
<1> HIDE DEF st
<1>4. MayStore(d, n + 1, def, st)
  BY <1>2, FreshSeries DEF MayStore
<1>5. CASE id \in Ids /\ def.kind = "accumulated-count"
  <2>1. StartSeries(c, def, n + 1) = Publish(c, def, st, 0)
    BY <1>5, Zenon DEF StartSeries, st
  <2>2. /\ row.id = id /\ row.kind = def.kind /\ row.series = n + 1
        /\ row.sequence = 1 /\ row.value = 0
    BY <1>2, <1>5, ObservationFields
  <2> HIDE DEF row
  <2>3. MayFollow(d, row)
    BY <1>5, <2>2, FreshSeries DEF MayFollow
  <2>4. Sound(Publish(c, def, st, 0), n + 1) /\ Current(Publish(c, def, st, 0), n + 1, def)
    <3>1. MayFollow(d, Observation(def, st, 0))
      BY <2>3, Zenon DEF row
    <3>2. n + 1 \in Nat /\ st.next_sequence = st.evaluation.counter + 1 /\ 0 \in Int
      BY <1>2
    <3>3. QED
      BY <1>1, <1>4, <1>5, <3>1, <3>2, PublishCurrent, Zenon
  <2>5. /\ Publish(c, def, st, 0).definition = c.definition
        /\ Publish(c, def, st, 0).state = [c.state EXCEPT ![id] = [st EXCEPT !.next_sequence = @ + 1]]
    BY <1>1, <1>2, <1>5, PublishFields
  <2>6. [st EXCEPT !.next_sequence = @ + 1].series = n + 1
    BY <1>2, Zenon DEF PipelineStates
  <2>7. QED
    BY <1>1, <1>3, <2>1, <2>4, <2>5, <2>6, Zenon
<1>6. CASE def.kind # "accumulated-count"
  <2>1. StartSeries(c, def, n + 1) = PutState(c, id, st)
    BY <1>6, Zenon DEF StartSeries, st
  <2>2. Published(d, id, def.kind, st)
    <3>1. {i \in 1 .. Len(d.outbox) : d.outbox[i].series = st.series} = {}
      BY <1>2, FreshSeries, Zenon
    <3>2. ~(st.next_sequence > 1)
      BY <1>2
    <3>3. st.evaluation.initialized = (st.next_sequence > 1)
      <4>1. (st.next_sequence > 1) = FALSE
        BY <3>2
      <4>2. QED
        BY <1>2, <4>1, Zenon
    <3>4. QED
      BY <1>6, <3>1, <3>2, <3>3, Zenon DEF Published
  <2>3. Sound(PutState(c, id, st), n + 1) /\ Current(PutState(c, id, st), n + 1, def)
    BY <1>1, <1>4, <1>6, <2>2, PutStateCurrent
  <2>4. /\ PutState(c, id, st).definition = c.definition
        /\ PutState(c, id, st).state = [c.state EXCEPT ![id] = st]
    BY <1>1, <1>2, <1>3, PutStateFields
  <2>5. QED
    BY <1>1, <1>2, <1>3, <2>1, <2>3, <2>4, Zenon
<1>7. QED
  BY <1>3, <1>5, <1>6, Zenon

\* The state of the series an evaluation ran in, with its result.
LEMMA EvaluatedState ==
    ASSUME NEW st \in PipelineStates, NEW ev \in EvaluationState
    PROVE  /\ [st EXCEPT !.evaluation = ev] \in PipelineStates
           /\ [st EXCEPT !.evaluation = ev].hash = st.hash
           /\ [st EXCEPT !.evaluation = ev].series = st.series
           /\ [st EXCEPT !.evaluation = ev].next_sequence = st.next_sequence
           /\ [st EXCEPT !.evaluation = ev].evaluation = ev
BY Zenon DEF PipelineStates

\* An input that settles nothing: the evaluation is stored, no row is added.
LEMMA SilentSound ==
    ASSUME NEW n \in Nat, NEW b, Sound(b, n), NEW def \in Definitions, Current(b, n, def),
           NEW r, Outcome(def, b.state[def.id].evaluation, r), r.error = None, r.value = None,
           NEW new, new = [b.state[def.id] EXCEPT !.evaluation = r.state]
    PROVE  Sound(PutState(b, def.id, new), n)
<1> DEFINE st == b.state[def.id]
           s == st.evaluation
           id == def.id
<1>1. /\ st \in PipelineStates /\ st.hash = StructuralHash(def) /\ st.series <= n
      /\ b.definition[id] = def /\ b \in Databases
      /\ \A a \in Ids : a # id /\ b.state[a] # None => b.state[a].series # st.series
      /\ Published(b, id, def.kind, st)
      /\ def.kind = "accumulated-count" =>
            \E i \in 1 .. Len(b.outbox) :
               LastOnTopic(b, id, "accumulated-count", i) /\ b.outbox[i].series = st.series
  BY Zenon DEF Current, Sound
<1>2. /\ r.state \in EvaluationState
      /\ def.kind = "state" => r.state.initialized /\ s.initialized /\ r.state.active = s.active
      /\ def.kind = "accumulated-count" => r.state.counter = s.counter
  BY Zenon DEF Outcome
<1>3. /\ new \in PipelineStates /\ new.hash = st.hash /\ new.series = st.series
      /\ new.next_sequence = st.next_sequence /\ new.evaluation = r.state
  BY <1>1, <1>2, EvaluatedState, Zenon
<1>4. Holding(b, b, def) /\ MayStore(b, n, def, new)
  BY <1>1, <1>3, Zenon DEF Holding, MayStore
<1>5. def.kind = "state" => new.evaluation.initialized = st.evaluation.initialized
  <2>1. s.initialized \in BOOLEAN /\ r.state.initialized \in BOOLEAN
    BY <1>1, <1>2, StateFacts, Zenon DEF EvaluationState
  <2>2. QED
    BY <1>2, <1>3, <2>1, Zenon
<1> HIDE DEF st, s
<1>6. Published(b, id, def.kind, new)
  BY <1>1, <1>2, <1>3, <1>5 DEF Published, s
<1>7. def.kind = "accumulated-count" =>
         \E i \in 1 .. Len(b.outbox) :
            LastOnTopic(b, id, "accumulated-count", i) /\ b.outbox[i].series = new.series
  BY <1>1, <1>3, Zenon
<1>8. QED
  BY <1>4, <1>6, <1>7, PutStateCurrent, Zenon

\* An input that settles something: the Observation is the next of its series.
LEMMA EmitSound ==
    ASSUME NEW n \in Nat, NEW b, Sound(b, n), NEW def \in Definitions, Current(b, n, def),
           NEW r, Outcome(def, b.state[def.id].evaluation, r), r.error = None, r.value # None,
           NEW new, new = [b.state[def.id] EXCEPT !.evaluation = r.state]
    PROVE  /\ Sound(Publish(b, def, new, r.value), n)
           /\ def.kind = "state" => r.value \in BOOLEAN
           /\ def.kind # "state" => r.value \in Int
<1> DEFINE st == b.state[def.id]
           s == st.evaluation
           id == def.id
           row == Observation(def, new, r.value)
<1>1. /\ st \in PipelineStates /\ st.hash = StructuralHash(def) /\ st.series <= n
      /\ b.definition[id] = def /\ b \in Databases
      /\ \A a \in Ids : a # id /\ b.state[a] # None => b.state[a].series # st.series
      /\ Published(b, id, def.kind, st)
  BY Zenon DEF Current, Sound
<1>2. /\ r.state \in EvaluationState
      /\ def.kind = "measurement" => r.value \in Int
      /\ def.kind = "state" => /\ r.state.initialized /\ r.value \in BOOLEAN
                               /\ r.state.active = r.value
                               /\ s.initialized => r.value = ~s.active
      /\ def.kind = "accumulated-count" => /\ r.value = s.counter + 1
                                           /\ r.state.counter = s.counter + 1
  BY Zenon DEF Outcome
<1>3. /\ new \in PipelineStates /\ new.hash = st.hash /\ new.series = st.series
      /\ new.next_sequence = st.next_sequence /\ new.evaluation = r.state
  BY <1>1, <1>2, EvaluatedState, Zenon
<1>4. /\ st.series \in Nat \ {0} /\ st.next_sequence \in Nat \ {0} /\ s.counter \in Nat
      /\ s.active \in BOOLEAN /\ s.initialized \in BOOLEAN /\ st.series # None
  BY <1>1, StateFacts, Zenon
<1>5. /\ def.kind = "state" => r.value \in BOOLEAN
      /\ def.kind # "state" => r.value \in Int
  BY <1>2, <1>4, DefinitionFacts DEF Kinds
<1>6. Holding(b, b, def) /\ MayStore(b, n, def, new)
  BY <1>1, <1>3, Zenon DEF Holding, MayStore
<1>7. /\ row.id = id /\ row.kind = def.kind /\ row.series = st.series
      /\ row.sequence = st.next_sequence /\ row.value = r.value
  <2>1. /\ row.id = id /\ row.kind = def.kind /\ row.series = new.series
        /\ row.sequence = new.next_sequence /\ row.value = r.value
    BY Zenon DEF Observation
  <2>2. QED
    BY <1>3, <2>1, Zenon
<1> HIDE DEF st, row, s
<1>8. /\ \A i \in 1 .. Len(b.outbox) : b.outbox[i].series = st.series =>
            /\ b.outbox[i].id = id /\ b.outbox[i].kind = def.kind
            /\ b.outbox[i].sequence < st.next_sequence
      /\ st.next_sequence > 1 =>
            \E i \in 1 .. Len(b.outbox) :
               /\ b.outbox[i].series = st.series
               /\ b.outbox[i].sequence = st.next_sequence - 1
               /\ def.kind = "state" => b.outbox[i].value = s.active
      /\ def.kind = "accumulated-count" => st.next_sequence = s.counter + 2
      /\ def.kind = "state" => s.initialized = (st.next_sequence > 1)
  BY <1>1, Zenon DEF Published, s
<1>9. MayFollow(b, row)
  <2>1. ASSUME st.next_sequence > 1, def.kind = "state" PROVE r.value = ~s.active
    <3>1. s.initialized
      BY <1>8, <2>1, Zenon
    <3>2. QED
      BY <1>2, <2>1, <3>1, Zenon
  <2>2. st.next_sequence > 1 =>
            \E i \in 1 .. Len(b.outbox) :
               /\ b.outbox[i].series = st.series
               /\ b.outbox[i].sequence = st.next_sequence - 1
               /\ def.kind = "state" => r.value = ~b.outbox[i].value
    BY <1>8, <2>1, Zenon
  <2>3. def.kind = "accumulated-count" => r.value = st.next_sequence - 1
    BY <1>2, <1>4, <1>8
  <2>4. QED
    BY <1>7, <1>8, <2>2, <2>3, Zenon DEF MayFollow
<1>10. /\ def.kind = "accumulated-count" => new.next_sequence = new.evaluation.counter + 1
       /\ def.kind = "state" => new.evaluation.initialized /\ new.evaluation.active = r.value
  <2>1. def.kind = "accumulated-count" => new.next_sequence = new.evaluation.counter + 1
    BY <1>2, <1>3, <1>4, <1>8
  <2>2. def.kind = "state" => new.evaluation.initialized /\ new.evaluation.active = r.value
    BY <1>2, <1>3, Zenon
  <2>3. QED
    BY <2>1, <2>2, Zenon
<1>11. Sound(Publish(b, def, new, r.value), n)
  BY <1>5, <1>6, <1>9, <1>10, PublishCurrent, Zenon DEF row
<1>12. QED
  BY <1>5, <1>11, Zenon

\* The series an input is evaluated in is current.
LEMMA UsableCurrent ==
    ASSUME NEW n \in Nat, NEW d, Sound(d, n), NEW def \in Definitions, d.definition[def.id] = def,
           NEW m, m = IF Continues(d, def) THEN n ELSE n + 1,
           NEW b, b = Usable(d, def, n + 1)
    PROVE  /\ m \in Nat /\ Sound(b, m) /\ Current(b, m, def)
           /\ b.definition = d.definition
           /\ \A a \in Ids : a # def.id => b.state[a] = d.state[a]
           /\ Continues(d, def) => b = d
           /\ ~Continues(d, def) => b.state[def.id].series = n + 1
<1>1. d \in Databases /\ def.id \in Ids
  BY DefinitionFacts, Zenon DEF Sound
<1>2. CASE Continues(d, def)
  <2>1. b = d /\ m = n
    BY <1>2, Zenon DEF Usable
  <2>2. Current(d, n, def)
    BY <1>1, <1>2, SoundIsCurrent, Zenon DEF Continues
  <2>3. QED
    BY <1>2, <2>1, <2>2, Zenon
<1>3. CASE ~Continues(d, def)
  <2>1. b = StartSeries(d, def, n + 1) /\ m = n + 1
    BY <1>3, Zenon DEF Usable
  <2>2. Holding(d, d, def)
    BY <1>1, Zenon DEF Holding
  <2>3. QED
    BY <1>3, <2>1, <2>2, StartSound
<1>4. QED
  BY <1>2, <1>3, Zenon

\* State x continues the series of state y.
Advances(x, y) ==
    /\ x.series = y.series
    /\ x.next_sequence >= y.next_sequence
    /\ x.evaluation.counter >= y.evaluation.counter

\* process keeps the database sound, and goes on in the series it uses.
LEMMA ProcessSound ==
    ASSUME NEW n \in Nat, NEW d, Sound(d, n), NEW def \in Definitions, d.definition[def.id] = def,
           NEW input \in Int, uptime \in Nat,
           NEW m, m = IF Continues(d, def) THEN n ELSE n + 1,
           NEW e, e = Process(d, def, input, n + 1)
    PROVE  /\ Sound(e, m)
           /\ e.definition = d.definition
           /\ \A a \in Ids : a # def.id => e.state[a] = d.state[a]
           /\ Continues(d, def) => Advances(e.state[def.id], d.state[def.id])
           /\ ~Continues(d, def) => e.state[def.id].series = n + 1
<1> DEFINE r == Evaluated(d, def, input, n + 1)
           id == def.id
<1>1. PICK b : b = Usable(d, def, n + 1)
  BY Zenon
<1>2. /\ m \in Nat /\ Sound(b, m) /\ Current(b, m, def)
      /\ b.definition = d.definition
      /\ \A a \in Ids : a # id => b.state[a] = d.state[a]
      /\ Continues(d, def) => b = d
      /\ ~Continues(d, def) => b.state[id].series = n + 1
  BY <1>1, UsableCurrent
<1>3. /\ b.state[id] \in PipelineStates /\ b \in Databases /\ id \in Ids
      /\ b.state \in [Ids -> PipelineStates \cup {None}]
  BY <1>2, DefinitionFacts, DatabaseFields, Zenon DEF Current, Sound
<1>4. b.state[id].evaluation \in EvaluationState /\ b.state[id].next_sequence \in Nat
      /\ b.state[id].evaluation.counter \in Nat
  BY <1>3, StateFacts, Zenon
<1>5. r = Evaluate(def, b.state[id].evaluation, input, uptime)
  BY <1>1, Zenon DEF Evaluated
<1>6. Outcome(def, b.state[id].evaluation, r)
  BY <1>4, <1>5, EvaluateFacts, Zenon
<1> DEFINE new == [b.state[id] EXCEPT !.evaluation = r.state]
<1>7. /\ r.error # None => e = b
      /\ r.error = None /\ r.value = None => e = PutState(b, id, new)
      /\ r.error = None /\ r.value # None => e = Publish(b, def, new, r.value)
  BY <1>1, Zenon DEF Process
<1> HIDE DEF r
<1>8. ASSUME r.error = None
      PROVE  /\ new \in PipelineStates /\ new.series = b.state[id].series
             /\ new.next_sequence = b.state[id].next_sequence
             /\ new.evaluation = r.state /\ r.state.counter >= b.state[id].evaluation.counter
  <2>1. r.state \in EvaluationState /\ r.state.counter >= b.state[id].evaluation.counter
    BY <1>6, <1>8, Zenon DEF Outcome
  <2>2. QED
    BY <1>3, <2>1, EvaluatedState, Zenon
<1>9. /\ Sound(e, m) /\ e.definition = b.definition
      /\ \A a \in Ids : a # id => e.state[a] = b.state[a]
      /\ Advances(e.state[id], b.state[id])
  <2>1. CASE r.error # None
    <3>1. Advances(b.state[id], b.state[id])
      BY <1>4 DEF Advances
    <3>2. QED
      BY <1>2, <1>7, <2>1, <3>1, Zenon
  <2>2. CASE r.error = None /\ r.value = None
    <3>1. e = PutState(b, id, new)
      BY <1>7, <2>2, Zenon
    <3> HIDE DEF new
    <3>2. Sound(e, m)
      BY <1>2, <1>6, <2>2, <3>1, SilentSound DEF new
    <3>3. e.definition = b.definition /\ e.state = [b.state EXCEPT ![id] = new]
      BY <1>3, <1>8, <2>2, <3>1, PutStateFields
    <3>4. Advances(new, b.state[id])
      BY <1>4, <1>8, <2>2 DEF Advances
    <3>5. QED
      BY <1>3, <3>2, <3>3, <3>4, Zenon
  <2>3. CASE r.error = None /\ r.value # None
    <3> DEFINE last == [new EXCEPT !.next_sequence = @ + 1]
    <3>1. e = Publish(b, def, new, r.value)
      BY <1>7, <2>3, Zenon
    <3> HIDE DEF new
    <3>2. /\ Sound(e, m)
          /\ def.kind = "state" => r.value \in BOOLEAN
          /\ def.kind # "state" => r.value \in Int
      BY <1>2, <1>6, <2>3, <3>1, EmitSound DEF new
    <3>3. e.definition = b.definition /\ e.state = [b.state EXCEPT ![id] = last]
      BY <1>3, <1>8, <2>3, <3>1, <3>2, PublishFields
    <3>4. /\ last.series = new.series /\ last.evaluation = new.evaluation
          /\ last.next_sequence = new.next_sequence + 1
      BY <1>8, <2>3, Zenon DEF PipelineStates
    <3> HIDE DEF last
    <3>5. Advances(last, b.state[id])
      BY <1>4, <1>8, <2>3, <3>4 DEF Advances
    <3>6. QED
      BY <1>3, <3>2, <3>3, <3>5, Zenon
  <2>4. QED
    BY <2>1, <2>2, <2>3, Zenon
<1>10. CASE Continues(d, def)
  BY <1>2, <1>9, <1>10, Zenon
<1>11. CASE ~Continues(d, def)
  BY <1>2, <1>9, <1>11, Zenon DEF Advances
<1>12. QED
  BY <1>10, <1>11, Zenon

\* A pipeline without a state is one the database says nothing else about.
LEMMA DeleteSound ==
    ASSUME NEW n \in Nat, NEW d, Sound(d, n), NEW id \in Ids,
           NEW e, e = DeleteDefinition(d, id)
    PROVE  /\ Sound(e, n) /\ e.definition[id] = None /\ e.state[id] = None
           /\ \A a \in Ids : a # id => e.state[a] = d.state[a] /\ e.definition[a] = d.definition[a]
<1>1. /\ d \in Databases /\ d.definition \in [Ids -> Definitions \cup {None}]
      /\ d.state \in [Ids -> PipelineStates \cup {None}]
  BY DatabaseFields, Zenon DEF Sound
<1>2. /\ e \in Databases /\ e.outbox = d.outbox
      /\ e.definition = [d.definition EXCEPT ![id] = None]
      /\ e.state = [d.state EXCEPT ![id] = None]
  BY <1>1, DeleteFields, Zenon
<1>3. /\ e.definition[id] = None /\ e.state[id] = None
      /\ \A a \in Ids : a # id => e.state[a] = d.state[a] /\ e.definition[a] = d.definition[a]
  BY <1>1, <1>2, Zenon
<1>4. Sound(e, n)
  <2>1. OneRowAt(d, e, n, id)
    BY <1>2, Zenon DEF OneRowAt
  <2>2. e \in Databases
    BY <1>2, Zenon
  <2>3. QED
    BY <1>3, <2>1, <2>2, ChangedAt, Zenon
<1>5. QED
  BY <1>3, <1>4, Zenon

\* The zero-length retained payload belongs to no series.
LEMMA DeletionSound ==
    ASSUME NEW n \in Nat, NEW d, Sound(d, n), NEW def \in Definitions,
           d.state[def.id] = None, NEW e, e = EnqueueDeletion(d, def)
    PROVE  Sound(e, n) /\ e.definition = d.definition /\ e.state = d.state
<1>1. d \in Databases /\ def.id \in Ids /\ StateOfDefinition(d)
  BY DefinitionFacts, Zenon DEF Sound, Consistent
<1>2. /\ e \in Databases /\ e.definition = d.definition /\ e.state = d.state
      /\ e.outbox = Append(d.outbox, Deletion(def))
      /\ Deletion(def) \in Rows /\ Deletion(def).id = def.id /\ Deletion(def).series = None
  BY <1>1, DeletionFields, Zenon
<1>3. \A a \in Ids : d.state[a] # None => d.state[a].series # None
  BY <1>1, DatabaseFields, StateFacts, Zenon
<1>4. OneRowAt(d, e, n, def.id)
  BY <1>2, <1>3, Zenon DEF OneRowAt, MayFollow
<1>5. e.definition[def.id] # None => e.definition[def.id].id = def.id
  BY <1>1, <1>2, Zenon DEF StateOfDefinition
<1>6. Sound(e, n)
  BY <1>1, <1>2, <1>4, <1>5, ChangedAt, Zenon
<1>7. QED
  BY <1>2, <1>6, Zenon

\* A tuning change keeps the series: the structural fields are the same.
LEMMA TuneSound ==
    ASSUME NEW n \in Nat, NEW d, Sound(d, n), NEW def \in Definitions, Continues(d, def),
           NEW e, e = PutDefinition(d, def)
    PROVE  /\ Sound(e, n) /\ e.state = d.state
           /\ e.definition[def.id] = def
           /\ \A a \in Ids : a # def.id => e.definition[a] = d.definition[a]
           /\ StructuralHash(d.definition[def.id]) = StructuralHash(def)
<1> DEFINE id == def.id
           old == d.definition[id]
           st == d.state[id]
<1>1. d \in Databases /\ id \in Ids /\ st # None /\ st.hash = StructuralHash(def)
  BY DefinitionFacts, Zenon DEF Sound, Continues
<1>2. /\ e \in Databases /\ e.definition[id] = def /\ e.state = d.state /\ e.outbox = d.outbox
      /\ \A a \in Ids : a # id => e.definition[a] = d.definition[a]
  BY <1>1, PutDefinitionHolds, Zenon DEF Holding
<1>3. old \in Definitions /\ old.id = id /\ Current(d, n, old)
  BY <1>1, SoundIsCurrent, Zenon
<1>4. StructuralHash(old) = StructuralHash(def)
  BY <1>1, <1>3, Zenon DEF Current
<1>5. old.kind = def.kind
  BY <1>4, Zenon DEF StructuralHash
<1>6. /\ st \in PipelineStates /\ st.series <= n
      /\ \A a \in Ids : a # id /\ d.state[a] # None => d.state[a].series # st.series
      /\ Published(d, id, def.kind, st)
      /\ def.kind = "accumulated-count" =>
            \E i \in 1 .. Len(d.outbox) :
               LastOnTopic(d, id, "accumulated-count", i) /\ d.outbox[i].series = st.series
  BY <1>3, <1>5, Zenon DEF Current
<1>7. /\ Published(e, id, def.kind, st)
      /\ def.kind = "accumulated-count" =>
            \E i \in 1 .. Len(e.outbox) :
               LastOnTopic(e, id, "accumulated-count", i) /\ e.outbox[i].series = st.series
  BY <1>2, <1>6, SameRows, Zenon
<1>8. Current(e, n, def)
  BY <1>1, <1>2, <1>6, <1>7, Zenon DEF Current
<1>9. Sound(e, n)
  BY <1>1, <1>2, <1>8, ChangedAt DEF OneRowAt
<1>10. QED
  BY <1>2, <1>4, <1>9, Zenon

\* The database d without the state of pipeline id.
Lost(d, id) == [d EXCEPT !.state[id] = None]

\* Losing a state leaves the pipeline without one.
LEMMA LostSound ==
    ASSUME NEW n \in Nat, NEW d, Sound(d, n), NEW id \in Ids,
           NEW e, e = Lost(d, id)
    PROVE  /\ Sound(e, n) /\ e.state[id] = None
           /\ \A a \in Ids : a # id => e.state[a] = d.state[a] /\ e.definition[a] = d.definition[a]
<1>1. /\ d \in Databases /\ StateOfDefinition(d)
      /\ d.definition \in [Ids -> Definitions \cup {None}]
      /\ d.state \in [Ids -> PipelineStates \cup {None}]
  BY DatabaseFields, Zenon DEF Sound, Consistent
<1>2. e = [definition |-> d.definition, state |-> [d.state EXCEPT ![id] = None],
           outbox |-> d.outbox]
  BY <1>1, DatabaseIsFields, Zenon DEF Databases, Lost
<1>3. [d.state EXCEPT ![id] = None] \in [Ids -> PipelineStates \cup {None}]
  BY <1>1, Zenon
<1>4. e \in Databases
  BY <1>1, <1>2, <1>3, DatabaseFields, Zenon DEF Databases
<1>5. /\ e.state[id] = None /\ e.definition = d.definition /\ e.outbox = d.outbox
      /\ \A a \in Ids : a # id => e.state[a] = d.state[a]
  BY <1>1, <1>2
<1>6. e.definition[id] # None => e.definition[id].id = id
  BY <1>1, <1>5, ZenonT(40) DEF StateOfDefinition
<1>7. Sound(e, n)
  BY <1>4, <1>5, <1>6, ChangedAt DEF OneRowAt
<1>8. QED
  BY <1>5, <1>7, Zenon

-----------------------------------------------------------------------------
(* What a transaction may do to the series.                                *)

\* Nothing happened.
LEMMA FollowsItself ==
    ASSUME NEW d \in Databases
    PROVE  Follows(d, d)
<1>1. ASSUME NEW id \in Ids, d.state[id] # None PROVE FollowsAt(d, d, id)
  <2>1. d.state[id].next_sequence \in Nat /\ d.state[id].evaluation.counter \in Nat
    BY <1>1, DatabaseFields, StateFacts, Zenon
  <2>2. QED
    BY <2>1 DEF FollowsAt
<1>2. ASSUME NEW id \in Ids, d.state[id] = None PROVE FollowsAt(d, d, id)
  BY <1>2, Zenon DEF FollowsAt
<1>3. QED
  BY <1>1, <1>2, Zenon DEF Follows

\* Another pipeline changed.
LEMMA FollowsElsewhere ==
    ASSUME NEW d, NEW t, NEW e, NEW a, FollowsAt(d, t, a),
           e.state[a] = t.state[a], e.definition[a] = t.definition[a]
    PROVE  FollowsAt(d, e, a)
BY Zenon DEF FollowsAt

\* A new series carries an id that no earlier Observation carries.
LEMMA FollowsAfresh ==
    ASSUME NEW n \in Nat, NEW d, Sound(d, n), NEW e, NEW id \in Ids,
           e.state[id].series = n + 1
    PROVE  FollowsAt(d, e, id)
BY FreshSeries, Zenon DEF FollowsAt

\* The pipeline has no state any more.
LEMMA FollowsGone ==
    ASSUME NEW d, NEW e, NEW id, e.state[id] = None
    PROVE  FollowsAt(d, e, id)
BY Zenon DEF FollowsAt

\* The series goes on under the definition it was started with.
LEMMA FollowsOn ==
    ASSUME NEW d \in Databases, NEW t \in Databases, NEW e \in Databases, NEW id \in Ids,
           FollowsAt(d, t, id), t.state[id] # None, Advances(e.state[id], t.state[id]),
           t.definition[id] = d.definition[id], e.definition[id] = d.definition[id]
    PROVE  FollowsAt(d, e, id)
<1> DEFINE old == d.state[id]
           mid == t.state[id]
           new == e.state[id]
<1> SUFFICES ASSUME old # None, new # None PROVE FollowsAt(d, e, id)
  BY Zenon DEF FollowsAt
<1>1. /\ old.next_sequence \in Nat /\ old.evaluation.counter \in Nat
      /\ mid.next_sequence \in Nat /\ mid.evaluation.counter \in Nat
      /\ new.next_sequence \in Nat /\ new.evaluation.counter \in Nat
  BY DatabaseFields, StateFacts, ZenonT(40)
<1>2. new.series = mid.series /\ new.next_sequence >= mid.next_sequence
      /\ new.evaluation.counter >= mid.evaluation.counter
  BY Zenon DEF Advances
<1>3. CASE new.series = old.series
  <2>1. mid.next_sequence >= old.next_sequence /\ mid.evaluation.counter >= old.evaluation.counter
    BY <1>2, <1>3, Zenon DEF FollowsAt
  <2>2. new.next_sequence >= old.next_sequence /\ new.evaluation.counter >= old.evaluation.counter
    BY <1>1, <1>2, <2>1
  <2>3. QED
    BY <1>3, <2>2, Zenon DEF FollowsAt
<1>4. CASE new.series # old.series
  BY <1>2, <1>4, Zenon DEF FollowsAt
<1>5. QED
  BY <1>3, <1>4, Zenon

\* A tuning change touches neither the series nor its structural fields.
LEMMA FollowsTuned ==
    ASSUME NEW d \in Databases, NEW e, NEW id \in Ids, e.state[id] = d.state[id],
           StructuralHash(e.definition[id]) = StructuralHash(d.definition[id])
    PROVE  FollowsAt(d, e, id)
<1>1. CASE d.state[id] = None
  BY <1>1, Zenon DEF FollowsAt
<1>2. CASE d.state[id] # None
  <2>1. d.state[id].next_sequence \in Nat /\ d.state[id].evaluation.counter \in Nat
    BY <1>2, DatabaseFields, StateFacts, Zenon
  <2>2. QED
    BY <2>1 DEF FollowsAt
<1>3. QED
  BY <1>1, <1>2, Zenon

-----------------------------------------------------------------------------
(* The inductive invariant and its steps.                                  *)

\* What the steps preserve: besides EngineInvariant, the working copy follows
\* what is committed and keeps the retained counts.
EngineSteps ==
    /\ EngineInvariant
    /\ CurrentCount(db) /\ CurrentCount(tx)
    /\ Follows(db, tx)

\* The invariant, in the form the steps use it.
LEMMA EngineFacts ==
    ASSUME EngineSteps
    PROVE  /\ Sound(db, drawn) /\ Sound(tx, drawn) /\ Follows(db, tx)
           /\ TypeOK /\ TodoAgrees
           /\ db \in Databases /\ tx \in Databases /\ drawn \in Nat /\ uptime \in Nat
           /\ busy = "no" => tx = db /\ todo = {}
BY Zenon DEF EngineSteps, EngineInvariant, TypeOK, Sound

\* A step inside a transaction, or one that opens it.
LEMMA WithinTransaction ==
    ASSUME EngineSteps, db' = db, Sound(tx', drawn'), Follows(db, tx'), drawn' \in {drawn, drawn + 1},
           TypeOK', TodoAgrees', busy' = "no" => tx' = db /\ todo' = {}
    PROVE  EngineSteps'
<1>1. Sound(db, drawn') /\ drawn \in Nat
  BY EngineFacts, SoundLater, Zenon
<1>2. /\ Consistent(db', drawn') /\ CurrentCount(db') /\ Follows(db', tx')
      /\ Consistent(tx', drawn') /\ CurrentCount(tx')
  BY <1>1, Zenon DEF Sound
<1>3. Consistent(db, drawn)' /\ Consistent(tx, drawn)' /\ CurrentCount(db)' /\ CurrentCount(tx)'
      /\ Follows(db, tx)'
  BY <1>2, Zenon
<1>4. QED
  BY <1>3, Zenon DEF EngineSteps, EngineInvariant

\* A transaction opens with its first change to the working copy.
LEMMA OpensTransaction ==
    ASSUME EngineSteps, NEW who \in {"operation", "reconcile", "delivery"}, Begin(who),
           Sound(tx', drawn'), Follows(db, tx'), drawn' \in {drawn, drawn + 1},
           discarded' \subseteq Ids, \A step \in todo' : step.def \in Definitions, TodoAgrees'
    PROVE  EngineSteps'
<1>1. /\ busy' = who /\ UNCHANGED <<db, recorded, running, faults, uptime>>
  BY Zenon DEF Begin
<1>2. drawn' \in Nat /\ tx' \in Databases
  BY EngineFacts DEF Sound
<1>3. TypeOK'
  BY <1>1, <1>2, EngineFacts, Zenon DEF TypeOK
<1>4. busy' # "no"
  BY <1>1, Zenon
<1>5. QED
  BY <1>1, <1>3, <1>4, WithinTransaction, Zenon

\* A series starts in the working copy.
LEMMA StartFollows ==
    ASSUME EngineSteps, NEW def \in Definitions, NEW c, Holding(c, tx, def), Start(c, def)
    PROVE  /\ Sound(tx', drawn') /\ Follows(db, tx') /\ drawn' \in {drawn, drawn + 1}
           /\ tx'.definition = c.definition
<1>1. /\ Sound(db, drawn) /\ Sound(tx, drawn) /\ Follows(db, tx) /\ drawn \in Nat
  BY EngineFacts, Zenon
<1>2. tx' = StartSeries(c, def, drawn + 1) /\ drawn' = drawn + 1
  BY Zenon DEF Start
<1>3. /\ Sound(tx', drawn') /\ tx'.definition = c.definition
      /\ tx'.state[def.id].series = drawn + 1
      /\ \A a \in Ids : a # def.id => tx'.state[a] = tx.state[a]
  BY <1>1, <1>2, StartSound
<1>4. \A a \in Ids : a # def.id => tx'.definition[a] = tx.definition[a]
  BY <1>3, Zenon DEF Holding
<1>5. ASSUME NEW a \in Ids PROVE FollowsAt(db, tx', a)
  <2>1. CASE a = def.id
    BY <1>1, <1>3, <2>1, FollowsAfresh, Zenon
  <2>2. CASE a # def.id
    <3>1. FollowsAt(db, tx, a) /\ tx'.state[a] = tx.state[a]
          /\ tx'.definition[a] = tx.definition[a]
      BY <1>1, <1>3, <1>4, <2>2, Zenon DEF Follows
    <3>2. QED
      BY <3>1, FollowsElsewhere, Zenon
  <2>3. QED
    BY <2>1, <2>2, Zenon
<1>6. QED
  BY <1>2, <1>3, <1>5, Zenon DEF Follows

\* An operation of one step has no steps left.
LEMMA OneStepOperation ==
    ASSUME EngineSteps, Begin("operation"), UNCHANGED todo
    PROVE  /\ tx = db /\ TodoAgrees' /\ \A step \in todo' : step.def \in Definitions
           /\ discarded \subseteq Ids
<1>1. busy = "no" /\ busy' = "operation"
  BY Zenon DEF Begin
<1>2. tx = db /\ todo' = {} /\ discarded \subseteq Ids
  BY <1>1, EngineFacts, Zenon DEF TypeOK
<1>3. QED
  BY <1>1, <1>2, Zenon DEF TodoAgrees

\* create: the new pipeline starts a series.
LEMMA CreateStep ==
    ASSUME EngineSteps, NEW def \in Candidates, Create(def)
    PROVE  EngineSteps'
<1>1. /\ Begin("operation") /\ UNCHANGED todo /\ discarded' = discarded
      /\ Start(PutDefinition(db, def), def) /\ def \in Definitions
  BY Zenon DEF Create, Definitions
<1>2. /\ tx = db /\ TodoAgrees' /\ \A step \in todo' : step.def \in Definitions
      /\ discarded' \subseteq Ids
  BY <1>1, OneStepOperation, Zenon
<1>3. Holding(PutDefinition(db, def), tx, def)
  BY <1>1, <1>2, EngineFacts, PutDefinitionHolds, Zenon
<1>4. Sound(tx', drawn') /\ Follows(db, tx') /\ drawn' \in {drawn, drawn + 1}
  BY <1>1, <1>3, StartFollows, Zenon
<1>5. QED
  BY <1>1, <1>2, <1>4, OpensTransaction, Zenon

\* An update that keeps the structural fields keeps the series.
LEMMA TuneFollows ==
    ASSUME EngineSteps, tx = db, NEW def \in Definitions, Continues(db, def),
           tx' = PutDefinition(db, def)
    PROVE  Sound(tx', drawn) /\ Follows(db, tx')
<1>1. Sound(db, drawn) /\ drawn \in Nat /\ db \in Databases
  BY EngineFacts, Zenon
<1>2. /\ Sound(tx', drawn) /\ tx'.state = db.state /\ tx'.definition[def.id] = def
      /\ \A a \in Ids : a # def.id => tx'.definition[a] = db.definition[a]
      /\ StructuralHash(db.definition[def.id]) = StructuralHash(def)
  BY <1>1, TuneSound
<1>3. ASSUME NEW a \in Ids PROVE FollowsAt(db, tx', a)
  <2>1. tx'.state[a] = db.state[a]
    BY <1>2, Zenon
  <2>2. StructuralHash(tx'.definition[a]) = StructuralHash(db.definition[a])
    <3>1. CASE a = def.id
      BY <1>2, <3>1, Zenon
    <3>2. CASE a # def.id
      BY <1>2, <3>2, Zenon
    <3>3. QED
      BY <3>1, <3>2, Zenon
  <2>3. QED
    BY <1>1, <2>1, <2>2, FollowsTuned, Zenon
<1>4. QED
  BY <1>2, <1>3, Zenon DEF Follows

\* update: a tuning change keeps the series, another one starts a new one.
LEMMA UpdateStep ==
    ASSUME EngineSteps, NEW def \in Candidates, Update(def)
    PROVE  EngineSteps'
<1>1. /\ Begin("operation") /\ UNCHANGED todo /\ discarded' = discarded /\ def \in Definitions
  BY Zenon DEF Update, Definitions
<1>2. /\ tx = db /\ TodoAgrees' /\ \A step \in todo' : step.def \in Definitions
      /\ discarded' \subseteq Ids
  BY <1>1, OneStepOperation, Zenon
<1>3. Sound(tx', drawn') /\ Follows(db, tx') /\ drawn' \in {drawn, drawn + 1}
  <2>1. CASE Continues(db, def)
    <3>1. tx' = PutDefinition(db, def) /\ drawn' = drawn
      BY <2>1, Zenon DEF Update
    <3>2. QED
      BY <1>1, <1>2, <2>1, <3>1, TuneFollows, Zenon
  <2>2. CASE ~Continues(db, def)
    <3>1. Start(PutDefinition(db, def), def)
      BY <2>2, Zenon DEF Update
    <3>2. Holding(PutDefinition(db, def), tx, def)
      BY <1>1, <1>2, EngineFacts, PutDefinitionHolds, Zenon
    <3>3. QED
      BY <1>1, <3>1, <3>2, StartFollows, Zenon
  <2>3. QED
    BY <2>1, <2>2, Zenon
<1>4. QED
  BY <1>1, <1>2, <1>3, OpensTransaction, Zenon

\* A definition stored in a sound database is one of its own id.
LEMMA StoredDefinition ==
    ASSUME NEW d, NEW n, Sound(d, n), NEW id \in Ids, d.definition[id] # None
    PROVE  d.definition[id] \in Definitions /\ d.definition[id].id = id
<1>1. d \in Databases /\ StateOfDefinition(d)
  BY Zenon DEF Sound, Consistent
<1>2. QED
  BY <1>1, DatabaseFields DEF StateOfDefinition

\* A definition goes from the working copy, with or without the deletion of
\* its retained value.
LEMMA DeleteFollows ==
    ASSUME EngineSteps, NEW def \in Definitions, NEW kept,
           tx' = LET gone == DeleteDefinition(tx, def.id)
                 IN  IF kept THEN gone ELSE EnqueueDeletion(gone, def)
    PROVE  Sound(tx', drawn) /\ Follows(db, tx')
<1>1. /\ Sound(tx, drawn) /\ Follows(db, tx) /\ drawn \in Nat /\ def.id \in Ids
  BY EngineFacts, DefinitionFacts, Zenon
<1>2. PICK gone : gone = DeleteDefinition(tx, def.id)
  BY Zenon
<1>3. /\ Sound(gone, drawn) /\ gone.definition[def.id] = None /\ gone.state[def.id] = None
      /\ \A a \in Ids : a # def.id => /\ gone.state[a] = tx.state[a]
                                      /\ gone.definition[a] = tx.definition[a]
  BY <1>1, <1>2, DeleteSound
<1>4. Sound(tx', drawn) /\ tx'.definition = gone.definition /\ tx'.state = gone.state
  <2>1. CASE kept
    BY <1>2, <1>3, <2>1, Zenon
  <2>2. CASE ~kept
    <3>1. tx' = EnqueueDeletion(gone, def)
      BY <1>2, <2>2, Zenon
    <3>2. QED
      BY <1>1, <1>3, <3>1, DeletionSound
  <2>3. QED
    BY <2>1, <2>2, Zenon
<1>5. ASSUME NEW a \in Ids PROVE FollowsAt(db, tx', a)
  <2>1. CASE a = def.id
    <3>1. tx'.state[a] = None
      BY <1>3, <1>4, <2>1, Zenon
    <3>2. QED
      BY <3>1, FollowsGone, Zenon
  <2>2. CASE a # def.id
    <3>1. FollowsAt(db, tx, a) /\ tx'.state[a] = tx.state[a]
          /\ tx'.definition[a] = tx.definition[a]
      BY <1>1, <1>3, <1>4, <2>2, Zenon DEF Follows
    <3>2. QED
      BY <3>1, FollowsElsewhere, Zenon
  <2>3. QED
    BY <2>1, <2>2, Zenon
<1>6. QED
  BY <1>4, <1>5, Zenon DEF Follows

\* delete: the definition, its state and its retained value go.
LEMMA DeleteStep ==
    ASSUME EngineSteps, NEW id \in Ids, Delete(id)
    PROVE  EngineSteps'
<1>1. /\ Begin("operation") /\ UNCHANGED todo /\ discarded' = discarded /\ drawn' = drawn
      /\ db.definition[id] # None
      /\ tx' = EnqueueDeletion(DeleteDefinition(db, id), db.definition[id])
  BY Zenon DEF Delete
<1>2. /\ tx = db /\ TodoAgrees' /\ \A step \in todo' : step.def \in Definitions
      /\ discarded' \subseteq Ids
  BY <1>1, OneStepOperation, Zenon
<1>3. db.definition[id] \in Definitions /\ db.definition[id].id = id
  BY <1>1, EngineFacts, StoredDefinition, Zenon
<1>4. Sound(tx', drawn) /\ Follows(db, tx')
  <2>1. PICK def : def = db.definition[id]
    BY Zenon
  <2>2. tx' = LET gone == DeleteDefinition(tx, def.id)
              IN  IF FALSE THEN gone ELSE EnqueueDeletion(gone, def)
    BY <1>1, <1>2, <1>3, <2>1, Zenon
  <2>3. QED
    BY <1>3, <2>1, <2>2, DeleteFollows, Zenon
<1>5. QED
  BY <1>1, <1>2, <1>4, OpensTransaction, Zenon

\* reset: the pipeline starts a new series under the definition it has.
LEMMA ResetStep ==
    ASSUME EngineSteps, NEW id \in Ids, Reset(id)
    PROVE  EngineSteps'
<1>1. /\ Begin("operation") /\ UNCHANGED todo /\ discarded' = discarded
      /\ db.definition[id] # None /\ Start(db, db.definition[id])
  BY Zenon DEF Reset
<1>2. /\ tx = db /\ TodoAgrees' /\ \A step \in todo' : step.def \in Definitions
      /\ discarded' \subseteq Ids
  BY <1>1, OneStepOperation, Zenon
<1>3. db.definition[id] \in Definitions /\ db.definition[id].id = id
  BY <1>1, EngineFacts, StoredDefinition, Zenon
<1>4. Holding(db, tx, db.definition[id])
  BY <1>2, <1>3, EngineFacts, Zenon DEF Holding
<1>5. Sound(tx', drawn') /\ Follows(db, tx') /\ drawn' \in {drawn, drawn + 1}
  BY <1>1, <1>3, <1>4, StartFollows, Zenon
<1>6. QED
  BY <1>1, <1>2, <1>5, OpensTransaction, Zenon

\* A transaction that has changed nothing yet.
LEMMA OpensUnchanged ==
    ASSUME EngineSteps, NEW who \in {"operation", "reconcile", "delivery"}, Begin(who),
           tx' = db, drawn' = drawn, discarded' \subseteq Ids,
           \A step \in todo' : step.def \in Definitions, TodoAgrees'
    PROVE  EngineSteps'
<1>1. Sound(tx', drawn') /\ Follows(db, tx')
  BY EngineFacts, FollowsItself, Zenon
<1>2. QED
  BY <1>1, OpensTransaction, Zenon

\* import: the steps it will take are of stored or of valid definitions.
LEMMA ImportStep ==
    ASSUME EngineSteps, NEW defs \in SUBSET Candidates, Import(defs)
    PROVE  EngineSteps'
<1>1. /\ Begin("operation") /\ busy' = "operation" /\ discarded' = discarded /\ drawn' = drawn
      /\ tx' = db /\ \A def \in defs : def \in Definitions
  BY Zenon DEF Import, Definitions, Begin
<1>2. ASSUME NEW step \in todo'
      PROVE  step.def \in Definitions /\ step.do \in {"delete", "insert"}
  <2>1. \/ \E id \in Ids, kept \in BOOLEAN : /\ db.definition[id] # None
                                             /\ step = Delete_Step(db.definition[id], kept)
        \/ \E def \in defs : step = Insert_Step(def)
    <3>1. todo' = {Delete_Step(db.definition[id], \E def \in defs : def.id = id) :
                      id \in {i \in Ids : db.definition[i] # None}}
                   \cup {Insert_Step(def) : def \in defs}
      BY Zenon DEF Import
    <3>2. CASE step \in {Insert_Step(def) : def \in defs}
      BY <3>2, Zenon
    <3>3. CASE step \in {Delete_Step(db.definition[id], \E def \in defs : def.id = id) :
                           id \in {i \in Ids : db.definition[i] # None}}
      <4>1. PICK id \in {i \in Ids : db.definition[i] # None} :
               step = Delete_Step(db.definition[id], \E def \in defs : def.id = id)
        BY <3>3, Zenon
      <4>2. (\E def \in defs : def.id = id) \in BOOLEAN
        BY Zenon
      <4>3. QED
        BY <4>1, <4>2, Zenon
    <3>4. QED
      BY <3>1, <3>2, <3>3, Zenon
  <2>2. CASE \E def \in defs : step = Insert_Step(def)
    BY <1>1, <2>2 DEF Insert_Step
  <2>3. ASSUME NEW id \in Ids, NEW kept \in BOOLEAN, db.definition[id] # None,
               step = Delete_Step(db.definition[id], kept)
        PROVE  step.def \in Definitions /\ step.do \in {"delete", "insert"}
    <3>1. db.definition[id] \in Definitions
      BY <2>3, EngineFacts, StoredDefinition, Zenon
    <3>2. QED
      BY <2>3, <3>1, Zenon DEF Delete_Step
  <2>4. QED
    BY <2>1, <2>2, <2>3, Zenon
<1>3. TodoAgrees'
  BY <1>1, <1>2, Zenon DEF TodoAgrees, StepsOf
<1>4. discarded' \subseteq Ids
  BY <1>1, EngineFacts, Zenon DEF TypeOK
<1>5. QED
  BY <1>1, <1>2, <1>3, <1>4, OpensUnchanged, Zenon

\* The steps of the open transaction that are left, after one was taken.
LEMMA StepsLeft ==
    ASSUME EngineSteps, NEW step \in todo, todo' = todo \ {step},
           UNCHANGED <<db, busy, recorded, running, faults, uptime>>,
           discarded' \subseteq Ids, Sound(tx', drawn'), Follows(db, tx'),
           drawn' \in {drawn, drawn + 1},
           step.do \in {"start", "process"} => tx'.definition = tx.definition
    PROVE  EngineSteps'
<1>1. /\ TypeOK /\ TodoAgrees /\ busy # "no" /\ drawn \in Nat
  BY EngineFacts, Zenon
<1>2. tx' \in Databases /\ drawn' \in Nat
  BY <1>1 DEF Sound
<1>3. TypeOK'
  BY <1>1, <1>2, Zenon DEF TypeOK
<1>4. step.do \in StepsOf(busy) /\ \A other \in todo : other.do \in StepsOf(busy)
  BY <1>1, Zenon DEF TodoAgrees
<1>5. CASE step.do \in {"start", "process"}
  <2>1. tx'.definition = tx.definition
    BY <1>5, Zenon
  <2>2. TodoAgrees'
    BY <1>1, <2>1, Zenon DEF TodoAgrees
  <2>3. QED
    BY <1>1, <1>3, <2>2, WithinTransaction, Zenon
<1>6. CASE step.do \notin {"start", "process"}
  <2>1. busy = "operation" /\ StepsOf(busy) = {"delete", "insert"}
    BY <1>4, <1>6, Zenon DEF StepsOf
  <2>2. TodoAgrees'
    BY <1>4, <2>1, Zenon DEF TodoAgrees
  <2>3. QED
    BY <1>1, <1>3, <2>2, WithinTransaction, Zenon
<1>7. QED
  BY <1>5, <1>6, Zenon

\* process advances the series in the working copy.
LEMMA ProcessFollows ==
    ASSUME EngineSteps, NEW step \in todo, DeliverProcess(step)
    PROVE  /\ Sound(tx', drawn') /\ Follows(db, tx') /\ drawn' \in {drawn, drawn + 1}
           /\ tx'.definition = tx.definition
<1> DEFINE def == step.def
           id == def.id
<1>1. /\ Sound(db, drawn) /\ Sound(tx, drawn) /\ Follows(db, tx) /\ drawn \in Nat
      /\ uptime \in Nat /\ TypeOK /\ TodoAgrees /\ busy # "no"
      /\ db \in Databases /\ tx \in Databases
  BY EngineFacts, Zenon
<1>2. /\ step.do = "process" /\ tx' = Process(tx, def, step.input, drawn + 1)
      /\ drawn' = IF Continues(tx, def) THEN drawn ELSE drawn + 1
  BY Zenon DEF DeliverProcess
<1>3. def \in Definitions /\ id \in Ids /\ tx.definition[id] = def /\ step.input \in Int
  BY <1>1, <1>2, DefinitionFacts, Zenon DEF TypeOK, TodoAgrees
<1>4. tx.definition = db.definition
  <2>1. busy \in {"reconcile", "delivery"}
    BY <1>1, <1>2, Zenon DEF TypeOK, TodoAgrees, StepsOf
  <2>2. QED
    BY <1>1, <2>1, Zenon DEF TodoAgrees
<1>5. /\ Sound(tx', drawn') /\ tx'.definition = tx.definition
      /\ \A a \in Ids : a # id => tx'.state[a] = tx.state[a]
      /\ Continues(tx, def) => Advances(tx'.state[id], tx.state[id])
      /\ ~Continues(tx, def) => tx'.state[id].series = drawn + 1
  BY <1>1, <1>2, <1>3, ProcessSound, SMTT(30)
<1>6. FollowsAt(db, tx', id)
  <2>1. CASE Continues(tx, def)
    <3>1. tx.state[id] # None /\ FollowsAt(db, tx, id) /\ tx' \in Databases
      BY <1>1, <1>3, <1>5, <2>1, Zenon DEF Continues, Follows, Sound
    <3>2. tx.definition[id] = db.definition[id] /\ tx'.definition[id] = db.definition[id]
      BY <1>4, <1>5, Zenon
    <3>3. QED
      BY <1>1, <1>3, <1>5, <2>1, <3>1, <3>2, FollowsOn, Zenon
  <2>2. CASE ~Continues(tx, def)
    BY <1>1, <1>3, <1>5, <2>2, FollowsAfresh, Zenon
  <2>3. QED
    BY <2>1, <2>2, Zenon
<1>7. ASSUME NEW a \in Ids, a # id PROVE FollowsAt(db, tx', a)
  <2>1. FollowsAt(db, tx, a) /\ tx'.state[a] = tx.state[a] /\ tx'.definition[a] = tx.definition[a]
    BY <1>1, <1>5, <1>7, Zenon DEF Follows
  <2>2. QED
    BY <2>1, FollowsElsewhere, Zenon
<1>8. Follows(db, tx')
  BY <1>6, <1>7, Zenon DEF Follows
<1>9. QED
  BY <1>1, <1>2, <1>5, <1>8, Zenon

\* One pipeline of an import, of a reconciliation or of a delivery.
LEMMA TakeStepStep ==
    ASSUME EngineSteps, TakeStep
    PROVE  EngineSteps'
<1>1. PICK step \in todo :
          /\ ImportDelete(step) \/ ImportInsert(step) \/ ReconcileStart(step) \/ DeliverProcess(step)
          /\ todo' = todo \ {step}
          /\ UNCHANGED <<db, busy, recorded, running, faults, uptime>>
  BY Zenon DEF TakeStep
<1>2. /\ step.def \in Definitions /\ discarded \subseteq Ids /\ tx \in Databases
      /\ step.def.id \in Ids /\ drawn \in Nat
  BY EngineFacts, DefinitionFacts, Zenon DEF TypeOK
<1>3. CASE ImportDelete(step)
  <2>1. /\ step.do = "delete" /\ drawn' = drawn /\ discarded' = discarded
        /\ tx' = LET gone == DeleteDefinition(tx, step.def.id)
                 IN  IF step.kept THEN gone ELSE EnqueueDeletion(gone, step.def)
    BY <1>3, Zenon DEF ImportDelete
  <2>2. Sound(tx', drawn) /\ Follows(db, tx')
    BY <1>2, <2>1, DeleteFollows, Zenon
  <2>3. QED
    BY <1>1, <1>2, <2>1, <2>2, StepsLeft, Zenon
<1>4. CASE ImportInsert(step)
  <2>1. /\ step.do = "insert" /\ discarded' = discarded
        /\ Start(PutDefinition(tx, step.def), step.def)
    BY <1>4, Zenon DEF ImportInsert
  <2>2. Sound(tx', drawn') /\ Follows(db, tx') /\ drawn' \in {drawn, drawn + 1}
    BY <1>2, <2>1, PutDefinitionHolds, StartFollows, Zenon
  <2>3. QED
    BY <1>1, <1>2, <2>1, <2>2, StepsLeft, Zenon
<1>5. CASE ReconcileStart(step)
  <2>1. step.do = "start" /\ discarded' = discarded /\ Start(tx, step.def)
    BY <1>5, Zenon DEF ReconcileStart
  <2>2. tx.definition[step.def.id] = step.def
    BY <2>1, EngineFacts, Zenon DEF TodoAgrees
  <2>3. Holding(tx, tx, step.def)
    BY <1>2, <2>2, Zenon DEF Holding
  <2>4. /\ Sound(tx', drawn') /\ Follows(db, tx') /\ drawn' \in {drawn, drawn + 1}
        /\ tx'.definition = tx.definition
    BY <1>2, <2>1, <2>3, StartFollows, Zenon
  <2>5. QED
    BY <1>1, <1>2, <2>1, <2>4, StepsLeft, Zenon
<1>6. CASE DeliverProcess(step)
  <2>1. discarded' \subseteq Ids
    BY <1>2, <1>6, Zenon DEF DeliverProcess
  <2>2. /\ Sound(tx', drawn') /\ Follows(db, tx') /\ drawn' \in {drawn, drawn + 1}
        /\ tx'.definition = tx.definition
    BY <1>6, ProcessFollows, Zenon
  <2>3. QED
    BY <1>1, <2>1, <2>2, StepsLeft, Zenon
<1>7. QED
  BY <1>1, <1>3, <1>4, <1>5, <1>6, Zenon

\* reconcile: it will start a series for every definition without a usable one.
LEMMA ReconcileStep ==
    ASSUME EngineSteps, Reconcile
    PROVE  EngineSteps'
<1>1. /\ Begin("reconcile") /\ busy' = "reconcile" /\ UNCHANGED db
      /\ tx' = db /\ discarded' = discarded /\ drawn' = drawn
  BY Zenon DEF Reconcile, Begin
<1>2. ASSUME NEW step \in todo'
      PROVE  /\ step.def \in Definitions /\ step.do = "start"
             /\ tx'.definition[step.def.id] = step.def
  <2>1. PICK id \in Ids : db.definition[id] # None /\ step = Start_Step(db.definition[id])
    BY Zenon DEF Reconcile
  <2>2. db.definition[id] \in Definitions /\ db.definition[id].id = id
    BY <2>1, EngineFacts, StoredDefinition, Zenon
  <2>3. step.def = db.definition[id] /\ step.do = "start"
    BY <2>1, Zenon DEF Start_Step
  <2>4. QED
    BY <1>1, <2>2, <2>3, Zenon
<1>3. TodoAgrees'
  BY <1>1, <1>2, Zenon DEF TodoAgrees, StepsOf
<1>4. discarded' \subseteq Ids
  BY <1>1, EngineFacts, Zenon DEF TypeOK
<1>5. QED
  BY <1>1, <1>2, <1>3, <1>4, OpensUnchanged, Zenon

\* A reading arrives: each step evaluates a value of the reading under a
\* definition that is stored.
LEMMA DeliverStep ==
    ASSUME EngineSteps, NEW reading \in Readings, Deliver(reading)
    PROVE  EngineSteps'
<1> DEFINE stored == {db.definition[id] : id \in Ids} \ {None}
           matching == {def \in stored : Matches(def.input, reading)}
           missing == {def \in matching : def.input.value_index \notin DOMAIN reading.values}
<1>1. /\ Begin("delivery") /\ busy' = "delivery" /\ UNCHANGED db
      /\ tx' = db /\ drawn' = drawn
      /\ discarded' = {def.id : def \in missing}
      /\ todo' = {Process_Step(def, reading.values[def.input.value_index]) :
                    def \in matching \ missing}
  BY Zenon DEF Deliver, Begin
<1>2. ASSUME NEW def \in stored
      PROVE  def \in Definitions /\ def.id \in Ids /\ db.definition[def.id] = def
  <2>1. PICK id \in Ids : def = db.definition[id]
    BY Zenon
  <2>2. def \in Definitions /\ def.id = id
    BY <2>1, EngineFacts, StoredDefinition, Zenon
  <2>3. QED
    BY <2>1, <2>2, Zenon
<1> HIDE DEF stored
<1>3. ASSUME NEW step \in todo'
      PROVE  /\ step.def \in Definitions /\ step.do = "process"
             /\ tx'.definition[step.def.id] = step.def /\ step.input \in Int
  <2>1. PICK def \in matching \ missing :
           step = Process_Step(def, reading.values[def.input.value_index])
    BY <1>1, Zenon
  <2>2. def \in stored /\ def.input.value_index \in DOMAIN reading.values
    BY Zenon
  <2>3. reading.values \in Seq(Int)
    BY EngineAssumption, Zenon DEF EngineAssumption
  <2>4. reading.values[def.input.value_index] \in Int
    BY <2>2, <2>3
  <2>5. /\ step.def = def /\ step.do = "process"
        /\ step.input = reading.values[def.input.value_index]
    BY <2>1, Zenon DEF Process_Step
  <2>6. QED
    BY <1>1, <1>2, <2>2, <2>4, <2>5, Zenon
<1>4. TodoAgrees'
  BY <1>1, <1>3, Zenon DEF TodoAgrees, StepsOf
<1>5. discarded' \subseteq Ids
  BY <1>1, <1>2, Zenon
<1>6. QED
  BY <1>1, <1>3, <1>4, <1>5, OpensUnchanged, Zenon

\* The working copy returns to what is committed.
LEMMA RolledBack ==
    ASSUME EngineSteps, tx' = db, db' = db, drawn' = drawn, busy' = "no", todo' = {}, TypeOK'
    PROVE  EngineSteps'
<1>1. Sound(tx', drawn') /\ Follows(db, tx')
  BY EngineFacts, FollowsItself, Zenon
<1>2. TodoAgrees'
  BY Zenon DEF TodoAgrees
<1>3. QED
  BY <1>1, <1>2, WithinTransaction, Zenon

\* The fault counters stay numbers.
LEMMA CountedFaults ==
    ASSUME TypeOK
    PROVE  [id \in Ids |-> faults[id] + IF id \in discarded THEN 1 ELSE 0] \in [Ids -> Nat]
<1>1. ASSUME NEW id \in Ids PROVE faults[id] + (IF id \in discarded THEN 1 ELSE 0) \in Nat
  BY DEF TypeOK
<1>2. QED
  BY <1>1, Zenon

\* The working copy is committed: it follows what was committed before.
LEMMA CommitStep ==
    ASSUME EngineSteps, Commit
    PROVE  EngineSteps' /\ Follows(db, db')
<1>1. /\ db' = tx /\ tx' = tx /\ drawn' = drawn /\ busy' = "no" /\ todo' = {}
      /\ Sound(tx, drawn) /\ Follows(db, tx) /\ tx \in Databases
  BY EngineFacts, Zenon DEF Commit
<1>2. TypeOK'
  <2>1. TypeOK
    BY EngineFacts, Zenon
  <2>2. faults' \in [Ids -> Nat]
    BY <2>1, CountedFaults, Zenon DEF Commit
  <2>3. recorded' \in BOOLEAN /\ running' \in BOOLEAN
    BY Zenon DEF Commit
  <2>4. QED
    BY <1>1, <2>1, <2>2, <2>3, Zenon DEF Commit, TypeOK
<1>3. TodoAgrees'
  BY <1>1, Zenon DEF TodoAgrees
<1>4. /\ Consistent(db', drawn') /\ Consistent(tx', drawn')
      /\ CurrentCount(db') /\ CurrentCount(tx') /\ Follows(db', tx')
  BY <1>1, FollowsItself, Zenon DEF Sound
<1>5. EngineSteps'
  BY <1>1, <1>2, <1>3, <1>4, Zenon DEF EngineSteps, EngineInvariant
<1>6. QED
  BY <1>1, <1>5, Zenon

\* The transaction fails.
LEMMA RollbackStep ==
    ASSUME EngineSteps, Rollback
    PROVE  EngineSteps'
<1>1. TypeOK /\ db \in Databases
  BY EngineFacts, Zenon
<1>2. faults' \in [Ids -> Nat]
  <2>1. CASE UNCHANGED faults
    BY <1>1, <2>1, Zenon DEF TypeOK
  <2>2. CASE faults' = [id \in Ids |-> faults[id] + IF id \in discarded THEN 1 ELSE 0]
    BY <1>1, <2>2, CountedFaults, Zenon
  <2>3. QED
    BY <2>1, <2>2, Zenon DEF Rollback
<1>3. TypeOK'
  BY <1>1, <1>2, Zenon DEF Rollback, TypeOK
<1>4. QED
  BY <1>3, RolledBack, Zenon DEF Rollback

\* The row of pipeline_state is lost.
LEMMA StateLostStep ==
    ASSUME EngineSteps, NEW id \in Ids, StateLost(id)
    PROVE  EngineSteps' /\ Follows(db, db')
<1>1. /\ db' = Lost(db, id) /\ tx' = db' /\ busy = "no"
      /\ UNCHANGED <<busy, todo, discarded, recorded, running, faults, uptime, drawn>>
  BY Zenon DEF StateLost, Lost
<1>2. /\ Sound(db, drawn) /\ drawn \in Nat /\ TypeOK /\ todo = {} /\ db \in Databases
  BY <1>1, EngineFacts, Zenon
<1>3. /\ Sound(db', drawn) /\ db'.state[id] = None
      /\ \A a \in Ids : a # id => db'.state[a] = db.state[a] /\ db'.definition[a] = db.definition[a]
  BY <1>1, <1>2, LostSound
<1>4. db' \in Databases
  BY <1>3, Zenon DEF Sound
<1>5. TypeOK' /\ TodoAgrees'
  BY <1>1, <1>2, <1>4, Zenon DEF TypeOK, TodoAgrees
<1>6. /\ Consistent(db', drawn') /\ Consistent(tx', drawn')
      /\ CurrentCount(db') /\ CurrentCount(tx') /\ Follows(db', tx')
  BY <1>1, <1>3, <1>4, FollowsItself, Zenon DEF Sound
<1>7. EngineSteps'
  BY <1>1, <1>2, <1>5, <1>6, Zenon DEF EngineSteps, EngineInvariant
<1>8. ASSUME NEW a \in Ids PROVE FollowsAt(db, db', a)
  <2>1. CASE a = id
    <3>1. db'.state[a] = None
      BY <1>3, <2>1, Zenon
    <3>2. QED
      BY <3>1, FollowsGone, Zenon
  <2>2. CASE a # id
    <3>1. FollowsAt(db, db, a)
      BY <1>2, FollowsItself, Zenon DEF Follows
    <3>2. QED
      BY <1>3, <2>2, <3>1, FollowsElsewhere, Zenon
  <2>3. QED
    BY <2>1, <2>2, Zenon
<1>9. QED
  BY <1>7, <1>8, Zenon DEF Follows

\* A step that leaves both databases and the open transaction alone.
LEMMA QuietStep ==
    ASSUME EngineSteps, UNCHANGED <<db, tx, busy, todo, drawn>>, TypeOK'
    PROVE  EngineSteps'
<1>1. /\ Sound(tx', drawn') /\ Follows(db, tx') /\ TodoAgrees
      /\ busy = "no" => tx = db /\ todo = {}
  BY EngineFacts, Zenon
<1>2. TodoAgrees'
  BY <1>1, Zenon DEF TodoAgrees
<1>3. QED
  BY <1>1, <1>2, EngineFacts, WithinTransaction, Zenon

\* Time passes.
LEMMA TickStep ==
    ASSUME EngineSteps, Tick
    PROVE  EngineSteps'
<1>1. TypeOK'
  BY EngineFacts DEF TypeOK, Tick
<1>2. QED
  BY <1>1, QuietStep, Zenon DEF Tick

\* The node's process ends, with its own transaction.
LEMMA CrashStep ==
    ASSUME EngineSteps, Crash
    PROVE  EngineSteps'
<1>1. TypeOK /\ db \in Databases
  BY EngineFacts, Zenon
<1>2. faults' \in [Ids -> Nat] /\ running' \in BOOLEAN
      /\ UNCHANGED <<db, recorded, uptime, drawn>>
  BY Zenon DEF Crash
<1>3. CASE busy \in {"reconcile", "delivery"}
  <2>1. tx' = db /\ busy' = "no" /\ todo' = {} /\ discarded' = {}
    BY <1>3, Zenon DEF Crash
  <2>2. TypeOK'
    BY <1>1, <1>2, <2>1, Zenon DEF TypeOK
  <2>3. QED
    BY <1>2, <2>1, <2>2, RolledBack, Zenon
<1>4. CASE busy \notin {"reconcile", "delivery"}
  <2>1. UNCHANGED <<tx, busy, todo, discarded>>
    BY <1>4, Zenon DEF Crash
  <2>2. TypeOK'
    BY <1>1, <1>2, <2>1, Zenon DEF TypeOK
  <2>3. QED
    BY <1>2, <2>1, <2>2, QuietStep, Zenon
<1>5. QED
  BY <1>3, <1>4, Zenon

\* The device restarts.
LEMMA RebootStep ==
    ASSUME EngineSteps, Reboot
    PROVE  EngineSteps'
<1>1. TypeOK'
  BY EngineFacts, Zenon DEF TypeOK, Reboot
<1>2. QED
  BY <1>1, RolledBack, Zenon DEF Reboot

\* The node begins with an empty database.
LEMMA EngineInit ==
    ASSUME Init
    PROVE  EngineSteps
<1>1. /\ db = Empty /\ tx = Empty /\ busy = "no" /\ todo = {} /\ discarded = {}
      /\ recorded = FALSE /\ running = FALSE /\ faults = [id \in Ids |-> 0]
      /\ uptime = 0 /\ drawn = 0
  BY Zenon DEF Init
<1>2. /\ Empty.outbox = <<>> /\ Empty \in Databases
      /\ \A id \in Ids : Empty.definition[id] = None /\ Empty.state[id] = None
  BY DEF Empty, Databases
<1>3. Len(Empty.outbox) = 0
  BY <1>2
<1>4. Consistent(Empty, 0) /\ CurrentCount(Empty)
  BY <1>2, <1>3 DEF Consistent, StateOfDefinition, Contiguous, CountsEachOnce, StatesAlternate,
     StateIsPublished, SeriesDrawn, CurrentCount
<1>5. TypeOK
  BY <1>1, <1>2, Zenon DEF TypeOK
<1>6. TodoAgrees
  BY <1>1, Zenon DEF TodoAgrees
<1>7. QED
  BY <1>1, <1>2, <1>4, <1>5, <1>6, FollowsItself, Zenon DEF EngineSteps, EngineInvariant

\* Every step keeps the invariant, and what it commits follows what was
\* committed before.
LEMMA EngineStep ==
    ASSUME EngineSteps, [Next]_vars
    PROVE  EngineSteps' /\ Follows(db, db')
<1>1. ASSUME db' = db PROVE Follows(db, db')
  BY <1>1, EngineFacts, FollowsItself, Zenon
<1>2. ASSUME NEW def \in Candidates, Create(def) PROVE EngineSteps' /\ db' = db
  BY <1>2, CreateStep, Zenon DEF Create, Begin
<1>3. ASSUME NEW def \in Candidates, Update(def) PROVE EngineSteps' /\ db' = db
  BY <1>3, UpdateStep, Zenon DEF Update, Begin
<1>4. ASSUME NEW id \in Ids, Delete(id) PROVE EngineSteps' /\ db' = db
  BY <1>4, DeleteStep, Zenon DEF Delete, Begin
<1>5. ASSUME NEW id \in Ids, Reset(id) PROVE EngineSteps' /\ db' = db
  BY <1>5, ResetStep, Zenon DEF Reset, Begin
<1>6. ASSUME NEW id \in Ids, StateLost(id) PROVE EngineSteps' /\ Follows(db, db')
  BY <1>6, StateLostStep, Zenon
<1>7. ASSUME NEW defs \in SUBSET Candidates, Import(defs) PROVE EngineSteps' /\ db' = db
  BY <1>7, ImportStep, Zenon DEF Import, Begin
<1>8. ASSUME Reconcile PROVE EngineSteps' /\ db' = db
  BY <1>8, ReconcileStep, Zenon DEF Reconcile, Begin
<1>9. ASSUME NEW reading \in Readings, Deliver(reading) PROVE EngineSteps' /\ db' = db
  BY <1>9, DeliverStep, Zenon DEF Deliver, Begin
<1>10. ASSUME TakeStep PROVE EngineSteps' /\ db' = db
  BY <1>10, TakeStepStep, Zenon DEF TakeStep
<1>11. ASSUME Commit PROVE EngineSteps' /\ Follows(db, db')
  BY <1>11, CommitStep, Zenon
<1>12. ASSUME Rollback PROVE EngineSteps' /\ db' = db
  BY <1>12, RollbackStep, Zenon DEF Rollback
<1>13. ASSUME Tick PROVE EngineSteps' /\ db' = db
  BY <1>13, TickStep, Zenon DEF Tick
<1>14. ASSUME Crash PROVE EngineSteps' /\ db' = db
  BY <1>14, CrashStep, Zenon DEF Crash
<1>15. ASSUME Reboot PROVE EngineSteps' /\ db' = db
  BY <1>15, RebootStep, Zenon DEF Reboot
<1>16. ASSUME UNCHANGED vars PROVE EngineSteps' /\ db' = db
  <2>1. TypeOK'
    BY <1>16, EngineFacts, Zenon DEF vars, TypeOK
  <2>2. QED
    BY <1>16, <2>1, QuietStep, Zenon DEF vars
<1>17. QED
  BY <1>1, <1>2, <1>3, <1>4, <1>5, <1>6, <1>7, <1>8, <1>9, <1>10, <1>11, <1>12, <1>13, <1>14,
     <1>15, <1>16, Zenon DEF Next

-----------------------------------------------------------------------------
(* The theorems.                                                           *)

\* The database the node commits and the working copy of its open transaction
\* are consistent after every step of every operation (engine.rs, store.rs):
\* sequences without a gap on one topic, every count once, states that
\* alternate, and stored states that are those of the last Observation.
THEOREM EngineInvariantHolds == Spec => []EngineInvariant
<1>1. Init => EngineSteps
  BY EngineInit, Zenon
<1>2. EngineSteps /\ [Next]_vars => EngineSteps'
  BY EngineStep, Zenon
<1>3. EngineSteps => EngineInvariant
  BY Zenon DEF EngineSteps
<1>4. QED
  BY <1>1, <1>2, <1>3, PTL DEF Spec

\* The last row on the topic of an accumulated count is of its current series
\* (engine.rs, start_series).
THEOREM RetainedCountHolds == Spec => []RetainedCountIsCurrent
<1>1. Init => EngineSteps
  BY EngineInit, Zenon
<1>2. EngineSteps /\ [Next]_vars => EngineSteps'
  BY EngineStep, Zenon
<1>3. EngineSteps => RetainedCountIsCurrent
  BY Zenon DEF EngineSteps, RetainedCountIsCurrent
<1>4. QED
  BY <1>1, <1>2, <1>3, PTL DEF Spec

\* What is committed continues a series without going back, under the same
\* structural fields, or starts one under an id no Observation carries
\* (engine.rs, update, reset, import, reconcile and process).
THEOREM SeriesRulesHold == Spec => SeriesRules
<1>1. Init => EngineSteps
  BY EngineInit, Zenon
<1>2. EngineSteps /\ [Next]_vars => EngineSteps'
  BY EngineStep, Zenon
<1>3. EngineSteps /\ [Next]_vars => [Follows(db, db')]_vars
  BY EngineStep, Zenon
<1>4. QED
  BY <1>1, <1>2, <1>3, PTL DEF Spec, SeriesRules
=============================================================================
