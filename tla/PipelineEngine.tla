--------------------------- MODULE PipelineEngine ---------------------------
(***************************************************************************)
(* The device-local pipelines of core/pipeline (engine.rs, store.rs,       *)
(* definition.rs): definitions, series, sequences and the rows they put in *)
(* the observation outbox.                                                 *)
(*                                                                         *)
(* Every operation runs inside one IMMEDIATE transaction of its caller     *)
(* (the collector, the operations of the Console and of nodectl, the       *)
(* startup), so one is open at a time: db is what is committed, tx the     *)
(* working copy, and tx = db while none is open.  An operation that loops  *)
(* over pipelines takes one step per pipeline; it can fail between two.    *)
(*                                                                         *)
(* Rows are numbered by insertion; the MQTT Output Adapter deletes them    *)
(* from the front, which this module does not show.                        *)
(***************************************************************************)
EXTENDS Evaluator, Sequences, FiniteSets

CONSTANTS
    Ids,             \* pipeline ids, numbered in the order of their names
    Candidates,      \* the definitions operators submit, valid or not
    Readings,        \* the readings the collector accepts
    MaxDebounce,     \* MAX_DEBOUNCE_MS
    MaxRows,         \* bound: rows enqueued
    MaxSeries,       \* bound: series ids drawn
    MaxUptime,       \* bound: uptime
    MaxDiscards      \* bound: inputs discarded by one pipeline

ASSUME EngineAssumption ==
    /\ Ids \subseteq Nat
    /\ IsFiniteSet(Ids)
    /\ \A def \in Candidates :
          /\ def.id \in Ids /\ def.kind \in Kinds
          /\ def.calibration.scale \in Int /\ def.calibration.offset \in Int
          /\ def.detector # None =>
                /\ def.detector.rise_threshold \in Int
                /\ def.detector.fall_threshold \in Int
    /\ None \notin Candidates
    /\ \A reading \in Readings : reading.values \in Seq(Int)

VARIABLES
    db,          \* committed: [definition, state, outbox]
    tx,          \* the working copy of the open transaction
    busy,        \* who has it open: "no", "operation", "reconcile", "delivery"
    todo,        \* the steps it still has to take
    discarded,   \* pipelines that discarded the reading being delivered
    recorded,    \* the edge-node-id is in pipeline_meta
    running,     \* the node has reconciled and its collector runs
    faults,      \* PipelineFaults: inputs discarded, in memory
    uptime,      \* CLOCK_MONOTONIC
    drawn        \* series ids drawn so far; a drawn id never returns

vars == <<db, tx, busy, todo, discarded, recorded, running, faults, uptime, drawn>>

-----------------------------------------------------------------------------
(* Definitions. *)

ValidDefinition(def) ==
    /\ ValidCalibration(def.calibration)
    /\ IF def.kind = "measurement"
       THEN def.detector = None /\ def.trigger = None /\ def.unit # None
       ELSE /\ def.unit = None
            /\ def.detector # None
            /\ ValidDetector(def.detector, MaxDebounce)
            /\ (def.kind = "accumulated-count") = (def.trigger # None)

\* SHA-256 of the structural fields, taken as injective.
StructuralHash(def) == <<def.id, def.kind, def.input, def.trigger, def.unit>>

Matches(input, reading) ==
    /\ input.adapter = reading.adapter
    /\ input.measurement_key = reading.measurement_key
    /\ input.channel_index = reading.channel_index
    /\ input.subject \in {None, reading.subject}

-----------------------------------------------------------------------------
(* What an operation does to a database d = [definition, state, outbox].    *)

NewState(def, s) ==
    [hash |-> StructuralHash(def), series |-> s, next_sequence |-> 1,
     evaluation |-> FreshEvaluation]

Observation(def, st, value) ==
    [id |-> def.id, kind |-> def.kind, series |-> st.series,
     sequence |-> st.next_sequence, value |-> value]

\* The zero-length retained payload.
Deletion(def) ==
    [id |-> def.id, kind |-> def.kind, series |-> None, sequence |-> 0, value |-> None]

PutState(d, id, st) == [d EXCEPT !.state[id] = st]

\* Mutant: the sequence is not advanced.
Publish_SameSequence(d, def, st, value) ==
    [d EXCEPT !.outbox = Append(@, Observation(def, st, value)), !.state[def.id] = st]

Publish(d, def, st, value) ==
    [d EXCEPT !.outbox = Append(@, Observation(def, st, value)),
              !.state[def.id] = [st EXCEPT !.next_sequence = @ + 1]]

\* Mutant: a new series publishes nothing.
StartSeries_Silent(d, def, s) == PutState(d, def.id, NewState(def, s))

\* A new accumulated-count series publishes its zero at once.
StartSeries(d, def, s) ==
    IF def.kind = "accumulated-count"
    THEN Publish(d, def, NewState(def, s), 0)
    ELSE PutState(d, def.id, NewState(def, s))

PutDefinition(d, def) == [d EXCEPT !.definition[def.id] = def]

\* pipeline_state goes with its definition, through the foreign key.
DeleteDefinition(d, id) == [d EXCEPT !.definition[id] = None, !.state[id] = None]

EnqueueDeletion(d, def) == [d EXCEPT !.outbox = Append(@, Deletion(def))]

\* The stored state belongs to the series of this definition.
Continues(d, def) ==
    /\ d.state[def.id] # None
    /\ d.state[def.id].hash = StructuralHash(def)

\* The series an input is evaluated in: a new one when there is none to use.
Usable(d, def, s) == IF Continues(d, def) THEN d ELSE StartSeries(d, def, s)

Evaluated(d, def, input, s) ==
    Evaluate(def, Usable(d, def, s).state[def.id].evaluation, input, uptime)

Process(d, def, input, s) ==
    LET base   == Usable(d, def, s)
        result == Evaluated(d, def, input, s)
        st     == [base.state[def.id] EXCEPT !.evaluation = result.state]
    IN  CASE result.error # None -> base
          [] result.error = None /\ result.value = None -> PutState(base, def.id, st)
          [] result.error = None /\ result.value # None ->
               Publish(base, def, st, result.value)

-----------------------------------------------------------------------------
(* Transactions. *)

Empty ==
    [definition |-> [id \in Ids |-> None], state |-> [id \in Ids |-> None], outbox |-> <<>>]

Init ==
    /\ db = Empty /\ tx = Empty
    /\ busy = "no" /\ todo = {} /\ discarded = {}
    /\ recorded = FALSE /\ running = FALSE
    /\ faults = [id \in Ids |-> 0]
    /\ uptime = 0 /\ drawn = 0

Room ==
    /\ Len(db.outbox) + Cardinality(Ids) <= MaxRows
    /\ drawn + Cardinality(Ids) <= MaxSeries

Begin(who) ==
    /\ busy = "no" /\ busy' = who
    /\ Room
    /\ UNCHANGED <<db, recorded, running, faults, uptime>>

Commit ==
    /\ busy # "no" /\ todo = {}
    /\ db' = tx /\ busy' = "no"
    /\ recorded' = (recorded \/ busy = "reconcile")
    /\ running' = (running \/ busy = "reconcile")
    /\ faults' = [id \in Ids |-> faults[id] + IF id \in discarded THEN 1 ELSE 0]
    /\ discarded' = {}
    /\ UNCHANGED <<tx, todo, uptime, drawn>>

\* SQLite refuses a write or the commit itself.  The collector has counted
\* the discarded inputs by the time the commit fails.
Rollback ==
    /\ busy # "no"
    /\ tx' = db /\ busy' = "no" /\ todo' = {} /\ discarded' = {}
    /\ \/ UNCHANGED faults
       \/ /\ todo = {} /\ discarded # {}
          /\ faults' = [id \in Ids |-> faults[id] + IF id \in discarded THEN 1 ELSE 0]
    /\ UNCHANGED <<db, recorded, running, uptime, drawn>>

-----------------------------------------------------------------------------
(* The operations of the Console and of nodectl: their engine is loaded     *)
(* from pipeline_meta, so the node has to have started once.                *)

Start(d, def) ==
    /\ tx' = StartSeries(d, def, drawn + 1)
    /\ drawn' = drawn + 1

Create(def) ==
    /\ recorded /\ ValidDefinition(def)
    /\ db.definition[def.id] = None
    /\ Begin("operation")
    /\ Start(PutDefinition(db, def), def)
    /\ UNCHANGED <<todo, discarded>>

\* Mutant: every update is a tuning change.
Update_KeepsSeries(def) ==
    /\ recorded /\ ValidDefinition(def)
    /\ db.definition[def.id] # None
    /\ db.definition[def.id].kind = def.kind
    /\ Begin("operation")
    /\ tx' = PutDefinition(db, def)
    /\ UNCHANGED <<todo, discarded, drawn>>

Update(def) ==
    /\ recorded /\ ValidDefinition(def)
    /\ db.definition[def.id] # None
    /\ db.definition[def.id].kind = def.kind
    /\ Begin("operation")
    /\ IF Continues(db, def)
       THEN tx' = PutDefinition(db, def) /\ UNCHANGED drawn
       ELSE Start(PutDefinition(db, def), def)
    /\ UNCHANGED <<todo, discarded>>

Delete(id) ==
    /\ recorded /\ db.definition[id] # None
    /\ Begin("operation")
    /\ tx' = EnqueueDeletion(DeleteDefinition(db, id), db.definition[id])
    /\ UNCHANGED <<todo, discarded, drawn>>

Reset(id) ==
    /\ recorded /\ db.definition[id] # None
    /\ Begin("operation")
    /\ Start(db, db.definition[id])
    /\ UNCHANGED <<todo, discarded>>

Delete_Step(def, kept) == [do |-> "delete", def |-> def, kept |-> kept]
Insert_Step(def) == [do |-> "insert", def |-> def, kept |-> FALSE]
Start_Step(def) == [do |-> "start", def |-> def, kept |-> FALSE]

\* The definitions of one file, in any order; two with one id are refused.
Import(defs) ==
    /\ recorded
    /\ \A def \in defs : ValidDefinition(def)
    /\ \A a, b \in defs : a.id = b.id => a = b
    /\ Begin("operation")
    /\ todo' = {Delete_Step(db.definition[id], \E def \in defs : def.id = id) :
                  id \in {i \in Ids : db.definition[i] # None}}
               \cup {Insert_Step(def) : def \in defs}
    /\ tx' = db
    /\ UNCHANGED <<discarded, drawn>>

\* Existing definitions go first, in id order; then the new ones arrive.
ImportDelete(step) ==
    /\ step.do = "delete"
    /\ \A other \in todo : other.do = "delete" => step.def.id <= other.def.id
    /\ LET gone == DeleteDefinition(tx, step.def.id)
       IN  tx' = IF step.kept THEN gone ELSE EnqueueDeletion(gone, step.def)
    /\ UNCHANGED <<drawn, discarded>>

ImportInsert(step) ==
    /\ step.do = "insert"
    /\ \A other \in todo : other.do = "insert"
    /\ Start(PutDefinition(tx, step.def), step.def)
    /\ UNCHANGED discarded

-----------------------------------------------------------------------------
(* The node. *)

Reconcile ==
    /\ ~running
    /\ Begin("reconcile")
    /\ todo' = {Start_Step(db.definition[id]) :
                  id \in {i \in Ids : db.definition[i] # None /\ ~Continues(db, db.definition[i])}}
    /\ tx' = db
    /\ UNCHANGED <<discarded, drawn>>

ReconcileStart(step) ==
    /\ step.do = "start"
    /\ \A other \in todo : step.def.id <= other.def.id
    /\ Start(tx, step.def)
    /\ UNCHANGED discarded

Process_Step(def, input) == [do |-> "process", def |-> def, input |-> input]

\* A reading reaches every pipeline whose input matches it; one that has no
\* value at the pipeline's index is discarded for that pipeline.
Deliver(reading) ==
    LET matching == {def \in {db.definition[id] : id \in Ids} \ {None} :
                       Matches(def.input, reading)}
        missing  == {def \in matching : def.input.value_index \notin DOMAIN reading.values}
    IN  /\ running
        /\ Begin("delivery")
        /\ \A id \in Ids : faults[id] < MaxDiscards
        /\ todo' = {Process_Step(def, reading.values[def.input.value_index]) :
                      def \in matching \ missing}
        /\ discarded' = {def.id : def \in missing}
        /\ tx' = db
        /\ UNCHANGED drawn

\* One pipeline's evaluator error discards the input for that pipeline only.
DeliverProcess(step) ==
    /\ step.do = "process"
    /\ \A other \in todo : step.def.id <= other.def.id
    /\ tx' = Process(tx, step.def, step.input, drawn + 1)
    /\ drawn' = IF Continues(tx, step.def) THEN drawn ELSE drawn + 1
    /\ discarded' = IF Evaluated(tx, step.def, step.input, drawn + 1).error # None
                    THEN discarded \cup {step.def.id} ELSE discarded

TakeStep ==
    \E step \in todo :
        /\ \/ ImportDelete(step) \/ ImportInsert(step)
           \/ ReconcileStart(step) \/ DeliverProcess(step)
        /\ todo' = todo \ {step}
        /\ UNCHANGED <<db, busy, recorded, running, faults, uptime>>

\* The row of pipeline_state is lost: what reconcile and process repair.
StateLost(id) ==
    /\ busy = "no" /\ db.state[id] # None
    /\ db' = [db EXCEPT !.state[id] = None]
    /\ tx' = db'
    /\ UNCHANGED <<busy, todo, discarded, recorded, running, faults, uptime, drawn>>

Tick ==
    /\ busy = "no" /\ uptime < MaxUptime
    /\ uptime' = uptime + 1
    /\ UNCHANGED <<db, tx, busy, todo, discarded, recorded, running, faults, drawn>>

\* The node's process ends: an open transaction of its own rolls back and the
\* fault records are gone.  A device reboot also ends an operation of nodectl.
Crash ==
    /\ running \/ busy = "reconcile"
    /\ running' = FALSE
    /\ faults' = [id \in Ids |-> 0]
    /\ IF busy \in {"reconcile", "delivery"}
       THEN tx' = db /\ busy' = "no" /\ todo' = {} /\ discarded' = {}
       ELSE UNCHANGED <<tx, busy, todo, discarded>>
    /\ UNCHANGED <<db, recorded, uptime, drawn>>

Reboot ==
    /\ uptime > 0
    /\ uptime' = 0 /\ running' = FALSE
    /\ faults' = [id \in Ids |-> 0]
    /\ tx' = db /\ busy' = "no" /\ todo' = {} /\ discarded' = {}
    /\ UNCHANGED <<db, recorded, drawn>>

Next ==
    \/ \E def \in Candidates : Create(def) \/ Update(def)
    \/ \E id \in Ids : Delete(id) \/ Reset(id) \/ StateLost(id)
    \/ \E defs \in SUBSET Candidates : Import(defs)
    \/ Reconcile \/ \E reading \in Readings : Deliver(reading)
    \/ TakeStep \/ Commit \/ Rollback
    \/ Tick \/ Crash \/ Reboot

Spec == Init /\ [][Next]_vars

-----------------------------------------------------------------------------
(* Properties. *)

Definitions == {def \in Candidates : ValidDefinition(def)}

PipelineStates ==
    [hash : {StructuralHash(def) : def \in Candidates}, series : Nat \ {0},
     next_sequence : Nat \ {0}, evaluation : EvaluationState]

ObservationsOf(kinds, values) ==
    [id : Ids, kind : kinds, series : Nat \ {0}, sequence : Nat \ {0}, value : values]

Rows ==
    ObservationsOf({"measurement", "accumulated-count"}, Int)
      \cup ObservationsOf({"state"}, BOOLEAN)
      \cup [id : Ids, kind : Kinds, series : {None}, sequence : {0}, value : {None}]

Databases ==
    [definition : [Ids -> Definitions \cup {None}],
     state : [Ids -> PipelineStates \cup {None}],
     outbox : Seq(Rows)]

TypeOK ==
    /\ db \in Databases /\ tx \in Databases
    /\ busy \in {"no", "operation", "reconcile", "delivery"}
    /\ \A step \in todo : step.def \in Definitions
    /\ discarded \subseteq Ids
    /\ recorded \in BOOLEAN /\ running \in BOOLEAN
    /\ faults \in [Ids -> Nat]
    /\ uptime \in Nat /\ drawn \in Nat

\* A definition is stored under its id, a stored state belongs to the stored
\* definition, and two pipelines never share a series.
StateOfDefinition(d) ==
    /\ \A id \in Ids : d.definition[id] # None => d.definition[id].id = id
    /\ \A id \in Ids : d.state[id] # None =>
          /\ d.definition[id] # None
          /\ d.state[id].hash = StructuralHash(d.definition[id])
    /\ \A a, b \in Ids :
          a # b /\ d.state[a] # None /\ d.state[b] # None => d.state[a].series # d.state[b].series

\* Rows i and j are Observations of one series.
SameSeries(d, i, j) == d.outbox[i].series # None /\ d.outbox[i].series = d.outbox[j].series

\* Contract section 4: within a series the sequence starts at 1 and grows by
\* 1 per publication, in the order of the outbox, on one topic.
Contiguous(d) ==
    \A i \in 1 .. Len(d.outbox) :
        /\ \A j \in 1 .. Len(d.outbox) : SameSeries(d, i, j) =>
              /\ d.outbox[i].id = d.outbox[j].id /\ d.outbox[i].kind = d.outbox[j].kind
              /\ i < j => d.outbox[i].sequence < d.outbox[j].sequence
        /\ d.outbox[i].sequence > 1 =>
              \E j \in 1 .. i - 1 :
                 /\ SameSeries(d, i, j)
                 /\ d.outbox[j].sequence = d.outbox[i].sequence - 1

\* An accumulated count publishes every count once: 0 at the start of the
\* series, then each increment.
CountsEachOnce(d) ==
    \A i \in 1 .. Len(d.outbox) :
        d.outbox[i].kind = "accumulated-count" /\ d.outbox[i].series # None =>
            d.outbox[i].value = d.outbox[i].sequence - 1

\* A state publishes only when it settles to a different value.
StatesAlternate(d) ==
    \A i, j \in 1 .. Len(d.outbox) :
        /\ d.outbox[i].kind = "state" /\ SameSeries(d, i, j)
        /\ d.outbox[j].sequence = d.outbox[i].sequence + 1
        => d.outbox[j].value = ~d.outbox[i].value

\* The evaluation stored with st is the one of the last Observation of its
\* series, which is of pipeline id.
Published(d, id, kind, st) ==
    LET ofSeries == {i \in 1 .. Len(d.outbox) : d.outbox[i].series = st.series}
    IN  /\ \A i \in ofSeries :
              /\ d.outbox[i].id = id /\ d.outbox[i].kind = kind
              /\ d.outbox[i].sequence < st.next_sequence
        /\ st.next_sequence > 1 =>
              \E i \in ofSeries :
                 /\ d.outbox[i].sequence = st.next_sequence - 1
                 /\ kind = "state" => d.outbox[i].value = st.evaluation.active
        /\ kind = "accumulated-count" => st.next_sequence = st.evaluation.counter + 2
        /\ kind = "state" => (st.evaluation.initialized = (st.next_sequence > 1))

StateIsPublished(d) ==
    \A id \in Ids :
        d.state[id] # None => Published(d, id, d.definition[id].kind, d.state[id])

SeriesDrawn(d, n) ==
    /\ \A id \in Ids : d.state[id] # None => d.state[id].series <= n
    /\ \A i \in 1 .. Len(d.outbox) : d.outbox[i].series # None => d.outbox[i].series <= n

Consistent(d, n) ==
    /\ StateOfDefinition(d)
    /\ Contiguous(d)
    /\ CountsEachOnce(d)
    /\ StatesAlternate(d)
    /\ StateIsPublished(d)
    /\ SeriesDrawn(d, n)

\* The steps still to take are those of the open transaction.  Only an
\* operation changes definitions: the others start or evaluate the series of
\* the definitions that are stored.
StepsOf(who) ==
    IF who = "operation" THEN {"delete", "insert"}
    ELSE IF who = "reconcile" THEN {"start"} ELSE {"process"}

TodoAgrees ==
    /\ busy \in {"reconcile", "delivery"} => tx.definition = db.definition
    /\ \A step \in todo :
          /\ step.do \in StepsOf(busy)
          /\ step.do \in {"start", "process"} => tx.definition[step.def.id] = step.def
          /\ step.do = "process" => step.input \in Int

\* The steps preserve this conjunction, inside a transaction as well: every
\* part of it holds of the working copy, and a transaction that ends leaves
\* the working copy equal to what is committed.
EngineInvariant ==
    /\ TypeOK
    /\ Consistent(db, drawn) /\ Consistent(tx, drawn)
    /\ TodoAgrees
    /\ busy = "no" => tx = db /\ todo = {}

\* Database e continues or replaces the series that d has for a pipeline.
FollowsAt(d, e, id) ==
    LET old == d.state[id]
        new == e.state[id]
    IN  old # None /\ new # None =>
          IF new.series = old.series
          THEN /\ StructuralHash(e.definition[id]) = StructuralHash(d.definition[id])
               /\ new.next_sequence >= old.next_sequence
               /\ new.evaluation.counter >= old.evaluation.counter
               /\ e.definition[id] # d.definition[id] => new = old
          ELSE \A i \in 1 .. Len(d.outbox) : d.outbox[i].series # new.series

Follows(d, e) == \A id \in Ids : FollowsAt(d, e, id)

\* Contract section 5: a committed transaction either continues a series,
\* and then neither its sequence nor its count goes back and its structural
\* fields stand, or starts one under an id no earlier Observation carries.
SeriesRules == [][Follows(db, db')]_vars

LastOnTopic(d, id, kind, i) ==
    /\ d.outbox[i].id = id /\ d.outbox[i].kind = kind
    /\ \A j \in i + 1 .. Len(d.outbox) : d.outbox[j].id # id \/ d.outbox[j].kind # kind

CurrentCount(d) ==
    \A id \in Ids :
        d.state[id] # None /\ d.definition[id].kind = "accumulated-count" =>
            \E i \in 1 .. Len(d.outbox) :
                /\ LastOnTopic(d, id, "accumulated-count", i)
                /\ d.outbox[i].series = d.state[id].series

\* Contract section 5: the value the Broker retains for an accumulated count,
\* the last row of its topic, is of the current series (engine.rs,
\* start_series publishes the zero in the same transaction).
RetainedCountIsCurrent == CurrentCount(db)

\* Contract section 8: no stale retained value is left on the Broker; a topic
\* whose last row is an Observation is the topic of a pipeline that exists
\* (engine.rs, import clears only the topics of ids that disappear).  It does
\* not hold of the code: see the README.
NoStaleRetained ==
    \A id \in Ids, kind \in Kinds, i \in 1 .. Len(db.outbox) :
        LastOnTopic(db, id, kind, i) /\ db.outbox[i].series # None =>
            db.definition[id] # None /\ db.definition[id].kind = kind
=============================================================================
