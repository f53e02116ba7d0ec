# TLA+ models of the iotkit edge node

The edge node (`src/edge-node`) takes readings from Input Adapters and from
devices that deliver over HTTP, stores them in one SQLite database, evaluates
device-local pipelines on them and publishes the resulting Observations through
an MQTT Broker. These modules model its concurrent and transactional parts, check
them with TLC on small instances, and prove with TLAPS, for every value of the
constants, what the MQTT Output Adapter, the pipelines and their backup file, the
publication log, the device listener, the device credentials and the supervision
of the adapters promise. `PROJECT.json` lists the components, the
runs, the mutants, the source lines behind every definition, the hazards and the
theorems.

## The system and its parts

| Part | Source (under `src/edge-node`) | Modelled by |
|---|---|---|
| MQTT Output Adapter | `apps/node/src/output_mqtt.rs`, `core/pipeline/src/outbox.rs` | `OutputMqtt`, `ObservationDelivery` |
| Device faults | `core/pipeline/src/faults.rs` | `DeviceFaults` |
| Pipeline evaluator | `core/pipeline/src/evaluator.rs`, `calibration.rs` | `Evaluator`, `Detection` |
| Pipeline engine and store | `core/pipeline/src/engine.rs`, `store.rs`, `definition.rs` | `PipelineEngine` |
| pipelines.toml export | `core/pipeline/src/export.rs`, `apps/node/src/api/routes.rs`, `apps/nodectl/src/cmd/pipeline.rs` | `PipelineExport` |
| Collector, time-series tables, device ledger | `core/collector`, `core/timeseries`, `core/ledger` | `Collector`, `IngestStore` |
| In-process ingest client | `ingest/client/src/inproc.rs` | `IngestPath` (composed with `Collector`) |
| Publication custody, retention of readings | `core/publish`, `apps/node/src/publish_task.rs`, `retention.rs` | `Publication` |
| Device credentials and capacity | `core/ops/src/device_credentials.rs`, `ops/credential_ops.rs` | `DeviceCredentials` |
| HTTP ingress | `ingest/http/src/routes.rs`, `admission.rs`, `lib.rs` (accept loop) | `HttpIngress` |
| Device listener and its supervisor | `ingest/http/src/transition.rs`, `lib.rs`, `apps/node/src/ingress.rs`, `core/ops/src/ingress_listener.rs` | `IngressListener` |
| Input Adapters | `input/host-api`, `input/runtimes/polling`, `adapters` | `InputAdapters`, `SerialAdapter`, `PollingAdapter` |
| Node process | `apps/node/src/main.rs`, `adapter_host.rs`, `supervision.rs` | `NodeRuntime` (composed with the adapters) |

The parts meet in the database. An Input Adapter hands an envelope to its
in-process client, a device hands it to the HTTP ingress; both send it to the
collector task. The collector accepts it in one immediate transaction that claims
the envelope id, writes the readings and their publication-log rows, stages what
unknown devices sent, and runs the pipelines, which put Observations in
`observation_outbox`. The MQTT Output Adapter publishes the rows of that table in
order and deletes a row when the Broker has acknowledged it. The publisher sends
the log to an archive and moves a cursor; retention deletes what is old and no
longer owed. Operators change pipelines, devices, credentials and the listener
through the Console (in the node's process) or nodectl (a process of its own).

## Modules

### MQTT Output Adapter

`OutputMqtt` has four parties.

- The writers of the outbox: `Enqueue`.
- The session: `connected`, `inflight`, and the `pending` list split into
  `unwritten` (no packet id yet) and `written`. Each handler of the `select!`
  loop is one action, with the status and row publications it makes:
  `ProbeOutbox`, `HeartbeatTick`, `FaultChanged`, `NotePacketWritten`,
  `NotePubAck`, `PubAckOfOther`, `ConnAck`, `ConnectionLost`. The graceful
  shutdown is `Shutdown`, `OfflineTimeout`, `OfflineConnectionLost`,
  `DisconnectWritten`, `ClosingEnds`, `ClosingReconnect`. `Crash` and `Restart`
  end and start the process.
- rumqttc and its connection (external): the bounded request channel, packet
  ids, `Outgoing::Publish` events in request order, `clean_session`.
- The Broker (external): packets on the wire, PUBACKs, the Will, the retained
  status.

A publication is a number: row n is n, a status is 0. `delivered` is the row the
Broker published last. Database statements of the task can fail (the Boolean
parameters of the actions).

`DeviceFaults` models the fault set and its wake-up: the faults are changed
under a lock and the listener is notified after it, so a second change can come
between (`faults.rs`). `ObservationDelivery` is the contract: rows are delivered
in insertion order, the last one possibly again, and are held until delivered.

### Pipelines

`Evaluator` has calibration, threshold with hysteresis, debounce and counting as
operators. A 64-bit float is an integer; magnitudes above `MaxFinite` stand for
infinity and NaN, `MaxSafeInteger` for 2^53 - 1. `Detection` runs one pipeline
over inputs, time and reboots, and compares the incremental evaluation with a
definition over the whole history.

`PipelineEngine` has the definitions, the series and the outbox rows. One
immediate transaction is open at a time: `db` is what is committed and `tx` the
working copy; an operation over several pipelines takes one step per pipeline
and can fail between two. The operations are create, update, delete, reset,
import, the reconciliation at start and the delivery of a reading.

`PipelineExport` has the backup file: commit, snapshot, temporary file, fsync,
rename, directory fsync, of the Console and of nodectl, with power losses. `mine`
is the last change a process committed, `exported` the latest change whose command
ended without an error.

### Ingest

`IngestStore` has the bounded tables as operators on sequences of rows: claims
(`Claim`, `MakeRoom`, `PurgeDedup`) and staged readings (`Stage`, `Evict`,
`Expire`, pins). `Collector` has the task: `Process` is one turn, one
transaction, with `Outcome` translating `process_envelope_mode`; `Purge` is the
maintenance that follows an ack. The other writers are the device operations
(each ends with the generation bump), the revocation of a credential and the two
transactions of a retention pass. Registry verdicts and the clock's trust are
choices. `IngestPath` composes the in-process client with the collector: input
queue, spool, the call under way, backoff, receipts, and a collector that panics.

### Publication

`Publication` has the log with its AUTOINCREMENT counter, the target with its
cursor and the epoch the cursor counts in, the activation row, and `flight`, the
publish cycle under way: `Prepare` reads a batch, `Deliver` posts it (its answer
may be lost), `Advance` moves the cursor in a transaction of its own. `Retain`,
`Restart` (which queues an `epoch_start`), `TargetAdd` and `TargetSmoke` (the two
transactions of nodectl), `TargetRemove`, `ReplaceUndo`, activation, its cleanup
and the recovery under a new epoch come between at any point. Nothing in this
version of the node starts the publisher; the module says which operations have
no caller.

### Devices over HTTP

`DeviceCredentials` is the authority in the database. A principal is named after
its device. `Execute` and `ExecuteApproved` are the plain and the approved form
of the operations that can need capacity (add, issue, change of flow class,
configuration); `PreviewDebt` is the dry run an operator looks at meanwhile. The
triggers of the migration are part of the action that fires them
(`CloseAuthority`). `auth` is one authentication held across awaits.

`HttpIngress` counts the open connections (`Connect`, `ConnectionRefused`, `Close`)
and follows a request on one of them from its permit to its answer, await by await:
the cache, the authentication lanes, the recheck, the two-stage charge, the
body, the second recheck, the collector's channel. A request can be dropped at
each of them (`Abandon`). What it holds is read off its stage, because the code
releases it by `Drop`. `Observe`, `Persist` and `Acknowledge` are the
supervisor's report of throttle episodes. The store is `IsCurrent`, as
`DeviceCredentials` specifies it; what becomes of an envelope in the channel is
`Collector`'s part, which checks the authentication again in its transaction.

`IngressListener` has the desired and applied columns, the TLS custody directory,
the listeners in memory and the supervisor as a program counter that moves from
await to await: `Observe`, `Stage` or `StageDisabled`, `Publish`, `Switch`; after
a start `ReconcileCustody`, `RecoverBind`, `RecoverServe`. A rotation is one step
when it succeeds (`RotateTls`). It can also stop anywhere (`RotationStops`): in
either reconciliation (`CutShort`), while it stages, before or after its commit, by
a crash (`CrashInRotation`) or by an error after which the node goes on
(`RotationFails`). An error after the commit leaves the new generation staged, and
the supervisor, which reconciles custody once per start, refuses to serve it until
the next rotation or a restart. A bind may fail, addresses and the network
authority come back, and a failed write of the unbound columns is ignored as in the
code. A listener that is invalidated is dropped, which only signals its accept loop
(`lib.rs:475`): it is taken as closed at once.

### Adapters and the process

`InputAdapters` has the host API: activity, stop, completion, the composition
task and its finaliser. `SerialAdapter` adds the BravePI reader thread with its
reconnects and the decoding loop; `PollingAdapter` adds the I2C polling loop with
the state of every target. They are joined by bounded channels. `NodeRuntime`
extends both with `fn run`: the start, each branch of the `select!` loop, the
restart budget, the activity and join tasks of every run, the cleanup with its
timeouts, and the exit code.

## Runs

| Run | Checks | Shows |
|---|---|---|
| `output` | `AdapterInvariant`, `DeletedOnlyAfterPublished`, `StatusAnnounced`, `InOrderDelivery`, `DrainsWhileRunning`, `StatusConverges`, `OfflineAfterStop` | no row is lost, rows arrive in order and one at a time after a status, no fault change is forgotten; the outbox drains, the retained status converges, a stopped node ends offline |
| `detection` | `MatchesReference`, `NeverEarly` | the evaluator computes the reference, a reboot never shortens a window |
| `pipelines` | `EngineInvariant`, `RetainedCountIsCurrent`, `SeriesRules` | sequences are contiguous, each event is counted once, states alternate and series follow the contract, over all operations and failures |
| `export` | `WholeFile`, `ExportedIsKept` | with one exporting process the backup is whole, and never older than a change whose command ended without an error |
| `collector_ledger` | `ReadingsAttributed`, `ClaimsSound` | readings reach the right device; an envelope is accepted again only when its window is over by age or by the rows that came after it, here in the whole table |
| `collector_staging` | `ReserveAdmits`, `StagedKept`, `ClaimsSound` | pins hold, the reserve stays free, what is staged stays approvable; a principal above its share of the claims displaces its own and nobody else's |
| `ingest` | `ReceiptsTruthful`, `FailedPurgeReported`, `EveryReceiptResolves` | every receipt is answered, and truthfully |
| `publication` | `LogIsSound`, `CursorCovers`, `PublicationNamesOne`, `CustodyKept` | what the archive is owed is kept until it has it, the cursor covers only what it took, one number names one record |
| `credentials` | `DebtIsExact`, `CurrentAuthIsTrue`, `RotationSafe`, `OnlyApprovedDebt` | the debt row is the excess and was approved in the state it was shown in; a current authentication is true; a rotation does not lock a device out |
| `http_ingress` | `EpisodesReported`, `NoFreeFlow`, `EpisodesEnd` | dropped requests return their reservation once and every envelope handed to the collector is paid for, also after a timeout; every drop is in an episode that is reported and ends |
| `ingress_listener` | `ExposedIsApplied`, `CustodyKept`, `Converges` | a listener accepts only what is durably applied; wherever a rotation stops, the TLS material in use can be read and the newest is at least staged; the desired generation is reached |
| `node_runtime` | `SupervisionInvariant`, `OrderlyExit`, `RestartBudget`, `ShutdownTerminates` | no adapter is forgotten, the budget is renewed by the current run only, the offline goes out last, a signal ends the process |

Deadlock is checked in `node_runtime`, where the only state without a successor
is the exited process, which stutters explicitly. The other models have bounds
that let their behaviours end.

Every property has a mutant in `PROJECT.json`: a plausible slip in one mapped
definition under which TLC finds the property violated.

### Bounds, and why they are enough

- `output`: two rows, because the order of two and a duplicate of the one before
  is all the contract speaks of; two packet ids and a request channel of two, so
  a status and a row are under way together; one disruption (loss, crash, failed
  statement, onset of a fault). Recoveries and restarts are not counted.
- `detection`: inputs below, between and above the thresholds. State pipelines
  take five of them in three units of time, with windows of up to two units, both
  modes, a calibration that turns the signal over, and a reboot at any point.
  Counters take six inputs, so that a limit of two is reached and passed.
- `pipelines`: two ids, seven definitions that differ in kind, input, detector
  and unit, four readings of which one is not finite after calibration.
- `export`: four versions, commands of one or two definitions, two power losses.
- `collector_*`: every limit is one or two rows above what one envelope needs,
  so eviction, expiry and the reserve are reached; two units of time with ages of
  one, so a claim expires and is renewed. Acceptances are not bounded. Two claims
  fit in the table: in `collector_ledger` one principal may have both, so that the
  table evicts; in `collector_staging` one, so that the shares do.
- `ingest`: queue, spool and input of one, so each is full while another
  envelope waits; three failures of maintenance statements, as many as a
  recovery, its failed record and its retry need.
- `publication`: two readings, three publications and batches of two, so a batch
  is partly acknowledged or pruned; two epochs and two registrations of a target,
  so a late answer meets the next one; a cleanup limit of one, so it takes two
  transactions.
- `credentials`: two devices, one of which can be the scope or the replacement of
  the other; three credentials, so one device rotates while the other has one;
  four generations; two flow classes and two capacities, of which one is exceeded
  by any heavy principal.
- `http_ingress`: three connections, two request slots and two devices; bursts,
  workers, cache, principal table and queue of one to three, so each is exhausted.
  Five inputs from outside: connections accepted, requests admitted and changes of
  an authority together, so that three requests can share two connections, or three
  connections be open with both slots taken. A connection or a request is refused
  for want of a permit only until there were two drops.
- `ingress_listener`: two addresses and both modes, four desired generations, two
  rotations, one crash and two faults, so a failure meets the recovery from an
  earlier one.
- `node_runtime`: eight configurations: the serial adapter, the I2C adapter, two
  sample adapters, one with the services, and the services alone; channels of one
  event, one restart, two runs of an adapter.

`credentials` uses symmetry over the devices; its properties are invariants and
an action property, and no constant distinguishes two devices. The other runs use
none: their sets have one or two members, or liveness is checked with them.

### Fairness

- `OutputMqtt!Fairness`: weak fairness of the handlers of the `select!` loop, of
  rumqttc's writer and of the Broker. The loop polls rumqttc, the heartbeat and
  the outbox timers for as long as it runs. The handlers are fair in the form in
  which their database statements succeed; failures are bounded by
  `MaxDisruptions`. Nothing forces a loss, a crash, a shutdown or a restart.
- `IngestPath!Fairness`: weak fairness of the client's and the collector's
  turns. `SubmitHead` is strongly fair: tokio's bounded channel hands out its
  permits in the order in which senders asked, so a waiting sender is not passed
  over for ever.
- `HttpIngress!Fairness`: time passes; a request runs into its timeout at last
  (`Abandon`), and a connection without one into the handshake's or the header
  timeout (`Close`, `routes.rs:310`); the supervisor's loop turns. A write of episode events is strongly
  fair: the ledger does not refuse every write. Nothing is assumed of the
  collector.
- `IngressListener!FairSpec`: weak fairness of `Supervise`, the one task.
- `NodeRuntime!FairSpec`: weak fairness of the cleanup, of the API task once it
  was asked to stop, and of the threads and tasks of each adapter. The timeouts
  of the cleanup are not needed for `ShutdownTerminates` and are not fair.

## Proofs

| Theorem | Module | Says |
|---|---|---|
| `TypeCorrect` | `OutputMqttProofs` | `Spec => []TypeOK` |
| `Bookkeeping` | `OutputMqttProofs` | `Spec => []AdapterInvariant` |
| `NoObservationLost` | `OutputMqttProofs` | a row leaves the outbox only after the Broker has published it |
| `OneRowUnderWay` | `OutputMqttProofs` | at most one row is between the session and the Broker |
| `ImplementsDelivery` | `OutputMqttProofs` | the adapter implements `ObservationDelivery` (its safety part) |
| `StatusIsAnnounced` | `OutputMqttProofs` | `Spec => []StatusAnnounced` |
| `EngineInvariantHolds` | `PipelineEngineProofs` | `Spec => []EngineInvariant` |
| `RetainedCountHolds` | `PipelineEngineProofs` | `Spec => []RetainedCountIsCurrent` |
| `SeriesRulesHold` | `PipelineEngineProofs` | `Spec => SeriesRules` |
| `ExportInvariantHolds` | `PipelineExportProofs` | the inductive invariant of one exporter |
| `BackupIsWhole` | `PipelineExportProofs` | one exporter: `Spec => []WholeFile` |
| `ExportedChangesAreKept` | `PipelineExportProofs` | one exporter: `Spec => []ExportedIsKept` |
| `ListenerInvariantHolds` | `IngressListenerProofs` | the inductive invariant of the listener |
| `ExposedOnlyWhenApplied` | `IngressListenerProofs` | `Spec => []ExposedIsApplied` |
| `TlsMaterialKept` | `IngressListenerProofs` | `Spec => []CustodyKept` |
| `CredentialInvariantHolds` | `DeviceCredentialsProofs` | the inductive invariant of the credentials |
| `CurrentAuthenticationIsTrue` | `DeviceCredentialsProofs` | `Spec => []CurrentAuthIsTrue` |
| `RotationIsSafe` | `DeviceCredentialsProofs` | `Spec => []RotationSafe` |
| `DebtInvariantHolds` | `DeviceCredentialsProofs` | the inductive invariant of the capacity debt |
| `DebtStaysExact` | `DeviceCredentialsProofs` | `Spec => []DebtIsExact` |
| `DebtNeedsApproval` | `DeviceCredentialsProofs` | `Spec => OnlyApprovedDebt` |
| `PublicationInvariantHolds` | `PublicationProofs` | the inductive invariant of the publication log |
| `LogStaysSound` | `PublicationProofs` | `Spec => []LogIsSound` |
| `CursorCoversOnlyTaken` | `PublicationProofs` | `Spec => []CursorCovers` |
| `OneRecordPerName` | `PublicationProofs` | `Spec => []PublicationNamesOne` |
| `ReadingsStayInCustody` | `PublicationProofs` | `Spec => CustodyKept` |
| `NodeInvariantHolds` | `NodeRuntimeProofs` | the inductive invariant of the node process |
| `SupervisionHolds` | `NodeRuntimeProofs` | `Spec => []SupervisionInvariant` |
| `OrderlyExitHolds` | `NodeRuntimeProofs` | `Spec => []OrderlyExit` |
| `RestartBudgetHolds` | `NodeRuntimeProofs` | `Spec => RestartBudget` |

**Output Adapter.** The assumptions are `OutputAssumption` and
`FaultsAssumption`: the bounds are natural numbers, the fault count has a
positive bound, no fault reason stands for "no fault", and the request channel
has room for two requests. `DeletedOnlyAfterPublished` is not inductive. A row is
deleted when a PUBACK comes for the packet id the session has noted for it, so
the proof needs to know that the note is right. `AdapterInvariant` adds:

- `Attribution`: `Session.pending` agrees with rumqttc. The entries without a
  packet id are, in order, the packets whose `Outgoing::Publish` is still to
  come, then the queued requests.
- `PacketIds`: ids on the wire are distinct, stand for what was sent under them,
  and an acknowledged one stands for something published.
- `OneRow`: only one row is under way.
- `RowOrder`: a row under way is the oldest of the table or the one published
  last. This gives the order of delivery and so the refinement.

The proof has one lemma per action, or per kind of step several actions share
(`StatusQueued`, `RowQueued`, `ClearedStep`, ...), combined in `CoreStep`.

`StatusAnnounced` needs to look ahead of the Broker: until it has published a
status of the connection, the next packet it reads is a status or a DISCONNECT,
or is not written yet and is then the first request (`GreetingComes`). `ConnAck`
establishes this, because it queues the status before it looks for a row.

**Pipelines.** The assumptions are `EvaluatorAssumption` and `EngineAssumption`:
there are finitely many pipeline ids, thresholds and readings are numbers, and no
definition or value stands for "none". `EngineInvariant` is checked by the run
and already holds inside an open transaction: it is stated of the committed
database and of the working copy, and says which steps the open transaction
still has to take (`TodoAgrees`). The induction is on `EngineSteps`, which adds
`CurrentCount` of both copies and `Follows(db, tx)`: whatever was written so far,
committing it now would follow the series rules. So a failure at any step, which
drops the copy, and a commit, which makes it the database, are both safe, and
`SeriesRules` is what a commit step shows. Two kinds of lemma carry the proof.
What one evaluation returns (`EvaluateFacts`: a count emits the counter it has
advanced, a state only the opposite of the last one, an error nothing) and what
appending one Observation or storing one state does to the database
(`MayFollow`, `MayStore`).

**Backup file.** The assumption on the constants is `ExportAssumption`; the
theorems state their conditions themselves. `OneExporter` is the condition the
code does not meet when nodectl exports beside the Console (Disagreements, 3).
`ExportInvariant` follows the
file through the export (`Progress`: at which point the temporary file is
partial, whole, durable) and says that the name, and what a power loss would
leave of it, is a whole durable file other than the one under way (`Whole`). So no
step changes the content of either name (`ContentKept`); a name moves to a newer
version or, when the power fails, to the other name's, and both keep what was
exported (`Kept`).

**Device listener.** The assumption is `BoundAssumption`: the modes are the two
the code has and the bounds are natural numbers. `ExposedIsApplied` is not
inductive, because the applied columns and the listener change in different
transactions. `ListenerInvariant` says where they may differ: between `Publish`
and `Switch` the supervisor has already written the new columns, and then no
listener accepts (`Exposure`); applied, runtime and decided generations are never
ahead of the desired one (`Generations`). `CustodyKept` is part of it: the
generation that is applied is always in its final place, so a reconciliation that
is cut short, which has touched nothing unreferenced before the referenced ones are
promoted, cannot take it away; and what a rotation finds staged is the newest
generation, because only the newest is ever referenced before it is promoted.

**Credentials.** The assumptions are `NoneAssumption` (the value for "no row" is
not a row), `BoundAssumption` (there are finitely many devices, and the bounds
are natural numbers) and `ConfigAssumption` (weights and capacities are positive,
as `required_positive_i64` demands). `CurrentAuthIsTrue` needs the generation of the
authentication in use to be at most the present one, so that an advanced
generation never equals it (`AuthTrue`). `RotationSafe` needs that a proven
credential was delivered (`Rows`) and that two live credentials of a principal
differ in state (`Unique`), from which the cardinalities follow.

`DebtInvariant` adds two facts to `DebtIsExact`. A registered device is in its
principal's scopes (`OwnScope`), so adding a device makes exactly one principal
live, and retiring another one takes no scope it needs. A preview of the present
generation was computed in the present tables (`PreviewTrue`): every step that
changes the tables advances the generation, so the number that
`validate_capacity_approval` compares stands for them, and `OnlyApprovedDebt` is
what an approved step shows. The arithmetic is that of the sums. The code adds the
weight of one principal to what is required, for a change of class takes the old
weight off first, and later sums over all of them again; both must agree. (An
amount that leaves 64 bits is refused by `checked_capacity_add` before anything is
changed; the model's amounts are natural numbers.) `Total` counts the units of weight of a set of
principals one by one (`{d} \X 1..w[d]`), so that it has the laws of a
cardinality, and `SumIsTotal` shows that the equation of the library's fold has no
other solution, because a least set on which they differed would be nonempty and
contradict the equation. From there `Performed` says that each operation does to
the requirement what its prospective status says, and `CloseDebt` that what takes
principals away never makes the debt worse.

**Publication.** The assumption is `PublicationAssumption`: the limits are
positive, the bounds natural numbers, and there is an epoch. None of the four
properties is inductive by itself. `PublicationInvariant` adds what ties the
publisher's three steps together:

- `Naming` and `FlightNaming`: the log, the batch under way and the archives know
  the same record under an epoch and a number, and nobody knows a number of the
  present epoch that was not given out. So a new row, or a new epoch, has names
  nobody has used.
- `Coverage`: what the cursor has passed was taken; what it will have passed when
  the batch under way is acknowledged is in the batch or was taken before. The
  batch is a prefix of what is not acknowledged (`BatchIsPrefix`), and rows queued
  meanwhile have higher numbers, so a late acknowledgement is safe.

`ReadingsStayInCustody` follows: retention deletes only what `Coverage` says was
taken, the cleanup only readings `PreActivationKept` says no row is about, and a
recovery gives every row it carries a place of its own (`Places`).

**Node process.** The assumptions are those of the adapters
(`InputAdaptersAssumption`, `SerialAssumption`, `PollingAssumption`: three kinds
of adapter, channels with room for one element, natural thresholds) and
`NodeAssumption`: a configuration names known adapters, of which there are
finitely many, and a budget is a natural number. `NodeRuntimeSteps` has the
inductive invariant and most of the steps, `NodeRuntimeProofs` the steps that
count adapters and the theorems. `SupervisionInvariant` speaks of the loop only
and of what it can see. `NodeInvariant` adds:

- `Placement`: from the start to the cleanup an adapter is nowhere, registered,
  waiting or exhausted, and the host's list, the streams, the active generations
  and the watching tasks say the same of it. The two counts are cardinalities, so
  each step that moves an adapter changes one of them by one.
- `Watches`: a notice in the channel is of a generation that was given out, and
  if it is of the active one then that run has decoded something. This makes
  `RestartBudget` hold: a notice that passes `activity_notice_is_current` is of
  the run it would renew. The mirror of an interface is right except between a
  restart and the clearing of its fault (`main = "restarted"`).
- `Ending`: a run whose task has ended is over, and while nothing timed out the
  cleanup still has every watched adapter on its list; so when it comes to the
  Output Adapter all of them are done. Exit code 0 without a signal traces back
  to a process with nothing to run.

Most steps belong to one run of one adapter and touch nothing of the node: they
are shown to have a `RunEffect`, which keeps the invariant once for all of them.

Model-checked only:

- The liveness properties: fairness and ENABLED are outside the prover's reach.
- `MatchesReference` and `NeverEarly`: the reference is defined over the whole
  history of inputs.
- `ReadingsAttributed`, `ClaimsSound`, `ReserveAdmits`, `StagedKept`,
  `ReceiptsTruthful` and `FailedPurgeReported`: `IngestStore` evicts with
  recursive operators, which the prover does not accept.
- `EpisodesReported` and `NoFreeFlow` of the HTTP ingress: no proof has been
  written.

## Disagreements between the code and its documents

Line numbers of `product-model.md` and `mqtt-output-adapter-v1.md` are those of
`docs/product/en/concepts` and `docs/product/en/contracts`. Each is a property
stated in its module and left out of the runs, because it does not hold of the
code. Adding the property to the run's configuration (for 3, a second exporter)
makes TLC show the behaviour.

1. `OfflineAckIsItsOwn` (`output`). The graceful shutdown clears
   `Session.pending` before it publishes `offline` (`output_mqtt.rs:214`). A
   publication still queued in rumqttc is then taken for the offline one, and its
   PUBACK ends the wait that lines 30 and 212-213 describe as the wait for the
   offline's own.
2. `NoStaleRetained` (`pipelines`). An import that gives an id another kind moves
   it to another topic without clearing the old one (`engine.rs:176`;
   `mqtt-output-adapter-v1.md:49`, `:233`).
3. `WholeFile` (`export`, with `Exporters = {"console", "nodectl"}`). The
   Console and nodectl write the same `pipelines.toml.tmp` (`export.rs:86`, and
   its comment at 67; `product-model.md:188`).
4. `FaultEndsWithWrite` (`ingest`). A `Duplicate` or `Rejected` ack ends the
   `storage-write-failed` fault though nothing was written (`actor.rs:269`;
   `faults.rs:135`).
5. `DisabledIsNotServed` (`ingress_listener`). After a restart
   `recover_last_applied` (`apps/node/src/ingress.rs:448`) takes the applied
   columns for a served configuration. They do not tell that their generation was
   a disabled one, which `transition.rs:98` commits "after its prior listener has
   been paused and durable state names the disabled desired configuration".
6. `FailedInterfaceHasFault` (`node_runtime`). The restart branch
   (`main.rs:687`) clears the interface fault when the start returns, but the
   BravePI adapter opens its port on its own thread. When that failure was
   already mirrored, the fault stays cleared. `product-model.md:162`: "the fault
   disappears once the interface opens".

Others were met while modelling and have no property.

- Without any PUBACK the request channel fills up and no heartbeat is queued any
  more (`output_mqtt.rs:310`; contract `mqtt-output-adapter-v1.md:226`).
- `nodectl pipeline update` stops at the first definition that is refused and
  does not export the ones before it (`pipeline.rs:117`; `product-model.md:188`).
- The Console's response does not tell that the export failed (`routes.rs:378`;
  `mqtt-output-adapter-v1.md:225`).
- An envelope protects its own subject from eviction. A device nobody approves
  can fill its adapter's share; its envelopes then fail until its rows age out or
  an operator acts (`timeseries/src/lib.rs:476`). `ReserveAdmits` is
  stated for subjects with nothing staged.
- nodectl gives every archive the id `archive`. A target that is removed and
  registered again takes over the cursor of an answer that was still under way
  to the one before it (`publish_task.rs:286`). `CursorCovers` is stated with
  one endpoint.
- After the log was pruned, a restart can queue an `epoch_start` a second time
  (`apps/node/src/epoch_start.rs:50`).
- A rotation whose promotion fails after the commit returns an error although the
  new generation is the desired one. It is not served until the next rotation or a
  restart (`core/ops/src/ingress_listener.rs`, `CutShort`).
- A listener that died and is then disabled fails every tick until the process
  restarts (`apps/node/src/ingress.rs:427`).
- The principal table of the admission has no eviction: once it is full a new
  principal is refused until the listener is rebuilt (`admission.rs:518`).

## What is left out

Inside the modelled parts:

- Payloads, topics, wording and logging. Byte limits of staging, which are
  tested in the same places as the row limits.
- A wall clock that is set back. The clock of `Collector` only runs forward.
- In `Collector`, the publication-log rows and the pipelines of the accept
  transaction; `Publication` and `PipelineEngine` have them.
- In `IngestPath`, the ledger operations and retention, which `Collector` has.
- In `HttpIngress`, more than one peer address and flow class; the order in which
  `admission_health` reads its three pools.
- In `IngressListener`, connections that were accepted before a switch: they keep
  their policy until they end.
- In `NodeRuntime`, an Output Adapter that does not end: `StopOutput` is one step
  that completes, while the code awaits a task that may still wait for room in
  rumqttc's channel (`main.rs:843`, `output_mqtt.rs:310`). `CleanupTimeout` can end
  the wait at any point, so the safety properties cover it; `ShutdownTerminates` is
  checked for an Output Adapter that ends, and it is that timeout which ends the
  process otherwise.
- In `NodeRuntime`, the length of backoffs, and the branch for events of an
  adapter's stream, which has no sender.
- Device names, models, positional inventory and the event log of the ledger.

Not modelled:

- Operator authentication (tokens, sessions, guards of the API), the measurement
  registry, clock trust: rows read and written in one transaction each, with no
  state between two of them. Their verdicts are choices of `Collector`.
- SQLite access: it is the atomic steps of the models. Migrations are sequential
  set-up code; the triggers of the credentials are modelled.
- The publication wire format and the frozen supervision vocabulary: types,
  serialization and validation.
- The device projection engine: it applies events of adapter streams, which no
  built-in adapter sends.
- Configuration, the health file and the read-only routes: parsing and reporting.
- Hardware drivers and frame decoding: a choice of outcomes in the adapters.
