----------------------------- MODULE NodeRuntime -----------------------------
(***************************************************************************)
(* The composition root of the edge node (apps/node/src/main.rs, fn run):  *)
(* it starts the services and the Input Adapters, then runs one fan-in     *)
(* loop that restarts adapters with a budget (supervision.rs), and at the  *)
(* end cleans up and chooses the exit code.  The adapters themselves are   *)
(* SerialAdapter and PollingAdapter; between them and the loop stand       *)
(*                                                                         *)
(*   AdapterHost     the registered adapters and their event streams       *)
(*   the join task   waits for the completion of a run, ends the run's     *)
(*                   activity task and then closes its stream              *)
(*   the activity task  once a second reads the activity snapshot of the   *)
(*                   run, sends a notice for a new physical decode and     *)
(*                   mirrors an interface change into the device faults    *)
(*                                                                         *)
(* The collector, the API and the MQTT Output Adapter appear as the task   *)
(* handles the loop waits on.  The stream of an adapter carries no event:  *)
(* its sender is only ever dropped.  Backoff delays are left out: a timer  *)
(* may fire at any time.                                                   *)
(***************************************************************************)
EXTENDS SerialAdapter, PollingAdapter

CONSTANTS
    Configs,          \* the configurations: [adapters, api, mqtt]
    MaxRestarts,      \* RestartPolicy::max_restarts (5)
    MaxGeneration     \* bound: runs of an adapter that are explored

ASSUME NodeAssumption ==
    /\ \A c \in Configs : c.adapters \subseteq Instances /\ {c.api, c.mqtt} \subseteq BOOLEAN
    /\ MaxRestarts \in Nat /\ MaxGeneration \in Nat \ {0}
    /\ IsFiniteSet(Instances)

VARIABLES
    conf,             \* the configuration of this process
    main,             \* where fn run is
    host,             \* AdapterHost::adapters, in registration order
    stream,           \* adapter -> its stream in AdapterHost: "none", "open", "closed"
    watch,            \* adapter -> its activity task (and join task)
    active, gens,     \* active_generations (0: none), generation_counters
    restarts,         \* RestartTracker::counts
    timers,           \* adapters with a restart timer, or its notification in rx_restart
    pending, exhausted,   \* pending_restart_count, exhausted_adapter_count
    notices,          \* the activity channel
    faults,           \* adapter -> it has an interface-open-failed device fault
    health,           \* adapter -> status in the health state
    svc               \* the services and the flags of fn run about them

supervision == <<active, gens, restarts, timers, pending, exhausted>>
nodeVars == <<conf, main, host, stream, watch, supervision, notices, faults, health, svc>>
vars == <<adapterVars, serialVars, target, nodeVars>>
runs == <<adapterVars, serialVars, target>>

MainStates == {"prepare", "api", "reconcile", "start", "loop", "restarted", "cleanup",
               "joinAdapter", "joinApi", "stopOutput", "exited"}
Statuses == {"none", "running", "restarting", "exhausted"}
NoWatch == [on |-> FALSE, gen |-> 0, iface |-> "unreported", due |-> FALSE]

TypeOK ==
    /\ AdaptersTypeOK /\ SerialTypeOK /\ PollingTypeOK
    /\ main \in MainStates
    /\ host \in Seq(Instances) /\ stream \in [Instances -> {"none", "open", "closed"}]
    /\ watch \in [Instances -> [on : BOOLEAN, gen : 0 .. MaxGeneration, iface : Interfaces, due : BOOLEAN]]
    /\ active \in [Instances -> 0 .. MaxGeneration] /\ gens \in [Instances -> 0 .. MaxGeneration]
    /\ restarts \in [Instances -> 0 .. MaxRestarts]
    /\ pending \in Nat /\ exhausted \in Nat
    /\ faults \in [Instances -> BOOLEAN] /\ health \in [Instances -> Statuses]

Init ==
    /\ AdaptersInit /\ SerialInit /\ PollingInit
    /\ conf \in Configs
    /\ main = "prepare"
    /\ host = <<>> /\ stream = [a \in Instances |-> "none"]
    /\ watch = [a \in Instances |-> NoWatch]
    /\ active = [a \in Instances |-> 0] /\ gens = [a \in Instances |-> 0]
    /\ restarts = [a \in Instances |-> 0]
    /\ timers = {} /\ pending = 0 /\ exhausted = 0
    /\ notices = <<>>
    /\ faults = [a \in Instances |-> FALSE]
    /\ health = [a \in Instances |-> "none"]
    /\ svc = [api |-> "off", apiRunning |-> FALSE, apiAsked |-> FALSE, apiFailed |-> FALSE,
              output |-> "off", outputFailed |-> FALSE, collectorAlive |-> TRUE,
              serviceOnly |-> FALSE, signalled |-> FALSE, late |-> FALSE, cleaned |-> TRUE,
              exitOk |-> TRUE]

----------------------------------------------------------------------------
(* Startup                                                                 *)

\* An early `return false`.
Fails == main' = "exited" /\ svc' = [svc EXCEPT !.exitOk = FALSE]

\* output_mqtt::prepare
PrepareOutput ==
    /\ main = "prepare"
    /\ \/ main' = "api" /\ UNCHANGED svc
       \/ conf.mqtt /\ Fails
    /\ UNCHANGED <<runs, conf, host, stream, watch, supervision, notices, faults, health>>

\* spawn_api_task
SpawnApi ==
    /\ main = "api"
    /\ \/ /\ main' = "reconcile"
          /\ svc' = IF conf.api THEN [svc EXCEPT !.api = "running", !.apiRunning = TRUE] ELSE svc
       \/ conf.api /\ Fails
    /\ UNCHANGED <<runs, conf, host, stream, watch, supervision, notices, faults, health>>

\* The pipelines are reconciled before any reading is accepted.
ReconcilePipelines ==
    /\ main = "reconcile"
    /\ \/ main' = "start" /\ UNCHANGED svc
       \/ Fails
    /\ UNCHANGED <<runs, conf, host, stream, watch, supervision, notices, faults, health>>

\* PreparedInputAdapter::start, which returns Ok
Started(a) ==
    \/ a \in Serial /\ StartSerial(a) /\ UNCHANGED target
    \/ a \in Polling /\ StartPolling(a) /\ UNCHANGED serialVars
    \/ a \in Sample /\ StartTasks(a, "done") /\ UNCHANGED <<serialVars, target>>

\* register_running_adapter: the join task, its activity task and the stream
Registered(a, gen) ==
    /\ host' = Append(host, a)
    /\ stream' = [stream EXCEPT ![a] = "open"]
    /\ watch' = [watch EXCEPT ![a] = [on |-> TRUE, gen |-> gen, iface |-> "unreported",
                                      due |-> FALSE]]

\* Mutant: the armed timer is not counted.
NextDelay_Uncounted(a, n) ==
    \/ /\ restarts[a] < MaxRestarts
       /\ restarts' = [restarts EXCEPT ![a] = @ + 1]
       /\ timers' = timers \cup {a}
       /\ pending' = n
       /\ health' = [health EXCEPT ![a] = "restarting"]
       /\ UNCHANGED exhausted
    \/ /\ restarts[a] >= MaxRestarts
       /\ exhausted' = exhausted + 1
       /\ pending' = n
       /\ timers' = timers \ {a}
       /\ health' = [health EXCEPT ![a] = "exhausted"]
       /\ UNCHANGED restarts

\* tracker.next_delay and what the loop does with it, n other restarts being pending:
\* a timer while the budget lasts, else the adapter is exhausted for good.
NextDelay(a, n) ==
    \/ /\ restarts[a] < MaxRestarts
       /\ restarts' = [restarts EXCEPT ![a] = @ + 1]
       /\ timers' = timers \cup {a}
       /\ pending' = n + 1
       /\ health' = [health EXCEPT ![a] = "restarting"]
       /\ UNCHANGED exhausted
    \/ /\ restarts[a] >= MaxRestarts
       /\ exhausted' = exhausted + 1
       /\ pending' = n
       /\ timers' = timers \ {a}
       /\ health' = [health EXCEPT ![a] = "exhausted"]
       /\ UNCHANGED restarts

\* start returned an error: interface-open-failed, and another attempt later.
StartFailed(a, n) ==
    /\ a \notin Sample
    /\ faults' = [faults EXCEPT ![a] = TRUE]
    /\ NextDelay(a, n)
    /\ UNCHANGED <<runs, host, stream, watch, active>>

\* The loop over config.adapter_instances
StartInstance(a) ==
    /\ main = "start"
    /\ a \in conf.adapters /\ health[a] = "none"
    /\ \/ /\ Started(a)
          /\ Registered(a, 1)
          /\ active' = [active EXCEPT ![a] = 1]
          /\ gens' = [gens EXCEPT ![a] = 1]
          /\ health' = [health EXCEPT ![a] = "running"]
          /\ UNCHANGED <<restarts, timers, pending, exhausted, faults>>
       \/ StartFailed(a, pending) /\ UNCHANGED gens
    /\ UNCHANGED <<conf, main, notices, svc>>

\* output_mqtt::spawn; then the loop is entered.
EnterLoop ==
    /\ main = "start"
    /\ \A a \in conf.adapters : health[a] # "none"
    /\ main' = "loop"
    /\ svc' = [svc EXCEPT !.output = IF conf.mqtt THEN "running" ELSE "off",
                          !.serviceOnly = host = <<>> /\ pending = 0 /\ exhausted = 0
                                              /\ (svc.apiRunning \/ conf.mqtt)]
    /\ UNCHANGED <<runs, conf, host, stream, watch, supervision, notices, faults, health>>

----------------------------------------------------------------------------
(* The fan-in loop: one action per branch of its select                    *)

\* should_stop_after_all_adapter_streams_closed
ShouldStop ==
    /\ pending = 0
    /\ exhausted = 0
    /\ ~svc.serviceOnly \/ ~(svc.apiRunning \/ conf.mqtt)

InLoop == main \in {"start", "loop", "restarted"}
Stopping == (\A a \in Instances : stream[a] = "none") /\ ShouldStop
Selecting == main = "loop" /\ ~Stopping

\* The loop is left: nobody reads its channels any more, and what they hold
\* goes with them.
LeaveLoop ==
    /\ main' = "cleanup"
    /\ timers' = {} /\ notices' = <<>>
    /\ UNCHANGED <<runs, conf, host, stream, watch, active, gens, restarts, pending, exhausted,
                   faults, health>>

StreamsClosed ==
    /\ main = "loop"
    /\ Stopping
    /\ LeaveLoop
    /\ UNCHANGED svc

\* The signal is handled when it comes: what the branch finds does not depend
\* on how long it waited.
OnSignal ==
    /\ Selecting
    /\ LeaveLoop
    /\ svc' = [svc EXCEPT !.signalled = TRUE, !.apiAsked = svc.apiRunning]

\* The loop goes on without the API.
OnApiExit ==
    /\ Selecting
    /\ svc.apiRunning
    /\ svc.api = "exited"
    /\ svc' = [svc EXCEPT !.apiRunning = FALSE, !.apiFailed = TRUE]
    /\ UNCHANGED <<runs, conf, main, host, stream, watch, supervision, notices, faults, health>>

OnOutputExit ==
    /\ Selecting
    /\ svc.output = "exited"
    /\ LeaveLoop
    /\ svc' = [svc EXCEPT !.output = "off", !.outputFailed = TRUE]

\* An ingest client ended: the collector is gone.
OnIngestExit ==
    /\ Selecting
    /\ \E a \in conf.adapters : ingest[a] = "closed"
    /\ LeaveLoop
    /\ svc' = [svc EXCEPT !.collectorAlive = FALSE]

\* Mutant: any notice of a running adapter counts.
NoticeIsCurrent_Any(n) == active[n.adapter] # 0

\* activity_notice_is_current
NoticeIsCurrent(n) == active[n.adapter] = n.gen

\* note_healthy forgets the restarts; note_adapter_event marks it running.
OnNotice ==
    /\ Selecting
    /\ notices # <<>>
    /\ notices' = Tail(notices)
    /\ LET n == Head(notices)
       IN  IF NoticeIsCurrent(n)
           THEN /\ restarts' = [restarts EXCEPT ![n.adapter] = 0]
                /\ health' = [health EXCEPT ![n.adapter] = "running"]
           ELSE UNCHANGED <<restarts, health>>
    /\ UNCHANGED <<runs, conf, main, host, stream, watch, active, gens, timers, pending,
                   exhausted, faults, svc>>

\* A restart notification (its timer, schedule_restart_notification, may have
\* fired at any time): a new generation is started.  When start returns
\* Ok, the new run is already at work before the branch goes on.
OnRestart(a) ==
    /\ Selecting
    /\ a \in timers
    /\ gens[a] < MaxGeneration
    /\ gens' = [gens EXCEPT ![a] = @ + 1]
    /\ \/ /\ Started(a)
          /\ Registered(a, gens[a] + 1)
          /\ pending' = pending - 1
          /\ main' = "restarted"
          /\ active' = [active EXCEPT ![a] = gens[a] + 1]
          /\ health' = [health EXCEPT ![a] = "running"]
          /\ timers' = timers \ {a}
          /\ UNCHANGED <<restarts, exhausted, faults>>
       \/ StartFailed(a, pending - 1) /\ UNCHANGED main
    /\ UNCHANGED <<conf, notices, svc>>

\* The adapter that was registered last
LastHost == host[Len(host)]

\* The rest of that branch: device_faults.interface_opened.
AfterRestart ==
    /\ main = "restarted"
    /\ main' = "loop"
    /\ faults' = [faults EXCEPT ![LastHost] = FALSE]
    /\ UNCHANGED <<runs, conf, host, stream, watch, supervision, notices, health, svc>>

\* AdapterHost::deregister; register refuses an id it already has.
Deregistered(a) ==
    \E i \in 1 .. Len(host) :
        /\ host[i] = a
        /\ host' = SubSeq(host, 1, i - 1) \o SubSeq(host, i + 1, Len(host))

\* AdapterClosed: deregistered, then restarted later or exhausted.
OnAdapterClosed(a) ==
    /\ Selecting
    /\ stream[a] = "closed"
    /\ stream' = [stream EXCEPT ![a] = "none"]
    /\ Deregistered(a)
    /\ active' = [active EXCEPT ![a] = 0]
    /\ NextDelay(a, pending)
    /\ UNCHANGED <<runs, conf, main, watch, gens, notices, faults, svc>>

----------------------------------------------------------------------------
(* The tasks beside the loop                                               *)

NoticeCap == IF conf.adapters = {} THEN 1 ELSE 2 * Cardinality(conf.adapters)

\* One tick of the activity task: the snapshot, a notice (dropped when the
\* channel is full) and the interface change it will mirror.
ActivityTick(a) ==
    /\ watch[a].on /\ ~watch[a].due
    /\ activity[a].decode = "new" \/ activity[a].iface # watch[a].iface
    /\ activity' = [activity EXCEPT ![a].decode = IF @ = "new" THEN "seen" ELSE @]
    /\ notices' = IF InLoop /\ activity[a].decode = "new" /\ Len(notices) < NoticeCap
                  THEN Append(notices, [adapter |-> a, gen |-> watch[a].gen]) ELSE notices
    /\ watch' = [watch EXCEPT ![a].iface = activity[a].iface,
                              ![a].due = activity[a].iface # watch[a].iface]
    /\ UNCHANGED <<stop, completion, ingest, comp, outcome, loopVars, serialVars, target,
                   conf, main, host, stream, supervision, faults, health, svc>>

\* The end of the tick: the device fault is raised or cleared.
MirrorInterface(a) ==
    /\ watch[a].due
    /\ watch' = [watch EXCEPT ![a].due = FALSE]
    /\ faults' = [faults EXCEPT ![a] = watch[a].iface = "failed"]
    /\ UNCHANGED <<runs, conf, main, host, stream, supervision, notices, health, svc>>

\* The join task: the run completed; the activity task is aborted and awaited
\* (a tick that began is finished), then event_tx is dropped.
JoinTask(a) ==
    /\ watch[a].on /\ ~watch[a].due
    /\ completion[a] # "none"
    /\ watch' = [watch EXCEPT ![a] = NoWatch]
    /\ stream' = [stream EXCEPT ![a] = IF @ = "open" THEN "closed" ELSE @]
    /\ UNCHANGED <<runs, conf, main, host, supervision, notices, faults, health, svc>>

\* What the loop only hears of: tasks that end.
Alive == main \notin {"prepare", "api", "reconcile", "start", "exited"}
Hears(s) ==
    /\ svc' = s
    /\ UNCHANGED <<runs, conf, main, host, stream, watch, supervision, notices, faults, health>>

ApiTaskEnds == Alive /\ svc.api = "running" /\ Hears([svc EXCEPT !.api = "exited"])
OutputTaskEnds == Alive /\ svc.output = "running" /\ Hears([svc EXCEPT !.output = "exited"])
IngestClientEnds(a) ==
    /\ Alive
    /\ a \in conf.adapters /\ ingest[a] = "open"
    /\ ingest' = [ingest EXCEPT ![a] = "closed"]
    /\ UNCHANGED <<activity, stop, completion, comp, outcome, loopVars, serialVars, target, nodeVars>>

----------------------------------------------------------------------------
(* Cleanup, under SHUTDOWN_CLEANUP_TIMEOUT                                 *)

\* AdapterHost::shutdown_all, in reverse registration order: the stream is
\* removed, the stop is requested and the join task is awaited.
StopAdapter ==
    /\ main = "cleanup"
    /\ host # <<>>
    /\ main' = "joinAdapter"
    /\ stop' = [stop EXCEPT ![LastHost] = TRUE]
    /\ stream' = [stream EXCEPT ![LastHost] = "none"]
    /\ UNCHANGED <<activity, completion, ingest, comp, outcome, loopVars, serialVars, target,
                   conf, host, watch, supervision, notices, faults, health, svc>>

\* Awaited, or given up after ADAPTER_SHUTDOWN_TIMEOUT.
AdapterJoined ==
    /\ main = "joinAdapter"
    /\ ~watch[LastHost].on
    /\ main' = "cleanup"
    /\ host' = SubSeq(host, 1, Len(host) - 1)
    /\ UNCHANGED <<runs, conf, stream, watch, supervision, notices, faults, health, svc>>

AdapterJoinTimeout ==
    /\ main = "joinAdapter"
    /\ watch[LastHost].on
    /\ main' = "cleanup"
    /\ host' = SubSeq(host, 1, Len(host) - 1)
    /\ svc' = [svc EXCEPT !.late = TRUE]
    /\ UNCHANGED <<runs, conf, stream, watch, supervision, notices, faults, health>>

\* Mutant: the services are stopped before the adapters.
StopApi_First ==
    /\ main = "cleanup"
    /\ main' = IF svc.apiRunning THEN "joinApi" ELSE "stopOutput"
    /\ svc' = [svc EXCEPT !.apiAsked = svc.apiRunning]
    /\ UNCHANGED <<runs, conf, host, stream, watch, supervision, notices, faults, health>>

StopApi ==
    /\ main = "cleanup"
    /\ host = <<>>
    /\ main' = IF svc.apiRunning THEN "joinApi" ELSE "stopOutput"
    /\ svc' = [svc EXCEPT !.apiAsked = svc.apiRunning]
    /\ UNCHANGED <<runs, conf, host, stream, watch, supervision, notices, faults, health>>

JoinApi ==
    /\ main = "joinApi"
    /\ svc.api = "exited"
    /\ main' = "stopOutput"
    /\ UNCHANGED <<runs, conf, host, stream, watch, supervision, notices, faults, health, svc>>

\* should_exit_nonzero, with the flags as they are at the end of fn run
Exits(flags) ==
    /\ main' = "exited"
    /\ svc' = [flags EXCEPT !.exitOk = /\ flags.collectorAlive /\ ~flags.apiFailed
                                       /\ ~flags.outputFailed /\ flags.cleaned]

\* handle.shutdown(): the graceful offline of a running Output Adapter
StopOutput ==
    /\ main = "stopOutput"
    /\ Exits([svc EXCEPT !.output = IF @ = "running" THEN "stopped" ELSE @])
    /\ UNCHANGED <<runs, conf, host, stream, watch, supervision, notices, faults, health>>

CleanupTimeout ==
    /\ main \in {"joinAdapter", "joinApi", "stopOutput"}
    /\ Exits([svc EXCEPT !.cleaned = FALSE])
    /\ UNCHANGED <<runs, conf, host, stream, watch, supervision, notices, faults, health>>

----------------------------------------------------------------------------
(* The whole process                                                       *)

Startup ==
    \/ PrepareOutput \/ SpawnApi \/ ReconcilePipelines \/ EnterLoop
    \/ \E a \in Instances : StartInstance(a)

Loop ==
    \/ StreamsClosed \/ OnSignal \/ OnApiExit \/ OnOutputExit \/ OnIngestExit \/ OnNotice
    \/ AfterRestart
    \/ \E a \in Instances : OnRestart(a) \/ OnAdapterClosed(a)

Cleanup ==
    \/ StopAdapter \/ AdapterJoined \/ StopApi \/ JoinApi \/ StopOutput

Timeouts == AdapterJoinTimeout \/ CleanupTimeout

\* The tasks and threads of an adapter
Running == main # "exited"

ReaderThread(a) ==
    /\ Running /\ a \in Serial
    /\ Reader(a)
    /\ UNCHANGED <<target, nodeVars>>

WorkerLoop(a) ==
    /\ Running
    /\ \/ a \in Serial /\ DecodedEventLoop(a) /\ UNCHANGED target
       \/ a \in Polling /\ PollingLoop(a) /\ UNCHANGED serialVars
    /\ UNCHANGED nodeVars

Composition(a) ==
    /\ Running
    /\ CompEvent(a) \/ SampleTick(a)
    /\ UNCHANGED <<serialVars, target, nodeVars>>

\* The steps of an adapter's end
Finishing(a) ==
    /\ Running
    /\ \/ CompStop(a) \/ CompWorkerReturned(a) \/ FinalShutdown(a)
       \/ FinalComplete(a, a \in Serial => reader[a] = "done")
       \/ LoopStop(a)
    /\ UNCHANGED <<serialVars, target, nodeVars>>

Watching(a) ==
    /\ Running
    /\ ActivityTick(a) \/ MirrorInterface(a) \/ JoinTask(a)

Terminated == main = "exited" /\ UNCHANGED vars

Next ==
    \/ Startup \/ Loop \/ Cleanup \/ Timeouts
    \/ ApiTaskEnds \/ OutputTaskEnds
    \/ \E a \in Instances :
          \/ ReaderThread(a) \/ WorkerLoop(a) \/ Composition(a) \/ Finishing(a) \/ Watching(a)
          \/ IngestClientEnds(a)
    \/ Terminated

Spec == Init /\ [][Next]_vars

\* Tasks and threads that can go on do so, and an API that was told to stop
\* ends; no timeout is needed for it.
FairSpec ==
    /\ Spec
    /\ WF_vars(Cleanup)
    /\ WF_vars(svc.apiAsked /\ ApiTaskEnds)
    /\ \A a \in Instances :
          /\ WF_vars(ReaderThread(a)) /\ WF_vars(WorkerLoop(a))
          /\ WF_vars(Finishing(a)) /\ WF_vars(Watching(a))

----------------------------------------------------------------------------
(* Properties                                                              *)

\* In the loop, every configured adapter is registered with the host, or waits
\* for exactly one restart, or is exhausted; and the two counts the stop test
\* reads are the numbers of waiting and of exhausted adapters.
EveryAdapterSupervised ==
    main \in {"loop", "restarted"} =>
        /\ pending = Cardinality(timers)
        /\ exhausted = Cardinality({a \in Instances : health[a] = "exhausted"})
        /\ \A a \in conf.adapters :
              Cardinality({x \in {<<1, stream[a] # "none">>, <<2, a \in timers>>,
                                  <<3, health[a] = "exhausted">>} : x[2]}) = 1

\* The restarts of an adapter are forgotten only for the run that is active and
\* has decoded something, never for the late notice of an earlier run.
RestartBudget ==
    [][\A a \in Instances : restarts'[a] < restarts[a] =>
            active[a] # 0 /\ activity[a].decode # "none"]_vars

\* An adapter whose interface is known to be open has no interface-open-failed
\* fault: an I2C adapter that runs, a serial one whose open port was mirrored.
OpenInterfaceHasNoFault ==
    \A a \in Instances :
        watch[a].on /\ ~watch[a].due /\ main # "restarted"
            /\ (a \in Polling \/ watch[a].iface = "open") => ~faults[a]

\* An adapter whose mirrored interface failed to open, and has not opened since,
\* has the fault.  It does not hold of the code: see the README.
FailedInterfaceHasFault ==
    \A a \in Instances :
        watch[a].on /\ ~watch[a].due /\ watch[a].iface = "failed"
            /\ activity[a].iface = "failed" => faults[a]

\* The process ends by itself with exit code 0 only when it had nothing to run.
CleanExit ==
    main = "exited" /\ svc.exitOk =>
        svc.signalled \/ (conf.adapters = {} /\ ~conf.api /\ ~conf.mqtt)

\* When the graceful offline goes out, no adapter that was given the time to
\* stop can still submit a reading.
OfflineAfterAdapters ==
    svc.output = "stopped" /\ ~svc.late =>
        \A a \in Instances : comp[a] \in {"none", "done"}

\* After a shutdown signal the process ends, without the help of a timeout:
\* stopping an adapter never waits on a full channel.
ShutdownTerminates == svc.signalled ~> main = "exited"

\* Whatever fails and in whatever order, no adapter drops out of supervision
\* and no fault outlives its cause.
SupervisionInvariant == TypeOK /\ EveryAdapterSupervised /\ OpenInterfaceHasNoFault

\* The process ends in order: offline last, and with exit code 0 only when it
\* was asked to end or had nothing to run.
OrderlyExit == OfflineAfterAdapters /\ CleanExit
=============================================================================
