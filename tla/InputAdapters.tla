---------------------------- MODULE InputAdapters ----------------------------
(***************************************************************************)
(* The built-in Input Adapters and the host API between them and the node  *)
(* (input/host-api, input/runtimes/polling, adapters/rpi-local,            *)
(* adapters/bravepi-mainboard, adapters/trial-sample).  An adapter is a    *)
(* few tasks and threads joined by bounded channels:                       *)
(*                                                                         *)
(*   serial   reader thread -> bytes -> decoded_event_loop -> events       *)
(*            -> composition                                               *)
(*   polling  polling_loop -> events -> composition                        *)
(*   sample   composition alone                                            *)
(*                                                                         *)
(* The composition submits readings to the ingest client and ends on a     *)
(* stop request, a closed client or the end of its worker; a finaliser     *)
(* then stops the worker, joins it and completes.  A task that ends drops  *)
(* its channel ends, so a channel's receiver is closed exactly when the    *)
(* task that owns it is done.  This module has the host API, the           *)
(* composition and the finaliser; SerialAdapter and PollingAdapter have    *)
(* the workers.                                                            *)
(*                                                                         *)
(* Frames and readings are reduced to the kind of event they turn into.    *)
(* Diagnostics are only logged and are left out.                           *)
(***************************************************************************)
EXTENDS Naturals, Sequences, FiniteSets

CONSTANTS
    Serial, Polling, Sample,    \* the instances, by adapter type
    EventCap                    \* capacity of the event channels (256)

Instances == Serial \cup Polling \cup Sample

ASSUME InputAdaptersAssumption ==
    /\ Serial \cap Polling = {} /\ Serial \cap Sample = {} /\ Polling \cap Sample = {}
    /\ EventCap \in Nat \ {0}

VARIABLES
    activity,      \* instance -> ActivitySnapshot of its current run
    stop,          \* instance -> the watch value of ShutdownHandle::request
    completion,    \* instance -> the AdapterCompletion sent, or "none"
    ingest,        \* instance -> its IngestClient: "open" or "closed"
    comp,          \* instance -> the composition task, then the finaliser
    outcome,       \* instance -> what the composition ended with
    loop,          \* instance -> decoded_event_loop or polling_loop
    out,           \* instance -> events that loop still has to send
    events,        \* instance -> the event channel
    command        \* instance -> Shutdown was sent to the loop

hostApi == <<activity, stop, completion, ingest>>
loopVars == <<loop, out, events, command>>
adapterVars == <<hostApi, comp, outcome, loopVars>>

CompStates == {"none", "run", "ended", "joining", "done"}
LoopStates == {"probe", "select", "emit", "lastEmit", "done"}

\* The composition tells observations from all other events, which it logs or
\* ignores: discoveries, configs, losses and errors.
Events == {"observation", "other"}
Interfaces == {"unreported", "open", "failed"}

\* decode: no physical decode, one "new" since the host last looked, or "seen"
NoActivity == [decode |-> "none", iface |-> "unreported"]

AdaptersTypeOK ==
    /\ activity \in [Instances -> [decode : {"none", "new", "seen"}, iface : Interfaces]]
    /\ stop \in [Instances -> BOOLEAN]
    /\ completion \in [Instances -> {"none", "requested", "unexpected"}]
    /\ ingest \in [Instances -> {"open", "closed"}]
    /\ comp \in [Instances -> CompStates]
    /\ outcome \in [Instances -> {"none", "requested", "unexpected"}]
    /\ loop \in [Instances -> LoopStates]
    /\ command \in [Instances -> BOOLEAN]
    /\ \A a \in Instances : events[a] \in Seq(Events) /\ Len(events[a]) <= EventCap

AdaptersInit ==
    /\ activity = [a \in Instances |-> NoActivity]
    /\ stop = [a \in Instances |-> FALSE]
    /\ completion = [a \in Instances |-> "none"]
    /\ ingest = [a \in Instances |-> "open"]
    /\ comp = [a \in Instances |-> "none"]
    /\ outcome = [a \in Instances |-> "none"]
    /\ loop = [a \in Instances |-> "done"]
    /\ out = [a \in Instances |-> <<>>]
    /\ events = [a \in Instances |-> <<>>]
    /\ command = [a \in Instances |-> FALSE]

\* start_host: runtime_channels, then the tasks; the loop starts at pc.
StartTasks(a, pc) ==
    /\ activity' = [activity EXCEPT ![a] = NoActivity]
    /\ stop' = [stop EXCEPT ![a] = FALSE]
    /\ completion' = [completion EXCEPT ![a] = "none"]
    /\ comp' = [comp EXCEPT ![a] = "run"]
    /\ outcome' = [outcome EXCEPT ![a] = "none"]
    /\ loop' = [loop EXCEPT ![a] = pc]
    /\ out' = [out EXCEPT ![a] = <<>>]
    /\ events' = [events EXCEPT ![a] = <<>>]
    /\ command' = [command EXCEPT ![a] = FALSE]
    /\ UNCHANGED ingest

----------------------------------------------------------------------------
(* The event channel, from the loop's side                                 *)

\* Mutant: the receiver lives as long as the finaliser.
EventsClosed_Late(a) == comp[a] = "done"

\* event_rx is moved into the composition task and dropped with it.
EventsClosed(a) == comp[a] \in {"ended", "joining", "done"}

\* The loop returns: it drops its sender, its receiver and what it had to send.
LoopReturns(a) ==
    /\ loop' = [loop EXCEPT ![a] = "done"]
    /\ out' = [out EXCEPT ![a] = <<>>]

\* event_tx.send(..).await of the next event: it waits while the channel is
\* full and fails once the receiver is gone.
Emit(a) ==
    /\ loop[a] \in {"emit", "lastEmit"}
    /\ \/ /\ EventsClosed(a)
          /\ LoopReturns(a)
          /\ UNCHANGED events
       \/ /\ ~EventsClosed(a)
          /\ Len(events[a]) < EventCap
          /\ events' = [events EXCEPT ![a] = Append(@, Head(out[a]))]
          /\ out' = [out EXCEPT ![a] = Tail(@)]
          /\ loop' = IF Len(out[a]) > 1 THEN loop
                     ELSE [loop EXCEPT ![a] = IF @ = "emit" THEN "select" ELSE "done"]
    /\ UNCHANGED <<hostApi, comp, outcome, command>>

\* The loop has events to send and then goes on, or returns.
Sends(a, es, last) ==
    /\ out' = [out EXCEPT ![a] = es]
    /\ loop' = [loop EXCEPT ![a] = IF last THEN "lastEmit" ELSE IF es = <<>> THEN "select" ELSE "emit"]

\* The Shutdown command of the finaliser; polling_loop also asks at its head
\* whether the event channel is closed.
LoopStop(a) ==
    /\ loop[a] = "select"
    /\ command[a] \/ (a \in Polling /\ EventsClosed(a))
    /\ LoopReturns(a)
    /\ UNCHANGED <<hostApi, comp, outcome, events, command>>

----------------------------------------------------------------------------
(* The composition task and the finaliser                                  *)

\* The composition breaks out of its loop; its event receiver is dropped.
CompEnds(a, why) ==
    /\ comp' = [comp EXCEPT ![a] = "ended"]
    /\ outcome' = [outcome EXCEPT ![a] = why]
    /\ events' = [events EXCEPT ![a] = <<>>]

CompStop(a) ==
    /\ comp[a] = "run"
    /\ stop[a]
    /\ CompEnds(a, "requested")
    /\ UNCHANGED <<hostApi, loop, out, command>>

\* A physical decode; the readings may have no mapping, be queued or find the
\* queue full, or find the client closed, which ends the adapter.
Observe(a) ==
    /\ activity' = [activity EXCEPT ![a].decode = "new"]
    /\ \/ /\ events' = [events EXCEPT ![a] = IF @ = <<>> THEN @ ELSE Tail(@)]
          /\ UNCHANGED <<comp, outcome>>
       \/ /\ ingest[a] = "closed"
          /\ CompEnds(a, "unexpected")
    /\ UNCHANGED <<stop, completion, ingest, loop, out, command>>

CompEvent(a) ==
    /\ comp[a] = "run"
    /\ events[a] # <<>>
    /\ \/ /\ Head(events[a]) = "observation"
          /\ Observe(a)
       \/ /\ Head(events[a]) # "observation"
          /\ events' = [events EXCEPT ![a] = Tail(@)]
          /\ UNCHANGED <<hostApi, comp, outcome, loop, out, command>>

\* trial-sample: the ticker makes the readings itself.
SampleTick(a) ==
    /\ a \in Sample
    /\ comp[a] = "run"
    /\ Observe(a)

\* The sender is gone and the channel is drained.
CompWorkerReturned(a) ==
    /\ a \notin Sample
    /\ comp[a] = "run"
    /\ events[a] = <<>>
    /\ loop[a] = "done"
    /\ CompEnds(a, "unexpected")
    /\ UNCHANGED <<hostApi, loop, out, command>>

\* shutdown.shutdown(): the command is sent without waiting for room.
FinalShutdown(a) ==
    /\ comp[a] = "ended"
    /\ a \notin Sample
    /\ comp' = [comp EXCEPT ![a] = "joining"]
    /\ command' = [command EXCEPT ![a] = TRUE]
    /\ UNCHANGED <<hostApi, outcome, loop, out, events>>

\* The workers are joined (readerDone: the serial reader thread); then complete.
\* trial-sample has none and completes at once.
FinalComplete(a, readerDone) ==
    /\ comp[a] = IF a \in Sample THEN "ended" ELSE "joining"
    /\ loop[a] = "done"
    /\ readerDone
    /\ comp' = [comp EXCEPT ![a] = "done"]
    /\ completion' = [completion EXCEPT ![a] = outcome[a]]
    /\ UNCHANGED <<activity, stop, ingest, outcome, loopVars>>
=============================================================================
