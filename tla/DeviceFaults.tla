---------------------------- MODULE DeviceFaults ----------------------------
(***************************************************************************)
(* The device faults that the status topic publishes                       *)
(* (core/pipeline/src/faults.rs, struct DeviceFaults).  Two kinds of task  *)
(* change them: the collector task (storage write failures) and the        *)
(* adapter supervision tasks (interface open failures).  Every mutation is *)
(* one critical section; the change listener it returns is called after    *)
(* the lock is released, so a mutation and its notification are two steps. *)
(*                                                                         *)
(* The listener of the MQTT Output Adapter is Notify::notify_one: it       *)
(* stores at most one permit.                                              *)
(***************************************************************************)
EXTENDS Naturals, FiniteSets

CONSTANTS
    Adapters,      \* Input Adapter instance names
    Reasons,       \* <<InterfaceOpenReason, detail>> pairs, as opaque values
    NoFault,       \* no interface-open-failed fault for an adapter
    MaxFailures    \* bound on the failure count that is explored

ASSUME FaultsAssumption ==
    /\ NoFault \notin Reasons
    /\ MaxFailures \in Nat \ {0}

VARIABLES
    storage,       \* snapshot.storage: 0 for None, else the count of the fault
    interfaces,    \* snapshot.interfaces: adapter -> reason, or NoFault
    notifying,     \* tasks that hold a listener they have not called yet
    permit         \* the permit stored in fault_changed

faultVars == <<storage, interfaces, notifying, permit>>

\* The tasks that change faults: the collector, and one task per adapter.
Tasks == {"collector"} \cup Adapters

FaultsTypeOK ==
    /\ storage \in 0 .. MaxFailures
    /\ interfaces \in [Adapters -> Reasons \cup {NoFault}]
    /\ notifying \subseteq Tasks

NoFaults ==
    /\ storage = 0
    /\ interfaces = [a \in Adapters |-> NoFault]
    /\ notifying = {}
    /\ permit = FALSE

\* DeviceFaultSnapshot::degraded
Degraded == storage > 0

\* DeviceFaultSnapshot::faults: the list as a set, without the clocks and the
\* running count (a count alone is no change of the fault set).
FaultList ==
    (IF Degraded THEN {<<"storage-write-failed">>} ELSE {})
        \cup {<<a, interfaces[a]>> : a \in {b \in Adapters : interfaces[b] # NoFault}}

Idle(t) == t \notin notifying

\* One input transaction failed; only the first failure has a listener to call.
StorageWriteFailed ==
    /\ Idle("collector")
    /\ storage < MaxFailures
    /\ storage' = storage + 1
    /\ notifying' = IF storage = 0 THEN notifying \cup {"collector"} ELSE notifying
    /\ UNCHANGED <<interfaces, permit>>

\* Mutant: the recovery does not call the listener.
StorageWriteSucceeded_Silent ==
    /\ Idle("collector")
    /\ storage > 0
    /\ storage' = 0
    /\ UNCHANGED <<interfaces, notifying, permit>>

\* take() of the storage fault; without one there is nothing to notify.
StorageWriteSucceeded ==
    /\ Idle("collector")
    /\ storage > 0
    /\ storage' = 0
    /\ notifying' = notifying \cup {"collector"}
    /\ UNCHANGED <<interfaces, permit>>

\* The same reason and detail again is no change.
InterfaceOpenFailed(a, r) ==
    /\ Idle(a)
    /\ interfaces[a] # r
    /\ interfaces' = [interfaces EXCEPT ![a] = r]
    /\ notifying' = notifying \cup {a}
    /\ UNCHANGED <<storage, permit>>

InterfaceOpened(a) ==
    /\ Idle(a)
    /\ interfaces[a] # NoFault
    /\ interfaces' = [interfaces EXCEPT ![a] = NoFault]
    /\ notifying' = notifying \cup {a}
    /\ UNCHANGED <<storage, permit>>

\* The listener runs outside the lock.
NotifyListener(t) ==
    /\ t \in notifying
    /\ notifying' = notifying \ {t}
    /\ permit' = TRUE
    /\ UNCHANGED <<storage, interfaces>>

FaultsNext ==
    \/ StorageWriteFailed
    \/ StorageWriteSucceeded
    \/ \E a \in Adapters, r \in Reasons : InterfaceOpenFailed(a, r)
    \/ \E a \in Adapters : InterfaceOpened(a)
    \/ \E t \in Tasks : NotifyListener(t)
=============================================================================
