----------------------------- MODULE OutputMqtt -----------------------------
(***************************************************************************)
(* The MQTT Output Adapter (apps/node/src/output_mqtt.rs): the task that   *)
(* drains observation_outbox to the Broker and publishes the status topic. *)
(*                                                                         *)
(* Four parties: the writers of the outbox (any process that commits to    *)
(* the database), the Session of the adapter task, the rumqttc client      *)
(* library with its TCP connection, and the Broker.  rumqttc and the       *)
(* Broker are not part of the repository; they are modelled from the use   *)
(* output_mqtt.rs makes of them (clean_session, QoS 1, a bounded request   *)
(* channel, Outgoing::Publish in request order, a Will).                   *)
(*                                                                         *)
(* A publication is a number: row n of the outbox is n, a status is 0.     *)
(* A handler of the select! loop is one action: it is the only code that   *)
(* touches the session, and its database reads see a committed state.      *)
(***************************************************************************)
EXTENDS DeviceFaults, Integers, Sequences

CONSTANTS
    MaxRows,          \* bound: rows ever inserted into the outbox
    RequestCap,       \* capacity of the AsyncClient request channel (16)
    Pkids,            \* packet ids: the in-flight window of rumqttc
    MaxDisruptions    \* bound: connection losses, crashes, database errors
                      \* and fault changes

ASSUME OutputAssumption ==
    /\ MaxRows \in Nat
    /\ RequestCap \in Nat /\ RequestCap >= 2
    /\ MaxDisruptions \in Nat

VARIABLES
    lastSeq,      \* AUTOINCREMENT counter of observation_outbox
    outbox,       \* the outbox_seq of the rows that are in the table
    phase,        \* control point of the adapter task
    connected,    \* Session.connected
    unwritten,    \* Session.pending, entries whose pkid is None, in order
    written,      \* Session.pending, entries with a pkid: pkid -> publication
    inflight,     \* Session.inflight, 0 for None
    acked,        \* run(): the graceful offline counted as acknowledged
    announced,    \* the status payload most recently handed to the client
    link,         \* rumqttc has a network connection
    requests,     \* rumqttc request channel: <<publication, status>> messages
    outgoing,     \* rumqttc: pkid -> publication sent and not acknowledged
    writes,       \* Outgoing::Publish events not yet polled
    acks,         \* Incoming::PubAck events not yet polled
    brokerUp,     \* the Broker has the connection open
    wire,         \* packets written and not yet read by the Broker
    delivered,    \* the outbox row the Broker published last
    retained,     \* the retained status payload
    greeted,      \* the Broker published a status on this connection
    disruptions   \* disruptions so far

dbVars == <<lastSeq, outbox>>
sessionVars == <<phase, connected, unwritten, written, inflight, acked, announced>>
clientVars == <<link, requests, outgoing, writes, acks>>
brokerVars == <<brokerUp, wire, delivered, retained, greeted>>
vars == <<dbVars, sessionVars, clientVars, brokerVars, faultVars, disruptions>>

-----------------------------------------------------------------------------
(* Data.                                                                   *)

StatusPub == 0
NoPub == -1

Publications == Nat
NoneWritten == [k \in Pkids |-> NoPub]

Status(value) == [value |-> value, faults |-> FaultList, will |-> FALSE]
Will == [value |-> "offline", faults |-> {}, will |-> TRUE]
NoStatus == [value |-> "none", faults |-> {}, will |-> FALSE]

FaultElements == {<<"storage-write-failed">>} \cup (Adapters \X Reasons)
Payloads == [value : {"online", "degraded", "offline", "none"},
             faults : SUBSET FaultElements, will : BOOLEAN]

\* Mutant: the storage fault does not show in the status value.
Heartbeat_AlwaysOnline == Status("online")

\* publish_status: a heartbeat is degraded exactly while input is discarded.
Heartbeat == Status(IF Degraded THEN "degraded" ELSE "online")
Offline == Status("offline")

StatusMsg(payload) == [pub |-> StatusPub, status |-> payload]
RowMsg(n) == [pub |-> n, status |-> NoStatus]
Messages == [pub : Publications, status : Payloads]

\* A DISCONNECT packet carries no publication and no packet id.
DisconnectPacket == [pkid |-> NoPub, pub |-> NoPub, status |-> NoStatus]
Packets == [pkid : Pkids, pub : Publications, status : Payloads] \cup {DisconnectPacket}

Disrupt == disruptions < MaxDisruptions /\ disruptions' = disruptions + 1

\* A statement on the database succeeds, or fails as one disruption.
DbResult(ok) == IF ok THEN UNCHANGED disruptions ELSE Disrupt

-----------------------------------------------------------------------------
FlagsOK ==
    /\ permit \in BOOLEAN
    /\ connected \in BOOLEAN
    /\ acked \in BOOLEAN
    /\ link \in BOOLEAN
    /\ brokerUp \in BOOLEAN
    /\ greeted \in BOOLEAN

SessionOK ==
    /\ phase \in {"running", "offline", "closing", "blocked", "down"}
    /\ unwritten \in Seq(Publications)
    /\ written \in [Pkids -> Publications \cup {NoPub}]
    /\ inflight \in Nat
    /\ announced \in Payloads

ClientOK ==
    /\ requests \in Seq(Messages)
    /\ outgoing \in [Pkids -> Publications \cup {NoPub}]
    /\ writes \in Seq(Pkids)
    /\ acks \subseteq Pkids

BrokerOK ==
    /\ wire \in Seq(Packets)
    /\ delivered \in Nat
    /\ retained \in Payloads

TypeOK ==
    /\ FaultsTypeOK
    /\ FlagsOK
    /\ SessionOK
    /\ ClientOK
    /\ BrokerOK
    /\ lastSeq \in 0 .. MaxRows
    /\ outbox \subseteq 1 .. lastSeq
    /\ disruptions \in 0 .. MaxDisruptions

Init ==
    /\ NoFaults
    /\ lastSeq = 0 /\ outbox = {}
    /\ phase = "running" /\ connected = FALSE
    /\ unwritten = <<>> /\ written = NoneWritten /\ inflight = 0
    /\ acked = FALSE /\ announced = NoStatus
    /\ link = FALSE /\ requests = <<>> /\ outgoing = NoneWritten
    /\ writes = <<>> /\ acks = {}
    /\ brokerUp = FALSE /\ wire = <<>> /\ delivered = 0
    /\ retained = NoStatus /\ greeted = FALSE
    /\ disruptions = 0

-----------------------------------------------------------------------------
(* The outbox table (core/pipeline/src/outbox.rs).                         *)

\* Mutant: ORDER BY outbox_seq DESC.
Oldest_Newest(rows, n) == n \in rows /\ \A m \in rows : n >= m

Oldest(rows, n) == n \in rows /\ \A m \in rows : n <= m

\* outbox::enqueue, committed by the collector, the Console API or nodectl.
Enqueue ==
    /\ lastSeq < MaxRows
    /\ lastSeq' = lastSeq + 1
    /\ outbox' = outbox \cup {lastSeq + 1}
    /\ UNCHANGED <<sessionVars, clientVars, brokerVars, faultVars, disruptions>>

-----------------------------------------------------------------------------
(* The Session.                                                            *)

\* Session::publish: client.publish().await waits while the channel is full.
\* Nobody else polls the event loop, so that wait never ends.
Publish(msg, announcing) ==
    IF Len(requests) < RequestCap
    THEN /\ requests' = Append(requests, msg)
         /\ unwritten' = Append(unwritten, msg.pub)
         /\ announced' = IF announcing THEN msg.status ELSE announced
         /\ UNCHANGED phase
    ELSE /\ phase' = "blocked"
         /\ UNCHANGED <<requests, unwritten, announced>>

NothingPublished == UNCHANGED <<phase, requests, unwritten, announced>>

\* publish_next_outbox_row with `busy` in flight and `rows` in the table; a
\* failed read publishes nothing.
PublishNextOutboxRow(busy, rows, readOk) ==
    \/ /\ busy # 0
       /\ inflight' = busy
       /\ NothingPublished
    \/ /\ busy = 0
       /\ rows = {} \/ ~readOk
       /\ inflight' = 0
       /\ NothingPublished
    \/ /\ busy = 0
       /\ readOk
       /\ \E n \in rows :
             /\ Oldest(rows, n)
             /\ inflight' = n
             /\ Publish(RowMsg(n), FALSE)

\* committed().notified() and idle_probe.tick(): both only look for a row.
ProbeOutbox(readOk) ==
    /\ phase = "running" /\ connected /\ inflight = 0
    /\ outbox # {}
    /\ DbResult(readOk)
    /\ PublishNextOutboxRow(0, outbox, readOk)
    /\ UNCHANGED <<dbVars, connected, written, acked, link, outgoing, writes, acks,
                   brokerVars, faultVars>>

\* The heartbeat interval is at least 5 s and every turn of the loop polls
\* rumqttc: a tick finds requests only when rumqttc cannot take them.
WindowFull == \A k \in Pkids : outgoing[k] # NoPub

HeartbeatTick ==
    /\ phase = "running" /\ connected
    /\ requests = <<>> \/ WindowFull
    /\ Publish(StatusMsg(Heartbeat), TRUE)
    /\ UNCHANGED <<dbVars, connected, written, inflight, acked, link, outgoing, writes,
                   acks, brokerVars, faultVars, disruptions>>

\* fault_changed.notified() consumes the permit.
FaultChanged ==
    /\ phase = "running" /\ connected
    /\ permit
    /\ permit' = FALSE
    /\ Publish(StatusMsg(Heartbeat), TRUE)
    /\ UNCHANGED <<dbVars, connected, written, inflight, acked, link, outgoing, writes,
                   acks, brokerVars, storage, interfaces, notifying, disruptions>>

\* Mutant: the last pending publication without a pkid gets it.
NotePacketWritten_Last ==
    /\ phase \in {"running", "offline"}
    /\ writes # <<>>
    /\ writes' = Tail(writes)
    /\ IF unwritten # <<>>
       THEN /\ written' = [written EXCEPT ![Head(writes)] = unwritten[Len(unwritten)]]
            /\ unwritten' = SubSeq(unwritten, 1, Len(unwritten) - 1)
       ELSE UNCHANGED <<written, unwritten>>
    /\ UNCHANGED <<dbVars, phase, connected, inflight, acked, announced, link, requests,
                   outgoing, acks, brokerVars, faultVars, disruptions>>

\* note_packet_written: the first pending publication without a pkid gets it.
NotePacketWritten ==
    /\ phase \in {"running", "offline"}
    /\ writes # <<>>
    /\ writes' = Tail(writes)
    /\ IF unwritten # <<>>
       THEN /\ written' = [written EXCEPT ![Head(writes)] = Head(unwritten)]
            /\ unwritten' = Tail(unwritten)
       ELSE UNCHANGED <<written, unwritten>>
    /\ UNCHANGED <<dbVars, phase, connected, inflight, acked, announced, link, requests,
                   outgoing, acks, brokerVars, faultVars, disruptions>>

\* A PUBACK event follows the Outgoing::Publish event of its packet.
PubAckReady(k) == k \in acks /\ \A i \in 1 .. Len(writes) : writes[i] # k

TakePubAck(k) ==
    /\ acks' = acks \ {k}
    /\ outgoing' = [outgoing EXCEPT ![k] = NoPub]
    /\ written' = [written EXCEPT ![k] = NoPub]

\* Mutant: inflight is not reset.
PubAckOfRow_KeepsInflight(k, n, deleteOk, readOk) ==
    LET rows == IF deleteOk THEN outbox \ {n} ELSE outbox IN
    /\ outbox' = rows
    /\ DbResult(deleteOk /\ readOk)
    /\ PublishNextOutboxRow(inflight, rows, readOk)

\* note_puback of an outbox row: delete the row, then send the next one.  A
\* row that could not be deleted is still the oldest and is sent again.
PubAckOfRow(k, n, deleteOk, readOk) ==
    LET rows == IF deleteOk THEN outbox \ {n} ELSE outbox IN
    /\ outbox' = rows
    /\ DbResult(deleteOk /\ readOk)
    /\ PublishNextOutboxRow(IF inflight = n THEN 0 ELSE inflight, rows, readOk)

\* note_puback of a status, or of a packet id the session does not track.
PubAckOfOther ==
    /\ UNCHANGED <<outbox, inflight, disruptions>>
    /\ NothingPublished

\* Mutant: any PUBACK acknowledges the row in flight.
NotePubAck_AnyAck(k, deleteOk, readOk) ==
    /\ phase = "running"
    /\ PubAckReady(k)
    /\ TakePubAck(k)
    /\ \/ inflight > 0 /\ PubAckOfRow(k, inflight, deleteOk, readOk)
       \/ inflight = 0 /\ deleteOk /\ readOk /\ PubAckOfOther
    /\ UNCHANGED <<lastSeq, connected, acked, link, writes, brokerVars, faultVars>>

NotePubAck(k, deleteOk, readOk) ==
    /\ phase = "running"
    /\ PubAckReady(k)
    /\ TakePubAck(k)
    /\ \/ written[k] > StatusPub /\ PubAckOfRow(k, written[k], deleteOk, readOk)
       \/ written[k] <= StatusPub /\ deleteOk /\ readOk /\ PubAckOfOther
    /\ UNCHANGED <<lastSeq, connected, acked, link, writes, brokerVars, faultVars>>

-----------------------------------------------------------------------------
(* Connection establishment and loss.                                      *)

\* The Broker ends the old connection of this client id, if it still has it,
\* before it accepts the new one; without a DISCONNECT that publishes the Will.
NewConnection ==
    /\ link' = TRUE /\ brokerUp' = TRUE
    /\ retained' = IF brokerUp THEN Will ELSE retained
    /\ greeted' = FALSE
    /\ wire' = <<>> /\ writes' = <<>> /\ acks' = {} /\ outgoing' = NoneWritten
    /\ UNCHANGED delivered

\* ConnAck: everything pending is forgotten; status first, then the outbox.
\* The channel is empty here, so both publishes are queued.
ConnAck(readOk) ==
    /\ phase = "running" /\ ~link
    /\ NewConnection
    /\ connected' = TRUE
    /\ written' = NoneWritten
    /\ announced' = Heartbeat
    /\ DbResult(readOk)
    /\ \/ /\ outbox = {} \/ ~readOk
          /\ inflight' = 0
          /\ requests' = <<StatusMsg(Heartbeat)>>
          /\ unwritten' = <<StatusPub>>
       \/ /\ readOk
          /\ \E n \in outbox :
                /\ Oldest(outbox, n)
                /\ inflight' = n
                /\ requests' = <<StatusMsg(Heartbeat), RowMsg(n)>>
                /\ unwritten' = <<StatusPub, n>>
    /\ UNCHANGED <<dbVars, phase, acked, faultVars>>

\* rumqttc drops the connection; with clean_session it resends nothing.
ClientCleared ==
    /\ link' = FALSE /\ requests' = <<>> /\ outgoing' = NoneWritten
    /\ writes' = <<>> /\ acks' = {}

\* A connection is lost as a disruption, or because the Broker closed it.
ConnectionFails == IF brokerUp THEN Disrupt ELSE UNCHANGED disruptions

ConnectionLost ==
    /\ phase = "running" /\ link
    /\ ConnectionFails
    /\ ClientCleared
    /\ connected' = FALSE
    /\ unwritten' = <<>> /\ written' = NoneWritten /\ inflight' = 0
    /\ UNCHANGED <<dbVars, phase, acked, announced, brokerVars, faultVars>>

-----------------------------------------------------------------------------
(* Graceful shutdown (lines after the loop).                               *)

\* Mutant: a DISCONNECT without the graceful offline.
Shutdown_Silent ==
    /\ phase = "running"
    /\ IF ~connected
       THEN /\ phase' = "down"
            /\ ClientCleared
       ELSE /\ phase' = "closing"
            /\ UNCHANGED <<link, requests, outgoing, writes, acks>>
    /\ acked' = FALSE
    /\ UNCHANGED <<dbVars, connected, unwritten, written, announced, inflight, brokerVars,
                   faultVars, disruptions>>

\* Without a connection the task returns.  Otherwise pending is cleared and
\* the graceful offline is published; inflight and rumqttc keep their state.
Shutdown ==
    /\ phase = "running"
    /\ IF ~connected
       THEN /\ phase' = "down"
            /\ ClientCleared
            /\ UNCHANGED <<unwritten, written, announced>>
       ELSE /\ written' = NoneWritten
            /\ IF Len(requests) < RequestCap
               THEN /\ phase' = "offline"
                    /\ requests' = Append(requests, StatusMsg(Offline))
                    /\ unwritten' = <<StatusPub>>
                    /\ announced' = Offline
               ELSE /\ phase' = "blocked"
                    /\ unwritten' = <<>>
                    /\ UNCHANGED <<requests, announced>>
            /\ UNCHANGED <<link, outgoing, writes, acks>>
    /\ acked' = FALSE
    /\ UNCHANGED <<dbVars, connected, inflight, brokerVars, faultVars, disruptions>>

\* client.disconnect() queues a request and waits while the channel is full.
Disconnect(len) == phase' = IF len < RequestCap THEN "closing" ELSE "blocked"

\* The wait ends when no status is pending any more after a PUBACK.  The
\* pending entries of this phase are statuses: note_puback touches no row.
OfflinePubAck(k) ==
    /\ phase = "offline"
    /\ PubAckReady(k)
    /\ TakePubAck(k)
    /\ IF unwritten = <<>> /\ \A j \in Pkids : written'[j] # StatusPub
       THEN acked' = TRUE /\ Disconnect(Len(requests))
       ELSE UNCHANGED <<acked, phase>>
    /\ UNCHANGED <<dbVars, connected, unwritten, inflight, announced, link, requests,
                   writes, brokerVars, faultVars, disruptions>>

OfflineTimeout ==
    /\ phase = "offline"
    /\ Disconnect(Len(requests))
    /\ UNCHANGED <<dbVars, connected, unwritten, written, inflight, acked, announced,
                   clientVars, brokerVars, faultVars, disruptions>>

OfflineConnectionLost ==
    /\ phase = "offline" /\ link
    /\ ConnectionFails
    /\ ClientCleared
    /\ Disconnect(0)
    /\ UNCHANGED <<dbVars, connected, unwritten, written, inflight, acked, announced,
                   brokerVars, faultVars>>

\* The last loop polls until Outgoing::Disconnect, an error or the timeout.
\* DISCONNECT is the last request and waits for the window like any other.
DisconnectWritten ==
    /\ phase = "closing" /\ link
    /\ requests = <<>> /\ ~WindowFull
    /\ wire' = Append(wire, DisconnectPacket)
    /\ phase' = "down"
    /\ ClientCleared
    /\ UNCHANGED <<dbVars, connected, unwritten, written, inflight, acked, announced,
                   brokerUp, delivered, retained, greeted, faultVars, disruptions>>

ClosingEnds ==
    /\ phase = "closing"
    /\ phase' = "down"
    /\ ClientCleared
    /\ UNCHANGED <<dbVars, connected, unwritten, written, inflight, acked, announced,
                   brokerVars, faultVars, disruptions>>

\* Polled without a connection (it was lost in the offline phase), rumqttc
\* connects again before it writes the DISCONNECT.
ClosingReconnect ==
    /\ phase = "closing" /\ ~link
    /\ NewConnection
    /\ requests' = <<>>
    /\ UNCHANGED <<dbVars, sessionVars, faultVars, disruptions>>

-----------------------------------------------------------------------------
(* The process.                                                            *)

\* The process ends at any point; the kernel may still deliver what was
\* written.  A blocked adapter ends like this too (shutdown_with_timeout).
Crash ==
    /\ phase # "down"
    /\ IF phase = "blocked" THEN UNCHANGED disruptions ELSE Disrupt
    /\ phase' = "down"
    /\ ClientCleared
    /\ UNCHANGED <<dbVars, connected, unwritten, written, inflight, acked, announced,
                   brokerVars, faultVars>>

\* A start: an empty session, a new rumqttc client, no device faults.
Restart ==
    /\ phase = "down"
    /\ phase' = "running" /\ connected' = FALSE
    /\ unwritten' = <<>> /\ written' = NoneWritten /\ inflight' = 0
    /\ acked' = FALSE
    /\ storage' = 0 /\ interfaces' = [a \in Adapters |-> NoFault]
    /\ notifying' = {} /\ permit' = FALSE
    /\ UNCHANGED <<dbVars, announced, clientVars, brokerVars, disruptions>>

\* The tasks that report device faults live in the process.  A recovery is no
\* disruption of its own.
FaultStep ==
    /\ phase # "down"
    /\ \/ /\ \/ StorageWriteFailed
             \/ \E a \in Adapters, r \in Reasons : InterfaceOpenFailed(a, r)
          /\ Disrupt
       \/ /\ \/ StorageWriteSucceeded
             \/ \E a \in Adapters : InterfaceOpened(a)
             \/ \E t \in Tasks : NotifyListener(t)
          /\ UNCHANGED disruptions
    /\ UNCHANGED <<dbVars, sessionVars, clientVars, brokerVars>>

-----------------------------------------------------------------------------
(* External: rumqttc's event loop, the network and the Broker.             *)

Polling == phase \in {"running", "offline", "closing"}

\* rumqttc takes the next request, gives it a free packet id and writes it.
WriteRequest ==
    /\ Polling /\ link
    /\ requests # <<>>
    /\ \E k \in Pkids :
          /\ outgoing[k] = NoPub
          /\ outgoing' = [outgoing EXCEPT ![k] = Head(requests).pub]
          /\ writes' = Append(writes, k)
          /\ wire' = Append(wire, [pkid |-> k, pub |-> Head(requests).pub,
                                   status |-> Head(requests).status])
    /\ requests' = Tail(requests)
    /\ UNCHANGED <<dbVars, sessionVars, link, acks, brokerUp, delivered, retained,
                   greeted, faultVars, disruptions>>

\* The Broker reads one packet, publishes it, and acknowledges it.
BrokerReceive ==
    /\ brokerUp /\ wire # <<>>
    /\ LET p == Head(wire) IN
       \/ /\ p.pub = NoPub
          /\ brokerUp' = FALSE /\ wire' = <<>>
          /\ UNCHANGED <<delivered, retained, greeted, acks>>
       \/ /\ p.pub # NoPub
          /\ wire' = Tail(wire)
          /\ acks' = IF link THEN acks \cup {p.pkid} ELSE acks
          /\ IF p.pub = StatusPub
             THEN retained' = p.status /\ greeted' = TRUE /\ UNCHANGED delivered
             ELSE delivered' = p.pub /\ UNCHANGED <<retained, greeted>>
          /\ UNCHANGED brokerUp
    /\ UNCHANGED <<dbVars, sessionVars, link, requests, outgoing, writes, faultVars,
                   disruptions>>

\* The Broker closes the connection without a DISCONNECT: a disruption while
\* the client holds it, certain once the client has let it go.
BrokerClose ==
    /\ brokerUp
    /\ IF link THEN Disrupt ELSE UNCHANGED disruptions
    /\ brokerUp' = FALSE /\ wire' = <<>>
    /\ retained' = Will
    /\ UNCHANGED <<dbVars, sessionVars, clientVars, delivered, greeted, faultVars>>

-----------------------------------------------------------------------------
SessionStep ==
    \/ \E ok \in BOOLEAN : ProbeOutbox(ok)
    \/ HeartbeatTick
    \/ FaultChanged
    \/ NotePacketWritten
    \/ \E k \in Pkids, d, r \in BOOLEAN : NotePubAck(k, d, r)
    \/ \E ok \in BOOLEAN : ConnAck(ok)
    \/ ConnectionLost
    \/ Shutdown
    \/ \E k \in Pkids : OfflinePubAck(k)
    \/ OfflineTimeout
    \/ OfflineConnectionLost
    \/ DisconnectWritten
    \/ ClosingEnds
    \/ ClosingReconnect

Next ==
    \/ Enqueue
    \/ SessionStep
    \/ Crash
    \/ Restart
    \/ FaultStep
    \/ WriteRequest
    \/ BrokerReceive
    \/ BrokerClose

Spec == Init /\ [][Next]_vars

\* The event loop, the timers and the Broker keep running; disruptions are
\* bounded, so they stop.  Nothing forces a shutdown, a crash or a restart.
Fairness ==
    /\ WF_vars(ProbeOutbox(TRUE))
    /\ WF_vars(HeartbeatTick)
    /\ WF_vars(FaultChanged)
    /\ WF_vars(NotePacketWritten)
    /\ \A k \in Pkids : WF_vars(NotePubAck(k, TRUE, TRUE))
    /\ WF_vars(ConnAck(TRUE))
    /\ WF_vars(~brokerUp /\ ConnectionLost)
    /\ WF_vars(OfflineTimeout)
    /\ WF_vars(~brokerUp /\ OfflineConnectionLost)
    /\ WF_vars(ClosingEnds)
    /\ WF_vars(\E t \in Tasks : NotifyListener(t) /\ FaultStep)
    /\ WF_vars(WriteRequest)
    /\ WF_vars(BrokerReceive)
    /\ WF_vars(~link /\ BrokerClose)

FairSpec == Spec /\ Fairness

-----------------------------------------------------------------------------
(* Properties.                                                             *)

\* A row leaves the outbox only after the Broker has published it
\* (note_puback deletes exactly the row whose packet was acknowledged).
DeletedOnlyAfterPublished ==
    \A n \in 1 .. lastSeq : n \notin outbox => n <= delivered

\* The Broker sees every row, in insertion order, and a duplicate only of the
\* row before: the detailed adapter implements the delivery contract.
Delivery == INSTANCE ObservationDelivery WITH held <- outbox
InOrderDelivery == Delivery!DeliverySpec

RowsIn(s) == {i \in 1 .. Len(s) : s[i].pub > StatusPub}

\* At most one outbox publication is between the session and the Broker, over
\* losses, failed deletes and a shutdown (Session.inflight).
OneInFlight == Cardinality(RowsIn(requests)) + Cardinality(RowsIn(wire)) <= 1

\* After a reconnect the Broker publishes a status before any outbox row (the
\* order of publish_status and publish_next_outbox_row on ConnAck).
StatusFirst ==
    brokerUp /\ wire # <<>> /\ Head(wire).pub > StatusPub => greeted

\* A change of the fault set is never forgotten: while connected, the status
\* handed over last is current, or a wake-up for a newer one is on its way.
FaultChangeNotForgotten ==
    phase = "running" /\ connected
        => announced = Heartbeat \/ permit \/ notifying # {}

\* While the node keeps running, its outbox drains again and again.
DrainsWhileRunning == <>[](phase = "running") => []<>(outbox = {})

\* While the node keeps running, the retained status ends up telling whether
\* input is being discarded and which interfaces are not open (heartbeats,
\* fault changes and the Will included).
StatusConverges ==
    <>[](phase = "running") =>
        <>[](/\ retained.value = IF storage > 0 THEN "degraded" ELSE "online"
             /\ \A a \in Adapters : \A r \in Reasons :
                   interfaces[a] = r <=> <<a, r>> \in retained.faults)

\* Once the adapter has stopped, gracefully or not, the retained status
\* becomes offline unless the node starts again.
OfflineAfterStop ==
    phase = "down" /\ retained # NoStatus
        ~> phase # "down" \/ retained.value = "offline"

\* The graceful shutdown reports its offline as acknowledged only when the
\* Broker has published it.  It does not hold of the code: see the README.
OfflineAckIsItsOwn ==
    phase = "closing" /\ acked /\ brokerUp => retained.value = "offline"

-----------------------------------------------------------------------------
(* The inductive invariant behind DeletedOnlyAfterPublished and            *)
(* InOrderDelivery.                                                        *)

\* While the loop runs, the session's bookkeeping agrees with rumqttc: the
\* pending entries without a packet id are, in order, the packets whose
\* Outgoing::Publish is still to come and then the queued requests; a pending
\* entry with a packet id names the publication sent under it.  A task that
\* has ended holds no connection.
Attribution ==
    /\ phase = "down" => ~link
    /\ phase = "running" =>
        /\ connected = link
        /\ Len(unwritten) = Len(writes) + Len(requests)
        /\ \A i \in 1 .. Len(writes) : outgoing[writes[i]] = unwritten[i]
        /\ \A i \in 1 .. Len(requests) : unwritten[Len(writes) + i] = requests[i].pub
        /\ \A k \in Pkids : written[k] # NoPub => outgoing[k] = written[k]
        /\ \A k \in Pkids : outgoing[k] > StatusPub => inflight = outgoing[k]
        /\ \A i \in 1 .. Len(requests) :
              requests[i].pub > StatusPub => inflight = requests[i].pub

\* At most one row is under way between the session and the Broker.
OneRow ==
    /\ \A j, k \in Pkids : outgoing[j] > StatusPub /\ outgoing[k] > StatusPub => j = k
    /\ \A k \in Pkids, i \in 1 .. Len(requests) :
          outgoing[k] > StatusPub => requests[i].pub = StatusPub
    /\ \A i, j \in 1 .. Len(requests) :
          requests[i].pub > StatusPub /\ requests[j].pub > StatusPub => i = j
    /\ \A i, j \in 1 .. Len(wire) :
          wire[i].pub > StatusPub /\ wire[j].pub > StatusPub => i = j

\* Packet ids on the wire are distinct, and stand for what rumqttc sent; an
\* acknowledged one has left the wire and its row has been published.
PacketIds ==
    /\ ~link => /\ requests = <<>> /\ writes = <<>> /\ acks = {}
                /\ outgoing = NoneWritten
    /\ \A i, j \in 1 .. Len(wire) :
          wire[i].pub # NoPub /\ wire[j].pub # NoPub /\ wire[i].pkid = wire[j].pkid => i = j
    /\ \A i \in 1 .. Len(wire) :
          wire[i].pub # NoPub => /\ wire[i].pkid \in Pkids \ acks
                                 /\ link => outgoing[wire[i].pkid] = wire[i].pub
    /\ \A k \in acks : outgoing[k] # NoPub /\ outgoing[k] <= delivered

\* A row under way is no younger than the oldest row of the table and no older
\* than the row published last.
UnderWay(n) ==
    /\ n <= lastSeq
    /\ delivered <= n
    /\ \A m \in outbox : n <= m

RowOrder ==
    /\ delivered <= lastSeq
    /\ \A m \in outbox : delivered <= m
    /\ \A i \in 1 .. Len(requests) : requests[i].pub > StatusPub => UnderWay(requests[i].pub)
    /\ \A i \in 1 .. Len(wire) : wire[i].pub > StatusPub => UnderWay(wire[i].pub)

\* The conjunction is preserved by every step of the adapter, of rumqttc, of
\* the Broker and of the database writers.
AdapterInvariant ==
    /\ TypeOK
    /\ Attribution
    /\ OneRow
    /\ PacketIds
    /\ RowOrder
    /\ DeletedOnlyAfterPublished

\* The Broker hears of the node's state first and then of every change of it.
StatusAnnounced == StatusFirst /\ FaultChangeNotForgotten
=============================================================================
