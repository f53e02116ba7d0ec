-------------------------- MODULE OutputMqttProofs --------------------------
(***************************************************************************)
(* What is proved of the MQTT Output Adapter, for every number of rows,    *)
(* every channel capacity, every packet-id window and every number of      *)
(* disruptions: it keeps its types, AdapterInvariant is an invariant, and  *)
(* what follows from that: a row is deleted only after it was published,   *)
(* one row is under way, the adapter implements ObservationDelivery, and   *)
(* the Broker hears of the node's state first and then of every change of  *)
(* it.  One lemma per action, or per kind of step that several share.      *)
(***************************************************************************)
EXTENDS OutputMqtt, TLAPS

-----------------------------------------------------------------------------
(* Sequences.                                                              *)

\* Short tuples are sequences.
LEMMA ShortSeq ==
    ASSUME NEW S
    PROVE  /\ <<>> \in Seq(S)
           /\ \A e \in S : <<e>> \in Seq(S)
           /\ \A e, f \in S : <<e, f>> \in Seq(S)
OBVIOUS

-----------------------------------------------------------------------------
(* Payloads and messages are well formed.                                  *)

\* The fault list of a well-typed fault state has well-formed elements.
LEMMA FaultListType ==
    ASSUME FaultsTypeOK
    PROVE  FaultList \in SUBSET FaultElements
BY DEF FaultsTypeOK, FaultList, FaultElements

\* The payloads the adapter and the Broker publish are payloads.
LEMMA PayloadType ==
    ASSUME FaultsTypeOK
    PROVE  /\ Heartbeat \in Payloads /\ Offline \in Payloads
           /\ Will \in Payloads /\ NoStatus \in Payloads
BY FaultListType, Zenon
   DEF Heartbeat, Offline, Status, Will, NoStatus, Payloads

\* A status and a row are messages; a DISCONNECT is a packet.
LEMMA MessageType ==
    /\ \A s \in Payloads : StatusMsg(s) \in Messages
    /\ \A n \in Nat : RowMsg(n) \in Messages
    /\ DisconnectPacket \in Packets
BY Zenon DEF StatusMsg, RowMsg, Messages, Payloads, NoStatus, Publications, StatusPub,
       DisconnectPacket, Packets

\* A function that holds no publication is well typed.
LEMMA NoneWrittenType ==
    NoneWritten \in [Pkids -> Publications \cup {NoPub}]
BY Zenon DEF NoneWritten

-----------------------------------------------------------------------------
(* Type correctness.                                                       *)

\* The initial state is well typed.
LEMMA InitType == Init => TypeOK
<1> SUFFICES ASSUME Init PROVE TypeOK
  BY Zenon
<1>1. FaultsTypeOK
  BY FaultsAssumption DEF FaultsAssumption, Init, NoFaults, FaultsTypeOK, Tasks
<1>2. announced \in Payloads /\ retained \in Payloads
  BY <1>1, PayloadType, Zenon DEF Init
<1>3. FlagsOK
  BY Zenon DEF Init, NoFaults, FlagsOK
<1>4. SessionOK /\ ClientOK /\ BrokerOK
  BY <1>2, NoneWrittenType DEF Init, SessionOK, ClientOK, BrokerOK
<1>5. QED
  BY <1>1, <1>3, <1>4, OutputAssumption DEF OutputAssumption, Init, TypeOK

\* Every step assigns Boolean values to the flags.
LEMMA FlagsStep ==
    ASSUME TypeOK, [Next]_vars
    PROVE  FlagsOK'
<1> USE DEF FlagsOK
<1>0. FlagsOK
  BY Zenon DEF TypeOK
<1>1. CASE Enqueue \/ Restart \/ Crash \/ UNCHANGED vars
  BY <1>0, <1>1, Zenon DEF Enqueue, Restart, Crash, ClientCleared, vars, sessionVars,
     clientVars, brokerVars, faultVars
<1>2. CASE FaultStep
  BY <1>0, <1>2, Zenon DEF FaultStep, sessionVars, clientVars, brokerVars,
     StorageWriteFailed, StorageWriteSucceeded, InterfaceOpenFailed, InterfaceOpened,
     NotifyListener
<1>3. CASE WriteRequest \/ BrokerReceive \/ BrokerClose
  BY <1>0, <1>3, Zenon DEF WriteRequest, BrokerReceive, BrokerClose, sessionVars,
     clientVars, faultVars
<1>4. CASE SessionStep
  <2>1. ASSUME NEW ok \in BOOLEAN, ProbeOutbox(ok) PROVE FlagsOK'
    BY <1>0, <2>1, Zenon DEF ProbeOutbox, brokerVars, faultVars
  <2>2. CASE HeartbeatTick \/ FaultChanged
    BY <1>0, <2>2, Zenon DEF HeartbeatTick, FaultChanged, brokerVars, faultVars
  <2>3. CASE NotePacketWritten
    BY <1>0, <2>3, Zenon DEF NotePacketWritten, brokerVars, faultVars
  <2>4. ASSUME NEW k \in Pkids, NEW d \in BOOLEAN, NEW r \in BOOLEAN, NotePubAck(k, d, r)
        PROVE  FlagsOK'
    BY <1>0, <2>4, Zenon DEF NotePubAck, brokerVars, faultVars
  <2>5. ASSUME NEW ok \in BOOLEAN, ConnAck(ok) PROVE FlagsOK'
    BY <1>0, <2>5, Zenon DEF ConnAck, NewConnection, faultVars
  <2>6. CASE ConnectionLost \/ OfflineConnectionLost
    BY <1>0, <2>6, Zenon DEF ConnectionLost, OfflineConnectionLost, ClientCleared,
       brokerVars, faultVars
  <2>7. CASE Shutdown
    BY <1>0, <2>7, Zenon DEF Shutdown, ClientCleared, brokerVars, faultVars
  <2>8. ASSUME NEW k \in Pkids, OfflinePubAck(k) PROVE FlagsOK'
    BY <1>0, <2>8, Zenon DEF OfflinePubAck, brokerVars, faultVars
  <2>9. CASE OfflineTimeout \/ DisconnectWritten \/ ClosingEnds \/ ClosingReconnect
    BY <1>0, <2>9, Zenon DEF OfflineTimeout, DisconnectWritten, ClosingEnds,
       ClosingReconnect, ClientCleared, NewConnection, sessionVars, clientVars,
       brokerVars, faultVars
  <2>10. QED
    BY <1>4, <2>1, <2>2, <2>3, <2>4, <2>5, <2>6, <2>7, <2>8, <2>9, Zenon DEF SessionStep
<1>5. QED
  BY <1>1, <1>2, <1>3, <1>4, Zenon DEF Next

\* Handing a message to the client leaves the session and the channel typed.
LEMMA PublishType ==
    ASSUME SessionOK, ClientOK, NEW msg \in Messages, NEW a, Publish(msg, a)
    PROVE  /\ requests' \in Seq(Messages)
           /\ unwritten' \in Seq(Publications)
           /\ announced' \in Payloads
           /\ phase' \in {"running", "offline", "closing", "blocked", "down"}
<1>1. msg.pub \in Publications /\ msg.status \in Payloads
  BY Zenon DEF Messages
<1>2. CASE Len(requests) < RequestCap
  <2>1. announced' \in {msg.status, announced}
    BY <1>2, Zenon DEF Publish
  <2>2. requests' = Append(requests, msg) /\ unwritten' = Append(unwritten, msg.pub)
    BY <1>2, Zenon DEF Publish
  <2>3. phase' = phase
    BY <1>2, Zenon DEF Publish
  <2>4. QED
    BY <1>1, <2>1, <2>2, <2>3 DEF SessionOK, ClientOK
<1>3. CASE ~(Len(requests) < RequestCap)
  BY <1>3, Zenon DEF Publish, SessionOK, ClientOK
<1>4. QED
  BY <1>2, <1>3, Zenon

\* So does looking for the next outbox row.
LEMMA PublishNextType ==
    ASSUME SessionOK, ClientOK, NEW busy \in Nat, NEW rows \in SUBSET Nat, NEW ok,
           PublishNextOutboxRow(busy, rows, ok)
    PROVE  /\ requests' \in Seq(Messages)
           /\ unwritten' \in Seq(Publications)
           /\ announced' \in Payloads
           /\ phase' \in {"running", "offline", "closing", "blocked", "down"}
           /\ inflight' \in Nat
<1>1. CASE NothingPublished /\ inflight' \in Nat
  BY <1>1, Zenon DEF NothingPublished, SessionOK, ClientOK
<1>2. ASSUME NEW n \in rows, inflight' = n, Publish(RowMsg(n), FALSE)
      PROVE  /\ requests' \in Seq(Messages)
             /\ unwritten' \in Seq(Publications)
             /\ announced' \in Payloads
             /\ phase' \in {"running", "offline", "closing", "blocked", "down"}
             /\ inflight' \in Nat
  BY <1>2, MessageType, PublishType, Zenon
<1>3. QED
  BY <1>1, <1>2, Zenon DEF PublishNextOutboxRow

\* Every step keeps the device faults well typed.
LEMMA FaultsStepType ==
    ASSUME TypeOK, [Next]_vars
    PROVE  FaultsTypeOK'
<1> USE DEF FaultsTypeOK, faultVars
<1>0. FaultsTypeOK /\ MaxFailures \in Nat
  BY FaultsAssumption, Zenon DEF TypeOK, FaultsAssumption
<1>1. CASE UNCHANGED <<storage, interfaces, notifying>>
  BY <1>0, <1>1, Zenon DEF Tasks
<1>2. CASE FaultStep
  <2>1. CASE StorageWriteFailed
    BY <1>0, <2>1 DEF StorageWriteFailed, Tasks
  <2>2. CASE StorageWriteSucceeded
    BY <1>0, <2>2 DEF StorageWriteSucceeded, Tasks
  <2>3. ASSUME NEW a \in Adapters, NEW r \in Reasons, InterfaceOpenFailed(a, r)
        PROVE  FaultsTypeOK'
    BY <1>0, <2>3, Zenon DEF InterfaceOpenFailed, Tasks
  <2>4. ASSUME NEW a \in Adapters, InterfaceOpened(a)
        PROVE  FaultsTypeOK'
    BY <1>0, <2>4, Zenon DEF InterfaceOpened, Tasks
  <2>5. ASSUME NEW t \in Tasks, NotifyListener(t)
        PROVE  FaultsTypeOK'
    BY <1>0, <2>5, Zenon DEF NotifyListener, Tasks
  <2>6. QED
    BY <1>2, <2>1, <2>2, <2>3, <2>4, <2>5, Zenon DEF FaultStep
<1>3. CASE Restart
  BY <1>0, <1>3 DEF Restart, Tasks
<1>4. CASE Enqueue \/ Crash \/ WriteRequest \/ BrokerReceive \/ BrokerClose
  BY <1>1, <1>4, Zenon DEF Enqueue, Crash, WriteRequest, BrokerReceive, BrokerClose
<1>5. CASE SessionStep
  BY <1>1, <1>5, Zenon DEF SessionStep, ProbeOutbox, HeartbeatTick, FaultChanged,
     NotePacketWritten, NotePubAck, ConnAck, ConnectionLost, Shutdown, OfflinePubAck,
     OfflineTimeout, OfflineConnectionLost, DisconnectWritten, ClosingEnds,
     ClosingReconnect
<1>6. CASE UNCHANGED vars
  BY <1>1, <1>6, Zenon DEF vars
<1>7. QED
  BY <1>2, <1>3, <1>4, <1>5, <1>6, Zenon DEF Next

\* Every step keeps the table and the counters within their bounds.
LEMMA TableStepType ==
    ASSUME TypeOK, [Next]_vars
    PROVE  /\ lastSeq' \in 0 .. MaxRows
           /\ outbox' \subseteq 1 .. lastSeq'
           /\ disruptions' \in 0 .. MaxDisruptions
<1> USE DEF dbVars
<1> DEFINE Goal == /\ lastSeq' \in 0 .. MaxRows
                   /\ outbox' \subseteq 1 .. lastSeq'
                   /\ disruptions' \in 0 .. MaxDisruptions
<1>0. /\ MaxRows \in Nat /\ MaxDisruptions \in Nat
      /\ lastSeq \in 0 .. MaxRows
      /\ outbox \subseteq 1 .. lastSeq
      /\ disruptions \in 0 .. MaxDisruptions
  BY OutputAssumption, Zenon DEF TypeOK, OutputAssumption
<1> DEFINE Counted == disruptions' = disruptions \/ Disrupt
<1>1. Counted => disruptions' \in 0 .. MaxDisruptions
  BY <1>0 DEF Disrupt
<1>2. CASE Enqueue
  BY <1>0, <1>2 DEF Enqueue
<1>3. ASSUME UNCHANGED lastSeq, outbox' \subseteq outbox, Counted
      PROVE  Goal
  BY <1>0, <1>1, <1>3, Zenon
<1>4. CASE Crash \/ Restart \/ FaultStep \/ WriteRequest \/ BrokerReceive \/ BrokerClose
  BY <1>3, <1>4, Zenon DEF Crash, Restart, FaultStep, WriteRequest, BrokerReceive,
     BrokerClose
<1>5. ASSUME NEW k \in Pkids, NEW d \in BOOLEAN, NEW r \in BOOLEAN, NotePubAck(k, d, r)
      PROVE  Goal
  BY <1>3, <1>5, Zenon DEF NotePubAck, PubAckOfRow, PubAckOfOther, DbResult
<1>6. CASE SessionStep
  BY <1>3, <1>5, <1>6, Zenon DEF SessionStep, ProbeOutbox, HeartbeatTick, FaultChanged,
     NotePacketWritten, ConnAck, ConnectionLost, Shutdown, OfflinePubAck, DbResult,
     OfflineTimeout, OfflineConnectionLost, DisconnectWritten, ClosingEnds,
     ClosingReconnect, ConnectionFails
<1>7. CASE UNCHANGED vars
  BY <1>3, <1>7, Zenon DEF vars
<1>8. QED
  BY <1>2, <1>4, <1>6, <1>7, Zenon DEF Next

\* The steps outside the session keep what they touch well typed.
LEMMA OuterStepType ==
    ASSUME TypeOK,
           Enqueue \/ Crash \/ Restart \/ FaultStep \/ WriteRequest \/ BrokerReceive
             \/ BrokerClose \/ UNCHANGED vars
    PROVE  SessionOK' /\ ClientOK' /\ BrokerOK'
<1> USE DEF sessionVars, clientVars, brokerVars
<1>0. SessionOK /\ ClientOK /\ BrokerOK /\ FaultsTypeOK
  BY Zenon DEF TypeOK
<1>1. CASE Enqueue \/ FaultStep \/ UNCHANGED vars
  <2>1. UNCHANGED <<sessionVars, clientVars, brokerVars>>
    BY <1>1, Zenon DEF Enqueue, FaultStep, vars
  <2>2. QED
    BY <1>0, <2>1, Zenon DEF SessionOK, ClientOK, BrokerOK
<1>2. CASE Crash
  <2>1. SessionOK'
    BY <1>0, <1>2, Zenon DEF Crash, SessionOK
  <2>2. ClientOK'
    BY <1>2, NoneWrittenType DEF Crash, ClientCleared, ClientOK
  <2>3. BrokerOK'
    BY <1>0, <1>2, Zenon DEF Crash, BrokerOK
  <2>4. QED
    BY <2>1, <2>2, <2>3, Zenon
<1>7. CASE Restart
  <2>1. SessionOK'
    BY <1>0, <1>7, NoneWrittenType DEF Restart, SessionOK
  <2>2. ClientOK'
    BY <1>0, <1>7, Zenon DEF Restart, ClientOK
  <2>3. BrokerOK'
    BY <1>0, <1>7, Zenon DEF Restart, BrokerOK
  <2>4. QED
    BY <2>1, <2>2, <2>3, Zenon
<1>3. CASE WriteRequest
  <2>1. PICK k \in Pkids :
          /\ outgoing' = [outgoing EXCEPT ![k] = Head(requests).pub]
          /\ writes' = Append(writes, k)
          /\ wire' = Append(wire, [pkid |-> k, pub |-> Head(requests).pub,
                                   status |-> Head(requests).status])
    BY <1>3, Zenon DEF WriteRequest
  <2>2. Head(requests) \in Messages /\ requests' \in Seq(Messages)
    BY <1>0, <1>3 DEF WriteRequest, ClientOK
  <2>3. Head(requests).pub \in Publications /\ Head(requests).status \in Payloads
    BY <2>2, Zenon DEF Messages
  <2>4. wire' \in Seq(Packets)
    BY <1>0, <2>1, <2>3 DEF BrokerOK, Packets
  <2>5. QED
    BY <1>0, <1>3, <2>1, <2>2, <2>3, <2>4 DEF WriteRequest, SessionOK, ClientOK, BrokerOK
<1>4. CASE BrokerReceive
  <2>1. Head(wire) \in Packets /\ Tail(wire) \in Seq(Packets)
    BY <1>0, <1>4 DEF BrokerReceive, BrokerOK
  <2>a. Head(wire).pub # NoPub =>
          Head(wire) \in [pkid : Pkids, pub : Publications, status : Payloads]
    BY <2>1 DEF Packets, DisconnectPacket
  <2>2. acks' \subseteq Pkids
    BY <1>0, <1>4, <2>a, Zenon DEF BrokerReceive, ClientOK
  <2>3. BrokerOK'
    <3>1. wire' \in Seq(Packets)
      <4>1. wire' = <<>> \/ wire' = Tail(wire)
        BY <1>4, Zenon DEF BrokerReceive
      <4>2. QED
        BY <2>1, <4>1, ShortSeq, Zenon
    <3>2. delivered' \in Nat /\ retained' \in Payloads
      <4>1. CASE Head(wire).pub = NoPub
        BY <1>0, <1>4, <4>1, Zenon DEF BrokerReceive, BrokerOK
      <4>2. CASE Head(wire).pub # NoPub
        BY <1>0, <1>4, <2>a, <4>2, Zenon DEF BrokerReceive, BrokerOK, Publications
      <4>3. QED
        BY <4>1, <4>2, Zenon
    <3>3. QED
      BY <3>1, <3>2, Zenon DEF BrokerOK
  <2>4. QED
    BY <1>0, <1>4, <2>2, <2>3, Zenon DEF BrokerReceive, SessionOK, ClientOK
<1>5. CASE BrokerClose
  BY <1>0, <1>5, PayloadType DEF BrokerClose, SessionOK, ClientOK, BrokerOK
<1>6. QED
  BY <1>1, <1>2, <1>3, <1>4, <1>5, <1>7, Zenon

\* Every handler of the session keeps session, client and Broker well typed.
LEMMA SessionStepType ==
    ASSUME TypeOK, SessionStep
    PROVE  SessionOK' /\ ClientOK' /\ BrokerOK'
<1> USE DEF sessionVars, clientVars, brokerVars
<1>0. SessionOK /\ ClientOK /\ BrokerOK /\ FaultsTypeOK
  BY Zenon DEF TypeOK
<1>a. outbox \in SUBSET Nat
  BY OutputAssumption DEF TypeOK, OutputAssumption
<1>b. ASSUME UNCHANGED <<wire, delivered, retained>> PROVE BrokerOK'
  BY <1>0, <1>b, Zenon DEF BrokerOK
<1>c. StatusMsg(Heartbeat) \in Messages /\ StatusMsg(Offline) \in Messages
  BY <1>0, PayloadType, MessageType, Zenon
<1>1. ASSUME NEW ok \in BOOLEAN, ProbeOutbox(ok)
      PROVE  SessionOK' /\ ClientOK' /\ BrokerOK'
  <2>1. PublishNextOutboxRow(0, outbox, ok) /\ UNCHANGED <<written, outgoing, writes, acks>>
    BY <1>1, Zenon DEF ProbeOutbox
  <2>2. UNCHANGED <<wire, delivered, retained>>
    BY <1>1, Zenon DEF ProbeOutbox
  <2>3. QED
    BY <1>0, <1>a, <1>b, <2>1, <2>2, PublishNextType, Zenon DEF SessionOK, ClientOK
<1>2. CASE HeartbeatTick \/ FaultChanged
  <2>1. /\ Publish(StatusMsg(Heartbeat), TRUE)
        /\ UNCHANGED <<written, inflight, outgoing, writes, acks>>
        /\ UNCHANGED <<wire, delivered, retained>>
    BY <1>2, Zenon DEF HeartbeatTick, FaultChanged
  <2>2. QED
    BY <1>0, <1>b, <1>c, <2>1, PublishType, Zenon DEF SessionOK, ClientOK
<1>3. CASE NotePacketWritten
  <2>1. /\ writes' = Tail(writes)
        /\ writes # <<>>
        /\ UNCHANGED <<phase, inflight, announced, requests, outgoing, acks>>
        /\ UNCHANGED <<wire, delivered, retained>>
    BY <1>3, Zenon DEF NotePacketWritten
  <2>2. Head(writes) \in Pkids /\ writes' \in Seq(Pkids)
    BY <1>0, <2>1 DEF ClientOK
  <2>3. CASE unwritten # <<>>
    <3>1. /\ written' = [written EXCEPT ![Head(writes)] = Head(unwritten)]
          /\ unwritten' = Tail(unwritten)
      BY <1>3, <2>3, Zenon DEF NotePacketWritten
    <3>2. Head(unwritten) \in Publications /\ unwritten' \in Seq(Publications)
      BY <1>0, <2>3, <3>1 DEF SessionOK
    <3>3. QED
      BY <1>0, <1>b, <2>1, <2>2, <3>1, <3>2, Zenon DEF SessionOK, ClientOK
  <2>4. CASE unwritten = <<>>
    <3>1. UNCHANGED <<written, unwritten>>
      BY <1>3, <2>4, Zenon DEF NotePacketWritten
    <3>2. QED
      BY <1>0, <1>b, <2>1, <2>2, <3>1, Zenon DEF SessionOK, ClientOK
  <2>5. QED
    BY <2>3, <2>4, Zenon
<1>4. ASSUME NEW k \in Pkids, NEW d \in BOOLEAN, NEW r \in BOOLEAN, NotePubAck(k, d, r)
      PROVE  SessionOK' /\ ClientOK' /\ BrokerOK'
  <2>1. /\ TakePubAck(k)
        /\ UNCHANGED <<writes, wire, delivered, retained>>
    BY <1>4, Zenon DEF NotePubAck
  <2>2. /\ acks' \subseteq Pkids /\ writes' \in Seq(Pkids)
        /\ outgoing' \in [Pkids -> Publications \cup {NoPub}]
        /\ written' \in [Pkids -> Publications \cup {NoPub}]
    BY <1>0, <2>1, Zenon DEF TakePubAck, SessionOK, ClientOK
  <2>3. CASE PubAckOfRow(k, written[k], d, r)
    <3> DEFINE rows == IF d THEN outbox \ {written[k]} ELSE outbox
               busy == IF inflight = written[k] THEN 0 ELSE inflight
    <3>1. PublishNextOutboxRow(busy, rows, r)
      BY <2>3, Zenon DEF PubAckOfRow
    <3>2. rows \in SUBSET Nat /\ busy \in Nat
      BY <1>0, <1>a, Zenon DEF SessionOK
    <3>3. QED
      BY <1>0, <1>b, <2>1, <2>2, <3>1, <3>2, PublishNextType, Zenon DEF SessionOK, ClientOK
  <2>4. CASE PubAckOfOther
    <3>1. UNCHANGED <<phase, requests, unwritten, announced, inflight>>
      BY <2>4, Zenon DEF PubAckOfOther, NothingPublished
    <3>2. QED
      BY <1>0, <1>b, <2>1, <2>2, <3>1, Zenon DEF SessionOK, ClientOK
  <2>5. QED
    BY <1>4, <2>3, <2>4, Zenon DEF NotePubAck
<1>5. ASSUME NEW ok \in BOOLEAN, ConnAck(ok)
      PROVE  SessionOK' /\ ClientOK' /\ BrokerOK'
  <2>1. /\ written' = NoneWritten /\ outgoing' = NoneWritten
        /\ writes' = <<>> /\ acks' = {} /\ wire' = <<>>
        /\ announced' = Heartbeat
        /\ retained' = Will \/ retained' = retained
        /\ UNCHANGED <<delivered, phase>>
    BY <1>5, Zenon DEF ConnAck, NewConnection
  <2>2. \/ inflight' = 0 /\ requests' = <<StatusMsg(Heartbeat)>> /\ unwritten' = <<StatusPub>>
        \/ \E n \in outbox : /\ inflight' = n
                             /\ requests' = <<StatusMsg(Heartbeat), RowMsg(n)>>
                             /\ unwritten' = <<StatusPub, n>>
    BY <1>5, Zenon DEF ConnAck
  <2>a. StatusPub \in Publications
    BY Zenon DEF Publications, StatusPub
  <2>3. inflight' \in Nat /\ requests' \in Seq(Messages) /\ unwritten' \in Seq(Publications)
    <3>1. CASE inflight' = 0 /\ requests' = <<StatusMsg(Heartbeat)>> /\ unwritten' = <<StatusPub>>
      BY <1>c, <2>a, <3>1, ShortSeq, Zenon
    <3>2. ASSUME NEW n \in outbox, inflight' = n,
                 requests' = <<StatusMsg(Heartbeat), RowMsg(n)>>,
                 unwritten' = <<StatusPub, n>>
          PROVE  inflight' \in Nat /\ requests' \in Seq(Messages)
                   /\ unwritten' \in Seq(Publications)
      <4>1. n \in Publications /\ RowMsg(n) \in Messages
        BY <1>a, MessageType, Zenon DEF Publications
      <4>2. QED
        BY <1>a, <1>c, <2>a, <3>2, <4>1, ShortSeq, Zenon DEF Publications
    <3>3. QED
      BY <2>2, <3>1, <3>2, Zenon
  <2>4. QED
    BY <1>0, <2>1, <2>3, NoneWrittenType, PayloadType DEF SessionOK, ClientOK, BrokerOK
<1>6. CASE ConnectionLost \/ OfflineConnectionLost
  <2>1. /\ requests' = <<>> /\ outgoing' = NoneWritten /\ writes' = <<>> /\ acks' = {}
        /\ UNCHANGED <<announced, wire, delivered, retained>>
        /\ unwritten' \in {<<>>, unwritten} /\ written' \in {NoneWritten, written}
        /\ inflight' \in {0, inflight} /\ phase' \in {phase, "closing", "blocked"}
    BY <1>6, Zenon DEF ConnectionLost, OfflineConnectionLost, ClientCleared, Disconnect
  <2>2. unwritten' \in Seq(Publications) /\ requests' \in Seq(Messages) /\ writes' \in Seq(Pkids)
    BY <1>0, <2>1, ShortSeq, Zenon DEF SessionOK
  <2>3. QED
    BY <1>0, <1>b, <2>1, <2>2, NoneWrittenType DEF SessionOK, ClientOK
<1>7. CASE Shutdown
  <2>1. /\ requests' \in {<<>>, requests, Append(requests, StatusMsg(Offline))}
        /\ outgoing' \in {NoneWritten, outgoing} /\ writes' \in {<<>>, writes}
        /\ acks' \in {{}, acks} /\ announced' \in {announced, Offline}
        /\ unwritten' \in {<<>>, unwritten, <<StatusPub>>}
        /\ written' \in {NoneWritten, written}
        /\ phase' \in {"down", "offline", "blocked"}
        /\ UNCHANGED <<inflight, wire, delivered, retained>>
    BY <1>7, Zenon DEF Shutdown, ClientCleared
  <2>a. StatusPub \in Publications /\ Append(requests, StatusMsg(Offline)) \in Seq(Messages)
    BY <1>0, <1>c DEF Publications, StatusPub, ClientOK
  <2>2. unwritten' \in Seq(Publications) /\ requests' \in Seq(Messages) /\ writes' \in Seq(Pkids)
    BY <1>0, <2>a, <2>1, ShortSeq, Zenon DEF SessionOK, ClientOK
  <2>3. QED
    BY <1>0, <1>b, <2>1, <2>2, NoneWrittenType, PayloadType, Zenon DEF SessionOK, ClientOK
<1>8. ASSUME NEW k \in Pkids, OfflinePubAck(k)
      PROVE  SessionOK' /\ ClientOK' /\ BrokerOK'
  <2>1. /\ TakePubAck(k)
        /\ phase' \in {phase, "closing", "blocked"}
        /\ UNCHANGED <<unwritten, inflight, announced, requests, writes>>
        /\ UNCHANGED <<wire, delivered, retained>>
    BY <1>8, Zenon DEF OfflinePubAck, Disconnect
  <2>2. QED
    BY <1>0, <1>b, <2>1, Zenon DEF TakePubAck, SessionOK, ClientOK
<1>9. CASE OfflineTimeout
  BY <1>0, <1>b, <1>9, Zenon DEF OfflineTimeout, Disconnect, SessionOK, ClientOK
<1>10. CASE DisconnectWritten \/ ClosingEnds
  <2>1. /\ requests' = <<>> /\ outgoing' = NoneWritten /\ writes' = <<>> /\ acks' = {}
        /\ phase' = "down"
        /\ wire' \in {wire, Append(wire, DisconnectPacket)}
        /\ UNCHANGED <<unwritten, written, inflight, announced, delivered, retained>>
    BY <1>10, Zenon DEF DisconnectWritten, ClosingEnds, ClientCleared
  <2>2. wire' \in Seq(Packets)
    BY <1>0, <2>1, MessageType DEF BrokerOK
  <2>3. QED
    BY <1>0, <2>1, <2>2, NoneWrittenType DEF SessionOK, ClientOK, BrokerOK
<1>11. CASE ClosingReconnect
  <2>1. /\ outgoing' = NoneWritten /\ requests' = <<>>
        /\ writes' = <<>> /\ acks' = {} /\ wire' = <<>>
        /\ retained' = Will \/ retained' = retained
        /\ UNCHANGED <<delivered, phase, unwritten, written, inflight, announced>>
    BY <1>11, Zenon DEF ClosingReconnect, NewConnection
  <2>2. QED
    BY <1>0, <2>1, NoneWrittenType, PayloadType DEF SessionOK, ClientOK, BrokerOK
<1>12. QED
  BY <1>1, <1>2, <1>3, <1>4, <1>5, <1>6, <1>7, <1>8, <1>9, <1>10, <1>11, Zenon DEF SessionStep

\* Every step keeps the whole state well typed.
LEMMA TypeStep ==
    ASSUME TypeOK, [Next]_vars
    PROVE  TypeOK'
<1>1. SessionOK' /\ ClientOK' /\ BrokerOK'
  BY OuterStepType, SessionStepType, Zenon DEF Next
<1>2. QED
  BY <1>1, FlagsStep, FaultsStepType, TableStepType, Zenon DEF TypeOK

\* The variables of the adapter, of rumqttc and of the Broker keep their
\* types: the counters stay in range and every packet id is one of the window.
THEOREM TypeCorrect == Spec => []TypeOK
BY InitType, TypeStep, PTL DEF Spec

-----------------------------------------------------------------------------
(* The adapter invariant.  Core is AdapterInvariant without the types.     *)

Core == Attribution /\ OneRow /\ PacketIds /\ RowOrder /\ DeletedOnlyAfterPublished

\* What the types say of the elements the invariant talks about.
LEMMA Elements ==
    ASSUME TypeOK
    PROVE  /\ Len(requests) \in Nat /\ Len(wire) \in Nat
           /\ Len(writes) \in Nat /\ Len(unwritten) \in Nat
           /\ \A i \in 1 .. Len(requests) : requests[i].pub \in Nat
           /\ \A i \in 1 .. Len(unwritten) : unwritten[i] \in Nat
           /\ \A i \in 1 .. Len(writes) : writes[i] \in Pkids
           /\ \A i \in 1 .. Len(wire) : wire[i].pub \in Nat \cup {-1}
           /\ \A k \in Pkids : outgoing[k] \in Nat \cup {-1}
           /\ \A k \in Pkids : written[k] \in Nat \cup {-1}
           /\ delivered \in Nat /\ lastSeq \in Nat /\ inflight \in Nat
           /\ acks \subseteq Pkids
           /\ \A m \in outbox : m \in 1 .. lastSeq
<1>1. SessionOK /\ ClientOK /\ BrokerOK
  BY Zenon DEF TypeOK
<1>2. \A i \in 1 .. Len(wire) : wire[i] \in Packets
  BY <1>1 DEF BrokerOK
<1>3. \A i \in 1 .. Len(requests) : requests[i] \in Messages
  BY <1>1 DEF ClientOK
<1>4. \A p \in Packets : p.pub \in Nat \cup {-1}
  BY DEF Packets, DisconnectPacket, Publications, NoPub
<1>5. \A m \in Messages : m.pub \in Nat
  BY Zenon DEF Messages, Publications
<1>6. lastSeq \in Nat /\ \A m \in outbox : m \in 1 .. lastSeq
  BY OutputAssumption DEF TypeOK, OutputAssumption
<1>7. /\ \A k \in Pkids : outgoing[k] \in Nat \cup {-1}
      /\ \A k \in Pkids : written[k] \in Nat \cup {-1}
  BY <1>1, Zenon DEF SessionOK, ClientOK, Publications, NoPub
<1>8. /\ Len(requests) \in Nat /\ Len(wire) \in Nat
      /\ Len(writes) \in Nat /\ Len(unwritten) \in Nat
      /\ \A i \in 1 .. Len(unwritten) : unwritten[i] \in Nat
      /\ \A i \in 1 .. Len(writes) : writes[i] \in Pkids
  BY <1>1 DEF SessionOK, ClientOK, BrokerOK, Publications
<1>9. QED
  BY <1>1, <1>2, <1>3, <1>4, <1>5, <1>6, <1>7, <1>8, Zenon DEF SessionOK, ClientOK, BrokerOK

\* Appending: the old elements stay, the new one is last.
LEMMA AppendFacts ==
    ASSUME NEW S, NEW s \in Seq(S), NEW e \in S
    PROVE  /\ Len(Append(s, e)) = Len(s) + 1
           /\ Len(s) \in Nat
           /\ \A i \in 1 .. Len(s) : Append(s, e)[i] = s[i]
           /\ Append(s, e)[Len(s) + 1] = e
OBVIOUS

\* Taking the tail: the elements move down by one.
LEMMA TailFacts ==
    ASSUME NEW S, NEW s \in Seq(S), s # <<>>
    PROVE  /\ Len(Tail(s)) = Len(s) - 1
           /\ Len(s) \in Nat \ {0}
           /\ \A i \in 1 .. Len(s) - 1 : Tail(s)[i] = s[i + 1]
           /\ Head(s) = s[1]
           /\ s[1] \in S
OBVIOUS

\* No publication is recorded in an empty map.
LEMMA NoneWrittenAt == \A k \in Pkids : NoneWritten[k] = NoPub
BY Zenon DEF NoneWritten

\* The initial state satisfies the invariant.
LEMMA InitCore == Init => Core
<1> SUFFICES ASSUME Init PROVE Core
  BY Zenon
<1>1. /\ connected = link /\ requests = <<>> /\ writes = <<>> /\ unwritten = <<>>
      /\ outgoing = NoneWritten /\ written = NoneWritten /\ wire = <<>> /\ acks = {}
      /\ lastSeq = 0 /\ outbox = {} /\ delivered = 0 /\ phase = "running"
  BY Zenon DEF Init
<1>2. Attribution
  BY <1>1, NoneWrittenAt DEF Attribution, StatusPub, NoPub
<1>3. OneRow /\ PacketIds
  BY <1>1, NoneWrittenAt DEF OneRow, PacketIds, StatusPub, NoPub
<1>4. RowOrder /\ DeletedOnlyAfterPublished
  BY <1>1 DEF RowOrder, DeletedOnlyAfterPublished
<1>5. QED
  BY <1>2, <1>3, <1>4, Zenon DEF Core

\* A step that leaves table, client and Broker alone, and the session too
\* unless the loop has ended, keeps the invariant.
LEMMA QuietStep ==
    ASSUME Core, UNCHANGED <<dbVars, clientVars, wire, delivered>>,
           \/ UNCHANGED sessionVars
           \/ phase' # "running" /\ phase' # "down"
    PROVE  Core'
<1> USE DEF dbVars, clientVars, sessionVars
<1>1. Attribution'
  BY Zenon DEF Core, Attribution
<1>2. OneRow' /\ PacketIds'
  BY DEF Core, OneRow, PacketIds
<1>3. RowOrder' /\ DeletedOnlyAfterPublished'
  BY Zenon DEF Core, RowOrder, UnderWay, DeletedOnlyAfterPublished
<1>4. QED
  BY <1>1, <1>2, <1>3, Zenon DEF Core

\* A new row is the youngest of the table.
LEMMA EnqueueStep ==
    ASSUME TypeOK, Core, Enqueue
    PROVE  Core'
<1> USE DEF clientVars, sessionVars, brokerVars
<1>1. Attribution' /\ OneRow' /\ PacketIds'
  BY DEF Enqueue, Core, Attribution, OneRow, PacketIds
<1>2. lastSeq \in Nat /\ lastSeq' = lastSeq + 1 /\ outbox' = outbox \cup {lastSeq + 1}
  BY Elements, Zenon DEF Enqueue
<1>3. RowOrder'
  <2>1. ASSUME NEW n \in Nat, UnderWay(n)
        PROVE  n <= lastSeq' /\ delivered' <= n /\ \A m \in outbox' : n <= m
    BY <1>2, <2>1, Elements DEF Enqueue, UnderWay
  <2>2. delivered' <= lastSeq' /\ \A m \in outbox' : delivered' <= m
    BY <1>2, Elements DEF Enqueue, Core, RowOrder
  <2>3. UNCHANGED <<requests, wire>>
    BY Zenon DEF Enqueue
  <2>4. ASSUME NEW i \in 1 .. Len(requests), requests[i].pub > StatusPub
        PROVE  UnderWay(requests[i].pub)'
    BY <2>1, <2>3, <2>4, Elements, Zenon DEF Core, RowOrder, UnderWay
  <2>5. ASSUME NEW i \in 1 .. Len(wire), wire[i].pub > StatusPub
        PROVE  UnderWay(wire[i].pub)'
    <3>1. wire[i].pub \in Nat
      BY <2>5, Elements DEF StatusPub
    <3>2. QED
      BY <2>1, <2>3, <2>5, <3>1, Zenon DEF Core, RowOrder, UnderWay
  <2>6. QED
    BY <2>2, <2>3, <2>4, <2>5, Zenon DEF RowOrder
<1>4. DeletedOnlyAfterPublished'
  BY <1>2, Elements DEF Enqueue, Core, DeletedOnlyAfterPublished
<1>5. QED
  BY <1>1, <1>3, <1>4, Zenon DEF Core

\* Dropping the connection forgets everything under way in rumqttc; packets
\* already written, and a DISCONNECT behind them, may still reach the Broker.
LEMMA ClearedStep ==
    ASSUME TypeOK, Core, ClientCleared, UNCHANGED <<dbVars, delivered>>,
           wire' = wire \/ wire' = Append(wire, DisconnectPacket),
           \/ phase' # "running"
           \/ connected' = FALSE /\ unwritten' = <<>> /\ written' = NoneWritten
    PROVE  Core'
<1> USE DEF dbVars
<1>1. /\ link' = FALSE /\ requests' = <<>> /\ outgoing' = NoneWritten /\ writes' = <<>>
      /\ acks' = {}
  BY Zenon DEF ClientCleared
<1>2. Attribution'
  <2>1. CASE phase' # "running"
    BY <1>1, <2>1, Zenon DEF Attribution
  <2>2. CASE connected' = FALSE /\ unwritten' = <<>> /\ written' = NoneWritten
    <3>1. connected' = link'
      BY <1>1, <2>2, Zenon
    <3>2. Len(unwritten') = 0 /\ Len(writes') = 0 /\ Len(requests') = 0
      BY <1>1, <2>2, Zenon
    <3>3. \A k \in Pkids : written'[k] = -1 /\ outgoing'[k] = -1
      BY <1>1, <2>2, NoneWrittenAt, Zenon DEF NoPub
    <3>4. QED
      BY <1>1, <3>1, <3>2, <3>3 DEF Attribution, StatusPub, NoPub
  <2>3. QED
    BY <2>1, <2>2, Zenon
<1>3. /\ Len(wire') \in Nat
      /\ \A i \in 1 .. Len(wire') : wire'[i].pub # NoPub => i \in 1 .. Len(wire) /\ wire'[i] = wire[i]
  <2>1. wire \in Seq(Packets) /\ DisconnectPacket \in Packets /\ DisconnectPacket.pub = NoPub
    BY Zenon DEF TypeOK, BrokerOK, Packets, DisconnectPacket
  <2>2. CASE wire' = wire
    BY <2>1, <2>2
  <2>3. CASE wire' = Append(wire, DisconnectPacket)
    BY <2>1, <2>3, AppendFacts
  <2>4. QED
    BY <2>2, <2>3, Zenon
<1>a. \A k \in Pkids : ~(outgoing'[k] > StatusPub)
  BY <1>1, NoneWrittenAt DEF StatusPub, NoPub
<1>4. OneRow'
  <2>1. \A i \in 1 .. Len(wire') : wire'[i].pub > StatusPub => wire'[i].pub # NoPub
    BY DEF StatusPub, NoPub
  <2>2. \A i, j \in 1 .. Len(wire') :
          wire'[i].pub > StatusPub /\ wire'[j].pub > StatusPub => i = j
    BY <1>3, <2>1, Zenon DEF Core, OneRow
  <2>3. QED
    BY <1>1, <1>a, <2>2 DEF OneRow
<1>5. PacketIds'
  <2>1. \A i, j \in 1 .. Len(wire') :
          wire'[i].pub # NoPub /\ wire'[j].pub # NoPub /\ wire'[i].pkid = wire'[j].pkid => i = j
    BY <1>3 DEF Core, PacketIds
  <2>2. \A i \in 1 .. Len(wire') : wire'[i].pub # NoPub => wire'[i].pkid \in Pkids
    BY <1>3, Zenon DEF Core, PacketIds
  <2>3. QED
    BY <1>1, <2>1, <2>2, Zenon DEF PacketIds
<1>6. RowOrder' /\ DeletedOnlyAfterPublished'
  BY <1>1, <1>3, Elements DEF Core, RowOrder, UnderWay, DeletedOnlyAfterPublished, StatusPub, NoPub
<1>7. QED
  BY <1>2, <1>4, <1>5, <1>6, Zenon DEF Core

\* A new connection starts with an empty wire.
LEMMA ReconnectStep ==
    ASSUME TypeOK, Core, ClosingReconnect
    PROVE  Core'
<1> USE DEF dbVars, sessionVars
<1>1. /\ link' /\ requests' = <<>> /\ outgoing' = NoneWritten /\ writes' = <<>>
      /\ acks' = {} /\ wire' = <<>> /\ phase' = "closing"
      /\ UNCHANGED <<lastSeq, outbox, delivered>>
  BY Zenon DEF ClosingReconnect, NewConnection
<1>2. Attribution' /\ OneRow' /\ PacketIds'
  BY <1>1, NoneWrittenAt DEF Attribution, OneRow, PacketIds, StatusPub, NoPub
<1>3. RowOrder' /\ DeletedOnlyAfterPublished'
  BY <1>1 DEF Core, RowOrder, DeletedOnlyAfterPublished
<1>4. QED
  BY <1>2, <1>3, Zenon DEF Core

\* On ConnAck a status and then at most one row, the oldest, are queued.
LEMMA ConnAckStep ==
    ASSUME TypeOK, Core, NEW ok \in BOOLEAN, ConnAck(ok)
    PROVE  Core'
<1> USE DEF dbVars
<1>1. /\ link' /\ connected' /\ outgoing' = NoneWritten /\ written' = NoneWritten
      /\ writes' = <<>> /\ acks' = {} /\ wire' = <<>> /\ phase' = "running"
      /\ UNCHANGED <<lastSeq, outbox, delivered>>
  BY Zenon DEF ConnAck, NewConnection
<1>2. \/ requests' = <<StatusMsg(Heartbeat)>> /\ unwritten' = <<StatusPub>>
      \/ \E n \in outbox : /\ Oldest(outbox, n)
                           /\ inflight' = n
                           /\ requests' = <<StatusMsg(Heartbeat), RowMsg(n)>>
                           /\ unwritten' = <<StatusPub, n>>
  BY Zenon DEF ConnAck
<1>3. PacketIds'
  BY <1>1 DEF PacketIds
<1>4. DeletedOnlyAfterPublished'
  BY <1>1, Zenon DEF Core, DeletedOnlyAfterPublished
<1>5. CASE requests' = <<StatusMsg(Heartbeat)>> /\ unwritten' = <<StatusPub>>
  <2>1. /\ Len(requests') = 1 /\ requests'[1].pub = 0 /\ Len(unwritten') = 1
        /\ unwritten'[1] = 0 /\ Len(writes') = 0
    BY <1>1, <1>5, Zenon DEF StatusMsg, StatusPub
  <2>2. Attribution'
    BY <1>1, <2>1, NoneWrittenAt DEF Attribution, StatusPub, NoPub
  <2>3. OneRow' /\ RowOrder'
    BY <1>1, <2>1, NoneWrittenAt DEF Core, OneRow, RowOrder, StatusPub, NoPub
  <2>4. QED
    BY <1>3, <1>4, <2>2, <2>3, Zenon DEF Core
<1>6. ASSUME NEW n \in outbox, Oldest(outbox, n), inflight' = n,
             requests' = <<StatusMsg(Heartbeat), RowMsg(n)>>,
             unwritten' = <<StatusPub, n>>
      PROVE  Core'
  <2>1. /\ Len(requests') = 2 /\ requests'[1].pub = 0 /\ requests'[2].pub = n
        /\ Len(unwritten') = 2 /\ unwritten'[1] = 0 /\ unwritten'[2] = n
        /\ Len(writes') = 0
    BY <1>1, <1>6, Zenon DEF StatusMsg, RowMsg, StatusPub
  <2>2. Attribution'
    BY <1>1, <1>6, <2>1, NoneWrittenAt DEF Attribution, StatusPub, NoPub
  <2>3. OneRow'
    BY <1>1, <2>1, NoneWrittenAt DEF OneRow, StatusPub, NoPub
  <2>4. RowOrder'
    BY <1>1, <1>6, <2>1, Elements DEF Core, RowOrder, UnderWay, Oldest, StatusPub
  <2>5. QED
    BY <1>3, <1>4, <2>2, <2>3, <2>4, Zenon DEF Core
<1>7. QED
  BY <1>2, <1>5, <1>6, Zenon

\* A status behind the other requests, in the loop or for the shutdown.
LEMMA StatusQueued ==
    ASSUME TypeOK, Core, NEW s \in Payloads, link = TRUE,
           requests' = Append(requests, StatusMsg(s)),
           UNCHANGED <<dbVars, link, outgoing, writes, acks, wire, delivered>>,
           \/ /\ phase' = "running" /\ phase = "running"
              /\ unwritten' = Append(unwritten, StatusPub)
              /\ UNCHANGED <<connected, written, inflight>>
           \/ phase' # "running" /\ phase' # "down"
    PROVE  Core'
<1> USE DEF dbVars
<1>1. /\ Len(requests') = Len(requests) + 1
      /\ Len(requests) \in Nat
      /\ \A i \in 1 .. Len(requests) : requests'[i] = requests[i]
      /\ requests'[Len(requests) + 1].pub = 0
  <2>1. requests \in Seq(Messages) /\ StatusMsg(s) \in Messages
    BY MessageType, Zenon DEF TypeOK, ClientOK
  <2>2. StatusMsg(s).pub = 0
    BY Zenon DEF StatusMsg, StatusPub
  <2>3. QED
    BY <2>1, <2>2, AppendFacts
<1>2. \A i \in 1 .. Len(requests') :
         \/ i \in 1 .. Len(requests) /\ requests'[i] = requests[i]
         \/ i = Len(requests) + 1 /\ requests'[i].pub = 0
  BY <1>1
<1>3. Attribution'
  <2>1. CASE phase' # "running" /\ phase' # "down"
    BY <2>1, Zenon DEF Attribution
  <2>2. CASE /\ phase' = "running" /\ phase = "running"
             /\ unwritten' = Append(unwritten, StatusPub)
             /\ UNCHANGED <<connected, written, inflight>>
    <3>1. /\ Len(unwritten') = Len(unwritten) + 1
          /\ \A i \in 1 .. Len(unwritten) : unwritten'[i] = unwritten[i]
          /\ unwritten'[Len(unwritten) + 1] = 0
      <4>1. unwritten \in Seq(Publications) /\ 0 \in Publications
        BY Zenon DEF TypeOK, SessionOK, Publications
      <4>2. QED
        BY <2>2, <4>1, AppendFacts, Zenon DEF StatusPub
    <3>2. /\ connected' = link'
          /\ Len(unwritten) = Len(writes) + Len(requests)
          /\ \A i \in 1 .. Len(writes) : outgoing[writes[i]] = unwritten[i]
          /\ \A i \in 1 .. Len(requests) : unwritten[Len(writes) + i] = requests[i].pub
          /\ \A k \in Pkids : written[k] # NoPub => outgoing[k] = written[k]
          /\ \A k \in Pkids : outgoing[k] > StatusPub => inflight = outgoing[k]
          /\ \A i \in 1 .. Len(requests) :
                requests[i].pub > StatusPub => inflight = requests[i].pub
      BY <2>2, Zenon DEF Core, Attribution
    <3>3. ASSUME NEW i \in 1 .. Len(requests')
          PROVE  unwritten'[Len(writes) + i] = requests'[i].pub
      <4>1. CASE i \in 1 .. Len(requests) /\ requests'[i] = requests[i]
        <5>1. Len(writes) + i \in 1 .. Len(unwritten)
          BY <3>2, <4>1, Elements
        <5>2. QED
          BY <3>1, <3>2, <4>1, <5>1, Zenon
      <4>2. CASE i = Len(requests) + 1 /\ requests'[i].pub = 0
        BY <3>1, <3>2, <4>2, Elements
      <4>3. QED
        BY <1>2, <4>1, <4>2, Zenon
    <3>4. \A i \in 1 .. Len(writes) : outgoing[writes[i]] = unwritten'[i]
      BY <1>1, <3>1, <3>2, Elements
    <3>5. \A i \in 1 .. Len(requests') : requests'[i].pub > StatusPub => inflight = requests'[i].pub
      BY <1>2, <3>2 DEF StatusPub
    <3>6. Len(unwritten') = Len(writes) + Len(requests')
      BY <1>1, <3>1, <3>2, Elements
    <3>7. UNCHANGED <<link, outgoing, writes, written, inflight>> /\ phase' = "running"
      BY <2>2, Zenon
    <3>8. QED
      BY <3>2, <3>3, <3>4, <3>5, <3>6, <3>7, Zenon DEF Attribution
  <2>3. QED
    BY <2>1, <2>2, Zenon
<1>4. OneRow'
  BY <1>1, <1>2 DEF Core, OneRow, StatusPub
<1>5. PacketIds'
  BY Zenon DEF Core, PacketIds
<1>6. RowOrder'
  BY <1>2 DEF Core, RowOrder, UnderWay, StatusPub
<1>7. DeletedOnlyAfterPublished'
  BY Zenon DEF Core, DeletedOnlyAfterPublished
<1>8. QED
  BY <1>3, <1>4, <1>5, <1>6, <1>7, Zenon DEF Core

\* A row behind the other requests, when no other row is under way.
LEMMA RowQueued ==
    ASSUME TypeOK, TypeOK', NEW n \in outbox', Oldest(outbox', n),
           requests' = Append(requests, RowMsg(n)),
           unwritten' = Append(unwritten, n),
           inflight' = n, phase' = "running", connected' = link',
           Len(unwritten) = Len(writes') + Len(requests),
           \A i \in 1 .. Len(writes') : outgoing'[writes'[i]] = unwritten[i],
           \A i \in 1 .. Len(requests) : unwritten[Len(writes') + i] = requests[i].pub,
           \A k \in Pkids : written'[k] # NoPub => outgoing'[k] = written'[k],
           \A k \in Pkids : ~(outgoing'[k] > StatusPub),
           \A i \in 1 .. Len(requests) : ~(requests[i].pub > StatusPub),
           \A i \in 1 .. Len(wire') : ~(wire'[i].pub > StatusPub),
           delivered' <= lastSeq', \A m \in outbox' : delivered' <= m
    PROVE  Attribution' /\ OneRow' /\ RowOrder'
<1>1. /\ Len(requests') = Len(requests) + 1
      /\ Len(requests) \in Nat
      /\ \A i \in 1 .. Len(requests) : requests'[i] = requests[i]
      /\ requests'[Len(requests) + 1].pub = n
      /\ n \in Nat /\ n > 0
  <2>1. n \in 1 .. lastSeq' /\ lastSeq' \in Nat
    BY OutputAssumption DEF TypeOK, OutputAssumption
  <2>2. requests \in Seq(Messages) /\ RowMsg(n) \in Messages /\ n \in Nat /\ n > 0
    BY <2>1, MessageType DEF TypeOK, ClientOK
  <2>3. RowMsg(n).pub = n
    BY Zenon DEF RowMsg
  <2>4. QED
    BY <2>2, <2>3, AppendFacts
<1>2. /\ Len(unwritten') = Len(unwritten) + 1
      /\ \A i \in 1 .. Len(unwritten) : unwritten'[i] = unwritten[i]
      /\ unwritten'[Len(unwritten) + 1] = n
      /\ Len(writes') \in Nat
  <2>1. unwritten \in Seq(Publications) /\ n \in Publications /\ writes' \in Seq(Pkids)
    BY <1>1, Zenon DEF TypeOK, SessionOK, ClientOK, Publications
  <2>2. Len(writes') \in Nat
    BY <2>1
  <2>3. QED
    BY <2>1, <2>2, AppendFacts
<1>3. \A i \in 1 .. Len(requests') :
         \/ i \in 1 .. Len(requests) /\ requests'[i] = requests[i]
         \/ i = Len(requests) + 1 /\ requests'[i].pub = n
  BY <1>1
<1>4. Attribution'
  <2>1. Len(unwritten') = Len(writes') + Len(requests')
    BY <1>1, <1>2
  <2>2. \A i \in 1 .. Len(writes') : outgoing'[writes'[i]] = unwritten'[i]
    BY <1>1, <1>2
  <2>3. \A i \in 1 .. Len(requests') : unwritten'[Len(writes') + i] = requests'[i].pub
    <3>1. SUFFICES ASSUME NEW i \in 1 .. Len(requests')
                   PROVE  unwritten'[Len(writes') + i] = requests'[i].pub
      BY Zenon
    <3>2. CASE i \in 1 .. Len(requests) /\ requests'[i] = requests[i]
      BY <1>1, <1>2, <3>2
    <3>3. CASE i = Len(requests) + 1 /\ requests'[i].pub = n
      BY <1>1, <1>2, <3>3
    <3>4. QED
      BY <1>3, <3>1, <3>2, <3>3, Zenon
  <2>4. ASSUME NEW i \in 1 .. Len(requests'), requests'[i].pub > StatusPub
        PROVE  inflight' = requests'[i].pub
    <3>1. CASE i \in 1 .. Len(requests) /\ requests'[i] = requests[i]
      BY <2>4, <3>1, Zenon
    <3>2. CASE i = Len(requests) + 1 /\ requests'[i].pub = n
      BY <3>2, Zenon
    <3>3. QED
      BY <1>3, <3>1, <3>2, Zenon
  <2>5. QED
    BY <2>1, <2>2, <2>3, <2>4, Zenon DEF Attribution
<1>5. OneRow'
  BY <1>1, <1>3 DEF OneRow
<1>6. RowOrder'
  <2>1. ASSUME NEW i \in 1 .. Len(requests'), requests'[i].pub > StatusPub
        PROVE  requests'[i].pub = n
    BY <1>3, <2>1, Zenon
  <2>2. n <= lastSeq' /\ delivered' <= n /\ \A m \in outbox' : n <= m
    BY OutputAssumption DEF TypeOK, OutputAssumption, Oldest
  <2>3. QED
    BY <2>1, <2>2, Zenon DEF RowOrder, UnderWay
<1>7. QED
  BY <1>4, <1>5, <1>6, Zenon

\* The first pending entry without a packet id is the packet just written.
LEMMA PacketWrittenStep ==
    ASSUME TypeOK, Core, NotePacketWritten
    PROVE  Core'
<1> USE DEF dbVars, brokerVars
<1>1. /\ UNCHANGED <<lastSeq, outbox, phase, connected, inflight, link, requests>>
      /\ UNCHANGED <<outgoing, acks, wire, delivered>>
      /\ phase \in {"running", "offline"}
  BY Zenon DEF NotePacketWritten
<1>2. writes # <<>> /\ writes' = Tail(writes)
  BY Zenon DEF NotePacketWritten
<1>3. /\ Len(writes') = Len(writes) - 1 /\ Len(writes) \in Nat \ {0}
      /\ \A i \in 1 .. Len(writes) - 1 : writes'[i] = writes[i + 1]
      /\ Head(writes) = writes[1] /\ writes[1] \in Pkids
  BY <1>2, TailFacts, Zenon DEF TypeOK, ClientOK
<1>4. OneRow' /\ RowOrder' /\ DeletedOnlyAfterPublished'
  BY <1>1, Zenon DEF Core, OneRow, RowOrder, UnderWay, DeletedOnlyAfterPublished
<1>5. PacketIds'
  <2>1. link = FALSE => writes = <<>>
    BY Zenon DEF Core, PacketIds
  <2>2. QED
    BY <1>1, <1>2, <2>1, Zenon DEF Core, PacketIds
<1>6. Attribution'
  <2>1. CASE phase = "offline"
    BY <1>1, <2>1, Zenon DEF Attribution
  <2>2. CASE phase = "running"
    <3>1. /\ connected = link
          /\ Len(unwritten) = Len(writes) + Len(requests)
          /\ \A i \in 1 .. Len(writes) : outgoing[writes[i]] = unwritten[i]
          /\ \A i \in 1 .. Len(requests) : unwritten[Len(writes) + i] = requests[i].pub
          /\ \A k \in Pkids : written[k] # NoPub => outgoing[k] = written[k]
          /\ \A k \in Pkids : outgoing[k] > StatusPub => inflight = outgoing[k]
          /\ \A i \in 1 .. Len(requests) :
                requests[i].pub > StatusPub => inflight = requests[i].pub
      BY <2>2, Zenon DEF Core, Attribution
    <3>2. unwritten # <<>>
      BY <1>3, <3>1, Elements
    <3>3. /\ written' = [written EXCEPT ![Head(writes)] = Head(unwritten)]
          /\ unwritten' = Tail(unwritten)
      BY <3>2, Zenon DEF NotePacketWritten
    <3>4. /\ Len(unwritten') = Len(unwritten) - 1
          /\ \A i \in 1 .. Len(unwritten) - 1 : unwritten'[i] = unwritten[i + 1]
          /\ Head(unwritten) = unwritten[1]
      BY <3>2, <3>3, TailFacts, Zenon DEF TypeOK, SessionOK
    <3>5. ASSUME NEW i \in 1 .. Len(writes')
          PROVE  outgoing[writes'[i]] = unwritten'[i]
      <4>1. i + 1 \in 1 .. Len(writes) /\ i \in 1 .. Len(unwritten) - 1
        BY <1>3, <3>1, Elements
      <4>2. writes'[i] = writes[i + 1] /\ unwritten'[i] = unwritten[i + 1]
        BY <1>3, <3>4, <4>1, Zenon
      <4>3. QED
        BY <3>1, <4>1, <4>2, Zenon
    <3>6. ASSUME NEW i \in 1 .. Len(requests)
          PROVE  unwritten'[Len(writes') + i] = requests[i].pub
      <4>1. Len(writes') + i \in 1 .. Len(unwritten) - 1
        BY <1>3, <3>1, Elements
      <4>2. unwritten'[Len(writes') + i] = unwritten[Len(writes) + i]
        BY <1>3, <3>4, <4>1, Elements
      <4>3. QED
        BY <3>1, <4>2, Zenon
    <3>7. \A k \in Pkids : written'[k] # NoPub => outgoing[k] = written'[k]
      <4>1. outgoing[Head(writes)] = Head(unwritten)
        BY <1>3, <3>1, <3>4
      <4>2. written \in [Pkids -> Publications \cup {NoPub}]
        BY Zenon DEF TypeOK, SessionOK
      <4>3. QED
        BY <3>1, <3>3, <4>1, <4>2, Zenon
    <3>8. Len(unwritten') = Len(writes') + Len(requests)
      BY <1>3, <3>1, <3>4, Elements
    <3>9. connected' = link' /\ phase' = "running"
      BY <1>1, <2>2, <3>1, Zenon
    <3>10. UNCHANGED <<outgoing, requests, inflight>>
      BY <1>1, Zenon
    <3>11. QED
      BY <3>1, <3>5, <3>6, <3>7, <3>8, <3>9, <3>10, Zenon DEF Attribution
  <2>3. QED
    BY <1>1, <2>1, <2>2, Zenon
<1>7. QED
  BY <1>4, <1>5, <1>6, Zenon DEF Core

\* Taking a PUBACK frees its packet id; no row is on the wire afterwards if
\* the packet carried one.
LEMMA AckTaken ==
    ASSUME TypeOK, Core, NEW k \in Pkids, PubAckReady(k), TakePubAck(k),
           UNCHANGED <<lastSeq, link, writes, wire, delivered>>
    PROVE  /\ link = TRUE
           /\ outgoing[k] # NoPub /\ outgoing[k] <= delivered
           /\ \A j \in Pkids : outgoing'[j] = IF j = k THEN NoPub ELSE outgoing[j]
           /\ \A j \in Pkids : written'[j] = IF j = k THEN NoPub ELSE written[j]
           /\ \A i \in 1 .. Len(writes) : writes[i] # k
           /\ PacketIds'
           /\ outgoing[k] > StatusPub =>
                 \A i \in 1 .. Len(wire) : ~(wire[i].pub > StatusPub)
<1>1. k \in acks /\ \A i \in 1 .. Len(writes) : writes[i] # k
  BY Zenon DEF PubAckReady
<1>2. link = TRUE
  <2>1. link \in BOOLEAN
    BY Zenon DEF TypeOK, FlagsOK
  <2>2. link
    BY <1>1, Zenon DEF Core, PacketIds
  <2>3. QED
    BY <2>1, <2>2, Zenon
<1>3. outgoing[k] # NoPub /\ outgoing[k] <= delivered
  BY <1>1, Zenon DEF Core, PacketIds
<1>4. /\ \A j \in Pkids : outgoing'[j] = IF j = k THEN NoPub ELSE outgoing[j]
      /\ \A j \in Pkids : written'[j] = IF j = k THEN NoPub ELSE written[j]
      /\ acks' = acks \ {k}
  BY Zenon DEF TakePubAck, TypeOK, SessionOK, ClientOK
<1>5. /\ \A i, j \in 1 .. Len(wire) :
            wire[i].pub # NoPub /\ wire[j].pub # NoPub /\ wire[i].pkid = wire[j].pkid => i = j
      /\ \A i \in 1 .. Len(wire) :
            wire[i].pub # NoPub => /\ wire[i].pkid \in Pkids \ acks
                                   /\ outgoing[wire[i].pkid] = wire[i].pub
      /\ \A j \in acks : outgoing[j] # NoPub /\ outgoing[j] <= delivered
  BY <1>2, Zenon DEF Core, PacketIds
<1>6. PacketIds'
  <2>1. \A i \in 1 .. Len(wire) :
            wire[i].pub # NoPub => /\ wire[i].pkid \in Pkids \ acks'
                                   /\ outgoing'[wire[i].pkid] = wire[i].pub
    BY <1>1, <1>4, <1>5, Zenon
  <2>2. \A j \in acks' : outgoing'[j] # NoPub /\ outgoing'[j] <= delivered
    BY <1>4, <1>5, Elements, Zenon
  <2>3. link'
    BY <1>2, Zenon
  <2>4. QED
    BY <1>5, <2>1, <2>2, <2>3, Zenon DEF PacketIds
<1>7. ASSUME outgoing[k] > StatusPub, NEW i \in 1 .. Len(wire), wire[i].pub > StatusPub
      PROVE  FALSE
  <2>1. wire[i].pub # NoPub
    BY <1>7, SMTT(30) DEF StatusPub, NoPub
  <2>2. wire[i].pkid \in Pkids /\ wire[i].pkid # k /\ outgoing[wire[i].pkid] > StatusPub
    BY <1>1, <1>5, <1>7, <2>1, Zenon
  <2>3. QED
    BY <1>7, <2>2, Zenon DEF Core, OneRow
<1>8. QED
  BY <1>1, <1>2, <1>3, <1>4, <1>6, <1>7, Zenon

\* The loop is running with a connection: what the session knows.
LEMMA Running ==
    ASSUME Core, phase = "running"
    PROVE  /\ connected = link
           /\ Len(unwritten) = Len(writes) + Len(requests)
           /\ \A i \in 1 .. Len(writes) : outgoing[writes[i]] = unwritten[i]
           /\ \A i \in 1 .. Len(requests) : unwritten[Len(writes) + i] = requests[i].pub
           /\ \A j \in Pkids : written[j] # NoPub => outgoing[j] = written[j]
           /\ \A j \in Pkids : outgoing[j] > StatusPub => inflight = outgoing[j]
           /\ \A i \in 1 .. Len(requests) :
                 requests[i].pub > StatusPub => inflight = requests[i].pub
BY Zenon DEF Core, Attribution

\* A PUBACK of a status, or of a packet the session does not know, touches
\* neither the table nor the requests.
LEMMA OtherAckStep ==
    ASSUME TypeOK, Core, NEW k \in Pkids, PubAckReady(k), TakePubAck(k),
           UNCHANGED <<lastSeq, outbox, link, writes, requests, wire, delivered>>,
           \/ /\ phase = "running"
              /\ UNCHANGED <<phase, connected, unwritten, inflight>>
           \/ phase' # "running" /\ phase' # "down"
    PROVE  Core'
<1>1. /\ \A j \in Pkids : outgoing'[j] = IF j = k THEN NoPub ELSE outgoing[j]
      /\ \A j \in Pkids : written'[j] = IF j = k THEN NoPub ELSE written[j]
      /\ \A i \in 1 .. Len(writes) : writes[i] # k
      /\ PacketIds'
  BY AckTaken, Zenon
<1>2. ASSUME NEW j \in Pkids, outgoing'[j] > StatusPub PROVE outgoing[j] = outgoing'[j]
  BY <1>1, <1>2 DEF StatusPub, NoPub
<1>3. OneRow'
  BY <1>2, Zenon DEF Core, OneRow
<1>4. RowOrder' /\ DeletedOnlyAfterPublished'
  BY Zenon DEF Core, RowOrder, UnderWay, DeletedOnlyAfterPublished
<1>5. Attribution'
  <2>1. CASE phase' # "running" /\ phase' # "down"
    BY <2>1, Zenon DEF Attribution
  <2>2. CASE phase = "running" /\ UNCHANGED <<phase, connected, unwritten, inflight>>
    <3>1. connected' = link' /\ phase' = "running"
      BY <2>2, Running, Zenon
    <3>2. \A i \in 1 .. Len(writes) : outgoing'[writes[i]] = unwritten[i]
      BY <1>1, <2>2, Running, Elements, Zenon
    <3>3. \A j \in Pkids : written'[j] # NoPub => outgoing'[j] = written'[j]
      BY <1>1, <2>2, Running, Zenon
    <3>4. \A j \in Pkids : outgoing'[j] > StatusPub => inflight = outgoing'[j]
      BY <1>2, <2>2, Running, Zenon
    <3>5. Len(unwritten) = Len(writes) + Len(requests)
      BY <2>2, Running, Zenon
    <3>6. \A i \in 1 .. Len(requests) : unwritten[Len(writes) + i] = requests[i].pub
      BY <2>2, Running, Zenon
    <3>7. \A i \in 1 .. Len(requests) : requests[i].pub > StatusPub => inflight = requests[i].pub
      BY <2>2, Running, Zenon
    <3>8. UNCHANGED <<writes, requests, unwritten, inflight>>
      BY <2>2, Zenon
    <3>9. QED
      BY <3>1, <3>2, <3>3, <3>4, <3>5, <3>6, <3>7, <3>8, Zenon DEF Attribution
  <2>3. QED
    BY <2>1, <2>2, Zenon
<1>6. QED
  BY <1>1, <1>3, <1>4, <1>5, Zenon DEF Core

\* Looking for the next row when no row is under way any more: the oldest row
\* of the table is queued, or nothing is.
LEMMA NextRowStep ==
    ASSUME TypeOK, TypeOK', Core, phase = "running", NEW ok,
           PublishNextOutboxRow(0, outbox', ok),
           outbox' \subseteq outbox,
           UNCHANGED <<lastSeq, connected, link, writes, wire, delivered>>,
           link = TRUE,
           \A i \in 1 .. Len(writes) : outgoing'[writes[i]] = unwritten[i],
           \A j \in Pkids : written'[j] # NoPub => outgoing'[j] = written'[j],
           \A j \in Pkids : ~(outgoing'[j] > StatusPub),
           \A i \in 1 .. Len(requests) : ~(requests[i].pub > StatusPub),
           \A i \in 1 .. Len(wire) : ~(wire[i].pub > StatusPub),
           PacketIds',
           DeletedOnlyAfterPublished'
    PROVE  Core'
<1>1. /\ connected' = link'
      /\ Len(unwritten) = Len(writes) + Len(requests)
      /\ \A i \in 1 .. Len(requests) : unwritten[Len(writes) + i] = requests[i].pub
  BY Running, Zenon
<1>2. delivered' <= lastSeq' /\ \A m \in outbox' : delivered' <= m
  BY Zenon DEF Core, RowOrder
<1>a. UNCHANGED <<writes, wire>>
  BY Zenon
<1>3. CASE NothingPublished
  <2>1. UNCHANGED <<phase, requests, unwritten>>
    BY <1>3, Zenon DEF NothingPublished
  <2>2. Attribution'
    BY <1>1, <1>a, <2>1, Zenon DEF Attribution
  <2>3. OneRow' /\ RowOrder'
    BY <1>2, <1>a, <2>1, Zenon DEF OneRow, RowOrder
  <2>4. QED
    BY <2>2, <2>3, Zenon DEF Core
<1>4. ASSUME NEW n \in outbox', Oldest(outbox', n), inflight' = n,
             Publish(RowMsg(n), FALSE)
      PROVE  Core'
  <2>1. CASE Len(requests) < RequestCap
    <3>1. /\ requests' = Append(requests, RowMsg(n))
          /\ unwritten' = Append(unwritten, n)
          /\ phase' = "running"
      BY <1>4, <2>1, Zenon DEF Publish, RowMsg
    <3>2. Attribution' /\ OneRow' /\ RowOrder'
      BY <1>1, <1>2, <1>4, <1>a, <3>1, RowQueued, Zenon
    <3>3. QED
      BY <3>2, Zenon DEF Core
  <2>2. CASE ~(Len(requests) < RequestCap)
    <3>1. phase' = "blocked" /\ UNCHANGED <<requests, unwritten>>
      BY <1>4, <2>2, Zenon DEF Publish
    <3>2. Attribution'
      BY <3>1, Zenon DEF Attribution
    <3>3. OneRow' /\ RowOrder'
      BY <1>2, <1>a, <3>1, Zenon DEF OneRow, RowOrder
    <3>4. QED
      BY <3>2, <3>3, Zenon DEF Core
  <2>3. QED
    BY <2>1, <2>2, Zenon
<1>5. QED
  BY <1>3, <1>4, Zenon DEF PublishNextOutboxRow

\* committed() and the idle probe: inflight is free, so no row is under way
\* in the client; one that is still on the wire is not possible either.
LEMMA ProbeStep ==
    ASSUME TypeOK, TypeOK', Core, NEW ok \in BOOLEAN, ProbeOutbox(ok)
    PROVE  Core'
<1> USE DEF dbVars, brokerVars
<1>1. /\ phase = "running" /\ inflight = 0
      /\ UNCHANGED <<lastSeq, outbox, connected, written, link, outgoing, writes, acks>>
      /\ UNCHANGED <<wire, delivered>>
      /\ PublishNextOutboxRow(0, outbox, ok)
  BY Zenon DEF ProbeOutbox
<1>2. link = TRUE
  <2>1. connected = link /\ connected /\ link \in BOOLEAN
    BY <1>1, Running, Zenon DEF ProbeOutbox, TypeOK, FlagsOK
  <2>2. QED
    BY <2>1, Zenon
<1>3. \A j \in Pkids : ~(outgoing[j] > StatusPub)
  BY <1>1, Running DEF StatusPub
<1>4. \A i \in 1 .. Len(requests) : ~(requests[i].pub > StatusPub)
  BY <1>1, Running DEF StatusPub
<1>5. ASSUME NEW i \in 1 .. Len(wire), wire[i].pub > StatusPub PROVE FALSE
  <2>1. wire[i].pub # NoPub
    BY <1>5 DEF StatusPub, NoPub
  <2>2. wire[i].pkid \in Pkids /\ outgoing[wire[i].pkid] = wire[i].pub
    BY <1>2, <2>1, Zenon DEF Core, PacketIds
  <2>3. QED
    BY <1>3, <1>5, <2>2, Zenon
<1>6. PacketIds'
  BY <1>1, <1>2, Zenon DEF Core, PacketIds
<1>7. DeletedOnlyAfterPublished'
  BY <1>1, Zenon DEF Core, DeletedOnlyAfterPublished
<1>8. /\ \A i \in 1 .. Len(writes) : outgoing'[writes[i]] = unwritten[i]
      /\ \A j \in Pkids : written'[j] # NoPub => outgoing'[j] = written'[j]
      /\ \A j \in Pkids : ~(outgoing'[j] > StatusPub)
  BY <1>1, <1>3, Running, Zenon
<1>9. PublishNextOutboxRow(0, outbox', ok) /\ outbox' \subseteq outbox
  BY <1>1, Zenon
<1>b. UNCHANGED <<lastSeq, connected, link, writes, wire, delivered>>
  BY <1>1, Zenon
<1>10. QED
  BY <1>1, <1>2, <1>4, <1>5, <1>6, <1>7, <1>8, <1>9, <1>b, NextRowStep, Zenon

\* note_puback of a row: the Broker has published it, so deleting it is safe,
\* and it was the one row under way.
LEMMA RowAckStep ==
    ASSUME TypeOK, TypeOK', Core, NEW k \in Pkids, NEW d \in BOOLEAN, NEW r \in BOOLEAN,
           NotePubAck(k, d, r), written[k] > StatusPub,
           PubAckOfRow(k, written[k], d, r)
    PROVE  Core'
<1> USE DEF brokerVars
<1>1. /\ phase = "running" /\ PubAckReady(k) /\ TakePubAck(k)
      /\ UNCHANGED <<lastSeq, connected, link, writes, wire, delivered>>
  BY Zenon DEF NotePubAck
<1>2. /\ link = TRUE
      /\ outgoing[k] # NoPub /\ outgoing[k] <= delivered
      /\ \A j \in Pkids : outgoing'[j] = IF j = k THEN NoPub ELSE outgoing[j]
      /\ \A j \in Pkids : written'[j] = IF j = k THEN NoPub ELSE written[j]
      /\ \A i \in 1 .. Len(writes) : writes[i] # k
      /\ PacketIds'
      /\ outgoing[k] > StatusPub => \A i \in 1 .. Len(wire) : ~(wire[i].pub > StatusPub)
  BY <1>1, AckTaken, Zenon
<1>3. outgoing[k] = written[k] /\ inflight = written[k]
  <2>1. written[k] # NoPub
    BY SMTT(30) DEF StatusPub, NoPub
  <2>2. QED
    BY <1>1, <2>1, Running, Zenon
<1>4. \A j \in Pkids : ~(outgoing'[j] > StatusPub)
  <2>1. SUFFICES ASSUME NEW j \in Pkids, outgoing'[j] > StatusPub
                 PROVE  FALSE
    BY Zenon
  <2>2. j # k /\ outgoing'[j] = outgoing[j]
    BY <1>2, <2>1 DEF StatusPub, NoPub
  <2>3. outgoing[j] > StatusPub /\ outgoing[k] > StatusPub
    BY <1>3, <2>1, <2>2, Zenon
  <2>4. QED
    BY <2>2, <2>3, Zenon DEF Core, OneRow
<1>5. \A i \in 1 .. Len(requests) : ~(requests[i].pub > StatusPub)
  <2>1. outgoing[k] > StatusPub
    BY <1>3, Zenon
  <2>2. \A i \in 1 .. Len(requests) : requests[i].pub = StatusPub
    BY <2>1, Zenon DEF Core, OneRow
  <2>3. QED
    BY <2>2 DEF StatusPub
<1>6. \A i \in 1 .. Len(wire) : ~(wire[i].pub > StatusPub)
  BY <1>2, <1>3, Zenon
<1>7. /\ outbox' = outbox \/ outbox' = outbox \ {written[k]}
      /\ PublishNextOutboxRow(0, outbox', r)
  BY <1>3, Zenon DEF PubAckOfRow
<1>8. DeletedOnlyAfterPublished'
  BY <1>1, <1>2, <1>3, <1>7, Zenon DEF Core, DeletedOnlyAfterPublished
<1>9. /\ \A i \in 1 .. Len(writes) : outgoing'[writes[i]] = unwritten[i]
      /\ \A j \in Pkids : written'[j] # NoPub => outgoing'[j] = written'[j]
  BY <1>1, <1>2, Running, Elements, Zenon
<1>10. outbox' \subseteq outbox
  BY <1>7, Zenon
<1>11. QED
  BY <1>1, <1>2, <1>4, <1>5, <1>6, <1>7, <1>8, <1>9, <1>10, NextRowStep, Zenon

-----------------------------------------------------------------------------
(* The steps of rumqttc and of the Broker.                                 *)

\* AppendFacts for the two sequences that WriteRequest appends to.
LEMMA AppendWrites ==
    ASSUME NEW k \in Pkids, writes \in Seq(Pkids), writes' = Append(writes, k)
    PROVE  /\ Len(writes') = Len(writes) + 1 /\ Len(writes) \in Nat
           /\ \A i \in 1 .. Len(writes) : writes'[i] = writes[i]
           /\ writes'[Len(writes) + 1] = k
BY AppendFacts, Zenon

LEMMA AppendWire ==
    ASSUME NEW p \in Packets, wire \in Seq(Packets), wire' = Append(wire, p)
    PROVE  /\ Len(wire') = Len(wire) + 1 /\ Len(wire) \in Nat
           /\ \A i \in 1 .. Len(wire) : wire'[i] = wire[i]
           /\ wire'[Len(wire) + 1] = p
BY AppendFacts, Zenon

\* rumqttc gives the oldest request a free packet id and writes it.
LEMMA WriteStep ==
    ASSUME TypeOK, TypeOK', Core, WriteRequest
    PROVE  Core'
<1> USE DEF dbVars, sessionVars
<1>1. PICK k \in Pkids :
         /\ outgoing[k] = NoPub
         /\ outgoing' = [outgoing EXCEPT ![k] = Head(requests).pub]
         /\ writes' = Append(writes, k)
         /\ wire' = Append(wire, [pkid |-> k, pub |-> Head(requests).pub,
                                  status |-> Head(requests).status])
  BY Zenon DEF WriteRequest
<1>2. /\ requests # <<>> /\ requests' = Tail(requests)
      /\ UNCHANGED <<lastSeq, outbox, phase, connected, unwritten, written, inflight>>
      /\ UNCHANGED <<link, acks, delivered>>
      /\ phase # "down"
  BY Zenon DEF WriteRequest, Polling
<1>3. link = TRUE
  <2>1. link /\ link \in BOOLEAN
    BY Zenon DEF WriteRequest, TypeOK, FlagsOK
  <2>2. QED
    BY <2>1, Zenon
<1>4. /\ Len(requests') = Len(requests) - 1 /\ Len(requests) \in Nat \ {0}
      /\ \A i \in 1 .. Len(requests) - 1 : requests'[i] = requests[i + 1]
      /\ Head(requests) = requests[1] /\ requests[1] \in Messages
  BY <1>2, TailFacts, Zenon DEF TypeOK, ClientOK
<1>5. /\ Len(writes') = Len(writes) + 1 /\ Len(writes) \in Nat
      /\ \A i \in 1 .. Len(writes) : writes'[i] = writes[i]
      /\ writes'[Len(writes) + 1] = k
  <2>1. writes \in Seq(Pkids) /\ k \in Pkids /\ writes' = Append(writes, k)
    BY <1>1, Zenon DEF TypeOK, ClientOK
  <2>2. QED
    BY <2>1, AppendWrites, Zenon
<1> DEFINE p == [pkid |-> k, pub |-> requests[1].pub, status |-> requests[1].status]
<1>6. /\ Len(wire') = Len(wire) + 1 /\ Len(wire) \in Nat
      /\ \A i \in 1 .. Len(wire) : wire'[i] = wire[i]
      /\ wire'[Len(wire) + 1] = p
  <2>1. p \in Packets /\ wire \in Seq(Packets)
    BY <1>4, Zenon DEF Packets, Messages, TypeOK, BrokerOK
  <2>2. wire' = Append(wire, p)
    BY <1>1, <1>4, Zenon
  <2> HIDE DEF p
  <2>3. QED
    BY <2>1, <2>2, AppendWire, Zenon
<1>7. \A j \in Pkids : outgoing'[j] = IF j = k THEN requests[1].pub ELSE outgoing[j]
  BY <1>1, <1>4, Zenon DEF TypeOK, ClientOK
<1>8. requests[1].pub \in Nat /\ 1 \in 1 .. Len(requests)
  BY <1>4, Elements
<1>9. \A i \in 1 .. Len(requests') : i + 1 \in 1 .. Len(requests) /\ requests'[i] = requests[i + 1]
  BY <1>4
<1>10. \A i \in 1 .. Len(wire') :
          \/ i \in 1 .. Len(wire) /\ wire'[i] = wire[i]
          \/ i = Len(wire) + 1 /\ wire'[i] = p
  BY <1>6
<1>11. \A i \in 1 .. Len(wire) :
          wire[i].pub # NoPub => /\ wire[i].pkid \in Pkids \ acks
                                 /\ outgoing[wire[i].pkid] = wire[i].pub
  BY <1>3, Zenon DEF Core, PacketIds
<1>12. OneRow'
  <2>1. ASSUME NEW i \in Pkids, NEW j \in Pkids,
               outgoing'[i] > StatusPub, outgoing'[j] > StatusPub
        PROVE  i = j
    BY <1>7, <1>8, <2>1 DEF Core, OneRow, StatusPub
  <2>2. ASSUME NEW j \in Pkids, NEW i \in 1 .. Len(requests'), outgoing'[j] > StatusPub
        PROVE  requests'[i].pub = StatusPub
    <3>1. i + 1 \in 1 .. Len(requests) /\ requests'[i].pub = requests[i + 1].pub /\ i + 1 # 1
      BY <1>4, <1>9
    <3>2. requests[i + 1].pub \in Nat
      BY <3>1, Elements, Zenon
    <3>3. CASE j = k
      BY <1>7, <1>8, <2>2, <3>1, <3>2, <3>3 DEF Core, OneRow, StatusPub
    <3>4. CASE j # k
      BY <1>7, <2>2, <3>1, <3>4, Zenon DEF Core, OneRow
    <3>5. QED
      BY <3>3, <3>4, Zenon
  <2>3. ASSUME NEW i \in 1 .. Len(requests'), NEW j \in 1 .. Len(requests'),
               requests'[i].pub > StatusPub, requests'[j].pub > StatusPub
        PROVE  i = j
    <3>1. i + 1 = j + 1
      BY <1>9, <2>3, Zenon DEF Core, OneRow
    <3>2. QED
      BY <1>4, <3>1
  <2>4. ASSUME p.pub > StatusPub, NEW i \in 1 .. Len(wire), wire[i].pub > StatusPub
        PROVE  FALSE
    <3>1. wire[i].pub # NoPub
      BY <2>4 DEF StatusPub, NoPub
    <3>2. wire[i].pkid \in Pkids /\ outgoing[wire[i].pkid] > StatusPub
      BY <1>11, <2>4, <3>1, Zenon
    <3>3. requests[1].pub = StatusPub
      BY <1>8, <3>2, Zenon DEF Core, OneRow
    <3>4. QED
      BY <2>4, <3>3 DEF StatusPub
  <2>5. ASSUME NEW i \in 1 .. Len(wire'), NEW j \in 1 .. Len(wire'),
               wire'[i].pub > StatusPub, wire'[j].pub > StatusPub
        PROVE  i = j
    BY <1>10, <2>4, <2>5, Zenon DEF Core, OneRow
  <2>6. QED
    BY <2>1, <2>2, <2>3, <2>5, Zenon DEF OneRow
<1>13. PacketIds'
  <2>1. k \notin acks
    BY <1>1, Zenon DEF Core, PacketIds
  <2>2. p.pub # NoPub /\ p.pkid = k /\ p.pub = requests[1].pub
    BY <1>8 DEF NoPub
  <2>3. ASSUME NEW i \in 1 .. Len(wire), wire[i].pub # NoPub
        PROVE  wire[i].pkid # k /\ wire[i].pkid \in Pkids \ acks
                 /\ outgoing'[wire[i].pkid] = wire[i].pub
    BY <1>1, <1>7, <1>11, <2>3, Zenon
  <2>4. ASSUME NEW i \in 1 .. Len(wire'), NEW j \in 1 .. Len(wire'),
               wire'[i].pub # NoPub, wire'[j].pub # NoPub, wire'[i].pkid = wire'[j].pkid
        PROVE  i = j
    BY <1>10, <2>2, <2>3, <2>4, SMTT(30) DEF Core, PacketIds
  <2>5. ASSUME NEW i \in 1 .. Len(wire'), wire'[i].pub # NoPub
        PROVE  wire'[i].pkid \in Pkids \ acks /\ outgoing'[wire'[i].pkid] = wire'[i].pub
    <3>1. CASE i \in 1 .. Len(wire) /\ wire'[i] = wire[i]
      BY <2>3, <2>5, <3>1, Zenon
    <3>2. CASE wire'[i] = p
      BY <1>7, <2>1, <2>2, <3>2, Zenon
    <3>3. QED
      BY <1>10, <2>5, <3>1, <3>2, Zenon
  <2>6. \A j \in acks : outgoing'[j] # NoPub /\ outgoing'[j] <= delivered
    BY <1>7, <2>1, Elements, Zenon DEF Core, PacketIds
  <2>7. UNCHANGED <<acks, delivered>> /\ link'
    BY <1>2, <1>3, Zenon
  <2>8. QED
    BY <2>4, <2>5, <2>6, <2>7, Zenon DEF PacketIds
<1>14. RowOrder' /\ DeletedOnlyAfterPublished'
  <2>1. UNCHANGED <<lastSeq, outbox, delivered>>
    BY <1>2, Zenon
  <2>2. ASSUME NEW i \in 1 .. Len(requests'), requests'[i].pub > StatusPub
        PROVE  UnderWay(requests'[i].pub)
    BY <1>9, <2>2, Zenon DEF Core, RowOrder
  <2>3. ASSUME NEW i \in 1 .. Len(wire'), wire'[i].pub > StatusPub
        PROVE  UnderWay(wire'[i].pub)
    <3>1. CASE i \in 1 .. Len(wire) /\ wire'[i] = wire[i]
      BY <2>3, <3>1, Zenon DEF Core, RowOrder
    <3>2. CASE i = Len(wire) + 1 /\ wire'[i] = p
      <4>1. wire'[i].pub = requests[1].pub
        BY <3>2, SMTT(30)
      <4>2. QED
        BY <1>8, <2>3, <4>1, Zenon DEF Core, RowOrder
    <3>3. QED
      BY <1>10, <3>1, <3>2, Zenon
  <2>4. RowOrder'
    BY <2>1, <2>2, <2>3, Zenon DEF Core, RowOrder, UnderWay
  <2>5. QED
    BY <2>1, <2>4, Zenon DEF Core, DeletedOnlyAfterPublished
<1>15. Attribution'
  <2>1. CASE phase # "running"
    BY <1>2, <2>1, Zenon DEF Attribution
  <2>2. CASE phase = "running"
    <3>1. ASSUME NEW i \in 1 .. Len(writes') PROVE outgoing'[writes'[i]] = unwritten[i]
      <4>1. CASE i \in 1 .. Len(writes)
        <5>1. outgoing[writes[i]] = unwritten[i] /\ unwritten[i] \in Nat /\ writes[i] \in Pkids
          BY <2>2, <4>1, Running, Elements, SMTT(30)
        <5>2. writes[i] # k
          BY <1>1, <5>1, SMTT(30) DEF NoPub
        <5>3. QED
          BY <1>5, <1>7, <4>1, <5>1, <5>2, Zenon
      <4>2. CASE i = Len(writes) + 1
        <5>1. unwritten[Len(writes) + 1] = requests[1].pub
          BY <1>8, <2>2, Running, Zenon
        <5>2. QED
          BY <1>5, <1>7, <4>2, <5>1, Zenon
      <4>3. QED
        BY <1>5, <4>1, <4>2, SMTT(30)
    <3>2. ASSUME NEW i \in 1 .. Len(requests')
          PROVE  unwritten[Len(writes') + i] = requests'[i].pub
      <4>1. Len(writes') + i = Len(writes) + (i + 1)
        BY <1>4, <1>5
      <4>2. i + 1 \in 1 .. Len(requests) /\ requests'[i] = requests[i + 1]
        BY <1>9, Zenon
      <4>3. unwritten[Len(writes) + (i + 1)] = requests[i + 1].pub
        BY <2>2, <4>2, Running, Zenon
      <4>4. QED
        BY <4>1, <4>2, <4>3, Zenon
    <3>3. Len(unwritten) = Len(writes') + Len(requests')
      <4>1. Len(unwritten) = Len(writes) + Len(requests)
        BY <2>2, Running, Zenon
      <4>2. QED
        BY <1>4, <1>5, <4>1
    <3>4. \A j \in Pkids : written[j] # NoPub => outgoing'[j] = written[j]
      BY <1>1, <1>7, <2>2, Running, Zenon
    <3>5. \A j \in Pkids : outgoing'[j] > StatusPub => inflight = outgoing'[j]
      BY <1>7, <1>8, <2>2, Running, Zenon
    <3>6. \A i \in 1 .. Len(requests') : requests'[i].pub > StatusPub => inflight = requests'[i].pub
      <4>1. \A i \in 1 .. Len(requests) :
                requests[i].pub > StatusPub => inflight = requests[i].pub
        BY <2>2, Running, Zenon
      <4>2. QED
        BY <1>9, <4>1, Zenon
    <3>7. connected' = link' /\ phase' = "running"
      BY <1>2, <2>2, Running, Zenon
    <3>8. UNCHANGED <<unwritten, written, inflight>>
      BY <1>2, Zenon
    <3>9. QED
      BY <3>1, <3>2, <3>3, <3>4, <3>5, <3>6, <3>7, <3>8, Zenon DEF Attribution
  <2>3. QED
    BY <2>1, <2>2, Zenon
<1>16. QED
  BY <1>12, <1>13, <1>14, <1>15, Zenon DEF Core

\* What the Broker has not read goes away with the connection.
LEMMA WireDropped ==
    ASSUME Core, wire' = <<>>,
           UNCHANGED <<lastSeq, outbox, phase, connected, unwritten, written, inflight>>,
           UNCHANGED <<link, requests, outgoing, writes, acks, delivered>>
    PROVE  Core'
<1>1. /\ lastSeq' = lastSeq /\ outbox' = outbox /\ requests' = requests
      /\ outgoing' = outgoing /\ acks' = acks /\ delivered' = delivered
  BY Zenon
<1>2. \A i \in 1 .. Len(wire') : FALSE
  <2>1. Len(wire') = 0
    BY Zenon
  <2>2. QED
    BY <2>1
<1>3. Attribution' /\ DeletedOnlyAfterPublished'
  BY Zenon DEF Core, Attribution, DeletedOnlyAfterPublished
<1>4. OneRow'
  BY <1>1, <1>2, Zenon DEF Core, OneRow
<1>5. PacketIds'
  BY <1>2, Zenon DEF Core, PacketIds
<1>6. RowOrder'
  <2>1. ASSUME NEW n, UnderWay(n) PROVE UnderWay(n)'
    BY <1>1, <2>1, Zenon DEF UnderWay
  <2>2. QED
    BY <1>1, <1>2, <2>1, Zenon DEF Core, RowOrder
<1>7. QED
  BY <1>3, <1>4, <1>5, <1>6, Zenon DEF Core

\* The Broker publishes the packet at the head of the wire; if it is a row, it
\* is the only one under way, and no row of the table is older.
LEMMA ReceiveStep ==
    ASSUME TypeOK, TypeOK', Core, BrokerReceive
    PROVE  Core'
<1> USE DEF dbVars, sessionVars
<1>1. /\ wire # <<>>
      /\ UNCHANGED <<lastSeq, outbox, phase, connected, unwritten, written, inflight>>
      /\ UNCHANGED <<link, requests, outgoing, writes>>
  BY Zenon DEF BrokerReceive
<1>2. Attribution'
  BY <1>1, Zenon DEF Core, Attribution
<1>3. CASE Head(wire).pub = NoPub
  <2>1. wire' = <<>> /\ UNCHANGED <<delivered, acks>>
    BY <1>3, Zenon DEF BrokerReceive
  <2>2. QED
    BY <1>1, <2>1, WireDropped, Zenon
<1>4. CASE Head(wire).pub # NoPub
  <2>1. /\ Len(wire') = Len(wire) - 1 /\ Len(wire) \in Nat \ {0}
        /\ \A i \in 1 .. Len(wire) - 1 : wire'[i] = wire[i + 1]
        /\ Head(wire) = wire[1] /\ 1 \in 1 .. Len(wire)
    <3>1. wire' = Tail(wire)
      BY <1>4, Zenon DEF BrokerReceive
    <3>2. QED
      BY <1>1, <3>1, TailFacts DEF TypeOK, BrokerOK
  <2>2. \A i \in 1 .. Len(wire') : i + 1 \in 1 .. Len(wire) /\ i + 1 # 1 /\ wire'[i] = wire[i + 1]
    BY <2>1
  <2>3. /\ wire[1].pub = StatusPub => delivered' = delivered
        /\ wire[1].pub # StatusPub => delivered' = wire[1].pub
    BY <1>4, <2>1, Zenon DEF BrokerReceive
  <2>4. acks' = acks \/ (link /\ acks' = acks \cup {wire[1].pkid})
    <3>1. acks' = IF link THEN acks \cup {Head(wire).pkid} ELSE acks
      BY <1>4, Zenon DEF BrokerReceive
    <3>2. Head(wire) = wire[1]
      BY <2>1, Zenon
    <3>3. QED
      BY <3>1, <3>2, Zenon
  <2>5. wire[1].pub \in Nat
    BY <1>4, <2>1, Elements, Zenon DEF NoPub
  <2>6. delivered <= delivered' /\ delivered' \in Nat /\ wire[1].pub <= delivered'
    <3>1. delivered \in Nat
      BY Elements, Zenon
    <3>2. CASE wire[1].pub = StatusPub
      BY <2>3, <3>1, <3>2 DEF StatusPub
    <3>3. CASE wire[1].pub # StatusPub
      <4>1. wire[1].pub > StatusPub
        BY <2>5, <3>3 DEF StatusPub
      <4>2. delivered <= wire[1].pub
        BY <2>1, <4>1, Zenon DEF Core, RowOrder, UnderWay
      <4>3. QED
        BY <2>3, <2>5, <3>3, <4>2
    <3>4. QED
      BY <3>2, <3>3, Zenon
  <2>7. OneRow'
    <3>1. ASSUME NEW i \in 1 .. Len(wire'), NEW j \in 1 .. Len(wire'),
                 wire'[i].pub > StatusPub, wire'[j].pub > StatusPub
          PROVE  i = j
      <4>1. i + 1 = j + 1
        BY <2>2, <3>1, Zenon DEF Core, OneRow
      <4>2. QED
        BY <2>1, <4>1
    <3>2. QED
      BY <1>1, <3>1, Zenon DEF Core, OneRow
  <2>8. PacketIds'
    <3>1. ASSUME NEW i \in 1 .. Len(wire'), NEW j \in 1 .. Len(wire'),
                 wire'[i].pub # NoPub, wire'[j].pub # NoPub, wire'[i].pkid = wire'[j].pkid
          PROVE  i = j
      <4>1. i + 1 = j + 1
        <5>1. /\ i + 1 \in 1 .. Len(wire) /\ j + 1 \in 1 .. Len(wire)
              /\ wire[i + 1].pub # NoPub /\ wire[j + 1].pub # NoPub
              /\ wire[i + 1].pkid = wire[j + 1].pkid
          BY <2>2, <3>1, Zenon
        <5>2. QED
          BY <5>1, Zenon DEF Core, PacketIds
      <4>2. QED
        BY <2>1, <4>1
    <3>2. ASSUME NEW i \in 1 .. Len(wire'), wire'[i].pub # NoPub
          PROVE  /\ wire'[i].pkid \in Pkids \ acks'
                 /\ link => outgoing[wire'[i].pkid] = wire'[i].pub
      <4>1. /\ wire'[i].pkid \in Pkids \ acks
            /\ link => outgoing[wire'[i].pkid] = wire'[i].pub
        <5>1. i + 1 \in 1 .. Len(wire) /\ wire[i + 1] = wire'[i]
          BY <2>2, Zenon
        <5>2. wire[i + 1].pub # NoPub
          BY <3>2, <5>1, Zenon
        <5>3. QED
          BY <5>1, <5>2, Zenon DEF Core, PacketIds
      <4>2. wire'[i].pkid # wire[1].pkid
        <5>1. i + 1 \in 1 .. Len(wire) /\ i + 1 # 1 /\ wire[i + 1] = wire'[i]
          BY <2>2, Zenon
        <5>2. wire[i + 1].pub # NoPub /\ wire[1].pub # NoPub /\ 1 \in 1 .. Len(wire)
          BY <1>4, <2>1, <3>2, <5>1, Zenon
        <5>3. QED
          BY <5>1, <5>2, Zenon DEF Core, PacketIds
      <4>3. QED
        BY <2>4, <4>1, <4>2, Zenon
    <3>3. ASSUME NEW j \in acks'
          PROVE  outgoing[j] # NoPub /\ outgoing[j] <= delivered'
      <4>1. CASE j \in acks
        <5>1. outgoing[j] # NoPub /\ outgoing[j] <= delivered /\ outgoing[j] \in Nat \cup {-1}
          BY <4>1, Elements, Zenon DEF Core, PacketIds
        <5>2. QED
          BY <2>6, <5>1, Elements
      <4>2. CASE link /\ j = wire[1].pkid
        <5>1. outgoing[j] = wire[1].pub
          BY <1>4, <2>1, <4>2, Zenon DEF Core, PacketIds
        <5>2. QED
          BY <1>4, <2>1, <2>6, <5>1, Zenon
      <4>3. QED
        BY <2>4, <3>3, <4>1, <4>2, Zenon
    <3>4. ~link => acks' = {}
      BY <2>4, Zenon DEF Core, PacketIds
    <3>5. ~link => requests = <<>> /\ writes = <<>> /\ outgoing = NoneWritten
      BY Zenon DEF Core, PacketIds
    <3>6. QED
      BY <1>1, <3>1, <3>2, <3>3, <3>4, <3>5, Zenon DEF PacketIds
  <2>9. RowOrder'
    <3>1. CASE wire[1].pub = StatusPub
      <4>1. UNCHANGED <<delivered, lastSeq, outbox, requests>>
        BY <1>1, <2>3, <3>1, Zenon
      <4>2. ASSUME NEW i \in 1 .. Len(wire'), wire'[i].pub > StatusPub
            PROVE  UnderWay(wire'[i].pub)
        BY <2>2, <4>2, Zenon DEF Core, RowOrder
      <4>3. QED
        BY <4>1, <4>2, Zenon DEF Core, RowOrder, UnderWay
    <3>2. CASE wire[1].pub > StatusPub
      <4>1. delivered' = wire[1].pub
        BY <2>3, <3>2 DEF StatusPub
      <4>2. ASSUME NEW i \in 1 .. Len(wire'), wire'[i].pub > StatusPub PROVE FALSE
        BY <2>1, <2>2, <3>2, <4>2, Zenon DEF Core, OneRow
      <4>3. ASSUME NEW i \in 1 .. Len(requests), requests[i].pub > StatusPub PROVE FALSE
        <5>1. CASE link
          <6>1. wire[1].pkid \in Pkids /\ outgoing[wire[1].pkid] = wire[1].pub
            BY <1>4, <2>1, <5>1, Zenon DEF Core, PacketIds
          <6>2. requests[i].pub = StatusPub
            BY <3>2, <6>1, Zenon DEF Core, OneRow
          <6>3. QED
            BY <4>3, <6>2, SMTT(30) DEF StatusPub
        <5>2. CASE ~link
          <6>1. requests = <<>>
            BY <5>2, Zenon DEF Core, PacketIds
          <6>2. QED
            BY <6>1, SMTT(30)
        <5>3. QED
          BY <5>1, <5>2, Zenon
      <4>4. delivered' <= lastSeq /\ \A m \in outbox : delivered' <= m
        BY <2>1, <3>2, <4>1, Zenon DEF Core, RowOrder, UnderWay
      <4>5. QED
        BY <1>1, <4>2, <4>3, <4>4, Zenon DEF RowOrder
    <3>3. QED
      BY <2>5, <3>1, <3>2 DEF StatusPub
  <2>10. DeletedOnlyAfterPublished'
    <3>1. SUFFICES ASSUME NEW n \in 1 .. lastSeq, n \notin outbox
                   PROVE  n <= delivered'
      BY <1>1, Zenon DEF DeletedOnlyAfterPublished
    <3>2. n <= delivered
      BY <3>1, Zenon DEF Core, DeletedOnlyAfterPublished
    <3>3. QED
      BY <2>6, <3>2, Elements
  <2>11. QED
    BY <1>2, <2>7, <2>8, <2>9, <2>10, Zenon DEF Core
<1>5. QED
  BY <1>3, <1>4, Zenon

\* The Broker forgets what it has not read.
LEMMA CloseStep ==
    ASSUME Core, BrokerClose
    PROVE  Core'
BY WireDropped, Zenon DEF BrokerClose, dbVars, sessionVars, clientVars

\* The handlers of the loop and the steps of the shutdown.
LEMMA SessionCore ==
    ASSUME TypeOK, TypeOK', Core, SessionStep
    PROVE  Core'
<1> USE DEF dbVars, sessionVars, clientVars, brokerVars
<1>0. FaultsTypeOK /\ Heartbeat \in Payloads /\ Offline \in Payloads
  BY PayloadType, Zenon DEF TypeOK
<1>1. ASSUME NEW ok \in BOOLEAN, ProbeOutbox(ok) PROVE Core'
  BY <1>1, ProbeStep, Zenon
<1>2. CASE HeartbeatTick \/ FaultChanged
  <2>1. /\ phase = "running" /\ connected
        /\ Publish(StatusMsg(Heartbeat), TRUE)
        /\ UNCHANGED <<dbVars, connected, written, inflight, link, outgoing, writes, acks>>
        /\ UNCHANGED <<wire, delivered>>
    BY <1>2, Zenon DEF HeartbeatTick, FaultChanged
  <2>2. link = TRUE
    <3>1. connected = link /\ link \in BOOLEAN
      BY <2>1, Running, Zenon DEF TypeOK, FlagsOK
    <3>2. QED
      BY <2>1, <3>1, Zenon
  <2>3. UNCHANGED <<dbVars, link, outgoing, writes, acks, wire, delivered>>
    BY <2>1, Zenon
  <2>4. CASE Len(requests) < RequestCap
    <3>1. /\ requests' = Append(requests, StatusMsg(Heartbeat))
          /\ unwritten' = Append(unwritten, StatusPub)
          /\ phase' = "running"
      BY <2>1, <2>4, Zenon DEF Publish, StatusMsg
    <3>2. UNCHANGED <<connected, written, inflight>>
      BY <2>1, Zenon
    <3>3. QED
      BY <1>0, <2>1, <2>2, <2>3, <3>1, <3>2, StatusQueued, Zenon
  <2>5. CASE ~(Len(requests) < RequestCap)
    <3>1. phase' = "blocked" /\ UNCHANGED requests
      BY <2>1, <2>5, Zenon DEF Publish
    <3>2. UNCHANGED <<dbVars, clientVars, wire, delivered>>
      BY <2>3, <3>1, Zenon
    <3>3. QED
      BY <3>1, <3>2, QuietStep, Zenon
  <2>6. QED
    BY <2>4, <2>5, Zenon
<1>3. CASE NotePacketWritten
  BY <1>3, PacketWrittenStep, Zenon
<1>4. ASSUME NEW k \in Pkids, NEW d \in BOOLEAN, NEW r \in BOOLEAN, NotePubAck(k, d, r)
      PROVE  Core'
  <2>1. CASE written[k] > StatusPub /\ PubAckOfRow(k, written[k], d, r)
    BY <1>4, <2>1, RowAckStep, Zenon
  <2>2. CASE PubAckOfOther
    <3>1. /\ phase = "running" /\ PubAckReady(k) /\ TakePubAck(k)
          /\ UNCHANGED <<lastSeq, outbox, link, writes, requests, wire, delivered>>
          /\ UNCHANGED <<phase, connected, unwritten, inflight>>
      BY <1>4, <2>2, Zenon DEF NotePubAck, PubAckOfOther, NothingPublished
    <3>2. QED
      BY <3>1, OtherAckStep, Zenon
  <2>3. QED
    BY <1>4, <2>1, <2>2, Zenon DEF NotePubAck
<1>5. ASSUME NEW ok \in BOOLEAN, ConnAck(ok) PROVE Core'
  BY <1>5, ConnAckStep, Zenon
<1>6. CASE ConnectionLost
  <2>1. /\ ClientCleared /\ UNCHANGED <<dbVars, delivered>> /\ wire' = wire
        /\ connected' = FALSE /\ unwritten' = <<>> /\ written' = NoneWritten
    BY <1>6, Zenon DEF ConnectionLost
  <2>2. QED
    BY <2>1, ClearedStep, Zenon
<1>7. CASE Shutdown
  <2>1. CASE ~connected
    <3>1. /\ ClientCleared /\ UNCHANGED <<dbVars, delivered>> /\ wire' = wire
          /\ phase' # "running"
      BY <1>7, <2>1, Zenon DEF Shutdown
    <3>2. QED
      BY <3>1, ClearedStep, Zenon
  <2>2. CASE connected
    <3>1. UNCHANGED <<dbVars, link, outgoing, writes, acks, wire, delivered>>
      BY <1>7, <2>2, Zenon DEF Shutdown
    <3>2. link = TRUE
      <4>1. phase = "running"
        BY <1>7, Zenon DEF Shutdown
      <4>2. connected = link /\ link \in BOOLEAN
        BY <4>1, Running, Zenon DEF TypeOK, FlagsOK
      <4>3. QED
        BY <2>2, <4>2, Zenon
    <3>3. CASE Len(requests) < RequestCap
      <4>1. requests' = Append(requests, StatusMsg(Offline)) /\ phase' = "offline"
        BY <1>7, <2>2, <3>3, Zenon DEF Shutdown
      <4>2. QED
        BY <1>0, <3>1, <3>2, <4>1, StatusQueued, Zenon
    <3>4. CASE ~(Len(requests) < RequestCap)
      <4>1. phase' = "blocked" /\ UNCHANGED requests
        BY <1>7, <2>2, <3>4, Zenon DEF Shutdown
      <4>2. UNCHANGED <<dbVars, clientVars, wire, delivered>>
        BY <3>1, <4>1, Zenon
      <4>3. QED
        BY <4>1, <4>2, QuietStep, Zenon
    <3>5. QED
      BY <3>3, <3>4, Zenon
  <2>3. QED
    BY <2>1, <2>2, Zenon
<1>8. ASSUME NEW k \in Pkids, OfflinePubAck(k) PROVE Core'
  <2>1. /\ PubAckReady(k) /\ TakePubAck(k)
        /\ UNCHANGED <<lastSeq, outbox, link, writes, requests, wire, delivered>>
    BY <1>8, Zenon DEF OfflinePubAck
  <2>2. phase' # "running" /\ phase' # "down"
    BY <1>8, Zenon DEF OfflinePubAck, Disconnect
  <2>3. QED
    BY <2>1, <2>2, OtherAckStep, Zenon
<1>9. CASE OfflineTimeout
  <2>1. UNCHANGED <<dbVars, clientVars, wire, delivered>>
    BY <1>9, Zenon DEF OfflineTimeout
  <2>2. phase' # "running" /\ phase' # "down"
    BY <1>9, Zenon DEF OfflineTimeout, Disconnect
  <2>3. QED
    BY <2>1, <2>2, QuietStep, Zenon
<1>10. CASE OfflineConnectionLost \/ DisconnectWritten \/ ClosingEnds
  <2>1. /\ ClientCleared /\ UNCHANGED <<dbVars, delivered>>
        /\ wire' = wire \/ wire' = Append(wire, DisconnectPacket)
    BY <1>10, Zenon DEF OfflineConnectionLost, DisconnectWritten, ClosingEnds
  <2>2. phase' # "running"
    BY <1>10, Zenon DEF OfflineConnectionLost, DisconnectWritten, ClosingEnds, Disconnect
  <2>3. QED
    BY <2>1, <2>2, ClearedStep, Zenon
<1>11. CASE ClosingReconnect
  BY <1>11, ReconnectStep, Zenon
<1>12. QED
  BY <1>1, <1>2, <1>3, <1>4, <1>5, <1>6, <1>7, <1>8, <1>9, <1>10, <1>11, Zenon DEF SessionStep

\* Every step preserves the invariant.
LEMMA CoreStep ==
    ASSUME TypeOK, Core, [Next]_vars
    PROVE  Core'
<1> USE DEF dbVars, sessionVars, clientVars, brokerVars
<1>0. TypeOK'
  BY TypeStep, Zenon
<1>1. CASE Enqueue
  BY <1>1, EnqueueStep, Zenon
<1>2. CASE SessionStep
  BY <1>0, <1>2, SessionCore, Zenon
<1>3. CASE Crash
  <2>1. /\ ClientCleared /\ UNCHANGED <<dbVars, delivered>> /\ wire' = wire
    BY <1>3, Zenon DEF Crash
  <2>2. phase' # "running"
    BY <1>3, Zenon DEF Crash
  <2>3. QED
    BY <2>1, <2>2, ClearedStep, Zenon
<1>4. CASE Restart
  <2>1. /\ phase = "down" /\ connected' = FALSE /\ unwritten' = <<>>
        /\ written' = NoneWritten /\ wire' = wire
        /\ UNCHANGED <<dbVars, delivered, link, requests, outgoing, writes, acks>>
    BY <1>4, Zenon DEF Restart
  <2>2. ~link /\ link \in BOOLEAN
    BY <2>1, Zenon DEF Core, Attribution, TypeOK, FlagsOK
  <2>3. /\ requests = <<>> /\ writes = <<>> /\ acks = {} /\ outgoing = NoneWritten
        /\ link = FALSE
    BY <2>2, Zenon DEF Core, PacketIds
  <2>4. ClientCleared
    BY <2>1, <2>3, Zenon DEF ClientCleared
  <2>5. QED
    BY <2>1, <2>4, ClearedStep, Zenon
<1>5. CASE FaultStep \/ UNCHANGED vars
  <2>1. UNCHANGED <<dbVars, clientVars, sessionVars, wire, delivered>>
    BY <1>5, Zenon DEF FaultStep, vars
  <2>2. UNCHANGED sessionVars
    BY <2>1, Zenon
  <2>3. UNCHANGED <<dbVars, clientVars, wire, delivered>>
    BY <2>1, Zenon
  <2>4. QED
    BY <2>2, <2>3, QuietStep, Zenon
<1>6. CASE WriteRequest
  BY <1>0, <1>6, WriteStep, Zenon
<1>7. CASE BrokerReceive
  BY <1>0, <1>7, ReceiveStep, Zenon
<1>8. CASE BrokerClose
  BY <1>8, CloseStep, Zenon
<1>9. QED
  BY <1>1, <1>2, <1>3, <1>4, <1>5, <1>6, <1>7, <1>8, Zenon DEF Next

-----------------------------------------------------------------------------
(* Theorems.                                                               *)

\* The bookkeeping of the session agrees with rumqttc, at most one row is
\* under way, and rows are under way in order: an invariant of every
\* interleaving of session, rumqttc, Broker, database writers and crashes.
THEOREM Bookkeeping == Spec => []AdapterInvariant
<1>1. Init => TypeOK /\ Core
  BY InitType, InitCore, Zenon
<1>2. TypeOK /\ Core /\ [Next]_vars => (TypeOK /\ Core)'
  BY TypeStep, CoreStep, Zenon
<1>3. TypeOK /\ Core => AdapterInvariant
  BY Zenon DEF Core, AdapterInvariant
<1>4. QED
  BY <1>1, <1>2, <1>3, PTL DEF Spec

\* A row leaves the outbox only after the Broker has published it: no loss of
\* connection, failed statement, crash or shutdown makes an Observation vanish.
THEOREM NoObservationLost == Spec => []DeletedOnlyAfterPublished
<1>1. AdapterInvariant => DeletedOnlyAfterPublished
  BY Zenon DEF AdapterInvariant
<1>2. QED
  BY <1>1, Bookkeeping, PTL

\* A set of positions on which any two agree has at most one element.
LEMMA AtMostOne ==
    ASSUME NEW S, \A i, j \in S : i = j
    PROVE  Cardinality(S) \in {0, 1} /\ (Cardinality(S) = 1 => S # {})
<1> DEFINE F(f) == [T \in SUBSET S |-> IF T = {} THEN 0 ELSE 1 + f[T \ {CHOOSE x : x \in T}]]
           CS == CHOOSE f : f = F(f)
           g == [T \in SUBSET S |-> IF T = {} THEN 0 ELSE 1]
<1>1. Cardinality(S) = CS[S]
  BY Zenon DEF Cardinality
<1>2. ASSUME NEW T \in SUBSET S, T # {}
      PROVE  T \ {CHOOSE x : x \in T} = {}
  <2>1. (CHOOSE x : x \in T) \in T
    BY <1>2
  <2>2. QED
    BY <2>1
<1>3. g = F(g)
  <2>1. ASSUME NEW T \in SUBSET S
        PROVE  g[T] = IF T = {} THEN 0 ELSE 1 + g[T \ {CHOOSE x : x \in T}]
    <3>1. CASE T = {}
      BY <3>1
    <3>2. CASE T # {}
      <4>1. g[T] = 1 /\ g[{}] = 0
        BY <3>2
      <4>2. g[T \ {CHOOSE x : x \in T}] = 0
        BY <1>2, <3>2, <4>1
      <4>3. QED
        BY <3>2, <4>1, <4>2
    <3>3. QED
      BY <3>1, <3>2
  <2>2. QED
    BY <2>1, Zenon
<1>4. CS = F(CS)
  BY <1>3, Zenon
<1> HIDE DEF CS
<1>5. \A T \in SUBSET S : CS[T] = IF T = {} THEN 0 ELSE 1 + CS[T \ {CHOOSE x : x \in T}]
  BY <1>4, Zenon
<1>6. CS[{}] = 0
  BY <1>5
<1>7. CASE S = {}
  BY <1>1, <1>6, <1>7
<1>8. CASE S # {}
  <2>1. CS[S] = 1 + CS[S \ {CHOOSE x : x \in S}]
    BY <1>5, <1>8
  <2>2. S \ {CHOOSE x : x \in S} = {}
    BY <1>2, <1>8
  <2>3. QED
    BY <1>1, <1>6, <1>8, <2>1, <2>2
<1>9. QED
  BY <1>7, <1>8

\* At most one outbox row is between the session and the Broker.
THEOREM OneRowUnderWay == Spec => []OneInFlight
<1>1. ASSUME AdapterInvariant PROVE OneInFlight
  <2>1. TypeOK /\ OneRow /\ PacketIds
    BY <1>1, Zenon DEF AdapterInvariant
  <2>2. \A i, j \in RowsIn(requests) : i = j
    BY <2>1, Zenon DEF OneRow, RowsIn
  <2>3. \A i, j \in RowsIn(wire) : i = j
    BY <2>1, Zenon DEF OneRow, RowsIn
  <2>4. ASSUME NEW i \in RowsIn(requests), NEW j \in RowsIn(wire) PROVE FALSE
    <3>1. i \in 1 .. Len(requests) /\ requests[i].pub > StatusPub
      BY <2>4, Zenon DEF RowsIn
    <3>2. j \in 1 .. Len(wire) /\ wire[j].pub > StatusPub /\ wire[j].pub # NoPub
      BY <2>4 DEF RowsIn, StatusPub, NoPub
    <3>3. link
      BY <2>1, <3>1 DEF PacketIds
    <3>4. wire[j].pkid \in Pkids /\ outgoing[wire[j].pkid] = wire[j].pub
      BY <2>1, <3>2, <3>3, Zenon DEF PacketIds
    <3>5. requests[i].pub = StatusPub
      BY <2>1, <3>1, <3>2, <3>4, Zenon DEF OneRow
    <3>6. QED
      BY <3>1, <3>5 DEF StatusPub
  <2>5. /\ Cardinality(RowsIn(requests)) \in {0, 1} /\ Cardinality(RowsIn(wire)) \in {0, 1}
        /\ Cardinality(RowsIn(requests)) = 1 => RowsIn(requests) # {}
        /\ Cardinality(RowsIn(wire)) = 1 => RowsIn(wire) # {}
    BY <2>2, <2>3, AtMostOne, Zenon
  <2>6. RowsIn(requests) = {} \/ RowsIn(wire) = {}
    BY <2>4, Zenon
  <2>7. QED
    BY <2>5, <2>6 DEF OneInFlight
<1>2. QED
  BY <1>1, Bookkeeping, PTL

\* A step of the adapter is a step of the delivery contract, or none.
LEMMA DeliveryStep ==
    ASSUME AdapterInvariant, [Next]_vars
    PROVE  [Delivery!Insert \/ Delivery!Deliver \/ Delivery!Release]_<<lastSeq, outbox, delivered>>
<1> USE DEF dbVars, sessionVars, clientVars, brokerVars
<1>0. TypeOK /\ Core
  BY Zenon DEF AdapterInvariant, Core
<1> DEFINE Goal == [Delivery!Insert \/ Delivery!Deliver \/ Delivery!Release]_<<lastSeq, outbox, delivered>>
<1>1. CASE Enqueue
  BY <1>1, Zenon DEF Enqueue, Delivery!Insert
<1>2. ASSUME UNCHANGED <<lastSeq, outbox, delivered>> PROVE Goal
  BY <1>2, Zenon
<1>3. CASE BrokerReceive
  <2>1. UNCHANGED <<lastSeq, outbox>> /\ wire # <<>>
    BY <1>3, Zenon DEF BrokerReceive
  <2>2. CASE delivered' = delivered
    BY <1>2, <2>1, <2>2, Zenon
  <2>3. CASE delivered' # delivered
    <3>1. delivered' = Head(wire).pub /\ Head(wire).pub # NoPub /\ Head(wire).pub # StatusPub
      BY <1>3, <2>3, Zenon DEF BrokerReceive
    <3>2. Head(wire) = wire[1] /\ 1 \in 1 .. Len(wire)
      BY <1>0, <2>1, TailFacts DEF TypeOK, BrokerOK
    <3>3. wire[1].pub \in Nat /\ wire[1].pub > StatusPub
      BY <1>0, <3>1, <3>2, Elements DEF StatusPub, NoPub
    <3>4. /\ delivered' <= lastSeq /\ delivered <= delivered'
          /\ \A m \in outbox : delivered' <= m
      BY <1>0, <3>1, <3>2, <3>3, Zenon DEF Core, RowOrder, UnderWay
    <3>5. delivered < delivered' /\ delivered \in Nat /\ lastSeq \in Nat /\ delivered' \in Nat
      BY <1>0, <2>3, <3>1, <3>2, <3>3, <3>4, Elements
    <3>6. delivered' = delivered + 1
      <4>1. CASE delivered + 1 < delivered'
        <5>1. delivered + 1 \in 1 .. lastSeq /\ delivered + 1 \notin outbox
          BY <3>4, <3>5, <4>1
        <5>2. delivered + 1 <= delivered
          BY <1>0, <5>1, Zenon DEF Core, DeletedOnlyAfterPublished
        <5>3. QED
          BY <3>5, <5>2
      <4>2. QED
        BY <3>5, <4>1
    <3>7. QED
      BY <2>1, <3>4, <3>5, <3>6 DEF Delivery!Deliver
  <2>4. QED
    BY <2>2, <2>3, Zenon
<1>4. ASSUME NEW k \in Pkids, NEW d \in BOOLEAN, NEW r \in BOOLEAN, NotePubAck(k, d, r)
      PROVE  Goal
  <2>1. UNCHANGED <<lastSeq, delivered>>
    BY <1>4, Zenon DEF NotePubAck
  <2>2. CASE outbox' = outbox
    BY <1>2, <2>1, <2>2, Zenon
  <2>3. CASE outbox' # outbox
    <3>1. written[k] > StatusPub /\ PubAckOfRow(k, written[k], d, r)
      BY <1>4, <2>3, Zenon DEF NotePubAck, PubAckOfOther
    <3>2. outbox' = outbox \ {written[k]}
      BY <2>3, <3>1, Zenon DEF PubAckOfRow
    <3>3. written[k] \in outbox
      BY <2>3, <3>2, Zenon
    <3>4. written[k] <= delivered
      <4>1. phase = "running" /\ k \in acks /\ written[k] # NoPub
        BY <1>4, <3>1 DEF NotePubAck, PubAckReady, StatusPub, NoPub
      <4>2. outgoing[k] = written[k]
        BY <1>0, <4>1, Running, Zenon
      <4>3. QED
        BY <1>0, <4>1, <4>2, Zenon DEF Core, PacketIds
    <3>5. QED
      BY <2>1, <3>2, <3>3, <3>4, Zenon DEF Delivery!Release
  <2>4. QED
    BY <2>2, <2>3, Zenon
<1>5. CASE SessionStep
  BY <1>2, <1>4, <1>5, Zenon DEF SessionStep, ProbeOutbox, HeartbeatTick, FaultChanged,
     NotePacketWritten, ConnAck, NewConnection, ConnectionLost, Shutdown, OfflinePubAck,
     OfflineTimeout, OfflineConnectionLost, DisconnectWritten, ClosingEnds,
     ClosingReconnect
<1>6. CASE Crash \/ Restart \/ FaultStep \/ WriteRequest \/ BrokerClose \/ UNCHANGED vars
  BY <1>2, <1>6, Zenon DEF Crash, Restart, FaultStep, WriteRequest, BrokerClose, vars
<1>7. QED
  BY <1>1, <1>3, <1>5, <1>6, Zenon DEF Next

\* The adapter implements the delivery contract: the Broker gets every row in
\* insertion order, the last one possibly again, and a row is released only
\* when it has been delivered.
THEOREM ImplementsDelivery == Spec => InOrderDelivery
<1>1. Init => Delivery!DeliveryInit
  BY Zenon DEF Init, Delivery!DeliveryInit
<1>2. AdapterInvariant /\ [Next]_vars
        => [Delivery!Insert \/ Delivery!Deliver \/ Delivery!Release]_<<lastSeq, outbox, delivered>>
  BY DeliveryStep, Zenon
<1>3. QED
  BY <1>1, <1>2, Bookkeeping, PTL DEF Spec, InOrderDelivery, Delivery!DeliverySpec

-----------------------------------------------------------------------------
(* The status comes first, and no change of the faults is forgotten.       *)

\* Until the Broker has published a status on its connection, the packet it
\* reads next is a status or a DISCONNECT; or that packet is still a request,
\* and then it is a status; or the adapter has stopped publishing rows.
GreetingComes ==
    brokerUp /\ ~greeted =>
        \/ wire # <<>> /\ Head(wire).pub \in {StatusPub, NoPub}
        \/ /\ wire = <<>>
           /\ requests # <<>> /\ link => Head(requests).pub = StatusPub
           /\ requests = <<>> /\ link => phase # "running"

\* Appending leaves the head of a queue alone.
LEMMA AppendHead ==
    ASSUME NEW S, NEW s \in Seq(S), NEW e \in S
    PROVE  /\ Append(s, e) # <<>>
           /\ s # <<>> => Head(Append(s, e)) = Head(s)
           /\ s = <<>> => Head(Append(s, e)) = e
OBVIOUS

\* A queued status, or a row queued while the adapter runs, keeps the order.
LEMMA GreetingQueued ==
    ASSUME TypeOK, GreetingComes, NEW m \in Messages,
           m.pub = StatusPub \/ (phase = "running" /\ link),
           requests' = Append(requests, m), phase' = phase \/ phase' # "running",
           UNCHANGED <<brokerUp, greeted, wire, link>>
    PROVE  GreetingComes'
<1>1. /\ requests' # <<>>
      /\ requests # <<>> => Head(requests') = Head(requests)
      /\ requests = <<>> => Head(requests') = m
  BY AppendHead DEF TypeOK, ClientOK
<1>2. QED
  BY <1>1, Zenon DEF GreetingComes

\* A connection that rumqttc has dropped gets at most a DISCONNECT.
LEMMA GreetingCleared ==
    ASSUME TypeOK, GreetingComes, link' = FALSE, UNCHANGED <<brokerUp, greeted>>,
           wire' = wire \/ wire' = Append(wire, DisconnectPacket)
    PROVE  GreetingComes'
<1>1. CASE wire' = wire
  BY <1>1, Zenon DEF GreetingComes
<1>2. CASE wire' = Append(wire, DisconnectPacket)
  <2>1. wire \in Seq(Packets) /\ DisconnectPacket \in Packets
    BY Zenon DEF TypeOK, BrokerOK, Packets
  <2>2. /\ wire' # <<>>
        /\ wire # <<>> => Head(wire') = Head(wire)
        /\ wire = <<>> => Head(wire') = DisconnectPacket
    BY <1>2, <2>1, AppendHead, Zenon
  <2>3. DisconnectPacket.pub = NoPub
    BY Zenon DEF DisconnectPacket
  <2>4. QED
    BY <2>2, <2>3, Zenon DEF GreetingComes
<1>3. QED
  BY <1>1, <1>2, Zenon

\* Nothing that the greeting is about changes, or the adapter stops.
LEMMA GreetingQuiet ==
    ASSUME GreetingComes, UNCHANGED <<brokerUp, greeted, wire, requests, link>>,
           phase' = phase \/ phase' # "running"
    PROVE  GreetingComes'
BY Zenon DEF GreetingComes

\* What Publish hands over keeps the order, queued or not.
LEMMA GreetingPublished ==
    ASSUME TypeOK, GreetingComes, phase = "running", link,
           NEW m \in Messages, NEW b \in BOOLEAN, Publish(m, b),
           UNCHANGED <<brokerUp, greeted, wire, link>>
    PROVE  GreetingComes'
<1>1. CASE Len(requests) < RequestCap
  <2>1. requests' = Append(requests, m) /\ phase' = phase
    BY <1>1, Zenon DEF Publish
  <2>2. QED
    BY <2>1, GreetingQueued, Zenon
<1>2. CASE ~(Len(requests) < RequestCap)
  <2>1. requests' = requests /\ phase' = "blocked"
    BY <1>2, Zenon DEF Publish
  <2>2. QED
    BY <2>1, GreetingQuiet, Zenon
<1>3. QED
  BY <1>1, <1>2, Zenon

\* The messages the session publishes.
LEMMA MessagesPublished ==
    ASSUME TypeOK
    PROVE  /\ StatusMsg(Heartbeat) \in Messages /\ StatusMsg(Heartbeat).pub = StatusPub
           /\ StatusMsg(Heartbeat).status = Heartbeat
           /\ StatusMsg(Offline) \in Messages /\ StatusMsg(Offline).pub = StatusPub
           /\ \A n \in outbox : RowMsg(n) \in Messages
<1>1. Heartbeat \in Payloads /\ Offline \in Payloads
  BY PayloadType, Zenon DEF TypeOK
<1>2. outbox \subseteq Nat
  BY Elements
<1>3. StatusMsg(Heartbeat) \in Messages /\ StatusMsg(Offline) \in Messages
  BY <1>1, MessageType, Zenon
<1>4. \A n \in outbox : RowMsg(n) \in Messages
  BY <1>2, MessageType, Zenon
<1>5. QED
  BY <1>3, <1>4, Zenon DEF StatusMsg

\* Looking for the next row keeps the order.
LEMMA GreetingNextRow ==
    ASSUME TypeOK, GreetingComes, phase = "running", link,
           NEW busy, NEW rows \in SUBSET outbox, NEW ok,
           PublishNextOutboxRow(busy, rows, ok),
           UNCHANGED <<brokerUp, greeted, wire, link>>
    PROVE  GreetingComes'
<1>1. CASE NothingPublished
  <2>1. UNCHANGED <<phase, requests>>
    BY <1>1, Zenon DEF NothingPublished
  <2>2. QED
    BY <2>1, GreetingQuiet, Zenon
<1>2. ASSUME NEW n \in rows, Publish(RowMsg(n), FALSE) PROVE GreetingComes'
  <2>1. RowMsg(n) \in Messages
    BY <1>2, MessagesPublished, Zenon
  <2>2. QED
    BY <1>2, <2>1, GreetingPublished, Zenon
<1>3. QED
  BY <1>1, <1>2, Zenon DEF PublishNextOutboxRow

\* The session's steps keep the order in which the Broker gets the packets.
LEMMA GreetingSession ==
    ASSUME TypeOK, Core, GreetingComes, SessionStep
    PROVE  GreetingComes'
<1> USE DEF dbVars, sessionVars, clientVars, brokerVars
<1>0. phase = "running" => connected = link
  BY Zenon DEF Core, Attribution
<1>a. connected \in BOOLEAN /\ link \in BOOLEAN
  BY Zenon DEF TypeOK, FlagsOK
<1>1. ASSUME NEW ok \in BOOLEAN, ProbeOutbox(ok) PROVE GreetingComes'
  <2>1. /\ phase = "running" /\ connected /\ PublishNextOutboxRow(0, outbox, ok)
        /\ UNCHANGED <<brokerUp, greeted, wire, link>>
    BY <1>1, Zenon DEF ProbeOutbox
  <2>2. link
    BY <1>0, <2>1, Zenon
  <2>3. QED
    BY <2>1, <2>2, GreetingNextRow, Zenon
<1>2. CASE HeartbeatTick \/ FaultChanged
  <2>1. /\ phase = "running" /\ connected /\ Publish(StatusMsg(Heartbeat), TRUE)
        /\ UNCHANGED <<brokerUp, greeted, wire, link>>
    BY <1>2, Zenon DEF HeartbeatTick, FaultChanged
  <2>2. link
    BY <1>0, <2>1, Zenon
  <2>3. QED
    BY <2>1, <2>2, MessagesPublished, GreetingPublished, Zenon
<1>3. ASSUME NEW k \in Pkids, NEW d \in BOOLEAN, NEW r \in BOOLEAN, NotePubAck(k, d, r)
      PROVE  GreetingComes'
  <2>1. /\ phase = "running" /\ k \in acks /\ UNCHANGED <<brokerUp, greeted, wire, link>>
    BY <1>3, Zenon DEF NotePubAck, PubAckReady
  <2>2. link
    BY <1>a, <2>1, Zenon DEF Core, PacketIds
  <2>3. CASE PubAckOfRow(k, written[k], d, r)
    <3>1. \E busy, rows : rows \subseteq outbox /\ PublishNextOutboxRow(busy, rows, r)
      BY <2>3, Zenon DEF PubAckOfRow
    <3>2. QED
      BY <2>1, <2>2, <3>1, GreetingNextRow, Zenon
  <2>4. CASE PubAckOfOther
    <3>1. UNCHANGED <<phase, requests>>
      BY <2>4, Zenon DEF PubAckOfOther, NothingPublished
    <3>2. QED
      BY <2>1, <3>1, GreetingQuiet, Zenon
  <2>5. QED
    BY <1>3, <2>3, <2>4, Zenon DEF NotePubAck
<1>4. ASSUME NEW ok \in BOOLEAN, ConnAck(ok) PROVE GreetingComes'
  <2>1. wire' = <<>> /\ link' = TRUE
    BY <1>4, Zenon DEF ConnAck, NewConnection
  <2>2. \/ requests' = <<StatusMsg(Heartbeat)>>
        \/ \E n \in outbox : requests' = <<StatusMsg(Heartbeat), RowMsg(n)>>
    BY <1>4, Zenon DEF ConnAck
  <2>3. requests' # <<>> /\ Head(requests') = StatusMsg(Heartbeat)
    BY <2>2
  <2>4. QED
    BY <2>1, <2>3, MessagesPublished, Zenon DEF GreetingComes
<1>5. CASE ClosingReconnect
  <2>1. wire' = <<>> /\ requests' = <<>> /\ phase' # "running"
    BY <1>5, Zenon DEF ClosingReconnect, NewConnection
  <2>2. QED
    BY <2>1, Zenon DEF GreetingComes
<1>6. CASE ConnectionLost \/ OfflineConnectionLost \/ DisconnectWritten \/ ClosingEnds
  <2>1. /\ link' = FALSE /\ UNCHANGED <<brokerUp, greeted>>
        /\ wire' = wire \/ wire' = Append(wire, DisconnectPacket)
    BY <1>6, Zenon DEF ConnectionLost, OfflineConnectionLost, DisconnectWritten,
       ClosingEnds, ClientCleared
  <2>2. QED
    BY <2>1, GreetingCleared, Zenon
<1>7. CASE Shutdown
  <2>1. UNCHANGED <<brokerUp, greeted, wire>>
    BY <1>7, Zenon DEF Shutdown
  <2>2. CASE ~connected
    <3>1. link' = FALSE
      BY <1>7, <2>2, Zenon DEF Shutdown, ClientCleared
    <3>2. QED
      BY <2>1, <3>1, GreetingCleared, Zenon
  <2>3. CASE connected /\ Len(requests) < RequestCap
    <3>1. requests' = Append(requests, StatusMsg(Offline)) /\ link' = link /\ phase' = "offline"
      BY <1>7, <2>3, Zenon DEF Shutdown
    <3>2. StatusMsg(Offline) \in Messages /\ StatusMsg(Offline).pub = StatusPub
      BY MessagesPublished, Zenon
    <3>3. QED
      BY <2>1, <3>1, <3>2, GreetingQueued, Zenon
  <2>4. CASE connected /\ ~(Len(requests) < RequestCap)
    <3>1. requests' = requests /\ link' = link /\ phase' = "blocked"
      BY <1>7, <2>4, Zenon DEF Shutdown
    <3>2. QED
      BY <2>1, <3>1, GreetingQuiet, Zenon
  <2>5. QED
    BY <2>2, <2>3, <2>4, Zenon
<1>8. CASE NotePacketWritten \/ OfflineTimeout \/ \E k \in Pkids : OfflinePubAck(k)
  <2>1. /\ UNCHANGED <<brokerUp, greeted, wire, requests, link>>
        /\ phase' = phase \/ phase' \in {"closing", "blocked"}
    BY <1>8, Zenon DEF NotePacketWritten, OfflineTimeout, OfflinePubAck, Disconnect
  <2>2. QED
    BY <2>1, GreetingQuiet, Zenon
<1>9. QED
  BY <1>1, <1>2, <1>3, <1>4, <1>5, <1>6, <1>7, <1>8, Zenon DEF SessionStep

\* Every step keeps the order in which the Broker gets the packets.
LEMMA GreetingStep ==
    ASSUME TypeOK, Core, GreetingComes, [Next]_vars
    PROVE  GreetingComes'
<1> USE DEF dbVars, sessionVars, clientVars, brokerVars
<1>1. CASE SessionStep
  BY <1>1, GreetingSession, Zenon
<1>2. CASE Enqueue \/ FaultStep \/ UNCHANGED vars
  <2>1. UNCHANGED <<brokerUp, greeted, wire, requests, link, phase>>
    BY <1>2, Zenon DEF Enqueue, FaultStep, vars
  <2>2. QED
    BY <2>1, GreetingQuiet, Zenon
<1>3. CASE Crash
  <2>1. link' = FALSE /\ UNCHANGED <<brokerUp, greeted, wire>>
    BY <1>3, Zenon DEF Crash, ClientCleared
  <2>2. QED
    BY <2>1, GreetingCleared, Zenon
<1>4. CASE Restart
  <2>1. phase = "down" /\ link' = link /\ UNCHANGED <<brokerUp, greeted, wire>>
    BY <1>4, Zenon DEF Restart
  <2>2. link' = FALSE
    BY <2>1, Zenon DEF TypeOK, FlagsOK, Core, Attribution
  <2>3. QED
    BY <2>1, <2>2, GreetingCleared, Zenon
<1>5. CASE WriteRequest
  <2>1. /\ link /\ requests # <<>> /\ requests' = Tail(requests)
        /\ UNCHANGED <<brokerUp, greeted, link, phase>>
    BY <1>5, Zenon DEF WriteRequest
  <2>2. PICK k \in Pkids : wire' = Append(wire, [pkid |-> k, pub |-> Head(requests).pub,
                                                status |-> Head(requests).status])
    BY <1>5, Zenon DEF WriteRequest
  <2> DEFINE p == [pkid |-> k, pub |-> Head(requests).pub, status |-> Head(requests).status]
  <2>3. Head(requests) \in Messages
    BY <2>1 DEF TypeOK, ClientOK
  <2>4. p \in Packets /\ p.pub = Head(requests).pub
    BY <2>3, Zenon DEF Messages, Packets
  <2>5. wire \in Seq(Packets) /\ wire' = Append(wire, p)
    BY <2>2, Zenon DEF TypeOK, BrokerOK
  <2> HIDE DEF p
  <2>6. /\ wire' # <<>>
        /\ wire # <<>> => Head(wire') = Head(wire)
        /\ wire = <<>> => Head(wire') = p
    BY <2>4, <2>5, AppendHead, Zenon
  <2>7. QED
    BY <2>1, <2>4, <2>6, Zenon DEF GreetingComes
<1>6. CASE BrokerReceive
  <2>1. /\ brokerUp /\ wire # <<>>
        /\ UNCHANGED <<link, requests, phase>>
    BY <1>6, Zenon DEF BrokerReceive
  <2>2. CASE Head(wire).pub = NoPub
    <3>1. brokerUp' = FALSE
      BY <1>6, <2>2, Zenon DEF BrokerReceive
    <3>2. QED
      BY <3>1, Zenon DEF GreetingComes
  <2>3. CASE Head(wire).pub = StatusPub
    <3>1. Head(wire).pub # NoPub
      BY <2>3 DEF NoPub, StatusPub
    <3>2. greeted' = TRUE
      BY <1>6, <2>3, <3>1, Zenon DEF BrokerReceive
    <3>3. QED
      BY <3>2, Zenon DEF GreetingComes
  <2>4. CASE Head(wire).pub # NoPub /\ Head(wire).pub # StatusPub
    <3>1. greeted' = greeted
      BY <1>6, <2>4, Zenon DEF BrokerReceive
    <3>2. greeted
      BY <2>1, <2>4, Zenon DEF GreetingComes
    <3>3. QED
      BY <3>1, <3>2, Zenon DEF GreetingComes
  <2>5. QED
    BY <2>2, <2>3, <2>4, Zenon
<1>7. CASE BrokerClose
  <2>1. brokerUp' = FALSE
    BY <1>7, Zenon DEF BrokerClose
  <2>2. QED
    BY <2>1, Zenon DEF GreetingComes
<1>8. QED
  BY <1>1, <1>2, <1>3, <1>4, <1>5, <1>6, <1>7, Zenon DEF Next

\* The status value and list depend on the faults alone.
LEMMA SameHeartbeat ==
    ASSUME UNCHANGED <<storage, interfaces>>
    PROVE  Heartbeat' = Heartbeat
BY Zenon DEF Heartbeat, Status, Degraded, FaultList

\* A step of the tasks that report faults leaves a wake-up behind whenever it
\* changes what a status would say.
LEMMA FaultStepWakes ==
    ASSUME TypeOK, FaultChangeNotForgotten, FaultStep
    PROVE  FaultChangeNotForgotten'
<1>0. UNCHANGED <<phase, connected, announced>>
  BY Zenon DEF FaultStep, sessionVars
<1>1. CASE StorageWriteFailed
  <2>1. CASE storage = 0
    <3>1. "collector" \in notifying'
      BY <1>1, <2>1, Zenon DEF StorageWriteFailed
    <3>2. QED
      BY <3>1, Zenon DEF FaultChangeNotForgotten
  <2>2. CASE storage # 0
    <3>1. /\ storage' = storage + 1 /\ UNCHANGED <<interfaces, notifying, permit>>
      BY <1>1, <2>2, Zenon DEF StorageWriteFailed
    <3>2. storage \in Nat
      BY FaultsAssumption DEF TypeOK, FaultsTypeOK, FaultsAssumption
    <3>3. Degraded' /\ Degraded
      BY <2>2, <3>1, <3>2 DEF Degraded
    <3>4. FaultList' = FaultList
      BY <3>1, <3>3, Zenon DEF FaultList
    <3>5. Heartbeat' = Heartbeat
      BY <3>3, <3>4, Zenon DEF Heartbeat, Status
    <3>6. QED
      BY <1>0, <3>1, <3>5, Zenon DEF FaultChangeNotForgotten
  <2>3. QED
    BY <2>1, <2>2, Zenon
<1>2. CASE StorageWriteSucceeded
  BY <1>2, Zenon DEF StorageWriteSucceeded, FaultChangeNotForgotten
<1>3. ASSUME NEW a \in Adapters, NEW r \in Reasons, InterfaceOpenFailed(a, r)
      PROVE  FaultChangeNotForgotten'
  BY <1>3, Zenon DEF InterfaceOpenFailed, FaultChangeNotForgotten
<1>4. ASSUME NEW a \in Adapters, InterfaceOpened(a) PROVE FaultChangeNotForgotten'
  BY <1>4, Zenon DEF InterfaceOpened, FaultChangeNotForgotten
<1>5. ASSUME NEW t \in Tasks, NotifyListener(t) PROVE FaultChangeNotForgotten'
  BY <1>5, Zenon DEF NotifyListener, FaultChangeNotForgotten
<1>6. QED
  BY <1>1, <1>2, <1>3, <1>4, <1>5, Zenon DEF FaultStep

\* What Publish hands over is the current status, or the adapter blocks.
LEMMA StatusPublished ==
    ASSUME TypeOK, phase = "running", Publish(StatusMsg(Heartbeat), TRUE),
           UNCHANGED <<storage, interfaces>>
    PROVE  FaultChangeNotForgotten'
<1>1. CASE Len(requests) < RequestCap
  <2>1. announced' = StatusMsg(Heartbeat).status
    BY <1>1, Zenon DEF Publish
  <2>2. announced' = Heartbeat'
    BY <2>1, MessagesPublished, SameHeartbeat, Zenon
  <2>3. QED
    BY <2>2, Zenon DEF FaultChangeNotForgotten
<1>2. CASE ~(Len(requests) < RequestCap)
  <2>1. phase' = "blocked"
    BY <1>2, Zenon DEF Publish
  <2>2. QED
    BY <2>1, Zenon DEF FaultChangeNotForgotten
<1>3. QED
  BY <1>1, <1>2, Zenon

\* No step forgets a change of the faults.
LEMMA FaultChangeStep ==
    ASSUME TypeOK, FaultChangeNotForgotten, [Next]_vars
    PROVE  FaultChangeNotForgotten'
<1> USE DEF dbVars, sessionVars, clientVars, brokerVars, faultVars
<1>1. ASSUME UNCHANGED <<connected, announced, storage, interfaces, notifying, permit>>,
             phase' = phase \/ phase' # "running"
      PROVE  FaultChangeNotForgotten'
  <2>1. Heartbeat' = Heartbeat
    BY <1>1, SameHeartbeat, Zenon
  <2>2. QED
    BY <1>1, <2>1, Zenon DEF FaultChangeNotForgotten
<1>2. ASSUME NEW m \in Messages, Publish(m, FALSE),
             UNCHANGED <<connected, storage, interfaces, notifying, permit>>
      PROVE  FaultChangeNotForgotten'
  <2>1. announced' = announced /\ (phase' = phase \/ phase' = "blocked")
    BY <1>2, Zenon DEF Publish
  <2>2. QED
    BY <1>1, <1>2, <2>1, Zenon
<1>3. ASSUME NEW busy, NEW rows \in SUBSET outbox, NEW ok, PublishNextOutboxRow(busy, rows, ok),
             UNCHANGED <<connected, storage, interfaces, notifying, permit>>
      PROVE  FaultChangeNotForgotten'
  <2>1. CASE NothingPublished
    <3>1. UNCHANGED <<phase, announced>>
      BY <2>1, Zenon DEF NothingPublished
    <3>2. QED
      BY <1>1, <1>3, <3>1, Zenon
  <2>2. ASSUME NEW n \in rows, Publish(RowMsg(n), FALSE) PROVE FaultChangeNotForgotten'
    <3>1. RowMsg(n) \in Messages
      BY <2>2, MessagesPublished, Zenon
    <3>2. QED
      BY <1>2, <1>3, <2>2, <3>1, Zenon
  <2>3. QED
    BY <1>3, <2>1, <2>2, Zenon DEF PublishNextOutboxRow
<1>4. ASSUME NEW ok \in BOOLEAN, ProbeOutbox(ok) PROVE FaultChangeNotForgotten'
  <2>1. /\ PublishNextOutboxRow(0, outbox, ok)
        /\ UNCHANGED <<connected, storage, interfaces, notifying, permit>>
    BY <1>4, Zenon DEF ProbeOutbox
  <2>2. QED
    BY <1>3, <2>1, Zenon
<1>5. CASE HeartbeatTick \/ FaultChanged
  <2>1. /\ phase = "running" /\ Publish(StatusMsg(Heartbeat), TRUE)
        /\ UNCHANGED <<storage, interfaces>>
    BY <1>5, Zenon DEF HeartbeatTick, FaultChanged
  <2>2. QED
    BY <2>1, StatusPublished, Zenon
<1>6. ASSUME NEW k \in Pkids, NEW d \in BOOLEAN, NEW r \in BOOLEAN, NotePubAck(k, d, r)
      PROVE  FaultChangeNotForgotten'
  <2>1. UNCHANGED <<connected, storage, interfaces, notifying, permit>>
    BY <1>6, Zenon DEF NotePubAck
  <2>2. CASE PubAckOfRow(k, written[k], d, r)
    <3>1. \E busy, rows : rows \subseteq outbox /\ PublishNextOutboxRow(busy, rows, r)
      BY <2>2, Zenon DEF PubAckOfRow
    <3>2. QED
      BY <1>3, <2>1, <3>1, Zenon
  <2>3. CASE PubAckOfOther
    <3>1. UNCHANGED <<phase, announced>>
      BY <2>3, Zenon DEF PubAckOfOther, NothingPublished
    <3>2. QED
      BY <1>1, <2>1, <3>1, Zenon
  <2>4. QED
    BY <1>6, <2>2, <2>3, Zenon DEF NotePubAck
<1>7. ASSUME NEW ok \in BOOLEAN, ConnAck(ok) PROVE FaultChangeNotForgotten'
  <2>1. announced' = Heartbeat /\ UNCHANGED <<storage, interfaces>>
    BY <1>7, Zenon DEF ConnAck
  <2>2. announced' = Heartbeat'
    BY <2>1, SameHeartbeat, Zenon
  <2>3. QED
    BY <2>2, Zenon DEF FaultChangeNotForgotten
<1>8. CASE ConnectionLost \/ Restart
  <2>1. connected' = FALSE
    BY <1>8, Zenon DEF ConnectionLost, Restart
  <2>2. QED
    BY <2>1, Zenon DEF FaultChangeNotForgotten
<1>9. CASE \/ Shutdown \/ OfflineTimeout \/ OfflineConnectionLost \/ DisconnectWritten
           \/ ClosingEnds \/ Crash \/ \E k \in Pkids : OfflinePubAck(k)
  <2>1. phase' # "running"
    BY <1>9, Zenon DEF Shutdown, OfflineTimeout, OfflineConnectionLost, DisconnectWritten,
       ClosingEnds, Crash, OfflinePubAck, Disconnect
  <2>2. QED
    BY <2>1, Zenon DEF FaultChangeNotForgotten
<1>10. CASE \/ NotePacketWritten \/ ClosingReconnect \/ Enqueue \/ WriteRequest
            \/ BrokerReceive \/ BrokerClose \/ UNCHANGED vars
  <2>1. UNCHANGED <<connected, announced, storage, interfaces, notifying, permit, phase>>
    BY <1>10, Zenon DEF NotePacketWritten, ClosingReconnect, Enqueue, WriteRequest,
       BrokerReceive, BrokerClose, vars
  <2>2. QED
    BY <1>1, <2>1, Zenon
<1>11. CASE FaultStep
  BY <1>11, FaultStepWakes, Zenon
<1>12. QED
  BY <1>4, <1>5, <1>6, <1>7, <1>8, <1>9, <1>10, <1>11, Zenon DEF Next, SessionStep

\* The Broker hears of the node's state before any row of a connection, and
\* while connected no change of the faults is forgotten.
THEOREM StatusIsAnnounced == Spec => []StatusAnnounced
<1>1. Init => GreetingComes /\ FaultChangeNotForgotten
  <2>1. ASSUME Init PROVE brokerUp = FALSE /\ connected = FALSE
    BY <2>1, Zenon DEF Init
  <2>2. QED
    BY <2>1, Zenon DEF GreetingComes, FaultChangeNotForgotten
<1>2. /\ AdapterInvariant /\ GreetingComes /\ FaultChangeNotForgotten /\ [Next]_vars
      => GreetingComes' /\ FaultChangeNotForgotten'
  BY GreetingStep, FaultChangeStep, Zenon DEF AdapterInvariant, Core
<1>3. AdapterInvariant /\ GreetingComes => StatusFirst
  <2>1. ASSUME AdapterInvariant, GreetingComes, brokerUp, wire # <<>>, Head(wire).pub > StatusPub
        PROVE  greeted
    BY <2>1 DEF GreetingComes, StatusPub, NoPub
  <2>2. QED
    BY <2>1, Zenon DEF StatusFirst
<1>4. QED
  BY <1>1, <1>2, <1>3, Bookkeeping, PTL DEF Spec, StatusAnnounced
=============================================================================
