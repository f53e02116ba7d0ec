------------------------ MODULE ObservationDelivery ------------------------
(***************************************************************************)
(* What sections 6 and 8 of the MQTT Output Adapter contract promise about *)
(* the publications of one node, with rows numbered in insertion order:    *)
(* the Broker gets every row, in order; it may get the last one again; the *)
(* node keeps a row until the Broker has it.                               *)
(***************************************************************************)
EXTENDS Naturals

VARIABLES
    lastSeq,     \* rows inserted so far
    held,        \* rows the node is still responsible for
    delivered    \* the row the Broker published last

DeliveryInit == lastSeq = 0 /\ held = {} /\ delivered = 0

Insert ==
    /\ lastSeq' = lastSeq + 1
    /\ held' = held \cup {lastSeq + 1}
    /\ UNCHANGED delivered

\* Publishing the row `delivered` again leaves this state unchanged.
Deliver ==
    /\ delivered < lastSeq
    /\ delivered' = delivered + 1
    /\ UNCHANGED <<lastSeq, held>>

Release ==
    \E n \in held :
        /\ n <= delivered
        /\ held' = held \ {n}
        /\ UNCHANGED <<lastSeq, delivered>>

DeliverySpec == DeliveryInit /\ [][Insert \/ Deliver \/ Release]_<<lastSeq, held, delivered>>
=============================================================================
