-------------------------- MODULE PublicationProofs --------------------------
(***************************************************************************)
(* Proofs about Publication: for any numbers of readings, publications,    *)
(* epochs and targets, the log can be materialized, the cursor covers only *)
(* what an archive has taken, an epoch and a number name one record, and a *)
(* reading that is owed is kept.                                           *)
(***************************************************************************)
EXTENDS Publication, FiniteSetTheorems, TLAPS

-----------------------------------------------------------------------------
(* The inductive invariant.                                                *)

LogRows == [epoch : Nat, row : Rows]
Targets == [id : {"archive", "edge"}, endpoint : Endpoints \cup {"edge"}, responsible : BOOLEAN,
            cursorEpoch : Nat, cursor : 0..MaxPublications]
Batches == UNION {[D -> LogRows] : D \in SUBSET Nat}
Flights == [stage : {"post", "acked"}, id : {"archive", "edge"}, endpoint : Endpoints \cup {"edge"},
            epoch : Nat, last : 0..MaxPublications, rows : Batches]
Activations == [state : {"standalone", "discovery_only", "active"}, discard : Nat, cleanup : Nat]

(* Tables that are functions of their keys, and the publish cycle.         *)
LogTypes ==
    /\ alloc \in 0..MaxPublications
    /\ log \in [DOMAIN log -> LogRows]
    /\ DOMAIN log \subseteq 1..alloc
    /\ \A p \in DOMAIN log : log[p].epoch \in 1..epoch

ReadingTypes ==
    /\ lastSeq \in 0..MaxReadings
    /\ readings \in [DOMAIN readings -> [old : BOOLEAN, out : BOOLEAN]]
    /\ DOMAIN readings \subseteq 1..lastSeq

OtherTypes ==
    /\ epoch \in 1..MaxEpoch /\ renewed \in 0..MaxEpoch /\ renewed < epoch
    /\ act \in Activations /\ act.cleanup <= act.discard /\ act.discard <= lastSeq
    /\ target \in Targets \cup {NoTarget}
    /\ target # NoTarget => target.cursorEpoch <= epoch
    /\ flight \in Flights \cup {Idle}

(* Whoever knows a record by its epoch and number knows the same one: the  *)
(* log, the batch under way and the archives.  What is known of the        *)
(* present epoch has a number that was given out.                          *)
Naming ==
    /\ \A r \in received : /\ r.epoch \in Nat /\ r.pub \in Nat /\ r.epoch <= epoch
                           /\ r.epoch = epoch => r.pub <= alloc
    /\ \A x, y \in received : x.epoch = y.epoch /\ x.pub = y.pub => x.row = y.row
    /\ \A r \in received, p \in DOMAIN log :
            r.epoch = log[p].epoch /\ r.pub = p => r.row = log[p].row

FlightNaming ==
    flight # Idle =>
        /\ flight.epoch <= epoch
        /\ flight.epoch = epoch => flight.last <= alloc
        /\ \A p \in DOMAIN flight.rows :
              /\ p \in Nat /\ p <= flight.last
              /\ p \in DOMAIN log /\ log[p].epoch = flight.epoch => log[p].row = flight.rows[p].row
              /\ \A r \in received : r.epoch = flight.epoch /\ r.pub = p => r.row = flight.rows[p].row

TakenBy(e, p) == \E r \in received : r.epoch = e /\ r.pub = p

(* What the cursor has passed was taken, and what it will have passed when *)
(* the cycle under way advances it was taken or is in the batch.           *)
Coverage ==
    /\ target # NoTarget /\ target.cursorEpoch = epoch =>
          /\ target.cursor <= alloc
          /\ \A p \in DOMAIN log : log[p].epoch = epoch /\ p <= target.cursor => TakenBy(epoch, p)
    /\ flight # Idle =>
          \A p \in DOMAIN log : log[p].epoch = flight.epoch /\ p <= flight.last =>
              p \in DOMAIN flight.rows \/ TakenBy(flight.epoch, p)
    /\ flight.stage = "acked" =>
          \A p \in DOMAIN flight.rows : TakenBy(flight.epoch, p)

PublicationInvariant ==
    /\ LogTypes /\ ReadingTypes /\ OtherTypes
    /\ Naming /\ FlightNaming /\ Coverage
    /\ NoOrphanRow /\ PreActivationKept

-----------------------------------------------------------------------------
(* Rows, targets and cycles.                                               *)

(* No target and no cycle are not mistaken for one. *)
LEMMA NotNone ==
    /\ \A t \in Targets : t # NoTarget /\ t.id # "none"
    /\ \A f \in Flights : f # Idle /\ f.stage # "idle"
    /\ NoTarget.id = "none" /\ Idle.stage = "idle"
  BY DEF Targets, Flights, NoTarget, Idle

(* The kinds of rows are rows. *)
LEMMA RowKinds ==
    /\ \A s \in 1..MaxReadings : /\ Measurement(s) \in Rows
                                 /\ Measurement(s).kind = "measurement" /\ Measurement(s).seq = s
    /\ \A e \in 1..MaxEpoch : EpochStart(e) \in Rows /\ EpochStart(e).kind = "epoch_start"
    /\ Smoke \in Rows /\ Smoke.kind = "commissioning_smoke"
    /\ \A r \in Rows : r.kind = "measurement" => r.seq \in 1..MaxReadings /\ r = Measurement(r.seq)
  <1>1. \A s \in 1..MaxReadings : /\ Measurement(s) \in Rows
                                  /\ Measurement(s).kind = "measurement" /\ Measurement(s).seq = s
    <2>1. \A s \in 1..MaxReadings : Measurement(s) \in Rows
      BY DEF Rows
    <2> QED BY <2>1, Zenon DEF Measurement
  <1>2. \A e \in 1..MaxEpoch : EpochStart(e) \in Rows /\ EpochStart(e).kind = "epoch_start"
    <2>1. \A e \in 1..MaxEpoch : EpochStart(e) \in Rows
      BY DEF Rows
    <2> QED BY <2>1, Zenon DEF EpochStart
  <1>3. Smoke \in Rows /\ Smoke.kind = "commissioning_smoke"
    BY DEF Rows, Smoke
  <1>4. ASSUME NEW r \in Rows, r.kind = "measurement"
        PROVE  r.seq \in 1..MaxReadings /\ r = Measurement(r.seq)
    <2>1. CASE \E s \in 1..MaxReadings : r = Measurement(s)
      BY <1>1, <2>1
    <2>2. CASE \E e \in 1..MaxEpoch : r = EpochStart(e)
      BY <1>2, <1>4, <2>2
    <2>3. CASE r = Smoke
      BY <1>3, <1>4, <2>3
    <2> QED BY <2>1, <2>2, <2>3 DEF Rows
  <1> QED BY <1>1, <1>2, <1>3, <1>4

(* At the start there is nothing. *)
LEMMA InitInvariant ==
    ASSUME Init PROVE PublicationInvariant
  <1>1. DOMAIN log = {} /\ DOMAIN readings = {}
    BY DEF Init
  <1>2. log \in [DOMAIN log -> LogRows] /\ readings \in [DOMAIN readings -> [old : BOOLEAN, out : BOOLEAN]]
    <2>1. << >> = [x \in {} |-> x]
      OBVIOUS
    <2> QED BY <1>1, <2>1 DEF Init
  <1>3. LogTypes /\ ReadingTypes
    BY <1>1, <1>2, PublicationAssumption DEF Init, LogTypes, ReadingTypes
  <1>4. OtherTypes
    BY PublicationAssumption DEF Init, OtherTypes, Activations
  <1>5. Naming /\ FlightNaming /\ Coverage
    BY <1>1, NotNone DEF Init, Naming, FlightNaming, Coverage
  <1>6. NoOrphanRow /\ PreActivationKept
    BY <1>1 DEF Init, NoOrphanRow, PreActivationKept
  <1> QED BY <1>3, <1>4, <1>5, <1>6 DEF PublicationInvariant

-----------------------------------------------------------------------------
(* What happens to the log.                                                *)

(* A queued row has a number nobody knows yet in this epoch.               *)
LEMMA Enqueued ==
    ASSUME PublicationInvariant, NEW row \in Rows, Enqueue(row),
           UNCHANGED <<epoch, target, received>>, flight' \in {flight, Idle}
    PROVE  /\ LogTypes' /\ Naming' /\ FlightNaming' /\ Coverage'
           /\ DOMAIN log' = DOMAIN log \cup {alloc + 1}
           /\ log'[alloc + 1].row = row /\ log'[alloc + 1].epoch = epoch
           /\ \A p \in DOMAIN log : log'[p] = log[p]
  <1> DEFINE new == [epoch |-> epoch, row |-> row]
             n == alloc + 1
  <1>1. /\ alloc \in 0..MaxPublications /\ alloc < MaxPublications /\ alloc' = n
        /\ log' = [y \in DOMAIN log \cup {n} |-> IF y = n THEN new ELSE log[y]]
        /\ log \in [DOMAIN log -> LogRows] /\ DOMAIN log \subseteq 1..alloc
        /\ \A p \in DOMAIN log : log[p].epoch \in 1..epoch
        /\ epoch \in 1..MaxEpoch
    BY DEF PublicationInvariant, LogTypes, OtherTypes, Enqueue, With
  <1>2. new \in LogRows /\ new.epoch = epoch /\ new.row = row
    BY <1>1, PublicationAssumption DEF LogRows
  <1> HIDE DEF new
  <1>3. n \in 1..MaxPublications /\ n \notin DOMAIN log
    BY <1>1, PublicationAssumption
  <1>4. /\ DOMAIN log' = DOMAIN log \cup {n} /\ log'[n] = new
        /\ \A p \in DOMAIN log : log'[p] = log[p]
    BY <1>1, <1>3
  <1>5. LogTypes'
    BY <1>1, <1>2, <1>3, <1>4, PublicationAssumption DEF LogTypes
  <1>6. Naming'
    <2>1. \A r \in received : r.epoch = epoch => r.pub # n
      BY <1>1 DEF PublicationInvariant, Naming
    <2> QED BY <1>1, <1>2, <1>4, <2>1 DEF PublicationInvariant, Naming
  <1>7. FlightNaming'
    <2>1. CASE flight' = Idle
      BY <2>1 DEF FlightNaming
    <2>2. CASE flight' = flight /\ flight # Idle
      <3>1. /\ flight.epoch \in Nat /\ flight.last \in Nat
            /\ flight.epoch = epoch => flight.last <= alloc
        BY <2>2, PublicationAssumption DEF PublicationInvariant, OtherTypes, FlightNaming, Flights
      <3> QED BY <1>1, <1>2, <1>4, <2>2, <3>1 DEF PublicationInvariant, FlightNaming
    <2> QED BY <2>1, <2>2
  <1>8. Coverage'
    <2>1. target # NoTarget => target.cursor \in Nat
      BY PublicationAssumption DEF PublicationInvariant, OtherTypes, Targets
    <2>2. flight # Idle => /\ flight.epoch \in Nat /\ flight.last \in Nat
                           /\ flight.epoch = epoch => flight.last <= alloc
      BY PublicationAssumption DEF PublicationInvariant, OtherTypes, FlightNaming, Flights
    <2> QED BY <1>1, <1>2, <1>4, <2>1, <2>2, NotNone DEF PublicationInvariant, Coverage, TakenBy
  <1> QED BY <1>2, <1>4, <1>5, <1>6, <1>7, <1>8

(* Rows that leave the log take nothing from what is known.                *)
LEMMA Pruned ==
    ASSUME PublicationInvariant, NEW S, log' = Without(log, S),
           UNCHANGED <<epoch, alloc, target, flight, received>>
    PROVE  /\ LogTypes' /\ Naming' /\ FlightNaming' /\ Coverage'
           /\ DOMAIN log' = DOMAIN log \ S
           /\ \A p \in DOMAIN log' : log'[p] = log[p]
  <1>1. /\ DOMAIN log' = DOMAIN log \ S
        /\ \A p \in DOMAIN log' : log'[p] = log[p]
        /\ log' = [p \in DOMAIN log' |-> log'[p]]
    BY DEF Without, Restrict
  <1>2. LogTypes'
    <2>1. \A p \in DOMAIN log' : log'[p] \in LogRows
      BY <1>1 DEF PublicationInvariant, LogTypes
    <2> QED BY <1>1, <2>1 DEF PublicationInvariant, LogTypes
  <1>3. Naming'
    BY <1>1 DEF PublicationInvariant, Naming
  <1>4. FlightNaming'
    BY <1>1 DEF PublicationInvariant, FlightNaming
  <1>5. Coverage'
    BY <1>1 DEF PublicationInvariant, Coverage, TakenBy
  <1> QED BY <1>1, <1>2, <1>3, <1>4, <1>5

-----------------------------------------------------------------------------
(* The steps of the writers of the log and of the readings.                *)

(* With the log, the cycle and the target left alone, so is what is known. *)
LEMMA LogLeft ==
    ASSUME PublicationInvariant, UNCHANGED <<epoch, log, alloc, target, flight, received>>
    PROVE  LogTypes' /\ Naming' /\ FlightNaming' /\ Coverage'
  BY DEF PublicationInvariant, LogTypes, Naming, FlightNaming, Coverage, TakenBy

(* The collector stores a reading and queues it in one transaction.        *)
LEMMA StoreStep ==
    ASSUME PublicationInvariant, NEW out \in BOOLEAN, Store(out)
    PROVE  PublicationInvariant'
  <1> DEFINE new == [old |-> FALSE, out |-> out]
             n == lastSeq + 1
  <1>1. /\ lastSeq \in 0..MaxReadings /\ lastSeq < MaxReadings /\ lastSeq' = n
        /\ readings' = [y \in DOMAIN readings \cup {n} |-> IF y = n THEN new ELSE readings[y]]
        /\ readings \in [DOMAIN readings -> [old : BOOLEAN, out : BOOLEAN]]
        /\ DOMAIN readings \subseteq 1..lastSeq
        /\ UNCHANGED <<epoch, renewed, target, act, flight, adding, received, adds>>
    BY DEF PublicationInvariant, ReadingTypes, Store, With, ledger, others
  <1>2. new \in [old : BOOLEAN, out : BOOLEAN] /\ new.out = out
    OBVIOUS
  <1> HIDE DEF new
  <1>3. n \in 1..MaxReadings /\ n \notin DOMAIN readings
    BY <1>1, PublicationAssumption
  <1>4. /\ DOMAIN readings' = DOMAIN readings \cup {n} /\ readings'[n] = new
        /\ \A s \in DOMAIN readings : readings'[s] = readings[s]
    BY <1>1, <1>3
  <1>5. ReadingTypes'
    BY <1>1, <1>2, <1>3, <1>4, PublicationAssumption DEF ReadingTypes
  <1>6. OtherTypes'
    BY <1>1 DEF PublicationInvariant, OtherTypes, Activations
  <1>7. act.discard \in Nat /\ act.cleanup \in Nat /\ act.discard <= lastSeq /\ act.cleanup <= lastSeq
    BY <1>1 DEF PublicationInvariant, OtherTypes, Activations
  <1>8. CASE ~out /\ Admitted
    <2>1. Measurement(n) \in Rows /\ Measurement(n).kind = "measurement" /\ Measurement(n).seq = n
      BY <1>3, RowKinds
    <2>2. Enqueue(Measurement(n))
      BY <1>8 DEF Store
    <2>3. /\ LogTypes' /\ Naming' /\ FlightNaming' /\ Coverage'
          /\ DOMAIN log' = DOMAIN log \cup {alloc + 1}
          /\ log'[alloc + 1].row = Measurement(n)
          /\ \A p \in DOMAIN log : log'[p] = log[p]
      BY <1>1, <2>1, <2>2, Enqueued
    <2>4. NoOrphanRow'
      BY <1>2, <1>4, <1>8, <2>1, <2>3 DEF PublicationInvariant, NoOrphanRow
    <2>5. PreActivationKept'
      BY <1>1, <1>4, <1>7, <2>1, <2>3 DEF PublicationInvariant, PreActivationKept
    <2> QED BY <1>5, <1>6, <2>3, <2>4, <2>5 DEF PublicationInvariant
  <1>9. CASE ~(~out /\ Admitted)
    <2>1. UNCHANGED <<log, alloc>>
      BY <1>9 DEF Store, outbox
    <2>2. LogTypes' /\ Naming' /\ FlightNaming' /\ Coverage'
      BY <1>1, <2>1, LogLeft
    <2>3. NoOrphanRow' /\ PreActivationKept'
      BY <1>1, <1>4, <1>7, <2>1 DEF PublicationInvariant, NoOrphanRow, PreActivationKept
    <2> QED BY <1>5, <1>6, <2>2, <2>3 DEF PublicationInvariant
  <1> QED BY <1>8, <1>9

(* A reading grows old. *)
LEMMA ExpireStep ==
    ASSUME PublicationInvariant, NEW s, Expire(s)
    PROVE  PublicationInvariant'
  <1> DEFINE new == [readings[s] EXCEPT !.old = TRUE]
  <1>1. /\ s \in DOMAIN readings /\ readings' = [readings EXCEPT ![s] = new]
        /\ readings \in [DOMAIN readings -> [old : BOOLEAN, out : BOOLEAN]]
        /\ UNCHANGED <<epoch, renewed, lastSeq, log, alloc, target, act, flight, received>>
    BY DEF PublicationInvariant, ReadingTypes, Expire, ledger, outbox, others
  <1>2. new \in [old : BOOLEAN, out : BOOLEAN] /\ new.out = readings[s].out
    BY <1>1, Zenon
  <1> HIDE DEF new
  <1>3. /\ DOMAIN readings' = DOMAIN readings
        /\ readings' \in [DOMAIN readings -> [old : BOOLEAN, out : BOOLEAN]]
        /\ \A x \in DOMAIN readings : readings'[x].out = readings[x].out
    BY <1>1, <1>2
  <1>4. LogTypes' /\ Naming' /\ FlightNaming' /\ Coverage'
    BY <1>1, LogLeft
  <1>5. ReadingTypes' /\ OtherTypes'
    BY <1>1, <1>3 DEF PublicationInvariant, ReadingTypes, OtherTypes
  <1>6. NoOrphanRow' /\ PreActivationKept'
    BY <1>1, <1>3 DEF PublicationInvariant, NoOrphanRow, PreActivationKept
  <1> QED BY <1>4, <1>5, <1>6 DEF PublicationInvariant

(* A row that is no measurement is queued. *)
LEMMA AnnotationStep ==
    ASSUME PublicationInvariant, NEW row \in Rows, row.kind # "measurement", Enqueue(row),
           UNCHANGED <<epoch, renewed, readings, lastSeq, target, act, received>>,
           flight' \in {flight, Idle}
    PROVE  PublicationInvariant'
  <1>1. /\ LogTypes' /\ Naming' /\ FlightNaming' /\ Coverage'
        /\ DOMAIN log' = DOMAIN log \cup {alloc + 1}
        /\ log'[alloc + 1].row = row
        /\ \A p \in DOMAIN log : log'[p] = log[p]
    BY Enqueued
  <1>2. ReadingTypes' /\ OtherTypes'
    BY DEF PublicationInvariant, ReadingTypes, OtherTypes
  <1>3. NoOrphanRow' /\ PreActivationKept'
    BY <1>1 DEF PublicationInvariant, NoOrphanRow, PreActivationKept
  <1> QED BY <1>1, <1>2, <1>3 DEF PublicationInvariant

(* A restart gives up the cycle under way and may queue an epoch_start.    *)
LEMMA RestartStep ==
    ASSUME PublicationInvariant, Restart
    PROVE  PublicationInvariant'
  <1>1. /\ flight' = Idle
        /\ UNCHANGED <<epoch, renewed, readings, lastSeq, target, act, received>>
        /\ \/ renewed # 0 /\ Enqueue(EpochStart(renewed))
           \/ UNCHANGED <<log, alloc>>
    BY DEF Restart, outbox, ledger, series
  <1>2. CASE renewed # 0 /\ Enqueue(EpochStart(renewed))
    <2>1. renewed \in 1..MaxEpoch
      BY <1>2 DEF PublicationInvariant, OtherTypes
    <2>2. EpochStart(renewed) \in Rows /\ EpochStart(renewed).kind # "measurement"
      BY <2>1, RowKinds
    <2> QED BY <1>1, <1>2, <2>2, AnnotationStep
  <1>3. CASE UNCHANGED <<log, alloc>>
    BY <1>1, <1>3, NotNone
       DEF PublicationInvariant, LogTypes, ReadingTypes, OtherTypes, Naming, FlightNaming,
           Coverage, TakenBy, NoOrphanRow, PreActivationKept
  <1> QED BY <1>1, <1>2, <1>3

(* Readings leave the table together with their rows, or without any.      *)
LEMMA ReadingsLeave ==
    ASSUME PublicationInvariant, NEW S, NEW T,
           log' = Without(log, S), readings' = Without(readings, T),
           \A p \in DOMAIN log \ S : log[p].row.kind = "measurement" => log[p].row.seq \notin T,
           UNCHANGED <<epoch, renewed, lastSeq, alloc, target, act, flight, received>>
    PROVE  PublicationInvariant'
  <1>1. /\ LogTypes' /\ Naming' /\ FlightNaming' /\ Coverage'
        /\ DOMAIN log' = DOMAIN log \ S
        /\ \A p \in DOMAIN log' : log'[p] = log[p]
    BY Pruned, Zenon
  <1>2. /\ DOMAIN readings' = DOMAIN readings \ T
        /\ \A s \in DOMAIN readings' : readings'[s] = readings[s]
        /\ readings' = [s \in DOMAIN readings' |-> readings'[s]]
    BY DEF Without, Restrict
  <1>3. ReadingTypes'
    <2>1. \A s \in DOMAIN readings' : readings'[s] \in [old : BOOLEAN, out : BOOLEAN]
      BY <1>2 DEF PublicationInvariant, ReadingTypes
    <2> QED BY <1>2, <2>1 DEF PublicationInvariant, ReadingTypes
  <1>4. OtherTypes'
    BY DEF PublicationInvariant, OtherTypes
  <1>5. NoOrphanRow' /\ PreActivationKept'
    BY <1>1, <1>2 DEF PublicationInvariant, NoOrphanRow, PreActivationKept
  <1> QED BY <1>1, <1>3, <1>4, <1>5 DEF PublicationInvariant

(* Retention deletes the rows of the readings it deletes. *)
LEMMA RetainStep ==
    ASSUME PublicationInvariant, Retain
    PROVE  PublicationInvariant'
  <1> DEFINE S == Acked \cup RowsOf(Purgeable)
  <1>1. /\ log' = Without(log, S) /\ readings' = Without(readings, Purgeable)
        /\ UNCHANGED <<epoch, renewed, lastSeq, alloc, target, act, flight, received>>
    BY DEF Retain, ledger, others
  <1>2. \A p \in DOMAIN log \ S : log[p].row.kind = "measurement" => log[p].row.seq \notin Purgeable
    BY DEF RowsOf
  <1> HIDE DEF S
  <1> QED BY <1>1, <1>2, ReadingsLeave

(* An undone replacement takes the rows of its readings with it. *)
LEMMA ReplaceUndoStep ==
    ASSUME PublicationInvariant, NEW since, NEW abandon \in BOOLEAN, ReplaceUndo(since, abandon)
    PROVE  PublicationInvariant'
  <1> DEFINE window == {s \in DOMAIN readings : s >= since}
  <1>1. /\ readings' = [s \in DOMAIN readings |-> [readings[s] EXCEPT !.out = @ \/ s \in window]]
        /\ log' = Without(log, RowsOf(window))
        /\ readings \in [DOMAIN readings -> [old : BOOLEAN, out : BOOLEAN]]
        /\ UNCHANGED <<epoch, renewed, lastSeq, alloc, target, act, flight, received>>
    BY DEF PublicationInvariant, ReadingTypes, ReplaceUndo, ledger, others
  <1> HIDE DEF window
  <1>2. /\ LogTypes' /\ Naming' /\ FlightNaming' /\ Coverage'
        /\ DOMAIN log' = DOMAIN log \ RowsOf(window)
        /\ \A p \in DOMAIN log' : log'[p] = log[p]
    BY <1>1, Pruned, Zenon
  <1>3. ASSUME NEW s \in DOMAIN readings
        PROVE  /\ readings'[s] \in [old : BOOLEAN, out : BOOLEAN]
               /\ s \notin window => readings'[s].out = readings[s].out
    <2>1. readings[s] \in [old : BOOLEAN, out : BOOLEAN]
      BY <1>1
    <2>2. readings'[s] = [readings[s] EXCEPT !.out = readings[s].out \/ s \in window]
      BY <1>1
    <2>3. (readings[s].out \/ s \in window) \in BOOLEAN
      OBVIOUS
    <2>4. readings'[s] \in [old : BOOLEAN, out : BOOLEAN]
      BY <2>1, <2>2, <2>3, Zenon
    <2>5. readings'[s].out = (readings[s].out \/ s \in window) /\ readings[s].out \in BOOLEAN
      BY <2>1, <2>2
    <2> QED BY <2>4, <2>5
  <1>4. ReadingTypes' /\ OtherTypes'
    BY <1>1, <1>3 DEF PublicationInvariant, ReadingTypes, OtherTypes
  <1>5. NoOrphanRow'
    <2>1. SUFFICES ASSUME NEW p \in DOMAIN log', log'[p].row.kind = "measurement"
                   PROVE  log'[p].row.seq \in DOMAIN readings' /\ ~readings'[log'[p].row.seq].out
      BY DEF NoOrphanRow
    <2>2. p \in DOMAIN log /\ p \notin RowsOf(window) /\ log'[p] = log[p]
      BY <1>2
    <2>3. log[p].row.seq \in DOMAIN readings /\ ~readings[log[p].row.seq].out
      BY <2>1, <2>2 DEF PublicationInvariant, NoOrphanRow
    <2>4. log[p].row.seq \notin window
      BY <2>1, <2>2 DEF RowsOf
    <2>5. DOMAIN readings' = DOMAIN readings
      BY <1>1
    <2> QED BY <1>3, <2>2, <2>3, <2>4, <2>5
  <1>6. PreActivationKept'
    BY <1>1, <1>2 DEF PublicationInvariant, PreActivationKept
  <1> QED BY <1>2, <1>4, <1>5, <1>6 DEF PublicationInvariant

-----------------------------------------------------------------------------
(* The steps of the publisher.                                             *)

(* A set of numbers of the log is finite. *)
LEMMA FiniteRows ==
    ASSUME PublicationInvariant, NEW S \in SUBSET DOMAIN log
    PROVE  IsFiniteSet(S)
  <1>1. alloc \in Nat /\ S \subseteq 1..alloc
    BY DEF PublicationInvariant, LogTypes
  <1>2. IsFiniteSet(1..alloc)
    BY <1>1, FS_Interval
  <1> QED BY <1>1, <1>2, FS_Subset

(* A batch holds every unacknowledged row up to any row of it. *)
LEMMA BatchIsPrefix ==
    ASSUME PublicationInvariant, NEW last \in Batch, NEW p \in Unacked(epoch, target), p <= last
    PROVE  p \in Batch
  <1> DEFINE rows == Unacked(epoch, target)
             P == {q \in rows : q <= p}
             L == {q \in rows : q <= last}
  <1>1. rows \subseteq DOMAIN log /\ DOMAIN log \subseteq Nat
    BY DEF Unacked, PublicationInvariant, LogTypes
  <1>2. last \in rows /\ Cardinality(L) <= BatchLimit
    BY DEF Batch
  <1>3. P \in SUBSET L
    BY <1>1, <1>2
  <1>4. IsFiniteSet(L) /\ IsFiniteSet(P)
    <2>1. L \in SUBSET DOMAIN log /\ P \in SUBSET DOMAIN log
      BY <1>1
    <2> HIDE DEF L, P
    <2> QED BY <2>1, FiniteRows
  <1>5. Cardinality(P) <= Cardinality(L) /\ Cardinality(P) \in Nat /\ Cardinality(L) \in Nat
    <2> HIDE DEF L, P
    <2> QED BY <1>3, <1>4, FS_Subset, FS_CardinalityType
  <1>6. Cardinality(P) <= BatchLimit
    <2> HIDE DEF L, P
    <2> QED BY <1>2, <1>5, PublicationAssumption
  <1> QED BY <1>6 DEF Batch

(* A step of the cycle leaves the tables alone. *)
LEMMA CycleLeaves ==
    ASSUME PublicationInvariant,
           UNCHANGED <<epoch, renewed, readings, lastSeq, log, alloc, target, act>>,
           flight' \in Flights \cup {Idle}, Naming', FlightNaming', Coverage'
    PROVE  PublicationInvariant'
  BY DEF PublicationInvariant, LogTypes, ReadingTypes, OtherTypes, NoOrphanRow, PreActivationKept

(* The cycle is given up. *)
LEMMA GivenUp ==
    ASSUME PublicationInvariant, flight' = Idle,
           UNCHANGED <<epoch, renewed, readings, lastSeq, log, alloc, target, act, received>>
    PROVE  PublicationInvariant'
  <1>1. Naming' /\ FlightNaming' /\ Coverage'
    BY NotNone DEF PublicationInvariant, Naming, FlightNaming, Coverage, TakenBy
  <1> QED BY <1>1, CycleLeaves

(* The batch is what the log says, and starts where the cursor stands. *)
LEMMA PrepareStep ==
    ASSUME PublicationInvariant, NEW last \in 1..MaxPublications, Prepare(last)
    PROVE  PublicationInvariant'
  <1> DEFINE D == {p \in Batch : p <= last}
             rows == Restrict(log, D)
             new == [stage |-> "post", id |-> target.id, endpoint |-> target.endpoint,
                     epoch |-> epoch, last |-> last, rows |-> rows]
  <1>1. /\ last \in Batch /\ target.id = "archive" /\ flight' = new
        /\ UNCHANGED <<epoch, renewed, readings, lastSeq, log, alloc, target, act, received>>
    BY DEF Prepare, ledger, series, outbox
  <1>2. target \in Targets
    BY <1>1, NotNone DEF PublicationInvariant, OtherTypes
  <1>3. /\ Batch \subseteq Unacked(epoch, target) /\ D \subseteq DOMAIN log
        /\ \A p \in D : log[p].epoch = epoch
    BY DEF Batch, Unacked
  <1>4. /\ log \in [DOMAIN log -> LogRows] /\ DOMAIN log \subseteq 1..alloc
        /\ alloc \in 0..MaxPublications /\ epoch \in 1..MaxEpoch
    BY DEF PublicationInvariant, LogTypes, OtherTypes
  <1>5. DOMAIN rows = D /\ \A p \in D : rows[p] = log[p]
    BY DEF Restrict
  <1>6. rows \in Batches
    <2>1. rows \in [D -> LogRows]
      BY <1>3, <1>4 DEF Restrict
    <2>2. D \in SUBSET Nat
      BY <1>3, <1>4
    <2> HIDE DEF D, rows
    <2> QED BY <2>1, <2>2 DEF Batches
  <1>7. \A p \in D : p <= last
    OBVIOUS
  <1>8. \A p \in Unacked(epoch, target) : p <= last => p \in D
    BY <1>1, BatchIsPrefix
  <1>9. last \in DOMAIN log
    BY <1>1, <1>3 DEF Unacked
  <1> HIDE DEF D, rows
  <1>10. new \in Flights /\ new # Idle
    <2>1. target.endpoint \in Endpoints \cup {"edge"}
      BY <1>2 DEF Targets
    <2>2. new \in Flights
      BY <1>1, <1>4, <1>6, <2>1 DEF Flights
    <2> QED BY <2>2, NotNone
  <1>11. new.stage = "post" /\ new.epoch = epoch /\ new.last = last /\ new.rows = rows
    OBVIOUS
  <1> HIDE DEF new
  <1>12. Naming'
    BY <1>1 DEF PublicationInvariant, Naming
  <1>13. FlightNaming'
    <2>1. last <= alloc /\ \A p \in D : p \in DOMAIN log /\ p \in Nat
      BY <1>3, <1>4, <1>9
    <2> QED BY <1>1, <1>3, <1>4, <1>5, <1>7, <1>11, <2>1 DEF PublicationInvariant, Naming, FlightNaming
  <1>14. Coverage'
    <2>1. ASSUME NEW p \in DOMAIN log, log[p].epoch = epoch, p <= last, p \notin D
          PROVE  TakenBy(epoch, p)
      <3>1. p \notin Unacked(epoch, target)
        BY <1>8, <2>1
      <3>2. ~(p > EffectiveCursor(epoch, target)) /\ p \in Nat /\ p >= 1
        BY <1>4, <2>1, <3>1 DEF Unacked
      <3>3. target.cursor \in Nat /\ target # NoTarget
        BY <1>2, NotNone DEF Targets
      <3>4. target.cursorEpoch = epoch /\ p <= target.cursor
        BY <3>2, <3>3 DEF EffectiveCursor
      <3> QED BY <2>1, <3>3, <3>4 DEF PublicationInvariant, Coverage
    <2> QED BY <1>1, <1>5, <1>11, <2>1 DEF PublicationInvariant, Coverage, TakenBy
  <1> QED BY <1>1, <1>10, <1>12, <1>13, <1>14, CycleLeaves

(* The archive takes the batch under the names the log gave its rows. *)
LEMMA DeliverStep ==
    ASSUME PublicationInvariant, NEW answered \in BOOLEAN, Deliver(answered)
    PROVE  PublicationInvariant'
  <1> DEFINE new == [flight EXCEPT !.stage = "acked"]
  <1>1. /\ flight.stage = "post" /\ received' = received \cup Taken
        /\ flight' \in {new, Idle}
        /\ UNCHANGED <<epoch, renewed, readings, lastSeq, log, alloc, target, act>>
    BY DEF Deliver, ledger, series, outbox
  <1>2. flight \in Flights /\ flight # Idle
    BY <1>1, NotNone DEF PublicationInvariant, OtherTypes
  <1>3. /\ new \in Flights /\ new.stage = "acked"
        /\ new.epoch = flight.epoch /\ new.last = flight.last /\ new.rows = flight.rows
    BY <1>2 DEF Flights
  <1> HIDE DEF new
  <1>4. /\ flight.epoch \in Nat /\ flight.last \in Nat /\ flight.epoch <= epoch
        /\ flight.epoch = epoch => flight.last <= alloc
        /\ epoch \in Nat /\ alloc \in Nat
    BY <1>2, PublicationAssumption
       DEF PublicationInvariant, LogTypes, OtherTypes, FlightNaming, Flights
  <1>5. \A r \in Taken : \E p \in DOMAIN flight.rows :
            r.epoch = flight.epoch /\ r.pub = p /\ r.row = flight.rows[p].row
    BY DEF Taken
  <1>6. ASSUME NEW p \in DOMAIN flight.rows
        PROVE  \E r \in Taken : r.epoch = flight.epoch /\ r.pub = p
    <2> DEFINE r == [at |-> flight.endpoint, epoch |-> flight.epoch, pub |-> p,
                     row |-> flight.rows[p].row]
    <2>1. r \in Taken
      BY DEF Taken
    <2>2. r.epoch = flight.epoch /\ r.pub = p
      OBVIOUS
    <2> HIDE DEF r
    <2> QED BY <2>1, <2>2
  <1>7. \A p \in DOMAIN flight.rows :
            /\ p \in Nat /\ p <= flight.last
            /\ p \in DOMAIN log /\ log[p].epoch = flight.epoch => log[p].row = flight.rows[p].row
            /\ \A r \in received : r.epoch = flight.epoch /\ r.pub = p => r.row = flight.rows[p].row
    BY <1>2 DEF PublicationInvariant, FlightNaming
  <1>8. Naming'
    <2>1. \A r \in received' : /\ r.epoch \in Nat /\ r.pub \in Nat /\ r.epoch <= epoch
                               /\ r.epoch = epoch => r.pub <= alloc
      BY <1>1, <1>4, <1>5, <1>7 DEF PublicationInvariant, Naming
    <2>2. \A x, y \in received' : x.epoch = y.epoch /\ x.pub = y.pub => x.row = y.row
      BY <1>1, <1>5, <1>7 DEF PublicationInvariant, Naming
    <2>3. \A r \in received', p \in DOMAIN log :
              r.epoch = log[p].epoch /\ r.pub = p => r.row = log[p].row
      BY <1>1, <1>5, <1>7 DEF PublicationInvariant, Naming
    <2> QED BY <1>1, <2>1, <2>2, <2>3 DEF Naming
  <1>9. FlightNaming'
    <2>1. \A p \in DOMAIN flight.rows, r \in received' :
              r.epoch = flight.epoch /\ r.pub = p => r.row = flight.rows[p].row
      BY <1>1, <1>5, <1>7
    <2> QED BY <1>1, <1>3, <1>4, <1>7, <2>1 DEF FlightNaming
  <1>10. Coverage'
    <2>1. received \subseteq received' /\ Taken \subseteq received'
      BY <1>1
    <2>2. \A p \in DOMAIN flight.rows : \E r \in received' : r.epoch = flight.epoch /\ r.pub = p
      BY <1>6, <2>1
    <2>3. flight'.stage = "acked" => flight' = new
      BY <1>1, NotNone
    <2> QED BY <1>1, <1>2, <1>3, <2>1, <2>2, <2>3 DEF PublicationInvariant, Coverage, TakenBy
  <1>11. flight' \in Flights \cup {Idle}
    BY <1>1, <1>3
  <1> QED BY <1>1, <1>8, <1>9, <1>10, <1>11, CycleLeaves

(* The target changes, and the cycle goes on or ends. *)
LEMMA TargetStep ==
    ASSUME PublicationInvariant, target' \in Targets \cup {NoTarget},
           target' # NoTarget => target'.cursorEpoch <= epoch,
           target' # NoTarget /\ target'.cursorEpoch = epoch =>
               /\ target'.cursor <= alloc
               /\ \A p \in DOMAIN log : log[p].epoch = epoch /\ p <= target'.cursor => TakenBy(epoch, p),
           flight' \in {flight, Idle},
           UNCHANGED <<epoch, renewed, readings, lastSeq, log, alloc, act, received>>
    PROVE  PublicationInvariant'
  <1>1. LogTypes' /\ ReadingTypes' /\ OtherTypes'
    BY DEF PublicationInvariant, LogTypes, ReadingTypes, OtherTypes
  <1>2. Naming' /\ FlightNaming'
    BY DEF PublicationInvariant, Naming, FlightNaming
  <1>3. Coverage'
    BY NotNone DEF PublicationInvariant, Coverage, TakenBy
  <1>4. NoOrphanRow' /\ PreActivationKept'
    BY DEF PublicationInvariant, NoOrphanRow, PreActivationKept
  <1> QED BY <1>1, <1>2, <1>3, <1>4 DEF PublicationInvariant

(* The cursor moves to the end of a batch that was taken whole. *)
LEMMA AdvanceStep ==
    ASSUME PublicationInvariant, Advance
    PROVE  PublicationInvariant'
  <1> DEFINE mid == [target EXCEPT !.cursorEpoch = flight.epoch]
             new == [mid EXCEPT !.cursor = flight.last]
  <1>1. /\ flight.stage = "acked" /\ flight' = Idle
        /\ UNCHANGED <<epoch, renewed, readings, lastSeq, log, alloc, act, received>>
    BY DEF Advance, ledger, series, outbox
  <1>2. flight \in Flights /\ flight # Idle
    BY <1>1, NotNone, SMTT(30) DEF PublicationInvariant, OtherTypes
  <1>3. CASE target' = target
    BY <1>1, <1>3, TargetStep, SMTT(30) DEF PublicationInvariant, OtherTypes, Coverage
  <1>4. CASE target.id = flight.id /\ target' = new
    <2>1. flight.epoch \in Nat /\ flight.last \in 0..MaxPublications /\ flight.id # "none"
      BY <1>2 DEF Flights
    <2>2. target \in Targets
      BY <1>4, <2>1, NotNone DEF PublicationInvariant, OtherTypes
    <2>3. mid \in Targets /\ mid.cursorEpoch = flight.epoch
      BY <2>1, <2>2 DEF Targets
    <2> HIDE DEF mid
    <2>4. new \in Targets /\ new.cursorEpoch = flight.epoch /\ new.cursor = flight.last
      BY <2>1, <2>3, SMTT(30) DEF Targets
    <2> HIDE DEF new
    <2>5. /\ flight.epoch <= epoch
          /\ flight.epoch = epoch =>
                /\ flight.last <= alloc
                /\ \A p \in DOMAIN log : log[p].epoch = epoch /\ p <= flight.last => TakenBy(epoch, p)
      BY <1>1, <1>2 DEF PublicationInvariant, FlightNaming, Coverage
    <2> QED BY <1>1, <1>4, <2>4, <2>5, TargetStep
  <1>5. target' = target \/ (target.id = flight.id /\ target' = new)
    <2>1. target' = target \/ (target.id = flight.id
              /\ target' = [target EXCEPT !.cursorEpoch = flight.epoch, !.cursor = flight.last])
      BY DEF Advance
    <2> QED BY <2>1
  <1> QED BY <1>3, <1>4, <1>5

-----------------------------------------------------------------------------
(* The steps of the operator and of the activation.                        *)

(* The commissioning smoke queues a row that is no measurement. *)
LEMMA EnqueueSmokeStep ==
    ASSUME PublicationInvariant, EnqueueSmoke
    PROVE  PublicationInvariant'
  <1>1. /\ Enqueue(Smoke)
        /\ UNCHANGED <<epoch, renewed, readings, lastSeq, target, act, flight, received>>
    BY DEF EnqueueSmoke, ledger, series, others
  <1>2. Smoke \in Rows /\ Smoke.kind # "measurement"
    BY RowKinds
  <1> QED BY <1>1, <1>2, AnnotationStep

(* A new target has no cursor. *)
LEMMA TargetAddStep ==
    ASSUME PublicationInvariant, NEW e \in Endpoints, TargetAdd(e)
    PROVE  PublicationInvariant'
  <1>1. /\ target' = Target("archive", e, FALSE)
        /\ UNCHANGED <<epoch, renewed, readings, lastSeq, log, alloc, act, flight, received>>
    BY DEF TargetAdd, ledger, series, outbox
  <1>2. Target("archive", e, FALSE) \in Targets /\ Target("archive", e, FALSE).cursorEpoch = 0
    BY PublicationAssumption DEF Target, Targets
  <1>3. epoch \in Nat /\ epoch > 0
    BY DEF PublicationInvariant, OtherTypes
  <1>4. target' \in Targets /\ target'.cursorEpoch = 0
    BY <1>1, <1>2, Zenon
  <1>5. target'.cursorEpoch <= epoch /\ target'.cursorEpoch # epoch
    BY <1>3, <1>4
  <1> QED BY <1>1, <1>4, <1>5, TargetStep, Zenon

(* The second half of an addition gives custody, and moves no cursor. *)
LEMMA TargetSmokeStep ==
    ASSUME PublicationInvariant, NEW ok \in BOOLEAN, TargetSmoke(ok)
    PROVE  PublicationInvariant'
  <1> DEFINE new == [target EXCEPT !.responsible = TRUE]
  <1>1. /\ target' = target \/ (target.id = "archive" /\ target' = new)
        /\ UNCHANGED <<epoch, renewed, readings, lastSeq, log, alloc, act, flight, received>>
    BY DEF TargetSmoke, ledger, series, outbox
  <1>2. target.id = "archive" => /\ new \in Targets /\ target # NoTarget
                                 /\ new.cursorEpoch = target.cursorEpoch /\ new.cursor = target.cursor
    <2>1. SUFFICES ASSUME target.id = "archive"
                   PROVE  /\ new \in Targets /\ target # NoTarget
                          /\ new.cursorEpoch = target.cursorEpoch /\ new.cursor = target.cursor
      OBVIOUS
    <2>2. target \in Targets /\ target # NoTarget
      BY <2>1, NotNone DEF PublicationInvariant, OtherTypes
    <2> QED BY <2>2, Zenon DEF Targets
  <1> HIDE DEF new
  <1>3. target' \in Targets \cup {NoTarget}
    BY <1>1, <1>2 DEF PublicationInvariant, OtherTypes
  <1>4. target' # NoTarget => /\ target # NoTarget
                              /\ target'.cursorEpoch = target.cursorEpoch /\ target'.cursor = target.cursor
    BY <1>1, <1>2
  <1>5. /\ target' # NoTarget => target'.cursorEpoch <= epoch
        /\ target' # NoTarget /\ target'.cursorEpoch = epoch =>
               /\ target'.cursor <= alloc
               /\ \A p \in DOMAIN log : log[p].epoch = epoch /\ p <= target'.cursor => TakenBy(epoch, p)
    BY <1>4 DEF PublicationInvariant, OtherTypes, Coverage
  <1> QED BY <1>1, <1>3, <1>5, TargetStep

(* A removed target leaves the log. *)
LEMMA TargetRemoveStep ==
    ASSUME PublicationInvariant, NEW abandon \in BOOLEAN, TargetRemove(abandon)
    PROVE  PublicationInvariant'
  <1>1. /\ target' = NoTarget
        /\ UNCHANGED <<epoch, renewed, readings, lastSeq, log, alloc, act, flight, received>>
    BY DEF TargetRemove, ledger, series, outbox, others
  <1> QED BY <1>1, TargetStep

(* The Edge's target is installed on an unused stream. *)
LEMMA InstallEdgeTargetStep ==
    ASSUME PublicationInvariant, InstallEdgeTarget
    PROVE  PublicationInvariant'
  <1> DEFINE new == Target("edge", "edge", TRUE)
             next == [act EXCEPT !.state = "discovery_only"]
  <1>1. /\ target' = new /\ act' = next
        /\ UNCHANGED <<epoch, renewed, readings, lastSeq, log, alloc, flight, received>>
    BY DEF InstallEdgeTarget, ledger, series, outbox, others
  <1>2. new \in Targets /\ new.cursorEpoch = 0
    BY PublicationAssumption DEF Target, Targets
  <1>3. /\ next \in Activations /\ next.state # "active"
        /\ next.discard = act.discard /\ next.cleanup = act.cleanup
    BY DEF PublicationInvariant, OtherTypes, Activations
  <1>4. epoch \in Nat /\ epoch > 0
    BY DEF PublicationInvariant, OtherTypes
  <1> HIDE DEF new, next
  <1>5. LogTypes' /\ ReadingTypes' /\ OtherTypes'
    BY <1>1, <1>2, <1>3, <1>4, SMTT(30) DEF PublicationInvariant, LogTypes, ReadingTypes, OtherTypes
  <1>6. Naming' /\ FlightNaming'
    BY <1>1 DEF PublicationInvariant, Naming, FlightNaming
  <1>7. Coverage'
    BY <1>1, <1>2, <1>4 DEF PublicationInvariant, Coverage, TakenBy
  <1>8. NoOrphanRow' /\ PreActivationKept'
    BY <1>1, <1>3 DEF PublicationInvariant, NoOrphanRow, PreActivationKept
  <1> QED BY <1>5, <1>6, <1>7, <1>8 DEF PublicationInvariant

(* The node is activated while the log is empty. *)
LEMMA ApplyActivationStep ==
    ASSUME PublicationInvariant, ApplyActivation
    PROVE  PublicationInvariant'
  <1>1. PICK b \in 0..lastSeq : act' = [state |-> "active", cleanup |-> 0, discard |-> b]
    BY DEF ApplyActivation
  <1>2. /\ DOMAIN log = {}
        /\ UNCHANGED <<epoch, renewed, readings, lastSeq, log, alloc, target, flight, received>>
    BY DEF ApplyActivation, Unused, ledger, series, outbox, others
  <1>3. LogTypes' /\ Naming' /\ FlightNaming' /\ Coverage'
    BY <1>2, LogLeft
  <1>4. lastSeq \in Nat /\ DOMAIN readings \subseteq 1..lastSeq
    BY DEF PublicationInvariant, ReadingTypes
  <1>5. act' \in Activations /\ act'.cleanup = 0 /\ act'.discard = b
    BY <1>1, <1>4 DEF Activations
  <1>6. ReadingTypes' /\ OtherTypes'
    BY <1>2, <1>4, <1>5 DEF PublicationInvariant, ReadingTypes, OtherTypes
  <1>7. NoOrphanRow' /\ PreActivationKept'
    BY <1>2, <1>4, <1>5 DEF PublicationInvariant, NoOrphanRow, PreActivationKept
  <1> QED BY <1>3, <1>6, <1>7 DEF PublicationInvariant

(* The cleanup deletes readings from before the activation, which no row is about. *)
LEMMA CleanupStep ==
    ASSUME PublicationInvariant, CleanupPreActivation
    PROVE  PublicationInvariant'
  <1> DEFINE rest == {s \in DOMAIN readings : act.cleanup < s /\ s <= act.discard}
             batch == {s \in rest : Cardinality({r \in rest : r <= s}) <= CleanupLimit}
             next(c) == [act EXCEPT !.cleanup = c]
             gone(c) == {s \in DOMAIN readings : act.cleanup < s /\ s <= c}
  <1>1. /\ act.state = "active"
        /\ UNCHANGED <<epoch, renewed, lastSeq, log, alloc, target, flight, received>>
    BY DEF CleanupPreActivation, ledger, outbox, others
  <1>2. \/ rest = {} /\ act' = next(act.discard) /\ UNCHANGED readings
        \/ \E end \in batch : readings' = Without(readings, gone(end)) /\ act' = next(end)
    BY Zenon DEF CleanupPreActivation
  <1>3. /\ act \in Activations /\ act.discard \in Nat /\ act.cleanup \in Nat
        /\ act.cleanup <= act.discard /\ act.discard <= lastSeq
        /\ DOMAIN readings \subseteq 1..lastSeq /\ lastSeq \in Nat
    BY DEF PublicationInvariant, OtherTypes, ReadingTypes, Activations
  <1>4. PICK c \in act.cleanup..act.discard :
            /\ act' = next(c)
            /\ DOMAIN readings' = DOMAIN readings \ gone(c)
            /\ \A s \in DOMAIN readings' : readings'[s] = readings[s]
            /\ readings' = [s \in DOMAIN readings' |-> readings'[s]]
    <2>1. CASE rest = {} /\ act' = next(act.discard) /\ UNCHANGED readings
      <3>1. gone(act.discard) = {}
        BY <2>1
      <3>2. readings' = [s \in DOMAIN readings' |-> readings'[s]]
        BY <2>1 DEF PublicationInvariant, ReadingTypes
      <3>3. act.discard \in act.cleanup..act.discard
        BY <1>3
      <3> HIDE DEF gone, next
      <3> QED BY <2>1, <3>1, <3>2, <3>3, Zenon
    <2>2. CASE \E end \in batch : readings' = Without(readings, gone(end)) /\ act' = next(end)
      <3>1. PICK end \in batch : readings' = Without(readings, gone(end)) /\ act' = next(end)
        BY <2>2, Zenon
      <3>2. end \in act.cleanup..act.discard
        <4>1. end \in DOMAIN readings /\ act.cleanup < end /\ end <= act.discard
          OBVIOUS
        <4> QED BY <1>3, <4>1
      <3> HIDE DEF gone, next
      <3>3. /\ DOMAIN readings' = DOMAIN readings \ gone(end)
            /\ \A s \in DOMAIN readings' : readings'[s] = readings[s]
            /\ readings' = [s \in DOMAIN readings' |-> readings'[s]]
        BY <3>1 DEF Without, Restrict
      <3> QED BY <3>1, <3>2, <3>3
    <2> QED BY <1>2, <2>1, <2>2, Zenon
  <1>5. /\ act' \in Activations /\ act'.cleanup = c /\ act'.discard = act.discard
        /\ c \in Nat /\ c <= act.discard
    BY <1>3, <1>4 DEF Activations
  <1>6. LogTypes' /\ Naming' /\ FlightNaming' /\ Coverage'
    BY <1>1, LogLeft
  <1>7. ReadingTypes'
    <2>1. \A s \in DOMAIN readings' : readings'[s] \in [old : BOOLEAN, out : BOOLEAN]
      BY <1>4 DEF PublicationInvariant, ReadingTypes
    <2> QED BY <1>1, <1>4, <2>1 DEF PublicationInvariant, ReadingTypes
  <1>8. OtherTypes'
    BY <1>1, <1>3, <1>5 DEF PublicationInvariant, OtherTypes
  <1>9. \A p \in DOMAIN log : log[p].row.kind = "measurement" =>
            log[p].row.seq \in DOMAIN readings /\ log[p].row.seq > act.discard
    BY <1>1 DEF PublicationInvariant, NoOrphanRow, PreActivationKept
  <1>10. NoOrphanRow'
    <2>1. \A s \in DOMAIN readings : s > act.discard => s \in DOMAIN readings'
      BY <1>3, <1>4, <1>5
    <2> QED BY <1>1, <1>4, <1>9, <2>1 DEF PublicationInvariant, NoOrphanRow
  <1>11. PreActivationKept'
    <2>1. \A s \in DOMAIN readings' : s > c
      <3>1. \A s \in DOMAIN readings : s > act.cleanup /\ s \in Nat
        BY <1>1, <1>3 DEF PublicationInvariant, PreActivationKept
      <3> QED BY <1>3, <1>4, <1>5, <3>1
    <2> QED BY <1>1, <1>5, <1>9, <2>1 DEF PreActivationKept
  <1> QED BY <1>6, <1>7, <1>8, <1>10, <1>11 DEF PublicationInvariant

-----------------------------------------------------------------------------
(* The steps to a new epoch.                                               *)

(* Nobody knows a record of an epoch that is only now begun. *)
LEMMA RenewEpochStep ==
    ASSUME PublicationInvariant, RenewEpoch
    PROVE  PublicationInvariant'
  <1>1. /\ epoch < MaxEpoch /\ epoch' = epoch + 1 /\ renewed' = epoch
        /\ UNCHANGED <<readings, lastSeq, log, alloc, target, act, flight, received>>
    BY DEF RenewEpoch, series, outbox, others
  <1>2. epoch \in 1..MaxEpoch
    BY DEF PublicationInvariant, OtherTypes
  <1>3. LogTypes' /\ ReadingTypes'
    BY <1>1, <1>2 DEF PublicationInvariant, LogTypes, ReadingTypes
  <1>4. OtherTypes'
    <2>1. target # NoTarget => target.cursorEpoch \in Nat /\ target.cursorEpoch <= epoch
      BY DEF PublicationInvariant, OtherTypes, Targets
    <2>2. epoch' \in 1..MaxEpoch /\ renewed' \in 0..MaxEpoch /\ renewed' < epoch'
      BY <1>1, <1>2, PublicationAssumption
    <2>3. target' # NoTarget => target'.cursorEpoch <= epoch'
      BY <1>1, <1>2, <2>1
    <2> QED BY <1>1, <2>2, <2>3 DEF PublicationInvariant, OtherTypes
  <1>5. Naming'
    <2>1. \A r \in received : r.epoch \in Nat /\ r.epoch <= epoch
      BY DEF PublicationInvariant, Naming
    <2> QED BY <1>1, <1>2, <2>1 DEF PublicationInvariant, Naming
  <1>6. FlightNaming'
    <2>1. flight # Idle => flight.epoch \in Nat /\ flight.epoch <= epoch
      BY SMTT(30) DEF PublicationInvariant, OtherTypes, FlightNaming, Flights
    <2> QED BY <1>1, <1>2, <2>1 DEF PublicationInvariant, FlightNaming
  <1>7. Coverage'
    <2>1. target # NoTarget => target.cursorEpoch \in Nat /\ target.cursorEpoch <= epoch
      BY DEF PublicationInvariant, OtherTypes, Targets
    <2> QED BY <1>1, <1>2, <2>1 DEF PublicationInvariant, Coverage, TakenBy
  <1>8. NoOrphanRow' /\ PreActivationKept'
    BY <1>1 DEF PublicationInvariant, NoOrphanRow, PreActivationKept
  <1> QED BY <1>3, <1>4, <1>5, <1>6, <1>7, <1>8 DEF PublicationInvariant

(* The place of a carried row in the rebuilt log is its own. *)
LEMMA Places ==
    ASSUME PublicationInvariant, NEW C \in SUBSET DOMAIN log
    PROVE  /\ Cardinality(C) \in Nat
           /\ \A p \in C : Cardinality({q \in C : q <= p}) \in 1..Cardinality(C)
           /\ \A p, q \in C :
                 Cardinality({x \in C : x <= p}) = Cardinality({x \in C : x <= q}) => p = q
  <1> DEFINE upTo(p) == {q \in C : q <= p}
  <1>1. IsFiniteSet(C) /\ Cardinality(C) \in Nat
    BY FiniteRows, FS_CardinalityType
  <1>2. C \subseteq Nat
    BY DEF PublicationInvariant, LogTypes
  <1>3. ASSUME NEW p \in C
        PROVE  /\ IsFiniteSet(upTo(p)) /\ Cardinality(upTo(p)) \in 1..Cardinality(C)
               /\ p \in upTo(p) /\ upTo(p) \in SUBSET C
    <2>1. p \in upTo(p) /\ upTo(p) \in SUBSET C
      BY <1>2
    <2> HIDE DEF upTo
    <2>2. /\ IsFiniteSet(upTo(p)) /\ Cardinality(upTo(p)) \in Nat
          /\ Cardinality(upTo(p)) <= Cardinality(C)
      BY <1>1, <2>1, FS_Subset, FS_CardinalityType
    <2>3. Cardinality(upTo(p)) # 0
      BY <2>1, <2>2, FS_EmptySet
    <2> QED BY <1>1, <2>1, <2>2, <2>3
  <1>4. ASSUME NEW p \in C, NEW q \in C, p < q
        PROVE  Cardinality(upTo(p)) # Cardinality(upTo(q))
    <2>1. upTo(p) \in SUBSET upTo(q) /\ q \notin upTo(p)
      BY <1>2, <1>4
    <2> HIDE DEF upTo
    <2> QED BY <1>3, <2>1, FS_Subset
  <1>5. \A p, q \in C : Cardinality(upTo(p)) = Cardinality(upTo(q)) => p = q
    <2> HIDE DEF upTo
    <2> QED BY <1>2, <1>4
  <1> QED BY <1>1, <1>3, <1>5

(* The rebuilt log is of the new epoch, holds what was carried and nothing *)
(* else but the new epoch's annotation.                                    *)
LEMMA Rebuilt ==
    ASSUME PublicationInvariant, NEW accepted, Recover(accepted)
    PROVE  /\ LogTypes'
           /\ \A n \in DOMAIN log' :
                 /\ log'[n].epoch = epoch + 1
                 /\ log'[n].row = EpochStart(epoch) \/ \E p \in DOMAIN log : log'[n].row = log[p].row
           /\ \A p \in DOMAIN log : p > accepted /\ log[p].row.kind # "epoch_start" =>
                 \E n \in DOMAIN log' : log'[n].row = log[p].row
  <1> DEFINE C == {p \in DOMAIN log : p > accepted /\ log[p].row.kind # "epoch_start"}
             at(p) == 1 + Cardinality({q \in C : q <= p})
             from(n) == CHOOSE p \in C : at(p) = n
             places == {at(p) : p \in C}
             moved == [n \in places |-> [epoch |-> epoch + 1, row |-> log[from(n)].row]]
             first == [epoch |-> epoch + 1, row |-> EpochStart(epoch)]
  <1>1. /\ epoch < MaxEpoch /\ epoch' = epoch + 1 /\ Cardinality(C) < MaxPublications
        /\ log' = With(moved, 1, first) /\ alloc' = 1 + Cardinality(C)
    BY DEF Recover, InstallRecoveryEpoch
  <1>2. epoch \in 1..MaxEpoch /\ log \in [DOMAIN log -> LogRows]
    BY DEF PublicationInvariant, OtherTypes, LogTypes
  <1>3. C \in SUBSET DOMAIN log
    OBVIOUS
  <1>4. \A p \in DOMAIN log : p > accepted /\ log[p].row.kind # "epoch_start" => p \in C
    OBVIOUS
  <1> HIDE DEF C
  <1>6. /\ Cardinality(C) \in Nat
        /\ \A p \in C : at(p) \in 2..(1 + Cardinality(C))
        /\ \A p, q \in C : at(p) = at(q) => p = q
    <2> DEFINE rank(p) == Cardinality({q \in C : q <= p})
    <2>1. /\ Cardinality(C) \in Nat
          /\ \A p \in C : rank(p) \in 1..Cardinality(C)
          /\ \A p, q \in C : rank(p) = rank(q) => p = q
      BY <1>3, Places, Zenon
    <2>2. \A p \in C : at(p) = 1 + rank(p)
      OBVIOUS
    <2> HIDE DEF rank, at
    <2> QED BY <2>1, <2>2
  <1> HIDE DEF at
  <1>7. \A n \in places : from(n) \in C /\ at(from(n)) = n
    <2>1. ASSUME NEW n \in places
          PROVE  from(n) \in C /\ at(from(n)) = n
      <3>1. \E p \in C : at(p) = n
        OBVIOUS
      <3> QED BY <3>1, Zenon
    <2> QED BY <2>1
  <1>8. \A p \in C : at(p) \in places /\ from(at(p)) = p
    <2>1. \A p \in C : at(p) \in places
      OBVIOUS
    <2> HIDE DEF from, places
    <2> QED BY <1>6, <1>7, <2>1
  <1> HIDE DEF from
  <1>9. places \subseteq 2..(1 + Cardinality(C))
    BY <1>6
  <1> HIDE DEF places
  <1>10. first \in LogRows /\ first.epoch = epoch + 1 /\ first.row = EpochStart(epoch)
    <2>1. EpochStart(epoch) \in Rows
      BY <1>2, RowKinds
    <2> QED BY <1>2, <2>1 DEF LogRows
  <1>11. ASSUME NEW n \in places
         PROVE  /\ moved[n] \in LogRows /\ moved[n].epoch = epoch + 1
                /\ moved[n].row = log[from(n)].row /\ from(n) \in DOMAIN log
    <2>1. from(n) \in DOMAIN log /\ log[from(n)].row \in Rows
      BY <1>2, <1>3, <1>7 DEF LogRows
    <2> DEFINE row == log[from(n)].row
    <2>2. moved[n] = [epoch |-> epoch + 1, row |-> row]
      OBVIOUS
    <2>3. row \in Rows
      BY <2>1
    <2> HIDE DEF row, moved
    <2>4. moved[n] \in LogRows /\ moved[n].epoch = epoch + 1 /\ moved[n].row = row
      BY <1>2, <2>2, <2>3 DEF LogRows
    <2> QED BY <2>1, <2>4 DEF row
  <1>12. DOMAIN moved = places
    OBVIOUS
  <1> HIDE DEF moved, first
  <1>13. /\ log' = [n \in places \cup {1} |-> IF n = 1 THEN first ELSE moved[n]]
         /\ 1 \notin places
    BY <1>1, <1>6, <1>9, <1>12 DEF With
  <1>14. /\ DOMAIN log' = places \cup {1} /\ log'[1] = first
         /\ \A n \in places : log'[n] = moved[n]
    BY <1>13
  <1>15. LogTypes'
    <2>1. log' \in [DOMAIN log' -> LogRows]
      BY <1>10, <1>11, <1>13, <1>14
    <2>2. alloc' \in 0..MaxPublications /\ DOMAIN log' \subseteq 1..alloc'
      <3> DEFINE n == Cardinality(C)
      <3>1. n \in Nat /\ n < MaxPublications /\ alloc' = 1 + n /\ MaxPublications \in Nat
        BY <1>1, <1>6, PublicationAssumption
      <3>2. DOMAIN log' = places \cup {1} /\ places \subseteq 2..(1 + n)
        BY <1>9, <1>14
      <3> HIDE DEF n
      <3>3. alloc' \in 0..MaxPublications
        BY <3>1
      <3>4. DOMAIN log' \subseteq 1..alloc'
        BY <3>1, <3>2
      <3> QED BY <3>3, <3>4
    <2>3. \A p \in DOMAIN log' : log'[p].epoch \in 1..epoch'
      BY <1>1, <1>2, <1>10, <1>11, <1>14
    <2> QED BY <2>1, <2>2, <2>3 DEF LogTypes
  <1>16. \A n \in DOMAIN log' :
             /\ log'[n].epoch = epoch + 1
             /\ log'[n].row = EpochStart(epoch) \/ \E p \in DOMAIN log : log'[n].row = log[p].row
    BY <1>10, <1>11, <1>14
  <1>17. \A p \in C : \E n \in DOMAIN log' : log'[n].row = log[p].row
    BY <1>8, <1>11, <1>14
  <1> QED BY <1>4, <1>15, <1>16, <1>17, SMTT(30)

(* The recovery keeps what is known: nobody knows the new epoch yet. *)
LEMMA RecoverStep ==
    ASSUME PublicationInvariant, NEW accepted, Recover(accepted)
    PROVE  PublicationInvariant'
  <1> DEFINE mid == [target EXCEPT !.cursorEpoch = epoch + 1]
             new == [mid EXCEPT !.cursor = 0]
  <1>1. /\ epoch < MaxEpoch /\ epoch' = epoch + 1 /\ target # NoTarget
        /\ UNCHANGED <<renewed, readings, lastSeq, act, flight, received>>
    BY DEF Recover, InstallRecoveryEpoch, series, others
  <1>2. target' = new
    <2>1. target' = [target EXCEPT !.cursorEpoch = epoch + 1, !.cursor = 0]
      BY DEF Recover
    <2> QED BY <2>1
  <1>3. /\ LogTypes'
        /\ \A n \in DOMAIN log' :
              /\ log'[n].epoch = epoch + 1
              /\ log'[n].row = EpochStart(epoch) \/ \E p \in DOMAIN log : log'[n].row = log[p].row
    BY Rebuilt
  <1>4. /\ epoch \in 1..MaxEpoch /\ target \in Targets /\ epoch \in Nat
        /\ EpochStart(epoch).kind # "measurement"
    BY <1>1, RowKinds DEF PublicationInvariant, OtherTypes
  <1>5. new \in Targets /\ new.cursorEpoch = epoch + 1 /\ new.cursor = 0
    <2>1. mid \in Targets /\ mid.cursorEpoch = epoch + 1
      BY <1>4 DEF Targets
    <2> HIDE DEF mid
    <2> QED BY <2>1, PublicationAssumption DEF Targets
  <1> HIDE DEF mid, new
  <1>6. OtherTypes'
    <2>1. epoch' \in 1..MaxEpoch /\ renewed' \in 0..MaxEpoch /\ renewed' < epoch'
      BY <1>1, <1>4, PublicationAssumption DEF PublicationInvariant, OtherTypes
    <2>2. target' \in Targets /\ target'.cursorEpoch <= epoch'
      BY <1>1, <1>2, <1>4, <1>5
    <2> QED BY <1>1, <2>1, <2>2 DEF PublicationInvariant, OtherTypes
  <1>7. Naming'
    <2>1. \A r \in received : r.epoch \in Nat /\ r.epoch <= epoch
      BY DEF PublicationInvariant, Naming
    <2>2. \A r \in received : r.epoch # epoch + 1 /\ r.epoch <= epoch + 1
      BY <1>4, <2>1
    <2> QED BY <1>1, <1>3, <2>2 DEF PublicationInvariant, Naming
  <1>8. FlightNaming' /\ Coverage'
    <2>1. flight # Idle => flight.epoch # epoch + 1 /\ flight.epoch <= epoch + 1
      BY <1>4 DEF PublicationInvariant, OtherTypes, FlightNaming, Flights
    <2>2. FlightNaming'
      BY <1>1, <1>3, <2>1 DEF PublicationInvariant, FlightNaming
    <2>3. \A p \in DOMAIN log' : ~(p <= 0)
      BY <1>3 DEF LogTypes
    <2>4. alloc' >= 0
      BY <1>3, SMTT(30) DEF LogTypes
    <2>5. Coverage'
      BY <1>1, <1>2, <1>3, <1>5, <2>1, <2>3, <2>4 DEF PublicationInvariant, Coverage, TakenBy
    <2> QED BY <2>2, <2>5
  <1>9. ReadingTypes' /\ NoOrphanRow' /\ PreActivationKept'
    BY <1>1, <1>3, <1>4 DEF PublicationInvariant, ReadingTypes, NoOrphanRow, PreActivationKept
  <1> QED BY <1>3, <1>6, <1>7, <1>8, <1>9 DEF PublicationInvariant

-----------------------------------------------------------------------------
(* The invariant holds.                                                    *)

(* Every step keeps the invariant. *)
LEMMA StepInvariant ==
    ASSUME PublicationInvariant, [Next]_vars
    PROVE  PublicationInvariant'
  <1>1. CASE UNCHANGED vars
    BY <1>1 DEF PublicationInvariant, LogTypes, ReadingTypes, OtherTypes, Naming, FlightNaming,
                Coverage, TakenBy, NoOrphanRow, PreActivationKept,
                vars, ledger, series, outbox, others
  <1>2. CASE PostFails
    <2>1. /\ flight' = Idle
          /\ UNCHANGED <<epoch, renewed, readings, lastSeq, log, alloc, target, act, received>>
      BY <1>2 DEF PostFails, ledger, series, outbox
    <2> QED BY <2>1, GivenUp
  <1>3. CASE \E out \in BOOLEAN : Store(out)
    BY <1>3, StoreStep
  <1>4. CASE \E s \in 1..MaxReadings : Expire(s)
    BY <1>4, ExpireStep
  <1>5. CASE \E s \in 1..MaxReadings : \E abandon \in BOOLEAN : ReplaceUndo(s, abandon)
    BY <1>5, ReplaceUndoStep
  <1>6. CASE EnqueueSmoke \/ Restart \/ Retain
    BY <1>6, EnqueueSmokeStep, RestartStep, RetainStep
  <1>7. CASE \E last \in 1..MaxPublications : Prepare(last)
    BY <1>7, PrepareStep
  <1>8. CASE \E answered \in BOOLEAN : Deliver(answered)
    BY <1>8, DeliverStep
  <1>9. CASE Advance
    BY <1>9, AdvanceStep
  <1>10. CASE \E e \in Endpoints : TargetAdd(e)
    BY <1>10, TargetAddStep
  <1>11. CASE \E ok \in BOOLEAN : TargetSmoke(ok)
    BY <1>11, TargetSmokeStep
  <1>12. CASE \E abandon \in BOOLEAN : TargetRemove(abandon)
    BY <1>12, TargetRemoveStep
  <1>13. CASE InstallEdgeTarget \/ ApplyActivation \/ CleanupPreActivation
    BY <1>13, InstallEdgeTargetStep, ApplyActivationStep, CleanupStep
  <1>14. CASE RenewEpoch
    BY <1>14, RenewEpochStep
  <1>15. CASE \E accepted \in 0..MaxPublications : Recover(accepted)
    BY <1>15, RecoverStep
  <1> QED
    BY <1>1, <1>2, <1>3, <1>4, <1>5, <1>6, <1>7, <1>8, <1>9, <1>10, <1>11, <1>12, <1>13, <1>14,
       <1>15, SMTT(30) DEF Next

(* The log, the target's cursor, the publish cycle and the archives agree  *)
(* on what each record is and on what was taken, in every reachable state  *)
(* of core/publish and its callers.                                        *)
THEOREM PublicationInvariantHolds == Spec => []PublicationInvariant
  <1>1. Init => PublicationInvariant
    BY InitInvariant
  <1>2. PublicationInvariant /\ [Next]_vars => PublicationInvariant'
    BY StepInvariant
  <1> QED BY <1>1, <1>2, PTL DEF Spec

(* The log can always be materialized: every row's reading is there and    *)
(* was not taken back, and nothing from before the activation is queued.   *)
THEOREM LogStaysSound == Spec => []LogIsSound
  <1>1. PublicationInvariant => LogIsSound
    <2>1. ASSUME PublicationInvariant PROVE TypeOK
      <3>1. /\ \A p \in DOMAIN log : log[p].epoch \in 1..epoch /\ log[p].row \in Rows
            /\ alloc \in 0..MaxPublications /\ DOMAIN log \subseteq 1..alloc
        BY <2>1 DEF PublicationInvariant, LogTypes, LogRows
      <3>2. /\ lastSeq \in 0..MaxReadings /\ DOMAIN readings \subseteq 1..lastSeq
            /\ \A s \in DOMAIN readings : readings[s] \in [old : BOOLEAN, out : BOOLEAN]
        BY <2>1 DEF PublicationInvariant, ReadingTypes
      <3>3. /\ epoch \in 1..MaxEpoch /\ renewed \in 0..MaxEpoch
            /\ act.state \in {"standalone", "discovery_only", "active"}
            /\ act.cleanup <= act.discard /\ act.discard <= lastSeq
            /\ target # NoTarget => /\ target.cursorEpoch \in 0..epoch
                                    /\ target.cursor \in 0..MaxPublications
        BY <2>1 DEF PublicationInvariant, OtherTypes, Activations, Targets
      <3> QED BY <3>1, <3>2, <3>3 DEF TypeOK
    <2> QED BY <2>1 DEF PublicationInvariant, LogIsSound
  <1> QED BY <1>1, PublicationInvariantHolds, PTL

(* The cursor that prepare_batch and retention read passes only rows of    *)
(* the epoch that an archive has taken.                                    *)
THEOREM CursorCoversOnlyTaken == Spec => []CursorCovers
  <1>1. PublicationInvariant => CursorCovers
    <2>1. SUFFICES ASSUME PublicationInvariant, target # NoTarget,
                          NEW p \in DOMAIN log, log[p].epoch = epoch,
                          p <= EffectiveCursor(epoch, target)
                   PROVE  \E r \in received : r.epoch = epoch /\ r.pub = p
      BY DEF CursorCovers
    <2>2. p \in Nat /\ p >= 1
      BY <2>1 DEF PublicationInvariant, LogTypes
    <2>3. target.cursorEpoch = epoch /\ p <= target.cursor
      BY <2>1, <2>2 DEF EffectiveCursor
    <2> QED BY <2>1, <2>3 DEF PublicationInvariant, Coverage, TakenBy
  <1> QED BY <1>1, PublicationInvariantHolds, PTL

(* An epoch and a publication number name one record at the archives, for  *)
(* ever, whatever recoveries number anew.                                  *)
THEOREM OneRecordPerName == Spec => []PublicationNamesOne
  <1>1. PublicationInvariant => PublicationNamesOne
    BY DEF PublicationInvariant, Naming, PublicationNamesOne
  <1> QED BY <1>1, PublicationInvariantHolds, PTL

-----------------------------------------------------------------------------
(* Custody.                                                                *)

(* What a step may do to a reading that is owed.                           *)
OwedStaysOr(s) ==
    \/ s \in Owed'
    \/ \E r \in received : r.row = Measurement(s)
    \/ s \in DOMAIN readings' /\ readings'[s].out

(* A row an archive has taken was taken as the log has it. *)
LEMMA TakenIsTheRow ==
    ASSUME PublicationInvariant, NEW p \in DOMAIN log, log[p].epoch = epoch,
           log[p].row.kind = "measurement", TakenBy(epoch, p)
    PROVE  \E r \in received : r.row = Measurement(log[p].row.seq)
  <1>1. PICK r \in received : r.epoch = epoch /\ r.pub = p
    BY DEF TakenBy
  <1>2. r.row = log[p].row
    BY <1>1 DEF PublicationInvariant, Naming
  <1>3. log[p].row \in Rows
    BY DEF PublicationInvariant, LogTypes, LogRows
  <1>4. log[p].row = Measurement(log[p].row.seq)
    BY <1>3, RowKinds
  <1> QED BY <1>2, <1>4

(* A row that stays with its reading, under the epoch, keeps it owed. *)
LEMMA StillOwed ==
    ASSUME NEW p \in DOMAIN log', log'[p].epoch = epoch', log'[p].row.kind = "measurement",
           log'[p].row.seq \in DOMAIN readings'
    PROVE  log'[p].row.seq \in Owed'
  BY DEF Owed, RowsOf

(* Retention deletes what is acknowledged, and no reading that is not. *)
LEMMA RetainKeeps ==
    ASSUME PublicationInvariant, Retain, HasCustody, NEW p \in DOMAIN log,
           log[p].epoch = epoch, log[p].row.kind = "measurement",
           log[p].row.seq \in DOMAIN readings
    PROVE  OwedStaysOr(log[p].row.seq)
  <1> DEFINE s == log[p].row.seq
  <1>1. /\ log' = Without(log, Acked \cup RowsOf(Purgeable)) /\ epoch' = epoch
        /\ readings' = Without(readings, Purgeable)
    BY DEF Retain, ledger
  <1>2. /\ DOMAIN log' = DOMAIN log \ (Acked \cup RowsOf(Purgeable))
        /\ \A q \in DOMAIN log' : log'[q] = log[q]
        /\ DOMAIN readings' = DOMAIN readings \ Purgeable
    BY <1>1 DEF Without, Restrict
  <1>3. p \in Nat /\ p >= 1 /\ ~readings[s].out
    BY DEF PublicationInvariant, LogTypes, NoOrphanRow
  <1>4. target # NoTarget
    BY NotNone DEF HasCustody
  <1>5. target.cursor \in Nat
    BY <1>4 DEF PublicationInvariant, OtherTypes, Targets
  <1>6. CASE p \in Unacked(epoch, target)
    <2>1. p \in RowsOf({s})
      BY DEF RowsOf
    <2>2. s \notin Purgeable
      BY <1>3, <1>6, <2>1 DEF Purgeable
    <2>3. p \notin Acked
      <3>1. EffectiveCursor(epoch, target) \in Nat
        BY <1>5 DEF EffectiveCursor
      <3> QED BY <1>3, <1>6, <3>1 DEF Acked, Unacked
    <2>4. p \notin RowsOf(Purgeable)
      BY <2>2 DEF RowsOf
    <2>5. p \in DOMAIN log' /\ log'[p] = log[p] /\ s \in DOMAIN readings'
      BY <1>2, <2>2, <2>3, <2>4
    <2>6. s \in Owed'
      BY <1>1, <2>5, StillOwed, Zenon
    <2> QED BY <2>6 DEF OwedStaysOr
  <1>7. CASE p \notin Unacked(epoch, target)
    <2>1. target.cursorEpoch = epoch /\ p <= target.cursor
      BY <1>3, <1>5, <1>7 DEF Unacked, EffectiveCursor
    <2>2. TakenBy(epoch, p)
      BY <1>4, <2>1 DEF PublicationInvariant, Coverage
    <2> QED BY <2>2, TakenIsTheRow DEF OwedStaysOr
  <1> QED BY <1>6, <1>7

(* A step that only adds to the log and to the readings leaves all owed. *)
LEMMA GrowthKeeps ==
    ASSUME NEW p \in DOMAIN log, log[p].epoch = epoch, log[p].row.kind = "measurement",
           log[p].row.seq \in DOMAIN readings, epoch' = epoch,
           DOMAIN log \subseteq DOMAIN log', log'[p] = log[p],
           DOMAIN readings \subseteq DOMAIN readings'
    PROVE  OwedStaysOr(log[p].row.seq)
  <1>1. p \in DOMAIN log' /\ log[p].row.seq \in DOMAIN readings'
    OBVIOUS
  <1>2. log[p].row.seq \in Owed'
    BY <1>1, StillOwed
  <1> QED BY <1>2 DEF OwedStaysOr

(* A queued row changes no other. *)
LEMMA EnqueueKeeps ==
    ASSUME PublicationInvariant, NEW row, Enqueue(row)
    PROVE  DOMAIN log \subseteq DOMAIN log' /\ \A p \in DOMAIN log : log'[p] = log[p]
  <1>1. alloc + 1 \notin DOMAIN log
    BY DEF PublicationInvariant, LogTypes
  <1> QED BY <1>1 DEF Enqueue, With

(* An undone replacement drops the rows of the readings it quarantines. *)
LEMMA ReplaceUndoKeeps ==
    ASSUME PublicationInvariant, NEW since, NEW abandon, ReplaceUndo(since, abandon),
           NEW p \in DOMAIN log, log[p].epoch = epoch, log[p].row.kind = "measurement",
           log[p].row.seq \in DOMAIN readings
    PROVE  OwedStaysOr(log[p].row.seq)
  <1> DEFINE s == log[p].row.seq
             window == {x \in DOMAIN readings : x >= since}
  <1>1. /\ readings' = [x \in DOMAIN readings |-> [readings[x] EXCEPT !.out = @ \/ x \in window]]
        /\ log' = Without(log, RowsOf(window)) /\ epoch' = epoch
    BY DEF ReplaceUndo, ledger
  <1> HIDE DEF window
  <1>2. /\ DOMAIN log' = DOMAIN log \ RowsOf(window)
        /\ \A q \in DOMAIN log' : log'[q] = log[q]
        /\ DOMAIN readings' = DOMAIN readings
    BY <1>1 DEF Without, Restrict
  <1>3. CASE s \in window
    <2>1. readings[s] \in [old : BOOLEAN, out : BOOLEAN]
      BY DEF PublicationInvariant, ReadingTypes
    <2>2. readings'[s] = [readings[s] EXCEPT !.out = readings[s].out \/ s \in window]
      BY <1>1
    <2>3. readings'[s].out = (readings[s].out \/ s \in window)
      BY <2>1, <2>2
    <2>4. readings'[s].out
      BY <1>3, <2>3, Zenon
    <2> QED BY <1>2, <2>4 DEF OwedStaysOr
  <1>4. CASE s \notin window
    <2>1. p \notin RowsOf(window)
      BY <1>4 DEF RowsOf
    <2>2. p \in DOMAIN log' /\ log'[p] = log[p] /\ s \in DOMAIN readings'
      BY <1>2, <2>1
    <2>3. s \in Owed'
      BY <1>1, <2>2, StillOwed
    <2> QED BY <2>3 DEF OwedStaysOr
  <1> QED BY <1>3, <1>4

(* The cleanup deletes no reading a row is about. *)
LEMMA CleanupKeeps ==
    ASSUME PublicationInvariant, CleanupPreActivation,
           NEW p \in DOMAIN log, log[p].epoch = epoch, log[p].row.kind = "measurement",
           log[p].row.seq \in DOMAIN readings
    PROVE  OwedStaysOr(log[p].row.seq)
  <1>1. UNCHANGED <<epoch, log>>
    BY DEF CleanupPreActivation, ledger, outbox
  <1>2. PublicationInvariant'
    BY CleanupStep
  <1>3. log[p].row.seq \in DOMAIN readings'
    BY <1>1, <1>2 DEF PublicationInvariant, NoOrphanRow
  <1>4. log[p].row.seq \in Owed'
    BY <1>1, <1>3, StillOwed
  <1> QED BY <1>4 DEF OwedStaysOr

(* A recovery leaves behind only what an archive has taken. *)
LEMMA RecoverKeeps ==
    ASSUME PublicationInvariant, NEW accepted \in Nat, Recover(accepted),
           NEW p \in DOMAIN log, log[p].epoch = epoch, log[p].row.kind = "measurement",
           log[p].row.seq \in DOMAIN readings
    PROVE  OwedStaysOr(log[p].row.seq)
  <1>1. /\ epoch' = epoch + 1 /\ readings' = readings
        /\ p <= accepted => TakenBy(epoch, p)
    BY DEF Recover, InstallRecoveryEpoch, series, TakenBy
  <1>2. p \in Nat
    BY DEF PublicationInvariant, LogTypes
  <1>3. CASE p <= accepted
    BY <1>1, <1>3, TakenIsTheRow DEF OwedStaysOr
  <1>4. CASE p > accepted
    <2>1. PICK n \in DOMAIN log' : log'[n].row = log[p].row
      BY <1>4, Rebuilt
    <2>2. log'[n].epoch = epoch + 1
      BY Rebuilt
    <2>3. log[p].row.seq \in Owed'
      BY <1>1, <2>1, <2>2, StillOwed
    <2> QED BY <2>3 DEF OwedStaysOr
  <1> QED BY <1>2, <1>3, <1>4

(* No step but a renewal loses a reading that is owed to an archive with   *)
(* custody.                                                                *)
LEMMA StepKeeps ==
    ASSUME PublicationInvariant, Next, HasCustody, renewed' = renewed,
           NEW p \in DOMAIN log, log[p].epoch = epoch, log[p].row.kind = "measurement",
           log[p].row.seq \in DOMAIN readings
    PROVE  OwedStaysOr(log[p].row.seq)
  <1>1. CASE UNCHANGED <<epoch, log, readings>>
    BY <1>1, GrowthKeeps
  <1>2. CASE \E out \in BOOLEAN : Store(out)
    <2>1. PICK out \in BOOLEAN : Store(out)
      BY <1>2
    <2>2. epoch' = epoch /\ DOMAIN readings \subseteq DOMAIN readings'
      BY <2>1 DEF Store, With, ledger
    <2>3. UNCHANGED log \/ Enqueue(Measurement(lastSeq + 1))
      BY <2>1 DEF Store, outbox
    <2>4. DOMAIN log \subseteq DOMAIN log' /\ log'[p] = log[p]
      BY <2>3, EnqueueKeeps
    <2> QED BY <2>2, <2>4, GrowthKeeps
  <1>3. CASE \E s \in 1..MaxReadings : Expire(s)
    <2>1. epoch' = epoch /\ UNCHANGED log /\ DOMAIN readings' = DOMAIN readings
      BY <1>3 DEF Expire, ledger, outbox
    <2> QED BY <2>1, GrowthKeeps
  <1>4. CASE \E s \in 1..MaxReadings : \E abandon \in BOOLEAN : ReplaceUndo(s, abandon)
    BY <1>4, ReplaceUndoKeeps
  <1>5. CASE EnqueueSmoke \/ Restart
    <2>1. UNCHANGED <<epoch, readings>>
      BY <1>5 DEF EnqueueSmoke, Restart, ledger, series
    <2>2. Enqueue(Smoke) \/ Enqueue(EpochStart(renewed)) \/ UNCHANGED log
      BY <1>5 DEF EnqueueSmoke, Restart, outbox
    <2>3. DOMAIN log \subseteq DOMAIN log' /\ log'[p] = log[p]
      BY <2>2, EnqueueKeeps
    <2> QED BY <2>1, <2>3, GrowthKeeps
  <1>6. CASE Retain
    BY <1>6, RetainKeeps
  <1>7. CASE \/ \E last \in 1..MaxPublications : Prepare(last)
             \/ \E answered \in BOOLEAN : Deliver(answered)
             \/ PostFails \/ Advance
    <2>1. UNCHANGED <<epoch, log, readings>>
      BY <1>7, Zenon DEF Prepare, Deliver, PostFails, Advance, ledger, series, outbox
    <2> QED BY <1>1, <2>1
  <1>8. CASE \/ \E e \in Endpoints : TargetAdd(e)
             \/ \E ok \in BOOLEAN : TargetSmoke(ok)
             \/ \E abandon \in BOOLEAN : TargetRemove(abandon)
             \/ InstallEdgeTarget \/ ApplyActivation
    <2>1. UNCHANGED <<epoch, log, readings>>
      BY <1>8, Zenon DEF TargetAdd, TargetSmoke, TargetRemove, InstallEdgeTarget, ApplyActivation,
                  ledger, series, outbox
    <2> QED BY <1>1, <2>1
  <1>9. CASE CleanupPreActivation
    BY <1>9, CleanupKeeps
  <1>10. CASE RenewEpoch
    <2>1. renewed' = epoch
      BY <1>10 DEF RenewEpoch
    <2>2. epoch \in Nat /\ renewed \in Nat /\ renewed < epoch
      BY DEF PublicationInvariant, OtherTypes
    <2> QED BY <2>1, <2>2
  <1>11. CASE \E accepted \in 0..MaxPublications : Recover(accepted)
    BY <1>11, RecoverKeeps
  <1> QED BY <1>2, <1>3, <1>4, <1>5, <1>6, <1>7, <1>8, <1>9, <1>10, <1>11 DEF Next

(* While a target has custody, a reading stops being owed only once it was *)
(* taken or taken back, or the epoch was renewed: whatever retention,      *)
(* cleanups, restarts and recoveries do.                                   *)
THEOREM ReadingsStayInCustody == Spec => CustodyKept
  <1> DEFINE Kept == HasCustody /\ renewed' = renewed =>
                        \A s \in Owed \ Owed' :
                            \/ \E r \in received : r.row = Measurement(s)
                            \/ s \in DOMAIN readings' /\ readings'[s].out
  <1>1. PublicationInvariant /\ [Next]_vars => [Kept]_vars
    <2>1. ASSUME PublicationInvariant, Next, HasCustody, renewed' = renewed, NEW s \in Owed \ Owed'
          PROVE  \/ \E r \in received : r.row = Measurement(s)
                 \/ s \in DOMAIN readings' /\ readings'[s].out
      <3>1. PICK p \in DOMAIN log : /\ log[p].epoch = epoch /\ log[p].row.kind = "measurement"
                                    /\ log[p].row.seq = s /\ s \in DOMAIN readings
        BY <2>1 DEF Owed, RowsOf
      <3>2. OwedStaysOr(log[p].row.seq)
        BY <2>1, <3>1, StepKeeps
      <3> QED BY <2>1, <3>1, <3>2 DEF OwedStaysOr
    <2> QED BY <2>1
  <1> QED BY <1>1, PublicationInvariantHolds, PTL DEF Spec, CustodyKept
=============================================================================
