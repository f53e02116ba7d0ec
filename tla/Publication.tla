----------------------------- MODULE Publication -----------------------------
(***************************************************************************)
(* core/publish: the publication log, the registered target and its        *)
(* cursor, the activation row, and everything that reads or writes them:   *)
(* the collector's transaction, the publisher (publish_task.rs), retention,*)
(* the start of the node, nodectl target and nodectl device replace-undo,  *)
(* the commissioning smoke, activation, and the recovery of a node under a *)
(* new ledger epoch.                                                       *)
(*                                                                         *)
(*  epoch      the ledger epoch, a number: every new epoch is unused       *)
(*  renewed    old_epoch of the last epoch_renewed event, 0 if none        *)
(*  readings   by seq: old (received before retention's cutoff), out       *)
(*             (quarantined); lastSeq is AUTOINCREMENT's                   *)
(*  log        publication_log by pub_seq; alloc is AUTOINCREMENT's        *)
(*  target     the row of target_registry, NoTarget if there is none       *)
(*  act        edge_node_activation: state, discard and cleanup boundaries *)
(*  flight     the publish cycle under way                                 *)
(*  adding     nodectl target add is between its two transactions          *)
(*  received   what the archives have taken: endpoint, epoch, pub_seq, row *)
(*  adds       counts target additions, a bound of the model               *)
(*                                                                         *)
(* One transaction is one step: SQLite serialises them. Nothing in this    *)
(* version of the node starts the publisher, nor calls install_edge_target,*)
(* apply_activation, cleanup_pre_activation_batch, renew_epoch or the      *)
(* recovery operations; they are modelled as the operations they are.      *)
(***************************************************************************)
EXTENDS Integers, FiniteSets, FiniteSetsExt, Functions

CONSTANTS Endpoints,            \* where an archive may be registered
          BatchLimit,           \* BATCH_LIMIT
          CleanupLimit,         \* the limit cleanup_pre_activation_batch is given
          MaxReadings, MaxPublications, MaxEpoch, MaxAdds     \* bounds

ASSUME PublicationAssumption ==
    /\ BatchLimit \in Nat \ {0} /\ CleanupLimit \in Nat \ {0}
    /\ {MaxReadings, MaxPublications, MaxAdds} \subseteq Nat /\ MaxEpoch \in Nat \ {0}

VARIABLES epoch, renewed, readings, lastSeq, log, alloc, target, act,
          flight, adding, received, adds
ledger == <<epoch, renewed>>
series == <<readings, lastSeq>>
outbox == <<log, alloc>>
others == <<flight, adding, received, adds>>
vars == <<ledger, series, outbox, target, act, others>>

NoTarget == [id |-> "none"]
Target(id, endpoint, responsible) ==
    [id |-> id, endpoint |-> endpoint, responsible |-> responsible,
     cursorEpoch |-> 0, cursor |-> 0]
Idle == [stage |-> "idle"]
Measurement(s) == [kind |-> "measurement", seq |-> s]
EpochStart(prior) == [kind |-> "epoch_start", prior |-> prior]
Smoke == [kind |-> "commissioning_smoke"]

Init ==
    /\ epoch = 1 /\ renewed = 0
    /\ readings = << >> /\ lastSeq = 0
    /\ log = << >> /\ alloc = 0
    /\ target = NoTarget
    /\ act = [state |-> "standalone", discard |-> 0, cleanup |-> 0]
    /\ flight = Idle /\ adding = FALSE /\ received = {} /\ adds = 0

-----------------------------------------------------------------------------
\* The log.

Admitted == act.state # "discovery_only"
\* Mutant: the cursor is used whatever epoch it was set in.
EffectiveCursor_AnyEpoch(e, t) == t.cursor

\* effective_cursor: the cursor counts within the epoch it was set in.
EffectiveCursor(e, t) == IF t.cursorEpoch = e THEN t.cursor ELSE 0

Unacked(e, t) == {p \in DOMAIN log : log[p].epoch = e /\ p > EffectiveCursor(e, t)}

\* archive_target_registered
HasCustody == target.id # "none" /\ target.responsible

Without(f, S) == Restrict(f, DOMAIN f \ S)
With(f, x, v) == [y \in DOMAIN f \cup {x} |-> IF y = x THEN v ELSE f[y]]

\* Mutant: the next number is one more than the highest row's, not AUTOINCREMENT.
Enqueue_NoAutoincrement(row) ==
    LET n == 1 + (IF DOMAIN log = {} THEN 0 ELSE Max(DOMAIN log))
    IN /\ n <= MaxPublications
       /\ alloc' = n
       /\ log' = With(log, n, [epoch |-> epoch, row |-> row])

\* INSERT INTO publication_log: AUTOINCREMENT gives the next number ever.
Enqueue(row) ==
    /\ alloc < MaxPublications
    /\ alloc' = alloc + 1
    /\ log' = With(log, alloc + 1, [epoch |-> epoch, row |-> row])

RowsOf(S) == {p \in DOMAIN log : log[p].row.kind = "measurement" /\ log[p].row.seq \in S}

-----------------------------------------------------------------------------
\* The collector stores a reading, quarantined or not, and queues it in the
\* same transaction.
Store(out) ==
    /\ lastSeq < MaxReadings
    /\ lastSeq' = lastSeq + 1
    /\ readings' = With(readings, lastSeq + 1, [old |-> FALSE, out |-> out])
    /\ IF ~out /\ Admitted THEN Enqueue(Measurement(lastSeq + 1)) ELSE UNCHANGED outbox
    /\ UNCHANGED <<ledger, target, act, others>>

\* The wall clock moves a reading beyond the retention period.
Expire(s) ==
    /\ s \in DOMAIN readings /\ ~readings[s].old
    /\ readings' = [readings EXCEPT ![s].old = TRUE]
    /\ UNCHANGED <<ledger, lastSeq, outbox, target, act, others>>

\* exit.commissioning_smoke.enqueue
EnqueueSmoke ==
    /\ Admitted
    /\ target.id = "edge" /\ target.responsible
    /\ Enqueue(Smoke)
    /\ UNCHANGED <<ledger, series, target, act, others>>

\* The process ends, with the cycle under way, and starts again:
\* maybe_enqueue_epoch_start. The unique index on (epoch, subtype) refuses a
\* second annotation while the first is in the log.
Restart ==
    /\ flight' = Idle
    /\ IF /\ Admitted /\ renewed # 0
          /\ \A p \in DOMAIN log : ~(log[p].epoch = epoch /\ log[p].row.kind = "epoch_start")
       THEN Enqueue(EpochStart(renewed)) ELSE UNCHANGED outbox
    /\ UNCHANGED <<ledger, series, target, act, adding, received, adds>>

-----------------------------------------------------------------------------
\* Retention: the transaction of run_retention_once_with_latch, which deletes
\* in batches until no row is left to delete. Without a responsible target
\* age alone decides; with one, what is acknowledged leaves the log and what
\* the log still holds for this epoch stays.

Purgeable ==
    LET held == {s \in DOMAIN readings : /\ HasCustody /\ ~readings[s].out
                                         /\ RowsOf({s}) \cap Unacked(epoch, target) # {}}
    IN {s \in DOMAIN readings : readings[s].old} \ held

Acked ==
    IF HasCustody
    THEN {p \in DOMAIN log : log[p].epoch = epoch /\ p <= EffectiveCursor(epoch, target)}
    ELSE {}

Retain ==
    /\ log' = Without(log, Acked \cup RowsOf(Purgeable))
    /\ readings' = Without(readings, Purgeable)
    /\ UNCHANGED <<ledger, lastSeq, alloc, target, act, others>>

-----------------------------------------------------------------------------
\* The publisher: prepare_batch, the POST, advance_cursor_after_ack, in three
\* steps between which everything else may happen.

\* select_batch
Batch == LET rows == Unacked(epoch, target)
         IN {p \in rows : Cardinality({q \in rows : q <= p}) <= BatchLimit}

Materializes(p) == log[p].row.kind = "measurement" => log[p].row.seq \in DOMAIN readings
\* Mutant: the cursor's end is the selected batch's, not the part that fits.
Prepare_Uncut(last) ==
    /\ flight = Idle
    /\ HasCustody
    /\ target.id = "archive"
    /\ last \in Batch
    /\ \A p \in Batch : Materializes(p)
    /\ flight' = [stage |-> "post", id |-> target.id, endpoint |-> target.endpoint,
                  epoch |-> epoch, last |-> Max(Batch),
                  rows |-> Restrict(log, {p \in Batch : p <= last})]
    /\ UNCHANGED <<ledger, series, outbox, target, act, adding, received, adds>>

\* BYTE_CAP cuts the batch after any of its records, never before the first.
Prepare(last) ==
    /\ flight = Idle
    /\ HasCustody
    /\ target.id = "archive"        \* an edge target's endpoint is not https
    /\ last \in Batch
    /\ \A p \in Batch : Materializes(p)
    /\ flight' = [stage |-> "post", id |-> target.id, endpoint |-> target.endpoint,
                  epoch |-> epoch, last |-> last,
                  rows |-> Restrict(log, {p \in Batch : p <= last})]
    /\ UNCHANGED <<ledger, series, outbox, target, act, adding, received, adds>>

Taken == {[at |-> flight.endpoint, epoch |-> flight.epoch, pub |-> p, row |-> flight.rows[p].row] :
            p \in DOMAIN flight.rows}

\* The archive takes the batch; its answer arrives, or is lost or wrong.
Deliver(answered) ==
    /\ flight.stage = "post"
    /\ received' = received \cup Taken
    /\ flight' = IF answered THEN [flight EXCEPT !.stage = "acked"] ELSE Idle
    /\ UNCHANGED <<ledger, series, outbox, target, act, adding, adds>>

\* The POST fails or times out before the archive takes it.
PostFails ==
    /\ flight.stage = "post"
    /\ flight' = Idle
    /\ UNCHANGED <<ledger, series, outbox, target, act, adding, received, adds>>

Advance ==
    /\ flight.stage = "acked"
    /\ flight' = Idle
    /\ target' = IF \/ target.id # flight.id
                    \/ target.cursorEpoch = flight.epoch /\ target.cursor > flight.last
                 THEN target
                 ELSE [target EXCEPT !.cursorEpoch = flight.epoch, !.cursor = flight.last]
    /\ UNCHANGED <<ledger, series, outbox, act, adding, received, adds>>

-----------------------------------------------------------------------------
\* nodectl target add registers the target, calls it, and gives it custody
\* if it answered; nodectl target remove.

TargetAdd(endpoint) ==
    /\ ~adding /\ target = NoTarget
    /\ adds < MaxAdds /\ adds' = adds + 1
    /\ target' = Target("archive", endpoint, FALSE)
    /\ adding' = TRUE
    /\ UNCHANGED <<ledger, series, outbox, act, flight, received>>

TargetSmoke(ok) ==
    /\ adding
    /\ adding' = FALSE
    /\ target' = IF ok /\ target.id = "archive"
                 THEN [target EXCEPT !.responsible = TRUE] ELSE target
    /\ UNCHANGED <<ledger, series, outbox, act, flight, received, adds>>

TargetRemove(abandon) ==
    /\ target # NoTarget
    /\ abandon \/ Unacked(epoch, target) = {}
    /\ target' = NoTarget
    /\ UNCHANGED <<ledger, series, outbox, act, others>>
\* Mutant: the quarantined readings' rows stay in the log.
ReplaceUndo_KeepsRows(since, abandon) ==
    LET window == {s \in DOMAIN readings : s >= since}
    IN /\ window # {}
       /\ abandon \/ ~HasCustody
       /\ readings' = [s \in DOMAIN readings |->
                          [readings[s] EXCEPT !.out = @ \/ s \in window]]
       /\ UNCHANGED <<ledger, lastSeq, outbox, target, act, others>>

\* nodectl device replace-undo: the readings since a moment are quarantined,
\* and their rows leave the log.
ReplaceUndo(since, abandon) ==
    LET window == {s \in DOMAIN readings : s >= since}
    IN /\ window # {}
       /\ abandon \/ ~HasCustody
       /\ readings' = [s \in DOMAIN readings |->
                          [readings[s] EXCEPT !.out = @ \/ s \in window]]
       /\ log' = Without(log, RowsOf(window))
       /\ UNCHANGED <<ledger, lastSeq, alloc, target, act, others>>

-----------------------------------------------------------------------------
\* Activation.

Unused == DOMAIN log = {} /\ alloc = 0

\* COALESCE(MAX(seq), 0)
IsGreatest(m, S) == IF S = {} THEN m = 0 ELSE m \in S /\ \A s \in S : s <= m

InstallEdgeTarget ==
    /\ act.state = "standalone"
    /\ target = NoTarget /\ Unused
    /\ target' = Target("edge", "edge", TRUE)
    /\ act' = [act EXCEPT !.state = "discovery_only"]
    /\ UNCHANGED <<ledger, series, outbox, others>>

ApplyActivation ==
    /\ act.state = "discovery_only"
    /\ target # NoTarget /\ target.cursorEpoch = 0 /\ target.cursor = 0
    /\ Unused
    /\ \E boundary \in 0..lastSeq :
          /\ IsGreatest(boundary, DOMAIN readings)
          /\ act' = [state |-> "active", cleanup |-> 0, discard |-> boundary]
    /\ UNCHANGED <<ledger, series, outbox, target, others>>

CleanupPreActivation ==
    LET rest == {s \in DOMAIN readings : act.cleanup < s /\ s <= act.discard}
        batch == {s \in rest : Cardinality({r \in rest : r <= s}) <= CleanupLimit}
    IN /\ act.state = "active"
       /\ \/ /\ rest = {}
             /\ act' = [act EXCEPT !.cleanup = act.discard]
             /\ UNCHANGED readings
          \/ \E end \in batch :
                /\ IsGreatest(end, batch)
                /\ readings' = Without(readings, {s \in DOMAIN readings : act.cleanup < s /\ s <= end})
                /\ act' = [act EXCEPT !.cleanup = end]
       /\ UNCHANGED <<ledger, lastSeq, outbox, target, others>>

-----------------------------------------------------------------------------
\* A new ledger epoch.

RenewEpoch ==
    /\ epoch < MaxEpoch
    /\ epoch' = epoch + 1 /\ renewed' = epoch
    /\ UNCHANGED <<series, outbox, target, act, others>>

InstallRecoveryEpoch == epoch < MaxEpoch /\ epoch' = epoch + 1

\* install_recovery_epoch and rebuild_recovery_outbox in the caller's one
\* transaction. The Edge says how far it has accepted this epoch.
Recover(accepted) ==
    LET carried == {p \in DOMAIN log : p > accepted /\ log[p].row.kind # "epoch_start"}
        at(p) == 1 + Cardinality({q \in carried : q <= p})
        moved == [n \in {at(p) : p \in carried} |->
                    [epoch |-> epoch + 1, row |-> log[CHOOSE p \in carried : at(p) = n].row]]
    IN /\ InstallRecoveryEpoch
       /\ target # NoTarget /\ target.cursorEpoch = epoch /\ accepted >= target.cursor
       /\ \A p \in DOMAIN log : /\ log[p].epoch = epoch
                                /\ p <= accepted => \E r \in received : r.epoch = epoch /\ r.pub = p
       /\ Cardinality(carried) < MaxPublications
       /\ log' = With(moved, 1, [epoch |-> epoch + 1, row |-> EpochStart(epoch)])
       /\ alloc' = 1 + Cardinality(carried)
       /\ target' = [target EXCEPT !.cursorEpoch = epoch + 1, !.cursor = 0]
       /\ UNCHANGED <<renewed, series, act, others>>

-----------------------------------------------------------------------------
Next ==
    \/ \E out \in BOOLEAN : Store(out)
    \/ \E s \in 1..MaxReadings : Expire(s) \/ \E abandon \in BOOLEAN : ReplaceUndo(s, abandon)
    \/ EnqueueSmoke \/ Restart \/ Retain
    \/ \E last \in 1..MaxPublications : Prepare(last)
    \/ \E answered \in BOOLEAN : Deliver(answered)
    \/ PostFails \/ Advance
    \/ \E e \in Endpoints : TargetAdd(e)
    \/ \E ok \in BOOLEAN : TargetSmoke(ok)
    \/ \E abandon \in BOOLEAN : TargetRemove(abandon)
    \/ InstallEdgeTarget \/ ApplyActivation \/ CleanupPreActivation
    \/ RenewEpoch
    \/ \E accepted \in 0..MaxPublications : Recover(accepted)

Spec == Init /\ [][Next]_vars

-----------------------------------------------------------------------------
Rows == {Measurement(s) : s \in 1..MaxReadings} \cup {EpochStart(e) : e \in 1..MaxEpoch}
          \cup {Smoke}

\* Every variable holds a value of its table or task.
TypeOK ==
    /\ epoch \in 1..MaxEpoch /\ renewed \in 0..MaxEpoch
    /\ lastSeq \in 0..MaxReadings /\ alloc \in 0..MaxPublications
    /\ DOMAIN readings \subseteq 1..lastSeq
    /\ \A s \in DOMAIN readings : readings[s] \in [old : BOOLEAN, out : BOOLEAN]
    /\ DOMAIN log \subseteq 1..alloc
    /\ \A p \in DOMAIN log : log[p].epoch \in 1..epoch /\ log[p].row \in Rows
    /\ act.state \in {"standalone", "discovery_only", "active"}
    /\ act.cleanup <= act.discard /\ act.discard <= lastSeq
    /\ target # NoTarget => target.cursorEpoch \in 0..epoch /\ target.cursor \in 0..MaxPublications

\* Every measurement in the log has its reading, and none that an operator
\* has taken back: a row without one would make materialize_batch fail, and
\* every cycle after it, with the rows behind it undelivered for good.
NoOrphanRow ==
    \A p \in DOMAIN log : log[p].row.kind = "measurement" =>
        /\ log[p].row.seq \in DOMAIN readings
        /\ ~readings[log[p].row.seq].out

\* The cursor never passes a row of its epoch no archive has taken: what
\* retention prunes as acknowledged has been delivered, whatever answers were
\* lost or late and wherever a batch was cut.
CursorCovers ==
    target # NoTarget =>
        \A p \in DOMAIN log : log[p].epoch = epoch /\ p <= EffectiveCursor(epoch, target) =>
            \E r \in received : r.epoch = epoch /\ r.pub = p

\* An epoch and a publication number name one record for ever: the recovery's
\* fresh numbering never gives an archive two records under one name.
PublicationNamesOne ==
    \A x, y \in received : x.epoch = y.epoch /\ x.pub = y.pub => x.row = y.row

\* What a node observed before its activation is never queued, and what the
\* cleanup says it has deleted is gone.
PreActivationKept ==
    act.state = "active" =>
        /\ \A p \in DOMAIN log : log[p].row.kind = "measurement" => log[p].row.seq > act.discard
        /\ \A s \in DOMAIN readings : s > act.cleanup

\* The readings the log owes the archive under the current epoch.
Owed == {s \in DOMAIN readings : \E p \in RowsOf({s}) : log[p].epoch = epoch}

\* While a target has custody, a reading stops being owed only once an archive
\* has taken it, an operator has taken it back, or the epoch was renewed:
\* not by retention, a cleanup, a crash or a recovery.
CustodyKept ==
    [][ HasCustody /\ renewed' = renewed =>
        \A s \in Owed \ Owed' :
            \/ \E r \in received : r.row = Measurement(s)
            \/ s \in DOMAIN readings' /\ readings'[s].out ]_vars

\* The log can be materialized and holds nothing from before the activation,
\* through retention, replacements, cleanups and recoveries.
LogIsSound == TypeOK /\ NoOrphanRow /\ PreActivationKept
=============================================================================
