------------------------------ MODULE Collector ------------------------------
(***************************************************************************)
(* core/collector: the task that accepts envelopes, one transaction each,  *)
(* with the tables that transaction reads and writes, and the other        *)
(* writers of those tables: the operator's ledger operations (core/ops and *)
(* nodectl, the latter another process) and the retention task.            *)
(*                                                                         *)
(*  db         the database: dedup and staged (IngestStore), devices (by   *)
(*             system id, a number), series (by series id: the system id   *)
(*             it belongs to), sightings, generation, auth and live (the   *)
(*             authority state), degraded (ingest_dedup_maintenance)       *)
(*  cache      ResolutionCache, kept by the task between transactions      *)
(*  queue      the requests sent to the task                               *)
(*  answer     what the last step answered a caller, "none" if nothing     *)
(*  stage      "recv": waiting for a request, "purge": after an ack        *)
(*  latch      DedupMaintenanceLatch                                       *)
(*  fault      a storage-write-failed fault is present in DeviceFaults     *)
(*  now        the wall clock                                              *)
(*  pass       when the retention pass under way began, NoTime if none is  *)
(*  written    the rows the last step added to readings                    *)
(*  claims     the envelopes accepted so far, and when each last was       *)
(*             (history)                                                   *)
(*  purgeFailed  how this process's last purge ended (history)             *)
(*  disruptions, purgeFailures   counts that bound the model               *)
(*                                                                         *)
(* A reading has one measurement: the series of a device stand for one.    *)
(* The pipelines and the publication log the same transaction feeds are    *)
(* modelled by PipelineEngine.                                             *)
(***************************************************************************)
EXTENDS IngestStore, TLC

CONSTANTS
    Adapters, DeviceTokens,     \* the principals, by kind
    Hardware,                   \* hardware ids
    Source,                     \* [principal -> its configured source]
    Scope,                      \* [device token -> system ids it may write for]
    Envelopes,                  \* [principal -> the envelopes it may send]
    NoHint,                     \* an item without subject_hint
    Verdicts,                   \* the registry's verdicts on an item
    MaxItems, QueueCap, PurgeInterval, FreshAge, FutureSkew, SightingTTL, SightingCap,
    InitDevices,                \* the ledger at the start
    MaxMutations, MaxDevices, MaxTime,
    MaxDisruptions,             \* bound: failed transactions, restarts
    MaxPurgeFailures

Principals == Adapters \cup DeviceTokens
NoTime == -1
Acks == {"accepted", "duplicate", "rejected"}

ASSUME CollectorAssumption ==
    /\ Adapters \cap DeviceTokens = {}
    /\ Verdicts \subseteq {"accept", "quarantine", "reject"}
    /\ MaxItems <= StageReserve     \* MAX_ITEMS_PER_ENVELOPE = reserve_rows = 256
    /\ QueueCap > 0

VARIABLES db, cache, queue, answer, stage, lastPurge, latch, fault, now, pass,
          written, claims, purgeFailed, disruptions, purgeFailures
task == <<cache, stage, fault, disruptions>>
maintenance == <<lastPurge, latch, purgeFailed, purgeFailures>>
clock == <<now, pass>>
vars == <<db, queue, answer, written, claims, task, maintenance, clock>>

Empty == [x \in {} |-> x]
EmptyCache == [generation |-> 0, devices |-> Empty, series |-> Empty]

Init ==
    /\ db = [dedup |-> <<>>, staged |-> <<>>, devices |-> InitDevices, series |-> <<>>,
             sightings |-> Empty, generation |-> 0, auth |-> 0,
             live |-> DeviceTokens, degraded |-> FALSE]
    /\ cache = EmptyCache
    /\ queue = <<>> /\ answer = "none" /\ stage = "recv"
    /\ lastPurge = 0 /\ latch = "none" /\ fault = FALSE /\ now = 0 /\ pass = NoTime
    /\ written = <<>> /\ claims = Empty
    /\ purgeFailed = FALSE /\ disruptions = 0 /\ purgeFailures = 0

-----------------------------------------------------------------------------
\* Collector::submit and Collector::validate, up to the wait for the answer.
\* A device token's request carries the generation it was authenticated at.
Request(p, env, commit) ==
    [principal |-> p, env |-> env, commit |-> commit, proof |-> db.auth]

\* A step of another actor than the task's turn.
Quiet == written' = <<>> /\ answer' = "none"

Send(request) ==
    /\ Len(queue) < QueueCap
    /\ queue' = Append(queue, request)

Submit(p) ==
    /\ p \in DeviceTokens => p \in db.live
    /\ \E env \in Envelopes[p], commit \in (IF p \in Adapters THEN {TRUE} ELSE BOOLEAN) :
            Send(Request(p, env, commit))
    /\ Quiet
    /\ UNCHANGED <<db, claims, task, maintenance, clock>>

-----------------------------------------------------------------------------
\* One item of an envelope, in the transaction so far: acc holds the database,
\* the cache, the sightings to stage and the readings added.

Alive(d, hw) == {s \in DOMAIN d.devices : /\ d.devices[s].hw = hw
                                          /\ d.devices[s].state # "retired"}

\* The device an item is about, as a set of at most one.
Resolve(acc, p, hw) ==
    IF hw = NoHint
    THEN {[sid |-> s, state |-> acc.db.devices[s].state] :
            s \in {t \in DOMAIN acc.db.devices : /\ p \in DeviceTokens /\ Scope[p] = {t}
                                                 /\ acc.db.devices[t].state # "retired"}}
    ELSE IF hw \in DOMAIN acc.cache.devices THEN {acc.cache.devices[hw]}
    ELSE {[sid |-> s, state |-> acc.db.devices[s].state] : s \in Alive(acc.db, hw)}

SubjectAllowed(p, sid) == p \in Adapters \/ sid \in Scope[p]

RequiresAbsoluteTime(item) == item.time # NoTime

\* freshness_rejection of an absolute time; a relative age beyond the limit
\* is, like a malformed key or value, what valid = FALSE stands for.
Stale(item) ==
    RequiresAbsoluteTime(item) /\ (item.time < now - FreshAge \/ item.time > now + FutureSkew)

EnsureSeries(series, sid) ==
    IF \E i \in DOMAIN series : series[i] = sid THEN series ELSE Append(series, sid)
SeriesId(series, sid) == CHOOSE i \in DOMAIN series : series[i] = sid

\* ensure_series through the cache, and insert_reading_v3.
StoreReading(acc, hw, device, verdict) ==
    LET cached == device.sid \in DOMAIN acc.cache.series
        series == IF cached THEN acc.db.series ELSE EnsureSeries(acc.db.series, device.sid)
        id == IF cached THEN acc.cache.series[device.sid] ELSE SeriesId(series, device.sid)
    IN  [acc EXCEPT
            !.db.series = series,
            !.cache.series = (device.sid :> id) @@ @,
            !.written = Append(@,
                [hw |-> hw, sid |-> device.sid, series |-> id, registry |-> verdict,
                 quarantined |-> verdict = "quarantine" \/ device.state = "quarantined"])]

\* process_item.
ProcessItem(acc, p, item, verdict) ==
    LET resolved == Resolve(acc, p, item.hw)
        looked == [acc EXCEPT !.cache.devices =
                        IF item.hw = NoHint THEN @
                        ELSE [hw \in {h \in {item.hw} : resolved # {}} |->
                                CHOOSE d \in resolved : TRUE] @@ @]
        device == CHOOSE d \in resolved : TRUE
    IN  IF \/ resolved # {} /\ ~SubjectAllowed(p, device.sid)
           \/ ~item.valid \/ Stale(item)
           \/ resolved = {} /\ (item.hw = NoHint \/ p \in DeviceTokens)
           \/ resolved # {} /\ verdict = "reject"
        THEN looked
        ELSE IF resolved = {} THEN [looked EXCEPT !.pending = Append(@, item.hw)]
        ELSE StoreReading(looked, item.hw, device, verdict)

\* The rows of unknown subjects, staged and sighted after the items.
StagePending(acc, p) ==
    LET after == Stage(acc.db.staged, p, acc.pending, now)
    IN  IF acc.pending = <<>> \/ after = NoRoom THEN acc.db
        ELSE [acc.db EXCEPT
                !.staged = after,
                !.sightings = RecordSightings(ForgetUnstaged(@, acc.db.staged, after),
                                              p, acc.pending, now)]

-----------------------------------------------------------------------------
\* authentication_is_current_at_serialization.
AuthCurrent(request) ==
    request.principal \in DeviceTokens =>
        request.principal \in db.live /\ request.proof = db.auth

\* The cache, emptied when the ledger's generation moved.
CurrentCache(c) ==
    IF c.generation = db.generation THEN c
    ELSE [EmptyCache EXCEPT !.generation = db.generation]

\* process_envelope_mode up to the commit: its result and, for "accepted",
\* what it commits.  verdicts are the registry's answers, trusted the clock's.
Outcome(request, trusted, verdicts) ==
    LET p == request.principal
        env == request.env
        fresh == CurrentCache(cache)
        with(result, c) == [result |-> result, db |-> db, cache |-> c, written |-> <<>>]
        claimed == IF request.commit THEN [db EXCEPT !.dedup = Claim(@, p, env.id, now)] ELSE db
        acc == FoldLeftDomain(
                    LAMBDA a, i : ProcessItem(a, p, env.items[i], verdicts[i]),
                    [db |-> claimed, cache |-> fresh, pending |-> <<>>, written |-> <<>>],
                    env.items)
        full == acc.pending # <<>> /\ Stage(acc.db.staged, p, acc.pending, now) = NoRoom
    IN  IF ~AuthCurrent(request) THEN with("authentication_stale", cache)
        ELSE IF env.source # Source[p] \/ Len(env.items) > MaxItems THEN with("rejected", cache)
        ELSE IF ~trusted /\ \E i \in DOMAIN env.items : RequiresAbsoluteTime(env.items[i])
        THEN with("clock_untrusted", cache)
        ELSE IF request.commit /\ Claimed(db.dedup, p, env.id, now) THEN with("duplicate", fresh)
        ELSE IF full THEN with("storage", acc.cache)
        ELSE [result |-> "accepted", db |-> StagePending(acc, p), cache |-> acc.cache,
              written |-> acc.written]

\* Mutant: the ids of rows that were rolled back stay in the cache.
CacheAfterFailure_Kept(c) == c

\* A failed transaction leaves nothing in the cache.
CacheAfterFailure(c) == EmptyCache

\* Mutant: a failed envelope keeps its claim.
Rollback_KeepsClaim(before, after) == [before EXCEPT !.dedup = after.dedup]

\* What a transaction that ends without commit leaves in the database.
Rollback(before, after) == before

Fail(request, out) ==
    /\ answer' = "no_ack"
    /\ cache' = CacheAfterFailure(out.cache)
    /\ db' = Rollback(db, out.db)
    /\ fault' = (fault \/ request.commit)
    /\ written' = <<>>
    /\ UNCHANGED <<stage, claims>>

ClaimOf(request) == [principal |-> request.principal, id |-> request.env.id]

\* The ack or error goes to the caller; after the ack of a submission the
\* fault is cleared (note_commit) and the purge comes next.
Reply(request, out) ==
    LET commits == request.commit /\ out.result = "accepted"
        acked == request.commit /\ out.result \in Acks
    IN  /\ answer' = out.result
        /\ db' = IF commits THEN out.db ELSE db
        /\ cache' = IF out.result = "accepted" /\ ~request.commit
                    THEN [EmptyCache EXCEPT !.generation = out.cache.generation]
                    ELSE out.cache
        /\ fault' = (fault /\ ~acked)
        /\ stage' = IF acked THEN "purge" ELSE "recv"
        /\ written' = IF commits THEN out.written ELSE <<>>
        /\ claims' = IF commits THEN (ClaimOf(request) :> now) @@ claims ELSE claims

\* One turn of the task's loop, up to the purge.  Any statement of the
\* transaction, its begin and its commit may fail.
Process ==
    /\ stage = "recv" /\ queue # <<>>
    /\ queue' = Tail(queue)
    /\ \E trusted \in BOOLEAN, verdicts \in [DOMAIN Head(queue).env.items -> Verdicts] :
       \E out \in {Outcome(Head(queue), trusted, verdicts)} :
            \/ /\ out.result # "storage"
               /\ Reply(Head(queue), out)
               /\ UNCHANGED disruptions
            \/ /\ out.result = "storage"
               /\ Fail(Head(queue), out)
               /\ UNCHANGED disruptions
            \/ /\ disruptions < MaxDisruptions
               /\ Fail(Head(queue), out)
               /\ disruptions' = disruptions + 1
    /\ UNCHANGED <<maintenance, clock>>

-----------------------------------------------------------------------------
\* maybe_purge_dedup and DedupMaintenanceLatch.  deleted, retried and recorded
\* say which of its database calls succeed.

\* Mutant: a recovery still to be recorded is retried whatever came after it.
Superseded_Never(deleted) == FALSE

\* A pending recovery says nothing about a purge that failed since.
Superseded(deleted) == latch = "recovered" /\ ~deleted

MaybePurge(deleted, retried, recorded) ==
    LET due == now - lastPurge >= PurgeInterval
        dropped == due /\ Superseded(deleted)
        settled == latch = "none" \/ dropped \/ retried
        outcome == IF deleted THEN "recovered" ELSE "failed"
    IN  \* a call that is not made does not fail
        /\ ~deleted => due
        /\ ~retried => latch # "none" /\ ~dropped
        /\ ~recorded => due /\ settled
        /\ lastPurge' = IF due THEN now ELSE lastPurge
        /\ purgeFailed' = IF due THEN ~deleted ELSE purgeFailed
        /\ latch' = IF ~settled THEN latch
                    ELSE IF due /\ ~recorded THEN outcome ELSE "none"
        /\ db' = [db EXCEPT
                    !.dedup = IF due /\ deleted THEN PurgeDedup(@, now) ELSE @,
                    !.degraded = IF settled /\ due /\ recorded THEN ~deleted
                                 ELSE IF settled /\ latch # "none" /\ ~dropped
                                 THEN latch = "failed" ELSE @]

Purge ==
    /\ stage = "purge" /\ stage' = "recv"
    /\ \E deleted, retried, recorded \in BOOLEAN :
        /\ purgeFailures' = purgeFailures
                + Cardinality({i \in 1 .. 3 : ~<<deleted, retried, recorded>>[i]})
        /\ purgeFailures' <= MaxPurgeFailures
        /\ MaybePurge(deleted, retried, recorded)
    /\ Quiet
    /\ UNCHANGED <<queue, claims, cache, fault, disruptions, clock>>

-----------------------------------------------------------------------------
\* The other writers.  Every operation that changes the ledger ends with
\* bump_generation in its own transaction.

Bump(generation) == generation + 1

Mutate(d) ==
    /\ db.generation < MaxMutations
    /\ db' = [d EXCEPT !.generation = Bump(@)]
    /\ Quiet
    /\ UNCHANGED <<queue, claims, task, maintenance, clock>>

\* approve_sighting.
Approve(hw) ==
    /\ hw \in DOMAIN db.sightings /\ Alive(db, hw) = {}
    /\ Len(db.devices) < MaxDevices
    /\ Mutate([db EXCEPT
            !.devices = Append(@, [hw |-> hw, state |-> "quarantined"]),
            !.sightings = [h \in DOMAIN @ \ {hw} |-> @[h]]])

Activate(s) ==
    /\ db.devices[s].state = "quarantined"
    /\ Mutate([db EXCEPT !.devices[s].state = "active"])

Retire(s) ==
    /\ db.devices[s].state # "retired"
    /\ Mutate([db EXCEPT !.devices[s].state = "retired"])

\* replace_hardware: a device takes over a hardware id, retiring its holder.
Replace(s, hw) ==
    /\ db.devices[s].state # "retired" /\ db.devices[s].hw # hw
    /\ Mutate([db EXCEPT !.devices =
            [t \in DOMAIN @ |->
                IF t = s THEN [@[t] EXCEPT !.hw = hw]
                ELSE IF t \in Alive(db, hw) THEN [@[t] EXCEPT !.state = "retired"]
                ELSE @[t]]])

\* sighting.pin and unpin.
Pin(p, hw, pinned) ==
    LET subject == [principal |-> p, hw |-> hw]
    IN  /\ PinAllowed(db.staged, subject, pinned)
        /\ Mutate([db EXCEPT !.staged = SetPin(@, subject, pinned)])

\* An authority mutation that ends a device's credential.
Revoke(p) ==
    /\ p \in db.live
    /\ Mutate([db EXCEPT !.live = @ \ {p}, !.auth = @ + 1])

\* run_retention_once_with_latch: its first transaction, with the quarantined
\* devices whose time is over; PurgeSightings is the second one.
Retain ==
    /\ pass = NoTime /\ pass' = now
    /\ \E expired \in SUBSET {s \in DOMAIN db.devices : db.devices[s].state = "quarantined"} :
        /\ expired # {} => db.generation < MaxMutations
        /\ db' = [db EXCEPT
                !.dedup = PurgeDedup(@, now),
                !.devices = [s \in DOMAIN @ |->
                                IF s \in expired THEN [@[s] EXCEPT !.state = "active"] ELSE @[s]],
                !.generation = IF expired # {} THEN Bump(@) ELSE @]
    /\ Quiet
    /\ UNCHANGED <<queue, claims, task, maintenance, now>>

\* Sightings past their age or beyond the cap of the latest seen, unless staged.
\* A failure of this transaction ends the pass.
PurgeSightings ==
    /\ pass # NoTime /\ pass' = NoTime
    /\ \E latest \in kSubset(Min({SightingCap, Cardinality(DOMAIN db.sightings)}),
                             DOMAIN db.sightings) :
        LET old == {hw \in DOMAIN db.sightings :
                        db.sightings[hw].seen < pass - SightingTTL \/ hw \notin latest}
            kept == {hw \in DOMAIN db.sightings : hw \notin old \/ HasStaged(db.staged, hw)}
        IN  /\ \A hw \in latest, other \in DOMAIN db.sightings \ latest :
                    db.sightings[hw].seen >= db.sightings[other].seen
            /\ db' \in {db, [db EXCEPT !.sightings = [hw \in kept |-> @[hw]]]}
    /\ Quiet
    /\ UNCHANGED <<queue, claims, task, maintenance, now>>

Operate ==
    \/ \E hw \in Hardware : Approve(hw)
    \/ \E s \in DOMAIN db.devices : Activate(s) \/ Retire(s)
    \/ \E s \in DOMAIN db.devices, hw \in Hardware : Replace(s, hw)
    \/ \E p \in Adapters, hw \in Hardware, pinned \in BOOLEAN : Pin(p, hw, pinned)
    \/ \E p \in DeviceTokens : Revoke(p)

-----------------------------------------------------------------------------
\* The wall clock runs; it is not set back.
Tick ==
    /\ now < MaxTime /\ now' = now + 1 /\ Quiet
    /\ UNCHANGED <<db, queue, claims, task, maintenance, pass>>

\* The process stops at any point and starts again: the database is what remains.
Restart ==
    /\ disruptions < MaxDisruptions /\ disruptions' = disruptions + 1
    /\ cache' = EmptyCache /\ queue' = <<>> /\ stage' = "recv"
    /\ lastPurge' = now /\ latch' = "none" /\ fault' = FALSE /\ Quiet
    /\ purgeFailed' = FALSE /\ pass' = NoTime
    /\ UNCHANGED <<db, claims, purgeFailures, now>>

Next ==
    \/ \E p \in Principals : Submit(p)
    \/ Process \/ Purge
    \/ Operate \/ Retain \/ PurgeSightings
    \/ Tick \/ Restart

Spec == Init /\ [][Next]_vars

-----------------------------------------------------------------------------
\* The state is what the declarations of the code allow; the tables keep to
\* the row limits of DedupLimits and StagingLimits whoever writes them.
TypeOK ==
    /\ Len(db.dedup) <= DedupRows /\ Len(db.staged) <= StageRows
    /\ \A p \in Principals :
        /\ Count(db.dedup, LAMBDA r : r.principal = p) <= DedupPrincipalRows
        /\ Count(db.staged, LAMBDA r : r.principal = p) <= StagePrincipalRows
    /\ DOMAIN db.sightings \subseteq Hardware
    /\ \A i \in DOMAIN db.series : db.series[i] \in DOMAIN db.devices
    /\ \A hw \in Hardware : Cardinality(Alive(db, hw)) <= 1
    /\ answer \in Acks \cup {"none", "no_ack", "clock_untrusted", "authentication_stale"}
    /\ stage \in {"recv", "purge"} /\ latch \in {"none", "failed", "recovered"}
    /\ fault \in BOOLEAN /\ purgeFailed \in BOOLEAN /\ now \in 0 .. MaxTime

\* Every reading is stored under a series of the device that holds its hardware
\* id in the ledger, and is quarantined exactly when that device or the registry
\* says so: the cache the collector resolves with never answers for a ledger
\* that nodectl or an operation changed, nor with an id that was rolled back.
ReadingsAttributed ==
    TypeOK /\ \A i \in DOMAIN written :
        LET r == written[i]
        IN  /\ r.series \in DOMAIN db.series /\ db.series[r.series] = r.sid
            /\ r.hw # NoHint => r.sid \in Alive(db, r.hw)
            /\ r.quarantined <=> \/ r.registry = "quarantine"
                                 \/ db.devices[r.sid].state = "quarantined"

\* How many of p's other claims are as young as that of c, at most p's share.
\* Between claims of the same time the order is not that of their acceptance: a
\* renewed claim keeps its row.
AsYoung(c, p) ==
    Min({DedupPrincipalRows,
         Cardinality({o \in DOMAIN claims \ {c} : o.principal = p /\ claims[o] >= claims[c]})})

\* The window of c is over: its claim has aged out, or claims as young fill the
\* principal's share or, with no principal beyond its own, the whole table.
WindowOver(c) ==
    \/ c \notin DOMAIN claims
    \/ now > claims[c] + DedupAge
    \/ AsYoung(c, c.principal) = DedupPrincipalRows
    \/ MapThenSumSet(LAMBDA p : AsYoung(c, p), Principals) >= DedupRows

\* A row stands for an envelope that was committed, when it last was: none is
\* refused as a duplicate that the database does not hold.
DuplicateOnlyIfAccepted ==
    \A i \in DOMAIN db.dedup :
        LET c == [principal |-> db.dedup[i].principal, id |-> db.dedup[i].id]
        IN  c \in DOMAIN claims /\ claims[c] = db.dedup[i].at

\* The rows that cannot be evicted, all those of pinned subjects, leave the
\* reserve free in the table and in every principal's share of it.
ReserveEvictable ==
    LET Stuck(r) == Pinned(db.staged, SubjectOf(r))
    IN  /\ Count(db.staged, Stuck) <= StageRows - StageReserve
        /\ \A p \in Adapters : Count(db.staged, LAMBDA r : r.principal = p /\ Stuck(r))
                                    <= StagePrincipalRows - StageReserve

\* A failed purge is on record as degraded, or waits in the latch to be recorded:
\* a recovery that could not be written when it happened never hides it.
FailedPurgeReported == stage = "recv" /\ purgeFailed => db.degraded \/ latch = "failed"

\* No step loses a row of a pinned subject, whatever its age and however full
\* the table is, and a sighting goes only by approval or once nothing is staged
\* for its hardware id, so what is staged can still be approved.
StagedKept ==
    [][/\ \A i \in DOMAIN db.staged :
            Pinned(db.staged, SubjectOf(db.staged[i]))
                => Count(db'.staged, LAMBDA r : SubjectOf(r) = SubjectOf(db.staged[i]))
                    >= Count(db.staged, LAMBDA r : SubjectOf(r) = SubjectOf(db.staged[i]))
       /\ \A hw \in DOMAIN db.sightings \ DOMAIN db'.sightings :
            Alive(db', hw) # {} \/ ~HasStaged(db'.staged, hw)]_db

\* The contract's reserve (ingest-v1.md): whatever is staged and pinned, there is
\* room for an envelope of any adapter about devices it has nothing staged for.
ReserveAdmits ==
    TypeOK /\ ReserveEvictable /\ \A p \in Adapters : \A env \in Envelopes[p] :
        LET hws == [i \in DOMAIN env.items |-> env.items[i].hw]
        IN  (\A hw \in Range(hws) : [principal |-> p, hw |-> hw] \notin Subjects(db.staged))
                => Stage(db.staged, p, hws, now) # NoRoom

\* The storage-write-failed fault ends when one write succeeds (fault table of
\* the MQTT output contract): a step that clears it in a running process commits.
\* It does not hold of the code: see the README.
FaultEndsWithWrite == [][fault /\ ~fault' /\ answer' # "none" => db' # db]_vars

\* Accepted once (try_claim_envelope_bounded_at): an envelope is accepted again
\* only when its window is over, which neither a principal that exceeds its own
\* share, nor a purge, a failed transaction or a restart brings about, and a
\* claim stands for an envelope that was committed.
ClaimsSound ==
    [][/\ answer' = "accepted" /\ Head(queue).commit => WindowOver(ClaimOf(Head(queue)))
       /\ db'.dedup # db.dedup => DuplicateOnlyIfAccepted']_vars
=============================================================================
