------------------------------ MODULE HttpIngress ------------------------------
(***************************************************************************)
(* The device-facing HTTP ingress of the edge node: what one request goes  *)
(* through between its arrival and the hand-off to the collector, and the  *)
(* admission state all requests share.                                     *)
(*                                                                         *)
(*   ingest/http/src/routes.rs     the request handler, the cache of       *)
(*                                 authentications, the rechecks           *)
(*   ingest/http/src/admission.rs  token buckets, authentication workers,  *)
(*                                 failing sources, two-stage charging,    *)
(*                                 throttle episodes                       *)
(*   apps/node/src/ingress.rs      the supervisor's tick that reports the  *)
(*                                 episodes to the ledger                  *)
(*                                                                         *)
(* A slot is one concurrent-request permit, and a request comes over an    *)
(* open connection, which serves one at a time (HTTP/1).  A step of a      *)
(* request is the code between two awaits: a token bucket or the cache     *)
(* never changes in the middle of one.  What the request holds (its        *)
(* permit, an authentication worker, a queue slot) is read off its stage,  *)
(* because every one of them is released by Drop when the request ends.    *)
(*                                                                         *)
(* Time is counted in ticks.  Buckets are refilled at the tick; the code   *)
(* refills them when it next looks, which gives the same tokens at every   *)
(* look but one: see ChargeMore.  All devices share one peer address and   *)
(* one flow class.                                                         *)
(***************************************************************************)
EXTENDS Integers, Sequences, FiniteSets, FiniteSetsExt, SequencesExt

CONSTANTS
    ConnectionCap,     \* concurrent_connections permits
    Slots,             \* concurrent_requests permits
    Devices,           \* devices, one credential and one principal each
    AuthBurst,         \* tokens of the general authentication bucket
    ReservedBurst,     \* tokens kept for recently validated devices
    Workers,           \* general authentication workers
    ReservedWorkers,   \* workers kept for recently validated devices
    FailureLimit,      \* pre_auth_failures_per_window
    SourceTTL,         \* pre_auth_source_ttl_ms, in ticks
    CacheTTL,          \* auth_cache_ttl_ms, in ticks
    CacheCap,          \* auth_cache_capacity
    GlobalBurst,       \* tokens of the global flow bucket
    FlowBurst,         \* tokens of a principal's flow bucket
    PrincipalCap,      \* principal_state_capacity
    MaxCost,           \* the conservative cost reserved before the body is read
    QueueSlots,        \* collector_queue_slots
    Cooldown,          \* throttle_cooldown_ms, in ticks
    MaxInputs,         \* bound: connections accepted, requests admitted, changes of an authority
    MaxDrops,          \* bound: drops before no connection or request is refused any more
    Changing           \* bound: devices whose authority changes or is revoked

ASSUME ConfigAssumption ==
    /\ {AuthBurst, ReservedBurst, Workers, ReservedWorkers, FailureLimit} \subseteq Nat \ {0}
    /\ {SourceTTL, CacheTTL, CacheCap, PrincipalCap, QueueSlots, ConnectionCap} \subseteq Nat \ {0}
    /\ {GlobalBurst, FlowBurst, MaxCost} \subseteq Nat \ {0}
    /\ Changing \subseteq Devices
    /\ {Cooldown, MaxInputs, MaxDrops} \subseteq Nat

VARIABLES
    conns,      \* open connections, in the TLS handshake or beyond
    req,        \* slot -> the request that holds it
    live,       \* devices whose credential is not revoked
    version,    \* device -> material generation of its authority
    cache,      \* cached authentications, oldest first
    auth,       \* tokens of the general authentication bucket
    reservedAuth, \* tokens of the reserved authentication bucket
    source,     \* entry of the peer in the failing sources, and its ticks left
    global,     \* tokens of the global flow bucket
    principals, \* device -> tokens, for the devices in the principal table
    throttle,   \* drop counters and the episode state machine
    reporter,   \* the supervisor's episode report in progress
    ledger,     \* episode events written to the event ledger
    jobs,       \* envelopes in the collector's channel and the slot that waits
    inputs

authVars == <<auth, reservedAuth, source>>
flowVars == <<global, principals>>
authorityVars == <<live, version>>
reportVars == <<reporter, ledger>>
netVars == <<conns, inputs>>
vars == <<netVars, req, authVars, flowVars, authorityVars, cache, throttle, reportVars,
          jobs>>

-----------------------------------------------------------------------------
(* Requests and what they hold.                                             *)

Free == [stage |-> "free"]
Stage(r) == req[r].stage
InStage(S) == {r \in Slots : Stage(r) \in S}

OnLane(lane) == {r \in InStage({"lookup", "found", "authed"}) : req[r].lane = lane}
Busy == Slots \ InStage({"free"})
Idle == conns - Cardinality(Busy)
Queued == InStage({"queued"})
Reserving == InStage({"body"})

\* authentication_is_current, as specified by the credential store.
IsCurrent(a) == a.dev \in live /\ version[a.dev] = a.version

Cached(d) == SelectSeq(cache, LAMBDA e : e.auth.dev = d)
CacheWithout(d) == SelectSeq(cache, LAMBDA e : e.auth.dev # d)

\* cache_get: an expired entry is removed when it is looked up.
Hit(d) == Cached(d) # <<>> /\ Cached(d)[1].left > 0
CacheGet(d) == IF Hit(d) THEN cache ELSE CacheWithout(d)

\* A new key evicts the oldest; a known key keeps its place in the order.
CacheInsert(a) ==
    LET entry == [auth |-> a, left |-> CacheTTL]
    IN  IF Cached(a.dev) # <<>>
        THEN [i \in DOMAIN cache |-> IF cache[i].auth.dev = a.dev THEN entry ELSE cache[i]]
        ELSE Append(IF Len(cache) >= CacheCap THEN Tail(cache) ELSE cache, entry)

-----------------------------------------------------------------------------
(* Throttle episodes.                                                       *)

Started(e) == [kind |-> "started", id |-> e, drops |-> 0]
Recovered(e, n) == [kind |-> "recovered", id |-> e, drops |-> n]

NoteDrop(t) ==
    IF t.active
    THEN [t EXCEPT !.drops = @ + 1, !.episodeDrops = @ + 1, !.quiet = 0]
    ELSE [drops |-> t.drops + 1, active |-> TRUE, id |-> t.id + 1, episodeDrops |-> 1,
          quiet |-> 0, events |-> Append(t.events, Started(t.id + 1))]

Pressed(used, capacity) == 2 * used >= capacity

(* Mutant: a full principal table, which never empties, counts as pressure. *)
MayRecover_TableFull ==
    /\ throttle.active
    /\ throttle.quiet >= Cooldown
    /\ 2 * auth >= AuthBurst
    /\ 2 * global >= GlobalBurst
    /\ ~Pressed(Cardinality(DOMAIN principals), PrincipalCap)
    /\ ~Pressed(Cardinality(Busy), Cardinality(Slots))

MayRecover ==
    /\ throttle.active
    /\ throttle.quiet >= Cooldown
    /\ 2 * auth >= AuthBurst
    /\ 2 * global >= GlobalBurst
    /\ \A d \in DOMAIN principals : ~Pressed(FlowBurst - principals[d], FlowBurst)
    /\ ~Pressed(Cardinality(Queued), QueueSlots)
    /\ ~Pressed(Cardinality(Busy), Cardinality(Slots))
    /\ ~Pressed(conns, ConnectionCap)
    /\ \A i \in DOMAIN throttle.events :
            throttle.events[i].kind = "recovered" => throttle.events[i].id = throttle.id

MaybeRecover ==
    IF MayRecover
    THEN [throttle EXCEPT !.active = FALSE, !.episodeDrops = 0,
                          !.events = Append(@, Recovered(throttle.id, throttle.episodeDrops))]
    ELSE throttle

-----------------------------------------------------------------------------
(* The end of a request.                                                    *)

\* refund_unused: the unused part of a reservation returns to both buckets.
Refund(d, refund) ==
    /\ global' = Min({global + refund, GlobalBurst})
    /\ principals' = [principals EXCEPT ![d] = Min({@ + refund, FlowBurst})]

(* Mutant: a request cut off while its envelope is with the collector gets a  *)
(* token back.                                                                *)
DropReservation_Late(r) ==
    CASE r \in Reserving -> Refund(req[r].dev, req[r].reserved - req[r].consumed)
      [] r \in Queued    -> Refund(req[r].dev, 1)
      [] OTHER           -> UNCHANGED flowVars

\* Drop of a reservation that was never reconciled.
DropReservation(r) ==
    IF r \in Reserving THEN Refund(req[r].dev, req[r].reserved - req[r].consumed)
                       ELSE UNCHANGED flowVars

Finish(r) == req' = [req EXCEPT ![r] = Free]
FinishAndDrop(r) == Finish(r) /\ throttle' = NoteDrop(throttle)

-----------------------------------------------------------------------------
(* Arrival and authentication.                                              *)

\* The accept loop: a permit for the connection, or the stream is closed.
Connect ==
    /\ inputs < MaxInputs
    /\ conns < ConnectionCap
    /\ conns' = conns + 1
    /\ inputs' = inputs + 1
    /\ UNCHANGED <<req, authVars, flowVars, authorityVars, cache, throttle, reportVars, jobs>>

ConnectionRefused ==
    /\ throttle.drops < MaxDrops
    /\ conns >= ConnectionCap
    /\ throttle' = NoteDrop(throttle)
    /\ UNCHANGED <<req, authVars, flowVars, authorityVars, cache, reportVars, jobs, netVars>>

\* A connection without a request ends: its peer closes it, the handshake or
\* the next request head takes too long.
Close ==
    /\ Idle > 0
    /\ conns' = conns - 1
    /\ UNCHANGED <<req, authVars, flowVars, authorityVars, cache, throttle, reportVars, jobs, inputs>>

\* Without a permit the request is answered 429 at once.
RequestRefused ==
    /\ throttle.drops < MaxDrops
    /\ Idle > 0
    /\ Busy = Slots
    /\ throttle' = NoteDrop(throttle)
    /\ UNCHANGED <<req, authVars, flowVars, authorityVars, cache, reportVars, jobs, netVars>>

\* authenticate looks into the cache first, in the same step as the admission.
Admitted(r, base, lane, looked) ==
    /\ req' = [req EXCEPT ![r] = base @@ [lane |-> lane] @@
                    IF looked # <<>> THEN [stage |-> "authed", auth |-> looked[1].auth]
                                     ELSE [stage |-> "lookup"]]
    /\ UNCHANGED throttle

NoSource == [known |-> FALSE, failures |-> 0, left |-> 0]

\* A token and then a worker, general ones first; the token is not returned
\* when no worker is free.  Expired sources are forgotten first.
TryBeginAuth(r, base, recent) ==
    LET kept == IF source.left > 0 THEN source ELSE NoSource
        general == auth >= 1
        spare == recent /\ reservedAuth >= 1
        lane == IF Cardinality(OnLane("general")) < Workers THEN "general"
                ELSE IF recent /\ Cardinality(OnLane("reserved")) < ReservedWorkers THEN "reserved"
                ELSE "none"
        looked == IF Hit(base.dev) /\ cache' = cache THEN Cached(base.dev) ELSE <<>>
    IN  \/ /\ kept.failures >= FailureLimit \/ ~(general \/ spare)
           /\ FinishAndDrop(r)
           /\ source' = kept
           /\ UNCHANGED <<auth, reservedAuth>>
        \/ /\ kept.failures < FailureLimit
           /\ general \/ spare
           /\ auth' = IF general THEN auth - 1 ELSE auth
           /\ reservedAuth' = IF general THEN reservedAuth ELSE reservedAuth - 1
           /\ source' = IF kept.known THEN kept ELSE [known |-> TRUE, failures |-> 0, left |-> SourceTTL]
           /\ IF lane = "none" THEN FinishAndDrop(r) ELSE Admitted(r, base, lane, looked)

\* The handler up to its first await: a cached authentication goes to the
\* database to be rechecked, any other bearer asks for a general worker.
Arrive(r, d) ==
    /\ Idle > 0
    /\ inputs < MaxInputs
    /\ Stage(r) = "free"
    /\ inputs' = inputs + 1
    /\ cache' = CacheGet(d)
    /\ LET base == [dev |-> d]
       IN  IF Hit(d)
           THEN /\ req' = [req EXCEPT ![r] = base @@ [stage |-> "cached", auth |-> Cached(d)[1].auth]]
                /\ UNCHANGED <<authVars, throttle>>
           ELSE TryBeginAuth(r, base, FALSE)
    /\ UNCHANGED <<flowVars, authorityVars, reportVars, jobs, conns>>

\* The cached authentication is checked and admitted in one transaction; a
\* stale one is removed and the request takes the general lane.
AdmitCached(r) ==
    /\ Stage(r) = "cached"
    /\ LET a == req[r].auth
           base == [dev |-> a.dev]
       IN  /\ cache' = IF IsCurrent(a) THEN CacheGet(a.dev) ELSE CacheWithout(a.dev)
           /\ TryBeginAuth(r, base, IsCurrent(a))
    /\ UNCHANGED <<flowVars, authorityVars, reportVars, jobs, netVars>>

\* The credential store's answer: a live credential is authenticated at its
\* present generation, any other bearer counts against its source.
Lookup(r) ==
    /\ Stage(r) = "lookup"
    /\ LET d == req[r].dev
       IN  \/ /\ d \in live
              /\ req' = [req EXCEPT ![r] = [stage |-> "found", dev |-> d,
                                            lane |-> req[r].lane,
                                            auth |-> [dev |-> d, version |-> version[d]]]]
              /\ UNCHANGED source
           \/ /\ d \notin live
              /\ source' = IF source.known
                           THEN [source EXCEPT !.failures = @ + 1, !.left = SourceTTL]
                           ELSE source
              /\ Finish(r)
    /\ UNCHANGED <<auth, reservedAuth, flowVars, authorityVars, cache, throttle, reportVars,
                   jobs, netVars>>

Insert(r) ==
    /\ Stage(r) = "found"
    /\ cache' = CacheInsert(req[r].auth)
    /\ req' = [req EXCEPT ![r].stage = "authed"]
    /\ UNCHANGED <<authVars, flowVars, authorityVars, throttle, reportVars, jobs, netVars>>

RecheckFails(r) ==
    /\ ~IsCurrent(req[r].auth)
    /\ cache' = CacheWithout(req[r].dev)
    /\ Finish(r)
    /\ UNCHANGED <<flowVars, throttle, jobs>>

\* reserve_principal: a new principal needs room in the table, and both
\* buckets must hold the whole conservative cost.
Reserve(r) ==
    LET d == req[r].dev
        table == IF d \in DOMAIN principals THEN principals
                 ELSE principals @@ (d :> FlowBurst)
    IN  IF d \notin DOMAIN principals /\ Cardinality(DOMAIN principals) >= PrincipalCap
        THEN FinishAndDrop(r) /\ UNCHANGED flowVars
        ELSE IF global < MaxCost \/ table[d] < MaxCost
        THEN FinishAndDrop(r) /\ principals' = table /\ UNCHANGED global
        ELSE /\ global' = global - MaxCost
             /\ principals' = [table EXCEPT ![d] = @ - MaxCost]
             /\ req' = [req EXCEPT ![r] = [stage |-> "body", dev |-> d,
                                           auth |-> req[r].auth, reserved |-> MaxCost, consumed |-> 1]]
             /\ UNCHANGED throttle

\* The recheck after authentication, then the reservation.
RecheckAndReserve(r) ==
    /\ Stage(r) = "authed"
    /\ \/ RecheckFails(r)
       \/ IsCurrent(req[r].auth) /\ Reserve(r) /\ UNCHANGED <<cache, jobs>>
    /\ UNCHANGED <<authVars, authorityVars, reportVars, netVars>>

-----------------------------------------------------------------------------
(* The body, two-stage charging and the hand-off.                           *)

ReadChunk(r) ==
    /\ Stage(r) = "body"
    /\ req[r].consumed < req[r].reserved
    /\ req' = [req EXCEPT ![r].consumed = @ + 1]
    /\ UNCHANGED <<authVars, flowVars, authorityVars, cache, throttle, reportVars, jobs, netVars>>

\* Too large, slow, broken or not an envelope.
ReadFails(r) ==
    /\ Stage(r) = "body"
    /\ DropReservation(r)
    /\ Finish(r)
    /\ UNCHANGED <<authVars, authorityVars, cache, throttle, reportVars, jobs, netVars>>

\* reconcile_at with the real cost: at most what was reserved.
Reconcile(r, actual) ==
    /\ Stage(r) = "body"
    /\ actual \in req[r].consumed .. req[r].reserved
    /\ Refund(req[r].dev, req[r].reserved - actual)
    /\ req' = [req EXCEPT ![r] = [stage |-> "charged", dev |-> req[r].dev,
                                  auth |-> req[r].auth]]
    /\ UNCHANGED <<authVars, authorityVars, cache, throttle, reportVars, jobs, netVars>>

\* reconcile_at for too many items: the cost is above the reservation, the
\* difference is taken from both buckets or the whole reservation is spent.
\* The envelope is rejected either way.  The buckets are not refilled first,
\* so the charge may be refused although the refilled tokens would cover it.
ChargeMore(r) ==
    /\ Stage(r) = "body"
    /\ LET d == req[r].dev
       IN  \/ /\ global >= 1 /\ principals[d] >= 1
              /\ global' = global - 1
              /\ principals' = [principals EXCEPT ![d] = @ - 1]
              /\ Finish(r)
              /\ UNCHANGED throttle
           \/ FinishAndDrop(r) /\ UNCHANGED flowVars
    /\ UNCHANGED <<authVars, authorityVars, cache, reportVars, jobs, netVars>>

\* The recheck after the body, a queue slot, and the collector's channel.
RecheckAndSubmit(r) ==
    /\ Stage(r) = "charged"
    /\ \/ RecheckFails(r)
       \/ /\ IsCurrent(req[r].auth)
          /\ Cardinality(Queued) >= QueueSlots
          /\ FinishAndDrop(r)
          /\ UNCHANGED <<cache, flowVars, jobs>>
       \/ /\ IsCurrent(req[r].auth)
          /\ Cardinality(Queued) < QueueSlots
          /\ jobs' = Append(jobs, [dev |-> req[r].dev, waiting |-> {r}])
          /\ req' = [req EXCEPT ![r] = [stage |-> "queued", dev |-> req[r].dev]]
          /\ UNCHANGED <<cache, flowVars, throttle>>
    /\ UNCHANGED <<authVars, authorityVars, reportVars, netVars>>

\* The collector commits the envelope or refuses it (module Collector), and
\* answers the request if it still waits.
Process ==
    /\ jobs # <<>>
    /\ req' = [r \in Slots |-> IF r \in Head(jobs).waiting THEN Free ELSE req[r]]
    /\ jobs' = Tail(jobs)
    /\ UNCHANGED <<authVars, flowVars, authorityVars, cache, throttle, reportVars, netVars>>

\* The whole-request timeout, the collector timeout or a database error: the
\* future is dropped and the answer (408, 503) promises nothing.  An envelope
\* already in the collector's channel stays there.  The future is dropped with
\* the connection, too, when the peer goes away.
Abandon(r) ==
    /\ Stage(r) # "free"
    /\ DropReservation(r)
    /\ Finish(r)
    /\ jobs' = [i \in DOMAIN jobs |-> [jobs[i] EXCEPT !.waiting = @ \ {r}]]
    /\ conns' \in {conns, conns - 1}
    /\ UNCHANGED <<authVars, authorityVars, cache, throttle, reportVars, inputs>>

-----------------------------------------------------------------------------
(* Time, the operator, and the supervisor's report.                         *)

Tick ==
    /\ auth' = Min({auth + 1, AuthBurst})
    /\ reservedAuth' = Min({reservedAuth + 1, ReservedBurst})
    /\ source' = [source EXCEPT !.left = Max({@ - 1, 0})]
    /\ global' = Min({global + 1, GlobalBurst})
    /\ principals' = [d \in DOMAIN principals |-> Min({principals[d] + 1, FlowBurst})]
    /\ cache' = [i \in DOMAIN cache |-> [cache[i] EXCEPT !.left = Max({@ - 1, 0})]]
    /\ throttle' = [throttle EXCEPT !.quiet = Min({@ + 1, Cooldown})]
    /\ UNCHANGED <<req, authorityVars, reportVars, jobs, netVars>>

\* A change of the device's authority, or the end of it.
Revoke(d) ==
    /\ inputs < MaxInputs
    /\ d \in live
    /\ inputs' = inputs + 1
    /\ \/ live' = live \ {d} /\ UNCHANGED version
       \/ version' = [version EXCEPT ![d] = @ + 1] /\ UNCHANGED live
    /\ UNCHANGED <<req, authVars, flowVars, cache, throttle, reportVars, jobs, conns>>

\* admission_health and the copy of the pending events.
Observe ==
    /\ reporter.stage = "idle"
    /\ throttle' = MaybeRecover
    /\ reporter' = IF throttle'.events = <<>> THEN reporter
                   ELSE [stage |-> "writing", events |-> throttle'.events]
    /\ UNCHANGED <<req, authVars, flowVars, authorityVars, cache, ledger, jobs, netVars>>

\* One transaction writes them all or none.
Persist ==
    /\ reporter.stage = "writing"
    /\ \/ /\ ledger' = ledger \o reporter.events
          /\ reporter' = [reporter EXCEPT !.stage = "written"]
       \/ /\ reporter' = [stage |-> "idle", events |-> <<>>]
          /\ UNCHANGED ledger
    /\ UNCHANGED <<req, authVars, flowVars, authorityVars, cache, throttle, jobs, netVars>>

(* Mutant: the acknowledgement drains events that arrived during the write. *)
Acknowledge_All ==
    /\ reporter.stage = "written"
    /\ throttle' = [throttle EXCEPT !.events = <<>>]
    /\ reporter' = [stage |-> "idle", events |-> <<>>]
    /\ UNCHANGED <<req, authVars, flowVars, authorityVars, cache, ledger, jobs, netVars>>

\* acknowledge_episode_events drains the events it was given if they are
\* still the first ones.
Acknowledge ==
    /\ reporter.stage = "written"
    /\ throttle' = IF IsPrefix(reporter.events, throttle.events)
                   THEN [throttle EXCEPT !.events =
                            SubSeq(@, Len(reporter.events) + 1, Len(@))]
                   ELSE throttle
    /\ reporter' = [stage |-> "idle", events |-> <<>>]
    /\ UNCHANGED <<req, authVars, flowVars, authorityVars, cache, ledger, jobs, netVars>>

-----------------------------------------------------------------------------
Init ==
    /\ conns = 0
    /\ req = [r \in Slots |-> Free]
    /\ live = Devices
    /\ version = [d \in Devices |-> 0]
    /\ cache = <<>>
    /\ auth = AuthBurst
    /\ reservedAuth = ReservedBurst
    /\ source = NoSource
    /\ global = GlobalBurst
    /\ principals = <<>>
    /\ throttle = [drops |-> 0, active |-> FALSE, id |-> 0, episodeDrops |-> 0, quiet |-> Cooldown,
                   events |-> <<>>]
    /\ reporter = [stage |-> "idle", events |-> <<>>]
    /\ ledger = <<>>
    /\ jobs = <<>>
    /\ inputs = 0

Step(r) ==
    \/ AdmitCached(r)
    \/ Lookup(r)
    \/ Insert(r)
    \/ RecheckAndReserve(r)
    \/ ReadChunk(r)
    \/ ReadFails(r)
    \/ \E actual \in 1 .. MaxCost : Reconcile(r, actual)
    \/ ChargeMore(r)
    \/ RecheckAndSubmit(r)
    \/ Abandon(r)

Next ==
    \/ Connect
    \/ ConnectionRefused
    \/ Close
    \/ RequestRefused
    \/ \E r \in Slots, d \in Devices : Arrive(r, d)
    \/ \E r \in Slots : Step(r)
    \/ Process
    \/ Tick
    \/ \E d \in Changing : Revoke(d)
    \/ Observe
    \/ Persist
    \/ Acknowledge

Spec == Init /\ [][Next]_vars

\* Time passes; a request that does not end by itself runs into its timeout,
\* and so does a connection without one; the supervisor's loop keeps turning,
\* and the ledger does not refuse every write.  Nothing is assumed of the
\* collector.
Fairness ==
    /\ WF_vars(Tick)
    /\ WF_vars(Close)
    /\ \A r \in Slots : WF_vars(Abandon(r))
    /\ WF_vars(Observe)
    /\ SF_vars(Persist /\ ledger' # ledger)
    /\ WF_vars(Acknowledge)

FairSpec == Spec /\ Fairness

-----------------------------------------------------------------------------
(* Properties.                                                              *)

\* Every table, pool and bucket stays within its configured capacity, and at
\* most three episode events wait for the supervisor (admission.rs bounds the
\* queue only through the guard of maybe_recover).
TypeOK ==
    /\ conns \in Cardinality(Busy) .. ConnectionCap
    /\ live \subseteq Devices
    /\ auth \in 0 .. AuthBurst /\ reservedAuth \in 0 .. ReservedBurst
    /\ source.failures \in 0 .. FailureLimit + Cardinality(Slots)
    /\ global \in 0 .. GlobalBurst
    /\ DOMAIN principals \subseteq Devices /\ Cardinality(DOMAIN principals) <= PrincipalCap
    /\ \A d \in DOMAIN principals : principals[d] \in 0 .. FlowBurst
    /\ Len(cache) <= CacheCap
    /\ Cardinality(OnLane("general")) <= Workers
    /\ Cardinality(OnLane("reserved")) <= ReservedWorkers
    /\ Cardinality(Queued) <= QueueSlots
    /\ Len(throttle.events) <= 3

\* What the devices D have been admitted for and may still get back or have
\* committed: the unused part of every open reservation, and one token for
\* every request past its reservation and every envelope in the collector's
\* channel, also one whose request was cut off.
Owed(D) ==
    LET paying == {r \in InStage({"body", "charged"}) : req[r].dev \in D}
        worth(r) == 1 + IF r \in Reserving THEN req[r].reserved - req[r].consumed ELSE 0
    IN  MapThenSumSet(worth, paying) + Len(SelectSeq(jobs, LAMBDA job : job.dev \in D))

\* The flow a device can still use; one that is not in the table has it all.
Tokens(d) == IF d \in DOMAIN principals THEN principals[d] ELSE FlowBurst

\* Two-stage charging creates no flow: no step of a request, however and
\* whenever it ends, raises the tokens of a bucket plus what is owed from it;
\* only time does.  A device whose requests time out with their envelopes
\* still in the collector's channel, and give their queue slots back, has
\* paid for each of these envelopes.
NoFreeFlow ==
    [][<<req, jobs>>' # <<req, jobs>> =>
        /\ (global + Owed(Devices))' <= global + Owed(Devices)
        /\ \A d \in Devices : (Tokens(d) + Owed({d}))' <= Tokens(d) + Owed({d})]_vars

\* The drops reported with the recovered episodes, written or waiting, and
\* those of the running episode are all the drops there were.
DropsAccounted ==
    LET written == IF reporter.stage = "written" THEN Len(reporter.events) ELSE 0
        waiting == SubSeq(throttle.events, written + 1, Len(throttle.events))
        all == ledger \o waiting
    IN  throttle.drops = throttle.episodeDrops + FoldSeq(LAMBDA e, n : e.drops + n, 0, all)

\* The ledger tells the episodes in order, each started and then recovered
\* once, although a failed write is repeated with more events.
EpisodesInOrder ==
    \A i \in DOMAIN ledger :
        /\ ledger[i].id = (i + 1) \div 2
        /\ ledger[i].kind = IF i % 2 = 1 THEN "started" ELSE "recovered"

\* Every throttle episode ends and its end reaches the ledger, once the load
\* that caused it is gone.
EpisodesEnd == throttle.active ~> (~throttle.active /\ throttle.events = <<>>)

\* What the ledger tells of throttling is complete and in order: each episode
\* once, with all its drops, although writes fail and drops go on meanwhile.
EpisodesReported == TypeOK /\ DropsAccounted /\ EpisodesInOrder
=============================================================================
