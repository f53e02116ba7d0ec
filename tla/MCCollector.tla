----------------------------- MODULE MCCollector -----------------------------
EXTENDS Collector

Item(hw, time) == [hw |-> hw, valid |-> TRUE, time |-> time]
Bad(hw) == [hw |-> hw, valid |-> FALSE, time |-> NoTime]
Env(id, source, items) == [id |-> id, source |-> source, items |-> items]

MCSource == [p \in {"a", "b", "d"} |-> p]
MCScope == [p \in {"d"} |-> {1}]

\* Two registered devices, their adapter and a device token of the first one:
\* the cache, the claims and the authority.
LedgerDevices == <<[hw |-> "h1", state |-> "quarantined"], [hw |-> "h2", state |-> "active"]>>
LedgerEnvelopes ==
    "a" :> {Env(1, "a", <<Item("h1", NoTime)>>), Env(2, "a", <<Item("h2", NoTime), Bad("h1")>>)}
    @@ "d" :> {Env(1, "d", <<Item(NoHint, 1)>>)}

\* Unknown devices of two adapters: staging, pins and sightings.
NoLedger == <<>>
StagingEnvelopes ==
    "a" :> {Env(1, "a", <<Item("h1", NoTime)>>), Env(2, "a", <<Item("h2", NoTime)>>)}
    @@ "b" :> {Env(1, "b", <<Item("h1", NoTime)>>)}
=============================================================================
