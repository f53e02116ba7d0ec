---------------------------- MODULE MCIngestPath ----------------------------
EXTENDS IngestPath

Item(hw, time) == [hw |-> hw, valid |-> TRUE, time |-> time]
Env(id, source, items) == [id |-> id, source |-> source, items |-> items]

MCSource == [p \in {"a", "d"} |-> p]
MCScope == [p \in {"d"} |-> {1}]
PathDevices == <<[hw |-> "h1", state |-> "active"]>>

\* Two envelopes of a registered device, and one of a device token that the
\* contract rejects for its source.
PathEnvelopes ==
    "a" :> {Env(1, "a", <<Item("h1", NoTime)>>), Env(2, "a", <<Item("h1", NoTime)>>)}
    @@ "d" :> {Env(1, "x", <<Item("h1", NoTime)>>)}
=============================================================================
