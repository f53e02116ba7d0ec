----------------------------- MODULE IngestPath -----------------------------
(***************************************************************************)
(* An adapter's in-process client (ingest/client) in front of the          *)
(* collector: a bounded input queue, a bounded spool whose head is sent    *)
(* until it gets an answer that ends it, and a receipt for each envelope.  *)
(*                                                                         *)
(*  input, spool   the envelopes the client holds, oldest first            *)
(*  waiting        the client awaits Collector::submit for the head        *)
(*  reply          what that call returned, "none" until it does           *)
(*  backoff        backoff_until lies ahead                                *)
(*  handles        an IngestClient handle exists                           *)
(*  running        the client task runs                                    *)
(*  dead           the collector task has ended (a panic)                  *)
(*  receipt        [envelope -> what its DeliveryReceipt says]             *)
(***************************************************************************)
EXTENDS Collector

CONSTANTS Client, InputCap, SpoolCap

ASSUME ClientAssumption ==
    /\ Client \in Adapters
    /\ InputCap > 0 /\ SpoolCap > 0

VARIABLES input, spool, waiting, reply, backoff, handles, running, dead, receipt
client == <<input, spool, waiting, reply, backoff, handles, running, dead, receipt>>
collector == vars
allVars == <<collector, client>>

Sent == Envelopes[Client]
Abandoned == {"overflow", "shutdown", "closed"}

PathInit ==
    /\ Init
    /\ input = <<>> /\ spool = <<>> /\ waiting = FALSE /\ reply = "none"
    /\ backoff = FALSE /\ handles = TRUE /\ running = TRUE /\ dead = FALSE
    /\ receipt = [env \in Sent |-> "none"]

-----------------------------------------------------------------------------
\* try_submit_with_receipt, and try_retry_with_receipt for an abandoned one.
\* A full or closed queue gives the envelope back and changes nothing.
TrySubmit(env) ==
    /\ handles /\ running /\ Len(input) < InputCap
    /\ receipt[env] \in Abandoned \cup {"none"}
    /\ input' = Append(input, env)
    /\ receipt' = [receipt EXCEPT ![env] = "pending"]
    /\ UNCHANGED <<collector, spool, waiting, reply, backoff, handles, running, dead>>

\* push_bounded.
PushBounded(env) ==
    IF Len(spool) >= SpoolCap
    THEN /\ spool' = Append(Tail(spool), env)
         /\ receipt' = [receipt EXCEPT ![Head(spool)] = "overflow"]
    ELSE spool' = Append(spool, env) /\ UNCHANGED receipt

\* Input is taken in only during the backoff or with nothing to send.
Listening == running /\ ~waiting /\ (backoff \/ spool = <<>>)

Take ==
    /\ Listening /\ input # <<>>
    /\ PushBounded(Head(input))
    /\ input' = Tail(input)
    /\ UNCHANGED <<collector, waiting, reply, backoff, handles, running, dead>>

BackoffOver ==
    /\ running /\ ~waiting /\ backoff /\ backoff' = FALSE
    /\ UNCHANGED <<collector, input, spool, waiting, reply, handles, running, dead, receipt>>

\* Mutant: what is still in the input queue is dropped.
AbandonAll_SpoolOnly(reason) ==
    /\ receipt' = [env \in Sent |-> IF env \in Range(spool) THEN reason ELSE receipt[env]]
    /\ input' = <<>> /\ spool' = <<>> /\ running' = FALSE

\* abandon_all, and the end of the client task.
AbandonAll(reason) ==
    /\ receipt' = [env \in Sent |->
                    IF env \in Range(input) \cup Range(spool) THEN reason ELSE receipt[env]]
    /\ input' = <<>> /\ spool' = <<>> /\ running' = FALSE

Ready == running /\ ~waiting /\ ~backoff /\ spool # <<>>

SubmitHead ==
    /\ Ready /\ ~dead
    /\ Send(Request(Client, Head(spool), TRUE))
    /\ waiting' = TRUE
    /\ Quiet
    /\ UNCHANGED <<db, claims, task, maintenance, clock>>
    /\ UNCHANGED <<input, spool, reply, backoff, handles, running, dead, receipt>>

\* The collector's queue is closed: SubmitError::Closed.
SubmitClosed ==
    /\ Ready /\ dead
    /\ AbandonAll("closed")
    /\ UNCHANGED <<collector, waiting, reply, backoff, handles, dead>>

\* An ack ends the envelope; anything else is sent again after a backoff.
EndsEnvelope(answered) == answered \in Acks

Receive ==
    /\ waiting /\ reply # "none"
    /\ waiting' = FALSE /\ reply' = "none"
    /\ IF EndsEnvelope(reply)
       THEN /\ spool' = Tail(spool) /\ backoff' = FALSE
            /\ receipt' = [receipt EXCEPT ![Head(spool)] = "final"]
       ELSE backoff' = TRUE /\ UNCHANGED <<spool, receipt>>
    /\ UNCHANGED <<collector, input, handles, running, dead>>

\* The adapter drops its handles; the client ends once its input is drained.
DropHandles ==
    /\ handles /\ handles' = FALSE
    /\ UNCHANGED <<collector, input, spool, waiting, reply, backoff, running, dead, receipt>>

Shutdown ==
    /\ Listening /\ ~handles /\ input = <<>>
    /\ AbandonAll("shutdown")
    /\ UNCHANGED <<collector, waiting, reply, backoff, handles, dead>>

-----------------------------------------------------------------------------
\* The collector's turns, and the client's call that one of them answers.
ProcessRequest ==
    /\ ~dead /\ Process
    /\ reply' = IF Head(queue).principal = Client THEN answer' ELSE reply
    /\ UNCHANGED <<input, spool, waiting, backoff, handles, running, dead, receipt>>

PurgeTurn == ~dead /\ Purge /\ UNCHANGED client

\* A panic ends the task: the requests in its queue are dropped, and a caller
\* that waits for one of them gets no ack.
CollectorDies ==
    /\ ~dead /\ dead' = TRUE
    /\ queue' = <<>>
    /\ reply' = IF waiting /\ reply = "none" THEN "no_ack" ELSE reply
    /\ Quiet
    /\ UNCHANGED <<db, claims, task, maintenance, clock>>
    /\ UNCHANGED <<input, spool, waiting, backoff, handles, running, receipt>>

OtherSubmit == \E p \in Principals \ {Client} : ~dead /\ Submit(p) /\ UNCHANGED client

\* The other writers of the database touch neither the queue nor the claims'
\* history: Collector has their steps, here only time passes.
TimePasses == Tick /\ UNCHANGED client

PathNext ==
    \/ \E env \in Sent : TrySubmit(env)
    \/ Take \/ BackoffOver \/ SubmitHead \/ SubmitClosed \/ Receive
    \/ DropHandles \/ Shutdown
    \/ ProcessRequest \/ PurgeTurn \/ CollectorDies
    \/ OtherSubmit \/ TimePasses

PathSpec == PathInit /\ [][PathNext]_allVars

\* The tasks run, timers fire, and the queue's permits go out in the order they
\* were asked for, so a sender is not passed over for ever.
Fairness ==
    /\ WF_allVars(Take) /\ WF_allVars(BackoffOver) /\ SF_allVars(SubmitHead)
    /\ WF_allVars(SubmitClosed) /\ WF_allVars(Receive) /\ WF_allVars(Shutdown)
    /\ WF_allVars(ProcessRequest) /\ WF_allVars(PurgeTurn)

FairPathSpec == PathSpec /\ Fairness

-----------------------------------------------------------------------------
\* A receipt still open stands for an envelope the client holds, in one place,
\* so DeliveryReceipt::wait never meets a sender dropped without an outcome;
\* and the client never holds an envelope whose receipt has been answered.
ReceiptsHeld ==
    LET held == input \o spool
    IN  \A env \in Sent :
            Cardinality({i \in DOMAIN held : held[i] = env})
                = (IF receipt[env] = "pending" THEN 1 ELSE 0)

\* A final receipt for an envelope the contract accepts means it was committed:
\* storage failures, the collector's end and retries never produce one for an
\* envelope the database does not hold.
FinalIsDurable ==
    \A env \in Sent :
        receipt[env] = "final" /\ env.source = Source[Client] /\ Len(env.items) <= MaxItems
            => [principal |-> Client, id |-> env.id] \in DOMAIN claims

\* Every envelope the client takes gets a final answer or is given back, even
\* when the collector ends or the handles are dropped while it waits.
EveryReceiptResolves ==
    \A env \in Sent : receipt[env] = "pending" ~> receipt[env] # "pending"

\* Every receipt tells the truth: open, it stands for an envelope that is held;
\* final, for one that was committed.
ReceiptsTruthful == ReceiptsHeld /\ FinalIsDurable
=============================================================================
