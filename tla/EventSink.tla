----------------------------- MODULE EventSink -----------------------------
(***************************************************************************)
(* How events leave the autoscaler-agent (pkg/reporting): the batcher and  *)
(* the sender of one client of an EventSink.  Clients share nothing, and   *)
(* all get every event.                                                    *)
(*                                                                         *)
(* Each section under the batcher's lock is a step, and so is each case of *)
(* the sender's select.  A push that fails may have been received.         *)
(***************************************************************************)
EXTENDS Naturals, Sequences, FiniteSets

CONSTANTS
    targetBatchSize, \* events of a batch
    MaxFailedPushes  \* bound

VARIABLES
    ongoing,       \* the events of the batch that is being built
    completed,     \* the batches that are ready, the oldest first
    batchComplete, \* whether there is something in that channel
    sinkDone,      \* the context of Run
    sender,        \* senderLoop: in its select, sending (for the last time or not), or ended
    delivered,     \* the events that were received
    failedPushes

sinkVars == <<ongoing, completed, batchComplete, sinkDone, sender, delivered, failedPushes>>

SinkInit ==
    /\ ongoing = {}
    /\ completed = <<>>
    /\ batchComplete = FALSE
    /\ sinkDone = FALSE
    /\ sender = "select"
    /\ delivered = {}
    /\ failedPushes = 0

\* finishCurrentBatch, with its call of onComplete
finishSilently(events) ==
    /\ completed' = Append(completed, events)
    /\ ongoing' = {}
    /\ UNCHANGED batchComplete

finishCurrentBatch(events) ==
    /\ completed' = Append(completed, events)
    /\ ongoing' = {}
    /\ batchComplete' = TRUE

enqueue(event) ==
    /\ IF Cardinality(ongoing) + 1 >= targetBatchSize
       THEN finishCurrentBatch(ongoing \union {event})
       ELSE ongoing' = ongoing \union {event} /\ UNCHANGED <<completed, batchComplete>>
    /\ UNCHANGED <<sinkDone, sender, delivered, failedPushes>>

finishOngoing ==
    IF ongoing = {} THEN UNCHANGED <<ongoing, completed, batchComplete>> ELSE finishCurrentBatch(ongoing)

ContextDone ==
    /\ sender = "select"
    /\ sinkDone
    /\ finishOngoing
    /\ sender' = "final"
    /\ UNCHANGED <<sinkDone, delivered, failedPushes>>

BatchComplete ==
    /\ sender = "select"
    /\ batchComplete
    /\ batchComplete' = FALSE
    /\ sender' = "sending"
    /\ UNCHANGED <<ongoing, completed, sinkDone, delivered, failedPushes>>

\* The timer.  What was ongoing is sent at the next turn, for its notification.
Heartbeat ==
    /\ sender = "select"
    /\ ongoing # {}
    /\ finishOngoing
    /\ UNCHANGED <<sinkDone, sender, delivered, failedPushes>>

\* sendAllCompletedBatches returns.
Return == sender' = IF sender = "final" THEN "ended" ELSE "select"

AllSent ==
    /\ sender \in {"sending", "final"}
    /\ completed = <<>>
    /\ Return
    /\ UNCHANGED <<ongoing, completed, batchComplete, sinkDone, delivered, failedPushes>>

Pushed ==
    /\ sender \in {"sending", "final"}
    /\ completed # <<>>
    /\ delivered' = delivered \union Head(completed)
    /\ completed' = Tail(completed)
    /\ UNCHANGED <<ongoing, batchComplete, sinkDone, sender, failedPushes>>

\* The batch stays, and all after it.
PushFails(received) ==
    /\ sender \in {"sending", "final"}
    /\ completed # <<>>
    /\ failedPushes < MaxFailedPushes
    /\ failedPushes' = failedPushes + 1
    /\ delivered' = IF received THEN delivered \union Head(completed) ELSE delivered
    /\ Return
    /\ UNCHANGED <<ongoing, completed, batchComplete, sinkDone>>

SinkNext ==
    \/ ContextDone \/ BatchComplete \/ Heartbeat \/ AllSent \/ Pushed
    \/ \E received \in BOOLEAN : PushFails(received)

\* The goroutine of the sender and its timer go on.
SinkFairness == WF_sinkVars(ContextDone \/ BatchComplete \/ Heartbeat \/ AllSent \/ Pushed)

Unsent == ongoing \union UNION {completed[i] : i \in DOMAIN completed}
=============================================================================
