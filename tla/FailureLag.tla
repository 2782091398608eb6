----------------------------- MODULE FailureLag -----------------------------
(***************************************************************************)
(* Which objects a NeonVM controller reports as failing, and of those      *)
(* which are retried (pkg/neonvm/controllers/failurelag, and its use by    *)
(* the wrapped Reconcile of pkg/neonvm/controllers/metrics.go).            *)
(*                                                                         *)
(* A tracker knows when each key has first and last failed since its last  *)
(* success.  It does not look at them when it is asked: each failure puts  *)
(* an event into a queue, and the events that are due are processed at     *)
(* whatever call comes next.  An action is a critical section of           *)
(* Tracker.lock.  Reconciles of one object follow one another, those of    *)
(* several objects run side by side.                                       *)
(***************************************************************************)
EXTENDS Integers, Sequences

CONSTANTS
    NULL,
    Objects,
    period,
    MaxTime,    \* bound: units of time
    MaxQueue    \* bound: length of a refresh queue

VARIABLES
    now,
    tracker,    \* "failing" and "conflicting"
    unfinished  \* objects whose reconcile has yet to tell the tracker of conflicts

trackerVars == <<now, tracker, unfinished>>

NewTracker ==
    [firstFailure |-> [k \in Objects |-> NULL], lastFailure |-> [k \in Objects |-> NULL],
     refreshQueue |-> <<>>, degradedRetried |-> {}, degradedNotRetried |-> {}]

TrackerInit ==
    /\ now = 0
    /\ tracker = [name \in {"failing", "conflicting"} |-> NewTracker]
    /\ unfinished = {}

(***************************************************************************)
(* tracker.go                                                              *)
(***************************************************************************)
OutdatedBySuccess(t, event) == t.firstFailure[event.key] = NULL

\* An event is of no use if there was a success since, even if another failure followed.
Outdated(t, event) ==
    \/ t.firstFailure[event.key] = NULL
    \/ event.ts - t.firstFailure[event.key] < period

RetriedSince(t, event) == event.ts - t.lastFailure[event.key] < period

processEvent(t, event) ==
    IF Outdated(t, event) THEN t
    ELSE IF RetriedSince(t, event)
    THEN [t EXCEPT !.degradedRetried = @ \union {event.key}]
    ELSE [t EXCEPT !.degradedRetried = @ \ {event.key},
                   !.degradedNotRetried = @ \union {event.key}]

\* All events that are due; the queue is in the order of their times.
processQueue(t, time) ==
    LET queue == t.refreshQueue
        due == {i \in 1..Len(queue) : \A j \in 1..i : queue[j].ts <= time}
        after[i \in {0} \union due] == IF i = 0 THEN t ELSE processEvent(after[i - 1], queue[i])
        last == CHOOSE i \in {0} \union due : \A j \in due : j <= i
    IN  [after[last] EXCEPT !.refreshQueue = SubSeq(queue, last + 1, Len(queue))]

RecordSuccess(t, k) ==
    processQueue([t EXCEPT !.degradedRetried = @ \ {k}, !.degradedNotRetried = @ \ {k},
                           !.firstFailure[k] = NULL, !.lastFailure[k] = NULL], now)

RecordFailure(t, k) ==
    processQueue([t EXCEPT !.firstFailure[k] = IF @ = NULL THEN now ELSE @,
                           !.lastFailure[k] = now,
                           !.degradedRetried = IF k \in t.degradedNotRetried THEN @ \union {k} ELSE @,
                           !.degradedNotRetried = @ \ {k},
                           !.refreshQueue = Append(@, [ts |-> now + period, key |-> k])], now)

(***************************************************************************)
(* metrics.go                                                              *)
(***************************************************************************)
Tick ==
    /\ now < MaxTime
    /\ now' = now + 1
    /\ UNCHANGED <<tracker, unfinished>>

CanRecord(name) == Len(tracker[name].refreshQueue) < MaxQueue

ReconcileConflicts(k) ==
    /\ k \notin unfinished
    /\ CanRecord("conflicting")
    /\ tracker' = [tracker EXCEPT !["conflicting"] = RecordFailure(@, k)]
    /\ UNCHANGED <<now, unfinished>>

\* Another error also says that the conflicts are over.
ReconcileFails(k) ==
    /\ k \notin unfinished
    /\ CanRecord("failing")
    /\ tracker' = [tracker EXCEPT !["failing"] = RecordFailure(@, k)]
    /\ unfinished' = unfinished \union {k}
    /\ UNCHANGED now

ReconcileSucceeds(k) ==
    /\ k \notin unfinished
    /\ tracker' = [tracker EXCEPT !["failing"] = RecordSuccess(@, k)]
    /\ unfinished' = unfinished \union {k}
    /\ UNCHANGED now

ConflictsAreOver(k) ==
    /\ k \in unfinished
    /\ tracker' = [tracker EXCEPT !["conflicting"] = RecordSuccess(@, k)]
    /\ unfinished' = unfinished \ {k}
    /\ UNCHANGED now

\* Each call of DegradedRetriedCount, DegradedNotRetried and so on: at the end of a reconcile, by the
\* goroutine that logs and requeues what is not retried, and for a snapshot
Refresh(name) ==
    /\ tracker' = [tracker EXCEPT ![name] = processQueue(@, now)]
    /\ UNCHANGED <<now, unfinished>>

TrackerNext ==
    \/ Tick
    \/ \E k \in Objects : \/ ReconcileConflicts(k) \/ ReconcileFails(k)
                          \/ ReconcileSucceeds(k) \/ ConflictsAreOver(k)
    \/ \E name \in DOMAIN tracker : Refresh(name)

(***************************************************************************)
(* Properties                                                              *)
(***************************************************************************)
\* Whoever asks a tracker is told of exactly those objects that have failed for a period without a
\* success, as retried if they have failed within the last period and as not retried else, however
\* late the events are processed and whatever has happened to the object in between.
DegradedIsExact ==
    \A name \in DOMAIN tracker :
        LET t == processQueue(tracker[name], now)
            failed == {k \in Objects : t.firstFailure[k] # NULL}
            degraded == {k \in failed : now - t.firstFailure[k] >= period}
            retried == {k \in failed : now - t.lastFailure[k] < period}
        IN  /\ t.degradedRetried = degraded \intersect retried
            /\ t.degradedNotRetried = degraded \ retried
=============================================================================
