--------------------------- MODULE ReconcileQueue ---------------------------
(***************************************************************************)
(* The reconcile queue of the scheduler plugin (pkg/plugin/reconcile), its *)
(* workers, the middleware around the handlers, and the start-up that      *)
(* waits for the initial objects to be handled (initevents, entrypoint).   *)
(*                                                                         *)
(* Times are relative: reconcileAt is how long a change still has to wait. *)
(* Each action is one critical section of Queue.mu, or one step of         *)
(* handleNotifications between two of them.                                *)
(***************************************************************************)
EXTENDS Naturals, Sequences, FiniteSets

CONSTANTS
    NULL,               \* Go's nil
    Keys,               \* objects: kind and UID
    ReconcileWorkers,   \* how many goroutines there are in reconcileWorker
    Preexisting,        \* the objects that are there before the plugin
    MaxVersion,         \* bound, by key: the versions of an object
    Retries,            \* what handlers may put into Result.RetryAfter, 0 among them
    initialErrorWait,   \* units of time, scaled down with maxErrorWait
    maxErrorWait

ASSUME QueueAssumption ==
    /\ ReconcileWorkers \in Nat \ {0}
    /\ Preexisting \subseteq Keys
    /\ MaxVersion \in [Keys -> Nat \ {0}]
    /\ Retries \subseteq Nat
    /\ IsFiniteSet(Keys)
    /\ initialErrorWait \in Nat \ {0}
    /\ maxErrorWait \in Nat \ {0}

VARIABLES
    store,      \* the watch store: each object's version; 0 before it, NULL after it
    queued,     \* Queue.queued: the value of each object in the queue, or NULL
    pending,    \* Queue.pending: the value to merge or requeue when an ongoing one finishes
    queue,      \* the keys of both, soonest reconcileAt first.  Queue.queue holds those in
                \* queued; a pending value is queued later, at the place its time gives it
    ongoing,    \* Queue.ongoing
    awake,      \* a broadcast of notifyEnqueued that its receiver has not viewed
    notifier,   \* handleNotifications: where it is, and what is left on its timer
    woken,      \* how many workers have been notified and are about to call Next
    calls,      \* the callbacks that the other busy workers are executing
    backoff,    \* ErrorBackoffMiddleware.byType: how long a failing object waits
    failing,    \* ErrorBackoffMiddleware.globalFailing
    remaining,  \* InitEventsMiddleware.remaining
    startup,    \* NewAutoscaleEnforcerPlugin: lists objects, waits for them, is done
    listed,     \* during start-up, the objects of the initial list
    applied,    \* and those of them that have been handled without an error
    crashed     \* a goroutine has panicked without recovering

vars == <<store, queued, pending, queue, ongoing, awake, notifier, woken, calls, backoff, failing,
          remaining, startup, listed, applied, crashed>>

queueVars == <<queued, pending, queue, ongoing, awake>>

startVars == <<remaining, startup, listed, applied>>

EventKinds == {"Added", "Modified", "Deleted", "Ephemeral"}

Versions == UNION {1..MaxVersion[k] : k \in Keys}

Values == [at : Nat, kind : EventKinds, obj : Versions]

Calls == [key : Keys, value : Values]

ASSUME NullAssumption ==
    /\ NULL \notin Values
    /\ NULL \notin [kind : EventKinds, obj : Versions]
    /\ NULL \notin Nat

\* NewQueue, NewInitEventsMiddleware, NewErrorBackoffMiddleware
InitProcess ==
    /\ queued = [k \in Keys |-> NULL]
    /\ queue = <<>>
    /\ pending = [k \in Keys |-> NULL]
    /\ ongoing = {}
    /\ awake = FALSE
    /\ notifier = [pc |-> "peek", left |-> 0]
    /\ woken = 0
    /\ calls = {}
    /\ backoff = [k \in Keys |-> NULL]
    /\ failing = 0
    /\ remaining = {}
    /\ startup = "listing"
    /\ listed = {}
    /\ applied = {}
    /\ crashed = FALSE

Init ==
    /\ store = [k \in Keys |-> IF k \in Preexisting THEN 1 ELSE 0]
    /\ InitProcess

(***************************************************************************)
(* The queue.  The priority queue orders the keys by reconcileAt; of two   *)
(* that are due at once the older one is first, since the clock goes on.   *)
(***************************************************************************)
value(k) == IF queued[k] # NULL THEN queued[k] ELSE pending[k]

\* others, which is in that order, with k at the place that a wait of `at` gives it
Insert(others, k, at) ==
    SelectSeq(others, LAMBDA other : value(other).at <= at)
        \o <<k>> \o SelectSeq(others, LAMBDA other : value(other).at > at)

\* EventKind.Merge panics for the other pairs of kinds.
Mergeable(k, other) ==
    /\ k # "Ephemeral" /\ other # "Ephemeral"
    /\ k = "Modified" \/ other = "Modified" \/ k # other

Merge(k, other) ==
    CASE k = "Modified" -> other
      [] other = "Modified" -> k
      [] OTHER -> "Ephemeral"

mergeWithNewer(v, newer) ==
    [at |-> IF v.at < newer.at THEN v.at ELSE newer.at,
     kind |-> Merge(v.kind, newer.kind),
     obj |-> newer.obj]

\* A panic outside of the handlers ends the process.
Panic ==
    /\ crashed' = TRUE
    /\ UNCHANGED queueVars

enqueuePendingChange(k, v) ==
    /\ pending' = [pending EXCEPT ![k] = IF @ = NULL THEN v ELSE mergeWithNewer(@, v)]
    /\ queue' = IF pending[k] = NULL THEN Insert(queue, k, v.at) ELSE queue
    /\ UNCHANGED <<queued, awake>>

enqueueInactive(k, v) ==
    /\ queued' = [queued EXCEPT ![k] = IF @ = NULL THEN v ELSE mergeWithNewer(@, v)]
    /\ queue' = IF queued[k] # NULL /\ queued[k].at = 0 THEN queue
                ELSE Insert(SelectSeq(queue, LAMBDA other : other # k), k, v.at)
    /\ awake' = TRUE
    /\ UNCHANGED pending

Enqueue(k, kind, obj) ==
    LET v == [at |-> 0, kind |-> kind, obj |-> obj]
    IN  IF value(k) # NULL /\ ~Mergeable(value(k).kind, kind)
        THEN Panic /\ UNCHANGED ongoing
        ELSE /\ IF k \in ongoing THEN enqueuePendingChange(k, v) ELSE enqueueInactive(k, v)
             /\ UNCHANGED <<ongoing, crashed>>

(***************************************************************************)
(* The watch, as the queue sees it: watchHandlers.  An object is new, then *)
(* changes, then is gone; a plugin that starts lists the ones there are.   *)
(***************************************************************************)
Present(k) == store[k] # NULL /\ store[k] > 0

WatchLists(k) ==
    /\ startup = "listing"
    /\ Present(k)
    /\ k \notin listed
    /\ listed' = listed \union {k}
    /\ remaining' = remaining \union {k}
    /\ Enqueue(k, "Added", store[k])
    /\ UNCHANGED <<store, notifier, woken, calls, backoff, failing, startup, applied>>

WatchAdds(k) ==
    /\ startup # "listing"
    /\ store[k] = 0
    /\ store' = [store EXCEPT ![k] = 1]
    /\ Enqueue(k, "Added", 1)
    /\ UNCHANGED <<notifier, woken, calls, backoff, failing, startVars>>

WatchUpdates(k) ==
    /\ startup # "listing"
    /\ Present(k)
    /\ store[k] < MaxVersion[k]
    /\ store' = [store EXCEPT ![k] = @ + 1]
    /\ Enqueue(k, "Modified", store[k] + 1)
    /\ UNCHANGED <<notifier, woken, calls, backoff, failing, startVars>>

\* A watch.Deleted event calls UpdateFunc first, as NopUpdate or WatchUpdates do; a relist does not.
WatchDeletes(k) ==
    /\ startup # "listing"
    /\ Present(k)
    /\ store' = [store EXCEPT ![k] = NULL]
    /\ Enqueue(k, "Deleted", store[k])
    /\ UNCHANGED <<notifier, woken, calls, backoff, failing, startVars>>

\* Mutant: does not look whether the object is still there.
NopUpdateAnyway(k) ==
    /\ startup # "listing"
    /\ store[k] # 0
    /\ Enqueue(k, "Modified", IF store[k] = NULL THEN MaxVersion[k] ELSE store[k])
    /\ UNCHANGED <<store, notifier, woken, calls, backoff, failing, startVars>>

\* Store.NopUpdate, called for a requeue: only if the watch still has the object.
NopUpdate(k) ==
    /\ startup # "listing"
    /\ Present(k)
    /\ Enqueue(k, "Modified", store[k])
    /\ UNCHANGED <<store, notifier, woken, calls, backoff, failing, startVars>>

(***************************************************************************)
(* handleNotifications.  awake is the receiver's view of the broadcasts.   *)
(***************************************************************************)
\* k is the head of Queue.queue
Peek(k) ==
    \E i \in 1..Len(queue) :
        /\ queue[i] = k
        /\ queued[k] # NULL
        /\ \A j \in 1..(i - 1) : queued[queue[j]] = NULL

NotifierPeeks ==
    /\ notifier.pc = "peek"
    /\ IF \E k \in Keys : Peek(k)
       THEN \E k \in Keys :
                /\ Peek(k)
                /\ notifier' = [pc |-> IF queued[k].at > 0 THEN "timer" ELSE "send",
                                left |-> queued[k].at]
       ELSE notifier' = [pc |-> "empty", left |-> 0]
    /\ UNCHANGED <<store, queueVars, ongoing, woken, calls, backoff, failing, startVars, crashed>>

NotifierWakes ==
    /\ notifier.pc \in {"empty", "timer"}
    /\ awake
    /\ awake' = FALSE
    /\ notifier' = [pc |-> "peek", left |-> 0]
    /\ UNCHANGED <<store, queued, pending, queue, ongoing, woken, calls, backoff, failing, startVars, crashed>>

TimerFires ==
    /\ notifier.pc = "timer"
    /\ notifier.left = 0
    /\ notifier' = [notifier EXCEPT !.pc = "send"]
    /\ UNCHANGED <<store, queueVars, ongoing, woken, calls, backoff, failing, startVars, crashed>>

\* The channel is not buffered: the send meets the receive of a worker.
Notify ==
    /\ startup # "listing"
    /\ notifier.pc = "send"
    /\ woken + Cardinality(calls) < ReconcileWorkers
    /\ notifier' = [pc |-> "peek", left |-> 0]
    /\ woken' = woken + 1
    /\ UNCHANGED <<store, queueVars, ongoing, calls, backoff, failing, startVars, crashed>>

Minus1(t) == IF t = 0 THEN 0 ELSE t - 1

Tick ==
    /\ \/ notifier.left > 0
       \/ \E k \in Keys : queued[k] # NULL /\ queued[k].at > 0
    /\ queued' = [k \in Keys |-> IF queued[k] = NULL THEN NULL
                                 ELSE [queued[k] EXCEPT !.at = Minus1(@)]]
    /\ notifier' = [notifier EXCEPT !.left = Minus1(@)]
    /\ UNCHANGED <<store, pending, queue, ongoing, awake, woken, calls, backoff, failing, startVars, crashed>>

(***************************************************************************)
(* reconcileWorker, Queue.Next and Queue.reconcile.                        *)
(***************************************************************************)
\* Between the notification and Next another worker may have taken the value.
WorkerNext ==
    /\ woken > 0
    /\ woken' = woken - 1
    /\ \/ \E k \in Keys :
              /\ Peek(k)
              /\ queued[k].at = 0
              /\ queue' = SelectSeq(queue, LAMBDA other : other # k)
              /\ queued' = [queued EXCEPT ![k] = NULL]
              /\ ongoing' = ongoing \union {k}
              /\ calls' = calls \union {[key |-> k, value |-> queued[k]]}
       \/ /\ \A k \in Keys : Peek(k) => queued[k].at > 0
          /\ UNCHANGED <<queued, queue, ongoing, calls>>
    /\ UNCHANGED <<store, pending, awake, notifier, backoff, failing, startVars, crashed>>

Min2(a, b) == IF a < b THEN a ELSE b
Max2(a, b) == IF a < b THEN b ELSE a

\* Mutant: takes RetryAfter for the upper limit also when the handler has set none.
WaitAtMostRetry(k, retry) ==
    Min2(retry, IF backoff[k] = NULL THEN initialErrorWait ELSE Min2(maxErrorWait, backoff[k] * 2))

\* ErrorBackoffMiddleware.Call: how long a failure of k keeps it waiting
WaitAfterFailure(k, retry) ==
    LET wait == IF backoff[k] = NULL THEN initialErrorWait
                ELSE Min2(maxErrorWait, backoff[k] * 2)
    IN  IF retry = 0 THEN wait ELSE Min2(retry, wait)

\* Mutant: a retry takes the place of the pending change.
finishAndForgetPending(call, retry) ==
    LET k == call.key
        v == [call.value EXCEPT !.at = retry]
        new == IF retry # 0 THEN v ELSE pending[k]
    IN  /\ calls' = calls \ {call}
        /\ ongoing' = ongoing \ {k}
        /\ pending' = [pending EXCEPT ![k] = NULL]
        /\ IF retry # 0 \/ pending[k] # NULL
           THEN /\ queued' = [queued EXCEPT ![k] = new]
                /\ queue' = IF pending[k] # NULL THEN queue ELSE Insert(queue, k, new.at)
                /\ awake' = TRUE
           ELSE UNCHANGED <<queued, queue, awake>>
        /\ UNCHANGED crashed

\* The handler has returned, and the worker requeues its value or the one that is pending.
finishAndMaybeRequeue(call, retry) ==
    LET k == call.key
        requeue == retry # 0
        v == [call.value EXCEPT !.at = retry]
        new == IF pending[k] = NULL THEN v
               ELSE IF requeue THEN mergeWithNewer(v, pending[k]) ELSE pending[k]
    IN  IF pending[k] # NULL /\ requeue /\ ~Mergeable(v.kind, pending[k].kind)
        THEN Panic /\ UNCHANGED <<ongoing, calls>>
        ELSE /\ calls' = calls \ {call}
             /\ ongoing' = ongoing \ {k}
             /\ pending' = [pending EXCEPT ![k] = NULL]
             /\ IF requeue \/ pending[k] # NULL
                THEN /\ queued' = [queued EXCEPT ![k] = new]
                     /\ queue' = IF pending[k] # NULL THEN queue ELSE Insert(queue, k, new.at)
                     /\ awake' = TRUE
                ELSE UNCHANGED <<queued, queue, awake>>
             /\ UNCHANGED crashed

\* Mutant: InitEventsMiddleware does not look at the error.
HandlerFailsAndCounts(call, retry) ==
    LET k == call.key
        wait == WaitAfterFailure(k, retry)
    IN  /\ call \in calls
        /\ backoff' = [backoff EXCEPT ![k] = wait]
        /\ failing' = IF backoff[k] = NULL THEN failing + 1 ELSE failing
        /\ remaining' = remaining \ {k}
        /\ finishAndMaybeRequeue(call, Max2(retry, wait))
        /\ UNCHANGED <<store, notifier, woken, startup, listed, applied>>

\* Queue.reconcile when the handler ends with an error.  A panic in the handler is an error with
\* retry = 0 (CatchPanicMiddleware).
HandlerFails(call, retry) ==
    LET k == call.key
        wait == WaitAfterFailure(k, retry)
    IN  /\ call \in calls
        /\ backoff' = [backoff EXCEPT ![k] = wait]
        /\ failing' = IF backoff[k] = NULL THEN failing + 1 ELSE failing
        /\ finishAndMaybeRequeue(call, Max2(retry, wait))
        /\ UNCHANGED <<store, notifier, woken, startVars>>

\* Queue.reconcile when it ends without one, InitEventsMiddleware.success included.
HandlerSucceeds(call, retry) ==
    LET k == call.key
    IN  /\ call \in calls
        /\ backoff' = [backoff EXCEPT ![k] = NULL]
        /\ failing' = IF backoff[k] = NULL THEN failing ELSE failing - 1
        /\ remaining' = remaining \ {k}
        /\ applied' = applied \union ({k} \intersect listed)
        /\ finishAndMaybeRequeue(call, retry)
        /\ UNCHANGED <<store, notifier, woken, startup, listed>>

(***************************************************************************)
(* NewAutoscaleEnforcerPlugin: it lists the objects, starts the workers,   *)
(* and waits until the handlers are done with all of the list, or fails    *)
(* after a while; then the scheduler ends, and Kubernetes starts another.  *)
(***************************************************************************)
StartWorkers ==
    /\ startup = "listing"
    /\ \A k \in Keys : Present(k) => k \in listed
    /\ startup' = "waiting"
    /\ UNCHANGED <<store, queueVars, ongoing, notifier, woken, calls, backoff, failing, remaining,
                   listed, applied, crashed>>

StartupDone ==
    /\ startup = "waiting"
    /\ remaining = {}
    /\ startup' = "done"
    /\ listed' = {}
    /\ applied' = {}
    /\ UNCHANGED <<store, queueVars, ongoing, notifier, woken, calls, backoff, failing, remaining, crashed>>

StartupTimesOut ==
    /\ startup = "waiting"
    /\ queued' = [k \in Keys |-> NULL]
    /\ queue' = <<>>
    /\ pending' = [k \in Keys |-> NULL]
    /\ ongoing' = {}
    /\ awake' = FALSE
    /\ notifier' = [pc |-> "peek", left |-> 0]
    /\ woken' = 0
    /\ calls' = {}
    /\ backoff' = [k \in Keys |-> NULL]
    /\ failing' = 0
    /\ remaining' = {}
    /\ startup' = "listing"
    /\ listed' = {}
    /\ applied' = {}
    /\ crashed' = FALSE
    /\ UNCHANGED store

Next ==
    /\ ~crashed
    /\ \/ \E k \in Keys : \/ WatchLists(k) \/ WatchAdds(k) \/ WatchUpdates(k) \/ WatchDeletes(k)
                          \/ NopUpdate(k)
       \/ NotifierPeeks \/ NotifierWakes \/ TimerFires \/ Notify \/ Tick
       \/ WorkerNext
       \/ \E call \in calls, retry \in Retries :
              HandlerFails(call, retry) \/ HandlerSucceeds(call, retry)
       \/ StartWorkers \/ StartupDone \/ StartupTimesOut

Spec == Init /\ [][Next]_vars

\* The goroutines go on, the handlers return (their calls have timeouts), time passes.
Fairness ==
    /\ WF_vars(NotifierPeeks \/ NotifierWakes \/ TimerFires)
    /\ WF_vars(Notify)
    /\ WF_vars(Tick)
    /\ WF_vars(WorkerNext)
    /\ \A k \in Keys :
           WF_vars(\E call \in calls, retry \in Retries :
                       /\ call.key = k
                       /\ HandlerFails(call, retry) \/ HandlerSucceeds(call, retry))
    /\ WF_vars(StartWorkers \/ \E k \in Keys : WatchLists(k))

FairSpec == Spec /\ Fairness

(***************************************************************************)
(* Properties                                                              *)
(***************************************************************************)
\* No sequence of watch events, requeues and retries reaches a pair of event kinds that
\* EventKind.Merge panics for: neither Enqueue (in the goroutine of the watch) nor
\* finishAndMaybeRequeue (in a worker, after the middleware) is covered by CatchPanicMiddleware.
NeverPanics == ~crashed

\* An object whose last handler failed is queued for a retry or being handled again, whatever
\* happened to it meanwhile; globalFailing counts exactly these objects.
FailingIsRetried ==
    /\ failing = Cardinality({k \in Keys : backoff[k] # NULL})
    /\ \A k \in Keys : backoff[k] # NULL => queued[k] # NULL \/ k \in ongoing

\* Start-up only completes after each object of the initial list has been handled without an
\* error, also when it changed or went away while the plugin was starting.
StartupIsComplete ==
    [][startup # "done" /\ startup' = "done" => listed \subseteq applied]_vars

(***************************************************************************)
(* The queue implements WorkQueue: what waits for an object is in queued   *)
(* or pending, and what is handled is in the callback of a worker.         *)
(***************************************************************************)
Change(v) == [kind |-> v.kind, obj |-> v.obj]

dirtyChange == [k \in Keys |-> IF value(k) = NULL THEN NULL ELSE Change(value(k))]

CallsOn(k) == {call \in calls : call.key = k}

busyChange ==
    [k \in Keys |-> IF CallsOn(k) = {} THEN NULL
                    ELSE Change((CHOOSE call \in CallsOn(k) : TRUE).value)]

Abstract == INSTANCE WorkQueue WITH Versions <- Versions, dirty <- dirtyChange, busy <- busyChange

\* No change is lost, invented or handled twice at a time, the newest version of an object is the
\* one that is handled, and whatever waits is handed to a handler eventually: Queue with
\* handleNotifications, the workers and the retries implements the abstract work queue.
ImplementsWorkQueue == Abstract!FairSpec
=============================================================================
