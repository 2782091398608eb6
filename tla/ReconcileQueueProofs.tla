------------------------ MODULE ReconcileQueueProofs ------------------------
(***************************************************************************)
(* For any number of objects, workers and versions: what each step does to *)
(* the four maps of ReconcileQueue, that they agree about each key, that   *)
(* event kinds that cannot be merged never meet, that an object that       *)
(* failed is retried and counted, and that the queue implements the safety *)
(* part of WorkQueue.                                                      *)
(***************************************************************************)
EXTENDS ReconcileQueue, FiniteSetTheorems, TLAPS

(***************************************************************************)
(* The invariant.  The four maps of the queue agree about each key:        *)
(* Structure.  Which kinds of events wait for an object, or are being      *)
(* handled, follows from what the watch has said of it: Kinds.             *)
(***************************************************************************)
Types ==
    /\ store \in [Keys -> Nat \union {NULL}]
    /\ \A k \in Keys : Present(k) => store[k] \in Versions
    /\ queued \in [Keys -> Values \union {NULL}]
    /\ pending \in [Keys -> Values \union {NULL}]
    /\ ongoing \in SUBSET Keys
    /\ calls \in SUBSET Calls

Structure ==
    /\ \A k \in Keys : queued[k] # NULL => k \notin ongoing
    /\ \A k \in Keys : pending[k] # NULL => k \in ongoing
    /\ \A c \in calls : c.key \in ongoing
    /\ \A c, d \in calls : c.key = d.key => c = d

MapsInv == Types /\ Structure

\* A value that the watch enqueues, and one that is put back.
Event(kind, obj) == [at |-> 0, kind |-> kind, obj |-> obj]

Requeued(call, retry) == [call.value EXCEPT !.at = retry]

LEMMA EventValue ==
    ASSUME NEW kind \in EventKinds, NEW obj \in Versions
    PROVE  Event(kind, obj) \in Values
BY DEF Values, Event

LEMMA MergeType ==
    ASSUME NEW a \in EventKinds, NEW b \in EventKinds
    PROVE  Merge(a, b) \in EventKinds
BY DEF Merge, EventKinds

LEMMA MergeValue ==
    ASSUME NEW v \in Values, NEW newer \in Values
    PROVE  /\ mergeWithNewer(v, newer) \in Values
           /\ mergeWithNewer(v, newer).kind = Merge(v.kind, newer.kind)
           /\ mergeWithNewer(v, newer).obj = newer.obj
BY MergeType DEF Values, mergeWithNewer

\* What Enqueue does to the maps: it panics, or merges its event into what waits for the object.
LEMMA EnqueueEffect ==
    ASSUME MapsInv,
           NEW k \in Keys, NEW kind \in EventKinds, NEW obj \in Versions, Enqueue(k, kind, obj)
    PROVE  /\ ongoing' = ongoing
           /\ queued' \in [Keys -> Values \union {NULL}]
           /\ pending' \in [Keys -> Values \union {NULL}]
           /\ \A j \in Keys : j # k => queued'[j] = queued[j] /\ pending'[j] = pending[j]
           /\ \/ /\ value(k) # NULL /\ ~Mergeable(value(k).kind, kind)
                 /\ queued' = queued /\ pending' = pending
                 /\ crashed' = TRUE
              \/ /\ value(k) = NULL \/ Mergeable(value(k).kind, kind)
                 /\ value(k)' = IF value(k) = NULL THEN Event(kind, obj)
                                 ELSE mergeWithNewer(value(k), Event(kind, obj))
                 /\ IF k \in ongoing
                    THEN queued'[k] = NULL /\ pending'[k] = value(k)'
                    ELSE queued'[k] = value(k)' /\ pending'[k] = NULL
                 /\ crashed' = crashed
<1> DEFINE v == Event(kind, obj)
<1>1. v \in Values
  BY EventValue
<1>2. CASE value(k) # NULL /\ ~Mergeable(value(k).kind, kind)
  BY <1>2 DEF Enqueue, Panic, queueVars, MapsInv, Types
<1>3. CASE ~(value(k) # NULL /\ ~Mergeable(value(k).kind, kind)) /\ k \in ongoing
  <2>1. queued[k] = NULL /\ value(k) = pending[k]
    BY <1>3 DEF MapsInv, Structure, value
  <2>2. enqueuePendingChange(k, v) /\ ongoing' = ongoing /\ crashed' = crashed
    BY <1>3 DEF Enqueue, Event
  <2>3. /\ pending' = [pending EXCEPT ![k] = IF pending[k] = NULL THEN v
                                            ELSE mergeWithNewer(pending[k], v)]
        /\ queued' = queued
    BY <2>2 DEF enqueuePendingChange
  <2>4. (IF pending[k] = NULL THEN v ELSE mergeWithNewer(pending[k], v)) \in Values
    BY <1>1, MergeValue DEF MapsInv, Types
  <2>. QED
    BY <1>3, <2>1, <2>2, <2>3, <2>4 DEF MapsInv, Types, value
<1>4. CASE ~(value(k) # NULL /\ ~Mergeable(value(k).kind, kind)) /\ k \notin ongoing
  <2>1. pending[k] = NULL
    BY <1>4 DEF MapsInv, Structure
  <2>2. enqueueInactive(k, v) /\ ongoing' = ongoing /\ crashed' = crashed
    BY <1>4 DEF Enqueue, Event
  <2>3. /\ queued' = [queued EXCEPT ![k] = IF queued[k] = NULL THEN v
                                          ELSE mergeWithNewer(queued[k], v)]
        /\ pending' = pending
    BY <2>2 DEF enqueueInactive
  <2>4. (IF queued[k] = NULL THEN v ELSE mergeWithNewer(queued[k], v)) \in Values
    BY <1>1, MergeValue DEF MapsInv, Types
  <2>5. value(k) = queued[k]
    BY <2>1 DEF value
  <2>. QED
    BY <1>4, <2>1, <2>2, <2>3, <2>4, <2>5 DEF MapsInv, Types, value
<1>. QED
  BY <1>2, <1>3, <1>4

\* What the end of a callback does to the maps.
LEMMA FinishEffect ==
    ASSUME MapsInv,
           NEW call \in calls, NEW retry \in Nat, finishAndMaybeRequeue(call, retry)
    PROVE  /\ call.key \in Keys /\ Requeued(call, retry) \in Values
           /\ Requeued(call, retry).kind = call.value.kind
           /\ Requeued(call, retry).obj = call.value.obj
           /\ queued' \in [Keys -> Values \union {NULL}]
           /\ pending' \in [Keys -> Values \union {NULL}]
           /\ \A j \in Keys : j # call.key => queued'[j] = queued[j] /\ pending'[j] = pending[j]
           /\ \/ /\ pending[call.key] # NULL /\ ~Mergeable(Requeued(call, retry).kind, pending[call.key].kind) /\ retry # 0
                 /\ queued' = queued /\ pending' = pending
                 /\ ongoing' = ongoing /\ calls' = calls
                 /\ crashed' = TRUE
              \/ /\ pending[call.key] = NULL \/ retry = 0 \/ Mergeable(Requeued(call, retry).kind, pending[call.key].kind)
                 /\ ongoing' = ongoing \ {call.key}
                 /\ calls' = calls \ {call}
                 /\ pending'[call.key] = NULL
                 /\ queued'[call.key] = IF pending[call.key] = NULL
                                 THEN IF retry # 0 THEN Requeued(call, retry) ELSE NULL
                                 ELSE IF retry # 0 THEN mergeWithNewer(Requeued(call, retry), pending[call.key])
                                      ELSE pending[call.key]
                 /\ crashed' = crashed
<1> DEFINE k == call.key
           v == Requeued(call, retry)
<1>1. k \in Keys /\ call.value \in Values
  BY DEF MapsInv, Types, Calls
<1>2. v \in Values /\ v.kind = call.value.kind /\ v.obj = call.value.obj
  BY <1>1 DEF Values, Requeued
<1>3. queued[k] = NULL
  BY <1>1 DEF MapsInv, Structure
<1> DEFINE requeue == retry # 0
           new == IF pending[k] = NULL THEN v
                  ELSE IF requeue THEN mergeWithNewer(v, pending[k]) ELSE pending[k]
<1>4. new \in Values
  BY <1>1, <1>2, MergeValue DEF MapsInv, Types
<1>5. CASE pending[k] # NULL /\ requeue /\ ~Mergeable(v.kind, pending[k].kind)
  <2>1. Panic /\ UNCHANGED <<ongoing, calls>>
    BY <1>5 DEF finishAndMaybeRequeue, Requeued
  <2>. QED
    BY <2>1, <1>1, <1>2, <1>5 DEF Panic, queueVars, MapsInv, Types
<1>6. CASE ~(pending[k] # NULL /\ requeue /\ ~Mergeable(v.kind, pending[k].kind))
  <2>1. /\ calls' = calls \ {call}
        /\ ongoing' = ongoing \ {k}
        /\ pending' = [pending EXCEPT ![k] = NULL]
        /\ crashed' = crashed
        /\ IF requeue \/ pending[k] # NULL THEN queued' = [queued EXCEPT ![k] = new]
           ELSE queued' = queued
    BY <1>6 DEF finishAndMaybeRequeue, Requeued
  <2>2. pending' \in [Keys -> Values \union {NULL}] /\ pending'[k] = NULL
    BY <2>1, <1>1 DEF MapsInv, Types
  <2>3. /\ queued' \in [Keys -> Values \union {NULL}]
        /\ queued'[k] = IF requeue \/ pending[k] # NULL THEN new ELSE NULL
        /\ \A j \in Keys : j # k => queued'[j] = queued[j]
    <3>. HIDE DEF new
    <3>. QED
      BY <2>1, <1>1, <1>3, <1>4 DEF MapsInv, Types
  <2>4. \A j \in Keys : j # k => pending'[j] = pending[j]
    BY <2>1, <1>1 DEF MapsInv, Types
  <2>. QED
    BY <1>1, <1>2, <1>6, <2>1, <2>2, <2>3, <2>4
<1>. QED
  BY <1>5, <1>6

\* Taking the head of the queue.
LEMMA NextEffect ==
    ASSUME MapsInv, NEW k \in Keys, Peek(k),
           queued' = [queued EXCEPT ![k] = NULL],
           ongoing' = ongoing \union {k},
           calls' = calls \union {[key |-> k, value |-> queued[k]]},
           pending' = pending
    PROVE  /\ queued[k] \in Values /\ k \notin ongoing /\ pending[k] = NULL
           /\ \A c \in calls : c.key # k
           /\ [key |-> k, value |-> queued[k]] \in Calls
           /\ queued' \in [Keys -> Values \union {NULL}]
           /\ \A j \in Keys : queued'[j] = IF j = k THEN NULL ELSE queued[j]
<1>1. queued[k] # NULL
  BY DEF Peek
<1>2. queued[k] \in Values
  BY <1>1 DEF MapsInv, Types
<1>. QED
  BY <1>1, <1>2 DEF MapsInv, Types, Structure, Calls

LEMMA TickEffect ==
    ASSUME MapsInv, Tick
    PROVE  /\ queued' \in [Keys -> Values \union {NULL}]
           /\ \A k \in Keys : IF queued[k] = NULL THEN queued'[k] = NULL
                              ELSE /\ queued'[k] # NULL
                                   /\ queued'[k].kind = queued[k].kind
                                   /\ queued'[k].obj = queued[k].obj
<1>1. \A k \in Keys : queued[k] # NULL => [queued[k] EXCEPT !.at = Minus1(@)] \in Values
  BY DEF MapsInv, Types, Values, Minus1
<1>2. queued' = [k \in Keys |-> IF queued[k] = NULL THEN NULL
                                ELSE [queued[k] EXCEPT !.at = Minus1(@)]]
  BY DEF Tick
<1>3. queued' \in [Keys -> Values \union {NULL}]
  BY <1>1, <1>2
<1>. QED
  BY <1>1, <1>2, <1>3, NullAssumption DEF MapsInv, Types, Values

LEMMA VersionOne == \A k \in Keys : 1 \in Versions
BY QueueAssumption DEF Versions

LEMMA NextVersion ==
    ASSUME MapsInv, NEW k \in Keys, Present(k), store[k] < MaxVersion[k]
    PROVE  store[k] \in Nat /\ store[k] + 1 \in Nat /\ store[k] + 1 \in Versions
<1>1. store[k] \in Nat
  BY DEF MapsInv, Types, Present
<1>2. store[k] + 1 \in 1..MaxVersion[k]
  BY <1>1, QueueAssumption
<1>. QED
  BY <1>1, <1>2 DEF Versions

\* Each event that the watch enqueues carries a version of the object.
LEMMA WatchEvents ==
    ASSUME MapsInv, NEW k \in Keys,
           WatchLists(k) \/ WatchAdds(k) \/ WatchUpdates(k) \/ WatchDeletes(k) \/ NopUpdate(k)
    PROVE  /\ \E kind \in {"Added", "Modified", "Deleted"}, obj \in Versions : Enqueue(k, kind, obj)
           /\ store' \in [Keys -> Nat \union {NULL}]
           /\ \A j \in Keys : Present(j)' => store'[j] \in Versions
           /\ UNCHANGED <<calls, backoff, failing>>
<1>1. CASE WatchLists(k)
  BY <1>1 DEF WatchLists, MapsInv, Types, Present
<1>2. CASE WatchAdds(k)
  BY <1>2, VersionOne DEF WatchAdds, MapsInv, Types, Present
<1>3. CASE WatchUpdates(k)
  <2>1. store[k] + 1 \in Versions /\ store[k] + 1 \in Nat
    BY <1>3, NextVersion DEF WatchUpdates
  <2>. QED
    BY <1>3, <2>1 DEF WatchUpdates, MapsInv, Types, Present
<1>4. CASE WatchDeletes(k)
  BY <1>4 DEF WatchDeletes, MapsInv, Types, Present
<1>5. CASE NopUpdate(k)
  BY <1>5 DEF NopUpdate, MapsInv, Types, Present
<1>. QED
  BY <1>1, <1>2, <1>3, <1>4, <1>5

\* What a failure makes the object wait is never nothing.
LEMMA FailureWaits ==
    ASSUME NEW k \in Keys, NEW retry \in Nat, backoff \in [Keys -> (Nat \ {0}) \union {NULL}]
    PROVE  /\ WaitAfterFailure(k, retry) \in Nat \ {0}
           /\ Max2(retry, WaitAfterFailure(k, retry)) \in Nat \ {0}
BY QueueAssumption, NullAssumption DEF WaitAfterFailure, Min2, Max2

Failures ==
    /\ backoff \in [Keys -> (Nat \ {0}) \union {NULL}]
    /\ \A k \in Keys : backoff[k] # NULL => queued[k] # NULL \/ k \in ongoing

\* A step that touches neither the maps nor the watch store.
Idle == UNCHANGED <<store, queued, pending, ongoing, calls, backoff, failing, crashed>>

\* The steps of Next, as far as the maps are concerned.
LEMMA StepCases ==
    ASSUME Next
    PROVE  \/ \E k \in Keys : \/ WatchLists(k) \/ WatchAdds(k) \/ WatchUpdates(k)
                              \/ WatchDeletes(k) \/ NopUpdate(k)
           \/ \E k \in Keys : /\ Peek(k)
                              /\ queued' = [queued EXCEPT ![k] = NULL]
                              /\ ongoing' = ongoing \union {k}
                              /\ calls' = calls \union {[key |-> k, value |-> queued[k]]}
                              /\ UNCHANGED <<store, pending, backoff, failing, startVars, crashed>>
                              /\ woken > 0
           \/ \E call \in calls, retry \in Retries :
                  HandlerFails(call, retry) \/ HandlerSucceeds(call, retry)
           \/ Tick
           \/ StartupTimesOut
           \/ Idle /\ UNCHANGED startVars
           \/ Idle /\ (StartWorkers \/ StartupDone)
<1>1. CASE NotifierPeeks \/ NotifierWakes \/ TimerFires \/ Notify
  BY <1>1 DEF NotifierPeeks, NotifierWakes, TimerFires, Notify, Idle, queueVars
<1>2. CASE WorkerNext
  BY <1>2 DEF WorkerNext, Idle
<1>3. CASE StartWorkers \/ StartupDone
  BY <1>3 DEF StartWorkers, StartupDone, Idle, queueVars
<1>. QED
  BY <1>1, <1>2, <1>3 DEF Next

LEMMA HandlerStep ==
    ASSUME NEW call \in calls, NEW retry \in Retries, Failures, MapsInv,
           HandlerFails(call, retry) \/ HandlerSucceeds(call, retry)
    PROVE  /\ store' = store
           /\ call.key \in Keys
           /\ \E again \in Nat :
                  /\ finishAndMaybeRequeue(call, again)
                  /\ HandlerFails(call, retry) => again # 0
<1>0. retry \in Nat /\ call.key \in Keys
  BY QueueAssumption DEF MapsInv, Types, Calls
<1>1. CASE HandlerFails(call, retry)
  <2>1. /\ finishAndMaybeRequeue(call, Max2(retry, WaitAfterFailure(call.key, retry)))
        /\ store' = store
    BY <1>1 DEF HandlerFails
  <2>. QED
    BY <1>0, <2>1, FailureWaits DEF Failures
<1>2. CASE ~HandlerFails(call, retry) /\ HandlerSucceeds(call, retry)
  BY <1>0, <1>2 DEF HandlerSucceeds
<1>. QED
  BY <1>1, <1>2

LEMMA MapsInvInit == Init => MapsInv /\ Failures
BY SMTT(30), VersionOne DEF Init, InitProcess, MapsInv, Types, Structure, Failures, Present

LEMMA MapsInvNext ==
    ASSUME MapsInv, Failures, [Next]_vars
    PROVE  MapsInv'
<1>1. CASE \E k \in Keys : \/ WatchLists(k) \/ WatchAdds(k) \/ WatchUpdates(k)
                           \/ WatchDeletes(k) \/ NopUpdate(k)
  <2>1. PICK k \in Keys : \/ WatchLists(k) \/ WatchAdds(k) \/ WatchUpdates(k)
                          \/ WatchDeletes(k) \/ NopUpdate(k)
    BY <1>1
  <2>2. PICK kind \in {"Added", "Modified", "Deleted"}, obj \in Versions : Enqueue(k, kind, obj)
    BY <2>1, WatchEvents
  <2>3. kind \in EventKinds
    BY DEF EventKinds
  <2>4. /\ ongoing' = ongoing
        /\ queued' \in [Keys -> Values \union {NULL}]
        /\ pending' \in [Keys -> Values \union {NULL}]
        /\ \A j \in Keys : j # k => queued'[j] = queued[j] /\ pending'[j] = pending[j]
        /\ \/ queued' = queued /\ pending' = pending
           \/ IF k \in ongoing THEN queued'[k] = NULL ELSE pending'[k] = NULL
    BY <2>2, <2>3, EnqueueEffect
  <2>5. Types'
    BY <2>1, <2>4, WatchEvents DEF MapsInv, Types
  <2>6. Structure'
    BY <2>1, <2>4, WatchEvents DEF MapsInv, Structure
  <2>. QED
    BY <2>5, <2>6 DEF MapsInv
<1>2. CASE \E k \in Keys : /\ Peek(k)
                           /\ queued' = [queued EXCEPT ![k] = NULL]
                           /\ ongoing' = ongoing \union {k}
                           /\ calls' = calls \union {[key |-> k, value |-> queued[k]]}
                           /\ UNCHANGED <<store, pending, backoff, failing, startVars, crashed>>
                           /\ woken > 0
  <2>1. PICK k \in Keys : /\ Peek(k)
                          /\ queued' = [queued EXCEPT ![k] = NULL]
                          /\ ongoing' = ongoing \union {k}
                          /\ calls' = calls \union {[key |-> k, value |-> queued[k]]}
                          /\ UNCHANGED <<store, pending>>
    BY <1>2
  <2>2. /\ k \notin ongoing /\ pending[k] = NULL
        /\ \A c \in calls : c.key # k
        /\ [key |-> k, value |-> queued[k]] \in Calls
        /\ queued' \in [Keys -> Values \union {NULL}]
        /\ \A j \in Keys : queued'[j] = IF j = k THEN NULL ELSE queued[j]
    BY <2>1, NextEffect
  <2>3. Types'
    BY <2>1, <2>2 DEF MapsInv, Types, Present
  <2>4. Structure'
    BY <2>1, <2>2 DEF MapsInv, Structure
  <2>. QED
    BY <2>3, <2>4 DEF MapsInv
<1>3. CASE \E call \in calls, retry \in Retries :
               HandlerFails(call, retry) \/ HandlerSucceeds(call, retry)
  <2>1. PICK call \in calls, retry \in Retries :
            HandlerFails(call, retry) \/ HandlerSucceeds(call, retry)
    BY <1>3
  <2>2. PICK again \in Nat : finishAndMaybeRequeue(call, again) /\ store' = store
    BY <2>1, HandlerStep
  <2> DEFINE k == call.key
  <2>3. /\ k \in Keys
        /\ queued' \in [Keys -> Values \union {NULL}]
        /\ pending' \in [Keys -> Values \union {NULL}]
        /\ \A j \in Keys : j # k => queued'[j] = queued[j] /\ pending'[j] = pending[j]
        /\ \/ queued' = queued /\ pending' = pending /\ ongoing' = ongoing /\ calls' = calls
           \/ ongoing' = ongoing \ {k} /\ calls' = calls \ {call} /\ pending'[k] = NULL
    BY <2>2, FinishEffect
  <2>4. Types'
    BY <2>2, <2>3 DEF MapsInv, Types, Present
  <2>5. Structure'
    BY <2>3 DEF MapsInv, Structure
  <2>. QED
    BY <2>4, <2>5 DEF MapsInv
<1>4. CASE Tick
  <2>1. UNCHANGED <<store, pending, ongoing, calls>>
    BY <1>4 DEF Tick
  <2>. QED
    BY <1>4, <2>1, TickEffect DEF MapsInv, Types, Structure, Present
<1>5. CASE StartupTimesOut
  BY <1>5 DEF StartupTimesOut, MapsInv, Types, Structure, Present
<1>6. CASE Idle
  BY <1>6 DEF Idle, MapsInv, Types, Structure, Present
<1>7. CASE UNCHANGED vars
  BY <1>7 DEF vars, MapsInv, Types, Structure, Present
<1>. QED
  BY <1>1, <1>2, <1>3, <1>4, <1>5, <1>6, <1>7, StepCases

LEMMA FailuresNext ==
    ASSUME MapsInv, Failures, [Next]_vars
    PROVE  Failures'
<1>1. CASE \E k \in Keys : \/ WatchLists(k) \/ WatchAdds(k) \/ WatchUpdates(k)
                           \/ WatchDeletes(k) \/ NopUpdate(k)
  <2>1. PICK k \in Keys : \/ WatchLists(k) \/ WatchAdds(k) \/ WatchUpdates(k)
                          \/ WatchDeletes(k) \/ NopUpdate(k)
    BY <1>1
  <2>2. PICK kind \in {"Added", "Modified", "Deleted"}, obj \in Versions : Enqueue(k, kind, obj)
    BY <2>1, WatchEvents
  <2>3. kind \in EventKinds
    BY DEF EventKinds
  <2> DEFINE v == Event(kind, obj)
  <2>4. v \in Values /\ (value(k) # NULL => mergeWithNewer(value(k), v) \in Values)
    BY SMTT(30), <2>3, EventValue, MergeValue DEF MapsInv, Types, value
  <2>5. /\ ongoing' = ongoing
        /\ \A j \in Keys : j # k => queued'[j] = queued[j]
        /\ \/ queued' = queued
           \/ /\ value(k)' = IF value(k) = NULL THEN v ELSE mergeWithNewer(value(k), v)
              /\ k \notin ongoing => queued'[k] = value(k)'
    BY <2>2, <2>3, EnqueueEffect, Zenon
  <2>6. k \notin ongoing => queued'[k] # NULL \/ queued' = queued
    BY <2>4, <2>5, NullAssumption
  <2>. QED
    BY <2>1, <2>5, <2>6, WatchEvents DEF Failures
<1>2. CASE \E k \in Keys : /\ Peek(k)
                           /\ queued' = [queued EXCEPT ![k] = NULL]
                           /\ ongoing' = ongoing \union {k}
                           /\ calls' = calls \union {[key |-> k, value |-> queued[k]]}
                           /\ UNCHANGED <<store, pending, backoff, failing, startVars, crashed>>
                           /\ woken > 0
  BY <1>2 DEF Failures, MapsInv, Types
<1>3. ASSUME NEW call \in calls, NEW retry \in Retries,
             HandlerFails(call, retry) \/ HandlerSucceeds(call, retry)
      PROVE  Failures'
  <2> DEFINE k == call.key
  <2>1. PICK again \in Nat : /\ finishAndMaybeRequeue(call, again)
                             /\ HandlerFails(call, retry) => again # 0
    BY <1>3, HandlerStep
  <2> DEFINE v == Requeued(call, again)
  <2>2. /\ k \in Keys /\ v \in Values
        /\ \A j \in Keys : j # k => queued'[j] = queued[j]
        /\ \/ pending[k] # NULL /\ queued' = queued /\ ongoing' = ongoing
           \/ /\ ongoing' = ongoing \ {k}
              /\ queued'[k] = IF pending[k] = NULL THEN IF again # 0 THEN v ELSE NULL
                              ELSE IF again # 0 THEN mergeWithNewer(v, pending[k]) ELSE pending[k]
    BY <2>1, FinishEffect
  <2>3. again # 0 => queued'[k] # NULL \/ k \in ongoing'
    <3>1. pending[k] # NULL => mergeWithNewer(v, pending[k]) \in Values /\ k \in ongoing
      <4>. HIDE DEF v
      <4>. QED
        BY SMTT(30), <2>2, MergeValue DEF MapsInv, Types, Structure
    <3>. HIDE DEF v
    <3>. QED
      BY <2>2, <3>1, NullAssumption
  <2>4. retry \in Nat
    BY QueueAssumption
  <2>5. CASE HandlerFails(call, retry)
    <3>1. backoff' = [backoff EXCEPT ![k] = WaitAfterFailure(k, retry)]
      BY <2>5 DEF HandlerFails
    <3>2. backoff' \in [Keys -> (Nat \ {0}) \union {NULL}]
      BY <2>2, <2>4, <3>1, FailureWaits DEF Failures
    <3>3. \A j \in Keys : j # k => backoff'[j] = backoff[j]
      BY <2>2, <3>1 DEF Failures
    <3>. QED
      BY <2>1, <2>2, <2>3, <2>5, <3>2, <3>3 DEF Failures
  <2>6. CASE HandlerSucceeds(call, retry)
    <3>1. backoff' = [backoff EXCEPT ![k] = NULL]
      BY <2>6 DEF HandlerSucceeds
    <3>2. /\ backoff' \in [Keys -> (Nat \ {0}) \union {NULL}]
          /\ backoff'[k] = NULL
          /\ \A j \in Keys : j # k => backoff'[j] = backoff[j]
      BY <2>2, <3>1 DEF Failures
    <3>. QED
      BY <2>2, <3>2 DEF Failures
  <2>. QED
    BY <1>3, <2>5, <2>6
<1>4. CASE Tick
  <2>1. UNCHANGED <<ongoing, backoff>>
    BY <1>4 DEF Tick
  <2>. QED
    BY <1>4, <2>1, TickEffect DEF Failures
<1>5. CASE StartupTimesOut
  BY <1>5 DEF StartupTimesOut, Failures
<1>6. CASE Idle
  BY <1>6 DEF Idle, Failures
<1>7. CASE UNCHANGED vars
  BY <1>7 DEF vars, Failures
<1>. QED
  BY <1>1, <1>2, <1>3, <1>4, <1>5, <1>6, <1>7, StepCases

(***************************************************************************)
(* The kinds of events.                                                    *)
(***************************************************************************)
KindsOf(k) ==
    /\ store[k] = 0 => value(k) = NULL /\ k \notin ongoing
    /\ Present(k) /\ value(k) # NULL => value(k).kind \in {"Added", "Modified"}
    /\ store[k] = NULL /\ value(k) # NULL => value(k).kind \in {"Deleted", "Ephemeral"}
    /\ pending[k] # NULL => pending[k].kind \in {"Modified", "Deleted"}
    /\ startup = "listing" => /\ value(k) # NULL => k \in listed
                              /\ k \notin ongoing

CallKinds(k) ==
    \A c \in calls : c.key = k =>
        /\ Present(k) \/ pending[k] # NULL => c.value.kind \in {"Added", "Modified"}
        /\ store[k] = NULL /\ pending[k] = NULL => c.value.kind \in {"Deleted", "Ephemeral"}

Kinds == ~crashed /\ \A k \in Keys : KindsOf(k) /\ CallKinds(k)

LEMMA KindsInit == Init => Kinds
BY DEF Init, InitProcess, Kinds, KindsOf, CallKinds, Present, value

\* No worker is woken before the workers start.
Woken == woken \in Nat /\ (startup = "listing" => woken = 0)

LEMMA WokenInit == Init => Woken
BY DEF Init, InitProcess, Woken

LEMMA WokenNext ==
    ASSUME Woken, [Next]_vars
    PROVE  Woken'
<1>1. CASE UNCHANGED <<woken, startup>>
  BY <1>1 DEF Woken
<1>2. CASE Notify
  BY <1>2 DEF Notify, Woken, startVars
<1>3. CASE WorkerNext
  BY <1>3 DEF WorkerNext, Woken, startVars
<1>4. CASE StartWorkers \/ StartupDone \/ StartupTimesOut
  BY <1>4 DEF StartWorkers, StartupDone, StartupTimesOut, Woken
<1>5. ASSUME NEW k \in Keys, \/ WatchLists(k) \/ WatchAdds(k) \/ WatchUpdates(k)
                             \/ WatchDeletes(k) \/ NopUpdate(k)
      PROVE  UNCHANGED <<woken, startup>>
  BY <1>5 DEF WatchLists, WatchAdds, WatchUpdates, WatchDeletes, NopUpdate, startVars
<1>6. CASE NotifierPeeks \/ NotifierWakes \/ TimerFires \/ Tick
  BY <1>1, <1>6 DEF NotifierPeeks, NotifierWakes, TimerFires, Tick, startVars
<1>7. ASSUME NEW call \in calls, NEW retry \in Retries,
             HandlerFails(call, retry) \/ HandlerSucceeds(call, retry)
      PROVE  UNCHANGED <<woken, startup>>
  BY <1>7 DEF HandlerFails, HandlerSucceeds, startVars
<1>8. CASE UNCHANGED vars
  BY <1>1, <1>8 DEF vars
<1>. QED
  BY <1>1, <1>2, <1>3, <1>4, <1>5, <1>6, <1>7, <1>8 DEF Next

\* Nothing changes for an object that a step leaves alone.
LEMMA KindsFrame ==
    ASSUME NEW j \in Keys, KindsOf(j), CallKinds(j),
           store'[j] = store[j], queued'[j] = queued[j], pending'[j] = pending[j],
           j \in ongoing' => j \in ongoing,
           \A c \in calls' : c.key = j => c \in calls,
           startup' = startup \/ startup' # "listing",
           listed \subseteq listed' \/ startup' # "listing"
    PROVE  KindsOf(j)' /\ CallKinds(j)'
BY DEF KindsOf, CallKinds, Present, value

LEMMA KindsNext ==
    ASSUME MapsInv, Failures, Woken, Kinds, [Next]_vars
    PROVE  Kinds'
<1>1. ASSUME NEW k \in Keys, \/ WatchLists(k) \/ WatchAdds(k) \/ WatchUpdates(k)
                             \/ WatchDeletes(k) \/ NopUpdate(k)
      PROVE  Kinds'
  <2>0. KindsOf(k) /\ CallKinds(k)
    BY DEF Kinds
  <2>. DEFINE Said(kind, obj) ==
            /\ Enqueue(k, kind, obj)
            /\ store[k] # NULL
            /\ kind = "Added" => /\ value(k) = NULL /\ k \notin ongoing
                                 /\ store'[k] # NULL /\ store'[k] > 0
                                 /\ startup' = "listing" => k \in listed'
            /\ kind # "Added" => Present(k) /\ startup' # "listing"
            /\ kind = "Modified" => store'[k] # NULL /\ store'[k] > 0
            /\ kind = "Deleted" => store'[k] = NULL
            /\ \A j \in Keys : j # k => store'[j] = store[j]
            /\ startup' = startup /\ listed \subseteq listed' /\ calls' = calls
  <2>1. PICK kind \in {"Added", "Modified", "Deleted"}, obj \in Versions : Said(kind, obj)
    <3>1. CASE WatchLists(k)
      BY <2>0, <3>1 DEF WatchLists, MapsInv, Types, Present, KindsOf
    <3>2. CASE WatchAdds(k)
      <4>1. /\ store'[k] = 1 /\ store[k] = 0
            /\ \A j \in Keys : j # k => store'[j] = store[j]
        BY <3>2 DEF WatchAdds, MapsInv, Types
      <4>2. /\ Enqueue(k, "Added", 1) /\ startup # "listing"
            /\ startup' = startup /\ listed' = listed /\ calls' = calls
        BY <3>2 DEF WatchAdds, startVars
      <4>3. value(k) = NULL /\ k \notin ongoing
        BY <2>0, <4>1 DEF KindsOf
      <4>4. 1 # NULL /\ 0 # NULL /\ 1 \in Versions
        BY VersionOne, NullAssumption
      <4>5. Said("Added", 1)
        BY <4>1, <4>2, <4>3, <4>4
      <4>. HIDE DEF Said
      <4>. QED
        BY <4>4, <4>5
    <3>3. CASE WatchUpdates(k)
      <4>1. store[k] \in Nat /\ store[k] + 1 \in Versions
        BY <3>3, NextVersion DEF WatchUpdates
      <4>2. /\ store'[k] = store[k] + 1
            /\ \A j \in Keys : j # k => store'[j] = store[j]
        BY <3>3 DEF WatchUpdates, MapsInv, Types
      <4>3. /\ Enqueue(k, "Modified", store[k] + 1) /\ startup # "listing" /\ Present(k)
            /\ startup' = startup /\ listed' = listed /\ calls' = calls
        BY <3>3 DEF WatchUpdates, startVars
      <4>4. store[k] # NULL /\ store[k] + 1 # NULL /\ store[k] + 1 > 0
        BY <4>1, NullAssumption
      <4>5. Said("Modified", store[k] + 1)
        BY <4>2, <4>3, <4>4
      <4>. HIDE DEF Said
      <4>. QED
        BY <4>1, <4>5
    <3>4. CASE WatchDeletes(k)
      BY <3>4 DEF WatchDeletes, MapsInv, Types, Present, startVars
    <3>5. CASE NopUpdate(k)
      BY <3>5 DEF NopUpdate, MapsInv, Types, Present, startVars
    <3>. QED
      BY <1>1, <3>1, <3>2, <3>3, <3>4, <3>5
  <2>2. kind \in EventKinds
    BY DEF EventKinds
  <2> DEFINE v == Event(kind, obj)
  <2>3. v \in Values /\ v.kind = kind
    BY <2>2, EventValue DEF Event
  <2>4. value(k) = NULL \/ Mergeable(value(k).kind, kind)
    BY <2>0, <2>1 DEF KindsOf, Mergeable
  <2>5. /\ ongoing' = ongoing
        /\ \A j \in Keys : j # k => queued'[j] = queued[j] /\ pending'[j] = pending[j]
        /\ value(k)' = IF value(k) = NULL THEN v ELSE mergeWithNewer(value(k), v)
        /\ IF k \in ongoing THEN queued'[k] = NULL /\ pending'[k] = value(k)'
           ELSE queued'[k] = value(k)' /\ pending'[k] = NULL
        /\ crashed' = crashed
    <3>1. Enqueue(k, kind, obj)
      BY <2>1
    <3>2. /\ ongoing' = ongoing
          /\ \A j \in Keys : j # k => queued'[j] = queued[j] /\ pending'[j] = pending[j]
      BY <2>2, <3>1, EnqueueEffect, Zenon
    <3>3. \/ value(k) # NULL /\ ~Mergeable(value(k).kind, kind)
          \/ /\ value(k)' = IF value(k) = NULL THEN v ELSE mergeWithNewer(value(k), v)
             /\ IF k \in ongoing THEN queued'[k] = NULL /\ pending'[k] = value(k)'
                ELSE queued'[k] = value(k)' /\ pending'[k] = NULL
             /\ crashed' = crashed
      BY <2>2, <3>1, EnqueueEffect, Zenon
    <3>. QED
      BY <2>4, <3>2, <3>3
  <2>6. /\ value(k)' \in Values
        /\ value(k)'.kind = IF value(k) = NULL THEN kind ELSE Merge(value(k).kind, kind)
    <3>1. value(k) \in Values \union {NULL}
      BY DEF value, MapsInv, Types
    <3>. HIDE DEF v
    <3>2. CASE value(k) = NULL
      BY <2>3, <2>5, <3>2
    <3>3. CASE value(k) # NULL
      <4>1. value(k) \in Values /\ value(k)' = mergeWithNewer(value(k), v)
        BY <2>5, <3>1, <3>3
      <4>. QED
        BY <2>3, <3>3, <4>1, MergeValue
    <3>. QED
      BY <3>2, <3>3
  <2>7. k \in ongoing /\ pending[k] # NULL => value(k) = pending[k]
    BY DEF MapsInv, Structure, value
  <2>8. k \in ongoing /\ pending[k] = NULL => value(k) = NULL
    BY DEF MapsInv, Structure, value
  <2>9. KindsOf(k)'
    <3>1. Present(k)' => value(k)'.kind \in {"Added", "Modified"}
      BY <2>0, <2>1, <2>6 DEF KindsOf, Merge, Present
    <3>2. store'[k] = NULL => value(k)'.kind \in {"Deleted", "Ephemeral"}
      BY <2>0, <2>1, <2>6 DEF KindsOf, Merge, Present
    <3>3. pending'[k] # NULL => pending'[k].kind \in {"Modified", "Deleted"}
      <4>1. CASE k \notin ongoing
        BY <2>5, <4>1
      <4>2. CASE k \in ongoing /\ pending[k] = NULL
        <5>1. kind \in {"Modified", "Deleted"}
          BY <2>1, <4>2
        <5>. QED
          BY <2>5, <2>6, <2>8, <4>2, <5>1
      <4>3. CASE k \in ongoing /\ pending[k] # NULL
        <5>1. value(k) # NULL /\ value(k).kind \in {"Modified", "Deleted"}
          BY <2>0, <2>7, <4>3 DEF KindsOf
        <5>2. Present(k) /\ kind \in {"Modified", "Deleted"}
          BY <2>1, <4>3
        <5>3. value(k).kind = "Modified"
          BY <2>0, <5>1, <5>2 DEF KindsOf
        <5>. QED
          BY <2>5, <2>6, <4>3, <5>1, <5>2, <5>3 DEF Merge
      <4>. QED
        BY <4>1, <4>2, <4>3
    <3>4. startup' = "listing" => k \in listed' /\ k \notin ongoing'
      BY <2>0, <2>1, <2>5 DEF KindsOf
    <3>5. store'[k] # 0
      <4>1. store'[k] = NULL \/ store'[k] > 0
        BY <2>1, Zenon
      <4>. QED
        BY <4>1, NullAssumption
    <3>. QED
      BY <3>1, <3>2, <3>3, <3>4, <3>5 DEF KindsOf
  <2>10. CallKinds(k)'
    <3>1. \A c \in calls : c.key = k => /\ k \in ongoing
                                        /\ kind # "Added"
                                        /\ c.value.kind \in {"Added", "Modified"}
                                        /\ pending'[k] # NULL
      <4>. SUFFICES ASSUME NEW c \in calls, c.key = k
                    PROVE  /\ k \in ongoing
                           /\ kind # "Added"
                           /\ c.value.kind \in {"Added", "Modified"}
                           /\ pending'[k] # NULL
        OBVIOUS
      <4>1. k \in ongoing
        BY DEF MapsInv, Structure
      <4>2. kind # "Added" /\ Present(k)
        BY <2>1, <4>1
      <4>3. c.value.kind \in {"Added", "Modified"}
        BY <2>0, <4>2 DEF CallKinds
      <4>4. pending'[k] # NULL
        BY <2>5, <2>6, <4>1, NullAssumption
      <4>. QED
        BY <4>1, <4>2, <4>3, <4>4
    <3>. QED
      BY <2>1, <3>1 DEF CallKinds
  <2>11. \A j \in Keys : j # k => KindsOf(j)' /\ CallKinds(j)'
    BY <2>1, <2>5, KindsFrame DEF Kinds
  <2>. QED
    BY <2>5, <2>9, <2>10, <2>11 DEF Kinds
<1>2. ASSUME NEW k \in Keys,
             Peek(k),
             queued' = [queued EXCEPT ![k] = NULL],
             ongoing' = ongoing \union {k},
             calls' = calls \union {[key |-> k, value |-> queued[k]]},
             UNCHANGED <<store, pending, backoff, failing, startVars, crashed>>,
             woken > 0
      PROVE  Kinds'
  <2>0. KindsOf(k) /\ CallKinds(k)
    BY DEF Kinds
  <2>1. /\ queued[k] \in Values /\ k \notin ongoing /\ pending[k] = NULL
        /\ \A c \in calls : c.key # k
        /\ \A j \in Keys : queued'[j] = IF j = k THEN NULL ELSE queued[j]
        /\ store' = store /\ pending' = pending /\ startup' = startup /\ listed' = listed
        /\ crashed' = crashed
    BY <1>2, NextEffect DEF startVars
  <2>2. value(k) = queued[k] /\ value(k)' = NULL /\ value(k) # NULL
    BY <2>1, NullAssumption DEF value
  <2>3. KindsOf(k)'
    <3>1. startup' # "listing"
      <4>1. woken > 0 /\ startup' = startup
        BY <1>2, <2>1, Zenon
      <4>. QED
        BY <4>1 DEF Woken
    <3>2. store'[k] # 0 /\ pending'[k] = NULL
      BY <2>0, <2>1, <2>2 DEF KindsOf
    <3>. QED
      BY <2>2, <3>1, <3>2 DEF KindsOf
  <2>4. \A c \in calls' : c.key = k => c.value = queued[k]
    <3>1. \A c \in calls' : c \in calls \/ c = [key |-> k, value |-> queued[k]]
      BY <1>2
    <3>2. \A c \in calls' : c.key = k => c = [key |-> k, value |-> queued[k]]
      BY <2>1, <3>1, Zenon
    <3>. QED
      BY <3>2
  <2>5. CallKinds(k)'
    BY <2>0, <2>1, <2>2, <2>4 DEF KindsOf, CallKinds, Present
  <2>6. \A j \in Keys : j # k => KindsOf(j)' /\ CallKinds(j)'
    <3>. SUFFICES ASSUME NEW j \in Keys, j # k
                  PROVE  KindsOf(j)' /\ CallKinds(j)'
      OBVIOUS
    <3>1. KindsOf(j) /\ CallKinds(j)
      BY DEF Kinds
    <3>2. j \in ongoing' => j \in ongoing
      BY <1>2
    <3>3. \A c \in calls' : c \in calls \/ c = [key |-> k, value |-> queued[k]]
      BY <1>2
    <3>4. \A c \in calls' : c.key = j => c \in calls
      BY <3>3
    <3>. QED
      BY <2>1, <3>1, <3>2, <3>4, KindsFrame
  <2>. QED
    BY <2>1, <2>3, <2>5, <2>6 DEF Kinds
<1>3. ASSUME NEW call \in calls, NEW retry \in Retries,
             HandlerFails(call, retry) \/ HandlerSucceeds(call, retry)
      PROVE  Kinds'
  <2> DEFINE k == call.key
  <2>1. PICK again \in Nat : finishAndMaybeRequeue(call, again) /\ store' = store /\ k \in Keys
    BY <1>3, HandlerStep
  <2>2. startup' = startup /\ listed' = listed
    BY <1>3 DEF HandlerFails, HandlerSucceeds, startVars
  <2> DEFINE v == Requeued(call, again)
  <2>3. KindsOf(k) /\ CallKinds(k)
    BY <2>1 DEF Kinds
  <2>4. /\ v \in Values /\ v.kind = call.value.kind
        /\ \A j \in Keys : j # k => queued'[j] = queued[j] /\ pending'[j] = pending[j]
    BY <2>1, FinishEffect
  <2>5. pending[k] = NULL \/ Mergeable(v.kind, pending[k].kind)
    BY <2>3, <2>4 DEF KindsOf, CallKinds, Mergeable
  <2>6. /\ ongoing' = ongoing \ {k}
        /\ calls' = calls \ {call}
        /\ pending'[k] = NULL
        /\ queued'[k] = IF pending[k] = NULL
                        THEN IF again # 0 THEN v ELSE NULL
                        ELSE IF again # 0 THEN mergeWithNewer(v, pending[k]) ELSE pending[k]
        /\ crashed' = crashed
    BY <2>1, <2>5, FinishEffect
  <2>7. k \in ongoing /\ value(k) = pending[k] /\ store[k] # 0
    BY <2>1, <2>3 DEF MapsInv, Structure, KindsOf, value
  <2>8. \A c \in calls' : c.key # k
    BY <2>6 DEF MapsInv, Structure
  <2>9. value(k)' = queued'[k]
    BY <2>6 DEF value
  <2>10. queued'[k] # NULL => /\ Present(k) => queued'[k].kind \in {"Added", "Modified"}
                              /\ store[k] = NULL => queued'[k].kind \in {"Deleted", "Ephemeral"}
    <3>1. pending[k] # NULL => /\ mergeWithNewer(v, pending[k]).kind = Merge(v.kind, pending[k].kind)
      BY <2>1, <2>4, MergeValue DEF MapsInv, Types
    <3>. HIDE DEF v
    <3>. QED
      BY <2>3, <2>4, <2>6, <2>7, <3>1 DEF KindsOf, CallKinds, Merge, Present
  <2>11. KindsOf(k)'
    BY <2>1, <2>2, <2>3, <2>6, <2>7, <2>9, <2>10 DEF KindsOf, Present
  <2>12. CallKinds(k)'
    BY <2>8 DEF CallKinds
  <2>13. \A j \in Keys : j # k => KindsOf(j)' /\ CallKinds(j)'
    BY <2>1, <2>2, <2>4, <2>6, KindsFrame DEF Kinds
  <2>. QED
    BY <2>1, <2>6, <2>11, <2>12, <2>13 DEF Kinds
<1>4. CASE Tick
  <2>1. UNCHANGED <<store, pending, ongoing, calls, startup, listed, crashed>>
    BY <1>4 DEF Tick, startVars
  <2>2. \A k \in Keys : IF queued[k] = NULL THEN queued'[k] = NULL
                        ELSE queued'[k] # NULL /\ queued'[k].kind = queued[k].kind
    BY <1>4, TickEffect
  <2>. QED
    BY <2>1, <2>2 DEF Kinds, KindsOf, CallKinds, Present, value
<1>5. CASE StartupTimesOut
  <2>1. /\ queued' = [k \in Keys |-> NULL] /\ pending' = [k \in Keys |-> NULL]
        /\ ongoing' = {} /\ calls' = {} /\ ~crashed'
    BY <1>5 DEF StartupTimesOut
  <2>2. \A k \in Keys : value(k)' = NULL /\ pending'[k] = NULL
    BY <2>1 DEF value
  <2>. QED
    BY <2>1, <2>2 DEF Kinds, KindsOf, CallKinds
<1>6. CASE Idle /\ (UNCHANGED startVars \/ StartWorkers \/ StartupDone)
  BY <1>6 DEF Idle, startVars, StartWorkers, StartupDone, Kinds, KindsOf, CallKinds, Present, value
<1>7. CASE UNCHANGED vars
  BY <1>7 DEF vars, Kinds, KindsOf, CallKinds, Present, value
<1>. QED
  BY <1>1, <1>2, <1>3, <1>4, <1>5, <1>6, <1>7, StepCases

(***************************************************************************)
(* globalFailing.                                                          *)
(***************************************************************************)
FailingKeys == {k \in Keys : backoff[k] # NULL}

Count == failing = Cardinality(FailingKeys)

LEMMA CountInit == Init => Count
<1>. SUFFICES ASSUME Init PROVE FailingKeys = {} /\ failing = 0
  BY FS_EmptySet DEF Count
<1>2. backoff = [k \in Keys |-> NULL] /\ failing = 0
  BY DEF Init, InitProcess
<1>. QED
  BY <1>2 DEF FailingKeys

LEMMA CountNext ==
    ASSUME MapsInv, Failures, Count, [Next]_vars
    PROVE  Count'
<1>0. IsFiniteSet(FailingKeys)
  BY FS_Subset, QueueAssumption DEF FailingKeys
<1>1. CASE UNCHANGED <<backoff, failing>>
  BY <1>1 DEF Count, FailingKeys
<1>2. ASSUME NEW call \in calls, NEW retry \in Retries, HandlerFails(call, retry)
      PROVE  Count'
  <2> DEFINE k == call.key
  <2>1. k \in Keys /\ retry \in Nat
    BY QueueAssumption DEF MapsInv, Types, Calls
  <2>2. /\ backoff' = [backoff EXCEPT ![k] = WaitAfterFailure(k, retry)]
        /\ failing' = IF backoff[k] = NULL THEN failing + 1 ELSE failing
    BY <1>2 DEF HandlerFails
  <2>3. WaitAfterFailure(k, retry) # NULL
    BY <2>1, FailureWaits, NullAssumption DEF Failures
  <2>4. FailingKeys' = FailingKeys \union {k}
    BY <2>1, <2>2, <2>3 DEF FailingKeys, Failures
  <2>5. Cardinality(FailingKeys') = IF k \in FailingKeys THEN Cardinality(FailingKeys)
                                    ELSE Cardinality(FailingKeys) + 1
    BY <1>0, <2>4, FS_AddElement
  <2>. QED
    BY <2>1, <2>2, <2>5 DEF Count, FailingKeys
<1>3. ASSUME NEW call \in calls, NEW retry \in Retries, HandlerSucceeds(call, retry)
      PROVE  Count'
  <2> DEFINE k == call.key
  <2>1. k \in Keys
    BY DEF MapsInv, Types, Calls
  <2>2. /\ backoff' = [backoff EXCEPT ![k] = NULL]
        /\ failing' = IF backoff[k] = NULL THEN failing ELSE failing - 1
    BY <1>3 DEF HandlerSucceeds
  <2>3. FailingKeys' = FailingKeys \ {k}
    BY <2>1, <2>2 DEF FailingKeys, Failures
  <2>4. Cardinality(FailingKeys') = IF k \in FailingKeys THEN Cardinality(FailingKeys) - 1
                                    ELSE Cardinality(FailingKeys)
    BY <1>0, <2>3, FS_RemoveElement
  <2>. QED
    BY <2>1, <2>2, <2>4 DEF Count, FailingKeys
<1>4. ASSUME NEW k \in Keys, \/ WatchLists(k) \/ WatchAdds(k) \/ WatchUpdates(k)
                             \/ WatchDeletes(k) \/ NopUpdate(k)
      PROVE  UNCHANGED <<backoff, failing>>
  BY <1>4, WatchEvents
<1>5. CASE StartupTimesOut
  <2>1. failing' = 0 /\ FailingKeys' = {}
    BY <1>5 DEF StartupTimesOut, FailingKeys
  <2>. QED
    BY <2>1, FS_EmptySet DEF Count
<1>6. CASE Idle \/ Tick \/ UNCHANGED vars
  BY <1>1, <1>6 DEF Idle, Tick, vars
<1>. QED
  BY <1>1, <1>2, <1>3, <1>4, <1>5, <1>6, StepCases

QueueInv == MapsInv /\ Failures /\ Woken /\ Kinds /\ Count

LEMMA QueueInvHolds == Spec => []QueueInv
<1>1. Init => QueueInv
  BY MapsInvInit, WokenInit, KindsInit, CountInit DEF QueueInv
<1>2. QueueInv /\ [Next]_vars => QueueInv'
  BY MapsInvNext, FailuresNext, WokenNext, KindsNext, CountNext DEF QueueInv
<1>. QED
  BY <1>1, <1>2, PTL DEF Spec

\* Whatever the watch reports, however often objects are requeued and handlers retried, the event
\* kinds that Enqueue and finishAndMaybeRequeue merge are ones that EventKind.Merge accepts.
THEOREM NoPanic == Spec => []NeverPanics
<1>1. QueueInv => NeverPanics
  BY DEF QueueInv, Kinds, NeverPanics
<1>. QED
  BY <1>1, QueueInvHolds, PTL

\* ErrorBackoffMiddleware never loses track of an object: one that failed waits in the queue or is
\* being handled, and globalFailing is the number of these objects.
THEOREM FailingIsRetriedHolds == Spec => []FailingIsRetried
<1>1. QueueInv => FailingIsRetried
  BY DEF QueueInv, Failures, Count, FailingKeys, FailingIsRetried
<1>. QED
  BY <1>1, QueueInvHolds, PTL

(***************************************************************************)
(* Start-up.                                                               *)
(***************************************************************************)
\* Of the initial list, what InitEventsMiddleware does not wait for any more has been handled.
Remaining == listed \ remaining \subseteq applied

LEMMA RemainingNext ==
    ASSUME Remaining, [Next]_vars
    PROVE  Remaining'
<1>1. CASE UNCHANGED startVars
  BY <1>1 DEF Remaining, startVars
<1>2. ASSUME NEW k \in Keys, WatchLists(k)
      PROVE  Remaining'
  BY <1>2 DEF WatchLists, Remaining
<1>3. ASSUME NEW k \in Keys, WatchAdds(k) \/ WatchUpdates(k) \/ WatchDeletes(k) \/ NopUpdate(k)
      PROVE  UNCHANGED startVars
  BY <1>3 DEF WatchAdds, WatchUpdates, WatchDeletes, NopUpdate
<1>4. CASE NotifierPeeks \/ NotifierWakes \/ TimerFires \/ Notify \/ Tick \/ WorkerNext \/ UNCHANGED vars
  BY <1>1, <1>4 DEF NotifierPeeks, NotifierWakes, TimerFires, Notify, Tick, WorkerNext, vars, startVars
<1>5. ASSUME NEW call \in calls, NEW retry \in Retries, HandlerFails(call, retry)
      PROVE  UNCHANGED startVars
  BY <1>5 DEF HandlerFails
<1>6. ASSUME NEW call \in calls, NEW retry \in Retries, HandlerSucceeds(call, retry)
      PROVE  Remaining'
  BY <1>6 DEF HandlerSucceeds, Remaining
<1>7. CASE StartWorkers \/ StartupDone \/ StartupTimesOut
  BY <1>7 DEF StartWorkers, StartupDone, StartupTimesOut, Remaining
<1>. QED
  BY <1>1, <1>2, <1>3, <1>4, <1>5, <1>6, <1>7 DEF Next

\* NewAutoscaleEnforcerPlugin returns only when a handler has succeeded for each object of the initial
\* lists, whatever changed, failed or was retried meanwhile.
THEOREM StartupIsCompleteHolds == Spec => StartupIsComplete
<1>1. Init => Remaining
  BY DEF Init, InitProcess, Remaining
<1>2. Remaining /\ [Next]_vars => Remaining'
  BY RemainingNext
<1>3. ASSUME Remaining, [Next]_vars, startup # "done", startup' = "done"
      PROVE  listed \subseteq applied
  <2>1. startup' # startup
    BY <1>3
  <2>2. StartWorkers \/ StartupDone \/ StartupTimesOut
    <3>1. ASSUME NEW k \in Keys, \/ WatchLists(k) \/ WatchAdds(k) \/ WatchUpdates(k)
                                 \/ WatchDeletes(k) \/ NopUpdate(k)
          PROVE  UNCHANGED startup
      BY <3>1 DEF WatchLists, WatchAdds, WatchUpdates, WatchDeletes, NopUpdate, startVars
    <3>2. ASSUME NEW call \in calls, NEW retry \in Retries,
                 HandlerFails(call, retry) \/ HandlerSucceeds(call, retry)
          PROVE  UNCHANGED startup
      BY <3>2 DEF HandlerFails, HandlerSucceeds, startVars
    <3>3. ASSUME \/ NotifierPeeks \/ NotifierWakes \/ TimerFires \/ Notify \/ Tick \/ WorkerNext
                 \/ UNCHANGED vars
          PROVE  UNCHANGED startup
      BY <3>3 DEF NotifierPeeks, NotifierWakes, TimerFires, Notify, Tick, WorkerNext, vars, startVars
    <3>. QED
      BY <1>3, <2>1, <3>1, <3>2, <3>3 DEF Next
  <2>. QED
    BY <1>3, <2>2 DEF StartWorkers, StartupDone, StartupTimesOut, Remaining
<1>. QED
  BY <1>1, <1>2, <1>3, PTL DEF Spec, StartupIsComplete

(***************************************************************************)
(* The refinement.  What waits and what is handled, as functions of the    *)
(* maps, so that the same lemmas apply before and after a step.            *)
(***************************************************************************)
Shown(v) == IF v = NULL THEN NULL ELSE Change(v)

HandledBy(on) == IF on = {} THEN NULL ELSE Change((CHOOSE call \in on : TRUE).value)

HandledIn(cs, k) == HandledBy({call \in cs : call.key = k})

LEMMA MappedState ==
    /\ dirtyChange = [k \in Keys |-> Shown(value(k))]
    /\ busyChange = [k \in Keys |-> HandledIn(calls, k)]
    /\ dirtyChange' = [k \in Keys |-> Shown(value(k)')]
    /\ busyChange' = [k \in Keys |-> HandledIn(calls', k)]
BY DEF dirtyChange, busyChange, Shown, HandledIn, HandledBy, CallsOn

LEMMA HandledCall ==
    ASSUME NEW cs, NEW call \in cs, \A c \in cs : c.key = call.key => c = call
    PROVE  HandledIn(cs, call.key) = Change(call.value)
<1>1. {c \in cs : c.key = call.key} = {call}
  OBVIOUS
<1>. QED
  BY <1>1 DEF HandledIn, HandledBy

LEMMA NotHandled ==
    ASSUME NEW cs, NEW k, \A c \in cs : c.key # k
    PROVE  HandledIn(cs, k) = NULL
<1>1. {c \in cs : c.key = k} = {}
  OBVIOUS
<1>. QED
  BY <1>1 DEF HandledIn, HandledBy

LEMMA HandledFrame ==
    ASSUME NEW cs, NEW ds, NEW k, \A c : c.key = k => (c \in cs <=> c \in ds)
    PROVE  HandledIn(cs, k) = HandledIn(ds, k)
<1>1. {c \in cs : c.key = k} = {c \in ds : c.key = k}
  OBVIOUS
<1>. QED
  BY <1>1 DEF HandledIn

LEMMA ChangeType ==
    ASSUME NEW v \in Values
    PROVE  /\ Change(v) \in [kind : EventKinds, obj : Versions]
           /\ Change(v) # NULL
           /\ Change(v).kind = v.kind /\ Change(v).obj = v.obj
           /\ Shown(v) = Change(v)
BY NullAssumption DEF Change, Values, Shown

\* Merging commutes with the mapping.
LEMMA ShownMerge ==
    ASSUME NEW v \in Values, NEW newer \in Values
    PROVE  Change(mergeWithNewer(v, newer)) = Abstract!MergeWithNewer(Change(v), Change(newer))
BY DEF Change, mergeWithNewer, Abstract!MergeWithNewer, Abstract!Merge, Merge

LEMMA RefinesInit == Init => Abstract!Init
<1>. SUFFICES ASSUME Init PROVE Abstract!Init
  OBVIOUS
<1>2. \A k \in Keys : value(k) = NULL
  BY DEF Init, InitProcess, value
<1>3. \A k \in Keys : HandledIn(calls, k) = NULL
  BY NotHandled DEF Init, InitProcess
<1>. QED
  BY <1>2, <1>3, MappedState DEF Abstract!Init, Shown

LEMMA RefinesEnqueue ==
    ASSUME MapsInv, Kinds, Kinds', NEW k \in Keys,
           WatchLists(k) \/ WatchAdds(k) \/ WatchUpdates(k) \/ WatchDeletes(k) \/ NopUpdate(k)
    PROVE  Abstract!Enqueue(k)
<1>1. PICK kind \in {"Added", "Modified", "Deleted"}, obj \in Versions : Enqueue(k, kind, obj)
  BY WatchEvents
<1>2. kind \in EventKinds
  BY DEF EventKinds
<1> DEFINE v == Event(kind, obj)
<1>3. v \in Values /\ value(k) \in Values \union {NULL}
  BY <1>2, EventValue DEF MapsInv, Types, value
<1>4. \A j \in Keys : j # k => queued'[j] = queued[j] /\ pending'[j] = pending[j]
  BY <1>1, <1>2, EnqueueEffect, Zenon
<1>5. /\ value(k) = NULL \/ Mergeable(value(k).kind, kind)
      /\ value(k)' = IF value(k) = NULL THEN v ELSE mergeWithNewer(value(k), v)
  <2>1. \/ crashed' = TRUE
        \/ /\ value(k) = NULL \/ Mergeable(value(k).kind, kind)
           /\ value(k)' = IF value(k) = NULL THEN v ELSE mergeWithNewer(value(k), v)
    BY <1>1, <1>2, EnqueueEffect, Zenon
  <2>. QED
    BY <2>1 DEF Kinds
<1>6. \A j \in Keys : j # k => value(j)' = value(j)
  BY <1>4 DEF value
<1>7. busyChange' = busyChange
  BY WatchEvents, MappedState
<1>8. dirtyChange' = [dirtyChange EXCEPT ![k] = dirtyChange'[k]]
  BY <1>6, MappedState
<1> DEFINE e == [kind |-> kind, obj |-> obj]
<1>9. e \in Abstract!Event /\ Change(v) = e
  BY DEF Abstract!Event, Abstract!EventKinds, Change, Event
<1>10. dirtyChange[k] = Shown(value(k)) /\ dirtyChange'[k] = Shown(value(k)')
  BY MappedState
<1>11. dirtyChange'[k] \in Abstract!Merged(dirtyChange[k])
  <2>1. CASE value(k) = NULL
    <3>1. dirtyChange[k] = NULL /\ dirtyChange'[k] = e
      BY <1>3, <1>5, <1>9, <1>10, <2>1, ChangeType DEF Shown
    <3>. QED
      BY <1>9, <3>1 DEF Abstract!Merged
  <2>2. CASE value(k) # NULL
    <3> DEFINE w == Change(value(k))
    <3>1. value(k) \in Values /\ w # NULL /\ w.kind = value(k).kind /\ dirtyChange[k] = w
      BY <1>3, <1>10, <2>2, ChangeType DEF Shown
    <3>2. mergeWithNewer(value(k), v) \in Values
      BY <1>3, <3>1, MergeValue
    <3>3. dirtyChange'[k] = Abstract!MergeWithNewer(w, e)
      <4>. HIDE DEF e, v
      <4>. QED
        BY <1>3, <1>5, <1>9, <1>10, <2>2, <3>1, <3>2, ChangeType, ShownMerge
    <3>4. Abstract!Mergeable(w.kind, e.kind)
      BY <1>5, <2>2, <3>1 DEF Mergeable, Abstract!Mergeable
    <3>. HIDE DEF w, e
    <3>. QED
      BY <1>9, <3>1, <3>3, <3>4 DEF Abstract!Merged
  <2>. QED
    BY <2>1, <2>2
<1>. QED
  BY <1>7, <1>8, <1>11 DEF Abstract!Enqueue

LEMMA RefinesTake ==
    ASSUME MapsInv, NEW k \in Keys, Peek(k),
           queued' = [queued EXCEPT ![k] = NULL],
           ongoing' = ongoing \union {k},
           calls' = calls \union {[key |-> k, value |-> queued[k]]},
           pending' = pending
    PROVE  Abstract!Take(k)
<1> DEFINE call == [key |-> k, value |-> queued[k]]
<1>1. /\ queued[k] \in Values /\ pending[k] = NULL
      /\ \A c \in calls : c.key # k
      /\ \A j \in Keys : queued'[j] = IF j = k THEN NULL ELSE queued[j]
  BY NextEffect
<1>2. value(k) = queued[k] /\ value(k)' = NULL /\ \A j \in Keys : j # k => value(j)' = value(j)
  BY <1>1 DEF value
<1>3. HandledIn(calls, k) = NULL
  BY <1>1, NotHandled
<1>4. HandledIn(calls', k) = Change(queued[k])
  <2>1. call \in calls' /\ call.key = k /\ call.value = queued[k]
    OBVIOUS
  <2>2. \A c \in calls' : c.key = call.key => c = call
    BY <1>1
  <2>. HIDE DEF call
  <2>3. HandledIn(calls', call.key) = Change(call.value)
    BY <2>1, <2>2, HandledCall
  <2>. QED
    BY <2>1, <2>3
<1>5. \A j \in Keys : j # k => HandledIn(calls', j) = HandledIn(calls, j)
  BY SMTT(30), HandledFrame
<1>6. dirtyChange[k] = Change(queued[k]) /\ dirtyChange[k] # NULL
  BY <1>1, <1>2, ChangeType, MappedState
<1>7. busyChange[k] = NULL
  BY <1>3, MappedState
<1>8. busyChange' = [busyChange EXCEPT ![k] = dirtyChange[k]]
  BY <1>4, <1>5, <1>6, MappedState
<1>9. dirtyChange' = [dirtyChange EXCEPT ![k] = NULL]
  BY <1>2, MappedState DEF Shown
<1>. QED
  BY <1>6, <1>7, <1>8, <1>9 DEF Abstract!Take

LEMMA RefinesFinish ==
    ASSUME MapsInv, Kinds', NEW call \in calls, NEW again \in Nat,
           finishAndMaybeRequeue(call, again)
    PROVE  Abstract!Finish(call.key) \/ Abstract!Retry(call.key)
<1> DEFINE k == call.key
           v == Requeued(call, again)
<1>1. /\ k \in Keys /\ v \in Values /\ v.kind = call.value.kind /\ v.obj = call.value.obj
      /\ \A j \in Keys : j # k => queued'[j] = queued[j] /\ pending'[j] = pending[j]
  BY FinishEffect
<1>2. /\ pending[k] = NULL \/ again = 0 \/ Mergeable(v.kind, pending[k].kind)
      /\ calls' = calls \ {call}
      /\ pending'[k] = NULL
      /\ queued'[k] = IF pending[k] = NULL THEN IF again # 0 THEN v ELSE NULL
                      ELSE IF again # 0 THEN mergeWithNewer(v, pending[k]) ELSE pending[k]
  BY FinishEffect DEF Kinds
<1>3. call.value \in Values /\ k \in ongoing /\ queued[k] = NULL /\ value(k) = pending[k]
  BY <1>1 DEF MapsInv, Types, Structure, Calls, value
<1>4. value(k)' = queued'[k] /\ \A j \in Keys : j # k => value(j)' = value(j)
  BY <1>1, <1>2 DEF value
<1>5. HandledIn(calls, k) = Change(call.value)
  BY HandledCall DEF MapsInv, Structure
<1>6. \A c \in calls' : c.key # k
  BY <1>2 DEF MapsInv, Structure
<1>7. HandledIn(calls', k) = NULL
  BY <1>6, NotHandled
<1>8. \A j \in Keys : j # k => HandledIn(calls', j) = HandledIn(calls, j)
  BY SMTT(30), <1>2, HandledFrame
<1>9. /\ busyChange[k] = Change(call.value) /\ busyChange[k] # NULL
      /\ busyChange' = [busyChange EXCEPT ![k] = NULL]
  <2>. HIDE DEF k
  <2>1. busyChange[k] = Change(call.value)
    BY <1>1, <1>5, MappedState
  <2>2. Change(call.value) # NULL
    BY <1>3, ChangeType
  <2>3. busyChange' = [busyChange EXCEPT ![k] = NULL]
    BY <1>7, <1>8, MappedState
  <2>. QED
    BY <2>1, <2>2, <2>3
<1>10. Change(v) = Change(call.value)
  BY <1>1 DEF Change
<1>11. dirtyChange[k] = Shown(pending[k]) /\ dirtyChange'[k] = Shown(queued'[k])
  BY <1>1, <1>3, <1>4, MappedState
<1>12. dirtyChange' = [dirtyChange EXCEPT ![k] = Shown(queued'[k])]
  BY <1>4, MappedState
<1>13. CASE again = 0
  <2>1. queued'[k] = pending[k]
    BY <1>2, <1>13
  <2>2. Shown(queued'[k]) = dirtyChange[k]
    BY <1>11, <2>1
  <2>3. dirtyChange = [j \in Keys |-> dirtyChange[j]]
    BY MappedState
  <2>4. dirtyChange' = dirtyChange
    BY <1>12, <2>2, <2>3
  <2>. QED
    BY <1>9, <2>4 DEF Abstract!Finish
<1>14. CASE again # 0 /\ pending[k] = NULL
  <2>1. dirtyChange[k] = NULL /\ Shown(queued'[k]) = busyChange[k]
    BY <1>1, <1>2, <1>9, <1>10, <1>11, <1>14, ChangeType DEF Shown
  <2>2. dirtyChange' = [dirtyChange EXCEPT ![k] = busyChange[k]]
    BY <1>12, <2>1
  <2>. QED
    BY <1>9, <2>1, <2>2 DEF Abstract!Retry
<1>15. CASE again # 0 /\ pending[k] # NULL
  <2>1. pending[k] \in Values
    BY <1>1, <1>15 DEF MapsInv, Types
  <2>2. dirtyChange[k] = Change(pending[k]) /\ dirtyChange[k] # NULL
    BY <1>11, <2>1, ChangeType
  <2>3. queued'[k] = mergeWithNewer(v, pending[k]) /\ queued'[k] \in Values
    <3>. HIDE DEF v
    <3>1. queued'[k] = mergeWithNewer(v, pending[k])
      BY <1>2, <1>15
    <3>2. v \in Values
      BY <1>1
    <3>. QED
      BY <2>1, <3>1, <3>2, MergeValue
  <2>4. Shown(queued'[k]) = Abstract!MergeWithNewer(busyChange[k], dirtyChange[k])
    <3>. HIDE DEF v
    <3>. QED
      <4>1. v \in Values
        BY <1>1
      <4>2. Shown(queued'[k]) = Change(mergeWithNewer(v, pending[k]))
        BY <2>3, ChangeType
      <4>3. Change(mergeWithNewer(v, pending[k])) = Abstract!MergeWithNewer(Change(v), Change(pending[k]))
        BY <2>1, <4>1, ShownMerge
      <4>. QED
        BY <1>9, <1>10, <2>2, <4>2, <4>3
  <2>5. Abstract!Mergeable(busyChange[k].kind, dirtyChange[k].kind)
    <3>1. busyChange[k].kind = v.kind /\ dirtyChange[k].kind = pending[k].kind
      <4>1. Change(call.value).kind = call.value.kind /\ Change(pending[k]).kind = pending[k].kind
        BY <1>3, <2>1, ChangeType
      <4>2. v.kind = call.value.kind
        BY <1>1
      <4>. QED
        BY <1>9, <2>2, <4>1, <4>2
    <3>. QED
      BY <1>2, <1>15, <3>1 DEF Mergeable, Abstract!Mergeable
  <2>6. dirtyChange' = [dirtyChange EXCEPT ![k] = Abstract!MergeWithNewer(busyChange[k], dirtyChange[k])]
    BY <1>12, <2>4
  <2>. QED
    BY <1>9, <2>2, <2>5, <2>6 DEF Abstract!Retry
<1>. QED
  BY <1>13, <1>14, <1>15

LEMMA RefinesNext ==
    ASSUME QueueInv, QueueInv', [Next]_vars
    PROVE  [Abstract!Next]_(Abstract!vars)
<1>0. MapsInv /\ Failures /\ Kinds /\ Kinds'
  BY DEF QueueInv
<1>1. ASSUME NEW k \in Keys, \/ WatchLists(k) \/ WatchAdds(k) \/ WatchUpdates(k)
                             \/ WatchDeletes(k) \/ NopUpdate(k)
      PROVE  Abstract!Next
  BY <1>0, <1>1, RefinesEnqueue DEF Abstract!Next
<1>2. ASSUME NEW k \in Keys,
             Peek(k),
             queued' = [queued EXCEPT ![k] = NULL],
             ongoing' = ongoing \union {k},
             calls' = calls \union {[key |-> k, value |-> queued[k]]},
             pending' = pending
      PROVE  Abstract!Next
  BY <1>0, <1>2, RefinesTake DEF Abstract!Next
<1>3. ASSUME NEW call \in calls, NEW retry \in Retries,
             HandlerFails(call, retry) \/ HandlerSucceeds(call, retry)
      PROVE  Abstract!Next
  <2>1. PICK again \in Nat : finishAndMaybeRequeue(call, again) /\ call.key \in Keys
    BY <1>0, <1>3, HandlerStep
  <2>. QED
    BY <1>0, <2>1, RefinesFinish DEF Abstract!Next
<1>4. CASE UNCHANGED <<queued, pending, calls>>
  <2>1. \A k \in Keys : value(k)' = value(k)
    BY <1>4 DEF value
  <2>2. dirtyChange' = dirtyChange /\ busyChange' = busyChange
    BY <1>4, <2>1, MappedState
  <2>. QED
    BY <2>2 DEF Abstract!vars
<1>5. CASE Tick
  <2>1. pending' = pending /\ calls' = calls
    BY <1>5 DEF Tick
  <2>2. \A k \in Keys : IF queued[k] = NULL THEN queued'[k] = NULL
                        ELSE /\ queued'[k] # NULL
                             /\ queued'[k].kind = queued[k].kind
                             /\ queued'[k].obj = queued[k].obj
    BY <1>0, <1>5, TickEffect
  <2>3. \A k \in Keys : Shown(value(k)') = Shown(value(k))
    BY <2>1, <2>2 DEF value, Shown, Change
  <2>4. dirtyChange' = dirtyChange /\ busyChange' = busyChange
    BY <2>1, <2>3, MappedState
  <2>. QED
    BY <2>4 DEF Abstract!vars
<1>6. CASE StartupTimesOut
  <2>1. /\ queued' = [k \in Keys |-> NULL] /\ pending' = [k \in Keys |-> NULL] /\ calls' = {}
    BY <1>6 DEF StartupTimesOut
  <2>2. \A k \in Keys : value(k)' = NULL
    BY <2>1 DEF value
  <2>3. \A k \in Keys : HandledIn(calls', k) = NULL
    BY <2>1, NotHandled
  <2>. QED
    BY <2>2, <2>3, MappedState DEF Abstract!Next, Abstract!Restart, Shown
<1>7. CASE Idle \/ UNCHANGED vars
  BY <1>4, <1>7 DEF Idle, vars
<1>. QED
  BY <1>1, <1>2, <1>3, <1>5, <1>6, <1>7, StepCases

\* The queue implements the safety part of the abstract work queue: no change is lost, invented or
\* handled by two workers at a time, and the newest version of an object is the one that is handled.
THEOREM QueueRefines == Spec => Abstract!Spec
<1>1. Init => Abstract!Init
  BY RefinesInit
<1>2. QueueInv /\ QueueInv' /\ [Next]_vars => [Abstract!Next]_(Abstract!vars)
  BY RefinesNext
<1>. QED
  BY <1>1, <1>2, QueueInvHolds, PTL DEF Spec, Abstract!Spec
=============================================================================
