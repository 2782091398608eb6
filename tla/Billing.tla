------------------------------ MODULE Billing ------------------------------
(***************************************************************************)
(* Billing in the autoscaler-agent (pkg/agent/billing): the collector, and *)
(* its events on their way through the EventSink.                          *)
(*                                                                         *)
(* The collector samples the VMs of its node, keeps for each the time and  *)
(* the CPU time since its last events, and turns those into events now and *)
(* then.  Time is in half seconds, CPU time in half CPU seconds, so that   *)
(* the rounding to whole ones shows.  Time passes from sample to sample;   *)
(* the events in between bear the time of the sample before.               *)
(***************************************************************************)
EXTENDS EventSink, Integers

CONSTANTS
    NULL,    \* Go's nil
    Keys,    \* a VM and its endpoint: metricsKey
    MaxTime, \* bound
    Seen     \* bound: at each time, the CPUs that a VM may be seen with (0 if it is not)

LOCAL INSTANCE FiniteSetsExt

VARIABLES
    historical,      \* of each key: its last slice and the total before that; NULL if it has none
    present,         \* of each key: its CPUs at the last sample; 0 if it was not there
    lastCollectTime,
    draining,        \* the events that drainEnqueue has yet to enqueue
    stopped,         \* runCollector has returned
    metered          \* of each key and metric, what the samples so far amount to

collectorVars == <<historical, present, lastCollectTime, draining, stopped, metered>>

vars == <<collectorVars, sinkVars>>

Metrics == {"cpu", "activeTime"}

BillingInit ==
    /\ SinkInit
    /\ historical = [k \in Keys |-> NULL]
    /\ present \in [Keys -> Seen[0]]  \* by the first collect, which comes before anything else
    /\ lastCollectTime = 0
    /\ draining = {}
    /\ stopped = FALSE
    /\ metered = [k \in Keys |-> [m \in Metrics |-> 0]]

(***************************************************************************)
(* vmMetricsHistory                                                        *)
(***************************************************************************)
NewHistory == [lastSlice |-> NULL, cpu |-> 0, activeTime |-> 0]

finalizeCurrentTimeSlice(h) ==
    LET s == h.lastSlice
    IN  IF s = NULL THEN h
        ELSE [lastSlice |-> NULL,
              cpu |-> h.cpu + (s.endTime - s.startTime) * s.cpu,
              activeTime |-> h.activeTime + (s.endTime - s.startTime)]

CanMergeSameUse(s, next) == s # NULL /\ s.cpu = next.cpu

CanMerge(s, next) == s # NULL /\ s.endTime = next.startTime /\ s.cpu = next.cpu

appendSlice(h, slice) ==
    IF CanMerge(h.lastSlice, slice) THEN [h EXCEPT !.lastSlice.endTime = slice.endTime]
    ELSE [finalizeCurrentTimeSlice(h) EXCEPT !.lastSlice = slice]

(***************************************************************************)
(* runCollector                                                            *)
(***************************************************************************)
Running == ~stopped /\ draining = {}

\* vms: the CPUs of each VM that the index lists for the node and that is alive, 0 for any other.
\* All are as if gone while the watch of them fails (store.Failing()).
collect(vms, now) ==
    LET both == {k \in Keys : present[k] > 0 /\ vms[k] > 0}
        slice(k) == [cpu |-> Min({present[k], vms[k]}), startTime |-> lastCollectTime, endTime |-> now]
        history(k) == IF historical[k] = NULL THEN NewHistory ELSE historical[k]
    IN  /\ Running
        /\ historical' = [k \in Keys |-> IF k \in both THEN appendSlice(history(k), slice(k)) ELSE historical[k]]
        /\ present' = vms
        /\ lastCollectTime' = now
        /\ metered' = [k \in Keys |->
                          IF k \in both
                          THEN [cpu |-> metered[k].cpu + slice(k).cpu * (now - lastCollectTime),
                                activeTime |-> metered[k].activeTime + (now - lastCollectTime)]
                          ELSE metered[k]]
        /\ UNCHANGED <<draining, stopped, sinkVars>>

\* math.Round: halves go up
Round(halves) == (halves + 1) \div 2

\* The idempotency key is made of the time, among others.
drainEnqueue ==
    LET total(k) == finalizeCurrentTimeSlice(historical[k])
    IN  /\ Running
        /\ draining' = {[key |-> k, metric |-> m, StopTime |-> lastCollectTime, Value |-> Round(total(k)[m])] :
                           k \in {k \in Keys : historical[k] # NULL}, m \in Metrics}
        /\ historical' = [k \in Keys |-> NULL]
        /\ UNCHANGED <<present, lastCollectTime, stopped, metered, sinkVars>>

\* One VM after the other, the CPU time of each first.
Enqueue(event) ==
    /\ event.metric = "cpu" <=> \A k \in Keys : Cardinality({e \in draining : e.key = k}) # 1
    /\ enqueue(event)
    /\ draining' = draining \ {event}
    /\ UNCHANGED <<historical, present, lastCollectTime, stopped, metered>>

\* Its context is done; cancelSink follows.
CollectorReturns ==
    /\ Running
    /\ stopped' = TRUE
    /\ sinkDone' = TRUE
    /\ UNCHANGED <<historical, present, lastCollectTime, draining, metered>>
    /\ UNCHANGED <<ongoing, completed, batchComplete, sender, delivered, failedPushes>>

BillingNext ==
    \/ \E now \in (lastCollectTime + 1)..MaxTime : \E vms \in [Keys -> Seen[now]] : collect(vms, now)
    \/ drainEnqueue \/ CollectorReturns
    \/ \E event \in draining : Enqueue(event)
    \/ SinkNext /\ UNCHANGED collectorVars

BillingSpec == BillingInit /\ [][BillingNext]_vars

BillingFairness == SinkFairness /\ WF_vars(\E event \in draining : Enqueue(event))

(***************************************************************************)
(* Correctness                                                             *)
(***************************************************************************)
Events(k, m) == {e \in draining \union Unsent \union delivered : e.key = k /\ e.metric = m}

Billed(k, m) == MapThenSumSet(LAMBDA e : 2 * e.Value, Events(k, m))

Pending(k, m) == IF historical[k] = NULL THEN 0 ELSE finalizeCurrentTimeSlice(historical[k])[m]

\* Every sample is billed once: what the events say (each counted once, by its idempotency key,
\* however often it was pushed) and what is still kept make up what was sampled, but for the
\* rounding of each event.  Slices that are merged, gaps of a VM or of the watch, windows, retried
\* and failed pushes lose or double nothing.
SamplesAreBilledOnce ==
    \A k \in Keys, m \in Metrics :
        LET difference == Billed(k, m) + Pending(k, m) - metered[k][m]
        IN  0 <= difference /\ difference <= Cardinality(Events(k, m))

\* As long as no push fails every event is received in the end, also those of a batch that does
\* not fill up and those that are there when the agent stops.
EventsAreSent == []<>(Unsent = {} \/ failedPushes > 0)
=============================================================================
