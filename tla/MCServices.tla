----------------------------- MODULE MCServices -----------------------------
(***************************************************************************)
(* Small instances for TLC of components that have nothing to do with each *)
(* other: the overlay network (Vxlan) and its addresses (Ipam), a VM's     *)
(* certificate (VmCerts), what is reported as failing (FailureLag), the    *)
(* connection with a vm-monitor (Dispatcher), the choice of a scheduler    *)
(* (SchedTracker), and billing with its events (Billing).  In each         *)
(* behaviour one of them runs and the others stay in their first state.    *)
(***************************************************************************)
EXTENDS Ipam, VmCerts

CONSTANTS a, b, k1

VARIABLES
    which,
    conn, ctxDone, silent, waiters, call, toMonitor, handler, failing,
    historical, present, lastCollectTime, draining, stopped, metered,
    ongoing, completed, batchComplete, sinkDone, sender, delivered, failedPushes,
    now, tracker, unfinished,
    pod, stored, pods, current, deleted, changes,
    nodes, bridge, vxlan, fdb, rules, vxlanAt, nodeIPs, nodeChanges, errors, teardowns

monitorVars == <<conn, ctxDone, silent, waiters, call, toMonitor, handler, failing>>

meteringVars == <<historical, present, lastCollectTime, draining, stopped, metered,
                  ongoing, completed, batchComplete, sinkDone, sender, delivered, failedPushes>>

trackerVars == <<now, tracker, unfinished>>

schedVars == <<pod, stored, pods, current, deleted, changes>>

vxlanVars == <<nodes, bridge, vxlan, fdb, rules, vxlanAt, nodeIPs, nodeChanges, errors, teardowns>>

\* Two VMs and an address for each, in ranges of their own: one may come again under its name.
MCIPRanges == <<{1}, {2}>>
MCMaxVersions == [v \in {a, b} |-> IF v = a THEN 4 ELSE 1]

\* Both kinds of callers; one message at a time can be answered late.
Monitor == INSTANCE Dispatcher WITH MaxUnanswered <- 1

\* A VM that is scaled, may go for a while, and comes back; batches that end amid a window.
Seen == <<{1}, {0, 2}, {1}, {2}>>

Metering == INSTANCE Billing WITH
    Keys <- {k1}, MaxTime <- 4, Seen <- [t \in 0..4 |-> IF t = 0 THEN {1} ELSE Seen[t]],
    targetBatchSize <- 3, MaxFailedPushes <- 1

\* Time enough for an object to fail, to succeed, to fail again and to be given up
Failing == INSTANCE FailureLag WITH Objects <- {a}, period <- 2, MaxTime <- 5, MaxQueue <- 2

\* A scheduler and one that takes over
Sched == INSTANCE SchedTracker WITH
    SchedPods <- {a, b}, CreationTimestamp <- [u \in {a, b} |-> IF u = a THEN 1 ELSE 2],
    MaxPodChanges <- 3

\* Another node that can be reached, and one that cannot
Overlay == INSTANCE Vxlan WITH
    at <- vxlanAt, IPv4 <- {1, 2}, IPv6 <- {4}, ownIP <- 1, MaxNodeChanges <- 2, MaxErrors <- 1,
    MaxTeardowns <- 1

Init ==
    /\ which \in {"addresses", "monitor", "metering", "certs", "failing", "sched", "overlay"}
    /\ IpamInit
    /\ Monitor!DispatcherInit
    /\ Metering!BillingInit
    /\ CertsInit
    /\ Failing!TrackerInit
    /\ Sched!SchedInit
    /\ which # "sched" => pod = [u \in {a, b} |-> NULL]
    /\ Overlay!VxlanInit

\* What does not run stays as it is.
Idle(services) ==
    /\ UNCHANGED which
    /\ "addresses" \in services => UNCHANGED addressVars
    /\ "monitor" \in services => UNCHANGED monitorVars
    /\ "metering" \in services => UNCHANGED meteringVars
    /\ "certs" \in services => UNCHANGED certVars
    /\ "failing" \in services => UNCHANGED trackerVars
    /\ "sched" \in services => UNCHANGED schedVars
    /\ "overlay" \in services => UNCHANGED vxlanVars

Others ==
    Idle({"addresses", "monitor", "metering", "certs", "failing", "sched", "overlay"} \ {which})

Next ==
    \/ which = "addresses" /\ IpamNext /\ Others
    \/ which = "monitor" /\ Monitor!DispatcherNext /\ Others
    \/ which = "metering" /\ Metering!BillingNext /\ Others
    \/ which = "certs" /\ CertsNext /\ Others
    \/ which = "failing" /\ Failing!TrackerNext /\ Others
    \/ which = "sched" /\ Sched!SchedNext /\ Others
    \/ which = "overlay" /\ Overlay!VxlanNext /\ Others

vars == <<which, addressVars, monitorVars, meteringVars, certVars, trackerVars, schedVars, vxlanVars>>

\* A vm-monitor and billing that do not run have nothing enabled that has to happen.  Of the others,
\* the fairness of their modules is that of their actions where they run.
FairSpec ==
    /\ Init /\ [][Next]_vars
    /\ Monitor!DispatcherFairness
    /\ Metering!BillingFairness
    /\ WF_vars(which = "certs" /\ Controller /\ Others)
    /\ WF_vars(which = "certs" /\ Informer /\ Others)
    /\ WF_vars(which = "certs" /\ Issue /\ Others)
    /\ WF_vars(which = "overlay" /\ Overlay!Program /\ Others)

\* Call returns the answer to its own message and leaves no waiter (Dispatcher.Call, HandleMessage).
AnswersMatchCalls == Monitor!AnswersMatchCalls

\* A vm-monitor that stops answering is disconnected (the health checks of NewDispatcher).
SilentMonitorIsDropped == Monitor!SilentMonitorIsDropped

\* Every sample is billed once (collect, drainEnqueue, the event batcher and its sender).
SamplesAreBilledOnce == Metering!SamplesAreBilledOnce

\* A VM gets its certificates, unless a request is left over (certs.go).
VmGetsCertificates == which = "certs" => CertificateIsProvided

\* A tracker reports exactly the objects that fail (failurelag.Tracker).
DegradedIsExact == Failing!DegradedIsExact

\* The newest ready scheduler is used (schedPods.reconcile and the handlers that call it).
NewestReadyIsUsed == Sched!NewestReadyIsUsed

\* The overlay forms, unless a link was left half made (neonvm-vxlan-controller).
OverlayForms == which = "overlay" => Overlay!OverlayForms

\* Events are received in the end unless a push fails (senderLoop).
EventsAreSent == Metering!EventsAreSent
=============================================================================
