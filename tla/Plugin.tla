------------------------------- MODULE Plugin -------------------------------
(***************************************************************************)
(* The scheduler plugin: its handlers of pod, node and migration events,   *)
(* the framework methods that the scheduler calls, and the handler of the  *)
(* agents' requests (pkg/plugin), with the agents, the VM controller and   *)
(* the migration controller around it as far as the plugin sees them.      *)
(*                                                                         *)
(* Handlers get their events from the queue that WorkQueue specifies and   *)
(* ReconcileQueue implements.  An action is one critical section of        *)
(* PluginState.mu, or one call of the API between two of them.  The watch  *)
(* is up to date with the pod objects; those follow the VM objects, which  *)
(* is where annotations are written, whenever the VM controller gets to it.*)
(***************************************************************************)
EXTENDS NodeState, Functions

CONSTANTS
    Preexisting,    \* the pods that are there when the plugin starts, and where they run
    NodeTotal,      \* Allocatable of each node
    NodeWatermark,
    Wants,          \* what agents may ask for
    Changing,       \* the pods with changes of their status
    Courses,        \* bound: what may happen in one behavior: restarts, migrations' ends, deletions
    PatchRetryWait, \* whether PatchRetryWaitSeconds is not zero
    Unreliable      \* the calls that may fail, even if they are executed

ASSUME PluginAssumption ==
    /\ IsFiniteSet(Pods)
    /\ Attributes \in [Pods -> PodAttributes]
    /\ ComputeUnit \in NonZero
    /\ Preexisting \in [Pods -> Nodes \union {NULL}]
    /\ NodeTotal \in [Nodes -> Resources]
    /\ NodeWatermark \in [Nodes -> Resources]
    /\ Wants \subseteq Resources /\ Changing \subseteq Pods
    /\ Courses \subseteq SUBSET (Pods \union Nodes \union {"restart", "success", "failure"})
    /\ PatchRetryWait \in BOOLEAN /\ Unreliable \subseteq {"patch", "migrate", "request"}

nodeState == [node : Node, requestedMigrations : SUBSET Pods, podsVMPatchedAt : SUBSET Pods]

podUpdateResult == [do : {"patch", "migrate"}, desired : Pod, needsMore : BOOLEAN]

AgentRequest == [pc : {"patch", "wait"}, want : Resources, last : Resources \union {NULL}, awake : BOOLEAN]

VARIABLES
    vm,         \* the VM objects' annotations: requested and approved resources
    podObj,     \* the pod objects, as the watch store has them; NULL before and after
    born,       \* the pods that have been created
    nodeObj,    \* the node objects, as the watch store has them: none yet, present or gone
    migrations, \* the VirtualMachineMigration of a pod that the plugin created, or NULL
    moved,      \* the pods that their VM has left for the target of a migration
    dirty,      \* the queue, of pods
    busy,
    nodeDirty,  \* and of nodes: the kind of the event that waits
    after,      \* what a pod's handler does after it has released the lock (podUpdateResult)
    nodes,      \* PluginState.nodes: a NodeState, and the pods that are migrated and were patched
    tentativelyScheduled,
    startupDone,
    requeueAfterStartup,
    remaining,  \* InitEventsMiddleware.remaining
    cycle,      \* where the scheduler is with a pod
    req,        \* the request of an agent that is being handled
    permit,     \* the last permit that an agent has got
    ahead,      \* what may still happen: a restart, migrations' ends, deletions of pods and nodes
    panicked    \* something has panicked

apiVars == <<vm, podObj, born, nodeObj, migrations, moved>>
queueVars == <<dirty, busy, nodeDirty, after>>
stateVars == <<nodes, tentativelyScheduled, startupDone, requeueAfterStartup, remaining>>
agentVars == <<req, permit>>
vars == <<apiVars, queueVars, stateVars, cycle, agentVars, ahead, panicked>>

Queue == INSTANCE WorkQueue WITH Keys <- Pods, Versions <- PodObject

ASSUME NullAssumption ==
    /\ NULL \notin Nodes
    /\ NULL \notin Resources
    /\ NULL \notin PodObject
    /\ NULL \notin Pod
    /\ NULL \notin nodeState
    /\ NULL \notin podUpdateResult
    /\ NULL \notin AgentRequest
    /\ NULL \notin Queue!Change
    /\ NULL \notin Queue!EventKinds
    /\ NULL \notin {"pending", "running", "succeeded", "failed"}

NodePresent(n) == nodeObj[n] = "present"

NoCycle == [pc |-> "none", node |-> NULL]

\* NewPluginState, and the events of the initial lists
Start ==
    /\ busy' = [p \in Pods |-> NULL]
    /\ dirty' = [p \in Pods |-> IF podObj[p] = NULL THEN NULL ELSE [kind |-> "Added", obj |-> podObj[p]]]
    /\ nodeDirty' = [n \in Nodes |-> IF NodePresent(n) THEN "Added" ELSE NULL]
    /\ after' = [p \in Pods |-> NULL]
    /\ nodes' = [n \in Nodes |-> NULL]
    /\ tentativelyScheduled' = [p \in Pods |-> NULL]
    /\ startupDone' = FALSE
    /\ requeueAfterStartup' = {}
    /\ remaining' = {p \in Pods : podObj[p] # NULL} \union {n \in Nodes : NodePresent(n)}
    /\ cycle' = [p \in Pods |-> NoCycle]
    /\ req' = [p \in Pods |-> NULL]

NewPodObject(node) == [NodeName |-> node, requested |-> NULL, approved |-> NULL, role |-> "none"]

Init ==
    /\ vm = [p \in Pods |-> [requested |-> NULL, approved |-> NULL]]
    /\ podObj = [p \in Pods |-> IF Preexisting[p] = NULL THEN NULL ELSE NewPodObject(Preexisting[p])]
    /\ born = {p \in Pods : podObj[p] # NULL}
    /\ nodeObj \in [Nodes -> {"none", "present"}]
    /\ migrations = [p \in Pods |-> NULL]
    /\ moved = {}
    /\ dirty = [p \in Pods |-> IF podObj[p] = NULL THEN NULL ELSE [kind |-> "Added", obj |-> podObj[p]]]
    /\ busy = [p \in Pods |-> NULL]
    /\ nodeDirty = [n \in Nodes |-> IF NodePresent(n) THEN "Added" ELSE NULL]
    /\ after = [p \in Pods |-> NULL]
    /\ nodes = [n \in Nodes |-> NULL]
    /\ tentativelyScheduled = [p \in Pods |-> NULL]
    /\ startupDone = FALSE
    /\ requeueAfterStartup = {}
    /\ remaining = {p \in Pods : podObj[p] # NULL} \union {n \in Nodes : NodePresent(n)}
    /\ cycle = [p \in Pods |-> NoCycle]
    /\ req = [p \in Pods |-> NULL]
    /\ permit = [p \in Pods |-> NULL]
    /\ ahead \in Courses
    /\ panicked = FALSE

(***************************************************************************)
(* Events.  Every change of a pod object wakes the request that waits for  *)
(* it (Store.Listen).                                                      *)
(***************************************************************************)
Enqueued(waiting, change) == IF waiting = NULL THEN change ELSE Queue!MergeWithNewer(waiting, change)

EnqueuedNode(waiting, kind) == IF waiting = NULL THEN kind ELSE Queue!Merge(waiting, kind)

PodEvent(p, kind, obj) ==
    /\ podObj' = [podObj EXCEPT ![p] = IF kind = "Deleted" THEN NULL ELSE obj]
    /\ dirty' = [dirty EXCEPT ![p] = Enqueued(@, [kind |-> kind, obj |-> obj])]
    /\ req' = [req EXCEPT ![p] = IF @ = NULL THEN NULL ELSE [@ EXCEPT !.awake = TRUE]]
    /\ UNCHANGED <<busy, nodeDirty, after>>

PodChanges(p, obj) == podObj[p] # NULL /\ PodEvent(p, "Modified", obj)

\* A change of the pod that is not of interest here, e.g. of its status
PodStatusChanges(p) ==
    /\ p \in Changing
    /\ PodChanges(p, podObj[p])
    /\ UNCHANGED <<vm, born, nodeObj, migrations, moved, stateVars, cycle, permit, ahead, panicked>>

PodCreated(p) ==
    /\ p \notin born
    /\ born' = born \union {p}
    /\ PodEvent(p, "Added", NewPodObject(NULL))
    /\ UNCHANGED <<vm, nodeObj, migrations, moved, stateVars, cycle, permit, ahead, panicked>>

PodDeleted(p) ==
    /\ p \in ahead
    /\ podObj[p] # NULL
    /\ PodEvent(p, "Deleted", podObj[p])
    /\ UNCHANGED <<vm, born, nodeObj, migrations, moved, stateVars, cycle, permit, ahead, panicked>>

Differs(p) ==
    podObj[p] # NULL /\ p \notin moved /\ vm[p] # [requested |-> podObj[p].requested, approved |-> podObj[p].approved]

\* The VM controller makes the pod's annotations equal to the VM's.
ControllerCopies(p) ==
    /\ Differs(p)
    /\ PodChanges(p, [podObj[p] EXCEPT !.requested = vm[p].requested, !.approved = vm[p].approved])
    /\ UNCHANGED <<vm, born, nodeObj, migrations, moved, stateVars, cycle, permit, ahead, panicked>>

\* Nodes are listed before the pods: one may be missing that has pods already.
NodeAdded(n) ==
    /\ nodeObj[n] = "none"
    /\ nodeObj' = [nodeObj EXCEPT ![n] = "present"]
    /\ nodeDirty' = [nodeDirty EXCEPT ![n] = EnqueuedNode(@, "Added")]
    /\ UNCHANGED <<vm, podObj, born, migrations, moved, dirty, busy, after, stateVars, cycle, agentVars, ahead,
                   panicked>>

\* A node goes away, also with pods on it; one of its name does not come back.
NodeDeleted(n) ==
    /\ n \in ahead
    /\ NodePresent(n)
    /\ nodeObj' = [nodeObj EXCEPT ![n] = "gone"]
    /\ nodeDirty' = [nodeDirty EXCEPT ![n] = EnqueuedNode(@, "Deleted")]
    /\ UNCHANGED <<vm, podObj, born, migrations, moved, dirty, busy, after, stateVars, cycle, agentVars, ahead,
                   panicked>>

(***************************************************************************)
(* The migration controller.  A migration becomes an owner of its source,  *)
(* the pod that the VM runs in, and nothing but the end of the migration   *)
(* object ends that: the garbage collector then drops the reference.       *)
(***************************************************************************)
MigrationBegins(p) ==
    /\ migrations[p] = "pending"
    /\ migrations' = [migrations EXCEPT ![p] = "running"]
    /\ IF p \in moved THEN UNCHANGED <<podObj, dirty, busy, nodeDirty, after, req>>
       ELSE PodChanges(p, [podObj[p] EXCEPT !.role = "source"])
    /\ UNCHANGED <<vm, born, nodeObj, moved, stateVars, cycle, permit, ahead, panicked>>

\* The VM runs in the target from now on.
MigrationSucceeds(p) ==
    /\ "success" \in ahead
    /\ migrations[p] = "running"
    /\ migrations' = [migrations EXCEPT ![p] = "succeeded"]
    /\ moved' = moved \union {p}
    /\ IF p \in moved \/ podObj[p] = NULL THEN UNCHANGED <<podObj, dirty, busy, nodeDirty, after, req>>
       ELSE PodChanges(p, podObj[p])
    /\ UNCHANGED <<vm, born, nodeObj, stateVars, cycle, permit, ahead, panicked>>

\* A later reconcile, unless the migration object is gone before.
DeleteSourceRunner(p) ==
    /\ migrations[p] = "succeeded"
    /\ podObj[p] # NULL
    /\ PodEvent(p, "Deleted", podObj[p])
    /\ UNCHANGED <<vm, born, nodeObj, migrations, moved, stateVars, cycle, permit, ahead, panicked>>

MigrationFails(p) ==
    /\ "failure" \in ahead
    /\ migrations[p] \in {"pending", "running"}
    /\ migrations' = [migrations EXCEPT ![p] = "failed"]
    /\ UNCHANGED <<vm, podObj, born, nodeObj, moved, queueVars, stateVars, cycle, agentVars, ahead, panicked>>

HasDanglingOwner(p) == migrations[p] = NULL /\ podObj[p] # NULL /\ podObj[p].role = "source"

OwnerIsCollected(p) ==
    /\ HasDanglingOwner(p)
    /\ PodChanges(p, [podObj[p] EXCEPT !.role = "none"])
    /\ UNCHANGED <<vm, born, nodeObj, migrations, moved, stateVars, cycle, permit, ahead, panicked>>

(***************************************************************************)
(* HandlePodEvent.  A handler is in the queue's busy; it ends with or      *)
(* without an error, and its event is retried after an error.              *)
(***************************************************************************)
TakePod(p) ==
    /\ Queue!Take(p)
    /\ UNCHANGED <<apiVars, nodeDirty, after, stateVars, cycle, agentVars, ahead, panicked>>

Retried(p) == [dirty EXCEPT ![p] = IF @ = NULL THEN busy[p] ELSE Queue!MergeWithNewer(busy[p], @)]

HandlerReturns(p, err, retry) ==
    /\ busy' = [busy EXCEPT ![p] = NULL]
    /\ dirty' = IF retry THEN Retried(p) ELSE dirty
    /\ remaining' = IF err THEN remaining ELSE remaining \ {p}
    /\ after' = [after EXCEPT ![p] = NULL]

Succeeds(p) == HandlerReturns(p, FALSE, FALSE)

DoesNotRetry(p) == HandlerReturns(p, FALSE, FALSE)

RetriesLater(p) == HandlerReturns(p, FALSE, TRUE)

Fails(p) == HandlerReturns(p, TRUE, TRUE)

\* The handler releases the lock and goes on with an API call.
GoesOn(p, do, desired, needsMore) ==
    /\ after' = [after EXCEPT ![p] = [do |-> do, desired |-> desired, needsMore |-> needsMore]]
    /\ UNCHANGED <<dirty, busy, remaining>>

\* requeueNode
updateNodeMetricsAndRequeue(n) ==
    nodeDirty' = IF NodePresent(n) THEN [nodeDirty EXCEPT ![n] = EnqueuedNode(@, "Modified")] ELSE nodeDirty

WithDesiredReserved(pod, old) == pod

WithMaxReserved(pod, old) ==
    [pod EXCEPT !.CPU.Reserved = MaxNat(@, old.CPU.Reserved),
                !.Mem.Reserved = MaxNat(@, old.Mem.Reserved)]

\* ns is the node's entry after the pod has been updated in it.
reconcilePodResources(p, n, ns, oldPod) ==
    LET desiredPod == ReconcilePodReserved(ns.node, oldPod)
        needsMore == ~Done(desiredPod)
        newPod == WithMaxReserved(desiredPod, oldPod)
    IN  IF ~Attributes[p].autoscaling
        THEN Succeeds(p) /\ nodes' = [nodes EXCEPT ![n] = ns] /\ UNCHANGED requeueAfterStartup
        ELSE IF ~startupDone
        THEN /\ requeueAfterStartup' = requeueAfterStartup \union {p}
             /\ nodes' = [nodes EXCEPT ![n] = ns]
             /\ Succeeds(p)
        ELSE /\ UNCHANGED requeueAfterStartup
             /\ IF oldPod = desiredPod /\ busy[p].obj.approved # NULL
                THEN /\ HandlerReturns(p, needsMore, needsMore)
                     /\ nodes' = [nodes EXCEPT ![n] = ns]
                ELSE IF p \in ns.podsVMPatchedAt
                THEN /\ HandlerReturns(p, needsMore, TRUE)
                     /\ nodes' = [nodes EXCEPT ![n] = ns]
                ELSE /\ GoesOn(p, "patch", desiredPod, needsMore)
                     /\ nodes' = [nodes EXCEPT
                            ![n] = [ns EXCEPT !.node = UpdatePod(@, p, newPod),
                                              !.podsVMPatchedAt = IF PatchRetryWait THEN @ \union {p} ELSE @]]

HandlesUpdate(p) == busy[p] # NULL /\ after[p] = NULL /\ busy[p].kind \in {"Added", "Modified"}

\* logger.Panic in a handler is recovered by the queue's middleware, as an error.
HandlerPanics(p) ==
    /\ panicked' = TRUE
    /\ Fails(p)
    /\ UNCHANGED <<nodes, tentativelyScheduled, requeueAfterStartup, nodeDirty>>

updatePod(p) ==
    LET obj == busy[p].obj
        newPod == PodStateFromK8sObj(p, obj)
        tentativeNode == tentativelyScheduled[p]
        nodeName == IF obj.NodeName = NULL THEN tentativeNode ELSE obj.NodeName
        node == nodes[nodeName].node
        ns == [nodes[nodeName] EXCEPT !.node = IF HasPod(node, p) THEN UpdatePod(node, p, newPod)
                                               ELSE AddPod(node, p, newPod)]
        notRequested == [ns EXCEPT !.requestedMigrations = @ \ {p}]
    IN  /\ HandlesUpdate(p)
        /\ IF tentativeNode # NULL /\ obj.NodeName # NULL /\ tentativeNode # obj.NodeName
           THEN HandlerPanics(p)
           ELSE /\ UNCHANGED panicked
                /\ tentativelyScheduled' = [tentativelyScheduled EXCEPT
                                                ![p] = IF obj.NodeName = NULL THEN @ ELSE NULL]
                /\ IF nodeName = NULL
                   THEN Succeeds(p) /\ UNCHANGED <<nodes, requeueAfterStartup, nodeDirty>>
                   ELSE IF nodes[nodeName] = NULL
                   THEN Fails(p) /\ UNCHANGED <<nodes, requeueAfterStartup, nodeDirty>>
                   ELSE /\ updateNodeMetricsAndRequeue(nodeName)
                        /\ IF ~newPod.VirtualMachine \/ ~Attributes[p].ours
                           THEN /\ nodes' = [nodes EXCEPT ![nodeName] = ns]
                                /\ Succeeds(p)
                                /\ UNCHANGED requeueAfterStartup
                           ELSE IF newPod.Migrating
                           THEN /\ nodes' = [nodes EXCEPT ![nodeName] = notRequested]
                                /\ Succeeds(p)
                                /\ UNCHANGED requeueAfterStartup
                           ELSE IF p \in ns.requestedMigrations /\ newPod.Migratable
                           THEN /\ nodes' = [nodes EXCEPT ![nodeName] = ns]
                                /\ GoesOn(p, "migrate", newPod, FALSE)
                                /\ UNCHANGED requeueAfterStartup
                           ELSE reconcilePodResources(p, nodeName, notRequested, newPod)
        /\ UNCHANGED <<apiVars, startupDone, cycle, agentVars, ahead>>

KeptTentative(p) == tentativelyScheduled

NotTentative(p) == [tentativelyScheduled EXCEPT ![p] = NULL]

deletePod(p) ==
    LET obj == busy[p].obj
        tentativeNode == tentativelyScheduled[p]
        nodeName == IF obj.NodeName = NULL THEN tentativeNode ELSE obj.NodeName
    IN  /\ busy[p] # NULL /\ busy[p].kind \in {"Deleted", "Ephemeral"}
        /\ IF nodeName = NULL
           THEN Succeeds(p) /\ UNCHANGED <<nodes, nodeDirty, tentativelyScheduled, panicked>>
           ELSE IF nodes[nodeName] = NULL
           THEN Succeeds(p) /\ UNCHANGED <<nodes, nodeDirty, tentativelyScheduled, panicked>>
           ELSE /\ updateNodeMetricsAndRequeue(nodeName)
                /\ nodes' = [nodes EXCEPT ![nodeName] =
                                [node |-> RemovePod(@.node, p),
                                 requestedMigrations |-> @.requestedMigrations \ {p},
                                 podsVMPatchedAt |-> @.podsVMPatchedAt \ {p}]]
                /\ IF tentativeNode # NULL /\ tentativeNode # nodeName
                   THEN Fails(p) /\ panicked' = TRUE /\ UNCHANGED tentativelyScheduled
                   ELSE /\ Succeeds(p)
                        /\ tentativelyScheduled' = NotTentative(p)
                        /\ UNCHANGED panicked
        /\ UNCHANGED <<apiVars, startupDone, requeueAfterStartup, cycle, agentVars, ahead>>

(***************************************************************************)
(* What follows after the lock is released.                                *)
(***************************************************************************)
\* The tests of the JSON patch: the VM's requested resources are still those of the pod object.
PatchApplies(p) == busy[p].obj.requested # NULL => vm[p].requested = busy[p].obj.requested

Approves(p) == vm' = [vm EXCEPT ![p].approved = ReservedOf(after[p].desired)]

AfterIs(p, do) == after[p] # NULL /\ after[p].do = do

patchReservedResourcesForPod(p) ==
    /\ AfterIs(p, "patch")
    /\ \/ /\ PatchApplies(p)
          /\ Approves(p)
          /\ HandlerReturns(p, after[p].needsMore, after[p].needsMore)
       \/ /\ ~PatchApplies(p)
          /\ Fails(p)
          /\ UNCHANGED vm
       \/ /\ "patch" \in Unreliable
          /\ Fails(p)
          /\ UNCHANGED vm \/ (PatchApplies(p) /\ Approves(p))
    /\ UNCHANGED <<podObj, born, nodeObj, migrations, moved, nodeDirty, nodes, tentativelyScheduled, startupDone,
                   requeueAfterStartup, cycle, agentVars, ahead, panicked>>

\* now.Before(canRetryAt) does not hold any more.
PatchWaitIsOver(n, p) ==
    /\ nodes[n] # NULL => p \in nodes[n].podsVMPatchedAt
    /\ nodes[n] # NULL
    /\ nodes' = [nodes EXCEPT ![n].podsVMPatchedAt = @ \ {p}]
    /\ UNCHANGED <<apiVars, queueVars, tentativelyScheduled, startupDone, requeueAfterStartup, remaining,
                   cycle, agentVars, ahead, panicked>>

\* The name of the migration is that of the pod; one that is there already is not an error.
createMigrationForPod(p) ==
    /\ AfterIs(p, "migrate")
    /\ \/ /\ migrations' = [migrations EXCEPT ![p] = IF @ = NULL THEN "pending" ELSE @]
          /\ RetriesLater(p)
       \/ /\ "migrate" \in Unreliable
          /\ Fails(p)
          /\ UNCHANGED migrations
    /\ UNCHANGED <<vm, podObj, born, nodeObj, moved, nodeDirty, nodes, tentativelyScheduled, startupDone,
                   requeueAfterStartup, cycle, agentVars, ahead, panicked>>

\* HandleMigrationEvent; if the call fails, the event is retried.
deleteMigrationIfNeeded(p) ==
    /\ migrations[p] \in {"succeeded", "failed"}
    /\ migrations' = [migrations EXCEPT ![p] = NULL]
    /\ UNCHANGED <<vm, podObj, born, nodeObj, moved, queueVars, stateVars, cycle, agentVars, ahead, panicked>>

(***************************************************************************)
(* HandleNodeEvent, all of it in one critical section.                     *)
(***************************************************************************)
NodeHandled(n, err) ==
    /\ nodeDirty' = IF err THEN nodeDirty ELSE [nodeDirty EXCEPT ![n] = NULL]
    /\ remaining' = IF err THEN remaining ELSE remaining \ {n}

\* balanceNode: pods are requested to migrate in the order of their age; the first one that is not in
\* the watch store any more ends this with an error.
updateNode(n) ==
    LET entry == IF nodes[n] = NULL
                 THEN [node |-> NodeStateFromK8sObj(NodeTotal[n], NodeWatermark[n]),
                       requestedMigrations |-> {}, podsVMPatchedAt |-> {}]
                 ELSE [nodes[n] EXCEPT !.node = Update(@, NodeStateFromK8sObj(NodeTotal[n], NodeWatermark[n]))]
        targets == MigrationTargets(entry.node, entry.requestedMigrations)
        missing == {p \in targets : podObj[p] = NULL}
        requeued == {p \in targets : \A q \in missing : BetterMigrationTargetThan(p, q)}
    IN  /\ nodeDirty[n] \in {"Added", "Modified"}
        /\ IF CanMark(entry.node, entry.requestedMigrations)
           THEN /\ nodes' = [nodes EXCEPT ![n] = [entry EXCEPT !.requestedMigrations = @ \union requeued]]
                /\ dirty' = [p \in Pods |-> IF p \in requeued
                                            THEN Enqueued(dirty[p], [kind |-> "Modified", obj |-> podObj[p]])
                                            ELSE dirty[p]]
                /\ NodeHandled(n, missing # {})
                /\ UNCHANGED panicked
           ELSE /\ nodes' = [nodes EXCEPT ![n] = entry]
                /\ panicked' = TRUE
                /\ NodeHandled(n, TRUE)
                /\ UNCHANGED dirty
        /\ UNCHANGED <<apiVars, busy, after, tentativelyScheduled, startupDone, requeueAfterStartup, cycle,
                       agentVars, ahead>>

\* cleanupNode
deleteNode(n) ==
    /\ nodeDirty[n] \in {"Deleted", "Ephemeral"}
    /\ nodes' = [nodes EXCEPT ![n] = NULL]
    /\ tentativelyScheduled' = [p \in Pods |-> IF tentativelyScheduled[p] = n THEN NULL
                                               ELSE tentativelyScheduled[p]]
    /\ NodeHandled(n, FALSE)
    /\ UNCHANGED <<apiVars, dirty, busy, after, startupDone, requeueAfterStartup, cycle, agentVars,
                   ahead, panicked>>

\* The end of NewAutoscaleEnforcerPlugin
CompleteStartup ==
    /\ ~startupDone
    /\ remaining = {}
    /\ startupDone' = TRUE
    /\ requeueAfterStartup' = {}
    /\ dirty' = [p \in Pods |-> IF p \in requeueAfterStartup /\ podObj[p] # NULL
                                THEN Enqueued(dirty[p], [kind |-> "Modified", obj |-> podObj[p]])
                                ELSE dirty[p]]
    /\ UNCHANGED <<apiVars, busy, nodeDirty, after, nodes, tentativelyScheduled, remaining, cycle, agentVars,
                   ahead, panicked>>

\* The scheduler ends and Kubernetes starts it again; the agents' requests fail.
Restart ==
    /\ "restart" \in ahead
    /\ ahead' = ahead \ {"restart"}
    /\ Start
    /\ UNCHANGED <<apiVars, permit, panicked>>

(***************************************************************************)
(* The framework methods, and the scheduler that calls them for a pod:     *)
(* Filter for the nodes, Reserve for the one it picks, then it binds the   *)
(* pod or calls Unreserve.  Score and NormalizeScore only read the state.  *)
(***************************************************************************)
\* The pods of a node in the scheduler's own cache, with those it has assumed there
ProposedPods(p, n) ==
    [q \in {q \in Pods \ {p} : podObj[q] # NULL /\ (podObj[q].NodeName = n \/ cycle[q].node = n)}
        |-> podObj[q]]

Filter(p, n) ==
    /\ startupDone
    /\ cycle[p] = NoCycle
    /\ Attributes[p].ours
    /\ podObj[p] # NULL => podObj[p].NodeName = NULL
    /\ podObj[p] # NULL
    /\ nodes[n] # NULL
    /\ filterCheck(nodes[n].node, p, podObj[p], ProposedPods(p, n))
    /\ cycle' = [cycle EXCEPT ![p] = [pc |-> "filtered", node |-> n]]
    /\ UNCHANGED <<apiVars, queueVars, stateVars, agentVars, ahead, panicked>>

\* A pod that is deleted meanwhile is still reserved.
Reserve(p) ==
    LET n == cycle[p].node
        newPod == PodStateFromK8sObj(p, NewPodObject(NULL))
    IN  /\ cycle[p].pc = "filtered"
        /\ IF tentativelyScheduled[p] # NULL \/ nodes[n] = NULL
           THEN cycle' = [cycle EXCEPT ![p] = NoCycle] /\ UNCHANGED <<nodes, tentativelyScheduled, panicked>>
           ELSE IF HasPod(nodes[n].node, p)
           THEN panicked' = TRUE /\ UNCHANGED <<nodes, tentativelyScheduled, cycle>>
           ELSE /\ nodes' = [nodes EXCEPT ![n].node = AddPod(@, p, newPod)]
                /\ tentativelyScheduled' = [tentativelyScheduled EXCEPT ![p] = n]
                /\ cycle' = [cycle EXCEPT ![p].pc = "reserved"]
                /\ UNCHANGED panicked
        /\ UNCHANGED <<apiVars, queueVars, startupDone, requeueAfterStartup, remaining, agentVars, ahead>>

BindSucceeds(p) ==
    /\ cycle[p].pc = "reserved"
    /\ PodChanges(p, [podObj[p] EXCEPT !.NodeName = cycle[p].node])
    /\ cycle' = [cycle EXCEPT ![p] = NoCycle]
    /\ UNCHANGED <<vm, born, nodeObj, migrations, moved, stateVars, permit, ahead, panicked>>

KeptReserved(p, n) == nodes

Released(p, n) == [nodes EXCEPT ![n].node = RemovePod(@, p)]

Unreserve(p) ==
    LET n == cycle[p].node
    IN  /\ cycle[p].pc = "reserved"
        /\ cycle' = [cycle EXCEPT ![p] = NoCycle]
        /\ IF tentativelyScheduled[p] = NULL
           THEN UNCHANGED <<nodes, tentativelyScheduled, panicked>>
           ELSE IF tentativelyScheduled[p] # n
           THEN panicked' = TRUE /\ UNCHANGED <<nodes, tentativelyScheduled>>
           ELSE IF nodes[n] = NULL
           THEN UNCHANGED <<nodes, tentativelyScheduled, panicked>>
           ELSE IF ~HasPod(nodes[n].node, p)
           THEN panicked' = TRUE /\ UNCHANGED <<nodes, tentativelyScheduled>>
           ELSE /\ nodes' = Released(p, n)
                /\ tentativelyScheduled' = NotTentative(p)
                /\ UNCHANGED panicked
        /\ UNCHANGED <<apiVars, queueVars, startupDone, requeueAfterStartup, remaining, agentVars, ahead>>

(***************************************************************************)
(* handleAgentRequest, and the agent that makes the request.  It asks for  *)
(* what it has when it has no permit yet.                                  *)
(***************************************************************************)
CanReturn(p) == RequestedOf(PodStateFromK8sObj(p, podObj[p])) = req[p].want

Approved(p) == ReservedOf(PodStateFromK8sObj(p, podObj[p]))

ShouldReturn(p) ==
    /\ CanReturn(p)
    /\ IF req[p].last = NULL THEN podObj[p].approved # NULL
       ELSE HasFieldGreaterThan(Approved(p), req[p].last)

\* The agent gets the answer, or does not.
Responds(p, res) ==
    /\ req' = [req EXCEPT ![p] = NULL]
    /\ \/ permit' = [permit EXCEPT ![p] = res]
       \/ "request" \in Unreliable /\ UNCHANGED permit

RespondsWithError(p) == req' = [req EXCEPT ![p] = NULL] /\ UNCHANGED permit

\* The end of the handler for a request that does not ask for more than there was, else it waits.
RespondsOrWaits(p, want, last, awake) ==
    IF last # NULL /\ ~HasFieldGreaterThan(want, last)
    THEN Responds(p, want)
    ELSE /\ req' = [req EXCEPT ![p] = [pc |-> "wait", want |-> want, last |-> last, awake |-> awake]]
         /\ UNCHANGED permit

\* vmPatchForAgentRequest
Changed(p, want, last) ==
    \/ podObj[p].requested # want
    \/ last # NULL /\ podObj[p].approved # last

handleAgentRequest(p, want) ==
    /\ req[p] = NULL
    /\ podObj[p] # NULL
    /\ podObj[p].NodeName # NULL
    /\ Attributes[p].VirtualMachine /\ Attributes[p].autoscaling
    /\ permit[p] = NULL => want = Attributes[p].use
    /\ IF Changed(p, want, permit[p])
       THEN /\ req' = [req EXCEPT ![p] = [pc |-> "patch", want |-> want, last |-> permit[p], awake |-> FALSE]]
            /\ UNCHANGED permit
       ELSE RespondsOrWaits(p, want, permit[p], FALSE)
    /\ UNCHANGED <<apiVars, queueVars, stateVars, cycle, ahead, panicked>>

PatchesVM(p) ==
    vm' = [vm EXCEPT ![p] = [requested |-> req[p].want,
                             approved |-> IF req[p].last = NULL THEN @.approved ELSE req[p].last]]

ReqIs(p, pc) == req[p] # NULL /\ req[p].pc = pc

PatchForAgentRequest(p) ==
    /\ ReqIs(p, "patch")
    /\ \/ PatchesVM(p) /\ RespondsOrWaits(p, req[p].want, req[p].last, req[p].awake)
       \/ "request" \in Unreliable /\ RespondsWithError(p) /\ (PatchesVM(p) \/ UNCHANGED vm)
    /\ UNCHANGED <<podObj, born, nodeObj, migrations, moved, queueVars, stateVars, cycle, ahead, panicked>>

WaitForUpdates(p) ==
    /\ ReqIs(p, "wait")
    /\ req[p].awake
    /\ IF podObj[p] = NULL THEN RespondsWithError(p)
       ELSE IF ShouldReturn(p) THEN Responds(p, Approved(p))
       ELSE req' = [req EXCEPT ![p].awake = FALSE] /\ UNCHANGED permit
    /\ UNCHANGED <<apiVars, queueVars, stateVars, cycle, ahead, panicked>>

UpdateTimeout(p) ==
    /\ ReqIs(p, "wait")
    /\ IF podObj[p] = NULL THEN RespondsWithError(p)
       ELSE IF CanReturn(p) THEN Responds(p, Approved(p))
       ELSE RespondsWithError(p)
    /\ UNCHANGED <<apiVars, queueVars, stateVars, cycle, ahead, panicked>>

Next ==
    \/ \E p \in Pods :
          \/ PodStatusChanges(p) \/ PodCreated(p) \/ PodDeleted(p) \/ ControllerCopies(p)
          \/ MigrationBegins(p) \/ MigrationSucceeds(p) \/ MigrationFails(p)
          \/ DeleteSourceRunner(p) \/ OwnerIsCollected(p)
          \/ TakePod(p) \/ updatePod(p) \/ deletePod(p)
          \/ patchReservedResourcesForPod(p) \/ createMigrationForPod(p) \/ deleteMigrationIfNeeded(p)
          \/ \E n \in Nodes : PatchWaitIsOver(n, p) \/ Filter(p, n)
          \/ Reserve(p) \/ BindSucceeds(p) \/ Unreserve(p)
          \/ \E want \in Wants : handleAgentRequest(p, want)
          \/ PatchForAgentRequest(p) \/ WaitForUpdates(p) \/ UpdateTimeout(p)
    \/ \E n \in Nodes : NodeAdded(n) \/ NodeDeleted(n) \/ updateNode(n) \/ deleteNode(n)
    \/ CompleteStartup \/ Restart

Spec == Init /\ [][Next]_vars

(***************************************************************************)
(* Properties                                                              *)
(***************************************************************************)
\* No order of events, scheduling and requests reaches a panic of the plugin: a pod that is added
\* twice, bound to another node than the one reserved, or missing when it is unreserved.
NeverPanics == ~panicked

Nothing == Amounts(0, 0, 0, 1000)

\* The sums in r are those over res, which a pod has of one resource, and over the pods that migrate.
SumsMatchIn(r, res, migrating) ==
    LET actual == [p \in Pods |-> applyOvercommit(res[p].Reserved, res[p].Overcommit)]
    IN  /\ r.Reserved = SumFunction(actual)
        /\ r.Committed = SumFunction([p \in Pods |-> res[p].Reserved])
        /\ r.Migrating = SumFunction([p \in Pods |-> IF p \in migrating THEN actual[p] ELSE 0])

SumsMatchOn(n) ==
    LET migrating == {p \in Pods : HasPod(n, p) /\ n.pods[p].Migrating}
    IN  /\ SumsMatchIn(n.CPU, [p \in Pods |-> IF HasPod(n, p) THEN n.pods[p].CPU ELSE Nothing], migrating)
        /\ SumsMatchIn(n.Mem, [p \in Pods |-> IF HasPod(n, p) THEN n.pods[p].Mem ELSE Nothing], migrating)
        /\ n.migratablePods = {p \in Pods : HasPod(n, p) /\ n.pods[p].Migratable}

\* The running sums of a node are those of the pods on it, and its migratable pods are those that are:
\* UnmigratedAboveWatermark and MigratablePods rely on it and panic otherwise.
SumsMatch == \A name \in Nodes : nodes[name] # NULL => SumsMatchOn(nodes[name].node)

\* Nothing is on its way to the plugin that concerns the pod.
Settled(p) ==
    /\ startupDone
    /\ dirty[p] = NULL /\ busy[p] = NULL
    /\ cycle[p] = NoCycle
    /\ ~Differs(p)

\* When all that happened to a pod has been handled, the plugin counts it on the node that it runs
\* on and on no other one, and sets aside for it no less than its annotations approve: scheduling
\* that failed, deletions, patches that failed or were applied all the same, retries and restarts
\* leave no ghost of a pod and lose none.
SettledStateIsSound ==
    \A p \in Pods, n \in Nodes :
        Settled(p) /\ nodes[n] # NULL =>
            IF podObj[p] # NULL /\ podObj[p].NodeName = n
            THEN LET pod == PodStateFromK8sObj(p, podObj[p])
                 IN  /\ HasPod(nodes[n].node, p)
                     /\ ~HasFieldGreaterThan(ReservedOf(pod), ReservedOf(nodes[n].node.pods[p]))
                     /\ RequestedOf(pod) = RequestedOf(nodes[n].node.pods[p])
            ELSE ~HasPod(nodes[n].node, p)

(***************************************************************************)
(* Progress.  The queue's workers, the handlers with their API calls, the  *)
(* VM controller and the start of the plugin go on; nothing is assumed of  *)
(* the agents, of the scheduler or of who creates pods.  Each of these     *)
(* steps disables itself, so that its weak fairness is that it is disabled *)
(* again and again, which is how it is written here; updateNode does not   *)
(* have to run while it would fail.  A patch that is tried again and again *)
(* succeeds some time.                                                     *)
(***************************************************************************)
UnknownPods(n) == nodes[n] # NULL /\ \E p \in nodes[n].node.migratablePods : podObj[p] = NULL

Fairness ==
    /\ \A p \in Pods :
          /\ []<>(dirty[p] = NULL \/ busy[p] # NULL)
          /\ []<>~HandlesUpdate(p)
          /\ []<>(busy[p] = NULL \/ busy[p].kind \in {"Added", "Modified"})
          /\ []<>(after[p] = NULL)
          /\ SF_vars(patchReservedResourcesForPod(p) /\ Approves(p))
          /\ []<>~Differs(p)
          /\ []<>(\A n \in Nodes : nodes[n] # NULL => p \notin nodes[n].podsVMPatchedAt)
    /\ \A n \in Nodes :
          /\ []<>(nodeDirty[n] \notin {"Added", "Modified"} \/ UnknownPods(n))
          /\ []<>(nodeDirty[n] \notin {"Deleted", "Ephemeral"})
    /\ []<>(startupDone \/ remaining # {})

\* Events of migrations are handled, a migration that is created again and again is created some time,
\* and the scheduler brings to an end what it has begun.
SchedulingFairness ==
    \A p \in Pods :
        /\ SF_vars(createMigrationForPod(p) /\ migrations'[p] # NULL)
        /\ []<>(migrations[p] \notin {"succeeded", "failed"})
        /\ []<>~HasDanglingOwner(p)
        /\ []<>(cycle[p].pc # "reserved")

FairSpec == Spec /\ Fairness

FairSchedulingSpec == FairSpec /\ SchedulingFairness

\* A pod has requested more than is set aside for it, and there is room on its node.
CouldGetMore(p) ==
    \E n \in Nodes :
        /\ nodes[n] # NULL
        /\ LET pod == nodes[n].node.pods[p]
           IN  /\ pod # NULL
               /\ Attributes[p].autoscaling /\ pod.VirtualMachine
               /\ HasFieldGreaterThan(ReservedOf(ReconcilePodReserved(nodes[n].node, pod)), ReservedOf(pod))

\* When the agents' requests change nothing any more, every pod in the end has as much set aside for
\* it as it has asked for and the node has room for, also if room is made only later.
GrantsWhatFits ==
    <>[](\A p \in Pods : ~ReqIs(p, "patch"))
        => \A p \in Pods : <>[]~CouldGetMore(p)


\* A node that is above its watermark and has pods to migrate does not stay so without a migration of
\* one of them under way, also if earlier migrations failed or pods that were asked to migrate are gone.
PressureIsRelieved ==
    \A n \in Nodes :
        []<>(nodes[n] # NULL =>
                LET targets == MigrationTargets(nodes[n].node, {})
                IN  targets # {} => \E p \in targets : migrations[p] \in {"pending", "running"})

=============================================================================
