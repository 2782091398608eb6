---------------------------- MODULE SchedTracker ----------------------------
(***************************************************************************)
(* Which scheduler an autoscaler-agent talks to (pkg/agent/schedwatch).    *)
(*                                                                         *)
(* The tracker is the handler of a watch store: the store calls it with    *)
(* what it had of a pod and what it has now.  That is what the API server  *)
(* had at some time: a relist skips what was in between, and tells of a    *)
(* deletion only by the last object that the store had.                    *)
(***************************************************************************)
EXTENDS Naturals

CONSTANTS
    NULL,
    SchedPods,          \* UIDs of scheduler pods
    CreationTimestamp,  \* of each of them
    MaxPodChanges       \* bound: changes of pods

VARIABLES
    pod,        \* the API server's pods
    stored,     \* the watch store's
    pods,       \* schedPods.pods: its keys
    current,    \* schedPods.current
    deleted,    \* pods that were deleted: their UIDs do not come again
    changes

schedVars == <<pod, stored, pods, current, deleted, changes>>

PodStatus == [PodIP : BOOLEAN, ready : BOOLEAN]

isActivePod(p) == p.PodIP /\ p.ready

SchedInit ==
    /\ pod \in [SchedPods -> PodStatus \union {NULL}]
    /\ stored = [u \in SchedPods |-> NULL]
    /\ pods = {}
    /\ current = NULL
    /\ deleted = {}
    /\ changes = 0

PodChanges(u) ==
    /\ changes < MaxPodChanges
    /\ changes' = changes + 1
    /\ u \notin deleted
    /\ \/ /\ pod[u] # NULL
          /\ \E status \in PodStatus \ {pod[u]} : pod' = [pod EXCEPT ![u] = status]
          /\ UNCHANGED deleted
       \/ /\ pod[u] = NULL
          /\ pod' = [pod EXCEPT ![u] = [PodIP |-> FALSE, ready |-> FALSE]]
          /\ UNCHANGED deleted
       \/ /\ pod[u] # NULL
          /\ pod' = [pod EXCEPT ![u] = NULL]
          /\ deleted' = deleted \union {u}
    /\ UNCHANGED <<stored, pods, current>>

(***************************************************************************)
(* schedPods: add, remove and their reconcile                              *)
(***************************************************************************)
Newest(S) == {u \in S : \A v \in S : CreationTimestamp[v] <= CreationTimestamp[u]}

reconcileKeeps ==
    current' \in IF pods' = {} THEN {NULL} ELSE IF current # NULL THEN {current} ELSE Newest(pods')

\* The order of the map decides among the newest.
reconcile == current' \in IF pods' = {} THEN {NULL} ELSE Newest(pods')

add(u) == pods' = pods \union {u} /\ reconcile

remove(u) == pods' = pods \ {u} /\ reconcile

AddFunc(u, new) == IF isActivePod(new) THEN add(u) ELSE UNCHANGED <<pods, current>>

UpdateFunc(u, old, new) ==
    IF ~isActivePod(old) /\ isActivePod(new) THEN add(u)
    ELSE IF isActivePod(old) /\ ~isActivePod(new) THEN remove(u)
    ELSE UNCHANGED <<pods, current>>

DeleteFunc(u, old) == IF isActivePod(old) THEN remove(u) ELSE UNCHANGED <<pods, current>>

StoreAdds(u) ==
    /\ stored[u] = NULL
    /\ pod[u] # NULL
    /\ stored' = [stored EXCEPT ![u] = pod[u]]
    /\ AddFunc(u, pod[u])
    /\ UNCHANGED <<pod, deleted, changes>>

\* Of a pod that is deleted the store may still see any status, the last one with the deletion itself.
StoreUpdates(u) ==
    /\ stored[u] # NULL
    /\ \E new \in IF pod[u] = NULL THEN PodStatus ELSE {pod[u]} :
            /\ new # stored[u]
            /\ stored' = [stored EXCEPT ![u] = new]
            /\ UpdateFunc(u, stored[u], new)
    /\ UNCHANGED <<pod, deleted, changes>>

StoreDeletes(u) ==
    /\ stored[u] # NULL
    /\ pod[u] = NULL
    /\ stored' = [stored EXCEPT ![u] = NULL]
    /\ DeleteFunc(u, stored[u])
    /\ UNCHANGED <<pod, deleted, changes>>

SchedNext ==
    \E u \in SchedPods :
        PodChanges(u) \/ StoreAdds(u) \/ StoreUpdates(u) \/ StoreDeletes(u)

(***************************************************************************)
(* Properties                                                              *)
(***************************************************************************)
\* An agent sends its requests to a scheduler that is ready as far as the store knows, to the newest if
\* there are several while one takes over from another, and to none only if none is ready.
NewestReadyIsUsed ==
    LET ready == {u \in SchedPods : stored[u] # NULL /\ isActivePod(stored[u])}
    IN  IF ready = {} THEN current = NULL
        ELSE current \in {u \in ready : \A v \in ready : CreationTimestamp[v] <= CreationTimestamp[u]}
=============================================================================
