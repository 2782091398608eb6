----------------------------- MODULE NodeState -----------------------------
(***************************************************************************)
(* What the scheduler plugin knows of a node and of the pods on it, and    *)
(* the operations on that (pkg/plugin/state, pkg/plugin/migration.go).     *)
(*                                                                         *)
(* A node keeps, for CPU and for memory, running sums over its pods; here  *)
(* as there each operation updates them by the difference it makes.        *)
(* Speculatively() needs no counterpart: operators return the new node and *)
(* whoever does not commit it drops it.  A method that may panic has a     *)
(* condition beside it that says when it does not.                         *)
(***************************************************************************)
EXTENDS Integers, FiniteSetsExt, Resources

CONSTANTS
    NULL,       \* Go's nil
    Pods,       \* UIDs
    Nodes,      \* names of nodes
    Attributes, \* of each pod: what its object says all its life
    ComputeUnit \* the unit that the agents scale by

(***************************************************************************)
(* state/pod.go.  A pod object is where it runs, its annotations and its   *)
(* role in a migration; the annotation of the scaling unit is set together *)
(* with the one of the requested resources.                                *)
(***************************************************************************)
PodObject == [NodeName : Nodes \union {NULL}, requested : Resources \union {NULL},
              approved : Resources \union {NULL}, role : {"none", "source", "target"}]

NonZero == [VCPU : Nat \ {0}, Mem : Nat \ {0}]

\* Nothing checks that an overcommit is not zero, and applyOvercommit divides by it.
PodAttributes == [VirtualMachine : BOOLEAN, ours : BOOLEAN, autoscaling : BOOLEAN,
                  migration : BOOLEAN, use : Resources, overcommit : NonZero, CreatedAt : Nat]

PodResources == [Reserved : Nat, Requested : Nat, Factor : Nat, Overcommit : Nat \ {0}]

Pod == [VirtualMachine : BOOLEAN, Migratable : BOOLEAN, Migrating : BOOLEAN,
        CPU : PodResources, Mem : PodResources]

Amounts(reserved, requested, factor, overcommit) ==
    [Reserved |-> reserved, Requested |-> requested, Factor |-> factor, Overcommit |-> overcommit]

podStateForNormalPod(p) ==
    LET use == Attributes[p].use
    IN  [VirtualMachine |-> FALSE, Migratable |-> FALSE, Migrating |-> FALSE,
         CPU |-> Amounts(use.VCPU, use.VCPU, 0, 1000),
         Mem |-> Amounts(use.Mem, use.Mem, 0, 1000)]

podStateForVMRunner(p, obj) ==
    LET attr == Attributes[p]
        migrating == obj.role = "source"
        approved == IF attr.autoscaling /\ obj.approved # NULL THEN obj.approved ELSE attr.use
        requested == IF attr.autoscaling /\ obj.requested # NULL THEN obj.requested ELSE attr.use
        unit == IF attr.autoscaling /\ obj.requested # NULL THEN ComputeUnit
                ELSE [VCPU |-> 0, Mem |-> 0]
    IN  [VirtualMachine |-> TRUE,
         Migratable |-> migrating \/ (obj.role # "target" /\ attr.migration),
         Migrating |-> migrating,
         CPU |-> Amounts(approved.VCPU, requested.VCPU, unit.VCPU, attr.overcommit.VCPU),
         Mem |-> Amounts(approved.Mem, requested.Mem, unit.Mem, attr.overcommit.Mem)]

PodStateFromK8sObj(p, obj) ==
    IF Attributes[p].VirtualMachine THEN podStateForVMRunner(p, obj) ELSE podStateForNormalPod(p)

ReservedOf(pod) == [VCPU |-> pod.CPU.Reserved, Mem |-> pod.Mem.Reserved]

RequestedOf(pod) == [VCPU |-> pod.CPU.Requested, Mem |-> pod.Mem.Requested]

(***************************************************************************)
(* state/node.go                                                           *)
(***************************************************************************)
NodeResources == [Total : Nat, Watermark : Nat, Reserved : Int, Committed : Int, Migrating : Int]

Node == [CPU : NodeResources, Mem : NodeResources, pods : [Pods -> Pod \union {NULL}],
         migratablePods : SUBSET Pods]

NewNodeResources(total, watermark) ==
    [Total |-> total, Watermark |-> watermark, Reserved |-> 0, Committed |-> 0, Migrating |-> 0]

NodeStateFromK8sObj(total, watermark) ==
    [CPU |-> NewNodeResources(total.VCPU, watermark.VCPU),
     Mem |-> NewNodeResources(total.Mem, watermark.Mem),
     pods |-> [p \in Pods |-> NULL],
     migratablePods |-> {}]

\* Node.Update.  Labels are for metrics only.
Update(n, new) ==
    [n EXCEPT !.CPU.Total = new.CPU.Total, !.CPU.Watermark = new.CPU.Watermark,
              !.Mem.Total = new.Mem.Total, !.Mem.Watermark = new.Mem.Watermark]

OverBudget(n) == n.CPU.Reserved > n.CPU.Total \/ n.Mem.Reserved > n.Mem.Total

applyOvercommit(value, overcommit) == (value * 1000) \div overcommit

add(r, p, migrating) ==
    LET actualReserved == applyOvercommit(p.Reserved, p.Overcommit)
    IN  [r EXCEPT !.Reserved = @ + actualReserved,
                  !.Committed = @ + p.Reserved,
                  !.Migrating = IF migrating THEN @ + actualReserved ELSE @]

removeKeepsMigrating(r, p, migrating) ==
    [r EXCEPT !.Reserved = @ - applyOvercommit(p.Reserved, p.Overcommit), !.Committed = @ - p.Reserved]

remove(r, p, migrating) ==
    LET actualReserved == applyOvercommit(p.Reserved, p.Overcommit)
    IN  [r EXCEPT !.Reserved = @ - actualReserved,
                  !.Committed = @ - p.Reserved,
                  !.Migrating = IF migrating THEN @ - actualReserved ELSE @]

HasPod(n, uid) == n.pods[uid] # NULL

\* AddPod panics if HasPod(n, uid).
AddPod(n, uid, pod) ==
    [CPU |-> add(n.CPU, pod.CPU, pod.Migrating),
     Mem |-> add(n.Mem, pod.Mem, pod.Migrating),
     pods |-> [n.pods EXCEPT ![uid] = pod],
     migratablePods |-> IF pod.Migratable THEN n.migratablePods \union {uid} ELSE n.migratablePods]

RemovePod(n, uid) ==
    IF ~HasPod(n, uid) THEN n
    ELSE [CPU |-> remove(n.CPU, n.pods[uid].CPU, n.pods[uid].Migrating),
          Mem |-> remove(n.Mem, n.pods[uid].Mem, n.pods[uid].Migrating),
          pods |-> [n.pods EXCEPT ![uid] = NULL],
          migratablePods |-> n.migratablePods \ {uid}]

CanUpdatePod(n, uid, new) == HasPod(n, uid) /\ (new.Migrating => new.Migratable)

\* UpdatePod panics unless CanUpdatePod(n, uid, new).
UpdatePod(n, uid, new) == AddPod(RemovePod(n, uid), uid, new)

\* How much more of one resource a pod gets when it has requested more.  Any increase is a
\* multiple of the factor, and is measured in what the pod sees of an overcommitted node.
Increase(r, p) ==
    LET remaining == (SubNat(r.Total, r.Reserved) * p.Overcommit) \div 1000
        maxIncrease == (remaining \div p.Factor) * p.Factor
    IN  MinNat(maxIncrease, p.Requested - p.Reserved)

\* NodeResources.reconcilePod divides by zero if Requested > Reserved and Factor = 0.
reconcilePod(r, p) ==
    [p EXCEPT !.Reserved = IF p.Requested <= p.Reserved THEN p.Requested ELSE @ + Increase(r, p)]

\* What ReconcilePodReserved leaves in the pod that it is given; whether it is done.
ReconcilePodReserved(n, pod) ==
    [pod EXCEPT !.CPU = reconcilePod(n.CPU, @), !.Mem = reconcilePod(n.Mem, @)]

DoneWithMem(pod) == pod.Mem.Reserved = pod.Mem.Requested

Done(pod) == pod.CPU.Reserved = pod.CPU.Requested /\ pod.Mem.Reserved = pod.Mem.Requested

\* UnmigratedAboveWatermark panics if there is more migrating than reserved.
UnmigratedAboveWatermark(r) == SubNat(r.Reserved - r.Migrating, r.Watermark)

(***************************************************************************)
(* migration.go                                                            *)
(***************************************************************************)
\* tmpNode with some of the pods marked as migrating
Marked(n, uids) ==
    FoldSet(LAMBDA uid, tmp : UpdatePod(tmp, uid, [tmp.pods[uid] EXCEPT !.Migrating = TRUE]),
            n, {uid \in uids : HasPod(n, uid)})

\* Marking panics if a pod that was requested to migrate cannot be migrated any more.
CanMark(n, uids) == \A uid \in uids : HasPod(n, uid) => n.pods[uid].Migratable

AboveWatermark(n) ==
    UnmigratedAboveWatermark(n.CPU) > 0 \/ UnmigratedAboveWatermark(n.Mem) > 0

BetterMigrationTargetThan(p, other) == Attributes[p].CreatedAt < Attributes[other].CreatedAt

TooBig(n, pod) == pod.CPU.Reserved > n.CPU.Watermark \/ pod.Mem.Reserved > n.Mem.Watermark

\* The pods that triggerMigrationsIfNecessary picks, the oldest first and one more as long as those
\* picked so far and those already requested leave the node above the watermark.
MigrationTargets(n, requested) ==
    LET tmpNode == Marked(n, requested)
        candidates == {p \in n.migratablePods : ~tmpNode.pods[p].Migrating
                                                /\ ~TooBig(tmpNode, tmpNode.pods[p])}
        Before(p) == {q \in candidates : BetterMigrationTargetThan(q, p)}
    IN  {p \in candidates : AboveWatermark(Marked(tmpNode, Before(p)))}

(***************************************************************************)
(* framework_methods.go: whether the pods that the scheduler proposes for  *)
(* a node, and the pod it asks about, fit on it.  Of the others, those     *)
(* that are known count as they are known, the rest as their objects say.  *)
(***************************************************************************)
filterCheck(n, uid, obj, others) ==
    LET Known(p) == IF HasPod(n, p) THEN n.pods[p] ELSE PodStateFromK8sObj(p, others[p])
        empty == [n EXCEPT !.CPU = NewNodeResources(@.Total, @.Watermark),
                           !.Mem = NewNodeResources(@.Total, @.Watermark),
                           !.pods = [p \in Pods |-> NULL]]
        tmpNode == FoldSet(LAMBDA p, tmp : AddPod(tmp, p, Known(p)), empty, DOMAIN others)
    IN  ~OverBudget(AddPod(tmpNode, uid, PodStateFromK8sObj(uid, obj)))
=============================================================================
