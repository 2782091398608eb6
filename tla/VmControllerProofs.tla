------------------------- MODULE VmControllerProofs -------------------------
(***************************************************************************)
(* The VM controller never lets a second guest run, for any number of pods *)
(* and any number of failures, restarts, deletions and changes, as long as *)
(* nobody migrates the VM.                                                 *)
(***************************************************************************)
EXTENDS VmMigration, FiniteSetTheorems, TLAPS

\* Nobody creates a migration.
NoMigrations == \A w \in Worlds : w.left.migrations = 0

(***************************************************************************)
(* The invariant.  A pod that may still start a guest (with AtMostOnePod,  *)
(* any pod) has the name that the VM has on the API server: Owned.  What   *)
(* keeps that is how far the cache lags: a copy that says a runner is to   *)
(* be created again names the one that the VM still has (Lag).             *)
(***************************************************************************)
VmFields == {"exists", "deleting", "finalizer", "mode", "rev", "Phase", "PodName", "using", "current",
             "RestartCount"}

PodFields == {"phase", "deleting", "controller", "owners", "usage", "cpu", "cores", "memReq", "mem", "guest",
              "qmig"}

IsVM(v) == DOMAIN v = VmFields /\ v.PodName \in PodNames \union {NULL}

IsPod(pod) == DOMAIN pod = PodFields

PodsTyped ==
    /\ DOMAIN pods = PodNames
    /\ \A p \in PodNames : PodExists(p) => IsPod(pods[p]) /\ pods[p].qmig = "none"

Unmigrated ==
    /\ left \in Budgets
    /\ left.migrations = 0
    /\ mig = [m \in Migrations |-> NULL] /\ cmig = mig

Owned ==
    \A p \in PodNames : PodExists(p) /\ (pods[p].deleting = "no" \/ config.AtMostOnePod) => p = vm.PodName

Lag ==
    /\ IsVM(vm) /\ IsVM(cvm) /\ vmFresh \in BOOLEAN
    /\ vmFresh => cvm = vm
    /\ cvm.Phase = "Pending" /\ cvm.PodName # NULL => vm.PodName = cvm.PodName

VmInv == Unmigrated /\ PodsTyped /\ Lag /\ Owned

(***************************************************************************)
(* The steps, as far as the invariant is concerned.                        *)
(***************************************************************************)
\* pod may become new: what is deleted stays so, and nobody migrates.
Keeps(pod, new) ==
    /\ IsPod(new) /\ new.qmig = pod.qmig
    /\ new.deleting = "no" => pod.deleting = "no"

\* No pod is created, and none comes back.
PodsKept ==
    /\ DOMAIN pods' = PodNames
    /\ \A p \in PodNames : PodExists(p)' => PodExists(p) /\ Keeps(pods[p], pods'[p])

\* The VM keeps its pod, and the cached copy stays or is renewed.
NameKept ==
    /\ IsVM(vm') /\ vm'.PodName = vm.PodName
    /\ cvm' = cvm \/ (cvm' = vm /\ vm' = vm)
    /\ vmFresh' \in BOOLEAN
    /\ vmFresh' => cvm' = vm'

MigrationsKept == left' \in Budgets /\ left'.migrations = 0 /\ UNCHANGED <<mig, cmig>> /\ config' = config

LEMMA KeepsSame ==
    ASSUME PodsTyped, NEW p \in PodNames, PodExists(p)
    PROVE  Keeps(pods[p], pods[p])
BY DEF PodsTyped, Keeps

\* A step in which at most one pod changes
LEMMA OnePodDiffers ==
    ASSUME PodsTyped, NEW p \in PodNames, PodExists(p),
           DOMAIN pods' = PodNames,
           \A q \in PodNames : q # p => pods'[q] = pods[q],
           pods'[p] \in {NULL, Gone} \/ Keeps(pods[p], pods'[p])
    PROVE  PodsKept
<1>1. ASSUME NEW q \in PodNames, PodExists(q)'
      PROVE  PodExists(q) /\ Keeps(pods[q], pods'[q])
  <2>1. CASE q = p
    BY <1>1, <2>1 DEF PodExists
  <2>2. CASE q # p
    BY <1>1, <2>2, KeepsSame DEF PodExists
  <2>. QED
    BY <2>1, <2>2
<1>. QED
  BY <1>1 DEF PodsKept

LEMMA OnePodChanges ==
    ASSUME PodsTyped, NEW p \in PodNames, PodExists(p), NEW new,
           new \in {NULL, Gone} \/ Keeps(pods[p], new),
           pods' = [pods EXCEPT ![p] = new]
    PROVE  PodsKept
<1>1. DOMAIN pods' = PodNames /\ pods'[p] = new /\ \A q \in PodNames : q # p => pods'[q] = pods[q]
  BY DEF PodsTyped
<1>. QED
  BY <1>1, OnePodDiffers

LEMMA NoPodChanges ==
    ASSUME PodsTyped, pods' = pods
    PROVE  PodsKept
BY KeepsSame DEF PodsTyped, PodsKept, PodExists

LEMMA KeptStep ==
    ASSUME VmInv, PodsKept, NameKept, MigrationsKept
    PROVE  VmInv'
<1>1. Unmigrated'
  BY DEF VmInv, Unmigrated, MigrationsKept
<1>2. PodsTyped'
  BY DEF VmInv, PodsTyped, PodsKept, Keeps
<1>3. Lag'
  BY DEF VmInv, Lag, NameKept
<1>4. Owned'
  BY DEF VmInv, Owned, PodsKept, Keeps, NameKept, MigrationsKept
<1>. QED
  BY <1>1, <1>2, <1>3, <1>4 DEF VmInv

\* A write of the VM with the cached copy's version, refused or not
LEMMA WriteKeepsName ==
    ASSUME Lag, NEW new, IsVM(new), new.PodName = cvm.PodName,
           vm' = vm \/ (vmFresh /\ vm' = new),
           vmFresh' = (vmFresh /\ vm' = vm),
           cvm' = cvm
    PROVE  NameKept
BY DEF Lag, NameKept

LEMMA VmUnchanged ==
    ASSUME Lag, UNCHANGED vmVars
    PROVE  NameKept
BY DEF Lag, NameKept, vmVars

\* What the end of a reconcile adds to the status keeps the pod.
LEMMA FinishKeepsName ==
    ASSUME Lag, NEW v, IsVM(v), v.PodName = cvm.PodName,
           NEW new, new = IF v.Phase = "Running" THEN propagateRevision(v) ELSE v,
           vm' = vm \/ (vmFresh /\ vm' = new),
           vmFresh' = (vmFresh /\ vm' = vm),
           cvm' = cvm
    PROVE  NameKept
<1>1. IsVM(propagateRevision(v)) /\ propagateRevision(v).PodName = v.PodName
  BY DEF propagateRevision, IsVM, VmFields
<1>2. IsVM(new) /\ new.PodName = cvm.PodName
  BY <1>1
<1>. QED
  BY <1>2, WriteKeepsName

\* The metadata of a pod changes neither its deletion nor its guest.
LEMMA MetadataKept ==
    ASSUME PodsTyped, NEW p \in PodNames \union {NULL}, NEW ok \in BOOLEAN,
           pods' = updatePodMetadataIfNecessary(p, ok)
    PROVE  PodsKept
<1>1. CASE PodExists(p) /\ ok
  <2>1. p \in PodNames /\ pods' = [pods EXCEPT ![p] = [pods[p] EXCEPT !.usage = cvm.rev]]
    BY <1>1 DEF updatePodMetadataIfNecessary, PodExists
  <2>2. Keeps(pods[p], [pods[p] EXCEPT !.usage = cvm.rev])
    BY <1>1, <2>1 DEF PodsTyped, IsPod, PodFields, Keeps
  <2>. QED
    BY <1>1, <2>1, <2>2, OnePodChanges
<1>2. CASE ~(PodExists(p) /\ ok)
  BY <1>2, NoPodChanges DEF updatePodMetadataIfNecessary
<1>. QED
  BY <1>1, <1>2

(***************************************************************************)
(* The reconcile of a VM.                                                  *)
(***************************************************************************)
LEMMA SimpleWrites ==
    ASSUME VmInv, NEW n \in Nat, AddFinalizer(n) \/ Finalize(n) \/ SetDefaults(n) \/ Created(n)
    PROVE  PodsKept /\ NameKept
<1>1. PodsKept
  BY NoPodChanges DEF VmInv, AddFinalizer, Finalize, SetDefaults, Created
<1>2. CASE AddFinalizer(n)
  <2> DEFINE new == [cvm EXCEPT !.finalizer = TRUE]
  <2>1. IsVM(new) /\ new.PodName = cvm.PodName
    BY DEF VmInv, Lag, IsVM, VmFields
  <2>. QED
    BY <1>1, <1>2, <2>1, WriteKeepsName DEF VmInv, AddFinalizer, UpdateVM
<1>3. CASE Finalize(n)
  <2> DEFINE new == [cvm EXCEPT !.finalizer = FALSE, !.exists = FALSE]
  <2>1. IsVM(new) /\ new.PodName = cvm.PodName
    BY DEF VmInv, Lag, IsVM, VmFields
  <2>. QED
    BY <1>1, <1>3, <2>1, WriteKeepsName DEF VmInv, Finalize, UpdateVM
<1>4. CASE SetDefaults(n)
  <2> DEFINE new == [cvm EXCEPT !.mode = config.DefaultCPUScalingMode]
  <2>1. IsVM(new) /\ new.PodName = cvm.PodName
    BY DEF VmInv, Lag, IsVM, VmFields
  <2>. QED
    BY <1>1, <1>4, <2>1, WriteKeepsName DEF VmInv, SetDefaults, UpdateVM
<1>5. CASE Created(n)
  <2> DEFINE new == [cvm EXCEPT !.Phase = "Pending"]
  <2>1. IsVM(new) /\ new.PodName = cvm.PodName
    BY DEF VmInv, Lag, IsVM, VmFields
  <2>. QED
    BY <1>1, <1>5, <2>1, FinishKeepsName DEF VmInv, Created, Finish, UpdateVM
<1>. QED
  BY <1>1, <1>2, <1>3, <1>4, <1>5

LEMMA AwaitRunnerKeeps ==
    ASSUME VmInv, NEW n \in Nat, NEW soft \in BOOLEAN, AwaitRunner(n, soft)
    PROVE  PodsKept /\ NameKept
<1>1. PodsKept
  BY MetadataKept DEF VmInv, Lag, IsVM, AwaitRunner
<1> DEFINE status == runnerStatus(pods[cvm.PodName], cvm.mode)
           new == [cvm EXCEPT !.Phase = IF status = "Pending" THEN @ ELSE status]
<1>2. Finish(n >= 1, new)
  BY DEF AwaitRunner
<1>3. IsVM(new) /\ new.PodName = cvm.PodName
  BY DEF VmInv, Lag, IsVM, VmFields
<1>. HIDE DEF new
<1>4. NameKept
  BY <1>2, <1>3, FinishKeepsName DEF VmInv, Finish, UpdateVM
<1>. QED
  BY <1>1, <1>4

LEMMA CheckRunnerKeeps ==
    ASSUME VmInv, NEW n \in Nat, NEW soft \in BOOLEAN, CheckRunner(n, soft)
    PROVE  PodsKept /\ NameKept
<1>1. PodsKept
  BY MetadataKept DEF VmInv, Lag, IsVM, CheckRunner
<1> DEFINE pod == PodOf(cvm.PodName)
           checked == [cvm EXCEPT !.using = [CPU |-> UsingCPU(pod, cvm.mode), Mem |-> pod.mem],
                                  !.Phase = IF IsScaled(cvm, pod) THEN @ ELSE "Scaling"]
           WithPhase(phase) == [cvm EXCEPT !.Phase = phase]
<1>2. \/ \E phase \in {"Failed", runnerStatus(pod, cvm.mode)} : Finish(n >= 1, WithPhase(phase))
      \/ Finish(n >= 1, cvm)
      \/ Finish(n >= 1, checked)
      \/ UNCHANGED vmVars
  BY DEF CheckRunner
<1>3. \A phase : IsVM(WithPhase(phase)) /\ WithPhase(phase).PodName = cvm.PodName
  BY DEF VmInv, Lag, IsVM, VmFields
<1>4. IsVM(checked) /\ checked.PodName = cvm.PodName
  BY DEF VmInv, Lag, IsVM, VmFields
<1>5. IsVM(cvm)
  BY DEF VmInv, Lag
<1>. HIDE DEF checked, WithPhase
<1>6. CASE \E phase \in {"Failed", runnerStatus(pod, cvm.mode)} : Finish(n >= 1, WithPhase(phase))
  BY <1>1, <1>3, <1>6, FinishKeepsName DEF VmInv, Finish, UpdateVM
<1>7. CASE Finish(n >= 1, cvm)
  BY <1>1, <1>5, <1>7, FinishKeepsName DEF VmInv, Finish, UpdateVM
<1>8. CASE Finish(n >= 1, checked)
  BY <1>1, <1>4, <1>8, FinishKeepsName DEF VmInv, Finish, UpdateVM
<1>9. CASE UNCHANGED vmVars
  BY <1>1, <1>9, VmUnchanged DEF VmInv
<1>. QED
  BY <1>2, <1>6, <1>7, <1>8, <1>9

\* Whatever the runner makes of a request for CPUs, it changes only these.
LEMMA LimitsKeep ==
    ASSUME NEW pod, IsPod(pod), NEW mode, NEW cpu, NEW n \in Nat,
           NEW r \in setRunnerCPULimits(pod, mode, cpu, n >= 1)
    PROVE  Keeps(pod, r.pod)
<1>1. \A c : Keeps(pod, [pod EXCEPT !.cpu = c])
  BY DEF IsPod, PodFields, Keeps
<1>2. Keeps(pod, pod)
  BY DEF Keeps
<1>3. CASE mode = "QMP"
  BY <1>1, <1>2, <1>3 DEF setRunnerCPULimits
<1>4. CASE mode # "QMP"
  <2> DEFINE Answer(s) == [pod |-> [pod EXCEPT !.cores = s.cores, !.cpu = IF s.err THEN @ ELSE cpu],
                           err |-> s.err]
  <2>1. r \in {Answer(s) : s \in ReconcileOnlineCPU(pod.cores, RoundedUp(cpu), n >= 1)}
    BY <1>4 DEF setRunnerCPULimits
  <2>2. \A s : Keeps(pod, Answer(s).pod)
    BY DEF IsPod, PodFields, Keeps
  <2>. HIDE DEF Answer
  <2>. QED
    BY <2>1, <2>2
<1>. QED
  BY <1>3, <1>4

LEMMA ScalingKeeps ==
    ASSUME NEW pod, IsPod(pod), NEW v, NEW n \in Nat, NEW soft \in BOOLEAN,
           NEW r \in ScaleCPUs(pod, v, n >= 1, soft)
    PROVE  Keeps(pod, r.pod)
<1> DEFINE limits == setRunnerCPULimits(pod, v.mode, Guests[v.rev].CPU, n >= 1)
<1>1. \/ r.pod \in {pod, QmpPlugCpu(pod)} \union QmpUnplugCpu(pod, ~soft)
      \/ \E s \in limits : r.pod = s.pod
  BY DEF ScaleCPUs
<1>2. \A new \in {pod, QmpPlugCpu(pod)} \union QmpUnplugCpu(pod, ~soft) : Keeps(pod, new)
  BY DEF QmpPlugCpu, QmpUnplugCpu, IsPod, PodFields, Keeps
<1>3. \A s \in limits : Keeps(pod, s.pod)
  BY LimitsKeep
<1>. QED
  BY <1>1, <1>2, <1>3

LEMMA ScaleRunnerKeeps ==
    ASSUME VmInv, NEW n \in Nat, NEW soft \in BOOLEAN, ScaleRunner(n, soft)
    PROVE  PodsKept /\ NameKept
<1> DEFINE p == cvm.PodName
           patched == updatePodMetadataIfNecessary(p, soft)
           status == runnerStatus(PodOf(p), cvm.mode)
           goal == Guests[cvm.rev].Mem
           Memory(r) == ~r.err /\ n >= 2
           Scaled(r) == [cvm EXCEPT !.using = [CPU |-> r.using, Mem |-> r.pod.mem],
                                    !.Phase = IF r.scaled /\ doVirtioMemScaling(r.pod, goal).done
                                              THEN "Running" ELSE @]
           Ended == [cvm EXCEPT !.Phase = status]
<1>0. PodsTyped /\ Lag /\ p \in PodNames \union {NULL}
  BY DEF VmInv, Lag, IsVM
<1>1. \/ pods' = patched /\ Finish(n >= 1, Ended)
      \/ pods' = patched /\ UNCHANGED vmVars
      \/ /\ RunnerAnswers(PodOf(p), cvm.mode)
         /\ \E r \in ScaleCPUs(patched[p], cvm, n >= 1, soft) :
               /\ pods' = [patched EXCEPT ![p] = IF Memory(r) THEN doVirtioMemScaling(r.pod, goal).pod ELSE r.pod]
               /\ Finish(Memory(r) /\ n >= 3, Scaled(r))
  BY DEF ScaleRunner
<1>2. IsVM(Ended) /\ Ended.PodName = cvm.PodName
  BY <1>0 DEF Lag, IsVM, VmFields
<1>3. \A r : IsVM(Scaled(r)) /\ Scaled(r).PodName = cvm.PodName
  BY <1>0 DEF Lag, IsVM, VmFields
<1>. HIDE DEF Ended, Scaled
<1>4. CASE pods' = patched /\ Finish(n >= 1, Ended)
  <2>1. PodsKept
    BY <1>0, <1>4, MetadataKept
  <2>. QED
    BY <1>0, <1>2, <1>4, <2>1, FinishKeepsName DEF Finish, UpdateVM
<1>5. CASE pods' = patched /\ UNCHANGED vmVars
  BY <1>0, <1>5, MetadataKept, VmUnchanged
<1>6. ASSUME RunnerAnswers(PodOf(p), cvm.mode),
             NEW r \in ScaleCPUs(patched[p], cvm, n >= 1, soft),
             pods' = [patched EXCEPT ![p] = IF Memory(r) THEN doVirtioMemScaling(r.pod, goal).pod ELSE r.pod],
             Finish(Memory(r) /\ n >= 3, Scaled(r))
      PROVE  PodsKept /\ NameKept
  <2>1. p \in PodNames /\ PodExists(p)
    BY <1>0, <1>6 DEF RunnerAnswers, QmpAnswers, PodOf, PodExists
  <2>2. /\ DOMAIN patched = PodNames
        /\ \A q \in PodNames : q # p => patched[q] = pods[q]
        /\ Keeps(pods[p], patched[p])
    BY <1>0, <2>1, KeepsSame DEF updatePodMetadataIfNecessary, PodsTyped, IsPod, PodFields, Keeps
  <2>3. Keeps(patched[p], r.pod)
    BY <1>6, <2>2, ScalingKeeps DEF Keeps
  <2>4. Keeps(r.pod, doVirtioMemScaling(r.pod, goal).pod)
    BY <2>3 DEF doVirtioMemScaling, QmpSetVirtioMem, Keeps, IsPod, PodFields
  <2>5. pods'[p] = doVirtioMemScaling(r.pod, goal).pod \/ pods'[p] = r.pod
    BY <1>6, <2>1, <2>2
  <2>6. DOMAIN pods' = PodNames /\ \A q \in PodNames : q # p => pods'[q] = pods[q]
    BY <1>6, <2>1, <2>2
  <2>7. Keeps(pods[p], pods'[p])
    BY <2>2, <2>3, <2>4, <2>5 DEF Keeps
  <2>8. PodsKept
    BY <1>0, <2>1, <2>6, <2>7, OnePodDiffers
  <2>9. NameKept
    BY <1>0, <1>3, <1>6, FinishKeepsName DEF Finish, UpdateVM
  <2>. QED
    BY <2>8, <2>9
<1>. QED
  BY <1>1, <1>4, <1>5, <1>6

\* Creating the pod that the VM names, when no other may start a guest
LEMMA CreateStep ==
    ASSUME VmInv, MigrationsKept, Lag', NEW name \in PodNames, vm'.PodName = name,
           \A p \in PodNames : PodExists(p) /\ (pods[p].deleting = "no" \/ config.AtMostOnePod) => p = name,
           pods' = pods \/ pods' = [pods EXCEPT ![name] = podSpec(cvm.rev)]
    PROVE  VmInv'
<1>1. Unmigrated'
  BY DEF VmInv, Unmigrated, MigrationsKept
<1>2. CASE pods' = pods
  BY <1>1, <1>2 DEF VmInv, PodsTyped, Owned, PodExists, MigrationsKept
<1>3. CASE pods' = [pods EXCEPT ![name] = podSpec(cvm.rev)]
  <2>1. /\ DOMAIN pods' = PodNames /\ pods'[name] = podSpec(cvm.rev)
        /\ \A p \in PodNames : p # name => pods'[p] = pods[p]
    BY <1>3 DEF VmInv, PodsTyped
  <2>2. IsPod(podSpec(cvm.rev)) /\ podSpec(cvm.rev).qmig = "none"
    BY DEF podSpec, IsPod, PodFields
  <2>3. PodsTyped'
    BY <2>1, <2>2 DEF VmInv, PodsTyped, PodExists
  <2>4. Owned'
    BY <2>1 DEF Owned, PodExists, MigrationsKept
  <2>. QED
    BY <1>1, <2>3, <2>4 DEF VmInv
<1>. QED
  BY <1>2, <1>3

LEMMA NameRunnerStep ==
    ASSUME VmInv, MigrationsKept, NEW n \in Nat, NEW taken, NameRunner(n, taken)
    PROVE  VmInv'
<1> DEFINE name == NewName(taken)
           new == [cvm EXCEPT !.PodName = name]
<1>1. name \in PodNames
  BY DEF NameRunner, HasNewName, NewName
<1>2. cvm.Phase = "Pending" /\ cvm.PodName = NULL /\ UpdateVM(n >= 1, new)
  BY DEF NameRunner
<1>3. IsVM(new) /\ new.PodName = name
  BY <1>1 DEF VmInv, Lag, IsVM, VmFields
<1>4. CASE n >= 1 /\ vmFresh
  <2>1. CreateRunner(n - 1, name)
    BY <1>4 DEF NameRunner
  <2>. HIDE DEF name, new
  <2>2. vm' = new /\ cvm' = cvm /\ vm.PodName = NULL
    BY <1>2, <1>4 DEF UpdateVM, VmInv, Lag
  <2>3. vmFresh' = FALSE
    BY <1>1, <1>2, <1>3, <1>4, <2>2, WorldsAssumption DEF UpdateVM
  <2>4. Lag'
    BY <1>2, <1>3, <2>2, <2>3 DEF VmInv, Lag
  <2>5. \A p \in PodNames : ~(PodExists(p) /\ (pods[p].deleting = "no" \/ config.AtMostOnePod))
    BY <2>2, WorldsAssumption DEF VmInv, Owned
  <2>6. pods' = pods \/ pods' = [pods EXCEPT ![name] = podSpec(cvm.rev)]
    BY <2>1 DEF CreateRunner
  <2>. QED
    BY <1>1, <1>3, <2>2, <2>4, <2>5, <2>6, CreateStep
<1>5. CASE ~(n >= 1 /\ vmFresh)
  <2>1. pods' = pods
    BY <1>5 DEF NameRunner
  <2>2. UNCHANGED vmVars
    BY <1>2, <1>5 DEF UpdateVM, vmVars, VmInv, Lag
  <2>. QED
    BY <2>1, <2>2, NoPodChanges, VmUnchanged, KeptStep DEF VmInv
<1>. QED
  BY <1>4, <1>5

LEMMA RecreateRunnerStep ==
    ASSUME VmInv, MigrationsKept, NEW n \in Nat, RecreateRunner(n)
    PROVE  VmInv'
<1>1. cvm.Phase = "Pending" /\ cvm.PodName # NULL /\ UNCHANGED vmVars
  BY DEF RecreateRunner
<1>2. cvm.PodName \in PodNames /\ vm'.PodName = cvm.PodName
  BY <1>1 DEF VmInv, Lag, IsVM, vmVars
<1>3. Lag'
  BY <1>1 DEF VmInv, Lag, IsVM, vmVars
<1>4. pods' = pods \/ pods' = [pods EXCEPT ![cvm.PodName] = podSpec(cvm.rev)]
  BY DEF RecreateRunner, CreateRunner
<1>5. \A p \in PodNames : PodExists(p) /\ (pods[p].deleting = "no" \/ config.AtMostOnePod) => p = cvm.PodName
  BY <1>1, <1>2 DEF VmInv, Owned, vmVars
<1>. QED
  BY <1>2, <1>3, <1>4, <1>5, CreateStep

\* A pod that is deleted starts no guest any more.
LEMMA DeletedKeeps ==
    ASSUME PodsTyped, NEW p \in PodNames, PodExists(p)
    PROVE  /\ DOMAIN Deleted(p) = PodNames
           /\ Keeps(pods[p], Deleted(p)[p]) /\ Deleted(p)[p].deleting # "no"
           /\ \A q \in PodNames : q # p => Deleted(p)[q] = pods[q]
<1> DEFINE new == [pods[p] EXCEPT !.deleting = IF @ = "no" THEN "yes" ELSE @]
<1>1. Keeps(pods[p], new) /\ new.deleting # "no"
  BY DEF PodsTyped, IsPod, PodFields, Keeps
<1>2. Deleted(p) = [pods EXCEPT ![p] = new]
  BY DEF Deleted
<1>. HIDE DEF new
<1>. QED
  BY <1>1, <1>2 DEF PodsTyped

\* The VM lets go of a pod that cannot start a guest, and is not there with AtMostOnePod.
LEMMA ReleaseStep ==
    ASSUME VmInv, MigrationsKept, PodsKept, cvm.Phase \in {"Succeeded", "Failed"},
           NEW new, IsVM(new),
           \A p \in PodNames : PodExists(p)' /\ (pods'[p].deleting = "no" \/ config.AtMostOnePod) => p # cvm.PodName,
           vm' = vm \/ (vmFresh /\ vm' = new),
           vmFresh' = (vmFresh /\ vm' = vm),
           cvm' = cvm
    PROVE  VmInv'
<1>1. CASE vm' = vm
  <2>1. NameKept
    BY <1>1 DEF VmInv, Lag, NameKept
  <2>. QED
    BY <2>1, KeptStep
<1>2. CASE vm' # vm
  <2>1. vm' = new /\ cvm = vm /\ vmFresh' = FALSE
    BY <1>2 DEF VmInv, Lag
  <2>2. Unmigrated' /\ PodsTyped'
    BY DEF VmInv, Unmigrated, MigrationsKept, PodsTyped, PodsKept, Keeps
  <2>3. Lag'
    BY <2>1 DEF VmInv, Lag
  <2>4. Owned'
    BY <2>1 DEF VmInv, Owned, PodsKept, Keeps, MigrationsKept
  <2>. QED
    BY <2>2, <2>3, <2>4 DEF VmInv
<1>. QED
  BY <1>1, <1>2

LEMMA DeleteRunnerStep ==
    ASSUME VmInv, MigrationsKept, NEW n \in Nat, DeleteRunner(n)
    PROVE  VmInv'
<1> DEFINE p == cvm.PodName
           new == IF Restarted(cvm).Phase = "Running" THEN propagateRevision(Restarted(cvm)) ELSE Restarted(cvm)
<1>0. PodsTyped /\ p \in PodNames \union {NULL} /\ cvm.Phase \in {"Succeeded", "Failed"}
  BY DEF VmInv, Lag, IsVM, DeleteRunner
<1>1. IsVM(new)
  BY DEF VmInv, Lag, IsVM, VmFields, Restarted, Cleanup, propagateRevision
<1>2. CASE PodExists(p) /\ pods[p].owners # {}
  <2>1. p \in PodNames /\ UNCHANGED vmVars
    BY <1>0, <1>2 DEF DeleteRunner, PodExists
  <2>2. \/ pods' = [Deleted(p) EXCEPT ![p].owners = {}, ![p].controller = "none"]
        \/ pods' = Deleted(p)
        \/ pods' = pods
    BY <1>2 DEF DeleteRunner
  <2>3. DOMAIN pods' = PodNames /\ \A q \in PodNames : q # p => pods'[q] = pods[q]
    BY <1>0, <1>2, <2>1, <2>2, DeletedKeeps DEF PodsTyped
  <2>4. Keeps(Deleted(p)[p], [Deleted(p)[p] EXCEPT !.owners = {}, !.controller = "none"])
    BY <1>0, <1>2, <2>1, DeletedKeeps DEF Keeps, IsPod, PodFields
  <2>5. CASE pods' = [Deleted(p) EXCEPT ![p].owners = {}, ![p].controller = "none"]
    <3> DEFINE d == Deleted(p)
               e == [d EXCEPT ![p] = [d[p] EXCEPT !.owners = {}]]
    <3>1. pods'[p] = [d[p] EXCEPT !.owners = {}, !.controller = "none"]
      <4>1. DOMAIN d = PodNames
        BY <1>0, <1>2, <2>1, DeletedKeeps
      <4>2. pods' = [e EXCEPT ![p] = [e[p] EXCEPT !.controller = "none"]]
        BY <2>5
      <4>. HIDE DEF d
      <4>3. e[p] = [d[p] EXCEPT !.owners = {}] /\ DOMAIN e = PodNames
        BY <2>1, <4>1
      <4>. QED
        BY <2>1, <4>2, <4>3
    <3>2. Keeps(d[p], pods'[p])
      BY <2>4, <3>1
    <3>3. Keeps(pods[p], d[p])
      BY <1>0, <1>2, <2>1, DeletedKeeps
    <3>. HIDE DEF d
    <3>4. Keeps(pods[p], pods'[p])
      BY <3>2, <3>3 DEF Keeps
    <3>. QED
      BY <1>0, <1>2, <2>1, <2>3, <3>4, OnePodDiffers, VmUnchanged, KeptStep DEF VmInv
  <2>6. CASE pods' = Deleted(p) \/ pods' = pods
    <3>1. Keeps(pods[p], pods'[p])
      BY <1>0, <1>2, <2>1, <2>6, DeletedKeeps, KeepsSame
    <3>. QED
      BY <1>0, <1>2, <2>1, <2>3, <3>1, OnePodDiffers, VmUnchanged, KeptStep DEF VmInv
  <2>. QED
    BY <2>2, <2>5, <2>6
<1>3. CASE PodExists(p) /\ pods[p].owners = {}
  <2>1. p \in PodNames /\ pods' = IF n >= 1 THEN Deleted(p) ELSE pods
    BY <1>0, <1>3 DEF DeleteRunner, PodExists
  <2>2. DOMAIN pods' = PodNames /\ \A q \in PodNames : q # p => pods'[q] = pods[q]
    BY <1>0, <1>3, <2>1, DeletedKeeps DEF PodsTyped
  <2>3. Keeps(pods[p], pods'[p])
    BY <1>0, <1>3, <2>1, DeletedKeeps, KeepsSame
  <2>4. PodsKept
    BY <1>0, <1>3, <2>1, <2>2, <2>3, OnePodDiffers
  <2>5. CASE n >= 1 /\ MayProceed
    <3>1. ~config.AtMostOnePod /\ pods'[p].deleting # "no"
      BY <1>0, <1>3, <2>1, <2>5, DeletedKeeps DEF MayProceed
    <3>2. Finish(n >= 2, Restarted(cvm))
      BY <1>3, <2>5 DEF DeleteRunner
    <3>3. UpdateVM(n >= 2, new)
      BY <3>2 DEF Finish
    <3>. HIDE DEF new
    <3>. QED
      BY <1>0, <1>1, <2>4, <3>1, <3>3, ReleaseStep DEF UpdateVM
  <2>6. CASE ~(n >= 1 /\ MayProceed)
    <3>1. UNCHANGED vmVars
      BY <1>3, <2>6 DEF DeleteRunner
    <3>. QED
      BY <2>4, <3>1, VmUnchanged, KeptStep DEF VmInv
  <2>. QED
    BY <2>5, <2>6
<1>4. CASE ~PodExists(p)
  <2>1. pods' = pods /\ Finish(n >= 1, Restarted(cvm))
    BY <1>4 DEF DeleteRunner
  <2>2. UpdateVM(n >= 1, new)
    BY <2>1 DEF Finish
  <2>3. PodsKept
    BY <1>0, <2>1, NoPodChanges
  <2>4. \A q \in PodNames : PodExists(q)' => q # p
    BY <1>4, <2>1 DEF PodExists
  <2>. HIDE DEF new
  <2>. QED
    BY <1>0, <1>1, <2>2, <2>3, <2>4, ReleaseStep DEF UpdateVM
<1>. QED
  BY <1>2, <1>3, <1>4

LEMMA ReconcileStep ==
    ASSUME VmInv, MigrationsKept, NEW n \in Nat, NEW soft \in BOOLEAN, NEW taken, ReconcileVM(n, soft, taken)
    PROVE  VmInv'
<1>1. CASE AddFinalizer(n) \/ Finalize(n) \/ SetDefaults(n) \/ Created(n)
  BY <1>1, SimpleWrites, KeptStep
<1>2. CASE AwaitRunner(n, soft) \/ CheckRunner(n, soft) \/ ScaleRunner(n, soft)
  BY <1>2, AwaitRunnerKeeps, CheckRunnerKeeps, ScaleRunnerKeeps, KeptStep
<1>3. CASE NameRunner(n, taken) \/ RecreateRunner(n) \/ DeleteRunner(n)
  BY <1>3, NameRunnerStep, RecreateRunnerStep, DeleteRunnerStep
<1>. QED
  BY <1>1, <1>2, <1>3 DEF ReconcileVM, doReconcile

(***************************************************************************)
(* The environment                                                         *)
(***************************************************************************)
LEMMA SpendKeeps ==
    ASSUME Unmigrated, NEW event \in {"changes", "failures", "vanishes", "deletes", "cancels"}, Spend(event)
    PROVE  left' \in Budgets /\ left'.migrations = 0
BY DEF Unmigrated, Budgets, Spend

LEMMA EnvironmentStep ==
    ASSUME VmInv, VmEnvironment, UNCHANGED migVars
    PROVE  VmInv'
<1>0. /\ PodsTyped /\ Lag /\ Unmigrated
      /\ left' = left => left' \in Budgets /\ left'.migrations = 0
  BY DEF VmInv, Unmigrated
<1>1. CASE VmSynced
  <2>1. PodsKept /\ MigrationsKept
    BY <1>0, <1>1, NoPodChanges DEF VmSynced, MigrationsKept, migVars
  <2>2. NameKept
    BY <1>0, <1>1 DEF VmSynced, Lag, NameKept
  <2>. QED
    BY <2>1, <2>2, KeptStep
<1>2. CASE SpecChanges
  <2>1. PodsKept /\ MigrationsKept
    BY <1>0, <1>2, NoPodChanges, SpendKeeps DEF SpecChanges, MigrationsKept, migVars
  <2> DEFINE new == [vm EXCEPT !.rev = @ + 1]
  <2>2. ChangeVM(new) /\ IsVM(new) /\ new.PodName = vm.PodName
    BY <1>0, <1>2 DEF SpecChanges, Lag, IsVM, VmFields
  <2>. HIDE DEF new
  <2>3. NameKept
    BY <1>0, <2>2 DEF ChangeVM, Lag, NameKept
  <2>. QED
    BY <2>1, <2>3, KeptStep
<1>3. CASE DeleteVM
  <2>1. PodsKept /\ MigrationsKept
    BY <1>0, <1>3, NoPodChanges, SpendKeeps DEF DeleteVM, MigrationsKept, migVars
  <2> DEFINE new == [vm EXCEPT !.deleting = TRUE, !.exists = vm.finalizer]
  <2>2. ChangeVM(new) /\ IsVM(new) /\ new.PodName = vm.PodName
    BY <1>0, <1>3 DEF DeleteVM, Lag, IsVM, VmFields
  <2>. HIDE DEF new
  <2>3. NameKept
    BY <1>0, <2>2 DEF ChangeVM, Lag, NameKept
  <2>. QED
    BY <2>1, <2>3, KeptStep
<1>4. ASSUME NEW p \in PodNames, PodExists(p), NEW new, new \in {NULL, Gone} \/ Keeps(pods[p], new),
             PodBecomes(p, new),
             \/ UNCHANGED left
             \/ \E event \in {"changes", "failures", "vanishes", "deletes", "cancels"} : Spend(event)
      PROVE  VmInv'
  <2>1. PodsKept
    BY <1>0, <1>4, OnePodChanges DEF PodBecomes
  <2>2. NameKept
    BY <1>0, <1>4, VmUnchanged DEF PodBecomes, vmVars
  <2>3. left' \in Budgets /\ left'.migrations = 0
    BY <1>0, <1>4, SpendKeeps
  <2>4. MigrationsKept
    BY <1>4, <2>3 DEF PodBecomes, MigrationsKept, migVars
  <2>. QED
    BY <2>1, <2>2, <2>4, KeptStep
<1>5. ASSUME NEW p \in PodNames,
             \/ PodStarts(p) \/ GuestBoots(p)
             \/ QemuExits(p, "Succeeded") \/ QemuExits(p, "Failed")
             \/ SomeoneDeletesPod(p) \/ PodIsOverdue(p) \/ PodIsRemoved(p) \/ MemoryFollows(p)
      PROVE  VmInv'
  <2>0. PodExists(p) /\ IsPod(pods[p])
    BY <1>0, <1>5 DEF PodsTyped, PodStarts, GuestBoots, QemuExits, SomeoneDeletesPod, PodIsOverdue, PodIsRemoved,
                      MemoryFollows
  <2>1. CASE PodStarts(p)
    <3> DEFINE new == [pods[p] EXCEPT !.phase = "Running", !.guest = buildQEMUCmd(pods[p])]
    <3>1. Keeps(pods[p], new)
      BY <2>0 DEF Keeps, IsPod, PodFields
    <3>. QED
      BY <1>4, <2>0, <2>1, <3>1 DEF PodStarts
  <2>2. CASE GuestBoots(p)
    <3> DEFINE new == [pods[p] EXCEPT !.guest = "on"]
    <3>1. Keeps(pods[p], new)
      BY <2>0 DEF Keeps, IsPod, PodFields
    <3>. QED
      BY <1>4, <2>0, <2>2, <3>1 DEF GuestBoots
  <2>3. ASSUME NEW phase, QemuExits(p, phase)
        PROVE  VmInv'
    <3> DEFINE new == [pods[p] EXCEPT !.phase = phase, !.guest = "off"]
    <3>1. Keeps(pods[p], new)
      BY <2>0 DEF Keeps, IsPod, PodFields
    <3>. QED
      BY <1>4, <2>0, <2>3, <3>1 DEF QemuExits
  <2>4. CASE SomeoneDeletesPod(p)
    <3> DEFINE new == [pods[p] EXCEPT !.deleting = "yes"]
    <3>1. Keeps(pods[p], new)
      BY <2>0 DEF Keeps, IsPod, PodFields
    <3>. QED
      BY <1>4, <2>0, <2>4, <3>1 DEF SomeoneDeletesPod
  <2>5. CASE PodIsOverdue(p)
    <3> DEFINE new == [pods[p] EXCEPT !.deleting = "overdue"]
    <3>1. Keeps(pods[p], new)
      BY <2>0 DEF Keeps, IsPod, PodFields
    <3>. QED
      BY <1>4, <2>0, <2>5, <3>1 DEF PodIsOverdue
  <2>6. CASE PodIsRemoved(p)
    BY <1>4, <2>0, <2>6 DEF PodIsRemoved
  <2>7. CASE MemoryFollows(p)
    <3> DEFINE new == [pods[p] EXCEPT !.mem = pods[p].memReq]
    <3>1. Keeps(pods[p], new)
      BY <2>0 DEF Keeps, IsPod, PodFields
    <3>. QED
      BY <1>4, <2>0, <2>7, <3>1 DEF MemoryFollows
  <2>. QED
    BY <1>5, <2>1, <2>2, <2>3, <2>4, <2>5, <2>6, <2>7
<1>. QED
  BY <1>1, <1>2, <1>3, <1>5 DEF VmEnvironment

\* Without migrations there is nothing for their controller, or for QEMU to stream.
LEMMA MigrationsRest ==
    ASSUME VmInv, NEW m \in Migrations,
           \/ \E n \in 0..MaxMigrationCalls, soft \in BOOLEAN : ReconcileMigration(m, n, soft)
           \/ CreateMigration(m) \/ DeleteMigration(m)
    PROVE  FALSE
<1>1. mig[m] = NULL /\ cmig[m] = NULL /\ left["migrations"] = 0
  BY DEF VmInv, Unmigrated
<1>. QED
  BY <1>1 DEF ReconcileMigration, CreateMigration, Spend, DeleteMigration, MigrationExists

\* Their copies are what they are.
LEMMA NothingToSync ==
    ASSUME VmInv, MigrationsSynced
    PROVE  UNCHANGED <<vm, cvm, vmFresh, pods, config, left, mig, cmig>>
BY DEF VmInv, Unmigrated, MigrationsSynced, vars

LEMMA NothingChanges ==
    ASSUME VmInv, UNCHANGED <<vm, cvm, vmFresh, pods, config, left, mig, cmig>>
    PROVE  VmInv'
<1>1. PodsKept
  BY NoPodChanges DEF VmInv
<1>2. NameKept /\ MigrationsKept
  BY VmUnchanged DEF VmInv, vmVars, Unmigrated, MigrationsKept
<1>. QED
  BY <1>1, <1>2, KeptStep

LEMMA NothingStreams ==
    ASSUME VmInv, NEW p \in PodNames
    PROVE  ~StreamBreaks(p) /\ \A t \in PodNames : ~GuestMoves(p, t)
BY DEF VmInv, PodsTyped, StreamBreaks, GuestMoves, Streams

LEMMA GarbageStep ==
    ASSUME VmInv, GarbageCollect
    PROVE  VmInv'
<1>1. \A m \in Migrations : ~MigrationExists(m)
  BY DEF VmInv, Unmigrated, MigrationExists
<1>2. PICK p \in PodNames : PodExists(p) /\ pods' = Deleted(p) /\ UNCHANGED migVars
  BY <1>1 DEF GarbageCollect
<1>3. PodsKept
  BY <1>2, DeletedKeeps, OnePodDiffers DEF VmInv
<1>4. NameKept /\ MigrationsKept
  BY <1>2, VmUnchanged DEF GarbageCollect, VmInv, vmVars, migVars, Unmigrated, MigrationsKept
<1>. QED
  BY <1>3, <1>4, KeptStep

(***************************************************************************)
(* The theorems                                                            *)
(***************************************************************************)
LEMMA VmInvInit ==
    ASSUME NoMigrations
    PROVE  Init => VmInv
<1>. SUFFICES ASSUME Init
              PROVE  VmInv
  OBVIOUS
<1>1. Unmigrated
  BY WorldsAssumption DEF NoMigrations, Init, VmInit, Unmigrated
<1>2. PodsTyped /\ Owned
  BY DEF Init, VmInit, PodsTyped, Owned, PodExists
<1>3. Lag
  BY DEF Init, VmInit, Lag, IsVM, VmFields
<1>. QED
  BY <1>1, <1>2, <1>3 DEF VmInv

LEMMA VmInvNext == VmInv /\ [Next]_allVars => VmInv'
<1>. SUFFICES ASSUME VmInv, [Next]_allVars
              PROVE  VmInv'
  OBVIOUS
<1>1. ASSUME NEW n \in 0..MaxCalls, NEW soft \in BOOLEAN, ReconcileVM(n, soft, Taken), UNCHANGED migVars
      PROVE  VmInv'
  <2>1. MigrationsKept /\ n \in Nat
    BY <1>1 DEF ReconcileVM, MigrationsKept, migVars, VmInv, Unmigrated, MaxCalls
  <2>. QED
    BY <1>1, <2>1, ReconcileStep
<1>2. ASSUME NEW m \in Migrations,
             \/ \E n \in 0..MaxMigrationCalls, soft \in BOOLEAN : ReconcileMigration(m, n, soft)
             \/ CreateMigration(m) \/ DeleteMigration(m)
      PROVE  VmInv'
  BY <1>2, MigrationsRest
<1>3. CASE UNCHANGED allVars
  BY <1>3, NothingChanges DEF allVars
<1>4. CASE MigrationsSynced
  BY <1>4, NothingToSync, NothingChanges
<1>. QED
  BY <1>1, <1>2, <1>3, <1>4, EnvironmentStep, NothingStreams, GarbageStep DEF Next

LEMMA AtMostOneElement ==
    ASSUME NEW S, NEW x, S \subseteq {x}
    PROVE  Cardinality(S) <= 1
<1>1. CASE S = {}
  BY <1>1, FS_EmptySet
<1>2. CASE S = {x}
  BY <1>2, FS_Singleton
<1>. QED
  BY <1>1, <1>2

\* However many pods are created, whatever calls of a reconcile fail, however far its copy of the VM lags
\* and whoever deletes pods or the VM: of the runner pods that are not being deleted at most one has a
\* running guest, and with AtMostOnePod at most one of all (VMReconciler).  Nobody migrates the VM.
THEOREM OneGuestHolds ==
    ASSUME NoMigrations
    PROVE  Spec => []OneGuest
<1>1. VmInv => OneGuest
  <2>. SUFFICES ASSUME VmInv
                PROVE  OneGuest
    OBVIOUS
  <2> DEFINE Running == {p \in PodNames : PodExists(p) /\ pods[p].guest \in {"booting", "on"}}
  <2>1. {p \in Running : pods[p].deleting = "no"} \subseteq {vm.PodName}
    BY DEF VmInv, Owned
  <2>2. config.AtMostOnePod => Running \subseteq {vm.PodName}
    BY DEF VmInv, Owned
  <2>. QED
    BY <2>1, <2>2, AtMostOneElement DEF OneGuest
<1>. QED
  BY <1>1, VmInvInit, VmInvNext, PTL DEF Spec

\* In the same circumstances no guest runs in a pod that the VM does not name, unless the pod is being
\* deleted: a reconcile that breaks off after any of its calls loses no runner.
THEOREM GuestIsTrackedHolds ==
    ASSUME NoMigrations
    PROVE  Spec => []GuestIsTracked
<1>1. VmInv => GuestIsTracked
  BY DEF VmInv, Owned, GuestIsTracked
<1>. QED
  BY <1>1, VmInvInit, VmInvNext, PTL DEF Spec
=============================================================================
