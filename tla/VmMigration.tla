----------------------------- MODULE VmMigration -----------------------------
(***************************************************************************)
(* The controller of VirtualMachineMigration objects                       *)
(* (vmmigration_controller.go) beside the controller of the VM: the two    *)
(* share a cache, the VM's status and the runner pods.                     *)
(***************************************************************************)
EXTENDS VmController

VARIABLES
    mig,      \* the migrations on the API server
    cmig,     \* the copies in the cache
    migFresh  \* whether they are of the current version

migVars == <<mig, cmig, migFresh>>
allVars == <<vm, cvm, vmFresh, pods, sshSecret, config, left, mig, cmig, migFresh>>

Init ==
    /\ VmInit
    /\ mig = [m \in Migrations |-> NULL] /\ cmig = mig
    /\ migFresh = [m \in Migrations |-> TRUE]

MigrationExists(m) == mig[m] \notin {NULL, Gone}

\* The names that some object has, for a name generator that does not repeat itself
Taken == {vm.PodName} \union {mig[m].TargetPodName : m \in {k \in Migrations : MigrationExists(k)}}

UpdateMigration(m, ok, new) ==
    /\ mig' = [mig EXCEPT ![m] = IF ok /\ migFresh[m] THEN new ELSE @]
    /\ migFresh' = [migFresh EXCEPT ![m] = @ /\ mig'[m] = mig[m]]
    /\ UNCHANGED cmig

\* Events of different migrations come over one watch, in order.
MigrationsSynced ==
    /\ \E m \in Migrations : ~migFresh[m]
    /\ cmig' = mig /\ migFresh' = [m \in Migrations |-> TRUE]
    /\ UNCHANGED <<vars, mig>>

\* Only of a VM that runs, so that there are fewer cases
CreateMigration(m) ==
    /\ mig[m] = NULL /\ vm.exists /\ vm.Phase = "Running" /\ Spend("migrations")
    /\ mig' = [mig EXCEPT ![m] = [deleting |-> FALSE, finalizer |-> FALSE, owned |-> FALSE,
                                  Phase |-> "", TargetPodName |-> NULL, SourcePodName |-> NULL]]
    /\ migFresh' = [migFresh EXCEPT ![m] = FALSE]
    /\ UNCHANGED <<vm, cvm, vmFresh, pods, sshSecret, config, cmig>>

\* The plugin deletes those that have finished, a user any.
DeleteMigration(m) ==
    /\ MigrationExists(m) /\ ~mig[m].deleting
    /\ IF mig[m].Phase \in {"Succeeded", "Failed"} THEN UNCHANGED left ELSE Spend("cancels")
    /\ mig' = [mig EXCEPT ![m] = IF @.finalizer THEN [@ EXCEPT !.deleting = TRUE] ELSE Gone]
    /\ migFresh' = [migFresh EXCEPT ![m] = FALSE]
    /\ UNCHANGED <<vm, cvm, vmFresh, pods, sshSecret, config, cmig>>

\* What the VM owns, once it is gone
GarbageCollect ==
    /\ ~vm.exists
    /\ \/ \E p \in PodNames :
             /\ PodExists(p) /\ pods[p].deleting = "no" /\ pods[p].owners # {}
             /\ \A m \in pods[p].owners \ {"VM"} : ~MigrationExists(m)
             /\ pods' = Deleted(p)
             /\ UNCHANGED migVars
       \/ \E m \in Migrations :
             /\ MigrationExists(m) /\ mig[m].owned /\ ~mig[m].deleting
             /\ mig' = [mig EXCEPT ![m].deleting = TRUE]
             /\ migFresh' = [migFresh EXCEPT ![m] = FALSE]
             /\ UNCHANGED <<pods, cmig>>
    /\ UNCHANGED <<vm, cvm, vmFresh, sshSecret, config, left>>

(***************************************************************************)
(* QEMU.  The guest goes over with the memory that it has; CPUs have to be *)
(* plugged alike unless they are switched inside the guest.                *)
(***************************************************************************)
Streams(p, t) ==
    /\ PodExists(p) /\ pods[p].qmig = "active" /\ pods[p].guest \in {"booting", "on"}
    /\ PodExists(t) /\ pods[t].qmig = "active" /\ pods[t].guest = "incoming"

GuestMoves(p, t) ==
    /\ Streams(p, t) /\ (vm.mode = "QMP" => pods[p].cores = pods[t].cores)
    /\ pods' = [pods EXCEPT ![p] = [@ EXCEPT !.guest = "moved", !.qmig = "completed"],
                            ![t] = [@ EXCEPT !.guest = pods[p].guest, !.qmig = "completed",
                                             !.cores = pods[p].cores, !.mem = pods[p].mem,
                                             !.memReq = pods[p].memReq]]
    /\ UNCHANGED <<vm, cvm, vmFresh, sshSecret, config, left, migVars>>

\* With a target that is still there the migration fails by chance, otherwise in any case.
StreamBreaks(p) ==
    /\ PodExists(p) /\ pods[p].qmig = "active" /\ pods[p].guest \in {"booting", "on"}
    /\ IF \E t \in PodNames : Streams(p, t) THEN Spend("failures") ELSE UNCHANGED left
    /\ pods' = [q \in PodNames |-> IF q = p \/ Streams(p, q) THEN [pods[q] EXCEPT !.qmig = "failed"]
                                   ELSE pods[q]]
    /\ UNCHANGED <<vm, cvm, vmFresh, sshSecret, config, migVars>>

(***************************************************************************)
(* VirtualMachineMigrationReconciler.Reconcile.  c is the cached copy of   *)
(* the migration; an operation that ends early leaves the rest unchanged.  *)
(***************************************************************************)
OnlyMigration == UNCHANGED <<vmVars, pods>>

\* doFinalizerOperationsForVirtualMachineMigration: the pods with the migration cancelled
Cancelled(p) ==
    [q \in PodNames |-> IF q = p /\ QmpAnswers(pods[p]) THEN QmpCancelMigration(pods[p])
                        ELSE IF p # NULL /\ Streams(p, q) THEN [pods[q] EXCEPT !.qmig = "failed"]
                        ELSE pods[q]]

FinalizeMigration(m, c, n, soft) ==
    /\ c.deleting /\ c.finalizer
    /\ LET ongoing == c.Phase = "Running" \/ cvm.Phase = "PreMigrating"
           unlock == ongoing /\ cvm.Phase \in {"PreMigrating", "Migrating"}
           unlocked == unlock => n >= 1 /\ vmFresh
           calls == IF unlock THEN 1 ELSE 0
           cancelled == IF ongoing /\ soft THEN Cancelled(cvm.PodName) ELSE pods
           delete == ongoing /\ PodExists(c.TargetPodName)
           deletes == IF delete THEN calls + 1 ELSE calls
       IN  IF ~cvm.exists THEN OnlyMigration /\ UNCHANGED migVars
           ELSE /\ UpdateVM(unlocked, IF unlock THEN [cvm EXCEPT !.Phase = "Running"] ELSE vm)
                /\ pods' = IF unlocked /\ delete /\ n >= deletes
                           THEN [cancelled EXCEPT ![c.TargetPodName].deleting = IF @ = "no" THEN "yes" ELSE @]
                           ELSE cancelled
                /\ UpdateMigration(m, unlocked /\ n > deletes, Gone)

AddMigrationFinalizer(m, c, n) ==
    /\ ~c.deleting /\ ~c.finalizer
    /\ UpdateMigration(m, n >= 1, [c EXCEPT !.finalizer = TRUE])
    /\ OnlyMigration

VmNotFound(m, c, n) ==
    /\ ~cvm.exists
    /\ UpdateMigration(m, n >= 1, [c EXCEPT !.Phase = "Failed"])
    /\ OnlyMigration

SetOwner(m, c, n) ==
    /\ cvm.exists /\ ~c.owned
    /\ UpdateMigration(m, n >= 1, [c EXCEPT !.owned = TRUE])
    /\ OnlyMigration

\* A status without conditions gets them first; that only makes the cached copy an old one.
NameTarget(m, c, n) ==
    /\ cvm.exists /\ c.owned /\ c.TargetPodName = NULL
    /\ HasNewName(Taken)
    /\ UpdateMigration(m, n >= 1, [c EXCEPT !.TargetPodName = NewName(Taken)])
    /\ OnlyMigration

LockVM(m, c, n) ==
    /\ c.Phase = "" /\ cvm.Phase = "Running"
    /\ UpdateVM(n >= 1, [cvm EXCEPT !.Phase = "PreMigrating"])
    /\ UpdateMigration(m, n >= 2 /\ vmFresh, [c EXCEPT !.Phase = "Pending"])
    /\ UNCHANGED pods

createTargetPod(m, c, n) ==
    /\ c.Phase = "Pending" /\ ~PodExists(c.TargetPodName)
    /\ pods' = IF n >= 1 /\ sshSecret
               THEN [pods EXCEPT ![c.TargetPodName] = targetPodForVirtualMachine(cvm.rev, m)]
               ELSE pods
    /\ UNCHANGED <<vmVars, migVars>>

\* The source pod must exist, and gets the migration as an owner.
OwnSource(m, c, n, soft) ==
    LET patched == updatePodMetadataIfNecessary(c.TargetPodName, soft)
        own == PodExists(cvm.PodName) /\ m \notin pods[cvm.PodName].owners
    IN  [pods |-> IF own /\ n >= 1 THEN [patched EXCEPT ![cvm.PodName].owners = @ \union {m}] ELSE patched,
         ok |-> PodExists(cvm.PodName) /\ (own => n >= 1),
         calls |-> IF own THEN 1 ELSE 0]

StartMigration(m, c, n, soft) ==
    /\ c.Phase = "Pending" /\ PodExists(c.TargetPodName)
    /\ LET t == c.TargetPodName
           p == cvm.PodName
           owned == OwnSource(m, c, n, soft)
           status == runnerStatus(pods[t], cvm.mode)
           answer == QmpAnswers(pods[p]) /\ QmpAnswers(pods[t])
           sync == cvm.mode = "QMP"
           syncCall == IF sync THEN owned.calls + 1 ELSE owned.calls
           synced == IF sync THEN [owned.pods EXCEPT ![t] = QmpSyncCpuToTarget(owned.pods[p], @)]
                     ELSE owned.pods
           start == cvm.Phase = "PreMigrating" /\ QmpCanStartMigration(pods[p]) /\ n > syncCall
           started == [synced EXCEPT ![p].qmig = "active", ![t].qmig = "active"]
       IN  \/ /\ ~owned.ok \/ status = "Pending"
              /\ pods' = owned.pods
              /\ UNCHANGED <<vmVars, migVars>>
           \/ /\ owned.ok /\ EndedPhase(status)
              /\ pods' = owned.pods
              /\ UpdateMigration(m, n > owned.calls, [c EXCEPT !.Phase = "Failed"])
              /\ UNCHANGED vmVars
           \/ /\ owned.ok /\ status = "Running"
              /\ IF ~answer \/ n < syncCall THEN pods' = owned.pods /\ UNCHANGED <<vmVars, migVars>>
                 ELSE IF ~start THEN pods' = synced /\ UNCHANGED <<vmVars, migVars>>
                 ELSE /\ pods' = started
                      /\ UpdateVM(n > syncCall + 1, [cvm EXCEPT !.Phase = "Migrating"])
                      /\ UpdateMigration(m, n > syncCall + 2 /\ vmFresh,
                                         [c EXCEPT !.Phase = "Running", !.SourcePodName = p])

TargetDisappeared(m, c, n) ==
    /\ c.Phase = "Running" /\ ~PodExists(c.TargetPodName)
    /\ UpdateMigration(m, n >= 1, [c EXCEPT !.Phase = "Failed"])
    /\ OnlyMigration

\* The VM is handed over, then the pods get their new owners, then the source's QEMU is stopped.
Completed(m, c, n, soft, patched) ==
    LET t == c.TargetPodName
        p == c.SourcePodName
        ok == n >= 1 /\ vmFresh
        handed == IF ok /\ n >= 2 THEN [patched EXCEPT ![t].owners = {"VM"}, ![t].controller = "VM"] ELSE patched
        source == ok /\ PodExists(p) /\ n >= 3
        pods3 == IF PodExists(p) THEN 3 ELSE 2
    IN  /\ UpdateVM(n >= 1, [cvm EXCEPT !.PodName = t, !.Phase = "Running"])
        /\ pods' = IF source
                   THEN [handed EXCEPT ![p] = [(IF soft /\ @.phase = "Running" /\ @.guest # "off" THEN QmpQuit(@) ELSE @)
                                               EXCEPT !.owners = {m, "VM"}, !.controller = "none"]]
                   ELSE handed
        /\ UpdateMigration(m, ok /\ n > pods3, [c EXCEPT !.Phase = "Succeeded"])

BrokeOff(m, c, n, soft, patched) ==
    LET t == c.TargetPodName
    IN  /\ pods' = [patched EXCEPT ![t] = IF soft /\ @.phase = "Running" /\ @.guest # "off" THEN QmpQuit(@) ELSE @]
        /\ UpdateVM(n >= 1, [cvm EXCEPT !.Phase = "Running"])
        /\ UpdateMigration(m, n >= 2 /\ vmFresh, [c EXCEPT !.Phase = "Failed"])

\* The progress of the stream: only the version of the migration changes.
UpdateProgress(m, ok) ==
    /\ migFresh' = [migFresh EXCEPT ![m] = @ /\ ~ok]
    /\ UNCHANGED <<mig, cmig>>

\* What QEMU says of the migration, at the address that the VM has
FollowMigration(m, c, n, soft) ==
    /\ c.Phase = "Running" /\ PodExists(c.TargetPodName)
    /\ LET patched == updatePodMetadataIfNecessary(c.TargetPodName, soft)
           pod == PodOf(cvm.PodName)
       IN  IF QmpAnswers(pod) /\ pod.qmig = "completed" THEN Completed(m, c, n, soft, patched)
           ELSE IF QmpAnswers(pod) /\ pod.qmig = "failed" THEN BrokeOff(m, c, n, soft, patched)
           ELSE /\ pods' = patched
                /\ UpdateProgress(m, QmpAnswers(pod) /\ n >= 1)
                /\ UNCHANGED vmVars

\* Deleting a source pod that is not there is an error.
Succeeded(m, c, n) ==
    /\ c.Phase = "Succeeded"
    /\ LET unlock == cvm.Phase = "Migrating"
           ok == unlock => n >= 1 /\ vmFresh
           calls == IF unlock THEN 1 ELSE 0
           delete == ok /\ PodExists(c.SourcePodName) /\ n > calls
       IN  /\ UpdateVM(ok, IF unlock THEN [cvm EXCEPT !.Phase = "Running"] ELSE vm)
           /\ pods' = IF delete THEN Deleted(c.SourcePodName) ELSE pods
           /\ UpdateMigration(m, delete /\ n > calls + 1, [c EXCEPT !.SourcePodName = NULL])

FailedMigration(m, c, n) ==
    /\ c.Phase = "Failed"
    /\ IF cvm.Phase = "Migrating" THEN UpdateVM(n >= 1, [cvm EXCEPT !.Phase = "Running"])
       ELSE UNCHANGED vmVars
    /\ UNCHANGED <<pods, migVars>>

MaxMigrationCalls == 5

ReconcileMigration(m, n, soft) ==
    LET c == cmig[m]
    IN  /\ c \notin {NULL, Gone}
        /\ n < MaxMigrationCalls \/ ~soft => left.errors
        /\ \/ FinalizeMigration(m, c, n, soft)
           \/ AddMigrationFinalizer(m, c, n)
           \/ /\ ~c.deleting /\ c.finalizer
              /\ \/ VmNotFound(m, c, n) \/ SetOwner(m, c, n) \/ NameTarget(m, c, n)
                 \/ /\ cvm.exists /\ c.owned /\ c.TargetPodName # NULL
                    /\ \/ LockVM(m, c, n)
                       \/ createTargetPod(m, c, n)
                       \/ StartMigration(m, c, n, soft)
                       \/ TargetDisappeared(m, c, n)
                       \/ FollowMigration(m, c, n, soft)
                       \/ Succeeded(m, c, n)
                       \/ FailedMigration(m, c, n)
        /\ UNCHANGED <<sshSecret, config, left>>

(***************************************************************************)
(* Both controllers                                                        *)
(***************************************************************************)
Next ==
    \/ \E n \in 0..MaxCalls, soft \in BOOLEAN : ReconcileVM(n, soft, Taken) /\ UNCHANGED migVars
    \/ \E m \in Migrations, n \in 0..MaxMigrationCalls, soft \in BOOLEAN : ReconcileMigration(m, n, soft)
    \/ VmEnvironment /\ UNCHANGED migVars
    \/ MigrationsSynced
    \/ \E m \in Migrations : CreateMigration(m) \/ DeleteMigration(m)
    \/ \E p, t \in PodNames : GuestMoves(p, t)
    \/ \E p \in PodNames : StreamBreaks(p)
    \/ GarbageCollect

Spec == Init /\ [][Next]_allVars

\* Of the runner pods that are not being deleted at most one has a running guest; with AtMostOnePod
\* (the controllers' --at-most-one-pod), at most one of all pods.
OneGuest ==
    LET Running == {p \in PodNames : PodExists(p) /\ pods[p].guest \in {"booting", "on"}}
    IN  /\ Cardinality({p \in Running : pods[p].deleting = "no"}) <= 1
        /\ config.AtMostOnePod => Cardinality(Running) <= 1

\* No guest runs in a pod that nobody knows: it is the VM's runner, or the target of a migration, or it
\* is being deleted ("avoid creating multiple pods for a single VM", vm_controller.go).
GuestIsTracked ==
    vm.exists =>
        \A p \in PodNames :
            PodExists(p) /\ pods[p].guest \in {"booting", "on"} =>
                \/ pods[p].deleting # "no"
                \/ p = vm.PodName
                \/ \E m \in Migrations : MigrationExists(m) /\ p = mig[m].TargetPodName

\* While QEMU streams the guest for a migration that is Running and that nobody has deleted, neither its
\* CPUs nor its memory are scaled ("need change VM status asap to prevent autoscaler change CPU/RAM in
\* VM", vmmigration_controller.go).
NoScalingWhileMigrating ==
    [][\A p \in PodNames :
          LET Active == \E t \in PodNames, m \in Migrations :
                            /\ Streams(p, t) /\ MigrationExists(m)
                            /\ mig[m].TargetPodName = t /\ mig[m].Phase = "Running" /\ ~mig[m].deleting
          IN  Active /\ Active' =>
                 /\ pods'[p].cpu = pods[p].cpu /\ pods'[p].cores = pods[p].cores
                 /\ pods'[p].memReq = pods[p].memReq]_allVars

\* Once the finalizer has run and the migration is gone, the VM is no longer in one of the phases that a
\* migration puts it in ("migration being deleted and VM should have status Running",
\* vmmigration_controller.go).
DeletedMigrationFreesVM ==
    (\A m \in Migrations : mig[m] = Gone) => vm.Phase \notin {"PreMigrating", "Migrating"}

\* Objects are reconciled again and again (a VM at the latest after 15 seconds), not always with an
\* error; caches catch up; pods start, and go when they are deleted; guests boot and follow what their
\* QEMU asks them for; a migration comes to an end.
Fairness ==
    /\ WF_allVars(VmSynced /\ UNCHANGED migVars)
    /\ SF_allVars(ReconcileVM(MaxCalls, TRUE, Taken) /\ UNCHANGED migVars)
    /\ WF_allVars(MigrationsSynced)
    /\ \A m \in Migrations : SF_allVars(ReconcileMigration(m, MaxMigrationCalls, TRUE))
    /\ \A p \in PodNames :
          /\ WF_allVars((PodStarts(p) \/ GuestBoots(p) \/ PodIsRemoved(p) \/ MemoryFollows(p)) /\ UNCHANGED migVars)
          /\ WF_allVars(StreamBreaks(p) \/ \E t \in PodNames : GuestMoves(p, t))

FairSpec == Spec /\ Fairness

\* Nobody deletes anything; and a migration meets no failure and no change of the VM.
Calm ==
    /\ left.vanishes = 0 /\ left.deletes = 0 /\ left.cancels = 0
    /\ config.RestartPolicy = "Always"
    /\ left.migrations > 0 => left.failures = 0 /\ left.changes = 0 /\ ~left.errors

Settled ==
    /\ vm.Phase = "Running" /\ PodExists(vm.PodName)
    /\ LET pod == pods[vm.PodName]
           spec == Guests[vm.rev]
       IN  /\ pod.guest = "on" /\ pod.owners = {"VM"}
           /\ getRunnerCPULimits(pod, vm.mode) = spec.CPU /\ pod.cores = RoundedUp(spec.CPU) /\ pod.mem = spec.Mem
           /\ pod.usage = vm.rev /\ vm.using = spec /\ vm.current = vm.rev
    /\ \A m \in Migrations : MigrationExists(m) => mig[m].Phase = "Succeeded"
    /\ \A p \in PodNames : PodExists(p) => p = vm.PodName \/ pods[p].guest = "off"

\* Whatever runners end and calls fail, a VM comes to run in one pod only, with the resources that its
\* spec asks for, and says so; and so it does after a migration.
Settles == Calm => <>[]Settled
=============================================================================
