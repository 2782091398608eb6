--------------------------- MODULE MCVmMigration ---------------------------
(***************************************************************************)
(* The controllers of VMs and of migrations, on small instances            *)
(***************************************************************************)
EXTENDS VmMigration

MCMin == [CPU |-> 1000, Mem |-> 1]

\* CPUs and memory are added; then CPUs are removed, down to a fraction; then memory
MCGuests == <<[CPU |-> 3000, Mem |-> 2], [CPU |-> 1500, Mem |-> 2], [CPU |-> 1500, Mem |-> 1]>>

World(policy, one, mode, changes, failures, vanishes, errors, deletes, migrations, cancels) ==
    [config |-> [RestartPolicy |-> policy, AtMostOnePod |-> one, DefaultCPUScalingMode |-> mode],
     left |-> [changes |-> changes, failures |-> failures, vanishes |-> vanishes, errors |-> errors,
               deletes |-> deletes, migrations |-> migrations, cancels |-> cancels]]

\* The VM alone, with changes, failures and pods that vanish; migrations where all goes well, where calls
\* fail, where the spec changes, where runners fail and where the VM is deleted
MCWorlds ==
    {World("Always",    TRUE,  "QMP",   2, 1, 0, TRUE,  0, 0, 0),
     World("Always",    FALSE, "Sysfs", 1, 1, 0, TRUE,  0, 0, 0),
     World("OnFailure", FALSE, "Sysfs", 0, 1, 1, FALSE, 0, 0, 0),
     World("Always",    TRUE,  "QMP",   0, 0, 1, FALSE, 0, 0, 0),
     World("Always",    TRUE,  "QMP",   0, 0, 0, FALSE, 0, 1, 0),
     World("Always",    TRUE,  "Sysfs", 0, 0, 0, FALSE, 0, 1, 0),
     World("Always",    FALSE, "QMP",   0, 0, 0, TRUE,  0, 1, 0),
     World("Always",    TRUE,  "Sysfs", 1, 0, 0, FALSE, 0, 1, 0),
     World("Always",    TRUE,  "Sysfs", 0, 1, 0, FALSE, 0, 1, 0),
     World("Never",     TRUE,  "Sysfs", 0, 0, 0, FALSE, 1, 1, 0)}

\* A migration that is deleted before it is over
MCCancelWorlds == {World("Always", TRUE, "Sysfs", 0, 0, 0, FALSE, 0, 1, 1)}

\* A migration that begins while an earlier one of the same VM is still there
MCTwoMigrationsWorlds == {World("Always", TRUE, "Sysfs", 1, 0, 0, FALSE, 0, 2, 0)}
=============================================================================
