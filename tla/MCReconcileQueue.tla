-------------------------- MODULE MCReconcileQueue --------------------------
(***************************************************************************)
(* A small instance of ReconcileQueue for TLC.                             *)
(***************************************************************************)
EXTENDS ReconcileQueue, TLC

\* Two objects: one that comes, changes and goes, and one that is there at first, is requeued
\* and goes.
CONSTANTS k1, k2

MCKeys == {k1, k2}

MCMaxVersion == (k1 :> 2) @@ (k2 :> 1)

MCPreexisting == {k2}

MCRetries == {0}
=============================================================================
