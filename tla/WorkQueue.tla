----------------------------- MODULE WorkQueue -----------------------------
(***************************************************************************)
(* What a reconcile queue promises to the handlers of a controller.  Each  *)
(* object has at most one change that waits and at most one that is being  *)
(* handled.  Changes that come in meanwhile are merged; what waits is      *)
(* eventually handed to a handler, with the newest version of the object.  *)
(*                                                                         *)
(* This is the abstract specification that ReconcileQueue implements.      *)
(***************************************************************************)
EXTENDS Naturals

CONSTANTS
    NULL,       \* no change
    Keys,       \* the objects
    Versions    \* the versions an object may have

VARIABLES
    dirty,      \* by key, the change that waits to be handled
    busy        \* by key, the change that is being handled

vars == <<dirty, busy>>

EventKinds == {"Added", "Modified", "Deleted", "Ephemeral"}

Change == [kind : EventKinds, obj : Versions]

\* What the watch enqueues; a change that is Ephemeral is the merge of two others.
Event == [kind : EventKinds \ {"Ephemeral"}, obj : Versions]

\* The pairs of kinds that EventKind.Merge does not panic for.
Mergeable(k, other) ==
    /\ k # "Ephemeral" /\ other # "Ephemeral"
    /\ k = "Modified" \/ other = "Modified" \/ k # other

\* EventKind.Merge, for kinds that can be merged.
Merge(k, other) ==
    IF k = "Modified" THEN other
    ELSE IF other = "Modified" THEN k
    ELSE "Ephemeral"

MergeWithNewer(v, newer) == [kind |-> Merge(v.kind, newer.kind), obj |-> newer.obj]

Init ==
    /\ dirty = [k \in Keys |-> NULL]
    /\ busy = [k \in Keys |-> NULL]

\* What a change of the object makes of the change that waits.
Merged(waiting) ==
    {IF waiting = NULL THEN change ELSE MergeWithNewer(waiting, change) :
        change \in {e \in Event : waiting # NULL => Mergeable(waiting.kind, e.kind)}}

Enqueue(k) ==
    /\ UNCHANGED busy
    /\ dirty' = [dirty EXCEPT ![k] = dirty'[k]]
    /\ dirty'[k] \in Merged(dirty[k])

Take(k) ==
    /\ dirty[k] # NULL
    /\ busy[k] = NULL
    /\ busy' = [busy EXCEPT ![k] = dirty[k]]
    /\ dirty' = [dirty EXCEPT ![k] = NULL]

Finish(k) ==
    /\ busy[k] # NULL
    /\ busy' = [busy EXCEPT ![k] = NULL]
    /\ UNCHANGED dirty

\* The change is handled once more, together with what has come in meanwhile.
Retry(k) ==
    /\ busy[k] # NULL
    /\ dirty[k] # NULL => Mergeable(busy[k].kind, dirty[k].kind)
    /\ busy' = [busy EXCEPT ![k] = NULL]
    /\ dirty' = [dirty EXCEPT ![k] = IF @ = NULL THEN busy[k] ELSE MergeWithNewer(busy[k], @)]

\* The process ends; its successor starts with an empty queue.
Restart == dirty' = [k \in Keys |-> NULL] /\ busy' = [k \in Keys |-> NULL]

Next ==
    \/ \E k \in Keys : Enqueue(k) \/ Take(k) \/ Finish(k) \/ Retry(k)
    \/ Restart

Spec == Init /\ [][Next]_vars

FairSpec == Spec /\ \A k \in Keys : WF_vars(Take(k))
=============================================================================
