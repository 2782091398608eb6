-------------------------- MODULE MCAgentLifecycle --------------------------
(***************************************************************************)
(* A small instance of AgentLifecycle for TLC.  In each behaviour the VM   *)
(* takes one course: it comes, is updated and goes, again and again; or    *)
(* its spec cannot be read at times; or it moves between two pods.         *)
(***************************************************************************)
EXTENDS AgentLifecycle

CONSTANTS p1, p2, i1, i2, bad

VARIABLE course

MCPods == {p1, p2}
MCInfos == {i1, i2, bad}

View(p, i) == [pod |-> p, info |-> i]

Any(views) == (views \union {NULL}) \X (views \union {NULL})

ViewChanges ==
    [updates |-> {<<NULL, View(p1, i1)>>, <<View(p1, i1), View(p1, i2)>>,
                  <<View(p1, i1), NULL>>, <<View(p1, i2), NULL>>},
     unreadable |-> Any({View(p1, i1), View(p1, bad)}),
     moves |-> Any({View(p1, i1), View(p2, i1)})]

MCInit == Init /\ course \in DOMAIN ViewChanges

MCNext ==
    /\ Next
    /\ seen' = seen \/ crashed \/ <<seen, seen'>> \in ViewChanges[course]
    /\ UNCHANGED course

MCFairSpec == MCInit /\ [][MCNext]_<<vars, course>> /\ Fairness
=============================================================================
