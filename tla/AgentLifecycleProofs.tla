------------------------ MODULE AgentLifecycleProofs ------------------------
(***************************************************************************)
(* For any number of pods, VM specs, statuses and runners, and any length  *)
(* of the queue: only the runner in the pod map goes on, and it hears of   *)
(* every update of its VM.                                                 *)
(*                                                                         *)
(* OnlyMappedRunnersAct does not carry itself through a restart, which     *)
(* joins the status that the pod map has now with the context of a runner  *)
(* that may be of an earlier pod.  The invariant says what such a context  *)
(* that is still good tells about the pod map, and what endState tells     *)
(* about the runners that share a status.                                  *)
(***************************************************************************)
EXTENDS AgentLifecycle, TLAPS

\* Statuses that are referred to exist.
ReferencesExist ==
    /\ \A p \in Pods : pods[p] # NULL => status[pods[p].status] # NULL
    /\ \A r \in Runners : runner[r] # NULL =>
          status[runner[r].status] # NULL /\ status[runner[r].ctx] # NULL

\* Every pod in the map has a status of its own.
StatusesAreDistinct ==
    \A p, q \in Pods :
        pods[p] # NULL /\ pods[q] # NULL /\ pods[p].status = pods[q].status => p = q

\* The context is that of the pod in the map, or has been cancelled.
ContextsAreMapped ==
    \A r \in Runners : runner[r] # NULL /\ ~status[runner[r].ctx].cancelled =>
        /\ runner[r].status = runner[r].ctx
        /\ pods[runner[r].pod] # NULL
        /\ pods[runner[r].pod].status = runner[r].ctx

\* At most one live runner has a given status, and then that has no endState.
StatusesAreOwned ==
    \A r \in Runners : IsLive(r) =>
        /\ status[runner[r].status].endState = NULL
        /\ \A s \in Runners : IsLive(s) /\ runner[s].status = runner[r].status => s = r

\* A live runner with the status that the pod map has is the runner that it has.
OwnersAreMapped ==
    \A r \in Runners :
        IsLive(r) /\ pods[runner[r].pod] # NULL /\ pods[runner[r].pod].status = runner[r].status
            => pods[runner[r].pod].runner = r

Inv ==
    /\ TypeOK
    /\ ReferencesExist
    /\ StatusesAreDistinct
    /\ ContextsAreMapped
    /\ StatusesAreOwned
    /\ OwnersAreMapped
    /\ NoLostVmInfo

\* The invariant implies that only mapped runners act.
LEMMA ActiveRunnersAreMapped ==
    ASSUME Inv PROVE OnlyMappedRunnersAct
  BY DEF Inv, TypeOK, ContextsAreMapped, OwnersAreMapped, OnlyMappedRunnersAct, IsActive, IsLive,
         Optional, PodState, RunnerState

(***************************************************************************)
(* Each step preserves the invariant                                       *)
(***************************************************************************)
\* Init
LEMMA InitImpliesInv ==
    Init => Inv
  <1> SUFFICES ASSUME Init PROVE Inv
    OBVIOUS
  <1>1. TypeOK
    <2>1. queue \in Seq(VmEvent)
      BY DEF Init
    <2> QED
      BY <2>1 DEF Init, TypeOK, Optional
  <1>2. ReferencesExist /\ StatusesAreDistinct /\ ContextsAreMapped
    BY DEF Init, ReferencesExist, StatusesAreDistinct, ContextsAreMapped
  <1>3. StatusesAreOwned /\ OwnersAreMapped /\ NoLostVmInfo
    BY DEF Init, StatusesAreOwned, OwnersAreMapped, NoLostVmInfo, IsActive, IsLive
  <1> QED
    BY <1>1, <1>2, <1>3 DEF Inv

\* What a runner does with its own state, except that it comes to its end.
LocalStep(r) ==
    /\ UNCHANGED <<pods, status>>
    /\ runner[r] # NULL
    /\ \E new \in RunnerState :
          /\ runner' = [runner EXCEPT ![r] = new]
          /\ <<new.pod, new.status, new.ctx>> = <<runner[r].pod, runner[r].status, runner[r].ctx>>
          /\ new.pc \in {"spawned", "starting", "running"} => IsLive(r)
          /\ new.pc \in {"starting", "running"} /\ ~status[new.ctx].cancelled =>
                \/ new.info = status[new.status].info
                \/ new.signal
                \/ new.updater # "receives"

LEMMA LocalStepPreserves ==
    ASSUME Inv, NEW r \in Runners, LocalStep(r),
           seen' \in Optional(VmView), queue' \in Seq(VmEvent), crashed' \in BOOLEAN
    PROVE  Inv'
  <1> USE DEF Inv, LocalStep
  <1>1. PICK new \in RunnerState :
            /\ runner' = [runner EXCEPT ![r] = new]
            /\ new.pod = runner[r].pod /\ new.status = runner[r].status /\ new.ctx = runner[r].ctx
            /\ new.pc \in {"spawned", "starting", "running"} => IsLive(r)
            /\ new.pc \in {"starting", "running"} /\ ~status[new.ctx].cancelled =>
                  \/ new.info = status[new.status].info
                  \/ new.signal
                  \/ new.updater # "receives"
    OBVIOUS
  <1>2. runner'[r] = new /\ \A s \in Runners \ {r} : runner'[s] = runner[s]
    BY <1>1 DEF TypeOK
  <1>3. TypeOK'
    BY <1>1 DEF TypeOK, Optional
  <1>4. ReferencesExist'
    BY <1>1, <1>2 DEF ReferencesExist
  <1>5. StatusesAreDistinct'
    BY DEF StatusesAreDistinct
  <1>6. ContextsAreMapped'
    BY <1>1, <1>2 DEF ContextsAreMapped
  <1>7. StatusesAreOwned' /\ OwnersAreMapped'
    BY <1>1, <1>2 DEF StatusesAreOwned, OwnersAreMapped, IsLive
  <1>8. NoLostVmInfo'
    BY <1>1, <1>2 DEF NoLostVmInfo, IsActive, IsLive
  <1> QED
    BY <1>3, <1>4, <1>5, <1>6, <1>7, <1>8

\* A goroutine that ends, or whose restart is called off.
LEMMA RemovalPreserves ==
    ASSUME Inv, NEW r \in Runners, runner' = [runner EXCEPT ![r] = NULL],
           UNCHANGED <<seen, queue, pods, status, crashed>>
    PROVE  Inv'
  <1>1. TypeOK'
    BY DEF Inv, TypeOK, Optional
  <1>2. runner'[r] = NULL /\ \A s \in Runners \ {r} : runner'[s] = runner[s]
    BY DEF Inv, TypeOK
  <1> QED
    BY SMTT(30), <1>1, <1>2 DEF Inv, ReferencesExist, StatusesAreDistinct, ContextsAreMapped,
        StatusesAreOwned, OwnersAreMapped, NoLostVmInfo, IsActive, IsLive

\* Run returns, or panics.
LEMMA RunEndsPreserves ==
    ASSUME Inv, NEW r \in Runners, At(r, "running"),
           NEW exitKind \in {"canceled", "panicked"}, RunEnds(r, exitKind)
    PROVE  Inv'
  <1> USE DEF Inv
  <1>0. runner[r] \in RunnerState /\ runner[r].pc = "running" /\ IsLive(r)
    BY DEF At, IsLive, TypeOK, Optional
  <1> DEFINE s == runner[r].status
  <1>1. s \in Statuses /\ status[s] \in PodStatus
    BY <1>0, NullAssumption DEF TypeOK, ReferencesExist, Optional, RunnerState
  <1>2. status'[s] = [status[s] EXCEPT !.endState = exitKind]
    BY <1>1 DEF RunEnds, TypeOK
  <1>3. runner'[r] = [runner[r] EXCEPT !.pc = "ended", !.info = NULL, !.signal = FALSE,
                                       !.updater = "receives"]
    BY DEF RunEnds, TypeOK
  <1>4. runner'[r] \in RunnerState /\ status'[s] \in PodStatus
    BY <1>0, <1>1, <1>2, <1>3 DEF RunnerState, PodStatus, Optional
  <1>5. /\ runner'[r].pod = runner[r].pod /\ runner'[r].status = s
        /\ runner'[r].ctx = runner[r].ctx /\ runner'[r].pc = "ended"
        /\ \A t \in Runners \ {r} : runner'[t] = runner[t]
        /\ \A t \in Statuses \ {s} : status'[t] = status[t]
        /\ pods' = pods
    BY <1>0, <1>1, <1>3 DEF RunnerState, RunEnds, TypeOK
  <1>6. \A t \in Statuses : /\ status[t] # NULL => status'[t] # NULL
                            /\ status[t] # NULL => status'[t].cancelled = status[t].cancelled
                            /\ status[t] # NULL => status'[t].info = status[t].info
    BY <1>1, <1>2, <1>4, <1>5, NullAssumption DEF PodStatus
  <1>7. TypeOK'
    BY <1>1, <1>2, <1>3, <1>4 DEF RunEnds, TypeOK, Optional
  <1>8. /\ \A p \in Pods : pods[p] # NULL => pods[p].status \in Statuses
        /\ \A t \in Runners : runner[t] # NULL =>
              runner[t].status \in Statuses /\ runner[t].ctx \in Statuses
    BY DEF TypeOK, Optional, PodState, RunnerState
  <1>9. runner[r] # NULL
    BY <1>0, NullAssumption
  <1> HIDE DEF s
  <1>10. ReferencesExist' /\ StatusesAreDistinct'
    BY <1>5, <1>6, <1>8, <1>9 DEF ReferencesExist, StatusesAreDistinct, s
  <1>11. ContextsAreMapped'
    BY <1>5, <1>6, <1>8, <1>9 DEF ReferencesExist, ContextsAreMapped, s
  <1>12. StatusesAreOwned'
    BY <1>0, <1>5, <1>8 DEF StatusesAreOwned, IsLive, s
  <1>13. OwnersAreMapped'
    BY <1>5 DEF OwnersAreMapped, IsLive
  <1>14. NoLostVmInfo'
    BY <1>5, <1>6, <1>8 DEF NoLostVmInfo, ReferencesExist, IsActive, IsLive
  <1> QED
    BY <1>7, <1>10, <1>11, <1>12, <1>13, <1>14

\* What the types say about references.
LEMMA ReferenceTypes ==
    ASSUME TypeOK
    PROVE  /\ \A p \in Pods : pods[p] # NULL =>
                 pods[p] \in PodState /\ pods[p].status \in Statuses /\ pods[p].runner \in Runners
           /\ \A r \in Runners : runner[r] # NULL =>
                 /\ runner[r] \in RunnerState
                 /\ runner[r].pod \in Pods /\ runner[r].status \in Statuses
                 /\ runner[r].ctx \in Statuses
           /\ \A t \in Statuses : status[t] # NULL => status[t] \in PodStatus
  BY DEF TypeOK, Optional, PodState, RunnerState

\* The event at the head of the queue names a pod and an info; the rest is a queue.
LEMMA EventTypes ==
    ASSUME TypeOK, queue # <<>>
    PROVE  EventVM \in VmView /\ EventVM.pod \in Pods /\ EventVM.info \in Infos
           /\ Tail(queue) \in Seq(VmEvent)
  <1>1. Head(queue) \in VmEvent /\ Tail(queue) \in Seq(VmEvent)
    BY DEF TypeOK
  <1> QED
    BY <1>1 DEF EventVM, VmEvent, VmView

\* handleEvent, for a pod that is deleted
LEMMA HandleDeletedPreserves ==
    ASSUME Inv, HandleDeleted PROVE Inv'
  <1> USE DEF Inv
  <1> DEFINE p == EventVM.pod
             s == pods[p].status
  <1>1. p \in Pods /\ Tail(queue) \in Seq(VmEvent)
    BY EventTypes DEF HandleDeleted, NextEvent
  <1>2. pods[p] # NULL /\ s \in Statuses /\ status[s] \in PodStatus
    BY <1>1, ReferenceTypes DEF HandleDeleted, HasPod, ReferencesExist
  <1>3. status'[s] = [status[s] EXCEPT !.cancelled = TRUE]
    BY <1>2 DEF HandleDeleted, TypeOK
  <1>4. /\ \A t \in Statuses \ {s} : status'[t] = status[t]
        /\ pods'[p] = NULL
        /\ \A q \in Pods \ {p} : pods'[q] = pods[q]
        /\ runner' = runner
    BY <1>1, <1>2 DEF HandleDeleted, TypeOK
  <1>5. /\ status'[s] \in PodStatus /\ status'[s].cancelled
        /\ status'[s].info = status[s].info /\ status'[s].endState = status[s].endState
    BY <1>2, <1>3 DEF PodStatus
  <1>6. TypeOK'
    BY <1>1, <1>2, <1>5 DEF HandleDeleted, NextEvent, TypeOK, Optional
  <1> HIDE DEF p, s
  <1>7. ReferencesExist' /\ StatusesAreDistinct'
    BY <1>4, <1>5, ReferenceTypes, NullAssumption DEF ReferencesExist, StatusesAreDistinct
  <1>8. ContextsAreMapped'
    BY <1>4, <1>5, ReferenceTypes DEF ContextsAreMapped, s
  <1>9. StatusesAreOwned' /\ OwnersAreMapped'
    BY <1>4, <1>5, ReferenceTypes DEF StatusesAreOwned, OwnersAreMapped, IsLive
  <1>10. NoLostVmInfo'
    BY <1>4, <1>5, ReferenceTypes DEF NoLostVmInfo, IsActive, IsLive
  <1> QED
    BY <1>6, <1>7, <1>8, <1>9, <1>10

\* handleEvent, for a pod that is updated
LEMMA HandleUpdatedPreserves ==
    ASSUME Inv, HandleUpdated PROVE Inv'
  <1> USE DEF Inv
  <1> DEFINE p == EventVM.pod
             s == pods[p].status
             o == pods[p].runner
  <1>1. p \in Pods /\ EventVM.info \in Infos /\ Tail(queue) \in Seq(VmEvent)
    BY EventTypes DEF HandleUpdated, NextEvent
  <1>2. pods[p] # NULL /\ s \in Statuses /\ o \in Runners /\ status[s] \in PodStatus
    BY <1>1, ReferenceTypes DEF HandleUpdated, HasPod, ReferencesExist
  <1>3. /\ \A t \in Statuses \ {s} : status'[t] = status[t]
        /\ pods' = pods
    BY <1>2 DEF HandleUpdated, TypeOK
  <1>4. /\ status'[s] \in PodStatus /\ status'[s].cancelled = status[s].cancelled
        /\ status'[s].endState = status[s].endState
    <2>1. status'[s] = [status[s] EXCEPT !.info = EventVM.info]
      BY <1>2 DEF HandleUpdated, TypeOK
    <2> QED
      BY <1>1, <1>2, <2>1 DEF PodStatus
  <1>5. IsLive(o) => /\ runner[o] \in RunnerState
                     /\ [runner[o] EXCEPT !.signal = TRUE] \in RunnerState
    <2>1. IsLive(o) => runner[o] \in RunnerState
      BY <1>2, ReferenceTypes DEF IsLive
    <2> QED
      BY <2>1 DEF RunnerState
  <1>6. /\ ~IsLive(o) => runner' = runner
        /\ IsLive(o) => runner' = [runner EXCEPT ![o].signal = TRUE]
    BY DEF HandleUpdated, Signalled
  <1>7. TypeOK'
    <2>1. runner' \in [Runners -> Optional(RunnerState)]
      BY <1>2, <1>5, <1>6 DEF TypeOK, Optional
    <2> QED
      BY <1>1, <1>2, <1>4, <2>1 DEF HandleUpdated, NextEvent, TypeOK, Optional
  <1>8. \A r \in Runners :
            /\ runner'[r] # NULL <=> runner[r] # NULL
            /\ runner[r] # NULL =>
                  /\ runner'[r].pod = runner[r].pod /\ runner'[r].status = runner[r].status
                  /\ runner'[r].ctx = runner[r].ctx /\ runner'[r].pc = runner[r].pc
                  /\ runner'[r].info = runner[r].info /\ runner'[r].updater = runner[r].updater
                  /\ runner[r].signal => runner'[r].signal
    <2>1. CASE ~IsLive(o)
      BY <1>6, <2>1
    <2>2. CASE IsLive(o)
      <3>1. /\ runner'[o] = [runner[o] EXCEPT !.signal = TRUE]
            /\ \A r \in Runners \ {o} : runner'[r] = runner[r]
        BY <1>2, <1>6, <2>2 DEF TypeOK
      <3>2. /\ runner[o] # NULL /\ runner'[o] # NULL
            /\ runner'[o].pod = runner[o].pod /\ runner'[o].status = runner[o].status
            /\ runner'[o].ctx = runner[o].ctx /\ runner'[o].pc = runner[o].pc
            /\ runner'[o].info = runner[o].info /\ runner'[o].updater = runner[o].updater
            /\ runner'[o].signal
        BY <1>5, <2>2, <3>1, NullAssumption DEF RunnerState
      <3> QED
        BY <3>1, <3>2
    <2> QED
      BY <2>1, <2>2
  <1>9. IsLive(o) => runner'[o].signal
    BY <1>2, <1>5, <1>6 DEF RunnerState, TypeOK
  <1> HIDE DEF p, s, o
  <1>10. ReferencesExist' /\ StatusesAreDistinct'
    BY <1>3, <1>4, <1>8, ReferenceTypes, NullAssumption DEF ReferencesExist, StatusesAreDistinct
  <1>11. ContextsAreMapped'
    BY <1>3, <1>4, <1>8, ReferenceTypes DEF ContextsAreMapped
  <1>12. StatusesAreOwned' /\ OwnersAreMapped'
    BY <1>3, <1>4, <1>8, ReferenceTypes DEF StatusesAreOwned, OwnersAreMapped, IsLive
  <1>13. NoLostVmInfo'
    <2> SUFFICES ASSUME NEW r \in Runners, IsActive(r)', runner'[r].pc # "spawned"
                 PROVE  \/ runner'[r].info = status'[runner'[r].status].info
                        \/ runner'[r].signal
                        \/ runner'[r].updater # "receives"
      BY DEF NoLostVmInfo
    <2>1. IsActive(r)
      BY <1>3, <1>4, <1>8, ReferenceTypes DEF IsActive, IsLive
    <2>2. CASE runner[r].status = s
      <3>1. pods[runner[r].pod] # NULL /\ pods[runner[r].pod].status = s
        BY <2>1, <2>2 DEF ContextsAreMapped, IsActive, IsLive
      <3>2. runner[r].pod = p
        BY <1>1, <1>2, <2>1, <3>1, ReferenceTypes DEF StatusesAreDistinct, IsActive, IsLive, s
      <3>3. o = r
        BY <2>1, <2>2, <3>1, <3>2 DEF OwnersAreMapped, IsActive, o
      <3> QED
        BY <1>9, <2>1, <3>3 DEF IsActive
    <2>3. CASE runner[r].status # s
      BY <1>3, <1>8, <2>1, <2>3, ReferenceTypes DEF NoLostVmInfo, IsActive, IsLive
    <2> QED
      BY <2>2, <2>3
  <1> QED
    BY <1>7, <1>10, <1>11, <1>12, <1>13

\* A new runner is at its beginning.
LEMMA NewRunnerType ==
    ASSUME NEW p \in Pods, NEW s \in Statuses, NEW ctx \in Statuses
    PROVE  /\ NewRunner(p, s, ctx) \in RunnerState
           /\ NewRunner(p, s, ctx).pod = p
           /\ NewRunner(p, s, ctx).status = s
           /\ NewRunner(p, s, ctx).ctx = ctx
           /\ NewRunner(p, s, ctx).pc = "spawned"
  BY DEF NewRunner, RunnerState, Optional

\* handleVMEventAdded: nobody refers to the new status.
LEMMA HandleVMEventAddedPreserves ==
    ASSUME Inv, HandleVMEventAdded PROVE Inv'
  <1> USE DEF Inv
  <1> DEFINE p == EventVM.pod
  <1>1. p \in Pods /\ EventVM.info \in Infos /\ Tail(queue) \in Seq(VmEvent)
    BY EventTypes DEF HandleVMEventAdded, NextEvent
  <1>2. PICK s \in FreeStatuses, r \in FreeRunners :
            /\ status' = [status EXCEPT ![s] =
                             [info |-> EventVM.info, endState |-> NULL, cancelled |-> FALSE]]
            /\ runner' = [runner EXCEPT ![r] = NewRunner(p, s, s)]
            /\ pods' = [pods EXCEPT ![p] = [status |-> s, runner |-> r]]
    BY DEF HandleVMEventAdded
  <1>3. /\ s \in Statuses /\ r \in Runners
        /\ \A q \in Pods : pods[q] # NULL => pods[q].status # s
        /\ \A t \in Runners : runner[t] # NULL => runner[t].status # s /\ runner[t].ctx # s
        /\ runner[r] = NULL /\ pods[p] = NULL
    BY DEF FreeStatuses, FreeRunners, HandleVMEventAdded, HasPod
  <1>4. /\ status'[s] \in PodStatus /\ status'[s].endState = NULL /\ ~status'[s].cancelled
        /\ \A t \in Statuses \ {s} : status'[t] = status[t]
    BY <1>1, <1>2, <1>3 DEF TypeOK, PodStatus, Optional
  <1>5. /\ runner'[r] \in RunnerState
        /\ runner'[r].pod = p /\ runner'[r].status = s /\ runner'[r].ctx = s
        /\ runner'[r].pc = "spawned"
        /\ \A t \in Runners \ {r} : runner'[t] = runner[t]
    BY <1>1, <1>2, <1>3, NewRunnerType DEF TypeOK
  <1>6. /\ pods'[p] \in PodState /\ pods'[p].status = s /\ pods'[p].runner = r
        /\ \A q \in Pods \ {p} : pods'[q] = pods[q]
    BY <1>1, <1>2, <1>3 DEF TypeOK, PodState
  <1>7. TypeOK'
    <2>1. queue' \in Seq(VmEvent) /\ UNCHANGED <<seen, crashed>>
      BY <1>1 DEF HandleVMEventAdded, NextEvent
    <2> QED
      BY <1>1, <1>2, <1>3, <1>4, <1>5, <1>6, <2>1 DEF TypeOK, Optional
  <1> HIDE DEF p
  <1>8. ReferencesExist' /\ StatusesAreDistinct'
    BY SMTT(30), <1>1, <1>3, <1>4, <1>5, <1>6, ReferenceTypes, NullAssumption
       DEF ReferencesExist, StatusesAreDistinct
  <1>9. ContextsAreMapped'
    BY SMTT(30), <1>1, <1>3, <1>4, <1>5, <1>6, ReferenceTypes, NullAssumption DEF ContextsAreMapped
  <1>10. StatusesAreOwned' /\ OwnersAreMapped'
    BY SMTT(30), <1>1, <1>3, <1>4, <1>5, <1>6, ReferenceTypes DEF StatusesAreOwned, OwnersAreMapped, IsLive
  <1>11. NoLostVmInfo'
    BY <1>3, <1>4, <1>5, ReferenceTypes DEF NoLostVmInfo, IsActive, IsLive
  <1> QED
    BY <1>7, <1>8, <1>9, <1>10, <1>11

\* The restart of a runner: no runner with the status of the pod is live.
LEMMA RestartPreserves ==
    ASSUME Inv, NEW r \in Runners, Restart(r) PROVE Inv'
  <1> USE DEF Inv
  <1> DEFINE p == runner[r].pod
             s == pods[p].status
             c == runner[r].ctx
  <1>1. /\ runner[r] # NULL /\ pods[p] # NULL /\ status[s].endState # NULL
        /\ p \in Pods /\ s \in Statuses /\ c \in Statuses
    BY ReferenceTypes DEF Restart, CanRestart, At, EndStateOf
  <1>2. PICK new \in FreeRunners :
            /\ runner' = [runner EXCEPT ![r] = NULL, ![new] = NewRunner(p, s, c)]
            /\ status' = [status EXCEPT ![s].endState = NULL]
            /\ pods' = [pods EXCEPT ![p].runner = new]
    BY DEF Restart
  <1>3. new \in Runners /\ runner[new] = NULL /\ new # r
    BY <1>1 DEF FreeRunners
  <1>4. status[s] \in PodStatus /\ pods[p] \in PodState
    BY <1>1, ReferenceTypes DEF ReferencesExist
  <1>5. /\ status'[s] \in PodStatus /\ status'[s].endState = NULL
        /\ status'[s].cancelled = status[s].cancelled /\ status'[s].info = status[s].info
        /\ \A t \in Statuses \ {s} : status'[t] = status[t]
    BY <1>1, <1>2, <1>4 DEF TypeOK, PodStatus, Optional
  <1>6. /\ runner'[new] \in RunnerState
        /\ runner'[new].pod = p /\ runner'[new].status = s /\ runner'[new].ctx = c
        /\ runner'[new].pc = "spawned"
        /\ runner'[r] = NULL
        /\ \A t \in Runners \ {r, new} : runner'[t] = runner[t]
    <2>1. /\ runner'[new] = NewRunner(p, s, c) /\ runner'[r] = NULL
          /\ \A t \in Runners \ {r, new} : runner'[t] = runner[t]
      BY <1>2, <1>3 DEF TypeOK
    <2> QED
      BY SMTT(30), <1>1, <2>1, NewRunnerType
  <1>7. /\ pods'[p] \in PodState /\ pods'[p].status = s /\ pods'[p].runner = new
        /\ \A q \in Pods \ {p} : pods'[q] = pods[q]
    BY <1>1, <1>2, <1>3, <1>4 DEF TypeOK, PodState
  <1>8. TypeOK'
    BY <1>1, <1>2, <1>3, <1>5, <1>6, <1>7 DEF Restart, CanRestart, TypeOK, Optional
  <1>9. \A t \in Runners : IsLive(t) => runner[t].status # s
    BY <1>1 DEF StatusesAreOwned
  <1>10. status[c] # NULL /\ (~status[c].cancelled => s = c)
    BY <1>1 DEF ReferencesExist, ContextsAreMapped
  <1> HIDE DEF p, s, c
  <1>11. /\ \A t \in Statuses : status'[t].cancelled = status[t].cancelled
         /\ \A t \in Statuses : status[t] # NULL => status'[t] # NULL
         /\ \A q \in Pods : pods'[q] # NULL <=> pods[q] # NULL
         /\ \A q \in Pods : pods[q] # NULL => pods'[q].status = pods[q].status
    BY <1>1, <1>5, <1>7, NullAssumption DEF s
  <1>12. ReferencesExist'
    BY SMTT(30), <1>1, <1>4, <1>6, <1>10, <1>11, ReferenceTypes, NullAssumption DEF ReferencesExist
  <1>13. StatusesAreDistinct'
    BY <1>11 DEF StatusesAreDistinct
  <1>14. ContextsAreMapped'
    <2>1. ASSUME NEW t \in Runners, runner'[t] # NULL, ~status'[runner'[t].ctx].cancelled
          PROVE  /\ runner'[t].status = runner'[t].ctx
                 /\ pods'[runner'[t].pod] # NULL
                 /\ pods'[runner'[t].pod].status = runner'[t].ctx
      <3>1. CASE t = new
        BY <1>1, <1>6, <1>7, <1>10, <1>11, <2>1, <3>1, NullAssumption
      <3>2. CASE t # new
        BY SMTT(30), <1>6, <1>11, <2>1, <3>2, ReferenceTypes DEF ContextsAreMapped
      <3> QED
        BY <3>1, <3>2
    <2> QED
      BY <2>1 DEF ContextsAreMapped
  <1>15. StatusesAreOwned' /\ OwnersAreMapped'
    <2>1. \A t \in Runners \ {new} : IsLive(t)' => IsLive(t) /\ runner'[t] = runner[t]
      BY <1>6 DEF IsLive
    <2>2. StatusesAreOwned'
      BY SMTT(30), <1>3, <1>5, <1>6, <1>9, <2>1, ReferenceTypes DEF StatusesAreOwned, IsLive
    <2>3. OwnersAreMapped'
      BY <1>1, <1>6, <1>7, <1>9, <2>1, ReferenceTypes DEF OwnersAreMapped, IsLive
    <2> QED
      BY <2>2, <2>3
  <1>16. NoLostVmInfo'
    BY <1>3, <1>5, <1>6, ReferenceTypes DEF NoLostVmInfo, IsActive, IsLive
  <1> QED
    BY <1>8, <1>12, <1>13, <1>14, <1>15, <1>16

\* Each step of a runner preserves the invariant.
LEMMA RunnerStepPreserves ==
    ASSUME Inv, NEW r \in Runners, RunnerStep(r) \/ WorkerPanicsEarly(r) PROVE Inv'
  <1> USE DEF Inv
  <1>1. runner[r] # NULL /\ runner[r] \in RunnerState
    BY ReferenceTypes
       DEF RunnerStep, RunBegins, RunWaits, UpdaterReceives, UpdaterUpdates, WorkerPanics,
           RunIsCancelled, NoRestart, TriggerRestart, TriggerRestartPanics, CancelRestart, Restart,
           CanRestart, WorkerPanicsEarly, At
  <1>2. status[runner[r].status] \in PodStatus /\ status[runner[r].status].info \in Infos
    BY <1>1, ReferenceTypes DEF ReferencesExist, PodStatus
  <1>3. ASSUME LocalStep(r), UNCHANGED <<seen, queue, crashed>> PROVE Inv'
    BY <1>3, LocalStepPreserves DEF TypeOK
  <1>4. CASE RunBegins(r)
    <2> DEFINE new == [runner[r] EXCEPT !.pc = "starting", !.info = status[runner[r].status].info]
    <2>1. /\ new \in RunnerState
          /\ new.pod = runner[r].pod /\ new.status = runner[r].status /\ new.ctx = runner[r].ctx
          /\ new.info = status[runner[r].status].info
      BY <1>1, <1>2 DEF RunnerState, Optional
    <2>2. runner' = [runner EXCEPT ![r] = new] /\ IsLive(r)
      BY <1>4 DEF RunBegins, At, IsLive
    <2> QED
      BY <1>1, <1>3, <1>4, <2>1, <2>2 DEF LocalStep, RunBegins
  <1>5. CASE RunWaits(r)
    <2> DEFINE new == [runner[r] EXCEPT !.pc = "running"]
    <2>1. /\ new \in RunnerState
          /\ new.pod = runner[r].pod /\ new.status = runner[r].status /\ new.ctx = runner[r].ctx
          /\ new.info = runner[r].info /\ new.signal = runner[r].signal
          /\ new.updater = runner[r].updater
      BY <1>1 DEF RunnerState
    <2>2. runner' = [runner EXCEPT ![r] = new] /\ IsLive(r) /\ runner[r].pc = "starting"
      BY <1>5 DEF RunWaits, Goto, At, IsLive
    <2>3. ~status[new.ctx].cancelled =>
              new.info = status[new.status].info \/ new.signal \/ new.updater # "receives"
      BY <1>1, <2>1, <2>2 DEF NoLostVmInfo, IsActive
    <2> QED
      BY <1>1, <1>3, <1>5, <2>1, <2>2, <2>3 DEF LocalStep, RunWaits
  <1>6. CASE UpdaterReceives(r)
    <2> DEFINE new == [runner[r] EXCEPT !.signal = FALSE, !.updater = "updates"]
    <2>1. /\ new \in RunnerState
          /\ new.pod = runner[r].pod /\ new.status = runner[r].status /\ new.ctx = runner[r].ctx
          /\ new.updater = "updates"
      BY <1>1 DEF RunnerState
    <2>2. runner' = [runner EXCEPT ![r] = new] /\ IsLive(r)
      BY <1>6 DEF UpdaterReceives, At, IsLive
    <2> QED
      BY <1>1, <1>3, <1>6, <2>1, <2>2 DEF LocalStep, UpdaterReceives
  <1>7. CASE UpdaterUpdates(r)
    <2> DEFINE new == [runner[r] EXCEPT !.updater = "receives",
                                        !.info = status[runner[r].status].info]
    <2>1. /\ new \in RunnerState
          /\ new.pod = runner[r].pod /\ new.status = runner[r].status /\ new.ctx = runner[r].ctx
          /\ new.info = status[runner[r].status].info
      BY <1>1, <1>2 DEF RunnerState, Optional
    <2>2. runner' = [runner EXCEPT ![r] = new] /\ IsLive(r)
      BY <1>7 DEF UpdaterUpdates, At, IsLive
    <2> QED
      BY <1>1, <1>3, <1>7, <2>1, <2>2 DEF LocalStep, UpdaterUpdates
  <1>8. CASE WorkerPanicsEarly(r)
    <2> DEFINE new == [runner[r] EXCEPT !.updater = "lost"]
    <2>1. /\ new \in RunnerState
          /\ new.pod = runner[r].pod /\ new.status = runner[r].status /\ new.ctx = runner[r].ctx
          /\ new.updater = "lost"
      BY <1>1 DEF RunnerState
    <2>2. runner' = [runner EXCEPT ![r] = new] /\ IsLive(r)
      BY <1>8 DEF WorkerPanicsEarly, At, IsLive
    <2> QED
      BY <1>1, <1>3, <1>8, <2>1, <2>2 DEF LocalStep, WorkerPanicsEarly
  <1>9. CASE TriggerRestart(r)
    <2>1. PICK wait \in {"restarting", "delayed"} :
              runner' = [runner EXCEPT ![r] = [runner[r] EXCEPT !.pc = wait]]
      BY <1>9 DEF TriggerRestart, Goto
    <2> DEFINE new == [runner[r] EXCEPT !.pc = wait]
    <2>2. /\ new \in RunnerState /\ new.pc = wait
          /\ new.pod = runner[r].pod /\ new.status = runner[r].status /\ new.ctx = runner[r].ctx
      BY <1>1 DEF RunnerState
    <2> QED
      BY <1>1, <1>3, <1>9, <2>1, <2>2 DEF LocalStep, TriggerRestart
  <1>10. CASE WorkerPanics(r) \/ RunIsCancelled(r)
    BY <1>10, RunEndsPreserves DEF WorkerPanics, RunIsCancelled
  <1>11. CASE NoRestart(r) \/ CancelRestart(r)
    BY <1>11, RemovalPreserves DEF NoRestart, CancelRestart, CanRestart
  <1>12. CASE TriggerRestartPanics(r)
    <2>1. crashed' \in BOOLEAN /\ UNCHANGED <<seen, queue, pods, status, runner>>
      BY <1>12 DEF TriggerRestartPanics
    <2> QED
      BY <2>1 DEF TypeOK, ReferencesExist, StatusesAreDistinct, ContextsAreMapped,
          StatusesAreOwned, OwnersAreMapped, NoLostVmInfo, IsActive, IsLive
  <1>13. CASE Restart(r)
    BY <1>13, RestartPreserves
  <1> QED
    BY <1>4, <1>5, <1>6, <1>7, <1>8, <1>9, <1>10, <1>11, <1>12, <1>13 DEF RunnerStep

\* The invariant holds in every reachable state: the pod map, the statuses and the
\* runners of globalstate.go agree through all events, panics and restarts.
THEOREM InvIsInvariant ==
    Spec => []Inv
  <1>1. ASSUME Inv, [Next]_vars PROVE Inv'
    <2>1. ASSUME UNCHANGED <<pods, status, runner>>, TypeOK' PROVE Inv'
      BY <1>1, <2>1 DEF Inv, ReferencesExist, StatusesAreDistinct, ContextsAreMapped,
          StatusesAreOwned, OwnersAreMapped, NoLostVmInfo, IsActive, IsLive
    <2>2. CASE WatchVM
      <3>1. PICK new \in Optional(VmView) : seen' = new /\ queue' \in
                {queue, Append(queue, MakeVMEvent(seen, new))} /\ new # seen
        BY <2>2 DEF WatchVM
      <3>2. MakeVMEvent(seen, new) \in VmEvent
        BY <1>1, <3>1 DEF Inv, TypeOK, MakeVMEvent, VmEvent, Optional
      <3>3. queue' \in Seq(VmEvent)
        BY <1>1, <3>1, <3>2 DEF Inv, TypeOK
      <3> QED
        BY <1>1, <2>1, <2>2, <3>1, <3>3 DEF WatchVM, Inv, TypeOK
    <2>3. CASE HandleUnexpected
      <3>1. queue' \in Seq(VmEvent) /\ UNCHANGED <<seen, pods, status, runner, crashed>>
        BY <1>1, <2>3, EventTypes DEF HandleUnexpected, NextEvent, Inv
      <3> QED
        BY <1>1, <2>1, <3>1 DEF Inv, TypeOK
    <2>4. CASE AgentRestarts
      <3>1. Init'
        BY <2>4 DEF AgentRestarts, Init
      <3> QED
        BY <3>1, InitImpliesInv, PTL
    <2>5. CASE UNCHANGED vars
      BY <1>1, <2>1, <2>5 DEF vars, Inv, TypeOK
    <2> QED
      BY <1>1, <2>2, <2>3, <2>4, <2>5, HandleDeletedPreserves, HandleUpdatedPreserves,
         HandleVMEventAddedPreserves, RunnerStepPreserves DEF Next, HandleEvent
  <1> QED
    BY <1>1, InitImpliesInv, PTL DEF Spec

\* All variables keep their types; in particular no step follows a reference to a
\* status or runner that does not exist.
THEOREM TypeCorrect ==
    Spec => []TypeOK
  <1>1. Inv => TypeOK
    BY DEF Inv
  <1> QED
    BY <1>1, InvIsInvariant, PTL

\* However events, panics and restarts interleave, handleEvent and
\* TriggerRestartIfNecessary leave no pod with two runners that go on.
THEOREM OnlyOneRunnerPerPod ==
    Spec => []OnlyMappedRunnersAct
  BY ActiveRunnersAreMapped, InvIsInvariant, PTL

\* Every update of a VM reaches the runner that is there, also over a restart.
THEOREM UpdatesReachRunners ==
    Spec => []NoLostVmInfo
  <1>1. Inv => NoLostVmInfo
    BY DEF Inv
  <1> QED
    BY <1>1, InvIsInvariant, PTL
=============================================================================
