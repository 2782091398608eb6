----------------------------- MODULE Dispatcher -----------------------------
(***************************************************************************)
(* The connection of the autoscaler-agent with the vm-monitor of one VM    *)
(* (pkg/agent/dispatcher.go), from its handshake to its exit.              *)
(*                                                                         *)
(* Calls are matched with answers by id, whatever the type of the answer   *)
(* (UpscaleConfirmation, DownscaleResult, HealthCheck).  Each takes the    *)
(* next even id, registers a waiter, sends its message and waits for the   *)
(* answer or for its timer; one goroutine reads all messages.  The lock is *)
(* held for one section at a time, which is a step here; what happens      *)
(* between two sections interleaves with the others.  As ids are only ever *)
(* compared, the next id is here one of the caller's own that is nowhere   *)
(* in use any more.  Messages are answered in any order and as late as can *)
(* be, so a message of the monitor needs no time of its own between its    *)
(* sending and its reading.                                                *)
(***************************************************************************)
EXTENDS Naturals, FiniteSets

CONSTANTS
    NULL,         \* Go's nil
    MaxUnanswered \* bound: messages that the monitor keeps unanswered; it forgets any others

LOCAL INSTANCE FiniteSetsExt

VARIABLES
    conn,      \* of the websocket: "dialling", "failed", "up", or "closed" once the dispatcher has exited
    ctxDone,   \* the runner's context is cancelled
    silent,    \* the monitor does not answer any more
    waiters,   \* of each id: the call that waits for it
    call,      \* of each caller: its ongoing Call, "waiting" or "leaving", and what it was sent
    toMonitor, \* messages that the monitor has yet to answer.  Whether its call still waits is
               \* noted in each (live), to state what an answer should mean.
    handler,   \* where run is: "reading", "deferred" (with the id that somebody waits for, if any), or "stopped"
    failing    \* since when health checks fail: "no", "recently", or "long" (over the limit)

vars == <<conn, ctxDone, silent, waiters, call, toMonitor, handler, failing>>

Callers == {"executor", "health"}

IdsOf(c) == {4 * k + (IF c = "health" THEN 0 ELSE 2) : k \in 1..(MaxUnanswered + 2)}

Ids == UNION {IdsOf(c) : c \in Callers}

\* A signal is an error, or an answer: to whose message, and whether that call was still going on.
Error == [of |-> NULL, live |-> TRUE]

HandlerAt(at) == [at |-> at, id |-> NULL, failed |-> FALSE]

DispatcherInit ==
    /\ conn = "dialling"
    /\ ctxDone = FALSE
    /\ silent = FALSE
    /\ waiters = [id \in Ids |-> NULL]
    /\ call = [c \in Callers |-> NULL]
    /\ toMonitor = {}
    /\ handler = HandlerAt("reading")
    /\ failing = "no"

(***************************************************************************)
(* NewDispatcher                                                           *)
(***************************************************************************)
connectToMonitor ==
    /\ conn = "dialling"
    /\ conn' \in {"up", "failed"}
    /\ ctxDone => conn' = "failed"
    /\ UNCHANGED <<ctxDone, silent, waiters, call, toMonitor, handler, failing>>

\* disp.exit does nothing the second time.  It cancels the context of the dispatcher; nothing is
\* received after it.
exit ==
    /\ conn' = "closed"
    /\ ctxDone' = TRUE
    /\ toMonitor' = {}

goOn == UNCHANGED <<conn, ctxDone, toMonitor>>

\* The runner's context: a goroutine of its own turns it into the exit.
Cancel ==
    /\ ~ctxDone
    /\ ctxDone' = TRUE
    /\ UNCHANGED <<conn, silent, waiters, call, toMonitor, handler, failing>>

ContextDone ==
    /\ ctxDone
    /\ conn = "up"
    /\ exit
    /\ UNCHANGED <<silent, waiters, call, handler, failing>>

\* What the health checks make of the end of their call; what is not answered if they go on.
CheckedLogsOnly(c, ok, unanswered) ==
    /\ failing' = CASE c # "health" -> failing [] ok -> "no" [] failing = "no" -> "recently" [] OTHER -> failing
    /\ toMonitor' = unanswered
    /\ UNCHANGED <<conn, ctxDone>>

Checked(c, ok, unanswered) ==
    /\ failing' = CASE c # "health" -> failing [] ok -> "no" [] failing = "no" -> "recently" [] OTHER -> failing
    /\ IF c = "health" /\ ~ok /\ failing = "long" THEN exit
       ELSE toMonitor' = unanswered /\ UNCHANGED <<conn, ctxDone>>

TimePasses ==
    /\ conn = "up"
    /\ failing = "recently"
    /\ failing' = "long"
    /\ UNCHANGED <<conn, ctxDone, silent, waiters, call, toMonitor, handler>>

(***************************************************************************)
(* Call                                                                    *)
(***************************************************************************)
InUse ==
    {m.id : m \in toMonitor} \union {id \in DOMAIN waiters : waiters[id] # NULL}
        \union {call[c].id : c \in {c \in Callers : call[c] # NULL}} \union {handler.id}

SameTransactionID(c) == Min(Ids)

lastTransactionID(c) == Min(IdsOf(c) \ InUse)

registerWaiter(c, id) ==
    /\ call' = [call EXCEPT ![c] = [id |-> id, at |-> "waiting", signal |-> NULL]]
    /\ waiters' = [waiters EXCEPT ![id] = c]

send(c, id) ==
    toMonitor' = IF silent \/ Cardinality(toMonitor) = MaxUnanswered THEN toMonitor
                 ELSE toMonitor \union {[id |-> id, of |-> c, live |-> TRUE]}

CallBegins(c) ==
    /\ conn = "up"
    /\ call[c] = NULL
    /\ LET id == lastTransactionID(c) IN registerWaiter(c, id) /\ send(c, id)
    /\ UNCHANGED <<conn, ctxDone, silent, handler, failing>>

\* The message cannot be sent, so the waiter goes again.  Nobody has seen its id.
SendFails(c) ==
    /\ conn = "up"
    /\ call[c] = NULL
    /\ Checked(c, FALSE, toMonitor)
    /\ UNCHANGED <<silent, waiters, call, handler>>

\* The timer wins; it may even when there is an answer by now.
TimerFires(c) ==
    /\ call[c] # NULL
    /\ call[c].at = "waiting"
    /\ call' = [call EXCEPT ![c].at = "leaving"]
    /\ UNCHANGED <<conn, ctxDone, silent, waiters, toMonitor, handler, failing>>

Returns(c, ok) ==
    /\ call' = [call EXCEPT ![c] = NULL]
    /\ Checked(c, ok, {IF m.id = call[c].id THEN [m EXCEPT !.live = FALSE] ELSE m : m \in toMonitor})
    /\ UNCHANGED <<silent, handler>>

Receive(c) ==
    /\ call[c] # NULL
    /\ call[c].at = "waiting"
    /\ call[c].signal # NULL
    /\ Returns(c, call[c].signal # Error)
    /\ UNCHANGED waiters

unregisterWaiter(c) ==
    /\ call[c] # NULL
    /\ call[c].at = "leaving"
    /\ waiters' = [waiters EXCEPT ![call[c].id] = NULL]
    /\ Returns(c, FALSE)

(***************************************************************************)
(* HandleMessage and run                                                   *)
(***************************************************************************)
\* HandleMessage returned an error.
Stops ==
    /\ handler' = HandlerAt("stopped")
    /\ IF ctxDone THEN goOn ELSE exit

\* The websocket is closed or broken, or a message has no type or no id.
ReadFails ==
    /\ conn \in {"up", "closed"}
    /\ handler.at = "reading"
    /\ Stops
    /\ UNCHANGED <<silent, waiters, call, failing>>

Reading == conn = "up" /\ handler.at = "reading" /\ ~silent

HasWaiter(id) == waiters[id] # NULL

\* Only the call that registered the waiter has the other end of its channel.
Signal(id, signal) ==
    /\ call' = IF call[waiters[id]] # NULL /\ call[waiters[id]].id = id
               THEN [call EXCEPT ![waiters[id]].signal = signal] ELSE call
    /\ waiters' = [waiters EXCEPT ![id] = NULL]

\* An id that nobody waits for is reported to the monitor.
handleAnswer(m, signal) ==
    IF HasWaiter(m.id) THEN Signal(m.id, signal) ELSE UNCHANGED <<call, waiters>>

\* The switch: an answer of any type, an error of the monitor, a warning, or what cannot be understood
\* ("bad" is not what its type says).  What is reported to the monitor may fail to be sent.
HandleMessage(m, type, writeFails) ==
    /\ Reading
    /\ toMonitor' = toMonitor \ {m}
    /\ CASE type = "answer" -> handleAnswer(m, [of |-> m.of, live |-> m.live])
         [] type = "InternalError" -> handleAnswer(m, Error)
         [] OTHER -> UNCHANGED <<call, waiters>>
    /\ LET answer == type \in {"answer", "InternalError"}
           reports == type = "unknown" \/ (answer /\ ~HasWaiter(m.id))
       IN  handler' = [at |-> "deferred", id |-> IF answer \/ ~HasWaiter(m.id) THEN NULL ELSE m.id,
                       failed |-> type = "bad" \/ (reports /\ writeFails)]
    /\ UNCHANGED <<conn, ctxDone, silent, failing>>

\* The deferred function: whoever still waits for this id gets an error.
Deferred ==
    /\ handler.at = "deferred"
    /\ IF handler.id # NULL /\ HasWaiter(handler.id) THEN Signal(handler.id, Error) ELSE UNCHANGED <<call, waiters>>
    /\ IF handler.failed THEN Stops ELSE handler' = HandlerAt("reading") /\ goOn
    /\ UNCHANGED <<silent, failing>>

(***************************************************************************)
(* The monitor may fall silent for good.  What it asks for by itself (more *)
(* resources) comes with odd ids and touches no waiter.                    *)
(***************************************************************************)
FallsSilent ==
    /\ conn = "up"
    /\ ~silent
    /\ silent' = TRUE
    /\ toMonitor' = {}
    /\ UNCHANGED <<conn, ctxDone, waiters, call, handler, failing>>

(***************************************************************************)
(* The specification                                                       *)
(***************************************************************************)
DispatcherNext ==
    \/ connectToMonitor \/ Cancel \/ ContextDone \/ TimePasses
    \/ \E c \in Callers :
          CallBegins(c) \/ SendFails(c) \/ TimerFires(c) \/ Receive(c) \/ unregisterWaiter(c)
    \/ \E m \in toMonitor, writeFails \in BOOLEAN :
          \E type \in {"answer", "InternalError", "InvalidMessage", "bad", "unknown"} :
              HandleMessage(m, type, writeFails)
    \/ ReadFails \/ Deferred \/ FallsSilent

DispatcherSpec == DispatcherInit /\ [][DispatcherNext]_vars

\* The agent's goroutines and timers go on, the health checks' ticker among them.  The executor
\* need not call, and the monitor owes nothing.
DispatcherFairness ==
    /\ WF_vars(ContextDone)
    /\ WF_vars(TimePasses)
    /\ WF_vars(CallBegins("health") \/ SendFails("health"))
    /\ \A c \in Callers : WF_vars(TimerFires(c) \/ Receive(c) \/ unregisterWaiter(c))
    /\ WF_vars(Deferred)

(***************************************************************************)
(* Correctness                                                             *)
(***************************************************************************)
\* What Call returns without an error is what the monitor answered to the very message that it sent:
\* never what comes late for an earlier call that timed out, nor what was meant for another caller.
\* That the answer is of the right type is left to the monitor.  And no call leaves its waiter behind.
AnswersMatchCalls ==
    /\ \A c \in Callers : (call[c] # NULL /\ call[c].signal # NULL /\ call[c].signal # Error)
                              => call[c].signal = [of |-> c, live |-> TRUE]
    /\ \A id \in DOMAIN waiters : waiters[id] # NULL => call[waiters[id]] # NULL /\ call[waiters[id]].id = id

\* A monitor that does not answer any more is disconnected: its health checks fail for long
\* enough, whatever became of earlier ones and whatever the executor calls meanwhile.
SilentMonitorIsDropped == []<>~(conn = "up" /\ silent)
=============================================================================
