----------------------------- MODULE ScheduleNode -----------------------------
(***************************************************************************)
(* One authentication schedule: the finite state machine of                *)
(* ScheduleNodeImpl, driven on the service's single event thread, while    *)
(* binder threads (StopSchedule, ContinueSchedule), the timer thread and   *)
(* the resource pool's listener post events into its queue.                *)
(*                                                                         *)
(* A transition takes two steps.  Begin pops the event and takes the       *)
(* strong references the handler works with; Complete makes the call to    *)
(* the executor, queues the follow-up event and moves the state.  Between  *)
(* the two the event thread waits for the executor, and the other threads  *)
(* go on queueing events in front of the follow-up.                        *)
(***************************************************************************)
EXTENDS Naturals, Sequences

CONSTANTS
    MaxStops,    \* bound on the StopSchedule calls of a schedule
    MaxResults   \* bound on the results the executors send for a schedule

ASSUME BoundsAssumption == MaxStops \in Nat /\ MaxResults \in Nat

Roles == {"collector", "verifier"}

States == {"INIT", "VERIFY_STARING", "COLLECT_STARING", "AUTH_PROCESSING",
           "COLLECT_STOPPING", "VERIFY_STOPPING", "END"}

\* What the threads outside the machine post ...
OuterEvents == {"START_AUTH", "STOP_AUTH", "TIME_OUT", "SCHEDULE_RESULT_RECEIVED"}

\* ... and what the handlers queue for the machine itself.
InnerEvents == {"VERIFY_STARTED_SUCCESS", "VERIFY_STARTED_FAILED",
                "COLLECT_STARTED_SUCCESS", "COLLECT_STARTED_FAILED",
                "COLLECT_STOPPED_SUCCESS", "COLLECT_STOPPED_FAILED",
                "VERIFY_STOPPED_SUCCESS", "VERIFY_STOPPED_FAILED"}

Events == OuterEvents \cup InnerEvents

\* FAIL stands for every error an executor can return.
ExecCodes == {"SUCCESS", "FAIL"}
\* The codes the framework sets by itself.
FwkCodes == {"CANCELED", "TIMEOUT", "GENERAL_ERROR"}
Codes == ExecCodes \cup FwkCodes
NoCode == "none"

Handlers == {"BeginVerifier", "BeginCollector", "EndCollector", "EndVerifier", "nothing"}

Row(s, e, t, h) == [from |-> s, event |-> e, to |-> t, handler |-> h]

\* The table of MakeFiniteStateMachine, one definition per source state.
InitRows ==
  { Row("INIT", "START_AUTH", "VERIFY_STARING", "BeginVerifier") }

VerifyStaringRows ==
  { Row("VERIFY_STARING", "VERIFY_STARTED_SUCCESS", "COLLECT_STARING", "BeginCollector"),
    Row("VERIFY_STARING", "VERIFY_STARTED_FAILED", "END", "nothing"),
    Row("VERIFY_STARING", "SCHEDULE_RESULT_RECEIVED", "END", "nothing"),
    Row("VERIFY_STARING", "STOP_AUTH", "VERIFY_STOPPING", "EndVerifier"),
    Row("VERIFY_STARING", "TIME_OUT", "VERIFY_STOPPING", "EndVerifier") }

\* Mutant: no stop while the collector starts.
CollectStaringIgnoresStop ==
  { Row("COLLECT_STARING", "COLLECT_STARTED_SUCCESS", "AUTH_PROCESSING", "nothing"),
    Row("COLLECT_STARING", "SCHEDULE_RESULT_RECEIVED", "END", "nothing") }

\* There is no row for COLLECT_STARTED_FAILED and none for TIME_OUT.
CollectStaringRows ==
  { Row("COLLECT_STARING", "COLLECT_STARTED_SUCCESS", "AUTH_PROCESSING", "nothing"),
    Row("COLLECT_STARING", "SCHEDULE_RESULT_RECEIVED", "END", "nothing"),
    Row("COLLECT_STARING", "STOP_AUTH", "COLLECT_STOPPING", "EndCollector") }

AuthProcessingRows ==
  { Row("AUTH_PROCESSING", "SCHEDULE_RESULT_RECEIVED", "END", "nothing"),
    Row("AUTH_PROCESSING", "STOP_AUTH", "COLLECT_STOPPING", "EndCollector"),
    Row("AUTH_PROCESSING", "TIME_OUT", "COLLECT_STOPPING", "EndCollector") }

\* Mutant: a collector that fails to stop ends the schedule at once.
CollectStoppingSkipsVerifier ==
  { Row("COLLECT_STOPPING", "SCHEDULE_RESULT_RECEIVED", "END", "nothing"),
    Row("COLLECT_STOPPING", "COLLECT_STOPPED_SUCCESS", "VERIFY_STOPPING", "EndVerifier"),
    Row("COLLECT_STOPPING", "COLLECT_STOPPED_FAILED", "END", "nothing"),
    Row("COLLECT_STOPPING", "TIME_OUT", "VERIFY_STOPPING", "EndVerifier") }

CollectStoppingRows ==
  { Row("COLLECT_STOPPING", "SCHEDULE_RESULT_RECEIVED", "END", "nothing"),
    Row("COLLECT_STOPPING", "COLLECT_STOPPED_SUCCESS", "VERIFY_STOPPING", "EndVerifier"),
    Row("COLLECT_STOPPING", "COLLECT_STOPPED_FAILED", "VERIFY_STOPPING", "EndVerifier"),
    Row("COLLECT_STOPPING", "TIME_OUT", "VERIFY_STOPPING", "EndVerifier") }

VerifyStoppingRows ==
  { Row("VERIFY_STOPPING", "SCHEDULE_RESULT_RECEIVED", "END", "nothing"),
    Row("VERIFY_STOPPING", "VERIFY_STOPPED_SUCCESS", "END", "nothing"),
    Row("VERIFY_STOPPING", "VERIFY_STOPPED_FAILED", "END", "nothing"),
    Row("VERIFY_STOPPING", "TIME_OUT", "END", "nothing") }

Transitions ==
  InitRows \cup VerifyStaringRows \cup CollectStaringRows \cup AuthProcessingRows
    \cup CollectStoppingRows \cup VerifyStoppingRows

\* The event thread executes no row.
Idle == [row |-> Row("none", "none", "none", "none"), locked |-> {}]

VARIABLES
    allInOne,    \* the collector is the verifier
    timed,       \* expiredTime is not zero
    state,       \* currentState_ of the machine
    queue,       \* pendingEvents_ of the machine
    handling,    \* Idle, or the row being executed and the references it locked
    fwk,         \* fwkResultCode_
    exec,        \* executorResultCode_
    timer,       \* "off", "armed", "fired"
    callback,    \* the schedule callback is still set
    pooled,      \* the roles whose node is still the one in the resource pool
    alive,       \* the roles whose weak pointer can still be locked
    begun,       \* the roles BeginExecute was called for
    running,     \* the roles whose BeginExecute succeeded and that saw no EndExecute
    stops,       \* StopSchedule calls so far
    results,     \* ContinueSchedule calls so far
    delivered    \* the codes handed to OnScheduleStoped

config == <<allInOne, timed>>
machine == <<state, queue, handling>>
outcome == <<fwk, exec, callback, delivered>>
nodes == <<pooled, alive>>
work == <<begun, running>>
counts == <<stops, results>>
vars == <<config, machine, outcome, timer, nodes, work, counts>>

\* The roles played by the executor that plays r.
SameNode(r) == IF allInOne THEN Roles ELSE {r}

Started == state # "INIT" \/ queue # <<>> \/ handling # Idle

TypeOK ==
  /\ allInOne \in BOOLEAN
  /\ timed \in BOOLEAN
  /\ state \in States
  /\ queue \in Seq(Events)
  /\ handling \in {Idle} \cup [row : Transitions, locked : SUBSET Roles]
  /\ fwk \in FwkCodes \cup {NoCode}
  /\ exec \in Codes
  /\ timer \in {"off", "armed", "fired"}
  /\ callback \in BOOLEAN
  /\ pooled \subseteq Roles
  /\ alive \subseteq Roles
  /\ begun \subseteq Roles
  /\ running \subseteq Roles
  /\ stops \in 0 .. MaxStops
  /\ results \in 0 .. MaxResults
  /\ delivered \in Seq(Codes)

Init ==
  /\ allInOne \in BOOLEAN
  /\ timed \in BOOLEAN
  /\ state = "INIT"
  /\ queue = <<>>
  /\ handling = Idle
  /\ fwk = NoCode
  /\ exec = "GENERAL_ERROR"
  /\ timer = "off"
  /\ callback = TRUE
  /\ pooled = Roles
  /\ alive = Roles
  /\ begun = {}
  /\ running = {}
  /\ stops = 0
  /\ results = 0
  /\ delivered = <<>>

-------------------------------------------------------------------------------
(* The calls of the other threads.                                         *)

\* TryKickMachine, from outside the machine.
Kick(e) == queue' = Append(queue, e)

\* StartSchedule runs on the event thread itself, so nothing is handled between
\* the kick and StartTimer.
StartSchedule ==
  /\ ~Started
  /\ Kick("START_AUTH")
  /\ timer' = IF timed THEN "armed" ELSE timer
  /\ UNCHANGED <<config, state, handling, outcome, nodes, work, counts>>

\* StopSchedule(errorCode) under mutex_.
Stop(code) ==
  /\ fwk' = code
  /\ Kick("STOP_AUTH")

\* The context cancels the schedule.
StopSchedule ==
  /\ Started
  /\ stops < MaxStops
  /\ stops' = stops + 1
  /\ Stop("CANCELED")
  /\ UNCHANGED <<config, state, handling, exec, callback, delivered, timer, nodes,
                 work, results>>

\* An executor that was asked to begin reports its result; a second report, or
\* one that crosses a stop, is accepted as well.
ContinueSchedule(code) ==
  /\ begun # {}
  /\ results < MaxResults
  /\ results' = results + 1
  /\ exec' = code
  /\ Kick("SCHEDULE_RESULT_RECEIVED")
  /\ UNCHANGED <<config, state, handling, fwk, callback, delivered, timer, nodes,
                 work, stops>>

\* The timer registered by StartTimer fires once.
TimeOut ==
  /\ timer = "armed"
  /\ timer' = "fired"
  /\ fwk' = "TIMEOUT"
  /\ Kick("TIME_OUT")
  /\ UNCHANGED <<config, state, handling, exec, callback, delivered, nodes, work, counts>>

\* The pool deletes the node of r: the listener that StartSchedule registered
\* stops the schedule.  The notification still holds the node.
ResourceNodePoolDelete(r) ==
  /\ r \in pooled
  /\ pooled' = pooled \ SameNode(r)
  /\ IF Started THEN Stop("GENERAL_ERROR") ELSE UNCHANGED <<fwk, queue>>
  /\ UNCHANGED <<config, state, handling, exec, callback, delivered, timer, alive,
                 work, counts>>

\* The executor registers again under the same index: the pool replaces the
\* node and the listener ignores the update.
ResourceNodePoolUpdate(r) ==
  /\ r \in pooled
  /\ pooled' = pooled \ SameNode(r)
  /\ UNCHANGED <<config, machine, outcome, timer, alive, work, counts>>

\* The last strong reference to a node that left the pool goes away.
NodeReleased(r) ==
  /\ r \in alive \ pooled
  /\ handling = Idle
  /\ alive' = alive \ SameNode(r)
  /\ UNCHANGED <<config, machine, outcome, timer, pooled, work, counts>>

-------------------------------------------------------------------------------
(* The event thread.                                                       *)

Enabled(row) == queue # <<>> /\ row.from = state /\ row.event = Head(queue)

\* ScheduleInner finds no transition: the event is consumed without effect.
DropEvent ==
  /\ handling = Idle
  /\ queue # <<>>
  /\ ~\E row \in Transitions : Enabled(row)
  /\ queue' = Tail(queue)
  /\ UNCHANGED <<config, state, handling, outcome, timer, nodes, work, counts>>

\* The roles whose BeginExecute the handler is about to call.
Called(handler, locked) ==
  IF handler = "BeginVerifier" /\ locked = Roles THEN {"verifier"}
  ELSE IF handler = "BeginCollector" /\ locked = Roles /\ ~allInOne THEN {"collector"}
  ELSE {}

\* ScheduleInner pops an event and invokes the row's handler, which locks the
\* weak pointers.  From here on the executor it calls may answer.
Begin(row) ==
  /\ handling = Idle
  /\ Enabled(row)
  /\ queue' = Tail(queue)
  /\ handling' = [row |-> row, locked |-> alive]
  /\ begun' = begun \cup Called(row.handler, alive)
  /\ UNCHANGED <<config, state, outcome, timer, nodes, running, counts>>

\* Mutant: the handler gives up when there is no timer to stop.
FinishedNeedsTimer ==
  /\ timer' = IF timer = "armed" THEN "off" ELSE timer
  /\ callback' = (callback /\ timer # "armed")
  /\ delivered' = IF callback /\ timer = "armed"
                  THEN Append(delivered, IF fwk # NoCode THEN fwk ELSE exec)
                  ELSE delivered

\* Mutant: the executor's code wins over the framework's.
FinishedPrefersExecutor ==
  /\ timer' = IF timer = "armed" THEN "off" ELSE timer
  /\ callback' = FALSE
  /\ delivered' = IF callback THEN Append(delivered, exec) ELSE delivered

\* The enter hook of S_END: stop the timer, hand over the result, drop the callback.
OnScheduleFinished ==
  /\ timer' = IF timer = "armed" THEN "off" ELSE timer
  /\ callback' = FALSE
  /\ delivered' = IF callback
                  THEN Append(delivered, IF fwk # NoCode THEN fwk ELSE exec)
                  ELSE delivered

\* The row's handler returns: the machine moves and runs the enter hook.  The
\* hook of S_AUTH_PROCESSING only tells the context that the schedule started.
Enter ==
  /\ handling' = Idle
  /\ state' = handling.row.to
  /\ IF handling.row.to = "END"
     THEN OnScheduleFinished
     ELSE UNCHANGED <<timer, callback, delivered>>

\* The handler ends with the follow-up e.
Follow(e) == Kick(e) /\ Enter

\* A needed weak pointer is gone.
Invalid(e) ==
  /\ fwk' = "GENERAL_ERROR"
  /\ Follow(e)
  /\ UNCHANGED <<exec, running>>

\* The executor returned an error.
Refuse(e) ==
  /\ exec' = "FAIL"
  /\ Follow(e)
  /\ UNCHANGED <<fwk, running>>

ProcessBeginVerifier ==
  /\ handling.row.handler = "BeginVerifier"
  /\ \/ /\ handling.locked # Roles
        /\ Invalid("VERIFY_STARTED_FAILED")
     \/ /\ handling.locked = Roles
        /\ Refuse("VERIFY_STARTED_FAILED")
     \/ /\ handling.locked = Roles
        /\ running' = running \cup {"verifier"}
        /\ Follow("VERIFY_STARTED_SUCCESS")
        /\ UNCHANGED <<fwk, exec>>

ProcessBeginCollector ==
  /\ handling.row.handler = "BeginCollector"
  /\ \/ /\ handling.locked # Roles
        /\ Invalid("COLLECT_STARTED_FAILED")
     \/ /\ handling.locked = Roles
        /\ ~allInOne
        /\ Refuse("COLLECT_STARTED_FAILED")
     \/ /\ handling.locked = Roles
        /\ running' = IF allInOne THEN running ELSE running \cup {"collector"}
        /\ Follow("COLLECT_STARTED_SUCCESS")
        /\ UNCHANGED <<fwk, exec>>

\* EndExecute is a request: it counts as seen by the executor even when it
\* returns an error.
ProcessEndCollector ==
  /\ handling.row.handler = "EndCollector"
  /\ \/ /\ handling.locked # Roles
        /\ Invalid("COLLECT_STOPPED_FAILED")
     \/ /\ handling.locked = Roles
        /\ ~allInOne
        /\ exec' = "FAIL"
        /\ running' = running \ {"collector"}
        /\ Follow("COLLECT_STOPPED_FAILED")
        /\ UNCHANGED fwk
     \/ /\ handling.locked = Roles
        /\ running' = IF allInOne THEN running ELSE running \ {"collector"}
        /\ Follow("COLLECT_STOPPED_SUCCESS")
        /\ UNCHANGED <<fwk, exec>>

ProcessEndVerifier ==
  /\ handling.row.handler = "EndVerifier"
  /\ \/ /\ "verifier" \notin handling.locked
        /\ Invalid("VERIFY_STOPPED_FAILED")
     \/ /\ "verifier" \in handling.locked
        /\ exec' = "FAIL"
        /\ running' = running \ {"verifier"}
        /\ Follow("VERIFY_STOPPED_FAILED")
        /\ UNCHANGED fwk
     \/ /\ "verifier" \in handling.locked
        /\ running' = running \ {"verifier"}
        /\ Follow("VERIFY_STOPPED_SUCCESS")
        /\ UNCHANGED <<fwk, exec>>

\* A row without a handler.
ProcessNothing ==
  /\ handling.row.handler = "nothing"
  /\ Enter
  /\ UNCHANGED <<queue, fwk, exec, running>>

Complete ==
  /\ handling # Idle
  /\ \/ ProcessBeginVerifier
     \/ ProcessBeginCollector
     \/ ProcessEndCollector
     \/ ProcessEndVerifier
     \/ ProcessNothing
  /\ UNCHANGED <<config, nodes, begun, counts>>

EventThread ==
  \/ DropEvent
  \/ \E row \in Transitions : Begin(row)
  \/ Complete

Next ==
  \/ StartSchedule
  \/ StopSchedule
  \/ \E code \in ExecCodes : ContinueSchedule(code)
  \/ TimeOut
  \/ \E r \in Roles : ResourceNodePoolDelete(r)
  \/ \E r \in Roles : ResourceNodePoolUpdate(r)
  \/ \E r \in Roles : NodeReleased(r)
  \/ EventThread

\* The event thread keeps running and the executors' calls return; nothing is
\* assumed of the callers, of the timer or of the executors' results.
Fairness == WF_vars(EventThread)

Spec == Init /\ [][Next]_vars

FairSpec == Spec /\ Fairness

-------------------------------------------------------------------------------
(* Properties.                                                             *)

Queued(e) == \E i \in 1 .. Len(queue) : queue[i] = e

\* OnScheduleStoped is called exactly when the machine reaches S_END, once,
\* whatever events are left in the queue or arrive later.
ResultExactlyAtEnd ==
  /\ Len(delivered) <= 1
  /\ (delivered # <<>>) <=> (state = "END")

\* A schedule that ends without any result from its executors (stopped, timed
\* out, failed) has ended what it began: no reachable verifier is left running,
\* and with both nodes reachable no collector either.
NothingLeftRunning ==
  state = "END" /\ results = 0 =>
    /\ "verifier" \notin running \cap alive
    /\ alive = Roles => running = {}

\* The schedule as its context sees it: one result, and never SUCCESS when the
\* framework recorded its own result code (stop, timeout, lost executor) first.
Promise == INSTANCE OneShot WITH givenUp <- fwk # NoCode, answers <- delivered

KeepsPromise == Promise!Spec

\* A stop request, from the context or from the pool listener, and a result from
\* an executor end the schedule, whichever handler is running when they arrive.
RequestEndsSchedule ==
  (Queued("STOP_AUTH") \/ Queued("SCHEDULE_RESULT_RECEIVED")) ~> (state = "END")

===============================================================================
