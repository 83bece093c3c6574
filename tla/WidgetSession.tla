---------------------------- MODULE WidgetSession ----------------------------
(***************************************************************************)
(* One session of the authentication widget: the WidgetContext, its state  *)
(* machine WidgetScheduleNodeImpl, its entry in WidgetClient, its dialog   *)
(* and the child authentications it starts.                                *)
(*                                                                         *)
(* The event thread starts and stops the context and dispatches the events *)
(* of the machine; binder threads bring the notices of the dialog, the     *)
(* results of the children and the loss of the dialog; the timer thread    *)
(* runs the watchdog.  Each of them works under mutex_ of the context or   *)
(* only appends events, so one call is one step.                           *)
(*                                                                         *)
(* The record w is the session.  A method that changes it is an operator   *)
(* from session to session, so that a handler reads as the calls it makes. *)
(***************************************************************************)
EXTENDS Integers, Sequences, FiniteSets

CONSTANTS
    Types,        \* the authentication types a dialog can offer
    Sessions,     \* the sessions that are explored: how they are opened, with which
                  \* types, and the bound on the notices and tips of each
    Attempts,     \* bound on the children of one type that are alive together
    MaxReloads    \* bound on the rotations among the notices

ASSUME SessionAssumption ==
  /\ IsFiniteSet(Types)
  /\ Sessions \subseteq [mode : {"widget", "remote", "direct"}, types : SUBSET Types \ {{}}, notices : Nat]
  /\ Attempts \in Nat
  /\ MaxReloads \in Nat

\* A child context is one attempt at a type.
Children == Types \X (1..Attempts)
TypeOf(c) == c[1]

VARIABLES
    para,      \* what the caller asked for
    w,         \* the session
    notices,   \* notices and tips so far
    reloads    \* rotations so far

vars == <<para, w, notices, reloads>>

States == {"INIT", "PARAM_WAITING", "WAITING", "AUTH_RUNNING", "RELOAD_WAITING",
           "AUTH_FINISHED", "RELEASED"}

Events == {"GET_PARAM", "START_WIDGET", "START_DIRECT", "START_AUTH", "UPDATE_AUTH",
           "COMPLETE_AUTH", "STOP_AUTH", "CANCEL_AUTH", "NAVI_PIN", "PARA_INVALID",
           "NOTICE_COMPLETE", "RELOAD", "RELEASE"}

\* FAIL stands for every error the session does not tell apart.
Codes == {"SUCCESS", "CANCELED", "TRUST_LEVEL_NOT_SUPPORT", "CANCELED_FROM_WIDGET",
          "INVALID_PARAMETERS", "LOCKED", "COMPLEXITY_CHECK_FAILED", "FAIL"}

\* How the dialog reacts to a locked biometric type: a single face or
\* fingerprint fails, a navigation button leads to the PIN, else the type stops.
OnLocked == {"fail", "navigate", "stop"}

\* The dialog is a system dialog behind connection_, or the calling application
\* shows it itself.
Displays == {"system", "application"}

Paras ==
  {p \in [mode : {s.mode : s \in Sessions}, types : {s.types : s \in Sessions},
           notices : {s.notices : s \in Sessions}, locked : OnLocked, display : Displays] :
     /\ [mode |-> p.mode, types |-> p.types, notices |-> p.notices] \in Sessions
     /\ p.mode = "direct" => Cardinality(p.types) = 1 /\ p.locked = "stop" /\ p.display = "system"
     /\ p.locked = "fail" => Cardinality(p.types) = 1}

NewSession ==
  [phase    |-> "NOT_STARTED",                \* STOPPING is left in the step that enters it
   fsm      |-> "INIT",                       \* state of the machine
   queue    |-> <<>>,                         \* pendingEvents_
   running  |-> {},                           \* runningAuthTypeSet_
   toStart  |-> {},                           \* startAuthTypeList_
   toStop   |-> {},                           \* stopAuthTypeList_
   told     |-> "FAIL",                       \* resultCode_ of the dialog
   asked    |-> FALSE,                        \* the remote side owes the parameters
   tasks    |-> {},                           \* runTaskInfoList_
   child    |-> [c \in Children |-> "none"],  \* the children in the pool
   active   |-> 0,                            \* activeChildCount_
   error    |-> "FAIL",                       \* latestError_
   verdict  |-> "none",                       \* what filled authResultInfo_
   released |-> FALSE,                        \* scheduleReleased_
   timer    |-> FALSE,                        \* onTerminateTimerId_
   listed   |-> FALSE,                        \* in scheduleMap_ of WidgetClient
   current  |-> "none",                       \* whose schedule_ WidgetClient holds
   conn     |-> FALSE,                        \* connection_, the dialog
   shown    |-> FALSE,                        \* a dialog has been given the context id
   results  |-> <<>>]                         \* answers to the caller

Init ==
  /\ para \in Paras
  /\ w = NewSession
  /\ notices = 0
  /\ reloads = 0

-------------------------------------------------------------------------------
(* WidgetClient and the end of a session *)

Ended(s) == s.phase \in {"RESULT_DELIVERED", "RELEASED"}

Kick(s, e) == [s EXCEPT !.queue = Append(@, e)]

\* Nothing to clear once the entry is gone.
ClearScheduleOfClient(s) ==
  IF s.listed
  THEN [Kick(Kick(s, "CANCEL_AUTH"), "RELEASE") EXCEPT
           !.listed = FALSE, !.current = IF @ = "this" THEN "none" ELSE @]
  ELSE s

DisconnectExtension(s) == [Kick(s, "CANCEL_AUTH") EXCEPT !.conn = FALSE]

\* Mutant: the children are taken off the list and not cancelled.
CancelForgotten(s, cs) == [s EXCEPT !.tasks = @ \ cs]

\* ContextPool::Cancel of the tasks in cs; one that is over is no longer pooled.
CancelTasks(s, cs) ==
  [s EXCEPT !.tasks = @ \ cs,
            !.child = [c \in Children |-> IF c \in cs /\ @[c] = "live" THEN "cancelled" ELSE @[c]]]

\* Mutant: a success leaves the other children alone.
StopUnlessSuccess(s, code) ==
  IF code = "SUCCESS" THEN s ELSE DisconnectExtension(CancelTasks(s, s.tasks))

StopAllRunTask(s, code) ==
  LET idle == CancelTasks(s, s.tasks)
  IN IF code = "SUCCESS" THEN idle ELSE DisconnectExtension(idle)

\* ContextPool::Delete drops the context, and with it the machine and its events.
Deleted(s) ==
  [s EXCEPT !.queue = <<>>, !.running = {}, !.toStart = {}, !.toStop = {}, !.tasks = {}]

\* A session that ends without an answer owes the caller one.
EndLocked(s) ==
  LET gone == Deleted(ClearScheduleOfClient([s EXCEPT !.phase = "RELEASED", !.timer = FALSE]))
  IN CASE s.phase = "RELEASED" -> s
       [] s.phase = "RESULT_DELIVERED" -> gone
       [] OTHER -> [gone EXCEPT !.results = Append(@, "CANCELED")]

\* Mutant: the answer does not arm the watchdog.
DeliverUnwatched(s, code) ==
  [s EXCEPT !.phase = "RESULT_DELIVERED", !.results = Append(@, code)]

TryEndLocked(s) ==
  IF ~s.released THEN s
  ELSE IF s.active > 0 /\ ~Ended(s) THEN [s EXCEPT !.timer = TRUE]
  ELSE EndLocked(s)

DeliverEndLocked(s, code) ==
  [s EXCEPT !.phase = "RESULT_DELIVERED", !.results = Append(@, code), !.timer = TRUE]

\* Mutant: End without the phase check.
EndAgain(s, code) == TryEndLocked(DeliverEndLocked(StopAllRunTask(s, code), code))

End(s, code) ==
  IF Ended(s) THEN s
  ELSE TryEndLocked(DeliverEndLocked(StopAllRunTask(s, code), code))

OnStartFailed(s, code) ==
  EndLocked([s EXCEPT !.phase = "RESULT_DELIVERED", !.results = Append(@, code)])

-------------------------------------------------------------------------------
(* Results of the children *)

StopAuthList(s, types) == Kick([s EXCEPT !.toStop = types], "UPDATE_AUTH")

NotifyAuthFail(s) == Kick(s, "STOP_AUTH")

\* NotifyAuthFail or NotifyAuthSuccess and then ClearSchedule of a direct session.
Finish(s, e) == IF para.mode = "direct" THEN Kick(Kick(s, e), "RELEASE") ELSE Kick(s, e)

\* Mutant: a success is treated as the end of its type only.
ProcSuccessAsEnd(s, outcome) == StopAuthList([s EXCEPT !.verdict = outcome], {})

ProcAuthSuccess(s, outcome) ==
  Finish([s EXCEPT !.verdict = outcome,
                   !.error = IF outcome = "complexity" THEN "COMPLEXITY_CHECK_FAILED" ELSE @],
         "COMPLETE_AUTH")

ProcAuthFailure(s, t, outcome) ==
  LET failed == [s EXCEPT !.error = "FAIL"]
  IN CASE para.mode = "direct" -> Finish(failed, "STOP_AUTH")
       [] outcome = "locked" /\ para.locked = "fail" -> NotifyAuthFail([s EXCEPT !.error = "LOCKED"])
       [] outcome = "locked" /\ para.locked = "navigate" -> Kick(failed, "NAVI_PIN")
       [] OTHER -> StopAuthList(failed, {t})

ProcAuthResult(s, t, outcome) ==
  IF outcome \in {"success", "complexity"}
  THEN ProcAuthSuccess(s, outcome)
  ELSE ProcAuthFailure(s, t, outcome)

OnChildTerminated(s) ==
  LET left == [s EXCEPT !.active = IF @ > 0 THEN @ - 1 ELSE 0]
  IN IF left.active = 0 /\ s.phase # "RELEASED" THEN TryEndLocked(left) ELSE left

OnChildAuthResult(s, t, outcome) ==
  OnChildTerminated(IF s.phase = "RELEASED" THEN s ELSE ProcAuthResult(s, t, outcome))

-------------------------------------------------------------------------------
(* Handlers of the machine: from a session to the sessions it may leave *)

\* Attempts at t that are over and that no list mentions any more.
Free(s, t) == {n \in 1..Attempts : s.child[<<t, n>>] \in {"none", "done"} /\ <<t, n>> \notin s.tasks}

NextAttempt(s, t) == <<t, CHOOSE n \in Free(s, t) : \A m \in Free(s, t) : n <= m>>

\* BuildTask succeeds for these types.
Launch(s, types) ==
  LET new == {NextAttempt(s, t) : t \in types}
  IN [s EXCEPT !.active = @ + Cardinality(types),
               !.tasks = @ \cup new,
               !.child = [c \in Children |-> IF c \in new THEN "live" ELSE @[c]]]

\* BuildTask is refused for these types, last for the last of them: each refusal
\* is reported as the result of a child that was counted in and is counted out.
Refuse(s, types, last) ==
  LET more == Cardinality(types) - 1
      first == ProcAuthFailure(s, last, "fail")
  IN [first EXCEPT !.queue = @ \o [i \in 1..more |-> "UPDATE_AUTH"]]

ExecuteAuthList(s, types) ==
  IF Ended(s) THEN {s}
  ELSE {Launch(s, types)} \cup
       {Refuse(Launch(s, types \ p[1]), p[1], p[2]) :
          p \in {q \in (SUBSET types) \X types : q[2] \in q[1]}}

\* OnStartAuth and OnStartDirectAuth.
OnStartAuth(s) ==
  ExecuteAuthList([s EXCEPT !.running = @ \cup s.toStart], s.toStart \ s.running)

\* A type has at most one task: it loses its entry when it leaves the running set.
OnStopAuthList(s) ==
  LET stopped == {c \in s.tasks : TypeOf(c) \in s.toStop}
  IN {CancelTasks([s EXCEPT !.running = @ \ s.toStop], stopped)}

\* StopSchedule, when the dialog could not be opened.
LaunchFailed(s) == Kick(s, "CANCEL_AUTH")

\* ConnectExtensionAbility keeps the connection object even if it fails, and
\* refuses a second one.
ConnectExtensionAbility(s) ==
  IF s.conn THEN {LaunchFailed(s)}
  ELSE {[s EXCEPT !.conn = TRUE, !.shown = TRUE], LaunchFailed([s EXCEPT !.conn = TRUE])}

\* The profiles or the command cannot be had, the lock screen forbids a dialog,
\* the single type is locked out, or the dialog is opened.
ConnectExtension(s) ==
  {LaunchFailed(s), End(s, "CANCELED")}
  \cup (IF para.locked = "fail" THEN {End(s, "LOCKED")} ELSE {})
  \cup (IF para.display = "application" THEN {[s EXCEPT !.shown = TRUE]} ELSE ConnectExtensionAbility(s))

OnStartSchedule(s) == IF Ended(s) THEN {LaunchFailed(s)} ELSE ConnectExtension(s)

OnWidgetReload(s) == ConnectExtension(s)

OnWidgetReloadInit(s) == {DisconnectExtension(s)}

\* EndAuthAsCancel; its second early return only meets sessions that have ended.
OnStopSchedule(s) ==
  {End(s, IF s.error = "COMPLEXITY_CHECK_FAILED" THEN "TRUST_LEVEL_NOT_SUPPORT" ELSE "CANCELED")}

\* OnSuccessAuth and OnFailAuth also erase a type from the running set, which
\* nothing reads in AUTH_FINISHED.
OnSuccessAuth(s) ==
  {End(s, IF s.error = "COMPLEXITY_CHECK_FAILED" THEN "TRUST_LEVEL_NOT_SUPPORT" ELSE "SUCCESS")}

OnFailAuth(s) == {End(s, s.error)}

\* A success of the dialog still needs the enrolled state of the engine.
OnSendAuthResult(s) ==
  IF s.told = "SUCCESS"
  THEN LET filled == [s EXCEPT !.verdict = "success"] IN {End(filled, "SUCCESS"), End(filled, "FAIL")}
  ELSE {End(s, s.told)}

\* ClearSchedule of the context.
OnWidgetRelease(s) == {TryEndLocked([s EXCEPT !.released = TRUE])}

OnGetRemoteAuthParam(s) == {[s EXCEPT !.asked = TRUE]}

Transitions ==
  {<<"INIT", "GET_PARAM", "PARAM_WAITING">>, <<"INIT", "START_WIDGET", "WAITING">>,
   <<"INIT", "START_DIRECT", "AUTH_RUNNING">>, <<"INIT", "RELEASE", "RELEASED">>,
   <<"PARAM_WAITING", "START_WIDGET", "WAITING">>, <<"PARAM_WAITING", "CANCEL_AUTH", "RELEASED">>,
   <<"WAITING", "START_AUTH", "AUTH_RUNNING">>,
   <<"AUTH_RUNNING", "START_AUTH", "AUTH_RUNNING">>, <<"AUTH_RUNNING", "UPDATE_AUTH", "AUTH_RUNNING">>,
   <<"AUTH_RUNNING", "COMPLETE_AUTH", "AUTH_FINISHED">>, <<"AUTH_RUNNING", "STOP_AUTH", "AUTH_FINISHED">>,
   <<"RELOAD_WAITING", "CANCEL_AUTH", "WAITING">>, <<"RELOAD_WAITING", "RELEASE", "RELEASED">>,
   <<"AUTH_FINISHED", "RELEASE", "RELEASED">>}
  \cup {<<q, e, "AUTH_FINISHED">> : q \in {"WAITING", "AUTH_RUNNING"},
          e \in {"CANCEL_AUTH", "NAVI_PIN", "NOTICE_COMPLETE", "PARA_INVALID"}}
  \cup {<<q, "RELOAD", "RELOAD_WAITING">> : q \in {"WAITING", "AUTH_RUNNING"}}
  \cup {<<q, "RELEASE", "RELEASED">> : q \in {"WAITING", "AUTH_RUNNING"}}

Handle(s, e) ==
  CASE e = "GET_PARAM"       -> OnGetRemoteAuthParam(s)
    [] e = "START_WIDGET"    -> OnStartSchedule(s)
    [] e \in {"START_DIRECT", "START_AUTH"} -> OnStartAuth(s)
    [] e = "UPDATE_AUTH"     -> OnStopAuthList(s)
    [] e = "COMPLETE_AUTH"   -> OnSuccessAuth(s)
    [] e = "STOP_AUTH"       -> OnFailAuth(s)
    [] e = "CANCEL_AUTH"     -> IF s.fsm = "RELOAD_WAITING" THEN OnWidgetReload(s) ELSE OnStopSchedule(s)
    [] e = "NAVI_PIN"        -> {End(s, "CANCELED_FROM_WIDGET")}
    [] e = "PARA_INVALID"    -> {End(s, "INVALID_PARAMETERS")}
    [] e = "NOTICE_COMPLETE" -> OnSendAuthResult(s)
    [] e = "RELOAD"          -> OnWidgetReloadInit(s)
    [] e = "RELEASE"         -> OnWidgetRelease(s)

-------------------------------------------------------------------------------
(* The event thread *)

\* OnStart: the machine exists and the client knows it before the first event.
Opened(s) ==
  LET known == [s EXCEPT !.phase = "RUNNING", !.listed = TRUE, !.current = "this"]
  IN CASE para.mode = "direct" ->
            Kick(Kick([known EXCEPT !.toStart = para.types], "START_AUTH"), "START_DIRECT")
       [] para.mode = "remote" -> Kick(known, "GET_PARAM")
       [] para.mode = "widget" -> Kick(known, "START_WIDGET")

Start ==
  /\ w.phase = "NOT_STARTED"
  /\ w' \in {Opened(w), OnStartFailed(w, "FAIL")}
  /\ UNCHANGED <<para, notices, reloads>>

StopBeforeStart ==
  /\ w.phase = "NOT_STARTED"
  /\ w' = OnStartFailed(w, "CANCELED")
  /\ UNCHANGED <<para, notices, reloads>>

\* A released context is no longer in the pool.
Stop ==
  /\ w.phase \in {"RUNNING", "RESULT_DELIVERED"}
  /\ w' = ClearScheduleOfClient(End(w, "CANCELED"))
  /\ UNCHANGED <<para, notices, reloads>>

\* The machine acts through a weak pointer to the context.
Dispatch ==
  /\ w.phase # "RELEASED"
  /\ w.queue # <<>>
  /\ LET e == Head(w.queue)
         s == [w EXCEPT !.queue = Tail(@)]
     IN \E next \in States :
          /\ <<s.fsm, e, next>> \in Transitions
          /\ \E after \in Handle(s, e) : w' = [after EXCEPT !.fsm = next]
  /\ UNCHANGED <<para, notices, reloads>>

\* An event without a transition is popped and forgotten.
Ignore ==
  /\ w.phase # "RELEASED"
  /\ w.queue # <<>>
  /\ \A next \in States : <<w.fsm, Head(w.queue), next>> \notin Transitions
  /\ w' = [w EXCEPT !.queue = Tail(@)]
  /\ UNCHANGED <<para, notices, reloads>>

-------------------------------------------------------------------------------
(* The timer thread *)

Watchdog ==
  /\ w.timer
  /\ w' = EndLocked([w EXCEPT !.active = 0])
  /\ UNCHANGED <<para, notices, reloads>>

-------------------------------------------------------------------------------
(* The children *)

ChildResult(c, outcome) ==
  /\ w.child[c] \in {"live", "cancelled"}
  /\ w' = OnChildAuthResult([w EXCEPT !.child[c] = "done"], TypeOf(c), outcome)
  /\ UNCHANGED <<para, notices, reloads>>

\* A single attempt failed and locked the type.
ChildTip(c) ==
  /\ w.child[c] \in {"live", "cancelled"}
  /\ w.phase # "RELEASED"
  /\ para.locked # "stop"
  /\ notices < para.notices
  /\ notices' = notices + 1
  /\ w' = IF para.locked = "fail"
          THEN NotifyAuthFail([w EXCEPT !.error = "LOCKED"])
          ELSE Kick(w, "NAVI_PIN")
  /\ UNCHANGED <<para, reloads>>

-------------------------------------------------------------------------------
(* The dialog *)

\* The dialog learns the context id and the types from its start command.
\* OnNotice is refused while the client holds no schedule, ProcessNotice when
\* the session of the notice is gone.
Notice(s) ==
  /\ w.shown
  /\ w.listed
  /\ w.current # "none"
  /\ notices < para.notices
  /\ notices' = notices + 1
  /\ w' = s
  /\ UNCHANGED para

\* Keeps the children within Attempts.
MayStart(types) ==
  LET starts == {i \in 1..Len(w.queue) : w.queue[i] \in {"START_AUTH", "START_DIRECT"}}
  IN \A t \in types : Cardinality(Free(w, t)) > Cardinality(starts)

AuthReady(types) ==
  /\ MayStart(types)
  /\ Notice(Kick([w EXCEPT !.toStart = types], "START_AUTH"))
  /\ UNCHANGED reloads

\* A cancel of ALL, or of as many types as the latest session offers.
CancelAll ==
  /\ Notice(Kick(w, "CANCEL_AUTH"))
  /\ UNCHANGED reloads

\* An end, or a cancel of fewer types.
EndTypes(types) ==
  /\ Notice(StopAuthList(w, types))
  /\ UNCHANGED reloads

UserNavigation ==
  /\ Notice(Kick(w, "NAVI_PIN"))
  /\ UNCHANGED reloads

WidgetParaInvalid ==
  /\ Notice(Kick(w, "PARA_INVALID"))
  /\ UNCHANGED reloads

CompleteAuth(code) ==
  /\ Notice(Kick([w EXCEPT !.told = code], "NOTICE_COMPLETE"))
  /\ UNCHANGED reloads

Reload ==
  /\ reloads < MaxReloads
  /\ reloads' = reloads + 1
  /\ Notice(Kick(w, "RELOAD"))

ProcessTerminate ==
  /\ Notice(ClearScheduleOfClient(w))
  /\ UNCHANGED reloads

\* The parameters a remote session waits for.
SetRemoteAuthParam ==
  /\ w.asked
  /\ w.phase # "RELEASED"
  /\ notices < para.notices
  /\ notices' = notices + 1
  /\ w' = Kick(w, "START_WIDGET")
  /\ UNCHANGED <<para, reloads>>

\* ForceStopAuth: the connection failed or the dialog went away by itself.
DialogLost ==
  /\ w.conn
  /\ w.listed
  /\ w' = ClearScheduleOfClient(w)
  /\ UNCHANGED <<para, notices, reloads>>

\* Another session registers with the client, and clears itself.
OtherSessionOpens ==
  /\ w.phase \in {"RUNNING", "RESULT_DELIVERED"}
  /\ w.current # "other"
  /\ w' = [w EXCEPT !.current = "other"]
  /\ UNCHANGED <<para, notices, reloads>>

OtherSessionEnds ==
  /\ w.current = "other"
  /\ w' = [w EXCEPT !.current = "none"]
  /\ UNCHANGED <<para, notices, reloads>>

Outcomes == {"success", "complexity", "fail", "locked"}

Next ==
  \/ Start \/ StopBeforeStart \/ Stop \/ Dispatch \/ Ignore \/ Watchdog
  \/ \E c \in Children : ChildTip(c) \/ \E o \in Outcomes : ChildResult(c, o)
  \/ \E types \in SUBSET para.types \ {{}} : AuthReady(types) \/ EndTypes(types)
  \/ CancelAll \/ UserNavigation \/ WidgetParaInvalid \/ Reload \/ ProcessTerminate
  \/ \E code \in {"SUCCESS", "FAIL"} : CompleteAuth(code)
  \/ SetRemoteAuthParam \/ DialogLost \/ OtherSessionOpens \/ OtherSessionEnds

Spec == Init /\ [][Next]_vars

\* The event thread drains its queue and the timer thread fires what is armed.
Fairness == WF_vars(Dispatch) /\ WF_vars(Ignore) /\ WF_vars(Watchdog)

FairSpec == Spec /\ Fairness

-------------------------------------------------------------------------------
(* Properties *)

\* WidgetContext::End, OnStartFailed and EndLocked each may answer the caller:
\* whichever of the event, binder and timer threads gets there first, the caller
\* has exactly one answer once the phase says so, and none before.
AnsweredOnce == Len(w.results) = IF Ended(w) THEN 1 ELSE 0

\* runningAuthTypeSet_ and runTaskInfoList_ are kept by two objects: no type
\* has two children that both go on, however stops, restarts and results cross.
OneAttemptPerType ==
  \A c, d \in Children :
    w.child[c] = "live" /\ w.child[d] = "live" /\ TypeOf(c) = TypeOf(d) => c = d

\* StopAllRunTask cancels what ExecuteAuthList starts: once the caller is
\* answered, every child that is still alive has been cancelled.  A rotation
\* breaks this: its cancel event swallows the one that would end the session.
NoOrphanChild == Ended(w) /\ reloads = 0 => \A c \in Children : w.child[c] # "live"

\* The watchdog and WidgetClient::ClearSchedule: a session that has answered its
\* caller, or whose dialog has gone in whatever state of its machine, leaves the
\* pool and gives its seat to the next, though its children may never report.
SessionIsReleased ==
  (w.phase = "RESULT_DELIVERED" \/ (w.phase = "RUNNING" /\ ~w.listed)) ~> (w.phase = "RELEASED")

\* ProcAuthResult leaves the answer to an event: a child that succeeded has its
\* session answered, unless a rotation takes the machine where it drops the event.
SuccessIsAnswered == (w.verdict # "none") ~> (Ended(w) \/ reloads > 0)

\* COMPLEXITY_CHECK_FAILED is a failure: a session whose only child result of
\* weight is one does not answer SUCCESS.
ComplexityIsFailure ==
  w.verdict = "complexity" => \A i \in 1..Len(w.results) : w.results[i] # "SUCCESS"
===============================================================================
