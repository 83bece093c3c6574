------------------------------- MODULE RemoteAuth -------------------------------
(***************************************************************************)
(* An authentication that spans two devices, over one SoftBus connection.  *)
(*                                                                         *)
(* "invoke": the caller and the collector are on O, the verifier is on P.  *)
(*   O's RemoteAuthInvokerContext asks P to authenticate; P's              *)
(*   RemoteAuthContext runs the schedule and sends the result back.        *)
(* "query": the caller and the verifier are on O, the collector is on P.   *)
(*   O's RemoteAuthContext opens the connection and asks P for its         *)
(*   collector first.                                                      *)
(* In both, the verifier's RemoteExecutorProxy stands for the collector    *)
(* and drives a RemoteExecutorStub on the collector's device.              *)
(***************************************************************************)
EXTENDS SoftBus

CONSTANT MaxExtra    \* of the messages an authentication can do without

ASSUME RemoteAuthAssumption == MaxExtra \in Nat

VARIABLES mode,      \* "invoke" or "query"
          invoker,   \* RemoteAuthInvokerContext: "none", "running", "gone"
          verifier,  \* RemoteAuthContext: "none", "start", "connect", "query", "auth", "gone"
          schedule,  \* the verifier's schedule: "none", "running", "fed", "ended"
          stub,      \* RemoteExecutorStub with its holder context: "none", "running", "gone"
          once,      \* what the executors have sent
          answer,    \* what the caller was told last: "success", or "fail" for every error
          untold     \* history: the stub's listener was not registered when the connection went down

authVars == <<mode, invoker, verifier, schedule, stub, once, answer, untold>>
vars == <<busVars, authVars>>

Ver == IF mode = "invoke" THEN "P" ELSE "O"
Col == Other(Ver)

Init ==
  /\ BusInit
  /\ mode \in {"invoke", "query"}
  /\ invoker = "none" /\ verifier = "none" /\ schedule = "none" /\ stub = "none"
  /\ once = {} /\ answer = "none" /\ untold = FALSE

VerifierAlive == verifier \in {"start", "connect", "query", "auth"}
OwnerGone == IF mode = "invoke" THEN invoker = "gone" ELSE verifier = "gone"

-------------------------------------------------------------------------------
(* The end of a context: its result is reported, and its destructor        *)
(* withdraws its listeners and closes the connection it opened.            *)

InvokerEndsListening(n, result) ==
  /\ answer' = result /\ invoker' = "gone"
  /\ connTasks' = Append(connTasks, "close")
  /\ net' = n /\ UNCHANGED listeners

InvokerEndsUnclosed(n, result) ==
  /\ answer' = result /\ invoker' = "gone"
  /\ listeners' = [listeners EXCEPT !["O"] = @ \ {"CONTEXT"}]
  /\ net' = n /\ UNCHANGED connTasks

InvokerEnds(n, result) ==
  /\ answer' = result /\ invoker' = "gone"
  /\ listeners' = [listeners EXCEPT !["O"] = @ \ {"CONTEXT"}]
  /\ connTasks' = Append(connTasks, "close")
  /\ net' = n

\* With the verifier on P the result travels back (RemoteIamCallback); if it cannot be
\* sent it is lost.  The proxy and the schedule go with the context.
VerifierEnds(n, result) ==
  /\ verifier' = "gone" /\ schedule' = "ended"
  /\ listeners' = [listeners EXCEPT ![Ver] = @ \ (IF mode = "query" THEN {"CONTEXT", "PROXY"} ELSE {"PROXY"})]
  /\ IF mode = "query"
     THEN /\ answer' = result /\ connTasks' = Append(connTasks, "close")
          /\ net' = n /\ UNCHANGED once
     ELSE /\ net' = SendRequest(n, "P", "RESULT")
          /\ once' = IF result = "success" THEN once \cup {"signed"} ELSE once
          /\ UNCHANGED <<answer, connTasks>>

Extra(kind) == kind = "COLLECTED" \/ Cardinality(once \ {"COLLECTED", "signed"}) < MaxExtra

\* RemoteExecutorStub's destructor: the listener and the holder context go.
StubEnds ==
  /\ stub' = "gone"
  /\ listeners' = [listeners EXCEPT ![Col] = @ \ {"STUB"}]

-------------------------------------------------------------------------------
(* Starting.                                                               *)

\* RemoteAuthInvokerContext::OnStart: the listener, then the connection.
InvokerStarts ==
  /\ mode = "invoke" /\ invoker = "none"
  /\ invoker' = "running"
  /\ listeners' = [listeners EXCEPT !["O"] = @ \cup {"CONTEXT"}]
  /\ connTasks' = Append(connTasks, "open")
  /\ UNCHANGED <<net, tasks, closing, faults, mode, verifier, schedule, stub, once, answer, untold>>

\* A device id that is not known ends the context before its listener is registered.
InvokerStartFails ==
  /\ mode = "invoke" /\ invoker = "none"
  /\ InvokerEnds(net, "fail")
  /\ UNCHANGED <<tasks, closing, faults, mode, verifier, schedule, stub, once, untold>>

\* RemoteAuthContext::OnStart without the collector's information.
SetupConnection ==
  /\ mode = "query" /\ verifier = "none"
  /\ verifier' = "connect"
  /\ listeners' = [listeners EXCEPT !["O"] = @ \cup {"CONTEXT"}]
  /\ connTasks' = Append(connTasks, "open")
  /\ UNCHANGED <<net, tasks, closing, faults, mode, invoker, schedule, stub, once, answer, untold>>

Task(d, task) == tasks[d] # <<>> /\ Head(tasks[d]) = task
TaskDone(d) == tasks' = [tasks EXCEPT ![d] = Tail(@)]

ContextAlive == IF mode = "invoke" THEN invoker = "running" ELSE VerifierAlive

\* RemoteMsgUtil: the request with the parameters, and what this device's collector can
\* do; the same as an answer to a query (found: there is a collector).
StartRequest(n) == SendRequest(n, "O", "START")
ExecutorInfoReply(n, d, found) == SendResponse(n, d, "QUERY", found)

\* OnConnectStatus: once connected the invoker sends START_REMOTE_AUTH.
InvokerConnected(found) ==
  /\ mode = "invoke" /\ Task("O", <<"CONTEXT", "up">>) /\ ContextAlive /\ TaskDone("O")
  /\ IF found /\ CanSend(net, "O")
     THEN net' = StartRequest(net) /\ UNCHANGED <<listeners, connTasks, invoker, answer>>
     ELSE InvokerEnds(net, "fail")
  /\ UNCHANGED <<closing, faults, mode, verifier, schedule, stub, once, untold>>

InvokerDisconnected ==
  /\ mode = "invoke" /\ Task("O", <<"CONTEXT", "down">>) /\ ContextAlive /\ TaskDone("O")
  /\ InvokerEnds(net, "fail")
  /\ UNCHANGED <<closing, faults, mode, verifier, schedule, stub, once, untold>>

\* Once connected the verifier asks for the collector: QUERY_EXECUTOR_INFO.
SendQueryExecutorInfoMsg ==
  /\ mode = "query" /\ Task("O", <<"CONTEXT", "up">>) /\ ContextAlive /\ TaskDone("O")
  /\ IF CanSend(net, "O")
     THEN /\ net' = SendRequest(net, "O", "QUERY") /\ verifier' = "query"
          /\ UNCHANGED <<schedule, listeners, connTasks, answer, once>>
     ELSE VerifierEnds(net, "fail")
  /\ UNCHANGED <<closing, faults, mode, invoker, stub, untold>>

VerifierDisconnected ==
  /\ mode = "query" /\ Task("O", <<"CONTEXT", "down">>) /\ ContextAlive /\ TaskDone("O")
  /\ VerifierEnds(net, "fail")
  /\ UNCHANGED <<closing, faults, mode, invoker, stub, untold>>

\* A task that outlives its context holds a weak pointer only.
ContextIsGone ==
  /\ \/ /\ Task("O", <<"CONTEXT", "up">>) \/ Task("O", <<"CONTEXT", "down">>)
        /\ ~ContextAlive /\ TaskDone("O")
     \/ \E t \in {"start", "success", "fail"} :
          Task(Ver, <<"SCHEDULE", t>>) /\ ~VerifierAlive /\ TaskDone(Ver)
  /\ UNCHANGED <<net, listeners, connTasks, closing, faults, authVars>>

\* The caller cancels.
InvokerStops ==
  /\ invoker = "running" /\ InvokerEnds(net, "fail")
  /\ UNCHANGED <<tasks, closing, faults, mode, verifier, schedule, stub, once, untold>>

\* A verifier whose schedule is not begun has nothing to stop: the cancellation is lost.
\* StopSchedule ends the collector's part first.
VerifierStops ==
  /\ mode = "query" /\ schedule \in {"running", "fed"}
  /\ net' = SendRequest(net, Ver, "END") /\ schedule' = "ended"
  /\ tasks' = [tasks EXCEPT ![Ver] = Append(@, <<"SCHEDULE", "fail">>)]
  /\ UNCHANGED <<listeners, connTasks, closing, faults, mode, invoker, verifier, stub, once, answer, untold>>

\* OnTimeOut, three minutes after the start.
InvokerTimesOut ==
  /\ invoker = "running" /\ InvokerEnds(net, "fail")
  /\ UNCHANGED <<tasks, closing, faults, mode, verifier, schedule, stub, once, untold>>

VerifierTimesOut ==
  /\ VerifierAlive /\ VerifierEnds(net, "fail")
  /\ UNCHANGED <<tasks, closing, faults, mode, invoker, stub, untold>>

-------------------------------------------------------------------------------
(* RemoteAuthService and what answers to its requests.                     *)

\* ProcStartRemoteAuthRequest: the context is in the pool, its start a task.
ProcStartRemoteAuthRequest ==
  /\ Arrives("P", "START", "request")
  /\ verifier' = "start"
  /\ tasks' = [tasks EXCEPT !["P"] = Append(@, <<"SCHEDULE", "start">>)]
  /\ net' = SendResponse(Received("P"), "P", "START", TRUE)
  /\ UNCHANGED <<listeners, connTasks, closing, faults, mode, invoker, schedule, stub, once, answer, untold>>

\* Refused: by a malformed request, or by the pool, which also sends a result (failGuard).
StartRemoteAuthContextFails(scheduled) ==
  /\ Arrives("P", "START", "request")
  /\ verifier' = "gone"
  /\ net' = SendResponse(IF scheduled THEN SendRequest(Received("P"), "P", "RESULT") ELSE Received("P"),
                         "P", "START", FALSE)
  /\ UNCHANGED <<listeners, tasks, connTasks, closing, faults, mode, invoker, schedule, stub, once, answer, untold>>

ProcQueryExecutorInfoRequest(found) ==
  /\ Arrives("P", "QUERY", "request")
  /\ net' = ExecutorInfoReply(Received("P"), "P", found)
  /\ UNCHANGED <<listeners, tasks, connTasks, closing, faults, authVars>>

StartAcknowledged(flag) ==
  /\ AckArrives("O", "START", flag)
  /\ IF flag = "fail" /\ invoker = "running"
     THEN InvokerEnds(Acknowledged("O", "START"), "fail")
     ELSE net' = Acknowledged("O", "START") /\ UNCHANGED <<answer, invoker, listeners, connTasks>>
  /\ UNCHANGED <<tasks, closing, faults, mode, verifier, schedule, stub, once, untold>>

QueryAcknowledged(flag) ==
  /\ AckArrives("O", "QUERY", flag)
  /\ IF flag = "fail" /\ VerifierAlive
     THEN VerifierEnds(Acknowledged("O", "QUERY"), "fail") /\ UNCHANGED tasks
     ELSE /\ net' = Acknowledged("O", "QUERY")
          /\ tasks' = IF VerifierAlive THEN [tasks EXCEPT !["O"] = Append(@, <<"SCHEDULE", "start">>)] ELSE tasks
          /\ UNCHANGED <<verifier, schedule, answer, listeners, connTasks, once>>
  /\ UNCHANGED <<closing, faults, mode, invoker, stub, untold>>

\* RemoteExecutorProxy::Start.
ProxyStarts == listeners' = [listeners EXCEPT ![Ver] = @ \cup {"PROXY"}]

\* StartAuth: the proxy listens on the connection and registers as an executor; the
\* schedule starts the verifier, then the collector: the proxy sends BEGIN_EXECUTE.
StartAuth ==
  /\ Task(Ver, <<"SCHEDULE", "start">>) /\ VerifierAlive /\ TaskDone(Ver)
  /\ CanSend(net, Ver)
  /\ verifier' = "auth" /\ schedule' = "running"
  /\ ProxyStarts
  /\ net' = SendRequest(net, Ver, "BEGIN")
  /\ UNCHANGED <<connTasks, closing, faults, mode, invoker, stub, once, answer, untold>>

\* It fails in the engine, or because BEGIN_EXECUTE cannot be sent.
StartAuthFails ==
  /\ Task(Ver, <<"SCHEDULE", "start">>) /\ VerifierAlive /\ TaskDone(Ver)
  /\ VerifierEnds(net, "fail")
  /\ UNCHANGED <<closing, faults, mode, invoker, stub, untold>>

-------------------------------------------------------------------------------
(* The collector's side.                                                   *)

\* ProcBeginExecuteRequest; in the window of DoCloseConnection the listeners were already
\* told, so the new stub never hears of the connection's end.
ProcBeginExecuteRequest ==
  /\ Arrives(Col, "BEGIN", "request")
  /\ stub' = "running" /\ listeners' = [listeners EXCEPT ![Col] = @ \cup {"STUB"}]
  /\ untold' = (closing /\ Col = "O")
  /\ net' = SendResponse(Received(Col), Col, "BEGIN", TRUE)
  /\ UNCHANGED <<tasks, connTasks, closing, faults, mode, invoker, verifier, schedule, once, answer>>

\* The engine or the executor refuses: the stub is released at once.
BeginExecuteFails ==
  /\ Arrives(Col, "BEGIN", "request")
  /\ net' = SendResponse(Received(Col), Col, "BEGIN", FALSE)
  /\ UNCHANGED <<listeners, tasks, connTasks, closing, faults, authVars>>

ProcEndExecuteRequest ==
  /\ Arrives(Col, "END", "request")
  /\ net' = SendResponse(Received(Col), Col, "END", stub = "running")
  /\ IF stub = "running" THEN StubEnds ELSE UNCHANGED <<stub, listeners>>
  /\ UNCHANGED <<tasks, connTasks, closing, faults, mode, invoker, verifier, schedule, once, answer, untold>>

\* The connection went down: the stub's posted end.
StubDisconnected ==
  /\ Task(Col, <<"STUB", "down">>) /\ TaskDone(Col)
  /\ IF stub = "running" THEN StubEnds ELSE UNCHANGED <<stub, listeners>>
  /\ UNCHANGED <<net, connTasks, closing, faults, mode, invoker, verifier, schedule, once, answer, untold>>

\* The schedule the executor finds in the pool while the stub and its context live.
StubNode == stub = "running"

\* The collecting executor sends data (OnMessage), or fails or dies (ContinueSchedule).
ExecutorSends(kind) ==
  /\ kind \in {"COLLECTED", "FINISH"} /\ StubNode /\ kind \notin once /\ Extra(kind)
  /\ once' = once \cup {kind} /\ net' = SendRequest(net, Col, kind)
  /\ UNCHANGED <<listeners, tasks, connTasks, closing, faults, mode, invoker, verifier, schedule, stub, answer, untold>>

\* SEND_DATA_TO_EXECUTOR reaches the executor, or is refused by it or finds it gone.
DataArrives(ok) ==
  /\ Arrives(Col, "DATA", "request") /\ "STUB" \in listeners[Col]
  /\ net' = SendResponse(Received(Col), Col, "DATA", ok)
  /\ UNCHANGED <<listeners, tasks, connTasks, closing, faults, authVars>>

-------------------------------------------------------------------------------
(* The verifier's side.                                                    *)

ScheduleEnds(result) ==
  /\ schedule' = "ended"
  /\ tasks' = [tasks EXCEPT ![Ver] = Append(@, <<"SCHEDULE", result>>)]

\* RemoteExecutorProxy::OnMessage: the data goes to the verifier, FINISH ends the
\* schedule.  If the messenger does not take it, the reply says so and no more is done.
ProxyReceives(kind, ok) ==
  /\ kind \in {"COLLECTED", "FINISH"}
  /\ Arrives(Ver, kind, "request") /\ "PROXY" \in listeners[Ver]
  /\ net' = SendResponse(Received(Ver), Ver, kind, ok)
  /\ \/ ok /\ kind = "COLLECTED" /\ schedule = "running" /\ schedule' = "fed" /\ UNCHANGED tasks
     \/ ok /\ kind = "FINISH" /\ schedule \in {"running", "fed"} /\ ScheduleEnds("fail")
     \/ /\ ok => schedule \notin (IF kind = "FINISH" THEN {"running", "fed"} ELSE {"running"})
        /\ UNCHANGED <<schedule, tasks>>
  /\ UNCHANGED <<listeners, connTasks, closing, faults, mode, invoker, verifier, stub, once, answer, untold>>

\* A refused BEGIN_EXECUTE or data message ends the schedule (OnErrorFinish).
ProxyRequestAcknowledged(kind, flag) ==
  /\ kind \in {"BEGIN", "DATA"} /\ AckArrives(Ver, kind, flag)
  /\ net' = Acknowledged(Ver, kind)
  /\ IF flag = "fail" /\ schedule \in {"running", "fed"}
     THEN ScheduleEnds("fail") ELSE UNCHANGED <<schedule, tasks>>
  /\ UNCHANGED <<listeners, connTasks, closing, faults, mode, invoker, verifier, stub, once, answer, untold>>

\* The verifying executor talks to the collector (OnSendData) or to the caller.
VerifierSends(kind) ==
  /\ kind \in {"DATA", "TIP"} /\ schedule \in {"running", "fed"} /\ kind \notin once
  /\ Extra(kind) /\ (kind = "TIP" => mode = "invoke")
  /\ once' = once \cup {kind} /\ net' = SendRequest(net, Ver, kind)
  /\ UNCHANGED <<listeners, tasks, connTasks, closing, faults, mode, invoker, verifier, schedule, stub, answer, untold>>

\* It decides, once it has the collected data.
VerifierDecides(result) ==
  /\ schedule = "fed" /\ ScheduleEnds(result)
  /\ UNCHANGED <<net, listeners, connTasks, closing, faults, mode, invoker, verifier, stub, once, answer, untold>>

\* The schedule's own timer: the collector is told to end, then the result is due.
ScheduleTimesOut ==
  /\ schedule \in {"running", "fed"}
  /\ net' = SendRequest(net, Ver, "END") /\ ScheduleEnds("fail")
  /\ UNCHANGED <<listeners, connTasks, closing, faults, mode, invoker, verifier, stub, once, answer, untold>>

\* The schedule's result reaches its context, on the event thread.
OnScheduleResult(result) ==
  /\ Task(Ver, <<"SCHEDULE", result>>) /\ VerifierAlive /\ TaskDone(Ver)
  /\ VerifierEnds(net, result)
  /\ UNCHANGED <<closing, faults, mode, invoker, stub, untold>>

-------------------------------------------------------------------------------
(* The invoker hears from the verifier.                                    *)

\* ProcAuthResultMsg.  The code inside a signed result counts; without one the message's
\* own ATTR_RESULT does, of which success alone is turned into an error ("fail" is every
\* other code).  A signed result the engine rejects leaves ATTR_RESULT to be answered as it
\* is, which no message of the verifier in this model brings about.
ProcAuthResultMsg ==
  /\ Arrives("O", "RESULT", "request") /\ "CONTEXT" \in listeners["O"] /\ invoker = "running"
  /\ InvokerEnds(SendResponse(Received("O"), "O", "RESULT", TRUE), IF "signed" \in once THEN "success" ELSE "fail")
  /\ UNCHANGED <<tasks, closing, faults, mode, verifier, schedule, stub, once, untold>>

ProcAuthTipMsg ==
  /\ Arrives("O", "TIP", "request") /\ "CONTEXT" \in listeners["O"] /\ invoker = "running"
  /\ net' = SendResponse(Received("O"), "O", "TIP", TRUE)
  /\ UNCHANGED <<listeners, tasks, connTasks, closing, faults, authVars>>

\* Acknowledgements nobody acts on.
PlainAcknowledged(d, kind, flag) ==
  /\ kind \in {"END", "COLLECTED", "FINISH", "TIP", "RESULT", "KEEP_ALIVE"}
  /\ AckArrives(d, kind, flag)
  /\ net' = Acknowledged(d, kind)
  /\ UNCHANGED <<listeners, tasks, connTasks, closing, faults, authVars>>

-------------------------------------------------------------------------------

SoftBusStep ==
  /\ BusStep
  /\ untold' = (untold \/ (stub = "running" /\ Col = "P" /\ net.named /\ ~net'.server["P"]))
  /\ UNCHANGED <<mode, invoker, verifier, schedule, stub, once, answer>>

Unheard == \/ \E k \in {"TIP", "RESULT"} : NoListener("O", k, "CONTEXT")
           \/ \E k \in {"COLLECTED", "FINISH"} : NoListener(Ver, k, "PROXY")
           \/ NoListener(Col, "DATA", "STUB")

Deliver ==
  \/ ProcStartRemoteAuthRequest \/ \E scheduled \in BOOLEAN : StartRemoteAuthContextFails(scheduled)
  \/ \E found \in BOOLEAN : ProcQueryExecutorInfoRequest(found)
  \/ ProcBeginExecuteRequest \/ BeginExecuteFails \/ ProcEndExecuteRequest
  \/ \E ok \in BOOLEAN : DataArrives(ok) \/ \E k \in Kinds : ProxyReceives(k, ok)
  \/ ProcAuthResultMsg \/ ProcAuthTipMsg
  \/ Unheard /\ UNCHANGED authVars
  \/ \E flag \in {"ok", "fail"} :
       \/ StartAcknowledged(flag) \/ QueryAcknowledged(flag)
       \/ \E k \in Kinds : ProxyRequestAcknowledged(k, flag) \/ \E d \in Dev : PlainAcknowledged(d, k, flag)

RunTask ==
  \/ \E found \in BOOLEAN : InvokerConnected(found)
  \/ InvokerDisconnected \/ SendQueryExecutorInfoMsg \/ VerifierDisconnected \/ ContextIsGone \/ StartAuth \/ StartAuthFails \/ StubDisconnected
  \/ \E r \in {"success", "fail"} : OnScheduleResult(r)

Next ==
  \/ InvokerStarts \/ InvokerStartFails \/ SetupConnection
  \/ InvokerStops \/ VerifierStops \/ InvokerTimesOut \/ VerifierTimesOut
  \/ RunTask \/ Deliver \/ SoftBusStep
  \/ \E k \in Kinds : ExecutorSends(k) \/ VerifierSends(k)
  \/ \E r \in {"success", "fail"} : VerifierDecides(r)
  \/ ScheduleTimesOut

\* Threads run, timers fire and a session that ended is reported to both sides.  Nothing is
\* assumed of the callers, the executors, the link or the three-minute timers.
ConnectionThread == (\E ok \in BOOLEAN : DoOpenConnection(ok)) \/ DoCloseConnection \/ DeleteConnection
SessionEnds == ClientShutdown \/ ServerShutdown
SomeReplyTimer == \E d \in Dev, k \in Kinds : ReplyTimerTimeOut(d, k)

Fairness ==
  /\ WF_vars(RunTask \/ (KeepAliveFailed /\ UNCHANGED authVars))
  /\ WF_vars((ConnectionThread \/ SessionEnds) /\ UNCHANGED authVars)
  /\ WF_vars(SendKeepAliveMessage /\ UNCHANGED authVars)
  /\ WF_vars(SomeReplyTimer /\ UNCHANGED authVars)

Spec == Init /\ [][Next]_vars /\ Fairness

-------------------------------------------------------------------------------
(* Properties.                                                             *)

\* A listener on the connection stands for an object that lives: the destructors of the
\* contexts, the proxy and the stub withdraw theirs, whatever ended them (a stale one
\* would refuse the next connection of that name).
NoStaleListener ==
  /\ "CONTEXT" \in listeners["O"] => ContextAlive
  /\ "PROXY" \in listeners[Ver] => verifier = "auth"
  /\ "STUB" \in listeners[Col] => stub = "running"
  /\ "CONTEXT" \notin listeners["P"]

\* When the connection is lost, the caller is told, even if the link only fell silent and
\* nobody's three-minute timer fires: the keep-alive and reply timers notice it.
LossIsReported ==
  (net.link \in {"mute", "down"} /\ answer = "none") ~> answer # "none"

\* Once the context that opened the connection is gone, its socket is closed, and the
\* collector's stub, with its listener and holder context, is released, unless it was
\* never told of the connection's end.
EverythingReleased == OwnerGone ~> (~net.client /\ (stub = "running" => untold))
===============================================================================
