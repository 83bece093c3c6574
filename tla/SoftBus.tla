-------------------------------- MODULE SoftBus --------------------------------
(***************************************************************************)
(* One soft-bus connection between two devices: "O" opened it (it holds a  *)
(* ClientSocket), "P" accepted it (its ServerSocket knows the connection   *)
(* by the name the first message carries).  Requests are acknowledged; a   *)
(* request whose acknowledgement is not seen for 5 seconds takes the       *)
(* connection down.                                                        *)
(*                                                                         *)
(* The operators on a network record n are the effects of SoftBusManager   *)
(* and its sockets; the actions are the events of a socket's own threads.  *)
(* What the messages mean is RemoteAuth's.                                 *)
(***************************************************************************)
EXTENDS Naturals, Sequences, FiniteSets

Dev == {"O", "P"}
Other(d) == IF d = "O" THEN "P" ELSE "O"

VARIABLES net,         \* the two devices' sockets and what travels between them
          listeners,   \* RemoteConnectListenerManager: the end points registered on this connection
          tasks,       \* tasks of each device's event thread
          connTasks,   \* O's thread for this connection: "open", "close"
          closing,     \* DoCloseConnection is between telling the listeners and deleting the socket
          faults       \* faults and unlucky timings so far

busVars == <<net, listeners, tasks, connTasks, closing, faults>>

CONSTANT MaxFaults     \* link failures, soft-bus deaths, late and overtaking acknowledgements

ASSUME SoftBusAssumption == MaxFaults \in Nat

\* link: "mute" delivers nothing and tells nobody.  open: the requests that wait for their
\* acknowledgement, with a reply callback and a reply timer.
NoNet == [link |-> "none", client |-> FALSE, named |-> FALSE, keepAlive |-> FALSE,
          server |-> [d \in Dev |-> TRUE], chan |-> [d \in Dev |-> <<>>], open |-> [d \in Dev |-> {}]]

BusInit ==
  /\ net = NoNet
  /\ listeners = [d \in Dev |-> {}] /\ tasks = [d \in Dev |-> <<>>]
  /\ connTasks = <<>> /\ closing = FALSE /\ faults = 0

-------------------------------------------------------------------------------
(* Effects.                                                                *)

\* SoftBusManager::SendMessage needs the server socket even to send through the client's.
\* P's server socket finds the connection by its name; a dead session refuses the bytes.
CanSend(n, d) ==
  /\ n.server[d] /\ n.link \in {"up", "mute"}
  /\ IF d = "O" THEN n.client ELSE n.named

Put(n, d, kind, flag) ==
  IF n.link = "up" THEN [n EXCEPT !.chan[Other(d)] = Append(@, [kind |-> kind, flag |-> flag])] ELSE n

SendRequestNoKeepAlive(n, d, kind) ==
  IF CanSend(n, d) THEN [Put(n, d, kind, "request") EXCEPT !.open[d] = @ \cup {kind}] ELSE n

\* SendRequest; the client socket (re)starts its keep-alive timer with every message.
SendRequest(n, d, kind) ==
  IF CanSend(n, d)
  THEN [Put(n, d, kind, "request") EXCEPT !.open[d] = @ \cup {kind}, !.keepAlive = @ \/ d = "O"]
  ELSE n

SendResponse(n, d, kind, ok) == Put(n, d, kind, IF ok THEN "ok" ELSE "fail")

\* What a listener does when told that the connection is down: the contexts post the news
\* to the event thread, the executor stub posts its own end, the proxy ignores it.
News(endPoint, news) ==
  IF endPoint = "PROXY" \/ (endPoint = "STUB" /\ news = "up") THEN <<>> ELSE <<<<endPoint, news>>>>

\* At most one context and one stub or proxy of a device listen on a connection.
NewsFor(endPoints, news) ==
  (IF "CONTEXT" \in endPoints THEN News("CONTEXT", news) ELSE <<>>)
    \o (IF "STUB" \in endPoints THEN News("STUB", news) ELSE <<>>)

\* OnConnectionDown tells the listeners of the connection and forgets them all.
OnConnectionDown(d) ==
  /\ tasks' = [tasks EXCEPT ![d] = @ \o NewsFor(listeners[d], "down")]
  /\ listeners' = [listeners EXCEPT ![d] = {}]

OnConnectionUp(d) ==
  /\ tasks' = [tasks EXCEPT ![d] = @ \o NewsFor(listeners[d], "up")]
  /\ UNCHANGED listeners

\* A socket object that is released takes its callbacks and timers with it, and its
\* destructor shuts the session down.
DeleteSocket(n) ==
  [n EXCEPT !.link = "down", !.client = FALSE, !.keepAlive = FALSE, !.chan = [d \in Dev |-> <<>>],
            !.open["O"] = {}]

-------------------------------------------------------------------------------
(* The connection's own thread at O.                                       *)

\* DoOpenConnection: bind may fail three times, or succeed after at most two failures.
DoOpenConnection(ok) ==
  /\ connTasks # <<>> /\ Head(connTasks) = "open" /\ ~closing
  /\ connTasks' = Tail(connTasks)
  /\ IF ok THEN /\ net.server["O"] /\ net.server["P"]
                /\ net' = [net EXCEPT !.link = "up", !.client = TRUE]
                /\ OnConnectionUp("O")
           ELSE net' = net /\ OnConnectionDown("O")
  /\ UNCHANGED <<closing, faults>>

\* DoCloseConnection: without a socket there is nothing to close; else the listeners are
\* told first, and the socket is deleted afterwards.
DoCloseConnection ==
  /\ connTasks # <<>> /\ Head(connTasks) = "close" /\ ~closing
  /\ connTasks' = Tail(connTasks)
  /\ IF net.client THEN closing' = TRUE /\ OnConnectionDown("O")
                   ELSE UNCHANGED <<closing, tasks, listeners>>
  /\ UNCHANGED <<net, faults>>

DeleteConnection ==
  /\ closing
  /\ closing' = FALSE /\ net' = DeleteSocket(net)
  /\ UNCHANGED <<listeners, tasks, connTasks, faults>>

-------------------------------------------------------------------------------
(* The sockets' timers and callbacks.                                      *)

\* The request or its acknowledgement is still on its way.
UnderWay(d, kind) ==
  \/ [kind |-> kind, flag |-> "request"] \in {net.chan[Other(d)][i] : i \in DOMAIN net.chan[Other(d)]}
  \/ \E flag \in {"ok", "fail"} : [kind |-> kind, flag |-> flag] \in {net.chan[d][i] : i \in DOMAIN net.chan[d]}

\* Nobody answers for 5 seconds; an answer that is merely slow counts as a fault.
ReplyTimerTimeOut(d, kind) ==
  /\ kind \in net.open[d] /\ (UnderWay(d, kind) => faults < MaxFaults)
  /\ faults' = IF UnderWay(d, kind) THEN faults + 1 ELSE faults
  /\ net' = [net EXCEPT !.open[d] = @ \ {kind}]
  /\ OnConnectionDown(d)
  /\ UNCHANGED <<connTasks, closing>>

\* SendKeepAliveMessage, a second after the last message (here: when the connection is
\* quiet); when it cannot be sent, taking the connection down is posted to the event thread.
SendKeepAliveMessage ==
  /\ net.keepAlive
  /\ IF CanSend(net, "O")
     THEN /\ net.open["O"] = {} /\ \A d \in Dev : net.chan[d] = <<>>
          /\ net' = SendRequest(net, "O", "KEEP_ALIVE") /\ UNCHANGED tasks
     ELSE /\ <<"SOCKET", "down">> \notin {tasks["O"][i] : i \in DOMAIN tasks["O"]}
          /\ tasks' = [tasks EXCEPT !["O"] = Append(@, <<"SOCKET", "down">>)] /\ UNCHANGED net
  /\ UNCHANGED <<listeners, connTasks, closing, faults>>

\* That task, run by O's event thread.
KeepAliveFailed ==
  /\ tasks["O"] # <<>> /\ Head(tasks["O"]) = <<"SOCKET", "down">>
  /\ tasks' = [tasks EXCEPT !["O"] = Tail(@) \o NewsFor(listeners["O"], "down")]
  /\ listeners' = [listeners EXCEPT !["O"] = {}]
  /\ UNCHANGED <<net, connTasks, closing, faults>>

\* The session ended: SoftBusManager::OnShutdown at the two sides.  What P still waits for
\* is dropped here: its timers would take down a connection that has no listeners.
ClientShutdown ==
  /\ net.link = "down" /\ net.client /\ ~closing
  /\ net' = DeleteSocket(net)
  /\ OnConnectionDown("O")
  /\ UNCHANGED <<connTasks, closing, faults>>

ServerShutdown ==
  /\ net.link = "down" /\ net.named /\ net.server["P"]
  /\ net' = [net EXCEPT !.named = FALSE, !.open["P"] = {}]
  /\ OnConnectionDown("P")
  /\ UNCHANGED <<connTasks, closing, faults>>

-------------------------------------------------------------------------------
(* Messages that arrive.                                                   *)

Arrives(d, kind, flag) ==
  /\ net.link = "up" /\ net.chan[d] # <<>>
  /\ Head(net.chan[d]) = [kind |-> kind, flag |-> flag]

\* OnBytes: P's server socket learns the connection's name from a request.
Received(d) ==
  [net EXCEPT !.chan[d] = Tail(@), !.named = @ \/ (d = "P" /\ Head(net.chan[d]).flag = "request")]

\* ProcessMessage without a listener for the end point: an error is the answer.
NoListener(d, kind, endPoint) ==
  /\ Arrives(d, kind, "request") /\ endPoint \notin listeners[d]
  /\ net' = SendResponse(Received(d), d, kind, FALSE)
  /\ UNCHANGED <<listeners, tasks, connTasks, closing, faults>>

\* RemoteAuthService answers a keep-alive with success.
KeepAliveArrives ==
  /\ Arrives("P", "KEEP_ALIVE", "request")
  /\ net' = SendResponse(Received("P"), "P", "KEEP_ALIVE", TRUE)
  /\ UNCHANGED <<listeners, tasks, connTasks, closing, faults>>

\* ProcDataReceive of an acknowledgement, for a request that still waits for it.
AckArrives(d, kind, flag) == Arrives(d, kind, flag) /\ kind \in net.open[d]

\* It is dropped when nobody waits any more, and (a fault here) when it overtakes the
\* sender: SendRequest inserts the callback after the bytes are sent, so that the request
\* then waits for an acknowledgement that already came.
AckDropped(d) ==
  /\ net.link = "up" /\ net.chan[d] # <<>> /\ Head(net.chan[d]).flag \in {"ok", "fail"}
  /\ Head(net.chan[d]).kind \in net.open[d] => faults < MaxFaults
  /\ faults' = IF Head(net.chan[d]).kind \in net.open[d] THEN faults + 1 ELSE faults
  /\ net' = Received(d)
  /\ UNCHANGED <<listeners, tasks, connTasks, closing>>
Acknowledged(d, kind) == [Received(d) EXCEPT !.open[d] = @ \ {kind}]

-------------------------------------------------------------------------------
(* Faults.                                                                 *)

\* The link fails, with or without the soft bus noticing.
LinkFails(how) ==
  /\ faults < MaxFaults /\ net.link \in {"up", "mute"} /\ how # net.link
  /\ net' = [net EXCEPT !.link = how, !.chan = [d \in Dev |-> <<>>]]
  /\ faults' = faults + 1
  /\ UNCHANGED <<listeners, tasks, connTasks, closing>>

\* ServiceSocketUnInit.  At O every socket is shut down.  At P the server socket is gone
\* before the shutdowns are handled, so nobody is told about the connections it accepted.
ServiceSocketUnInit(d) ==
  /\ faults < MaxFaults /\ net.server[d] /\ ~closing /\ net.link # "down"
  /\ faults' = faults + 1
  /\ IF d = "O" /\ net.client
     THEN net' = [DeleteSocket(net) EXCEPT !.server["O"] = FALSE] /\ OnConnectionDown("O")
     ELSE /\ net' = [net EXCEPT !.server[d] = FALSE, !.named = @ /\ d = "O", !.open[d] = {},
                                !.link = IF @ \in {"up", "mute"} THEN "down" ELSE @,
                                !.chan = [e \in Dev |-> <<>>]]
          /\ UNCHANGED <<listeners, tasks>>
  /\ UNCHANGED <<connTasks, closing>>

\* The soft bus is back, with a server socket that knows no connection: it matters to a
\* connection that is not open yet.
ServiceSocketInit(d) ==
  /\ ~net.server[d] /\ net.link = "none"
  /\ net' = [net EXCEPT !.server[d] = TRUE]
  /\ UNCHANGED <<listeners, tasks, connTasks, closing, faults>>

Kinds == {"START", "QUERY", "BEGIN", "END", "DATA", "COLLECTED", "FINISH", "TIP", "RESULT", "KEEP_ALIVE"}

BusStep ==
  \/ \E ok \in BOOLEAN : DoOpenConnection(ok)
  \/ DoCloseConnection \/ DeleteConnection
  \/ \E d \in Dev, k \in Kinds : ReplyTimerTimeOut(d, k)
  \/ SendKeepAliveMessage \/ KeepAliveFailed \/ KeepAliveArrives
  \/ ClientShutdown \/ ServerShutdown
  \/ \E d \in Dev : AckDropped(d)
  \/ \E how \in {"mute", "down"} : LinkFails(how)
  \/ \E d \in Dev : ServiceSocketUnInit(d) \/ ServiceSocketInit(d)
===============================================================================
