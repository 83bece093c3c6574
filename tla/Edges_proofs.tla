----------------------------- MODULE Edges_proofs ------------------------------
(***************************************************************************)
(* Proofs about the edges of the system: towards other devices             *)
(* (RemoteAuth over SoftBus), towards whoever subscribes to its events     *)
(* (Listeners) and towards applications (Bindings).  The three share no    *)
(* state; each has its own inductive invariant.                            *)
(***************************************************************************)
EXTENDS Edges, RemoteAuth, SequenceFacts

-------------------------------------------------------------------------------
(* Remote authentication: the inductive invariant.                         *)
(*                                                                         *)
(* That no listener is stale is not inductive: a second START or a second  *)
(* QUERY would put a verifier that authenticates, with its proxy           *)
(* listening, back to its beginning.  Each is sent once, because the        *)
(* connection is opened once and comes up once.                            *)

EndPoints == {"CONTEXT", "STUB", "PROXY"}
TaskType == {"CONTEXT", "STUB", "SOCKET", "SCHEDULE"} \X {"up", "down", "start", "success", "fail"}
Message == [kind : Kinds, flag : {"request", "ok", "fail"}]
NetType ==
  [link : {"none", "up", "mute", "down"}, client : BOOLEAN, named : BOOLEAN, keepAlive : BOOLEAN,
   server : [Dev -> BOOLEAN], chan : [Dev -> Seq(Message)], open : [Dev -> SUBSET Kinds]]

RemoteTypeOK ==
  /\ net \in NetType
  /\ listeners \in [Dev -> SUBSET EndPoints]
  /\ tasks \in [Dev -> Seq(TaskType)]
  /\ connTasks \in Seq({"open", "close"})
  /\ mode \in {"invoke", "query"}
  /\ invoker \in {"none", "running", "gone"}
  /\ verifier \in {"none", "start", "connect", "query", "auth", "gone"}

\* What may be under way once: the connection to be opened, the news that it is up, and
\* the request that makes the verifier of another device.
UpTask == <<"CONTEXT", "up">>
StartReq == [kind |-> "START", flag |-> "request"]
BeginTask == <<"SCHEDULE", "start">>
Opening == "open" \in ToSet(connTasks)
Up == UpTask \in ToSet(tasks["O"])
Starting == StartReq \in ToSet(net.chan["P"])

OnceInv ==
  /\ Once(connTasks, "open") /\ Once(tasks["O"], UpTask) /\ Once(net.chan["P"], StartReq)
  /\ Opening => ~Up /\ ~Starting
  /\ Up => ~Starting

\* The verifier is made after all of that, or at its beginning.
BeginInv ==
  /\ mode = "invoke" => /\ invoker = "none" => ~Opening /\ ~Up /\ ~Starting /\ verifier = "none"
                        /\ Opening \/ Up \/ Starting => verifier = "none"
  /\ mode = "query" => /\ ~Starting
                       /\ verifier = "none" => ~Opening /\ ~Up
                       /\ Opening \/ Up => verifier \in {"connect", "gone"}
                       /\ verifier \in {"none", "connect"} =>
                            "QUERY" \notin net.open["O"] /\ BeginTask \notin ToSet(tasks["O"])

RemoteInv == RemoteTypeOK /\ OnceInv /\ BeginInv /\ NoStaleListener

-------------------------------------------------------------------------------
(* Steps that open nothing.                                                *)

\* m is n with no further START or QUERY.
CalmNet(n, m) ==
  /\ m \in NetType
  /\ StartReq \in ToSet(m.chan["P"]) => StartReq \in ToSet(n.chan["P"])
  /\ Once(n.chan["P"], StartReq) => Once(m.chan["P"], StartReq)
  /\ "QUERY" \in m.open["O"] => "QUERY" \in n.open["O"]

\* s is r with no further task that begins something.
CalmTasks(r, s) ==
  /\ s \in Seq(TaskType)
  /\ \A t \in {UpTask, BeginTask} : t \in ToSet(s) => t \in ToSet(r)
  /\ Once(r, UpTask) => Once(s, UpTask)

CalmConn ==
  /\ connTasks' \in Seq({"open", "close"})
  /\ Opening' => Opening
  /\ Once(connTasks, "open") => Once(connTasks, "open")'

\* Calm changes of the network compose.
LEMMA CalmTwice ==
  ASSUME NEW n, NEW m, NEW k, CalmNet(n, m), CalmNet(m, k)
  PROVE  CalmNet(n, k)
BY DEF CalmNet

\* No change is calm.
LEMMA CalmSame ==
  ASSUME NEW n \in NetType
  PROVE  CalmNet(n, n)
BY DEF CalmNet

\* Empty channels and fewer open requests.
LEMMA CalmLoss ==
  ASSUME NEW n \in NetType, NEW m \in NetType,
         m.chan["P"] \in {<<>>, n.chan["P"]}, m.open["O"] \subseteq n.open["O"]
  PROVE  CalmNet(n, m)
BY EmptyFacts DEF CalmNet

\* Any message but a request to START leaves the network calm.
LEMMA PutCalm ==
  ASSUME NEW n \in NetType, NEW d \in Dev, NEW kind \in Kinds, NEW flag \in {"request", "ok", "fail"}
  PROVE  /\ Put(n, d, kind, flag) \in NetType
         /\ Put(n, d, kind, flag).open = n.open
         /\ <<kind, flag>> # <<"START", "request">> => CalmNet(n, Put(n, d, kind, flag))
<1> DEFINE e == [kind |-> kind, flag |-> flag]
           m == [n EXCEPT !.chan[Other(d)] = Append(@, e)]
<1>1. e \in Message /\ Other(d) \in Dev /\ "P" \in Dev /\ n.chan \in [Dev -> Seq(Message)]
  BY DEF Message, Other, Dev, NetType
<1>2. Append(n.chan[Other(d)], e) \in Seq(Message)
  BY <1>1, AppendFacts
<1>3. m \in NetType /\ m.open = n.open
  BY <1>1, <1>2 DEF NetType
<1>4. ASSUME <<kind, flag>> # <<"START", "request">> PROVE CalmNet(n, m)
  <2>1. e # StartReq
    BY <1>4 DEF StartReq
  <2>2. m.chan["P"] = IF Other(d) = "P" THEN Append(n.chan["P"], e) ELSE n.chan["P"]
    BY <1>1 DEF NetType
  <2>3. n.chan["P"] \in Seq(Message)
    BY <1>1
  <2>4. /\ ToSet(Append(n.chan["P"], e)) = ToSet(n.chan["P"]) \cup {e}
        /\ Once(n.chan["P"], StartReq) => Once(Append(n.chan["P"], e), StartReq)
    BY <1>1, <2>1, <2>3, AppendFacts
  <2> QED
    BY <1>3, <2>1, <2>2, <2>4 DEF CalmNet
<1> QED
  BY <1>3, <1>4, CalmSame DEF Put

\* No response opens anything, whatever it answers.
LEMMA ResponseCalm ==
  ASSUME NEW n \in NetType, NEW d \in Dev, NEW kind \in Kinds, NEW ok \in BOOLEAN
  PROVE  CalmNet(n, SendResponse(n, d, kind, ok))
BY PutCalm DEF SendResponse

\* Of the requests only START and QUERY open something; QUERY only its own callback.
LEMMA RequestCalm ==
  ASSUME NEW n \in NetType, NEW d \in Dev, NEW kind \in Kinds
  PROVE  /\ SendRequest(n, d, kind) \in NetType
         /\ kind \notin {"START", "QUERY"} => CalmNet(n, SendRequest(n, d, kind))
         /\ kind = "QUERY" => CalmNet(n, [SendRequest(n, d, kind) EXCEPT !.open = n.open])
<1> DEFINE p == Put(n, d, kind, "request")
           m == [p EXCEPT !.open[d] = @ \cup {kind}, !.keepAlive = @ \/ d = "O"]
<1>1. p \in NetType /\ p.open = n.open /\ (kind # "START" => CalmNet(n, p))
  BY PutCalm
<1> HIDE DEF p
<1>2. m \in NetType /\ m.chan = p.chan /\ m.open = [n.open EXCEPT ![d] = @ \cup {kind}]
  BY <1>1 DEF NetType
<1>3. [m EXCEPT !.open = n.open] \in NetType /\ [m EXCEPT !.open = n.open].chan = m.chan
      /\ [m EXCEPT !.open = n.open].open = n.open
  BY <1>2 DEF NetType
<1>4. kind # "QUERY" => ("QUERY" \in m.open["O"] => "QUERY" \in n.open["O"])
  BY <1>2 DEF NetType, Dev
<1>5. SendRequest(n, d, kind) = IF CanSend(n, d) THEN m ELSE n
  BY DEF SendRequest, p
<1> HIDE DEF m
<1>6. [n EXCEPT !.open = n.open] = n
  BY DEF NetType
<1> QED
  BY <1>1, <1>2, <1>3, <1>4, <1>5, <1>6, CalmSame DEF CalmNet

\* A message is taken off its channel; after a START there is none.
LEMMA ReceivedCalm ==
  ASSUME RemoteTypeOK, NEW d \in Dev, net.chan[d] # <<>>
  PROVE  /\ CalmNet(net, Received(d))
         /\ Received(d).open = net.open
         /\ Once(net.chan["P"], StartReq) /\ d = "P" /\ Head(net.chan[d]) = StartReq =>
              StartReq \notin ToSet(Received(d).chan["P"])
         /\ \A kind : CalmNet(net, Acknowledged(d, kind))
<1> DEFINE m == Received(d)
<1>1. net \in NetType /\ net.chan \in [Dev -> Seq(Message)] /\ net.chan[d] \in Seq(Message) /\ "P" \in Dev
  BY DEF RemoteTypeOK, NetType, Dev
<1>2. /\ Tail(net.chan[d]) \in Seq(Message)
      /\ ToSet(net.chan[d]) = {Head(net.chan[d])} \cup ToSet(Tail(net.chan[d]))
      /\ Once(net.chan[d], StartReq) =>
           Once(Tail(net.chan[d]), StartReq) /\ (StartReq = Head(net.chan[d]) => StartReq \notin ToSet(Tail(net.chan[d])))
  BY <1>1, TailFacts
<1>3. /\ m \in NetType /\ m.open = net.open
      /\ m.chan["P"] = IF d = "P" THEN Tail(net.chan["P"]) ELSE net.chan["P"]
  BY <1>1, <1>2 DEF Received, NetType
<1>4. CalmNet(net, m)
  BY <1>2, <1>3 DEF CalmNet
<1> HIDE DEF m
<1>5. ASSUME NEW kind PROVE CalmNet(net, [m EXCEPT !.open[d] = @ \ {kind}])
  <2>1. [m EXCEPT !.open[d] = @ \ {kind}] \in NetType
    BY <1>3 DEF NetType
  <2>2. /\ [m EXCEPT !.open[d] = @ \ {kind}].chan = m.chan
        /\ [m EXCEPT !.open[d] = @ \ {kind}].open["O"] \subseteq net.open["O"]
    BY <1>3 DEF NetType, Dev
  <2> QED
    BY <1>4, <2>1, <2>2 DEF CalmNet
<1> QED
  BY <1>2, <1>3, <1>4, <1>5 DEF m, Acknowledged

\* Deleting the socket only closes callbacks and empties channels.
LEMMA DeleteCalm ==
  ASSUME NEW n \in NetType
  PROVE  CalmNet(n, DeleteSocket(n))
<1>1. DeleteSocket(n) \in NetType /\ DeleteSocket(n).chan["P"] = <<>> /\ DeleteSocket(n).open["O"] = {}
  BY EmptyFacts DEF DeleteSocket, NetType, Dev
<1> QED
  BY <1>1, CalmLoss

\* What the listeners post when they hear of the connection.
LEMMA NewsFacts ==
  ASSUME NEW endPoints \in SUBSET EndPoints, NEW news \in {"up", "down"}
  PROVE  LET q == NewsFor(endPoints, news)
         IN  /\ q \in Seq(TaskType) /\ Once(q, UpTask)
             /\ BeginTask \notin ToSet(q)
             /\ UpTask \in ToSet(q) => news = "up" /\ "CONTEXT" \in endPoints
<1> DEFINE c == IF "CONTEXT" \in endPoints THEN News("CONTEXT", news) ELSE <<>>
           s == IF "STUB" \in endPoints THEN News("STUB", news) ELSE <<>>
<1>1. <<"CONTEXT", news>> \in TaskType /\ <<"STUB", news>> \in TaskType
  BY DEF TaskType
<1>2. /\ c \in Seq(TaskType) /\ Once(c, UpTask) /\ BeginTask \notin ToSet(c)
      /\ UpTask \in ToSet(c) => news = "up" /\ "CONTEXT" \in endPoints
  BY <1>1, EmptyFacts, SingleFacts DEF News, UpTask, BeginTask
<1>3. s \in Seq(TaskType) /\ Once(s, UpTask) /\ BeginTask \notin ToSet(s) /\ UpTask \notin ToSet(s)
  BY <1>1, EmptyFacts, SingleFacts DEF News, UpTask, BeginTask
<1>4. NewsFor(endPoints, news) = c \o s
  BY DEF NewsFor
<1> HIDE DEF c, s
<1>5. ToSet(c \o s) = ToSet(c) \cup ToSet(s) /\ c \o s \in Seq(TaskType) /\ Once(c \o s, UpTask)
  BY <1>2, <1>3, ConcatFacts
<1> QED
  BY <1>2, <1>3, <1>4, <1>5

\* No change of a task queue is calm.
LEMMA TasksSame ==
  ASSUME NEW r \in Seq(TaskType)
  PROVE  CalmTasks(r, r)
BY DEF CalmTasks

\* News of a lost connection begins nothing.
LEMMA TasksNews ==
  ASSUME NEW r \in Seq(TaskType), NEW endPoints \in SUBSET EndPoints
  PROVE  CalmTasks(r, r \o NewsFor(endPoints, "down"))
<1> DEFINE q == NewsFor(endPoints, "down")
<1>1. q \in Seq(TaskType) /\ Once(q, UpTask) /\ BeginTask \notin ToSet(q) /\ UpTask \notin ToSet(q)
  BY NewsFacts
<1> HIDE DEF q
<1>2. r \o q \in Seq(TaskType) /\ ToSet(r \o q) = ToSet(r) \cup ToSet(q) /\ (Once(r, UpTask) => Once(r \o q, UpTask))
  BY <1>1, ConcatFacts
<1> QED
  BY <1>1, <1>2 DEF CalmTasks, q

\* Taking a task is calm, and the one news that the connection is up is taken once.
LEMMA TasksTail ==
  ASSUME NEW r \in Seq(TaskType), r # <<>>
  PROVE  /\ CalmTasks(r, Tail(r))
         /\ Once(r, UpTask) /\ Head(r) = UpTask => UpTask \notin ToSet(Tail(r))
         /\ Head(r) \in ToSet(r)
BY TailFacts DEF CalmTasks

\* Posting a task is calm unless it begins something.
LEMMA TasksAppend ==
  ASSUME NEW r \in Seq(TaskType), NEW t \in TaskType
  PROVE  /\ Append(r, t) \in Seq(TaskType)
         /\ t \notin {UpTask, BeginTask} => CalmTasks(r, Append(r, t))
         /\ t # UpTask => ToSet(Append(r, t)) = ToSet(r) \cup {t} /\ (Once(r, UpTask) => Once(Append(r, t), UpTask))
BY AppendFacts DEF CalmTasks

\* The connection tasks: the open is taken once, and a close is no open.
LEMMA ConnFacts ==
  ASSUME RemoteTypeOK
  PROVE  /\ UNCHANGED connTasks => CalmConn
         /\ connTasks' = Append(connTasks, "close") => CalmConn
         /\ connTasks # <<>> /\ connTasks' = Tail(connTasks) =>
              CalmConn /\ (Once(connTasks, "open") /\ Head(connTasks) = "open" => Opening /\ ~Opening')
<1>1. connTasks \in Seq({"open", "close"})
  BY DEF RemoteTypeOK
<1>2. UNCHANGED connTasks => CalmConn
  BY <1>1 DEF CalmConn, Opening
<1>3. connTasks' = Append(connTasks, "close") => CalmConn
  BY <1>1, AppendFacts DEF CalmConn, Opening
<1>4. connTasks # <<>> /\ connTasks' = Tail(connTasks) =>
         CalmConn /\ (Once(connTasks, "open") /\ Head(connTasks) = "open" => Opening /\ ~Opening')
  BY <1>1, TailFacts DEF CalmConn, Opening
<1> QED
  BY <1>2, <1>3, <1>4

-------------------------------------------------------------------------------
(* The steps that begin nothing preserve the invariant.                    *)

Calm ==
  /\ CalmNet(net, net')
  /\ tasks' \in [Dev -> Seq(TaskType)] /\ CalmTasks(tasks["O"], tasks'["O"])
  /\ CalmConn

\* Contexts and proxies only withdraw their listeners; a stub that listens runs.
Withdrawn ==
  /\ listeners' \in [Dev -> SUBSET EndPoints]
  /\ \A d \in Dev : \A e \in {"CONTEXT", "PROXY"} : e \in listeners'[d] => e \in listeners[d]
  /\ "STUB" \in listeners'[Col] => stub' = "running"

\* A context that ends has withdrawn its listeners.
Ending ==
  /\ mode' = mode
  /\ \/ invoker' = invoker
     \/ invoker' = "gone" /\ "CONTEXT" \notin listeners'["O"]
  /\ \/ verifier' = verifier
     \/ /\ verifier' = "gone" /\ VerifierAlive /\ "PROXY" \notin listeners'[Ver]
        /\ mode = "query" => "CONTEXT" \notin listeners'["O"]

\* A step that opens nothing, withdraws the listeners of what it ends and revives
\* nothing preserves the invariant.
LEMMA CalmStep ==
  ASSUME RemoteInv, Calm, Withdrawn, Ending
  PROVE  RemoteInv'
<1>1. RemoteTypeOK'
  BY DEF RemoteInv, RemoteTypeOK, Calm, CalmNet, CalmConn, Withdrawn, Ending
<1>2. (Opening' => Opening) /\ (Up' => Up) /\ (Starting' => Starting)
  BY DEF Calm, CalmNet, CalmTasks, CalmConn, Up, Starting
<1>3. OnceInv'
  BY <1>2 DEF RemoteInv, OnceInv, Calm, CalmNet, CalmTasks, CalmConn
<1>4. /\ "QUERY" \in net'.open["O"] => "QUERY" \in net.open["O"]
      /\ BeginTask \in ToSet(tasks'["O"]) => BeginTask \in ToSet(tasks["O"])
  BY DEF Calm, CalmNet, CalmTasks
<1>5. BeginInv'
  BY <1>2, <1>4 DEF RemoteInv, BeginInv, Ending, VerifierAlive
<1>6. NoStaleListener'
  <2>1. Ver' = Ver /\ Col' = Col /\ Ver \in Dev /\ Col \in Dev /\ "O" \in Dev /\ "P" \in Dev
    BY DEF Ending, Ver, Col, Other, Dev
  <2>2. "CONTEXT" \in listeners'["O"] => ContextAlive'
    BY <2>1 DEF RemoteInv, RemoteTypeOK, NoStaleListener, ContextAlive, VerifierAlive, Withdrawn, Ending
  <2> QED
    BY <2>1, <2>2 DEF RemoteInv, NoStaleListener, Withdrawn, Ending
<1> QED
  BY <1>1, <1>3, <1>5, <1>6 DEF RemoteInv

\* A device's queue of tasks is replaced.
LEMMA QueueFacts ==
  ASSUME RemoteTypeOK, NEW d \in Dev, NEW s, CalmTasks(tasks[d], s), tasks' = [tasks EXCEPT ![d] = s]
  PROVE  tasks' \in [Dev -> Seq(TaskType)] /\ CalmTasks(tasks["O"], tasks'["O"])
<1>1. tasks \in [Dev -> Seq(TaskType)] /\ s \in Seq(TaskType) /\ "O" \in Dev
  BY DEF RemoteTypeOK, CalmTasks, Dev
<1>2. tasks' \in [Dev -> Seq(TaskType)] /\ tasks'["O"] \in {tasks["O"], IF d = "O" THEN s ELSE tasks["O"]}
  BY <1>1
<1> QED
  BY <1>1, <1>2, TasksSame DEF RemoteTypeOK

\* Untouched task queues are calm.
LEMMA QueueSame ==
  ASSUME RemoteTypeOK, UNCHANGED tasks
  PROVE  tasks' \in [Dev -> Seq(TaskType)] /\ CalmTasks(tasks["O"], tasks'["O"])
BY TasksSame DEF RemoteTypeOK, Dev

\* Running the first task of a device is calm.
LEMMA QueueTail ==
  ASSUME RemoteTypeOK, NEW d \in Dev, tasks[d] # <<>>, TaskDone(d)
  PROVE  tasks' \in [Dev -> Seq(TaskType)] /\ CalmTasks(tasks["O"], tasks'["O"])
<1>1. tasks[d] \in Seq(TaskType)
  BY DEF RemoteTypeOK
<1> QED
  BY <1>1, TasksTail, QueueFacts DEF TaskDone

\* Posting a task that begins nothing is calm.
LEMMA QueueAppend ==
  ASSUME RemoteTypeOK, NEW d \in Dev, NEW t \in TaskType, t \notin {UpTask, BeginTask},
         tasks' = [tasks EXCEPT ![d] = Append(@, t)]
  PROVE  tasks' \in [Dev -> Seq(TaskType)] /\ CalmTasks(tasks["O"], tasks'["O"])
<1>1. tasks[d] \in Seq(TaskType)
  BY DEF RemoteTypeOK
<1>2. CalmTasks(tasks[d], Append(tasks[d], t))
  BY <1>1, TasksAppend
<1> QED
  BY <1>2, QueueFacts

\* The connection is down for d's listeners.
LEMMA DownFacts ==
  ASSUME RemoteInv, NEW d \in Dev, OnConnectionDown(d), UNCHANGED <<mode, stub>>
  PROVE  /\ tasks' \in [Dev -> Seq(TaskType)] /\ CalmTasks(tasks["O"], tasks'["O"])
         /\ Withdrawn
<1>1. RemoteTypeOK /\ tasks[d] \in Seq(TaskType) /\ listeners[d] \in SUBSET EndPoints
  BY DEF RemoteInv, RemoteTypeOK
<1>2. CalmTasks(tasks[d], tasks[d] \o NewsFor(listeners[d], "down"))
  BY <1>1, TasksNews
<1>3. tasks' \in [Dev -> Seq(TaskType)] /\ CalmTasks(tasks["O"], tasks'["O"])
  BY <1>1, <1>2, QueueFacts DEF OnConnectionDown
<1>4. Withdrawn
  BY DEF RemoteInv, RemoteTypeOK, NoStaleListener, OnConnectionDown, Withdrawn, Col, Ver, Other, Dev
<1> QED
  BY <1>3, <1>4

\* Untouched listeners withdraw nothing that is needed.
LEMMA ListenersSame ==
  ASSUME RemoteInv, UNCHANGED <<listeners, mode, stub>>
  PROVE  Withdrawn
BY DEF RemoteInv, RemoteTypeOK, NoStaleListener, Withdrawn

\* Contexts that do not change do not come back.
LEMMA EndingSame ==
  ASSUME UNCHANGED <<mode, invoker, verifier>>
  PROVE  Ending
BY DEF Ending

-------------------------------------------------------------------------------
(* The soft bus's own steps.                                               *)

\* What the soft bus does to the network is calm.
LEMMA SocketCalm ==
  ASSUME RemoteTypeOK
  PROVE  /\ \A d \in Dev : \A kind : CalmNet(net, [net EXCEPT !.open[d] = @ \ {kind}])
         /\ CalmNet(net, [net EXCEPT !.named = FALSE, !.open["P"] = {}])
         /\ CalmNet(net, [net EXCEPT !.link = "up", !.client = TRUE])
         /\ \A how \in {"mute", "down"} : CalmNet(net, [net EXCEPT !.link = how, !.chan = [d \in Dev |-> <<>>]])
         /\ CalmNet(net, [DeleteSocket(net) EXCEPT !.server["O"] = FALSE])
         /\ \A d \in Dev : CalmNet(net, [net EXCEPT !.server[d] = FALSE, !.named = @ /\ d = "O", !.open[d] = {},
                                                    !.link = IF @ \in {"up", "mute"} THEN "down" ELSE @,
                                                    !.chan = [e \in Dev |-> <<>>]])
         /\ \A d \in Dev : CalmNet(net, [net EXCEPT !.server[d] = TRUE])
<1> USE DEF NetType, Dev
<1>1. net \in NetType /\ <<>> \in Seq(Message)
  BY EmptyFacts DEF RemoteTypeOK
<1>2. ASSUME NEW d \in Dev, NEW kind
      PROVE  CalmNet(net, [net EXCEPT !.open[d] = @ \ {kind}])
  <2> DEFINE m == [net EXCEPT !.open[d] = @ \ {kind}]
  <2>1. m \in NetType /\ m.chan["P"] = net.chan["P"] /\ m.open["O"] \subseteq net.open["O"]
    BY <1>1
  <2> QED
    BY <1>1, <2>1, CalmLoss
<1>3. CalmNet(net, [net EXCEPT !.named = FALSE, !.open["P"] = {}])
  <2> DEFINE m == [net EXCEPT !.named = FALSE, !.open["P"] = {}]
  <2>1. m \in NetType /\ m.chan["P"] = net.chan["P"] /\ m.open["O"] \subseteq net.open["O"]
    BY <1>1
  <2> QED
    BY <1>1, <2>1, CalmLoss
<1>4. CalmNet(net, [net EXCEPT !.link = "up", !.client = TRUE])
  <2> DEFINE m == [net EXCEPT !.link = "up", !.client = TRUE]
  <2>1. m \in NetType /\ m.chan["P"] = net.chan["P"] /\ m.open["O"] \subseteq net.open["O"]
    BY <1>1
  <2> QED
    BY <1>1, <2>1, CalmLoss
<1>5. ASSUME NEW how \in {"mute", "down"}
      PROVE  CalmNet(net, [net EXCEPT !.link = how, !.chan = [d \in Dev |-> <<>>]])
  <2> DEFINE m == [net EXCEPT !.link = how, !.chan = [d \in Dev |-> <<>>]]
  <2>1. m \in NetType /\ m.chan["P"] = <<>> /\ m.open["O"] \subseteq net.open["O"]
    BY <1>1
  <2> QED
    BY <1>1, <2>1, CalmLoss
<1>6. CalmNet(net, [DeleteSocket(net) EXCEPT !.server["O"] = FALSE])
  <2> DEFINE m == [DeleteSocket(net) EXCEPT !.server["O"] = FALSE]
  <2>1. m \in NetType /\ m.chan["P"] = <<>> /\ m.open["O"] \subseteq net.open["O"]
    BY <1>1 DEF DeleteSocket
  <2> QED
    BY <1>1, <2>1, CalmLoss
<1>7. ASSUME NEW d \in Dev
      PROVE  CalmNet(net, [net EXCEPT !.server[d] = FALSE, !.named = @ /\ d = "O", !.open[d] = {},
                                      !.link = IF @ \in {"up", "mute"} THEN "down" ELSE @,
                                      !.chan = [e \in Dev |-> <<>>]])
  <2> DEFINE m == [net EXCEPT !.server[d] = FALSE, !.named = @ /\ d = "O", !.open[d] = {},
                              !.link = IF @ \in {"up", "mute"} THEN "down" ELSE @,
                              !.chan = [e \in Dev |-> <<>>]]
  <2>1. m \in NetType /\ m.chan["P"] = <<>> /\ m.open["O"] \subseteq net.open["O"]
    BY <1>1
  <2> QED
    BY <1>1, <2>1, CalmLoss
<1>8. ASSUME NEW d \in Dev
      PROVE  CalmNet(net, [net EXCEPT !.server[d] = TRUE])
  <2> DEFINE m == [net EXCEPT !.server[d] = TRUE]
  <2>1. m \in NetType /\ m.chan["P"] = net.chan["P"] /\ m.open["O"] \subseteq net.open["O"]
    BY <1>1
  <2> QED
    BY <1>1, <2>1, CalmLoss
<1> QED
  BY <1>2, <1>3, <1>4, <1>5, <1>6, <1>7, <1>8

\* The connection comes up: the news takes the place of the task that opened it.
LEMMA OpenedInv ==
  ASSUME RemoteInv, DoOpenConnection(TRUE), UNCHANGED <<mode, invoker, verifier, stub>>
  PROVE  RemoteInv'
<1> DEFINE q == NewsFor(listeners["O"], "up")
<1>1. /\ RemoteTypeOK /\ OnceInv /\ tasks["O"] \in Seq(TaskType) /\ listeners["O"] \in SUBSET EndPoints
      /\ connTasks # <<>> /\ Head(connTasks) = "open" /\ connTasks' = Tail(connTasks)
  BY DEF RemoteInv, RemoteTypeOK, Dev, DoOpenConnection
<1>2. /\ q \in Seq(TaskType) /\ Once(q, UpTask) /\ BeginTask \notin ToSet(q)
      /\ UpTask \in ToSet(q) => "CONTEXT" \in listeners["O"]
  BY <1>1, NewsFacts
<1>3. tasks' = [tasks EXCEPT !["O"] = @ \o q]
  BY DEF DoOpenConnection, OnConnectionUp
<1> HIDE DEF q
<1>4. Opening /\ ~Opening' /\ CalmConn
  BY <1>1, ConnFacts DEF OnceInv
<1>5. ~Up /\ ~Starting
  BY <1>1, <1>4 DEF OnceInv
<1>6. /\ tasks["O"] \o q \in Seq(TaskType) /\ ToSet(tasks["O"] \o q) = ToSet(tasks["O"]) \cup ToSet(q)
      /\ Once(tasks["O"] \o q, UpTask)
  BY <1>1, <1>2, <1>5, ConcatFacts DEF OnceInv, Up
<1>7. tasks' \in [Dev -> Seq(TaskType)] /\ tasks'["O"] = tasks["O"] \o q
  BY <1>1, <1>3, <1>6 DEF RemoteTypeOK, Dev
<1>8. CalmNet(net, net')
  BY <1>1, SocketCalm DEF DoOpenConnection
<1>9. UNCHANGED listeners
  BY DEF DoOpenConnection, OnConnectionUp
<1>10. RemoteTypeOK'
  BY <1>1, <1>4, <1>7, <1>8, <1>9 DEF RemoteTypeOK, CalmNet, CalmConn
<1>11. ~Starting' /\ Once(net.chan["P"], StartReq)'
  BY <1>1, <1>5, <1>8 DEF CalmNet, OnceInv, Starting
<1>12. OnceInv'
  BY <1>1, <1>4, <1>6, <1>7, <1>11 DEF OnceInv, CalmConn
<1>13. /\ "QUERY" \in net'.open["O"] => "QUERY" \in net.open["O"]
       /\ BeginTask \in ToSet(tasks'["O"]) => BeginTask \in ToSet(tasks["O"])
  BY <1>2, <1>6, <1>7, <1>8 DEF CalmNet
<1>14. BeginInv'
  BY <1>4, <1>11, <1>13 DEF RemoteInv, BeginInv
<1>15. NoStaleListener'
  BY <1>9 DEF RemoteInv, NoStaleListener, ContextAlive, VerifierAlive, Ver, Col
<1> QED
  BY <1>10, <1>12, <1>14, <1>15 DEF RemoteInv

\* Every step of the soft bus preserves the invariant.
LEMMA BusInv ==
  ASSUME RemoteInv, BusStep, UNCHANGED <<mode, invoker, verifier, stub>>
  PROVE  RemoteInv'
<1>1. RemoteTypeOK /\ net \in NetType /\ "O" \in Dev /\ "P" \in Dev /\ Ending
  BY EndingSame DEF RemoteInv, RemoteTypeOK, Dev
<1>2. UNCHANGED connTasks => CalmConn
  BY <1>1, ConnFacts
<1>3. UNCHANGED tasks => tasks' \in [Dev -> Seq(TaskType)] /\ CalmTasks(tasks["O"], tasks'["O"])
  BY <1>1, QueueSame
<1>4. UNCHANGED listeners => Withdrawn
  BY ListenersSame
<1>5. \A d \in Dev : OnConnectionDown(d) =>
        tasks' \in [Dev -> Seq(TaskType)] /\ CalmTasks(tasks["O"], tasks'["O"]) /\ Withdrawn
  BY DownFacts
<1>6. UNCHANGED net => CalmNet(net, net')
  BY <1>1, CalmSame
<1> SUFFICES ASSUME ~DoOpenConnection(TRUE)
             PROVE  Calm /\ Withdrawn
  BY <1>1, CalmStep, OpenedInv
<1>7. CASE \E ok \in BOOLEAN : DoOpenConnection(ok)
  <2>1. connTasks # <<>> /\ connTasks' = Tail(connTasks) /\ net' = net /\ OnConnectionDown("O")
    BY <1>7 DEF DoOpenConnection
  <2> QED
    BY <1>1, <1>5, <1>6, <2>1, ConnFacts DEF Calm
<1>8. CASE DoCloseConnection
  <2>1. CalmConn /\ UNCHANGED net /\ (OnConnectionDown("O") \/ UNCHANGED <<tasks, listeners>>)
    BY <1>1, <1>8, ConnFacts DEF DoCloseConnection
  <2> QED
    BY <1>1, <1>3, <1>4, <1>5, <1>6, <2>1 DEF Calm
<1>9. CASE DeleteConnection
  BY <1>1, <1>2, <1>3, <1>4, <1>9, DeleteCalm DEF Calm, DeleteConnection
<1>10. CASE \E d \in Dev, k \in Kinds : ReplyTimerTimeOut(d, k)
  <2>1. PICK d \in Dev, k \in Kinds : ReplyTimerTimeOut(d, k)
    BY <1>10
  <2>2. net' = [net EXCEPT !.open[d] = @ \ {k}] /\ OnConnectionDown(d) /\ UNCHANGED connTasks
    BY <2>1 DEF ReplyTimerTimeOut
  <2>3. CalmNet(net, net')
    BY <1>1, <2>2, SocketCalm
  <2> QED
    BY <1>2, <1>5, <2>2, <2>3 DEF Calm
<1>11. CASE SendKeepAliveMessage
  <2>1. UNCHANGED <<connTasks, listeners>>
    BY <1>11 DEF SendKeepAliveMessage
  <2>2. CASE net' = SendRequest(net, "O", "KEEP_ALIVE") /\ UNCHANGED tasks
    <3>1. "KEEP_ALIVE" \in Kinds /\ "KEEP_ALIVE" \notin {"START", "QUERY"}
      BY DEF Kinds
    <3> QED
      BY <1>1, <1>2, <1>3, <1>4, <2>1, <2>2, <3>1, RequestCalm DEF Calm
  <2>3. CASE tasks' = [tasks EXCEPT !["O"] = Append(@, <<"SOCKET", "down">>)] /\ UNCHANGED net
    <3>1. <<"SOCKET", "down">> \in TaskType /\ <<"SOCKET", "down">> \notin {UpTask, BeginTask}
      BY DEF TaskType, UpTask, BeginTask
    <3> QED
      BY <1>1, <1>2, <1>4, <1>6, <2>1, <2>3, <3>1, QueueAppend DEF Calm
  <2> QED
    BY <1>11, <2>2, <2>3 DEF SendKeepAliveMessage
<1>12. CASE KeepAliveFailed
  <2> DEFINE r == tasks["O"]
             q == NewsFor(listeners["O"], "down")
  <2>1. /\ r \in Seq(TaskType) /\ r # <<>> /\ listeners["O"] \in SUBSET EndPoints
        /\ tasks' = [tasks EXCEPT !["O"] = Tail(r) \o q] /\ UNCHANGED <<net, connTasks>>
        /\ listeners' = [listeners EXCEPT !["O"] = {}]
    BY <1>1, <1>12 DEF RemoteTypeOK, KeepAliveFailed
  <2>2. CalmTasks(r, Tail(r)) /\ Tail(r) \in Seq(TaskType)
    BY <2>1, TasksTail DEF CalmTasks
  <2>3. CalmTasks(Tail(r), Tail(r) \o q)
    BY <2>1, <2>2, TasksNews
  <2> HIDE DEF q
  <2>4. CalmTasks(r, Tail(r) \o q)
    BY <2>2, <2>3 DEF CalmTasks
  <2>5. tasks' \in [Dev -> Seq(TaskType)] /\ CalmTasks(tasks["O"], tasks'["O"])
    BY <1>1, <2>1, <2>4, QueueFacts
  <2>6. Withdrawn
    BY <2>1 DEF RemoteInv, RemoteTypeOK, NoStaleListener, Withdrawn, Col, Ver, Other, Dev
  <2> QED
    BY <1>2, <1>6, <2>1, <2>5, <2>6 DEF Calm
<1>13. CASE KeepAliveArrives
  <2>1. net.chan["P"] # <<>> /\ "KEEP_ALIVE" \in Kinds
    BY <1>13 DEF KeepAliveArrives, Arrives, Kinds
  <2>2. CalmNet(net, Received("P")) /\ Received("P") \in NetType
    BY <1>1, <2>1, ReceivedCalm DEF CalmNet
  <2>3. CalmNet(net, net')
    BY <1>1, <1>13, <2>1, <2>2, ResponseCalm, CalmTwice DEF KeepAliveArrives
  <2> QED
    BY <1>2, <1>3, <1>4, <1>13, <2>3 DEF Calm, KeepAliveArrives
<1>14. CASE ClientShutdown
  BY <1>1, <1>2, <1>5, <1>14, DeleteCalm DEF Calm, ClientShutdown
<1>15. CASE ServerShutdown
  BY <1>1, <1>2, <1>5, <1>15, SocketCalm DEF Calm, ServerShutdown
<1>16. CASE \E d \in Dev : AckDropped(d)
  BY <1>1, <1>2, <1>3, <1>4, <1>16, ReceivedCalm DEF Calm, AckDropped
<1>17. CASE \E how \in {"mute", "down"} : LinkFails(how)
  BY <1>1, <1>2, <1>3, <1>4, <1>17, SocketCalm DEF Calm, LinkFails
<1>18. ASSUME NEW d \in Dev, ServiceSocketUnInit(d)
       PROVE  Calm /\ Withdrawn
  <2>1. CalmNet(net, net') /\ UNCHANGED connTasks /\ (OnConnectionDown("O") \/ UNCHANGED <<tasks, listeners>>)
    BY <1>1, <1>18, SocketCalm DEF ServiceSocketUnInit
  <2> QED
    BY <1>1, <1>2, <1>3, <1>4, <1>5, <2>1 DEF Calm
<1>19. CASE \E d \in Dev : ServiceSocketInit(d)
  BY <1>1, <1>2, <1>3, <1>4, <1>19, SocketCalm DEF Calm, ServiceSocketInit
<1> QED
  BY <1>7, <1>8, <1>9, <1>10, <1>11, <1>12, <1>13, <1>14, <1>15, <1>16, <1>17, <1>18, <1>19 DEF BusStep

-------------------------------------------------------------------------------
(* What the steps of the contexts have in common.                          *)

\* The contexts end as their destructors say.
LEMMA InvokerEnding ==
  ASSUME RemoteInv, NEW n, NEW result, CalmNet(net, n), InvokerEnds(n, result), UNCHANGED <<mode, verifier, stub>>
  PROVE  CalmNet(net, net') /\ CalmConn /\ Withdrawn /\ Ending
<1>1. RemoteTypeOK /\ listeners' = [listeners EXCEPT !["O"] = @ \ {"CONTEXT"}] /\ "O" \in Dev
  BY DEF RemoteInv, InvokerEnds, Dev
<1>2. Withdrawn
  BY <1>1 DEF RemoteInv, RemoteTypeOK, NoStaleListener, Withdrawn, Col, Ver, Other, Dev
<1>3. Ending
  BY <1>1 DEF RemoteTypeOK, InvokerEnds, Ending
<1>4. CalmConn
  BY <1>1, ConnFacts DEF InvokerEnds
<1> QED
  BY <1>2, <1>3, <1>4 DEF InvokerEnds

\* The end of a verifier withdraws its listeners in the same step.
LEMMA VerifierEnding ==
  ASSUME RemoteInv, NEW n, NEW result, CalmNet(net, n), VerifierEnds(n, result), VerifierAlive,
         UNCHANGED <<mode, invoker, stub>>
  PROVE  CalmNet(net, net') /\ CalmConn /\ Withdrawn /\ Ending
<1>1. /\ RemoteTypeOK /\ verifier' = "gone" /\ Ver \in Dev /\ "P" \in Dev
      /\ listeners' = [listeners EXCEPT ![Ver] = @ \ (IF mode = "query" THEN {"CONTEXT", "PROXY"} ELSE {"PROXY"})]
  BY DEF RemoteInv, VerifierEnds, Ver, Dev
<1>2. Withdrawn
  BY <1>1 DEF RemoteInv, RemoteTypeOK, NoStaleListener, Withdrawn, Col, Ver, Other, Dev
<1>3. Ending
  BY <1>1 DEF RemoteTypeOK, Ending, Ver, Dev
<1>4. CalmConn
  BY <1>1, ConnFacts DEF VerifierEnds
<1>5. CalmNet(net, net')
  <2>1. n \in NetType /\ "RESULT" \in Kinds /\ "RESULT" \notin {"START", "QUERY"}
    BY DEF CalmNet, Kinds
  <2>2. CalmNet(net, SendRequest(n, "P", "RESULT"))
    BY <1>1, <2>1, RequestCalm, CalmTwice
  <2> QED
    BY <2>2 DEF VerifierEnds
<1> QED
  BY <1>2, <1>3, <1>4, <1>5

\* So does the end of the stub that executes for it.
LEMMA StubEnding ==
  ASSUME RemoteInv, StubEnds, UNCHANGED mode
  PROVE  Withdrawn
BY DEF StubEnds, RemoteInv, RemoteTypeOK, NoStaleListener, Withdrawn, Col, Ver, Other, Dev

\* A request that is answered at once.
LEMMA AnsweredCalm ==
  ASSUME RemoteInv, NEW d \in Dev, NEW kind \in Kinds, NEW flag \in {"request", "ok", "fail"}, NEW ok \in BOOLEAN,
         Arrives(d, kind, flag)
  PROVE  /\ CalmNet(net, SendResponse(Received(d), d, kind, ok))
         /\ CalmNet(net, Received(d)) /\ CalmNet(net, Acknowledged(d, kind))
<1>1. RemoteTypeOK /\ net.chan[d] # <<>>
  BY DEF RemoteInv, Arrives
<1>2. CalmNet(net, Received(d)) /\ CalmNet(net, Acknowledged(d, kind))
  BY <1>1, ReceivedCalm
<1>3. CalmNet(Received(d), SendResponse(Received(d), d, kind, ok))
  BY <1>2, ResponseCalm DEF CalmNet
<1> QED
  BY <1>2, <1>3, CalmTwice

\* What the steps leave alone.
LEMMA LeftAlone ==
  ASSUME RemoteInv
  PROVE  /\ RemoteTypeOK
         /\ UNCHANGED net => CalmNet(net, net')
         /\ UNCHANGED tasks => tasks' \in [Dev -> Seq(TaskType)] /\ CalmTasks(tasks["O"], tasks'["O"])
         /\ UNCHANGED connTasks => CalmConn
         /\ UNCHANGED <<listeners, mode, stub>> => Withdrawn
         /\ UNCHANGED <<mode, invoker, verifier>> => Ending
         /\ net \in NetType /\ "O" \in Dev /\ "P" \in Dev /\ Ver \in Dev /\ Col \in Dev
<1>1. RemoteTypeOK /\ net \in NetType
  BY DEF RemoteInv, RemoteTypeOK
<1>2. "O" \in Dev /\ "P" \in Dev /\ Ver \in Dev /\ Col \in Dev
  BY DEF Dev, Ver, Col, Other
<1> QED
  BY <1>1, <1>2, CalmSame, QueueSame, ConnFacts, ListenersSame, EndingSame

-------------------------------------------------------------------------------
(* Every step preserves the invariant.                                     *)

\* The connection is asked for once, by the context that needs it.
LEMMA StartsInv ==
  ASSUME RemoteInv, InvokerStarts \/ SetupConnection
  PROVE  RemoteInv'
<1>1. /\ RemoteTypeOK /\ OnceInv /\ BeginInv /\ NoStaleListener
      /\ connTasks \in Seq({"open", "close"}) /\ connTasks' = Append(connTasks, "open")
      /\ UNCHANGED <<net, tasks, mode, stub>> /\ listeners' = [listeners EXCEPT !["O"] = @ \cup {"CONTEXT"}]
  BY DEF RemoteInv, RemoteTypeOK, InvokerStarts, SetupConnection
<1>2. \/ mode = "invoke" /\ invoker = "none" /\ invoker' = "running" /\ verifier' = verifier
      \/ mode = "query" /\ verifier = "none" /\ verifier' = "connect" /\ invoker' = invoker
  BY DEF InvokerStarts, SetupConnection
<1>3. ~Opening /\ ~Up /\ ~Starting
  BY <1>1, <1>2 DEF BeginInv
<1>4. connTasks' \in Seq({"open", "close"}) /\ Opening' /\ Once(connTasks, "open")' /\ ~Up' /\ ~Starting'
  BY <1>1, <1>3, AppendFacts DEF OnceInv, Opening, Up, Starting
<1>5. RemoteTypeOK'
  BY <1>1, <1>2, <1>4 DEF RemoteTypeOK, EndPoints, Dev
<1>6. OnceInv'
  BY <1>1, <1>4 DEF OnceInv
<1>7. BeginInv'
  BY <1>1, <1>2, <1>4 DEF BeginInv
<1>8. NoStaleListener'
  BY <1>1, <1>2 DEF RemoteTypeOK, NoStaleListener, ContextAlive, VerifierAlive, Ver, Col, Other, Dev
<1> QED
  BY <1>5, <1>6, <1>7, <1>8 DEF RemoteInv

\* The ends that come from outside: refusals, cancellations, timers.
LEMMA EndsInv ==
  ASSUME RemoteInv,
         InvokerStartFails \/ InvokerStops \/ InvokerTimesOut \/ VerifierTimesOut \/ VerifierStops
  PROVE  RemoteInv'
<1> USE LeftAlone
<1>1. CASE InvokerStartFails \/ InvokerStops \/ InvokerTimesOut
  <2>1. InvokerEnds(net, "fail") /\ UNCHANGED <<tasks, mode, verifier, stub>>
    BY <1>1 DEF InvokerStartFails, InvokerStops, InvokerTimesOut
  <2>2. CalmNet(net, net)
    BY CalmSame
  <2>3. CalmNet(net, net') /\ CalmConn /\ Withdrawn /\ Ending
    BY <2>1, <2>2, InvokerEnding
  <2> QED
    BY <2>1, <2>3, CalmStep DEF Calm
<1>2. CASE VerifierTimesOut
  <2>1. VerifierAlive /\ VerifierEnds(net, "fail") /\ UNCHANGED <<tasks, mode, invoker, stub>>
    BY <1>2 DEF VerifierTimesOut
  <2>2. CalmNet(net, net)
    BY CalmSame
  <2>3. CalmNet(net, net') /\ CalmConn /\ Withdrawn /\ Ending
    BY <2>1, <2>2, VerifierEnding
  <2> QED
    BY <2>1, <2>3, CalmStep DEF Calm
<1>3. CASE VerifierStops
  <2>1. "END" \in Kinds /\ "END" \notin {"START", "QUERY"}
    BY DEF Kinds
  <2>2. <<"SCHEDULE", "fail">> \in TaskType /\ <<"SCHEDULE", "fail">> \notin {UpTask, BeginTask}
    BY DEF TaskType, UpTask, BeginTask
  <2>3. CalmNet(net, net')
    BY <1>3, <2>1, RequestCalm DEF VerifierStops
  <2>4. tasks' \in [Dev -> Seq(TaskType)] /\ CalmTasks(tasks["O"], tasks'["O"])
    BY <1>3, <2>2, QueueAppend DEF VerifierStops
  <2> QED
    BY <1>3, <2>3, <2>4, CalmStep DEF Calm, VerifierStops
<1> QED
  BY <1>1, <1>2, <1>3

\* The executors' messages and the end of the schedule.
LEMMA ScheduleEnding ==
  ASSUME RemoteInv, NEW result \in {"success", "fail"}, ScheduleEnds(result)
  PROVE  tasks' \in [Dev -> Seq(TaskType)] /\ CalmTasks(tasks["O"], tasks'["O"])
<1>1. <<"SCHEDULE", result>> \in TaskType /\ <<"SCHEDULE", result>> \notin {UpTask, BeginTask}
  BY DEF TaskType, UpTask, BeginTask
<1> QED
  BY <1>1, LeftAlone, QueueAppend DEF ScheduleEnds

\* The steps of the schedules at both ends preserve the invariant.
LEMMA SchedulesInv ==
  ASSUME RemoteInv,
         \/ \E k \in Kinds : ExecutorSends(k) \/ VerifierSends(k)
         \/ \E r \in {"success", "fail"} : VerifierDecides(r)
         \/ ScheduleTimesOut
  PROVE  RemoteInv'
<1> USE LeftAlone
<1>1. ASSUME NEW k \in Kinds, ExecutorSends(k) \/ VerifierSends(k)
      PROVE  RemoteInv'
  <2>1. k \notin {"START", "QUERY"} /\ net' \in {SendRequest(net, Col, k), SendRequest(net, Ver, k)}
    BY <1>1 DEF ExecutorSends, VerifierSends
  <2>2. CalmNet(net, net')
    BY <2>1, RequestCalm
  <2>3. UNCHANGED <<listeners, tasks, connTasks, mode, invoker, verifier, stub>>
    BY <1>1 DEF ExecutorSends, VerifierSends
  <2> QED
    BY <2>2, <2>3, CalmStep DEF Calm
<1>2. ASSUME NEW r \in {"success", "fail"}, VerifierDecides(r)
      PROVE  RemoteInv'
  <2>1. tasks' \in [Dev -> Seq(TaskType)] /\ CalmTasks(tasks["O"], tasks'["O"])
    BY <1>2, ScheduleEnding DEF VerifierDecides
  <2> QED
    BY <1>2, <2>1, CalmStep DEF Calm, VerifierDecides
<1>3. CASE ScheduleTimesOut
  <2>1. "END" \in Kinds /\ "END" \notin {"START", "QUERY"}
    BY DEF Kinds
  <2>2. CalmNet(net, net')
    BY <1>3, <2>1, RequestCalm DEF ScheduleTimesOut
  <2>3. tasks' \in [Dev -> Seq(TaskType)] /\ CalmTasks(tasks["O"], tasks'["O"])
    BY <1>3, ScheduleEnding DEF ScheduleTimesOut
  <2> QED
    BY <1>3, <2>2, <2>3, CalmStep DEF Calm, ScheduleTimesOut
<1> QED
  BY <1>1, <1>2, <1>3

\* The news that the connection is up is turned into the one request it is for.
LEMMA InvokerConnectedInv ==
  ASSUME RemoteInv, NEW found, InvokerConnected(found)
  PROVE  RemoteInv'
<1> USE LeftAlone
<1>1. /\ mode = "invoke" /\ tasks["O"] # <<>> /\ Head(tasks["O"]) = UpTask /\ TaskDone("O")
      /\ tasks["O"] \in Seq(TaskType) /\ UNCHANGED <<mode, verifier, stub>> /\ invoker = "running"
  BY DEF InvokerConnected, Task, UpTask, RemoteTypeOK, ContextAlive
<1>2. tasks' \in [Dev -> Seq(TaskType)] /\ CalmTasks(tasks["O"], tasks'["O"])
  BY <1>1, QueueTail
<1>3. CASE InvokerEnds(net, "fail")
  <2>1. CalmNet(net, net)
    BY CalmSame
  <2>2. CalmNet(net, net') /\ CalmConn /\ Withdrawn /\ Ending
    BY <1>1, <1>3, <2>1, InvokerEnding
  <2> QED
    BY <1>2, <2>2, CalmStep DEF Calm
<1>4. CASE CanSend(net, "O") /\ net' = StartRequest(net) /\ UNCHANGED <<listeners, connTasks, invoker>>
  <2>1. tasks'["O"] = Tail(tasks["O"])
    BY <1>1 DEF TaskDone, RemoteTypeOK
  <2>2. Up /\ ~Up' /\ ~Opening /\ ~Opening' /\ ~Starting /\ OnceInv
    BY <1>1, <1>4, <2>1, TasksTail DEF Up, Opening, OnceInv, RemoteInv
  <2>3. "START" \in Kinds /\ net' \in NetType
    BY <1>4, RequestCalm DEF Kinds, StartRequest
  <2>4. RemoteTypeOK'
    BY <1>1, <1>2, <1>4, <2>3 DEF RemoteTypeOK
  <2>5. /\ Once(net.chan["P"], StartReq)'
    <3>1. net.chan["P"] \in Seq(Message) /\ StartReq \in Message /\ net.chan \in [Dev -> Seq(Message)]
      BY DEF NetType, StartReq, Message, Kinds
    <3>2. Once(Append(net.chan["P"], StartReq), StartReq)
      BY <2>2, <3>1, AppendFacts DEF OnceInv, Starting
    <3>3. net'.chan["P"] \in {net.chan["P"], Append(net.chan["P"], StartReq)}
      BY <1>4, <3>1 DEF StartRequest, SendRequest, Put, Other, NetType, StartReq
    <3> QED
      BY <2>2, <3>2, <3>3 DEF OnceInv
  <2>6. OnceInv'
    BY <1>2, <1>4, <2>2, <2>5 DEF OnceInv, CalmTasks
  <2>7. BeginInv'
    BY <1>1, <1>4, <2>2 DEF RemoteInv, BeginInv
  <2>8. NoStaleListener'
    BY <1>1, <1>4 DEF RemoteInv, NoStaleListener, ContextAlive, VerifierAlive, Ver, Col
  <2> QED
    BY <2>4, <2>6, <2>7, <2>8 DEF RemoteInv
<1> QED
  BY <1>3, <1>4 DEF InvokerConnected

\* The verifier is at its beginning when the query goes out, for it is sent once.
LEMMA QuerySentInv ==
  ASSUME RemoteInv, SendQueryExecutorInfoMsg
  PROVE  RemoteInv'
<1> USE LeftAlone
<1>1. /\ mode = "query" /\ tasks["O"] # <<>> /\ Head(tasks["O"]) = UpTask /\ TaskDone("O")
      /\ tasks["O"] \in Seq(TaskType) /\ UNCHANGED <<mode, invoker, stub>> /\ VerifierAlive
  BY DEF SendQueryExecutorInfoMsg, Task, UpTask, RemoteTypeOK, ContextAlive
<1>2. tasks' \in [Dev -> Seq(TaskType)] /\ CalmTasks(tasks["O"], tasks'["O"])
  BY <1>1, QueueTail
<1>3. CASE VerifierEnds(net, "fail")
  <2>1. CalmNet(net, net)
    BY CalmSame
  <2>2. CalmNet(net, net') /\ CalmConn /\ Withdrawn /\ Ending
    BY <1>1, <1>3, <2>1, VerifierEnding
  <2> QED
    BY <1>2, <2>2, CalmStep DEF Calm
<1>4. CASE net' = SendRequest(net, "O", "QUERY") /\ verifier' = "query" /\ UNCHANGED <<listeners, connTasks>>
  <2>1. tasks'["O"] = Tail(tasks["O"])
    BY <1>1 DEF TaskDone, RemoteTypeOK
  <2>2. Up /\ ~Up' /\ ~Opening /\ ~Opening' /\ ~Starting /\ OnceInv
    BY <1>1, <1>4, <2>1, TasksTail DEF Up, Opening, OnceInv, RemoteInv
  <2>3. verifier = "connect"
    BY <1>1, <2>2 DEF RemoteInv, BeginInv, VerifierAlive
  <2>4. "QUERY" \in Kinds /\ net' \in NetType /\ CalmNet(net, [net' EXCEPT !.open = net.open])
    BY <1>4, RequestCalm DEF Kinds
  <2>5. [net' EXCEPT !.open = net.open].chan = net'.chan
    BY <2>4 DEF NetType
  <2>6. ~Starting' /\ Once(net.chan["P"], StartReq)'
    BY <2>2, <2>4, <2>5 DEF CalmNet, Starting, OnceInv
  <2>7. RemoteTypeOK'
    BY <1>1, <1>2, <1>4, <2>4 DEF RemoteTypeOK
  <2>8. OnceInv'
    BY <1>2, <1>4, <2>2, <2>6 DEF OnceInv, CalmTasks
  <2>9. BeginInv'
    BY <1>1, <1>4, <2>2, <2>6 DEF BeginInv
  <2>10. NoStaleListener'
    BY <1>1, <1>4, <2>3 DEF RemoteInv, NoStaleListener, ContextAlive, VerifierAlive, Ver, Col
  <2> QED
    BY <2>7, <2>8, <2>9, <2>10 DEF RemoteInv
<1> QED
  BY <1>3, <1>4 DEF SendQueryExecutorInfoMsg

\* The schedule begins: in the mode that queries, the query is over.
LEMMA StartAuthInv ==
  ASSUME RemoteInv, StartAuth
  PROVE  RemoteInv'
<1> USE LeftAlone
<1>1. /\ tasks[Ver] # <<>> /\ Head(tasks[Ver]) = BeginTask /\ TaskDone(Ver) /\ VerifierAlive
      /\ verifier' = "auth" /\ listeners' = [listeners EXCEPT ![Ver] = @ \cup {"PROXY"}]
      /\ UNCHANGED <<connTasks, mode, invoker, stub>> /\ tasks[Ver] \in Seq(TaskType)
  BY DEF StartAuth, Task, BeginTask, ProxyStarts, RemoteTypeOK
<1>2. tasks' \in [Dev -> Seq(TaskType)] /\ CalmTasks(tasks["O"], tasks'["O"])
  BY <1>1, QueueTail
<1>3. "BEGIN" \in Kinds /\ "BEGIN" \notin {"START", "QUERY"}
  BY DEF Kinds
<1>4. CalmNet(net, net')
  BY <1>3, RequestCalm DEF StartAuth
<1>5. RemoteTypeOK'
  BY <1>1, <1>2, <1>4 DEF RemoteTypeOK, CalmNet, EndPoints
<1>6. UNCHANGED Opening /\ (Up' => Up) /\ (Starting' => Starting)
  BY <1>1, <1>2, <1>4 DEF Opening, CalmTasks, CalmNet, Up, Starting
<1>7. OnceInv'
  BY <1>1, <1>2, <1>4, <1>6 DEF RemoteInv, OnceInv, CalmNet, CalmTasks
<1>8. mode = "query" => verifier \notin {"none", "connect"}
  <2>1. BeginTask \in ToSet(tasks[Ver])
    BY <1>1, TasksTail
  <2> QED
    BY <2>1 DEF RemoteInv, BeginInv, Ver
<1>9. BeginInv'
  BY <1>1, <1>6, <1>8 DEF RemoteInv, BeginInv, VerifierAlive
<1>10. NoStaleListener'
  BY <1>1 DEF RemoteInv, RemoteTypeOK, NoStaleListener, ContextAlive, VerifierAlive, Ver, Col, Other, Dev
<1> QED
  BY <1>5, <1>7, <1>9, <1>10 DEF RemoteInv

\* Every task a device runs preserves the invariant.
LEMMA RunTaskInv ==
  ASSUME RemoteInv, RunTask
  PROVE  RemoteInv'
<1> USE LeftAlone
<1>1. \A d \in Dev : \A t : Task(d, t) /\ TaskDone(d) =>
        tasks' \in [Dev -> Seq(TaskType)] /\ CalmTasks(tasks["O"], tasks'["O"])
  BY QueueTail DEF Task
<1>2. CalmNet(net, net)
  BY CalmSame
<1>3. CASE InvokerDisconnected
  <2>1. /\ Task("O", <<"CONTEXT", "down">>) /\ TaskDone("O") /\ InvokerEnds(net, "fail")
        /\ UNCHANGED <<mode, verifier, stub>>
    BY <1>3 DEF InvokerDisconnected
  <2>2. CalmNet(net, net') /\ CalmConn /\ Withdrawn /\ Ending
    BY <1>2, <2>1, InvokerEnding
  <2> QED
    BY <1>1, <2>1, <2>2, CalmStep DEF Calm
<1>4. CASE VerifierDisconnected \/ StartAuthFails \/ \E r \in {"success", "fail"} : OnScheduleResult(r)
  <2>1. PICK d \in Dev, r \in {"success", "fail"} :
          (\E t : Task(d, t)) /\ TaskDone(d) /\ VerifierAlive /\ VerifierEnds(net, r) /\ UNCHANGED <<mode, invoker, stub>>
    <3>1. CASE VerifierDisconnected
      BY <3>1 DEF VerifierDisconnected, ContextAlive
    <3>2. CASE StartAuthFails
      BY <3>2 DEF StartAuthFails
    <3>3. CASE \E r \in {"success", "fail"} : OnScheduleResult(r)
      BY <3>3 DEF OnScheduleResult
    <3> QED
      BY <1>4, <3>1, <3>2, <3>3
  <2>2. CalmNet(net, net') /\ CalmConn /\ Withdrawn /\ Ending
    BY <1>2, <2>1, VerifierEnding
  <2> QED
    BY <1>1, <2>1, <2>2, CalmStep DEF Calm
<1>5. CASE ContextIsGone
  <2>1. \E d \in Dev : \E t : Task(d, t) /\ TaskDone(d)
    BY <1>5 DEF ContextIsGone
  <2>2. UNCHANGED <<net, listeners, connTasks, mode, invoker, verifier, stub>>
    BY <1>5 DEF ContextIsGone, authVars
  <2> QED
    BY <1>1, <2>1, <2>2, CalmStep DEF Calm
<1>6. CASE StubDisconnected
  <2>1. Task(Col, <<"STUB", "down">>) /\ TaskDone(Col) /\ UNCHANGED <<net, connTasks, mode, invoker, verifier>>
    BY <1>6 DEF StubDisconnected
  <2>2. Withdrawn
    BY <1>6, <2>1, StubEnding DEF StubDisconnected
  <2> QED
    BY <1>1, <2>1, <2>2, CalmStep DEF Calm
<1> QED
  BY <1>3, <1>4, <1>5, <1>6, InvokerConnectedInv, QuerySentInv, StartAuthInv DEF RunTask

\* The verifier of another device is made by the only START there is.
LEMMA StartArrivesInv ==
  ASSUME RemoteInv, ProcStartRemoteAuthRequest \/ \E scheduled \in BOOLEAN : StartRemoteAuthContextFails(scheduled)
  PROVE  RemoteInv'
<1> USE LeftAlone
<1>1. /\ net.chan["P"] # <<>> /\ Head(net.chan["P"]) = StartReq /\ verifier' \in {"start", "gone"}
      /\ UNCHANGED <<listeners, connTasks, mode, invoker, stub>> /\ net.chan["P"] \in Seq(Message)
  BY DEF ProcStartRemoteAuthRequest, StartRemoteAuthContextFails, Arrives, StartReq, NetType
<1>2. Starting
  BY <1>1, TailFacts DEF Starting
<1>3. /\ OnceInv /\ mode = "invoke" /\ verifier = "none" /\ invoker # "none" /\ ~Opening /\ ~Up
  BY <1>2 DEF RemoteInv, RemoteTypeOK, OnceInv, BeginInv
<1>4. CalmNet(net, Received("P")) /\ StartReq \notin ToSet(Received("P").chan["P"])
  BY <1>1, <1>3, ReceivedCalm DEF OnceInv
<1>5. CalmNet(Received("P"), net')
  <2>1. Received("P") \in NetType /\ "START" \in Kinds /\ "RESULT" \in Kinds /\ "RESULT" \notin {"START", "QUERY"}
    BY <1>4 DEF CalmNet, Kinds
  <2>2. CalmNet(Received("P"), SendRequest(Received("P"), "P", "RESULT"))
    BY <2>1, RequestCalm
  <2>3. \A ok \in BOOLEAN : CalmNet(Received("P"), SendResponse(SendRequest(Received("P"), "P", "RESULT"), "P", "START", ok))
    BY <2>1, <2>2, ResponseCalm, CalmTwice DEF CalmNet
  <2>4. \A ok \in BOOLEAN : CalmNet(Received("P"), SendResponse(Received("P"), "P", "START", ok))
    BY <2>1, ResponseCalm
  <2> QED
    BY <2>3, <2>4 DEF ProcStartRemoteAuthRequest, StartRemoteAuthContextFails
<1>6. CalmNet(net, net') /\ ~Starting'
  BY <1>4, <1>5, CalmTwice DEF CalmNet, Starting
<1>7. tasks' \in [Dev -> Seq(TaskType)] /\ tasks'["O"] = tasks["O"]
  <2>1. BeginTask \in TaskType /\ tasks["P"] \in Seq(TaskType)
    BY DEF BeginTask, TaskType, RemoteTypeOK
  <2>2. Append(tasks["P"], BeginTask) \in Seq(TaskType)
    BY <2>1, AppendFacts
  <2>3. tasks' = tasks \/ tasks' = [tasks EXCEPT !["P"] = Append(tasks["P"], BeginTask)]
    BY DEF ProcStartRemoteAuthRequest, StartRemoteAuthContextFails, BeginTask
  <2> QED
    BY <2>2, <2>3 DEF RemoteTypeOK
<1>8. RemoteTypeOK'
  BY <1>1, <1>6, <1>7 DEF RemoteTypeOK, CalmNet
<1>9. ~Opening' /\ ~Up'
  BY <1>1, <1>3, <1>7 DEF Opening, Up
<1>10. OnceInv'
  BY <1>1, <1>3, <1>6, <1>7, <1>9 DEF OnceInv, CalmNet
<1>11. BeginInv'
  BY <1>1, <1>3, <1>6, <1>9 DEF BeginInv
<1>12. NoStaleListener'
  BY <1>1, <1>3 DEF RemoteInv, NoStaleListener, ContextAlive, Ver, Col
<1> QED
  BY <1>8, <1>10, <1>11, <1>12 DEF RemoteInv

\* An acknowledged query posts the start of the schedule, and only to a verifier that lives.
LEMMA QueryAcknowledgedInv ==
  ASSUME RemoteInv, NEW flag \in {"ok", "fail"}, QueryAcknowledged(flag)
  PROVE  RemoteInv'
<1> USE LeftAlone
<1>1. "QUERY" \in Kinds /\ Arrives("O", "QUERY", flag) /\ "QUERY" \in net.open["O"] /\ UNCHANGED <<mode, invoker, stub>>
  BY DEF Kinds, QueryAcknowledged, AckArrives
<1>2. CalmNet(net, Acknowledged("O", "QUERY"))
  BY <1>1, AnsweredCalm
<1>3. CASE VerifierAlive /\ VerifierEnds(Acknowledged("O", "QUERY"), "fail") /\ UNCHANGED tasks
  <2>1. CalmNet(net, net') /\ CalmConn /\ Withdrawn /\ Ending
    BY <1>1, <1>2, <1>3, VerifierEnding
  <2> QED
    BY <1>3, <2>1, CalmStep DEF Calm
<1>4. CASE net' = Acknowledged("O", "QUERY") /\ UNCHANGED <<tasks, verifier, listeners, connTasks>>
  BY <1>1, <1>2, <1>4, CalmStep DEF Calm
<1>5. CASE /\ net' = Acknowledged("O", "QUERY") /\ VerifierAlive /\ UNCHANGED <<verifier, listeners, connTasks>>
           /\ tasks' = [tasks EXCEPT !["O"] = Append(@, BeginTask)]
  <2>1. BeginTask \in TaskType /\ BeginTask # UpTask /\ tasks["O"] \in Seq(TaskType)
    BY DEF BeginTask, UpTask, TaskType, RemoteTypeOK
  <2>2. /\ Append(tasks["O"], BeginTask) \in Seq(TaskType)
        /\ ToSet(Append(tasks["O"], BeginTask)) = ToSet(tasks["O"]) \cup {BeginTask}
        /\ Once(tasks["O"], UpTask) => Once(Append(tasks["O"], BeginTask), UpTask)
    BY <2>1, TasksAppend
  <2>3. tasks' \in [Dev -> Seq(TaskType)] /\ tasks'["O"] = Append(tasks["O"], BeginTask)
    BY <1>5, <2>2 DEF RemoteTypeOK
  <2>4. RemoteTypeOK'
    BY <1>1, <1>2, <1>5, <2>3 DEF RemoteTypeOK, CalmNet
  <2>5. UNCHANGED <<Opening, Up>> /\ (Starting' => Starting)
    BY <1>2, <1>5, <2>1, <2>2, <2>3 DEF Opening, Up, Starting, CalmNet
  <2>6. OnceInv'
    BY <1>2, <1>5, <2>2, <2>3, <2>5 DEF RemoteInv, OnceInv, CalmNet
  <2>7. BeginInv'
    BY <1>1, <1>5, <2>5 DEF RemoteInv, BeginInv, VerifierAlive
  <2>8. NoStaleListener'
    BY <1>1, <1>5 DEF RemoteInv, NoStaleListener, ContextAlive, VerifierAlive, Ver, Col
  <2> QED
    BY <2>4, <2>6, <2>7, <2>8 DEF RemoteInv
<1> QED
  BY <1>3, <1>4, <1>5 DEF QueryAcknowledged, BeginTask

\* Every message delivered, to whichever end point, preserves the invariant.
LEMMA DeliverInv ==
  ASSUME RemoteInv, Deliver
  PROVE  RemoteInv'
<1> USE LeftAlone
<1>1. \A d \in Dev, k \in Kinds, flag \in {"request", "ok", "fail"}, ok \in BOOLEAN : Arrives(d, k, flag) =>
        CalmNet(net, SendResponse(Received(d), d, k, ok)) /\ CalmNet(net, Acknowledged(d, k))
  BY AnsweredCalm
<1>2. ASSUME NEW found \in BOOLEAN, ProcQueryExecutorInfoRequest(found) PROVE RemoteInv'
  <2>1. "QUERY" \in Kinds /\ UNCHANGED <<listeners, tasks, connTasks, mode, invoker, verifier, stub>>
    BY <1>2 DEF Kinds, ProcQueryExecutorInfoRequest, authVars
  <2> QED
    BY <1>1, <1>2, <2>1, CalmStep DEF Calm, ProcQueryExecutorInfoRequest, ExecutorInfoReply
<1>3. CASE ProcBeginExecuteRequest
  <2>1. "BEGIN" \in Kinds /\ UNCHANGED <<tasks, connTasks, mode, invoker, verifier>>
    BY <1>3 DEF Kinds, ProcBeginExecuteRequest
  <2>2. Withdrawn
    BY <1>3 DEF ProcBeginExecuteRequest, Withdrawn, RemoteInv, RemoteTypeOK, EndPoints
  <2> QED
    BY <1>1, <1>3, <2>1, <2>2, CalmStep DEF Calm, ProcBeginExecuteRequest
<1>4. CASE BeginExecuteFails
  <2>1. "BEGIN" \in Kinds /\ UNCHANGED <<listeners, tasks, connTasks, mode, invoker, verifier, stub>>
    BY <1>4 DEF Kinds, BeginExecuteFails, authVars
  <2> QED
    BY <1>1, <1>4, <2>1, CalmStep DEF Calm, BeginExecuteFails
<1>5. CASE ProcEndExecuteRequest
  <2>1. "END" \in Kinds /\ UNCHANGED <<tasks, connTasks, mode, invoker, verifier>> /\ (stub = "running") \in BOOLEAN
    BY <1>5 DEF Kinds, ProcEndExecuteRequest
  <2>2. Withdrawn
    BY <1>5, StubEnding DEF ProcEndExecuteRequest
  <2>3. CalmNet(net, net')
    BY <1>1, <1>5, <2>1 DEF ProcEndExecuteRequest
  <2> QED
    BY <2>1, <2>2, <2>3, CalmStep DEF Calm
<1>6. ASSUME NEW ok \in BOOLEAN, DataArrives(ok) PROVE RemoteInv'
  <2>1. "DATA" \in Kinds /\ UNCHANGED <<listeners, tasks, connTasks, mode, invoker, verifier, stub>>
    BY <1>6 DEF Kinds, DataArrives, authVars
  <2> QED
    BY <1>1, <1>6, <2>1, CalmStep DEF Calm, DataArrives
<1>7. ASSUME NEW ok \in BOOLEAN, NEW k \in Kinds, ProxyReceives(k, ok) PROVE RemoteInv'
  <2>1. UNCHANGED <<listeners, connTasks, mode, invoker, verifier, stub>> /\ CalmNet(net, net')
    BY <1>1, <1>7 DEF ProxyReceives
  <2>2. UNCHANGED tasks \/ ScheduleEnds("fail")
    BY <1>7 DEF ProxyReceives
  <2> QED
    BY <2>1, <2>2, ScheduleEnding, CalmStep DEF Calm
<1>8. CASE ProcAuthResultMsg
  <2> DEFINE n == SendResponse(Received("O"), "O", "RESULT", TRUE)
  <2>1. PICK result : InvokerEnds(n, result)
    BY <1>8 DEF ProcAuthResultMsg
  <2>2. "RESULT" \in Kinds /\ UNCHANGED <<tasks, mode, verifier, stub>>
    BY <1>8 DEF Kinds, ProcAuthResultMsg
  <2>3. CalmNet(net, n)
    BY <1>1, <1>8, <2>2 DEF ProcAuthResultMsg
  <2> HIDE DEF n
  <2>4. CalmNet(net, net') /\ CalmConn /\ Withdrawn /\ Ending
    BY <2>1, <2>2, <2>3, InvokerEnding
  <2> QED
    BY <2>2, <2>4, CalmStep DEF Calm
<1>9. CASE ProcAuthTipMsg
  <2>1. "TIP" \in Kinds /\ UNCHANGED <<listeners, tasks, connTasks, mode, invoker, verifier, stub>>
    BY <1>9 DEF Kinds, ProcAuthTipMsg, authVars
  <2> QED
    BY <1>1, <1>9, <2>1, CalmStep DEF Calm, ProcAuthTipMsg
<1>10. CASE Unheard /\ UNCHANGED authVars
  <2>1. PICK d \in Dev, k \in Kinds, e \in EndPoints : NoListener(d, k, e)
    BY <1>10 DEF Unheard, Kinds, EndPoints
  <2>2. UNCHANGED <<listeners, tasks, connTasks, mode, invoker, verifier, stub>>
    BY <1>10, <2>1 DEF NoListener, authVars
  <2> QED
    BY <1>1, <2>1, <2>2, CalmStep DEF Calm, NoListener
<1>11. ASSUME NEW flag \in {"ok", "fail"}, StartAcknowledged(flag) PROVE RemoteInv'
  <2>1. "START" \in Kinds /\ UNCHANGED <<tasks, mode, verifier, stub>> /\ Arrives("O", "START", flag)
    BY <1>11 DEF Kinds, StartAcknowledged, AckArrives
  <2>2. CalmNet(net, Acknowledged("O", "START"))
    BY <1>1, <2>1
  <2>3. CASE InvokerEnds(Acknowledged("O", "START"), "fail")
    <3>1. CalmNet(net, net') /\ CalmConn /\ Withdrawn /\ Ending
      BY <2>1, <2>2, <2>3, InvokerEnding
    <3> QED
      BY <2>1, <3>1, CalmStep DEF Calm
  <2>4. CASE net' = Acknowledged("O", "START") /\ UNCHANGED <<invoker, listeners, connTasks>>
    BY <2>1, <2>2, <2>4, CalmStep DEF Calm
  <2> QED
    BY <1>11, <2>3, <2>4 DEF StartAcknowledged
<1>12. ASSUME NEW flag \in {"ok", "fail"}, NEW k \in Kinds, ProxyRequestAcknowledged(k, flag) PROVE RemoteInv'
  <2>1. UNCHANGED <<listeners, connTasks, mode, invoker, verifier, stub>> /\ CalmNet(net, net')
    BY <1>1, <1>12 DEF ProxyRequestAcknowledged, AckArrives
  <2>2. UNCHANGED tasks \/ ScheduleEnds("fail")
    BY <1>12 DEF ProxyRequestAcknowledged
  <2> QED
    BY <2>1, <2>2, ScheduleEnding, CalmStep DEF Calm
<1>13. ASSUME NEW flag \in {"ok", "fail"}, NEW k \in Kinds, NEW d \in Dev, PlainAcknowledged(d, k, flag) PROVE RemoteInv'
  <2>1. UNCHANGED <<listeners, tasks, connTasks, mode, invoker, verifier, stub>> /\ CalmNet(net, net')
    BY <1>1, <1>13 DEF PlainAcknowledged, AckArrives, authVars
  <2> QED
    BY <2>1, CalmStep DEF Calm
<1> QED
  BY <1>2, <1>3, <1>4, <1>5, <1>6, <1>7, <1>8, <1>9, <1>10, <1>11, <1>12, <1>13, StartArrivesInv, QueryAcknowledgedInv
     DEF Deliver

\* RemoteInv holds at first: nothing is connected and nobody listens.
LEMMA RemoteInit ==
  Init => RemoteInv
<1> SUFFICES ASSUME Init PROVE RemoteInv
  OBVIOUS
<1>1. /\ net = NoNet /\ listeners = [d \in Dev |-> {}] /\ tasks = [d \in Dev |-> <<>>] /\ connTasks = <<>>
      /\ mode \in {"invoke", "query"} /\ invoker = "none" /\ verifier = "none" /\ "O" \in Dev /\ "P" \in Dev
  BY DEF Init, BusInit, Dev
<1>2. NoNet \in NetType /\ NoNet.chan["P"] = <<>> /\ NoNet.open["O"] = {}
  BY <1>1, EmptyFacts DEF NoNet, NetType
<1>3. RemoteTypeOK
  BY <1>1, <1>2, EmptyFacts DEF RemoteTypeOK
<1>4. ~Opening /\ ~Up /\ ~Starting /\ OnceInv
  BY <1>1, <1>2, EmptyFacts DEF Opening, Up, Starting, OnceInv
<1>5. BeginInv
  BY <1>1, <1>2, <1>4, EmptyFacts DEF BeginInv
<1>6. NoStaleListener
  BY <1>1 DEF NoStaleListener, Ver, Col, Other, Dev
<1> QED
  BY <1>3, <1>4, <1>5, <1>6 DEF RemoteInv

\* RemoteInv is inductive.
LEMMA RemoteStep ==
  RemoteInv /\ [Next]_vars => RemoteInv'
<1> SUFFICES ASSUME RemoteInv, [Next]_vars PROVE RemoteInv'
  OBVIOUS
<1>1. CASE UNCHANGED vars
  <2>1. UNCHANGED <<net, listeners, tasks, connTasks, mode, invoker, verifier, stub>>
    BY <1>1 DEF vars, busVars, authVars
  <2> QED
    BY <2>1, LeftAlone, CalmStep DEF Calm
<1>2. CASE SoftBusStep
  BY <1>2, BusInv DEF SoftBusStep
<1> QED
  BY <1>1, <1>2, StartsInv, EndsInv, SchedulesInv, RunTaskInv, DeliverInv DEF Next

\* The inductive invariant of remote authentication, for any number of faults and of
\* messages the authentication can do without.
THEOREM RemoteInvariant == Spec => []RemoteInv
<1>1. Init => RemoteInv
  BY RemoteInit
<1>2. RemoteInv /\ [Next]_vars => RemoteInv'
  BY RemoteStep
<1> QED
  BY <1>1, <1>2, PTL DEF Spec

\* A listener on the connection stands for an object that lives (NoStaleListener): the
\* destructors of RemoteAuthContext, RemoteAuthInvokerContext, RemoteExecutorProxy and
\* RemoteExecutorStub withdraw it whatever ended them, however often the link or the soft
\* bus fails.
THEOREM ListenerTheorem == Spec => []NoStaleListener
<1>1. RemoteInv => NoStaleListener
  BY DEF RemoteInv
<1> QED
  BY <1>1, RemoteInvariant, PTL

-------------------------------------------------------------------------------
(* Listeners: events.                                                      *)

\* A handler that has looked for listeners still has its notice to account for.
EventInv ==
  /\ ev \in [up : BOOLEAN, reg : BOOLEAN, map : SUBSET (EventListeners \X EventTypes), adds : Nat,
             checked : BOOLEAN, heard : SUBSET EventListeners]
  /\ ev.checked => ev.adds > 0
  /\ ListenersAreHeard

\* EventInv is inductive: whoever adds a listener leaves a notice or a registration.
LEMMA EventsStep ==
  EventInv /\ [ListenersNext]_listenVars => EventInv'
<1> SUFFICES ASSUME EventInv, [ListenersNext]_listenVars PROVE EventInv'
  OBVIOUS
<1> DEFINE EventType == [up : BOOLEAN, reg : BOOLEAN, map : SUBSET (EventListeners \X EventTypes), adds : Nat,
                         checked : BOOLEAN, heard : SUBSET EventListeners]
<1>a. ev \in EventType /\ (ev.checked => ev.adds > 0) /\ (ev.up /\ ev.map # {} /\ ev.adds = 0 => ev.reg)
  BY DEF EventInv, ListenersAreHeard
<1>b. ev' \in EventType /\ (ev'.checked => ev'.adds > 0) /\ (ev'.up /\ ev'.map # {} /\ ev'.adds = 0 => ev'.reg) => EventInv'
  BY DEF EventInv, ListenersAreHeard
<1>c. UNCHANGED ev => EventInv'
  BY <1>a, <1>b
<1>1. CASE UNCHANGED listenVars
  BY <1>1, <1>c DEF listenVars
<1>2. CASE RecNext
  <2>1. UNCHANGED ev
    BY <1>2 DEF RecNext, RecHandlers, RecPart, SetUserRecognitionResult, OnUserRecognitionEvent, RecognitionTask,
              ClientRecognitionEvent, RegisterRecognition, RegisterRecognitionFails, AddListenerWithCatchUp,
              UnregisterRecognition, RecServiceDies, RecServiceStarts, RecServiceRemoved, ReregisterUserRecognitionListeners
  <2> QED
    BY <2>1, <1>c
<1>3. CASE RiskNext
  <2>1. UNCHANGED ev
    BY <1>3 DEF RiskNext, RiskHandlers, RiskPart, RiskTask, ScreenLockAdded, ScreenLockRemoved, RegisterScreenLockedCallback,
              UnRegisterScreenLockedCallback, ExecutorRegisters, StrongAuthChanges, ScreenLocks, ScreenLockDies,
              ScreenLockStarts, CommonEventDies, CommonEventStarts
  <2> QED
    BY <2>1, <1>c
<1>4. ASSUME NEW l \in EventListeners, UnRegisterListener(l) PROVE EventInv'
  <2> DEFINE rest == {e \in ev.map : e[1] # l}
  <2>1. ev' = [(IF rest = {} THEN UnRegistEventListener(ev) ELSE ev) EXCEPT !.map = rest]
    BY <1>4 DEF UnRegisterListener
  <2>2. (rest # {} => ev.map # {}) /\ rest \in SUBSET (EventListeners \X EventTypes)
    BY <1>a
  <2> HIDE DEF rest
  <2>3. ev' \in EventType /\ ev'.map = rest /\ ev'.adds = ev.adds /\ ev'.checked = ev.checked /\ ev'.up = ev.up
    BY <1>a, <2>1, <2>2 DEF UnRegistEventListener
  <2>4. rest # {} => ev'.reg = ev.reg
    BY <1>a, <2>1
  <2> QED
    BY <1>a, <1>b, <2>2, <2>3, <2>4
<1>5. ASSUME NEW l \in EventListeners, NEW t \in EventTypes, RegisterListener(l, t) PROVE EventInv'
  <2>1. ev' = IF ev.map # {} THEN [ev EXCEPT !.map = @ \cup {<<l, t>>}]
           ELSE IF ev.up THEN [RegistEventListener(ev) EXCEPT !.map = {<<l, t>>}] ELSE ev
    BY <1>5 DEF RegisterListener
  <2>2. /\ ev.map \cup {<<l, t>>} \in SUBSET (EventListeners \X EventTypes)
        /\ {<<l, t>>} \in SUBSET (EventListeners \X EventTypes)
    BY <1>a
  <2>3. ev.map # {} => /\ ev' \in EventType /\ ev'.adds = ev.adds /\ ev'.checked = ev.checked
                       /\ ev'.up = ev.up /\ ev'.reg = ev.reg
    BY <1>a, <2>1, <2>2
  <2>4. ev.map = {} /\ ev.up => /\ ev' \in EventType /\ ev'.adds = ev.adds /\ ev'.checked = ev.checked
                                /\ ev'.reg = TRUE
    BY <1>a, <2>1, <2>2 DEF RegistEventListener
  <2>5. ev.map = {} /\ ~ev.up => UNCHANGED ev
    BY <2>1
  <2>6. ev.map # {} => EventInv'
    BY <1>a, <1>b, <2>3
  <2>7. ev.map = {} /\ ev.up => EventInv'
    BY <1>a, <1>b, <2>4
  <2> QED
    BY <1>c, <2>5, <2>6, <2>7
<1>6. CASE EventServiceRestarts
  <2>1. ev' = [ev EXCEPT !.up = FALSE, !.reg = FALSE]
    BY <1>6 DEF EventServiceRestarts
  <2>2. ev' \in EventType /\ ev'.up = FALSE /\ ev'.adds = ev.adds /\ ev'.checked = ev.checked
    BY <1>a, <2>1
  <2> QED
    BY <1>a, <1>b, <2>2
<1>7. CASE EventServiceAdded
  <2> DEFINE n == ev.adds + 1
  <2>1. ev' = [ev EXCEPT !.up = TRUE, !.adds = n]
    BY <1>7 DEF EventServiceAdded
  <2>2. n \in Nat /\ n > 0 /\ n # 0
    BY <1>a
  <2> HIDE DEF n
  <2>3. ev' \in EventType /\ ev'.adds = n
    BY <1>a, <2>1, <2>2
  <2> QED
    BY <1>b, <2>2, <2>3
<1>8. CASE OnAddSystemAbility
  <2>1. /\ ev.adds > 0 /\ ~ev.checked
        /\ ev' = IF ev.map = {} THEN [ev EXCEPT !.adds = @ - 1] ELSE [ev EXCEPT !.checked = TRUE]
    BY <1>8 DEF OnAddSystemAbility
  <2>2. ev.map = {} => ev' \in EventType /\ ev'.checked = ev.checked /\ ev'.map = {}
    BY <1>a, <2>1
  <2>3. ev.map # {} => /\ ev' \in EventType /\ ev'.adds = ev.adds /\ ev'.up = ev.up /\ ev'.reg = ev.reg
                       /\ ev'.map = ev.map
    BY <1>a, <2>1
  <2>4. ev.map = {} => EventInv'
    BY <1>b, <2>1, <2>2
  <2>5. ev.map # {} => EventInv'
    BY <1>a, <1>b, <2>1, <2>3
  <2> QED
    BY <2>4, <2>5
<1>9. CASE RegisterAgain
  <2> DEFINE n == ev.adds - 1
             r == ev.reg \/ ev.up
  <2>1. ev.checked /\ ev' = [ev EXCEPT !.reg = r, !.checked = FALSE, !.adds = n]
    BY <1>a, <1>9 DEF RegisterAgain, RegistEventListener
  <2>2. n \in Nat
    BY <1>a, <2>1
  <2>3. r \in BOOLEAN /\ (ev.up => r)
    OBVIOUS
  <2> HIDE DEF n, r
  <2>4. ev' \in EventType /\ ev'.checked = FALSE /\ ev'.up = ev.up /\ ev'.reg = r
    BY <1>a, <2>1, <2>2, <2>3
  <2> QED
    BY <1>b, <2>3, <2>4
<1>10. CASE EventClientDies
  <2>1. ev' \in EventType /\ ev'.checked = FALSE /\ ev'.map = {}
    BY <1>a, <1>10 DEF EventClientDies, NoEvents
  <2> QED
    BY <1>b, <2>1
<1>11. ASSUME NEW t \in EventTypes, OnNotifyEvent(t) PROVE EventInv'
  <2>1. ev' = [ev EXCEPT !.heard = GetEventListenerSet(t)] /\ GetEventListenerSet(t) \in SUBSET EventListeners
    BY <1>11 DEF OnNotifyEvent, GetEventListenerSet
  <2>2. /\ ev' \in EventType /\ ev'.adds = ev.adds /\ ev'.checked = ev.checked /\ ev'.up = ev.up
        /\ ev'.reg = ev.reg /\ ev'.map = ev.map
    BY <1>a, <2>1
  <2> QED
    BY <1>a, <1>b, <2>2
<1> QED
  BY <1>1, <1>2, <1>3, <1>4, <1>5, <1>6, <1>7, <1>8, <1>9, <1>10, <1>11 DEF ListenersNext, EventNext, EventHandlers

\* No listener is registered at the start.
LEMMA EventsInit == ListenersIdle => EventInv
BY DEF ListenersIdle, EventInv, NoEvents, ListenersAreHeard

\* The property is a conjunct of its invariant.
LEMMA EventsHeard == EventInv => ListenersAreHeard
BY DEF EventInv

\* A client with event listeners is registered with the service that runs now, unless the
\* notice of that service is still on its way (ListenersAreHeard), for any listeners,
\* event types and number of restarts: OnAddSystemAbility registers the callback object
\* again even though it looks for listeners under a lock it has released by then.
THEOREM ListenersTheorem == ListenersSpec => []ListenersAreHeard
BY EventsInit, EventsStep, EventsHeard, PTL DEF ListenersSpec, ListenersInit

-------------------------------------------------------------------------------
(* Listeners: recognition.                                                 *)
(*                                                                         *)
(* What is under way for the client's object, in the order in which it     *)
(* will arrive: on the wire, in the handler's queue, and a result that is  *)
(* set and not yet posted.  The last of these is the present state.        *)

RecState == Results \cup {NoResult}
Posting == [to : SUBSET Objects, is : Results]
RecService ==
  [up : BOOLEAN, cache : Results, setting : RecState, lst : SUBSET Objects, queue : Seq(Posting)]
RecClient ==
  [obj : 0 .. MaxMoves, made : Nat, subscribed : BOOLEAN, early : BOOLEAN, latest : [Objects -> RecState],
   ls : SUBSET EventListeners, adding : SUBSET (EventListeners \X Objects),
   told : [EventListeners -> RecState], wire : Seq(Objects \X Results),
   notices : Seq({"add", "remove"})]

RecTypeOK ==
  /\ rec \in RecService /\ cli \in RecClient /\ moves \in 0 .. MaxMoves
  /\ cli.made <= moves /\ cli.obj <= cli.made
  /\ \A o \in rec.lst : o <= cli.made
  /\ rec.setting \in {NoResult, rec.cache}

QueueNone(q, o) == \A i \in DOMAIN q : o \notin q[i].to
QueueLast(q, o, v) ==
  \A i \in DOMAIN q : o \in q[i].to /\ (\A j \in DOMAIN q : j > i => o \notin q[j].to) => q[i].is = v
WireNone(w, o) == \A i \in DOMAIN w : w[i][1] # o
WireLast(w, o, v) ==
  \A i \in DOMAIN w : w[i][1] = o /\ (\A j \in DOMAIN w : j > i => w[j][1] # o) => w[i][2] = v

\* The object is registered with the service that runs, and was so in good time.
Registered == rec.up /\ cli.obj \in rec.lst /\ ~cli.early

\* A client that is not registered with the service that runs has its notice to come; one
\* that is has not the end of another to hear of.
NoticeInv ==
  /\ cli.ls # {} => cli.obj # 0
  /\ cli.obj # 0 => cli.subscribed
  /\ rec.up /\ cli.obj # 0 /\ cli.obj \notin rec.lst =>
       cli.notices # <<>> /\ cli.notices[Len(cli.notices)] = "add"
  /\ Registered => "remove" \notin ToSet(cli.notices)

ToldInv ==
  /\ cli.latest[cli.obj] \in {rec.cache, NoResult}
  /\ \A l \in cli.ls : cli.told[l] \in {rec.cache, NoResult}

UnderWayInv ==
  rec.setting = NoResult =>
    /\ QueueLast(rec.queue, cli.obj, rec.cache)
    /\ QueueNone(rec.queue, cli.obj) =>
         /\ WireLast(cli.wire, cli.obj, rec.cache)
         /\ WireNone(cli.wire, cli.obj) => ToldInv

RecInv == RecTypeOK /\ NoticeInv /\ (Registered => UnderWayInv)

\* A result just posted is the last for everyone it is posted to.
LEMMA QueueAppended ==
  ASSUME NEW q \in Seq(Posting), NEW e \in Posting, NEW o \in e.to
  PROVE  /\ Append(q, e) \in Seq(Posting)
         /\ QueueLast(Append(q, e), o, e.is) /\ ~QueueNone(Append(q, e), o)
<1> DEFINE r == Append(q, e)
<1>1. /\ r \in Seq(Posting) /\ Len(q) \in Nat /\ DOMAIN r = 1 .. (Len(q) + 1)
      /\ r[Len(q) + 1] = e
  BY AppendProperties, LenProperties
<1> HIDE DEF r
<1>2. \A i \in DOMAIN r : i # Len(q) + 1 => Len(q) + 1 > i
  BY <1>1
<1>3. Len(q) + 1 \in DOMAIN r
  BY <1>1
<1> QED
  BY <1>1, <1>2, <1>3 DEF QueueLast, QueueNone, r

\* The last posting for an object stays the last until it is itself taken.
LEMMA QueueTaken ==
  ASSUME NEW q \in Seq(Posting), q # <<>>, NEW o, NEW v, QueueLast(q, o, v)
  PROVE  /\ Head(q) \in Posting /\ Tail(q) \in Seq(Posting)
         /\ QueueLast(Tail(q), o, v)
         /\ QueueNone(Tail(q), o) => IF o \in Head(q).to THEN Head(q).is = v ELSE QueueNone(q, o)
<1> DEFINE r == Tail(q)
<1>1. /\ Len(q) \in Nat /\ Len(q) > 0 /\ r \in Seq(Posting) /\ Head(q) = q[1] /\ Head(q) \in Posting
      /\ DOMAIN q = 1 .. Len(q) /\ DOMAIN r = 1 .. (Len(q) - 1)
      /\ \A i \in 1 .. (Len(q) - 1) : r[i] = q[i + 1]
  BY HeadTailProperties, LenProperties, EmptySeq
<1> HIDE DEF r
<1>2. \A i \in DOMAIN q : i # 1 => i - 1 \in DOMAIN r /\ r[i - 1] = q[i]
  BY <1>1
<1>3. \A i \in DOMAIN r : i + 1 \in DOMAIN q /\ r[i] = q[i + 1]
  BY <1>1
<1>4. QueueLast(r, o, v)
  <2> SUFFICES ASSUME NEW i \in DOMAIN r, o \in r[i].to, \A j \in DOMAIN r : j > i => o \notin r[j].to
               PROVE  r[i].is = v
    BY DEF QueueLast
  <2>1. \A j \in DOMAIN q : j > i + 1 => o \notin q[j].to
    <3> SUFFICES ASSUME NEW j \in DOMAIN q, j > i + 1 PROVE o \notin q[j].to
      OBVIOUS
    <3>1. j - 1 \in DOMAIN r /\ r[j - 1] = q[j] /\ j - 1 > i
      BY <1>1, <1>2
    <3> QED
      BY <3>1
  <2> QED
    BY <1>3, <2>1 DEF QueueLast
<1>5. ASSUME QueueNone(r, o) PROVE IF o \in Head(q).to THEN Head(q).is = v ELSE QueueNone(q, o)
  <2>1. \A j \in DOMAIN q : j # 1 => o \notin q[j].to
    BY <1>2, <1>5 DEF QueueNone
  <2>2. 1 \in DOMAIN q /\ \A j \in DOMAIN q : j > 1 => j # 1
    BY <1>1
  <2> QED
    BY <1>1, <2>1, <2>2 DEF QueueLast, QueueNone
<1> QED
  BY <1>1, <1>4, <1>5 DEF r

\* The same on the wire to the client.
LEMMA WireTaken ==
  ASSUME NEW w \in Seq(Objects \X Results), w # <<>>, NEW o, NEW v
  PROVE  /\ Head(w) \in Objects \X Results /\ Tail(w) \in Seq(Objects \X Results)
         /\ WireLast(w, o, v) => WireLast(Tail(w), o, v)
         /\ WireLast(w, o, v) /\ WireNone(Tail(w), o) => IF o = Head(w)[1] THEN Head(w)[2] = v ELSE WireNone(w, o)
<1> DEFINE r == Tail(w)
<1>1. /\ Len(w) \in Nat /\ Len(w) > 0 /\ r \in Seq(Objects \X Results) /\ Head(w) = w[1] /\ Head(w) \in Objects \X Results
      /\ DOMAIN w = 1 .. Len(w) /\ DOMAIN r = 1 .. (Len(w) - 1)
      /\ \A i \in 1 .. (Len(w) - 1) : r[i] = w[i + 1]
  BY HeadTailProperties, LenProperties, EmptySeq
<1> HIDE DEF r
<1>2. \A i \in DOMAIN w : i # 1 => i - 1 \in DOMAIN r /\ r[i - 1] = w[i]
  BY <1>1
<1>3. \A i \in DOMAIN r : i + 1 \in DOMAIN w /\ r[i] = w[i + 1]
  BY <1>1
<1>4. ASSUME WireLast(w, o, v) PROVE WireLast(r, o, v)
  <2> SUFFICES ASSUME NEW i \in DOMAIN r, r[i][1] = o, \A j \in DOMAIN r : j > i => r[j][1] # o
               PROVE  r[i][2] = v
    BY DEF WireLast
  <2>1. \A j \in DOMAIN w : j > i + 1 => w[j][1] # o
    <3> SUFFICES ASSUME NEW j \in DOMAIN w, j > i + 1 PROVE w[j][1] # o
      OBVIOUS
    <3>1. j - 1 \in DOMAIN r /\ r[j - 1] = w[j] /\ j - 1 > i
      BY <1>1, <1>2
    <3> QED
      BY <3>1
  <2> QED
    BY <1>3, <1>4, <2>1 DEF WireLast
<1>5. ASSUME WireLast(w, o, v), WireNone(r, o) PROVE IF o = Head(w)[1] THEN Head(w)[2] = v ELSE WireNone(w, o)
  <2>1. \A j \in DOMAIN w : j # 1 => w[j][1] # o
    BY <1>2, <1>5 DEF WireNone
  <2>2. 1 \in DOMAIN w /\ \A j \in DOMAIN w : j > 1 => j # 1
    BY <1>1
  <2> QED
    BY <1>1, <1>5, <2>1, <2>2 DEF WireLast, WireNone
<1> QED
  BY <1>1, <1>4, <1>5 DEF r

\* A posting goes out to its objects, in some order.
Deliveries(to, v) == {<<o, v>> : o \in to}

Sent(w, to, v) == w \o SetToSeq(Deliveries(to, v))

\* A result sent to an object is the last on its wire; other objects see no change.
LEMMA WirePosted ==
  ASSUME NEW w \in Seq(Objects \X Results), NEW to \in SUBSET Objects, NEW v \in Results, NEW o
  PROVE  /\ Sent(w, to, v) \in Seq(Objects \X Results)
         /\ o \in to => WireLast(Sent(w, to, v), o, v) /\ ~WireNone(Sent(w, to, v), o)
         /\ o \notin to => /\ \A u : WireLast(w, o, u) => WireLast(Sent(w, to, v), o, u)
                           /\ WireNone(Sent(w, to, v), o) => WireNone(w, o)
<1> DEFINE S == Deliveries(to, v)
           y == SetToSeq(S)
           x == Sent(w, to, v)
<1>0. \A e : e \in S <=> \E b \in to : e = <<b, v>>
  BY DEF Deliveries
<1>x. x = w \o y
  BY DEF Sent
<1> HIDE DEF S, x
<1>1. IsFiniteSet(S) /\ S \subseteq Objects \X Results
  <2>1. IsFiniteSet(Objects)
    BY FS_Interval, ListenersBounds DEF Objects
  <2>2. IsFiniteSet(to)
    BY <2>1, FS_Subset
  <2>3. IsFiniteSet({v})
    BY FS_Singleton
  <2>4. IsFiniteSet(to \X {v})
    BY <2>2, <2>3, FS_Product
  <2>5. S \in SUBSET (to \X {v})
    BY <1>0
  <2>6. IsFiniteSet(S)
    BY <2>4, <2>5, FS_Subset
  <2> QED
    BY <1>0, <2>6
<1>2. y \in Seq(Objects \X Results) /\ ToSet(y) = S
  <2>1. y \in Seq(S) /\ ToSet(y) = S
    BY <1>1, SetToSeqFacts
  <2> HIDE DEF y
  <2> QED
    BY <1>1, <2>1
<1>3. /\ x \in Seq(Objects \X Results) /\ Len(w) \in Nat /\ Len(y) \in Nat
      /\ DOMAIN w = 1 .. Len(w) /\ DOMAIN y = 1 .. Len(y) /\ DOMAIN x = 1 .. (Len(w) + Len(y))
      /\ \A i \in 1 .. (Len(w) + Len(y)) : x[i] = IF i <= Len(w) THEN w[i] ELSE y[i - Len(w)]
  BY <1>x, <1>2, ConcatProperties, LenProperties
<1>4. \A i \in DOMAIN y : y[i] \in S
  BY <1>2 DEF ToSet
<1>5. \A e \in S : \E i \in DOMAIN y : y[i] = e
  BY <1>2 DEF ToSet
<1> HIDE DEF y
<1>6. \A i \in DOMAIN x : i <= Len(w) => i \in DOMAIN w /\ x[i] = w[i]
  BY <1>3
<1>7. ASSUME NEW i \in DOMAIN x, ~(i <= Len(w)) PROVE x[i] \in S
  <2>1. i - Len(w) \in DOMAIN y /\ x[i] = y[i - Len(w)]
    BY <1>3, <1>7
  <2> QED
    BY <1>4, <2>1
<1>8. \A i \in DOMAIN w : i \in DOMAIN x /\ x[i] = w[i] /\ i <= Len(w)
  BY <1>3
<1>9. ASSUME o \in to PROVE WireLast(x, o, v) /\ ~WireNone(x, o)
  <2>1. PICK k \in DOMAIN y : y[k] = <<o, v>>
    BY <1>0, <1>5, <1>9
  <2>2. Len(w) + k \in DOMAIN x /\ x[Len(w) + k] = <<o, v>> /\ \A i \in DOMAIN x : i <= Len(w) => Len(w) + k > i
    BY <1>3, <2>1
  <2>3. \A i \in DOMAIN x : ~(i <= Len(w)) => x[i][2] = v
    BY <1>0, <1>7
  <2> QED
    BY <2>2, <2>3 DEF WireLast, WireNone
<1>10. ASSUME o \notin to, NEW u, WireLast(w, o, u) PROVE WireLast(x, o, u)
  <2>1. \A i \in DOMAIN x : ~(i <= Len(w)) => x[i][1] # o
    BY <1>0, <1>7, <1>10
  <2> QED
    BY <1>6, <1>8, <1>10, <2>1 DEF WireLast
<1>11. ASSUME WireNone(x, o) PROVE WireNone(w, o)
  BY <1>8, <1>11 DEF WireNone
<1> QED
  BY <1>3, <1>9, <1>10, <1>11 DEF x

\* The last notice is still to come as long as an earlier one is taken.
LEMMA NoticeTaken ==
  ASSUME NEW n \in Seq({"add", "remove"}), n # <<>>
  PROVE  /\ Head(n) \in {"add", "remove"} /\ Tail(n) \in Seq({"add", "remove"})
         /\ ToSet(n) = {Head(n)} \cup ToSet(Tail(n))
         /\ n[Len(n)] # Head(n) => Tail(n) # <<>> /\ Tail(n)[Len(Tail(n))] = n[Len(n)]
<1>1. /\ Len(n) \in Nat /\ Len(n) > 0 /\ Head(n) = n[1] /\ Head(n) \in {"add", "remove"}
      /\ Tail(n) \in Seq({"add", "remove"}) /\ Len(Tail(n)) = Len(n) - 1
      /\ \A i \in 1 .. (Len(n) - 1) : Tail(n)[i] = n[i + 1]
  BY HeadTailProperties, LenProperties, EmptySeq
<1>2. Tail(n) = <<>> => Len(n) = 1
  BY <1>1
<1>3. ToSet(n) = {Head(n)} \cup ToSet(Tail(n))
  BY TailFacts
<1> QED
  BY <1>1, <1>2, <1>3

\* The fields of the recognition state, one by one, for the provers.
LEMMA RecFields ==
  ASSUME RecInv
  PROVE  /\ rec.up \in BOOLEAN /\ rec.cache \in Results /\ rec.setting \in RecState /\ rec.lst \in SUBSET Objects
         /\ rec.queue \in Seq(Posting)
         /\ cli.obj \in 0 .. MaxMoves /\ cli.made \in Nat /\ cli.subscribed \in BOOLEAN /\ cli.early \in BOOLEAN
         /\ cli.latest \in [Objects -> RecState] /\ cli.ls \in SUBSET EventListeners
         /\ cli.adding \in SUBSET (EventListeners \X Objects)
         /\ cli.told \in [EventListeners -> RecState] /\ cli.wire \in Seq(Objects \X Results)
         /\ cli.notices \in Seq({"add", "remove"})
         /\ moves \in Nat /\ MaxMoves \in Nat /\ NoResult \notin Results /\ Uncertain \in Results
         /\ cli.obj # 0 => cli.obj \in Objects
         /\ cli.obj \in rec.lst => cli.obj # 0
<1>1. MaxMoves \in Nat
  BY ListenersBounds
<1>2. NoResult \notin Results /\ Uncertain \in Results
  BY DEF NoResult, Results, Uncertain
<1> QED
  BY <1>1, <1>2 DEF RecInv, RecTypeOK, RecService, RecClient, Objects

\* The service is told a result, and posts it.
LEMMA SetResultInv ==
  ASSUME RecInv, NEW r \in Results, SetUserRecognitionResult(r)
  PROVE  RecInv'
<1> USE RecFields
<1>1. rec' = [rec EXCEPT !.cache = r, !.setting = r] /\ UNCHANGED cli /\ moves < MaxMoves /\ moves' = moves + 1
  BY DEF SetUserRecognitionResult, Move
<1>2. /\ rec' \in RecService /\ rec'.cache = r /\ rec'.setting = r /\ rec'.up = rec.up /\ rec'.lst = rec.lst
  BY <1>1 DEF RecInv, RecTypeOK, RecService, RecState
<1>3. moves' \in 0 .. MaxMoves /\ cli.made <= moves'
  BY <1>1 DEF RecInv, RecTypeOK
<1>4. RecTypeOK'
  BY <1>1, <1>2, <1>3 DEF RecInv, RecTypeOK
<1>5. NoticeInv' /\ UnderWayInv'
  BY <1>1, <1>2 DEF RecInv, NoticeInv, Registered, UnderWayInv
<1> QED
  BY <1>4, <1>5 DEF RecInv

\* A new result is set and posted in one order: it becomes the last under way.
LEMMA ResultPostedInv ==
  ASSUME RecInv, OnUserRecognitionEvent
  PROVE  RecInv'
<1> USE RecFields
<1> DEFINE e == [to |-> rec.lst, is |-> rec.setting]
<1>1. rec' = [rec EXCEPT !.setting = NoResult, !.queue = Append(@, e)] /\ UNCHANGED <<cli, moves>> /\ rec.setting # NoResult
  BY DEF OnUserRecognitionEvent
<1>2. e \in Posting /\ e.to = rec.lst /\ e.is = rec.setting
  BY <1>1 DEF Posting, RecState
<1> HIDE DEF e
<1>3. Append(rec.queue, e) \in Seq(Posting)
  BY <1>2, AppendFacts
<1>4. /\ rec' \in RecService /\ rec'.cache = rec.cache /\ rec'.setting = NoResult /\ rec'.up = rec.up
      /\ rec'.lst = rec.lst /\ rec'.queue = Append(rec.queue, e)
  BY <1>1, <1>3 DEF RecInv, RecTypeOK, RecService, RecState
<1>5. RecTypeOK' /\ NoticeInv' /\ (Registered' => Registered)
  BY <1>1, <1>4 DEF RecInv, RecTypeOK, NoticeInv, Registered
<1>6. ASSUME Registered PROVE UnderWayInv'
  <2>1. rec.setting = rec.cache /\ cli.obj \in e.to
    BY <1>1, <1>2, <1>6 DEF RecInv, RecTypeOK, Registered
  <2>2. QueueLast(Append(rec.queue, e), cli.obj, rec.cache) /\ ~QueueNone(Append(rec.queue, e), cli.obj)
    BY <1>2, <2>1, QueueAppended
  <2> QED
    BY <1>1, <1>4, <2>2 DEF UnderWayInv
<1> QED
  BY <1>5, <1>6 DEF RecInv

\* The handler sends what is posted.
LEMMA RecognitionTaskInv ==
  ASSUME RecInv, RecognitionTask
  PROVE  RecInv'
<1> USE RecFields
<1>0. rec.queue # <<>> /\ UNCHANGED moves /\ rec' = [rec EXCEPT !.queue = Tail(@)]
  BY DEF RecognitionTask
<1> DEFINE h == Head(rec.queue)
           x == Sent(cli.wire, h.to, h.is)
<1>1. cli' = [cli EXCEPT !.wire = x]
  BY DEF RecognitionTask, Deliveries, Sent
<1>2. h \in Posting /\ Tail(rec.queue) \in Seq(Posting)
  BY <1>0, TailFacts
<1>3. h.to \in SUBSET Objects /\ h.is \in Results
  BY <1>2 DEF Posting
<1>4. /\ x \in Seq(Objects \X Results)
      /\ cli.obj \in h.to => WireLast(x, cli.obj, h.is) /\ ~WireNone(x, cli.obj)
      /\ cli.obj \notin h.to => /\ \A u : WireLast(cli.wire, cli.obj, u) => WireLast(x, cli.obj, u)
                                /\ WireNone(x, cli.obj) => WireNone(cli.wire, cli.obj)
  BY <1>3, WirePosted
<1>5. /\ QueueLast(rec.queue, cli.obj, rec.cache) => QueueLast(Tail(rec.queue), cli.obj, rec.cache)
      /\ QueueLast(rec.queue, cli.obj, rec.cache) /\ QueueNone(Tail(rec.queue), cli.obj) =>
           IF cli.obj \in h.to THEN h.is = rec.cache ELSE QueueNone(rec.queue, cli.obj)
  BY <1>0, QueueTaken
<1> HIDE DEF h, x
<1>6. /\ rec' \in RecService /\ rec'.cache = rec.cache /\ rec'.setting = rec.setting /\ rec'.up = rec.up
      /\ rec'.lst = rec.lst /\ rec'.queue = Tail(rec.queue)
  BY <1>0, <1>2 DEF RecInv, RecTypeOK, RecService
<1>7. /\ cli' \in RecClient /\ cli'.wire = x /\ cli'.obj = cli.obj /\ cli'.made = cli.made /\ cli'.early = cli.early
      /\ cli'.latest = cli.latest /\ cli'.ls = cli.ls /\ cli'.told = cli.told /\ cli'.notices = cli.notices
      /\ cli'.subscribed = cli.subscribed
  BY <1>1, <1>4 DEF RecInv, RecTypeOK, RecClient
<1>8. RecTypeOK' /\ NoticeInv' /\ (Registered' => Registered)
  BY <1>0, <1>6, <1>7 DEF RecInv, RecTypeOK, NoticeInv, Registered
<1>9. ToldInv => ToldInv'
  BY <1>6, <1>7 DEF ToldInv
<1>10. UnderWayInv => UnderWayInv'
  BY <1>4, <1>5, <1>6, <1>7, <1>9 DEF UnderWayInv
<1> QED
  BY <1>8, <1>10 DEF RecInv

\* What it sends arrives.
LEMMA ToldFacts ==
  ASSUME RecInv, NEW c \in RecClient, NEW r \in Results, c.obj \in Objects
  PROVE  LET d == Told(c, r)
         IN  /\ d \in RecClient /\ d.obj = c.obj /\ d.made = c.made /\ d.early = c.early /\ d.subscribed = c.subscribed
             /\ d.ls = c.ls /\ d.wire = c.wire /\ d.notices = c.notices
             /\ d.latest[c.obj] = r /\ \A l \in c.ls : d.told[l] = r
<1> DEFINE f == [l \in EventListeners |-> IF l \in c.ls THEN r ELSE c.told[l]]
<1>1. c.told \in [EventListeners -> RecState] /\ c.ls \in SUBSET EventListeners /\ c.latest \in [Objects -> RecState]
  BY DEF RecClient
<1>2. f \in [EventListeners -> RecState] /\ \A l \in c.ls : f[l] = r
  BY <1>1 DEF RecState
<1>3. Told(c, r) = [c EXCEPT !.latest = [c.latest EXCEPT ![c.obj] = r], !.told = f]
  BY DEF Told, RecClient
<1>4. [c.latest EXCEPT ![c.obj] = r] \in [Objects -> RecState] /\ [c.latest EXCEPT ![c.obj] = r][c.obj] = r
  BY <1>1 DEF RecState
<1> HIDE DEF f
<1> QED
  BY <1>2, <1>3, <1>4 DEF RecClient

\* A result that arrives is told at once, so the client is left with the last.
LEMMA EventArrivesInv ==
  ASSUME RecInv, ClientRecognitionEvent
  PROVE  RecInv'
<1> USE RecFields
<1> DEFINE e == Head(cli.wire)
           c == [cli EXCEPT !.wire = Tail(@)]
<1>1. cli.wire # <<>> /\ UNCHANGED <<rec, moves>> /\ cli' = IF e[1] = cli.obj THEN Told(c, e[2]) ELSE c
  BY DEF ClientRecognitionEvent
<1>2. /\ e \in Objects \X Results /\ Tail(cli.wire) \in Seq(Objects \X Results)
      /\ WireLast(cli.wire, cli.obj, rec.cache) =>
           /\ WireLast(Tail(cli.wire), cli.obj, rec.cache)
           /\ WireNone(Tail(cli.wire), cli.obj) =>
                IF cli.obj = e[1] THEN e[2] = rec.cache ELSE WireNone(cli.wire, cli.obj)
  BY <1>1, WireTaken
<1> HIDE DEF e
<1>3. /\ c \in RecClient /\ c.obj = cli.obj /\ c.made = cli.made /\ c.early = cli.early
      /\ c.subscribed = cli.subscribed /\ c.ls = cli.ls /\ c.wire = Tail(cli.wire) /\ c.notices = cli.notices
      /\ c.latest = cli.latest /\ c.told = cli.told
  BY <1>2 DEF RecInv, RecTypeOK, RecClient
<1> HIDE DEF c
<1>4. CASE e[1] = cli.obj
  <2>1. e[2] \in Results /\ c.obj \in Objects
    BY <1>2, <1>3, <1>4
  <2>2. /\ cli' \in RecClient /\ cli'.obj = cli.obj /\ cli'.made = cli.made /\ cli'.early = cli.early
        /\ cli'.subscribed = cli.subscribed /\ cli'.ls = cli.ls /\ cli'.wire = Tail(cli.wire)
        /\ cli'.notices = cli.notices /\ cli'.latest[cli.obj] = e[2] /\ \A l \in cli.ls : cli'.told[l] = e[2]
    BY <1>1, <1>3, <1>4, <2>1, ToldFacts
  <2>3. RecTypeOK' /\ NoticeInv' /\ (Registered' => Registered)
    BY <1>1, <2>2 DEF RecInv, RecTypeOK, NoticeInv, Registered
  <2>4. UnderWayInv => UnderWayInv'
    BY <1>1, <1>2, <1>4, <2>2 DEF UnderWayInv, ToldInv
  <2> QED
    BY <2>3, <2>4 DEF RecInv
<1>5. CASE e[1] # cli.obj
  <2>1. RecTypeOK' /\ NoticeInv' /\ (Registered' => Registered)
    BY <1>1, <1>3, <1>5 DEF RecInv, RecTypeOK, NoticeInv, Registered
  <2>2. UnderWayInv => UnderWayInv'
    BY <1>1, <1>2, <1>3, <1>5 DEF UnderWayInv, ToldInv
  <2> QED
    BY <2>1, <2>2 DEF RecInv
<1> QED
  BY <1>4, <1>5

\* The client registers its object: it is sent the present state.
LEMMA RegisteredFacts ==
  ASSUME RecInv, NEW o \in Objects, o \notin rec.lst
  PROVE  LET s == RecognitionRegistered(o)
         IN  /\ s \in RecService /\ s.cache = rec.cache /\ s.setting = rec.setting /\ s.up = rec.up
             /\ s.lst = rec.lst \cup {o}
             /\ QueueLast(s.queue, o, rec.cache) /\ ~QueueNone(s.queue, o)
<1> USE RecFields
<1> DEFINE e == [to |-> {o}, is |-> rec.cache]
<1>1. e \in Posting /\ o \in e.to /\ e.is = rec.cache
  BY DEF Posting
<1>2. RecognitionRegistered(o) = [rec EXCEPT !.lst = @ \cup {o}, !.queue = Append(@, e)]
  BY DEF RecognitionRegistered
<1> HIDE DEF e
<1>3. /\ Append(rec.queue, e) \in Seq(Posting)
      /\ QueueLast(Append(rec.queue, e), o, rec.cache) /\ ~QueueNone(Append(rec.queue, e), o)
  BY <1>1, QueueAppended
<1> QED
  BY <1>2, <1>3 DEF RecInv, RecTypeOK, RecService

\* A new subscriber of the service's notices is told of one that is there.
LEMMA SubscribedFacts ==
  ASSUME RecInv
  PROVE  LET s == Subscribed(cli)
         IN  /\ s \in RecClient /\ s.obj = cli.obj /\ s.made = cli.made /\ s.subscribed = TRUE
             /\ s.early = cli.early /\ s.latest = cli.latest /\ s.ls = cli.ls /\ s.adding = cli.adding
             /\ s.told = cli.told /\ s.wire = cli.wire
             /\ cli.subscribed => s.notices = cli.notices
             /\ ~cli.subscribed => s.notices \in {<<"add">>, <<>>}
<1>1. <<"add">> \in Seq({"add", "remove"}) /\ <<>> \in Seq({"add", "remove"})
  BY SingleFacts, EmptySeq
<1> DEFINE n == IF rec.up THEN <<"add">> ELSE <<>>
<1>2. n \in Seq({"add", "remove"}) /\ n \in {<<"add">>, <<>>}
  BY <1>1
<1>3. Subscribed(cli) = IF cli.subscribed THEN cli ELSE [cli EXCEPT !.subscribed = TRUE, !.notices = n]
  BY DEF Subscribed
<1> HIDE DEF n
<1> QED
  BY <1>2, <1>3, RecFields DEF RecInv, RecTypeOK, RecClient

\* A first listener's object is posted the present state; for another nothing changes yet.
LEMMA RegisterRecognitionInv ==
  ASSUME RecInv, NEW l \in EventListeners, RegisterRecognition(l)
  PROVE  RecInv'
<1> USE RecFields
<1> DEFINE s == Subscribed(cli)
<1>1. moves < MaxMoves /\ moves' = moves + 1
  BY DEF RegisterRecognition, Move
<1>2. moves' \in 0 .. MaxMoves /\ moves' >= moves /\ cli.made + 1 <= moves' /\ cli.made + 1 \in Objects
  BY <1>1 DEF RecInv, RecTypeOK, Objects
<1>3. /\ s \in RecClient /\ s.obj = cli.obj /\ s.made = cli.made /\ s.subscribed = TRUE /\ s.early = cli.early
      /\ s.latest = cli.latest /\ s.ls = cli.ls /\ s.adding = cli.adding /\ s.told = cli.told
      /\ s.wire = cli.wire
      /\ cli.subscribed => s.notices = cli.notices
      /\ ~cli.subscribed => s.notices \in {<<"add">>, <<>>}
  BY SubscribedFacts
<1> HIDE DEF s
<1>4. CASE cli.obj = 0
  <2> DEFINE o == cli.made + 1
  <2>1. o \in Objects /\ o \notin rec.lst /\ cli.made < o /\ o \in Nat
    BY <1>2 DEF RecInv, RecTypeOK
  <2>2. rec' = RecognitionRegistered(o)
    BY <1>4 DEF RegisterRecognition
  <2> DEFINE a == cli.adding \cup {<<l, o>>}
             early == cli.notices # <<>>
  <2>a. cli' = [s EXCEPT !.obj = o, !.made = o, !.adding = @ \cup {<<l, o>>}, !.early = early]
    BY <1>3, <1>4 DEF RegisterRecognition, s
  <2>3. cli' = [s EXCEPT !.obj = o, !.made = o, !.adding = a, !.early = early]
    BY <1>3, <2>a DEF RecClient
  <2>b. a \in SUBSET (EventListeners \X Objects)
    BY <2>1
  <2>4. o <= moves'
    BY <1>2
  <2> HIDE DEF o, a
  <2>5. o \in 0 .. MaxMoves
    BY <2>1 DEF Objects
  <2>6. /\ rec' \in RecService /\ rec'.cache = rec.cache /\ rec'.setting = rec.setting /\ rec'.up = rec.up
        /\ rec'.lst = rec.lst \cup {o}
        /\ QueueLast(rec'.queue, o, rec.cache) /\ ~QueueNone(rec'.queue, o)
    BY <2>1, <2>2, RegisteredFacts
  <2>7. /\ cli' \in RecClient /\ cli'.obj = o /\ cli'.made = o /\ cli'.subscribed = TRUE
        /\ cli'.early = (cli.notices # <<>>) /\ cli'.notices = s.notices
    <3>1. early \in BOOLEAN
      OBVIOUS
    <3> HIDE DEF early
    <3>2. /\ cli' \in RecClient /\ cli'.obj = o /\ cli'.made = o /\ cli'.subscribed = TRUE
          /\ cli'.early = early /\ cli'.notices = s.notices
      BY <1>3, <2>b, <2>1, <2>3, <2>5, <3>1 DEF RecClient
    <3> QED
      BY <3>2 DEF early
  <2>8. \A b \in rec'.lst : b <= o
    <3>1. \A b \in rec.lst : b \in Nat /\ b <= cli.made
      BY DEF RecInv, RecTypeOK, Objects
    <3> QED
      BY <2>1, <2>6, <3>1
  <2>9. RecTypeOK'
    BY <1>2, <2>1, <2>4, <2>6, <2>7, <2>8 DEF RecInv, RecTypeOK
  <2>10. NoticeInv'
    <3>1. o # 0
      BY <2>1 DEF Objects
    <3>2. Registered' => "remove" \notin ToSet(cli'.notices)
      <4>1. ToSet(<<>>) = {} /\ ToSet(<<"add">>) = {"add"}
        BY EmptyFacts, SingleFacts
      <4>2. Registered' => cli.notices = <<>>
        BY <2>7 DEF Registered
      <4>3. s.notices \in {cli.notices, <<"add">>, <<>>}
        BY <1>3
      <4> HIDE DEF early
      <4> QED
        BY <2>7, <4>1, <4>2, <4>3
    <3> QED
      BY <2>6, <2>7, <3>1, <3>2 DEF NoticeInv
  <2>11. UnderWayInv'
    BY <2>6, <2>7 DEF UnderWayInv
  <2> QED
    BY <2>9, <2>10, <2>11 DEF RecInv
<1>5. CASE cli.obj # 0
  <2> DEFINE a == cli.adding \cup {<<l, cli.obj>>}
  <2>a. a \in SUBSET (EventListeners \X Objects)
    BY <1>5
  <2>1. rec' = rec /\ cli' = [s EXCEPT !.obj = cli.obj, !.made = cli.made, !.adding = a, !.early = cli.early]
    <3>1. /\ rec' = rec
          /\ cli' = [s EXCEPT !.obj = cli.obj, !.made = @, !.adding = @ \cup {<<l, cli.obj>>}, !.early = @]
      BY <1>5 DEF RegisterRecognition, s
    <3> QED
      BY <1>3, <3>1 DEF RecClient
  <2> HIDE DEF a
  <2>2. cli.subscribed
    BY <1>5 DEF RecInv, NoticeInv
  <2>4. /\ cli' \in RecClient /\ cli'.obj = cli.obj /\ cli'.made = cli.made /\ cli'.subscribed = TRUE
        /\ cli'.early = cli.early /\ cli'.notices = cli.notices /\ cli'.latest = cli.latest /\ cli'.wire = cli.wire
        /\ cli'.ls = cli.ls /\ cli'.told = cli.told
    BY <1>3, <1>5, <2>a, <2>1, <2>2 DEF RecClient
  <2>5. RecTypeOK'
    BY <1>2, <2>1, <2>4 DEF RecInv, RecTypeOK
  <2>6. NoticeInv' /\ (Registered' => Registered)
    BY <1>5, <2>1, <2>4 DEF RecInv, NoticeInv, Registered
  <2>7. UnderWayInv => UnderWayInv'
    BY <2>1, <2>4 DEF UnderWayInv, ToldInv
  <2> QED
    BY <2>5, <2>6, <2>7 DEF RecInv
<1> QED
  BY <1>4, <1>5

\* A registration that fails has subscribed to the notices, and a client not subscribed
\* has no object.
LEMMA RegisterRecognitionFailsInv ==
  ASSUME RecInv, RegisterRecognitionFails
  PROVE  RecInv'
<1> USE RecFields
<1>1. /\ ~cli.subscribed /\ moves < MaxMoves /\ moves' = moves + 1
      /\ cli' = Subscribed(cli) /\ UNCHANGED rec
  BY DEF RegisterRecognitionFails, Move
<1>2. cli' \in RecClient /\ cli'.obj = cli.obj /\ cli'.made = cli.made /\ cli'.ls = cli.ls
  BY <1>1, SubscribedFacts
<1>3. cli.obj = 0
  BY <1>1 DEF RecInv, NoticeInv
<1>4. moves' \in 0 .. MaxMoves /\ cli.made <= moves'
  BY <1>1 DEF RecInv, RecTypeOK
<1>5. RecTypeOK'
  BY <1>1, <1>2, <1>4 DEF RecInv, RecTypeOK
<1>6. NoticeInv' /\ ~Registered'
  BY <1>1, <1>2, <1>3 DEF RecInv, NoticeInv, Registered
<1> QED
  BY <1>5, <1>6 DEF RecInv

\* A listener added to the active object is told the latest result the object has.
LEMMA AddListenerInv ==
  ASSUME RecInv, NEW l \in EventListeners, NEW o \in Objects, AddListenerWithCatchUp(l, o)
  PROVE  RecInv'
<1> USE RecFields
<1> DEFINE c == [cli EXCEPT !.adding = @ \ {<<l, o>>}]
<1>1. /\ UNCHANGED <<rec, moves>>
      /\ cli' = IF o = c.obj /\ l \notin c.ls
                THEN [c EXCEPT !.ls = @ \cup {l}, !.told[l] = c.latest[o]] ELSE c
  BY DEF AddListenerWithCatchUp
<1>2. /\ c \in RecClient /\ c.obj = cli.obj /\ c.made = cli.made /\ c.early = cli.early
      /\ c.subscribed = cli.subscribed /\ c.ls = cli.ls /\ c.wire = cli.wire /\ c.latest = cli.latest
      /\ c.told = cli.told /\ c.notices = cli.notices
  BY DEF RecInv, RecTypeOK, RecClient
<1> HIDE DEF c
<1>3. CASE o = cli.obj /\ l \notin cli.ls
  <2> DEFINE f == [cli.told EXCEPT ![l] = cli.latest[cli.obj]]
  <2>1. cli' = [c EXCEPT !.ls = cli.ls \cup {l}, !.told = f]
    BY <1>1, <1>2, <1>3 DEF RecClient
  <2>2. cli.obj # 0 /\ cli.latest[cli.obj] \in RecState
    BY <1>3 DEF Objects
  <2>3. f \in [EventListeners -> RecState] /\ f[l] = cli.latest[cli.obj] /\ \A k \in cli.ls : f[k] = cli.told[k]
    BY <1>3, <2>2
  <2> HIDE DEF f
  <2>4. /\ cli' \in RecClient /\ cli'.obj = cli.obj /\ cli'.made = cli.made /\ cli'.subscribed = cli.subscribed
        /\ cli'.early = cli.early /\ cli'.notices = cli.notices /\ cli'.latest = cli.latest /\ cli'.wire = cli.wire
        /\ cli'.ls = cli.ls \cup {l} /\ cli'.told = f
    BY <1>2, <2>1, <2>3 DEF RecClient
  <2>5. RecTypeOK' /\ NoticeInv' /\ (Registered' => Registered)
    BY <1>1, <2>2, <2>4 DEF RecInv, RecTypeOK, NoticeInv, Registered
  <2>6. UnderWayInv => UnderWayInv'
    BY <1>1, <2>3, <2>4 DEF UnderWayInv, ToldInv
  <2> QED
    BY <2>5, <2>6 DEF RecInv
<1>4. CASE ~(o = cli.obj /\ l \notin cli.ls)
  <2>1. cli' = c
    BY <1>1, <1>2, <1>4
  <2>2. RecTypeOK' /\ NoticeInv' /\ (Registered' => Registered)
    BY <1>1, <1>2, <2>1 DEF RecInv, RecTypeOK, NoticeInv, Registered
  <2>3. UnderWayInv => UnderWayInv'
    BY <1>1, <1>2, <2>1 DEF UnderWayInv, ToldInv
  <2> QED
    BY <2>2, <2>3 DEF RecInv
<1> QED
  BY <1>3, <1>4

\* The last listener that leaves takes its object along, at the service too.
LEMMA UnregisterRecognitionInv ==
  ASSUME RecInv, NEW l \in EventListeners, UnregisterRecognition(l)
  PROVE  RecInv'
<1> USE RecFields
<1>1. moves < MaxMoves /\ moves' = moves + 1
  BY DEF UnregisterRecognition, Move
<1>2. moves' \in 0 .. MaxMoves /\ cli.made <= moves'
  BY <1>1 DEF RecInv, RecTypeOK
<1> DEFINE f == [cli.told EXCEPT ![l] = NoResult]
<1>3. f \in [EventListeners -> RecState] /\ \A k \in cli.ls \ {l} : f[k] = cli.told[k]
  BY DEF RecState
<1> HIDE DEF f
<1>4. CASE cli.ls \subseteq {l}
  <2>a. cli.ls \ {l} = {}
    BY <1>4
  <2>b. cli' = [cli EXCEPT !.ls = @ \ {l}, !.obj = 0, !.told[l] = NoResult]
    BY <1>4 DEF UnregisterRecognition
  <2>c. rec' \in {rec, [rec EXCEPT !.lst = @ \ {cli.obj}]}
    BY <1>4 DEF UnregisterRecognition
  <2>1. cli' = [cli EXCEPT !.ls = @ \ {l}, !.obj = 0, !.told = f]
    BY <2>b DEF f
  <2>2. cli' \in RecClient /\ cli'.obj = 0 /\ cli'.ls = {} /\ cli'.made = cli.made
    <3>1. 0 \in 0 .. MaxMoves
      OBVIOUS
    <3> QED
      BY <1>3, <2>a, <2>1, <3>1 DEF RecInv, RecTypeOK, RecClient
  <2>3. rec' \in RecService /\ rec'.lst \in SUBSET rec.lst
    BY <2>c DEF RecInv, RecTypeOK, RecService
  <2>d. rec'.setting = rec.setting /\ rec'.cache = rec.cache
    BY <2>c DEF RecInv, RecTypeOK, RecService
  <2>4. RecTypeOK'
    BY <1>2, <2>2, <2>3, <2>d DEF RecInv, RecTypeOK
  <2>5. ~Registered'
    BY <2>2, <2>3 DEF Registered, Objects
  <2> QED
    BY <2>2, <2>4, <2>5 DEF RecInv, NoticeInv
<1>5. CASE ~(cli.ls \subseteq {l})
  <2>1. cli' = [cli EXCEPT !.ls = cli.ls \ {l}, !.told = f] /\ rec' = rec
    BY <1>5 DEF UnregisterRecognition, f, RecInv, RecTypeOK, RecClient
  <2>2. /\ cli' \in RecClient /\ cli'.obj = cli.obj /\ cli'.made = cli.made /\ cli'.subscribed = cli.subscribed
        /\ cli'.early = cli.early /\ cli'.notices = cli.notices /\ cli'.latest = cli.latest /\ cli'.wire = cli.wire
        /\ cli'.ls = cli.ls \ {l} /\ cli'.told = f
    BY <1>3, <2>1 DEF RecInv, RecTypeOK, RecClient
  <2>3. RecTypeOK'
    BY <1>2, <2>1, <2>2 DEF RecInv, RecTypeOK
  <2>4. NoticeInv' /\ (Registered' => Registered)
    BY <1>1, <2>1, <2>2 DEF RecInv, NoticeInv, Registered
  <2>5. UnderWayInv => UnderWayInv'
    BY <1>3, <2>1, <2>2 DEF UnderWayInv, ToldInv
  <2> QED
    BY <2>3, <2>4, <2>5 DEF RecInv
<1> QED
  BY <1>4, <1>5

\* The service dies and starts, and samgr says so.
Noticed(n) == [cli EXCEPT !.notices = IF cli.subscribed THEN Append(@, n) ELSE @]

\* A notice to the client, when it listens for them, is its last.
LEMMA NoticedFacts ==
  ASSUME RecInv, NEW n \in {"add", "remove"}, cli' = Noticed(n)
  PROVE  /\ cli' \in RecClient /\ cli'.obj = cli.obj /\ cli'.made = cli.made /\ cli'.subscribed = cli.subscribed
         /\ cli'.ls = cli.ls
         /\ cli.obj # 0 => cli'.notices # <<>> /\ cli'.notices[Len(cli'.notices)] = n
<1> USE RecFields
<1> DEFINE m == IF cli.subscribed THEN Append(cli.notices, n) ELSE cli.notices
<1>1. m \in Seq({"add", "remove"})
  BY AppendProperties
<1>2. cli.subscribed => m # <<>> /\ m[Len(m)] = n
  <2>1. Len(cli.notices) \in Nat /\ Len(Append(cli.notices, n)) = Len(cli.notices) + 1
        /\ Append(cli.notices, n)[Len(cli.notices) + 1] = n /\ Append(cli.notices, n) \in Seq({"add", "remove"})
    BY AppendProperties, LenProperties
  <2>2. Append(cli.notices, n) # <<>>
    <3> DEFINE z == Append(cli.notices, n)
    <3>1. Len(z) = Len(cli.notices) + 1 /\ Len(cli.notices) \in Nat
      BY <2>1
    <3> HIDE DEF z
    <3>2. z # <<>>
      BY ONLY <3>1
    <3> QED
      BY <3>2 DEF z
  <2> QED
    BY <2>1, <2>2
<1>3. cli.obj # 0 => cli.subscribed
  BY DEF RecInv, NoticeInv
<1> HIDE DEF m
<1>4. Noticed(n) = [cli EXCEPT !.notices = m]
  BY DEF m, Noticed
<1> QED
  BY <1>1, <1>2, <1>3, <1>4 DEF RecInv, RecTypeOK, RecClient

\* A service that has just died or started knows of no object.
LEMMA NoRecServiceFacts ==
  ASSUME RecInv, NEW b \in BOOLEAN
  PROVE  LET s == [NoRecService EXCEPT !.up = b]
         IN  /\ s \in RecService /\ s.up = b /\ s.lst = {} /\ s.setting = NoResult
             /\ NoRecService \in RecService /\ NoRecService.up = FALSE /\ NoRecService.lst = {}
             /\ NoRecService.setting = NoResult
<1>1. <<>> \in Seq(Posting)
  BY EmptySeq
<1> QED
  BY <1>1, RecFields DEF NoRecService, RecService, RecState

\* The death of the service leaves the client unregistered with a notice to come.
LEMMA RecServiceDiesInv ==
  ASSUME RecInv, RecServiceDies
  PROVE  RecInv'
<1> USE RecFields
<1>1. /\ rec' = NoRecService /\ moves < MaxMoves /\ moves' = moves + 1
      /\ cli' = Noticed("remove")
  BY DEF RecServiceDies, Move, Noticed
<1>2. /\ cli' \in RecClient /\ cli'.obj = cli.obj /\ cli'.made = cli.made /\ cli'.subscribed = cli.subscribed
      /\ cli'.ls = cli.ls
  BY <1>1, NoticedFacts
<1>4. rec' \in RecService /\ rec'.up = FALSE /\ rec'.lst = {} /\ rec'.setting = NoResult
  BY <1>1, NoRecServiceFacts
<1>5. moves' \in 0 .. MaxMoves /\ cli.made <= moves'
  BY <1>1 DEF RecInv, RecTypeOK
<1>6. RecTypeOK'
  BY <1>2, <1>4, <1>5 DEF RecInv, RecTypeOK
<1>7. NoticeInv' /\ ~Registered'
  BY <1>2, <1>4 DEF RecInv, NoticeInv, Registered
<1> QED
  BY <1>6, <1>7 DEF RecInv

\* A new service knows nobody; its clients have a notice that it was added to come.
LEMMA RecServiceStartsInv ==
  ASSUME RecInv, RecServiceStarts
  PROVE  RecInv'
<1> USE RecFields
<1>1. /\ rec' = [NoRecService EXCEPT !.up = TRUE] /\ UNCHANGED moves
      /\ cli' = Noticed("add")
  BY DEF RecServiceStarts, Noticed
<1>2. /\ cli' \in RecClient /\ cli'.obj = cli.obj /\ cli'.made = cli.made /\ cli'.subscribed = cli.subscribed
      /\ cli'.ls = cli.ls /\ (cli.obj # 0 => cli'.notices # <<>> /\ cli'.notices[Len(cli'.notices)] = "add")
  BY <1>1, NoticedFacts
<1>3. rec' \in RecService /\ rec'.up = TRUE /\ rec'.lst = {} /\ rec'.setting = NoResult
  BY <1>1, NoRecServiceFacts
<1>4. RecTypeOK'
  BY <1>1, <1>2, <1>3 DEF RecInv, RecTypeOK
<1>5. NoticeInv' /\ ~Registered'
  BY <1>2, <1>3 DEF RecInv, NoticeInv, Registered
<1> QED
  BY <1>4, <1>5 DEF RecInv

\* A notice is heard.
LEMMA HeardFacts ==
  ASSUME RecInv, cli.notices # <<>>
  PROVE  LET c == [cli EXCEPT !.notices = Tail(@)]
         IN  /\ c \in RecClient /\ c.obj = cli.obj /\ c.made = cli.made /\ c.early = cli.early
             /\ c.subscribed = cli.subscribed /\ c.ls = cli.ls /\ c.wire = cli.wire /\ c.latest = cli.latest
             /\ c.told = cli.told /\ c.notices = Tail(cli.notices)
<1>1. Tail(cli.notices) \in Seq({"add", "remove"})
  BY RecFields, NoticeTaken
<1> QED
  BY <1>1 DEF RecInv, RecTypeOK, RecClient

\* A removal is never the last notice while the service that runs does not know the client.
LEMMA RecServiceRemovedInv ==
  ASSUME RecInv, RecServiceRemoved
  PROVE  RecInv'
<1> USE RecFields
<1> DEFINE c == [cli EXCEPT !.notices = Tail(@)]
<1>1. /\ cli.notices # <<>> /\ Head(cli.notices) = "remove" /\ UNCHANGED <<rec, moves>>
      /\ cli' = IF c.obj = 0 THEN c ELSE Told(c, Uncertain)
  BY DEF RecServiceRemoved
<1>2. /\ c \in RecClient /\ c.obj = cli.obj /\ c.made = cli.made /\ c.early = cli.early
      /\ c.subscribed = cli.subscribed /\ c.ls = cli.ls /\ c.notices = Tail(cli.notices)
  BY <1>1, HeardFacts
<1> HIDE DEF c
<1>3. /\ cli' \in RecClient /\ cli'.obj = cli.obj /\ cli'.made = cli.made /\ cli'.early = cli.early
      /\ cli'.subscribed = cli.subscribed /\ cli'.ls = cli.ls /\ cli'.notices = Tail(cli.notices)
  <2>1. CASE c.obj = 0
    BY <1>1, <1>2, <2>1
  <2>2. CASE c.obj # 0
    <3>1. c.obj \in Objects
      BY <1>2, <2>2
    <3> QED
      BY <1>1, <1>2, <2>2, <3>1, ToldFacts
  <2> QED
    BY <2>1, <2>2
<1>4. ~Registered
  <2>1. "remove" \in ToSet(cli.notices)
    BY <1>1, NoticeTaken
  <2> QED
    BY <2>1 DEF RecInv, NoticeInv
<1>5. cli.notices[Len(cli.notices)] = "add" =>
        Tail(cli.notices) # <<>> /\ Tail(cli.notices)[Len(Tail(cli.notices))] = "add"
  BY <1>1, NoticeTaken
<1>6. RecTypeOK' /\ ~Registered'
  BY <1>1, <1>3, <1>4 DEF RecInv, RecTypeOK, Registered
<1>7. NoticeInv'
  BY <1>1, <1>3, <1>5, <1>6 DEF RecInv, NoticeInv
<1> QED
  BY <1>6, <1>7 DEF RecInv

\* A client that hears of a service registers its object with it and is posted the present state.
LEMMA ReregisteredInv ==
  ASSUME RecInv, ReregisterUserRecognitionListeners
  PROVE  RecInv'
<1> USE RecFields
<1> DEFINE c == [cli EXCEPT !.notices = Tail(@)]
           n == Tail(cli.notices)
           f == [cli.latest EXCEPT ![cli.obj] = NoResult]
           early == IF cli.obj \in rec.lst THEN cli.early ELSE n # <<>>
<1>1. cli.notices # <<>> /\ Head(cli.notices) = "add" /\ UNCHANGED moves
  BY DEF ReregisterUserRecognitionListeners
<1>2. /\ c \in RecClient /\ c.obj = cli.obj /\ c.made = cli.made /\ c.early = cli.early
      /\ c.subscribed = cli.subscribed /\ c.ls = cli.ls /\ c.wire = cli.wire /\ c.latest = cli.latest
      /\ c.told = cli.told /\ c.notices = n
  BY <1>1, HeardFacts
<1>3. ToSet(n) \subseteq ToSet(cli.notices)
  BY <1>1, NoticeTaken
<1>4. CASE rec.up /\ cli.obj # 0
  <2>1. cli' = [c EXCEPT !.latest = f, !.early = early] /\ rec' = RecognitionRegistered(cli.obj)
    <3>1. /\ cli' = [c EXCEPT !.latest[c.obj] = NoResult,
                              !.early = IF c.obj \in rec.lst THEN @ ELSE c.notices # <<>>]
          /\ rec' = RecognitionRegistered(c.obj)
      BY <1>2, <1>4 DEF ReregisterUserRecognitionListeners
    <3> QED
      BY <1>2, <3>1 DEF RecClient
  <2>2. cli.obj \in Objects /\ f \in [Objects -> RecState] /\ f[cli.obj] = NoResult
    BY <1>4 DEF RecState
  <2>3. early \in BOOLEAN
    OBVIOUS
  <2> HIDE DEF f, c
  <2>4. /\ cli' \in RecClient /\ cli'.obj = cli.obj /\ cli'.made = cli.made /\ cli'.subscribed = cli.subscribed
        /\ cli'.ls = cli.ls /\ cli'.wire = cli.wire /\ cli'.told = cli.told /\ cli'.notices = n /\ cli'.latest = f
        /\ cli'.early = early
    <3> HIDE DEF early, n
    <3> QED
      BY <1>2, <2>1, <2>2, <2>3 DEF RecClient
  <2>5. CASE cli.obj \in rec.lst
    <3>1. rec' = rec /\ cli'.early = cli.early
      BY <2>1, <2>4, <2>5 DEF RecognitionRegistered
    <3> HIDE DEF n
    <3>2. RecTypeOK' /\ NoticeInv' /\ (Registered' => Registered)
      BY <1>1, <1>3, <1>4, <2>4, <2>5, <3>1 DEF RecInv, RecTypeOK, NoticeInv, Registered
    <3>3. UnderWayInv => UnderWayInv'
      BY <2>2, <2>4, <3>1 DEF UnderWayInv, ToldInv
    <3> QED
      BY <3>2, <3>3 DEF RecInv
  <2>6. CASE cli.obj \notin rec.lst
    <3>1. /\ rec' \in RecService /\ rec'.cache = rec.cache /\ rec'.setting = rec.setting /\ rec'.up = rec.up
          /\ rec'.lst = rec.lst \cup {cli.obj}
          /\ QueueLast(rec'.queue, cli.obj, rec.cache) /\ ~QueueNone(rec'.queue, cli.obj)
      BY <2>1, <2>2, <2>6, RegisteredFacts
    <3>2. Registered' => n = <<>>
      BY <2>4, <2>6 DEF Registered
    <3>3. ToSet(<<>>) = {}
      BY EmptyFacts
    <3> HIDE DEF n, early
    <3>4. RecTypeOK'
      BY <1>1, <2>4, <3>1 DEF RecInv, RecTypeOK
    <3>5. NoticeInv'
      BY <2>4, <3>1, <3>2, <3>3 DEF RecInv, NoticeInv
    <3>6. UnderWayInv'
      BY <2>4, <3>1 DEF UnderWayInv
    <3> QED
      BY <3>4, <3>5, <3>6 DEF RecInv
  <2> QED
    BY <2>5, <2>6
<1>5. CASE ~(rec.up /\ cli.obj # 0)
  <2>1. cli' = c /\ rec' = rec
    BY <1>2, <1>5 DEF ReregisterUserRecognitionListeners
  <2> HIDE DEF c, n
  <2>2. RecTypeOK' /\ ~Registered'
    BY <1>1, <1>2, <1>5, <2>1 DEF RecInv, RecTypeOK, Registered
  <2>3. NoticeInv'
    BY <1>2, <1>5, <2>1, <2>2 DEF RecInv, NoticeInv
  <2> QED
    BY <2>2, <2>3 DEF RecInv
<1> QED
  BY <1>4, <1>5

\* RecInv is inductive.
LEMMA RecognitionStep ==
  RecInv /\ [ListenersNext]_listenVars => RecInv'
<1> SUFFICES ASSUME RecInv, [ListenersNext]_listenVars PROVE RecInv'
  OBVIOUS
<1>1. ASSUME UNCHANGED <<rec, cli>>, UNCHANGED moves \/ Move PROVE RecInv'
  <2>1. moves' \in 0 .. MaxMoves /\ moves <= moves'
    BY <1>1, RecFields DEF Move, RecInv, RecTypeOK
  <2>2. RecTypeOK'
    BY <1>1, <2>1, RecFields DEF RecInv, RecTypeOK
  <2>3. NoticeInv' /\ Registered' = Registered /\ UnderWayInv' = UnderWayInv
    BY <1>1 DEF RecInv, NoticeInv, Registered, UnderWayInv, ToldInv
  <2> QED
    BY <2>2, <2>3 DEF RecInv
<1>2. CASE UNCHANGED listenVars
  BY <1>1, <1>2 DEF listenVars
<1>3. CASE EventNext
  <2>1. UNCHANGED <<rec, cli>> /\ (UNCHANGED moves \/ Move)
    BY <1>3 DEF EventNext, EventHandlers, EventPart, RegisterListener, UnRegisterListener, EventServiceRestarts,
              EventServiceAdded, OnAddSystemAbility, RegisterAgain, OnNotifyEvent, EventClientDies
  <2> QED
    BY <1>1, <2>1
<1>4. CASE RiskNext
  <2>1. UNCHANGED <<rec, cli>> /\ (UNCHANGED moves \/ Move)
    BY <1>4 DEF RiskNext, RiskHandlers, RiskPart, RiskTask, ScreenLockAdded, ScreenLockRemoved, RegisterScreenLockedCallback,
              UnRegisterScreenLockedCallback, ExecutorRegisters, StrongAuthChanges, ScreenLocks, ScreenLockDies,
              ScreenLockStarts, CommonEventDies, CommonEventStarts
  <2> QED
    BY <1>1, <2>1
<1>5. CASE RecNext
  BY <1>5, SetResultInv, RegisterRecognitionInv, UnregisterRecognitionInv, RegisterRecognitionFailsInv, AddListenerInv,
     RecServiceDiesInv, RecServiceStartsInv, ResultPostedInv, RecognitionTaskInv, EventArrivesInv, RecServiceRemovedInv, ReregisteredInv
     DEF RecNext, RecHandlers
<1> QED
  BY <1>2, <1>3, <1>4, <1>5 DEF ListenersNext

\* RecInv holds before anyone subscribes.
LEMMA RecognitionInit ==
  ListenersIdle => RecInv
<1> SUFFICES ASSUME ListenersIdle PROVE RecInv
  OBVIOUS
<1>1. rec = [NoRecService EXCEPT !.up = TRUE] /\ cli = NoClient /\ moves = 0 /\ MaxMoves \in Nat
  BY ListenersBounds DEF ListenersIdle
<1>2. /\ <<>> \in Seq(Posting) /\ <<>> \in Seq(Objects \X Results) /\ <<>> \in Seq({"add", "remove"})
      /\ Uncertain \in Results
  BY EmptySeq DEF Results
<1>3. rec \in RecService /\ rec.up /\ rec.lst = {} /\ rec.setting = NoResult
  BY <1>1, <1>2 DEF NoRecService, RecService, RecState
<1>4. /\ cli.obj = 0 /\ cli.made = 0 /\ cli.ls = {}
      /\ cli.notices = <<>>
  BY <1>1 DEF NoClient
<1>5. cli \in RecClient
  <2>1. [o \in Objects |-> NoResult] \in [Objects -> RecState] /\ [l \in EventListeners |-> NoResult] \in [EventListeners -> RecState]
    BY DEF RecState
  <2> QED
    BY <1>1, <1>2, <2>1 DEF NoClient, RecClient
<1>6. RecTypeOK /\ NoticeInv /\ ~Registered
  BY <1>1, <1>3, <1>4, <1>5 DEF RecTypeOK, NoticeInv, Registered
<1> QED
  BY <1>6 DEF RecInv

\* The inductive invariant of the recognition state, for any number of listeners, of
\* objects a client makes one after the other, and of restarts and changes.
THEOREM RecognitionInvariant == ListenersSpec => []RecInv
BY RecognitionInit, RecognitionStep, PTL DEF ListenersSpec, ListenersInit

\* With nothing under way, a registered listener's last word is the cached result.
LEMMA RecognitionFresh == RecInv => RecognitionIsFresh
<1> SUFFICES ASSUME RecInv, rec.up, ~cli.early, rec.setting = NoResult, rec.queue = <<>>, cli.wire = <<>>,
                    cli.notices = <<>>, NEW l \in cli.ls
             PROVE  cli.told[l] \in {rec.cache, NoResult}
  BY DEF RecognitionIsFresh
<1>1. cli.obj # 0 /\ cli.obj \in rec.lst
  BY DEF RecInv, NoticeInv
<1>2. UnderWayInv
  BY <1>1 DEF RecInv, Registered
<1>3. QueueNone(rec.queue, cli.obj) /\ WireNone(cli.wire, cli.obj)
  <2>1. DOMAIN rec.queue = {} /\ DOMAIN cli.wire = {}
    BY EmptyFacts
  <2> QED
    BY <2>1 DEF QueueNone, WireNone
<1> QED
  BY <1>2, <1>3 DEF UnderWayInv, ToldInv

\* Once nothing is under way, a listener of the active object that was told a recognition
\* state was last told the present one (RecognitionIsFresh), unless the object is `early`:
\* registered with a service before the notices that are older than that service were
\* heard, in which case they tell it Uncertain and nothing corrects them.  For every other
\* object, whatever the order of registrations, changes, restarts of the service and
\* notices of them, the last posting carries the state the service had when it was
\* registered or one that was set later.
THEOREM RecognitionTheorem == ListenersSpec => []RecognitionIsFresh
BY RecognitionFresh, RecognitionInvariant, PTL

-------------------------------------------------------------------------------
(* Bindings.                                                                *)

Apis == {"v6", "v8", "v9", "v10", "v16", "v21"}

\* The two enumerations of result codes, and the offset between them.
LEMMA CodeValues ==
  /\ R.SUCCESS = 0 /\ R.FAIL = 1 /\ R.GENERAL_ERROR = 2 /\ R.CANCELED = 3 /\ R.TIMEOUT = 4 /\ R.TYPE_NOT_SUPPORT = 5
  /\ R.TRUST_LEVEL_NOT_SUPPORT = 6 /\ R.BUSY = 7 /\ R.INVALID_PARAMETERS = 8 /\ R.LOCKED = 9 /\ R.NOT_ENROLLED = 10
  /\ R.HARDWARE_NOT_SUPPORTED = 12 /\ R.PIN_EXPIRED = 13 /\ R.REUSE_AUTH_RESULT_FAILED = 17 /\ R.IPC_ERROR = 1001
  /\ R.CHECK_PERMISSION_FAILED = 1005 /\ R.CHECK_SYSTEM_APP_FAILED = 1007
  /\ U.OHOS_CHECK_PERMISSION_FAILED = 201 /\ U.OHOS_CHECK_SYSTEM_APP_FAILED = 202 /\ U.OHOS_INVALID_PARAM = 401
  /\ U.SUCCESS = 12500000 /\ U.GENERAL_ERROR = 12500002 /\ U.TYPE_NOT_SUPPORT = 12500005
  /\ U.TRUST_LEVEL_NOT_SUPPORT = 12500006 /\ U.PARAM_VERIFIED_FAILED = 12500008 /\ U.NOT_ENROLLED = 12500010
  /\ U.RESULT_CODE_V9_MAX = 12500010 /\ U.PIN_EXPIRED = 12500013 /\ U.RESULT_CODE_V10_MAX = 12500013
  /\ U.REUSE_AUTH_RESULT_FAILED = 12500017 /\ U.RESULT_CODE_V16_MAX = 12500017
<1>1. /\ R.SUCCESS = 0 /\ R.FAIL = 1 /\ R.GENERAL_ERROR = 2 /\ R.CANCELED = 3 /\ R.TIMEOUT = 4 /\ R.TYPE_NOT_SUPPORT = 5
      /\ R.TRUST_LEVEL_NOT_SUPPORT = 6 /\ R.BUSY = 7 /\ R.INVALID_PARAMETERS = 8 /\ R.LOCKED = 9 /\ R.NOT_ENROLLED = 10
      /\ R.HARDWARE_NOT_SUPPORTED = 12 /\ R.PIN_EXPIRED = 13 /\ R.REUSE_AUTH_RESULT_FAILED = 17 /\ R.IPC_ERROR = 1001
      /\ R.CHECK_PERMISSION_FAILED = 1005 /\ R.CHECK_SYSTEM_APP_FAILED = 1007
  BY SMT DEF R, ResultCode
<1>2. /\ U.OHOS_CHECK_PERMISSION_FAILED = 201 /\ U.OHOS_CHECK_SYSTEM_APP_FAILED = 202 /\ U.OHOS_INVALID_PARAM = 401
      /\ U.SUCCESS = 12500000 /\ U.GENERAL_ERROR = 12500002 /\ U.TYPE_NOT_SUPPORT = 12500005
      /\ U.TRUST_LEVEL_NOT_SUPPORT = 12500006 /\ U.PARAM_VERIFIED_FAILED = 12500008 /\ U.NOT_ENROLLED = 12500010
      /\ U.RESULT_CODE_V9_MAX = 12500010 /\ U.PIN_EXPIRED = 12500013 /\ U.RESULT_CODE_V10_MAX = 12500013
      /\ U.REUSE_AUTH_RESULT_FAILED = 12500017 /\ U.RESULT_CODE_V16_MAX = 12500017
  BY SMT DEF U, UserAuthResultCode
<1> QED
  BY <1>1, <1>2, SMT

\* Each conversion says success of SUCCESS alone, and gives a code of its version.
LEMMA ConvertedV6 ==
  ASSUME NEW r \in Int
  PROVE  ExecuteResult(r) \in -1 .. 100 /\ ExecuteResult(r) \in AuthenticationResultConstructor
         /\ (ExecuteResult(r) = 0 <=> r = 0)
<1>1. /\ AuthenticationResult.NO_SUPPORT = -1 /\ AuthenticationResult.SUCCESS = 0
      /\ AuthenticationResult.COMPARE_FAILURE = 1 /\ AuthenticationResult.CANCELED = 2
      /\ AuthenticationResult.TIMEOUT = 3 /\ AuthenticationResult.BUSY = 5
      /\ AuthenticationResult.INVALID_PARAMETERS = 6 /\ AuthenticationResult.LOCKED = 7
      /\ AuthenticationResult.NOT_ENROLLED = 8 /\ AuthenticationResult.GENERAL_ERROR = 100
  BY SMT DEF AuthenticationResult
<1> QED
  BY <1>1, CodeValues, SMT DEF ExecuteResult, AuthenticationResultConstructor

\* API 8: every result goes to a code of that version, to SUCCESS from SUCCESS alone.
LEMMA ConvertedV8 ==
  ASSUME NEW r \in Int
  PROVE  GetResultCodeV8(r) \in {201} \cup (0 .. 10) /\ (GetResultCodeV8(r) = 0 <=> r = 0)
  BY CodeValues, SMT DEF GetResultCodeV8

\* The shift into the range of API 9 and later: what lies outside becomes GENERAL_ERROR.
LEMMA ShiftedFacts ==
  ASSUME NEW r \in Int, NEW max \in Int, max > U.GENERAL_ERROR
  PROVE  /\ Shifted(r, max) \in U.SUCCESS .. max /\ (Shifted(r, max) = U.SUCCESS <=> r = 0)
         /\ r # 12 => Shifted(r, max) # U.SUCCESS + 12
  BY CodeValues, SMT DEF Shifted, INT32_MAX

\* API 9, likewise.
LEMMA ConvertedV9 ==
  ASSUME NEW r \in Int
  PROVE  /\ GetResultCodeV9(r) \in {201, 401} \cup (12500000 .. 12500010)
         /\ GetResultCodeV9(r) = 12500000 <=> r = 0
<1> DEFINE s == Shifted(r, U.RESULT_CODE_V9_MAX)
<1>1. U.RESULT_CODE_V9_MAX \in Int /\ U.RESULT_CODE_V9_MAX > U.GENERAL_ERROR
  BY CodeValues, SMT
<1>2. /\ s \in U.SUCCESS .. U.RESULT_CODE_V9_MAX /\ (s = U.SUCCESS <=> r = 0)
      /\ r # 12 => s # U.SUCCESS + 12
  BY <1>1, ShiftedFacts
<1>3. GetResultCodeV9(r) =
        IF r = R.CHECK_PERMISSION_FAILED THEN U.OHOS_CHECK_PERMISSION_FAILED
        ELSE IF r = R.INVALID_PARAMETERS THEN U.OHOS_INVALID_PARAM
        ELSE IF r = R.PIN_EXPIRED THEN U.GENERAL_ERROR ELSE s
  BY CodeValues, SMT DEF GetResultCodeV9
<1> HIDE DEF s
<1> QED
  BY <1>2, <1>3, CodeValues, SMT

\* API 10, likewise.
LEMMA ConvertedV10 ==
  ASSUME NEW r \in Int
  PROVE  /\ GetResultCodeV10(r) \in {201, 202, 401} \cup (12500000 .. 12500011) \cup {12500013}
         /\ GetResultCodeV10(r) = 12500000 <=> r = 0
<1> DEFINE s == Shifted(r, U.RESULT_CODE_V10_MAX)
<1>1. U.RESULT_CODE_V10_MAX \in Int /\ U.RESULT_CODE_V10_MAX > U.GENERAL_ERROR
  BY CodeValues, SMT
<1>2. /\ s \in U.SUCCESS .. U.RESULT_CODE_V10_MAX /\ (s = U.SUCCESS <=> r = 0)
      /\ r # 12 => s # U.SUCCESS + 12
  BY <1>1, ShiftedFacts
<1>3. GetResultCodeV10(r) =
        IF r = R.CHECK_PERMISSION_FAILED THEN U.OHOS_CHECK_PERMISSION_FAILED
        ELSE IF r = R.INVALID_PARAMETERS THEN U.OHOS_INVALID_PARAM
        ELSE IF r = R.CHECK_SYSTEM_APP_FAILED THEN U.OHOS_CHECK_SYSTEM_APP_FAILED
        ELSE IF r = R.HARDWARE_NOT_SUPPORTED THEN U.GENERAL_ERROR ELSE s
  BY CodeValues, SMT DEF GetResultCodeV10
<1> HIDE DEF s
<1> QED
  BY <1>2, <1>3, CodeValues, SMT

\* API 16, likewise.
LEMMA ConvertedV16 ==
  ASSUME NEW r \in Int
  PROVE  /\ GetResultCodeV16(r) \in {201, 202, 401} \cup (12500000 .. 12500017)
         /\ GetResultCodeV16(r) = 12500000 <=> r = 0
<1> DEFINE s == Shifted(r, U.RESULT_CODE_V16_MAX)
<1>1. U.RESULT_CODE_V16_MAX \in Int /\ U.RESULT_CODE_V16_MAX > U.GENERAL_ERROR
  BY CodeValues, SMT
<1>2. /\ s \in U.SUCCESS .. U.RESULT_CODE_V16_MAX /\ (s = U.SUCCESS <=> r = 0)
      /\ r # 12 => s # U.SUCCESS + 12
  BY <1>1, ShiftedFacts
<1>3. GetResultCodeV16(r) =
        IF r = R.CHECK_PERMISSION_FAILED THEN U.OHOS_CHECK_PERMISSION_FAILED
        ELSE IF r = R.INVALID_PARAMETERS THEN U.OHOS_INVALID_PARAM
        ELSE IF r = R.CHECK_SYSTEM_APP_FAILED THEN U.OHOS_CHECK_SYSTEM_APP_FAILED ELSE s
  BY CodeValues, SMT DEF GetResultCodeV16
<1> HIDE DEF s
<1> QED
  BY <1>2, <1>3, CodeValues, SMT

\* The conversion of API 20: still to SUCCESS from SUCCESS alone.
LEMMA ConvertedV20 ==
  ASSUME NEW r \in Int
  PROVE  GetResultCodeV20(r) \in Int /\ (GetResultCodeV20(r) = 12500000 <=> r = 0)
<1>1. GetResultCodeV10(r) \in Int /\ (GetResultCodeV10(r) = 12500000 <=> r = 0)
  BY ConvertedV10, SMT
<1> QED
  BY <1>1, CodeValues, SMT DEF GetResultCodeV20

\* API 21, likewise.
LEMMA ConvertedV21 ==
  ASSUME NEW r \in Int
  PROVE  GetResultCodeV21(r) \in Int /\ (GetResultCodeV21(r) = 12500000 <=> r = 0)
  BY ConvertedV20, CodeValues, SMT DEF GetResultCodeV21

\* The code of an exception is one the API has, and not that of success.
LEMMA ErrorOfV9 ==
  ASSUME NEW code, code # U.SUCCESS
  PROVE  GenerateBusinessErrorV9(code) \in KnownV9 /\ GenerateBusinessErrorV9(code) # U.SUCCESS
  BY CodeValues, SMT DEF GenerateBusinessErrorV9, KnownV9

\* A business error of API 21 has a known code and never that of success.
LEMMA ErrorOfV21 ==
  ASSUME NEW code
  PROVE  GenerateBusinessErrorV21(code) \in KnownV21 /\ GenerateBusinessErrorV21(code) # U.SUCCESS
  BY CodeValues, SMT DEF GenerateBusinessErrorV21, KnownV21

\* What the application is to be told of a native result, and the code posted for it.
CodeOf(api, result) == IF api = "v21" THEN result ELSE OnResult(api, 0, result).code

Word(api, result) ==
  IF api = "v16"
  THEN IF CodeOf(api, result) = U.SUCCESS THEN U.SUCCESS ELSE GenerateBusinessErrorV9(CodeOf(api, result))
  ELSE IF api = "v21"
  THEN IF result = R.SUCCESS THEN U.SUCCESS ELSE GenerateBusinessErrorV21(GetResultCodeV21(result))
  ELSE CodeOf(api, result)

Truth(api, nat, code) == (code = SuccessOf(api) <=> nat = <<R.SUCCESS>>) /\ code \in Documented(api)

\* The conversion each API version uses.
LEMMA CodeIs ==
  ASSUME NEW r
  PROVE  /\ CodeOf("v6", r) = ExecuteResult(r) /\ CodeOf("v8", r) = GetResultCodeV8(r)
         /\ CodeOf("v9", r) = GetResultCodeV9(r) /\ CodeOf("v10", r) = GetResultCodeV10(r)
         /\ CodeOf("v16", r) = GetResultCodeV16(r) /\ CodeOf("v21", r) = r
<1> USE DEF CodeOf, ResultEvent
<1>1. OnResult("v6", 0, r) = OnResultV6(0, r)
  BY DEF OnResult
<1>2. OnResult("v8", 0, r) = OnResultV8(0, r)
  BY DEF OnResult
<1>3. OnResult("v9", 0, r) = OnResultV9(0, r)
  BY DEF OnResult
<1>4. OnResult("v10", 0, r) = OnResultV10(0, r)
  BY DEF OnResult
<1>5. OnResult("v16", 0, r) = OnResultV16(0, r)
  BY DEF OnResult
<1> QED
  BY <1>1, <1>2, <1>3, <1>4, <1>5 DEF OnResultV6, OnResultV8, OnResultV9, OnResultV10, OnResultV16

\* A posted result is for its call, whatever its code.
LEMMA PostedIs ==
  ASSUME NEW api \in Apis, api # "v21", NEW k, NEW r
  PROVE  OnResult(api, k, r) = ResultEvent(k, CodeOf(api, r))
<1>1. CASE api = "v6"
  BY <1>1, CodeIs DEF OnResult, OnResultV6
<1>2. CASE api = "v8"
  BY <1>2, CodeIs DEF OnResult, OnResultV8
<1>3. CASE api = "v9"
  BY <1>3, CodeIs DEF OnResult, OnResultV9
<1>4. CASE api = "v10"
  BY <1>4, CodeIs DEF OnResult, OnResultV10
<1>5. CASE api = "v16"
  BY <1>5, CodeIs DEF OnResult, OnResultV16
<1> QED
  BY <1>1, <1>2, <1>3, <1>4, <1>5 DEF Apis

\* What an application is told of a native result is true of that result.
LEMMA WordIsTrue ==
  ASSUME NEW api \in Apis, NEW r \in Int
  PROVE  CodeOf(api, r) \in Int /\ Word(api, r) \in Int /\ Truth(api, <<r>>, Word(api, r))
<1> DEFINE codes == {201, 202, 401} \cup UserAuthResultCodeConstructor
<1>1. <<r>> = <<R.SUCCESS>> <=> r = 0
  BY CodeValues, SMT
<1>2. codes = {201, 202, 401} \cup (12500000 .. 12500011) \cup {12500013, 12500015, 12500016, 12500017}
  BY SMT DEF UserAuthResultCodeConstructor, UserAuthResultCodeExtConstructor
<1> HIDE DEF codes
<1>3. CASE api = "v6"
  <2>1. CodeOf(api, r) = ExecuteResult(r) /\ Word(api, r) = ExecuteResult(r)
    BY <1>3, CodeIs DEF Word
  <2>2. SuccessOf(api) = 0 /\ AuthenticationResultConstructor \subseteq Documented(api)
    BY <1>3, CodeValues, SMT DEF SuccessOf, Documented
  <2> QED
    BY <1>1, <2>1, <2>2, ConvertedV6 DEF Truth
<1>4. CASE api = "v8"
  <2>1. CodeOf(api, r) = GetResultCodeV8(r) /\ Word(api, r) = GetResultCodeV8(r)
    BY <1>4, CodeIs DEF Word
  <2>2. SuccessOf(api) = 0 /\ {201} \cup (0 .. 10) \subseteq Documented(api)
    BY <1>4, CodeValues, SMT DEF SuccessOf, Documented, ResultCodeConstructor
  <2> QED
    BY <1>1, <2>1, <2>2, ConvertedV8, SMT DEF Truth
<1>5. api \in {"v9", "v10", "v16", "v21"} => SuccessOf(api) = 12500000 /\ Documented(api) = codes
  BY CodeValues, SMT DEF SuccessOf, Documented, codes
<1>6. CASE api = "v9"
  <2>1. CodeOf(api, r) = GetResultCodeV9(r) /\ Word(api, r) = GetResultCodeV9(r)
    BY <1>6, CodeIs DEF Word
  <2> QED
    BY <1>1, <1>2, <1>5, <1>6, <2>1, ConvertedV9, SMT DEF Truth
<1>7. CASE api = "v10"
  <2>1. CodeOf(api, r) = GetResultCodeV10(r) /\ Word(api, r) = GetResultCodeV10(r)
    BY <1>7, CodeIs DEF Word
  <2> QED
    BY <1>1, <1>2, <1>5, <1>7, <2>1, ConvertedV10, SMT DEF Truth
<1>8. CASE api = "v16"
  <2>1. /\ CodeOf(api, r) = GetResultCodeV16(r)
        /\ Word(api, r) = IF GetResultCodeV16(r) = U.SUCCESS THEN U.SUCCESS ELSE GenerateBusinessErrorV9(GetResultCodeV16(r))
    BY <1>8, CodeIs DEF Word
  <2> DEFINE c == GetResultCodeV16(r)
  <2>2. c \in {201, 202, 401} \cup (12500000 .. 12500017) /\ (c = 12500000 <=> r = 0)
    BY ConvertedV16
  <2> HIDE DEF c
  <2>3. c # 12500000 => GenerateBusinessErrorV9(c) \in codes \ {12500000}
    BY <1>2, <2>2, CodeValues, SMT DEF GenerateBusinessErrorV9, KnownV9
  <2>4. U.SUCCESS = 12500000 /\ 12500000 \in codes /\ codes \subseteq Int
    BY <1>2, CodeValues, SMT
  <2>5. CodeOf(api, r) = c /\ Word(api, r) = IF c = 12500000 THEN 12500000 ELSE GenerateBusinessErrorV9(c)
    BY <2>1, <2>4, SMT DEF c
  <2> DEFINE w == Word(api, r)
  <2>6. w \in codes /\ (w = 12500000 <=> r = 0)
    BY <2>2, <2>3, <2>4, <2>5, SMT
  <2> HIDE DEF w
  <2>7. c \in Int /\ w \in Int
    BY <2>2, <2>4, <2>6, SMT
  <2> QED
    BY <1>1, <1>5, <1>8, <2>5, <2>6, <2>7, SMT DEF Truth, w
<1>9. CASE api = "v21"
  <2>1. /\ CodeOf(api, r) = r
        /\ Word(api, r) = IF r = R.SUCCESS THEN U.SUCCESS ELSE GenerateBusinessErrorV21(GetResultCodeV21(r))
    BY <1>9, CodeIs DEF Word
  <2> DEFINE g == GenerateBusinessErrorV21(GetResultCodeV21(r))
  <2>2. g \in KnownV21 /\ g # U.SUCCESS
    BY ErrorOfV21
  <2>3. Word(api, r) = IF r = R.SUCCESS THEN U.SUCCESS ELSE g
    BY <2>1
  <2> HIDE DEF g
  <2>4. U.SUCCESS = 12500000 /\ R.SUCCESS = 0 /\ KnownV21 \subseteq codes /\ 12500000 \in codes /\ codes \subseteq Int
    BY <1>2, CodeValues, SMT DEF KnownV21
  <2> QED
    BY <1>1, <1>5, <1>9, <2>1, <2>2, <2>3, <2>4, SMT DEF Truth
<1> QED
  BY <1>3, <1>4, <1>6, <1>7, <1>8, <1>9 DEF Apis

\* What is accepted passed every check of a list.
LEMMA BothPass ==
  ASSUME NEW a, NEW b, FirstError(<<a, b>>) = U.SUCCESS
  PROVE  a = U.SUCCESS /\ b = U.SUCCESS
<1> DEFINE codes == <<a, b>>
           bad == {k \in DOMAIN codes : codes[k] # U.SUCCESS}
           first == CHOOSE k \in bad : \A j \in bad : k <= j
<1>1. DOMAIN codes = {1, 2} /\ codes[1] = a /\ codes[2] = b
  OBVIOUS
<1>2. FirstError(codes) = IF bad = {} THEN U.SUCCESS ELSE codes[first]
  BY DEF FirstError
<1> HIDE DEF codes
<1>3. ASSUME bad # {} PROVE FALSE
  <2>1. \E k \in bad : \A j \in bad : k <= j
    <3>1. CASE 1 \in bad
      BY <1>1, <3>1
    <3>2. CASE 1 \notin bad
      BY <1>1, <1>3, <3>2
    <3> QED
      BY <3>1, <3>2
  <2>2. first \in bad
    BY <2>1
  <2> HIDE DEF first
  <2> QED
    BY <1>2, <1>3, <2>2 DEF codes
<1> QED
  BY <1>1, <1>3

\* The inductive invariant: a result is posted once for a call whose answer is in, carries
\* the code of that answer, and is the last of what is posted for the call.
CallType ==
  [api : Apis, obj : 0 .. MaxObjects, valid : BOOLEAN, nat : Seq(Int), future : Seq(Int), told : Seq(Int),
   tip : {"no", "posted", "heard"}, late : BOOLEAN, dropped : BOOLEAN]
AnswerType == [kind : {"result", "tip"}, to : Nat, code : Int]

Answering == page \in {"calls", "instances"}

BindTypeOK ==
  /\ DOMAIN objs = 1 .. MaxObjects
  /\ calls \in Seq(CallType)
  /\ Answering => events \in Seq(AnswerType)
  /\ ~Answering => calls = <<>>

CallIsTrue(c) ==
  /\ Len(c.nat) <= 1 /\ Len(c.told) <= 1 /\ ~c.late
  /\ c.told # <<>> => Truth(c.api, c.nat, c.told[1])
  /\ c.nat = <<>> => c.told = <<>> /\ ~c.dropped
  /\ c.dropped => c.told = <<>> /\ (~c.valid \/ c.api \in {"v9", "v10"})

Due(c, code) == c.nat # <<>> /\ c.told = <<>> /\ ~c.dropped /\ code = CodeOf(c.api, c.nat[1])

EventIsTrue(cs, es, i) ==
  LET e == es[i]
  IN  /\ e.to \in DOMAIN cs /\ cs[e.to].told = <<>>
      /\ e.kind = "result" => /\ Due(cs[e.to], e.code)
                              /\ \A j \in DOMAIN es : j # i /\ es[j].to = e.to => j < i

OutIsTrue ==
  /\ out.how = "threw" => out.code # U.SUCCESS
  /\ out.how = "ret" /\ out.code \in {R.SUCCESS, U.SUCCESS} => out.nat = <<R.SUCCESS>>

BindInv ==
  /\ BindTypeOK
  /\ \A k \in DOMAIN calls : CallIsTrue(calls[k])
  /\ Answering => \A i \in DOMAIN events : EventIsTrue(calls, events, i)
  /\ OutIsTrue

\* A call that says nothing says nothing false.
LEMMA NothingIsTrue ==
  out' = Nothing => OutIsTrue'
BY DEF Nothing, OutIsTrue

\* An exception with a failure code never claims success.
LEMMA ThrewIsTrue ==
  ASSUME NEW code, code # U.SUCCESS, Threw(code)
  PROVE  OutIsTrue'
BY DEF Threw, OutIsTrue

\* A function of an instance or a manager that fails throws no SUCCESS.
LEMMA EndsIsTrue ==
  ASSUME NEW code, Ends(code)
  PROVE  OutIsTrue'
BY NothingIsTrue, ThrewIsTrue, ErrorOfV9 DEF Ends

\* What the callback is told.
LEMMA TellFacts ==
  ASSUME NEW c \in CallType, NEW code, CallIsTrue(c), Due(c, code)
  PROVE  /\ Tell(c, code) \in CallType /\ CallIsTrue(Tell(c, code))
         /\ Tell(c, code).nat = c.nat /\ Tell(c, code).api = c.api
<1> DEFINE r == c.nat[1]
           w == Word(c.api, r)
           told == [c EXCEPT !.told = Append(@, w)]
           dropped == [c EXCEPT !.dropped = TRUE]
<1>1. c.api \in Apis /\ c.nat \in Seq(Int) /\ c.nat # <<>> /\ Len(c.nat) <= 1 /\ c.told = <<>> /\ ~c.dropped
      /\ code = CodeOf(c.api, r) /\ ~c.late
  BY DEF CallType, CallIsTrue, Due
<1>2. r \in Int /\ c.nat = <<r>>
  BY <1>1, EmptySeq, LenProperties
<1> HIDE DEF r
<1>3. w \in Int /\ Truth(c.api, c.nat, w)
  BY <1>1, <1>2, WordIsTrue
<1>4. Append(c.told, w) = <<w>> /\ <<w>> \in Seq(Int) /\ Len(<<w>>) = 1 /\ <<w>>[1] = w /\ <<w>> # <<>>
  <2> HIDE DEF w
  <2>1. Append(<<>>, w) = <<w>>
    OBVIOUS
  <2> QED
    BY <1>1, <1>3, <2>1
<1>5. \/ Tell(c, code) = told
      \/ Tell(c, code) = dropped /\ (~c.valid \/ c.api \in {"v9", "v10"})
  <2>1. CASE c.api = "v6"
    BY <1>1, <2>1 DEF Tell, DoPromise, Word
  <2>2. CASE c.api = "v8"
    BY <1>1, <2>2 DEF Tell, DoResultCallbackV8, Word
  <2>3. CASE c.api = "v9"
    BY <1>1, <2>3 DEF Tell, DoResultCallbackV9, Word
  <2>4. CASE c.api = "v10"
    BY <1>1, <2>4 DEF Tell, DoResultCallbackV10, Word
  <2>5. CASE c.api = "v16"
    BY <1>1, <2>5 DEF Tell, DoResultPromise, Word
  <2>6. CASE c.api = "v21"
    BY <1>1, <2>6, CodeIs DEF Tell, GetAuthLockStateComplete, Word
  <2> QED
    BY <1>1, <2>1, <2>2, <2>3, <2>4, <2>5, <2>6 DEF Apis
<1> HIDE DEF w
<1>6. ASSUME Tell(c, code) = told PROVE /\ Tell(c, code) \in CallType /\ CallIsTrue(Tell(c, code))
                                        /\ Tell(c, code).nat = c.nat /\ Tell(c, code).api = c.api
  <2>1. /\ told \in CallType /\ told.nat = c.nat /\ told.api = c.api /\ told.told = <<w>> /\ told.dropped = c.dropped
        /\ told.late = c.late /\ told.valid = c.valid
    BY <1>4 DEF CallType
  <2> HIDE DEF told
  <2> QED
    BY <1>1, <1>3, <1>4, <1>6, <2>1 DEF CallIsTrue
<1>7. ASSUME Tell(c, code) = dropped, ~c.valid \/ c.api \in {"v9", "v10"}
      PROVE  /\ Tell(c, code) \in CallType /\ CallIsTrue(Tell(c, code))
             /\ Tell(c, code).nat = c.nat /\ Tell(c, code).api = c.api
  <2>1. /\ dropped \in CallType /\ dropped.nat = c.nat /\ dropped.api = c.api /\ dropped.told = c.told
        /\ dropped.late = c.late /\ dropped.valid = c.valid
    BY DEF CallType
  <2> HIDE DEF dropped
  <2> QED
    BY <1>1, <1>7, <2>1 DEF CallIsTrue
<1> QED
  BY <1>5, <1>6, <1>7

\* One call changes.
LEMMA CallChanged ==
  ASSUME NEW s \in Seq(CallType), NEW k \in DOMAIN s, NEW d \in CallType
  PROVE  LET t == [s EXCEPT ![k] = d]
         IN  /\ t \in Seq(CallType) /\ DOMAIN t = DOMAIN s /\ Len(t) = Len(s) /\ t[k] = d
             /\ \A j \in DOMAIN s : j # k => t[j] = s[j]
BY ExceptSeq, LenProperties

\* An event is appended, or the first one runs.
LEMMA EventAppended ==
  ASSUME NEW s \in Seq(AnswerType), NEW e \in AnswerType
  PROVE  LET t == Append(s, e)
         IN  /\ t \in Seq(AnswerType) /\ DOMAIN t = DOMAIN s \cup {Len(s) + 1} /\ t[Len(s) + 1] = e
             /\ \A i \in DOMAIN s : i < Len(s) + 1 /\ i # Len(s) + 1 /\ t[i] = s[i]
<1>1. /\ Len(s) \in Nat /\ Append(s, e) \in Seq(AnswerType) /\ Append(s, e)[Len(s) + 1] = e
      /\ DOMAIN s = 1 .. Len(s) /\ DOMAIN Append(s, e) = 1 .. (Len(s) + 1)
      /\ \A i \in 1 .. Len(s) : Append(s, e)[i] = s[i]
  BY AppendProperties, LenProperties
<1> QED
  BY <1>1

\* The queue of the JavaScript thread after its first event is taken.
LEMMA EventTaken ==
  ASSUME NEW s \in Seq(AnswerType), s # <<>>
  PROVE  /\ 1 \in DOMAIN s /\ Head(s) = s[1] /\ Head(s) \in AnswerType /\ Tail(s) \in Seq(AnswerType)
         /\ \A i \in DOMAIN Tail(s) : /\ i \in Nat /\ i + 1 \in DOMAIN s /\ i + 1 # 1 /\ Tail(s)[i] = s[i + 1]
                                      /\ ~(i + 1 < 1)
<1>1. /\ Len(s) \in Nat /\ Len(s) > 0 /\ Tail(s) \in Seq(AnswerType) /\ Head(s) = s[1] /\ Head(s) \in AnswerType
      /\ DOMAIN s = 1 .. Len(s) /\ DOMAIN Tail(s) = 1 .. (Len(s) - 1)
      /\ \A i \in 1 .. (Len(s) - 1) : Tail(s)[i] = s[i + 1]
  BY HeadTailProperties, LenProperties, EmptySeq
<1> QED
  BY <1>1

\* The calls and what is posted for them stay as they are.
LEMMA QuietInv ==
  ASSUME BindInv, UNCHANGED <<page, calls>>, Answering => UNCHANGED events, DOMAIN objs' = DOMAIN objs, OutIsTrue'
  PROVE  BindInv'
<1>1. BindTypeOK'
  BY DEF BindInv, BindTypeOK, Answering
<1>2. Answering' = Answering
  BY DEF Answering
<1> QED
  BY <1>1, <1>2 DEF BindInv

\* A call changes in what nothing that is posted depends on.
LEMMA CallLeftAlone ==
  ASSUME BindInv, Answering, NEW k \in DOMAIN calls, NEW d \in CallType, CallIsTrue(d),
         d.api = calls[k].api, d.nat = calls[k].nat, d.told = calls[k].told, d.dropped = calls[k].dropped
  PROVE  LET cs == [calls EXCEPT ![k] = d]
         IN  /\ cs \in Seq(CallType) /\ DOMAIN cs = DOMAIN calls /\ cs[k] = d
             /\ \A j \in DOMAIN cs : CallIsTrue(cs[j])
             /\ \A i \in DOMAIN events : EventIsTrue(cs, events, i)
<1> DEFINE cs == [calls EXCEPT ![k] = d]
<1>1. /\ calls \in Seq(CallType) /\ (\A j \in DOMAIN calls : CallIsTrue(calls[j]))
      /\ \A i \in DOMAIN events : EventIsTrue(calls, events, i)
  BY DEF BindInv, BindTypeOK
<1>2. /\ cs \in Seq(CallType) /\ DOMAIN cs = DOMAIN calls /\ cs[k] = d
      /\ \A j \in DOMAIN calls : j # k => cs[j] = calls[j]
  BY <1>1, CallChanged
<1> HIDE DEF cs
<1>3. \A j \in DOMAIN cs : CallIsTrue(cs[j])
  BY <1>1, <1>2
<1>4. \A j \in DOMAIN calls : cs[j].told = calls[j].told /\ \A v : Due(calls[j], v) => Due(cs[j], v)
  BY <1>2 DEF Due
<1>5. \A i \in DOMAIN events : EventIsTrue(cs, events, i)
  BY <1>1, <1>2, <1>4 DEF EventIsTrue
<1> QED
  BY <1>2, <1>3, <1>5 DEF cs

\* Fields of the calls and the events.
LEMMA BindFields ==
  ASSUME BindInv, Answering
  PROVE  /\ calls \in Seq(CallType) /\ events \in Seq(AnswerType) /\ DOMAIN objs = 1 .. MaxObjects
         /\ \A k \in DOMAIN calls : CallIsTrue(calls[k]) /\ calls[k] \in CallType
         /\ \A i \in DOMAIN events : EventIsTrue(calls, events, i) /\ events[i] \in AnswerType
         /\ DOMAIN calls \subseteq Nat
<1>1. calls \in Seq(CallType) /\ events \in Seq(AnswerType)
  BY DEF BindInv, BindTypeOK
<1>2. /\ DOMAIN calls = 1 .. Len(calls) /\ DOMAIN events = 1 .. Len(events)
      /\ \A k \in 1 .. Len(calls) : calls[k] \in CallType
      /\ \A i \in 1 .. Len(events) : events[i] \in AnswerType
  BY <1>1, LenProperties
<1> QED
  BY <1>1, <1>2 DEF BindInv, BindTypeOK

\* The answer to call k comes in, and is posted.
LEMMA AnswerInv ==
  ASSUME BindInv, Answering, UNCHANGED <<page, objs>>, out' = Nothing,
         NEW k \in DOMAIN calls, calls[k].nat = <<>>, NEW r \in Int,
         calls' = [calls EXCEPT ![k].nat = <<r>>],
         events' = Append(events, ResultEvent(k, CodeOf(calls[k].api, r)))
  PROVE  BindInv'
<1> USE BindFields
<1> DEFINE d == [calls[k] EXCEPT !.nat = <<r>>]
           e == ResultEvent(k, CodeOf(calls[k].api, r))
           n == Len(events) + 1
<1>1. /\ <<r>> \in Seq(Int) /\ Len(<<r>>) = 1 /\ <<r>> # <<>> /\ <<r>>[1] = r
  OBVIOUS
<1>2. /\ d \in CallType /\ d.api = calls[k].api /\ d.nat = <<r>> /\ d.told = calls[k].told
      /\ d.dropped = calls[k].dropped /\ d.late = calls[k].late /\ d.valid = calls[k].valid
  BY <1>1 DEF CallType
<1>3. e \in AnswerType /\ e.to = k /\ e.kind = "result" /\ e.code = CodeOf(calls[k].api, r)
  <2>1. CodeOf(calls[k].api, r) \in Int
    BY WordIsTrue DEF CallType
  <2> QED
    BY <2>1 DEF ResultEvent, AnswerType
<1>4. calls' = [calls EXCEPT ![k] = d]
  OBVIOUS
<1> HIDE DEF d, e
<1>5. /\ calls' \in Seq(CallType) /\ DOMAIN calls' = DOMAIN calls /\ calls'[k] = d
      /\ \A j \in DOMAIN calls : j # k => calls'[j] = calls[j]
  <2>1. calls \in Seq(CallType) /\ d \in CallType
    BY <1>2
  <2> QED
    BY ONLY <1>4, <2>1, k \in DOMAIN calls, CallChanged
<1>6. /\ events' \in Seq(AnswerType) /\ DOMAIN events' = DOMAIN events \cup {n} /\ events'[n] = e
      /\ \A i \in DOMAIN events : i < n /\ i # n /\ events'[i] = events[i]
  BY <1>3, EventAppended DEF e
<1> HIDE DEF n
<1>7. calls[k].told = <<>> /\ ~calls[k].dropped /\ ~calls[k].late
  BY DEF CallIsTrue
<1>8. CallIsTrue(d) /\ Due(d, e.code)
  BY <1>1, <1>2, <1>3, <1>7 DEF CallIsTrue, Due
<1>9. \A j \in DOMAIN calls' : CallIsTrue(calls'[j])
  BY <1>5, <1>8
<1>10. ASSUME NEW i \in DOMAIN events PROVE EventIsTrue(calls', events', i)
  <2>1. EventIsTrue(calls, events, i)
    OBVIOUS
  <2>2. events[i].kind = "result" => events[i].to # k
    BY <2>1 DEF EventIsTrue, Due
  <2>3. events[i].to \in DOMAIN calls /\ calls[events[i].to].told = <<>>
    BY <2>1 DEF EventIsTrue
  <2>4. calls'[events[i].to].told = <<>>
    BY <1>2, <1>5, <1>7, <2>3
  <2>5. ASSUME events[i].kind = "result"
        PROVE  /\ Due(calls'[events[i].to], events[i].code)
               /\ \A j \in DOMAIN events' : j # i /\ events'[j].to = events[i].to => j < i
    BY <1>3, <1>5, <1>6, <2>1, <2>2, <2>3, <2>5 DEF EventIsTrue
  <2> QED
    BY <1>5, <1>6, <2>3, <2>4, <2>5 DEF EventIsTrue
<1>11. EventIsTrue(calls', events', n)
  BY <1>2, <1>3, <1>5, <1>6, <1>7, <1>8 DEF EventIsTrue
<1>12. \A i \in DOMAIN events' : EventIsTrue(calls', events', i)
  BY <1>6, <1>10, <1>11
<1>13. BindTypeOK' /\ Answering'
  BY <1>5, <1>6 DEF BindInv, BindTypeOK, Answering
<1> QED
  BY <1>9, <1>12, <1>13, NothingIsTrue DEF BindInv

\* A call is accepted.
LEMMA AcceptInv ==
  ASSUME BindInv, Answering, UNCHANGED page, DOMAIN objs' = DOMAIN objs, NEW c \in CallType,
         c.nat = <<>>, c.told = <<>>, ~c.late, ~c.dropped,
         NEW check, check = <<>> \/ (c.api # "v21" /\ \E r \in Int : check = <<r>>), Accept(c, check)
  PROVE  BindInv'
<1> USE BindFields
<1> DEFINE d == [c EXCEPT !.nat = check]
           k == Len(calls) + 1
           e == ResultEvent(k, CodeOf(c.api, check[1]))
           n == Len(events) + 1
<1>1. /\ out' = Nothing /\ calls' = Append(calls, d)
      /\ events' = IF check = <<>> THEN events ELSE Append(events, OnResult(c.api, k, check[1]))
  BY DEF Accept
<1>2. /\ check \in Seq(Int) /\ Len(check) <= 1 /\ (check # <<>> => c.api # "v21" /\ check[1] \in Int)
  <2>1. CASE check = <<>>
    BY <2>1, EmptySeq
  <2>2. CASE c.api # "v21" /\ \E r \in Int : check = <<r>>
    BY <2>2
  <2> QED
    BY <2>1, <2>2
<1>3. /\ d \in CallType /\ d.api = c.api /\ d.nat = check /\ d.told = <<>> /\ ~d.late /\ ~d.dropped
  BY <1>2 DEF CallType
<1>4. check # <<>> => /\ OnResult(c.api, k, check[1]) = e
                      /\ e \in AnswerType /\ e.to = k /\ e.kind = "result" /\ e.code = CodeOf(c.api, check[1])
  <2>1. c.api \in Apis /\ k \in Nat
    BY LenProperties DEF CallType
  <2>2. check # <<>> => CodeOf(c.api, check[1]) \in Int
    BY <1>2, <2>1, WordIsTrue
  <2>3. check # <<>> => OnResult(c.api, k, check[1]) = e
    BY <1>2, <2>1, PostedIs
  <2> HIDE DEF k
  <2> QED
    BY <2>1, <2>2, <2>3 DEF ResultEvent, AnswerType
<1> HIDE DEF d, e
<1>5. /\ calls' \in Seq(CallType) /\ DOMAIN calls' = DOMAIN calls \cup {k} /\ calls'[k] = d
      /\ \A j \in DOMAIN calls : j # k /\ calls'[j] = calls[j]
  <2>1. /\ Len(calls) \in Nat /\ calls' \in Seq(CallType) /\ calls'[k] = d
        /\ DOMAIN calls = 1 .. Len(calls) /\ DOMAIN calls' = 1 .. k
        /\ \A i \in 1 .. Len(calls) : calls'[i] = calls[i]
    BY <1>1, <1>3, AppendProperties, LenProperties
  <2> QED
    BY <2>1
<1> HIDE DEF k
<1>6. CallIsTrue(d) /\ (check # <<>> => Due(d, e.code))
  BY <1>2, <1>3, <1>4 DEF CallIsTrue, Due
<1>7. \A j \in DOMAIN calls' : CallIsTrue(calls'[j])
  BY <1>5, <1>6
<1>8. \A i \in DOMAIN events : EventIsTrue(calls', events, i) /\ events[i].to # k
  BY <1>5 DEF EventIsTrue
<1>9. CASE check = <<>>
  <2>1. events' = events
    BY <1>1, <1>9
  <2>2. BindTypeOK' /\ Answering'
    BY <1>5, <2>1 DEF BindInv, BindTypeOK, Answering
  <2> QED
    BY <1>1, <1>7, <1>8, <2>1, <2>2, NothingIsTrue DEF BindInv
<1>10. CASE check # <<>>
  <2>1. events' = Append(events, e)
    BY <1>1, <1>4, <1>10
  <2>2. /\ events' \in Seq(AnswerType) /\ DOMAIN events' = DOMAIN events \cup {n} /\ events'[n] = e
        /\ \A i \in DOMAIN events : i < n /\ i # n /\ events'[i] = events[i]
    BY <1>4, <1>10, <2>1, EventAppended
  <2> HIDE DEF n
  <2>3. \A i \in DOMAIN events : EventIsTrue(calls', events', i)
    BY <1>4, <1>8, <1>10, <2>2 DEF EventIsTrue
  <2>4. EventIsTrue(calls', events', n)
    BY <1>3, <1>4, <1>5, <1>6, <1>10, <2>2 DEF EventIsTrue
  <2>5. \A i \in DOMAIN events' : EventIsTrue(calls', events', i)
    BY <2>2, <2>3, <2>4
  <2>6. BindTypeOK' /\ Answering'
    BY <1>5, <2>2 DEF BindInv, BindTypeOK, Answering
  <2> QED
    BY <1>1, <1>7, <2>5, <2>6, NothingIsTrue DEF BindInv
<1> QED
  BY <1>9, <1>10

\* The result event tells the call what was queued for it, once.
LEMMA RunResultInv ==
  ASSUME BindInv, RunResult
  PROVE  BindInv'
<1>0. Answering /\ UNCHANGED page
  BY DEF RunResult, Answered, Answering
<1> USE <1>0, BindFields
<1> DEFINE e == events[1]
           k == e.to
           d == Tell(calls[k], e.code)
<1>1. /\ events # <<>> /\ Head(events).kind = "result" /\ events' = Tail(events) /\ out' = Nothing /\ UNCHANGED objs
      /\ calls' = [calls EXCEPT ![Head(events).to] = Tell(@, Head(events).code)]
  BY DEF RunResult
<1>2. /\ 1 \in DOMAIN events /\ Head(events) = e /\ Tail(events) \in Seq(AnswerType)
      /\ \A i \in DOMAIN Tail(events) : /\ i \in Nat /\ i + 1 \in DOMAIN events /\ i + 1 # 1
                                        /\ Tail(events)[i] = events[i + 1] /\ ~(i + 1 < 1)
  BY <1>1, EventTaken
<1>3. /\ k \in DOMAIN calls /\ Due(calls[k], e.code)
      /\ \A j \in DOMAIN events : j # 1 /\ events[j].to = k => j < 1
  BY <1>1, <1>2 DEF EventIsTrue
<1>4. calls' = [calls EXCEPT ![k] = d]
  BY <1>1, <1>2
<1>5. d \in CallType /\ CallIsTrue(d)
  BY <1>3, TellFacts
<1> HIDE DEF d, k
<1>6. /\ calls' \in Seq(CallType) /\ DOMAIN calls' = DOMAIN calls /\ calls'[k] = d
      /\ \A j \in DOMAIN calls : j # k => calls'[j] = calls[j]
  <2>1. calls \in Seq(CallType)
    OBVIOUS
  <2> QED
    BY ONLY <1>3, <1>4, <1>5, <2>1, CallChanged
<1>7. \A j \in DOMAIN calls' : CallIsTrue(calls'[j])
  BY <1>5, <1>6
<1>8. ASSUME NEW i \in DOMAIN Tail(events) PROVE EventIsTrue(calls', Tail(events), i)
  <2>1. EventIsTrue(calls, events, i + 1) /\ events[i + 1].to # k /\ Tail(events)[i] = events[i + 1]
    BY <1>2, <1>3
  <2>2. \A j \in DOMAIN Tail(events) : /\ j # i => j + 1 # i + 1
                                       /\ j + 1 < i + 1 => j < i
                                       /\ j + 1 \in DOMAIN events /\ Tail(events)[j] = events[j + 1]
    BY <1>2
  <2> QED
    BY <1>6, <2>1, <2>2 DEF EventIsTrue
<1>9. BindTypeOK' /\ Answering'
  BY <1>1, <1>2, <1>6 DEF BindInv, BindTypeOK, Answering
<1>10. \A i \in DOMAIN events' : EventIsTrue(calls', events', i)
  BY <1>1, <1>8
<1> QED
  BY <1>1, <1>7, <1>9, <1>10, NothingIsTrue DEF BindInv

\* A tip is told only to a call that was told no result yet.
LEMMA RunTipInv ==
  ASSUME BindInv, RunTip
  PROVE  BindInv'
<1>0. Answering /\ UNCHANGED page
  BY DEF RunTip, Answered, Answering
<1> USE <1>0, BindFields
<1> DEFINE e == events[1]
           k == e.to
           c == calls[k]
           d == IF HearsTips(c) THEN [c EXCEPT !.tip = "heard", !.late = c.told # <<>>] ELSE c
           t == Tail(events)
<1>1. /\ events # <<>> /\ events' = Tail(events) /\ out' = Nothing /\ UNCHANGED objs
      /\ calls' = [calls EXCEPT ![Head(events).to] =
                     IF HearsTips(calls[Head(events).to])
                     THEN [calls[Head(events).to] EXCEPT !.tip = "heard", !.late = calls[Head(events).to].told # <<>>]
                     ELSE calls[Head(events).to]]
  BY DEF RunTip
<1>2. /\ 1 \in DOMAIN events /\ Head(events) = e /\ t \in Seq(AnswerType)
      /\ \A i \in DOMAIN t : /\ i \in Nat /\ i + 1 \in DOMAIN events /\ i + 1 # 1
                             /\ t[i] = events[i + 1] /\ ~(i + 1 < 1)
  BY <1>1, EventTaken
<1>3. k \in DOMAIN calls /\ c.told = <<>>
  BY <1>2 DEF EventIsTrue
<1>4. calls' = [calls EXCEPT ![k] = d]
  BY <1>1, <1>2
<1>5. /\ d \in CallType /\ d.api = c.api /\ d.nat = c.nat /\ d.told = c.told /\ d.dropped = c.dropped
      /\ d.valid = c.valid /\ ~d.late
  <2>1. c \in CallType /\ ~c.late
    BY <1>3 DEF CallIsTrue
  <2>2. (c.told # <<>>) = FALSE
    BY <1>3
  <2> HIDE DEF c
  <2> QED
    BY <2>1, <2>2 DEF CallType
<1>6. CallIsTrue(d)
  BY <1>3, <1>5 DEF CallIsTrue
<1> HIDE DEF d
<1>7. /\ calls' \in Seq(CallType) /\ DOMAIN calls' = DOMAIN calls
      /\ \A j \in DOMAIN calls' : CallIsTrue(calls'[j])
      /\ \A i \in DOMAIN events : EventIsTrue(calls', events, i)
  BY <1>3, <1>4, <1>5, <1>6, CallLeftAlone
<1> HIDE DEF t
<1>8. ASSUME NEW i \in DOMAIN t PROVE EventIsTrue(calls', t, i)
  <2>1. EventIsTrue(calls', events, i + 1) /\ t[i] = events[i + 1]
    BY <1>2, <1>7
  <2>2. \A j \in DOMAIN t : /\ j # i => j + 1 # i + 1
                            /\ j + 1 < i + 1 => j < i
                            /\ j + 1 \in DOMAIN events /\ t[j] = events[j + 1]
    BY <1>2
  <2> QED
    BY <2>1, <2>2 DEF EventIsTrue
<1>9. events' = t
  BY <1>1 DEF t
<1>10. BindTypeOK' /\ Answering'
  BY <1>1, <1>2, <1>7, <1>9 DEF BindInv, BindTypeOK, Answering
<1>11. \A i \in DOMAIN events' : EventIsTrue(calls', events', i)
  BY <1>8, <1>9
<1> QED
  BY <1>1, <1>7, <1>10, <1>11, NothingIsTrue DEF BindInv

\* The native client gives no tip after the result, so none is queued behind it.
LEMMA TipPostedInv ==
  ASSUME BindInv, NEW k \in DOMAIN calls, OnAcquireInfo(k)
  PROVE  BindInv'
<1>0. Answering /\ UNCHANGED <<page, objs>> /\ out' = Nothing
  BY DEF OnAcquireInfo, Answered, Answering
<1> USE <1>0, BindFields
<1> DEFINE c == calls[k]
           d == [c EXCEPT !.tip = "posted"]
           e == [kind |-> "tip", to |-> k, code |-> 0]
           n == Len(events) + 1
<1>1. /\ c.nat = <<>> /\ events' = Append(events, e) /\ calls' = [calls EXCEPT ![k] = d]
  BY DEF OnAcquireInfo
<1>2. /\ d \in CallType /\ d.api = c.api /\ d.nat = c.nat /\ d.told = c.told /\ d.dropped = c.dropped
      /\ d.late = c.late /\ d.valid = c.valid
  <2>1. c \in CallType
    OBVIOUS
  <2> QED
    BY <2>1 DEF CallType
<1>3. CallIsTrue(d)
  BY <1>2 DEF CallIsTrue
<1> HIDE DEF d
<1>4. /\ calls' \in Seq(CallType) /\ DOMAIN calls' = DOMAIN calls /\ calls'[k] = d
      /\ \A j \in DOMAIN calls' : CallIsTrue(calls'[j])
      /\ \A i \in DOMAIN events : EventIsTrue(calls', events, i)
  BY <1>1, <1>2, <1>3, CallLeftAlone
<1>5. e \in AnswerType /\ e.to = k /\ e.kind # "result"
  BY DEF AnswerType
<1> HIDE DEF e
<1>6. /\ events' \in Seq(AnswerType) /\ DOMAIN events' = DOMAIN events \cup {n} /\ events'[n] = e
      /\ \A i \in DOMAIN events : i < n /\ i # n /\ events'[i] = events[i]
  BY <1>1, <1>5, EventAppended
<1> HIDE DEF n
<1>7. \A i \in DOMAIN events : events[i].kind = "result" => events[i].to # k
  BY <1>1, <1>2, <1>4 DEF EventIsTrue, Due
<1>8. \A i \in DOMAIN events : EventIsTrue(calls', events', i)
  BY <1>4, <1>5, <1>6, <1>7 DEF EventIsTrue
<1>9. EventIsTrue(calls', events', n)
  <2>1. d.told = <<>>
    BY <1>1, <1>2 DEF CallIsTrue
  <2> QED
    BY <1>4, <1>5, <1>6, <2>1 DEF EventIsTrue
<1>10. BindTypeOK' /\ Answering'
  BY <1>4, <1>6 DEF BindInv, BindTypeOK, Answering
<1>11. \A i \in DOMAIN events' : EventIsTrue(calls', events', i)
  BY <1>6, <1>8, <1>9
<1> QED
  BY <1>4, <1>10, <1>11, NothingIsTrue DEF BindInv

\* The answer of the native client is queued as its conversion, behind every tip.
LEMMA NativeAnswerInv ==
  ASSUME BindInv, NEW k \in DOMAIN calls, NEW r \in NativeResults, NativeAnswer(k, r)
  PROVE  BindInv'
<1>1. /\ Answering /\ UNCHANGED <<page, objs>> /\ out' = Nothing /\ calls[k].nat = <<>> /\ calls[k].api # "v21"
      /\ calls' = [calls EXCEPT ![k].nat = <<r>>] /\ events' = Append(events, OnResult(calls[k].api, k, r))
  BY DEF NativeAnswer, Answered, Answering
<1>2. calls[k].api \in Apis /\ r \in Int
  BY <1>1, BindFields, BindingsBounds DEF CallType
<1>3. OnResult(calls[k].api, k, r) = ResultEvent(k, CodeOf(calls[k].api, r))
  BY <1>1, <1>2, PostedIs
<1> QED
  BY <1>1, <1>2, <1>3, AnswerInv

\* getAuthLockState: what the wait ends with is what the native client gave, or a timeout.
LEMMA WaitResultInv ==
  ASSUME BindInv, NEW k \in DOMAIN calls, WaitResult(k)
  PROVE  BindInv'
<1>1. PICK r : WaitEnds(k, r) /\ (r = R.TIMEOUT \/ (calls[k].future # <<>> /\ r = calls[k].future[1]))
  BY DEF WaitResult
<1>2. /\ Answering /\ UNCHANGED <<page, objs>> /\ out' = Nothing /\ calls[k].nat = <<>> /\ calls[k].api = "v21"
      /\ calls' = [calls EXCEPT ![k].nat = <<r>>] /\ events' = Append(events, ResultEvent(k, r))
  BY <1>1 DEF WaitEnds, OnPage, Answering
<1>3. r \in Int
  <2>1. calls[k].future \in Seq(Int) /\ R.TIMEOUT \in Int
    BY <1>2, BindFields, CodeValues, SMT DEF CallType
  <2>2. calls[k].future # <<>> => calls[k].future[1] \in Int
    BY <2>1, EmptySeq, LenProperties
  <2> QED
    BY <1>1, <2>1, <2>2
<1>4. CodeOf(calls[k].api, r) = r
  BY <1>2, CodeIs
<1> QED
  BY <1>2, <1>3, <1>4, AnswerInv

\* getAuthLockState: an answer without its attributes is set as an error.
LEMMA LockStateInv ==
  ASSUME BindInv, NEW k \in DOMAIN calls, NEW r \in NativeResults, NEW attributes \in BOOLEAN,
         OnLockStateResult(k, r, attributes)
  PROVE  BindInv'
<1> DEFINE v == IF r = R.SUCCESS /\ ~attributes THEN R.GENERAL_ERROR ELSE r
           d == SetResult(calls[k], v)
<1>1. /\ Answering /\ UNCHANGED <<page, objs, events>> /\ out' = Nothing /\ calls' = [calls EXCEPT ![k] = d]
  BY DEF OnLockStateResult, OnPage, Answering
<1> USE <1>1, BindFields
<1>2. v \in Int
  BY BindingsBounds, CodeValues, SMT
<1> HIDE DEF v
<1>3. /\ d \in CallType /\ d.api = calls[k].api /\ d.nat = calls[k].nat /\ d.told = calls[k].told
      /\ d.dropped = calls[k].dropped /\ d.late = calls[k].late /\ d.valid = calls[k].valid
  <2>1. calls[k] \in CallType /\ <<v>> \in Seq(Int)
    BY <1>2
  <2> QED
    BY <2>1 DEF SetResult, CallType
<1>4. CallIsTrue(d)
  BY <1>3 DEF CallIsTrue
<1> HIDE DEF d
<1>5. /\ calls' \in Seq(CallType) /\ \A j \in DOMAIN calls' : CallIsTrue(calls'[j])
      /\ \A i \in DOMAIN events : EventIsTrue(calls', events, i)
  BY <1>3, <1>4, CallLeftAlone
<1>6. BindTypeOK' /\ Answering'
  BY <1>5 DEF BindInv, BindTypeOK, Answering
<1> QED
  BY <1>5, <1>6, NothingIsTrue DEF BindInv

\* The application's calls that are answered later.
LEMMA FreshCall ==
  ASSUME NEW api \in Apis
  PROVE  /\ Call(api) \in CallType /\ Call(api).api = api /\ Call(api).nat = <<>> /\ Call(api).told = <<>>
         /\ ~Call(api).late /\ ~Call(api).dropped
<1>1. <<>> \in Seq(Int) /\ 0 \in 0 .. MaxObjects
  BY EmptySeq, BindingsBounds
<1> QED
  BY <1>1 DEF Call, CallType

\* A refused check answers in place of the native client; one that passes answers nothing.
LEMMA RefusedFacts ==
  ASSUME NEW result \in Int
  PROVE  Refused(result) = <<>> \/ \E r \in Int : Refused(result) = <<r>>
BY DEF Refused

\* execute() of API 6.
LEMMA ExecuteInv ==
  ASSUME BindInv, NEW argc, NEW type, NEW level, Execute(argc, type, level)
  PROVE  BindInv'
<1>1. Answering /\ UNCHANGED <<page, objs>>
  BY DEF Execute, OnPage, Answering
<1>2. CASE out' = Nothing /\ UNCHANGED <<calls, events>>
  BY <1>1, <1>2, NothingIsTrue, QuietInv
<1>3. CASE Threw(NapiError) /\ UNCHANGED <<calls, events>>
  <2>1. NapiError # U.SUCCESS
    BY CodeValues, SMT DEF NapiError
  <2> QED
    BY <1>1, <1>3, <2>1, ThrewIsTrue, QuietInv
<1>4. CASE Accept(Call("v6"), Refused(ExecuteCheck(type, level)))
  <2>1. ExecuteCheck(type, level) \in Int
    <3>1. ParseExecuteAuthType(type) \in Int
      BY CodeValues, SMT DEF ParseExecuteAuthType
    <3>2. ParseExecuteSecureLevel(level) \in Int
      BY CodeValues, SMT DEF ParseExecuteSecureLevel
    <3> QED
      BY <3>1, <3>2 DEF ExecuteCheck
  <2>2. "v6" \in Apis /\ "v6" # "v21"
    BY DEF Apis
  <2> QED
    BY <1>1, <1>4, <2>1, <2>2, RefusedFacts, FreshCall, AcceptInv
<1> QED
  BY <1>2, <1>3, <1>4 DEF Execute

\* auth() of API 8.
LEMMA AuthCallInv ==
  ASSUME BindInv, NEW argc, NEW type, NEW level, NEW valid \in BOOLEAN, Auth(argc, type, level, valid)
  PROVE  BindInv'
<1>1. Answering /\ UNCHANGED <<page, objs>>
  BY DEF Auth, OnPage, Answering
<1>2. CASE out' = Nothing /\ UNCHANGED <<calls, events>>
  BY <1>1, <1>2, NothingIsTrue, QuietInv
<1>3. CASE Threw(NapiError) /\ UNCHANGED <<calls, events>>
  <2>1. NapiError # U.SUCCESS
    BY CodeValues, SMT DEF NapiError
  <2> QED
    BY <1>1, <1>3, <2>1, ThrewIsTrue, QuietInv
<1>4. CASE Accept([Call("v8") EXCEPT !.valid = valid], Refused(CheckAuthTypeAndAuthTrustLevel(type, level)))
  <2> DEFINE c == [Call("v8") EXCEPT !.valid = valid]
  <2>1. CheckAuthTypeAndAuthTrustLevel(type, level) \in Int
    BY CodeValues, SMT DEF CheckAuthTypeAndAuthTrustLevel
  <2>2. "v8" \in Apis /\ "v8" # "v21"
    BY DEF Apis
  <2>3. c \in CallType /\ c.api = "v8" /\ c.nat = <<>> /\ c.told = <<>> /\ ~c.late /\ ~c.dropped
    <3> DEFINE f == Call("v8")
    <3>1. f \in CallType /\ f.api = "v8" /\ f.nat = <<>> /\ f.told = <<>> /\ ~f.late /\ ~f.dropped
      BY <2>2, FreshCall
    <3>2. c = [f EXCEPT !.valid = valid] /\ valid \in BOOLEAN
      OBVIOUS
    <3> HIDE DEF f, c
    <3>3. c \in CallType
      BY ONLY <3>1, <3>2 DEF CallType
    <3>4. c.api = f.api /\ c.nat = f.nat /\ c.told = f.told /\ c.late = f.late /\ c.dropped = f.dropped
      BY ONLY <3>1, <3>2 DEF CallType
    <3> QED
      BY <3>1, <3>3, <3>4
  <2> HIDE DEF c
  <2>4. Accept(c, Refused(CheckAuthTypeAndAuthTrustLevel(type, level)))
    BY <1>4 DEF c
  <2> QED
    BY <1>1, <2>1, <2>2, <2>3, <2>4, RefusedFacts, AcceptInv
<1> QED
  BY <1>2, <1>3, <1>4 DEF Auth

\* cancelAuth() of API 8.
LEMMA CancelAuthInv ==
  ASSUME BindInv, NEW k, CancelAuth(k)
  PROVE  BindInv'
<1>1. UNCHANGED <<page, calls, objs, events>>
  BY DEF CancelAuth, OnPage
<1>2. PICK r : Returned(GetResultCodeV8(r), <<r>>) /\ r \in {R.SUCCESS, R.INVALID_CONTEXT_ID}
  BY DEF CancelAuth, CancelAuthentication
<1>3. OutIsTrue'
  <2>1. R.INVALID_CONTEXT_ID = 1002
    BY SMT DEF R, ResultCode
  <2>2. r \in Int
    BY <1>2, <2>1, CodeValues, SMT
  <2> DEFINE v == GetResultCodeV8(r)
  <2>3. v \in {201} \cup (0 .. 10) /\ (v = 0 <=> r = 0)
    BY <2>2, ConvertedV8
  <2>4. out'.how = "ret" /\ out'.code = v /\ out'.nat = <<r>>
    BY <1>2 DEF Returned
  <2> HIDE DEF v
  <2> QED
    BY <2>3, <2>4, CodeValues, SMT DEF OutIsTrue
<1> QED
  BY <1>1, <1>3, QuietInv

\* verifyAuthToken().
LEMMA VerifyAuthTokenInv ==
  ASSUME BindInv, NEW argc, NEW token, NEW duration, VerifyAuthToken(argc, token, duration)
  PROVE  BindInv'
<1>1. Answering /\ UNCHANGED <<page, objs>>
  BY DEF VerifyAuthToken, OnPage, Answering
<1>2. CASE Threw(U.OHOS_INVALID_PARAM) /\ UNCHANGED <<calls, events>>
  <2>1. U.OHOS_INVALID_PARAM # U.SUCCESS
    BY CodeValues, SMT
  <2> QED
    BY <1>1, <1>2, <2>1, ThrewIsTrue, QuietInv
<1>3. CASE Accept(Call("v16"), <<>>)
  <2>1. "v16" \in Apis
    BY DEF Apis
  <2> QED
    BY <1>1, <1>3, <2>1, FreshCall, AcceptInv
<1> QED
  BY <1>2, <1>3 DEF VerifyAuthToken

\* getAuthLockState().
LEMMA GetAuthLockStateInv ==
  ASSUME BindInv, NEW argc, NEW type, GetAuthLockState(argc, type)
  PROVE  BindInv'
<1>1. Answering /\ UNCHANGED <<page, objs>>
  BY DEF GetAuthLockState, OnPage, Answering
<1>2. ASSUME NEW code, Threw(GenerateBusinessErrorV21(code)), UNCHANGED <<calls, events>> PROVE BindInv'
  BY <1>1, <1>2, ErrorOfV21, ThrewIsTrue, QuietInv
<1>3. CASE Accept(Call("v21"), <<>>)
  <2>1. "v21" \in Apis
    BY DEF Apis
  <2> QED
    BY <1>1, <1>3, <2>1, FreshCall, AcceptInv
<1> QED
  BY <1>2, <1>3 DEF GetAuthLockState

\* The instances.
LEMMA InstanceInv ==
  ASSUME BindInv, NEW code, NEW api, Instance(code, api)
  PROVE  BindInv'
<1>1. UNCHANGED <<page, calls, events>> /\ DOMAIN objs' = DOMAIN objs
  BY DEF Instance, OnPage
<1>2. OutIsTrue'
  BY EndsIsTrue DEF Instance
<1> QED
  BY <1>1, <1>2, QuietInv

\* A call that only ends or throws queues nothing.
LEMMA InstanceCallInv ==
  ASSUME BindInv, NEW o, NEW api, NEW code, NEW to, InstanceCall(o, api, code, to)
  PROVE  BindInv'
<1>1. UNCHANGED <<page, calls, events>> /\ DOMAIN objs' = DOMAIN objs
  BY DEF InstanceCall, OnPage
<1>2. OutIsTrue'
  BY EndsIsTrue DEF InstanceCall
<1> QED
  BY <1>1, <1>2, QuietInv

\* start() of APIs 9 and 10.
LEMMA StartedInv ==
  ASSUME BindInv, NEW o \in DOMAIN objs, NEW api \in {"v9", "v10"}, NEW argc, Started(o, api, argc)
  PROVE  BindInv'
<1>1. Answering /\ UNCHANGED page
  BY DEF Started, OnPage, Answering
<1>2. ASSUME NEW code \in {U.OHOS_INVALID_PARAM, U.GENERAL_ERROR}, Threw(code), UNCHANGED <<calls, objs, events>>
      PROVE  BindInv'
  <2>1. code # U.SUCCESS
    BY CodeValues, SMT
  <2> QED
    BY <1>1, <1>2, <2>1, ThrewIsTrue, QuietInv
<1>3. CASE Accept([Call(api) EXCEPT !.obj = o], <<>>) /\ objs' = [objs EXCEPT ![o].started = TRUE, ![o].call = Len(calls) + 1]
  <2> DEFINE c == [Call(api) EXCEPT !.obj = o]
  <2>1. api \in Apis /\ o \in 0 .. MaxObjects
    BY <1>1, BindFields DEF Apis
  <2>2. c \in CallType /\ c.nat = <<>> /\ c.told = <<>> /\ ~c.late /\ ~c.dropped
    <3> DEFINE f == Call(api)
    <3>1. f \in CallType /\ f.nat = <<>> /\ f.told = <<>> /\ ~f.late /\ ~f.dropped
      BY <2>1, FreshCall
    <3>2. c = [f EXCEPT !.obj = o]
      OBVIOUS
    <3> HIDE DEF f, c
    <3>3. c \in CallType
      BY ONLY <2>1, <3>1, <3>2 DEF CallType
    <3>4. c.nat = f.nat /\ c.told = f.told /\ c.late = f.late /\ c.dropped = f.dropped
      BY ONLY <3>1, <3>2 DEF CallType
    <3> QED
      BY <3>1, <3>3, <3>4
  <2> HIDE DEF c
  <2>3. DOMAIN objs' = DOMAIN objs /\ Accept(c, <<>>)
    BY <1>3 DEF c
  <2> QED
    BY <1>1, <2>2, <2>3, AcceptInv
<1> QED
  BY <1>2, <1>3 DEF Started

\* cancel() of API 9.
LEMMA CancelV9Inv ==
  ASSUME BindInv, NEW o, NEW argc, CancelV9(o, argc)
  PROVE  BindInv'
<1>1. UNCHANGED <<page, calls, objs, events>> /\ \E code : Ends(code)
  BY DEF CancelV9, OnPage
<1> QED
  BY <1>1, EndsIsTrue, QuietInv

\* cancel() of API 10.
LEMMA CancelV10Inv ==
  ASSUME BindInv, NEW o, NEW argc, CancelV10(o, argc)
  PROVE  BindInv'
<1>1. UNCHANGED <<page, calls, events>> /\ (\E code : Ends(code)) /\ DOMAIN objs' = DOMAIN objs
  BY DEF CancelV10, OnPage
<1> QED
  BY <1>1, EndsIsTrue, QuietInv

\* Every step of the asynchronous calls preserves BindInv.
LEMMA CallsStep ==
  ASSUME BindInv, CallsNext
  PROVE  BindInv'
<1>1. CASE JsThread
  BY <1>1, RunResultInv, RunTipInv DEF JsThread
<1>2. ASSUME NEW k \in DOMAIN calls,
             \/ OnAcquireInfo(k) \/ CancelAuth(k) \/ WaitResult(k)
             \/ \E r \in NativeResults :
                  NativeAnswer(k, r) \/ \E attributes \in BOOLEAN : OnLockStateResult(k, r, attributes)
      PROVE  BindInv'
  BY <1>2, TipPostedInv, CancelAuthInv, WaitResultInv, NativeAnswerInv, LockStateInv
<1>3. ASSUME NEW argc, NEW type, NEW level, Execute(argc, type, level) PROVE BindInv'
  BY <1>3, ExecuteInv
<1>4. ASSUME NEW argc, NEW type, NEW level, GetAuthInstanceV9(argc, type, level) PROVE BindInv'
  BY <1>4, InstanceInv DEF GetAuthInstanceV9
<1>5. ASSUME NEW argc, NEW type, NEW level, NEW valid \in BOOLEAN, Auth(argc, type, level, valid) PROVE BindInv'
  BY <1>5, AuthCallInv
<1>6. ASSUME NEW argc, NEW p, NEW w, GetUserAuthInstanceV10(argc, p, w) PROVE BindInv'
  BY <1>6, InstanceInv DEF GetUserAuthInstanceV10
<1>7. ASSUME NEW argc, NEW token, NEW duration, VerifyAuthToken(argc, token, duration) PROVE BindInv'
  BY <1>7, VerifyAuthTokenInv
<1>8. ASSUME NEW argc, NEW type, GetAuthLockState(argc, type) PROVE BindInv'
  BY <1>8, GetAuthLockStateInv
<1>9. ASSUME NEW o \in DOMAIN objs, NEW argc, StartV9(o, argc) \/ StartV10(o, argc) \/ CancelV9(o, argc) \/ CancelV10(o, argc)
      PROVE  BindInv'
  BY <1>9, StartedInv, CancelV9Inv, CancelV10Inv DEF StartV9, StartV10
<1>10. ASSUME NEW o \in DOMAIN objs, NEW argc, NEW type,
              OnV9(o, argc, type) \/ OffV9(o, argc, type) \/ OnV10(o, argc, type) \/ OffV10(o, argc, type)
       PROVE  BindInv'
  BY <1>10, InstanceCallInv DEF OnV9, OffV9, OnV10, OffV10
<1> QED
  BY <1>1, <1>2, <1>3, <1>4, <1>5, <1>6, <1>7, <1>8, <1>9, <1>10 DEF CallsNext

\* The functions that return: what throws nothing had SUCCESS from the native client.
LEMMA ReturnedIsTrue ==
  ASSUME NEW code, NEW nat, Returned(code, nat), code \in {R.SUCCESS, U.SUCCESS} => nat = <<R.SUCCESS>>
  PROVE  OutIsTrue'
<1>1. out'.how = "ret" /\ out'.code = code /\ out'.nat = nat
  BY DEF Returned
<1> QED
  BY <1>1 DEF OutIsTrue

\* A function that returns on SUCCESS and throws otherwise is true.
LEMMA ReturnsOrThrowsIsTrue ==
  ASSUME NEW code, NEW r, ReturnsOrThrows(code, r), code = U.SUCCESS => r = R.SUCCESS
  PROVE  OutIsTrue'
<1>1. CASE code = U.SUCCESS
  <2>1. Returned(code, <<r>>) /\ <<r>> = <<R.SUCCESS>>
    BY <1>1 DEF ReturnsOrThrows
  <2> QED
    BY <2>1, ReturnedIsTrue
<1>2. CASE code # U.SUCCESS
  <2>1. Threw(GenerateBusinessErrorV9(code)) /\ GenerateBusinessErrorV9(code) # U.SUCCESS
    BY <1>2, ErrorOfV9 DEF ReturnsOrThrows
  <2> QED
    BY <2>1, ThrewIsTrue
<1> QED
  BY <1>1, <1>2

\* Success of a version is success of the native client.
LEMMA SuccessIsNative ==
  ASSUME NEW r \in Int
  PROVE  /\ GetResultCodeV9(r) = U.SUCCESS => r = R.SUCCESS
         /\ GetResultCodeV10(r) = U.SUCCESS => r = R.SUCCESS
         /\ GetResultCodeV20(r) = U.SUCCESS => r = R.SUCCESS
         /\ GetResultCodeV8(r) \in {R.SUCCESS, U.SUCCESS} => <<r>> = <<R.SUCCESS>>
<1> DEFINE v == GetResultCodeV8(r)
<1>1. v \in {201} \cup (0 .. 10) /\ (v = 0 <=> r = 0)
  BY ConvertedV8
<1> HIDE DEF v
<1>2. v \in {R.SUCCESS, U.SUCCESS} => r = R.SUCCESS
  BY <1>1, CodeValues, SMT
<1>3. /\ GetResultCodeV9(r) = U.SUCCESS => r = R.SUCCESS
      /\ GetResultCodeV10(r) = U.SUCCESS => r = R.SUCCESS
      /\ GetResultCodeV20(r) = U.SUCCESS => r = R.SUCCESS
  BY ConvertedV9, ConvertedV10, ConvertedV20, CodeValues, SMT
<1> QED
  BY <1>2, <1>3 DEF v

\* getAvailableStatus() of API 6.
LEMMA GetAvailableStatusInv ==
  ASSUME NEW argc, NEW type, NEW level, NEW r \in Int, GetAvailableStatus(argc, type, level, r)
  PROVE  OutIsTrue'
<1> DEFINE check == CheckAuthTypeAndAuthTrustLevel(type, level)
<1>1. check \in {R.TYPE_NOT_SUPPORT, R.TRUST_LEVEL_NOT_SUPPORT, R.SUCCESS}
  BY CodeValues, SMT DEF CheckAuthTypeAndAuthTrustLevel
<1>2. \/ Returned(R.INVALID_PARAMETERS, <<>>)
      \/ Threw(NapiError)
      \/ check # R.SUCCESS /\ Returned(check, <<>>)
      \/ Returned(GetResultCodeV8(r), <<r>>)
  BY DEF GetAvailableStatus
<1> HIDE DEF check
<1>3. /\ R.INVALID_PARAMETERS \notin {R.SUCCESS, U.SUCCESS} /\ NapiError # U.SUCCESS
      /\ check # R.SUCCESS => check \notin {R.SUCCESS, U.SUCCESS}
  BY <1>1, CodeValues, SMT DEF NapiError
<1> QED
  BY <1>2, <1>3, SuccessIsNative, ReturnedIsTrue, ThrewIsTrue

\* getAvailableStatus() of API 9.
LEMMA GetAvailableStatusV9Inv ==
  ASSUME NEW argc, NEW type, NEW level, NEW r \in Int, GetAvailableStatusV9(argc, type, level, r)
  PROVE  OutIsTrue'
<1>1. PICK code : /\ ReturnsOrThrows(code, r)
                  /\ code = CASE argc # "good" -> U.OHOS_INVALID_PARAM
                      [] type = NotANumber -> U.GENERAL_ERROR [] ~CheckUserAuthType(type) -> U.TYPE_NOT_SUPPORT
                      [] level = NotANumber -> U.GENERAL_ERROR [] ~CheckAuthTrustLevel(level) -> U.TRUST_LEVEL_NOT_SUPPORT
                      [] r = R.PIN_EXPIRED -> U.PIN_EXPIRED
                      [] OTHER -> GetResultCodeV9(r)
  BY DEF GetAvailableStatusV9
<1>2. code \in {U.OHOS_INVALID_PARAM, U.GENERAL_ERROR, U.TYPE_NOT_SUPPORT, U.TRUST_LEVEL_NOT_SUPPORT, U.PIN_EXPIRED,
                GetResultCodeV9(r)}
  BY <1>1, SMT
<1>3. U.SUCCESS \notin {U.OHOS_INVALID_PARAM, U.GENERAL_ERROR, U.TYPE_NOT_SUPPORT, U.TRUST_LEVEL_NOT_SUPPORT, U.PIN_EXPIRED}
  BY CodeValues, SMT
<1> QED
  BY <1>1, <1>2, <1>3, SuccessIsNative, ReturnsOrThrowsIsTrue

\* getEnrolledState().
LEMMA GetEnrolledStateInv ==
  ASSUME NEW argc, NEW type, NEW r \in Int, GetEnrolledState(argc, type, r)
  PROVE  OutIsTrue'
<1>1. PICK code : /\ ReturnsOrThrows(code, r)
                  /\ code = CASE argc # "good" -> U.OHOS_INVALID_PARAM
                      [] type = NotANumber -> U.GENERAL_ERROR [] ~CheckUserAuthType(type) -> U.TYPE_NOT_SUPPORT
                      [] OTHER -> GetResultCodeV10(r)
  BY DEF GetEnrolledState
<1>2. code \in {U.OHOS_INVALID_PARAM, U.GENERAL_ERROR, U.TYPE_NOT_SUPPORT, GetResultCodeV10(r)}
  BY <1>1, SMT
<1>3. U.SUCCESS \notin {U.OHOS_INVALID_PARAM, U.GENERAL_ERROR, U.TYPE_NOT_SUPPORT}
  BY CodeValues, SMT
<1> QED
  BY <1>1, <1>2, <1>3, SuccessIsNative, ReturnsOrThrowsIsTrue

\* Every synchronous call preserves BindInv.
LEMMA SyncStep ==
  ASSUME BindInv, SyncNext
  PROVE  BindInv'
<1>1. PICK r \in NativeResults :
        \/ GetVersion(r) \/ GetUserRecognitionResult(r)
        \/ \E argc, type : GetEnrolledState(argc, type, r)
        \/ \E argc, type, level : GetAvailableStatus(argc, type, level, r)
        \/ \E argc, type, level : GetAvailableStatusV9(argc, type, level, r)
        \/ \E argc, p : QueryReusableAuthResult(argc, p, r)
        \/ \E argc, type, data : SendNotice(argc, type, data, r)
  BY DEF SyncNext
<1>2. r \in Int
  BY BindingsBounds
<1>3. Sync
  BY <1>1 DEF GetVersion, GetUserRecognitionResult, GetEnrolledState, GetAvailableStatus, GetAvailableStatusV9,
            QueryReusableAuthResult, SendNotice
<1>4. OutIsTrue'
  <2>1. CASE GetVersion(r)
    <3>1. out'.how = "value"
      BY <2>1 DEF GetVersion
    <3> QED
      BY <3>1 DEF OutIsTrue
  <2>2. CASE GetUserRecognitionResult(r)
    BY <1>2, <2>2, SuccessIsNative, ReturnsOrThrowsIsTrue DEF GetUserRecognitionResult
  <2>3. ASSUME NEW argc, NEW p, QueryReusableAuthResult(argc, p, r) PROVE OutIsTrue'
    BY <1>2, <2>3, BothPass, SuccessIsNative, ReturnsOrThrowsIsTrue DEF QueryReusableAuthResult
  <2>4. ASSUME NEW argc, NEW type, NEW data, SendNotice(argc, type, data, r) PROVE OutIsTrue'
    BY <1>2, <2>4, BothPass, SuccessIsNative, ReturnsOrThrowsIsTrue DEF SendNotice
  <2> QED
    BY <1>1, <1>2, <2>1, <2>2, <2>3, <2>4, GetEnrolledStateInv, GetAvailableStatusInv, GetAvailableStatusV9Inv
<1>5. UNCHANGED <<page, calls, objs, events>>
  BY <1>3 DEF Sync, OnPage
<1> QED
  BY <1>4, <1>5, QuietInv

\* The managers: no call is under way on their pages.
LEMMA ManagedInv ==
  ASSUME BindInv, NEW p \in {"command", "remote", "recognition"}, Manage(p), OutIsTrue'
  PROVE  BindInv'
<1>1. ~Answering /\ UNCHANGED <<page, calls, objs>>
  BY DEF Manage, OnPage, Answering
<1> QED
  BY <1>1, QuietInv

\* The managers of listeners and commands queue no answers of calls.
LEMMA ManagerCallInv ==
  ASSUME BindInv, NEW p \in {"command", "remote", "recognition"}, NEW code, NEW to, ManagerCall(p, code, to)
  PROVE  BindInv'
BY ManagedInv, EndsIsTrue DEF ManagerCall

\* Nor do the events they run.
LEMMA RunEventInv ==
  ASSUME BindInv, NEW p \in {"command", "remote", "recognition"}, NEW kind, RunEvent(p, kind)
  PROVE  BindInv'
BY ManagedInv, NothingIsTrue DEF RunEvent

\* Every step of the managers preserves BindInv.
LEMMA ManagersStep ==
  ASSUME BindInv, ManagersNext
  PROVE  BindInv'
<1>1. CASE SendCommand
  BY <1>1, ManagedInv, NothingIsTrue DEF SendCommand
<1>2. CASE RunCommand
  BY <1>2, RunEventInv DEF RunCommand
<1>3. CASE OnGetRemoteAuthWidgetParam
  BY <1>3, ManagedInv, NothingIsTrue DEF OnGetRemoteAuthWidgetParam
<1>4. CASE DoRemoteAuthResult
  BY <1>4, RunEventInv DEF DoRemoteAuthResult
<1>5. CASE RunRecognition
  BY <1>5, RunEventInv DEF RunRecognition
<1>6. ASSUME NEW w, RunGetRemoteAuthWidgetParam(w) PROVE BindInv'
  BY <1>6, RunEventInv DEF RunGetRemoteAuthWidgetParam
<1>7. ASSUME NEW r, UnregisterRemoteAuthCallback(r) PROVE BindInv'
  BY <1>7, ManagerCallInv DEF UnregisterRemoteAuthCallback
<1>8. ASSUME NEW r, OnRemoteAuthResult(r) PROVE BindInv'
  BY <1>8, ManagedInv, NothingIsTrue DEF OnRemoteAuthResult
<1>9. ASSUME NEW argc, NEW p, NEW r, RegisterRemoteAuthCallback(argc, p, r) PROVE BindInv'
  BY <1>9, ManagerCallInv DEF RegisterRemoteAuthCallback
<1>10. ASSUME NEW o, CollectRecognitionMgr(o) PROVE BindInv'
  BY <1>10, ManagedInv, NothingIsTrue DEF CollectRecognitionMgr
<1>11. ASSUME NEW o, NEW r, GetUserRecognitionMgr(o, r) PROVE BindInv'
  BY <1>11, ManagerCallInv DEF GetUserRecognitionMgr
<1>12. ASSUME NEW o, NEW argc, NEW version, NEW r, GetUserAuthWidgetMgrV10(o, argc, version, r) PROVE BindInv'
  BY <1>12, ManagerCallInv DEF GetUserAuthWidgetMgrV10
<1>13. ASSUME NEW o, NEW argc, NEW type, OnCommand(o, argc, type) \/ OffCommand(o, argc, type) PROVE BindInv'
  BY <1>13, ManagerCallInv DEF OnCommand, OffCommand
<1>14. ASSUME NEW o, NEW f, OnUserRecognitionChange(o, f) PROVE BindInv'
  BY <1>14, ManagedInv, NothingIsTrue DEF OnUserRecognitionChange
<1>15. ASSUME NEW o, NEW fs, NEW arg, OffRecognition(o, fs, arg) PROVE BindInv'
  BY <1>15, ManagerCallInv DEF OffRecognition
<1>16. ASSUME NEW o, NEW f, NEW arg, NEW r, OnRecognition(o, f, arg, r) PROVE BindInv'
  BY <1>16, ManagerCallInv DEF OnRecognition, RegisterCallback
<1> QED
  BY <1>1, <1>2, <1>3, <1>4, <1>5, <1>6, <1>7, <1>8, <1>9, <1>10, <1>11, <1>12, <1>13, <1>14, <1>15, <1>16
     DEF ManagersNext

\* BindInv holds while the bindings idle.
LEMMA BindingsInitInv ==
  BindingsIdle => BindInv
<1> SUFFICES ASSUME BindingsIdle PROVE BindInv
  OBVIOUS
<1>1. calls = <<>> /\ events = <<>> /\ out = Nothing /\ objs = [o \in 1 .. MaxObjects |-> NoObject]
  BY DEF BindingsIdle
<1>2. <<>> \in Seq(CallType) /\ <<>> \in Seq(AnswerType) /\ \A k : k \notin DOMAIN <<>>
  BY EmptySeq
<1>3. OutIsTrue
  BY <1>1 DEF OutIsTrue, Nothing
<1> QED
  BY <1>1, <1>2, <1>3 DEF BindInv, BindTypeOK

\* BindInv is inductive.
LEMMA BindingsStep ==
  BindInv /\ [BindingsNext]_bindVars => BindInv'
<1> SUFFICES ASSUME BindInv, [BindingsNext]_bindVars PROVE BindInv'
  OBVIOUS
<1>1. CASE UNCHANGED bindVars
  <2>1. UNCHANGED <<page, calls, objs, events, out>>
    BY <1>1 DEF bindVars
  <2>2. OutIsTrue'
    BY <2>1 DEF BindInv, OutIsTrue
  <2> QED
    BY <2>1, <2>2, QuietInv
<1> QED
  BY <1>1, CallsStep, SyncStep, ManagersStep DEF BindingsNext

\* The inductive invariant of the bindings, for any native results, any number of calls
\* and of objects.
THEOREM BindingsInvariant == BindingsSpec => []BindInv
BY BindingsInitInv, BindingsStep, PTL DEF BindingsSpec, BindingsInit

\* The elements of a sequence of one.
LEMMA AtMostOne ==
  ASSUME NEW s \in Seq(Int), s # <<>>, Len(s) <= 1
  PROVE  ToSet(s) = {s[1]}
<1>1. Len(s) \in Nat /\ DOMAIN s = 1 .. Len(s) /\ Len(s) # 0
  BY EmptySeq, LenProperties
<1>2. DOMAIN s = {1}
  BY <1>1
<1> QED
  BY <1>2 DEF ToSet

\* What the invariant says of the calls that are there is what the property says.
LEMMA AnswersTrue == BindInv => AnswerIsTrue
<1> SUFFICES ASSUME BindInv PROVE AnswerIsTrue
  OBVIOUS
<1>1. OutIsTrue
  BY DEF BindInv
<1>2. ASSUME NEW k \in DOMAIN calls
      PROVE  /\ Len(calls[k].told) <= 1 /\ ~calls[k].late
             /\ calls[k].told # <<>> => (calls[k].told[1] = SuccessOf(calls[k].api) <=> calls[k].nat = <<R.SUCCESS>>)
             /\ ToSet(calls[k].told) \subseteq Documented(calls[k].api)
             /\ calls[k].dropped => calls[k].told = <<>> /\ (~calls[k].valid \/ calls[k].api \in {"v9", "v10"})
  <2> DEFINE c == calls[k]
  <2>1. CallIsTrue(c) /\ c.told \in Seq(Int)
    <3>1. calls \in Seq(CallType)
      BY DEF BindInv, BindTypeOK
    <3>2. c \in CallType
      BY <3>1, LenProperties
    <3> HIDE DEF c
    <3>3. c.told \in Seq(Int)
      BY <3>2 DEF CallType
    <3> QED
      BY <3>3 DEF BindInv, c
  <2> HIDE DEF c
  <2>2. ToSet(c.told) \subseteq Documented(c.api)
    <3>1. CASE c.told = <<>>
      BY <3>1, EmptyFacts
    <3>2. CASE c.told # <<>>
      <4>1. ToSet(c.told) = {c.told[1]}
        BY <2>1, <3>2, AtMostOne DEF CallIsTrue
      <4> QED
        BY <2>1, <3>2, <4>1 DEF CallIsTrue, Truth
    <3> QED
      BY <3>1, <3>2
  <2>3. /\ Len(c.told) <= 1 /\ ~c.late
        /\ c.told # <<>> => (c.told[1] = SuccessOf(c.api) <=> c.nat = <<R.SUCCESS>>)
        /\ c.dropped => c.told = <<>> /\ (~c.valid \/ c.api \in {"v9", "v10"})
    BY <2>1 DEF CallIsTrue, Truth
  <2> QED
    BY <2>2, <2>3 DEF c
<1> QED
  BY <1>1, <1>2 DEF AnswerIsTrue, OutIsTrue

\* What the application is told is the truth and the last word (AnswerIsTrue): whatever
\* number the native client gives, the code of every version of the API says success for
\* SUCCESS alone and is one that version exports, and the callback of a call is called
\* once, after its tips.
THEOREM BindingsTheorem == BindingsSpec => []AnswerIsTrue
BY AnswersTrue, BindingsInvariant, PTL

-------------------------------------------------------------------------------
(* Both edges in one run.                                                  *)

\* What is proved of each edge holds of the behaviours in which the other idles.
THEOREM EdgesTheorem ==
  EdgesSpec => [](ListenersAreHeard /\ RecognitionIsFresh /\ AnswerIsTrue)
<1>1. EdgesInit => EventInv /\ RecInv /\ BindInv
  BY EventsInit, RecognitionInit, BindingsInitInv DEF EdgesInit, ListenersInit, BindingsInit
<1>2. EventInv /\ RecInv /\ BindInv /\ [EdgesNext]_<<listenVars, bindVars>> => EventInv' /\ RecInv' /\ BindInv'
  <2>1. [EdgesNext]_<<listenVars, bindVars>> => [ListenersNext]_listenVars /\ [BindingsNext]_bindVars
    BY DEF EdgesNext
  <2> QED
    BY <2>1, EventsStep, RecognitionStep, BindingsStep
<1> QED
  BY <1>1, <1>2, EventsHeard, RecognitionFresh, AnswersTrue, PTL DEF EdgesSpec
===============================================================================
