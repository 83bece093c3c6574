------------------------- MODULE ScheduleNode_proofs -------------------------
(***************************************************************************)
(* Proofs about ScheduleNode, for every bound on stops and results.        *)
(***************************************************************************)
EXTENDS ScheduleNode, TLAPS

\* Every row of the table MakeFiniteStateMachine builds is well formed: S_END is
\* never left and S_INIT never entered.
LEMMA RowTypes ==
  \A row \in Transitions :
    /\ row = Row(row.from, row.event, row.to, row.handler)
    /\ row.from \in States \ {"END"}
    /\ row.to \in States \ {"INIT"}
    /\ row.event \in Events
    /\ row.handler \in Handlers
BY DEF Transitions, InitRows, VerifyStaringRows, CollectStaringRows, AuthProcessingRows,
       CollectStoppingRows, VerifyStoppingRows, Row, States, Events, OuterEvents,
       InnerEvents, Handlers

\* Which handler runs on the way to which state.
LEMMA RowShapes ==
  \A row \in Transitions :
    /\ row.handler = "BeginVerifier" <=> row.to = "VERIFY_STARING"
    /\ row.handler = "BeginCollector" <=> row.to = "COLLECT_STARING"
    /\ row.handler = "EndCollector" <=> row.to = "COLLECT_STOPPING"
    /\ row.handler = "EndVerifier" <=> row.to = "VERIFY_STOPPING"
    /\ row.to = "VERIFY_STARING" => row.from = "INIT"
    /\ row.from = "INIT" => row.event = "START_AUTH"
    /\ row.to = "COLLECT_STARING" => row.from = "VERIFY_STARING"
    /\ row.to = "VERIFY_STOPPING" => row.from \in {"VERIFY_STARING", "COLLECT_STOPPING"}
    /\ row.to = "END" =>
         \/ row.event = "SCHEDULE_RESULT_RECEIVED"
         \/ row.from = "VERIFY_STOPPING"
         \/ row.from = "VERIFY_STARING" /\ row.event = "VERIFY_STARTED_FAILED"
BY DEF Transitions, InitRows, VerifyStaringRows, CollectStaringRows, AuthProcessingRows,
       CollectStoppingRows, VerifyStoppingRows, Row

-------------------------------------------------------------------------------
(* The inductive invariant.                                                *)

\* The row in progress starts from the current state, and nobody releases a node
\* the handler holds.
HandlingOK ==
  handling # Idle =>
    /\ handling.row.from = state
    /\ handling.locked = alive

\* The callback goes with the one result.
CallbackOK ==
  /\ callback <=> state # "END"
  /\ state # "END" => delivered = <<>>
  /\ state = "END" => Len(delivered) = 1

\* An event that is queued, or whose row is in progress.
Pending(e) == Queued(e) \/ (handling # Idle /\ handling.row.event = e)

\* E_SCHEDULE_RESULT_RECEIVED comes from ContinueSchedule only.
ResultSeen == Pending("SCHEDULE_RESULT_RECEIVED") => results > 0

\* E_VERIFY_STARTED_FAILED comes from a verifier that did not begin.
FailureSeen ==
  Pending("VERIFY_STARTED_FAILED") =>
    /\ state # "INIT"
    /\ state = "VERIFY_STARING" => running = {}

\* What may be running in which state.
RunningOK ==
  /\ allInOne => "collector" \notin running
  /\ state = "INIT" => running = {}
  /\ state = "VERIFY_STARING" => "collector" \notin running
  /\ state = "COLLECT_STOPPING" /\ alive = Roles => "collector" \notin running
  /\ state = "VERIFY_STOPPING" \/ (state = "END" /\ results = 0) =>
       /\ "verifier" \notin running \cap alive
       /\ alive = Roles => running = {}

IInv ==
  /\ TypeOK
  /\ HandlingOK
  /\ CallbackOK
  /\ ResultSeen
  /\ FailureSeen
  /\ RunningOK

-------------------------------------------------------------------------------
LEMMA IdleIsNoRow ==
  ASSUME TypeOK, handling # Idle
  PROVE  handling \in [row : Transitions, locked : SUBSET Roles]
BY DEF TypeOK

\* What a step of a handler leaves behind, for every handler at once.
LEMMA CompleteTypes ==
  ASSUME TypeOK, Complete
  PROVE  /\ handling' = Idle
         /\ state' = handling.row.to
         /\ queue' \in Seq(Events)
         /\ fwk' \in FwkCodes \cup {NoCode}
         /\ exec' \in Codes
         /\ running' \in SUBSET Roles
         /\ handling.row.to = "END" => OnScheduleFinished
         /\ handling.row.to # "END" => UNCHANGED <<timer, callback, delivered>>
         /\ UNCHANGED <<config, nodes, begun, counts>>
<1> USE DEF TypeOK, Enter, Follow, Kick, Invalid, Refuse, Codes, ExecCodes, FwkCodes, NoCode
<1>e. \A e \in InnerEvents : Append(queue, e) \in Seq(Events)
  BY DEF Events
<1>r. /\ "verifier" \in Roles /\ "collector" \in Roles
      /\ running \in SUBSET Roles
  BY DEF Roles
<1>1. CASE ProcessBeginVerifier
  BY <1>1, <1>e, <1>r DEF ProcessBeginVerifier, Complete, InnerEvents
<1>2. CASE ProcessBeginCollector
  BY <1>2, <1>e, <1>r DEF ProcessBeginCollector, Complete, InnerEvents
<1>3. CASE ProcessEndCollector
  BY <1>3, <1>e, <1>r DEF ProcessEndCollector, Complete, InnerEvents
<1>4. CASE ProcessEndVerifier
  BY <1>4, <1>e, <1>r DEF ProcessEndVerifier, Complete, InnerEvents
<1>5. CASE ProcessNothing
  BY <1>5 DEF ProcessNothing, Complete
<1> QED
  BY <1>1, <1>2, <1>3, <1>4, <1>5 DEF Complete

\* Posting an event makes that event pending and no other.
LEMMA QueuedAppend ==
  ASSUME queue \in Seq(Events), NEW e, e \in Events, queue' = Append(queue, e),
         NEW f, Queued(f)'
  PROVE  Queued(f) \/ f = e
BY DEF Queued

\* Popping an event makes nothing pending.
LEMMA QueuedTail ==
  ASSUME queue \in Seq(Events), queue # <<>>, queue' = Tail(queue)
  PROVE  /\ Tail(queue) \in Seq(Events)
         /\ Queued(Head(queue))
         /\ \A f : Queued(f)' => Queued(f)
BY DEF Queued

\* The events posted by other threads change none of what the invariant says of
\* the machine, as long as a result comes with its count.
LEMMA Posted ==
  ASSUME IInv, NEW e \in OuterEvents, queue' = Append(queue, e),
         UNCHANGED <<config, state, handling, callback, delivered, nodes, work>>,
         results' \in Nat, results' >= results,
         e = "SCHEDULE_RESULT_RECEIVED" => results' > 0
  PROVE  HandlingOK' /\ CallbackOK' /\ ResultSeen' /\ FailureSeen' /\ RunningOK'
<1> USE DEF config, nodes, work
<1>1. queue \in Seq(Events) /\ e \in Events /\ results \in Nat
  BY BoundsAssumption DEF IInv, TypeOK, Events
<1>2. \A f : Pending(f)' => Pending(f) \/ f = e
  BY <1>1, QueuedAppend DEF Pending
<1>3. HandlingOK' /\ CallbackOK'
  BY DEF IInv, HandlingOK, CallbackOK
<1>4. ResultSeen'
  BY <1>1, <1>2 DEF IInv, ResultSeen
<1>5. FailureSeen'
  BY <1>2 DEF IInv, FailureSeen, OuterEvents
<1>6. RunningOK'
  BY <1>1 DEF IInv, RunningOK
<1> QED
  BY <1>3, <1>4, <1>5, <1>6

LEMMA InitInv == Init => IInv
<1> SUFFICES ASSUME Init PROVE IInv
  OBVIOUS
<1>1. TypeOK
  <2>1. queue \in Seq(Events) /\ delivered \in Seq(Codes)
    BY DEF Init
  <2>2. stops \in 0 .. MaxStops /\ results \in 0 .. MaxResults
    BY BoundsAssumption DEF Init
  <2>3. state \in States /\ fwk \in FwkCodes \cup {NoCode} /\ exec \in Codes
    BY DEF Init, States, Codes, FwkCodes
  <2>4. allInOne \in BOOLEAN /\ timed \in BOOLEAN /\ callback \in BOOLEAN
    BY Zenon DEF Init
  <2>5. handling \in {Idle} \cup [row : Transitions, locked : SUBSET Roles]
    BY DEF Init
  <2> QED
    BY <2>1, <2>2, <2>3, <2>4, <2>5 DEF Init, TypeOK
<1>2. HandlingOK /\ CallbackOK /\ ResultSeen /\ FailureSeen /\ RunningOK
  BY DEF Init, HandlingOK, CallbackOK, ResultSeen, FailureSeen, RunningOK, Pending, Queued
<1> QED
  BY <1>1, <1>2 DEF IInv

LEMMA StartScheduleInv == IInv /\ StartSchedule => IInv'
<1> SUFFICES ASSUME IInv, StartSchedule PROVE IInv'
  OBVIOUS
<1>1. TypeOK'
  BY DEF IInv, TypeOK, StartSchedule, Kick, Events, OuterEvents, config, outcome, nodes,
         work, counts
<1>2. results \in Nat
  BY BoundsAssumption DEF IInv, TypeOK
<1>3. HandlingOK' /\ CallbackOK' /\ ResultSeen' /\ FailureSeen' /\ RunningOK'
  BY <1>2, Posted DEF StartSchedule, Kick, OuterEvents, outcome, counts
<1> QED
  BY <1>1, <1>3 DEF IInv

LEMMA StopScheduleInv == IInv /\ StopSchedule => IInv'
<1> SUFFICES ASSUME IInv, StopSchedule PROVE IInv'
  OBVIOUS
<1>1. TypeOK'
  BY BoundsAssumption DEF IInv, TypeOK, StopSchedule, Stop, Kick, Events, OuterEvents,
         Codes, FwkCodes, config, nodes, work
<1>2. results \in Nat
  BY BoundsAssumption DEF IInv, TypeOK
<1>3. HandlingOK' /\ CallbackOK' /\ ResultSeen' /\ FailureSeen' /\ RunningOK'
  BY <1>2, Posted DEF StopSchedule, Stop, Kick, OuterEvents
<1> QED
  BY <1>1, <1>3 DEF IInv

LEMMA ContinueScheduleInv ==
  ASSUME IInv, NEW code \in ExecCodes, ContinueSchedule(code)
  PROVE  IInv'
<1>1. TypeOK'
  BY BoundsAssumption DEF IInv, TypeOK, ContinueSchedule, Kick, Events, OuterEvents,
         Codes, FwkCodes, config, nodes, work
<1>2. results \in Nat
  BY BoundsAssumption DEF IInv, TypeOK
<1>3. HandlingOK' /\ CallbackOK' /\ ResultSeen' /\ FailureSeen' /\ RunningOK'
  BY <1>2, Posted DEF ContinueSchedule, Kick, OuterEvents
<1> QED
  BY <1>1, <1>3 DEF IInv

LEMMA TimeOutInv == IInv /\ TimeOut => IInv'
<1> SUFFICES ASSUME IInv, TimeOut PROVE IInv'
  OBVIOUS
<1>1. TypeOK'
  BY DEF IInv, TypeOK, TimeOut, Kick, Events, OuterEvents, FwkCodes, config, nodes, work,
         counts
<1>2. results \in Nat
  BY BoundsAssumption DEF IInv, TypeOK
<1>3. HandlingOK' /\ CallbackOK' /\ ResultSeen' /\ FailureSeen' /\ RunningOK'
  BY <1>2, Posted DEF TimeOut, Kick, OuterEvents, counts
<1> QED
  BY <1>1, <1>3 DEF IInv

LEMMA PoolInv ==
  ASSUME IInv, NEW r \in Roles,
         \/ ResourceNodePoolDelete(r)
         \/ ResourceNodePoolUpdate(r)
         \/ NodeReleased(r)
  PROVE  IInv'
<1> USE DEF config, outcome, machine, work, counts
<1>0. results \in Nat
  BY BoundsAssumption DEF IInv, TypeOK
<1>1. TypeOK'
  <2>1. queue' \in Seq(Events) /\ fwk' \in FwkCodes \cup {NoCode}
    <3>1. "STOP_AUTH" \in Events /\ "GENERAL_ERROR" \in FwkCodes
      BY DEF Events, OuterEvents, FwkCodes
    <3>2. \/ queue' = queue /\ fwk' = fwk
          \/ queue' = Append(queue, "STOP_AUTH") /\ fwk' = "GENERAL_ERROR"
      BY DEF ResourceNodePoolDelete, ResourceNodePoolUpdate, NodeReleased, Stop, Kick
    <3>3. queue \in Seq(Events) /\ fwk \in FwkCodes \cup {NoCode}
      BY DEF IInv, TypeOK
    <3>4. Append(queue, "STOP_AUTH") \in Seq(Events)
      BY <3>1, <3>3
    <3>5. CASE queue' = queue /\ fwk' = fwk
      BY <3>3, <3>5
    <3>6. CASE queue' = Append(queue, "STOP_AUTH") /\ fwk' = "GENERAL_ERROR"
      BY <3>1, <3>4, <3>6
    <3> QED
      BY <3>2, <3>5, <3>6
  <2>2. pooled' \subseteq Roles /\ alive' \subseteq Roles
    BY DEF IInv, TypeOK, ResourceNodePoolDelete, ResourceNodePoolUpdate, NodeReleased
  <2>3. UNCHANGED <<config, state, handling, exec, callback, delivered, timer, work, counts>>
    BY DEF ResourceNodePoolDelete, ResourceNodePoolUpdate, NodeReleased
  <2> QED
    BY <2>1, <2>2, <2>3 DEF IInv, TypeOK
<1>2. CASE ResourceNodePoolDelete(r) /\ Started
  <2>1. queue' = Append(queue, "STOP_AUTH") /\ "STOP_AUTH" \in Events
    BY <1>2 DEF ResourceNodePoolDelete, Stop, Kick, Events, OuterEvents
  <2>2. \A f : Pending(f)' => Pending(f) \/ f = "STOP_AUTH"
    BY <1>2, <2>1, QueuedAppend DEF Pending, IInv, TypeOK, ResourceNodePoolDelete
  <2>3. HandlingOK' /\ CallbackOK' /\ RunningOK'
    BY <1>2 DEF IInv, ResourceNodePoolDelete, HandlingOK, CallbackOK, RunningOK
  <2>4. ResultSeen' /\ FailureSeen'
    BY <1>2, <2>2 DEF IInv, ResourceNodePoolDelete, ResultSeen, FailureSeen
  <2> QED
    BY <1>1, <2>3, <2>4 DEF IInv
<1>3. CASE (ResourceNodePoolDelete(r) /\ ~Started) \/ ResourceNodePoolUpdate(r)
  BY <1>1, <1>3 DEF IInv, ResourceNodePoolDelete, ResourceNodePoolUpdate, HandlingOK,
         CallbackOK, ResultSeen, FailureSeen, RunningOK, Pending, Queued
<1>4. CASE NodeReleased(r)
  <2>1. alive' \subseteq alive /\ alive' # Roles
    BY <1>4 DEF IInv, TypeOK, NodeReleased, SameNode
  <2>2. RunningOK'
    BY <1>4, <2>1 DEF IInv, NodeReleased, RunningOK
  <2>3. HandlingOK' /\ CallbackOK' /\ ResultSeen' /\ FailureSeen'
    BY <1>4 DEF IInv, NodeReleased, HandlingOK, CallbackOK, ResultSeen, FailureSeen,
           Pending, Queued
  <2> QED
    BY <1>1, <2>2, <2>3 DEF IInv
<1> QED
  BY <1>2, <1>3, <1>4

LEMMA DropEventInv == IInv /\ DropEvent => IInv'
<1> SUFFICES ASSUME IInv, DropEvent PROVE IInv'
  OBVIOUS
<1> USE DEF config, outcome, nodes, work, counts
<1>1. /\ queue \in Seq(Events) /\ queue # <<>> /\ queue' = Tail(queue)
      /\ UNCHANGED <<config, state, handling, outcome, timer, nodes, work, counts>>
  BY DEF IInv, TypeOK, DropEvent
<1>2. Tail(queue) \in Seq(Events) /\ \A f : Queued(f)' => Queued(f)
  BY <1>1, QueuedTail
<1>3. TypeOK'
  BY <1>1, <1>2 DEF IInv, TypeOK
<1>4. HandlingOK' /\ CallbackOK' /\ RunningOK'
  BY <1>1 DEF IInv, HandlingOK, CallbackOK, RunningOK
<1>5. ResultSeen' /\ FailureSeen'
  BY <1>1, <1>2 DEF IInv, ResultSeen, FailureSeen, Pending
<1> QED
  BY <1>3, <1>4, <1>5 DEF IInv

LEMMA BeginInv ==
  ASSUME IInv, NEW row \in Transitions, Begin(row)
  PROVE  IInv'
<1> USE DEF config, outcome, nodes, counts
<1>1. /\ queue \in Seq(Events) /\ queue # <<>> /\ queue' = Tail(queue)
      /\ handling' = [row |-> row, locked |-> alive]
      /\ row.from = state /\ row.event = Head(queue)
      /\ UNCHANGED <<config, state, outcome, timer, nodes, running, counts>>
  BY DEF IInv, TypeOK, Begin, Enabled
<1>2. /\ Tail(queue) \in Seq(Events)
      /\ Queued(row.event)
      /\ \A f : Queued(f)' => Queued(f)
  BY <1>1, QueuedTail
<1>3. \A f : Pending(f)' => Pending(f)
  BY <1>1, <1>2 DEF Pending
<1>4. TypeOK'
  <2>1. begun' \subseteq Roles
    BY DEF IInv, TypeOK, Begin, Called, Roles
  <2>2. handling' \in [row : Transitions, locked : SUBSET Roles]
    BY <1>1 DEF IInv, TypeOK
  <2> QED
    BY <1>1, <1>2, <2>1, <2>2 DEF IInv, TypeOK
<1>5. HandlingOK' /\ CallbackOK' /\ RunningOK'
  BY <1>1 DEF IInv, HandlingOK, CallbackOK, RunningOK
<1>6. ResultSeen' /\ FailureSeen'
  BY <1>1, <1>3 DEF IInv, ResultSeen, FailureSeen
<1> QED
  BY <1>4, <1>5, <1>6 DEF IInv

\* The events a handler queues: its own follow-up, which is E_VERIFY_STARTED_FAILED
\* only when the verifier has not begun.
LEMMA CompletePending ==
  ASSUME IInv, Complete
  PROVE  /\ ResultSeen'
         /\ FailureSeen'
<1> DEFINE row == handling.row
<1>1. /\ handling' = Idle /\ state' = row.to
      /\ UNCHANGED <<config, nodes, begun, counts>>
      /\ TypeOK /\ handling # Idle
  BY CompleteTypes DEF IInv, Complete
<1>2. row \in Transitions /\ row.from = state /\ handling.locked = alive
  BY <1>1, IdleIsNoRow DEF IInv, HandlingOK
<1>3. PICK e \in InnerEvents :
        /\ \A f : Queued(f)' => Queued(f) \/ f = e
        /\ e = "VERIFY_STARTED_FAILED" =>
             row.to # "VERIFY_STARING" \/ running' = running
  <2> USE DEF Follow, Kick, Invalid, Refuse, InnerEvents
  <2>1. \A e \in InnerEvents : queue' = Append(queue, e) =>
          \A f : Queued(f)' => Queued(f) \/ f = e
    BY QueuedAppend DEF IInv, TypeOK, Events
  <2>2. CASE ProcessBeginVerifier
    BY <2>1, <2>2 DEF ProcessBeginVerifier
  <2>3. CASE ProcessBeginCollector
    BY <2>1, <2>3 DEF ProcessBeginCollector
  <2>4. CASE ProcessEndCollector
    BY <2>1, <2>4 DEF ProcessEndCollector
  <2>5. CASE ProcessEndVerifier
    BY <2>1, <2>5 DEF ProcessEndVerifier
  <2>6. CASE ProcessNothing
    BY <2>6 DEF ProcessNothing, Queued
  <2> QED
    BY <2>2, <2>3, <2>4, <2>5, <2>6 DEF Complete
<1>4. \A f : Pending(f)' => Pending(f) \/ f = e
  BY <1>1, <1>3 DEF Pending
<1>5. ResultSeen'
  BY <1>1, <1>4 DEF IInv, ResultSeen, InnerEvents, counts
<1>6. row.to # "INIT" /\ (row.to = "VERIFY_STARING" => state = "INIT")
  BY <1>2, RowTypes, RowShapes
<1>7. FailureSeen'
  <2> SUFFICES ASSUME Pending("VERIFY_STARTED_FAILED")', row.to = "VERIFY_STARING"
               PROVE  running' = {}
    BY <1>1, <1>6 DEF FailureSeen
  <2>1. state = "INIT" /\ running = {} /\ ~Pending("VERIFY_STARTED_FAILED")
    BY <1>6 DEF IInv, RunningOK, FailureSeen
  <2> QED
    BY <1>3, <1>4, <2>1
<1> QED
  BY <1>5, <1>7

\* What each handler does to the set of running executors.
LEMMA CompleteRunning ==
  ASSUME IInv, Complete
  PROVE  RunningOK'
<1> DEFINE row == handling.row
<1>1. /\ handling' = Idle /\ state' = row.to /\ running' \subseteq Roles
      /\ allInOne' = allInOne /\ alive' = alive /\ results' = results
      /\ TypeOK /\ handling # Idle
  BY CompleteTypes DEF IInv, Complete, config, nodes, counts
<1>2. row \in Transitions /\ row.from = state /\ handling.locked = alive
  BY <1>1, IdleIsNoRow DEF IInv, HandlingOK
<1>3. row.to # "INIT"
  BY <1>2, RowTypes
<1> USE DEF Invalid, Refuse, Roles
<1>4. CASE row.handler = "BeginVerifier"
  <2>1. row.to = "VERIFY_STARING" /\ state = "INIT"
    BY <1>2, <1>4, RowShapes
  <2>2. running' \subseteq {"verifier"}
    BY <1>4, <2>1 DEF Complete, ProcessBeginVerifier, ProcessBeginCollector,
         ProcessEndCollector, ProcessEndVerifier, ProcessNothing, IInv, RunningOK
  <2> QED
    BY <1>1, <2>1, <2>2 DEF RunningOK
<1>5. CASE row.handler = "BeginCollector"
  <2>1. row.to = "COLLECT_STARING" /\ state = "VERIFY_STARING"
    BY <1>2, <1>5, RowShapes
  <2>2. allInOne => "collector" \notin running'
    BY <1>5, <2>1 DEF Complete, ProcessBeginVerifier, ProcessBeginCollector,
         ProcessEndCollector, ProcessEndVerifier, ProcessNothing, IInv, RunningOK
  <2> QED
    BY <1>1, <2>1, <2>2 DEF RunningOK
<1>6. CASE row.handler = "EndCollector"
  <2>1. row.to = "COLLECT_STOPPING"
    BY <1>2, <1>6, RowShapes
  <2>2. /\ allInOne => "collector" \notin running'
        /\ alive = Roles => "collector" \notin running'
    BY <1>2, <1>6 DEF Complete, ProcessBeginVerifier, ProcessBeginCollector,
         ProcessEndCollector, ProcessEndVerifier, ProcessNothing, IInv, RunningOK
  <2> QED
    BY <1>1, <2>1, <2>2 DEF RunningOK
<1>7. CASE row.handler = "EndVerifier"
  <2>1. row.to = "VERIFY_STOPPING" /\ state \in {"VERIFY_STARING", "COLLECT_STOPPING"}
    BY <1>2, <1>7, RowShapes
  <2>2. /\ running' \subseteq running
        /\ "verifier" \in alive => "verifier" \notin running'
    BY <1>2, <1>7 DEF Complete, ProcessBeginVerifier, ProcessBeginCollector,
         ProcessEndCollector, ProcessEndVerifier, ProcessNothing
  <2>3. alive = Roles => "collector" \notin running
    BY <2>1 DEF IInv, RunningOK
  <2>4. alive = Roles => running' = {}
    BY <1>1, <2>2, <2>3
  <2> QED
    BY <1>1, <2>1, <2>2, <2>4 DEF IInv, RunningOK
<1>8. CASE row.handler = "nothing"
  <2>1. running' = running
    BY <1>8 DEF Complete, ProcessBeginVerifier, ProcessBeginCollector,
         ProcessEndCollector, ProcessEndVerifier, ProcessNothing
  <2>2. row.to \in {"AUTH_PROCESSING", "END"}
    BY <1>2, <1>8, RowTypes, RowShapes DEF States
  <2>3. CASE row.to = "AUTH_PROCESSING"
    BY <1>1, <2>1, <2>3 DEF IInv, RunningOK
  <2>4. CASE row.to = "END"
    <3>1. \/ row.event = "SCHEDULE_RESULT_RECEIVED"
          \/ state = "VERIFY_STOPPING"
          \/ state = "VERIFY_STARING" /\ row.event = "VERIFY_STARTED_FAILED"
      BY <1>2, <2>4, RowShapes
    <3>2. CASE row.event = "SCHEDULE_RESULT_RECEIVED"
      <4>1. results # 0
        BY <1>1, <3>2, BoundsAssumption DEF IInv, ResultSeen, Pending, TypeOK
      <4> QED
        BY <1>1, <2>1, <2>4, <4>1 DEF IInv, RunningOK
    <3>3. CASE state = "VERIFY_STOPPING"
      BY <1>1, <2>1, <2>4, <3>3 DEF IInv, RunningOK
    <3>4. CASE state = "VERIFY_STARING" /\ row.event = "VERIFY_STARTED_FAILED"
      <4>1. running = {}
        BY <1>1, <3>4 DEF IInv, FailureSeen, Pending
      <4> QED
        BY <1>1, <2>1, <2>4, <4>1 DEF RunningOK
    <3> QED
      BY <3>1, <3>2, <3>3, <3>4
  <2> QED
    BY <2>2, <2>3, <2>4
<1> QED
  BY <1>2, <1>4, <1>5, <1>6, <1>7, <1>8, RowTypes DEF Handlers

LEMMA CompleteInv == IInv /\ Complete => IInv'
<1> SUFFICES ASSUME IInv, Complete PROVE IInv'
  OBVIOUS
<1> DEFINE row == handling.row
<1>1. /\ handling' = Idle /\ state' = row.to
      /\ queue' \in Seq(Events)
      /\ fwk' \in FwkCodes \cup {NoCode} /\ exec' \in Codes
      /\ running' \in SUBSET Roles
      /\ row.to = "END" => OnScheduleFinished
      /\ row.to # "END" => UNCHANGED <<timer, callback, delivered>>
      /\ UNCHANGED <<config, nodes, begun, counts>>
      /\ TypeOK /\ handling # Idle
  BY CompleteTypes DEF IInv, Complete
<1>2. row \in Transitions /\ row.from = state
  BY <1>1, IdleIsNoRow DEF IInv, HandlingOK
<1>3. state # "END" /\ row.to \in States
  BY <1>2, RowTypes
<1>4. callback = TRUE /\ delivered = <<>> /\ fwk \in FwkCodes \cup {NoCode} /\ exec \in Codes
  BY <1>1, <1>3 DEF IInv, CallbackOK, TypeOK
<1>5. /\ timer' \in {"off", "armed", "fired"}
      /\ callback' \in BOOLEAN
      /\ delivered' \in Seq(Codes)
      /\ callback' <=> row.to # "END"
      /\ row.to # "END" => delivered' = <<>>
      /\ row.to = "END" => Len(delivered') = 1
  <2>1. CASE row.to = "END"
    <3>1. PICK c \in Codes : delivered' = Append(<<>>, c)
      BY <1>1, <1>4, <2>1 DEF OnScheduleFinished, Codes
    <3>4. delivered' \in Seq(Codes) /\ Len(delivered') = 1
      BY <3>1
    <3>2. callback' = FALSE /\ timer' \in {"off", "armed", "fired"}
      BY <1>1, <2>1 DEF OnScheduleFinished, TypeOK
    <3> QED
      BY <2>1, <3>2, <3>4
  <2>2. CASE row.to # "END"
    BY <1>1, <1>4, <2>2 DEF TypeOK
  <2> QED
    BY <2>1, <2>2
<1>6. TypeOK'
  BY <1>1, <1>3, <1>5 DEF TypeOK, config, nodes, counts
<1>7. HandlingOK' /\ CallbackOK'
  BY <1>1, <1>5 DEF HandlingOK, CallbackOK
<1> QED
  BY <1>6, <1>7, CompletePending, CompleteRunning DEF IInv

-------------------------------------------------------------------------------
(* The theorems.                                                           *)

LEMMA StepInv == IInv /\ [Next]_vars => IInv'
<1> SUFFICES ASSUME IInv, [Next]_vars PROVE IInv'
  OBVIOUS
<1>1. CASE UNCHANGED vars
  BY <1>1 DEF vars, config, machine, outcome, nodes, work, counts, IInv, TypeOK,
       HandlingOK, CallbackOK, ResultSeen, FailureSeen, RunningOK, Pending, Queued
<1>2. CASE Next
  BY <1>2, StartScheduleInv, StopScheduleInv, ContinueScheduleInv, TimeOutInv, PoolInv,
     DropEventInv, BeginInv, CompleteInv DEF Next, EventThread
<1> QED
  BY <1>1, <1>2

LEMMA Inductive == Spec => []IInv
BY InitInv, StepInv, PTL DEF Spec

\* The machine, its queue and its result codes keep their types.
THEOREM TypeCorrect == Spec => []TypeOK
<1>1. IInv => TypeOK
  BY DEF IInv
<1> QED
  BY <1>1, Inductive, PTL

\* OnScheduleFinished hands over exactly one result, exactly when the machine
\* enters S_END.
THEOREM ResultOnce == Spec => []ResultExactlyAtEnd
<1>1. ASSUME IInv PROVE ResultExactlyAtEnd
  <2>1. CASE state = "END"
    <3>1. Len(delivered) = 1 /\ Len(<<>>) = 0
      BY <1>1, <2>1 DEF IInv, CallbackOK
    <3>2. delivered # <<>>
      BY <3>1
    <3> QED
      BY <2>1, <3>1, <3>2 DEF ResultExactlyAtEnd
  <2>2. CASE state # "END"
    BY <1>1, <2>2 DEF IInv, CallbackOK, ResultExactlyAtEnd
  <2> QED
    BY <2>1, <2>2
<1> QED
  BY <1>1, Inductive, PTL

\* A schedule that ends without a result from its executors leaves no reachable
\* executor running: the stop path always goes through EndExecute.
THEOREM NoOrphans == Spec => []NothingLeftRunning
<1>1. IInv => NothingLeftRunning
  BY DEF IInv, RunningOK, NothingLeftRunning
<1> QED
  BY <1>1, Inductive, PTL

\* A schedule keeps the promise of OneShot: one answer, and never SUCCESS once
\* StopSchedule, the timer or a lost executor set the framework's result code.
THEOREM Refinement == Spec => KeepsPromise
<1>1. Init => Promise!Init
  BY DEF Init, Promise!Init
<1>2. IInv /\ [Next]_vars => [Promise!Next]_Promise!vars
  <2> SUFFICES ASSUME IInv, [Next]_vars PROVE [Promise!Next]_Promise!vars
    OBVIOUS
  <2> USE DEF Promise!vars, Promise!Next
  <2>1. CASE delivered' = delivered /\ (fwk' = fwk \/ fwk' # NoCode)
    <3>1. CASE (fwk' # NoCode) = (fwk # NoCode)
      BY <2>1, <3>1
    <3>2. CASE (fwk' # NoCode) # (fwk # NoCode)
      BY <2>1, <3>2 DEF Promise!GiveUp
    <3> QED
      BY <3>1, <3>2
  <2>2. CASE Complete /\ handling.row.to = "END"
    <3>1. handling.row \in Transitions /\ handling.row.from = state
      BY <2>2, IdleIsNoRow DEF IInv, HandlingOK, Complete
    <3>2. handling.row.handler = "nothing" /\ state # "END"
      BY <2>2, <3>1, RowTypes, RowShapes DEF Handlers
    <3>3. fwk' = fwk
      BY <2>2, <3>2 DEF Complete, ProcessBeginVerifier, ProcessBeginCollector,
           ProcessEndCollector, ProcessEndVerifier, ProcessNothing
    <3>4. /\ delivered = <<>> /\ callback = TRUE /\ OnScheduleFinished
          /\ fwk \in FwkCodes \cup {NoCode} /\ exec \in Codes
      BY <2>2, <3>2, CompleteTypes DEF IInv, CallbackOK, TypeOK
    <3>5. PICK c \in Codes : delivered' = Append(delivered, c) /\ (fwk # NoCode => c = fwk)
      BY <3>4 DEF OnScheduleFinished, Codes
    <3>6. fwk # "SUCCESS"
      BY <3>4 DEF FwkCodes, NoCode
    <3> QED
      BY <3>3, <3>4, <3>5, <3>6 DEF Promise!Answer
  <2>3. CASE Complete /\ handling.row.to # "END"
    <3>1. delivered' = delivered
      BY <2>3, CompleteTypes DEF IInv
    <3>2. fwk' = fwk \/ fwk' # NoCode
      BY <2>3 DEF Complete, ProcessBeginVerifier, ProcessBeginCollector,
           ProcessEndCollector, ProcessEndVerifier, ProcessNothing, Invalid, Refuse, NoCode
    <3> QED
      BY <2>1, <3>1, <3>2
  <2>4. CASE Next /\ ~Complete
    <3>1. delivered' = delivered /\ (fwk' = fwk \/ fwk' # NoCode)
      BY <2>4 DEF Next, EventThread, StartSchedule, StopSchedule, ContinueSchedule,
           TimeOut, ResourceNodePoolDelete, ResourceNodePoolUpdate, NodeReleased,
           DropEvent, Begin, Stop, outcome, NoCode
    <3> QED
      BY <2>1, <3>1
  <2>5. CASE UNCHANGED vars
    BY <2>5 DEF vars, outcome
  <2> QED
    BY <2>2, <2>3, <2>4, <2>5
<1> QED
  BY <1>1, <1>2, Inductive, PTL DEF Spec, KeepsPromise, Promise!Spec
===============================================================================
