--------------------------- MODULE ExecutorRegistry ---------------------------
(***************************************************************************)
(* How executors come to be known: the driver processes on one side, the   *)
(* framework's CoAuthService with its resource node pool in the middle and *)
(* the table of the authentication engine on the other side.               *)
(*                                                                         *)
(* The engine, the framework and every driver process may die and come     *)
(* back; they learn of one another by notices (status of the engine, death *)
(* recipients, the system parameter FWK_READY, removal of the framework)   *)
(* that take their time and cross.                                         *)
(***************************************************************************)
EXTENDS Integers, Sequences, FiniteSets

CONSTANTS
    Executors,         \* one driver process with one executor each
    MaxEngineCrashes,  \* bounds on the faults of a behaviour
    MaxFwkCrashes,
    MaxProcDeaths,
    MaxHdiLosses

ASSUME RegistryAssumption ==
  {MaxEngineCrashes, MaxFwkCrashes, MaxProcDeaths, MaxHdiLosses} \subseteq Nat

VARIABLES
    engine,    \* the engine: running, and the executors in its table
    status,    \* notices of the engine's status, not yet handled
    coauth,   \* flags of EngineStateManager and CoAuthService
    param,     \* the system parameter FWK_READY
    pool,      \* ResourceNodePoolImpl::resourceNodeMap_
    registering,      \* the ExecutorRegister between AddToEngine and Insert
    tasks,     \* what ProcExecutorRegisterSuccess posted to the event thread
    deaths,    \* death notices on their binder threads
    proc,      \* Driver and Executor in each driver process
    watch,     \* changes of FWK_READY on their way to each process
    nodes,     \* number of nodes made so far
    overtaken, \* a death notice came while its index was being registered again,
               \* or was on its way when the pool was emptied, or is of a process
               \* that had unregistered from a node kept for an earlier notice
    faults     \* faults so far, by kind

regVars == <<engine, status, coauth, param, pool, registering, tasks, deaths, proc, watch,
          nodes, overtaken, faults>>

NotRegistering == [ex |-> "none", gen |-> 0]
NoNode == [count |-> 0, node |-> 0, gen |-> 0, recipient |-> FALSE]
FaultKinds == {"engine", "fwk", "proc", "hdi"}

DeadProc(g) == [gen |-> g, up |-> FALSE, hdi |-> FALSE, fwk |-> FALSE, index |-> FALSE,
                timer |-> FALSE, doing |-> "idle", removed |-> FALSE]

NewService == [up |-> TRUE, running |-> FALSE, ready |-> FALSE, token |-> "no", doing |-> "none"]

\* The services are up and subscribed, the engine runs, no process has started.
RegInit ==
  /\ engine = [up |-> TRUE, table |-> {}]
  /\ status = <<TRUE>>
  /\ coauth = NewService
  /\ param = FALSE
  /\ pool = [e \in Executors |-> NoNode]
  /\ registering = NotRegistering
  /\ tasks = <<>>
  /\ deaths = {}
  /\ proc = [e \in Executors |-> DeadProc(0)]
  /\ watch = [e \in Executors |-> <<>>]
  /\ nodes = 0
  /\ overtaken = FALSE
  /\ faults = [k \in FaultKinds |-> 0]

Fault(k, max) == faults[k] < max /\ faults' = [faults EXCEPT ![k] = @ + 1]

\* Every process that is up sees the changes of the parameter in their order.
SetParam(values) ==
  /\ param' = IF values = <<>> THEN param ELSE values[Len(values)]
  /\ watch' = [e \in Executors |-> IF proc[e].up THEN watch[e] \o values ELSE watch[e]]

\* SystemParamManager::SetParam and SetParamTwice
ParamDown == IF param THEN <<FALSE>> ELSE <<>>
FwkReadyTwice == IF param THEN <<FALSE, TRUE>> ELSE <<TRUE>>

-------------------------------------------------------------------------------
(* The engine, and what EngineStateManager and CoAuthService make of it.   *)

EngineCrash ==
  /\ engine.up
  /\ Fault("engine", MaxEngineCrashes)
  /\ engine' = [up |-> FALSE, table |-> {}]
  /\ status' = IF coauth.up THEN Append(status, FALSE) ELSE status
  /\ UNCHANGED <<coauth, param, pool, registering, tasks, deaths, proc, watch, nodes, overtaken>>

EngineRestart ==
  /\ ~engine.up
  /\ engine' = [engine EXCEPT !.up = TRUE]
  /\ status' = IF coauth.up THEN Append(status, TRUE) ELSE status
  /\ UNCHANGED <<coauth, param, pool, registering, tasks, deaths, proc, watch, nodes, overtaken, faults>>

StateManagerOnEngineReady ==
  /\ coauth.up /\ coauth.doing = "none"
  /\ status # <<>> /\ Head(status)
  /\ status' = Tail(status)
  /\ coauth' = IF coauth.running THEN coauth
                ELSE [coauth EXCEPT !.running = TRUE, !.doing = "ready"]
  /\ UNCHANGED <<engine, param, pool, registering, tasks, deaths, proc, watch, nodes, overtaken, faults>>

StateManagerOnEngineUnavailable ==
  /\ coauth.up /\ coauth.doing = "none"
  /\ status # <<>> /\ ~Head(status)
  /\ status' = Tail(status)
  /\ IF coauth.running
     THEN /\ coauth' = [coauth EXCEPT !.running = FALSE, !.doing = "unavailable"]
          /\ SetParam(ParamDown)
     ELSE UNCHANGED <<coauth, param, watch>>
  /\ UNCHANGED <<engine, pool, registering, tasks, deaths, proc, nodes, overtaken, faults>>

\* Init of the engine fails when it is down again; without the access token
\* service the framework is not announced yet.
OnEngineReady ==
  /\ coauth.doing = "ready" /\ registering = NotRegistering
  /\ IF coauth.ready \/ ~engine.up
     THEN /\ coauth' = [coauth EXCEPT !.doing = "none"]
          /\ UNCHANGED <<param, watch>>
     ELSE /\ coauth' = [coauth EXCEPT !.doing = "none", !.ready = TRUE]
          /\ SetParam(IF coauth.token = "no" THEN <<>> ELSE FwkReadyTwice)
  /\ UNCHANGED <<engine, status, pool, registering, tasks, deaths, proc, nodes, overtaken, faults>>

\* A node in the engine leaves it once (ResourceNodeImpl::addedToEngine_).
DeleteFromEngine(gone) == engine' = [engine EXCEPT !.table = @ \ gone]

DeleteAll ==
  /\ pool' = [e \in Executors |-> NoNode]
  /\ DeleteFromEngine({e \in Executors : pool[e].count > 0})

OnEngineUnavailable ==
  /\ coauth.doing = "unavailable" /\ registering = NotRegistering
  /\ IF coauth.ready
     THEN DeleteAll /\ coauth' = [coauth EXCEPT !.doing = "none", !.ready = FALSE]
     ELSE UNCHANGED <<pool, engine>> /\ coauth' = [coauth EXCEPT !.doing = "none"]
  /\ overtaken' = (overtaken \/ (coauth.ready /\ deaths # {}))
  /\ UNCHANGED <<status, param, registering, tasks, deaths, proc, watch, nodes, faults>>

\* The listener of the access token service: it sets the flag, then checks, then
\* announces, and holds the mutex only for the first two.
SetAccessTokenReady ==
  /\ coauth.up /\ coauth.token = "no" /\ registering = NotRegistering
  /\ coauth' = [coauth EXCEPT !.token = "set"]
  /\ UNCHANGED <<engine, status, param, pool, registering, tasks, deaths, proc, watch, nodes, overtaken, faults>>

IsFwkReady == coauth.ready /\ coauth.token # "no"

NotifyFwkReady ==
  /\ coauth.token = "set" /\ registering = NotRegistering
  /\ coauth' = [coauth EXCEPT !.token = IF IsFwkReady THEN "checked" ELSE "yes"]
  /\ UNCHANGED <<engine, status, param, pool, registering, tasks, deaths, proc, watch, nodes, overtaken, faults>>

OnFwkReady ==
  /\ coauth.token = "checked"
  /\ coauth' = [coauth EXCEPT !.token = "yes"]
  /\ SetParam(FwkReadyTwice)
  /\ UNCHANGED <<engine, status, pool, registering, tasks, deaths, proc, nodes, overtaken, faults>>

-------------------------------------------------------------------------------
(* Registration in CoAuthService.                                          *)

\* CoAuthClientImpl reaches the service.
ExecutorGetProxy == coauth.up

\* MakeNewResource: the engine gives a registered executor the index it had before.
AddToEngine(e) == engine' = [engine EXCEPT !.table = @ \cup {e}]

\* The node is in the engine before it is in the pool; the mutex of the service
\* is held until it is there, the mutex of the pool is not.
ExecutorRegister(e) ==
  /\ proc[e].up /\ proc[e].doing = "register"
  /\ registering = NotRegistering
  /\ IF ExecutorGetProxy /\ IsFwkReady /\ engine.up
     THEN /\ AddToEngine(e)
          /\ registering' = [ex |-> e, gen |-> proc[e].gen]
          /\ proc' = [proc EXCEPT ![e].doing = "calling"]
     ELSE /\ proc' = [proc EXCEPT ![e].doing = "idle"]
          /\ UNCHANGED <<engine, registering>>
  /\ UNCHANGED <<status, coauth, param, pool, tasks, deaths, watch, nodes, overtaken, faults>>

\* What Insert leaves of the engine and of the count when a node is already there.
Inserted(table, count) ==
  LET e == registering.ex IN
  /\ registering # NotRegistering
  /\ engine' = [engine EXCEPT !.table = table]
  /\ pool' = [pool EXCEPT ![e] = [count |-> count, node |-> nodes + 1,
                                  gen |-> registering.gen, recipient |-> FALSE]]
  /\ nodes' = nodes + 1
  /\ tasks' = Append(tasks, [ex |-> e, node |-> nodes + 1, gen |-> registering.gen])
  /\ registering' = NotRegistering
  /\ proc' = IF proc[e].up /\ proc[e].gen = registering.gen
             THEN [proc EXCEPT ![e].doing = "idle", ![e].index = TRUE] ELSE proc
  /\ UNCHANGED <<status, coauth, param, deaths, watch, overtaken, faults>>

\* The destructor of a replaced node that was not detached.
InsertNotDetached ==
  registering # NotRegistering /\ Inserted(IF pool[registering.ex].count > 0 THEN engine.table \ {registering.ex} ELSE engine.table,
                            pool[registering.ex].count + 1)

InsertCountsOne == registering # NotRegistering /\ Inserted(engine.table, 1)

\* A node that is replaced is detached first, so that its destructor leaves the
\* engine's entry, which is the successor's now, alone.
Insert == registering # NotRegistering /\ Inserted(engine.table, pool[registering.ex].count + 1)

\* The posted task gives the messenger and sets the death recipient.  A node that
\* has left the pool is gone; on a process that has died the recipient stays silent.
RegisterTask ==
  LET t == Head(tasks) IN
  /\ tasks # <<>>
  /\ tasks' = Tail(tasks)
  /\ pool' = IF pool[t.ex].count > 0 /\ pool[t.ex].node = t.node
             THEN [pool EXCEPT ![t.ex].recipient = proc[t.ex].up /\ proc[t.ex].gen = t.gen]
             ELSE pool
  /\ UNCHANGED <<engine, status, coauth, param, registering, deaths, proc, watch, nodes, overtaken, faults>>

\* Only the last of the registrations of an index takes the node out.
Delete(e) ==
  IF pool[e].count > 1
  THEN pool' = [pool EXCEPT ![e].count = @ - 1] /\ UNCHANGED engine
  ELSE /\ pool' = [pool EXCEPT ![e] = NoNode]
       /\ DeleteFromEngine(IF pool[e].count = 1 THEN {e} ELSE {})

ExecutorUnregister(e) ==
  /\ proc[e].up /\ proc[e].doing \in {"unregister", "renew"}
  /\ registering = NotRegistering
  /\ proc' = [proc EXCEPT ![e].doing = IF @ = "renew" THEN "register" ELSE "idle",
                          ![e].index = FALSE]
  /\ IF ExecutorGetProxy /\ IsFwkReady THEN Delete(e) ELSE UNCHANGED <<pool, engine>>
  /\ UNCHANGED <<status, coauth, param, registering, tasks, deaths, watch, nodes, overtaken, faults>>

\* The death recipient knows its index and not its node.
ExecutorDied(d) ==
  /\ d \in deaths
  /\ deaths' = deaths \ {d}
  /\ Delete(d.ex)
  /\ overtaken' = (overtaken \/ registering.ex = d.ex)
  /\ UNCHANGED <<status, coauth, param, registering, tasks, proc, watch, nodes, faults>>

-------------------------------------------------------------------------------
(* The driver process.  Driver::mutex_ is held throughout a handler, calls  *)
(* into the framework included.                                            *)

Free(e) == proc[e].up /\ proc[e].doing = "idle"

RegisterExecutors(p) == IF p.index THEN "renew" ELSE "register"

OnFrameworkReady(p) ==
  [p EXCEPT !.timer = FALSE, !.fwk = TRUE,
            !.doing = IF ~p.fwk /\ p.hdi THEN RegisterExecutors(p) ELSE @]

OnFrameworkDownKept(p) == [p EXCEPT !.timer = FALSE]

OnFrameworkDown(p) == [p EXCEPT !.timer = FALSE, !.fwk = FALSE]

ParameterWatcher(e) ==
  /\ Free(e) /\ watch[e] # <<>>
  /\ watch' = [watch EXCEPT ![e] = Tail(@)]
  /\ proc' = [proc EXCEPT ![e] = IF Head(watch[e]) THEN OnFrameworkReady(@) ELSE OnFrameworkDown(@)]
  /\ UNCHANGED <<engine, status, coauth, param, pool, registering, tasks, deaths, nodes, overtaken, faults>>

AuthExecutorMgrRemoved(e) ==
  /\ Free(e) /\ proc[e].removed
  /\ proc' = [proc EXCEPT ![e] = [OnFrameworkDown(@) EXCEPT !.removed = FALSE]]
  /\ UNCHANGED <<engine, status, coauth, param, pool, registering, tasks, deaths, watch, nodes, overtaken, faults>>

\* The timer of EnsureRegisterExecutors goes off again and again; while the
\* parameter is FALSE it does nothing.
CheckFwkReadyTimer(e) ==
  /\ Free(e) /\ proc[e].timer /\ param
  /\ proc' = [proc EXCEPT ![e] = OnFrameworkReady(@)]
  /\ UNCHANGED <<engine, status, coauth, param, pool, registering, tasks, deaths, watch, nodes, overtaken, faults>>

OnHdiConnect(e) ==
  /\ Free(e) /\ ~proc[e].hdi
  /\ proc' = [proc EXCEPT ![e].hdi = TRUE,
                          ![e].doing = IF proc[e].fwk THEN "register" ELSE "idle",
                          ![e].timer = @ \/ ~proc[e].fwk]
  /\ UNCHANGED <<engine, status, coauth, param, pool, registering, tasks, deaths, watch, nodes, overtaken, faults>>

DriverOnHdiDisconnect(e) ==
  /\ Free(e) /\ proc[e].hdi
  /\ Fault("hdi", MaxHdiLosses)
  /\ proc' = [proc EXCEPT ![e].hdi = FALSE,
                          ![e].doing = IF proc[e].index THEN "unregister" ELSE "idle"]
  /\ UNCHANGED <<engine, status, coauth, param, pool, registering, tasks, deaths, watch, nodes, overtaken>>

\* DeviceManagerListener passes on that the HDI service came or went.
HdiServiceStatus(e) == OnHdiConnect(e) \/ DriverOnHdiDisconnect(e)

\* Driver::Init watches the parameter and then reads it.
DriverInit(e) ==
  /\ ~proc[e].up
  /\ proc' = [proc EXCEPT ![e] = [DeadProc(@.gen + 1) EXCEPT !.up = TRUE, !.fwk = param]]
  /\ UNCHANGED <<engine, status, coauth, param, pool, registering, tasks, deaths, watch, nodes, overtaken, faults>>

\* The recipient belongs to the node: it tells of the death also when the process
\* has given its registration back and only the count has kept the node.
ProcDies(e) ==
  LET notices == IF pool[e].gen = proc[e].gen /\ pool[e].recipient
                 THEN {[ex |-> e, node |-> pool[e].node]} ELSE {}
  IN
  /\ proc[e].up
  /\ Fault("proc", MaxProcDeaths)
  /\ proc' = [proc EXCEPT ![e] = DeadProc(@.gen)]
  /\ watch' = [watch EXCEPT ![e] = <<>>]
  /\ deaths' = deaths \cup notices
  /\ overtaken' = (overtaken \/ (notices # {} /\ ~proc[e].index /\ proc[e].doing # "calling"))
  /\ UNCHANGED <<engine, status, coauth, param, pool, registering, tasks, nodes>>

-------------------------------------------------------------------------------
(* The framework's process.                                                *)

FwkCrash ==
  /\ coauth.up
  /\ Fault("fwk", MaxFwkCrashes)
  /\ coauth' = [NewService EXCEPT !.up = FALSE]
  /\ pool' = [e \in Executors |-> NoNode]
  /\ status' = <<>> /\ registering' = NotRegistering /\ tasks' = <<>> /\ deaths' = {}
  /\ proc' = [e \in Executors |->
       [proc[e] EXCEPT !.removed = proc[e].up,
                       !.doing = IF @ = "calling" THEN "idle" ELSE @]]
  /\ UNCHANGED <<engine, param, watch, nodes, overtaken>>

\* Subscribing to the status of a running engine brings a notice.
FwkRestart ==
  /\ ~coauth.up
  /\ coauth' = NewService
  /\ status' = IF engine.up THEN <<TRUE>> ELSE <<>>
  /\ UNCHANGED <<engine, param, pool, registering, tasks, deaths, proc, watch, nodes, overtaken, faults>>

-------------------------------------------------------------------------------
ServiceStep ==
  \/ StateManagerOnEngineReady \/ StateManagerOnEngineUnavailable
  \/ OnEngineReady \/ OnEngineUnavailable
  \/ SetAccessTokenReady \/ NotifyFwkReady \/ OnFwkReady
  \/ Insert \/ RegisterTask
  \/ \E d \in deaths : ExecutorDied(d)

DriverStep(e) ==
  \/ ExecutorRegister(e) \/ ExecutorUnregister(e)
  \/ ParameterWatcher(e) \/ AuthExecutorMgrRemoved(e) \/ CheckFwkReadyTimer(e)

RegNext ==
  \/ EngineCrash \/ EngineRestart
  \/ FwkCrash \/ FwkRestart
  \/ ServiceStep
  \/ \E e \in Executors :
       \/ DriverStep(e)
       \/ HdiServiceStatus(e)
       \/ DriverInit(e) \/ ProcDies(e)

\* Everybody is up and registered, and no fault is left to happen.
RegQuiet ==
  /\ engine = [up |-> TRUE, table |-> Executors]
  /\ coauth = [up |-> TRUE, running |-> TRUE, ready |-> TRUE, token |-> "yes", doing |-> "none"]
  /\ param = TRUE /\ status = <<>> /\ registering = NotRegistering /\ tasks = <<>> /\ deaths = {}
  /\ pool = [e \in Executors |-> [count |-> 1, node |-> 1, gen |-> 1, recipient |-> TRUE]]
  /\ proc = [e \in Executors |-> [DeadProc(1) EXCEPT !.up = TRUE, !.hdi = TRUE, !.fwk = TRUE, !.index = TRUE]]
  /\ watch = [e \in Executors |-> <<>>] /\ nodes = 1 /\ overtaken = FALSE
  /\ faults = [engine |-> MaxEngineCrashes, fwk |-> MaxFwkCrashes, proc |-> MaxProcDeaths, hdi |-> MaxHdiLosses]

RegSpec == RegInit /\ [][RegNext]_regVars

\* Threads run on and notices arrive.  The engine, the framework, the processes and
\* their HDI services come back, as init restarts them.
RegFairness ==
  /\ WF_regVars(EngineRestart) /\ WF_regVars(FwkRestart)
  /\ WF_regVars(StateManagerOnEngineReady \/ StateManagerOnEngineUnavailable
             \/ OnEngineReady \/ OnEngineUnavailable)
  /\ WF_regVars(SetAccessTokenReady \/ NotifyFwkReady \/ OnFwkReady)
  /\ WF_regVars(Insert) /\ WF_regVars(RegisterTask)
  /\ WF_regVars(\E d \in deaths : ExecutorDied(d))
  /\ \A e \in Executors :
       /\ WF_regVars(ExecutorRegister(e) \/ ExecutorUnregister(e))
       /\ WF_regVars(ParameterWatcher(e)) /\ WF_regVars(AuthExecutorMgrRemoved(e))
       /\ WF_regVars(CheckFwkReadyTimer(e))
       /\ WF_regVars(OnHdiConnect(e)) /\ WF_regVars(DriverInit(e))

-------------------------------------------------------------------------------
(* Properties.                                                             *)

EngineSettled == engine.up /\ status = <<>> /\ coauth.up /\ coauth.doing = "none"

\* A node of the pool is known to the engine, so that a schedule the engine makes can
\* be run: replacing a node, unregistering and an engine restart never leave a node
\* that the engine has forgotten, unless a death notice was overtaken (ResourceNodePoolImpl::Insert, Delete, DeleteAll).
PoolKnownToEngine ==
  EngineSettled /\ ~overtaken =>
    \A e \in Executors : pool[e].count > 0 => e \in engine.table

\* The count of a node covers the deaths that are still to be processed and the
\* registration of the living process: the death of a replaced instance takes its own
\* share and leaves its successor registered (count in ResourceNodePoolImpl).
SuccessorKept ==
  ~overtaken =>
    \A e \in Executors :
      pool[e].count > 0 /\ proc[e].up /\ proc[e].index /\ pool[e].gen = proc[e].gen =>
        pool[e].count > Cardinality({d \in deaths : d.ex = e /\ d.node # pool[e].node})

\* When the faults are over every executor whose HDI service is there is in the pool
\* with its present process and in the engine: no crossing of FWK_READY, of the
\* removal notice, of the retry timer and of engine restarts leaves it out
\* (Driver::OnHdiConnect, OnFrameworkReady, OnFrameworkDown).
EventuallyRegistered ==
  <>[](overtaken \/ \A e \in Executors :
         proc[e].up /\ proc[e].hdi =>
           pool[e].count > 0 /\ pool[e].gen = proc[e].gen /\ e \in engine.table)
===============================================================================
