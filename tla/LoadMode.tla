------------------------------- MODULE LoadMode -------------------------------
(***************************************************************************)
(* The dynamic load mode: when the useriam process and its engine run.      *)
(*                                                                         *)
(* Three system abilities live in the process.  They start when the         *)
(* parameter useriam.startSaInner becomes true and stop when                *)
(* useriam.stopSa becomes true; init's jobs (useriam.cfg) write those       *)
(* parameters when others change, and the process writes the others:        *)
(* LoadModeHandlerDynamic from the credentials and the PIN function,        *)
(* ServiceUnloadManager from its ten-minute timer.  EngineLoadManager       *)
(* loads and unloads the engine's driver to match.                          *)
(*                                                                         *)
(* Every manager acts on a copy of the parameters that it learns of late,   *)
(* by notices of the parameter service, so that the process, init, the      *)
(* ability manager and the driver manager all act on old pictures of each   *)
(* other.                                                                   *)
(***************************************************************************)
EXTENDS Naturals, Sequences, FiniteSets, SequencesExt

CONSTANT MaxEvents  \* starts on demand, changes of the PIN, crashes of the engine or of
                    \* the PIN service, failed loads and queries: this many in all

ASSUME LoadModeBound == MaxEvents \in Nat

VARIABLES
  sys,    \* the parameters, their pending notices, init's jobs and the orders
  svc,    \* ServiceInitManager, LoadModeHandlerDynamic and the process itself
  um,     \* ServiceUnloadManager
  em,     \* EngineLoadManager
  esm,    \* EngineStateManager: [sub, known]
  driver, \* the driver: [up, status], status the notices under way
  pin,    \* the PIN service of another process, and its executor
  cred,   \* some user has a PIN credential
  event,  \* a USER_CREDENTIAL_UPDATED_EVENT is under way
  left,   \* what the environment may still do
  lost    \* a fault happened that no timer of the code repairs

loadVars == <<sys, svc, um, em, esm, driver, pin, cred, event, left, lost>>

\* The three abilities do the same when they start and stop: they are counted.
Services == 3
Keys == {"enrolled", "checked", "pinReady", "startSa", "startInner", "stopSa", "fwk"}

-------------------------------------------------------------------------------
(* Parameters.  Only a change has an effect: it is why SetParamTwice exists. *)

\* The jobs of useriam.cfg whose condition holds and names the parameter.
Triggered(p, k) ==
  (IF k \in {"enrolled", "pinReady"} /\ p.enrolled /\ ~p.pinReady THEN <<"start">> ELSE <<>>)
  \o (IF k = "startSa" /\ p.startSa THEN <<"start">> ELSE <<>>)
  \o (IF k = "stopSa" /\ p.stopSa THEN <<"stop">> ELSE <<>>)

Orders(p, k) ==
  (IF k = "startInner" /\ p.startInner THEN <<"start">> ELSE <<>>)
  \o (IF k = "stopSa" /\ p.stopSa THEN <<"stop">> ELSE <<>>)

Watched == {"enrolled", "startSa", "checked", "stopSa"}

SetSysParam(s, w) ==
  LET p == [s.par EXCEPT ![w[1]] = w[2]]
  IN  IF s.par[w[1]] = w[2] THEN s
      ELSE [s EXCEPT !.par = p,
                     !.jobs = @ \o Triggered(p, w[1]),
                     !.orders = @ \o Orders(p, w[1]),
                     !.watch = IF w[1] \in Watched /\ svc.subscribed THEN Append(@, w) ELSE @]

Set(writes) == FoldLeft(SetSysParam, sys, writes)

SetParamTwice(k) == <<<<k, FALSE>>, <<k, TRUE>>>>

\* init and the ability manager have nothing left to do.
SystemIdle == sys.jobs = <<>> /\ sys.orders = <<>> /\ svc.wanted = 0 /\ ~svc.stopping

-------------------------------------------------------------------------------
(* The engine's driver and EngineLoadManager.                               *)

Driver(up) ==
  IF driver.up = up THEN driver
  ELSE [up |-> up, status |-> IF esm.sub THEN Append(driver.status, up) ELSE driver.status]

\* The engine dies while nobody listens to its status.
Unnoticed == driver.up /\ svc.alive /\ ~esm.sub

\* Mutant: a failed Load or Unload is not tried again.
ProcessServiceStatusNoRetry(m) ==
  LET should == ~m.stopping
      act == m.running # should
  IN  \/ /\ act /\ left > 0
         /\ left' = left - 1
         /\ em' = [m EXCEPT !.timer = FALSE]
         /\ UNCHANGED driver
      \/ /\ em' = [m EXCEPT !.running = should, !.timer = FALSE]
         /\ driver' = IF act THEN Driver(should) ELSE driver
         /\ UNCHANGED left

\* ProcessServiceStatus from the state m.  Load or Unload is tried when the
\* engine is not as it should be, and the retry timer runs while it is not.
ProcessServiceStatus(m) ==
  LET should == ~m.stopping
      act == m.running # should
  IN  \/ /\ act /\ left > 0
         /\ left' = left - 1
         /\ em' = [m EXCEPT !.timer = TRUE]
         /\ UNCHANGED driver
      \/ /\ em' = [m EXCEPT !.running = should, !.timer = FALSE]
         /\ driver' = IF act THEN Driver(should) ELSE driver
         /\ UNCHANGED left

EngineTimeout ==
  /\ svc.alive /\ em.timer
  /\ ProcessServiceStatus([em EXCEPT !.timer = FALSE])
  /\ UNCHANGED <<sys, svc, um, esm, pin, cred, event, lost>>

\* The status listener hears of it only once it is registered.
DriverCrash ==
  /\ driver.up /\ left > 0
  /\ left' = left - 1
  /\ driver' = Driver(FALSE)
  /\ lost' = (lost \/ Unnoticed)
  /\ UNCHANGED <<sys, svc, um, em, esm, pin, cred, event>>

-------------------------------------------------------------------------------
(* EngineStateManager: the notices of the driver, in order, and its         *)
(* callbacks in the order of their registration.                            *)

\* Loading a driver takes longer than what init, the ability manager and the
\* notices of the parameters need.
LoadOnEngineReady ==
  /\ svc.alive /\ svc.fwk = "none" /\ driver.status # <<>> /\ Head(driver.status)
  /\ SystemIdle /\ sys.watch = <<>>
  /\ IF esm.known = "up"
     THEN /\ driver' = [driver EXCEPT !.status = Tail(@)]
          /\ UNCHANGED <<svc, em, esm, left>>
     ELSE /\ esm' = [esm EXCEPT !.known = "up"]
          /\ svc' = [svc EXCEPT !.ready = TRUE, !.fwk = IF svc.ready THEN "none" ELSE "refresh"]
          /\ LET m == [em EXCEPT !.running = TRUE]
                 rest == Tail(driver.status)
             IN \* ProcessServiceStatus; a ready engine may have to be unloaded
                \/ /\ ~m.stopping
                   /\ em' = [m EXCEPT !.timer = FALSE]
                   /\ driver' = [driver EXCEPT !.status = rest]
                   /\ UNCHANGED left
                \/ /\ m.stopping
                   /\ em' = [m EXCEPT !.running = FALSE, !.timer = FALSE]
                   /\ driver' = [up |-> FALSE, status |-> IF driver.up THEN Append(rest, FALSE) ELSE rest]
                   /\ UNCHANGED left
  /\ UNCHANGED <<sys, um, pin, cred, event, lost>>

LoadOnEngineUnavailable ==
  /\ svc.alive /\ svc.fwk = "none" /\ driver.status # <<>> /\ ~Head(driver.status)
  /\ IF esm.known # "up"
     THEN /\ driver' = [driver EXCEPT !.status = Tail(@)]
          /\ UNCHANGED <<sys, svc, em, esm, left, pin>>
     ELSE /\ esm' = [esm EXCEPT !.known = "down"]
          /\ sys' = Set(<<<<"fwk", FALSE>>, <<"pinReady", FALSE>>>>)
          /\ svc' = [svc EXCEPT !.ready = FALSE]
          /\ pin' = [pin EXCEPT !.reg = FALSE]
          /\ LET m == [em EXCEPT !.running = FALSE]
                 rest == Tail(driver.status)
             IN \/ /\ m.stopping
                   /\ em' = [m EXCEPT !.timer = FALSE]
                   /\ driver' = [driver EXCEPT !.status = rest]
                   /\ UNCHANGED left
                \/ /\ ~m.stopping /\ left > 0
                   /\ em' = [m EXCEPT !.timer = TRUE]
                   /\ driver' = [driver EXCEPT !.status = rest]
                   /\ left' = left - 1
                \/ /\ ~m.stopping
                   /\ em' = [m EXCEPT !.running = TRUE, !.timer = FALSE]
                   /\ driver' = [up |-> TRUE, status |-> IF driver.up THEN rest ELSE Append(rest, TRUE)]
                   /\ UNCHANGED left
  /\ UNCHANGED <<um, cred, event, lost>>

-------------------------------------------------------------------------------
(* LoadModeHandlerDynamic.                                                  *)

PinFunctionReady(exec, ready) == <<<<"pinReady", exec /\ ready>>>>

\* AnyUserHasPinCredential: no answer if the accounts or the engine give none.
Enrolled(answer) == IF answer THEN <<<<"enrolled", cred>>>> ELSE <<>>

Query(answer) ==
  \/ answer /\ driver.up /\ UNCHANGED left
  \/ ~answer /\ ~driver.up /\ UNCHANGED left
  \/ ~answer /\ driver.up /\ left > 0 /\ left' = left - 1

OnCredentialUpdated ==
  /\ svc.alive /\ event
  /\ event' = FALSE
  /\ \E answer \in BOOLEAN : Query(answer) /\ sys' = Set(Enrolled(answer))
  /\ UNCHANGED <<svc, um, em, esm, driver, pin, cred, lost>>

LoadOnFwkReady ==
  /\ svc.alive /\ svc.fwk = "refresh"
  /\ \E answer \in BOOLEAN :
       Query(answer) /\ sys' = Set(Enrolled(answer) \o <<<<"checked", TRUE>>>>)
  /\ svc' = [svc EXCEPT !.fwk = "decide"]
  /\ UNCHANGED <<um, em, esm, driver, pin, cred, event, lost>>

\* ServiceUnloadManager::OnFwkReady and the end of the handler's
OnFwkReadyDecides ==
  /\ svc.alive /\ svc.fwk = "decide"
  /\ um' = [um EXCEPT !.enrolled = sys.par.enrolled]
  /\ sys' = Set(SetParamTwice(IF sys.par.enrolled \/ um.timer THEN "fwk" ELSE "stopSa"))
  /\ svc' = [svc EXCEPT !.fwk = "none"]
  /\ UNCHANGED <<em, esm, driver, pin, cred, event, left, lost>>

OnExecutorRegistered ==
  /\ svc.alive /\ svc.ready /\ svc.fwk = "none" /\ pin.up /\ sys.par.fwk /\ ~pin.reg
  /\ pin' = [pin EXCEPT !.reg = TRUE]
  /\ svc' = [svc EXCEPT !.exec = TRUE]
  /\ sys' = Set(PinFunctionReady(TRUE, svc.pin))
  /\ UNCHANGED <<um, em, esm, driver, cred, event, left, lost>>

\* The death recipient of the executor: nothing once the pool was cleared.
OnExecutorUnregistered ==
  /\ svc.alive /\ pin.died
  /\ pin' = [pin EXCEPT !.died = FALSE, !.reg = FALSE]
  /\ IF pin.reg
     THEN svc' = [svc EXCEPT !.exec = FALSE] /\ sys' = Set(PinFunctionReady(FALSE, svc.pin))
     ELSE UNCHANGED <<svc, sys>>
  /\ UNCHANGED <<um, em, esm, driver, cred, event, left, lost>>

OnPinAuthServiceReady ==
  /\ svc.alive /\ pin.notices # <<>> /\ Head(pin.notices)
  /\ pin' = [pin EXCEPT !.notices = Tail(@)]
  /\ svc' = [svc EXCEPT !.pin = TRUE]
  /\ sys' = Set(PinFunctionReady(svc.exec, TRUE))
  /\ UNCHANGED <<um, em, esm, driver, cred, event, left, lost>>

OnPinAuthServiceStop ==
  /\ svc.alive /\ pin.notices # <<>> /\ ~Head(pin.notices)
  /\ pin' = [pin EXCEPT !.notices = Tail(@)]
  /\ svc' = [svc EXCEPT !.pin = FALSE]
  /\ sys' = Set(PinFunctionReady(svc.exec, FALSE)
                \o (IF sys.par.enrolled \/ sys.par.stopSa THEN <<>> ELSE SetParamTwice("stopSa")))
  /\ UNCHANGED <<um, em, esm, driver, cred, event, left, lost>>

\* The check-service timer: five seconds later an ability has not started.
TriggerAllServiceStart ==
  /\ svc.alive /\ svc.check /\ SystemIdle
  /\ svc' = [svc EXCEPT !.check = FALSE]
  /\ sys' = IF sys.par.stopSa THEN sys ELSE Set(SetParamTwice("startInner"))
  /\ UNCHANGED <<um, em, esm, driver, pin, cred, event, left, lost>>

-------------------------------------------------------------------------------
(* ServiceUnloadManager, and the notices that it and EngineLoadManager get.  *)

\* Mutant: the deletion of the last PIN does not start the timer.
OnIsPinEnrolledChangeNoTimer(m, v) ==
  IF m.enrolled = v THEN m ELSE [m EXCEPT !.enrolled = v, !.timer = FALSE]

\* OnIsPinEnrolledChange, OnStartSaChange and OnCredentialCheckedChange
OnIsPinEnrolledChange(m, v) ==
  IF m.enrolled = v THEN m
  ELSE [m EXCEPT !.enrolled = v, !.timer = IF v THEN FALSE ELSE @ \/ m.checked]

OnStartSaChange(m, v) == [m EXCEPT !.startSa = v, !.timer = @ \/ (v /\ ~m.startSa)]

OnCredentialCheckedChange(m, v) == [m EXCEPT !.checked = v]

\* Ten minutes are longer than a start: the timer races with a change of the
\* PIN and with the notices of it, not with the start of the service
\* or of the PIN service.
UnloadTimeout ==
  /\ svc.alive /\ um.timer /\ SystemIdle
  /\ driver.status = <<>> /\ pin.up /\ pin.notices = <<>> /\ svc.fwk = "none"
  /\ um' = [um EXCEPT !.timer = FALSE]
  /\ sys' = IF um.enrolled THEN sys ELSE Set(SetParamTwice("stopSa"))
  /\ UNCHANGED <<svc, em, esm, driver, pin, cred, event, left, lost>>

OnParamChange ==
  /\ svc.alive /\ sys.watch # <<>>
  /\ sys' = [sys EXCEPT !.watch = Tail(@)]
  /\ LET k == Head(sys.watch)[1]
         v == Head(sys.watch)[2]
     IN \/ /\ k = "stopSa"
           /\ ProcessServiceStatus([em EXCEPT !.stopping = v])
           /\ UNCHANGED um
        \/ /\ k # "stopSa"
           /\ um' = CASE k = "enrolled" -> OnIsPinEnrolledChange(um, v)
                      [] k = "startSa"  -> OnStartSaChange(um, v)
                      [] k = "checked"  -> OnCredentialCheckedChange(um, v)
           /\ UNCHANGED <<em, driver, left>>
  /\ UNCHANGED <<svc, esm, pin, cred, event, lost>>

-------------------------------------------------------------------------------
(* The process: ServiceInitManager.                                         *)

NoUnloadManager == [enrolled |-> FALSE, startSa |-> FALSE, checked |-> FALSE, timer |-> FALSE]
NoLoadManager == [running |-> FALSE, stopping |-> FALSE, timer |-> FALSE]
NoProcess == [alive |-> FALSE, up |-> 0, wanted |-> 0, stopping |-> FALSE, subscribed |-> FALSE,
              check |-> FALSE, ready |-> FALSE, fwk |-> "none", exec |-> FALSE, pin |-> FALSE]

\* ServiceUnloadManager::StartSubscribe: it watches, then reads.
UnloadSubscribe ==
  OnCredentialCheckedChange(
    OnStartSaChange(OnIsPinEnrolledChange(NoUnloadManager, sys.par.enrolled), sys.par.startSa),
    sys.par.checked)

\* CheckAllServiceStart.  The first ability subscribes; the last one
\* cancels the check timer and starts to listen to the engine.
OnServiceStart ==
  /\ svc.wanted > 0
  /\ LET up == svc.up + 1
         all == up = Services
         first == ~svc.subscribed
     IN /\ svc' = [svc EXCEPT !.alive = TRUE, !.up = up, !.wanted = @ - 1, !.subscribed = TRUE,
                              !.check = ~all, !.pin = IF first THEN FALSE ELSE @]
        /\ pin' = IF first THEN [pin EXCEPT !.notices = IF pin.up THEN <<TRUE>> ELSE <<>>] ELSE pin
        /\ IF first
           THEN /\ um' = UnloadSubscribe
                /\ ProcessServiceStatus([NoLoadManager EXCEPT !.stopping = sys.par.stopSa])
                /\ UNCHANGED esm
           ELSE /\ esm' = IF all THEN [esm EXCEPT !.sub = TRUE] ELSE esm
                /\ driver' = IF all /\ ~esm.sub
                             THEN [driver EXCEPT !.status = <<driver.up>>] ELSE driver
                /\ UNCHANGED <<um, em, left>>
  /\ UNCHANGED <<sys, cred, event, lost>>

\* An ability that cannot be loaded: the check timer asks for it once more.
ServiceStartFails ==
  /\ svc.alive /\ svc.wanted > 0 /\ left > 0
  /\ svc' = [svc EXCEPT !.wanted = @ - 1]
  /\ left' = left - 1
  /\ lost' = (lost \/ ~svc.check)
  /\ UNCHANGED <<sys, um, em, esm, driver, pin, cred, event>>

OnServiceStop ==
  /\ svc.stopping /\ svc.up > 0
  /\ svc' = [svc EXCEPT !.up = @ - 1]
  /\ UNCHANGED <<sys, um, em, esm, driver, pin, cred, event, left, lost>>

\* The process ends after its last ability; what it had not handled is lost.
ProcessExits ==
  /\ svc.stopping /\ svc.up = 0
  /\ svc' = NoProcess
  /\ um' = NoUnloadManager /\ em' = NoLoadManager
  /\ esm' = [sub |-> FALSE, known |-> "unknown"]
  /\ sys' = [sys EXCEPT !.watch = <<>>]
  /\ driver' = [driver EXCEPT !.status = <<>>]
  /\ pin' = [pin EXCEPT !.notices = <<>>, !.reg = FALSE, !.died = FALSE]
  /\ event' = FALSE /\ lost' = FALSE
  /\ UNCHANGED <<cred, left>>

-------------------------------------------------------------------------------
(* init and the ability manager.                                            *)

StartSaJob ==
  /\ sys.jobs # <<>> /\ Head(sys.jobs) = "start"
  /\ sys' = [Set(SetParamTwice("startInner") \o <<<<"stopSa", FALSE>>>>) EXCEPT !.jobs = Tail(@)]
  /\ UNCHANGED <<svc, um, em, esm, driver, pin, cred, event, left, lost>>

\* The last command of the job stops the engine's host.
StopSaJob ==
  /\ sys.jobs # <<>> /\ Head(sys.jobs) = "stop"
  /\ sys' = [Set(<<<<"startSa", FALSE>>, <<"startInner", FALSE>>, <<"pinReady", FALSE>>, <<"fwk", FALSE>>>>)
               EXCEPT !.jobs = Tail(@)]
  /\ driver' = Driver(FALSE)
  /\ lost' = (lost \/ Unnoticed)
  /\ UNCHANGED <<svc, um, em, esm, pin, cred, event, left>>

\* External: the ability manager takes the orders in turn, a start only when
\* the process has ended, and takes longer to load or unload an ability than
\* init for the few writes of a job.  The PIN service obeys the same orders.
AbilityManagerStarts ==
  /\ sys.orders # <<>> /\ Head(sys.orders) = "start" /\ sys.jobs = <<>> /\ ~svc.stopping
  /\ sys' = [sys EXCEPT !.orders = Tail(@)]
  /\ svc' = [svc EXCEPT !.wanted = Services - svc.up]
  /\ pin' = [pin EXCEPT !.wanted = TRUE]
  /\ UNCHANGED <<um, em, esm, driver, cred, event, left, lost>>

AbilityManagerStops ==
  /\ sys.orders # <<>> /\ Head(sys.orders) = "stop" /\ sys.jobs = <<>> /\ svc.wanted = 0
  /\ sys' = [sys EXCEPT !.orders = Tail(@)]
  /\ svc' = [svc EXCEPT !.stopping = svc.alive]
  /\ pin' = [pin EXCEPT !.wanted = FALSE]
  /\ UNCHANGED <<um, em, esm, driver, cred, event, left, lost>>

PinNotices(v) == IF svc.subscribed THEN Append(pin.notices, v) ELSE pin.notices

PinServiceStarts ==
  /\ pin.wanted /\ ~pin.up /\ ~pin.died /\ pin.notices = <<>>
  /\ pin' = [pin EXCEPT !.up = TRUE, !.notices = PinNotices(TRUE)]
  /\ UNCHANGED <<sys, svc, um, em, esm, driver, cred, event, left, lost>>

PinServiceEnds ==
  /\ pin.up
  /\ IF pin.wanted THEN left > 0 /\ left' = left - 1 ELSE UNCHANGED left
  /\ pin' = [pin EXCEPT !.up = FALSE, !.notices = PinNotices(FALSE), !.died = pin.reg]
  /\ UNCHANGED <<sys, svc, um, em, esm, driver, cred, event, lost>>

\* Somebody wants the service: a settings page sets useriam.startSa.
StartSa ==
  /\ left > 0 /\ ~sys.par.startSa
  /\ left' = left - 1
  /\ sys' = Set(<<<<"startSa", TRUE>>>>)
  /\ UNCHANGED <<svc, um, em, esm, driver, pin, cred, event, lost>>

\* The PIN is enrolled or deleted while its function works; see IdmService.
PinChanges ==
  /\ svc.up = Services /\ svc.ready /\ driver.up /\ pin.reg /\ left > 0
  /\ left' = left - 1
  /\ cred' = ~cred /\ event' = TRUE
  /\ UNCHANGED <<sys, svc, um, em, esm, driver, pin, lost>>

-------------------------------------------------------------------------------
\* post-init: isCredentialChecked is false; isPinEnrolled is persistent.
LoadInit ==
  /\ cred \in BOOLEAN
  /\ \E e \in BOOLEAN :
       sys = [par |-> [k \in Keys |-> k = "enrolled" /\ e],
              jobs |-> IF e THEN <<"start", "start">> ELSE <<"start">>,
              orders |-> <<>>, watch |-> <<>>]
  /\ svc = NoProcess /\ um = NoUnloadManager /\ em = NoLoadManager
  /\ esm = [sub |-> FALSE, known |-> "unknown"]
  /\ driver = [up |-> FALSE, status |-> <<>>]
  /\ pin = [wanted |-> FALSE, up |-> FALSE, reg |-> FALSE, died |-> FALSE, notices |-> <<>>]
  /\ event = FALSE /\ lost = FALSE
  /\ left = MaxEvents

\* No PIN, nothing started, and nothing more to come.
LoadQuiet ==
  /\ cred = FALSE
  /\ sys = [par |-> [k \in Keys |-> FALSE], jobs |-> <<>>, orders |-> <<>>, watch |-> <<>>]
  /\ svc = NoProcess /\ um = NoUnloadManager /\ em = NoLoadManager
  /\ esm = [sub |-> FALSE, known |-> "unknown"]
  /\ driver = [up |-> FALSE, status |-> <<>>]
  /\ pin = [wanted |-> FALSE, up |-> FALSE, reg |-> FALSE, died |-> FALSE, notices |-> <<>>]
  /\ event = FALSE /\ lost = FALSE
  /\ left = 0

Handlers ==
  \/ LoadOnEngineReady \/ LoadOnEngineUnavailable \/ OnCredentialUpdated \/ LoadOnFwkReady \/ OnFwkReadyDecides
  \/ OnExecutorRegistered \/ OnExecutorUnregistered \/ OnPinAuthServiceReady \/ OnPinAuthServiceStop
  \/ OnParamChange

Timers == EngineTimeout \/ TriggerAllServiceStart \/ UnloadTimeout

Process == OnServiceStart \/ OnServiceStop \/ ProcessExits

System == StartSaJob \/ StopSaJob \/ AbilityManagerStarts \/ AbilityManagerStops \/ PinServiceStarts

Environment == DriverCrash \/ ServiceStartFails \/ PinServiceEnds \/ StartSa \/ PinChanges

LoadNext == Handlers \/ Timers \/ Process \/ System \/ Environment

\* Handlers run and timers fire; init and the ability manager do what they
\* are told.  Nothing is assumed of the environment.
LoadFairness ==
  /\ WF_loadVars(LoadOnEngineReady \/ LoadOnEngineUnavailable) /\ WF_loadVars(LoadOnFwkReady \/ OnFwkReadyDecides)
  /\ WF_loadVars(OnExecutorRegistered) /\ WF_loadVars(OnExecutorUnregistered)
  /\ WF_loadVars(OnPinAuthServiceReady \/ OnPinAuthServiceStop) /\ WF_loadVars(OnParamChange)
  /\ WF_loadVars(OnCredentialUpdated)
  /\ WF_loadVars(EngineTimeout) /\ WF_loadVars(TriggerAllServiceStart) /\ WF_loadVars(UnloadTimeout)
  /\ WF_loadVars(Process) /\ WF_loadVars(StartSaJob \/ StopSaJob)
  /\ WF_loadVars(AbilityManagerStarts \/ AbilityManagerStops) /\ WF_loadVars(PinServiceStarts)
  /\ WF_loadVars(PinServiceEnds /\ ~pin.wanted)

LoadSpec == LoadInit /\ [][LoadNext]_loadVars /\ LoadFairness

-------------------------------------------------------------------------------
(* Properties.                                                              *)

Serving == svc.up = Services /\ driver.up /\ sys.par.fwk /\ sys.par.pinReady

\* While the persistent parameter says that a PIN is enrolled the service
\* ends up serving it, whatever decision to stop was already under way:
\* init starts again what a late timer stopped.  The exceptions are an engine
\* that died before the process listened to its status, and an ability that
\* failed to load twice.
EnrolledIsServed == <>[](sys.par.enrolled /\ ~lost) => <>[]Serving

\* With no PIN and nobody asking for the service the process ends.  (Its
\* engine may stay: a driver stopped by init before the process has heard of
\* stopSa is loaded once more by EngineLoadManager.)
UnusedIsUnloaded == <>[](~sys.par.enrolled /\ ~lost) => <>[](~svc.alive)
===============================================================================
