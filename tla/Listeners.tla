------------------------------ MODULE Listeners -------------------------------
(***************************************************************************)
(* Who is told of what: the three subscriptions of the service that live    *)
(* longer than a call and have to survive restarts of either side.          *)
(*                                                                         *)
(*   events       authentication successes and credential changes, from     *)
(*                EventListenerManager to the one callback object of a       *)
(*                client process, which hands them to its listeners;         *)
(*   recognition  the user recognition state, kept by                        *)
(*                UserRecognitionStateManager, with the present state sent   *)
(*                to whoever registers, and the client's own copy of it;     *)
(*   risk         strong authentication asked for by the screen lock, which  *)
(*                has to reach the face and fingerprint executors when the   *)
(*                screen is locked, whichever of the two came first.         *)
(*                                                                         *)
(* The three share nothing but the handler thread, and a behaviour is of    *)
(* one of them.                                                             *)
(***************************************************************************)
EXTENDS Naturals, Sequences, FiniteSets, SequencesExt

CONSTANTS
  EventListeners,  \* listener objects of the applications
  EventTypes,      \* authentication types
  MaxMoves         \* calls, restarts and changes in a behaviour

ASSUME ListenersBounds == MaxMoves \in Nat

VARIABLES
  part,  \* which of the three the behaviour is of
  ev,    \* events: the service's map and the client's
  rec,   \* recognition: the service
  cli,   \* recognition: the client
  risk,  \* risk: the system abilities, the listeners and the executor
  moves

listenVars == <<part, ev, rec, cli, risk, moves>>

Move == moves < MaxMoves /\ moves' = moves + 1

-------------------------------------------------------------------------------
(* Events.                                                                  *)

NoEvents == [up |-> TRUE, reg |-> FALSE, map |-> {}, adds |-> 0, checked |-> FALSE, heard |-> {}]

EventPart == part = "events" /\ UNCHANGED <<part, rec, cli, risk>>

\* EventListenerManager::RegistEventListener and UnRegistEventListener: the
\* object is in the map of its event type, once, with its death recipient.
RegistEventListener(e) == [e EXCEPT !.reg = @ \/ e.up]

UnRegistEventListener(e) == [e EXCEPT !.reg = @ /\ ~e.up]

\* RegisterListener: only the first listener registers the callback object.
\* With the service down there is no proxy, and nothing is kept.
RegisterListener(l, t) ==
  /\ EventPart /\ Move
  /\ ev' = IF ev.map # {} THEN [ev EXCEPT !.map = @ \cup {<<l, t>>}]
           ELSE IF ev.up THEN [RegistEventListener(ev) EXCEPT !.map = {<<l, t>>}] ELSE ev

\* UnRegisterListener: the listener goes, whether or not the service hears of it.
UnRegisterListener(l) ==
  LET rest == {e \in ev.map : e[1] # l}
  IN  /\ EventPart /\ Move
      /\ ev' = [(IF rest = {} THEN UnRegistEventListener(ev) ELSE ev) EXCEPT !.map = rest]

\* The service's map is lost with it; samgr tells the client of the new one.
EventServiceRestarts ==
  /\ EventPart /\ ev.up /\ Move
  /\ ev' = [ev EXCEPT !.up = FALSE, !.reg = FALSE]

EventServiceAdded ==
  /\ EventPart /\ ~ev.up /\ UNCHANGED moves
  /\ ev' = [ev EXCEPT !.up = TRUE, !.adds = @ + 1]

\* Mutant: a new service is not told of the listeners.
OnAddSystemAbilityForgets ==
  /\ EventPart /\ ev.adds > 0 /\ UNCHANGED moves
  /\ ev' = [ev EXCEPT !.adds = @ - 1]

\* IamServiceListener::OnAddSystemAbility looks for listeners, releases the
\* lock, and then registers.
OnAddSystemAbility ==
  /\ EventPart /\ ev.adds > 0 /\ ~ev.checked /\ UNCHANGED moves
  /\ ev' = IF ev.map = {} THEN [ev EXCEPT !.adds = @ - 1] ELSE [ev EXCEPT !.checked = TRUE]

RegisterAgain ==
  /\ EventPart /\ ev.checked /\ UNCHANGED moves
  /\ ev' = [RegistEventListener(ev) EXCEPT !.checked = FALSE, !.adds = @ - 1]

\* EventListenerCallbackManager::OnNotify..Event: the listeners of the type
GetEventListenerSet(t) == {l \in EventListeners : <<l, t>> \in ev.map}

\* OnNotify..Event of the service, through the callback object
OnNotifyEvent(t) ==
  /\ EventPart /\ ev.up /\ ev.reg /\ Move
  /\ ev' = [ev EXCEPT !.heard = GetEventListenerSet(t)]

\* EventListenerDeathRecipient::OnRemoteDied
EventClientDies ==
  /\ EventPart /\ ev.map # {} /\ Move
  /\ ev' = [NoEvents EXCEPT !.up = ev.up]

-------------------------------------------------------------------------------
(* Recognition.                                                             *)

Uncertain == "uncertain"
Results == {Uncertain, "match"}
NoResult == "none"
Objects == 1 .. MaxMoves  \* the client's callback objects, one after the other

NoRecService == [up |-> FALSE, cache |-> Uncertain, setting |-> NoResult, lst |-> {}, queue |-> <<>>]
\* subscribed: to samgr's notices; early: the object was registered with a
\* service while the notices of that service were still on their way; adding:
\* registrations between the two locks they take; ls: the listeners of the
\* active object.
NoClient == [obj |-> 0, made |-> 0, subscribed |-> FALSE, early |-> FALSE, latest |-> [o \in Objects |-> NoResult],
             ls |-> {}, adding |-> {}, told |-> [l \in EventListeners |-> NoResult], wire |-> <<>>, notices |-> <<>>]

RecPart == part = "recognition" /\ UNCHANGED <<part, ev, risk>>

\* SetUserRecognitionResult: the cache changes under the lock, the event is
\* made afterwards.  One engine sets results, one at a time.
SetUserRecognitionResult(r) ==
  /\ RecPart /\ rec.up /\ rec.setting = NoResult /\ r # rec.cache /\ Move
  /\ rec' = [rec EXCEPT !.cache = r, !.setting = r]
  /\ UNCHANGED cli

OnUserRecognitionEvent ==
  /\ RecPart /\ rec.up /\ rec.setting # NoResult /\ UNCHANGED <<cli, moves>>
  /\ rec' = [rec EXCEPT !.setting = NoResult, !.queue = Append(@, [to |-> rec.lst, is |-> rec.setting])]

\* Mutant: whoever registers is not sent the present state.
RecognitionRegisteredNoSync(o) == [rec EXCEPT !.lst = @ \cup {o}]

\* RegisterListener of the service: the present state is posted under the lock.
RecognitionRegistered(o) ==
  IF o \in rec.lst THEN rec
  ELSE [rec EXCEPT !.lst = @ \cup {o}, !.queue = Append(@, [to |-> {o}, is |-> rec.cache])]

\* The handler thread calls the clients one way.
RecognitionTask ==
  /\ RecPart /\ rec.up /\ rec.queue # <<>> /\ UNCHANGED moves
  /\ rec' = [rec EXCEPT !.queue = Tail(@)]
  /\ cli' = [cli EXCEPT !.wire = @ \o SetToSeq({<<o, Head(rec.queue).is>> : o \in Head(rec.queue).to})]

\* The client's OnUserRecognitionEvent; an inactive object ignores it.
Told(c, r) ==
  [c EXCEPT !.latest[c.obj] = r, !.told = [l \in EventListeners |-> IF l \in c.ls THEN r ELSE @[l]]]

ClientRecognitionEvent ==
  LET e == Head(cli.wire)
      c == [cli EXCEPT !.wire = Tail(@)]
  IN  /\ RecPart /\ cli.wire # <<>> /\ UNCHANGED <<rec, moves>>
      /\ cli' = IF e[1] = cli.obj THEN Told(c, e[2]) ELSE c

\* EnsureUserRecognitionServiceStatusSubscription: samgr tells a new
\* subscriber of the service that is there.
Subscribed(c) ==
  IF c.subscribed THEN c
  ELSE [c EXCEPT !.subscribed = TRUE, !.notices = IF rec.up THEN <<"add">> ELSE <<>>]

\* RegisterUserRecognitionEventListener up to the unlock.  The first listener makes
\* the object and registers it; another needs no service, if its proxy is cached.
RegisterRecognition(l) ==
  LET first == cli.obj = 0
      o == IF first THEN cli.made + 1 ELSE cli.obj
  IN  /\ RecPart /\ (rec.up \/ ~first) /\ l \notin cli.ls /\ Move
      /\ rec' = IF first THEN RecognitionRegistered(o) ELSE rec
      /\ cli' = [Subscribed(cli) EXCEPT
                    !.obj = o, !.made = IF first THEN o ELSE @, !.adding = @ \cup {<<l, o>>},
                    !.early = IF first THEN cli.notices # <<>> ELSE @]

\* No proxy, or the service refuses: the subscription to its notices stays.
RegisterRecognitionFails ==
  /\ RecPart /\ ~cli.subscribed /\ Move
  /\ cli' = Subscribed(cli) /\ UNCHANGED rec

\* A listener added to an object that was unregistered meanwhile hears no event.
AddListenerWithCatchUp(l, o) ==
  /\ RecPart /\ <<l, o>> \in cli.adding /\ UNCHANGED <<rec, moves>>
  /\ LET c == [cli EXCEPT !.adding = @ \ {<<l, o>>}]
     IN  cli' = IF o = c.obj /\ l \notin c.ls
                THEN [c EXCEPT !.ls = @ \cup {l}, !.told[l] = c.latest[o]] ELSE c

\* UnregisterUserRecognitionEventListener: done locally even with no service.  An
\* object whose first listener is still to be added goes with any other's leave.
UnregisterRecognition(l) ==
  LET last == cli.ls \subseteq {l}
  IN  /\ RecPart /\ cli.obj # 0 /\ (last \/ l \in cli.ls) /\ Move
      /\ cli' = [cli EXCEPT !.ls = @ \ {l}, !.obj = IF last THEN 0 ELSE @, !.told[l] = NoResult]
      /\ rec' = IF last /\ rec.up THEN [rec EXCEPT !.lst = @ \ {cli.obj}] ELSE rec

\* The service and samgr's notices of it; the handler's queue dies with it.
RecServiceDies ==
  /\ RecPart /\ rec.up /\ Move
  /\ rec' = NoRecService
  /\ cli' = [cli EXCEPT !.notices = IF cli.subscribed THEN Append(@, "remove") ELSE @]

RecServiceStarts ==
  /\ RecPart /\ ~rec.up /\ UNCHANGED moves
  /\ rec' = [NoRecService EXCEPT !.up = TRUE]
  /\ cli' = [cli EXCEPT !.notices = IF cli.subscribed THEN Append(@, "add") ELSE @]

\* NotifyUserRecognitionServiceUnavailable
RecServiceRemoved ==
  /\ RecPart /\ cli.notices # <<>> /\ Head(cli.notices) = "remove" /\ UNCHANGED <<rec, moves>>
  /\ LET c == [cli EXCEPT !.notices = Tail(@)]
     IN  cli' = IF c.obj = 0 THEN c ELSE Told(c, Uncertain)

\* ReregisterUserRecognitionListeners
ReregisterUserRecognitionListeners ==
  /\ RecPart /\ cli.notices # <<>> /\ Head(cli.notices) = "add" /\ UNCHANGED moves
  /\ LET c == [cli EXCEPT !.notices = Tail(@)]
     IN IF rec.up /\ c.obj # 0
        THEN /\ cli' = [c EXCEPT !.latest[c.obj] = NoResult,
                                 !.early = IF c.obj \in rec.lst THEN @ ELSE c.notices # <<>>]
             /\ rec' = RecognitionRegistered(c.obj)
        ELSE cli' = c /\ UNCHANGED rec

-------------------------------------------------------------------------------
(* Risk events.  The screen lock service keeps locked and strong; told says  *)
(* whether the executor knows of the strong authentication asked for now, or *)
(* "failed": the attempts to tell it did not succeed.                        *)

NoRisk == [lock |-> TRUE, locks |-> <<TRUE>>, listener |-> FALSE, atLock |-> FALSE,
           ces |-> TRUE, cess |-> <<>>, watching |-> FALSE, subscriber |-> FALSE, atCes |-> FALSE,
           locked |-> FALSE, strong |-> FALSE, exec |-> FALSE, told |-> "no", tasks |-> <<>>]

RiskPart == part = "risk" /\ UNCHANGED <<part, ev, rec, cli>>

\* SetRiskEventPropertyForAuthType: SetProperty on an executor, for a user
\* with templates.  A failure to read the templates or of SetProperty is logged.
SetRiskEventPropertyForAuthType(r, ok) ==
  IF r.exec /\ r.told # "yes" THEN [r EXCEPT !.told = IF ok THEN "yes" ELSE "failed"] ELSE r

\* HandleStrongAuthEvent asks the screen lock again.
HandleStrongAuthEvent(r, ok) ==
  IF r.lock /\ r.locked /\ r.strong THEN SetRiskEventPropertyForAuthType(r, ok) ELSE r

\* OnStrongAuthChanged and OnScreenLock post a task that reads everything anew.
RiskTask ==
  /\ RiskPart /\ risk.tasks # <<>> /\ UNCHANGED moves
  /\ \E ok \in BOOLEAN : risk' = HandleStrongAuthEvent([risk EXCEPT !.tasks = Tail(@)], ok)

Post(r) == [r EXCEPT !.tasks = Append(@, "sync")]

\* Mutant: what happened while nobody listened is not fetched.
RegisterStrongAuthListenerNoSync(r) ==
  IF r.listener THEN r ELSE [r EXCEPT !.listener = TRUE, !.atLock = r.lock]

\* RegisterStrongAuthListener and SyncStrongAuthStatusForAllAccounts.  The listener
\* is kept even if the screen lock service is gone again and did not take it.
RegisterStrongAuthListener(r) ==
  IF r.listener THEN r ELSE Post([r EXCEPT !.listener = TRUE, !.atLock = r.lock])

\* RegisterCommonEventListener: once; samgr tells of a service that is there.
RegisterCommonEventListener(r) ==
  IF r.watching THEN r ELSE [r EXCEPT !.watching = TRUE, !.cess = IF r.ces THEN <<TRUE>> ELSE <<>>]

ScreenLockAdded ==
  /\ RiskPart /\ risk.locks # <<>> /\ Head(risk.locks) /\ UNCHANGED moves
  /\ risk' = RegisterCommonEventListener(RegisterStrongAuthListener([risk EXCEPT !.locks = Tail(@)]))

\* UnRegisterStrongAuthListener
ScreenLockRemoved ==
  /\ RiskPart /\ risk.locks # <<>> /\ ~Head(risk.locks) /\ UNCHANGED moves
  /\ risk' = [risk EXCEPT !.locks = Tail(@), !.listener = FALSE, !.atLock = FALSE]

\* RegisterScreenLockedCallback and SyncScreenlockStatus
RegisterScreenLockedCallback ==
  /\ RiskPart /\ risk.cess # <<>> /\ Head(risk.cess) /\ UNCHANGED moves
  /\ LET r == [risk EXCEPT !.cess = Tail(@)]
         s == [r EXCEPT !.subscriber = TRUE, !.atCes = TRUE]
     IN  risk' = IF r.subscriber \/ ~r.ces THEN r ELSE IF r.lock /\ r.locked THEN Post(s) ELSE s

UnRegisterScreenLockedCallback ==
  /\ RiskPart /\ risk.cess # <<>> /\ ~Head(risk.cess) /\ UNCHANGED moves
  /\ risk' = [risk EXCEPT !.cess = Tail(@), !.subscriber = FALSE, !.atCes = FALSE]

\* SyncRiskEvents after a registration; see ExecutorRegistry
ExecutorRegisters ==
  /\ RiskPart /\ Move
  /\ risk' = Post([risk EXCEPT !.exec = TRUE, !.told = "no"])

\* The screen lock asks for strong authentication, or no longer does.
StrongAuthChanges ==
  /\ RiskPart /\ risk.lock /\ Move
  /\ LET r == [risk EXCEPT !.strong = ~@, !.told = "no"]
     IN  risk' = IF r.atLock THEN Post(r) ELSE r

\* The screen is locked, which the common event service tells, or unlocked.
ScreenLocks ==
  /\ RiskPart /\ risk.lock /\ Move
  /\ LET r == [risk EXCEPT !.locked = ~@, !.told = "no"]
     IN  risk' = IF r.locked /\ r.atCes THEN Post(r) ELSE r

ScreenLockDies ==
  /\ RiskPart /\ risk.lock /\ Move
  /\ risk' = [risk EXCEPT !.lock = FALSE, !.atLock = FALSE, !.locks = Append(@, FALSE)]

ScreenLockStarts ==
  /\ RiskPart /\ ~risk.lock /\ UNCHANGED moves
  /\ risk' = [risk EXCEPT !.lock = TRUE, !.locks = Append(@, TRUE)]

CommonEventDies ==
  /\ RiskPart /\ risk.ces /\ Move
  /\ risk' = [risk EXCEPT !.ces = FALSE, !.atCes = FALSE,
                          !.cess = IF risk.watching THEN Append(@, FALSE) ELSE @]

CommonEventStarts ==
  /\ RiskPart /\ ~risk.ces /\ UNCHANGED moves
  /\ risk' = [risk EXCEPT !.ces = TRUE, !.cess = IF risk.watching THEN Append(@, TRUE) ELSE @]

-------------------------------------------------------------------------------
ListenersIdle ==
  /\ ev = NoEvents
  /\ rec = [NoRecService EXCEPT !.up = TRUE] /\ cli = NoClient
  /\ risk = NoRisk
  /\ moves = 0

ListenersInit == part \in {"events", "recognition", "risk"} /\ ListenersIdle

EventHandlers == OnAddSystemAbility \/ RegisterAgain

EventNext ==
  \/ \E l \in EventListeners : UnRegisterListener(l) \/ \E t \in EventTypes : RegisterListener(l, t)
  \/ EventServiceRestarts \/ EventServiceAdded \/ EventHandlers \/ EventClientDies
  \/ \E t \in EventTypes : OnNotifyEvent(t)

RecHandlers ==
  OnUserRecognitionEvent \/ RecognitionTask \/ ClientRecognitionEvent
  \/ RecServiceRemoved \/ ReregisterUserRecognitionListeners

RecNext ==
  \/ \E r \in Results : SetUserRecognitionResult(r)
  \/ \E l \in EventListeners : RegisterRecognition(l) \/ UnregisterRecognition(l)
                               \/ \E o \in Objects : AddListenerWithCatchUp(l, o)
  \/ RegisterRecognitionFails \/ RecServiceDies \/ RecServiceStarts \/ RecHandlers

RiskHandlers ==
  RiskTask \/ ScreenLockAdded \/ ScreenLockRemoved
  \/ RegisterScreenLockedCallback \/ UnRegisterScreenLockedCallback

RiskNext ==
  \/ RiskHandlers \/ ExecutorRegisters \/ StrongAuthChanges \/ ScreenLocks
  \/ ScreenLockDies \/ ScreenLockStarts \/ CommonEventDies \/ CommonEventStarts

ListenersNext == EventNext \/ RecNext \/ RiskNext

\* The handler thread and the notices of samgr make progress, and a service
\* that died is started again.
ListenersFairness ==
  /\ WF_listenVars(EventHandlers) /\ WF_listenVars(EventServiceAdded)
  /\ WF_listenVars(RecHandlers) /\ WF_listenVars(RecServiceStarts)
  /\ WF_listenVars(RiskHandlers) /\ WF_listenVars(ScreenLockStarts) /\ WF_listenVars(CommonEventStarts)

ListenersSpec == ListenersInit /\ [][ListenersNext]_listenVars /\ ListenersFairness

-------------------------------------------------------------------------------
(* Properties.                                                              *)

\* A client with listeners is registered with the service that runs now,
\* unless the notice of that service is still on its way.
ListenersAreHeard == ev.up /\ ev.map # {} /\ ev.adds = 0 => ev.reg

\* When nothing is under way, a listener of the active object that was told a
\* recognition state was last told the present one, across restarts of the
\* service, changes before and after the registration, objects made anew and
\* registrations that cross the end of an object.  (The exception is `early`: an
\* object registered with a new service before the notices of the old one's
\* end arrived.  They tell it Uncertain, and registering it again sends nothing.)
RecognitionIsFresh ==
  rec.up /\ ~cli.early /\ rec.setting = NoResult /\ rec.queue = <<>> /\ cli.wire = <<>> /\ cli.notices = <<>> =>
    \A l \in cli.ls : cli.told[l] \in {rec.cache, NoResult}

RiskStands == risk.lock /\ risk.ces /\ risk.locked /\ risk.strong /\ risk.exec

\* Strong authentication is brought to the executor that is registered when the
\* screen is locked, in whatever order the lock, the request for it, the
\* registration and the restarts of the two services happen.  That is one
\* attempt: if the templates cannot be read or the executor refuses, the code
\* logs it and does not try again before the next event.
RiskReachesExecutor == RiskStands ~> (risk.told # "no" \/ ~RiskStands)
===============================================================================
