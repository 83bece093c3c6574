# User authentication framework: a TLA+ development

Models, model-checking runs and proofs about the unified user authentication service of
this repository (`src/services`), its native clients and JavaScript bindings
(`src/frameworks`) and the executor side that serves it
(`src/frameworks/native/executors`). `PROJECT.json` gives, for every definition that models
code, the file and the lines it stands for.

## 1. The system

### Threads and processes

* in the **service process**, one **event thread** (`ThreadHandler::GetSingleThreadInstance`)
  starts and stops contexts, dispatches the events of every state machine and runs posted tasks;
  **binder threads** enter through `UserAuthService`, `UserIdmService`, `CoAuthService`, the
  executors' messenger, the dialog's notices and the death recipients; a **timer thread**
  (`RelativeTimer`) fires the timeouts; each soft-bus connection has a thread of its own;
* in a **driver process**, binder threads begin commands, HDI threads answer them, and one thread
  runs `Driver::OnHdiConnect` and `OnHdiDisconnect`;
* in an **application**, calls block on the proxy, callbacks and death notices arrive on binder
  threads, and what is for JavaScript is posted to the JS thread;
* **init**, the ability manager and the driver manager start and stop the service and its engine.

A request becomes a *context*; contexts live in the context pool; a context drives *schedules*
or, for a dialog or a sudo, child contexts; a schedule drives one or two *executors* that have
registered themselves in the resource node pool and run the commands in their own process, or on
another device behind a soft-bus connection.

### Components, state, operations

| component | state | operations | what makes it correct |
| --- | --- | --- | --- |
| Schedule node (`schedule_node_impl.cpp`) | machine state, event queue, framework and executor result code, timer, weak references to two nodes | StartSchedule, StopSchedule, ContinueSchedule, timeout, pool listener, four handlers | one result, never SUCCESS after it gave up, no executor left running, every stop or result ends it |
| Context pool and admission policy (`context_pool_impl.cpp`, `context_arbitration_policy.cpp`) | running list, waiting list, cancel marks, tasks posted to the event thread | Schedule, Cancel, CancelAll, Delete, NotifyPreemptStateChanged, StartIfPooled, StopIfPooled | one owner of the PIN slot, no overtaking, cancelled contexts never start, everyone leaves |
| Sudo and simple contexts | start and stop flags, the child of a sudo | OnStart, OnStop, OnResult, OnChildResult, EndWithResult | one answer, no child without its parent |
| Widget session (`widget_context.cpp`, `widget_schedule_node_impl.cpp`, `widget_client.cpp`) | phase, machine state, running types and tasks, count of children, watchdog, dialog connection, entry in the client | start, stop, twelve machine events, eight notices, child results and tips, loss of the dialog, watchdog | one answer, one attempt per type, no orphan, a session always leaves |
| Entry points (`user_auth_service.cpp`, `user_idm_service.cpp`, `ipc_common.cpp`) | the caller's tokens | every IPC method: checks, returned code, answers now and later | no effect without the permission; one answer |
| Native clients (`user_auth_client_impl.cpp`, `user_idm_client_impl.cpp`, `callback_manager_impl.cpp`) | cached proxy, death recipient, registered callbacks | every client method, OnRemoteDied, ResetProxy | nobody waits for ever when the service dies |
| Enrolment and deletion (`user_idm_service.cpp`, `enroll_context.cpp`, `enrollment_impl.cpp`, `publish_event_adapter.cpp`, `template_cache_manager.cpp`) | contexts, the engine's credentials, the executors' templates, what was published, cached templates | AddCredential, UpdateCredential, deletions, sessions, account switches | a finished enrolment cancels no later one, no orphan template, true announcements |
| Executor registration (`co_auth_service.cpp`, `resource_node_pool_impl.cpp`, `engine_state_manager.cpp`) | table with counts, death recipients, readiness | register, unregister, deaths, engine ready and unavailable | pool and engine agree; a late death spares the successor |
| Driver manager (`driver.cpp`, `framework_ready_listener.cpp`) | HDI and framework flags, retry timer | HDI connect and disconnect, framework ready and down | an executor that is up is registered in the end |
| Executor commands (`executor.cpp`, `async_command/*.cpp`) | HDI pointer, list of commands, `isFinished_` of each | StartProcess, OnResult, OnAcquireInfo, OnHdiDisconnect | every accepted command is answered, once, and nothing follows the answer |
| Load mode (`services/load_mode`, `useriam.cfg`) | system parameters and late copies of them, unload and retry timers | engine status, executor status, parameter changes, timeouts, init's jobs | an enrolled PIN is served, an unused service stops |
| Soft bus (`remote_connect/default`) | sockets, unacknowledged requests, keep-alive, listeners | open, close, send, acknowledge, time out, shut down | a lost link is noticed |
| Remote authentication (`remote_auth_*.cpp`, `remote_executor_*.cpp`) | invoker, remote context, proxy, stub | invoke, query, begin and end execute, forward data | a loss is reported, everything is released |
| Listeners (`event_listener_manager.cpp`, `user_recognition_state_manager.cpp`, `risk_event_manager.cpp`, `strong_auth_status_manager_impl.cpp`) | listener sets, cached states, subscriptions | register, unregister, events, restarts of either side | nobody is forgotten, nobody is told a stale state |
| JavaScript bindings (`frameworks/js/napi`) | calls in flight, callbacks, recognition managers | every exported function of every API version | the application is told the truth, once, and always |
| Engine adapter, messenger, attributes, trace | little or none of their own | conversions and forwarding | — |

### What is hard to test

Almost all state changes either happen under a mutex or are appended to a queue, so data races are
few. The difficulty is in the *order*: a stop queued in front of a handler's own follow-up event,
plans of two binder threads posted after the unlock, a child's success crossing a stop, a
disconnection copying a list while a command enters it, a death notice that arrives after the
successor has registered, a timer that decides on a parameter that has just changed, an
acknowledgement that overtakes the insertion of its callback. `PROJECT.json` lists the hazards line
by line with the properties that cover them, and notes where none does; section 5 has the minor
ones.

## 2. Modules

| module | models | composed with |
| --- | --- | --- |
| `OneShot` | what a request promises its caller: one answer, and never SUCCESS once it was given up | abstract specification of `ScheduleNode` and of every context of `ContextPool` |
| `ScheduleNode` | one schedule with its machine, queue, timer and pool listener | refines `OneShot` |
| `ContextPool` | contexts from construction to deletion, admission, preemption, cancels, sudo parents and children | refines `OneShot` per context |
| `WidgetSession` | one widget session: context, machine, client entry, dialog, children | |
| `CallerAccess` | tokens, permissions, direct and first caller | used by the entries |
| `UserAuthEntries`, `UserIdmEntries` | each entry point as an operator of caller and conditions | used by `ClientCalls` |
| `ClientCalls` | the native clients, the service behind them, its deaths | `ProcessDeaths` |
| `ExecutorHost` | one executor in its process: commands, HDI answers, disconnection | `ProcessDeaths` |
| `ExecutorRegistry` | engine, framework and driver processes that register, crash and come back | `Startup` |
| `LoadMode` | when the service and its engine run, with init's jobs | `Startup` |
| `IdmService` | enrolment, update, deletion, templates, published events | |
| `SoftBus` | one connection between two devices | extended by `RemoteAuth` |
| `RemoteAuth` | an authentication across two devices, in both arrangements | extends `SoftBus` |
| `Listeners` | events, recognition state, risk events | `Edges` |
| `Bindings` | the JavaScript functions and the two threads behind them | `Edges` |
| `ProcessDeaths`, `Startup`, `Edges` | two components that share no state, checked in one run: a behaviour is of one of them while the other has nothing to do | |
| `ScheduleNode_proofs`, `ContextPool_proofs`, `WidgetSession_proofs`, `ExecutorRegistry_proofs`, `IdmService_proofs` | inductive invariants and theorems | each extends its component |
| `ProcessDeaths_proofs` | the same for `ExecutorHost` and for `ClientCalls` with the entries | extends `ProcessDeaths` |
| `Edges_proofs` | the same for `Listeners`, `Bindings` and `RemoteAuth` with `SoftBus` | extends `Edges` and `RemoteAuth` |
| `SequenceFacts` | lemmas about queues: which elements, how often, in which order | used by the proofs of `ContextPool`, `IdmService` and the edges |
| `MCContextPool`, `MCWidgetSession` | small mixes of requests and sessions | |

**ScheduleNode.** The variables are the fields of the node and of its machine. A transition is
two steps, `Begin` (pop the event, lock the weak references) and `Complete` (call the executor,
queue the follow-up, move the state), because other threads queue events while the event thread
waits for the executor. The transition table is a set of rows, one definition per source state.
`FAIL` stands for every error code of an executor. `ResourceNodePoolUpdate` is a re-registration, which the
listener ignores. SendMessage, NotifyCollectorReady and tips change no state and are left out.

**ContextPool.** An operation that the code performs in one critical section is one step; what it
does after the unlock (posting the stops and starts of a plan) is kept in `todo` of its thread and
taken step by step. Attributes of a request (kind, user, caller, whether it bears the PIN) are
constants. The sudo's child is a context of its own. A context that is running gives a result
when it likes; how its schedule or dialog gets there is the matter of the other modules.

**WidgetSession.** The session is one record; each method of `WidgetContext`, `WidgetClient` and
`WidgetScheduleNodeImpl` is an operator from session to session, and a handler of the machine an
operator to the set of sessions it may leave, so that definitions keep the names and the nesting
of the code. A type's children are numbered attempts; a cancelled child may still report any
result, as a cancel only posts. Other sessions appear only as the owner of the client's current
schedule. The modes are a local dialog, a remote session that first waits for its parameters, and
a direct one without a dialog; `locked` is what the parameters make of a locked type; `display`
tells a system dialog from one the caller shows itself.

**ExecutorHost.** A command's StartProcess, its result and the disconnection are split where the
code holds no lock: between listing the command, reading the HDI pointer and calling the HDI; and
in `OnResult`, which holds the command's lock while it sends. `Custom` commands answer their own
refusal.

**CallerAccess, UserAuthEntries, UserIdmEntries.** An entry is an operator of the caller (a direct
token, perhaps a first one, each a kind and permissions) and of the set of conditions that hold of
its parameters and of the services it asks. Its value is what one request does: the code returned,
the codes given to the callback before it returns, those given later, and whether anything changed.
The checks keep the order of the code.

**ClientCalls.** A call of any of 38 client methods is answered by the outcomes of its entry, over
all callers with the permissions that matter and all requests that differ in at most `MaxChanged`
conditions from one that succeeds. The service process may die at any step; death notices, the
`OnServiceDeath` of the shared `CallbackManager` and `ResetProxy` are steps of their own. Outcomes
are summarised to what the client sees, so the state does not carry the request.

**ExecutorRegistry.** The engine, the framework and each driver process may die and come back.
Notices travel in queues: engine status, binder deaths, changes of FWK_READY, removal of the
framework. `ExecutorRegister` is split where the code is: into the engine, into the pool, and the
posted task that sends the messenger and sets the death recipient. `overtaken` marks the three
situations in which the code itself loses track: a death notice processed between the two
registrations; one under way when the pool is emptied; and a process that unregisters from a node
kept only for an earlier instance's pending notice and then dies, so that its own notice is counted
a second time. The third needs two deaths and came to light when the proof of `SuccessorKept` failed.
The properties exempt these situations.

**LoadMode.** Every manager keeps its own late copy of the parameters; init's jobs of `useriam.cfg`
are a queue. `lost` marks the two faults that no timer repairs: an engine that dies before the
process listens to its status, and a second failed load of an ability.

**IdmService.** Requests run one at a time under `mutex_`, tasks on the event thread; the engine's
credentials, the executors' templates and the publications are separate state, because they change
at different moments. An identifier is a context and also the credential and template it enrols.
`GetCredential` returns what the engine lists, abandoned PINs included, as the code's queries do: the
published count after an update of a PIN is therefore one more than the PINs in use, until the old
one is deleted. A query that fails publishes nothing (`unread`), and a failed update of the cache
leaves what was there (`uncached`). Abandoned credentials may be cleared by a query that finds one
expired (`ClearUnavailableCredential`), which no mutex orders with the other requests.

**SoftBus, RemoteAuth.** A connection has an opener and an accepter; requests are acknowledged, a
missing acknowledgement takes the connection down after five seconds, the opener keeps it alive.
The link may fail or fall silent, the soft bus may die, an acknowledgement may be late or overtake
the bookkeeping of its request. A handler that finds its schedule or executor gone refuses in its
reply. Nothing is assumed of the three-minute timers.

**Listeners.** Three subscriptions, one per behaviour: events to the one callback object of a client
process, the recognition state with the client's own copy, and strong authentication towards the
executors with the screen lock and common event services that come and go. Registering a recognition
listener is two steps, as its code unlocks before `AddListenerWithCatchUp`: a listener may be added to
an object that another thread has just unregistered, and then hears nothing. A registration may fail
and leaves the subscription to the service's notices. A strong-auth listener is kept although the
screen lock service is away. Telling an executor of a risk is an attempt that may fail, which the
code logs only.

**Bindings.** One page of an application: calls answered later, calls that return, or the objects
events are sent to. Arguments are reduced to the classes the checks tell apart; result codes keep
their numbers and are converted by the tables of the API version (6, 8, 9 and later), because what
the application reads is the number.

## 3. Runs

Deadlock checking is off in all runs: a finished request, or a system whose bounded faults are used
up, is a legitimate end.

| run | question | bounds and why they are enough |
| --- | --- | --- |
| `schedule` | one result exactly at S_END, executors ended, `OneShot` kept, every queued stop or result ends the schedule | one stop and one result: a stop against a result; node loss, replacement and the timer at any time. The theorems of section 4 cover any number |
| `pool_slot` | exclusive PIN slot and no overtaking | two sudos of one caller (duplicates) and a PIN authentication of another: three contenders, every order; the sudos are symmetric |
| `pool_cancel` | cancels, children, promises | a sudo and a widget session with one Cancel or CancelAll at any time |
| `pool_live` | everyone leaves | the same with room for two contexts only, so that the sudo's child meets a full pool |
| `pool_widgets` (violation) | one live widget session | two widget sessions |
| `widget` | one answer, one attempt per type, no orphan, release, success | one type with three notices (start, stop, start again), two types with two, the three ways to open a session, one rotation, two attempts |
| `widget_complexity` (violation) | a failed complexity check is a failure | two types, one notice |
| `process_deaths` | clients: informed, once, no trespass; executors: no command lost, one result and last, exact list, the disconnection ends | two calls and one death (a call before and one after, or both across it), two changed conditions (every pair of checks of an entry); two schedule commands and a custom one, one tip each |
| `startup` | registration: agreement, successor kept, registered in the end; load mode: an enrolled PIN is served, an unused service stops | one executor with one crash each of engine, framework and process and one loss of the HDI; two events of the environment beside the start itself |
| `idm` | cancellation, templates, announcements, counts, cache | three enrolments or deletions of one user, one other request or two switches or deaths: old credential, replacement and a third to interfere; every query after a commit or for the cache may fail |
| `remote` | listeners, reported loss, release | one fault, one message beyond those the authentication needs; both arrangements |
| `edges` | listeners heard, state fresh, risk told; the application told the truth and always | five moves with two listeners; two calls, one object, two functions, results SUCCESS, a known failure and an unmapped one |

### What the violations show

* `pool_widgets`: displacement compares construction times, but construction and admission are not
  one step; two sessions admitted in the other order are live together.
* `widget_complexity`: the failed complexity check lives in `latestError_`, which another child's
  failure overwrites before the success event is dispatched; the caller is told SUCCESS.

Two widget properties are stated for sessions that were not rotated (`NoOrphanChild`,
`SuccessIsAnswered`). With a rotation TLC refutes both: the cancel event that ends a rotation
swallows the one that would have ended the session, and `E_COMPLETE_AUTH` is dropped in
S_WIDGET_RELOAD_WAITING. Other exemptions are written in the properties themselves, each with the
path through the code that needs it: the entries that answer twice (`AnsweredOnceUnlessDeath`), the
client methods that only log an error (`Informed`), `overtaken`, `lost`, the stub that is never told
of the end of its connection (`EverythingReleased`), the user whose PINs changed after the count
was read or could not be read (`PinCountPublished`), a cache whose last update failed
(`CacheOfCurrentUser`), an object registered before the old service's notices arrived
(`RecognitionIsFresh`). What an exemption covers is listed without the
property that exempts it: in `PROJECT.json`, as a hazard or in the note of one, or in section 5.

### Fairness

* `ScheduleNode`: weak fairness of the event thread, which drains its queue; nothing is assumed of
  executors, timers or callers, so only events that *reach the queue* are promised an end. A call
  into an executor is assumed to return (it is an IPC call with its own timeout).
* `ContextPool`: every thread finishes the critical sections it has begun, the event thread runs
  posted tasks, a started context gives some result (its executors and its dialog have their own
  time limits), and the widget watchdog fires. No fairness for cancels or new requests.
* `WidgetSession`: the event thread dispatches and the armed watchdog fires. Children, dialog and
  callers may stay silent for ever.
* `ClientCalls`: the service handles what reached it and its contexts answer while it lives, the
  client's threads run, death notices are delivered. The restart of the service is not assumed.
* `ExecutorHost`: the disconnecting thread runs on and a thread that holds a command's lock
  releases it. The HDI may never answer.
* `ExecutorRegistry`: threads run, notices arrive, and init restarts the engine, the framework and
  the driver processes.
* `LoadMode`: handlers run, timers fire, init and the ability manager do what they are told, and a
  PIN service nobody wants ends. Nothing is assumed of the environment. Two timing assumptions are
  in the guards: the ten-minute unload timer outlasts a start of the service, of its engine and of
  the PIN service, and the status of the engine waits for init's jobs; both compare milliseconds or
  seconds with much longer times.
* `RemoteAuth`: threads run, keep-alive and reply timers fire, a session that ended is reported to
  both sides. Callers, executors, link and three-minute timers are free.
* `Listeners`: the handler thread runs, samgr's notices arrive, and a service that died is started
  again.
* `Bindings`: the JS thread runs what is posted, the native client answers every call but the
  question for the lock state (`EveryCallEnds` of `ClientCalls`), and the three-second wait ends.

## 4. Proofs

`ScheduleNode_proofs` proves, for every `MaxStops` and `MaxResults`:

* `TypeCorrect`, `ResultOnce` (`ResultExactlyAtEnd`), `NoOrphans` (`NothingLeftRunning`);
* `Refinement`: `Spec => KeepsPromise`, the schedule implements `OneShot`.

The inductive invariant `IInv` adds to the types: the row being executed
starts in the current state and holds the nodes that are alive (`HandlingOK`); the callback is set exactly until S_END, which is what
makes the result unique (`CallbackOK`); a queued result event means that a result was counted
(`ResultSeen`); a queued E_VERIFY_STARTED_FAILED means that S_INIT is left and that nothing runs in
S_VERIFY_STARING (`FailureSeen`);
and what runs in which state (`RunningOK`). `NothingLeftRunning` alone is not inductive: it speaks
only of S_END, and one needs to know what may run on every path there. The facts about the table
(`RowTypes`, `RowShapes`) are the only place where its rows are enumerated.

`ProcessDeaths_proofs` proves of the executor's host, for any set of commands and any `MaxTips`:

* `HostTypeCorrect`, `DisconnectAnswersAll` (`NoCommandLost`), `ResultSentLast` (`ResultIsLast`),
  `ListExact` (`ListedOwesAnswer`).

Here `HostInv` says that an unfinished command is on the list from the moment it is added (`Listed`),
and that once the disconnection has its copy, a command the HDI was asked for is finished or still
ahead of it (`Ahead`). This is the argument of the code: the pointer is cleared before the copy,
and a command is listed before it reads the pointer, so a command that saw the HDI is in the copy.

It proves of the native clients, for any set of calls, any number of deaths, any tokens of the
callers and any conditions of their requests (so without the bound `MaxChanged` puts on TLC):

* `NoTrespassTheorem` (`NoTrespass`), `AnsweredOnceTheorem` (`AnsweredOnceUnlessDeath`);
* `DeathsTheorem`: these and the host's invariants hold of `DeathsSpec`, which the run checks.

There is a lemma per entry, by the order of its checks: what an effect takes of the caller, and how
many answers there are. `FirstFailure` is SUCCESS only if every check passed (`Passed`), the checks
take a permission of the direct caller and, where `IpcCommon` asks for it, of the first (`GrantedFacts`),
and `MethodFacts` joins the 38 methods with the permissions that entitle to them. `CallInv` is then
about one call: nothing is answered before the service handled it; the answers it has had and is
owed are one at most; and a method that still has to report an error has had none and is owed none
(`OneAnswer`). The property alone is not inductive, because it does not count what is still to come.

`ContextPool_proofs` proves, for any set of requests of any kinds, users and callers, any
`MaxContexts` and `MaxCancels`:

* `SlotTheorem` (`PinSlotExclusive`), `CancelTheorem` (`CancelledNeverStarts`), `ChildTheorem`
  (`ChildHasParent`);
* `QueueTheorem`: `Spec => NoOvertaking`, an action property of the waiting queue;
* `PromiseTheorem`: `Spec => KeepsPromise`, every context implements `OneShot`; a request is given up
  when a sudo is told to stop, so the half about SUCCESS is claimed of sudos.

`IInv` says where a context can be in each phase (`QueueInv`, `PhaseInv`), that it is scheduled and
started once (`ScheduleInv`, `StartInv`), that the mark of a cancellation outlives the chance to
start (`CancelInv`), that a sudo has one child at a time and only while it runs (`FamilyInv`), that
an answer belongs to leaving the running phases (`AnswerInv`), and, for the PIN slot, that of two
contending requests among the running ones one is finished or told to stop, or its stop is queued,
or will be queued, ahead of the other's start (`SlotInv`). The last is why the slot is exclusive
although displacement and admission only post tasks: it rests on the order in which one thread
posts a plan and on the single event queue. The waiting queue is filtered by a recursive function,
`Keep`; its facts (it keeps exactly the waiters it should, in their order) are proved by induction
over the length of the queue, from the least counterexample that `WFMin` gives (`LeastNatural`).

`WidgetSession_proofs` proves, for any types, modes, number of attempts, notices and rotations:

* `AnswerTheorem` (`AnsweredOnce`), `AttemptTheorem` (`OneAttemptPerType`), `OrphanTheorem`
  (`NoOrphanChild`).

`Base` is what also holds in the middle of a handler: the running types, the list of tasks and the
children agree (`Books`), there is an answer exactly when the session has ended, and then no child
is live. `Running` adds, for a session that was never rotated, the argument about the machine's
queue: every RELEASE in it comes after an event that ends the session first, and the event that
opens the session is at the front. Without it a RELEASE would end the machine with children left.

`ExecutorRegistry_proofs` proves, for any set of executors and any number of crashes:

* `PoolTheorem` (`PoolKnownToEngine`), `SuccessorTheorem` (`SuccessorKept`), both as long as no death
  notice was `overtaken`.

`RegInv` holds the state of the service (`ServiceInv`), the agreement of pool and engine unless a
crash is still to be acted on (`KnownInv`), what a process believes of its registration (`ProcInv`,
`RegisteringInv`), and a balance of counts (`CountInv`): the references of a node, with a
registration about to be counted, cover the death notices under way and the process that is alive.
Pending notices can therefore not delete the node of the successor.

`IdmService_proofs` proves, for any number of requests, any users and any `Budget`:

* `SuccessorTheorem` (`SuccessorNotCancelled`), `TemplateTheorem` (`NoOrphanTemplate`),
  `AnnouncementTheorem` (`UpdateAnnouncedTruly`), `CountTheorem` (`PinCountPublished`: at least the
  PINs in use and at most these and the replaced ones, for users whose last count was read and not
  overtaken), `CacheTheorem` (`CacheOfCurrentUser`: unless the last update of the cache failed).

`IdmInv` has a part about control: a queued task finds its context where it expects it
(`QueueInv`), every request cancels the enrolments before it (`LatestInv`), and one enrolment runs
at a time, its stop queued before the next start (`RunInv`). The rest relates the stores: whose a
credential is (`CredInv`), that the result being handled is in the engine (`BusyInv`), where a
template without a credential is still to be found (`TemplateInv`), which updates are announced
(`UpdateInv`), why a published count may still differ (`CountInv`) and whose the cache is
(`CacheInv`).

`Edges_proofs` proves of remote authentication, for any `MaxFaults` and `MaxExtra`:

* `ListenerTheorem` (`NoStaleListener`): a listener on the connection stands for an object that lives.

The destructors withdraw the listener, so what could break it is a second beginning of what has
begun: another START or QUERY would put a verifier that authenticates, its proxy listening, back to
its first state. `RemoteInv` says that the opening of the connection, the news that it is up and the
START are under way once at most and never two of them together (`OnceInv`), and in which states of
the verifier they still can be (`BeginInv`). Most steps of the soft bus open nothing; `CalmStep` is
the lemma they share.

Of the event listeners and the recognition state, for any listeners, event types and `MaxMoves`:

* `ListenersTheorem` (`ListenersAreHeard`), `RecognitionTheorem` (`RecognitionIsFresh`, for the
  listeners of an active object that was not registered `early`).

`EventInv` adds that a handler which has looked for listeners has its notice still to account for.
`RecInv` is about order: the present state of the service is in the last of the postings for the
client's object, or, with none queued, in the last message on the wire, or, with none there either,
is what the client last told (`UnderWayInv`); it holds while the object is registered with the
service that runs and was not registered early, and otherwise a notice to register again is the
last of those that come (`NoticeInv`).

Of the bindings, for any int32 results, calls and objects:

* `BindingsTheorem` (`AnswerIsTrue`);
* `EdgesTheorem`: the three properties of the two edges hold of `EdgesSpec`, which the run checks.

`BindInv` says that a queued result is the conversion of what the native client gave for that call,
that the call was told nothing yet, and that no tip of the call is queued behind it (`EventIsTrue`).
The lemmas `ConvertedV8` to `ConvertedV21` are the tables of the API versions: of all integers
SUCCESS alone becomes SUCCESS, and up to API 16 every integer becomes a code that version exports.

Each inductive invariant was checked by TLC on the instances of the runs before it was proved. The
only assumptions are those named in the modules (`BoundsAssumption`, `PoolAssumption`,
`SessionAssumption`, `HostAssumption`, `ClientAssumption`, `RegistryAssumption`, `IdmAssumption`,
`ListenersBounds`, `BindingsBounds`, `RemoteAuthAssumption`, `SoftBusAssumption`): bounds are
naturals, results are integers, users and authentication types are finite sets, and special values
are distinct from ordinary ones.

Every invariant, action property and refinement the passing runs check is proved. Model-checked
only:

* all liveness: `RequestEndsSchedule`, `EveryoneLeaves`, `SessionIsReleased`, `SuccessIsAnswered`,
  `EveryCallEnds`, `DisconnectEnds`, `EnrolledIsServed`, `UnusedIsUnloaded`, `EventuallyRegistered`,
  `LossIsReported`, `EverythingReleased`, `RiskReachesExecutor` and `EveryCallSettles` are
  leads-to or eventually-always properties, which need fairness and ENABLED;
* `LoadMode`, whose two properties are both of that kind.

## 5. Abstractions and limits

* Error codes, messages, tokens and texts are reduced to what a property tells apart. Setting a
  value in a fresh attribute list is taken to succeed, as is memory allocation.
* `MaxStops`, `MaxResults`, `MaxTips`, `MaxCancels`, `notices` of a session, `MaxReloads`,
  `Attempts`, `Calls`, `MaxDeaths`, `MaxChanged`, the `Max…Crashes` of the registry, `MaxEvents`,
  `Budget`, `MaxFaults`, `MaxExtra`, `MaxMoves`, `MaxCalls` and `MaxObjects` limit inputs and faults
  from outside; `MaxContexts` of `ContextPool` is the code's own limit, made small.
* A handler of the widget machine is one step. It holds the context's mutex except for the 100 ms
  before a reload, in which only the watchdog could intervene.
* Undefined behaviour: `stopAuthTypeList_` and the orientation are read on the event thread without
  the lock their writers hold; the model reads the latest value, torn reads are not enumerated.
* One executor caches templates (`IdmService`), one engine sets recognition states, and an event is
  handed to all listeners of an object in one step (`Listeners`). Event listeners are registered one
  call after the other, because the code holds its lock throughout.
* A signed result the engine rejects leaves the unsigned code in the answer
  (`remote_auth_invoker_context.cpp:348`); in `RemoteAuth` the engine accepts every signed result.
* Composition is by behaviour, not by product: each module takes its neighbours as its environment
  (`RemoteAuth` a schedule that ends, `Bindings` a client that answers, `IdmService` a pool that
  admits). The product of two such modules is out of TLC's reach at these bounds.

Smaller hazards, in the models or in the margin of them, that the list of `PROJECT.json` leaves out:

| place | what |
| --- | --- |
| `schedule_node_impl.cpp:283` | E_TIME_OUT has no transition in S_COLLECT_STARING; no production schedule arms the timer |
| `widget_context.cpp:583` | a rotation queued when the session is stopped connects a new dialog after the caller was answered: `AuthWidgetReload` does not look at the phase, as `LaunchWidget` does |
| `sudo_auth_context.cpp:251` | a sudo raises its dialog flag before it schedules its dialog child: a session that takes over in between is taken over in turn, and both requests end CANCELED |
| `base_context.cpp:42` | a cancel or death before the context is pooled finds nothing |
| `co_auth_service.cpp:159` | an executor that dies before its posted death recipient is set stays in the pool |
| `co_auth_service.cpp:129` | an unregistration leaves the death recipient: a process that gave its registration back to a counted node and then dies is counted again (`overtaken`) |
| `engine_load_manager.cpp:135` | an engine that dies between Load and the subscription is never loaded again (`lost`) |
| `load_mode_handler_dynamic.cpp:202` | `isExecutorRegistered` survives an unavailable engine |
| `soft_bus_manager.cpp:344`, `:526` | listeners of accepted connections are not told when the soft bus dies, or a stub is made between telling and deleting (`untold`) |
| `simple_auth_context.cpp:271` | a cancel while the connection is set up finds no schedule and is lost |
| `remote_msg_util.cpp:49` | connection names keep 16 bits of the context id; one connection is modelled |
| `user_recognition_state_manager.cpp:194` | two engines' results set together may be told in the other order; one engine is modelled |
| `user_idm_service.cpp:586` | a deletion of a user overtakes the count of the enrolment being committed: nothing is published until the next count |
| `credential_updated_manager.cpp:50`, `:80` | a query that fails publishes no count and announces no update; nobody tries again |
| `user_auth_client_impl.cpp:974` | a recognition listener is added to an object that another thread has just unregistered, and hears nothing |
| `risk_event_manager.cpp:45`, `:61` | a query or an executor that fails leaves the executor untold until the next event |
| `user_auth_callback_v6.cpp:167` | an unmapped result of API 6 becomes 2, which that API reads as CANCELED |

### Not modelled

The engine behind HDI is a driver outside the repository; `hdi_engine.cpp` and the type conversions
forward to it. `executor_messenger_service.cpp` looks a schedule up and forwards. `attributes.cpp`
is a tag-length-value encoding without state. Trace, logs and system events only report. The ArkTS
(ANI) and Cangjie bindings repeat the JavaScript ones over other runtimes. The worker pool and the
bookkeeping of timers behind `ThreadHandler` appear only by their effects. Generated IPC stubs, fuzz
tests and build files are not looked at.

## 6. Plan

Done: all modules of section 2 with their runs, and the proofs of section 4, which cover every
safety property of the runs. What could follow:

1. The encoding of `attributes.cpp` as operators, checked against its decoder over small inputs.
2. Two connections of one name in `SoftBus`.
3. The product of `ContextPool` and `ScheduleNode`: a context whose result is that of its schedule.
