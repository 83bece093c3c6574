------------------------------ MODULE ContextPool ------------------------------
(***************************************************************************)
(* The pool of authentication contexts: who may run, who waits, who is     *)
(* stopped to make room, and how starts, stops and results of the pooled   *)
(* contexts cross.                                                         *)
(*                                                                         *)
(* Binder threads construct contexts and schedule them, other threads      *)
(* cancel them, and the single event thread starts and stops them and      *)
(* takes their results; a widget may also be released by the timer thread. *)
(* An admission plan is made under poolMutex_ and posted to the event      *)
(* thread after the unlock, one PostTask at a time, so each thread keeps   *)
(* what it still has to do in todo: the plans of two threads interleave.   *)
(***************************************************************************)
EXTENDS Naturals, Sequences, FiniteSets, SequencesExt

CONSTANTS
    Requests,     \* the primary contexts clients ask for
    Attr,         \* what the pool asks a context about itself
    EventThread,  \* ThreadHandler::GetSingleThreadInstance
    TimerThread,  \* the thread of RelativeTimer
    MaxContexts,  \* MAX_CONTEXT_NUM
    MaxCancels    \* bound on the calls of Cancel and CancelAll from outside

\* The contexts that take part in the admission policy.  The others (enroll,
\* delete, identify, remote invoker, schedule holder) start at once, never yield
\* and hold back nobody.
Kinds == {"simple", "widget", "sudo"}

Sudos == {r \in Requests : Attr[r].kind = "sudo"}

\* A sudo runs one internal context: a silent PIN authentication or a dialog.
Children == Sudos \X {"silent", "dialog"}
Contexts == Requests \cup Children

\* The thread that serves a request, and one thread per outside Cancel.
Cancellers == 1..MaxCancels
Threads == Requests \cup Cancellers \cup {EventThread, TimerThread}

ASSUME PoolAssumption ==
  /\ MaxContexts \in Nat
  /\ MaxCancels \in Nat
  /\ Attr \in [Requests -> [kind : Kinds, user : Nat, caller : Nat, pin : BOOLEAN]]
  /\ EventThread # TimerThread
  /\ {EventThread, TimerThread} \cap (Requests \cup Cancellers) = {}
  /\ Requests \cap (Children \cup Cancellers) = {}

Parent(c) == c[1]
ChildrenOf(s) == {<<s, "silent">>, <<s, "dialog">>}

Kind(c) ==
  IF c \in Requests THEN Attr[c].kind
  ELSE IF c = <<Parent(c), "silent">> THEN "simple" ELSE "widget"

\* INVALID_USER_ID is user 0.
User(c) == IF c \in Requests THEN Attr[c].user ELSE Attr[Parent(c)].user

\* FAIL stands for every code but the two the code tells apart.
Codes == {"SUCCESS", "CANCELED", "FAIL"}

Op(op, c) == [op |-> op, ctx |-> c]

VARIABLES
    clock,            \* steady_clock, ticking when a context is constructed
    createTime,       \* Context::createTime_, 0 before the construction
    waitingFifo,      \* ContextPoolImpl::waitingFifo_
    running,          \* ContextPoolImpl::runningContexts_
    cancelRequested,  \* ContextPoolImpl::cancelRequestedIds_
    tasks,            \* the queue of the event thread
    todo,             \* per thread, the rest of the call it is in
    phase,            \* how far a context is
    told,             \* the started contexts whose Stop was called
    dialog,           \* the sudos with dialogActive_
    cancelCalls,      \* the calls of Cancel and CancelAll so far
    cancelled,        \* when a context was first cancelled
    answers           \* what callback_->OnResult was called with

poolVars == <<waitingFifo, running, cancelRequested>>
contextVars == <<phase, told, dialog, answers>>
vars == <<clock, createTime, poolVars, tasks, todo, contextVars, cancelCalls, cancelled>>

Pooled == running \cup ToSet(waitingFifo)

Init ==
  /\ clock = 0
  /\ createTime = [c \in Contexts |-> 0]
  /\ waitingFifo = <<>>
  /\ running = {}
  /\ cancelRequested = {}
  /\ tasks = <<>>
  /\ todo = [t \in Threads |-> <<>>]
  /\ phase = [c \in Contexts |-> "none"]
  /\ told = {}
  /\ dialog = {}
  /\ cancelCalls = 0
  /\ cancelled = [c \in Contexts |-> "never"]
  /\ answers = [c \in Contexts |-> <<>>]

-------------------------------------------------------------------------------
(* The admission policy.                                                   *)

IsPrimaryContext(c) == c \in Requests

BearsPin(c) == c \in Requests => Attr[c].pin

BlockedBySudoPinContention(self, predecessor) ==
  /\ User(self) # 0
  /\ User(self) = User(predecessor)
  /\ BearsPin(self) /\ BearsPin(predecessor)
  /\ Kind(self) = "sudo" \/ Kind(predecessor) = "sudo"

Contends(self, predecessor) ==
  /\ IsPrimaryContext(self) /\ IsPrimaryContext(predecessor)
  /\ BlockedBySudoPinContention(self, predecessor)

CanStart(self, predecessors) == \A p \in predecessors : ~Contends(self, p)

\* The caller's record stands for its name and, for this pool, its authType.
IsSameCallerDuplicate(incoming, existing) ==
  /\ IsPrimaryContext(incoming) /\ IsPrimaryContext(existing)
  /\ Attr[incoming] = Attr[existing]

\* GetPreemptDecision(newRequest) = STOP_NOW of a sudo, of a widget, of the others.
SudoYields(s, new) ==
  /\ s \in dialog
  /\ IsPrimaryContext(new)
  /\ \/ Kind(new) \in {"sudo", "widget"}
     \/ User(new) # 0 /\ User(new) = User(s) /\ BearsPin(new)

WidgetYields(new) == Kind(new) = "widget"

Yields(c, new) ==
  \/ Kind(c) = "sudo" /\ SudoYields(c, new)
  \/ Kind(c) = "widget" /\ WidgetYields(new)

-------------------------------------------------------------------------------
(* PromoteWaitingLocked: each waiter is judged against everything running  *)
(* and every waiter in front of it; the members it displaces are stopped   *)
(* whether or not it can start.                                            *)

\* Mutant: the waiters in front are not looked at.
PredecessorsRunning(fifo, i, run) == run

Predecessors(fifo, i, run) == run \cup {fifo[j] : j \in 1..(i - 1)}

Displaces(waiter, member) ==
  /\ createTime[waiter] > createTime[member]
  /\ IsSameCallerDuplicate(waiter, member) \/ Yields(member, waiter)

Victims(fifo, run) ==
  UNION {{m \in Predecessors(fifo, i, run) : Displaces(fifo[i], m)} : i \in DOMAIN fifo}

Visible(fifo, i, run) == {m \in Predecessors(fifo, i, run) : ~Displaces(fifo[i], m)}

Admitted(fifo, run) == {fifo[i] : i \in {j \in DOMAIN fifo : CanStart(fifo[j], Visible(fifo, j, run))}}

\* The members of the queue that are in cs, in their order.
Keep(fifo, cs) ==
  LET kept[i \in 0..Len(fifo)] ==
        IF i = 0 THEN <<>>
        ELSE IF fifo[i] \in cs THEN Append(kept[i - 1], fifo[i]) ELSE kept[i - 1]
  IN  kept[Len(fifo)]

OpsFor(op, cs) == [i \in DOMAIN cs |-> Op(op, cs[i])]

\* Mutant: the starts are posted in front of the stops.
PlansStartFirst(fifo, run) ==
  {OpsFor("postStart", Keep(fifo, Admitted(fifo, run))) \o OpsFor("postStop", stops) :
     stops \in SetToSeqs(Victims(fifo, run))}

\* The plan of ExecutePlan: the stops in the order of the random context ids,
\* then the starts in queue order.
Plans(fifo, run) ==
  {OpsFor("postStop", stops) \o OpsFor("postStart", Keep(fifo, Admitted(fifo, run))) :
     stops \in SetToSeqs(Victims(fifo, run))}

PromoteWaiting(t, fifo, run) ==
  /\ waitingFifo' = Keep(fifo, ToSet(fifo) \ Admitted(fifo, run))
  /\ running' = run \cup Admitted(fifo, run)
  /\ \E plan \in Plans(fifo, run) : todo' = [todo EXCEPT ![t] = plan \o Tail(@)]

-------------------------------------------------------------------------------
(* The steps of a thread.                                                  *)

At(t, op, c) == todo[t] # <<>> /\ Head(todo[t]) = Op(op, c)
Done(t) == todo' = [todo EXCEPT ![t] = Tail(@)]

Full == Cardinality(Pooled) >= MaxContexts

ScheduleAdmits(t, c) ==
  /\ At(t, "schedule", c)
  /\ ~Full
  /\ c \notin Pooled
  /\ PromoteWaiting(t, Append(waitingFifo, c), running)
  /\ UNCHANGED <<clock, createTime, cancelRequested, tasks, contextVars, cancelCalls, cancelled>>

\* The request's failGuard answers; for a child the sudo ends with GENERAL_ERROR.
ScheduleRefuses(t, c) ==
  LET payer == IF c \in Requests THEN c ELSE Parent(c) IN
  /\ At(t, "schedule", c)
  /\ Full \/ c \in Pooled
  /\ phase' = [phase EXCEPT ![c] = "end", ![payer] = "end"]
  /\ answers' = [answers EXCEPT ![payer] = Append(@, "FAIL")]
  /\ dialog' = dialog \ {payer}
  /\ todo' = [todo EXCEPT ![t] = <<Op("delete", payer)>> \o Tail(@)]
  /\ UNCHANGED <<clock, createTime, poolVars, tasks, told, cancelCalls, cancelled>>

NotifyPreemptStateChanged(t, c) ==
  /\ At(t, "notify", c)
  /\ PromoteWaiting(t, waitingFifo, running)
  /\ UNCHANGED <<clock, createTime, cancelRequested, tasks, contextVars, cancelCalls, cancelled>>

\* Mutant: nobody is admitted in the place of the deleted context.
DeleteOnly(t, c) ==
  /\ At(t, "delete", c)
  /\ Done(t)
  /\ waitingFifo' = Keep(waitingFifo, ToSet(waitingFifo) \ {c})
  /\ running' = running \ {c}
  /\ UNCHANGED <<clock, createTime, cancelRequested, tasks, contextVars, cancelCalls, cancelled>>

Delete(t, c) ==
  /\ At(t, "delete", c)
  /\ IF c \in Pooled
     THEN PromoteWaiting(t, Keep(waitingFifo, ToSet(waitingFifo) \ {c}), running \ {c})
     ELSE Done(t) /\ UNCHANGED <<waitingFifo, running>>
  /\ UNCHANGED <<clock, createTime, cancelRequested, tasks, contextVars, cancelCalls, cancelled>>

When(c) ==
  CASE c \notin Pooled -> "unpooled"
    [] c \in Pooled /\ phase[c] = "new" -> "unstarted"
    [] OTHER -> "started"

\* Cancel: the flag under the lock, the stop task after it.
Cancel(t, c) ==
  /\ At(t, "cancel", c)
  /\ cancelRequested' = cancelRequested \cup {c}
  /\ todo' = [todo EXCEPT ![t] = <<Op("postStop", c)>> \o Tail(@)]
  /\ cancelled' = [cancelled EXCEPT ![c] = IF @ = "never" THEN When(c) ELSE @]
  /\ UNCHANGED <<clock, createTime, waitingFifo, running, tasks, contextVars, cancelCalls>>

PostTask(t, c) ==
  /\ \/ At(t, "postStop", c) /\ tasks' = Append(tasks, Op("stop", c))
     \/ At(t, "postStart", c) /\ tasks' = Append(tasks, Op("start", c))
  /\ Done(t)
  /\ UNCHANGED <<clock, createTime, poolVars, contextVars, cancelCalls, cancelled>>

Step(t) ==
  \E c \in Contexts :
    \/ ScheduleAdmits(t, c)
    \/ ScheduleRefuses(t, c)
    \/ NotifyPreemptStateChanged(t, c)
    \/ Delete(t, c)
    \/ Cancel(t, c)
    \/ PostTask(t, c)

-------------------------------------------------------------------------------
(* The contexts, as the pool sees them.                                    *)

Idle(t) == todo[t] = <<>>

\* ContextFactory constructs the context before the same thread schedules it.
Create(r) ==
  /\ phase[r] = "none"
  /\ clock' = clock + 1
  /\ createTime' = [createTime EXCEPT ![r] = clock + 1]
  /\ phase' = [phase EXCEPT ![r] = "new"]
  /\ todo' = [todo EXCEPT ![r] = <<Op("schedule", r)>>]
  /\ UNCHANGED <<poolVars, tasks, told, dialog, answers, cancelCalls, cancelled>>

\* Mutant: the child's result is forwarded as it is.
SudoCodeForwards(s, code) == code

\* OnChildResult: a sudo that was told to stop reports CANCELED whatever its
\* child says.
SudoCode(s, code) == IF s \in told THEN "CANCELED" ELSE code

\* c reports code on thread t and is then in phase next; "end" runs its cleaner.
Report(t, c, code, next) ==
  LET bye == IF next = "end" THEN <<Op("delete", c)>> ELSE <<>> IN
  IF c \in Children /\ phase[Parent(c)] = "run"
  THEN LET s == Parent(c) IN
       /\ answers' = [answers EXCEPT ![c] = Append(@, code),
                                     ![s] = Append(@, SudoCode(s, code))]
       /\ phase' = [phase EXCEPT ![c] = next, ![s] = "end"]
       /\ dialog' = dialog \ {s}
       /\ todo' = [todo EXCEPT ![t] = <<Op("delete", s)>> \o bye]
  ELSE /\ answers' = [answers EXCEPT ![c] = Append(@, code)]
       /\ phase' = [phase EXCEPT ![c] = next]
       /\ todo' = [todo EXCEPT ![t] = bye]
       /\ UNCHANGED dialog

\* StopIfPooled and StartIfPooled run as tasks of the event thread.
Take(op, c) ==
  /\ Idle(EventThread)
  /\ tasks # <<>>
  /\ Head(tasks) = Op(op, c)
  /\ tasks' = Tail(tasks)
  /\ cancelRequested' = IF op = "stop" THEN cancelRequested \ {c} ELSE cancelRequested
  /\ UNCHANGED <<waitingFifo, running, cancelCalls, cancelled>>

\* StopIfPooled of a context that left the pool or already has its result.
StopTooLate(c) ==
  /\ Take("stop", c)
  /\ c \notin Pooled \/ phase[c] \in {"done", "end"}
  /\ UNCHANGED <<clock, createTime, todo, contextVars>>

Stoppable(c) ==
  /\ Take("stop", c)
  /\ c \in Pooled
  /\ UNCHANGED <<clock, createTime>>

StopBeforeStart(c) ==
  /\ Stoppable(c)
  /\ phase[c] = "new"
  /\ Report(EventThread, c, "CANCELED", "end")
  /\ UNCHANGED told

\* OnStop asks the schedule to stop; the schedule reports later.
StopSimple(c) ==
  /\ Stoppable(c)
  /\ phase[c] = "run"
  /\ Kind(c) = "simple"
  /\ told' = told \cup {c}
  /\ UNCHANGED <<phase, todo, dialog, answers>>

\* OnStop of a widget reports at once.
StopWidget(c) ==
  /\ Stoppable(c)
  /\ phase[c] = "run"
  /\ Kind(c) = "widget"
  /\ Report(EventThread, c, "CANCELED", "done")
  /\ UNCHANGED told

\* Mutant: a stopped sudo reports at once and leaves its child alone.
StopSudoAtOnce(s) ==
  /\ Stoppable(s)
  /\ phase[s] = "run"
  /\ Kind(s) = "sudo"
  /\ Report(EventThread, s, "CANCELED", "end")
  /\ UNCHANGED told

\* OnStop of a sudo cancels the child and waits for its result.
StopSudo(s) ==
  /\ Stoppable(s)
  /\ phase[s] = "run"
  /\ Kind(s) = "sudo"
  /\ told' = told \cup {s}
  /\ \E child \in ChildrenOf(s) :
       /\ phase[child] # "none"
       /\ todo' = [todo EXCEPT ![EventThread] = <<Op("cancel", child)>>]
  /\ UNCHANGED <<phase, dialog, answers>>

\* StartIfPooled of a context that left the pool or is being cancelled.
StartTooLate(c) ==
  /\ Take("start", c)
  /\ c \notin running \/ c \in cancelRequested \/ phase[c] \in {"done", "end"}
  /\ UNCHANGED <<clock, createTime, todo, contextVars>>

\* Mutant: the mark of a pending cancel is not looked at.
StartableThoughCancelled(c) ==
  /\ Take("start", c)
  /\ c \in running
  /\ UNCHANGED told

Startable(c) ==
  /\ Take("start", c)
  /\ c \in running
  /\ c \notin cancelRequested
  /\ UNCHANGED told

\* OnStart fails, a sudo finds no usable PIN, or the context was started before.
StartFails(c) ==
  /\ Startable(c)
  /\ phase[c] \in {"new", "run"}
  /\ Report(EventThread, c, "FAIL", "end")
  /\ UNCHANGED <<clock, createTime>>

StartContext(c) ==
  /\ Startable(c)
  /\ phase[c] = "new"
  /\ Kind(c) # "sudo"
  /\ phase' = [phase EXCEPT ![c] = "run"]
  /\ UNCHANGED <<clock, createTime, todo, dialog, answers>>

\* DispatchByProfile: the last attempt raises the dialog, otherwise the child is silent.
StartSudo(s) ==
  /\ Startable(s)
  /\ phase[s] = "new"
  /\ Kind(s) = "sudo"
  /\ \E child \in ChildrenOf(s) :
       /\ clock' = clock + 1
       /\ createTime' = [createTime EXCEPT ![child] = clock + 1]
       /\ phase' = [phase EXCEPT ![s] = "run", ![child] = "new"]
       /\ IF Kind(child) = "widget"
          THEN /\ dialog' = dialog \cup {s}
               /\ todo' = [todo EXCEPT ![EventThread] = <<Op("notify", s), Op("schedule", child)>>]
          ELSE /\ todo' = [todo EXCEPT ![EventThread] = <<Op("schedule", child)>>]
               /\ UNCHANGED dialog
  /\ UNCHANGED answers

\* A started context reports its result; the timer thread gives up a widget
\* whose schedule was released while its own children were still running.
Finish(t, c, code) ==
  /\ Idle(t)
  /\ phase[c] = "run"
  /\ Kind(c) # "sudo"
  /\ \/ t = EventThread
     \/ t = TimerThread /\ Kind(c) = "widget" /\ code = "CANCELED"
  /\ Report(t, c, code, IF Kind(c) = "widget" /\ t = EventThread THEN "done" ELSE "end")
  /\ UNCHANGED <<clock, createTime, poolVars, tasks, told, cancelCalls, cancelled>>

\* EndLocked of a widget that delivered its result: by the release of its
\* schedule, or by the terminate timer.
Release(t, c) ==
  /\ t \in {EventThread, TimerThread}
  /\ Idle(t)
  /\ phase[c] = "done"
  /\ phase' = [phase EXCEPT ![c] = "end"]
  /\ todo' = [todo EXCEPT ![t] = <<Op("delete", c)>>]
  /\ UNCHANGED <<clock, createTime, poolVars, tasks, told, dialog, answers, cancelCalls, cancelled>>

\* A client cancels, dies or leaves the foreground: CancelAuthOrIdentify and the
\* app state observer look the context up first, the death recipient does not.
RequestCancel(c) ==
  /\ cancelCalls < MaxCancels
  /\ c \in Pooled \/ (c \in Requests /\ phase[c] # "none")
  /\ cancelCalls' = cancelCalls + 1
  /\ todo' = [todo EXCEPT ![cancelCalls + 1] = <<Op("cancel", c)>>]
  /\ UNCHANGED <<clock, createTime, poolVars, tasks, contextVars, cancelled>>

\* The account service went away: everything pooled at this moment is cancelled.
CancelAll ==
  /\ cancelCalls < MaxCancels
  /\ Pooled # {}
  /\ cancelCalls' = cancelCalls + 1
  /\ \E cs \in SetToSeqs(running) :
       todo' = [todo EXCEPT ![cancelCalls + 1] = OpsFor("cancel", cs \o waitingFifo)]
  /\ UNCHANGED <<clock, createTime, poolVars, tasks, contextVars, cancelled>>

RunTask(c) ==
  \/ StopTooLate(c)
  \/ StopBeforeStart(c)
  \/ StopSimple(c)
  \/ StopWidget(c)
  \/ StopSudo(c)
  \/ StartTooLate(c)
  \/ StartFails(c)
  \/ StartContext(c)
  \/ StartSudo(c)

Next ==
  \/ \E t \in Threads : Step(t)
  \/ \E r \in Requests : Create(r)
  \/ \E c \in Contexts : RunTask(c)
  \/ \E t \in {EventThread, TimerThread}, c \in Contexts, code \in Codes : Finish(t, c, code)
  \/ \E t \in {EventThread, TimerThread}, c \in Contexts : Release(t, c)
  \/ \E c \in Contexts : RequestCancel(c)
  \/ CancelAll

Spec == Init /\ [][Next]_vars

\* The threads run, a started context comes to its result (its schedule ends or
\* its user gives up) and the terminate timer releases a widget.
Fairness ==
  /\ \A t \in Threads : WF_vars(Step(t))
  /\ WF_vars(\E c \in Contexts : RunTask(c))
  /\ \A c \in Contexts : WF_vars(\E code \in Codes : Finish(EventThread, c, code))
  /\ \A c \in Contexts : WF_vars(Release(TimerThread, c))

FairSpec == Spec /\ Fairness

-------------------------------------------------------------------------------
(* Properties.                                                             *)

\* Two requests that contend for the PIN of a user, one of them a sudo, are
\* never under way together unless the pool has already called Stop on one: the
\* stops of a plan reach the event thread before its starts (ExecutePlan), and a
\* waiter is also judged against the waiters in front of it.
PinSlotExclusive ==
  \A x, y \in Requests :
    x # y /\ phase[x] = "run" /\ phase[y] = "run" /\ Contends(x, y)
      => x \in told \/ y \in told

\* A request never overtakes a contending one that was queued before it, unless
\* that one is being stopped by the same admission round (PromoteWaitingLocked).
NoOvertaking ==
  [][ \A i, j \in DOMAIN waitingFifo :
        i < j /\ Contends(waitingFifo[j], waitingFifo[i])
              /\ waitingFifo[j] \in running' /\ waitingFifo[i] \in ToSet(waitingFifo')
          => \E t \in Threads : Op("postStop", waitingFifo[i]) \in ToSet(todo'[t]) ]_vars

\* A context that was cancelled after it was pooled and before it started is
\* never started, whichever of its start and its stop is posted first
\* (cancelRequestedIds_ in StartIfPooled).
CancelledNeverStarts ==
  \A c \in Contexts : cancelled[c] = "unstarted" => phase[c] \notin {"run", "done"}

\* The child of a sudo never outlives the sudo: whatever ends the sudo has ended
\* the child first, so no silent authentication goes on for an answered request.
ChildHasParent ==
  \A c \in Children : phase[c] \in {"new", "run"} => phase[Parent(c)] = "run"

\* Each context gives its caller at most one answer, and a sudo that was told to
\* stop never answers SUCCESS, not even when the stop crosses its child's success
\* (startFailDelivered_, OnChildResult, EndWithResult).
Promise(c) == INSTANCE OneShot WITH givenUp <- c \in told /\ Kind(c) = "sudo", answers <- answers[c]
KeepsPromise ==
  /\ \A c \in Contexts : Promise(c)!Init
  /\ [][\A c \in Contexts : [Promise(c)!Next]_(Promise(c)!vars)]_vars

\* Every constructed request is answered and leaves the pool, and so does every
\* child: Delete admits the waiters behind it, a stopped member is really stopped
\* and a sudo does not wait for a child that waits for it.
EveryoneLeaves ==
  \A c \in Contexts : phase[c] = "new" ~> phase[c] = "end" /\ c \notin Pooled

\* The window of the widgets is replace-only: two sessions are never live together.
OneLiveWidget ==
  \A x, y \in Contexts :
    Kind(x) = "widget" /\ Kind(y) = "widget" /\ phase[x] = "run" /\ phase[y] = "run" => x = y
===============================================================================
