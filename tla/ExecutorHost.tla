----------------------------- MODULE ExecutorHost -----------------------------
(***************************************************************************)
(* An executor in its driver process: the commands the framework begins on *)
(* it, the results the HDI service gives for them, and the disconnection   *)
(* that must answer every command the HDI will not answer any more.        *)
(*                                                                         *)
(* A command is begun by a binder thread, finished by a thread of the HDI  *)
(* and, on a disconnection, by the thread that runs Driver::OnHdiDisconnect.*)
(* Driver makes a new Executor for the next connection, so one Executor    *)
(* sees one disconnection.                                                 *)
(***************************************************************************)
EXTENDS Naturals, Sequences

CONSTANTS
    Commands,  \* the commands begun on this executor
    Custom,    \* those begun by OnSetProperty; the others run for a schedule
    MaxTips,   \* bound on the tips and messages a command sends
    None       \* no command

ASSUME HostAssumption ==
  /\ Custom \subseteq Commands
  /\ MaxTips \in Nat
  /\ None \notin Commands

VARIABLES
    hdi,          \* Executor::executorHdi_ is there
    respond,      \* Executor::command2Respond_
    messenger,    \* FrameworkExecutorCallback::executorMessenger_ is there
    holding,      \* the commands constructed with a messenger
    begin,        \* how far StartProcess of a command is
    finished,     \* isFinished_ of a command; "busy" while OnResult holds its lock
    sent,         \* what a command gave to its messenger
    stage,        \* how far OnHdiDisconnect is
    toNotify,     \* command2NotifyOnHdiDisconnect, the part still ahead
    notifying,    \* the command whose OnHdiDisconnect is under way
    released      \* nobody holds the executor any more

commandVars == <<respond, holding, begin, finished, sent>>
disconnectVars == <<stage, toNotify, notifying>>
vars == <<hdi, messenger, commandVars, disconnectVars, released>>

BeginStates == {"none", "added", "request", "answering", "failed", "accepted", "refused"}

TypeOK ==
  /\ hdi \in BOOLEAN
  /\ respond \in SUBSET Commands
  /\ messenger \in BOOLEAN
  /\ holding \in SUBSET (Commands \ Custom)
  /\ begin \in [Commands -> BeginStates]
  /\ finished \in [Commands -> {"no", "busy", "yes"}]
  /\ sent \in [Commands -> Seq({"tip", "finish"})]
  /\ \A c \in Commands : Len(sent[c]) <= MaxTips + 1
  /\ stage \in {"connected", "cleared", "notify", "done"}
  /\ toNotify \in SUBSET Commands
  /\ notifying \in Commands \cup {None}
  /\ released \in BOOLEAN

Init ==
  /\ hdi = TRUE
  /\ respond = {}
  /\ messenger = FALSE
  /\ holding = {}
  /\ begin = [c \in Commands |-> "none"]
  /\ finished = [c \in Commands |-> "no"]
  /\ sent = [c \in Commands |-> <<>>]
  /\ stage = "connected"
  /\ toNotify = {}
  /\ notifying = None
  /\ released = FALSE

-------------------------------------------------------------------------------
(* Beginning a command.                                                    *)

InStartProcess(c) == begin[c] \in {"added", "request", "answering", "failed"}

\* FrameworkExecutorCallback::mutex_ is held from the construction of a command
\* of a schedule to the end of its StartProcess; a custom command takes no lock.
CallbackLocked == \E c \in Commands \ Custom : InStartProcess(c)

MayBegin(c) ==
  /\ begin[c] = "none"
  /\ c \notin Custom => ~CallbackLocked

OnMessengerReady ==
  /\ ~CallbackLocked
  /\ ~released /\ hdi
  /\ messenger' = TRUE
  /\ UNCHANGED <<hdi, commandVars, disconnectVars, released>>

\* The command is listed before the HDI is looked at.
StartProcess(c) ==
  /\ MayBegin(c)
  /\ ~released
  /\ begin' = [begin EXCEPT ![c] = "added"]
  /\ respond' = respond \cup {c}
  /\ holding' = IF messenger /\ c \notin Custom THEN holding \cup {c} ELSE holding
  /\ UNCHANGED <<hdi, messenger, finished, sent, disconnectVars, released>>

StartProcessReleased(c) ==
  /\ MayBegin(c)
  /\ released
  /\ begin' = [begin EXCEPT ![c] = "refused"]
  /\ UNCHANGED <<hdi, messenger, respond, holding, finished, sent, disconnectVars, released>>

\* SendRequest: the HDI pointer is read once, and an attribute may be missing.
SendRequest(c) ==
  /\ begin[c] = "added"
  /\ \/ hdi /\ begin' = [begin EXCEPT ![c] = "request"]
     \/ begin' = [begin EXCEPT ![c] = "failed"]
  /\ UNCHANGED <<hdi, messenger, respond, holding, finished, sent, disconnectVars, released>>

\* What the HDI call returns.  A refused custom command answers itself first.
HdiReturns(c) ==
  /\ begin[c] = "request"
  /\ \/ begin' = [begin EXCEPT ![c] = "accepted"]
     \/ begin' = [begin EXCEPT ![c] = IF c \in Custom THEN "answering" ELSE "failed"]
  /\ UNCHANGED <<hdi, messenger, respond, holding, finished, sent, disconnectVars, released>>

RefusalAnswered(c) ==
  /\ begin[c] = "answering"
  /\ finished[c] = "yes"
  /\ begin' = [begin EXCEPT ![c] = "failed"]
  /\ UNCHANGED <<hdi, messenger, respond, holding, finished, sent, disconnectVars, released>>

\* Mutant: a command that could not be sent stays listed.
StartProcessFailsListed(c) ==
  /\ begin[c] = "failed"
  /\ begin' = [begin EXCEPT ![c] = "refused"]
  /\ UNCHANGED <<hdi, messenger, respond, holding, finished, sent, disconnectVars, released>>

StartProcessFails(c) ==
  /\ begin[c] = "failed"
  /\ begin' = [begin EXCEPT ![c] = "refused"]
  /\ respond' = respond \ {c}
  /\ UNCHANGED <<hdi, messenger, holding, finished, sent, disconnectVars, released>>

-------------------------------------------------------------------------------
(* Answering a command.                                                    *)

Send(c, what) ==
  sent' = IF c \in holding THEN [sent EXCEPT ![c] = Append(@, what)] ELSE sent

\* Mutant: a command that is finished answers again.
OnResultAgain(c) ==
  /\ finished[c] # "busy"
  /\ finished' = [finished EXCEPT ![c] = "busy"]
  /\ Send(c, "finish")
  /\ UNCHANGED <<hdi, messenger, respond, holding, begin, disconnectVars, released>>

\* OnResult up to OnResultInner: MessengerFinish, or SetResult of a custom command.
OnResult(c) ==
  /\ finished[c] = "no"
  /\ finished' = [finished EXCEPT ![c] = "busy"]
  /\ Send(c, "finish")
  /\ UNCHANGED <<hdi, messenger, respond, holding, begin, disconnectVars, released>>

\* The rest of OnResult: RemoveCommand, and the lock is given back.
EndProcess(c) ==
  /\ finished[c] = "busy"
  /\ finished' = [finished EXCEPT ![c] = "yes"]
  /\ respond' = respond \ {c}
  /\ UNCHANGED <<hdi, messenger, holding, begin, sent, disconnectVars, released>>

\* The HDI may call back before its own call has returned.
HdiCallsBack(c) == begin[c] \in {"request", "accepted"}

HdiResult(c) == HdiCallsBack(c) /\ OnResult(c)

AnswerRefusal(c) == begin[c] = "answering" /\ OnResult(c)

\* OnAcquireInfo and OnMessage.
HdiTip(c) ==
  /\ HdiCallsBack(c)
  /\ finished[c] = "no"
  /\ Len(sent[c]) < MaxTips
  /\ Send(c, "tip")
  /\ UNCHANGED <<hdi, messenger, respond, holding, begin, finished, disconnectVars, released>>

-------------------------------------------------------------------------------
(* The disconnection.                                                      *)

OnHdiDisconnect ==
  /\ stage = "connected"
  /\ hdi' = FALSE
  /\ stage' = "cleared"
  /\ UNCHANGED <<messenger, commandVars, toNotify, notifying, released>>

\* Mutant: commands count from the moment the HDI accepted them.
CopyAccepted ==
  /\ stage = "cleared"
  /\ toNotify' = {c \in respond : begin[c] = "accepted"}
  /\ stage' = "notify"
  /\ UNCHANGED <<hdi, messenger, commandVars, notifying, released>>

\* RespondCallbackOnDisconnect copies the set under the lock and calls outside it.
CopyCommands ==
  /\ stage = "cleared"
  /\ toNotify' = respond
  /\ stage' = "notify"
  /\ UNCHANGED <<hdi, messenger, commandVars, notifying, released>>

NotifyNext(c) ==
  /\ stage = "notify"
  /\ notifying = None
  /\ c \in toNotify
  /\ notifying' = c
  /\ toNotify' = toNotify \ {c}
  /\ UNCHANGED <<hdi, messenger, commandVars, stage, released>>

Notify(c) == notifying = c /\ OnResult(c)

\* Mutant: the call returns only when it was the one that finished the command.
NotifyReturnsUnlocked(c) ==
  /\ notifying = c
  /\ finished[c] = "busy"
  /\ notifying' = None
  /\ UNCHANGED <<hdi, messenger, commandVars, stage, toNotify, released>>

\* The call waits for the lock of the command and returns once it is finished.
NotifyReturns(c) ==
  /\ notifying = c
  /\ finished[c] = "yes"
  /\ notifying' = None
  /\ UNCHANGED <<hdi, messenger, commandVars, stage, toNotify, released>>

\* UnregisterExecutorCallback, and Driver forgets the executor.
Unregister ==
  /\ stage = "notify"
  /\ toNotify = {} /\ notifying = None
  /\ stage' = "done"
  /\ UNCHANGED <<hdi, messenger, commandVars, toNotify, notifying, released>>

\* A StartProcess under way still holds the executor.
Release ==
  /\ stage = "done"
  /\ ~released
  /\ \A c \in Commands : ~InStartProcess(c)
  /\ released' = TRUE
  /\ UNCHANGED <<hdi, messenger, commandVars, disconnectVars>>

-------------------------------------------------------------------------------
\* The thread that runs Driver::OnHdiDisconnect.
DisconnectStep ==
  \/ CopyCommands
  \/ Unregister
  \/ \E c \in Commands : NotifyNext(c) \/ Notify(c) \/ NotifyReturns(c)

Next ==
  \/ OnMessengerReady
  \/ OnHdiDisconnect
  \/ DisconnectStep
  \/ Release
  \/ \E c \in Commands :
       \/ StartProcess(c)
       \/ StartProcessReleased(c)
       \/ SendRequest(c)
       \/ HdiReturns(c)
       \/ AnswerRefusal(c)
       \/ RefusalAnswered(c)
       \/ StartProcessFails(c)
       \/ HdiResult(c)
       \/ HdiTip(c)
       \/ EndProcess(c)

Spec == Init /\ [][Next]_vars

\* The disconnecting thread and a thread inside OnResult go on.  The HDI need not
\* answer, and no call made to it need return.
HostFairness ==
  /\ WF_vars(DisconnectStep)
  /\ \A c \in Commands : WF_vars(EndProcess(c))

-------------------------------------------------------------------------------
(* Properties.                                                             *)

\* Once the disconnection is processed, every command the framework was told is
\* running has its result: no schedule waits for an HDI that is gone, however
\* StartProcess and Executor::OnHdiDisconnect crossed.
NoCommandLost ==
  stage = "done" => \A c \in Commands : begin[c] = "accepted" => finished[c] = "yes"

\* A result goes to the messenger once and nothing follows it, though the HDI and
\* the disconnection may both answer (AsyncCommandBase::OnResult, OnAcquireInfo).
ResultIsLast ==
  \A c \in Commands : \A i \in DOMAIN sent[c] : sent[c][i] = "finish" => i = Len(sent[c])

\* command2Respond_ holds exactly the commands that still owe an answer: a command
\* that was answered or refused is never answered by a later disconnection.
ListedOwesAnswer ==
  \A c \in Commands :
    (begin[c] = "refused" \/ finished[c] = "yes") => c \notin respond

\* A disconnection that has begun comes to its end, with every accepted command
\* answered: Executor::OnHdiDisconnect never waits for ever on a command.
DisconnectEnds ==
  stage # "connected" ~>
    stage = "done" /\ \A c \in Commands : begin[c] = "accepted" => finished[c] = "yes"
===============================================================================
