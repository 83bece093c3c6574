-------------------------- MODULE IdmService_proofs --------------------------
(***************************************************************************)
(* What UserIdmService keeps for any users and any number of requests: no  *)
(* enrolment cancels its successor in the engine, no template is lost      *)
(* sight of, and what is published and cached is what the engine has.      *)
(*                                                                         *)
(* The invariant has a part about control, which tasks of the event thread *)
(* can still be in its queue and in which order, and on top of it a part   *)
(* for each store: credentials, templates, announcements, counts, cache.   *)
(***************************************************************************)
EXTENDS IdmService, SequenceFacts

Statuses == {"none", "waiting", "starting", "started", "done"}
ContextType ==
  [st : Statuses, kind : {"enroll", "delete"}, user : Users, type : Types, old : Ids \cup {None},
   running : BOOLEAN, cancelled : BOOLEAN]
CredentialType == [id : Ids, user : Users, type : Types, abandoned : BOOLEAN]
UpdateType == [user : Users, old : Ids, new : Ids]
BusyType ==
  {Idle} \cup [id : Ids, n : Nat, step : {"committed", "checked", "counted", "unread"},
               infos : SUBSET CredentialType]
DeletionType == [users : SUBSET Users, infos : SUBSET CredentialType]
PinUpdateType == [user : Users \cup {None}, old : Ids \cup {None}, new : Ids \cup {None}]
GhostType ==
  [lost : SUBSET Ids, updates : SUBSET UpdateType, stale : SUBSET Users, victims : SUBSET Ids,
   uncached : BOOLEAN]
Tasks == ({"start", "stop", "failed", "succeeded"} \X Ids) \cup ({"user"} \X Accounts)
         \cup {<<"registered", None>>}

IdmTypeOK ==
  /\ creds \in SUBSET CredentialType /\ IsFiniteSet(creds)
  /\ enrolling \in [Users -> Ids \cup {None}]
  /\ templates \in SUBSET Ids
  /\ ctx \in [Ids -> ContextType]
  /\ queue \in Seq(Tasks)
  /\ busy \in BusyType
  /\ deletion \in DeletionType
  /\ tasks \in SUBSET (SUBSET CredentialType)
  /\ pinUpdate \in PinUpdateType
  /\ announced \in Seq(UpdateType)
  /\ published \in [Users -> Nat]
  /\ cache \in SUBSET Ids
  /\ currUserId \in Accounts \cup {None}
  /\ online \in BOOLEAN
  /\ ghost \in GhostType

\* A task in the queue is about a context that is where the task expects it.
QueueInv ==
  \A c \in Ids :
    /\ Once(queue, <<"start", c>>) /\ Once(queue, <<"failed", c>>) /\ Once(queue, <<"succeeded", c>>)
    /\ <<"start", c>> \in ToSet(queue) => ctx[c].st = "starting"
    /\ <<"failed", c>> \in ToSet(queue) => ctx[c].st = "started" /\ busy.id # c
    /\ <<"succeeded", c>> \in ToSet(queue) =>
         ctx[c].st = "started" /\ busy.id # c /\ <<"failed", c>> \notin ToSet(queue)

\* Every request cancels the enrolments before it.
LatestInv ==
  \A c, d \in Ids :
    c < d /\ ctx[d].st # "none" =>
      ctx[c].st # "none" /\ (ctx[c].kind = "enroll" => ctx[c].cancelled \/ ctx[c].st = "done")

\* One enrolment runs at a time: one that is cancelled is stopped before the next starts.
RunInv ==
  /\ \A c \in Ids : ctx[c].running =>
       ctx[c].st = "started" /\ ctx[c].kind = "enroll" /\ enrolling[ctx[c].user] \in {None, c}
  /\ \A c, d \in Ids : ctx[c].running /\ ctx[d].running => c = d
  /\ \A c \in Ids : ctx[c].running /\ ctx[c].cancelled =>
       /\ <<"stop", c>> \in ToSet(queue)
       /\ \A d \in Ids : ctx[d].kind = "enroll" /\ ~ctx[d].cancelled =>
            Before(queue, <<"stop", c>>, <<"start", d>>)

\* A credential is what its enrolment said; a request names a credential of its user.
CredInv ==
  /\ \A k \in creds :
       /\ ctx[k.id].kind = "enroll" /\ k.user = ctx[k.id].user /\ k.type = ctx[k.id].type
       /\ ctx[k.id].st = "done" \/ (ctx[k.id].st = "started" /\ busy.id = k.id)
  /\ \A k, m \in creds : k.id = m.id => k = m
  /\ \A c \in Ids : ctx[c].st # "none" =>
       /\ ctx[c].kind = "delete" => ctx[c].old # None
       /\ ctx[c].old # None => LET o == ctx[c].old
                               IN /\ ctx[o].st # "none"
                                  /\ ctx[o].user = ctx[c].user /\ ctx[o].type = ctx[c].type

\* The result the event thread is handling is in the engine.
BusyInv ==
  busy # Idle =>
    LET d == ctx[busy.id]
    IN /\ d.st = "started"
       /\ IsPinUpdate(d) => [user |-> d.user, old |-> d.old, new |-> busy.id] \in ghost.updates
       /\ d.kind = "delete" => d.old \notin IdsOf(creds)
       /\ \A k \in busy.infos : d.kind = "delete" /\ k.id = d.old

\* The replaced biometric credential, or the abandoned PIN, whose template the event thread
\* is still to delete.
Replaced ==
  IdsOf(busy.infos) \cup
  IF busy # Idle /\ ctx[busy.id].kind = "enroll" /\ ctx[busy.id].type # "PIN"
  THEN {ctx[busy.id].old} ELSE {}

TemplateInv ==
  /\ \A c \in templates : ctx[c].kind = "enroll" /\ ctx[c].st \in {"started", "done"}
  /\ \A c \in templates :
       \/ c \in IdsOf(creds) \/ c \in ghost.lost \/ c \in IdsOf(deletion.infos)
       \/ c \in UNION {IdsOf(i) : i \in tasks}
       \/ <<"succeeded", c>> \in ToSet(queue)
       \/ c \in Replaced

UpdateInv ==
  /\ \A x \in ghost.updates : ctx[x.old].st = "done"
  /\ \A i \in DOMAIN announced :
       /\ announced[i] \in ghost.updates /\ announced[i].old \notin IdsOf(creds)
       /\ ctx[announced[i].new].st = "done"
  /\ \A i, j \in DOMAIN announced : announced[i].new = announced[j].new => i = j
  /\ pinUpdate.old # None =>
       /\ [user |-> pinUpdate.user, old |-> pinUpdate.old, new |-> pinUpdate.new] \in ghost.updates
       /\ ctx[pinUpdate.new].st = "done"
       /\ \A i \in DOMAIN announced : announced[i].new # pinUpdate.new

\* A deletion of users that will publish that the PIN of u is gone.
HadPin(u) == \E k \in deletion.infos : k.user = u /\ k.type = "PIN" /\ ~k.abandoned

\* The event thread will publish the PIN count of u, unless the user is deleted first.
Pending(u) ==
  /\ busy # Idle /\ ctx[busy.id].user = u /\ ctx[busy.id].type = "PIN" /\ ~IsPinUpdate(ctx[busy.id])
  /\ busy.step # "unread"
  /\ busy.step = "committed" /\ IsNewPin(ctx[busy.id]) => busy.id \in IdsOf(InUse(u))

\* The count n of the PINs of u is right, up to those that an update replaced.
Right(u, n) == n - Cardinality(InUse(u)) \in 0..Cardinality(Superseded(u))

CountInv ==
  /\ \A k \in creds : k.abandoned => k.type = "PIN" /\ k.id \in Superseded(k.user)
  /\ \A k \in deletion.infos : k.user \in deletion.users
  /\ \A u \in deletion.users \ ghost.stale : InUse(u) = {}
  /\ \A u \in Users \ ghost.stale : Right(u, published[u]) \/ HadPin(u) \/ Pending(u)
  /\ busy.step = "counted" =>
       LET d == ctx[busy.id]
       IN d.type = "PIN" /\ d.user \notin ghost.stale => Right(d.user, busy.n)

CacheInv ==
  /\ ~online => cache = {}
  /\ \A c \in cache : ctx[c].st # "none" /\ (ghost.uncached \/ ctx[c].user = currUserId)

IdmInv ==
  /\ IdmTypeOK /\ QueueInv /\ LatestInv /\ RunInv /\ CredInv /\ BusyInv /\ TemplateInv
  /\ UpdateInv /\ CountInv /\ CacheInv /\ ghost.victims = {}

-------------------------------------------------------------------------------
(* What steps do to contexts and to the queue.                             *)

\* What a context asked for does not change.
SameRequest(c) ==
  /\ ctx'[c].kind = ctx[c].kind /\ ctx'[c].user = ctx[c].user
  /\ ctx'[c].type = ctx[c].type /\ ctx'[c].old = ctx[c].old

\* Only the context c moves, to the status st.
Moves(c, st) ==
  /\ ctx' \in [Ids -> ContextType]
  /\ \A d \in Ids : d # c => ctx'[d] = ctx[d]
  /\ SameRequest(c)
  /\ ctx'[c].cancelled <=> ctx[c].cancelled
  /\ ctx'[c].st = st

\* The contexts in S are cancelled.
Marks(S) ==
  /\ ctx' \in [Ids -> ContextType]
  /\ \A d \in Ids : /\ SameRequest(d) /\ ctx'[d].st = ctx[d].st
                    /\ ctx'[d].running <=> ctx[d].running
                    /\ ctx'[d].cancelled <=> ctx[d].cancelled \/ d \in S

\* No context is new, and none comes back.
Kept ==
  \A c \in Ids : /\ SameRequest(c)
                 /\ ctx'[c].st = "none" <=> ctx[c].st = "none"
                 /\ ctx[c].st = "done" => ctx'[c].st = "done"
                 /\ ctx[c].cancelled => ctx'[c].cancelled

\* The tasks that no context waits for.
Plain == {t \in Tasks : t[1] \in {"stop", "user", "registered"}}

\* The queue p has no other tasks of contexts than the queue q.
Calm(q, p) ==
  /\ p \in Seq(Tasks)
  /\ \A x \in Tasks \ Plain : /\ x \in ToSet(p) => x \in ToSet(q)
                              /\ Once(q, x) => Once(p, x)

LEMMA TaskFacts ==
  ASSUME NEW c \in Ids
  PROVE  /\ <<"start", c>> \in Tasks \ Plain
         /\ <<"failed", c>> \in Tasks \ Plain
         /\ <<"succeeded", c>> \in Tasks \ Plain
         /\ <<"stop", c>> \in Plain
         /\ \A u \in Accounts : <<"user", u>> \in Plain
         /\ <<"registered", None>> \in Plain
BY DEF Tasks, Plain

LEMMA StopTasksFacts ==
  ASSUME NEW S \in SUBSET Ids
  PROVE  StopTasks(S) \in Seq(Tasks) /\ ToSet(StopTasks(S)) = {<<"stop", c>> : c \in S}
<1> DEFINE T == {<<"stop", c>> : c \in S}
<1>1. IsFiniteSet(S)
  <2>1. IsFiniteSet(Ids)
    BY FS_Interval, IdmAssumption DEF Ids
  <2> QED
    BY <2>1, FS_Subset
<1>2. IsFiniteSet(T)
  <2> DEFINE f == [c \in S |-> <<"stop", c>>]
  <2>1. f \in Surjection(S, T)
    BY DEF Surjection
  <2> HIDE DEF f
  <2> QED
    BY <1>1, <2>1, FS_Surjection
<1>3. T \subseteq Tasks
  BY DEF Tasks
<1> HIDE DEF T
<1>4. SetToSeq(T) \in Seq(T) /\ ToSet(SetToSeq(T)) = T
  BY <1>2, SetToSeqFacts
<1>5. SetToSeq(T) \in Seq(Tasks)
  BY <1>3, <1>4
<1> QED
  BY <1>4, <1>5 DEF StopTasks, T

\* Tasks of the contexts are not touched by more plain tasks.
LEMMA CalmConcat ==
  ASSUME NEW q \in Seq(Tasks), NEW r \in Seq(Tasks), ToSet(r) \subseteq Plain
  PROVE  Calm(q, q \o r)
<1>1. /\ q \o r \in Seq(Tasks) /\ ToSet(q \o r) = ToSet(q) \cup ToSet(r)
      /\ \A x : Once(q, x) /\ Once(r, x) /\ ~(x \in ToSet(q) /\ x \in ToSet(r)) => Once(q \o r, x)
  BY ConcatFacts
<1>2. \A x : x \notin ToSet(r) => Once(r, x)
  BY AbsentFacts
<1> QED
  BY <1>1, <1>2 DEF Calm

LEMMA CalmAppend ==
  ASSUME NEW q \in Seq(Tasks), NEW e \in Plain
  PROVE  Calm(q, Append(q, e))
<1>1. e \in Tasks
  BY DEF Plain
<1>2. /\ Append(q, e) \in Seq(Tasks) /\ ToSet(Append(q, e)) = ToSet(q) \cup {e}
      /\ \A x : Once(q, x) /\ (x = e => x \notin ToSet(q)) => Once(Append(q, e), x)
  BY <1>1, AppendFacts
<1> QED
  BY <1>2 DEF Calm

LEMMA CalmTail ==
  ASSUME NEW q \in Seq(Tasks), q # <<>>
  PROVE  Calm(q, Tail(q))
<1>1. /\ Tail(q) \in Seq(Tasks) /\ ToSet(q) = {Head(q)} \cup ToSet(Tail(q))
      /\ \A x : Once(q, x) => Once(Tail(q), x)
  BY TailFacts
<1> QED
  BY <1>1 DEF Calm

LEMMA KeptFacts ==
  ASSUME IdmTypeOK
  PROVE  /\ ctx' = ctx => Kept
         /\ \A S : Marks(S) => Kept
         /\ \A c \in Ids, st \in Statuses \ {"none"} :
               Moves(c, st) /\ ctx[c].st \notin {"none", "done"} => Kept
<1>1. ctx' = ctx => Kept
  BY DEF Kept, SameRequest
<1>2. ASSUME NEW S, Marks(S) PROVE Kept
  BY <1>2 DEF Kept, Marks
<1>3. ASSUME NEW c \in Ids, NEW st \in Statuses \ {"none"}, Moves(c, st), ctx[c].st \notin {"none", "done"}
      PROVE  Kept
  BY <1>3 DEF Kept, Moves, SameRequest
<1> QED
  BY <1>1, <1>2, <1>3

\* A context that moves.
LEMMA MovesFacts ==
  ASSUME IdmTypeOK, NEW c \in Ids
  PROVE  /\ ctx' = Ended(c) => Moves(c, "done") /\ ~ctx'[c].running
         /\ ctx' = StartSchedule(c) => Moves(c, "started") /\ ctx'[c].running
         /\ \A st \in Statuses : ctx' = [ctx EXCEPT ![c].st = st] =>
               Moves(c, st) /\ (ctx'[c].running <=> ctx[c].running)
         /\ ctx' = [ctx EXCEPT ![c].running = FALSE] => Moves(c, ctx[c].st) /\ ~ctx'[c].running
<1>1. ctx \in [Ids -> ContextType] /\ ctx[c] \in ContextType
  BY DEF IdmTypeOK
<1>2. ASSUME NEW n \in ContextType, ctx' = [ctx EXCEPT ![c] = n]
      PROVE  /\ ctx' \in [Ids -> ContextType] /\ ctx'[c] = n
             /\ \A d \in Ids : d # c => ctx'[d] = ctx[d]
  BY <1>1, <1>2
<1>3. ASSUME ctx' = Ended(c) PROVE Moves(c, "done") /\ ~ctx'[c].running
  <2> DEFINE n == [ctx[c] EXCEPT !.st = "done", !.running = FALSE]
  <2>1. /\ n \in ContextType /\ n.st = "done" /\ ~n.running /\ n.kind = ctx[c].kind /\ n.user = ctx[c].user
        /\ n.type = ctx[c].type /\ n.old = ctx[c].old /\ (n.cancelled <=> ctx[c].cancelled)
    BY <1>1 DEF ContextType, Statuses
  <2>2. ctx' = [ctx EXCEPT ![c] = n]
    BY <1>1, <1>3 DEF Ended
  <2> HIDE DEF n
  <2> QED
    BY <1>2, <2>1, <2>2 DEF Moves, SameRequest
<1>4. ASSUME ctx' = StartSchedule(c) PROVE Moves(c, "started") /\ ctx'[c].running
  <2> DEFINE n == [ctx[c] EXCEPT !.st = "started", !.running = TRUE]
  <2>1. /\ n \in ContextType /\ n.st = "started" /\ n.running /\ n.kind = ctx[c].kind /\ n.user = ctx[c].user
        /\ n.type = ctx[c].type /\ n.old = ctx[c].old /\ (n.cancelled <=> ctx[c].cancelled)
    BY <1>1 DEF ContextType, Statuses
  <2>2. ctx' = [ctx EXCEPT ![c] = n]
    BY <1>1, <1>4 DEF StartSchedule
  <2> HIDE DEF n
  <2> QED
    BY <1>2, <2>1, <2>2 DEF Moves, SameRequest
<1>5. ASSUME NEW st \in Statuses, ctx' = [ctx EXCEPT ![c].st = st]
      PROVE  Moves(c, st) /\ (ctx'[c].running <=> ctx[c].running)
  <2> DEFINE n == [ctx[c] EXCEPT !.st = st]
  <2>1. /\ n \in ContextType /\ n.st = st /\ n.kind = ctx[c].kind /\ n.user = ctx[c].user
        /\ n.type = ctx[c].type /\ n.old = ctx[c].old /\ (n.cancelled <=> ctx[c].cancelled)
        /\ n.running <=> ctx[c].running
    BY <1>1 DEF ContextType
  <2>2. ctx' = [ctx EXCEPT ![c] = n]
    BY <1>1, <1>5
  <2> HIDE DEF n
  <2> QED
    BY <1>2, <2>1, <2>2 DEF Moves, SameRequest
<1>6. ASSUME ctx' = [ctx EXCEPT ![c].running = FALSE]
      PROVE  Moves(c, ctx[c].st) /\ ~ctx'[c].running
  <2> DEFINE n == [ctx[c] EXCEPT !.running = FALSE]
  <2>1. /\ n \in ContextType /\ n.st = ctx[c].st /\ ~n.running /\ n.kind = ctx[c].kind /\ n.user = ctx[c].user
        /\ n.type = ctx[c].type /\ n.old = ctx[c].old /\ (n.cancelled <=> ctx[c].cancelled)
    BY <1>1 DEF ContextType
  <2>2. ctx' = [ctx EXCEPT ![c] = n]
    BY <1>1, <1>6
  <2> HIDE DEF n
  <2> QED
    BY <1>2, <2>1, <2>2 DEF Moves, SameRequest
<1> QED
  BY <1>3, <1>4, <1>5, <1>6

LEMMA MarksFacts ==
  ASSUME IdmTypeOK, NEW S,
         ctx' = [c \in Ids |-> IF c \in S THEN [ctx[c] EXCEPT !.cancelled = TRUE] ELSE ctx[c]]
  PROVE  Marks(S)
<1>1. ASSUME NEW c \in Ids
      PROVE  /\ ctx'[c] \in ContextType /\ SameRequest(c) /\ ctx'[c].st = ctx[c].st
             /\ ctx'[c].running <=> ctx[c].running
             /\ ctx'[c].cancelled <=> ctx[c].cancelled \/ c \in S
  <2>1. ctx[c] \in ContextType
    BY DEF IdmTypeOK
  <2> DEFINE n == [ctx[c] EXCEPT !.cancelled = TRUE]
  <2>2. /\ n \in ContextType /\ n.st = ctx[c].st /\ n.cancelled /\ n.kind = ctx[c].kind /\ n.user = ctx[c].user
        /\ n.type = ctx[c].type /\ n.old = ctx[c].old /\ (n.running <=> ctx[c].running)
    BY <2>1 DEF ContextType
  <2>3. ctx'[c] = IF c \in S THEN n ELSE ctx[c]
    OBVIOUS
  <2> HIDE DEF n
  <2>4. CASE c \in S
    BY <2>2, <2>3, <2>4 DEF SameRequest
  <2>5. CASE c \notin S
    BY <2>1, <2>3, <2>5 DEF SameRequest
  <2> QED
    BY <2>4, <2>5
<1>2. ctx' \in [Ids -> ContextType]
  BY <1>1
<1> QED
  BY <1>1, <1>2 DEF Marks

-------------------------------------------------------------------------------
(* The parts of the invariant about control.                               *)

ControlInv == IdmTypeOK /\ QueueInv /\ LatestInv /\ RunInv

\* A task of a context is where the status says.
LEMMA QueueFacts ==
  ASSUME QueueInv, NEW c \in Ids
  PROVE  /\ ctx[c].st # "starting" => <<"start", c>> \notin ToSet(queue)
         /\ ctx[c].st # "started" \/ busy.id = c =>
              <<"failed", c>> \notin ToSet(queue) /\ <<"succeeded", c>> \notin ToSet(queue)
BY DEF QueueInv

\* A step that adds no task of a context.
LEMMA QueueCalm ==
  ASSUME QueueInv, Calm(queue, queue'),
         \A c \in Ids : \/ ctx'[c].st = ctx[c].st
                        \/ /\ <<"start", c>> \notin ToSet(queue')
                           /\ <<"failed", c>> \notin ToSet(queue')
                           /\ <<"succeeded", c>> \notin ToSet(queue'),
         \A c \in Ids : busy'.id = c =>
                        \/ busy.id = c
                        \/ <<"failed", c>> \notin ToSet(queue') /\ <<"succeeded", c>> \notin ToSet(queue')
  PROVE  QueueInv'
<1> SUFFICES ASSUME NEW c \in Ids
             PROVE  /\ Once(queue', <<"start", c>>) /\ Once(queue', <<"failed", c>>)
                    /\ Once(queue', <<"succeeded", c>>)
                    /\ <<"start", c>> \in ToSet(queue') => ctx'[c].st = "starting"
                    /\ <<"failed", c>> \in ToSet(queue') => ctx'[c].st = "started" /\ busy'.id # c
                    /\ <<"succeeded", c>> \in ToSet(queue') =>
                         ctx'[c].st = "started" /\ busy'.id # c /\ <<"failed", c>> \notin ToSet(queue')
  BY DEF QueueInv, Once, ToSet
<1>1. /\ <<"start", c>> \in Tasks \ Plain /\ <<"failed", c>> \in Tasks \ Plain
      /\ <<"succeeded", c>> \in Tasks \ Plain
  BY TaskFacts
<1>2. /\ Once(queue', <<"start", c>>) /\ Once(queue', <<"failed", c>>) /\ Once(queue', <<"succeeded", c>>)
      /\ <<"start", c>> \in ToSet(queue') => <<"start", c>> \in ToSet(queue)
      /\ <<"failed", c>> \in ToSet(queue') => <<"failed", c>> \in ToSet(queue)
      /\ <<"succeeded", c>> \in ToSet(queue') => <<"succeeded", c>> \in ToSet(queue)
  BY <1>1 DEF Calm, QueueInv
<1> QED
  BY <1>2 DEF QueueInv

\* One task more, of a context that had none.
LEMMA QueueGrows ==
  ASSUME IdmTypeOK, QueueInv, NEW c \in Ids, NEW kind \in {"start", "failed", "succeeded"},
         queue' = Append(queue, <<kind, c>>), <<kind, c>> \notin ToSet(queue), busy' = busy,
         \A d \in Ids : d # c => ctx'[d].st = ctx[d].st,
         kind = "start" => ctx[c].st = "waiting" /\ ctx'[c].st = "starting",
         kind # "start" => /\ ctx[c].st = "started" /\ ctx'[c].st = "started" /\ busy.id # c
                           /\ <<"failed", c>> \notin ToSet(queue) /\ <<"succeeded", c>> \notin ToSet(queue)
  PROVE  QueueInv'
<1> SUFFICES ASSUME NEW d \in Ids
             PROVE  /\ Once(queue', <<"start", d>>) /\ Once(queue', <<"failed", d>>)
                    /\ Once(queue', <<"succeeded", d>>)
                    /\ <<"start", d>> \in ToSet(queue') => ctx'[d].st = "starting"
                    /\ <<"failed", d>> \in ToSet(queue') => ctx'[d].st = "started" /\ busy'.id # d
                    /\ <<"succeeded", d>> \in ToSet(queue') =>
                         ctx'[d].st = "started" /\ busy'.id # d /\ <<"failed", d>> \notin ToSet(queue')
  BY DEF QueueInv, Once, ToSet
<1>1. queue \in Seq(Tasks) /\ <<kind, c>> \in Tasks
  BY DEF IdmTypeOK, Tasks
<1>2. /\ ToSet(queue') = ToSet(queue) \cup {<<kind, c>>}
      /\ \A x : Once(queue, x) /\ (x = <<kind, c>> => x \notin ToSet(queue)) => Once(queue', x)
  BY <1>1, AppendFacts
<1>3. Once(queue', <<"start", d>>) /\ Once(queue', <<"failed", d>>) /\ Once(queue', <<"succeeded", d>>)
  BY <1>2 DEF QueueInv
<1>4. CASE d # c
  BY <1>2, <1>3, <1>4 DEF QueueInv
<1>5. CASE d = c
  <2>1. ctx[c].st # "starting" => <<"start", c>> \notin ToSet(queue)
    BY QueueFacts
  <2>2. ctx[c].st # "started" => <<"failed", c>> \notin ToSet(queue) /\ <<"succeeded", c>> \notin ToSet(queue)
    BY QueueFacts
  <2> QED
    BY <1>2, <1>3, <1>5, <2>1, <2>2
<1> QED
  BY <1>4, <1>5

\* No context is new: the others stay behind the latest.
LEMMA LatestKept ==
  ASSUME LatestInv, Kept
  PROVE  LatestInv'
BY DEF LatestInv, Kept, SameRequest

\* Two enrolments that are neither cancelled nor over are one.
LEMMA LatestOne ==
  ASSUME LatestInv, NEW c \in Ids, NEW d \in Ids, ctx[c].kind = "enroll", ctx[d].kind = "enroll",
         ~ctx[c].cancelled, ~ctx[d].cancelled, ctx[c].st \notin {"none", "done"},
         ctx[d].st \notin {"none", "done"}
  PROVE  c = d
<1>1. c < d \/ d < c \/ c = d
  BY DEF Ids
<1> QED
  BY <1>1 DEF LatestInv

\* No enrolment begins: the ones that run go on running, or not.
LEMMA RunKept ==
  ASSUME IdmTypeOK, RunInv,
         \A c \in Ids : ctx'[c].running =>
            ctx[c].running /\ ctx'[c].st = "started" /\ SameRequest(c),
         \A c \in Ids : enrolling'[ctx[c].user] \in {enrolling[ctx[c].user], None},
         \A c \in Ids : ctx'[c].running /\ ctx'[c].cancelled =>
            /\ <<"stop", c>> \in ToSet(queue')
            /\ \A d \in Ids : ctx'[d].kind = "enroll" /\ ~ctx'[d].cancelled =>
                 Before(queue', <<"stop", c>>, <<"start", d>>)
  PROVE  RunInv'
<1>1. ASSUME NEW c \in Ids, ctx'[c].running
      PROVE  /\ ctx'[c].st = "started" /\ ctx'[c].kind = "enroll"
             /\ enrolling'[ctx'[c].user] \in {None, c}
  BY <1>1 DEF RunInv, SameRequest
<1>2. \A c, d \in Ids : ctx'[c].running /\ ctx'[d].running => c = d
  BY DEF RunInv
<1> QED
  BY <1>1, <1>2 DEF RunInv, Before, ToSet

\* No running enrolment is the victim of another.
LEMMA NoVictims ==
  ASSUME RunInv, NEW c \in Ids
  PROVE  Victims(c) = {}
BY DEF RunInv, Victims

-------------------------------------------------------------------------------
(* Each kind of move keeps the control.                                    *)

\* A stop behind every start that is already waiting: the enrolment that runs is the
\* only one that is not cancelled, so no start of another is in the queue.
LEMMA StopOrder ==
  ASSUME ControlInv, NEW r \in Seq(Tasks), NEW S \in SUBSET Ids,
         ToSet(r) = {<<"stop", c>> : c \in S},
         NEW c \in Ids, ctx[c].running, c \in S \/ ctx[c].cancelled,
         NEW d \in Ids,
         ctx[d].st = "none" \/ (ctx[d].kind = "enroll" /\ ~ctx[d].cancelled)
  PROVE  /\ <<"stop", c>> \in ToSet(queue \o r)
         /\ Before(queue \o r, <<"stop", c>>, <<"start", d>>)
<1>1. /\ ToSet(queue \o r) = ToSet(queue) \cup ToSet(r)
      /\ \A a, b : Before(queue, a, b) /\ (Before(r, a, b) \/ a \in ToSet(queue)) => Before(queue \o r, a, b)
  BY ConcatFacts DEF ControlInv, IdmTypeOK
<1>2. CASE <<"start", d>> \notin ToSet(queue)
  <2>1. <<"start", d>> \notin ToSet(queue \o r)
    BY <1>1, <1>2
  <2>2. Before(queue \o r, <<"stop", c>>, <<"start", d>>)
    BY <2>1, AbsentFacts
  <2>3. <<"stop", c>> \in ToSet(queue \o r)
    BY <1>1 DEF ControlInv, RunInv
  <2> QED
    BY <2>2, <2>3
<1>3. CASE <<"start", d>> \in ToSet(queue)
  <2>1. ctx[d].st = "starting" /\ ctx[d].kind = "enroll" /\ ~ctx[d].cancelled
    BY <1>3 DEF ControlInv, QueueInv
  <2>2. ctx[c].st = "started" /\ ctx[c].kind = "enroll"
    BY DEF ControlInv, RunInv
  <2>3. ctx[c].cancelled
    BY <2>1, <2>2, LatestOne DEF ControlInv
  <2>4. /\ <<"stop", c>> \in ToSet(queue)
        /\ Before(queue, <<"stop", c>>, <<"start", d>>)
    BY <2>1, <2>3 DEF ControlInv, RunInv
  <2> QED
    BY <1>1, <2>4
<1> QED
  BY <1>2, <1>3

\* OpenSession, Cancel and the deletions of users.
LEMMA CancelMove ==
  ASSUME ControlInv, NEW S \in SUBSET PooledEnrolls, queue' = queue \o StopTasks(S), Marks(S),
         busy' = busy, enrolling' = enrolling
  PROVE  queue' \in Seq(Tasks) /\ Kept /\ Calm(queue, queue') /\ QueueInv' /\ LatestInv' /\ RunInv'
<1>1. S \in SUBSET Ids
  BY DEF PooledEnrolls
<1> DEFINE r == StopTasks(S)
<1>2. r \in Seq(Tasks) /\ ToSet(r) = {<<"stop", c>> : c \in S}
  BY <1>1, StopTasksFacts
<1> HIDE DEF r
<1>3. queue' = queue \o r /\ queue \in Seq(Tasks)
  BY DEF r, ControlInv, IdmTypeOK
<1>4. ToSet(r) \subseteq Plain
  BY <1>1, <1>2, TaskFacts
<1>5. Calm(queue, queue')
  BY <1>2, <1>3, <1>4, CalmConcat
<1>6. QueueInv'
  BY <1>5, QueueCalm DEF ControlInv, Marks
<1>7. Kept
  BY KeptFacts DEF ControlInv
<1>8. LatestInv'
  BY <1>7, LatestKept DEF ControlInv
<1>9. \A c \in Ids : ctx'[c].running => ctx[c].running /\ ctx'[c].st = "started" /\ SameRequest(c)
  BY DEF Marks, ControlInv, RunInv
<1>10. ASSUME NEW c \in Ids, ctx'[c].running, ctx'[c].cancelled
       PROVE  /\ <<"stop", c>> \in ToSet(queue')
              /\ \A d \in Ids : ctx'[d].kind = "enroll" /\ ~ctx'[d].cancelled =>
                    Before(queue', <<"stop", c>>, <<"start", d>>)
  <2>1. ctx[c].running /\ (c \in S \/ ctx[c].cancelled)
    BY <1>10 DEF Marks
  <2>2. <<"stop", c>> \in ToSet(queue')
    <3>1. ToSet(queue') = ToSet(queue) \cup ToSet(r)
      BY <1>2, <1>3, ConcatFacts
    <3> QED
      BY <1>2, <2>1, <3>1 DEF ControlInv, RunInv
  <2>3. ASSUME NEW d \in Ids, ctx'[d].kind = "enroll", ~ctx'[d].cancelled
        PROVE  Before(queue', <<"stop", c>>, <<"start", d>>)
    <3>1. ctx[d].kind = "enroll" /\ ~ctx[d].cancelled
      BY <2>3 DEF Marks, SameRequest
    <3> QED
      BY <1>1, <1>2, <1>3, <2>1, <3>1, StopOrder
  <2> QED
    BY <2>2, <2>3
<1>11. RunInv'
  BY <1>9, <1>10, RunKept DEF ControlInv
<1> QED
  BY <1>5, <1>6, <1>7, <1>8, <1>11 DEF Calm

\* A new context: what it asks for, and what becomes of the others.
LEMMA NewFacts ==
  ASSUME IdmTypeOK, NEW c \in Ids, NEW kind \in {"enroll", "delete"}, NEW u \in Users,
         NEW type \in Types, NEW old \in Ids \cup {None}, NewContext(c, kind, u, type, old)
  PROVE  /\ ctx' \in [Ids -> ContextType] /\ ctx[c].st = "none"
         /\ \A d \in Ids : d < c => ctx[d].st # "none"
         /\ ctx'[c].st = "waiting" /\ ctx'[c].kind = kind /\ ctx'[c].user = u /\ ctx'[c].type = type
         /\ ctx'[c].old = old /\ ~ctx'[c].running /\ ~ctx'[c].cancelled
         /\ \A d \in Ids : d # c => /\ SameRequest(d) /\ ctx'[d].st = ctx[d].st
                                    /\ ctx'[d].running <=> ctx[d].running
                                    /\ ctx'[d].cancelled <=> ctx[d].cancelled \/ d \in PooledEnrolls
         /\ queue' = queue \o StopTasks(PooledEnrolls)
<1> DEFINE n == [NoContext EXCEPT !.st = "waiting", !.kind = kind, !.user = u, !.type = type, !.old = old]
<1>1. /\ n \in ContextType /\ n.st = "waiting" /\ n.kind = kind /\ n.user = u /\ n.type = type
      /\ n.old = old /\ ~n.running /\ ~n.cancelled
  BY DEF NoContext, ContextType, Statuses
<1>2. /\ ctx[c].st = "none" /\ \A d \in Ids : d < c => ctx[d].st # "none"
      /\ queue' = queue \o StopTasks(PooledEnrolls)
      /\ ctx' = [d \in Ids |->
               IF d = c THEN n
               ELSE IF d \in PooledEnrolls THEN [ctx[d] EXCEPT !.cancelled = TRUE] ELSE ctx[d]]
  BY DEF NewContext
<1> HIDE DEF n
<1>3. ctx'[c] = n
  BY <1>2
<1>4. ASSUME NEW d \in Ids, d # c
      PROVE  /\ ctx'[d] \in ContextType /\ SameRequest(d) /\ ctx'[d].st = ctx[d].st
             /\ ctx'[d].running <=> ctx[d].running
             /\ ctx'[d].cancelled <=> ctx[d].cancelled \/ d \in PooledEnrolls
  <2>1. ctx[d] \in ContextType
    BY DEF IdmTypeOK
  <2> DEFINE m == [ctx[d] EXCEPT !.cancelled = TRUE]
  <2>2. /\ m \in ContextType /\ m.st = ctx[d].st /\ m.cancelled /\ m.kind = ctx[d].kind /\ m.user = ctx[d].user
        /\ m.type = ctx[d].type /\ m.old = ctx[d].old /\ (m.running <=> ctx[d].running)
    BY <2>1 DEF ContextType
  <2>3. ctx'[d] = IF d \in PooledEnrolls THEN m ELSE ctx[d]
    BY <1>2, <1>4
  <2> HIDE DEF m
  <2>4. CASE d \in PooledEnrolls
    BY <2>2, <2>3, <2>4 DEF SameRequest
  <2>5. CASE d \notin PooledEnrolls
    BY <2>1, <2>3, <2>5 DEF SameRequest
  <2> QED
    BY <2>4, <2>5
<1>5. ctx' \in [Ids -> ContextType]
  <2>1. \A d \in Ids : ctx'[d] \in ContextType
    BY <1>1, <1>3, <1>4
  <2>2. ctx' = [d \in Ids |-> ctx'[d]]
    BY <1>2
  <2> QED
    BY <2>1, <2>2
<1> QED
  BY <1>1, <1>2, <1>3, <1>4, <1>5

LEMMA NewMove ==
  ASSUME ControlInv, NEW c \in Ids, NEW kind \in {"enroll", "delete"}, NEW u \in Users,
         NEW type \in Types, NEW old \in Ids \cup {None}, NewContext(c, kind, u, type, old),
         busy' = busy, enrolling' = enrolling
  PROVE  Calm(queue, queue') /\ QueueInv' /\ LatestInv' /\ RunInv'
<1>1. /\ ctx' \in [Ids -> ContextType] /\ ctx[c].st = "none"
      /\ \A d \in Ids : d < c => ctx[d].st # "none"
      /\ ctx'[c].st = "waiting" /\ ctx'[c].kind = kind /\ ~ctx'[c].running /\ ~ctx'[c].cancelled
      /\ \A d \in Ids : d # c => /\ SameRequest(d) /\ ctx'[d].st = ctx[d].st
                                 /\ ctx'[d].running <=> ctx[d].running
                                 /\ ctx'[d].cancelled <=> ctx[d].cancelled \/ d \in PooledEnrolls
      /\ queue' = queue \o StopTasks(PooledEnrolls)
  BY NewFacts DEF ControlInv
<1> DEFINE S == PooledEnrolls
           r == StopTasks(S)
<1>2. S \in SUBSET Ids
  BY DEF PooledEnrolls
<1>3. r \in Seq(Tasks) /\ ToSet(r) = {<<"stop", d>> : d \in S}
  BY <1>2, StopTasksFacts
<1> HIDE DEF r
<1>4. queue' = queue \o r /\ queue \in Seq(Tasks) /\ ctx \in [Ids -> ContextType]
  BY <1>1 DEF r, ControlInv, IdmTypeOK
<1>5. ToSet(r) \subseteq Plain
  BY <1>2, <1>3, TaskFacts
<1>6. Calm(queue, queue')
  BY <1>3, <1>4, <1>5, CalmConcat
<1>7. QueueInv'
  <2>1. /\ <<"start", c>> \notin ToSet(queue') /\ <<"failed", c>> \notin ToSet(queue')
        /\ <<"succeeded", c>> \notin ToSet(queue')
    BY <1>1, <1>6, QueueFacts, TaskFacts DEF ControlInv, Calm
  <2> QED
    BY <1>1, <1>6, <2>1, QueueCalm DEF ControlInv
<1>8. LatestInv'
  <2>1. ASSUME NEW a \in Ids, NEW b \in Ids, a < b, ctx'[b].st # "none"
        PROVE  /\ ctx'[a].st # "none"
               /\ ctx'[a].kind = "enroll" => ctx'[a].cancelled \/ ctx'[a].st = "done"
    <3>1. CASE b = c
      <4>1. a # c /\ ctx[a].st # "none" /\ ctx[a].st \in Statuses
        BY <1>1, <1>4, <2>1, <3>1 DEF Ids, ContextType
      <4>2. ctx'[a].st # "none" /\ ctx'[a].kind = ctx[a].kind /\ ctx'[a].st = ctx[a].st
        BY <1>1, <4>1 DEF SameRequest
      <4>3. ctx[a].kind = "enroll" => a \in PooledEnrolls \/ ctx[a].st = "done"
        BY <4>1 DEF PooledEnrolls, Statuses
      <4> QED
        BY <1>1, <4>1, <4>2, <4>3
    <3>2. CASE b # c
      <4>1. ctx[b].st # "none"
        BY <1>1, <2>1, <3>2
      <4>2. ctx[a].st # "none" /\ (ctx[a].kind = "enroll" => ctx[a].cancelled \/ ctx[a].st = "done")
        BY <2>1, <4>1 DEF ControlInv, LatestInv
      <4>3. a # c
        BY <1>1, <4>2
      <4> QED
        BY <1>1, <4>2, <4>3 DEF SameRequest
    <3> QED
      BY <3>1, <3>2
  <2> QED
    BY <2>1 DEF LatestInv
<1>9. \A d \in Ids : ctx'[d].running => ctx[d].running /\ ctx'[d].st = "started" /\ SameRequest(d)
  BY <1>1 DEF ControlInv, RunInv
<1>10. ASSUME NEW a \in Ids, ctx'[a].running, ctx'[a].cancelled
       PROVE  /\ <<"stop", a>> \in ToSet(queue')
              /\ \A d \in Ids : ctx'[d].kind = "enroll" /\ ~ctx'[d].cancelled =>
                    Before(queue', <<"stop", a>>, <<"start", d>>)
  <2>1. ctx[a].running /\ (a \in S \/ ctx[a].cancelled)
    BY <1>1, <1>10
  <2>2. <<"stop", a>> \in ToSet(queue')
    <3>1. ToSet(queue') = ToSet(queue) \cup ToSet(r)
      BY <1>3, <1>4, ConcatFacts
    <3> QED
      BY <1>3, <2>1, <3>1 DEF ControlInv, RunInv
  <2>3. ASSUME NEW d \in Ids, ctx'[d].kind = "enroll", ~ctx'[d].cancelled
        PROVE  Before(queue', <<"stop", a>>, <<"start", d>>)
    <3>1. ctx[d].st = "none" \/ (ctx[d].kind = "enroll" /\ ~ctx[d].cancelled)
      BY <1>1, <2>3 DEF SameRequest
    <3> QED
      BY <1>2, <1>3, <1>4, <2>1, <3>1, StopOrder
  <2> QED
    BY <2>2, <2>3
<1>11. RunInv'
  BY <1>9, <1>10, RunKept DEF ControlInv
<1> QED
  BY <1>6, <1>7, <1>8, <1>11

\* The order of stops and starts in a queue that loses its head or gets one task more.
LEMMA OrderPopped ==
  ASSUME ControlInv, queue # <<>>, NEW c \in Ids, ctx[c].running, ctx[c].cancelled,
         Head(queue) # <<"stop", c>>
  PROVE  /\ <<"stop", c>> \in ToSet(Tail(queue))
         /\ \A d \in Ids : ctx[d].kind = "enroll" /\ ~ctx[d].cancelled =>
              Before(Tail(queue), <<"stop", c>>, <<"start", d>>) /\ Head(queue) # <<"start", d>>
<1>1. /\ ToSet(queue) = {Head(queue)} \cup ToSet(Tail(queue))
      /\ \A a, b : Before(queue, a, b) => (a # Head(queue) => Before(Tail(queue), a, b) /\ b # Head(queue))
  BY TailFacts DEF ControlInv, IdmTypeOK
<1> QED
  BY <1>1 DEF ControlInv, RunInv

LEMMA OrderAppended ==
  ASSUME ControlInv, NEW e \in Tasks, NEW c \in Ids, ctx[c].running, ctx[c].cancelled
  PROVE  /\ <<"stop", c>> \in ToSet(Append(queue, e))
         /\ \A d \in Ids : ctx[d].kind = "enroll" /\ ~ctx[d].cancelled =>
              Before(Append(queue, e), <<"stop", c>>, <<"start", d>>)
<1>1. /\ ToSet(Append(queue, e)) = ToSet(queue) \cup {e}
      /\ \A a, b : Before(queue, a, b) /\ (b = e => a \in ToSet(queue)) => Before(Append(queue, e), a, b)
  BY AppendFacts DEF ControlInv, IdmTypeOK
<1> QED
  BY <1>1 DEF ControlInv, RunInv

\* The pool admits a context.
LEMMA PromoteMove ==
  ASSUME ControlInv, NEW c \in Ids, ctx[c].st = "waiting", Moves(c, "starting"),
         ctx'[c].running <=> ctx[c].running, queue' = Append(queue, <<"start", c>>),
         busy' = busy, enrolling' = enrolling
  PROVE  queue' \in Seq(Tasks) /\ Kept /\ QueueInv' /\ LatestInv' /\ RunInv'
<1>1. <<"start", c>> \in Tasks /\ queue \in Seq(Tasks)
  BY TaskFacts DEF ControlInv, IdmTypeOK
<1>2. <<"start", c>> \notin ToSet(queue)
  BY QueueFacts DEF ControlInv
<1>3. QueueInv'
  BY <1>2, QueueGrows DEF ControlInv, Moves
<1>4. Kept
  BY KeptFacts DEF ControlInv, Statuses
<1>5. LatestInv'
  BY <1>4, LatestKept DEF ControlInv
<1>6. ~ctx'[c].running
  BY DEF ControlInv, RunInv
<1>7. \A d \in Ids : ctx'[d].running => ctx[d].running /\ ctx'[d].st = "started" /\ SameRequest(d)
  BY <1>6 DEF Moves, ControlInv, RunInv, SameRequest
<1>8. ASSUME NEW a \in Ids, ctx'[a].running, ctx'[a].cancelled
      PROVE  /\ <<"stop", a>> \in ToSet(queue')
             /\ \A d \in Ids : ctx'[d].kind = "enroll" /\ ~ctx'[d].cancelled =>
                   Before(queue', <<"stop", a>>, <<"start", d>>)
  <2>1. ctx[a].running /\ ctx[a].cancelled
    BY <1>6, <1>8 DEF Moves
  <2>2. \A d \in Ids : ctx'[d].kind = "enroll" /\ ~ctx'[d].cancelled => ctx[d].kind = "enroll" /\ ~ctx[d].cancelled
    BY DEF Moves, SameRequest
  <2> QED
    BY <1>1, <2>1, <2>2, OrderAppended
<1>9. RunInv'
  BY <1>7, <1>8, RunKept DEF ControlInv
<1>10. queue' \in Seq(Tasks)
  BY <1>1
<1> QED
  BY <1>3, <1>4, <1>5, <1>9, <1>10

\* A result, an account switch or a registration is posted.
LEMMA PostMove ==
  ASSUME ControlInv, ctx' = ctx, busy' = busy, enrolling' = enrolling, NEW e \in Tasks,
         queue' = Append(queue, e),
         \/ e \in Plain
         \/ \E c \in Ids : /\ e \in {<<"failed", c>>, <<"succeeded", c>>}
                           /\ ctx[c].st = "started" /\ busy.id # c
                           /\ <<"failed", c>> \notin ToSet(queue) /\ <<"succeeded", c>> \notin ToSet(queue)
  PROVE  queue' \in Seq(Tasks) /\ Kept /\ QueueInv' /\ LatestInv' /\ RunInv'
<1>1. queue \in Seq(Tasks)
  BY DEF ControlInv, IdmTypeOK
<1>2. QueueInv'
  <2>1. CASE e \in Plain
    <3>1. Calm(queue, queue')
      BY <1>1, <2>1, CalmAppend
    <3> QED
      BY <3>1, QueueCalm DEF ControlInv
  <2>2. ASSUME NEW c \in Ids, e \in {<<"failed", c>>, <<"succeeded", c>>}, ctx[c].st = "started", busy.id # c,
               <<"failed", c>> \notin ToSet(queue), <<"succeeded", c>> \notin ToSet(queue)
        PROVE  QueueInv'
    <3>1. PICK kind \in {"failed", "succeeded"} : e = <<kind, c>>
      BY <2>2
    <3> QED
      BY <2>2, <3>1, QueueGrows DEF ControlInv
  <2> QED
    BY <2>1, <2>2
<1>3. Kept
  BY KeptFacts DEF ControlInv
<1>4. LatestInv'
  BY <1>3, LatestKept DEF ControlInv
<1>5. \A d \in Ids : ctx'[d].running => ctx[d].running /\ ctx'[d].st = "started" /\ SameRequest(d)
  BY DEF ControlInv, RunInv, SameRequest
<1>6. ASSUME NEW a \in Ids, ctx'[a].running, ctx'[a].cancelled
      PROVE  /\ <<"stop", a>> \in ToSet(queue')
             /\ \A d \in Ids : ctx'[d].kind = "enroll" /\ ~ctx'[d].cancelled =>
                   Before(queue', <<"stop", a>>, <<"start", d>>)
  BY <1>6, OrderAppended
<1>7. RunInv'
  BY <1>5, <1>6, RunKept DEF ControlInv
<1>8. queue' \in Seq(Tasks)
  BY <1>1
<1> QED
  BY <1>2, <1>3, <1>4, <1>7, <1>8

\* The event thread takes a task that moves no context.
LEMMA PopMove ==
  ASSUME ControlInv, queue # <<>>, queue' = Tail(queue), ctx' = ctx, busy = Idle,
         busy' = busy \/ (busy'.id \in Ids /\ Head(queue) = <<"succeeded", busy'.id>>),
         \A c \in Ids : ctx[c].running => Head(queue) # <<"stop", c>>,
         \A u \in Users : enrolling'[u] \in {enrolling[u], None}
  PROVE  queue' \in Seq(Tasks) /\ Kept /\ Calm(queue, queue') /\ QueueInv' /\ LatestInv' /\ RunInv'
<1>1. queue \in Seq(Tasks) /\ ctx \in [Ids -> ContextType]
  BY DEF ControlInv, IdmTypeOK
<1>2. Calm(queue, queue')
  BY <1>1, CalmTail
<1>3. QueueInv'
  <2>1. ASSUME busy' # busy
        PROVE  <<"failed", busy'.id>> \notin ToSet(queue') /\ <<"succeeded", busy'.id>> \notin ToSet(queue')
    <3>1. /\ ToSet(queue) = {Head(queue)} \cup ToSet(Tail(queue))
          /\ \A x : Once(queue, x) => (x = Head(queue) => x \notin ToSet(Tail(queue)))
      BY <1>1, TailFacts
    <3> QED
      BY <2>1, <3>1 DEF ControlInv, QueueInv
  <2> QED
    BY <1>2, <2>1, QueueCalm DEF ControlInv
<1>4. Kept
  BY KeptFacts DEF ControlInv
<1>5. LatestInv'
  BY <1>4, LatestKept DEF ControlInv
<1>6. \A d \in Ids : ctx'[d].running => ctx[d].running /\ ctx'[d].st = "started" /\ SameRequest(d)
  BY DEF ControlInv, RunInv, SameRequest
<1>7. ASSUME NEW a \in Ids, ctx'[a].running, ctx'[a].cancelled
      PROVE  /\ <<"stop", a>> \in ToSet(queue')
             /\ \A d \in Ids : ctx'[d].kind = "enroll" /\ ~ctx'[d].cancelled =>
                   Before(queue', <<"stop", a>>, <<"start", d>>)
  BY <1>7, OrderPopped
<1>8. \A d \in Ids : enrolling'[ctx[d].user] \in {enrolling[ctx[d].user], None}
  BY <1>1 DEF ContextType
<1>9. RunInv'
  BY <1>6, <1>7, <1>8, RunKept DEF ControlInv
<1> QED
  BY <1>2, <1>3, <1>4, <1>5, <1>9 DEF Calm

\* The last task of a context leaves the queue.
LEMMA LastTask ==
  ASSUME ControlInv, queue # <<>>, NEW c \in Ids,
         Head(queue) \in {<<"start", c>>, <<"failed", c>>, <<"succeeded", c>>}
  PROVE  /\ <<"start", c>> \notin ToSet(Tail(queue)) /\ <<"failed", c>> \notin ToSet(Tail(queue))
         /\ <<"succeeded", c>> \notin ToSet(Tail(queue))
         /\ Head(queue) = <<"start", c>> => ctx[c].st = "starting"
         /\ Head(queue) # <<"start", c>> => ctx[c].st = "started" /\ busy.id # c
<1>1. /\ ToSet(queue) = {Head(queue)} \cup ToSet(Tail(queue))
      /\ \A x : Once(queue, x) => (x = Head(queue) => x \notin ToSet(Tail(queue)))
  BY TailFacts DEF ControlInv, IdmTypeOK
<1>2. /\ Once(queue, <<"start", c>>) /\ Once(queue, <<"failed", c>>) /\ Once(queue, <<"succeeded", c>>)
  BY DEF ControlInv, QueueInv
<1>3. CASE Head(queue) = <<"start", c>>
  BY <1>1, <1>2, <1>3 DEF ControlInv, QueueInv
<1>4. CASE Head(queue) = <<"failed", c>>
  BY <1>1, <1>2, <1>4 DEF ControlInv, QueueInv
<1>5. CASE Head(queue) = <<"succeeded", c>>
  BY <1>1, <1>2, <1>5 DEF ControlInv, QueueInv
<1> QED
  BY <1>3, <1>4, <1>5

\* The event thread takes a task of c and moves c.
LEMMA TakeMove ==
  ASSUME ControlInv, queue # <<>>, queue' = Tail(queue), NEW c \in Ids,
         NEW st \in {"started", "done"}, Moves(c, st),
         ctx'[c].running => ctx[c].running /\ st = "started",
         \/ Head(queue) \in {<<"start", c>>, <<"failed", c>>, <<"succeeded", c>>}
         \/ Head(queue) = <<"stop", c>> /\ ctx[c].st = st /\ st = "started" /\ ~ctx'[c].running,
         busy = Idle, busy' = busy \/ (busy'.id = c /\ Head(queue) = <<"start", c>>),
         \A u \in Users : enrolling'[u] \in {enrolling[u], None}
  PROVE  queue' \in Seq(Tasks) /\ Kept /\ Calm(queue, queue') /\ QueueInv' /\ LatestInv' /\ RunInv'
<1>1. queue \in Seq(Tasks) /\ ctx \in [Ids -> ContextType]
  BY DEF ControlInv, IdmTypeOK
<1>2. Calm(queue, queue')
  BY <1>1, CalmTail
<1>3. \/ /\ Head(queue) = <<"stop", c>> /\ ctx'[c].st = ctx[c].st /\ busy' = busy
         /\ ctx[c].st = "started" /\ ~ctx'[c].running
      \/ /\ Head(queue) \in {<<"start", c>>, <<"failed", c>>, <<"succeeded", c>>}
         /\ <<"start", c>> \notin ToSet(queue') /\ <<"failed", c>> \notin ToSet(queue')
         /\ <<"succeeded", c>> \notin ToSet(queue') /\ ctx[c].st \in {"starting", "started"}
  BY LastTask DEF Moves
<1>4. QueueInv'
  <2>1. \A d \in Ids : d # c => ctx'[d].st = ctx[d].st
    BY DEF Moves
  <2>2. \A d \in Ids : \/ ctx'[d].st = ctx[d].st
                       \/ /\ <<"start", d>> \notin ToSet(queue')
                          /\ <<"failed", d>> \notin ToSet(queue')
                          /\ <<"succeeded", d>> \notin ToSet(queue')
    BY <1>3, <2>1
  <2>3. \A d \in Ids : busy'.id = d =>
                       \/ busy.id = d
                       \/ <<"failed", d>> \notin ToSet(queue') /\ <<"succeeded", d>> \notin ToSet(queue')
    BY <1>3
  <2> QED
    BY <1>2, <2>2, <2>3, QueueCalm DEF ControlInv
<1>5. Kept
  BY <1>3, KeptFacts DEF ControlInv, Statuses
<1>6. LatestInv'
  BY <1>5, LatestKept DEF ControlInv
<1>7. \A d \in Ids : ctx'[d].running => ctx[d].running /\ ctx'[d].st = "started" /\ SameRequest(d)
  BY DEF Moves, ControlInv, RunInv, SameRequest
<1>8. ASSUME NEW a \in Ids, ctx'[a].running, ctx'[a].cancelled
      PROVE  /\ <<"stop", a>> \in ToSet(queue')
             /\ \A d \in Ids : ctx'[d].kind = "enroll" /\ ~ctx'[d].cancelled =>
                   Before(queue', <<"stop", a>>, <<"start", d>>)
  <2>1. ctx[a].running /\ ctx[a].cancelled
    BY <1>7, <1>8 DEF Moves
  <2>2. Head(queue) # <<"stop", a>>
    BY <1>3, <1>8
  <2>3. \A d \in Ids : ctx'[d].kind = "enroll" /\ ~ctx'[d].cancelled => ctx[d].kind = "enroll" /\ ~ctx[d].cancelled
    BY DEF Moves, SameRequest
  <2> QED
    BY <2>1, <2>2, <2>3, OrderPopped
<1>9. \A d \in Ids : enrolling'[ctx[d].user] \in {enrolling[ctx[d].user], None}
  BY <1>1 DEF ContextType
<1>10. RunInv'
  BY <1>7, <1>8, <1>9, RunKept DEF ControlInv
<1> QED
  BY <1>2, <1>4, <1>5, <1>6, <1>10 DEF Calm

\* An enrolment begins: every other one has been stopped before.
LEMMA BeginMove ==
  ASSUME ControlInv, queue # <<>>, queue' = Tail(queue), NEW c \in Ids, Head(queue) = <<"start", c>>,
         ctx[c].kind = "enroll", ~ctx[c].cancelled, Moves(c, "started"), busy = Idle, busy' = busy,
         enrolling' = [enrolling EXCEPT ![ctx[c].user] = c]
  PROVE  queue' \in Seq(Tasks) /\ Kept /\ Calm(queue, queue') /\ QueueInv' /\ LatestInv' /\ RunInv'
<1>1. queue \in Seq(Tasks) /\ ctx \in [Ids -> ContextType] /\ enrolling \in [Users -> Ids \cup {None}]
  BY DEF ControlInv, IdmTypeOK
<1>2. Calm(queue, queue')
  BY <1>1, CalmTail
<1>3. /\ <<"start", c>> \notin ToSet(queue') /\ <<"failed", c>> \notin ToSet(queue')
      /\ <<"succeeded", c>> \notin ToSet(queue') /\ ctx[c].st = "starting"
  BY LastTask
<1>4. QueueInv'
  <2>1. \A d \in Ids : d # c => ctx'[d].st = ctx[d].st
    BY DEF Moves
  <2> QED
    BY <1>2, <1>3, <2>1, QueueCalm DEF ControlInv
<1>5. Kept
  BY <1>3, KeptFacts DEF ControlInv, Statuses
<1>6. LatestInv'
  BY <1>5, LatestKept DEF ControlInv
<1>7. ASSUME NEW d \in Ids, ctx[d].running PROVE FALSE
  <2>1. ctx[d].st = "started" /\ ctx[d].kind = "enroll"
    BY <1>7 DEF ControlInv, RunInv
  <2>2. ctx[d].cancelled
    BY <1>3, <2>1, LatestOne DEF ControlInv
  <2>3. Head(queue) # <<"stop", d>>
    OBVIOUS
  <2>4. \A e \in Ids : ctx[e].kind = "enroll" /\ ~ctx[e].cancelled => Head(queue) # <<"start", e>>
    BY <1>7, <2>2, <2>3, OrderPopped
  <2> QED
    BY <2>4
<1>8. \A d \in Ids : ctx'[d].running => d = c
  BY <1>7 DEF Moves
<1>9. ctx'[c].st = "started" /\ ctx'[c].kind = "enroll" /\ ctx'[c].user = ctx[c].user /\ ~ctx'[c].cancelled
  BY DEF Moves, SameRequest
<1>10. enrolling'[ctx'[c].user] = c
  BY <1>1, <1>9 DEF ContextType
<1>11. RunInv'
  BY <1>8, <1>9, <1>10 DEF RunInv
<1> QED
  BY <1>2, <1>4, <1>5, <1>6, <1>11 DEF Calm

\* The event thread is done with its result.
LEMMA DoneMove ==
  ASSUME ControlInv, queue' = queue, busy \in BusyType, busy # Idle, busy' = Idle,
         ctx[busy.id].st = "started", Moves(busy.id, "done"), ~ctx'[busy.id].running,
         \A u \in Users : enrolling'[u] \in {enrolling[u], None}
  PROVE  Kept /\ QueueInv' /\ LatestInv' /\ RunInv'
<1> DEFINE c == busy.id
<1>1. queue \in Seq(Tasks) /\ ctx \in [Ids -> ContextType] /\ c \in Ids
  BY DEF ControlInv, IdmTypeOK, BusyType
<1>2. Calm(queue, queue')
  BY <1>1 DEF Calm
<1>3. /\ <<"start", c>> \notin ToSet(queue') /\ <<"failed", c>> \notin ToSet(queue')
      /\ <<"succeeded", c>> \notin ToSet(queue')
  BY <1>1, QueueFacts DEF ControlInv
<1>4. QueueInv'
  <2>1. \A d \in Ids : d # c => ctx'[d].st = ctx[d].st
    BY DEF Moves
  <2>2. busy'.id \notin Ids
    BY DEF Idle, Ids, None
  <2> QED
    BY <1>2, <1>3, <2>1, <2>2, QueueCalm DEF ControlInv
<1>5. Kept
  BY <1>1, KeptFacts DEF ControlInv, Statuses
<1>6. LatestInv'
  BY <1>5, LatestKept DEF ControlInv
<1>7. \A d \in Ids : ctx'[d].running => ctx[d].running /\ ctx'[d].st = "started" /\ SameRequest(d)
  BY DEF Moves, ControlInv, RunInv, SameRequest
<1>8. ASSUME NEW a \in Ids, ctx'[a].running, ctx'[a].cancelled
      PROVE  /\ <<"stop", a>> \in ToSet(queue')
             /\ \A d \in Ids : ctx'[d].kind = "enroll" /\ ~ctx'[d].cancelled =>
                   Before(queue', <<"stop", a>>, <<"start", d>>)
  <2>1. ctx[a].running /\ ctx[a].cancelled
    BY <1>7, <1>8 DEF Moves
  <2>2. \A d \in Ids : ctx'[d].kind = "enroll" /\ ~ctx'[d].cancelled => ctx[d].kind = "enroll" /\ ~ctx[d].cancelled
    BY DEF Moves, SameRequest
  <2> QED
    BY <2>1, <2>2 DEF ControlInv, RunInv
<1>9. \A d \in Ids : enrolling'[ctx[d].user] \in {enrolling[ctx[d].user], None}
  BY <1>1 DEF ContextType
<1>10. RunInv'
  BY <1>7, <1>8, <1>9, RunKept DEF ControlInv
<1> QED
  BY <1>4, <1>5, <1>6, <1>10

\* A step that touches neither contexts nor queue.
LEMMA StillMove ==
  ASSUME ControlInv, ctx' = ctx, queue' = queue, enrolling' = enrolling, busy'.id = busy.id
  PROVE  Kept /\ QueueInv' /\ LatestInv' /\ RunInv'
<1>1. QueueInv' /\ LatestInv' /\ RunInv'
  BY DEF ControlInv, QueueInv, LatestInv, RunInv, Once, ToSet, Before
<1> QED
  BY <1>1, KeptFacts DEF ControlInv

-------------------------------------------------------------------------------
(* The stores, when a step does not concern them.                          *)

\* Where a template is accounted for.
Located(c) ==
  \/ c \in IdsOf(creds) \/ c \in ghost.lost \/ c \in IdsOf(deletion.infos)
  \/ c \in UNION {IdsOf(i) : i \in tasks}
  \/ <<"succeeded", c>> \in ToSet(queue)
  \/ c \in Replaced

\* The new context c names a credential of its user, or none.
Named(c) ==
  /\ ctx'[c].kind = "delete" => ctx'[c].old # None
  /\ ctx'[c].old # None => LET o == ctx'[c].old
                           IN /\ ctx[o].st # "none"
                              /\ ctx[o].user = ctx'[c].user /\ ctx[o].type = ctx'[c].type

\* The contexts go on, and new ones name what there is.
Aged ==
  \A c \in Ids :
    /\ ctx[c].st # "none" => /\ SameRequest(c) /\ ctx'[c].st # "none"
                             /\ ctx[c].st = "done" => ctx'[c].st = "done"
                             /\ ctx[c].st = "started" => ctx'[c].st \in {"started", "done"}
    /\ ctx[c].st = "none" => ctx'[c].st = "none" \/ Named(c)

LEMMA AgedFacts ==
  ASSUME IdmTypeOK
  PROVE  /\ ctx' = ctx => Aged
         /\ \A S : Marks(S) => Aged
         /\ \A c \in Ids, st \in Statuses : Moves(c, st) /\ ctx[c].st \notin {"none", "done"}
              /\ st # "none" /\ (ctx[c].st = "started" => st \in {"started", "done"}) => Aged
<1>1. ctx' = ctx => Aged
  BY DEF Aged, SameRequest
<1>2. ASSUME NEW S, Marks(S) PROVE Aged
  BY <1>2 DEF Aged, Marks
<1>3. ASSUME NEW c \in Ids, NEW st \in Statuses, Moves(c, st), ctx[c].st \notin {"none", "done"},
             st # "none", ctx[c].st = "started" => st \in {"started", "done"}
      PROVE  Aged
  BY <1>3 DEF Aged, Moves, SameRequest
<1> QED
  BY <1>1, <1>2, <1>3

LEMMA CredKept ==
  ASSUME IdmTypeOK, CredInv, Aged, ctx' \in [Ids -> ContextType], creds' \subseteq creds,
         \A c \in Ids : ctx[c].st = "started" /\ busy.id = c =>
            ctx'[c].st = "done" \/ (ctx'[c].st = "started" /\ busy'.id = c)
  PROVE  CredInv'
<1>1. ASSUME NEW k \in creds'
      PROVE  /\ ctx'[k.id].kind = "enroll" /\ k.user = ctx'[k.id].user /\ k.type = ctx'[k.id].type
             /\ ctx'[k.id].st = "done" \/ (ctx'[k.id].st = "started" /\ busy'.id = k.id)
  <2>1. k \in creds /\ k.id \in Ids
    BY DEF IdmTypeOK, CredentialType
  <2>2. ctx[k.id].st # "none"
    BY <2>1 DEF CredInv
  <2> QED
    BY <2>1, <2>2 DEF CredInv, Aged, SameRequest
<1>2. \A k, m \in creds' : k.id = m.id => k = m
  BY DEF CredInv
<1>3. ASSUME NEW c \in Ids, ctx'[c].st # "none"
      PROVE  /\ ctx'[c].kind = "delete" => ctx'[c].old # None
             /\ ctx'[c].old \in Ids => /\ ctx'[ctx'[c].old].st # "none"
                                      /\ ctx'[ctx'[c].old].user = ctx'[c].user
                                      /\ ctx'[ctx'[c].old].type = ctx'[c].type
  <2>1. /\ ctx'[c].kind = "delete" => ctx'[c].old # None
        /\ ctx'[c].old # None => /\ ctx[ctx'[c].old].st # "none"
                                 /\ ctx[ctx'[c].old].user = ctx'[c].user
                                 /\ ctx[ctx'[c].old].type = ctx'[c].type
    <3>1. CASE ctx[c].st = "none"
      BY <1>3, <3>1 DEF Aged, Named
    <3>2. CASE ctx[c].st # "none"
      BY <3>2 DEF Aged, SameRequest, CredInv
    <3> QED
      BY <3>1, <3>2
  <2>2. ASSUME NEW o \in Ids, ctx[o].st # "none"
        PROVE  ctx'[o].st # "none" /\ ctx'[o].user = ctx[o].user /\ ctx'[o].type = ctx[o].type
    BY <2>2 DEF Aged, SameRequest
  <2>3. None \notin Ids
    BY DEF None, Ids
  <2> QED
    BY <2>1, <2>2, <2>3
<1>4. \A c \in Ids : ctx'[c].st # "none" /\ ctx'[c].old # None => ctx'[c].old \in Ids
  BY DEF ContextType
<1> QED
  BY <1>1, <1>2, <1>3, <1>4 DEF CredInv

LEMMA BusyKept ==
  ASSUME IdmTypeOK, BusyInv, busy' # Idle => busy # Idle /\ busy'.id = busy.id,
         busy # Idle /\ busy' # Idle =>
           SameRequest(busy.id) /\ ctx'[busy.id].st = ctx[busy.id].st /\ busy'.infos = busy.infos,
         ghost.updates \subseteq ghost'.updates, creds' \subseteq creds
  PROVE  BusyInv'
<1> SUFFICES ASSUME busy' # Idle
             PROVE  /\ ctx'[busy'.id].st = "started"
                    /\ IsPinUpdate(ctx'[busy'.id]) =>
                         [user |-> ctx'[busy'.id].user, old |-> ctx'[busy'.id].old, new |-> busy'.id]
                            \in ghost'.updates
                    /\ ctx'[busy'.id].kind = "delete" => ctx'[busy'.id].old \notin {k.id : k \in creds'}
                    /\ \A k \in busy'.infos : ctx'[busy'.id].kind = "delete" /\ k.id = ctx'[busy'.id].old
  BY DEF BusyInv, IdsOf, Idle
<1>1. /\ busy # Idle /\ busy'.id = busy.id /\ SameRequest(busy.id) /\ ctx'[busy.id].st = ctx[busy.id].st
      /\ busy'.infos = busy.infos
  OBVIOUS
<1>2. {k.id : k \in creds'} \subseteq {k.id : k \in creds}
  OBVIOUS
<1> QED
  BY <1>1, <1>2 DEF BusyInv, SameRequest, IdsOf, IsPinUpdate

LEMMA UpdateKept ==
  ASSUME IdmTypeOK, UpdateInv, \A c \in Ids : ctx[c].st = "done" => ctx'[c].st = "done",
         ghost'.updates = ghost.updates, announced' = announced, pinUpdate' = pinUpdate,
         creds' \subseteq creds
  PROVE  UpdateInv'
<1>1. \A x \in ghost.updates : x.old \in Ids /\ x.new \in Ids
  <2>1. ghost.updates \in SUBSET UpdateType
    BY DEF IdmTypeOK, GhostType
  <2> QED
    BY <2>1 DEF UpdateType
<1>2. \A i \in DOMAIN announced : announced[i].new \in Ids
  <2>1. \A i \in DOMAIN announced : announced[i] \in UpdateType
    BY DEF IdmTypeOK
  <2> QED
    BY <2>1 DEF UpdateType
<1>3. IdsOf(creds') \subseteq IdsOf(creds)
  BY DEF IdsOf
<1>4. pinUpdate.old # None => pinUpdate.new \in Ids
  <2> DEFINE x == [user |-> pinUpdate.user, old |-> pinUpdate.old, new |-> pinUpdate.new]
  <2>1. pinUpdate.old # None => x \in ghost.updates /\ x.new = pinUpdate.new
    BY DEF UpdateInv
  <2> HIDE DEF x
  <2> QED
    BY <1>1, <2>1
<1>5. \A x \in ghost.updates : ctx'[x.old].st = "done"
  BY <1>1 DEF UpdateInv
<1>6. \A i \in DOMAIN announced :
        /\ announced[i] \in ghost.updates /\ announced[i].old \notin {k.id : k \in creds'}
        /\ ctx'[announced[i].new].st = "done"
  BY <1>2, <1>3 DEF UpdateInv, IdsOf
<1>7. pinUpdate.old # None => ctx'[pinUpdate.new].st = "done"
  BY <1>4 DEF UpdateInv
<1> QED
  BY <1>5, <1>6, <1>7 DEF UpdateInv, IdsOf

LEMMA CacheKept ==
  ASSUME IdmTypeOK, CacheInv, cache' = cache, currUserId' = currUserId, online' = online,
         ghost'.uncached = ghost.uncached,
         \A c \in Ids : ctx[c].st # "none" => ctx'[c].st # "none" /\ ctx'[c].user = ctx[c].user
  PROVE  CacheInv'
BY DEF CacheInv, IdmTypeOK

LEMMA PendingSame ==
  ASSUME busy' = busy, busy # Idle => SameRequest(busy.id), NEW u,
         InUse(u)' = InUse(u)
  PROVE  Pending(u)' <=> Pending(u)
<1>1. CASE busy = Idle
  BY <1>1 DEF Pending, Idle
<1>2. CASE busy # Idle
  <2>1. IsPinUpdate(ctx'[busy.id]) <=> IsPinUpdate(ctx[busy.id])
    BY <1>2 DEF SameRequest, IsPinUpdate
  <2>2. IsNewPin(ctx'[busy.id]) <=> IsNewPin(ctx[busy.id])
    BY <1>2 DEF SameRequest, IsNewPin
  <2>3. IdsOf(InUse(u))' = IdsOf(InUse(u))
    BY DEF IdsOf
  <2> QED
    BY <1>2, <2>1, <2>2, <2>3 DEF Pending, SameRequest, Idle, IsPinUpdate, IsNewPin
<1> QED
  BY <1>1, <1>2

\* A count is right for as long as the PINs in use and the history stay.
LEMMA RightSame ==
  ASSUME ghost'.updates = ghost.updates, NEW u, InUse(u)' = InUse(u), NEW n
  PROVE  Right(u, n)' <=> Right(u, n)
<1>1. Superseded(u)' = Superseded(u)
  BY DEF Superseded
<1> QED
  BY <1>1 DEF Right

LEMMA SupersededFacts ==
  ASSUME ghost.updates \in SUBSET UpdateType, NEW u
  PROVE  IsFiniteSet(Superseded(u)) /\ Cardinality(Superseded(u)) \in Nat
<1>1. Superseded(u) \subseteq 1..MaxContexts /\ MaxContexts \in Nat
  BY IdmAssumption DEF Superseded, UpdateType, Ids
<1>2. IsFiniteSet(Superseded(u))
  <2>1. IsFiniteSet(1..MaxContexts)
    BY <1>1, FS_Interval
  <2> QED
    BY <1>1, <2>1, FS_Subset
<1> QED
  BY <1>2, FS_CardinalityType

\* None is the right count of no PINs.
LEMMA RightNone ==
  ASSUME IdmTypeOK, NEW u, InUse(u) = {}
  PROVE  Right(u, 0)
<1>1. Cardinality(InUse(u)) = 0
  BY FS_EmptySet
<1>2. Cardinality(Superseded(u)) \in Nat
  BY SupersededFacts DEF IdmTypeOK, GhostType
<1> QED
  BY <1>1, <1>2 DEF Right

\* The PIN credentials are the ones there were.
LEMMA CountKept ==
  ASSUME IdmTypeOK, CountInv, deletion' = deletion, published' = published, creds' \subseteq creds,
         ghost.stale \subseteq ghost'.stale, ghost'.updates = ghost.updates, busy' = busy,
         busy # Idle => SameRequest(busy.id),
         \A u \in Users : InUse(u)' = InUse(u)
  PROVE  CountInv'
<1>1. \A u \in deletion.users : u \in Users
  BY DEF IdmTypeOK, DeletionType
<1>2. \A u \in deletion'.users \ ghost'.stale : InUse(u)' = {}
  BY <1>1 DEF CountInv
<1>3. \A u \in Users : HadPin(u)' <=> HadPin(u)
  BY DEF HadPin
<1>4. \A u \in Users : Pending(u)' <=> Pending(u)
  BY PendingSame
<1>5. \A u \in Users \ ghost'.stale :
        Right(u, published[u])' \/ HadPin(u)' \/ Pending(u)'
  <2>1. \A u \in Users : Superseded(u)' = Superseded(u)
    BY DEF Superseded
  <2> QED
    BY <1>3, <1>4, <2>1 DEF CountInv, Right
<1>6. ASSUME busy'.step = "counted", ctx'[busy'.id].type = "PIN", ctx'[busy'.id].user \notin ghost'.stale
      PROVE  Right(ctx[busy.id].user, busy.n)' /\ ctx'[busy.id].user = ctx[busy.id].user
  <2>1. busy # Idle
    BY <1>6 DEF Idle
  <2>2. busy.id \in Ids
    BY <2>1 DEF IdmTypeOK, BusyType
  <2>3. SameRequest(busy.id) /\ ctx[busy.id].user \in Users
    BY <2>1, <2>2 DEF IdmTypeOK, ContextType
  <2>4. \A u : Superseded(u)' = Superseded(u)
    BY DEF Superseded
  <2> QED
    BY <1>6, <2>3, <2>4 DEF CountInv, SameRequest, Right
<1>7. \A k \in deletion'.infos : k.user \in deletion'.users
  BY DEF CountInv
<1>8. \A k \in creds' : k.abandoned => k.type = "PIN" /\ k.id \in Superseded(k.user)'
  BY DEF CountInv, Superseded
<1> HIDE DEF GetCredential, InUse
<1> QED
  BY <1>2, <1>5, <1>6, <1>7, <1>8 DEF CountInv

DataInv == CredInv /\ BusyInv /\ TemplateInv /\ UpdateInv /\ CountInv /\ CacheInv

LEMMA BusyFacts ==
  ASSUME IdmTypeOK, BusyInv, busy # Idle
  PROVE  /\ busy.id \in Ids /\ ctx[busy.id].st = "started" /\ ctx[busy.id] \in ContextType
         /\ busy.n \in Nat /\ busy.step \in {"committed", "checked", "counted", "unread"}
         /\ busy.infos \in SUBSET CredentialType
         /\ busy = [id |-> busy.id, n |-> busy.n, step |-> busy.step, infos |-> busy.infos]
<1>1. busy \in [id : Ids, n : Nat, step : {"committed", "checked", "counted", "unread"},
                infos : SUBSET CredentialType]
  BY DEF IdmTypeOK, BusyType
<1> QED
  BY <1>1 DEF BusyInv, IdmTypeOK

\* A template that stays is accounted for as before, or anew.
LEMMA TemplateKept ==
  ASSUME IdmTypeOK, TemplateInv, Aged,
         \A c \in templates' : \/ c \in templates
                               \/ c \in Ids /\ ctx'[c].kind = "enroll" /\ ctx'[c].st = "started",
         \A c \in templates' : (c \in templates => Located(c)) => Located(c)'
  PROVE  TemplateInv'
<1>1. \A c \in templates' : c \in templates => Located(c)
  BY DEF TemplateInv, Located
<1>2. ASSUME NEW c \in templates, c \in templates'
      PROVE  ctx'[c].kind = "enroll" /\ ctx'[c].st \in {"started", "done"}
  BY DEF TemplateInv, Aged, SameRequest, IdmTypeOK
<1>3. \A c \in templates' : Located(c)'
  BY <1>1
<1> QED
  BY <1>2, <1>3 DEF TemplateInv, Located

\* The history of a step at which at most the deletion of some templates, or a count, got
\* lost.
Remembers ==
  /\ ghost' \in GhostType /\ ghost'.updates = ghost.updates /\ ghost.stale \subseteq ghost'.stale
  /\ ghost'.victims = ghost.victims /\ ghost.lost \subseteq ghost'.lost

\* The cache and what is known of it stay.
CacheStill == cacheVars' = cacheVars /\ ghost'.uncached = ghost.uncached

\* A step that leaves the stores alone.
LEMMA DataStill ==
  ASSUME IdmTypeOK, DataInv, Aged, ctx' \in [Ids -> ContextType], creds' = creds, deletion' = deletion, tasks' = tasks,
         publishVars' = publishVars, CacheStill \/ CacheInv', Remembers, busy' = busy,
         busy # Idle => ctx'[busy.id].st = ctx[busy.id].st,
         \A c \in templates' : \/ c \in templates
                               \/ /\ c \in Ids /\ ctx'[c].kind = "enroll" /\ ctx'[c].st = "started"
                                  /\ <<"succeeded", c>> \in ToSet(queue'),
         \A c \in Ids : ctx[c].kind = "enroll" /\ <<"succeeded", c>> \in ToSet(queue) =>
                          <<"succeeded", c>> \in ToSet(queue') \/ c \in ghost'.lost
  PROVE  DataInv'
<1>1. busy # Idle => busy.id \in Ids /\ ctx[busy.id].st = "started" /\ SameRequest(busy.id)
  BY BusyFacts DEF DataInv, Aged
<1>2. busy.id \in Ids => busy # Idle
  BY DEF Idle, None, Ids
<1>3. CredInv'
  BY <1>1, <1>2, CredKept DEF DataInv
<1>4. BusyInv'
  BY <1>1, BusyKept DEF DataInv, Remembers
<1>5. TemplateInv'
  <2>1. Replaced' = Replaced
    BY <1>1 DEF Replaced, SameRequest
  <2>2. ASSUME NEW c \in templates', c \in templates => Located(c) PROVE Located(c)'
    <3>1. CASE c \in templates
      <4>1. c \in Ids /\ ctx[c].kind = "enroll"
        BY <3>1 DEF IdmTypeOK, DataInv, TemplateInv
      <4> QED
        BY <2>1, <2>2, <3>1, <4>1 DEF Located, IdsOf, Remembers
    <3>2. CASE c \notin templates
      BY <3>2 DEF Located
    <3> QED
      BY <3>1, <3>2
  <2> QED
    BY <2>2, TemplateKept DEF DataInv
<1>6. UpdateInv'
  BY UpdateKept DEF DataInv, Aged, publishVars, Remembers
<1>7. CountInv'
  <2>1. \A u \in Users : InUse(u)' = InUse(u)
    BY DEF GetCredential, InUse, CredsOf
  <2> QED
    BY <1>1, <2>1, CountKept DEF DataInv, publishVars, Remembers
<1>8. CacheInv'
  BY CacheKept DEF DataInv, Aged, SameRequest, cacheVars, CacheStill
<1> QED
  BY <1>3, <1>4, <1>5, <1>6, <1>7, <1>8 DEF DataInv

-------------------------------------------------------------------------------
(* Each action keeps the invariant: first those that leave the stores.     *)

LEMMA QueueHolds ==
  ASSUME IdmTypeOK
  PROVE  /\ \A S \in SUBSET Ids : ToSet(queue) \subseteq ToSet(queue \o StopTasks(S))
         /\ \A e \in Tasks : ToSet(Append(queue, e)) = ToSet(queue) \cup {e}
         /\ queue # <<>> => /\ ToSet(queue) = {Head(queue)} \cup ToSet(Tail(queue))
                            /\ Head(queue) \in Tasks /\ Tail(queue) \in Seq(Tasks)
<1>1. queue \in Seq(Tasks)
  BY DEF IdmTypeOK
<1>2. ASSUME NEW S \in SUBSET Ids PROVE ToSet(queue) \subseteq ToSet(queue \o StopTasks(S))
  <2>1. StopTasks(S) \in Seq(Tasks)
    BY StopTasksFacts
  <2> QED
    BY <1>1, <2>1, ConcatFacts
<1>3. \A e \in Tasks : ToSet(Append(queue, e)) = ToSet(queue) \cup {e}
  BY <1>1, AppendFacts
<1>4. queue # <<>> => ToSet(queue) = {Head(queue)} \cup ToSet(Tail(queue))
  BY <1>1, TailFacts
<1>5. queue # <<>> => Head(queue) \in Tasks /\ Tail(queue) \in Seq(Tasks)
  BY <1>1
<1> QED
  BY <1>2, <1>3, <1>4, <1>5

\* The task the event thread takes.
LEMMA HeadFacts ==
  ASSUME IdmTypeOK, NEW kind \in {"start", "stop", "failed", "succeeded"}, Head1(kind)
  PROVE  /\ queue # <<>> /\ busy = Idle /\ Head(queue)[2] \in Ids
         /\ Head(queue) = <<kind, Head(queue)[2]>>
<1>1. queue # <<>> /\ busy = Idle /\ Head(queue)[1] = kind
  BY DEF Head1
<1>2. Head(queue) \in Tasks
  BY <1>1, QueueHolds
<1> QED
  BY <1>1, <1>2 DEF Tasks

LEMMA CancelFacts ==
  ASSUME IdmTypeOK, NEW c \in Ids
  PROVE  /\ CancelInEngine(c) \in [Users -> Ids \cup {None}]
         /\ \A u \in Users : CancelInEngine(c)[u] \in {enrolling[u], None}
BY DEF IdmTypeOK, CancelInEngine

CacheTypeOK == cache \in SUBSET Ids /\ currUserId \in Accounts \cup {None} /\ online \in BOOLEAN

LEMMA LosesStep ==
  ASSUME IdmInv, Aged, ctx' \in [Ids -> ContextType], queue' \in Seq(Tasks), enrolling' \in [Users -> Ids \cup {None}],
         QueueInv', LatestInv', RunInv', creds' = creds, deletion' = deletion, tasks' = tasks,
         publishVars' = publishVars, Remembers, busy' = busy, CacheStill \/ (CacheTypeOK /\ CacheInv)',
         busy # Idle => ctx'[busy.id].st = ctx[busy.id].st,
         \A c \in templates' : \/ c \in templates
                               \/ /\ c \in Ids /\ ctx'[c].kind = "enroll" /\ ctx'[c].st = "started"
                                  /\ <<"succeeded", c>> \in ToSet(queue'),
         \A c \in Ids : ctx[c].kind = "enroll" /\ <<"succeeded", c>> \in ToSet(queue) =>
                          <<"succeeded", c>> \in ToSet(queue') \/ c \in ghost'.lost
  PROVE  IdmInv'
<1>1. IdmTypeOK /\ DataInv
  BY DEF IdmInv, DataInv
<1>2. DataInv'
  BY <1>1, DataStill
<1>3. templates' \in SUBSET Ids
  BY <1>1 DEF IdmTypeOK
<1>4. CacheTypeOK'
  BY <1>1 DEF IdmTypeOK, cacheVars, CacheTypeOK, CacheStill
<1>5. IdmTypeOK'
  BY <1>1, <1>3, <1>4 DEF IdmTypeOK, publishVars, CacheTypeOK, Remembers
<1> QED
  BY <1>2, <1>5 DEF IdmInv, DataInv, Remembers

LEMMA StillStep ==
  ASSUME IdmInv, Aged, ctx' \in [Ids -> ContextType], queue' \in Seq(Tasks), enrolling' \in [Users -> Ids \cup {None}],
         QueueInv', LatestInv', RunInv', creds' = creds, deletion' = deletion, tasks' = tasks,
         publishVars' = publishVars, ghost' = ghost, busy' = busy, cacheVars' = cacheVars \/ (CacheTypeOK /\ CacheInv)',
         busy # Idle => ctx'[busy.id].st = ctx[busy.id].st,
         \A c \in templates' : \/ c \in templates
                               \/ /\ c \in Ids /\ ctx'[c].kind = "enroll" /\ ctx'[c].st = "started"
                                  /\ <<"succeeded", c>> \in ToSet(queue'),
         \A c \in Ids : <<"succeeded", c>> \in ToSet(queue) => <<"succeeded", c>> \in ToSet(queue')
  PROVE  IdmInv'
<1>1. Remembers
  BY DEF IdmInv, IdmTypeOK, Remembers
<1>2. CacheStill \/ (CacheTypeOK /\ CacheInv)'
  BY DEF CacheStill
<1> QED
  BY <1>1, <1>2, LosesStep

\* Enrolments are cancelled and nothing else.
LEMMA CancelStep ==
  ASSUME IdmInv, NEW S \in SUBSET PooledEnrolls, queue' = queue \o StopTasks(S),
         ctx' = [c \in Ids |-> IF c \in S THEN [ctx[c] EXCEPT !.cancelled = TRUE] ELSE ctx[c]],
         UNCHANGED <<engineVars, templates, busy, deletion, tasks, publishVars, cacheVars, ghost>>
  PROVE  IdmInv'
<1>1. ControlInv /\ IdmTypeOK /\ S \in SUBSET Ids
  BY DEF IdmInv, ControlInv, PooledEnrolls
<1>2. Marks(S)
  BY <1>1, MarksFacts
<1>3. /\ busy' = busy /\ enrolling' = enrolling /\ creds' = creds /\ deletion' = deletion /\ tasks' = tasks
      /\ publishVars' = publishVars /\ cacheVars' = cacheVars /\ ghost' = ghost /\ templates' = templates
  BY DEF engineVars
<1>4. queue' \in Seq(Tasks) /\ QueueInv' /\ LatestInv' /\ RunInv'
  BY <1>1, <1>2, <1>3, CancelMove
<1>5. Aged
  BY <1>1, <1>2, AgedFacts
<1>6. ctx' \in [Ids -> ContextType] /\ \A c \in Ids : ctx'[c].st = ctx[c].st
  BY <1>2 DEF Marks
<1>7. busy # Idle => ctx'[busy.id].st = ctx[busy.id].st
  BY <1>6, BusyFacts DEF IdmInv
<1>8. \A c \in Ids : <<"succeeded", c>> \in ToSet(queue) => <<"succeeded", c>> \in ToSet(queue')
  BY <1>1, QueueHolds
<1>9. enrolling' \in [Users -> Ids \cup {None}]
  BY <1>1, <1>3 DEF IdmTypeOK
<1> QED
  BY <1>3, <1>4, <1>5, <1>6, <1>7, <1>8, <1>9, StillStep

LEMMA OpenSessionKeeps ==
  ASSUME IdmInv, OpenSession
  PROVE  IdmInv'
<1>1. /\ queue' = queue \o StopTasks(PooledEnrolls)
      /\ ctx' = [c \in Ids |-> IF c \in PooledEnrolls THEN [ctx[c] EXCEPT !.cancelled = TRUE] ELSE ctx[c]]
      /\ UNCHANGED <<engineVars, templates, busy, deletion, tasks, publishVars, cacheVars, ghost>>
  BY DEF OpenSession, CancelCurrentEnrollIfExist
<1>2. PooledEnrolls \in SUBSET PooledEnrolls
  OBVIOUS
<1> QED
  BY <1>1, <1>2, CancelStep

LEMMA CancelEnrollKeeps ==
  ASSUME IdmInv, NEW u \in Users, CancelEnroll(u)
  PROVE  IdmInv'
<1> DEFINE mine == {c \in PooledEnrolls : ctx[c].user = u /\ ~ctx[c].cancelled}
<1>1. /\ queue' = queue \o StopTasks(mine)
      /\ ctx' = [c \in Ids |-> IF c \in mine THEN [ctx[c] EXCEPT !.cancelled = TRUE] ELSE ctx[c]]
      /\ UNCHANGED <<engineVars, templates, busy, deletion, tasks, publishVars, cacheVars, ghost>>
  BY DEF CancelEnroll
<1>2. mine \in SUBSET PooledEnrolls
  OBVIOUS
<1> HIDE DEF mine
<1> QED
  BY <1>1, <1>2, CancelStep

\* A request for a new context names a credential of the engine, or none.
LEMMA NewStep ==
  ASSUME IdmInv, NEW c \in Ids, NEW kind \in {"enroll", "delete"}, NEW u \in Users,
         NEW type \in Types, NEW old \in Ids \cup {None}, NewContext(c, kind, u, type, old),
         kind = "delete" => old # None,
         old # None => \E k \in creds : k.id = old /\ k.user = u /\ k.type = type,
         UNCHANGED <<engineVars, templates, busy, deletion, tasks, publishVars, cacheVars, ghost>>
  PROVE  IdmInv'
<1>1. ControlInv /\ IdmTypeOK
  BY DEF IdmInv, ControlInv
<1>2. /\ busy' = busy /\ enrolling' = enrolling /\ creds' = creds /\ deletion' = deletion /\ tasks' = tasks
      /\ publishVars' = publishVars /\ cacheVars' = cacheVars /\ ghost' = ghost /\ templates' = templates
  BY DEF engineVars
<1>3. Calm(queue, queue') /\ QueueInv' /\ LatestInv' /\ RunInv'
  BY <1>1, <1>2, NewMove
<1>4. /\ ctx' \in [Ids -> ContextType] /\ ctx[c].st = "none"
      /\ ctx'[c].kind = kind /\ ctx'[c].user = u /\ ctx'[c].type = type /\ ctx'[c].old = old
      /\ \A d \in Ids : d # c => SameRequest(d) /\ ctx'[d].st = ctx[d].st
      /\ queue' = queue \o StopTasks(PooledEnrolls)
  BY <1>1, NewFacts
<1>5. Aged
  <2>1. ASSUME old # None
        PROVE  ctx[old].st # "none" /\ ctx[old].user = u /\ ctx[old].type = type
    BY <2>1 DEF IdmInv, CredInv
  <2>2. Named(c)
    BY <1>4, <2>1 DEF Named
  <2>3. \A d \in Ids : d # c /\ ctx[d].st # "none" => SameRequest(d) /\ ctx'[d].st = ctx[d].st
    BY <1>4
  <2> QED
    BY <1>4, <2>2, <2>3 DEF Aged
<1>6. busy # Idle => ctx'[busy.id].st = ctx[busy.id].st
  BY <1>4, BusyFacts DEF IdmInv
<1>7. \A d \in Ids : <<"succeeded", d>> \in ToSet(queue) => <<"succeeded", d>> \in ToSet(queue')
  <2>1. PooledEnrolls \in SUBSET Ids
    BY DEF PooledEnrolls
  <2> QED
    BY <1>1, <1>4, <2>1, QueueHolds
<1>8. enrolling' \in [Users -> Ids \cup {None}] /\ queue' \in Seq(Tasks)
  BY <1>1, <1>2, <1>3 DEF IdmTypeOK, Calm
<1> QED
  BY <1>2, <1>3, <1>4, <1>5, <1>6, <1>7, <1>8, StillStep

LEMMA AddCredentialKeeps ==
  ASSUME IdmInv, NEW c \in Ids, NEW u \in Users, NEW type \in Types
  PROVE  AddCredential(c, u, type, None) \/ UpdateCredential(c, u, type) => IdmInv'
<1>1. ASSUME AddCredential(c, u, type, None) PROVE IdmInv'
  <2>1. /\ NewContext(c, "enroll", u, type, None)
        /\ UNCHANGED <<engineVars, templates, busy, deletion, tasks, publishVars, cacheVars, ghost>>
    BY <1>1 DEF AddCredential
  <2> QED
    BY <2>1, NewStep
<1>2. ASSUME NEW k \in GetCredential(u, type), AddCredential(c, u, type, k.id) PROVE IdmInv'
  <2>1. /\ NewContext(c, "enroll", u, type, k.id)
        /\ UNCHANGED <<engineVars, templates, busy, deletion, tasks, publishVars, cacheVars, ghost>>
    BY <1>2 DEF AddCredential
  <2>2. k \in creds /\ k.user = u /\ k.type = type
    BY DEF GetCredential, InUse, CredsOf
  <2>3. k.id \in Ids
    BY <2>2 DEF IdmInv, IdmTypeOK, CredentialType
  <2> QED
    BY <2>1, <2>2, <2>3, NewStep
<1> QED
  BY <1>1, <1>2 DEF UpdateCredential

LEMMA DelCredentialKeeps ==
  ASSUME IdmInv, NEW c \in Ids, NEW k \in creds, DelCredential(c, k)
  PROVE  IdmInv'
<1>1. /\ NewContext(c, "delete", k.user, k.type, k.id)
      /\ UNCHANGED <<engineVars, templates, busy, deletion, tasks, publishVars, cacheVars, ghost>>
  BY DEF DelCredential
<1>2. k.id \in Ids /\ k.user \in Users /\ k.type \in Types /\ k.id # None
  BY DEF IdmInv, IdmTypeOK, CredentialType, None, Ids
<1> QED
  BY <1>1, <1>2, NewStep

LEMMA PromoteKeeps ==
  ASSUME IdmInv, NEW c \in Ids, Promote(c)
  PROVE  IdmInv'
<1>1. ControlInv /\ IdmTypeOK
  BY DEF IdmInv, ControlInv
<1>2. /\ ctx[c].st = "waiting" /\ ctx' = [ctx EXCEPT ![c].st = "starting"]
      /\ queue' = Append(queue, <<"start", c>>)
      /\ busy' = busy /\ enrolling' = enrolling /\ creds' = creds /\ deletion' = deletion /\ tasks' = tasks
      /\ publishVars' = publishVars /\ cacheVars' = cacheVars /\ ghost' = ghost /\ templates' = templates
  BY DEF Promote, engineVars
<1>3. Moves(c, "starting") /\ (ctx'[c].running <=> ctx[c].running)
  BY <1>1, <1>2, MovesFacts DEF Statuses
<1>4. queue' \in Seq(Tasks) /\ QueueInv' /\ LatestInv' /\ RunInv'
  BY <1>1, <1>2, <1>3, PromoteMove
<1>5. Aged
  BY <1>1, <1>2, <1>3, AgedFacts DEF Statuses
<1>6. busy # Idle => ctx'[busy.id].st = ctx[busy.id].st
  BY <1>2, <1>3, BusyFacts DEF IdmInv, Moves
<1>7. \A d \in Ids : <<"succeeded", d>> \in ToSet(queue) => <<"succeeded", d>> \in ToSet(queue')
  BY <1>1, <1>2, TaskFacts, QueueHolds
<1>8. enrolling' \in [Users -> Ids \cup {None}] /\ ctx' \in [Ids -> ContextType]
  BY <1>1, <1>2, <1>3 DEF IdmTypeOK, Moves
<1> QED
  BY <1>2, <1>4, <1>5, <1>6, <1>7, <1>8, StillStep

\* The event thread takes a task that leaves no template behind.
LEMMA TakenHolds ==
  ASSUME IdmTypeOK, queue # <<>>, queue' = Tail(queue), NEW c \in Ids, NEW kind \in {"start", "stop", "failed"},
         Head(queue) = <<kind, c>>
  PROVE  \A d \in Ids : <<"succeeded", d>> \in ToSet(queue) => <<"succeeded", d>> \in ToSet(queue')
<1>1. \A d \in Ids : Head(queue) # <<"succeeded", d>>
  OBVIOUS
<1> QED
  BY <1>1, QueueHolds

LEMMA StartEnrollmentKeeps ==
  ASSUME IdmInv, StartEnrollment
  PROVE  IdmInv'
<1> DEFINE c == Head(queue)[2]
<1>1. ControlInv /\ IdmTypeOK
  BY DEF IdmInv, ControlInv
<1>2. Head1("start")
  BY DEF StartEnrollment
<1>3. queue # <<>> /\ busy = Idle /\ c \in Ids /\ Head(queue) = <<"start", c>>
  BY <1>1, <1>2, HeadFacts
<1>4. /\ ctx[c].kind = "enroll" /\ queue' = Tail(queue)
      /\ \/ ~ctx[c].cancelled /\ enrolling' = [enrolling EXCEPT ![ctx[c].user] = c] /\ ctx' = StartSchedule(c)
         \/ ctx' = Ended(c) /\ enrolling' = enrolling
      /\ busy' = busy /\ creds' = creds /\ deletion' = deletion /\ tasks' = tasks
      /\ publishVars' = publishVars /\ cacheVars' = cacheVars /\ ghost' = ghost /\ templates' = templates
  BY DEF StartEnrollment, Taken, BeginEnrollment
<1> HIDE DEF c
<1>5. ctx[c].st = "starting"
  BY <1>1, <1>3, LastTask
<1>6. PICK st \in {"started", "done"} :
        /\ Moves(c, st) /\ queue' \in Seq(Tasks) /\ QueueInv' /\ LatestInv' /\ RunInv'
        /\ enrolling' \in [Users -> Ids \cup {None}]
  <2>1. CASE ~ctx[c].cancelled /\ enrolling' = [enrolling EXCEPT ![ctx[c].user] = c] /\ ctx' = StartSchedule(c)
    <3>1. Moves(c, "started")
      BY <1>1, <1>3, <2>1, MovesFacts
    <3>2. enrolling' \in [Users -> Ids \cup {None}]
      BY <1>1, <1>3, <2>1 DEF IdmTypeOK
    <3> QED
      BY <1>1, <1>3, <1>4, <2>1, <3>1, <3>2, BeginMove
  <2>2. CASE ctx' = Ended(c) /\ enrolling' = enrolling
    <3>1. Moves(c, "done") /\ ~ctx'[c].running
      BY <1>1, <1>3, <2>2, MovesFacts
    <3>2. enrolling' \in [Users -> Ids \cup {None}]
      BY <1>1, <2>2 DEF IdmTypeOK
    <3> QED
      BY <1>1, <1>3, <1>4, <2>2, <3>1, <3>2, TakeMove
  <2> QED
    BY <1>4, <2>1, <2>2
<1>7. Aged
  BY <1>1, <1>3, <1>5, <1>6, AgedFacts DEF Statuses
<1>8. \A d \in Ids : <<"succeeded", d>> \in ToSet(queue) => <<"succeeded", d>> \in ToSet(queue')
  BY <1>1, <1>3, <1>4, TakenHolds
<1>9. ctx' \in [Ids -> ContextType]
  BY <1>6 DEF Moves
<1> QED
  BY <1>3, <1>4, <1>6, <1>7, <1>8, <1>9, StillStep

LEMMA StopContextKeeps ==
  ASSUME IdmInv, StopContext
  PROVE  IdmInv'
<1> DEFINE c == Head(queue)[2]
<1>1. ControlInv /\ IdmTypeOK
  BY DEF IdmInv, ControlInv
<1>2. Head1("stop")
  BY DEF StopContext
<1>3. queue # <<>> /\ busy = Idle /\ c \in Ids /\ Head(queue) = <<"stop", c>>
  BY <1>1, <1>2, HeadFacts
<1>4. /\ queue' = Tail(queue)
      /\ enrolling' = IF ctx[c].st = "started" THEN CancelInEngine(c) ELSE enrolling
      /\ ghost' = [ghost EXCEPT !.victims = @ \cup IF ctx[c].st = "started" THEN Victims(c) ELSE {}]
      /\ ctx' = IF ctx[c].st = "started" THEN [ctx EXCEPT ![c].running = FALSE] ELSE ctx
      /\ busy' = busy /\ creds' = creds /\ deletion' = deletion /\ tasks' = tasks
      /\ publishVars' = publishVars /\ cacheVars' = cacheVars /\ templates' = templates
  BY DEF StopContext, Taken
<1> HIDE DEF c
<1>5. Victims(c) = {}
  BY <1>1, <1>3, NoVictims DEF ControlInv
<1>6. ghost' = ghost
  BY <1>1, <1>4, <1>5 DEF IdmTypeOK, GhostType
<1>7. \A d \in Ids : <<"succeeded", d>> \in ToSet(queue) => <<"succeeded", d>> \in ToSet(queue')
  BY <1>1, <1>3, <1>4, TakenHolds
<1>8. CASE ctx[c].st = "started"
  <2>1. Moves(c, "started") /\ ~ctx'[c].running
    BY <1>1, <1>3, <1>4, <1>8, MovesFacts
  <2>2. enrolling' \in [Users -> Ids \cup {None}] /\ \A u \in Users : enrolling'[u] \in {enrolling[u], None}
    BY <1>1, <1>3, <1>4, <1>8, CancelFacts
  <2>3. queue' \in Seq(Tasks) /\ QueueInv' /\ LatestInv' /\ RunInv'
    BY <1>1, <1>3, <1>4, <1>8, <2>1, <2>2, TakeMove
  <2>4. Aged
    BY <1>1, <1>3, <1>8, <2>1, AgedFacts DEF Statuses
  <2>5. ctx' \in [Ids -> ContextType]
    BY <2>1 DEF Moves
  <2> QED
    BY <1>3, <1>4, <1>6, <1>7, <2>2, <2>3, <2>4, <2>5, StillStep
<1>9. CASE ctx[c].st # "started"
  <2>1. ctx' = ctx /\ enrolling' = enrolling
    BY <1>4, <1>9
  <2>2. \A d \in Ids : ctx[d].running => Head(queue) # <<"stop", d>>
    BY <1>1, <1>3, <1>9 DEF ControlInv, RunInv
  <2>3. queue' \in Seq(Tasks) /\ QueueInv' /\ LatestInv' /\ RunInv'
    BY <1>1, <1>3, <1>4, <2>1, <2>2, PopMove
  <2>4. Aged
    BY <1>1, <2>1, AgedFacts
  <2>5. ctx' \in [Ids -> ContextType] /\ enrolling' \in [Users -> Ids \cup {None}]
    BY <1>1, <2>1 DEF IdmTypeOK
  <2> QED
    BY <1>3, <1>4, <1>6, <1>7, <2>3, <2>4, <2>5, StillStep
<1> QED
  BY <1>8, <1>9

LEMMA ScheduleEndsKeeps ==
  ASSUME IdmInv, NEW c \in Ids, NEW ok \in BOOLEAN, ScheduleEnds(c, ok)
  PROVE  IdmInv'
<1> DEFINE e == <<IF ok THEN "succeeded" ELSE "failed", c>>
<1>1. ControlInv /\ IdmTypeOK
  BY DEF IdmInv, ControlInv
<1>2. /\ ctx[c].st = "started" /\ busy.id # c /\ queue' = Append(queue, e)
      /\ \A i \in DOMAIN queue : queue[i] # <<"failed", c>> /\ queue[i] # <<"succeeded", c>>
      /\ templates' = IF ok /\ ctx[c].kind = "enroll" THEN templates \cup {c} ELSE templates
      /\ ctx' = ctx /\ busy' = busy /\ enrolling' = enrolling /\ creds' = creds /\ deletion' = deletion
      /\ tasks' = tasks /\ publishVars' = publishVars /\ cacheVars' = cacheVars /\ ghost' = ghost
  BY DEF ScheduleEnds, engineVars
<1>3. e \in {<<"failed", c>>, <<"succeeded", c>>} /\ (ok => e = <<"succeeded", c>>)
  OBVIOUS
<1>4. e \in Tasks
  BY <1>3, TaskFacts
<1> HIDE DEF e
<1>5. <<"failed", c>> \notin ToSet(queue) /\ <<"succeeded", c>> \notin ToSet(queue)
  BY <1>2 DEF ToSet
<1>6. queue' \in Seq(Tasks) /\ QueueInv' /\ LatestInv' /\ RunInv'
  BY <1>1, <1>2, <1>3, <1>4, <1>5, PostMove
<1>7. ToSet(queue') = ToSet(queue) \cup {e}
  BY <1>1, <1>2, <1>4, QueueHolds
<1>8. Aged
  BY <1>1, <1>2, AgedFacts
<1>9. \A d \in templates' : \/ d \in templates
                            \/ /\ d \in Ids /\ ctx'[d].kind = "enroll" /\ ctx'[d].st = "started"
                               /\ <<"succeeded", d>> \in ToSet(queue')
  BY <1>2, <1>3, <1>7
<1>10. ctx' \in [Ids -> ContextType] /\ enrolling' \in [Users -> Ids \cup {None}]
  BY <1>1, <1>2 DEF IdmTypeOK
<1> QED
  BY <1>2, <1>6, <1>7, <1>8, <1>9, <1>10, StillStep

LEMMA ResultFailsKeeps ==
  ASSUME IdmInv, ResultFails
  PROVE  IdmInv'
<1> DEFINE c == Head(queue)[2]
<1>1. ControlInv /\ IdmTypeOK
  BY DEF IdmInv, ControlInv
<1>2. Head1("failed")
  BY DEF ResultFails
<1>3. queue # <<>> /\ busy = Idle /\ c \in Ids /\ Head(queue) = <<"failed", c>>
  BY <1>1, <1>2, HeadFacts
<1>4. /\ queue' = Tail(queue) /\ ctx' = Ended(c) /\ enrolling' = CancelInEngine(c)
      /\ ghost' = [ghost EXCEPT !.victims = @ \cup Victims(c)]
      /\ busy' = busy /\ creds' = creds /\ deletion' = deletion /\ tasks' = tasks
      /\ publishVars' = publishVars /\ cacheVars' = cacheVars /\ templates' = templates
  BY DEF ResultFails, Taken
<1> HIDE DEF c
<1>5. Victims(c) = {}
  BY <1>1, <1>3, NoVictims DEF ControlInv
<1>6. ghost' = ghost
  BY <1>1, <1>4, <1>5 DEF IdmTypeOK, GhostType
<1>7. ctx[c].st = "started"
  <2>1. Head(queue) # <<"start", c>>
    BY <1>3
  <2> QED
    BY <1>1, <1>3, <2>1, LastTask
<1>8. Moves(c, "done") /\ ~ctx'[c].running
  BY <1>1, <1>3, <1>4, MovesFacts
<1>9. enrolling' \in [Users -> Ids \cup {None}] /\ \A u \in Users : enrolling'[u] \in {enrolling[u], None}
  BY <1>1, <1>3, <1>4, CancelFacts
<1>10. queue' \in Seq(Tasks) /\ QueueInv' /\ LatestInv' /\ RunInv'
  BY <1>1, <1>3, <1>4, <1>8, <1>9, TakeMove
<1>11. Aged
  BY <1>1, <1>3, <1>7, <1>8, AgedFacts DEF Statuses
<1>12. \A d \in Ids : <<"succeeded", d>> \in ToSet(queue) => <<"succeeded", d>> \in ToSet(queue')
  BY <1>1, <1>3, <1>4, TakenHolds
<1>13. ctx' \in [Ids -> ContextType]
  BY <1>8 DEF Moves
<1> QED
  BY <1>3, <1>4, <1>6, <1>9, <1>10, <1>11, <1>12, <1>13, StillStep

LEMMA AccountChangesKeeps ==
  ASSUME IdmInv, NEW u \in Accounts, AccountChanges(u)
  PROVE  IdmInv'
<1>1. ControlInv /\ IdmTypeOK
  BY DEF IdmInv, ControlInv
<1>2. /\ queue' = Append(queue, <<"user", u>>) /\ templates' = templates
      /\ ctx' = ctx /\ busy' = busy /\ enrolling' = enrolling /\ creds' = creds /\ deletion' = deletion
      /\ tasks' = tasks /\ publishVars' = publishVars /\ cacheVars' = cacheVars /\ ghost' = ghost
  BY DEF AccountChanges, engineVars
<1>3. <<"user", u>> \in Tasks /\ <<"user", u>> \in Plain
  BY DEF Tasks, Plain
<1>4. queue' \in Seq(Tasks) /\ QueueInv' /\ LatestInv' /\ RunInv'
  BY <1>1, <1>2, <1>3, PostMove
<1>5. ToSet(queue) \subseteq ToSet(queue')
  BY <1>1, <1>2, <1>3, QueueHolds
<1>6. Aged
  BY <1>1, <1>2, AgedFacts
<1>7. ctx' \in [Ids -> ContextType] /\ enrolling' \in [Users -> Ids \cup {None}]
  BY <1>1, <1>2 DEF IdmTypeOK
<1> QED
  BY <1>2, <1>4, <1>5, <1>6, <1>7, StillStep

LEMMA FaceExecutorRegistersKeeps ==
  ASSUME IdmInv, FaceExecutorRegisters
  PROVE  IdmInv'
<1>1. ControlInv /\ IdmTypeOK
  BY DEF IdmInv, ControlInv
<1>2. /\ queue' = Append(queue, <<"registered", None>>) /\ templates' = templates
      /\ ctx' = ctx /\ busy' = busy /\ enrolling' = enrolling /\ creds' = creds /\ deletion' = deletion
      /\ tasks' = tasks /\ publishVars' = publishVars /\ ghost' = ghost
      /\ online' = TRUE /\ cache' = cache /\ currUserId' = currUserId
  BY DEF FaceExecutorRegisters, engineVars
<1>3. <<"registered", None>> \in Tasks /\ <<"registered", None>> \in Plain
  BY DEF Tasks, Plain
<1>4. queue' \in Seq(Tasks) /\ QueueInv' /\ LatestInv' /\ RunInv'
  BY <1>1, <1>2, <1>3, PostMove
<1>5. ToSet(queue) \subseteq ToSet(queue')
  BY <1>1, <1>2, <1>3, QueueHolds
<1>6. Aged
  BY <1>1, <1>2, AgedFacts
<1>7. ctx' \in [Ids -> ContextType] /\ enrolling' \in [Users -> Ids \cup {None}]
  BY <1>1, <1>2 DEF IdmTypeOK
<1>8. (CacheTypeOK /\ CacheInv)'
  BY <1>1, <1>2 DEF IdmInv, IdmTypeOK, CacheInv, CacheTypeOK
<1> QED
  BY <1>2, <1>4, <1>5, <1>6, <1>7, <1>8, StillStep

LEMMA FaceExecutorDiesKeeps ==
  ASSUME IdmInv, FaceExecutorDies
  PROVE  IdmInv'
<1>1. ControlInv /\ IdmTypeOK
  BY DEF IdmInv, ControlInv
<1>2. /\ queue' = queue /\ templates' = templates
      /\ ctx' = ctx /\ busy' = busy /\ enrolling' = enrolling /\ creds' = creds /\ deletion' = deletion
      /\ tasks' = tasks /\ publishVars' = publishVars /\ ghost' = [ghost EXCEPT !.uncached = FALSE]
      /\ online' = FALSE /\ cache' = {} /\ currUserId' = currUserId
  BY DEF FaceExecutorDies, engineVars, threadVars
<1>3. QueueInv' /\ LatestInv' /\ RunInv'
  BY <1>1, <1>2, StillMove
<1>4. Aged
  BY <1>1, <1>2, AgedFacts
<1>5. ctx' \in [Ids -> ContextType] /\ enrolling' \in [Users -> Ids \cup {None}] /\ queue' \in Seq(Tasks)
  BY <1>1, <1>2 DEF IdmTypeOK
<1>6. (CacheTypeOK /\ CacheInv)'
  BY <1>1, <1>2 DEF IdmTypeOK, CacheInv, CacheTypeOK
<1>7. Remembers
  BY <1>1, <1>2 DEF IdmTypeOK, GhostType, Remembers
<1> QED
  BY <1>2, <1>3, <1>4, <1>5, <1>6, <1>7, LosesStep

\* The executor is given templates of the user it is asked about, or keeps what it had.
LEMMA CacheFacts ==
  ASSUME IdmInv, NEW u, UpdateTemplateCache(u), u # None \/ u = currUserId
  PROVE  /\ cache' \in SUBSET Ids /\ (~online => cache' = {}) /\ Remembers
         /\ \A c \in cache' : ctx[c].st # "none" /\ (ghost'.uncached \/ ctx[c].user = u)
<1>1. creds \in SUBSET CredentialType /\ cache \in SUBSET Ids /\ ghost \in GhostType /\ CacheInv
  BY DEF IdmInv, IdmTypeOK
<1>2. CASE online /\ cache' = IdsOf(GetCredential(u, "FACE")) /\ ghost' = [ghost EXCEPT !.uncached = FALSE]
  <2>1. cache' = {k.id : k \in GetCredential(u, "FACE")}
    BY <1>2 DEF IdsOf
  <2>2. \A k \in GetCredential(u, "FACE") : k \in creds /\ k.user = u
    BY DEF GetCredential, CredsOf
  <2>3. \A k \in creds : k.id \in Ids /\ ctx[k.id].st # "none" /\ ctx[k.id].user = k.user
    BY <1>1 DEF IdmInv, CredInv, CredentialType
  <2>4. Remembers
    BY <1>1, <1>2 DEF Remembers, GhostType
  <2> QED
    BY <1>2, <2>1, <2>2, <2>3, <2>4
<1>3. CASE online /\ cache' = cache /\ ghost' = [ghost EXCEPT !.uncached = TRUE]
  <2>1. Remembers /\ ghost'.uncached
    BY <1>1, <1>3 DEF Remembers, GhostType
  <2> QED
    BY <1>1, <1>3, <2>1 DEF CacheInv
<1>4. CASE (~online \/ u = None) /\ cache' = cache /\ ghost' = ghost
  BY <1>1, <1>4 DEF CacheInv, Remembers
<1> QED
  BY <1>2, <1>3, <1>4 DEF UpdateTemplateCache, SetCachedTemplates

\* The event thread takes a task about the cache.
LEMMA CacheStep ==
  ASSUME IdmInv, NEW kind \in {"user", "registered"}, Head1(kind), Taken,
         UNCHANGED <<engineVars, templates, ctx, busy, deletion, tasks, publishVars>>, Remembers,
         (CacheTypeOK /\ CacheInv)'
  PROVE  IdmInv'
<1>1. ControlInv /\ IdmTypeOK
  BY DEF IdmInv, ControlInv
<1>2. /\ queue # <<>> /\ busy = Idle /\ Head(queue)[1] = kind /\ queue' = Tail(queue) /\ templates' = templates
      /\ ctx' = ctx /\ busy' = busy /\ enrolling' = enrolling /\ creds' = creds /\ deletion' = deletion
      /\ tasks' = tasks /\ publishVars' = publishVars
  BY DEF engineVars, Head1, Taken
<1>3. \A c \in Ids : Head(queue) # <<"stop", c>> /\ Head(queue) # <<"succeeded", c>>
  BY <1>2
<1>4. queue' \in Seq(Tasks) /\ QueueInv' /\ LatestInv' /\ RunInv'
  BY <1>1, <1>2, <1>3, PopMove
<1>5. Aged
  BY <1>1, <1>2, AgedFacts
<1>6. \A d \in Ids : <<"succeeded", d>> \in ToSet(queue) => <<"succeeded", d>> \in ToSet(queue')
  BY <1>1, <1>2, <1>3, QueueHolds
<1>7. ctx' \in [Ids -> ContextType] /\ enrolling' \in [Users -> Ids \cup {None}]
  BY <1>1, <1>2 DEF IdmTypeOK
<1> QED
  BY <1>2, <1>4, <1>5, <1>6, <1>7, LosesStep

LEMMA ProcessUserIdChangeKeeps ==
  ASSUME IdmInv, ProcessUserIdChange
  PROVE  IdmInv'
<1>1. /\ Head1("user") /\ Taken /\ currUserId' = Head(queue)[2] /\ online' = online /\ ctx' = ctx
      /\ UNCHANGED <<engineVars, templates, ctx, busy, deletion, tasks, publishVars>>
  BY DEF ProcessUserIdChange
<1>2. IdmTypeOK
  BY DEF IdmInv
<1>3. currUserId' \in Accounts
  <2>1. queue # <<>> /\ Head(queue)[1] = "user"
    BY <1>1 DEF Head1
  <2>2. Head(queue) \in Tasks
    BY <1>2, <2>1, QueueHolds
  <2> QED
    BY <1>1, <2>1, <2>2 DEF Tasks
<1>4. currUserId' # None
  BY <1>3, IdmAssumption DEF None
<1>5. Remembers /\ (CacheTypeOK /\ CacheInv)'
  <2>1. CASE currUserId = currUserId' /\ cache' = cache /\ ghost' = ghost
    BY <1>1, <1>2, <2>1 DEF IdmInv, IdmTypeOK, CacheTypeOK, CacheInv, Remembers
  <2>2. CASE UpdateTemplateCache(currUserId')
    <3>1. /\ cache' \in SUBSET Ids /\ (~online => cache' = {}) /\ Remembers
          /\ \A c \in cache' : ctx[c].st # "none" /\ (ghost'.uncached \/ ctx[c].user = currUserId')
      BY <1>4, <2>2, CacheFacts
    <3> QED
      BY <1>1, <1>2, <1>3, <3>1 DEF IdmTypeOK, CacheTypeOK, CacheInv
  <2> QED
    BY <2>1, <2>2 DEF ProcessUserIdChange
<1> QED
  BY <1>1, <1>5, CacheStep

LEMMA UpdateCacheAfterRegisterKeeps ==
  ASSUME IdmInv, UpdateCacheAfterRegister
  PROVE  IdmInv'
<1>1. /\ Head1("registered") /\ Taken /\ currUserId' = currUserId /\ online' = online /\ ctx' = ctx
      /\ UpdateTemplateCache(currUserId)
      /\ UNCHANGED <<engineVars, templates, ctx, busy, deletion, tasks, publishVars>>
  BY DEF UpdateCacheAfterRegister
<1>2. /\ cache' \in SUBSET Ids /\ (~online => cache' = {}) /\ Remembers
      /\ \A c \in cache' : ctx[c].st # "none" /\ (ghost'.uncached \/ ctx[c].user = currUserId)
  BY <1>1, CacheFacts
<1>3. (CacheTypeOK /\ CacheInv)'
  BY <1>1, <1>2 DEF IdmInv, IdmTypeOK, CacheTypeOK, CacheInv
<1> QED
  BY <1>1, <1>2, <1>3, CacheStep

-------------------------------------------------------------------------------
(* The actions that change the stores.                                     *)

\* Templates that stay although they were to be deleted are lost.
LEMMA NotifyFacts ==
  ASSUME IdmTypeOK, NEW infos \in SUBSET CredentialType, NotifyExecutorToDeleteTemplates(infos)
  PROVE  /\ templates' \subseteq templates /\ Remembers /\ ghost'.uncached = ghost.uncached
         /\ \A c \in templates' : c \in IdsOf(infos) => c \in ghost'.lost
<1> DEFINE gone == IdsOf(infos \ Reachable(infos))
<1>1. gone \subseteq Ids /\ IdsOf(infos) \subseteq IdsOf(Reachable(infos)) \cup gone
  BY DEF IdsOf, CredentialType, Reachable
<1>2. templates' = templates \ IdsOf(Reachable(infos)) /\ ghost' = [ghost EXCEPT !.lost = @ \cup gone]
  BY DEF NotifyExecutorToDeleteTemplates
<1> HIDE DEF gone
<1>3. /\ ghost' \in GhostType /\ ghost'.updates = ghost.updates /\ ghost'.stale = ghost.stale
      /\ ghost'.victims = ghost.victims /\ ghost'.lost = ghost.lost \cup gone
      /\ ghost'.uncached = ghost.uncached
  BY <1>1, <1>2 DEF IdmTypeOK, GhostType
<1> QED
  BY <1>1, <1>2, <1>3 DEF Remembers

\* A step that touches neither contexts nor queue, the cache or the event thread's result.
LEMMA AsideStep ==
  ASSUME IdmInv, UNCHANGED <<ctx, queue, enrolling, busy, cacheVars>>, announced' = announced, pinUpdate' = pinUpdate,
         published' \in [Users -> Nat], creds' \subseteq creds, deletion' \in DeletionType,
         tasks' \in SUBSET (SUBSET CredentialType), Remembers, ghost'.uncached = ghost.uncached,
         templates' \subseteq templates,
         \A c \in templates' : Located(c) => Located(c)',
         CountInv'
  PROVE  IdmInv'
<1>1. ControlInv /\ IdmTypeOK /\ DataInv
  BY DEF IdmInv, ControlInv, DataInv
<1>2. QueueInv' /\ LatestInv' /\ RunInv'
  BY <1>1, StillMove
<1>3. Aged
  BY <1>1, AgedFacts
<1>4. ctx' \in [Ids -> ContextType]
  BY <1>1 DEF IdmTypeOK
<1>5. CredInv'
  BY <1>1, <1>3, <1>4, CredKept DEF DataInv
<1>6. BusyInv'
  BY <1>1, BusyKept DEF DataInv, Remembers, SameRequest
<1>7. TemplateInv'
  BY <1>1, <1>3, TemplateKept DEF DataInv
<1>8. UpdateInv'
  BY <1>1, UpdateKept DEF DataInv, Remembers
<1>9. CacheInv'
  BY <1>1, CacheKept DEF DataInv, cacheVars
<1>10. IsFiniteSet(creds') /\ creds' \in SUBSET CredentialType
  BY <1>1, FS_Subset DEF IdmTypeOK
<1>11. IdmTypeOK'
  BY <1>1, <1>10 DEF IdmTypeOK, cacheVars, Remembers
<1> QED
  BY <1>2, <1>5, <1>6, <1>7, <1>8, <1>9, <1>11 DEF IdmInv, Remembers

\* DeleteSubProfile and ClearUnavailableCredential.
LEMMA EngineDropsKeeps ==
  ASSUME IdmInv, NEW u \in Users, NEW infos \in SUBSET CredsOf(u), EngineDrops(infos),
         \A k \in infos : k.abandoned \/ k.type = "FACE"
  PROVE  IdmInv'
<1>1. /\ creds' = creds \ infos /\ NotifyExecutorToDeleteTemplates(infos)
      /\ UNCHANGED <<ctx, queue, enrolling, busy, cacheVars>> /\ announced' = announced /\ pinUpdate' = pinUpdate
      /\ published' = published /\ deletion' = deletion /\ tasks' = tasks
  BY DEF EngineDrops, threadVars, publishVars
<1>2. IdmTypeOK /\ CountInv
  BY DEF IdmInv
<1>3. infos \in SUBSET CredentialType
  BY <1>2 DEF IdmTypeOK, CredsOf
<1>4. /\ templates' \subseteq templates /\ Remembers /\ ghost'.uncached = ghost.uncached
      /\ \A c \in templates' : c \in IdsOf(infos) => c \in ghost'.lost
  BY <1>1, <1>2, <1>3, NotifyFacts
<1>5. Replaced' = Replaced
  BY <1>1 DEF Replaced
<1>6. IdsOf(creds) \subseteq IdsOf(creds') \cup IdsOf(infos)
  BY <1>1 DEF IdsOf
<1>7. ASSUME NEW c \in templates', Located(c) PROVE Located(c)'
  <2>1. c \in IdsOf(creds) => c \in IdsOf(creds') \/ c \in ghost'.lost
    BY <1>4, <1>6
  <2>2. c \in ghost.lost => c \in ghost'.lost
    BY <1>4 DEF Remembers
  <2> QED
    BY <1>1, <1>5, <1>7, <2>1, <2>2 DEF Located, IdsOf
<1>8. \A w \in Users : InUse(w)' = InUse(w)
  BY <1>1 DEF GetCredential, InUse, CredsOf
<1>9. CountInv'
  BY <1>1, <1>2, <1>4, <1>8, CountKept DEF Remembers, SameRequest
<1>10. published' \in [Users -> Nat] /\ deletion' \in DeletionType /\ tasks' \in SUBSET (SUBSET CredentialType)
  BY <1>1, <1>2 DEF IdmTypeOK
<1>11. creds' \subseteq creds
  BY <1>1
<1> QED
  BY <1>1, <1>4, <1>7, <1>9, <1>10, <1>11, AsideStep

LEMMA DeleteTemplateTaskKeeps ==
  ASSUME IdmInv, NEW infos \in tasks, DeleteTemplateTask(infos)
  PROVE  IdmInv'
<1>1. /\ tasks' = tasks \ {infos} /\ NotifyExecutorToDeleteTemplates(infos)
      /\ UNCHANGED <<ctx, queue, enrolling, busy, cacheVars>> /\ announced' = announced /\ pinUpdate' = pinUpdate
      /\ published' = published /\ deletion' = deletion /\ creds' = creds
  BY DEF DeleteTemplateTask, engineVars, publishVars
<1>2. IdmTypeOK /\ CountInv
  BY DEF IdmInv
<1>3. infos \in SUBSET CredentialType
  BY <1>2 DEF IdmTypeOK
<1>4. /\ templates' \subseteq templates /\ Remembers /\ ghost'.uncached = ghost.uncached
      /\ \A c \in templates' : c \in IdsOf(infos) => c \in ghost'.lost
  BY <1>1, <1>2, <1>3, NotifyFacts
<1>5. Replaced' = Replaced
  BY <1>1 DEF Replaced
<1>6. ASSUME NEW c \in templates', Located(c) PROVE Located(c)'
  <2>1. c \in UNION {IdsOf(i) : i \in tasks} => c \in UNION {IdsOf(i) : i \in tasks'} \/ c \in IdsOf(infos)
    BY <1>1
  <2>2. c \in ghost.lost => c \in ghost'.lost
    BY <1>4 DEF Remembers
  <2> QED
    BY <1>1, <1>4, <1>5, <1>6, <2>1, <2>2 DEF Located, IdsOf
<1>7. \A w \in Users : InUse(w)' = InUse(w)
  BY <1>1 DEF GetCredential, InUse, CredsOf
<1>8. CountInv'
  BY <1>1, <1>2, <1>4, <1>7, CountKept DEF Remembers, SameRequest
<1>9. published' \in [Users -> Nat] /\ deletion' \in DeletionType /\ tasks' \in SUBSET (SUBSET CredentialType)
  BY <1>1, <1>2 DEF IdmTypeOK
<1> QED
  BY <1>1, <1>4, <1>6, <1>8, <1>9, AsideStep

LEMMA PostProcessForDeleteKeeps ==
  ASSUME IdmInv, PostProcessForDelete
  PROVE  IdmInv'
<1> DEFINE hadPin == {k.user : k \in {i \in deletion.infos : i.type = "PIN" /\ ~i.abandoned}}
<1>1. /\ NotifyExecutorToDeleteTemplates(deletion.infos) /\ SaveCredentialUpdatedEvent(hadPin, 0)
      /\ UNCHANGED <<ctx, queue, enrolling, busy, cacheVars>> /\ announced' = announced /\ pinUpdate' = pinUpdate
      /\ deletion' = NoDeletion /\ creds' = creds /\ tasks' = tasks
  BY DEF PostProcessForDelete, engineVars
<1>2. \A u : u \in hadPin <=> HadPin(u)
  BY DEF HadPin
<1> HIDE DEF hadPin
<1>3. IdmTypeOK /\ CountInv
  BY DEF IdmInv
<1>4. deletion.infos \in SUBSET CredentialType /\ deletion.users \in SUBSET Users
  BY <1>3 DEF IdmTypeOK, DeletionType
<1>5. /\ templates' \subseteq templates /\ Remembers /\ ghost'.uncached = ghost.uncached
      /\ \A c \in templates' : c \in IdsOf(deletion.infos) => c \in ghost'.lost
  BY <1>1, <1>3, <1>4, NotifyFacts
<1>6. Replaced' = Replaced
  BY <1>1 DEF Replaced
<1>7. ASSUME NEW c \in templates', Located(c) PROVE Located(c)'
  <2>1. c \in ghost.lost => c \in ghost'.lost
    BY <1>5 DEF Remembers
  <2> QED
    BY <1>1, <1>5, <1>6, <1>7, <2>1 DEF Located, IdsOf
<1>8. \A w : InUse(w)' = InUse(w)
  BY <1>1 DEF GetCredential, InUse, CredsOf
<1>9. /\ published' = [u \in Users |-> IF u \in hadPin THEN 0 ELSE published[u]]
      /\ published' \in [Users -> Nat]
  BY <1>1, <1>3 DEF SaveCredentialUpdatedEvent, IdmTypeOK
<1>10. CountInv'
  <2>1. deletion'.infos = {} /\ deletion'.users = {}
    BY <1>1 DEF NoDeletion
  <2>2. ASSUME NEW u \in Users \ ghost'.stale
        PROVE  Right(u, published[u])' \/ Pending(u)'
    <3>1. u \in Users \ ghost.stale
      BY <1>5 DEF Remembers
    <3>2. CASE HadPin(u)
      <4>1. u \in deletion.users
        BY <1>3, <3>2 DEF HadPin, CountInv
      <4>2. InUse(u) = {}
        BY <1>3, <3>1, <4>1 DEF CountInv
      <4>3. Right(u, 0)'
        BY <1>3, <1>5, <1>8, <4>2, RightNone, RightSame DEF Remembers
      <4>4. published'[u] = 0
        BY <1>2, <1>9, <3>2
      <4> QED
        BY <4>3, <4>4 DEF Right
    <3>3. CASE ~HadPin(u)
      <4>1. Pending(u)' <=> Pending(u)
        BY <1>1, <1>8, PendingSame DEF SameRequest
      <4>2. published'[u] = published[u]
        BY <1>2, <1>9, <3>3
      <4>3. Right(u, published[u]) \/ Pending(u)
        BY <1>3, <3>1, <3>3 DEF CountInv
      <4>4. \A n : Right(u, n)' <=> Right(u, n)
        BY <1>5, <1>8, RightSame DEF Remembers
      <4> HIDE DEF GetCredential, InUse
      <4> QED
        BY <4>1, <4>2, <4>3, <4>4 DEF Right
    <3> QED
      BY <3>2, <3>3
  <2>3. ASSUME busy'.step = "counted", ctx'[busy'.id].type = "PIN", ctx'[busy'.id].user \notin ghost'.stale
        PROVE  (Right(ctx[busy.id].user, busy.n))'
    <3>1. /\ busy.step = "counted" /\ ctx[busy.id].type = "PIN" /\ ctx[busy.id].user \notin ghost.stale
          /\ busy'.n = busy.n /\ ctx'[busy'.id].user = ctx[busy.id].user
      BY <1>1, <1>5, <2>3 DEF Remembers
    <3>2. Right(ctx[busy.id].user, busy.n)
      BY <1>3, <3>1 DEF CountInv
    <3>3. \A u : InUse(u)' = InUse(u) /\ Superseded(u)' = Superseded(u)
      BY <1>5, <1>8 DEF Remembers, Superseded
    <3> QED
      BY <1>1, <3>1, <3>2, <3>3 DEF Right
  <2>4. \A k \in creds' : k.abandoned => k.type = "PIN" /\ k.id \in Superseded(k.user)'
    BY <1>1, <1>3, <1>5 DEF CountInv, Superseded, Remembers
  <2> HIDE DEF GetCredential, InUse
  <2> QED
    BY <1>1, <2>1, <2>2, <2>3, <2>4 DEF CountInv
<1>11. deletion' \in DeletionType /\ tasks' \in SUBSET (SUBSET CredentialType)
  BY <1>1, <1>3 DEF IdmTypeOK, DeletionType, NoDeletion
<1> QED
  BY <1>1, <1>5, <1>7, <1>9, <1>10, <1>11, AsideStep

LEMMA DeleteUsersKeeps ==
  ASSUME IdmInv, NEW us \in SUBSET Users, DeleteUsers(us)
  PROVE  IdmInv'
<1> DEFINE late == UNION {Overtaken(u) : u \in us}
           gone == {k \in creds : k.user \in us}
<1>1. /\ ~Locked /\ queue' = queue \o StopTasks(PooledEnrolls)
      /\ ctx' = [c \in Ids |-> IF c \in PooledEnrolls THEN [ctx[c] EXCEPT !.cancelled = TRUE] ELSE ctx[c]]
      /\ deletion' = [users |-> us, infos |-> gone]
      /\ creds' = {k \in creds : k.user \notin us}
      /\ ghost' = [ghost EXCEPT !.stale = @ \cup late]
      /\ templates' = templates /\ busy' = busy /\ enrolling' = enrolling /\ tasks' = tasks /\ published' = published
      /\ announced' = announced /\ pinUpdate' = pinUpdate /\ cacheVars' = cacheVars
  BY DEF DeleteUsers, CancelCurrentEnrollIfExist, publishVars
<1>2. ControlInv /\ IdmTypeOK /\ DataInv
  BY DEF IdmInv, ControlInv, DataInv
<1>3. deletion.users = {} /\ deletion.infos = {}
  BY <1>1 DEF Locked, NoDeletion
<1>4. late \subseteq us
  BY DEF Overtaken
<1>5. \A u \in us : busy.step = "counted" /\ ctx[busy.id].user = u /\ ctx[busy.id].type = "PIN" => u \in late
  BY DEF Overtaken, PinUser
<1> HIDE DEF late
<1>6. /\ ghost' \in GhostType /\ ghost'.updates = ghost.updates /\ ghost'.stale = ghost.stale \cup late
      /\ ghost'.victims = ghost.victims /\ ghost'.lost = ghost.lost /\ ghost'.uncached = ghost.uncached
  BY <1>1, <1>2, <1>4 DEF IdmTypeOK, GhostType
<1>7. Marks(PooledEnrolls)
  BY <1>1, <1>2, MarksFacts
<1>8. queue' \in Seq(Tasks) /\ QueueInv' /\ LatestInv' /\ RunInv'
  BY <1>1, <1>2, <1>7, CancelMove
<1>9. Aged
  BY <1>2, <1>7, AgedFacts
<1>10. ctx' \in [Ids -> ContextType] /\ \A c \in Ids : ctx'[c].st = ctx[c].st /\ SameRequest(c)
  BY <1>7 DEF Marks
<1>11. busy # Idle => busy.id \in Ids /\ ctx'[busy.id].st = ctx[busy.id].st /\ SameRequest(busy.id)
  BY <1>2, <1>10, BusyFacts DEF DataInv
<1>12. creds' \subseteq creds
  BY <1>1
<1>13. CredInv'
  BY <1>1, <1>2, <1>9, <1>10, <1>12, CredKept DEF DataInv
<1>14. BusyInv'
  BY <1>1, <1>2, <1>6, <1>11, <1>12, BusyKept DEF DataInv
<1>15. TemplateInv'
  <2>1. Replaced' = Replaced
    BY <1>1, <1>11 DEF Replaced, SameRequest
  <2>2. IdsOf(creds) \subseteq IdsOf(creds') \cup IdsOf(deletion'.infos)
    BY <1>1 DEF IdsOf
  <2>3. ToSet(queue) \subseteq ToSet(queue')
    <3>1. PooledEnrolls \in SUBSET Ids
      BY DEF PooledEnrolls
    <3> QED
      BY <1>1, <1>2, <3>1, QueueHolds
  <2>4. IdsOf(deletion.infos) = {}
    BY <1>3 DEF IdsOf
  <2>5. ASSUME NEW c \in templates', Located(c) PROVE Located(c)'
    BY <1>1, <1>6, <2>1, <2>2, <2>3, <2>4, <2>5 DEF Located, IdsOf
  <2> QED
    BY <1>1, <1>2, <1>9, <2>5, TemplateKept DEF DataInv
<1>16. UpdateInv'
  BY <1>1, <1>2, <1>6, <1>10, <1>12, UpdateKept DEF DataInv
<1>17. CacheInv'
  BY <1>1, <1>2, <1>6, <1>10, CacheKept DEF DataInv, cacheVars, SameRequest
<1>18. CountInv'
  <2>1. \A u : u \notin us => InUse(u)' = InUse(u)
    BY <1>1 DEF GetCredential, InUse, CredsOf
  <2>2. \A u \in us : InUse(u)' = {}
    BY <1>1 DEF GetCredential, InUse, CredsOf
  <2>3. \A k \in deletion'.infos : k.user \in deletion'.users
    BY <1>1
  <2>4. ASSUME NEW u \in Users \ ghost'.stale
        PROVE  Right(u, published[u])' \/ HadPin(u)' \/ Pending(u)'
    <3>1. Right(u, published[u]) \/ Pending(u)
      <4>1. ~HadPin(u)
        BY <1>3 DEF HadPin
      <4> QED
        BY <1>2, <1>6, <4>1 DEF DataInv, CountInv
    <3>2. CASE InUse(u)' = InUse(u)
      <4>1. Pending(u)' <=> Pending(u)
        BY <1>1, <1>11, <3>2, PendingSame
      <4>2. \A n : Right(u, n)' <=> Right(u, n)
        BY <1>6, <3>2, RightSame
      <4> HIDE DEF GetCredential, InUse
      <4> QED
        BY <1>1, <3>1, <4>1, <4>2 DEF Right
    <3>3. CASE u \in us /\ InUse(u) # {}
      <4>1. PICK k \in creds : k.user = u /\ k.type = "PIN" /\ ~k.abandoned
        BY <3>3 DEF GetCredential, InUse, CredsOf
      <4>2. k \in deletion'.infos
        BY <1>1, <3>3, <4>1
      <4> QED
        BY <4>1, <4>2 DEF HadPin
    <3> QED
      BY <2>1, <2>2, <3>2, <3>3
  <2>5. ASSUME busy'.step = "counted", ctx'[busy'.id].type = "PIN", ctx'[busy'.id].user \notin ghost'.stale
        PROVE  (Right(ctx[busy.id].user, busy.n))'
    <3>1. busy # Idle
      BY <1>1, <2>5 DEF Idle
    <3>2. ctx'[busy'.id].user = ctx[busy.id].user /\ ctx'[busy'.id].type = ctx[busy.id].type
      BY <1>1, <1>11, <3>1 DEF SameRequest
    <3>3. ctx[busy.id].user \notin us /\ ctx[busy.id].user \notin ghost.stale
      BY <1>1, <1>5, <1>6, <2>5, <3>2
    <3>4. Right(ctx[busy.id].user, busy.n)
      BY <1>1, <1>2, <2>5, <3>2, <3>3 DEF DataInv, CountInv
    <3>5. \A u : Superseded(u)' = Superseded(u)
      BY <1>6 DEF Superseded
    <3> HIDE DEF GetCredential, InUse
    <3> QED
      BY <1>1, <2>1, <3>2, <3>3, <3>4, <3>5 DEF Right
  <2>6. deletion'.users = us
    BY <1>1
  <2>7. \A k \in creds' : k.abandoned => k.type = "PIN" /\ k.id \in Superseded(k.user)'
    BY <1>1, <1>2, <1>6 DEF CountInv, DataInv, Superseded
  <2> HIDE DEF GetCredential, InUse
  <2> QED
    BY <2>2, <2>3, <2>4, <2>5, <2>6, <2>7 DEF CountInv
<1>19. IsFiniteSet(creds') /\ creds' \in SUBSET CredentialType
  BY <1>2, <1>12, FS_Subset DEF IdmTypeOK
<1>20. deletion' \in DeletionType
  BY <1>1, <1>2 DEF IdmTypeOK, DeletionType
<1>21. IdmTypeOK'
  BY <1>1, <1>2, <1>6, <1>8, <1>10, <1>19, <1>20 DEF IdmTypeOK, cacheVars
<1> QED
  BY <1>6, <1>8, <1>13, <1>14, <1>15, <1>16, <1>17, <1>18, <1>21 DEF IdmInv

\* What the deletion c is to drop.
Dropped(c) == {k \in creds : k.id = ctx[c].old}

\* The event thread begins to handle a deletion the engine has made: the templates go by a
\* posted task, or are left to it.
LEMMA DropStep ==
  ASSUME IdmInv, NEW c \in Ids, ctx[c].kind = "delete", ctx[c].st # "none", busy = Idle,
         creds' = creds \ Dropped(c),
         NEW left \in SUBSET Dropped(c), busy' = Committed(c, left), ctx'[c].st = "started",
         Aged, ctx' \in [Ids -> ContextType], queue' \in Seq(Tasks), enrolling' = enrolling,
         QueueInv', LatestInv', RunInv', tasks' \in SUBSET (SUBSET CredentialType), ghost' = ghost,
         deletion' = deletion, publishVars' = publishVars, cacheVars' = cacheVars, templates' = templates,
         \A d \in templates' : /\ d \in IdsOf(Dropped(c)) => d \in (UNION {IdsOf(i) : i \in tasks'}) \cup IdsOf(left)
                               /\ <<"succeeded", d>> \in ToSet(queue) => <<"succeeded", d>> \in ToSet(queue'),
         tasks \subseteq tasks'
  PROVE  IdmInv'
<1> USE DEF Dropped
<1>1. IdmTypeOK /\ DataInv
  BY DEF IdmInv, DataInv
<1>2. creds' \subseteq creds /\ SameRequest(c)
  BY DEF Aged
<1>3. \A d \in Ids : busy.id # d
  BY DEF Idle, None, Ids
<1>4. CredInv'
  BY <1>1, <1>2, <1>3, CredKept DEF DataInv
<1>5. BusyInv'
  <2>1. /\ busy'.id = c /\ busy'.infos = left
        /\ ctx'[c].kind = "delete" /\ ctx'[c].old = ctx[c].old
    BY <1>2 DEF SameRequest, Committed
  <2>2. ctx[c].old \notin {k.id : k \in creds'} /\ \A k \in left : k.id = ctx[c].old
    OBVIOUS
  <2>3. ~IsPinUpdate(ctx'[c])
    BY <2>1 DEF IsPinUpdate
  <2> QED
    BY <2>1, <2>2, <2>3 DEF BusyInv, IdsOf
<1>6. TemplateInv'
  <2>1. Replaced = {} /\ IdsOf(left) \subseteq Replaced'
    BY DEF Replaced, Idle, Committed, IdsOf
  <2>2. IdsOf(creds) \subseteq IdsOf(creds') \cup IdsOf(Dropped(c))
    BY DEF IdsOf
  <2>4. UNION {IdsOf(i) : i \in tasks} \subseteq UNION {IdsOf(i) : i \in tasks'}
    OBVIOUS
  <2>5. ASSUME NEW d \in templates', Located(d) PROVE Located(d)'
    BY <2>1, <2>2, <2>4, <2>5 DEF Located, IdsOf
  <2> QED
    BY <1>1, <2>5, TemplateKept DEF DataInv
<1>7. UpdateInv'
  BY <1>1, <1>2, UpdateKept DEF DataInv, publishVars, Aged
<1>8. CacheInv'
  BY <1>1, CacheKept DEF DataInv, cacheVars, Aged, SameRequest
<1>9. CountInv'
  <2>1. deletion' = deletion /\ published' = published /\ ghost'.stale = ghost.stale
    BY DEF publishVars
  <2>2. \A k \in Dropped(c) : k.user = ctx[c].user /\ k.type = ctx[c].type
    BY <1>1 DEF DataInv, CredInv
  <2>3. \A u : u # ctx[c].user \/ ctx[c].type # "PIN" => InUse(u)' = InUse(u)
    BY <2>2 DEF GetCredential, InUse, CredsOf
  <2>4. \A u : InUse(u)' \subseteq InUse(u)
    BY DEF GetCredential, InUse, CredsOf
  <2>5. ASSUME NEW u \in Users \ ghost'.stale
        PROVE  Right(u, published[u])' \/ HadPin(u)' \/ Pending(u)'
    <3>1. CASE u = ctx[c].user /\ ctx[c].type = "PIN"
      <4>1. /\ busy'.id = c /\ busy' # Idle /\ ctx'[c].user = u /\ ctx'[c].type = "PIN" /\ ctx'[c].kind = "delete"
        BY <1>2, <3>1 DEF SameRequest, Idle, Committed
      <4> busy'.step = "committed"
        BY DEF Committed
      <4>2. Pending(u)'
        BY <4>1 DEF Pending, IsPinUpdate, IsNewPin, Idle
      <4> QED
        BY <4>2
    <3>2. CASE ~(u = ctx[c].user /\ ctx[c].type = "PIN")
      <4>1. ~Pending(u)
        BY DEF Pending
      <4>2. HadPin(u)' <=> HadPin(u)
        BY DEF HadPin
      <4>3. Right(u, published[u]) \/ HadPin(u)
        BY <1>1, <2>1, <4>1 DEF DataInv, CountInv
      <4>4. \A n : Right(u, n)' <=> Right(u, n)
        BY <2>3, <3>2, RightSame
      <4> HIDE DEF GetCredential, InUse
      <4> QED
        BY <2>1, <4>2, <4>3, <4>4 DEF Right
    <3> QED
      BY <3>1, <3>2
  <2>6. \A u \in deletion'.users \ ghost'.stale : InUse(u)' = {}
    <3> HIDE DEF GetCredential, InUse
    <3> QED
      BY <1>1, <2>1, <2>4 DEF DataInv, CountInv
  <2>7. \A k \in deletion'.infos : k.user \in deletion'.users
    BY <1>1, <2>1 DEF DataInv, CountInv
  <2>8. \A k \in creds' : k.abandoned => k.type = "PIN" /\ k.id \in Superseded(k.user)'
    BY <1>1 DEF CountInv, DataInv, Superseded
  <2>9. busy'.step # "counted"
    BY DEF Committed
  <2> HIDE DEF GetCredential, InUse
  <2> QED
    BY <2>5, <2>6, <2>7, <2>8, <2>9 DEF CountInv
<1>10. IsFiniteSet(creds') /\ creds' \in SUBSET CredentialType
  BY <1>1, <1>2, FS_Subset DEF IdmTypeOK
<1>11. busy' \in BusyType
  BY <1>1 DEF BusyType, Committed, IdmTypeOK
<1>12. IdmTypeOK'
  BY <1>1, <1>10, <1>11 DEF IdmTypeOK, cacheVars, publishVars
<1> QED
  BY <1>4, <1>5, <1>6, <1>7, <1>8, <1>9, <1>12 DEF IdmInv

LEMMA StartDeletionKeeps ==
  ASSUME IdmInv, StartDeletion
  PROVE  IdmInv'
<1> DEFINE c == Head(queue)[2]
           infos == Dropped(c)
<1>1. ControlInv /\ IdmTypeOK
  BY DEF IdmInv, ControlInv
<1>2. Head1("start")
  BY DEF StartDeletion
<1>3. queue # <<>> /\ busy = Idle /\ c \in Ids /\ Head(queue) = <<"start", c>>
  BY <1>1, <1>2, HeadFacts
<1>4. /\ ctx[c].kind = "delete" /\ queue' = Tail(queue)
      /\ \/ DeleteCredential(c, infos)
         \/ StartAbandon(c)
         \/ ctx' = Ended(c) /\ UNCHANGED <<creds, tasks, busy>>
      /\ ghost' = ghost /\ enrolling' = enrolling /\ templates' = templates /\ deletion' = deletion
      /\ publishVars' = publishVars /\ cacheVars' = cacheVars
  BY DEF StartDeletion, Taken, Dropped
<1> HIDE DEF c
<1>5. ctx[c].st = "starting"
  BY <1>1, <1>3, LastTask
<1>6. ~ctx[c].running
  BY <1>1, <1>3, <1>5 DEF ControlInv, RunInv
<1>7. enrolling' \in [Users -> Ids \cup {None}] /\ \A u \in Users : enrolling'[u] \in {enrolling[u], None}
  BY <1>1, <1>4 DEF IdmTypeOK
<1>8. \A d \in Ids : <<"succeeded", d>> \in ToSet(queue) => <<"succeeded", d>> \in ToSet(queue')
  BY <1>1, <1>3, <1>4, TakenHolds
<1>9. ASSUME NEW st \in {"started", "done"}, Moves(c, st), ~ctx'[c].running,
             busy' = busy \/ busy'.id = c
      PROVE  /\ Aged /\ ctx' \in [Ids -> ContextType] /\ queue' \in Seq(Tasks)
             /\ QueueInv' /\ LatestInv' /\ RunInv'
  <2>1. Aged
    BY <1>1, <1>3, <1>5, <1>9, AgedFacts DEF Statuses
  <2>2. queue' \in Seq(Tasks) /\ QueueInv' /\ LatestInv' /\ RunInv'
    BY <1>1, <1>3, <1>4, <1>7, <1>9, TakeMove
  <2> QED
    BY <1>9, <2>1, <2>2 DEF Moves
<1>10. ASSUME ctx' = [ctx EXCEPT ![c].st = "started"]
       PROVE  Moves(c, "started") /\ ~ctx'[c].running
  BY <1>1, <1>3, <1>6, <1>10, MovesFacts DEF Statuses
<1>11. CASE DeleteCredential(c, infos)
  <2>1. /\ creds' = creds \ infos /\ tasks' = tasks \cup {infos}
        /\ ctx' = [ctx EXCEPT ![c].st = "started"]
        /\ busy' = Committed(c, {})
    BY <1>11 DEF DeleteCredential
  <2>2. Moves(c, "started") /\ ~ctx'[c].running /\ busy'.id = c
    BY <1>10, <2>1 DEF Committed
  <2>3. /\ Aged /\ ctx' \in [Ids -> ContextType] /\ queue' \in Seq(Tasks)
        /\ QueueInv' /\ LatestInv' /\ RunInv'
    BY <1>9, <2>2
  <2>4. tasks' \in SUBSET (SUBSET CredentialType) /\ tasks \subseteq tasks'
    BY <1>1, <2>1 DEF IdmTypeOK, Dropped
  <2>5. \A d \in templates' : /\ d \in IdsOf(infos) => d \in (UNION {IdsOf(i) : i \in tasks'}) \cup IdsOf({})
                              /\ <<"succeeded", d>> \in ToSet(queue) => <<"succeeded", d>> \in ToSet(queue')
    <3>1. infos \in tasks' /\ templates' \subseteq Ids
      BY <1>1, <1>4, <2>1 DEF IdmTypeOK
    <3>2. \A d \in IdsOf(infos) : d \in UNION {IdsOf(i) : i \in tasks'}
      BY <3>1
    <3> QED
      BY <1>8, <3>1, <3>2, Zenon
  <2>6. ctx'[c].st = "started" /\ ctx[c].st # "none"
    BY <1>5, <2>2 DEF Moves
  <2>7. {} \in SUBSET infos
    OBVIOUS
  <2> QED
    BY <1>3, <1>4, <2>1, <2>3, <2>4, <2>5, <2>6, <2>7, DropStep
<1>12. CASE StartAbandon(c)
  <2>1. ctx' = [ctx EXCEPT ![c].st = "started"] /\ creds' = creds /\ tasks' = tasks /\ busy' = busy
    BY <1>12 DEF StartAbandon
  <2>2. /\ Aged /\ ctx' \in [Ids -> ContextType] /\ queue' \in Seq(Tasks)
        /\ QueueInv' /\ LatestInv' /\ RunInv'
    BY <1>9, <1>10, <2>1
  <2> QED
    BY <1>3, <1>4, <1>7, <1>8, <2>1, <2>2, StillStep
<1>13. CASE ctx' = Ended(c) /\ UNCHANGED <<creds, tasks, busy>>
  <2>1. Moves(c, "done") /\ ~ctx'[c].running
    BY <1>1, <1>3, <1>13, MovesFacts
  <2>2. /\ Aged /\ ctx' \in [Ids -> ContextType] /\ queue' \in Seq(Tasks)
        /\ QueueInv' /\ LatestInv' /\ RunInv'
    BY <1>9, <1>13, <2>1
  <2> QED
    BY <1>3, <1>4, <1>7, <1>8, <1>13, <2>2, StillStep
<1> QED
  BY <1>4, <1>11, <1>12, <1>13

LEMMA UpdateAbandonResultKeeps ==
  ASSUME IdmInv, UpdateAbandonResult
  PROVE  IdmInv'
<1> DEFINE c == Head(queue)[2]
           infos == Dropped(c)
<1>1. ControlInv /\ IdmTypeOK
  BY DEF IdmInv, ControlInv
<1>2. Head1("succeeded")
  BY DEF UpdateAbandonResult
<1>3. queue # <<>> /\ busy = Idle /\ c \in Ids /\ Head(queue) = <<"succeeded", c>>
  BY <1>1, <1>2, HeadFacts
<1>4. /\ ctx[c].kind = "delete" /\ queue' = Tail(queue)
      /\ \/ creds' = creds \ infos /\ busy' = Committed(c, infos) /\ ctx' = ctx
         \/ creds' = creds /\ busy' = busy /\ ctx' = Ended(c)
      /\ enrolling' = enrolling /\ templates' = templates /\ deletion' = deletion /\ tasks' = tasks
      /\ publishVars' = publishVars /\ cacheVars' = cacheVars /\ ghost' = ghost
  BY DEF UpdateAbandonResult, Taken, Dropped
<1> HIDE DEF c
<1>5. ctx[c].st = "started"
  <2>1. Head(queue) # <<"start", c>>
    BY <1>3
  <2> QED
    BY <1>1, <1>3, <2>1, LastTask
<1>6. \A d \in Ids : d # c /\ <<"succeeded", d>> \in ToSet(queue) => <<"succeeded", d>> \in ToSet(queue')
  BY <1>1, <1>3, <1>4, QueueHolds
<1>7. enrolling' \in [Users -> Ids \cup {None}] /\ \A u \in Users : enrolling'[u] \in {enrolling[u], None}
  BY <1>1, <1>4 DEF IdmTypeOK
<1>8. CASE creds' = creds \ infos /\ busy' = Committed(c, infos) /\ ctx' = ctx
  <2>1. queue' \in Seq(Tasks) /\ QueueInv' /\ LatestInv' /\ RunInv'
    <3>1. \A d \in Ids : Head(queue) # <<"stop", d>>
      BY <1>3
    <3>2. busy'.id = c
      BY <1>8 DEF Committed
    <3> QED
      BY <1>1, <1>3, <1>4, <1>7, <1>8, <3>1, <3>2, PopMove
  <2>2. Aged /\ ctx' \in [Ids -> ContextType] /\ tasks' \in SUBSET (SUBSET CredentialType)
    BY <1>1, <1>4, <1>8, AgedFacts DEF IdmTypeOK
  <2>3. \A d \in templates' : <<"succeeded", d>> \in ToSet(queue) => <<"succeeded", d>> \in ToSet(queue')
    <3>1. \A d \in templates' : d # c /\ d \in Ids
      BY <1>1, <1>4 DEF IdmInv, IdmTypeOK, TemplateInv
    <3> QED
      BY <1>6, <3>1
  <2>4. ctx'[c].st = "started" /\ tasks \subseteq tasks' /\ infos \in SUBSET infos /\ ctx[c].st # "none"
    BY <1>4, <1>5, <1>8
  <2>5. \A d \in templates' : /\ d \in IdsOf(infos) => d \in (UNION {IdsOf(i) : i \in tasks'}) \cup IdsOf(infos)
                              /\ <<"succeeded", d>> \in ToSet(queue) => <<"succeeded", d>> \in ToSet(queue')
    BY <2>3, Zenon
  <2>6. creds' = creds \ infos /\ busy' = Committed(c, infos)
    BY <1>8
  <2> QED
    BY <1>3, <1>4, <2>1, <2>2, <2>4, <2>5, <2>6, DropStep
<1>9. CASE creds' = creds /\ busy' = busy /\ ctx' = Ended(c)
  <2>1. Moves(c, "done") /\ ~ctx'[c].running
    BY <1>1, <1>3, <1>9, MovesFacts
  <2>2. Aged /\ ctx' \in [Ids -> ContextType]
    BY <1>1, <1>3, <1>5, <2>1, AgedFacts DEF Statuses, Moves
  <2>3. queue' \in Seq(Tasks) /\ QueueInv' /\ LatestInv' /\ RunInv'
    BY <1>1, <1>3, <1>4, <1>5, <1>7, <1>9, <2>1, TakeMove
  <2>4. Remembers /\ CacheStill
    BY <1>1, <1>4 DEF Remembers, CacheStill, IdmTypeOK
  <2> QED
    BY <1>3, <1>4, <1>6, <1>7, <1>9, <2>2, <2>3, <2>4, LosesStep
<1> QED
  BY <1>4, <1>8, <1>9

\* The context whose result the event thread handled is answered.
LEMMA FinishStep ==
  ASSUME IdmInv, busy # Idle, busy' = Idle, ctx' = Ended(busy.id), queue' = queue, creds' = creds,
         deletion' = deletion, tasks' = tasks, CacheStill,
         enrolling' \in [Users -> Ids \cup {None}], \A u \in Users : enrolling'[u] \in {enrolling[u], None},
         Remembers, templates' \subseteq templates, \A c \in templates' : c \in Replaced => c \in ghost'.lost,
         published' \in [Users -> Nat], announced' \in Seq(UpdateType), pinUpdate' \in PinUpdateType, UpdateInv',
         \A u \in Users \ ghost'.stale : Right(u, published'[u]) \/ HadPin(u)
  PROVE  IdmInv'
<1>1. ControlInv /\ IdmTypeOK /\ DataInv
  BY DEF IdmInv, ControlInv, DataInv
<1>2. busy.id \in Ids /\ ctx[busy.id].st = "started" /\ busy \in BusyType
  BY <1>1, BusyFacts DEF DataInv, IdmTypeOK
<1>3. Moves(busy.id, "done") /\ ~ctx'[busy.id].running
  BY <1>1, <1>2, MovesFacts
<1>4. QueueInv' /\ LatestInv' /\ RunInv'
  BY <1>1, <1>2, <1>3, DoneMove
<1>5. Aged
  BY <1>1, <1>2, <1>3, AgedFacts DEF Statuses
<1>6. ctx' \in [Ids -> ContextType] /\ ctx'[busy.id].st = "done"
  BY <1>3 DEF Moves
<1>7. CredInv'
  BY <1>1, <1>5, <1>6, CredKept DEF DataInv
<1>8. BusyInv'
  BY DEF BusyInv
<1>9. TemplateInv'
  <2>1. ghost.lost \subseteq ghost'.lost
    BY DEF Remembers
  <2>2. ASSUME NEW d \in templates', Located(d) PROVE Located(d)'
    BY <2>1, <2>2 DEF Located, IdsOf
  <2> QED
    BY <1>1, <1>5, <2>2, TemplateKept DEF DataInv
<1>10. CacheInv'
  BY <1>1, <1>5, CacheKept DEF DataInv, cacheVars, Aged, SameRequest, CacheStill
<1>11. CountInv'
  <2>1. \A u : InUse(u)' = InUse(u)
    BY DEF GetCredential, InUse, CredsOf
  <2>2. \A u : HadPin(u)' <=> HadPin(u)
    BY DEF HadPin
  <2>3. ghost.stale \subseteq ghost'.stale /\ ghost'.updates = ghost.updates /\ busy'.step # "counted"
    BY DEF Remembers, Idle
  <2>4. \A u : Superseded(u)' = Superseded(u)
    BY <2>3 DEF Superseded
  <2>5. \A k \in creds' : k.abandoned => k.type = "PIN" /\ k.id \in Superseded(k.user)'
    BY <1>1, <2>3 DEF DataInv, CountInv, Superseded
  <2> HIDE DEF GetCredential, InUse
  <2>6. ASSUME NEW u \in Users \ ghost'.stale
        PROVE  Right(u, published[u])' \/ HadPin(u)' \/ Pending(u)'
    <3>1. \A n : Right(u, n)' <=> Right(u, n)
      BY <2>1, <2>3, RightSame
    <3> QED
      BY <2>2, <3>1 DEF Right
  <2>7. \A u \in deletion'.users \ ghost'.stale : InUse(u)' = {}
    BY <1>1, <2>1, <2>3 DEF DataInv, CountInv
  <2>8. \A k \in deletion'.infos : k.user \in deletion'.users
    BY <1>1 DEF DataInv, CountInv
  <2> QED
    BY <2>3, <2>5, <2>6, <2>7, <2>8 DEF CountInv
<1>12. IdmTypeOK'
  BY <1>1, <1>6 DEF IdmTypeOK, cacheVars, Remembers, BusyType, CacheStill
<1> QED
  BY <1>4, <1>7, <1>8, <1>9, <1>10, <1>11, <1>12 DEF IdmInv, Remembers

\* The history of a count: it makes the user right again, or stale.
Recounts ==
  /\ ghost' \in GhostType /\ ghost'.updates = ghost.updates /\ ghost'.lost = ghost.lost
  /\ ghost'.victims = ghost.victims /\ ghost'.uncached = ghost.uncached

\* The event thread goes on with the result it handles.
LEMMA GoesOnStep ==
  ASSUME IdmInv, busy # Idle, busy' # Idle, busy' \in BusyType, busy'.id = busy.id, busy'.infos = busy.infos,
         UNCHANGED <<ctx, queue, engineVars, templates, deletion, tasks, publishVars, cacheVars>>, Recounts,
         \A u \in Users \ ghost'.stale :
            /\ Pending(u) \/ u \in ghost.stale => Pending(u)'
            /\ u \in deletion.users => u \notin ghost.stale,
         busy'.step = "counted" /\ ctx[busy.id].type = "PIN" /\ ctx[busy.id].user \notin ghost'.stale =>
             Right(ctx[busy.id].user, busy'.n)
  PROVE  IdmInv'
<1>1. ControlInv /\ IdmTypeOK /\ DataInv
  BY DEF IdmInv, ControlInv, DataInv
<1>2. QueueInv' /\ LatestInv' /\ RunInv'
  BY <1>1, StillMove DEF engineVars
<1>3. Aged /\ ctx' \in [Ids -> ContextType] /\ creds' = creds
  BY <1>1, AgedFacts DEF IdmTypeOK, engineVars
<1>4. CredInv'
  BY <1>1, <1>3, CredKept DEF DataInv
<1>5. BusyInv'
  BY <1>1, <1>3, BusyKept DEF DataInv, SameRequest, Recounts
<1>6. TemplateInv'
  <2>1. Replaced' = Replaced
    BY DEF Replaced
  <2>2. ASSUME NEW d \in templates', Located(d) PROVE Located(d)'
    BY <1>3, <2>1, <2>2 DEF Located, IdsOf, Recounts
  <2> QED
    BY <1>1, <1>3, <2>2, TemplateKept DEF DataInv
<1>7. UpdateInv'
  BY <1>1, <1>3, UpdateKept DEF DataInv, publishVars, Recounts
<1>8. CacheInv'
  BY <1>1, CacheKept DEF DataInv, cacheVars, Recounts
<1>9. CountInv'
  <2>1. \A u : InUse(u)' = InUse(u)
    BY <1>3 DEF GetCredential, InUse, CredsOf
  <2>2. \A u : HadPin(u)' <=> HadPin(u)
    BY DEF HadPin
  <2>3. published' = published /\ ghost'.updates = ghost.updates
    BY DEF publishVars, Recounts
  <2>4. \A k \in creds' : k.abandoned => k.type = "PIN" /\ k.id \in Superseded(k.user)'
    BY <1>1, <1>3, <2>3 DEF DataInv, CountInv, Superseded
  <2> HIDE DEF GetCredential, InUse
  <2>5. \A u, n : Right(u, n)' <=> Right(u, n)
    BY <2>1, <2>3, RightSame
  <2>6. ASSUME NEW u \in Users \ ghost'.stale
        PROVE  Right(u, published[u])' \/ HadPin(u)' \/ Pending(u)'
    <3>1. Right(u, published[u]) \/ HadPin(u) \/ Pending(u) \/ u \in ghost.stale
      BY <1>1 DEF DataInv, CountInv
    <3>2. Right(u, published[u])' <=> Right(u, published[u])
      BY <2>3, <2>5 DEF Right
    <3> QED
      BY <2>2, <3>1, <3>2
  <2>7. \A u \in deletion'.users \ ghost'.stale : InUse(u)' = {}
    <3>1. \A u \in deletion.users : u \in Users
      BY <1>1 DEF IdmTypeOK, DeletionType
    <3> QED
      BY <1>1, <2>1, <3>1 DEF DataInv, CountInv
  <2>8. \A k \in deletion'.infos : k.user \in deletion'.users
    BY <1>1 DEF DataInv, CountInv
  <2>9. busy'.step = "counted" /\ ctx[busy.id].type = "PIN" /\ ctx[busy.id].user \notin ghost'.stale =>
          Right(ctx[busy.id].user, busy.n)'
    BY <2>5 DEF Right
  <2> QED
    BY <2>4, <2>6, <2>7, <2>8, <2>9 DEF CountInv
<1>10. IdmTypeOK'
  BY <1>1, <1>3 DEF IdmTypeOK, cacheVars, publishVars, engineVars, Recounts
<1> QED
  BY <1>2, <1>4, <1>5, <1>6, <1>7, <1>8, <1>9, <1>10 DEF IdmInv, Recounts

\* The engine lists the PINs in use, and at most those that an update replaced besides.
LEMMA ListedRight ==
  ASSUME IdmTypeOK, CredInv, CountInv, NEW u \in Users
  PROVE  Cardinality(GetCredential(u, "PIN")) \in Nat /\ Right(u, Cardinality(GetCredential(u, "PIN")))
<1> DEFINE all == GetCredential(u, "PIN")
           past == {k \in all : k.abandoned}
           inUse == InUse(u)
<1>1. all \subseteq creds /\ inUse \subseteq all /\ past \subseteq all
  BY DEF GetCredential, InUse, CredsOf
<1>2. all = inUse \cup past /\ inUse \cap past = {}
  BY DEF InUse
<1>3. IsFiniteSet(all) /\ IsFiniteSet(inUse) /\ IsFiniteSet(past)
  <2>1. IsFiniteSet(creds)
    BY DEF IdmTypeOK
  <2> HIDE DEF all, past, inUse
  <2> QED
    BY <1>1, <2>1, FS_Subset
<1>4. IsFiniteSet(IdsOf(past)) /\ Cardinality(IdsOf(past)) = Cardinality(past)
  <2> DEFINE f == [k \in past |-> k.id]
  <2>1. f \in Bijection(past, IdsOf(past))
    <3>1. \A k, m \in past : k.id = m.id => k = m
      BY <1>1 DEF CredInv
    <3> HIDE DEF past
    <3>2. f \in [past -> IdsOf(past)] /\ \A k \in past : f[k] = k.id
      BY DEF IdsOf
    <3>3. \A k, m \in past : f[k] = f[m] => k = m
      BY <3>1, <3>2
    <3>4. \A i \in IdsOf(past) : \E k \in past : f[k] = i
      BY <3>2 DEF IdsOf
    <3> HIDE DEF f
    <3>5. f \in Injection(past, IdsOf(past))
      BY <3>2, <3>3 DEF Injection, IsInjective
    <3>6. f \in Surjection(past, IdsOf(past))
      BY <3>2, <3>4 DEF Surjection
    <3> QED
      BY <3>5, <3>6 DEF Bijection
  <2> HIDE DEF f, past
  <2>2. IsFiniteSet(IdsOf(past)) /\ Cardinality(past) = Cardinality(IdsOf(past))
    BY <1>3, <2>1, FS_Bijection DEF ExistsBijection
  <2> QED
    BY <2>2
<1>5. IdsOf(past) \subseteq Superseded(u)
  <2>1. \A k \in past : k.abandoned /\ k.user = u /\ k \in creds
    BY <1>1 DEF GetCredential, CredsOf
  <2> HIDE DEF past
  <2> QED
    BY <2>1 DEF IdsOf, CountInv
<1> HIDE DEF all, past, inUse
<1>6. Cardinality(past) <= Cardinality(Superseded(u)) /\ Cardinality(Superseded(u)) \in Nat
  <2>1. IsFiniteSet(Superseded(u)) /\ Cardinality(Superseded(u)) \in Nat
    BY SupersededFacts DEF IdmTypeOK, GhostType
  <2> QED
    BY <1>4, <1>5, <2>1, FS_Subset, FS_CardinalityType
<1>7. Cardinality(inUse) \in Nat /\ Cardinality(past) \in Nat /\ Cardinality({}) = 0
  BY <1>3, FS_CardinalityType, FS_EmptySet
<1>8. Cardinality(all) = Cardinality(inUse) + Cardinality(past)
  <2>1. Cardinality(inUse \cup past) = Cardinality(inUse) + Cardinality(past) - Cardinality(inUse \cap past)
    BY <1>3, FS_Union
  <2>2. Cardinality(inUse \cup past) = Cardinality(all) /\ Cardinality(inUse \cap past) = 0
    BY <1>2, <1>7, Zenon
  <2> QED
    BY <1>7, <2>1, <2>2
<1>9. Cardinality(all) \in Nat /\ Cardinality(all) - Cardinality(inUse) \in 0..Cardinality(Superseded(u))
  BY <1>6, <1>7, <1>8
<1> QED
  BY <1>9 DEF all, inUse, Right

LEMMA CountCredentialsKeeps ==
  ASSUME IdmInv, CountCredentials
  PROVE  IdmInv'
<1> DEFINE d == ctx[busy.id]
           n == Cardinality(GetCredential(d.user, d.type))
<1>1. /\ busy # Idle /\ ~IsPinUpdate(d)
      /\ \/ busy' = [busy EXCEPT !.step = "counted", !.n = n] /\ ghost' = [ghost EXCEPT !.stale = @ \ (PinUser(d) \ deletion.users)]
         \/ busy' = [busy EXCEPT !.step = "unread"] /\ ghost' = [ghost EXCEPT !.stale = @ \cup PinUser(d)]
      /\ UNCHANGED <<ctx, queue, engineVars, templates, deletion, tasks, publishVars, cacheVars>>
  BY DEF CountCredentials
<1>2. IdmTypeOK /\ BusyInv /\ CredInv /\ CountInv
  BY DEF IdmInv
<1>3. n \in Nat
  <2>1. GetCredential(d.user, d.type) \subseteq creds
    BY DEF GetCredential, CredsOf
  <2>2. IsFiniteSet(GetCredential(d.user, d.type))
    BY <1>2, <2>1, FS_Subset DEF IdmTypeOK
  <2> QED
    BY <2>2, FS_CardinalityType
<1>4. /\ busy.id \in Ids /\ d.user \in Users /\ PinUser(d) \subseteq {d.user} /\ busy.infos \in SUBSET CredentialType
      /\ busy = [id |-> busy.id, n |-> busy.n, step |-> busy.step, infos |-> busy.infos] /\ busy.n \in Nat
  BY <1>1, <1>2, BusyFacts DEF ContextType, PinUser
<1>5. d.type = "PIN" => Right(d.user, n)
  BY <1>2, <1>4, ListedRight
<1> HIDE DEF n
<1>6. CASE /\ busy' = [busy EXCEPT !.step = "counted", !.n = n]
           /\ ghost' = [ghost EXCEPT !.stale = @ \ (PinUser(d) \ deletion.users)]
  <2>1. busy' = [id |-> busy.id, n |-> n, step |-> "counted", infos |-> busy.infos]
    BY <1>4, <1>6
  <2>2. /\ busy'.id = busy.id /\ busy'.n = n /\ busy'.step = "counted" /\ busy'.infos = busy.infos
        /\ busy' # Idle /\ busy' \in BusyType
    BY <1>3, <1>4, <2>1 DEF BusyType, Idle
  <2>3. Recounts /\ ghost'.stale = ghost.stale \ (PinUser(d) \ deletion.users)
    BY <1>2, <1>6 DEF IdmTypeOK, GhostType, Recounts
  <2>4. ASSUME NEW u \in Users, Pending(u) \/ (u \in ghost.stale /\ u \notin ghost'.stale) PROVE Pending(u)'
    <3>1. d.user = u /\ d.type = "PIN"
      BY <1>4, <2>3, <2>4 DEF Pending, PinUser
    <3> QED
      BY <1>1, <2>2, <3>1 DEF Pending
  <2> HIDE DEF d
  <2>5. \A u \in Users \ ghost'.stale :
           /\ Pending(u) \/ u \in ghost.stale => Pending(u)'
           /\ u \in deletion.users => u \notin ghost.stale
    BY <2>3, <2>4
  <2> QED
    BY <1>1, <1>5, <2>2, <2>3, <2>5, GoesOnStep DEF d
<1>7. CASE busy' = [busy EXCEPT !.step = "unread"] /\ ghost' = [ghost EXCEPT !.stale = @ \cup PinUser(d)]
  <2>1. busy' = [id |-> busy.id, n |-> busy.n, step |-> "unread", infos |-> busy.infos]
    BY <1>4, <1>7
  <2>2. /\ busy'.id = busy.id /\ busy'.step = "unread" /\ busy'.infos = busy.infos
        /\ busy' # Idle /\ busy' \in BusyType
    BY <1>4, <2>1 DEF BusyType, Idle
  <2>3. Recounts /\ ghost'.stale = ghost.stale \cup PinUser(d)
    BY <1>2, <1>4, <1>7 DEF IdmTypeOK, GhostType, Recounts
  <2>4. ASSUME NEW u \in Users \ ghost'.stale PROVE ~Pending(u)
    BY <2>3, <2>4 DEF Pending, PinUser
  <2> HIDE DEF d
  <2>5. \A u \in Users \ ghost'.stale :
           /\ Pending(u) \/ u \in ghost.stale => Pending(u)'
           /\ u \in deletion.users => u \notin ghost.stale
    BY <2>3, <2>4
  <2> QED
    BY <1>1, <2>2, <2>3, <2>5, GoesOnStep
<1> QED
  BY <1>1, <1>6, <1>7

LEMMA NoUpdate ==
  ASSUME IdmInv, UNCHANGED <<announced, pinUpdate, creds>>, Remembers, ctx' = Ended(busy.id), busy # Idle
  PROVE  announced' \in Seq(UpdateType) /\ pinUpdate' \in PinUpdateType /\ UpdateInv'
<1>1. IdmTypeOK /\ UpdateInv /\ BusyInv
  BY DEF IdmInv
<1>2. busy.id \in Ids /\ ctx[busy.id].st = "started"
  BY <1>1, BusyFacts
<1>3. Moves(busy.id, "done")
  BY <1>1, <1>2, MovesFacts
<1>4. \A c \in Ids : ctx[c].st = "done" => ctx'[c].st = "done"
  BY <1>3 DEF Moves
<1>5. UpdateInv'
  BY <1>1, <1>4, UpdateKept DEF Remembers
<1> QED
  BY <1>1, <1>5 DEF IdmTypeOK

LEMMA GetSecUserIdKeeps ==
  ASSUME IdmInv, GetSecUserId
  PROVE  IdmInv'
<1>1. /\ busy.step = "committed" /\ IsNewPin(ctx[busy.id]) /\ creds' = creds /\ templates' = templates
      /\ queue' = queue /\ deletion' = deletion /\ tasks' = tasks /\ publishVars' = publishVars /\ cacheVars' = cacheVars
  BY DEF GetSecUserId
<1>2. busy # Idle
  BY <1>1 DEF Idle
<1>3. IdmTypeOK /\ BusyInv /\ RunInv /\ CountInv
  BY DEF IdmInv
<1> DEFINE unknown == {k.user : k \in CredsOf(ctx[busy.id].user)}
<1>4. /\ busy.id \in Ids /\ busy.n \in Nat /\ busy.infos \in SUBSET CredentialType
      /\ busy = [id |-> busy.id, n |-> busy.n, step |-> busy.step, infos |-> busy.infos]
  BY <1>2, <1>3, BusyFacts
<1>5. CASE busy' = [busy EXCEPT !.step = "checked"] /\ UNCHANGED <<ctx, enrolling, ghost>>
  <2>1. busy' = [id |-> busy.id, n |-> busy.n, step |-> "checked", infos |-> busy.infos]
    BY <1>4, <1>5
  <2>2. /\ busy'.id = busy.id /\ busy'.step = "checked" /\ busy'.infos = busy.infos
        /\ busy' # Idle /\ busy' \in BusyType
    BY <1>4, <2>1 DEF BusyType, Idle
  <2>3. \A u : Pending(u) => Pending(u)'
    BY <1>5, <2>2 DEF Pending, Idle
  <2>4. UNCHANGED <<ctx, queue, engineVars, templates, deletion, tasks, publishVars, cacheVars>>
    BY <1>1, <1>5 DEF engineVars
  <2>5. Recounts /\ ghost'.stale = ghost.stale
    BY <1>3, <1>5 DEF Recounts, IdmTypeOK
  <2> QED
    BY <1>2, <2>2, <2>3, <2>4, <2>5, GoesOnStep
<1>6. CASE /\ busy' = Idle /\ ctx' = Ended(busy.id) /\ enrolling' = CancelInEngine(busy.id)
           /\ ghost' = [ghost EXCEPT !.victims = @ \cup Victims(busy.id), !.stale = @ \cup unknown]
  <2>1. /\ busy' = Idle /\ ctx' = Ended(busy.id) /\ enrolling' = CancelInEngine(busy.id)
        /\ ghost' = [ghost EXCEPT !.victims = @ \cup Victims(busy.id), !.stale = @ \cup unknown]
    BY <1>6
  <2>2. Victims(busy.id) = {} /\ unknown \subseteq Users
    BY <1>3, <1>4, NoVictims DEF CredsOf, IdmTypeOK, CredentialType
  <2> HIDE DEF unknown
  <2>3. /\ Remembers /\ ghost'.stale = ghost.stale \cup unknown /\ CacheStill
        /\ ghost'.lost = ghost.lost
    BY <1>1, <1>3, <2>1, <2>2 DEF IdmTypeOK, GhostType, Remembers, CacheStill
  <2>4. enrolling' \in [Users -> Ids \cup {None}] /\ \A u \in Users : enrolling'[u] \in {enrolling[u], None}
    BY <1>3, <1>4, <2>1, CancelFacts
  <2>5. announced' \in Seq(UpdateType) /\ pinUpdate' \in PinUpdateType /\ UpdateInv'
    BY <1>1, <1>2, <2>1, <2>3, NoUpdate DEF publishVars
  <2>6. ASSUME NEW u \in Users, Pending(u) PROVE u \in ghost'.stale
    <3>1. ctx[busy.id].user = u /\ busy.id \in IdsOf(InUse(u))
      BY <1>1, <2>6 DEF Pending
    <3>2. PICK k \in InUse(u) : TRUE
      BY <3>1 DEF IdsOf
    <3>3. k \in CredsOf(ctx[busy.id].user) /\ k.user = u
      BY <3>1, <3>2 DEF InUse, GetCredential, CredsOf
    <3> QED
      BY <2>3, <3>3 DEF unknown
  <2>7. published' = published /\ published' \in [Users -> Nat]
    BY <1>1, <1>3 DEF publishVars, IdmTypeOK
  <2>8. \A u \in Users \ ghost'.stale : Right(u, published'[u]) \/ HadPin(u)
    BY <1>3, <2>3, <2>6, <2>7 DEF CountInv
  <2>9. Replaced = {}
    BY <1>1, <1>2, <1>3 DEF Replaced, IsNewPin, BusyInv, IdsOf
  <2> QED
    BY <1>1, <1>2, <2>1, <2>3, <2>4, <2>5, <2>7, <2>8, <2>9, FinishStep
<1>7. \/ busy' = [busy EXCEPT !.step = "checked"] /\ UNCHANGED <<ctx, enrolling, ghost>>
      \/ /\ busy' = Idle /\ ctx' = Ended(busy.id) /\ enrolling' = CancelInEngine(busy.id)
         /\ ghost' = [ghost EXCEPT !.victims = @ \cup Victims(busy.id), !.stale = @ \cup unknown]
  BY DEF GetSecUserId
<1> QED
  BY <1>5, <1>6, <1>7

\* The count the event thread publishes is the engine's.
LEMMA PublishCountFacts ==
  ASSUME IdmInv, busy # Idle, busy.step = "counted", PublishCount(ctx[busy.id])
  PROVE  /\ published' \in [Users -> Nat]
         /\ \A u \in Users \ ghost.stale : Right(u, published'[u]) \/ HadPin(u)
<1> DEFINE d == ctx[busy.id]
           us == PinUser(d)
<1>1. IdmTypeOK /\ BusyInv /\ CountInv
  BY DEF IdmInv
<1>2. busy.n \in Nat /\ busy.id \in Ids
  BY <1>1, BusyFacts
<1>3. published' = [u \in Users |-> IF u \in us THEN busy.n ELSE published[u]]
  BY DEF PublishCount, SaveCredentialUpdatedEvent
<1>4. ASSUME NEW u \in Users \ ghost.stale
      PROVE  Right(u, published'[u]) \/ HadPin(u)
  <2>1. CASE u \in us
    <3>1. d.type = "PIN" /\ d.user = u
      BY <2>1 DEF PinUser
    <3> QED
      BY <1>1, <1>3, <2>1, <3>1 DEF CountInv
  <2>2. CASE u \notin us
    <3>1. ~Pending(u)
      BY <2>2 DEF Pending, PinUser
    <3> QED
      BY <1>1, <1>3, <2>2, <3>1 DEF CountInv
  <2> QED
    BY <2>1, <2>2
<1> QED
  BY <1>1, <1>2, <1>3, <1>4 DEF IdmTypeOK

\* The update that the deletion of d.old completes is announced.
LEMMA AnnounceFacts ==
  ASSUME IdmInv, busy # Idle, ctx[busy.id].kind = "delete", PublishUpdatedEvent(ctx[busy.id]),
         ctx' = Ended(busy.id), creds' = creds, Remembers
  PROVE  announced' \in Seq(UpdateType) /\ pinUpdate' \in PinUpdateType /\ UpdateInv'
<1> DEFINE d == ctx[busy.id]
           x == [user |-> d.user, old |-> d.old, new |-> pinUpdate.new]
<1>1. IdmTypeOK /\ BusyInv /\ UpdateInv /\ CredInv /\ ghost'.updates = ghost.updates
  BY DEF IdmInv, IdmTypeOK, Remembers
<1>2. busy.id \in Ids /\ d.st = "started"
  BY <1>1, BusyFacts
<1>3. CASE ~(d.user = pinUpdate.user /\ d.old = pinUpdate.old)
  <2>1. UNCHANGED <<announced, pinUpdate>>
    BY <1>3 DEF PublishUpdatedEvent
  <2> QED
    BY <2>1, NoUpdate
<1>4. CASE d.user = pinUpdate.user /\ d.old = pinUpdate.old
  <2>1. announced' = Append(announced, x) /\ pinUpdate' = [pinUpdate EXCEPT !.old = None, !.new = None]
    BY <1>4 DEF PublishUpdatedEvent, ClearPinUpdateCacheInfo
  <2>2. d.old # None
    BY <1>1, <1>2 DEF CredInv
  <2>3. /\ x \in ghost.updates /\ ctx[pinUpdate.new].st = "done"
        /\ \A i \in DOMAIN announced : announced[i].new # pinUpdate.new
    BY <1>1, <1>4, <2>2 DEF UpdateInv
  <2>4. x.old \notin IdsOf(creds) /\ x.new = pinUpdate.new
    BY <1>1 DEF BusyInv
  <2>5. pinUpdate' \in PinUpdateType /\ pinUpdate'.old = None
    BY <1>1, <2>1 DEF IdmTypeOK, PinUpdateType
  <2> HIDE DEF x
  <2>6. ghost.updates \in SUBSET UpdateType
    BY <1>1 DEF IdmTypeOK, GhostType
  <2>7. x \in UpdateType /\ x.new \in Ids
    BY <2>3, <2>6 DEF UpdateType
  <2>8. announced \in Seq(UpdateType)
    BY <1>1 DEF IdmTypeOK
  <2>9. \A c \in Ids : ctx[c].st = "done" => ctx'[c].st = "done"
    <3>1. Moves(busy.id, "done")
      BY <1>1, <1>2, MovesFacts
    <3> QED
      BY <3>1 DEF Moves
  <2>10. /\ announced' \in Seq(UpdateType) /\ Len(announced') = Len(announced) + 1
         /\ \A i \in 1..Len(announced) : announced'[i] = announced[i]
         /\ announced'[Len(announced) + 1] = x
    BY <2>1, <2>7, <2>8
  <2>11. DOMAIN announced = 1..Len(announced) /\ DOMAIN announced' = 1..(Len(announced) + 1) /\ Len(announced) \in Nat
    BY <2>8, <2>10
  <2>12. \A y \in ghost.updates : y.old \in Ids /\ y.new \in Ids
    BY <2>6 DEF UpdateType
  <2>13. \A y \in ghost.updates : ctx'[y.old].st = "done"
    BY <1>1, <2>9, <2>12 DEF UpdateInv
  <2>14. ASSUME NEW i \in DOMAIN announced'
         PROVE  /\ announced'[i] \in ghost.updates /\ announced'[i].old \notin {k.id : k \in creds}
                /\ ctx'[announced'[i].new].st = "done"
    <3>1. CASE i = Len(announced) + 1
      BY <2>3, <2>4, <2>7, <2>9, <2>10, <3>1 DEF IdsOf
    <3>2. CASE i # Len(announced) + 1
      <4>1. i \in DOMAIN announced /\ announced'[i] = announced[i]
        BY <2>10, <2>11, <3>2
      <4>2. /\ announced[i] \in ghost.updates /\ announced[i].old \notin IdsOf(creds)
            /\ ctx[announced[i].new].st = "done"
        BY <1>1, <4>1 DEF UpdateInv
      <4> QED
        BY <2>9, <2>12, <4>1, <4>2 DEF IdsOf
    <3> QED
      BY <3>1, <3>2
  <2>15. ASSUME NEW i \in DOMAIN announced', NEW j \in DOMAIN announced', announced'[i].new = announced'[j].new
         PROVE  i = j
    <3>1. CASE i \in DOMAIN announced /\ j \in DOMAIN announced
      BY <1>1, <2>10, <2>11, <2>15, <3>1 DEF UpdateInv
    <3>2. CASE i = Len(announced) + 1 \/ j = Len(announced) + 1
      BY <2>3, <2>4, <2>10, <2>11, <2>15, <3>2
    <3> QED
      BY <2>11, <3>1, <3>2
  <2> QED
    BY <1>1, <2>5, <2>10, <2>13, <2>14, <2>15 DEF UpdateInv, IdsOf
<1> QED
  BY <1>3, <1>4

\* A count that could not be read is not owed to anyone.
LEMMA UnreadFacts ==
  ASSUME IdmInv, busy.step = "unread" \/ IsPinUpdate(ctx[busy.id]), published' = published, Remembers
  PROVE  /\ published' \in [Users -> Nat]
         /\ \A u \in Users \ ghost'.stale : Right(u, published'[u]) \/ HadPin(u)
<1>1. IdmTypeOK /\ CountInv
  BY DEF IdmInv
<1>2. \A u : ~Pending(u)
  BY DEF Pending
<1> QED
  BY <1>1, <1>2 DEF CountInv, IdmTypeOK, Remembers

LEMMA DeletionPublishedKeeps ==
  ASSUME IdmInv, DeletionPublished
  PROVE  IdmInv'
<1>1. /\ busy.step \in {"counted", "unread"} /\ ctx[busy.id].kind = "delete"
      /\ busy.step = "counted" => PublishCount(ctx[busy.id]) /\ PublishUpdatedEvent(ctx[busy.id])
      /\ busy.step = "unread" => publishVars' = publishVars
      /\ NotifyExecutorToDeleteTemplates(busy.infos)
      /\ ctx' = Ended(busy.id) /\ busy' = Idle
      /\ creds' = creds /\ enrolling' = enrolling /\ queue' = queue
      /\ deletion' = deletion /\ tasks' = tasks /\ cacheVars' = cacheVars
  BY DEF DeletionPublished, engineVars
<1>2. busy # Idle
  BY <1>1 DEF Idle
<1>3. IdmTypeOK /\ BusyInv
  BY DEF IdmInv
<1>4. /\ templates' \subseteq templates /\ Remembers /\ ghost'.uncached = ghost.uncached
      /\ \A c \in templates' : c \in IdsOf(busy.infos) => c \in ghost'.lost
  BY <1>1, <1>2, <1>3, BusyFacts, NotifyFacts
<1>5. /\ published' \in [Users -> Nat]
      /\ \A u \in Users \ ghost'.stale : Right(u, published'[u]) \/ HadPin(u)
  <2>1. CASE busy.step = "counted"
    BY <1>1, <1>2, <1>4, <2>1, PublishCountFacts DEF Remembers
  <2>2. CASE busy.step = "unread"
    BY <1>1, <1>4, <2>2, UnreadFacts DEF publishVars
  <2> QED
    BY <1>1, <2>1, <2>2
<1>6. announced' \in Seq(UpdateType) /\ pinUpdate' \in PinUpdateType /\ UpdateInv'
  <2>1. CASE busy.step = "counted"
    BY <1>1, <1>2, <1>4, <2>1, AnnounceFacts
  <2>2. CASE busy.step = "unread"
    BY <1>1, <1>2, <1>4, <2>2, NoUpdate DEF publishVars
  <2> QED
    BY <1>1, <2>1, <2>2
<1>7. Replaced = IdsOf(busy.infos)
  BY <1>1 DEF Replaced
<1>8. /\ CacheStill /\ enrolling' \in [Users -> Ids \cup {None}]
      /\ \A u \in Users : enrolling'[u] \in {enrolling[u], None}
  BY <1>1, <1>3, <1>4 DEF CacheStill, IdmTypeOK
<1> QED
  BY <1>1, <1>2, <1>4, <1>5, <1>6, <1>7, <1>8, FinishStep

\* The update of a PIN is remembered until its old credential is deleted.
LEMMA PinUpdateFacts ==
  ASSUME IdmInv, busy # Idle, ctx[busy.id].kind = "enroll", CachePinUpdateParam(ctx[busy.id]),
         announced' = announced, ctx' = Ended(busy.id), creds' = creds, Remembers
  PROVE  announced' \in Seq(UpdateType) /\ pinUpdate' \in PinUpdateType /\ UpdateInv'
<1> DEFINE d == ctx[busy.id]
           x == [user |-> d.user, old |-> d.old, new |-> busy.id]
<1>1. IdmTypeOK /\ BusyInv /\ UpdateInv
  BY DEF IdmInv
<1>2. busy.id \in Ids /\ d.st = "started" /\ d \in ContextType
  BY <1>1, BusyFacts
<1>3. CASE ~IsPinUpdate(d)
  <2>1. pinUpdate' = pinUpdate
    BY <1>3 DEF CachePinUpdateParam
  <2> QED
    BY <2>1, NoUpdate
<1>4. CASE IsPinUpdate(d)
  <2>1. pinUpdate' = [pinUpdate EXCEPT !.user = d.user, !.old = d.old, !.new = busy.id]
    BY <1>4 DEF CachePinUpdateParam
  <2>2. pinUpdate' = x /\ pinUpdate' \in PinUpdateType
    BY <1>1, <1>2, <2>1 DEF IdmTypeOK, PinUpdateType, ContextType
  <2>3. x \in ghost.updates /\ x.new = busy.id
    BY <1>1, <1>4 DEF BusyInv, IsPinUpdate
  <2>4. [user |-> pinUpdate'.user, old |-> pinUpdate'.old, new |-> pinUpdate'.new] = x /\ pinUpdate'.new = busy.id
    BY <2>2
  <2> HIDE DEF x
  <2>5. Moves(busy.id, "done")
    BY <1>1, <1>2, MovesFacts
  <2>6. \A c \in Ids : ctx[c].st = "done" => ctx'[c].st = "done"
    BY <2>5 DEF Moves
  <2>7. ctx'[busy.id].st = "done"
    BY <2>5 DEF Moves
  <2>8. \A i \in DOMAIN announced : announced[i].new # busy.id
    BY <1>1, <1>2 DEF UpdateInv
  <2>9. ghost.updates \in SUBSET UpdateType /\ ghost'.updates = ghost.updates /\ announced \in Seq(UpdateType)
    BY <1>1 DEF IdmTypeOK, GhostType, Remembers
  <2>10. \A y \in ghost.updates : y.old \in Ids /\ y.new \in Ids
    BY <2>9 DEF UpdateType
  <2>11. \A y \in ghost.updates : ctx'[y.old].st = "done"
    BY <1>1, <2>6, <2>10 DEF UpdateInv
  <2>12. \A i \in DOMAIN announced :
           /\ announced[i] \in ghost.updates /\ announced[i].old \notin {k.id : k \in creds}
           /\ ctx'[announced[i].new].st = "done"
    BY <1>1, <2>6, <2>10 DEF UpdateInv, IdsOf
  <2>13. \A i, j \in DOMAIN announced : announced[i].new = announced[j].new => i = j
    BY <1>1 DEF UpdateInv
  <2>14. /\ [user |-> pinUpdate'.user, old |-> pinUpdate'.old, new |-> pinUpdate'.new] \in ghost.updates
         /\ ctx'[pinUpdate'.new].st = "done" /\ \A i \in DOMAIN announced : announced[i].new # pinUpdate'.new
    BY <2>3, <2>4, <2>7, <2>8
  <2> QED
    BY <2>2, <2>9, <2>11, <2>12, <2>13, <2>14 DEF UpdateInv, IdsOf
<1> QED
  BY <1>3, <1>4

LEMMA EnrolmentPublishedKeeps ==
  ASSUME IdmInv, EnrolmentPublished
  PROVE  IdmInv'
<1> DEFINE d == ctx[busy.id]
           infos == ReplacedInfos(d)
           gone == IdsOf(infos \ Reachable(infos))
<1>1. /\ busy # Idle /\ d.kind = "enroll"
      /\ busy.step \in (IF IsPinUpdate(d) THEN {"committed"} ELSE {"counted", "unread"})
      /\ (IF busy.step = "counted" THEN PublishCount(d) ELSE published' = published)
      /\ CachePinUpdateParam(d)
      /\ templates' = templates \ IdsOf(Reachable(infos))
      /\ enrolling' = CancelInEngine(busy.id)
      /\ ghost' = [ghost EXCEPT !.lost = @ \cup gone, !.victims = @ \cup Victims(busy.id)]
      /\ ctx' = Ended(busy.id) /\ busy' = Idle
      /\ creds' = creds /\ queue' = queue /\ deletion' = deletion /\ tasks' = tasks /\ announced' = announced
      /\ cacheVars' = cacheVars
  BY DEF EnrolmentPublished
<1>2. IdmTypeOK /\ BusyInv /\ RunInv /\ CountInv
  BY DEF IdmInv
<1>3. busy.id \in Ids /\ d \in ContextType
  BY <1>1, <1>2, BusyFacts
<1>4. Victims(busy.id) = {}
  BY <1>2, <1>3, NoVictims
<1>5. /\ gone \subseteq Ids /\ IdsOf(infos) \subseteq IdsOf(Reachable(infos)) \cup gone
      /\ d.type # "PIN" /\ d.old # None => d.old \in IdsOf(infos)
  <2>1. d.old # None => d.old \in Ids
    BY <1>3 DEF ContextType
  <2>2. \A k \in infos : k.id \in Ids
    BY <2>1 DEF ReplacedInfos
  <2>3. d.type # "PIN" /\ d.old # None => d.old \in IdsOf(infos)
    BY DEF ReplacedInfos, IdsOf
  <2> QED
    BY <2>2, <2>3 DEF IdsOf, Reachable
<1> HIDE DEF infos, gone
<1>6. ghost' = [ghost EXCEPT !.lost = @ \cup gone]
  BY <1>1, <1>2, <1>4 DEF IdmTypeOK, GhostType
<1>7. /\ ghost' \in GhostType /\ ghost'.updates = ghost.updates /\ ghost'.stale = ghost.stale
      /\ ghost'.victims = ghost.victims /\ ghost'.lost = ghost.lost \cup gone
      /\ ghost'.uncached = ghost.uncached
  BY <1>2, <1>5, <1>6 DEF IdmTypeOK, GhostType
<1>8. Remembers /\ CacheStill /\ templates' \subseteq templates
  BY <1>1, <1>7 DEF Remembers, CacheStill
<1>9. ASSUME NEW c \in templates', c \in Replaced PROVE c \in ghost'.lost
  <2>1. IdsOf(busy.infos) = {}
    BY <1>1, <1>2 DEF BusyInv, IdsOf
  <2>2. c = d.old /\ d.type # "PIN" /\ c \in Ids
    BY <1>2, <1>8, <1>9, <2>1 DEF Replaced, IdmTypeOK
  <2>3. c \in IdsOf(infos)
    BY <1>5, <2>2 DEF Ids, None
  <2> QED
    BY <1>1, <1>5, <1>7, <2>3
<1>10. announced' \in Seq(UpdateType) /\ pinUpdate' \in PinUpdateType /\ UpdateInv'
  BY <1>1, <1>8, PinUpdateFacts
<1>11. enrolling' \in [Users -> Ids \cup {None}] /\ \A u \in Users : enrolling'[u] \in {enrolling[u], None}
  BY <1>1, <1>2, <1>3, CancelFacts
<1>12. /\ published' \in [Users -> Nat]
       /\ \A u \in Users \ ghost'.stale : Right(u, published'[u]) \/ HadPin(u)
  <2>1. CASE busy.step # "counted"
    BY <1>1, <1>8, <2>1, UnreadFacts
  <2>2. CASE busy.step = "counted"
    BY <1>1, <1>7, <2>2, PublishCountFacts
  <2> QED
    BY <2>1, <2>2
<1> QED
  BY <1>1, <1>8, <1>9, <1>10, <1>11, <1>12, FinishStep

\* The engine takes the result of the enrolment c: what it replaces, what it keeps of that
\* and what is new.
Commits(c) == creds' = (creds \ OldOf(c)) \cup KeptOf(c) \cup {NewOf(c)}

LEMMA CommitFacts ==
  ASSUME IdmInv, busy = Idle, NEW c \in Ids, ctx[c].st = "started", ctx[c].kind = "enroll",
         Commits(c)
  PROVE  /\ creds' \in SUBSET CredentialType /\ IsFiniteSet(creds') /\ c \notin IdsOf(creds)
         /\ \A k \in OldOf(c) : /\ k.id = ctx[c].old /\ k.user = ctx[c].user /\ k.type = ctx[c].type
                           /\ ~k.abandoned /\ ctx[k.id].st = "done"
         /\ \A k, m \in OldOf(c) : k = m
         /\ \A m \in KeptOf(c) : m.abandoned /\ \E k \in OldOf(c) : m.id = k.id /\ m.user = k.user /\ m.type = k.type
         /\ NewOf(c) \in creds' /\ NewOf(c).id = c /\ NewOf(c).user = ctx[c].user /\ NewOf(c).type = ctx[c].type /\ ~NewOf(c).abandoned
         /\ ctx[c].type = "PIN" => \A k \in OldOf(c) : \E m \in KeptOf(c) : m.id = k.id
<1>1. IdmTypeOK /\ CredInv
  BY DEF IdmInv
<1>2. \A d \in Ids : busy.id # d
  BY DEF Idle, None, Ids
<1>3. \A k \in creds : k.id \in Ids /\ k.user \in Users /\ k.type \in Types /\ k \in CredentialType
  BY <1>1 DEF IdmTypeOK, CredentialType
<1>4. \A k \in creds : ctx[k.id].st = "done"
  BY <1>1, <1>2, <1>3 DEF CredInv
<1>5. c \notin IdsOf(creds)
  BY <1>4 DEF IdsOf
<1>6. \A k \in OldOf(c) : /\ k \in creds /\ k.id = ctx[c].old /\ k.user = ctx[c].user /\ k.type = ctx[c].type
                     /\ ~k.abandoned /\ ctx[k.id].st = "done"
  <2>1. ASSUME NEW k \in OldOf(c)
        PROVE  /\ k \in creds /\ k.id = ctx[c].old /\ k.user = ctx[c].user /\ k.type = ctx[c].type
               /\ ~k.abandoned /\ ctx[k.id].st = "done"
    <3>1. k \in creds /\ k.id = ctx[c].old /\ ~k.abandoned
      BY DEF OldOf
    <3>2. ctx[c].old # None
      BY <1>3, <3>1 DEF Ids, None
    <3>3. ctx[ctx[c].old].user = ctx[c].user /\ ctx[ctx[c].old].type = ctx[c].type
      BY <1>1, <3>2 DEF CredInv
    <3>4. k.user = ctx[k.id].user /\ k.type = ctx[k.id].type
      BY <1>1, <3>1 DEF CredInv
    <3> QED
      BY <1>4, <3>1, <3>3, <3>4
  <2> QED
    BY <2>1
<1>7. \A k, m \in OldOf(c) : k = m
  BY <1>1, <1>6 DEF CredInv
<1>8. \A k \in OldOf(c) : LET m == [k EXCEPT !.abandoned = TRUE]
                     IN m \in CredentialType /\ m.abandoned /\ m.id = k.id /\ m.user = k.user /\ m.type = k.type
  <2>1. ASSUME NEW k \in CredentialType
        PROVE  LET m == [k EXCEPT !.abandoned = TRUE]
               IN m \in CredentialType /\ m.abandoned /\ m.id = k.id /\ m.user = k.user /\ m.type = k.type
    BY DEF CredentialType
  <2>2. \A k \in OldOf(c) : k \in CredentialType
    BY <1>3, <1>6
  <2> QED
    BY <2>1, <2>2, Zenon
<1>9. \A m \in KeptOf(c) : /\ m \in CredentialType /\ m.abandoned
                      /\ \E k \in OldOf(c) : m.id = k.id /\ m.user = k.user /\ m.type = k.type
  <2>1. ASSUME NEW m \in KeptOf(c)
        PROVE  /\ m \in CredentialType /\ m.abandoned
               /\ \E k \in OldOf(c) : m.id = k.id /\ m.user = k.user /\ m.type = k.type
    <3>1. PICK k \in OldOf(c) : m = [k EXCEPT !.abandoned = TRUE]
      BY DEF KeptOf
    <3> QED
      BY <1>8, <3>1
  <2> QED
    BY <2>1
<1>10. /\ NewOf(c) \in CredentialType /\ NewOf(c).id = c /\ NewOf(c).user = ctx[c].user /\ NewOf(c).type = ctx[c].type
       /\ ~NewOf(c).abandoned
  BY <1>1 DEF IdmTypeOK, ContextType, CredentialType, NewOf
<1>11. ctx[c].type = "PIN" => \A k \in OldOf(c) : \E m \in KeptOf(c) : m.id = k.id
  BY <1>8 DEF KeptOf
<1>12. IsFiniteSet(creds')
  <2>1. IsFiniteSet(creds) /\ OldOf(c) \subseteq creds
    BY <1>1 DEF IdmTypeOK, OldOf
  <2>2. IsFiniteSet(OldOf(c)) /\ IsFiniteSet(creds \ OldOf(c)) /\ IsFiniteSet({NewOf(c)})
    BY <2>1, FS_Subset, FS_Singleton
  <2>3. IsFiniteSet(KeptOf(c))
    <3>1. CASE ctx[c].type = "PIN"
      <4> DEFINE f == [k \in OldOf(c) |-> [k EXCEPT !.abandoned = TRUE]]
      <4>1. f \in Surjection(OldOf(c), KeptOf(c))
        BY <3>1 DEF Surjection, KeptOf
      <4> HIDE DEF f
      <4> QED
        BY <2>2, <4>1, FS_Surjection
    <3>2. CASE ctx[c].type # "PIN"
      BY <3>2, FS_EmptySet DEF KeptOf
    <3> QED
      BY <3>1, <3>2
  <2>4. IsFiniteSet((creds \ OldOf(c)) \cup KeptOf(c))
    BY <2>2, <2>3, FS_Union
  <2> QED
    BY <2>2, <2>4, FS_Union DEF Commits
<1>13. creds' \in SUBSET CredentialType /\ NewOf(c) \in creds'
  BY <1>1, <1>9, <1>10 DEF IdmTypeOK, Commits
<1> QED
  BY <1>5, <1>6, <1>7, <1>9, <1>10, <1>11, <1>12, <1>13

\* The PINs in use after that: one more for a new PIN, as many for an update.
LEMMA PinsAfterCommit ==
  ASSUME IdmInv, busy = Idle, NEW c \in Ids, ctx[c].st = "started", ctx[c].kind = "enroll",
         Commits(c)
  PROVE  /\ \A u : u # ctx[c].user \/ ctx[c].type # "PIN" => InUse(u)' = InUse(u)
         /\ \A u : u = ctx[c].user /\ ctx[c].type = "PIN" =>
              /\ c \in {k.id : k \in InUse(u)'}
              /\ OldOf(c) # {} => Cardinality(InUse(u)') = Cardinality(InUse(u))
<1>1. /\ c \notin IdsOf(creds)
      /\ \A k \in OldOf(c) : /\ k.id = ctx[c].old /\ k.user = ctx[c].user /\ k.type = ctx[c].type /\ ~k.abandoned
      /\ \A k, m \in OldOf(c) : k = m
      /\ \A m \in KeptOf(c) : m.abandoned /\ \E k \in OldOf(c) : m.id = k.id /\ m.user = k.user /\ m.type = k.type
      /\ NewOf(c) \in creds' /\ NewOf(c).id = c /\ NewOf(c).user = ctx[c].user /\ NewOf(c).type = ctx[c].type /\ ~NewOf(c).abandoned
  BY CommitFacts
<1>2. \A u : InUse(u) = {k \in creds : k.user = u /\ k.type = "PIN" /\ ~k.abandoned}
  BY DEF GetCredential, InUse, CredsOf
<1>3. \A u : InUse(u)' = {k \in creds' : k.user = u /\ k.type = "PIN" /\ ~k.abandoned}
  BY DEF GetCredential, InUse, CredsOf
<1>4. NewOf(c) \notin creds /\ NewOf(c) \notin OldOf(c) /\ OldOf(c) \subseteq creds
  BY <1>1 DEF IdsOf, OldOf
<1>5. ASSUME NEW u, u # ctx[c].user \/ ctx[c].type # "PIN"
      PROVE  InUse(u)' = InUse(u)
  <2>1. \A k : k \in creds' /\ k.user = u /\ k.type = "PIN" /\ ~k.abandoned
               <=> k \in creds /\ k.user = u /\ k.type = "PIN" /\ ~k.abandoned
    BY <1>1, <1>5 DEF Commits
  <2>2. {k \in creds' : k.user = u /\ k.type = "PIN" /\ ~k.abandoned}
          = {k \in creds : k.user = u /\ k.type = "PIN" /\ ~k.abandoned}
    BY <2>1
  <2> QED
    BY <1>2, <1>3, <2>2
<1>6. ASSUME NEW u, u = ctx[c].user, ctx[c].type = "PIN"
      PROVE  /\ c \in {k.id : k \in InUse(u)'}
             /\ OldOf(c) # {} => Cardinality(InUse(u)') = Cardinality(InUse(u))
  <2> DEFINE P == InUse(u)
             Q == InUse(u)'
  <2>1. NewOf(c) \in Q
    BY <1>1, <1>3, <1>6
  <2>2. ASSUME OldOf(c) # {} PROVE Cardinality(Q) = Cardinality(P)
    <3>1. PICK o \in OldOf(c) : OldOf(c) = {o}
      BY <1>1, <2>2
    <3>2. o \in P
      BY <1>1, <1>2, <1>4, <1>6, <3>1
    <3>3. \A k : k \in Q <=> k \in P \ {o} \/ k = NewOf(c)
      BY <1>1, <1>2, <1>3, <1>4, <1>6, <3>1 DEF Commits
    <3>4. Q = (P \ {o}) \cup {NewOf(c)}
      BY <3>3
    <3>5. NewOf(c) \notin P
      BY <1>2, <1>4
    <3>6. IsFiniteSet(P)
      BY <1>2, FS_Subset DEF IdmInv, IdmTypeOK
    <3> HIDE DEF P, Q
    <3>7. IsFiniteSet(P \ {o}) /\ Cardinality(P \ {o}) = Cardinality(P) - 1 /\ Cardinality(P) \in Nat
      BY <3>2, <3>6, FS_RemoveElement, FS_CardinalityType
    <3>8. Cardinality((P \ {o}) \cup {NewOf(c)}) = Cardinality(P \ {o}) + 1
      BY <3>5, <3>7, FS_AddElement
    <3> QED
      BY <3>4, <3>7, <3>8
  <2> QED
    BY <1>1, <2>1, <2>2
<1> QED
  BY <1>5, <1>6

\* A count stays right when an update replaces a PIN.
LEMMA RightGrows ==
  ASSUME ghost'.updates \in SUBSET UpdateType, ghost.updates \subseteq ghost'.updates, NEW u,
         Cardinality(InUse(u)') = Cardinality(InUse(u)), NEW n, Right(u, n)
  PROVE  Right(u, n)'
<1> DEFINE past == Superseded(u)
           more == Superseded(u)'
<1>1. past \subseteq more
  BY DEF Superseded
<1>2. more \subseteq 1..MaxContexts /\ MaxContexts \in Nat
  BY IdmAssumption DEF Superseded, UpdateType, Ids
<1> HIDE DEF past, more
<1>3. IsFiniteSet(more)
  <2>1. IsFiniteSet(1..MaxContexts)
    BY <1>2, FS_Interval
  <2> QED
    BY <1>2, <2>1, FS_Subset
<1>4. IsFiniteSet(past) /\ Cardinality(past) <= Cardinality(more)
  BY <1>1, <1>3, FS_Subset
<1>5. Cardinality(past) \in Nat /\ Cardinality(more) \in Nat
  BY <1>3, <1>4, FS_CardinalityType
<1>6. n - Cardinality(InUse(u)) \in 0..Cardinality(past)
  BY DEF Right, past
<1>7. n - Cardinality(InUse(u)') \in 0..Cardinality(more)
  BY <1>4, <1>5, <1>6
<1> QED
  BY <1>7 DEF Right, more

LEMMA CommitStep ==
  ASSUME IdmInv, busy = Idle, NEW c \in Ids, ctx[c].st = "started", ctx[c].kind = "enroll",
         EngineTakes(c), CommitEnrollment(c),
         queue # <<>>, queue' = Tail(queue), Head(queue) = <<"succeeded", c>>,
         templates' = templates, deletion' = deletion, tasks' = tasks,
         publishVars' = publishVars, cacheVars' = cacheVars
  PROVE  IdmInv'
<1> DEFINE d == ctx[c]
           x == [user |-> d.user, old |-> d.old, new |-> c]
           ups == UpdatesOf(c)
           late == deletion.users \cap PinUser(d)
<1>0. /\ Commits(c) /\ ctx' = ctx /\ busy' = Committed(c, {})
      /\ d.old = None \/ OldOf(c) # {}
      /\ enrolling' = [enrolling EXCEPT ![d.user] = None]
  BY DEF CommitEnrollment, EngineTakes, Commits
<1> USE <1>0
<1>8. ghost' = [ghost EXCEPT !.updates = @ \cup ups, !.stale = @ \cup late]
  BY DEF CommitEnrollment
<1>1. ControlInv /\ IdmTypeOK /\ DataInv
  BY DEF IdmInv, ControlInv, DataInv
<1>2. /\ creds' \in SUBSET CredentialType /\ IsFiniteSet(creds') /\ c \notin IdsOf(creds)
      /\ \A k \in OldOf(c) : /\ k.id = d.old /\ k.user = d.user /\ k.type = d.type
                             /\ ~k.abandoned /\ ctx[k.id].st = "done"
      /\ \A k, m \in OldOf(c) : k = m
      /\ \A m \in KeptOf(c) : m.abandoned /\ \E k \in OldOf(c) : m.id = k.id /\ m.user = k.user /\ m.type = k.type
      /\ NewOf(c) \in creds' /\ NewOf(c).id = c /\ NewOf(c).user = d.user /\ NewOf(c).type = d.type
      /\ d.type = "PIN" => \A k \in OldOf(c) : \E m \in KeptOf(c) : m.id = k.id
  BY CommitFacts
<1>3. d \in ContextType /\ d.user \in Users /\ d.old \in Ids \cup {None} /\ OldOf(c) \subseteq creds
  BY <1>1 DEF IdmTypeOK, ContextType, OldOf
<1>4. \A m \in KeptOf(c) : m.id = d.old /\ m.user = d.user /\ d.type = "PIN" /\ OldOf(c) # {}
  BY <1>2 DEF KeptOf
<1>5. /\ \A y \in ups : y = x /\ OldOf(c) # {}
      /\ OldOf(c) # {} => d.old \in Ids /\ ctx[d.old].st = "done"
      /\ OldOf(c) # {} /\ d.type = "PIN" => x \in ups
  <2>1. ASSUME NEW k \in OldOf(c) PROVE d.old \in Ids /\ ctx[d.old].st = "done"
    <3>1. k.id = d.old /\ ctx[k.id].st = "done" /\ k \in CredentialType
      BY <1>1, <1>2, <1>3 DEF IdmTypeOK
    <3> QED
      BY <3>1 DEF CredentialType
  <2>2. ASSUME NEW k \in OldOf(c), d.type = "PIN" PROVE x \in ups
    <3>1. PICK m \in KeptOf(c) : m.id = k.id
      BY <1>2, <2>2
    <3> QED
      BY <1>4, <3>1 DEF UpdatesOf
  <2>3. \A y \in ups : y = x /\ OldOf(c) # {}
    BY <1>4 DEF UpdatesOf
  <2> QED
    BY <2>1, <2>2, <2>3
<1>6. ups \in SUBSET UpdateType /\ x.user = d.user /\ x.old = d.old /\ x.new = c
  BY <1>3, <1>5 DEF UpdateType
<1>7. late \in SUBSET Users /\ late = deletion.users \cap PinUser(d)
  BY <1>3 DEF PinUser
<1> HIDE DEF ups, x, late
<1>9. /\ ghost' \in GhostType /\ ghost'.updates = ghost.updates \cup ups /\ ghost'.stale = ghost.stale \cup late
      /\ ghost'.victims = ghost.victims /\ ghost'.lost = ghost.lost /\ ghost'.uncached = ghost.uncached
  <2>1. ghost \in GhostType
    BY <1>1 DEF IdmTypeOK
  <2>2. ups \in SUBSET UpdateType /\ late \in SUBSET Users
    BY <1>6, <1>7
  <2> QED
    BY ONLY <1>8, <2>1, <2>2 DEF GhostType
<1>10. busy'.id = c /\ busy'.step = "committed" /\ busy'.infos = {} /\ busy' # Idle /\ busy' \in BusyType
  BY DEF Idle, BusyType, Committed
<1>11. enrolling' \in [Users -> Ids \cup {None}] /\ \A u \in Users : enrolling'[u] \in {enrolling[u], None}
  BY <1>1, <1>3 DEF IdmTypeOK
<1>12. queue' \in Seq(Tasks) /\ QueueInv' /\ LatestInv' /\ RunInv'
  <2>1. \A e \in Ids : Head(queue) # <<"stop", e>>
    OBVIOUS
  <2> QED
    BY <1>1, <1>10, <1>11, <2>1, PopMove
<1>13. \A k \in creds : k.id \in Ids /\ ctx[k.id].st = "done"
  <2>1. \A k \in creds : k.id \in Ids
    BY <1>1 DEF IdmTypeOK, CredentialType
  <2>2. busy.id \notin Ids
    BY DEF Idle, None, Ids
  <2> QED
    BY <1>1, <2>1, <2>2 DEF DataInv, CredInv
<1>14. \A k \in creds' : (k \in creds /\ k \notin OldOf(c)) \/ k \in KeptOf(c) \/ k = NewOf(c)
  BY DEF Commits
<1>15. CredInv'
  <2>1. ASSUME NEW k \in creds'
        PROVE  /\ ctx[k.id].kind = "enroll" /\ k.user = ctx[k.id].user /\ k.type = ctx[k.id].type
               /\ ctx[k.id].st = "done" \/ (ctx[k.id].st = "started" /\ c = k.id)
    <3>1. ASSUME NEW m \in creds
          PROVE  /\ ctx[m.id].kind = "enroll" /\ m.user = ctx[m.id].user /\ m.type = ctx[m.id].type
                 /\ ctx[m.id].st = "done"
      BY <1>1, <1>13 DEF DataInv, CredInv
    <3>2. CASE k \in creds
      BY <3>1, <3>2
    <3>3. CASE k \in KeptOf(c)
      <4>1. PICK m \in OldOf(c) : k.id = m.id /\ k.user = m.user /\ k.type = m.type
        BY <1>2, <3>3
      <4> QED
        BY <1>3, <3>1, <4>1
    <3>4. CASE k = NewOf(c)
      BY <1>2, <3>4
    <3> QED
      BY <1>14, <3>2, <3>3, <3>4
  <2>2. ASSUME NEW k \in creds', NEW m \in creds', k.id = m.id PROVE k = m
    <3>1. \A a, b \in creds : a.id = b.id => a = b
      BY <1>1 DEF DataInv, CredInv
    <3>2. \A a \in creds : a.id # c
      BY <1>2 DEF IdsOf
    <3>3. \A a \in KeptOf(c) : \E o \in OldOf(c) : o \in creds /\ a.id = o.id
      BY <1>2, <1>3
    <3>4. \A a, b \in KeptOf(c) : a = b
      <4>1. ASSUME NEW a \in KeptOf(c), NEW b \in KeptOf(c) PROVE a = b
        <5>1. PICK o \in OldOf(c) : a = [o EXCEPT !.abandoned = TRUE]
          BY DEF KeptOf
        <5>2. PICK p \in OldOf(c) : b = [p EXCEPT !.abandoned = TRUE]
          BY DEF KeptOf
        <5>3. o = p
          BY <1>2
        <5> QED
          BY <5>1, <5>2, <5>3
      <4> QED
        BY <4>1
    <3>5. ASSUME NEW a \in KeptOf(c), NEW b \in creds, b \notin OldOf(c) PROVE a.id # b.id
      BY <3>1, <3>3, <3>5
    <3>6. \A a \in KeptOf(c) : a.id # c
      BY <3>2, <3>3
    <3> QED
      BY <1>2, <1>14, <2>2, <3>1, <3>2, <3>4, <3>5, <3>6
  <2>3. \A e \in Ids : ctx[e].st # "none" =>
          /\ ctx[e].kind = "delete" => ctx[e].old # None
          /\ ctx[e].old # None => /\ ctx[ctx[e].old].st # "none"
                                  /\ ctx[ctx[e].old].user = ctx[e].user /\ ctx[ctx[e].old].type = ctx[e].type
    BY <1>1 DEF DataInv, CredInv
  <2> QED
    BY <1>10, <2>1, <2>2, <2>3 DEF CredInv
<1>16. BusyInv'
  <2>1. IsPinUpdate(d) => x \in ghost'.updates
    BY <1>5, <1>9 DEF IsPinUpdate
  <2> QED
    BY <1>10, <2>1 DEF BusyInv, x
<1>17. IdsOf(creds) \subseteq IdsOf(creds') \cup Replaced'
  <2>1. ASSUME NEW k \in creds PROVE k.id \in {m.id : m \in creds'} \/ k.id \in Replaced'
    <3>1. CASE k \notin OldOf(c)
      BY <3>1 DEF Commits
    <3>2. CASE k \in OldOf(c) /\ d.type = "PIN"
      <4>1. PICK m \in KeptOf(c) : m.id = k.id
        BY <1>2, <3>2
      <4>2. m \in creds'
        BY DEF Commits
      <4> QED
        BY <4>1, <4>2
    <3>3. CASE k \in OldOf(c) /\ d.type # "PIN"
      <4>1. d.old \in Replaced'
        BY <1>10, <3>3 DEF Replaced, Idle
      <4> QED
        BY <1>2, <3>3, <4>1
    <3> QED
      BY <3>1, <3>2, <3>3
  <2> QED
    BY <2>1 DEF IdsOf
<1>18. TemplateInv'
  <2>1. Replaced = {} /\ c \in IdsOf(creds')
    BY <1>2 DEF Replaced, IdsOf, Idle
  <2>2. ToSet(queue) = {<<"succeeded", c>>} \cup ToSet(queue')
    BY <1>1, QueueHolds
  <2>3. ASSUME NEW e \in templates', Located(e) PROVE Located(e)'
    <3>1. <<"succeeded", e>> \in ToSet(queue) => e = c \/ <<"succeeded", e>> \in ToSet(queue')
      BY <2>2
    <3> QED
      BY <1>9, <1>17, <2>1, <2>3, <3>1 DEF Located, IdsOf
  <2>4. Aged
    BY <1>1, AgedFacts
  <2> QED
    BY <1>1, <2>3, <2>4, TemplateKept DEF DataInv
<1>19. UpdateInv'
  <2>1. \A y \in ghost'.updates : ctx[y.old].st = "done"
    BY <1>1, <1>5, <1>6, <1>9 DEF DataInv, UpdateInv
  <2>2. \A e \in IdsOf(creds') : e \in IdsOf(creds) \/ e = c
    BY <1>2, <1>3, <1>14 DEF IdsOf
  <2>3. \A i \in DOMAIN announced :
          /\ announced[i] \in ghost.updates /\ announced[i].old \notin IdsOf(creds)
          /\ ctx[announced[i].new].st = "done" /\ ctx[announced[i].old].st = "done"
    BY <1>1 DEF DataInv, UpdateInv
  <2>4. \A i \in DOMAIN announced :
          /\ announced[i] \in ghost'.updates /\ announced[i].old \notin IdsOf(creds')
          /\ ctx[announced[i].new].st = "done"
    BY <1>9, <2>2, <2>3
  <2>5. announced' = announced /\ pinUpdate' = pinUpdate
    BY DEF publishVars
  <2>6. \A i, j \in DOMAIN announced : announced[i].new = announced[j].new => i = j
    BY <1>1 DEF DataInv, UpdateInv
  <2>7. pinUpdate.old # None =>
          /\ [user |-> pinUpdate.user, old |-> pinUpdate.old, new |-> pinUpdate.new] \in ghost'.updates
          /\ ctx[pinUpdate.new].st = "done"
          /\ \A i \in DOMAIN announced : announced[i].new # pinUpdate.new
    BY <1>1, <1>9 DEF DataInv, UpdateInv
  <2> QED
    BY <2>1, <2>4, <2>5, <2>6, <2>7 DEF UpdateInv, IdsOf
<1>20. CacheInv'
  BY <1>1, <1>9, CacheKept DEF DataInv, cacheVars
<1>21. CountInv'
  <2>1. /\ \A u : u # d.user \/ d.type # "PIN" => InUse(u)' = InUse(u)
        /\ \A u : u = d.user /\ d.type = "PIN" =>
             /\ c \in {k.id : k \in InUse(u)'}
             /\ OldOf(c) # {} => Cardinality(InUse(u)') = Cardinality(InUse(u))
    BY PinsAfterCommit
  <2>2. \A u : HadPin(u)' <=> HadPin(u)
    BY DEF HadPin
  <2>3. published' = published
    BY DEF publishVars
  <2>4. ASSUME NEW k \in creds', k.abandoned PROVE k.type = "PIN" /\ k.id \in Superseded(k.user)'
    <3>1. CASE k \in creds
      <4>1. k.type = "PIN" /\ k.id \in Superseded(k.user)
        BY <1>1, <2>4, <3>1 DEF DataInv, CountInv
      <4>2. Superseded(k.user) \subseteq Superseded(k.user)'
        BY <1>9 DEF Superseded
      <4> QED
        BY <4>1, <4>2
    <3>2. CASE k \in KeptOf(c)
      <4>1. k.id = d.old /\ k.user = d.user /\ d.type = "PIN" /\ OldOf(c) # {}
        BY <1>4, <3>2
      <4>2. k.type = d.type
        BY <1>2, <3>2
      <4>3. x \in ghost'.updates
        BY <1>5, <1>9, <4>1
      <4> QED
        BY <1>6, <4>1, <4>2, <4>3 DEF Superseded
    <3>3. CASE k = NewOf(c)
      BY <2>4, <3>3 DEF NewOf
    <3> QED
      BY <1>14, <3>1, <3>2, <3>3
  <2> HIDE DEF GetCredential, InUse
  <2>5. ASSUME NEW u, Cardinality(InUse(u)') = Cardinality(InUse(u))
        PROVE  Right(u, published[u]) => Right(u, published[u])'
    <3>1. ghost'.updates \in SUBSET UpdateType
      <4> DEFINE g == ghost'
      <4>1. g \in GhostType
        BY <1>9
      <4> HIDE DEF g
      <4>2. g.updates \in SUBSET UpdateType
        BY ONLY <4>1 DEF GhostType
      <4> QED
        BY <4>2 DEF g
    <3>2. \A n : Right(u, n) => Right(u, n)'
      BY <1>9, <2>5, <3>1, RightGrows
    <3> QED
      BY <2>3, <3>2 DEF Right
  <2>6. ASSUME NEW u \in Users \ ghost'.stale
        PROVE  Right(u, published[u])' \/ HadPin(u)' \/ Pending(u)'
    <3>1. Right(u, published[u]) \/ HadPin(u)
      <4>1. ~Pending(u)
        BY DEF Pending
      <4> QED
        BY <1>1, <1>9, <4>1 DEF DataInv, CountInv
    <3>2. CASE u # d.user \/ d.type # "PIN"
      <4>1. Cardinality(InUse(u)') = Cardinality(InUse(u))
        BY <2>1, <3>2
      <4> QED
        BY <2>2, <2>5, <3>1, <4>1
    <3>3. CASE u = d.user /\ d.type = "PIN" /\ OldOf(c) # {}
      <4>1. Cardinality(InUse(u)') = Cardinality(InUse(u))
        BY <2>1, <3>3
      <4> QED
        BY <2>2, <2>5, <3>1, <4>1
    <3>4. CASE u = d.user /\ d.type = "PIN" /\ OldOf(c) = {}
      <4>1. ~IsPinUpdate(d)
        BY <3>4 DEF IsPinUpdate
      <4>2. c \in IdsOf(InUse(u))'
        BY <2>1, <3>4 DEF IdsOf
      <4>3. Pending(u)'
        BY <1>10, <3>4, <4>1, <4>2 DEF Pending, Idle
      <4> QED
        BY <4>3
    <3> QED
      BY <3>2, <3>3, <3>4
  <2>7. \A u \in deletion'.users \ ghost'.stale : InUse(u)' = {}
    <3>1. \A u \in deletion.users \ ghost'.stale : (u # d.user \/ d.type # "PIN") /\ InUse(u) = {}
      BY <1>1, <1>7, <1>9 DEF DataInv, CountInv, PinUser
    <3> QED
      BY <2>1, <3>1
  <2>8. \A k \in deletion'.infos : k.user \in deletion'.users
    BY <1>1 DEF DataInv, CountInv
  <2> QED
    BY <1>10, <2>4, <2>6, <2>7, <2>8 DEF CountInv
<1>22. IdmTypeOK'
  BY <1>1, <1>2, <1>9, <1>10, <1>11, <1>12 DEF IdmTypeOK, publishVars, cacheVars
<1> QED
  BY <1>9, <1>12, <1>15, <1>16, <1>18, <1>19, <1>20, <1>21, <1>22 DEF IdmInv

LEMMA UpdateEnrollmentResultKeeps ==
  ASSUME IdmInv, UpdateEnrollmentResult
  PROVE  IdmInv'
<1> DEFINE c == Head(queue)[2]
<1>1. ControlInv /\ IdmTypeOK
  BY DEF IdmInv, ControlInv
<1>2. Head1("succeeded")
  BY DEF UpdateEnrollmentResult
<1>3. queue # <<>> /\ busy = Idle /\ c \in Ids /\ Head(queue) = <<"succeeded", c>>
  BY <1>1, <1>2, HeadFacts
<1>4. /\ ctx[c].kind = "enroll" /\ queue' = Tail(queue)
      /\ templates' = templates /\ deletion' = deletion /\ tasks' = tasks
      /\ publishVars' = publishVars /\ cacheVars' = cacheVars
      /\ (EngineTakes(c) /\ CommitEnrollment(c)) \/ RefuseEnrollment(c)
  BY DEF UpdateEnrollmentResult, Taken
<1> HIDE DEF c
<1>5. ctx[c].st = "started"
  <2>1. Head(queue) # <<"start", c>>
    BY <1>3
  <2> QED
    BY <1>1, <1>3, <2>1, LastTask
<1>6. CASE EngineTakes(c) /\ CommitEnrollment(c)
  BY <1>3, <1>4, <1>5, <1>6, CommitStep
<1>7. CASE RefuseEnrollment(c)
  <2>0. /\ ctx' = Ended(c) /\ enrolling' = CancelInEngine(c) /\ creds' = creds /\ busy' = busy
        /\ ghost' = [ghost EXCEPT !.lost = @ \cup {c}, !.victims = @ \cup Victims(c)]
    BY <1>7 DEF RefuseEnrollment
  <2>1. Victims(c) = {}
    BY <1>1, <1>3, NoVictims DEF ControlInv
  <2>2. /\ ghost' \in GhostType /\ ghost'.updates = ghost.updates /\ ghost'.stale = ghost.stale
        /\ ghost'.victims = ghost.victims /\ ghost'.lost = ghost.lost \cup {c}
        /\ ghost'.uncached = ghost.uncached
    BY <1>1, <1>3, <2>0, <2>1 DEF IdmTypeOK, GhostType
  <2>3. Moves(c, "done") /\ ~ctx'[c].running
    BY <1>1, <1>3, <2>0, MovesFacts
  <2>4. enrolling' \in [Users -> Ids \cup {None}] /\ \A u \in Users : enrolling'[u] \in {enrolling[u], None}
    BY <1>1, <1>3, <2>0, CancelFacts
  <2>5. queue' \in Seq(Tasks) /\ QueueInv' /\ LatestInv' /\ RunInv'
    BY <1>1, <1>3, <1>4, <2>0, <2>3, <2>4, TakeMove
  <2>6. Aged
    BY <1>1, <1>3, <1>5, <2>3, AgedFacts DEF Statuses
  <2>7. ctx' \in [Ids -> ContextType]
    BY <2>3 DEF Moves
  <2>8. \A e \in Ids : <<"succeeded", e>> \in ToSet(queue) =>
                         <<"succeeded", e>> \in ToSet(queue') \/ e \in ghost'.lost
    <3>1. ToSet(queue) = {<<"succeeded", c>>} \cup ToSet(queue')
      BY <1>1, <1>3, <1>4, QueueHolds
    <3> QED
      BY <2>2, <3>1
  <2>9. Remembers /\ CacheStill
    BY <1>4, <2>2 DEF Remembers, CacheStill
  <2> QED
    BY <1>3, <1>4, <2>0, <2>4, <2>5, <2>6, <2>7, <2>8, <2>9, LosesStep
<1> QED
  BY <1>4, <1>6, <1>7

-------------------------------------------------------------------------------
(* The invariant.                                                          *)

LEMMA IdmInit ==
  ASSUME Init
  PROVE  IdmInv
<1>1. NoContext \in ContextType /\ NoContext.st = "none" /\ ~NoContext.running
  <2>1. \E u \in Users : TRUE
    BY IdmAssumption
  <2>2. (CHOOSE u \in Users : TRUE) \in Users
    BY <2>1
  <2> QED
    BY <2>2 DEF NoContext, ContextType, Statuses, Types
<1>2. /\ ctx \in [Ids -> ContextType] /\ \A c \in Ids : ctx[c].st = "none" /\ ~ctx[c].running
  BY <1>1 DEF Init
<1>3. queue = <<>> /\ ToSet(queue) = {} /\ \A x : Once(queue, x)
  BY EmptyFacts DEF Init
<1>4. IdmTypeOK
  <2>1. IsFiniteSet(creds) /\ creds \in SUBSET CredentialType
    BY FS_EmptySet DEF Init
  <2>2. ghost \in GhostType /\ busy \in BusyType /\ deletion \in DeletionType /\ pinUpdate \in PinUpdateType
    BY DEF Init, GhostType, BusyType, DeletionType, NoDeletion, PinUpdateType
  <2>3. queue \in Seq(Tasks) /\ announced \in Seq(UpdateType)
    BY DEF Init
  <2> QED
    BY <1>2, <2>1, <2>2, <2>3 DEF Init, IdmTypeOK
<1>5. QueueInv /\ LatestInv /\ RunInv
  BY <1>2, <1>3 DEF QueueInv, LatestInv, RunInv
<1>6. CredInv /\ BusyInv /\ CacheInv
  BY <1>2 DEF Init, CredInv, BusyInv, CacheInv
<1>7. TemplateInv /\ UpdateInv
  BY DEF Init, TemplateInv, UpdateInv
<1>8. CountInv
  <2>1. \A u : InUse(u) = {}
    BY DEF Init, GetCredential, InUse, CredsOf
  <2>2. deletion.users = {} /\ deletion.infos = {} /\ busy.step = "idle"
    BY DEF Init, NoDeletion, Idle
  <2>3. \A u \in Users : published[u] = 0
    BY DEF Init
  <2>4. \A u \in Users : Right(u, published[u])
    BY <1>4, <2>1, <2>3, RightNone
  <2> HIDE DEF GetCredential, InUse
  <2> QED
    BY <2>1, <2>2, <2>4 DEF CountInv, Init
<1>9. ghost.victims = {}
  BY DEF Init
<1> QED
  BY <1>4, <1>5, <1>6, <1>7, <1>8, <1>9 DEF IdmInv

LEMMA RequestsKeep ==
  ASSUME IdmInv, Requests
  PROVE  IdmInv'
<1>1. CASE OpenSession
  BY <1>1, OpenSessionKeeps
<1>2. ASSUME NEW c \in Ids, NEW u \in Users, NEW type \in Types,
             AddCredential(c, u, type, None) \/ UpdateCredential(c, u, type)
      PROVE  IdmInv'
  BY <1>2, AddCredentialKeeps
<1>3. ASSUME NEW c \in Ids, NEW k \in creds, DelCredential(c, k) PROVE IdmInv'
  BY <1>3, DelCredentialKeeps
<1>4. ASSUME NEW u \in Users, CancelEnroll(u) PROVE IdmInv'
  BY <1>4, CancelEnrollKeeps
<1>5. ASSUME NEW us \in SUBSET Users, DeleteUsers(us) PROVE IdmInv'
  BY <1>5, DeleteUsersKeeps
<1>6. ASSUME NEW u \in Users, DelUser(u) \/ EnforceDelUser(u) PROVE IdmInv'
  <2>1. DeleteUsers({u})
    BY <1>6 DEF DelUser, EnforceDelUser
  <2> QED
    BY <1>5, <2>1
<1>7. ASSUME NEW accounts \in SUBSET Users, ClearRedundancyCredential(accounts) PROVE IdmInv'
  <2>1. DeleteUsers({u \in Users : CredsOf(u) # {}} \ accounts)
    BY <1>7 DEF ClearRedundancyCredential
  <2>2. {u \in Users : CredsOf(u) # {}} \ accounts \in SUBSET Users
    OBVIOUS
  <2> QED
    BY <1>5, <2>1, <2>2
<1>8. ASSUME NEW u \in Users, NEW infos \in SUBSET CredsOf(u),
             DeleteSubProfile(u, infos) \/ ClearUnavailableCredential(u, infos)
      PROVE  IdmInv'
  <2>1. EngineDrops(infos) /\ \A k \in infos : k.abandoned \/ k.type = "FACE"
    BY <1>8 DEF DeleteSubProfile, ClearUnavailableCredential, GetCredential
  <2> QED
    BY <2>1, EngineDropsKeeps
<1> QED
  BY <1>1, <1>2, <1>3, <1>4, <1>6, <1>7, <1>8 DEF Requests

LEMMA NextKeeps ==
  ASSUME IdmInv, Next
  PROVE  IdmInv'
<1>1. CASE Requests
  BY <1>1, RequestsKeep
<1>2. CASE Environment
  <2>1. ASSUME NEW c \in Ids, ScheduleEnds(c, TRUE) \/ ScheduleEnds(c, FALSE) PROVE IdmInv'
    BY <2>1, ScheduleEndsKeeps
  <2>2. ASSUME NEW u \in Accounts, AccountChanges(u) PROVE IdmInv'
    BY <2>2, AccountChangesKeeps
  <2> QED
    BY <1>2, <2>1, <2>2, FaceExecutorDiesKeeps, FaceExecutorRegistersKeeps DEF Environment
<1>3. CASE EventThread
  BY <1>3, StartEnrollmentKeeps, StartDeletionKeeps, StopContextKeeps, ResultFailsKeeps,
     UpdateEnrollmentResultKeeps, UpdateAbandonResultKeeps, GetSecUserIdKeeps, CountCredentialsKeeps,
     DeletionPublishedKeeps, EnrolmentPublishedKeeps, ProcessUserIdChangeKeeps, UpdateCacheAfterRegisterKeeps
     DEF EventThread
<1>4. CASE PostProcessForDelete
  BY <1>4, PostProcessForDeleteKeeps
<1>5. ASSUME NEW c \in Ids, Promote(c) PROVE IdmInv'
  BY <1>5, PromoteKeeps
<1>6. ASSUME NEW infos \in tasks, DeleteTemplateTask(infos) PROVE IdmInv'
  BY <1>6, DeleteTemplateTaskKeeps
<1> QED
  BY <1>1, <1>2, <1>3, <1>4, <1>5, <1>6 DEF Next

LEMMA StutterKeeps ==
  ASSUME IdmInv, UNCHANGED idmVars
  PROVE  IdmInv'
<1>1. IdmTypeOK' /\ QueueInv' /\ LatestInv' /\ RunInv'
  BY DEF IdmInv, idmVars, IdmTypeOK, QueueInv, LatestInv, RunInv, Once, ToSet, Before
<1>2. CredInv' /\ CacheInv'
  BY DEF IdmInv, idmVars, CredInv, CacheInv
<1>3. BusyInv' /\ TemplateInv'
  BY DEF IdmInv, idmVars, BusyInv, TemplateInv, IdsOf, ToSet, Replaced
<1>4. UpdateInv'
  BY DEF IdmInv, idmVars, UpdateInv, IdsOf
<1>5. CountInv'
  BY DEF IdmInv, idmVars, CountInv, GetCredential, InUse, CredsOf, HadPin, Pending, IdsOf, IsPinUpdate, IsNewPin,
     Right, Superseded
<1> QED
  BY <1>1, <1>2, <1>3, <1>4, <1>5 DEF IdmInv, idmVars

-------------------------------------------------------------------------------
(* The theorems, for any users and any number of requests.                 *)

\* IdmInv is an invariant of the requests of UserIdmService, the event thread's tasks and
\* the executors' results.
THEOREM IdmInvariant == Spec => []IdmInv
<1>1. Init => IdmInv
  BY IdmInit
<1>2. IdmInv /\ [Next]_idmVars => IdmInv'
  BY NextKeeps, StutterKeeps
<1> QED
  BY <1>1, <1>2, PTL DEF Spec

\* An enrolment's destructor, which cancels by user in the engine (enrollment_impl.cpp),
\* never hits the enrolment that followed it: a new one begins only after the stop of the
\* cancelled one has run.
THEOREM SuccessorTheorem == Spec => []SuccessorNotCancelled
<1>1. IdmInv => SuccessorNotCancelled
  BY DEF IdmInv, SuccessorNotCancelled
<1> QED
  BY <1>1, IdmInvariant, PTL

\* Every template an executor keeps has a credential, or its enrolment or deletion is
\* under way (NotifyExecutorToDeleteTemplates), or the executor was not registered when it
\* was to be deleted, or the engine refused the enrolment that made it.
THEOREM TemplateTheorem == Spec => []NoOrphanTemplate
<1>1. ASSUME IdmInv PROVE NoOrphanTemplate
  <2>1. IdmTypeOK /\ QueueInv /\ TemplateInv /\ BusyInv
    BY <1>1 DEF IdmInv
  <2> DEFINE Tracked == IdsOf(creds) \cup ghost.lost \cup IdsOf(deletion.infos) \cup (UNION {IdsOf(i) : i \in tasks})
             Running == {d \in Ids : ctx[d].st = "started"}
             Olds == {ctx[d].old : d \in {busy.id} \ {None}}
  <2>2. ASSUME NEW c \in templates
        PROVE  c \in Tracked \/ c \in Running \/ c \in Olds
    <3>1. c \in Ids
      BY <2>1 DEF IdmTypeOK
    <3>2. c \in Tracked \/ <<"succeeded", c>> \in ToSet(queue) \/ c \in Replaced
      BY <2>1 DEF TemplateInv
    <3>3. CASE <<"succeeded", c>> \in ToSet(queue)
      <4>1. ctx[c].st = "started"
        BY <2>1, <3>1, <3>3 DEF QueueInv
      <4>2. c \in Running
        BY <3>1, <4>1
      <4> HIDE DEF Tracked, Running, Olds
      <4> QED
        BY <4>2
    <3>4. CASE c \in Replaced
      <4>1. busy # Idle /\ c = ctx[busy.id].old
        BY <2>1, <3>4 DEF Replaced, BusyInv, IdsOf, Idle
      <4>2. busy.id # None
        BY <2>1, <4>1, BusyFacts DEF Ids, None
      <4>3. c \in Olds
        BY <4>1, <4>2
      <4> HIDE DEF Tracked, Running, Olds
      <4> QED
        BY <4>3
    <3> HIDE DEF Tracked, Running, Olds
    <3> QED
      BY <3>2, <3>3, <3>4
  <2> HIDE DEF Tracked, Running, Olds
  <2>3. templates \subseteq Tracked \cup Running \cup Olds
    BY <2>2
  <2> QED
    BY <2>3 DEF NoOrphanTemplate, Tracked, Running, Olds
<1> QED
  BY <1>1, IdmInvariant, PTL

\* Each PIN update is announced at most once, with the credential that replaced the old
\* one, and after the engine has dropped the old one.
THEOREM AnnouncementTheorem == Spec => []UpdateAnnouncedTruly
<1>1. ASSUME IdmInv PROVE UpdateAnnouncedTruly
  <2>1. UpdateInv
    BY <1>1 DEF IdmInv
  <2>2. \A i, j \in DOMAIN announced : announced[i] = announced[j] => i = j
    BY <2>1 DEF UpdateInv
  <2> QED
    BY <2>1, <2>2 DEF UpdateInv, UpdateAnnouncedTruly, IsInjective
<1> QED
  BY <1>1, IdmInvariant, PTL

\* When the event thread is idle and no deletion of users is under way, the PIN count last
\* published for a user (ProcessCredentialEnrolled, ProcessCredentialDeleted,
\* SaveCredentialUpdatedEvent) is at least the number of his PINs in use, and exceeds it by
\* no more than the PINs that updates replaced.  Users in ghost.stale are exempt: their PINs
\* changed between the last count and its publication, or could not be read.
THEOREM CountTheorem == Spec => []PinCountPublished
<1>1. ASSUME IdmInv, Quiet, NEW u \in Users \ ghost.stale
      PROVE  Right(u, published[u])
  <2>1. busy = Idle /\ deletion = NoDeletion
    BY <1>1 DEF Quiet, Locked
  <2>2. ~Pending(u) /\ ~HadPin(u)
    BY <2>1 DEF Pending, HadPin, NoDeletion
  <2> QED
    BY <1>1, <2>2 DEF IdmInv, CountInv
<1>2. IdmInv => PinCountPublished
  BY <1>1 DEF PinCountPublished, Right
<1> QED
  BY <1>2, IdmInvariant, PTL

\* Unless the last UpdateTemplateCache failed, at the engine's query or at the executor, the
\* face executor's cache holds templates of the current user only, through account switches
\* and executor deaths and registrations in any order.
THEOREM CacheTheorem == Spec => []CacheOfCurrentUser
<1>1. IdmInv => CacheOfCurrentUser
  BY DEF IdmInv, CacheInv, CacheOfCurrentUser
<1> QED
  BY <1>1, IdmInvariant, PTL
===============================================================================
