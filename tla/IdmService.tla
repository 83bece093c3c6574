------------------------------- MODULE IdmService -------------------------------
(***************************************************************************)
(* UserIdmService and what its requests set in motion: the enrolment and   *)
(* deletion contexts, the engine's credentials, the templates the          *)
(* executors keep, and what is published about it.                         *)
(*                                                                         *)
(* Two kinds of threads meet here.  Requests run on IPC threads, one at a  *)
(* time under UserIdmService::mutex_.  Contexts are started and stopped,   *)
(* and schedule results handled, by tasks of the single event thread.      *)
(* Which waiting context the pool admits first is ContextPool's; here one  *)
(* may be admitted at any time.                                            *)
(***************************************************************************)
EXTENDS Integers, Sequences, FiniteSets, SequencesExt

CONSTANTS Users,           \* the users that enrol
          Accounts,        \* the users the device can switch to
          MaxContexts,     \* enrolments and deletions of credentials
          Budget           \* of other requests (2 each), account switches and executor deaths (1)

ASSUME IdmAssumption ==
  /\ IsFiniteSet(Users) /\ Users # {} /\ Users \subseteq Accounts /\ 0 \notin Accounts
  /\ {MaxContexts, Budget} \subseteq Nat

Ids == 1..MaxContexts      \* a context; also the credential and template it enrols
None == 0
Types == {"PIN", "FACE"}

VARIABLES creds,       \* the engine's credentials: [id, user, type, abandoned]
          enrolling,   \* the engine's enrolment in progress for each user: an id or None
          templates,   \* the templates the executors keep
          ctx,         \* the contexts
          queue,       \* tasks of the event thread
          busy,        \* the result the event thread is handling: [id, n, step, infos], or idle
          deletion,    \* the request that holds mutex_ over several steps
          tasks,       \* sets of templates a posted task will delete
          pinUpdate,   \* PublishEventAdapter: userId_, credChangeEventInfo_
          announced,   \* USER_PIN_UPDATED_EVENTs published
          published,   \* the PIN count last published for each user
          cache,       \* the templates the face executor has cached
          currUserId,  \* TemplateCacheManager
          online,      \* whether the face executor is registered
          ghost,       \* history: templates whose deletion got lost, PIN updates, PIN counts
                       \* overtaken or unread, enrolments cancelled by another, a cache not updated
          used         \* the events counted by Budget

idmVars == <<creds, enrolling, templates, ctx, queue, busy, deletion, tasks,
             pinUpdate, announced, published, cache, currUserId, online, ghost, used>>

\* The groups most actions leave alone.
engineVars == <<creds, enrolling>>
publishVars == <<pinUpdate, announced, published>>
cacheVars == <<cache, currUserId, online>>
threadVars == <<queue, busy, deletion, tasks>>

NoContext == [st |-> "none", kind |-> "enroll", user |-> CHOOSE u \in Users : TRUE, type |-> "PIN", old |-> None,
              running |-> FALSE, cancelled |-> FALSE]
Idle == [id |-> None, n |-> 0, step |-> "idle", infos |-> {}]
NoDeletion == [users |-> {}, infos |-> {}]

CredsOf(u) == {k \in creds : k.user = u}
\* GetCredential: the credentials of a type, the abandoned ones included.
GetCredential(u, type) == {k \in CredsOf(u) : k.type = type}
IdsOf(infos) == {k.id : k \in infos}

Init ==
  /\ creds = {} /\ enrolling = [u \in Users |-> None]
  /\ templates = {} /\ ctx = [c \in Ids |-> NoContext]
  /\ queue = <<>> /\ busy = Idle /\ deletion = NoDeletion /\ tasks = {}
  /\ pinUpdate = [user |-> None, old |-> None, new |-> None]
  /\ announced = <<>> /\ published = [u \in Users |-> 0]
  /\ cache = {} /\ currUserId = None /\ online = TRUE
  /\ ghost = [lost |-> {}, updates |-> {}, stale |-> {}, victims |-> {}, uncached |-> FALSE]
  /\ used = 0

-------------------------------------------------------------------------------
(* Effects shared by several requests.                                     *)

\* NotifyExecutorToDeleteTemplates: an executor that is not registered is skipped.  Only
\* the face executor leaves in this model.
Reachable(infos) == {k \in infos : k.type = "FACE" => online}
NotifyExecutorToDeleteTemplates(infos) ==
  /\ templates' = templates \ IdsOf(Reachable(infos))
  /\ ghost' = [ghost EXCEPT !.lost = @ \cup IdsOf(infos \ Reachable(infos))]

\* CancelCurrentEnrollIfExist: every enrolment in the pool, waiting or running, is marked
\* and a task to stop it posted.
PooledEnrolls == {c \in Ids : ctx[c].kind = "enroll" /\ ctx[c].st \in {"waiting", "starting", "started"}}
StopTasks(ids) == SetToSeq({<<"stop", c>> : c \in ids})
CancelCurrentEnrollIfExist ==
  /\ queue' = queue \o StopTasks(PooledEnrolls)
  /\ ctx' = [c \in Ids |-> IF c \in PooledEnrolls THEN [ctx[c] EXCEPT !.cancelled = TRUE] ELSE ctx[c]]

Spend(n) == used + n <= Budget /\ used' = used + n

Locked == deletion # NoDeletion

\* The count the event thread has read is overtaken if the user's PINs change now.
PinUser(d) == IF d.type = "PIN" THEN {d.user} ELSE {}
Overtaken(u) == IF busy.step = "counted" THEN {u} \cap PinUser(ctx[busy.id]) ELSE {}

-------------------------------------------------------------------------------
(* Requests.                                                               *)

\* OpenSession; the session itself is the engine's.
OpenSession ==
  /\ ~Locked /\ Spend(2)
  /\ PooledEnrolls # {}
  /\ CancelCurrentEnrollIfExist
  /\ UNCHANGED <<engineVars, templates, busy, deletion, tasks, publishVars, cacheVars, ghost>>

\* A context for a new request, in the order the requests come.
NewContext(c, kind, u, type, old) ==
  /\ ctx[c].st = "none" /\ \A d \in Ids : d < c => ctx[d].st # "none"
  /\ ctx' = [d \in Ids |->
               IF d = c THEN [NoContext EXCEPT !.st = "waiting", !.kind = kind, !.user = u, !.type = type, !.old = old]
               ELSE IF d \in PooledEnrolls THEN [ctx[d] EXCEPT !.cancelled = TRUE] ELSE ctx[d]]
  /\ queue' = queue \o StopTasks(PooledEnrolls)

\* AddCredential, with StartEnroll; old # None: UpdateCredential found a credential.
AddCredential(c, u, type, old) ==
  /\ ~Locked
  /\ NewContext(c, "enroll", u, type, old)
  /\ UNCHANGED <<engineVars, templates, busy, deletion, tasks, publishVars, cacheVars, ghost, used>>

UpdateCredential(c, u, type) ==
  \E k \in GetCredential(u, type) : AddCredential(c, u, type, k.id)

\* Cancel: the caller's enrolments only (the token is the user's here).
CancelEnroll(u) ==
  LET mine == {c \in PooledEnrolls : ctx[c].user = u /\ ~ctx[c].cancelled}
  IN /\ ~Locked /\ mine # {} /\ Spend(2)
     /\ queue' = queue \o StopTasks(mine)
     /\ ctx' = [c \in Ids |-> IF c \in mine THEN [ctx[c] EXCEPT !.cancelled = TRUE] ELSE ctx[c]]
     /\ UNCHANGED <<engineVars, templates, busy, deletion, tasks, publishVars, cacheVars, ghost>>

DelCredential(c, k) ==
  /\ ~Locked
  /\ NewContext(c, "delete", k.user, k.type, k.id)
  /\ UNCHANGED <<engineVars, templates, busy, deletion, tasks, publishVars, cacheVars, ghost, used>>

\* DelUser and EnforceDelUser: the engine forgets the user, and mutex_ is kept until the
\* templates are deleted and the change published.
DeleteUsers(us) ==
  /\ ~Locked /\ Spend(2)
  /\ CancelCurrentEnrollIfExist
  /\ deletion' = [users |-> us, infos |-> {k \in creds : k.user \in us}]
  /\ creds' = {k \in creds : k.user \notin us}
  /\ ghost' = [ghost EXCEPT !.stale = @ \cup UNION {Overtaken(u) : u \in us}]
  /\ UNCHANGED <<enrolling, templates, busy, tasks, publishVars, cacheVars>>

DelUser(u) == DeleteUsers({u})
EnforceDelUser(u) == CredsOf(u) # {} /\ DeleteUsers({u})

\* ClearRedundancyCredential: the users that have credentials and no account.
ClearRedundancyCredential(accounts) ==
  LET gone == {u \in Users : CredsOf(u) # {}} \ accounts
  IN gone # {} /\ DeleteUsers(gone)

\* SaveCredentialUpdatedEvent: the event also goes into a system parameter.
SaveCredentialUpdatedEvent(us, n) == published' = [u \in Users |-> IF u \in us THEN n ELSE published[u]]

PostProcessForDeleteSilent ==
  /\ Locked
  /\ NotifyExecutorToDeleteTemplates(deletion.infos)
  /\ deletion' = NoDeletion
  /\ UNCHANGED <<engineVars, ctx, queue, busy, tasks, publishVars, cacheVars, used>>

PostProcessForDelete ==
  LET hadPin == {k.user : k \in {i \in deletion.infos : i.type = "PIN" /\ ~i.abandoned}}
  IN /\ Locked
     /\ NotifyExecutorToDeleteTemplates(deletion.infos)
     /\ SaveCredentialUpdatedEvent(hadPin, 0)
     /\ deletion' = NoDeletion
     /\ UNCHANGED <<engineVars, ctx, queue, busy, tasks, pinUpdate, announced, cacheVars, used>>

\* Without mutex_: the engine drops some credentials of a user, and no count is published.
EngineDrops(infos) ==
  /\ Spend(2) /\ infos # {}
  /\ creds' = creds \ infos
  /\ NotifyExecutorToDeleteTemplates(infos)
  /\ UNCHANGED <<enrolling, ctx, threadVars, publishVars, cacheVars>>

\* DeleteSubProfile: biometric credentials.
DeleteSubProfile(u, infos) == infos \subseteq GetCredential(u, "FACE") /\ EngineDrops(infos)

\* ClearUnavailableCredential, when GetCredentialInfo has seen an abandoned credential that
\* is no longer valid.
ClearUnavailableCredential(u, infos) ==
  /\ \E k \in CredsOf(u) : k.abandoned
  /\ infos \subseteq {k \in CredsOf(u) : k.abandoned \/ k.type = "FACE"}
  /\ EngineDrops(infos)

-------------------------------------------------------------------------------
(* The event thread.                                                       *)

\* The pool admits a waiting context and posts its start.
Promote(c) ==
  /\ ctx[c].st = "waiting"
  /\ ctx' = [ctx EXCEPT ![c].st = "starting"]
  /\ queue' = Append(queue, <<"start", c>>)
  /\ UNCHANGED <<engineVars, templates, busy, deletion, tasks, publishVars, cacheVars, ghost, used>>

Head1(kind) == busy = Idle /\ queue # <<>> /\ Head(queue)[1] = kind
Taken == queue' = Tail(queue)

\* ~EnrollmentImpl and EnrollmentImpl::Cancel: an enrolment that still counts as running is
\* cancelled in the engine, by its user.
CancelInEngine(c) ==
  IF ctx[c].kind = "enroll" /\ ctx[c].running THEN [enrolling EXCEPT ![ctx[c].user] = None] ELSE enrolling
Victims(c) ==
  IF ctx[c].kind = "enroll" /\ ctx[c].running /\ enrolling[ctx[c].user] \notin {None, c}
  THEN {enrolling[ctx[c].user]} ELSE {}

\* The context is answered, leaves the pool and is destroyed.
Ended(c) == [ctx EXCEPT ![c].st = "done", ![c].running = FALSE]

\* EnrollmentImpl::Start, StartSchedule.
BeginEnrollment(c) == enrolling' = [enrolling EXCEPT ![ctx[c].user] = c]
StartSchedule(c) == [ctx EXCEPT ![c].st = "started", ![c].running = TRUE]

\* EnrollContext::OnStart; a context that was cancelled, or that the engine refuses, is
\* answered at once.
StartEnrollment ==
  /\ Head1("start")
  /\ LET c == Head(queue)[2]
         d == ctx[c]
     IN /\ d.kind = "enroll" /\ Taken
        /\ \/ ~d.cancelled /\ BeginEnrollment(c) /\ ctx' = StartSchedule(c)
           \/ ctx' = Ended(c) /\ UNCHANGED enrolling
  /\ UNCHANGED <<creds, templates, busy, deletion, tasks, publishVars, cacheVars, ghost, used>>

\* The engine has taken the result of c; infos: the templates to delete at the end.
Committed(c, infos) == [id |-> c, n |-> 0, step |-> "committed", infos |-> infos]

\* DeleteImpl::DeleteCredential: the templates go by a posted task.
DeleteCredential(c, infos) ==
  /\ creds' = creds \ infos
  /\ tasks' = tasks \cup {infos}
  /\ ctx' = [ctx EXCEPT ![c].st = "started"]
  /\ busy' = Committed(c, {})

\* DeleteImpl::StartSchedule: the schedule that abandons a PIN.
StartAbandon(c) == ctx' = [ctx EXCEPT ![c].st = "started"] /\ UNCHANGED <<creds, tasks, busy>>

\* DeleteContext::OnStart and DeleteImpl::Start: the engine deletes the credential, or
\* wants it abandoned by a schedule first, or refuses.
StartDeletion ==
  /\ Head1("start")
  /\ LET c == Head(queue)[2]
         infos == {k \in creds : k.id = ctx[c].old}
     IN /\ ctx[c].kind = "delete" /\ Taken
        /\ \/ infos # {} /\ DeleteCredential(c, infos)
           \/ infos # {} /\ ctx[c].type = "PIN" /\ StartAbandon(c)
           \/ ctx' = Ended(c) /\ UNCHANGED <<creds, tasks, busy>>
  /\ UNCHANGED <<ghost, enrolling, templates, deletion, publishVars, cacheVars, used>>

StopContextLate ==
  /\ Head1("stop") /\ Taken
  /\ UNCHANGED <<engineVars, ghost, ctx, templates, busy, deletion, tasks, publishVars, cacheVars, used>>

\* BaseContext::Stop: an enrolment that has started is cancelled in the engine, its
\* schedule is stopped and will end with a failure.  A context not started is ended when
\* its start is refused.
StopContext ==
  /\ Head1("stop")
  /\ LET c == Head(queue)[2]
     IN /\ Taken
        /\ enrolling' = IF ctx[c].st = "started" THEN CancelInEngine(c) ELSE enrolling
        /\ ghost' = [ghost EXCEPT !.victims = @ \cup IF ctx[c].st = "started" THEN Victims(c) ELSE {}]
        /\ ctx' = IF ctx[c].st = "started" THEN [ctx EXCEPT ![c].running = FALSE] ELSE ctx
  /\ UNCHANGED <<creds, templates, busy, deletion, tasks, publishVars, cacheVars, used>>

\* A schedule ends: its executor has made a template, or it failed.
ScheduleEnds(c, ok) ==
  /\ ctx[c].st = "started" /\ busy.id # c
  /\ \A i \in DOMAIN queue : queue[i] # <<"failed", c>> /\ queue[i] # <<"succeeded", c>>
  /\ queue' = Append(queue, <<IF ok THEN "succeeded" ELSE "failed", c>>)
  /\ templates' = IF ok /\ ctx[c].kind = "enroll" THEN templates \cup {c} ELSE templates
  /\ UNCHANGED <<engineVars, ctx, busy, deletion, tasks, publishVars, cacheVars, ghost, used>>

ResultFails ==
  /\ Head1("failed")
  /\ LET c == Head(queue)[2]
     IN Taken /\ ctx' = Ended(c) /\ enrolling' = CancelInEngine(c)
        /\ ghost' = [ghost EXCEPT !.victims = @ \cup Victims(c)]
  /\ UNCHANGED <<creds, templates, busy, deletion, tasks, publishVars, cacheVars, used>>

\* EnrollmentImpl::Update: the engine takes the result of the enrolment it has in
\* progress, and an update replaces the old credential if it is still there (a PIN is kept
\* as abandoned).
OldOf(c) == {k \in creds : k.id = ctx[c].old /\ ~k.abandoned}
KeptOf(c) == IF ctx[c].type = "PIN" THEN {[k EXCEPT !.abandoned = TRUE] : k \in OldOf(c)} ELSE {}
NewOf(c) == [id |-> c, user |-> ctx[c].user, type |-> ctx[c].type, abandoned |-> FALSE]
UpdatesOf(c) == {[user |-> k.user, old |-> k.id, new |-> c] : k \in KeptOf(c)}

EngineTakes(c) == enrolling[ctx[c].user] = c /\ (ctx[c].old = None \/ OldOf(c) # {})

CommitEnrollment(c) ==
  /\ creds' = (creds \ OldOf(c)) \cup KeptOf(c) \cup {NewOf(c)}
  /\ enrolling' = [enrolling EXCEPT ![ctx[c].user] = None]
  /\ busy' = Committed(c, {}) /\ ctx' = ctx
  /\ ghost' = [ghost EXCEPT !.updates = @ \cup UpdatesOf(c),
                            !.stale = @ \cup (deletion.users \cap PinUser(ctx[c]))]

RefuseEnrollment(c) ==
  /\ ctx' = Ended(c) /\ enrolling' = CancelInEngine(c)
  /\ ghost' = [ghost EXCEPT !.lost = @ \cup {c}, !.victims = @ \cup Victims(c)]
  /\ UNCHANGED <<creds, busy>>

UpdateEnrollmentResult ==
  /\ Head1("succeeded")
  /\ LET c == Head(queue)[2]
     IN /\ ctx[c].kind = "enroll" /\ Taken
        /\ IF EngineTakes(c) THEN CommitEnrollment(c) ELSE RefuseEnrollment(c)
  /\ UNCHANGED <<templates, deletion, tasks, publishVars, cacheVars, used>>

\* DeleteImpl::Update after an abandon schedule: the engine drops the credential, or
\* refuses.
UpdateAbandonResult ==
  /\ Head1("succeeded")
  /\ LET c == Head(queue)[2]
         infos == {k \in creds : k.id = ctx[c].old}
     IN /\ ctx[c].kind = "delete" /\ Taken
        /\ \/ creds' = creds \ infos /\ busy' = Committed(c, infos) /\ ctx' = ctx
           \/ ctx' = Ended(c) /\ UNCHANGED <<creds, busy>>
  /\ UNCHANGED <<enrolling, templates, deletion, tasks, publishVars, cacheVars, ghost, used>>

IsPinUpdate(d) == d.kind = "enroll" /\ d.old # None /\ d.type = "PIN"

\* GetSecUserId, for a new PIN: if the engine no longer knows the user, or cannot be asked,
\* the enrolment fails and no count is published.
IsNewPin(d) == d.kind = "enroll" /\ d.old = None /\ d.type = "PIN"
GetSecUserId ==
  /\ busy.step = "committed" /\ IsNewPin(ctx[busy.id])
  /\ \/ CredsOf(ctx[busy.id].user) # {} /\ busy' = [busy EXCEPT !.step = "checked"] /\ UNCHANGED <<ctx, enrolling, ghost>>
     \/ /\ busy' = Idle /\ ctx' = Ended(busy.id)
        /\ enrolling' = CancelInEngine(busy.id)
        /\ ghost' = [ghost EXCEPT !.victims = @ \cup Victims(busy.id),
                                  !.stale = @ \cup {k.user : k \in CredsOf(ctx[busy.id].user)}]
  /\ UNCHANGED <<creds, templates, queue, deletion, tasks, publishVars, cacheVars, used>>

\* ProcessCredentialEnrolled and ProcessCredentialDeleted count the credentials the engine
\* has, or cannot read them.
CountCredentials ==
  LET d == ctx[busy.id]
  IN /\ busy # Idle /\ busy.step = IF IsNewPin(d) THEN "checked" ELSE "committed"
     /\ ~IsPinUpdate(d)
     /\ \/ /\ busy' = [busy EXCEPT !.step = "counted", !.n = Cardinality(GetCredential(d.user, d.type))]
           /\ ghost' = [ghost EXCEPT !.stale = @ \ (PinUser(d) \ deletion.users)]
        \/ /\ busy' = [busy EXCEPT !.step = "unread"]
           /\ ghost' = [ghost EXCEPT !.stale = @ \cup PinUser(d)]
     /\ UNCHANGED <<engineVars, templates, ctx, queue, deletion, tasks, publishVars, cacheVars, used>>

PublishCount(d) == SaveCredentialUpdatedEvent(PinUser(d), busy.n)

ClearPinUpdateCacheInfo == [pinUpdate EXCEPT !.old = None, !.new = None]

PublishUpdatedEventAnyOld(d) ==
  IF d.user = pinUpdate.user /\ pinUpdate.old # None
  THEN /\ announced' = Append(announced, [user |-> d.user, old |-> d.old, new |-> pinUpdate.new])
       /\ pinUpdate' = ClearPinUpdateCacheInfo
  ELSE UNCHANGED <<announced, pinUpdate>>

\* PublishUpdatedEvent: the deletion of the PIN that the cached update replaced.
PublishUpdatedEvent(d) ==
  IF d.user = pinUpdate.user /\ d.old = pinUpdate.old
  THEN /\ announced' = Append(announced, [user |-> d.user, old |-> d.old, new |-> pinUpdate.new])
       /\ pinUpdate' = ClearPinUpdateCacheInfo
  ELSE UNCHANGED <<announced, pinUpdate>>

DeletionPublished ==
  LET d == ctx[busy.id]
  IN /\ busy.step \in {"counted", "unread"} /\ d.kind = "delete"
     /\ IF busy.step = "counted" THEN PublishCount(d) /\ PublishUpdatedEvent(d) ELSE UNCHANGED publishVars
     /\ NotifyExecutorToDeleteTemplates(busy.infos)
     /\ ctx' = Ended(busy.id) /\ busy' = Idle
     /\ UNCHANGED <<engineVars, queue, deletion, tasks, cacheVars, used>>

CachePinUpdateParam(d) ==
  IF IsPinUpdate(d) THEN pinUpdate' = [pinUpdate EXCEPT !.user = d.user, !.old = d.old, !.new = busy.id]
  ELSE UNCHANGED pinUpdate

ReplacedInfosNone(d) == {}

\* The template of a replaced biometric credential is deleted; a PIN's is left to the
\* deletion of the abandoned credential.
ReplacedInfos(d) ==
  IF d.old # None /\ d.type # "PIN" THEN {[id |-> d.old, user |-> d.user, type |-> d.type, abandoned |-> FALSE]} ELSE {}

EnrolmentPublished ==
  LET d == ctx[busy.id]
  IN /\ busy # Idle /\ busy.step \in IF IsPinUpdate(d) THEN {"committed"} ELSE {"counted", "unread"}
     /\ d.kind = "enroll"
     /\ IF busy.step = "counted" THEN PublishCount(d) ELSE UNCHANGED published
     /\ CachePinUpdateParam(d)
     /\ templates' = templates \ IdsOf(Reachable(ReplacedInfos(d)))
     /\ enrolling' = CancelInEngine(busy.id)
     /\ ghost' = [ghost EXCEPT !.lost = @ \cup IdsOf(ReplacedInfos(d) \ Reachable(ReplacedInfos(d))),
                               !.victims = @ \cup Victims(busy.id)]
     /\ ctx' = Ended(busy.id) /\ busy' = Idle
     /\ UNCHANGED <<creds, queue, deletion, tasks, announced, cacheVars, used>>

\* The posted task of DeleteImpl::DeleteCredential.
DeleteTemplateTask(infos) ==
  /\ infos \in tasks
  /\ tasks' = tasks \ {infos}
  /\ NotifyExecutorToDeleteTemplates(infos)
  /\ UNCHANGED <<engineVars, ctx, queue, busy, deletion, publishVars, cacheVars, used>>

-------------------------------------------------------------------------------
(* The template cache.                                                     *)

AccountChanges(u) ==
  /\ Spend(1)
  /\ queue' = Append(queue, <<"user", u>>)
  /\ UNCHANGED <<engineVars, templates, ctx, busy, deletion, tasks, publishVars, cacheVars, ghost>>

UpdateTemplateCacheUnlessEmpty(u) ==
  \/ /\ online /\ u # None /\ GetCredential(u, "FACE") # {}
     /\ cache' = IdsOf(GetCredential(u, "FACE")) /\ ghost' = [ghost EXCEPT !.uncached = FALSE]
  \/ (~online \/ u = None \/ GetCredential(u, "FACE") = {}) /\ UNCHANGED <<cache, ghost>>

\* SetCachedTemplates: the executor takes the templates it is given, or fails.
SetCachedTemplates(infos) ==
  \/ cache' = IdsOf(infos) /\ ghost' = [ghost EXCEPT !.uncached = FALSE]
  \/ cache' = cache /\ ghost' = [ghost EXCEPT !.uncached = TRUE]

\* UpdateTemplateCache: the executor is given the templates of the current user, or told
\* that there are none.  A query of the engine that fails leaves its cache as it is, like
\* an executor that fails.
UpdateTemplateCache(u) ==
  \/ online /\ u # None /\ SetCachedTemplates(GetCredential(u, "FACE"))
  \/ (~online \/ u = None) /\ UNCHANGED <<cache, ghost>>

ProcessUserIdChange ==
  /\ Head1("user") /\ Taken
  /\ currUserId' = Head(queue)[2]
  /\ \/ currUserId = currUserId' /\ UNCHANGED <<cache, ghost>>
     \/ currUserId # currUserId' /\ UpdateTemplateCache(currUserId')
  /\ UNCHANGED <<engineVars, templates, ctx, busy, deletion, tasks, publishVars, online, used>>

FaceExecutorDies ==
  /\ online /\ Spend(1)
  /\ online' = FALSE /\ cache' = {} /\ ghost' = [ghost EXCEPT !.uncached = FALSE]
  /\ UNCHANGED <<engineVars, templates, ctx, threadVars, publishVars, currUserId>>

\* The registration's task updates the cache of the new executor.
FaceExecutorRegisters ==
  /\ ~online /\ online' = TRUE
  /\ queue' = Append(queue, <<"registered", None>>)
  /\ UNCHANGED <<engineVars, templates, ctx, busy, deletion, tasks, publishVars, cache, currUserId,
                 ghost, used>>

UpdateCacheAfterRegister ==
  /\ Head1("registered") /\ Taken
  /\ UpdateTemplateCache(currUserId)
  /\ UNCHANGED <<engineVars, templates, ctx, busy, deletion, tasks, publishVars, currUserId, online, used>>

-------------------------------------------------------------------------------

EventThread ==
  \/ StartEnrollment \/ StartDeletion \/ StopContext \/ ResultFails \/ UpdateEnrollmentResult
  \/ UpdateAbandonResult \/ GetSecUserId \/ CountCredentials \/ DeletionPublished \/ EnrolmentPublished
  \/ ProcessUserIdChange \/ UpdateCacheAfterRegister

Requests ==
  \/ OpenSession
  \/ \E c \in Ids, u \in Users, type \in Types : AddCredential(c, u, type, None) \/ UpdateCredential(c, u, type)
  \/ \E c \in Ids, k \in creds : DelCredential(c, k)
  \/ \E u \in Users : CancelEnroll(u) \/ DelUser(u) \/ EnforceDelUser(u)
  \/ \E accounts \in SUBSET Users : ClearRedundancyCredential(accounts)
  \/ \E u \in Users : \E infos \in SUBSET CredsOf(u) : DeleteSubProfile(u, infos) \/ ClearUnavailableCredential(u, infos)

Environment ==
  \/ \E c \in Ids : ScheduleEnds(c, TRUE) \/ ScheduleEnds(c, FALSE)
  \/ \E u \in Accounts : AccountChanges(u)
  \/ FaceExecutorDies \/ FaceExecutorRegisters

Next ==
  \/ Requests \/ Environment \/ EventThread \/ PostProcessForDelete
  \/ \E c \in Ids : Promote(c)
  \/ \E infos \in tasks : DeleteTemplateTask(infos)

Spec == Init /\ [][Next]_idmVars

-------------------------------------------------------------------------------

\* The destructor of an enrolment that is over cancels by user in the engine, and never
\* hits the enrolment that followed it.
SuccessorNotCancelled == ghost.victims = {}

\* A template on an executor belongs to a credential, or its deletion is under way, or
\* the deletion found no executor, or the engine refused the enrolment that made it.
NoOrphanTemplate ==
  templates \subseteq IdsOf(creds) \cup ghost.lost \cup IdsOf(deletion.infos) \cup (UNION {IdsOf(i) : i \in tasks})
                      \cup {c \in Ids : ctx[c].st = "started"} \cup {ctx[c].old : c \in {busy.id} \ {None}}

\* A PIN update is announced at most once, with the credential that really replaced the
\* deleted one, and only when the replaced one is gone.
UpdateAnnouncedTruly ==
  /\ \A i \in DOMAIN announced : announced[i] \in ghost.updates /\ announced[i].old \notin IdsOf(creds)
  /\ IsInjective(announced)

\* When nothing is under way the PIN count last published is right: never below the number
\* of PINs in use, and above it only by PINs that an update replaced, which the engine
\* still lists.  Not claimed of a user whose PINs changed, or could not be read, between
\* the last count and its publication: nothing is published for them until the next count.
Quiet == busy = Idle /\ ~Locked
InUse(u) == {k \in GetCredential(u, "PIN") : ~k.abandoned}
Superseded(u) == {x.old : x \in {y \in ghost.updates : y.user = u}}
PinCountPublished ==
  Quiet => \A u \in Users \ ghost.stale : published[u] - Cardinality(InUse(u)) \in 0..Cardinality(Superseded(u))

\* The face executor never has a template of another user than the current one cached,
\* however switches, deaths and registrations follow each other, unless the last update of
\* its cache failed.
CacheOfCurrentUser == ~ghost.uncached => \A c \in cache : ctx[c].user = currUserId
================================================================================
