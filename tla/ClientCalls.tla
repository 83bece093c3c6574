------------------------------ MODULE ClientCalls ------------------------------
(***************************************************************************)
(* The native clients of one application and the service they call.  Each  *)
(* client singleton (UserAuthClientImpl, UserIdmClientImpl and two more    *)
(* that work like the first) caches a proxy of its service and has a death *)
(* recipient on it; all share one CallbackManager, which answers the       *)
(* callbacks in flight when the service process dies.  The service itself  *)
(* is the entry points of UserAuthEntries and UserIdmEntries.              *)
(***************************************************************************)
EXTENDS UserIdmEntries

CONSTANTS Calls,        \* the calls the application makes
          MaxDeaths,    \* how often the service process may die
          MaxChanged    \* how many conditions of a request may differ from one that succeeds

ASSUME ClientAssumption == IsFiniteSet(Calls) /\ {MaxDeaths, MaxChanged} \subseteq Nat

Clients == {"auth", "idm"}

VARIABLES service,      \* the service process: its generation, and whether it is up
          proxy,        \* the generation each client's cached proxy_ speaks to, 0 for none
          notices,      \* death notices not yet delivered: <<client, generation>>
          resets,       \* notices whose ResetProxy is still to come
          callbacks,    \* CallbackManager: the calls whose wrapper is registered
          call          \* the calls

clientVars == <<service, proxy, notices, resets, callbacks, call>>

-------------------------------------------------------------------------------
(* What the clients' methods do with the service's return code:            *)
(*   "begin"   an error becomes BAD_CONTEXT_ID, the callback is left alone *)
(*   "report"  an error is answered to the callback as GENERAL_ERROR       *)
(*   "void"    an error is logged                                          *)
(*   "ret"     the code is handed to the caller                            *)
(*   "sync"    the method has no callback and returns the code             *)
(* `needs` are the alternatives of permissions that entitle a caller,      *)
(* `good` the conditions of a request that succeeds, `bad` the others that *)
(* matter.                                                                 *)

Method(client, kind, entry, needs, good, bad) ==
  [client |-> client, kind |-> kind, entry |-> entry, needs |-> needs, good |-> good, bad |-> bad]

INTERNAL == {"ACCESS_USER_AUTH_INTERNAL"}
BIOMETRIC == {"ACCESS_BIOMETRIC"}
ACCESS_MANAGER == {"USE_USER_ACCESS_MANAGER"}
KnownCaller == {"tokenInfo", "account"}

GetAvailableStatusCall == Method("auth", "sync", "GetAvailableStatus", {INTERNAL, BIOMETRIC},
  KnownCaller \cup {"atl", "engine", "enrolled"}, {"companion", "apiVersion8", "pin", "userId"})
GetPropertyCall == Method("auth", "report", "GetProperty", {INTERNAL},
  {"engine", "enrolled", "oneNode", "executor"}, {"templatesRequired"})
GetPropertyByIdCall == [GetPropertyCall EXCEPT !.entry = "GetPropertyById"]
SetPropertyCall == [GetPropertyCall EXCEPT !.entry = "SetProperty"]
BeginAuthenticationCall == Method("auth", "begin", "AuthUser", {INTERNAL},
  {"tokenInfo", "atl", "scheduled", "localNetworkId", "collectorLocal"},
  {"companion", "remote", "pin", "verifierLocal", "collectorToken", "sudo", "additionalInfo"})
BeginNorthAuthenticationCall == Method("auth", "begin", "Auth", {BIOMETRIC},
  KnownCaller \cup {"atl", "foreground", "scheduled"}, {"pin"})
BeginIdentificationCall == Method("auth", "begin", "Identify", {INTERNAL}, {"scheduled"}, {"pin"})
CancelAuthenticationCall == Method("auth", "sync", "CancelAuthOrIdentify", {INTERNAL, BIOMETRIC},
  {"context", "ownContext"}, {})
GetVersionCall == Method("auth", "sync", "GetVersion", {INTERNAL, BIOMETRIC}, {}, {})
SetGlobalConfigParamCall == Method("auth", "sync", "SetGlobalConfigParam",
  {INTERNAL \cup {"ENTERPRISE_DEVICE_MGR"}}, {"configParam", "engine"}, {})
UserConfigParamCall == Method("auth", "sync", "UserConfigParam", {ACCESS_MANAGER},
  {"account", "configParam", "engine"}, {})
BeginWidgetAuthCall == Method("auth", "begin", "AuthWidget",
  {INTERNAL, BIOMETRIC, BIOMETRIC \cup {"USER_AUTH_FROM_BACKGROUND"}},
  KnownCaller \cup {"atl", "credentialList", "widgetType", "widgetParam", "solution", "scheduled"},
  {"userId", "ownUser", "privatePin", "noneInterruption", "windowMode", "sdk", "foreground", "reusable",
   "companion"})
SetWidgetCallbackCall == Method("auth", "sync", "RegisterWidgetCallback", {{"SUPPORT_USER_AUTH", "systemApp"}},
  {"notice"}, {})
NoticeCall == [SetWidgetCallbackCall EXCEPT !.entry = "Notice"]
GetEnrolledStateCall == Method("auth", "sync", "GetEnrolledState", {BIOMETRIC},
  KnownCaller \cup {"enrolled", "engine"}, {"apiVersion8"})
GetAuthLockStateCall == Method("auth", "report", "GetAuthLockState", {BIOMETRIC},
  KnownCaller \cup {"oneNode", "executor"}, {"templatesRequired"})
AuthSuccessListenerCall == Method("auth", "sync", "UserAuthSuccessEventListener", {INTERNAL}, {"listener"}, {})
UserRecognitionCall == Method("auth", "sync", "UserRecognition", {{"ACCESS_USER_PASSIVE_RECOGNITION"}},
  {"listener", "capability"}, {})
PrepareRemoteAuthCall == Method("auth", "ret", "PrepareRemoteAuth", {INTERNAL},
  {"networkId", "localNetworkId", "engine"}, {})
QueryReusableAuthResultCall == Method("auth", "sync", "QueryReusableAuthResult", {INTERNAL \cup {"systemApp"}},
  KnownCaller \cup {"atl", "authTypes", "reusable"}, {"userId"})
RegisterRemoteAuthCallbackCall == Method("auth", "sync", "RegisterRemoteAuthCallback",
  {INTERNAL \cup {"systemApp"}}, {"tokenInfo"}, {"registered"})
UnregisterRemoteAuthCallbackCall == Method("auth", "sync", "UnregisterRemoteAuthCallback",
  {INTERNAL \cup {"systemApp"}}, {}, {})
VerifyAuthTokenCall == Method("auth", "void", "VerifyAuthToken", {ACCESS_MANAGER}, {"token", "engine"}, {})

MANAGE_IDM == {"MANAGE_USER_IDM"}
USE_IDM == {"USE_USER_IDM"}
ENFORCE_IDM == {"ENFORCE_USER_IDM"}

OpenSessionCall == Method("idm", "sync", "OpenSession", {MANAGE_IDM}, {"engine"}, {})
CloseSessionCall == Method("idm", "sync", "CloseSession", {MANAGE_IDM}, {"engine", "ownSession"}, {})
AddCredentialCall == Method("idm", "void", "AddCredential", {MANAGE_IDM}, {"scheduled"}, {})
UpdateCredentialCall == Method("idm", "void", "UpdateCredential", {MANAGE_IDM}, {"engine", "enrolled", "scheduled"}, {})
CancelCall == Method("idm", "sync", "CancelEnroll", {MANAGE_IDM}, {"context"}, {})
DeleteCredentialCall == Method("idm", "void", "DelCredential", {MANAGE_IDM}, {"scheduled"}, {})
DeleteUserCall == Method("idm", "void", "DelUser", {MANAGE_IDM}, {"engine"}, {})
EraseUserCall == Method("idm", "ret", "EnforceDelUser", {ENFORCE_IDM \cup {"accountmgr"}}, {"enrolled", "engine"}, {})
GetCredentialInfoCall == Method("idm", "ret", "GetCredentialInfo", {USE_IDM}, {"engine", "enrolled"}, {})
GetSecUserInfoCall == Method("idm", "ret", "GetSecInfo", {USE_IDM}, {"engine", "enrolled"}, {})
ClearRedundancyCredentialCall == Method("idm", "void", "ClearRedundancyCredential", {ENFORCE_IDM},
  {"account", "engine", "enrolled"}, {})
DeleteSubProfileCall == Method("idm", "void", "DeleteSubProfile", {ENFORCE_IDM \cup {"accountmgr"}}, {"engine"}, {})
CredChangeListenerCall == Method("idm", "sync", "CredChangeEventListener", {USE_IDM}, {"listener"}, {})
GetCredentialInfoSyncCall == Method("idm", "sync", "GetCredentialInfoSync", {USE_IDM}, {"engine", "enrolled"}, {})
GetLatestEnrollmentTimeCall == Method("idm", "sync", "GetLatestEnrollmentTime", {USE_IDM}, {"engine"}, {})

Methods ==
  {GetAvailableStatusCall, GetPropertyCall, GetPropertyByIdCall, SetPropertyCall, BeginAuthenticationCall,
   BeginNorthAuthenticationCall, BeginIdentificationCall, CancelAuthenticationCall, GetVersionCall,
   SetGlobalConfigParamCall, UserConfigParamCall, BeginWidgetAuthCall, SetWidgetCallbackCall, NoticeCall,
   GetEnrolledStateCall, GetAuthLockStateCall, AuthSuccessListenerCall, UserRecognitionCall,
   PrepareRemoteAuthCall, QueryReusableAuthResultCall, RegisterRemoteAuthCallbackCall,
   UnregisterRemoteAuthCallbackCall, VerifyAuthTokenCall,
   OpenSessionCall, CloseSessionCall, AddCredentialCall, UpdateCredentialCall, CancelCall,
   DeleteCredentialCall, DeleteUserCall, EraseUserCall, GetCredentialInfoCall, GetSecUserInfoCall,
   ClearRedundancyCredentialCall, DeleteSubProfileCall, CredChangeListenerCall, GetCredentialInfoSyncCall,
   GetLatestEnrollmentTimeCall}

\* The service's dispatch: what entry e does for caller c when `holds` are true.
Outcome(e, c, holds) ==
  CASE e = "GetAvailableStatus" -> GetAvailableStatus(c, holds)
    [] e = "GetProperty" -> GetProperty(c, holds)
    [] e = "GetPropertyById" -> GetPropertyById(c, holds)
    [] e = "SetProperty" -> SetProperty(c, holds)
    [] e = "AuthUser" -> AuthUser(c, holds)
    [] e = "Auth" -> Auth(c, holds)
    [] e = "Identify" -> Identify(c, holds)
    [] e = "CancelAuthOrIdentify" -> CancelAuthOrIdentify(c, holds)
    [] e = "GetVersion" -> GetVersion(c)
    [] e = "SetGlobalConfigParam" -> SetGlobalConfigParam(c, holds)
    [] e = "UserConfigParam" -> UserConfigParam(c, holds)
    [] e = "AuthWidget" -> AuthWidget(c, holds)
    [] e = "RegisterWidgetCallback" -> RegisterWidgetCallback(c, holds)
    [] e = "Notice" -> Notice(c, holds)
    [] e = "GetEnrolledState" -> GetEnrolledState(c, holds)
    [] e = "GetAuthLockState" -> GetAuthLockState(c, holds)
    [] e = "UserAuthSuccessEventListener" -> UserAuthSuccessEventListener(c, holds)
    [] e = "UserRecognition" -> UserRecognition(c, holds)
    [] e = "PrepareRemoteAuth" -> PrepareRemoteAuth(c, holds)
    [] e = "QueryReusableAuthResult" -> QueryReusableAuthResult(c, holds)
    [] e = "RegisterRemoteAuthCallback" -> RegisterRemoteAuthCallback(c, holds)
    [] e = "UnregisterRemoteAuthCallback" -> UnregisterRemoteAuthCallback(c)
    [] e = "VerifyAuthToken" -> VerifyAuthToken(c, holds)
    [] e = "OpenSession" -> OpenSession(c, holds)
    [] e = "CloseSession" -> CloseSession(c, holds)
    [] e = "AddCredential" -> AddCredential(c, holds)
    [] e = "UpdateCredential" -> UpdateCredential(c, holds)
    [] e = "CancelEnroll" -> CancelEnroll(c, holds)
    [] e = "DelCredential" -> DelCredential(c, holds)
    [] e = "DelUser" -> DelUser(c, holds)
    [] e = "EnforceDelUser" -> EnforceDelUser(c, holds)
    [] e = "GetCredentialInfo" -> GetCredentialInfo(c, holds)
    [] e = "GetSecInfo" -> GetSecInfo(c, holds)
    [] e = "ClearRedundancyCredential" -> ClearRedundancyCredential(c, holds)
    [] e = "DeleteSubProfile" -> DeleteSubProfile(c, holds)
    [] e = "CredChangeEventListener" -> CredChangeEventListener(c, holds)
    [] e = "GetCredentialInfoSync" -> GetCredentialInfoSync(c, holds)
    [] e = "GetLatestEnrollmentTime" -> GetLatestEnrollmentTime(c, holds)

-------------------------------------------------------------------------------
(* Requests: callers with some of the permissions that matter, and the     *)
(* conditions of a request that succeeds with up to MaxChanged changed.    *)

Deviations(m) ==
  LET flipped == UNION {kSubset(k, m.good \cup m.bad) : k \in 0..MaxChanged}
  IN {(m.good \ f) \cup (f \ m.good) : f \in flipped}

PermsOf(m) == (UNION m.needs) \cup {"systemApp"}

\* A chain of callers is entitled if each of its tokens is, and only the direct
\* caller's kind and some permissions are asked for.
OnlyDirect == DirectOnly \cup {"systemApp", "accountmgr", "ENFORCE_USER_IDM"}
Entitled(m, c) ==
  \E need \in m.needs : \A p \in need :
    p \in c.direct.perms /\ (p \notin OnlyDirect => \A t \in c.first : p \in t.perms)

\* What the state keeps of an outcome.
Summary(m, c, o) ==
  [ret |-> IF o.ret = "SUCCESS" THEN "SUCCESS" ELSE "error", now |-> Len(o.now), pending |-> Len(o.later),
   trespass |-> o.effect /\ ~Entitled(m, c)]

OutcomesOf == [m \in Methods |->
  {Summary(m, c, Outcome(m.entry, c, h)) : c \in CallersWith(PermsOf(m)), h \in Deviations(m)}]

\* The entries that are known to answer twice.
AnswersTwice == {"SetProperty", "AuthUser"}

Kinds == {"begin", "report", "void", "ret", "sync"}
Handlings == [client : Clients, kind : Kinds]

\* The outcomes of the methods of one client and kind, with whether the entry is one
\* of AnswersTwice.
Replies == [h \in Handlings |->
  UNION {{[o |-> o, twice |-> m.entry \in AnswersTwice] : o \in OutcomesOf[m]} :
         m \in {n \in Methods : n.client = h.client /\ n.kind = h.kind}}]

-------------------------------------------------------------------------------

NoCall == [st |-> "idle", client |-> "auth", kind |-> "sync", gen |-> 0, ret |-> "none", pending |-> 0,
           answers |-> 0, death |-> FALSE, twice |-> FALSE, trespass |-> FALSE]

ClientInit ==
  /\ service = [gen |-> 1, up |-> TRUE]
  /\ proxy = [c \in Clients |-> 0]
  /\ notices = {} /\ resets = {} /\ callbacks = {}
  /\ call = [i \in Calls |-> NoCall]

Alive(g) == service.up /\ service.gen = g

\* The cached proxy, or a new one with a death recipient on it, or none.
GetProxy(c) == IF proxy[c] # 0 THEN proxy[c] ELSE IF service.up THEN service.gen ELSE 0

\* No proxy: the callback, if there is one, is answered (GetProxyNullResultCode).
ProxyNull(i, h) ==
  /\ GetProxy(h.client) = 0
  /\ call' = [call EXCEPT ![i] = [NoCall EXCEPT !.st = "done", !.client = h.client, !.kind = h.kind,
                                   !.ret = "error", !.answers = IF h.kind = "sync" THEN 0 ELSE 1]]
  /\ UNCHANGED <<service, proxy, notices, resets, callbacks>>

\* The wrapper registers itself with the CallbackManager, and the request is sent.
AddCallback(i, h) == IF h.kind = "sync" THEN callbacks ELSE callbacks \cup {i}

SendCall(i, h) ==
  /\ GetProxy(h.client) # 0
  /\ proxy' = [proxy EXCEPT ![h.client] = GetProxy(h.client)]
  /\ callbacks' = AddCallback(i, h)
  /\ call' = [call EXCEPT ![i] = [NoCall EXCEPT !.st = "sent", !.client = h.client, !.kind = h.kind,
                                   !.gen = GetProxy(h.client)]]
  /\ UNCHANGED <<service, notices, resets>>

\* GetProperty, GetPropertyById and SetProperty check their keys once they have a proxy.
KeysRefused(i, h) ==
  /\ h = [client |-> "auth", kind |-> "report"]
  /\ GetProxy(h.client) # 0
  /\ proxy' = [proxy EXCEPT ![h.client] = GetProxy(h.client)]
  /\ call' = [call EXCEPT ![i] = [NoCall EXCEPT !.st = "done", !.kind = h.kind, !.ret = "error", !.answers = 1]]
  /\ UNCHANGED <<service, notices, resets, callbacks>>

MakeCall(i) ==
  /\ call[i].st = "idle"
  /\ \E h \in {g \in Handlings : Replies[g] # {}} : ProxyNull(i, h) \/ SendCall(i, h) \/ KeysRefused(i, h)

\* The service handles the request and answers what it answers at once.
Handle(i) ==
  /\ call[i].st = "sent" /\ Alive(call[i].gen)
  /\ \E r \in Replies[[client |-> call[i].client, kind |-> call[i].kind]] :
       call' = [call EXCEPT ![i].st = "handled", ![i].ret = r.o.ret, ![i].pending = r.o.pending,
                            ![i].answers = @ + r.o.now, ![i].twice = r.twice, ![i].trespass = r.o.trespass]
  /\ UNCHANGED <<service, proxy, notices, resets, callbacks>>

\* The service is dead before it handled the request, or before its reply was read.
TransportFails(i) ==
  /\ call[i].st \in {"sent", "handled"} /\ ~Alive(call[i].gen)
  /\ call[i].ret # "IPC_ERROR"
  /\ call' = [call EXCEPT ![i].st = "handled", ![i].ret = "IPC_ERROR"]
  /\ UNCHANGED <<service, proxy, notices, resets, callbacks>>

\* The method returns, having reported an error if it reports errors.  A wrapper the
\* service has no hold of is destroyed, and taken out of the CallbackManager.
ReturnCall(i) ==
  /\ call[i].st = "handled"
  /\ LET c == call[i]
         reports == c.kind = "report" /\ c.ret # "SUCCESS"
         held == c.kind # "sync" /\ c.ret # "IPC_ERROR"
     IN /\ call' = [call EXCEPT ![i].st = IF held THEN "held" ELSE "done",
                                ![i].answers = IF reports THEN @ + 1 ELSE @]
        /\ callbacks' = IF held THEN callbacks ELSE callbacks \ {i}
  /\ UNCHANGED <<service, proxy, notices, resets>>

\* A posted task or a context of the service answers.
Answer(i) ==
  /\ call[i].st \in {"handled", "held"} /\ call[i].pending > 0 /\ Alive(call[i].gen)
  /\ call' = [call EXCEPT ![i].pending = @ - 1, ![i].answers = @ + 1]
  /\ UNCHANGED <<service, proxy, notices, resets, callbacks>>

RemoveCallbackKeeps(i) ==
  /\ call[i].st = "held" /\ Alive(call[i].gen) /\ call[i].pending = 0
  /\ call' = [call EXCEPT ![i].st = "done"]
  /\ UNCHANGED <<service, proxy, notices, resets, callbacks>>

\* The wrapper's last reference goes: the service has answered, or is dead.  The kernel
\* queues the death notice before it drops a dead process's references.
RemoveCallback(i) ==
  /\ call[i].st = "held"
  /\ IF Alive(call[i].gen) THEN call[i].pending = 0 ELSE <<call[i].client, call[i].gen>> \notin notices
  /\ call' = [call EXCEPT ![i].st = "done"]
  /\ callbacks' = callbacks \ {i}
  /\ UNCHANGED <<service, proxy, notices, resets>>

-------------------------------------------------------------------------------

ServiceDies ==
  /\ service.up /\ service.gen <= MaxDeaths
  /\ service' = [service EXCEPT !.up = FALSE]
  /\ notices' = notices \cup {<<c, service.gen>> : c \in {d \in Clients : proxy[d] = service.gen}}
  /\ UNCHANGED <<proxy, resets, callbacks, call>>

ServiceStarts ==
  /\ ~service.up
  /\ service' = [gen |-> service.gen + 1, up |-> TRUE]
  /\ UNCHANGED <<proxy, notices, resets, callbacks, call>>

\* CallbackManager::OnServiceDeath answers whoever is registered, for whichever service.
OnServiceDeath ==
  /\ call' = [i \in Calls |-> IF i \in callbacks THEN [call[i] EXCEPT !.answers = @ + 1, !.death = TRUE]
                                                 ELSE call[i]]
  /\ callbacks' = {}

OnRemoteDied(c, g) ==
  /\ <<c, g>> \in notices
  /\ notices' = notices \ {<<c, g>>}
  /\ OnServiceDeath
  /\ resets' = resets \cup {<<c, g>>}
  /\ UNCHANGED <<service, proxy>>

ResetProxy(c, g) ==
  /\ <<c, g>> \in resets
  /\ resets' = resets \ {<<c, g>>}
  /\ proxy' = [proxy EXCEPT ![c] = IF @ = g THEN 0 ELSE @]
  /\ UNCHANGED <<service, notices, callbacks, call>>

Deaths == Clients \X (1..MaxDeaths)

ClientNext ==
  \/ \E i \in Calls : MakeCall(i) \/ Handle(i) \/ TransportFails(i) \/ ReturnCall(i) \/ Answer(i)
                      \/ RemoveCallback(i)
  \/ ServiceDies \/ ServiceStarts
  \/ \E d \in Deaths : OnRemoteDied(d[1], d[2]) \/ ResetProxy(d[1], d[2])

\* Fair: the service's handlers and contexts (a schedule ends by its timer at the
\* latest), the client's own threads, and the delivery of death notices.
ClientFairness ==
  /\ \A i \in Calls : WF_clientVars(Handle(i) \/ TransportFails(i)) /\ WF_clientVars(ReturnCall(i))
                      /\ WF_clientVars(Answer(i)) /\ WF_clientVars(RemoveCallback(i))
  /\ \A d \in Deaths : WF_clientVars(OnRemoteDied(d[1], d[2])) /\ WF_clientVars(ResetProxy(d[1], d[2]))

ClientSpec == ClientInit /\ [][ClientNext]_clientVars /\ ClientFairness

\* The service runs for the last time and every call is over.
ClientQuiet ==
  /\ service = [gen |-> MaxDeaths + 1, up |-> TRUE]
  /\ proxy = [c \in Clients |-> 0]
  /\ notices = {} /\ resets = {} /\ callbacks = {}
  /\ call = [i \in Calls |-> [NoCall EXCEPT !.st = "done"]]

-------------------------------------------------------------------------------

\* The callback was called, or the caller was told by the returned code.  A method
\* that only logs the error of a dead service is the exception the code has:
\* AddCredential, UpdateCredential, DeleteCredential, DeleteUser, DeleteSubProfile,
\* ClearRedundancyCredential and VerifyAuthToken leave the caller without a word.
Informed(c) ==
  \/ c.answers > 0
  \/ c.kind = "sync"
  \/ c.kind \in {"begin", "ret"} /\ c.ret # "SUCCESS"
  \/ c.kind = "void" /\ c.ret = "IPC_ERROR"

\* The service's answers, the client's own report of an error and the answer given for
\* a dead service do not add up: a callback is answered once, unless the death of a
\* service is reported while its wrapper is registered, or loses the reply of a request
\* that was answered, or the entry is one of the two that refuse a request both by an
\* answer and by the returned code, or answer twice.
AnsweredOnceUnlessDeath ==
  \A i \in Calls : call[i].answers > 1 =>
    call[i].death \/ call[i].ret = "IPC_ERROR" \/ call[i].twice

\* No request of a chain of callers that lacks the permission has an effect, whatever
\* path through the checks of the entry it takes.
NoTrespass == \A i \in Calls : ~call[i].trespass

\* Every call comes to its end, whoever dies: its caller is informed, and its wrapper
\* is not left registered, where it would be answered again for the death of a later
\* service.
EveryCallEnds ==
  \A i \in Calls : call[i].st # "idle" ~> call[i].st = "done" /\ i \notin callbacks /\ Informed(call[i])
===============================================================================
