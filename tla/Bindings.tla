------------------------------- MODULE Bindings -------------------------------
(***************************************************************************)
(* The JavaScript bindings.  An application calls on the JS thread; a call   *)
(* throws, returns, or is accepted, and then its answer comes from the       *)
(* native client on another thread, is converted to the codes of the API's   *)
(* version, and is posted to the JS thread, where it settles a promise or    *)
(* is handed to a callback.                                                  *)
(*                                                                         *)
(* The native client (see ClientCalls) answers an accepted call once.  The   *)
(* exception is the lock state, which the bindings wait for on a worker and  *)
(* give up after three seconds.                                              *)
(*                                                                         *)
(* A behaviour is of one page: calls that are answered later, calls that     *)
(* return, or the objects that events are sent to.                           *)
(***************************************************************************)
EXTENDS Integers, Sequences, FiniteSets, SequencesExt

CONSTANTS
  NativeResults,  \* results the native client may give
  JsFunctions,    \* functions of the application
  MaxCalls,       \* accepted calls
  MaxObjects      \* objects made by the application

ASSUME BindingsBounds == NativeResults \subseteq Int /\ MaxCalls \in Nat /\ MaxObjects \in Nat

VARIABLES
  page,    \* which part of the bindings the behaviour is of
  calls,   \* the accepted calls
  objs,    \* the authentication instances the application holds
  events,  \* what is posted to the JS thread
  out,     \* how the latest call ended on the JS thread
  mgr      \* widget manager, remote callback, recognition managers

bindVars == <<page, calls, objs, events, out, mgr>>

-------------------------------------------------------------------------------
(* Codes.                                                                   *)

ResultCode ==
  [SUCCESS |-> 0, FAIL |-> 1, GENERAL_ERROR |-> 2, CANCELED |-> 3, TIMEOUT |-> 4, TYPE_NOT_SUPPORT |-> 5,
   TRUST_LEVEL_NOT_SUPPORT |-> 6, BUSY |-> 7, INVALID_PARAMETERS |-> 8, LOCKED |-> 9, NOT_ENROLLED |-> 10,
   HARDWARE_NOT_SUPPORTED |-> 12, PIN_EXPIRED |-> 13, AUTH_TOKEN_CHECK_FAILED |-> 15, AUTH_TOKEN_EXPIRED |-> 16,
   REUSE_AUTH_RESULT_FAILED |-> 17, IPC_ERROR |-> 1001, INVALID_CONTEXT_ID |-> 1002, READ_PARCEL_ERROR |-> 1003,
   WRITE_PARCEL_ERROR |-> 1004, CHECK_PERMISSION_FAILED |-> 1005, CHECK_SYSTEM_APP_FAILED |-> 1007,
   DEVICE_CAPABILITY_NOT_SUPPORT |-> 1009]

AuthenticationResult ==
  [NO_SUPPORT |-> -1, SUCCESS |-> 0, COMPARE_FAILURE |-> 1, CANCELED |-> 2, TIMEOUT |-> 3, BUSY |-> 5,
   INVALID_PARAMETERS |-> 6, LOCKED |-> 7, NOT_ENROLLED |-> 8, GENERAL_ERROR |-> 100]

UserAuthResultCode ==
  [OHOS_CHECK_PERMISSION_FAILED |-> 201, OHOS_CHECK_SYSTEM_APP_FAILED |-> 202, OHOS_INVALID_PARAM |-> 401,
   SUCCESS |-> 12500000, GENERAL_ERROR |-> 12500002, TYPE_NOT_SUPPORT |-> 12500005,
   TRUST_LEVEL_NOT_SUPPORT |-> 12500006, PARAM_VERIFIED_FAILED |-> 12500008, NOT_ENROLLED |-> 12500010,
   RESULT_CODE_V9_MAX |-> 12500010, PIN_EXPIRED |-> 12500013, RESULT_CODE_V10_MAX |-> 12500013,
   AUTH_TOKEN_CHECK_FAILED |-> 12500015, AUTH_TOKEN_EXPIRED |-> 12500016, REUSE_AUTH_RESULT_FAILED |-> 12500017,
   RESULT_CODE_V16_MAX |-> 12500017]

R == ResultCode
U == UserAuthResultCode
INT32_MAX == 2147483647

\* The codes an application can name, by the enumeration they are exported in
ResultCodeConstructor == 0 .. 11
AuthenticationResultConstructor == (-1 .. 8) \cup {100}
UserAuthResultCodeExtConstructor == {12500013, 12500015, 12500016, 12500017}
UserAuthResultCodeConstructor == (12500000 .. 12500011) \cup UserAuthResultCodeExtConstructor

\* The keys of g_resultV92Str and g_resultV212Str
KnownV9 == {201, 202, 401, 801} \cup (12500000 .. 12500011) \cup {12500013, 12500015, 12500016, 12500017}
KnownV21 == {201, 12500002, 12500005, 12500008, 12500010}

\* A native result moved into the range of a version, if it has a place there.
Shifted(result, max) ==
  IF result > INT32_MAX - U.SUCCESS \/ result + U.SUCCESS \notin U.SUCCESS .. max
  THEN U.GENERAL_ERROR ELSE result + U.SUCCESS

\* g_result2ExecuteResult; a result that is not in it becomes
\* ResultCode::GENERAL_ERROR, which reads as CANCELED.
ExecuteResult(result) ==
  LET A == AuthenticationResult
  IN  CASE result = R.SUCCESS -> A.SUCCESS [] result = R.FAIL -> A.COMPARE_FAILURE
        [] result = R.CANCELED -> A.CANCELED [] result = R.TIMEOUT -> A.TIMEOUT
        [] result \in {R.TYPE_NOT_SUPPORT, R.TRUST_LEVEL_NOT_SUPPORT} -> A.NO_SUPPORT
        [] result = R.BUSY -> A.BUSY [] result = R.INVALID_PARAMETERS -> A.INVALID_PARAMETERS
        [] result = R.LOCKED -> A.LOCKED [] result = R.NOT_ENROLLED -> A.NOT_ENROLLED
        [] result \in {R.GENERAL_ERROR, R.PIN_EXPIRED} \cup R.IPC_ERROR .. R.CHECK_PERMISSION_FAILED -> A.GENERAL_ERROR
        [] OTHER -> R.GENERAL_ERROR

GetResultCodeV8(result) ==
  CASE result = R.CHECK_PERMISSION_FAILED -> U.OHOS_CHECK_PERMISSION_FAILED
    [] result \in R.SUCCESS .. R.NOT_ENROLLED -> result
    [] OTHER -> R.GENERAL_ERROR

GetResultCodeV9(result) ==
  CASE result = R.CHECK_PERMISSION_FAILED -> U.OHOS_CHECK_PERMISSION_FAILED
    [] result = R.INVALID_PARAMETERS -> U.OHOS_INVALID_PARAM
    [] result = R.PIN_EXPIRED -> U.GENERAL_ERROR
    [] OTHER -> Shifted(result, U.RESULT_CODE_V9_MAX)

GetResultCodeV10(result) ==
  CASE result = R.CHECK_PERMISSION_FAILED -> U.OHOS_CHECK_PERMISSION_FAILED
    [] result = R.INVALID_PARAMETERS -> U.OHOS_INVALID_PARAM
    [] result = R.CHECK_SYSTEM_APP_FAILED -> U.OHOS_CHECK_SYSTEM_APP_FAILED
    [] result = R.HARDWARE_NOT_SUPPORTED -> U.GENERAL_ERROR
    [] OTHER -> Shifted(result, U.RESULT_CODE_V10_MAX)

GetResultCodeV16(result) ==
  CASE result = R.CHECK_PERMISSION_FAILED -> U.OHOS_CHECK_PERMISSION_FAILED
    [] result = R.INVALID_PARAMETERS -> U.OHOS_INVALID_PARAM
    [] result = R.CHECK_SYSTEM_APP_FAILED -> U.OHOS_CHECK_SYSTEM_APP_FAILED
    [] OTHER -> Shifted(result, U.RESULT_CODE_V16_MAX)

GetResultCodeV20(result) ==
  CASE result = R.INVALID_PARAMETERS -> U.PARAM_VERIFIED_FAILED
    [] result = R.REUSE_AUTH_RESULT_FAILED -> U.REUSE_AUTH_RESULT_FAILED
    [] OTHER -> GetResultCodeV10(result)

GetResultCodeV21(result) ==
  CASE result = R.TYPE_NOT_SUPPORT -> U.TYPE_NOT_SUPPORT
    [] result = R.NOT_ENROLLED -> U.NOT_ENROLLED
    [] OTHER -> GetResultCodeV20(result)

GenerateBusinessErrorV9(code) == IF code \in KnownV9 THEN code ELSE U.GENERAL_ERROR

GenerateBusinessErrorV21(code) == IF code \in KnownV21 THEN code ELSE U.GENERAL_ERROR

-------------------------------------------------------------------------------
(* Arguments.  A number may be a value the API has, one it does not have, or *)
(* not be a number at all; a property may be good, bad or absent.            *)

Face == 2
Pin == 1
UnknownType == 3
NotANumber == -1
CustomAuth == 128
UserAuthTypeConstructor == {1, 2, 4, 16, 64}
AuthTrustLevelConstructor == {10000, 20000, 30000, 40000}
UnknownLevel == 10001
Property == {"good", "bad", "absent"}

FirstError(codes) ==
  LET bad == {k \in DOMAIN codes : codes[k] # U.SUCCESS}
  IN  IF bad = {} THEN U.SUCCESS ELSE codes[CHOOSE k \in bad : \A j \in bad : k <= j]

Require(ok) == IF ok THEN U.SUCCESS ELSE U.OHOS_INVALID_PARAM

\* The types of the enumeration, and one that is for the system's own callers
CheckUserAuthType(type) == type \in UserAuthTypeConstructor \cup {CustomAuth}

CheckAuthTrustLevel(level) == level \in AuthTrustLevelConstructor

CheckAuthType(type) == type \in {2, 4}

CheckAuthTypeAndAuthTrustLevel(type, level) ==
  CASE ~CheckAuthType(type) -> R.TYPE_NOT_SUPPORT
    [] ~CheckAuthTrustLevel(level) -> R.TRUST_LEVEL_NOT_SUPPORT
    [] OTHER -> R.SUCCESS

ParseExecuteAuthType(type) ==
  CASE type = "ALL" -> R.TYPE_NOT_SUPPORT [] type = "FACE_ONLY" -> R.SUCCESS [] OTHER -> R.INVALID_PARAMETERS

ParseExecuteSecureLevel(level) == IF level \in {"S1", "S2", "S3", "S4"} THEN R.SUCCESS ELSE R.INVALID_PARAMETERS

\* null is a challenge, and so is an array of up to 32 bytes.
InitChallenge(challenge) == Require(challenge = "good")

\* Every element is a number, a type the API has, and not there already.
InitAuthType(types) ==
  FirstError([k \in DOMAIN types |->
     CASE types[k] = NotANumber -> U.OHOS_INVALID_PARAM
       [] ~CheckUserAuthType(types[k]) -> U.TYPE_NOT_SUPPORT
       [] \E j \in 1 .. k - 1 : types[j] = types[k] -> U.OHOS_INVALID_PARAM
       [] OTHER -> U.SUCCESS])

InitAuthTrustLevel(level) ==
  CASE level = NotANumber -> U.OHOS_INVALID_PARAM
    [] ~CheckAuthTrustLevel(level) -> U.TRUST_LEVEL_NOT_SUPPORT
    [] OTHER -> U.SUCCESS

CheckReuseUnlockResult(reuse) == reuse = "good"

InitReuseUnlockResult(reuse) == Require(CheckReuseUnlockResult(reuse))

ProcessReuseUnlockResult(reuse) == IF reuse = "absent" THEN U.SUCCESS ELSE InitReuseUnlockResult(reuse)

InitUserId(user) == Require(user = "good")

ProcessAuthTrustLevelAndUserId(level, user) ==
  FirstError(<<InitAuthTrustLevel(level), IF user = "absent" THEN U.SUCCESS ELSE InitUserId(user)>>)

ProcessSkipLockedBiometricAuth(skip) == Require(skip # "bad")

ProcessCredentialIdList(list) == Require(list # "bad")

InitAuthParam(p) ==
  FirstError(<<InitChallenge(p.challenge), InitAuthType(p.types), ProcessReuseUnlockResult(p.reuse),
               ProcessAuthTrustLevelAndUserId(p.level, p.user), ProcessSkipLockedBiometricAuth(p.skip),
               ProcessCredentialIdList(p.creds)>>)

ProcessWindowMode(mode) == Require(mode # "bad")

\* A context that is no UI context is left out, and is no error.
ProcessContext(context) == Require(context # "bad")

ProcessWindow(window) == Require(window # "bad")

InitWidgetParam(w) ==
  FirstError(<<Require(w.title = "good"), Require(w.button # "bad"), ProcessWindowMode(w.mode),
               IF w.context # "absent" THEN ProcessContext(w.context) ELSE ProcessWindow(w.window)>>)

\* Parameters that differ from good ones in one place
GoodParam == [challenge |-> "good", types |-> <<Pin, Face>>, reuse |-> "absent", level |-> 10000,
              user |-> "absent", skip |-> "absent", creds |-> "absent"]
AuthParams ==
  UNION {{GoodParam}, {[GoodParam EXCEPT !.challenge = x] : x \in Property},
         {[GoodParam EXCEPT !.types = x] : x \in {<<>>, <<NotANumber>>, <<Pin, UnknownType>>, <<Face, Face>>}},
         {[GoodParam EXCEPT !.level = x] : x \in {NotANumber, UnknownLevel}},
         {[GoodParam EXCEPT !.reuse = x, !.user = y] : x, y \in Property},
         {[GoodParam EXCEPT !.skip = x, !.creds = y] : x, y \in Property}}

GoodWidget == [title |-> "good", button |-> "absent", mode |-> "absent", context |-> "absent", window |-> "absent"]
WidgetParams ==
  UNION {{[GoodWidget EXCEPT !.title = x] : x \in Property}, {[GoodWidget EXCEPT !.button = x] : x \in Property},
         {[GoodWidget EXCEPT !.mode = x] : x \in Property},
         {[GoodWidget EXCEPT !.context = x, !.window = y] : x, y \in Property}}

\* A number argument: good, not one the API has, or no number
TypeArgs == {Face, Pin, UnknownType, NotANumber}
LevelArgs == {10000, UnknownLevel, NotANumber}

-------------------------------------------------------------------------------
(* How a call ends on the JS thread.                                        *)

Nothing == [how |-> "none", code |-> 0, nat |-> <<>>]

OnPage(p) == page = p /\ UNCHANGED page

\* The pages whose calls are answered later
Answered == page \in {"calls", "instances"} /\ UNCHANGED page

\* The exception of NAPI_CALL, which has no code of the API
NapiError == -1

Threw(code) == out' = [how |-> "threw", code |-> code, nat |-> <<>>]

Returned(code, nat) == out' = [how |-> "ret", code |-> code, nat |-> nat]

\* The exception of an instance's or a manager's function: any code but SUCCESS
Ends(code) == IF code = U.SUCCESS THEN out' = Nothing ELSE Threw(GenerateBusinessErrorV9(code))

-------------------------------------------------------------------------------
(* Answers.  An event on the JS thread is for a call; which callback is told *)
(* is decided there.                                                        *)

Call(api) == [api |-> api, obj |-> 0, valid |-> TRUE, nat |-> <<>>, future |-> <<>>, told |-> <<>>,
              tip |-> "no", late |-> FALSE, dropped |-> FALSE]

ResultEvent(k, code) == [kind |-> "result", to |-> k, code |-> code]

OnResultV6(k, result) == ResultEvent(k, ExecuteResult(result))

OnResultV8(k, result) == ResultEvent(k, GetResultCodeV8(result))

OnResultV9(k, result) == ResultEvent(k, GetResultCodeV9(result))

OnResultV10(k, result) == ResultEvent(k, GetResultCodeV10(result))

OnResultV16(k, result) == ResultEvent(k, GetResultCodeV16(result))

OnResult(api, k, result) ==
  CASE api = "v6" -> OnResultV6(k, result) [] api = "v8" -> OnResultV8(k, result)
    [] api = "v9" -> OnResultV9(k, result) [] api = "v10" -> OnResultV10(k, result)
    [] api = "v16" -> OnResultV16(k, result)

\* The call is accepted.  If the check of its values failed, its answer is
\* posted at once and the native client hears nothing.
Accept(c, check) ==
  /\ Len(calls) < MaxCalls
  /\ out' = Nothing
  /\ calls' = Append(calls, [c EXCEPT !.nat = check])
  /\ events' = IF check = <<>> THEN events ELSE Append(events, OnResult(c.api, Len(calls) + 1, check[1]))

Refused(result) == IF result = R.SUCCESS THEN <<>> ELSE <<result>>

\* UserAuthCallbackV6: a promise or a callback, whichever the caller gave
DoPromise(c, code) == [c EXCEPT !.told = Append(@, code)]

\* UserAuthCallbackV8: the functions of the caller's object; what is no
\* function cannot be called.
DoResultCallbackV8(c, code) == IF c.valid THEN [c EXCEPT !.told = Append(@, code)] ELSE [c EXCEPT !.dropped = TRUE]

\* UserAuthCallbackV9 and V10: the callback that is set when the event runs
DoResultCallbackV9(c, code) ==
  IF objs[c.obj].res THEN [c EXCEPT !.told = Append(@, code)] ELSE [c EXCEPT !.dropped = TRUE]

DoResultCallbackV10(c, code) ==
  IF objs[c.obj].res THEN [c EXCEPT !.told = Append(@, code)] ELSE [c EXCEPT !.dropped = TRUE]

\* UserAccessCtrlCallbackV16
DoResultPromise(c, code) ==
  [c EXCEPT !.told = Append(@, IF code = U.SUCCESS THEN code ELSE GenerateBusinessErrorV9(code))]

\* GetAuthLockStateComplete
GetAuthLockStateComplete(c, code) ==
  [c EXCEPT !.told = Append(@, IF code = R.SUCCESS THEN U.SUCCESS ELSE GenerateBusinessErrorV21(GetResultCodeV21(code)))]

Tell(c, code) ==
  CASE c.api = "v6" -> DoPromise(c, code) [] c.api = "v8" -> DoResultCallbackV8(c, code)
    [] c.api = "v9" -> DoResultCallbackV9(c, code) [] c.api = "v10" -> DoResultCallbackV10(c, code)
    [] c.api = "v16" -> DoResultPromise(c, code) [] c.api = "v21" -> GetAuthLockStateComplete(c, code)

RunResult ==
  /\ Answered /\ events # <<>> /\ Head(events).kind = "result"
  /\ calls' = [calls EXCEPT ![Head(events).to] = Tell(@, Head(events).code)]
  /\ events' = Tail(events) /\ out' = Nothing /\ UNCHANGED <<objs, mgr>>

\* DoAcquireCallback of V8 and V9, DoTipInfoCallBack of V10
HearsTips(c) ==
  CASE c.api = "v8" -> c.valid [] c.api \in {"v9", "v10"} -> objs[c.obj].tip [] OTHER -> FALSE

RunTip ==
  /\ Answered /\ events # <<>> /\ Head(events).kind = "tip"
  /\ LET k == Head(events).to
         c == calls[k]
     IN  calls' = [calls EXCEPT ![k] = IF HearsTips(c) THEN [c EXCEPT !.tip = "heard", !.late = c.told # <<>>] ELSE c]
  /\ events' = Tail(events) /\ out' = Nothing /\ UNCHANGED <<objs, mgr>>

\* OnAcquireInfo of V8, V9 and V10: one is enough to see its order.
OnAcquireInfo(k) ==
  /\ Answered /\ calls[k].nat = <<>> /\ calls[k].tip = "no" /\ calls[k].api \in {"v8", "v9", "v10"}
  /\ calls' = [calls EXCEPT ![k].tip = "posted"]
  /\ events' = Append(events, [kind |-> "tip", to |-> k, code |-> 0])
  /\ out' = Nothing /\ UNCHANGED <<objs, mgr>>

\* The native client's answer
NativeAnswer(k, result) ==
  /\ Answered /\ calls[k].nat = <<>> /\ calls[k].api # "v21"
  /\ calls' = [calls EXCEPT ![k].nat = <<result>>]
  /\ events' = Append(events, OnResult(calls[k].api, k, result))
  /\ out' = Nothing /\ UNCHANGED <<objs, mgr>>

-------------------------------------------------------------------------------
(* The functions of API 6 and 8.                                            *)

\* What ParseExecuteAuthType and ParseExecuteSecureLevel make of the two
\* strings: the level is not looked at if the type is refused.
ExecuteCheck(type, level) ==
  IF ParseExecuteAuthType(type) # R.SUCCESS THEN ParseExecuteAuthType(type) ELSE ParseExecuteSecureLevel(level)

Unreadable(type, level) == type = "number" \/ (level = "number" /\ ParseExecuteAuthType(type) = R.SUCCESS)

\* Mutant: the call goes on after the check of its values has answered it.
ExecuteGoesOn(argc, type, level) ==
  /\ OnPage("calls") /\ UNCHANGED <<objs, mgr>> /\ argc = "good" /\ ~Unreadable(type, level)
  /\ Len(calls) < MaxCalls /\ out' = Nothing
  /\ calls' = Append(calls, Call("v6"))
  /\ LET check == ExecuteCheck(type, level)
     IN  events' = IF check = R.SUCCESS THEN events ELSE Append(events, OnResultV6(Len(calls) + 1, check))

\* Execute: with a wrong number of arguments, or a callback that is no
\* function, it returns, throws nothing and answers nothing.
Execute(argc, type, level) ==
  /\ OnPage("calls") /\ UNCHANGED <<objs, mgr>>
  /\ \/ argc # "good" /\ out' = Nothing /\ UNCHANGED <<calls, events>>
     \/ argc = "good" /\ Unreadable(type, level) /\ Threw(NapiError) /\ UNCHANGED <<calls, events>>
     \/ argc = "good" /\ ~Unreadable(type, level) /\ Accept(Call("v6"), Refused(ExecuteCheck(type, level)))

\* Auth: a challenge that cannot be read is an empty one.
Auth(argc, type, level, valid) ==
  /\ OnPage("calls") /\ UNCHANGED <<objs, mgr>>
  /\ \/ argc # "good" /\ out' = Nothing /\ UNCHANGED <<calls, events>>
     \/ argc = "good" /\ NotANumber \in {type, level} /\ Threw(NapiError) /\ UNCHANGED <<calls, events>>
     \/ /\ argc = "good" /\ NotANumber \notin {type, level}
        /\ Accept([Call("v8") EXCEPT !.valid = valid], Refused(CheckAuthTypeAndAuthTrustLevel(type, level)))

\* CancelAuthentication of the native client: the context may have ended
\* before its answer arrives.
CancelAuthentication(k) ==
  IF calls[k].nat = <<>> THEN {R.SUCCESS, R.INVALID_CONTEXT_ID} ELSE {R.INVALID_CONTEXT_ID}

CancelAuth(k) ==
  /\ OnPage("calls") /\ calls[k].api = "v8" /\ UNCHANGED <<calls, objs, events, mgr>>
  /\ \E r \in CancelAuthentication(k) : Returned(GetResultCodeV8(r), <<r>>)

-------------------------------------------------------------------------------
(* The instances of API 9 and 10.  The native client keeps the callback      *)
(* object of an instance that the application has let go.                    *)

NoObject == [api |-> "none", res |-> FALSE, tip |-> FALSE, started |-> FALSE, call |-> 0]

FreeObject == IF \E o \in DOMAIN objs : objs[o].api = "none"
              THEN {CHOOSE o \in DOMAIN objs : objs[o].api = "none"} ELSE {}

Instance(code, api) ==
  /\ OnPage("instances") /\ UNCHANGED <<calls, events, mgr>>
  /\ \E o \in FreeObject : objs' = IF code = U.SUCCESS THEN [objs EXCEPT ![o].api = api] ELSE objs
  /\ Ends(code)

GetAuthInstanceV9(argc, type, level) ==
  Instance(FirstError(<<Require(argc = "good"),
                        CASE type = NotANumber -> U.OHOS_INVALID_PARAM
                          [] ~CheckAuthType(type) -> U.TYPE_NOT_SUPPORT
                          [] OTHER -> InitAuthTrustLevel(level)>>), "v9")

GetUserAuthInstanceV10(argc, p, w) ==
  Instance(FirstError(<<Require(argc = "good"), InitAuthParam(p), InitWidgetParam(w)>>), "v10")

InstanceCall(o, api, code, to) ==
  /\ OnPage("instances") /\ objs[o].api = api /\ UNCHANGED <<calls, events, mgr>> /\ Ends(code)
  /\ objs' = IF code = U.SUCCESS THEN [objs EXCEPT ![o] = to] ELSE objs

\* on("result") and on("tip"): a new callback takes the place of the old.
OnV9(o, argc, type) ==
  LET code == Require(argc = "good" /\ type \in {"result", "tip"})
  IN  InstanceCall(o, "v9", code, IF type = "result" THEN [objs[o] EXCEPT !.res = TRUE] ELSE [objs[o] EXCEPT !.tip = TRUE])

OffV9(o, argc, type) ==
  LET code == Require(argc = "good" /\ type \in {"result", "tip"})
  IN  InstanceCall(o, "v9", code, IF type = "result" THEN [objs[o] EXCEPT !.res = FALSE] ELSE [objs[o] EXCEPT !.tip = FALSE])

SetResultCallback(o) == IF objs[o].res THEN U.GENERAL_ERROR ELSE U.SUCCESS

ClearResultCallback(o) == IF objs[o].res THEN U.SUCCESS ELSE U.GENERAL_ERROR

SetTipCallback(o) == IF objs[o].tip THEN U.GENERAL_ERROR ELSE U.SUCCESS

ClearTipCallback(o) == IF objs[o].tip THEN U.SUCCESS ELSE U.GENERAL_ERROR

OnV10(o, argc, type) ==
  LET code == CASE argc # "good" \/ type \notin {"result", "tip"} -> U.OHOS_INVALID_PARAM
                [] type = "result" -> SetResultCallback(o)
                [] OTHER -> SetTipCallback(o)
  IN  InstanceCall(o, "v10", code, IF type = "result" THEN [objs[o] EXCEPT !.res = TRUE] ELSE [objs[o] EXCEPT !.tip = TRUE])

OffV10(o, argc, type) ==
  LET code == CASE argc # "good" \/ type \notin {"result", "tip"} -> U.OHOS_INVALID_PARAM
                [] type = "result" -> ClearResultCallback(o)
                [] OTHER -> ClearTipCallback(o)
  IN  InstanceCall(o, "v10", code, IF type = "result" THEN [objs[o] EXCEPT !.res = FALSE] ELSE [objs[o] EXCEPT !.tip = FALSE])

Started(o, api, argc) ==
  /\ OnPage("instances") /\ objs[o].api = api /\ UNCHANGED mgr
  /\ \/ argc # "good" /\ Threw(U.OHOS_INVALID_PARAM) /\ UNCHANGED <<calls, objs, events>>
     \/ argc = "good" /\ objs[o].started /\ Threw(U.GENERAL_ERROR) /\ UNCHANGED <<calls, objs, events>>
     \/ /\ argc = "good" /\ ~objs[o].started
        /\ Accept([Call(api) EXCEPT !.obj = o], <<>>)
        /\ objs' = [objs EXCEPT ![o].started = TRUE, ![o].call = Len(calls) + 1]

\* An instance is started once, whether or not it is cancelled.
StartV9(o, argc) == Started(o, "v9", argc)

\* BeginWidgetAuth, with the window or the context of the parameters
StartV10(o, argc) == Started(o, "v10", argc)

CancelV9(o, argc) ==
  /\ OnPage("instances") /\ objs[o].api = "v9" /\ UNCHANGED <<calls, objs, events, mgr>>
  /\ IF argc # "good" THEN Ends(U.OHOS_INVALID_PARAM)
     ELSE IF ~objs[o].started THEN Ends(U.GENERAL_ERROR)
     ELSE \E r \in CancelAuthentication(objs[o].call) : Ends(GetResultCodeV9(r))

\* A cancelled instance may be started again, while the answer to its first
\* call is still to come.
CancelV10(o, argc) ==
  /\ OnPage("instances") /\ objs[o].api = "v10" /\ UNCHANGED <<calls, events, mgr>>
  /\ IF argc # "good" THEN Ends(U.OHOS_INVALID_PARAM) /\ UNCHANGED objs
     ELSE IF ~objs[o].started THEN Ends(U.GENERAL_ERROR) /\ UNCHANGED objs
     ELSE \E r \in CancelAuthentication(objs[o].call) :
            Ends(GetResultCodeV10(r)) /\ objs' = [objs EXCEPT ![o].started = r # R.SUCCESS]

-------------------------------------------------------------------------------
(* The token check and the lock state.                                      *)

CheckAllowableDuration(duration) == duration \in 1 .. 86400000

\* VerifyAuthToken: a promise that was made before an exception is lost.
VerifyAuthToken(argc, token, duration) ==
  /\ OnPage("calls") /\ UNCHANGED <<objs, mgr>>
  /\ IF argc = "good" /\ token = "good" /\ CheckAllowableDuration(duration)
     THEN Accept(Call("v16"), <<>>)
     ELSE Threw(U.OHOS_INVALID_PARAM) /\ UNCHANGED <<calls, events>>

ParseGetAuthLockStateParams(argc, type) ==
  CASE argc # "good" \/ type = NotANumber -> R.INVALID_PARAMETERS
    [] ~CheckUserAuthType(type) -> R.TYPE_NOT_SUPPORT
    [] OTHER -> R.SUCCESS

GetAuthLockState(argc, type) ==
  /\ OnPage("calls") /\ UNCHANGED <<objs, mgr>>
  /\ LET check == ParseGetAuthLockStateParams(argc, type)
     IN  IF check = R.SUCCESS THEN Accept(Call("v21"), <<>>)
         ELSE Threw(GenerateBusinessErrorV21(GetResultCodeV21(check))) /\ UNCHANGED <<calls, events>>

\* SetResult: only the first sets the future.
SetResult(c, result) == [c EXCEPT !.future = IF @ = <<>> THEN <<result>> ELSE @]

\* GetAuthLockStateCallbackV21::OnResult, for as long as the object lives
OnLockStateResult(k, result, attributes) ==
  /\ OnPage("calls") /\ calls[k].api = "v21" /\ calls[k].future = <<>> /\ UNCHANGED <<objs, events, mgr>>
  /\ calls' = [calls EXCEPT ![k] = SetResult(@, IF result = R.SUCCESS /\ ~attributes THEN R.GENERAL_ERROR ELSE result)]
  /\ out' = Nothing

\* GetAuthLockStateExecute: the worker's wait ends, the completion is posted.
WaitEnds(k, result) ==
  /\ OnPage("calls") /\ calls[k].api = "v21" /\ calls[k].nat = <<>> /\ UNCHANGED <<objs, mgr>>
  /\ calls' = [calls EXCEPT ![k].nat = <<result>>]
  /\ events' = Append(events, ResultEvent(k, result)) /\ out' = Nothing

\* Mutant: the worker waits for the answer, however long it takes.
WaitResultForever(k) == calls[k].future # <<>> /\ WaitEnds(k, calls[k].future[1])

\* WaitResult: three seconds
WaitResult(k) ==
  \/ calls[k].future # <<>> /\ WaitEnds(k, calls[k].future[1])
  \/ calls[k].future = <<>> /\ WaitEnds(k, R.TIMEOUT)

-------------------------------------------------------------------------------
(* Functions that return.                                                   *)

Sync == OnPage("sync") /\ UNCHANGED <<calls, objs, events, mgr>>

GetVersion(r) == Sync /\ out' = [how |-> "value", code |-> IF r = R.SUCCESS THEN 1 ELSE 0, nat |-> <<r>>]

GetAvailableStatus(argc, type, level, r) ==
  LET check == CheckAuthTypeAndAuthTrustLevel(type, level)
  IN  /\ Sync
      /\ IF argc # "good" THEN Returned(R.INVALID_PARAMETERS, <<>>)
         ELSE IF NotANumber \in {type, level} THEN Threw(NapiError)
         ELSE IF check # R.SUCCESS THEN Returned(check, <<>>)
         ELSE Returned(GetResultCodeV8(r), <<r>>)

\* Of the functions below, what throws nothing returned SUCCESS.
ReturnsOrThrows(code, r) == IF code = U.SUCCESS THEN Returned(code, <<r>>) ELSE Threw(GenerateBusinessErrorV9(code))

GetAvailableStatusV9(argc, type, level, r) ==
  Sync /\ ReturnsOrThrows(
    CASE argc # "good" -> U.OHOS_INVALID_PARAM
      [] type = NotANumber -> U.GENERAL_ERROR [] ~CheckUserAuthType(type) -> U.TYPE_NOT_SUPPORT
      [] level = NotANumber -> U.GENERAL_ERROR [] ~CheckAuthTrustLevel(level) -> U.TRUST_LEVEL_NOT_SUPPORT
      [] r = R.PIN_EXPIRED -> U.PIN_EXPIRED
      [] OTHER -> GetResultCodeV9(r), r)

GetEnrolledState(argc, type, r) ==
  Sync /\ ReturnsOrThrows(
    CASE argc # "good" -> U.OHOS_INVALID_PARAM
      [] type = NotANumber -> U.GENERAL_ERROR [] ~CheckUserAuthType(type) -> U.TYPE_NOT_SUPPORT
      [] OTHER -> GetResultCodeV10(r), r)

ParseReusableAuthResultParam(argc, p) == FirstError(<<Require(argc = "good"), InitAuthParam(p)>>)

QueryReusableAuthResult(argc, p, r) ==
  Sync /\ ReturnsOrThrows(FirstError(<<ParseReusableAuthResultParam(argc, p), GetResultCodeV20(r)>>), r)

\* VerifyNoticeParam: the event data is JSON with the event and the payload
VerifyNoticeParam(data) == data = "good"

SendNotice(argc, type, data, r) ==
  Sync /\ ReturnsOrThrows(FirstError(<<Require(argc = "good" /\ type = "good" /\ VerifyNoticeParam(data)),
                                       GetResultCodeV10(r)>>), r)

\* GetUserRecognitionResult settles its promise before it returns.
GetUserRecognitionResult(r) == Sync /\ ReturnsOrThrows(GetResultCodeV10(r), r)

-------------------------------------------------------------------------------
(* The objects that events are sent to.                                     *)

NoManagers == [native |-> 0, cmd |-> [o \in 1 .. MaxObjects |-> "none"], heard |-> <<>>,
               remote |-> "none", param |-> "no", result |-> "no",
               lists |-> [o \in 1 .. MaxObjects |-> {}], alive |-> {}, registered |-> {}]

Manage(p) == OnPage(p) /\ UNCHANGED <<calls, objs>>

Posted(e) == Len(events) < MaxCalls /\ events' = Append(events, e)

ManagerCall(p, code, to) == Manage(p) /\ Ends(code) /\ UNCHANGED events /\ mgr' = IF code = U.SUCCESS THEN to ELSE mgr

\* GetUserAuthWidgetMgrV10: the native client keeps the last one's callback.
GetUserAuthWidgetMgrV10(o, argc, version, r) ==
  /\ mgr.cmd[o] = "none"
  /\ ManagerCall("command", FirstError(<<Require(argc = "good" /\ version # NotANumber),
                              IF version = 1 THEN U.SUCCESS ELSE U.TYPE_NOT_SUPPORT, GetResultCodeV10(r)>>),
                 [mgr EXCEPT !.cmd[o] = "off", !.native = o])

OnCommand(o, argc, type) ==
  /\ mgr.cmd[o] # "none"
  /\ ManagerCall("command", CASE argc # "good" \/ type # "command" -> U.OHOS_INVALID_PARAM
                   [] mgr.cmd[o] = "on" -> U.GENERAL_ERROR [] OTHER -> U.SUCCESS, [mgr EXCEPT !.cmd[o] = "on"])

OffCommand(o, argc, type) ==
  /\ mgr.cmd[o] # "none"
  /\ ManagerCall("command", CASE argc # "good" \/ type # "command" -> U.OHOS_INVALID_PARAM
                   [] mgr.cmd[o] = "off" -> U.GENERAL_ERROR [] OTHER -> U.SUCCESS, [mgr EXCEPT !.cmd[o] = "off"])

SendCommand ==
  /\ Manage("command") /\ mgr.native # 0 /\ Posted([kind |-> "command", to |-> mgr.native, code |-> 0])
  /\ out' = Nothing /\ UNCHANGED mgr

RunEvent(p, kind) == Manage(p) /\ events # <<>> /\ Head(events).kind = kind /\ events' = Tail(events) /\ out' = Nothing

\* DoCommandCallback: the callback that is set now
RunCommand ==
  /\ RunEvent("command", "command")
  /\ mgr' = [mgr EXCEPT !.heard = IF mgr.cmd[Head(events).to] = "on" THEN <<"command", Head(events).to>> ELSE @]

RegisterRemoteAuthCallback(argc, callback, r) ==
  ManagerCall("remote", CASE argc # "good" \/ callback = "bad" -> U.OHOS_INVALID_PARAM
                [] callback = "absent" -> U.GENERAL_ERROR [] OTHER -> GetResultCodeV21(r),
              [mgr EXCEPT !.remote = "registered"])

UnregisterRemoteAuthCallback(r) == ManagerCall("remote", GetResultCodeV21(r), [mgr EXCEPT !.remote = "none"])

OnGetRemoteAuthWidgetParam ==
  /\ Manage("remote") /\ mgr.remote = "registered" /\ mgr.param = "no" /\ Posted([kind |-> "param", to |-> 0, code |-> 0])
  /\ mgr' = [mgr EXCEPT !.param = "asked"] /\ out' = Nothing

\* ConvertRemoteAuthWidgetParam: nobody hears of a parameter that is not good.
RunGetRemoteAuthWidgetParam(w) ==
  RunEvent("remote", "param") /\ mgr' = [mgr EXCEPT !.param = IF InitWidgetParam(w) = U.SUCCESS THEN "set" ELSE "lost"]

\* OnRemoteAuthResult: the result is the native one.
OnRemoteAuthResult(r) ==
  /\ Manage("remote") /\ mgr.remote = "registered" /\ mgr.result = "no" /\ Posted([kind |-> "remote", to |-> 0, code |-> r])
  /\ mgr' = [mgr EXCEPT !.result = "posted"] /\ out' = Nothing

DoRemoteAuthResult == RunEvent("remote", "remote") /\ mgr' = [mgr EXCEPT !.result = "told"]

\* getUserRecognitionMgr: a device without the capability has none.
GetUserRecognitionMgr(o, r) ==
  /\ o \notin mgr.alive /\ mgr.lists[o] = {}
  /\ \/ r # R.DEVICE_CAPABILITY_NOT_SUPPORT /\ ManagerCall("recognition", GetResultCodeV10(r), [mgr EXCEPT !.alive = @ \cup {o}])
     \/ r = R.DEVICE_CAPABILITY_NOT_SUPPORT /\ ManagerCall("recognition", U.SUCCESS, mgr)

\* RegisterCallback: a function is registered once; what the service refused
\* is not kept.
RegisterCallback(o, f, r) ==
  /\ o \in mgr.alive
  /\ IF f \in mgr.lists[o] THEN ManagerCall("recognition", U.SUCCESS, mgr)
     ELSE ManagerCall("recognition", GetResultCodeV10(r),
                      [mgr EXCEPT !.lists[o] = @ \cup {f}, !.registered = @ \cup {<<o, f>>}])

OnRecognition(o, f, arg, r) ==
  IF arg = "good" THEN RegisterCallback(o, f, r) ELSE o \in mgr.alive /\ ManagerCall("recognition", U.OHOS_INVALID_PARAM, mgr)

Off(o, fs) == [mgr EXCEPT !.lists[o] = @ \ fs, !.registered = @ \ {<<o, f>> : f \in fs}]

\* off(): of one function, or of all
OffRecognition(o, fs, arg) ==
  o \in mgr.alive /\ ManagerCall("recognition", Require(arg # "bad"), Off(o, IF arg = "absent" THEN mgr.lists[o] ELSE fs))

\* ~UserRecognitionManagerNapi, when the application has let go of the object
CollectRecognitionMgr(o) ==
  /\ Manage("recognition") /\ o \in mgr.alive /\ mgr' = [Off(o, mgr.lists[o]) EXCEPT !.alive = @ \ {o}]
  /\ out' = Nothing /\ UNCHANGED events

OnUserRecognitionChange(o, f) ==
  /\ Manage("recognition") /\ <<o, f>> \in mgr.registered /\ Posted([kind |-> "recognition", to |-> o, code |-> 0])
  /\ out' = Nothing /\ UNCHANGED mgr

\* The function is called even if it was taken off in between.
RunRecognition == RunEvent("recognition", "recognition") /\ mgr' = [mgr EXCEPT !.heard = <<"recognition", Head(events).to>>]

-------------------------------------------------------------------------------
BindingsIdle ==
  /\ calls = <<>> /\ events = <<>> /\ out = Nothing
  /\ objs = [o \in 1 .. MaxObjects |-> NoObject]
  /\ mgr = NoManagers

BindingsInit == page \in {"calls", "instances", "sync", "command", "remote", "recognition"} /\ BindingsIdle

Argc == {"good", "bad"}

JsThread == RunResult \/ RunTip

CallsNext ==
  \/ JsThread
  \/ \E k \in DOMAIN calls :
       \/ OnAcquireInfo(k) \/ CancelAuth(k) \/ WaitResult(k)
       \/ \E r \in NativeResults :
            NativeAnswer(k, r) \/ \E attributes \in BOOLEAN : OnLockStateResult(k, r, attributes)
  \/ \E argc \in Argc :
       \/ \E type \in {"FACE_ONLY", "ALL", "number"}, level \in {"S1", "other", "number"} : Execute(argc, type, level)
       \/ \E type \in TypeArgs, level \in LevelArgs :
            GetAuthInstanceV9(argc, type, level) \/ \E valid \in BOOLEAN : Auth(argc, type, level, valid)
       \/ \E p \in AuthParams : GetUserAuthInstanceV10(argc, p, GoodWidget)
       \/ \E w \in WidgetParams : GetUserAuthInstanceV10(argc, GoodParam, w)
       \/ \E token \in {"good", "bad"}, duration \in {0, 1, 86400000, 86400001} : VerifyAuthToken(argc, token, duration)
       \/ \E type \in TypeArgs : GetAuthLockState(argc, type)
       \/ \E o \in DOMAIN objs :
            \/ StartV9(o, argc) \/ StartV10(o, argc) \/ CancelV9(o, argc) \/ CancelV10(o, argc)
            \/ \E type \in {"result", "tip", "other"} :
                 OnV9(o, argc, type) \/ OffV9(o, argc, type) \/ OnV10(o, argc, type) \/ OffV10(o, argc, type)

SyncNext ==
  \E r \in NativeResults :
    \/ GetVersion(r) \/ GetUserRecognitionResult(r)
    \/ \E argc \in Argc :
         \/ \E type \in TypeArgs :
              \/ GetEnrolledState(argc, type, r)
              \/ \E level \in LevelArgs : GetAvailableStatus(argc, type, level, r) \/ GetAvailableStatusV9(argc, type, level, r)
         \/ \E p \in AuthParams : QueryReusableAuthResult(argc, p, r)
         \/ \E type, data \in {"good", "bad"} : SendNotice(argc, type, data, r)

ManagersNext ==
  \/ SendCommand \/ RunCommand \/ OnGetRemoteAuthWidgetParam \/ DoRemoteAuthResult \/ RunRecognition
  \/ \E w \in WidgetParams : RunGetRemoteAuthWidgetParam(w)
  \/ \E r \in NativeResults : UnregisterRemoteAuthCallback(r) \/ OnRemoteAuthResult(r)
  \/ \E argc \in Argc, p \in Property, r \in NativeResults : RegisterRemoteAuthCallback(argc, p, r)
  \/ \E o \in 1 .. MaxObjects :
       \/ CollectRecognitionMgr(o)
       \/ \E r \in NativeResults \cup {R.DEVICE_CAPABILITY_NOT_SUPPORT} : GetUserRecognitionMgr(o, r)
       \/ \E argc \in Argc, version \in {1, 2, NotANumber}, r \in NativeResults :
            GetUserAuthWidgetMgrV10(o, argc, version, r)
       \/ \E argc \in Argc, type \in {"command", "other"} : OnCommand(o, argc, type) \/ OffCommand(o, argc, type)
       \/ \E f \in JsFunctions :
            \/ OnUserRecognitionChange(o, f)
            \/ \E arg \in Property : OffRecognition(o, {f}, arg)
            \/ \E arg \in {"good", "bad"}, r \in NativeResults : OnRecognition(o, f, arg, r)

BindingsNext == CallsNext \/ SyncNext \/ ManagersNext

\* The JS thread runs what is posted, the native client answers every call
\* but the question for the lock state, and a wait of three seconds ends.
BindingsFairness ==
  /\ WF_bindVars(JsThread)
  /\ \A k \in 1 .. MaxCalls :
       /\ WF_bindVars(k \in DOMAIN calls /\ \E r \in NativeResults : NativeAnswer(k, r))
       /\ WF_bindVars(k \in DOMAIN calls /\ WaitResult(k))

BindingsSpec == BindingsInit /\ [][BindingsNext]_bindVars /\ BindingsFairness

-------------------------------------------------------------------------------
(* Properties.                                                              *)

\* The codes of the enumeration of a version, and the codes of every API
Documented(api) ==
  {U.OHOS_CHECK_PERMISSION_FAILED, U.OHOS_CHECK_SYSTEM_APP_FAILED, U.OHOS_INVALID_PARAM} \cup
  (CASE api = "v6" -> AuthenticationResultConstructor [] api = "v8" -> ResultCodeConstructor
     [] OTHER -> UserAuthResultCodeConstructor)

SuccessOf(api) == IF api \in {"v6", "v8"} THEN R.SUCCESS ELSE U.SUCCESS

\* What the application is told of a call is the truth and the last word: it
\* is told once, of success exactly when the native client (or the check of
\* the values) said so, with a code that the version of the API exports,
\* after every tip; what returned without an exception and says success had
\* it from the native client; no exception carries SUCCESS.  The answers
\* cross two threads and a conversion for each version of the API.
AnswerIsTrue ==
  /\ \A k \in DOMAIN calls :
       LET c == calls[k]
       IN  /\ Len(c.told) <= 1 /\ ~c.late
           /\ c.told # <<>> => (c.told[1] = SuccessOf(c.api) <=> c.nat = <<R.SUCCESS>>)
           /\ ToSet(c.told) \subseteq Documented(c.api)
           /\ c.dropped => c.told = <<>> /\ (~c.valid \/ c.api \in {"v9", "v10"})
  /\ out.how = "threw" => out.code # U.SUCCESS
  /\ out.how = "ret" /\ out.code \in {R.SUCCESS, U.SUCCESS} => out.nat = <<R.SUCCESS>>

\* Every accepted call is settled: a promise is resolved or rejected, a
\* callback called, unless the callback was taken off or never was a
\* function.  For the lock state this does not depend on the service.
EveryCallSettles ==
  \A k \in 1 .. MaxCalls :
    k \in DOMAIN calls ~> (k \in DOMAIN calls /\ (calls[k].told # <<>> \/ calls[k].dropped))

===============================================================================
