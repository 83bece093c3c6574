---------------------------- MODULE UserAuthEntries ----------------------------
(***************************************************************************)
(* The entry points of UserAuthService, each as what one request does: the *)
(* checks in their order, the code returned through the proxy, the codes   *)
(* the handler gives the callback before it returns, and the ones a posted *)
(* task or a context gives it later.                                       *)
(*                                                                         *)
(* A request is the caller c and the set `holds` of the conditions that    *)
(* are true of its parameters and of the services it asks.                 *)
(***************************************************************************)
EXTENDS CallerAccess

Reply(ret, now) == [ret |-> ret, now |-> now, later |-> <<>>, effect |-> FALSE]
Refuse(ret) == Reply(ret, <<ret>>)
Effect(ret, now, later) == [ret |-> ret, now |-> now, later |-> later, effect |-> TRUE]

\* What a synchronous call returns, and whether it did something.
Return(ret) == [Reply(ret, <<>>) EXCEPT !.effect = ret = "SUCCESS"]

Internal(c) == CheckPermission(c, "ACCESS_USER_AUTH_INTERNAL")
Biometric(c) == CheckPermission(c, "ACCESS_BIOMETRIC")
SystemApp(c) == CheckPermission(c, "IS_SYSTEM_APP")
NativeOrSystemApp(c) == GetDirectCallerType(c) = "TOKEN_NATIVE" \/ SystemApp(c)

\* A context: made and scheduled, or its guard answers; it answers at its end.
StartContext(holds) ==
  IF "scheduled" \in holds
  THEN Effect("SUCCESS", <<>>, <<"contextResult">>)
  ELSE Refuse("GENERAL_ERROR")

-------------------------------------------------------------------------------
(* Status and properties of executors.                                     *)

CheckAuthTrustLevel(holds) == "companion" \in holds \/ "atl" \in holds

GetAvailableStatusInner(holds) ==
  FirstFailure(<< <<CheckAuthTrustLevel(holds), "TRUST_LEVEL_NOT_SUPPORT">>,
                  <<"engine" \in holds, "GENERAL_ERROR">>,
                  <<"enrolled" \in holds, "NOT_ENROLLED">> >>)

GetAvailableStatus(c, holds) ==
  LET ofUser == FirstFailure(<< <<Internal(c), "CHECK_PERMISSION_FAILED">> >>)
      ofCaller == FirstFailure(<<
        <<Internal(c) \/ Biometric(c), "CHECK_PERMISSION_FAILED">>,
        <<~({"apiVersion8", "pin"} \subseteq holds), "TYPE_NOT_SUPPORT">>,
        <<GetCallingUserId(c, holds), "GENERAL_ERROR">> >>)
      check == IF "userId" \in holds THEN ofUser ELSE ofCaller
  IN Return(IF check = "SUCCESS" THEN GetAvailableStatusInner(holds) ELSE check)

\* GetResourseNode wants exactly one all-in-one executor of the type.
GetPropertyInner(holds) ==
  FirstFailure(<< <<"oneNode" \in holds, "GENERAL_ERROR">>,
                  <<"executor" \in holds, "executorError">> >>)

GetPropertyHelper(holds) ==
  LET templates == FirstFailure(<< <<"engine" \in holds, "GENERAL_ERROR">>,
                                   <<"enrolled" \in holds, "NOT_ENROLLED">> >>)
  IN IF "templatesRequired" \in holds /\ templates # "SUCCESS" THEN templates
     ELSE GetPropertyInner(holds)

GetPropertyRefused(c, holds) ==
  IF ~Internal(c) THEN Refuse("CHECK_PERMISSION_FAILED")
  ELSE Effect("SUCCESS", <<>>, <<GetPropertyHelper(holds)>>)

GetProperty(c, holds) ==
  IF ~Internal(c) THEN Reply("SUCCESS", <<"CHECK_PERMISSION_FAILED">>)
  ELSE Effect("SUCCESS", <<>>, <<GetPropertyHelper(holds)>>)

GetPropertyById(c, holds) ==
  LET credential == FirstFailure(<< <<"engine" \in holds, "engineError">>,
                                    <<"enrolled" \in holds, "GENERAL_ERROR">> >>)
  IN IF ~Internal(c) THEN Reply("SUCCESS", <<"CHECK_PERMISSION_FAILED">>)
     ELSE Effect("SUCCESS", <<>>,
                 <<IF credential = "SUCCESS" THEN GetPropertyInner(holds) ELSE credential>>)

\* The refusal is both answered and returned.
SetProperty(c, holds) ==
  IF ~Internal(c) THEN Refuse("CHECK_PERMISSION_FAILED")
  ELSE Effect("SUCCESS", <<>>, <<GetPropertyInner(holds)>>)

GetAuthLockState(c, holds) ==
  LET check == FirstFailure(<< <<Biometric(c), "CHECK_PERMISSION_FAILED">>,
                               <<GetCallingUserId(c, holds), "GENERAL_ERROR">> >>)
  IN IF check # "SUCCESS" THEN Reply("SUCCESS", <<check>>)
     ELSE Effect("SUCCESS", <<GetPropertyHelper(holds)>>, <<>>)

GetEnrolledState(c, holds) ==
  Return(FirstFailure(<< <<Biometric(c), "CHECK_PERMISSION_FAILED">>,
                         <<"apiVersion8" \notin holds, "TYPE_NOT_SUPPORT">>,
                         <<GetCallingUserId(c, holds), "GENERAL_ERROR">>,
                         <<"enrolled" \in holds, "NOT_ENROLLED">>,
                         <<"engine" \in holds, "engineError">> >>))

GetVersion(c) ==
  Return(FirstFailure(<< <<Internal(c) \/ Biometric(c), "CHECK_PERMISSION_FAILED">> >>))

-------------------------------------------------------------------------------
(* Authentication and identification.                                      *)

\* CheckAuthPermissionAndParam of Auth
NorthAuthCheck(c, holds) ==
  FirstFailure(<< <<Biometric(c), "CHECK_PERMISSION_FAILED">>,
                  <<InForeground(c, holds), "CHECK_PERMISSION_FAILED">>,
                  <<"pin" \notin holds, "TYPE_NOT_SUPPORT">>,
                  <<CheckAuthTrustLevel(holds), "TRUST_LEVEL_NOT_SUPPORT">> >>)

Auth(c, holds) ==
  LET check == NorthAuthCheck(c, holds)
  IN CASE ~GetCallerName(c, holds) -> Refuse("GENERAL_ERROR")
       [] GetCallerName(c, holds) /\ check # "SUCCESS" -> Refuse(check)
       [] GetCallerName(c, holds) /\ check = "SUCCESS" /\ ~GetCallingUserId(c, holds) ->
            Reply("CHECK_PERMISSION_FAILED", <<"GENERAL_ERROR">>)
       [] OTHER -> StartContext(holds)

\* CompleteRemoteAuthParam and ProcessAuthParamForRemoteAuth: PIN only, well-formed
\* network ids, one of them this device, a token for a foreign collector.
RemoteAuthParamOK(holds) ==
  /\ "pin" \in holds
  /\ {"verifierLocal", "collectorLocal"} \cap holds # {}
  /\ "collectorLocal" \in holds \/ "collectorToken" \in holds

\* A start that fails has been answered by its guard, and StartAuthUser answers again.
AuthRemoteUser(holds) ==
  CASE "localNetworkId" \notin holds -> Refuse("GENERAL_ERROR")
    [] "localNetworkId" \in holds /\ ~RemoteAuthParamOK(holds) -> Refuse("INVALID_PARAMETERS")
    [] {"localNetworkId", "scheduled"} \subseteq holds /\ RemoteAuthParamOK(holds) -> StartContext(holds)
    [] OTHER -> Reply("GENERAL_ERROR", <<"GENERAL_ERROR", "GENERAL_ERROR">>)

\* CheckSudoAuthParam: local, PIN, with a short additional info and no reuse.
StartSudoAuthUser(c, holds) ==
  LET check == FirstFailure(<<
        <<NativeOrSystemApp(c), "CHECK_PERMISSION_FAILED">>,
        <<"remote" \notin holds /\ {"pin", "additionalInfo"} \subseteq holds, "INVALID_PARAMETERS">> >>)
  IN IF check = "SUCCESS" THEN StartContext(holds) ELSE Refuse(check)

StartAuthUser(holds) == IF "remote" \in holds THEN AuthRemoteUser(holds) ELSE StartContext(holds)

AuthUser(c, holds) ==
  LET check == FirstFailure(<< <<GetCallerName(c, holds), "GENERAL_ERROR">>,
                               <<CheckAuthTrustLevel(holds), "TRUST_LEVEL_NOT_SUPPORT">>,
                               <<Internal(c), "CHECK_PERMISSION_FAILED">> >>)
  IN CASE check = "TRUST_LEVEL_NOT_SUPPORT" ->
            Reply("CHECK_PERMISSION_FAILED", <<"TRUST_LEVEL_NOT_SUPPORT">>)
       [] check \notin {"SUCCESS", "TRUST_LEVEL_NOT_SUPPORT"} -> Refuse(check)
       [] check = "SUCCESS" /\ "sudo" \in holds -> StartSudoAuthUser(c, holds)
       [] OTHER -> StartAuthUser(holds)

Identify(c, holds) ==
  CASE "pin" \in holds -> Reply("GENERAL_ERROR", <<"TYPE_NOT_SUPPORT">>)
    [] "pin" \notin holds /\ ~Internal(c) -> Refuse("CHECK_PERMISSION_FAILED")
    [] OTHER -> StartContext(holds)

\* A refusal is answered and the call reports success; else the task answers.
PrepareRemoteAuth(c, holds) ==
  LET check == FirstFailure(<< <<"networkId" \in holds, "INVALID_PARAMETERS">>,
                               <<Internal(c), "CHECK_PERMISSION_FAILED">> >>)
      prepared == FirstFailure(<< <<"localNetworkId" \in holds, "GENERAL_ERROR">>,
                                  <<"engine" \in holds, "REMOTE_DEVICE_CONNECTION_FAIL">> >>)
  IN IF check = "SUCCESS" THEN Effect("SUCCESS", <<>>, <<prepared>>)
     ELSE Reply("SUCCESS", <<check>>)

\* "ownContext": the context was made for the caller's token.
CancelAuthOrIdentify(c, holds) ==
  Return(FirstFailure(<< <<Internal(c) \/ Biometric(c), "CHECK_PERMISSION_FAILED">>,
                         <<"context" \in holds, "INVALID_CONTEXT_ID">>,
                         <<"ownContext" \in holds, "CHECK_PERMISSION_FAILED">> >>))

-------------------------------------------------------------------------------
(* The widget.  What the valid types of a widget are is WidgetRequest's.   *)

CheckCallerPermissionForPrivatePin(c, holds) == "privatePin" \in holds => Internal(c) \/ SystemApp(c)

CheckCallerPermissionForUserId(c, holds) ==
  IF "userId" \notin holds THEN Biometric(c)
  ELSE \/ Internal(c)
       \/ /\ GetCallingUserId(c, holds)
          /\ Biometric(c)
          /\ SystemApp(c) \/ "ownUser" \in holds

CheckWindowMode(c, holds) ==
  FirstFailure(<< <<SystemApp(c) \/ "noneInterruption" \notin holds, "CHECK_SYSTEM_APP_FAILED">>,
                  <<SystemApp(c) \/ "windowMode" \notin holds, "INVALID_PARAMETERS">> >>)

\* GetCallerInfo: only an SDK caller can be found to be in the background.
WidgetCallerCheck(c, holds) ==
  LET mode == CheckWindowMode(c, holds)
      background == "sdk" \in holds /\ ~InForeground(c, holds)
  IN FirstFailure(<<
       <<"userId" \in holds \/ GetCallingUserId(c, holds), "GENERAL_ERROR">>,
       <<"credentialList" \in holds, "INVALID_PARAMETERS">>,
       <<mode = "SUCCESS", mode>>,
       <<CheckCallerPermissionForPrivatePin(c, holds), "CHECK_PERMISSION_FAILED">>,
       <<CheckCallerPermissionForUserId(c, holds), "CHECK_PERMISSION_FAILED">>,
       <<background => CheckPermission(c, "USER_AUTH_FROM_BACKGROUND"), "CHECK_PERMISSION_FAILED">> >>)

WidgetParamCheck(holds) ==
  FirstFailure(<< <<"widgetType" \in holds, "TYPE_NOT_SUPPORT">>,
                  <<CheckAuthTrustLevel(holds), "TRUST_LEVEL_NOT_SUPPORT">>,
                  <<"widgetParam" \in holds, "INVALID_PARAMETERS">> >>)

\* A reusable unlock result is the answer; else the solution is looked for, and a
\* context started.  StartWidgetContext gives GENERAL_ERROR once, however it fails.
AuthWidget(c, holds) ==
  LET caller == WidgetCallerCheck(c, holds)
      parameters == WidgetParamCheck(holds)
      reused == "reusable" \in holds
      check == FirstFailure(<< <<caller = "SUCCESS", caller>>, <<parameters = "SUCCESS", parameters>>,
                               <<reused \/ "solution" \in holds, "TYPE_NOT_SUPPORT">> >>)
  IN CASE check # "SUCCESS" -> Refuse(check)
       [] check = "SUCCESS" /\ reused -> Effect("SUCCESS", <<"SUCCESS">>, <<>>)
       [] OTHER -> StartContext(holds)

Notice(c, holds) ==
  Return(FirstFailure(<< <<SystemApp(c), "CHECK_SYSTEM_APP_FAILED">>,
                         <<CheckPermission(c, "SUPPORT_USER_AUTH"), "CHECK_PERMISSION_FAILED">>,
                         <<"notice" \in holds, "INVALID_PARAMETERS">> >>))

RegisterWidgetCallback(c, holds) ==
  Return(FirstFailure(<< <<SystemApp(c), "CHECK_SYSTEM_APP_FAILED">>,
                         <<CheckPermission(c, "SUPPORT_USER_AUTH"), "CHECK_PERMISSION_FAILED">>,
                         <<"notice" \in holds, "INVALID_PARAMETERS">> >>))

-------------------------------------------------------------------------------
(* Tokens, reuse, configuration and listeners.                             *)

VerifyAuthToken(c, holds) ==
  LET check == FirstFailure(<<
        <<"token" \in holds, "INVALID_PARAMETERS">>,
        <<CheckPermission(c, "USE_USER_ACCESS_MANAGER"), "CHECK_PERMISSION_FAILED">>,
        <<NativeOrSystemApp(c), "CHECK_SYSTEM_APP_FAILED">>,
        <<"engine" \in holds, "engineError">> >>)
  IN IF check = "SUCCESS" THEN Effect(check, <<check>>, <<>>) ELSE Refuse(check)

QueryReusableAuthResult(c, holds) ==
  Return(FirstFailure(<<
    <<Internal(c), "CHECK_PERMISSION_FAILED">>,
    <<GetDirectCallerType(c) = "TOKEN_HAP" /\ SystemApp(c), "CHECK_SYSTEM_APP_FAILED">>,
    <<"atl" \in holds, "TRUST_LEVEL_NOT_SUPPORT">>,
    <<"authTypes" \in holds, "TYPE_NOT_SUPPORT">>,
    <<"userId" \in holds \/ GetCallingUserId(c, holds), "GENERAL_ERROR">>,
    <<"reusable" \in holds, "INVALID_PARAMETERS">> >>))

SetGlobalConfigParam(c, holds) ==
  Return(FirstFailure(<<
    <<Internal(c) /\ CheckPermission(c, "ENTERPRISE_DEVICE_MGR"), "CHECK_PERMISSION_FAILED">>,
    <<"configParam" \in holds, "INVALID_PARAMETERS">>,
    <<"engine" \in holds, "engineError">> >>))

\* SetUserConfigParam and GetUserConfigParam; "account": IsUserIdValid.
UserConfigParam(c, holds) ==
  Return(FirstFailure(<<
    <<NativeOrSystemApp(c), "CHECK_SYSTEM_APP_FAILED">>,
    <<CheckPermission(c, "USE_USER_ACCESS_MANAGER"), "CHECK_PERMISSION_FAILED">>,
    <<"account" \in holds, "INVALID_PARAMETERS">>,
    <<"configParam" \in holds, "INVALID_PARAMETERS">>,
    <<"engine" \in holds, "engineError">> >>))

\* RegistUserAuthSuccessEventListener, UnRegistUserAuthSuccessEventListener
UserAuthSuccessEventListener(c, holds) ==
  Return(FirstFailure(<< <<Internal(c), "CHECK_PERMISSION_FAILED">>,
                         <<"listener" \in holds, "GENERAL_ERROR">> >>))

\* RegisterUserRecognitionEventListener, Unregister..., GetUserRecognitionResult and
\* CheckUserRecognitionCapability
UserRecognition(c, holds) ==
  Return(FirstFailure(<<
    <<CheckPermission(c, "ACCESS_USER_PASSIVE_RECOGNITION"), "CHECK_PERMISSION_FAILED">>,
    <<"capability" \in holds, "DEVICE_CAPABILITY_NOT_SUPPORT">>,
    <<"listener" \in holds, "GENERAL_ERROR">> >>))

\* "registered": the caller's token has a callback already.
RegisterRemoteAuthCallback(c, holds) ==
  Return(FirstFailure(<< <<SystemApp(c), "CHECK_SYSTEM_APP_FAILED">>,
                         <<Internal(c), "CHECK_PERMISSION_FAILED">>,
                         <<GetCallerName(c, holds), "GENERAL_ERROR">>,
                         <<"registered" \notin holds, "GENERAL_ERROR">> >>))

\* Nothing registered is nothing to take away: SUCCESS all the same.
UnregisterRemoteAuthCallback(c) ==
  Return(FirstFailure(<< <<SystemApp(c), "CHECK_SYSTEM_APP_FAILED">>,
                         <<Internal(c), "CHECK_PERMISSION_FAILED">> >>))
===============================================================================
