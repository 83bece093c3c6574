---------------------------- MODULE UserIdmEntries -----------------------------
(***************************************************************************)
(* The entry points of UserIdmService as seen by their callers: checks,    *)
(* returned code and answers, in the style of UserAuthEntries.  What they  *)
(* do to sessions, credentials and contexts is IdmService's.               *)
(***************************************************************************)
EXTENDS UserAuthEntries

ManageIdm(c) == CheckPermission(c, "MANAGE_USER_IDM")
UseIdm(c) == CheckPermission(c, "USE_USER_IDM")

OpenSession(c, holds) ==
  Return(FirstFailure(<< <<ManageIdm(c), "CHECK_PERMISSION_FAILED">>,
                         <<"engine" \in holds, "GENERAL_ERROR">> >>))

\* A caller that does not own the session is told SUCCESS, and nothing is closed.
CloseSession(c, holds) ==
  CASE ~ManageIdm(c) -> Return("CHECK_PERMISSION_FAILED")
    [] ManageIdm(c) /\ "ownSession" \notin holds -> Reply("SUCCESS", <<>>)
    [] OTHER -> Return(FirstFailure(<< <<"engine" \in holds, "GENERAL_ERROR">> >>))

GetCredentialInfoInner(c, holds) ==
  FirstFailure(<< <<UseIdm(c), "CHECK_PERMISSION_FAILED">>,
                  <<"engine" \in holds, "engineError">>,
                  <<"enrolled" \in holds, "NOT_ENROLLED">> >>)

ConvertGetCredentialResult(code, isNotEnrollReturnSuccess) ==
  CASE code = "NOT_ENROLLED" -> IF isNotEnrollReturnSuccess THEN "SUCCESS" ELSE code
    [] code \in {"SUCCESS", "INVALID_PARAMETERS", "CHECK_PERMISSION_FAILED"} -> code
    [] OTHER -> "GENERAL_ERROR"

\* The proxy call itself succeeds; the result is answered and handed back.
GetCredentialInfo(c, holds) ==
  LET code == ConvertGetCredentialResult(GetCredentialInfoInner(c, holds), FALSE)
  IN [Reply("SUCCESS", <<code>>) EXCEPT !.effect = code = "SUCCESS"]

GetCredentialInfoSync(c, holds) ==
  LET code == GetCredentialInfoInner(c, holds)
  IN [Reply(ConvertGetCredentialResult(code, TRUE), <<>>) EXCEPT !.effect = code = "SUCCESS"]

GetSecInfo(c, holds) ==
  LET code == FirstFailure(<< <<UseIdm(c), "CHECK_PERMISSION_FAILED">>,
                              <<"engine" \in holds, "engineError">>,
                              <<"enrolled" \in holds, "GENERAL_ERROR">> >>)
  IN [Refuse(code) EXCEPT !.effect = code = "SUCCESS"]

\* AddCredential with StartEnroll, DelCredential with StartDelete
AddCredential(c, holds) ==
  IF ManageIdm(c) THEN StartContext(holds) ELSE Refuse("CHECK_PERMISSION_FAILED")

DelCredential(c, holds) ==
  IF ManageIdm(c) THEN StartContext(holds) ELSE Refuse("CHECK_PERMISSION_FAILED")

\* The credentials are looked up before the permission is checked.
UpdateCredential(c, holds) ==
  CASE "engine" \notin holds -> Refuse("GENERAL_ERROR")
    [] "engine" \in holds /\ "enrolled" \notin holds -> Reply("SUCCESS", <<"NOT_ENROLLED">>)
    [] OTHER -> AddCredential(c, holds)

\* "context": an enrolment of the caller's token is in the pool.
CancelEnroll(c, holds) ==
  Return(FirstFailure(<< <<ManageIdm(c), "CHECK_PERMISSION_FAILED">>,
                         <<"context" \in holds, "GENERAL_ERROR">> >>))

\* The answer is given before the call returns.  It follows the work, but in DelUser,
\* which answers first and deletes from the executors and tells the listeners then.
Done(check) == IF check = "SUCCESS" THEN Effect(check, <<check>>, <<>>) ELSE Refuse(check)

DeleteSubProfile(c, holds) ==
  Done(FirstFailure(<< <<CheckPermission(c, "ENFORCE_USER_IDM"), "CHECK_PERMISSION_FAILED">>,
                       <<"engine" \in holds, "engineError">> >>))

EnforceDelUser(c, holds) ==
  Done(FirstFailure(<< <<CheckPermission(c, "ENFORCE_USER_IDM"), "CHECK_PERMISSION_FAILED">>,
                       <<"enrolled" \in holds, "GENERAL_ERROR">>,
                       <<"engine" \in holds, "engineError">> >>))

DelUser(c, holds) ==
  Done(FirstFailure(<< <<ManageIdm(c), "CHECK_PERMISSION_FAILED">>,
                       <<"engine" \in holds, "engineError">> >>))

\* A device without users enrolled has nothing to clear.
ClearRedundancyCredential(c, holds) ==
  Done(FirstFailure(<< <<CheckPermission(c, "CLEAR_REDUNDANCY_PERMISSION"), "CHECK_PERMISSION_FAILED">>,
                       <<"account" \in holds, "IPC_ERROR">>,
                       <<"engine" \in holds \/ "enrolled" \notin holds, "engineError">> >>))

GetLatestEnrollmentTime(c, holds) ==
  Return(FirstFailure(<< <<UseIdm(c), "CHECK_PERMISSION_FAILED">>,
                         <<"engine" \in holds, "engineError">> >>))

\* RegistCredChangeEventListener, UnRegistCredChangeEventListener
CredChangeEventListener(c, holds) ==
  Return(FirstFailure(<< <<UseIdm(c), "CHECK_PERMISSION_FAILED">>,
                         <<"listener" \in holds, "GENERAL_ERROR">> >>))
===============================================================================
