----------------------------- MODULE CallerAccess -----------------------------
(***************************************************************************)
(* IpcCommon: who is calling.  A request reaches a service from a process  *)
(* (the direct caller), which may act for another one (the first caller).  *)
(* A caller is its access token: a kind and a set of permissions.          *)
(***************************************************************************)
EXTENDS Integers, Sequences, FiniteSets, FiniteSetsExt

TokenTypes == {"TOKEN_HAP", "TOKEN_NATIVE", "TOKEN_SHELL"}

\* A caller is [direct |-> token, first |-> a set of at most one token].
Tokens(perms) == [type : TokenTypes, perms : SUBSET perms]
CallersWith(perms) ==
  [direct : Tokens(perms), first : {{}} \cup {{t} : t \in [type : {"TOKEN_HAP"}, perms : SUBSET perms]}]

CheckDirectCaller(c, permission) == permission \in c.direct.perms

CheckDirectCallerAndFirstCallerIfSet(c, permission) ==
  /\ \A t \in c.first : permission \in t.perms
  /\ permission \in c.direct.perms

CheckCallerIsSystemApp(c) ==
  "systemApp" \in c.direct.perms /\ c.direct.type = "TOKEN_HAP"

\* Only the account manager may enforce: a native process with its uid and name.
CheckNativeCallingProcessWhiteList(c) ==
  c.direct.type = "TOKEN_NATIVE" /\ "accountmgr" \in c.direct.perms

DirectOnly == {"ACCESS_AUTH_RESPOOL", "USE_USER_ACCESS_MANAGER", "ENTERPRISE_DEVICE_MGR",
               "ENTERPRISE_MANAGE_SECURITY"}

CheckPermission(c, permission) ==
  CASE permission = "IS_SYSTEM_APP" -> CheckCallerIsSystemApp(c)
    [] permission = "ENFORCE_USER_IDM" ->
         CheckDirectCaller(c, permission) /\ CheckNativeCallingProcessWhiteList(c)
    [] permission = "CLEAR_REDUNDANCY_PERMISSION" -> CheckDirectCaller(c, "ENFORCE_USER_IDM")
    [] permission \in DirectOnly -> CheckDirectCaller(c, permission)
    [] OTHER -> CheckDirectCallerAndFirstCallerIfSet(c, permission)

\* GetAccessTokenId: the first caller's token if there is one.
AccessToken(c) == IF c.first = {} THEN c.direct ELSE CHOOSE t \in c.first : TRUE

GetDirectCallerType(c) == c.direct.type

\* The conditions "tokenInfo" and "account" say whether the token and account
\* services answer.
GetCallerName(c, holds) ==
  AccessToken(c).type \in {"TOKEN_HAP", "TOKEN_NATIVE"} /\ "tokenInfo" \in holds

GetCallingUserId(c, holds) ==
  AccessToken(c).type = "TOKEN_HAP" /\ {"tokenInfo", "account"} \subseteq holds

\* CheckForegroundApplication, asked for applications only.
InForeground(c, holds) == AccessToken(c).type = "TOKEN_HAP" => "foreground" \in holds

\* The code of the first check that fails; a check is <<passed, code>>.
FirstFailure(checks) ==
  LET failed == {i \in DOMAIN checks : ~checks[i][1]}
  IN IF failed = {} THEN "SUCCESS" ELSE checks[Min(failed)][2]
===============================================================================
