---------------------------- MODULE MCWidgetSession ----------------------------
(* Sessions for WidgetSession, of whose two types the code tells neither apart. *)
EXTENDS WidgetSession

CONSTANTS pin, face

Session(mode, types, n) == [mode |-> mode, types |-> types, notices |-> n]

\* One type, long enough to start, stop and start it again; two types for a shorter
\* time.  The three ways to open a session differ in how they come to their first start.
OneAndTwoTypes ==
  {Session("widget", {face}, 3), Session("remote", {face}, 2), Session("direct", {face}, 2),
   Session("widget", {pin, face}, 2)}

\* The shortest session with two types.
TwoTypesOnce == {Session("widget", {pin, face}, 1)}
===============================================================================
