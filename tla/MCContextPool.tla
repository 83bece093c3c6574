---------------------------- MODULE MCContextPool ----------------------------
(* Small mixes of requests for ContextPool. *)
EXTENDS ContextPool

CONSTANTS s1, s2, p1, w1, w2

Request(kind, user, caller, pin) == [kind |-> kind, user |-> user, caller |-> caller, pin |-> pin]

\* The same caller asks for a sudo twice, another for the PIN of the same user.
SlotAttr == (s1 :> Request("sudo", 1, 1, TRUE)) @@ (s2 :> Request("sudo", 1, 1, TRUE))
            @@ (p1 :> Request("simple", 1, 2, TRUE))

\* A sudo and a widget session of one user.
TakeoverAttr == (s1 :> Request("sudo", 1, 1, TRUE)) @@ (w1 :> Request("widget", 1, 2, TRUE))

\* Two widget sessions of two users, without and with a PIN.
WidgetAttr == (w1 :> Request("widget", 1, 1, FALSE)) @@ (w2 :> Request("widget", 2, 2, TRUE))

\* The two sudos of SlotAttr are interchangeable.
SlotSymmetry == Permutations({s1, s2})
==============================================================================
