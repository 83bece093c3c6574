-------------------------------- MODULE Edges ---------------------------------
(***************************************************************************)
(* The two edges of the system towards its users, checked in one run: the    *)
(* subscriptions of Listeners and the JavaScript bindings of Bindings.  They  *)
(* share no state, so a behaviour is of one of them while the other idles.    *)
(***************************************************************************)
EXTENDS Listeners, Bindings

Idle == "idle"

EdgesInit ==
  \/ ListenersInit /\ page = Idle /\ BindingsIdle
  \/ BindingsInit /\ part = Idle /\ ListenersIdle

EdgesNext ==
  \/ ListenersNext /\ UNCHANGED bindVars
  \/ BindingsNext /\ UNCHANGED listenVars

EdgesSpec ==
  EdgesInit /\ [][EdgesNext]_<<listenVars, bindVars>> /\ ListenersFairness /\ BindingsFairness
===============================================================================
