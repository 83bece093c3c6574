----------------------------- MODULE ProcessDeaths -----------------------------
(***************************************************************************)
(* Who is left waiting when the process on the other side dies, checked in *)
(* one run: the clients of the service (ClientCalls), and the commands of  *)
(* an executor with the HDI behind them (ExecutorHost).  The two share no  *)
(* state: a behaviour is of one of them, and the other has nothing left to *)
(* do.                                                                     *)
(***************************************************************************)
EXTENDS ClientCalls, ExecutorHost

\* The HDI is gone, every command was refused, the executor is released.
HostQuiet ==
  /\ hdi = FALSE /\ messenger = FALSE /\ released = TRUE
  /\ respond = {} /\ holding = {}
  /\ begin = [c \in Commands |-> "refused"]
  /\ finished = [c \in Commands |-> "no"]
  /\ sent = [c \in Commands |-> <<>>]
  /\ stage = "done" /\ toNotify = {} /\ notifying = None

DeathsInit == (ClientInit /\ HostQuiet) \/ (ClientQuiet /\ Init)

DeathsNext == (ClientNext /\ UNCHANGED vars) \/ (Next /\ UNCHANGED clientVars)

DeathsSpec ==
  DeathsInit /\ [][DeathsNext]_<<clientVars, vars>> /\ ClientFairness /\ HostFairness
===============================================================================
