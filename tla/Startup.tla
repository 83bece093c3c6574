-------------------------------- MODULE Startup --------------------------------
(***************************************************************************)
(* How the service and its executors come up, checked in one run: what     *)
(* makes init and the load managers start and stop the process and its     *)
(* engine (LoadMode), and what makes an executor known to them             *)
(* (ExecutorRegistry).  The two share no state: a behaviour is of one of   *)
(* them, and the other has nothing left to do.                             *)
(***************************************************************************)
EXTENDS LoadMode, ExecutorRegistry

StartupInit == (LoadInit /\ RegQuiet) \/ (LoadQuiet /\ RegInit)

StartupNext == (LoadNext /\ UNCHANGED regVars) \/ (RegNext /\ UNCHANGED loadVars)

StartupSpec ==
  StartupInit /\ [][StartupNext]_<<loadVars, regVars>> /\ LoadFairness /\ RegFairness
===============================================================================
