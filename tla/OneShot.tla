-------------------------------- MODULE OneShot --------------------------------
(***************************************************************************)
(* What every request of the service promises its caller: at most one      *)
(* answer, and never SUCCESS once the request was cancelled, timed out or  *)
(* otherwise given up before it was answered.                              *)
(***************************************************************************)
EXTENDS Naturals, Sequences

CONSTANT Codes   \* the result codes a caller can be given

VARIABLES
    givenUp,   \* somebody stopped the request
    answers    \* the answers handed to the caller

vars == <<givenUp, answers>>

Init ==
  /\ givenUp = FALSE
  /\ answers = <<>>

GiveUp ==
  /\ givenUp' = TRUE
  /\ UNCHANGED answers

Answer(code) ==
  /\ answers = <<>>
  /\ givenUp => code # "SUCCESS"
  /\ answers' = Append(answers, code)
  /\ UNCHANGED givenUp

Next ==
  \/ GiveUp
  \/ \E code \in Codes : Answer(code)

Spec == Init /\ [][Next]_vars
===============================================================================
