---------------------------- MODULE MCController ----------------------------
(* The two halves of the daemon's loop, which share its thread and none of *)
(* the state modelled here: a behaviour is one of either.                  *)
(*                                                                         *)
(* The window: two rounds of one router, the first of them to a real       *)
(* target.  The capture: the thresholds in the order they have in the code *)
(* (5, 15, 21, 84, 312, 937, 1562 frames), with a preroll that outlasts a  *)
(* stop phrase and a pause.                                                *)
EXTENDS MCCancelWindow, Dictation

VARIABLE half

InitOfEither ==
  /\ Init /\ DictationInit
  /\ half \in {"window", "capture"} /\ (half = "window" => mode = "live")

(* A capture may be over; the window must always be able to move on. *)
NextOfEither ==
  /\ UNCHANGED half
  /\ \/ half = "window"  /\ Next /\ UNCHANGED dictationVars
     \/ half = "capture" /\ (DictationNext \/ UNCHANGED dictationVars) /\ UNCHANGED vars

SpecOfEither ==
  InitOfEither /\ [][NextOfEither]_<<vars, dictationVars, half>> /\ Fairness
=============================================================================
