------------------------------ MODULE MCPoller ------------------------------
(* Two sides of the console's poller that share none of the state modelled *)
(* here: the questions of two members of a team, and what its threads store*)
(* for the panels, each section in turn, with the multiplier of the code.  *)
(* A behaviour is one of either.                                           *)
EXTENDS MCBlockedQuestions, ConsoleView

VARIABLE side

InitOfEither ==
  /\ BlockedInit /\ Init
  /\ side \in {"questions", "panels"}
  /\ side = "questions" => sec = "teams" /\ world = "none"

NextOfEither ==
  /\ UNCHANGED side
  /\ \/ side = "questions" /\ BlockedNext /\ UNCHANGED vars
     \/ side = "panels"    /\ Next /\ UNCHANGED blockedVars

SpecOfEither == InitOfEither /\ [][NextOfEither]_<<blockedVars, vars, side>>
=============================================================================
