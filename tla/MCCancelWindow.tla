--------------------------- MODULE MCCancelWindow ---------------------------
(* Two rounds of one router, the first of them to a real target.           *)
EXTENDS CancelWindow, TLC

CONSTANTS r1, r2, routerA

MCRounds == {r1, r2}
MCRouter == r1 :> routerA @@ r2 :> routerA
MCReal == {r1}
=============================================================================
