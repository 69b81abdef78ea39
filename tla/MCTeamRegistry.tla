--------------------------- MODULE MCTeamRegistry ---------------------------
(* Two teams, two directories and two tmux names, enough for one to be     *)
(* taken when the other is wanted; one thread of the console or two, and   *)
(* the router.                                                             *)
EXTENDS TeamRegistry, TLC

CONSTANTS t1, t2, r1, r2, n1, n2, s1, s2, console, panel, router

Swaps == Permutations({t1, t2}) \cup Permutations({r1, r2})
           \cup Permutations({n1, n2}) \cup Permutations({s1, s2})
=============================================================================
