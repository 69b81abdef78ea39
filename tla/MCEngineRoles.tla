---------------------------- MODULE MCEngineRoles ----------------------------
(* Both roles, one session of a user's beside those created, and panel and *)
(* Revive activating at once.                                              *)
EXTENDS EngineRoles, TLC

CONSTANTS concierge, orchestrator, tab, home, out, s1, s2, panel, revive

Swaps == Permutations({concierge, orchestrator}) \cup Permutations({s1, s2})
           \cup Permutations({panel, revive})
=============================================================================
