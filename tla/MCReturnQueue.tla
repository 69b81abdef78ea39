---------------------------- MODULE MCReturnQueue ----------------------------
(* A finite instance of ReturnQueue: a completion, a blocked question and   *)
(* an answer that is spoken at once.                                        *)
EXTENDS ReturnQueue, TLC

CONSTANTS concierge, router, m1, m2, m3

MCProcs == {concierge, router}

ThreeItems == {m1, m2, m3}
MixedKinds == m1 :> "completion" @@ m2 :> "blocked_question" @@ m3 :> "answer"

ProcSymmetry == Permutations(MCProcs)
=============================================================================
