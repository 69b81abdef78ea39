----------------------------- MODULE MCConcierge -----------------------------
(* Two dictations, one on each hop, beside the turns of the concierge.     *)
EXTENDS Concierge, TLC

CONSTANTS d1, d2

TwoRefs == {d1, d2}
TwoHops == d1 :> "daemon" @@ d2 :> "concierge"
=============================================================================
