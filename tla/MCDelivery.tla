------------------------------ MODULE MCDelivery ------------------------------
(* Two dictations, one too long to inline; a session and a test session.   *)
EXTENDS Delivery

CONSTANTS d1, d2, api, scratch

SomePlans == {<<>>, <<api, scratch>>}
=============================================================================
