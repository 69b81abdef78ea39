---------------------------- MODULE MCWakeControl ----------------------------
(* Two listeners, one of them perhaps a terminal's, and three presses.     *)
EXTENDS WakeControl

CONSTANTS p1, p2
=============================================================================
