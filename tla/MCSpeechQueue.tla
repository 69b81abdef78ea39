---------------------------- MODULE MCSpeechQueue ----------------------------
(* A window and two texts in one process: queues are private to a process. *)
EXTENDS SpeechQueue, TLC

CONSTANTS router, confirm, news, answer

MCProcs == {router}
MCCalls == {confirm, news, answer}
MCHome == [c \in MCCalls |-> router]
MCWindowed == {confirm}
MCPriority == confirm :> HIGH @@ news :> NORMAL @@ answer :> HIGH
=============================================================================
