----------------------------- MODULE MCTransport -----------------------------
(* Three calls of one process on one pane: a user who keeps his hands off  *)
(* what a command is waiting for, or one who does whatever he can do.      *)
(* In the last plan a side-question is asked while the view of an earlier  *)
(* one may still lie over the session.                                     *)
EXTENDS Transport, TLC

CONSTANTS c1, c2, c3

MCCalls == {c1, c2, c3}
MCProcOf == [c \in Calls |-> "router"]

Views   == [want |-> c1 :> "compact" @@ c2 :> "view" @@ c3 :> "btw",
            habits |-> {"types", "views", "answers"}]
Dialogs == [want |-> c1 :> "text" @@ c2 :> "answer" @@ c3 :> "approve",
            habits |-> {"types", "views", "answers"}]
Restless == [want |-> c1 :> "btw" @@ c2 :> "view" @@ c3 :> "answer", habits |-> UserMoves]

Asides  == [want |-> c1 :> "btw" @@ c2 :> "btw" @@ c3 :> "view", habits |-> {"closesBtw"}]

MCPlans == {Views, Dialogs, Restless, Asides}
=============================================================================
