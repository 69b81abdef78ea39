---------------------------- MODULE CancelWindow ----------------------------
(***************************************************************************)
(* The cancel window: say_feedback.speak_with_cancel_window and            *)
(* cancel_listener.listen_for_cancel on the router's side of the unix      *)
(* socket l1.sock; cancel_socket_server and LiveController on the wake     *)
(* daemon's side; and deliver_batch, which sends what was confirmed.       *)
(*                                                                         *)
(* A round is one confirm_plan call and the deliver_batch after it.  The   *)
(* daemon is one event loop: a microphone frame, a socket request and a    *)
(* 20 ms poll are handled one at a time, and a dictation being delivered   *)
(* blocks all three.  Time is counted in half seconds, the slack the       *)
(* handler leaves beyond the window; a tick takes several frames and polls.*)
(***************************************************************************)
EXTENDS Naturals, Sequences

CONSTANTS
  Rounds,        \* confirm_plan calls
  Router,        \* the router that makes each of them
  Real,          \* the rounds whose target is not a marked test target
  Window,        \* cancel_window_s in ticks
  Heedful,       \* does the router heed cancel_window_available?
  MaxDictations, \* bound: dictations the daemon may capture meanwhile
  MaxStalls,     \* bound: times the microphone stops producing frames
  MaxCrashes     \* bound: times the daemon dies

ASSUME WindowAssumption == /\ Window \in Nat \ {0}
                           /\ Real \subseteq Rounds
                           /\ Heedful \in BOOLEAN
                           /\ {MaxDictations, MaxStalls, MaxCrashes} \subseteq Nat

VARIABLES
  alive,      \* is the wake daemon running?
  sock,       \* does l1.sock exist on disk?
  mic,        \* are frames arriving?
  framed,     \* has a frame been handled since the last tick?
  blocked,    \* is the event loop inside the delivery of a dictation?
  state,      \* LiveController.state
  owner,      \* the round whose request armed the last window
  left,       \* ticks to _cancel_deadline
  detected,   \* _cancel_detected
  backlog,    \* connections the event loop has not handled yet, oldest first
  handler,    \* the daemon's end of each round's connection
  patience,   \* ticks to that handler's own deadline
  call,       \* how far each round has come on the router's side
  timeout,    \* ticks to the client's socket timeout
  sent,       \* rounds whose instruction was delivered
  asked,      \* history: rounds whose window heard "Hey Jarvis"
  closed,     \* history: rounds whose window was heard out to its deadline
  spent       \* bounded events so far

daemonVars == <<alive, sock, mic, framed, blocked, state, owner, left, detected>>
socketVars == <<backlog, handler, patience>>
routerVars == <<call, timeout, sent>>
history    == <<asked, closed>>
vars       == <<daemonVars, socketVars, routerVars, history, spent>>

Slack       == 1   \* "+ 0.5": the handler waits half a second past the window
ClientSlack == 2   \* "timeout_s + 1.0"

NoRound == "none"

HandlerStates == {"none", "polling", "cancelled", "clear", "hungup"}

CallStates == {"new", "calling", "cancelled", "clear", "unavailable", "batch", "over"}

Bounded == [dictations |-> MaxDictations, stalls |-> MaxStalls, crashes |-> MaxCrashes]

Spend(k) == spent[k] < Bounded[k] /\ spent' = [spent EXCEPT ![k] = @ + 1]

Running == alive /\ ~blocked   \* the event loop can take a step

Less(n) == IF n = 0 THEN 0 ELSE n - 1

-----------------------------------------------------------------------------
(* The router: confirm_plan. *)

(* A router's tool calls follow one another. *)
Free(c) == \A d \in Rounds : Router[d] = Router[c] => call[d] \in {"new", "over"}

(* listen_for_cancel, from the path check to the request. *)
Confirm(c) ==
  /\ call[c] = "new" /\ Free(c)
  /\ IF sock /\ alive
       THEN /\ call' = [call EXCEPT ![c] = "calling"]
            /\ backlog' = Append(backlog, c)
            /\ timeout' = [timeout EXCEPT ![c] = Window + ClientSlack]
       ELSE /\ call' = [call EXCEPT ![c] = "unavailable"]
            /\ UNCHANGED <<backlog, timeout>>
  /\ UNCHANGED <<daemonVars, handler, patience, sent, history, spent>>

(* The reply, or an empty one (not JSON) when the daemon hung up. *)
Receive(c) ==
  /\ call[c] = "calling"
  /\ handler[c] \in {"cancelled", "clear", "hungup"}
  /\ call' = [call EXCEPT ![c] = IF handler[c] = "hungup" THEN "unavailable" ELSE handler[c]]
  /\ UNCHANGED <<daemonVars, socketVars, timeout, sent, history, spent>>

TimeOut(c) ==
  /\ call[c] = "calling" /\ timeout[c] = 0
  /\ handler[c] \notin {"cancelled", "clear", "hungup"}
  /\ call' = [call EXCEPT ![c] = "unavailable"]
  /\ UNCHANGED <<daemonVars, socketVars, timeout, sent, history, spent>>

(* The router drops a plan that was not confirmed; a heedful one also      *)
(* drops a plan that was confirmed without a window.                       *)
Drop(c) ==
  /\ call[c] = "cancelled" \/ (Heedful /\ call[c] = "unavailable")
  /\ call' = [call EXCEPT ![c] = "over"]
  /\ UNCHANGED <<daemonVars, socketVars, timeout, sent, history, spent>>

(* deliver_batch begins by asking once whether the socket's path exists. *)
StartBatch(c) ==
  /\ call[c] = "clear" \/ (~Heedful /\ call[c] = "unavailable")
  /\ call' = [call EXCEPT ![c] = IF sock \/ c \notin Real THEN "batch" ELSE "over"]
  /\ UNCHANGED <<daemonVars, socketVars, timeout, sent, history, spent>>

(* transport.deliver; what it may refuse is module Transport's business. *)
Send(c) ==
  /\ call[c] = "batch"
  /\ call' = [call EXCEPT ![c] = "over"]
  /\ sent' = sent \cup {c}
  /\ UNCHANGED <<daemonVars, socketVars, timeout, history, spent>>

-----------------------------------------------------------------------------
(* The daemon: cancel_socket_server.handle. *)

(* Mutant: a controller that is not idle answers "not cancelled". *)
Request_BusyAnswersClear(c) ==
  /\ Running /\ backlog # <<>> /\ c = Head(backlog)
  /\ backlog' = Tail(backlog)
  /\ IF state = "IDLE"
       THEN /\ state' = "CANCEL_ARMED" /\ owner' = c
            /\ left' = Window /\ detected' = FALSE
            /\ handler' = [handler EXCEPT ![c] = "polling"]
            /\ patience' = [patience EXCEPT ![c] = Window + Slack]
       ELSE /\ handler' = [handler EXCEPT ![c] = "clear"]
            /\ UNCHANGED <<state, owner, left, detected, patience>>
  /\ UNCHANGED <<alive, sock, mic, framed, blocked, routerVars, history, spent>>

(* Mutant: the handler outwaits the client. *)
Request_LongPoll(c) ==
  /\ Running /\ backlog # <<>> /\ c = Head(backlog)
  /\ backlog' = Tail(backlog)
  /\ IF state = "IDLE"
       THEN /\ state' = "CANCEL_ARMED" /\ owner' = c
            /\ left' = Window + ClientSlack /\ detected' = FALSE
            /\ handler' = [handler EXCEPT ![c] = "polling"]
            /\ patience' = [patience EXCEPT ![c] = Window + ClientSlack + Slack]
       ELSE /\ handler' = [handler EXCEPT ![c] = "hungup"]
            /\ UNCHANGED <<state, owner, left, detected, patience>>
  /\ UNCHANGED <<alive, sock, mic, framed, blocked, routerVars, history, spent>>

(* arm_cancel: only an idle controller arms; otherwise hang up. *)
Request(c) ==
  /\ Running /\ backlog # <<>> /\ c = Head(backlog)
  /\ backlog' = Tail(backlog)
  /\ IF state = "IDLE"
       THEN /\ state' = "CANCEL_ARMED" /\ owner' = c
            /\ left' = Window /\ detected' = FALSE
            /\ handler' = [handler EXCEPT ![c] = "polling"]
            /\ patience' = [patience EXCEPT ![c] = Window + Slack]
       ELSE /\ handler' = [handler EXCEPT ![c] = "hungup"]
            /\ UNCHANGED <<state, owner, left, detected, patience>>
  /\ UNCHANGED <<alive, sock, mic, framed, blocked, routerVars, history, spent>>

(* Does the poll find the window closed, or its own deadline past? *)
Settled(c) == handler[c] = "polling" /\ (state # "CANCEL_ARMED" \/ patience[c] = 0)

Answer(c) ==
  /\ Running /\ Settled(c)
  /\ handler' = [handler EXCEPT ![c] = IF detected THEN "cancelled" ELSE "clear"]
  /\ UNCHANGED <<daemonVars, backlog, patience, routerVars, history, spent>>

-----------------------------------------------------------------------------
(* The daemon: LiveController.on_frame. *)

(* Mutants: the detection is not recorded; the deadline is not looked at. *)
CancelFrame_Unrecorded(hey) ==
  /\ Running /\ mic /\ state = "CANCEL_ARMED"
  /\ framed' = TRUE
  /\ state' = IF left = 0 \/ hey THEN "IDLE" ELSE state
  /\ closed' = IF left = 0 THEN closed \cup {owner} ELSE closed
  /\ asked' = IF left > 0 /\ hey THEN asked \cup {owner} ELSE asked
  /\ UNCHANGED <<alive, sock, mic, blocked, owner, left, detected, socketVars, routerVars, spent>>

CancelFrame_NoDeadline(hey) ==
  /\ Running /\ mic /\ state = "CANCEL_ARMED"
  /\ framed' = TRUE
  /\ state' = IF hey THEN "IDLE" ELSE state
  /\ detected' = (detected \/ hey)
  /\ asked' = IF hey THEN asked \cup {owner} ELSE asked
  /\ UNCHANGED <<alive, sock, mic, blocked, owner, left, closed, socketVars, routerVars, spent>>

(* _on_cancel_frame: the deadline first, then the score. *)
CancelFrame(hey) ==
  /\ Running /\ mic /\ state = "CANCEL_ARMED"
  /\ framed' = TRUE
  /\ state' = IF left = 0 \/ hey THEN "IDLE" ELSE state
  /\ closed' = IF left = 0 THEN closed \cup {owner} ELSE closed
  /\ detected' = (detected \/ (left > 0 /\ hey))
  /\ asked' = IF left > 0 /\ hey THEN asked \cup {owner} ELSE asked
  /\ UNCHANGED <<alive, sock, mic, blocked, owner, left, socketVars, routerVars, spent>>

(* An idle frame; a verified wake word starts a dictation. *)
IdleFrame ==
  /\ Running /\ mic /\ state = "IDLE"
  /\ framed' = TRUE
  /\ \/ UNCHANGED <<state, spent>>
     \/ Spend("dictations") /\ state' = "CAPTURING"
  /\ UNCHANGED <<alive, sock, mic, blocked, owner, left, detected, socketVars, routerVars,
                 history>>

(* A frame of the dictation; the one that ends it is delivered in place. *)
CaptureFrame ==
  /\ Running /\ mic /\ state = "CAPTURING"
  /\ framed' = TRUE
  /\ blocked' \in BOOLEAN
  /\ UNCHANGED <<alive, sock, mic, state, owner, left, detected, socketVars, routerVars,
                 history, spent>>

(* _report_and_deliver returns and the controller goes idle. *)
Delivered ==
  /\ alive /\ blocked
  /\ blocked' = FALSE
  /\ state' = "IDLE"
  /\ UNCHANGED <<alive, sock, mic, framed, owner, left, detected, socketVars, routerVars,
                 history, spent>>

-----------------------------------------------------------------------------
(* The environment. *)

MicStalls ==
  /\ mic /\ Spend("stalls")
  /\ mic' = FALSE
  /\ UNCHANGED <<alive, sock, framed, blocked, state, owner, left, detected, socketVars,
                 routerVars, history>>

MicRecovers ==
  /\ ~mic /\ mic' = TRUE
  /\ UNCHANGED <<alive, sock, framed, blocked, state, owner, left, detected, socketVars,
                 routerVars, history, spent>>

(* A connection the daemon has accepted but not handled. *)
Waiting(c) == \E n \in 1..Len(backlog) : backlog[n] = c

(* The daemon dies.  The kernel closes its connections; the socket's path  *)
(* stays after a crash and may go in a clean exit.                         *)
Die ==
  /\ alive /\ Spend("crashes")
  /\ alive' = FALSE
  /\ sock' \in BOOLEAN
  /\ blocked' = FALSE /\ state' = "IDLE" /\ left' = 0 /\ detected' = FALSE
  /\ backlog' = <<>>
  /\ handler' = [c \in Rounds |-> IF handler[c] = "polling" \/ Waiting(c)
                                  THEN "hungup" ELSE handler[c]]
  /\ UNCHANGED <<mic, framed, owner, patience, routerVars, history>>

(* live() unlinks a stale path and binds it again. *)
Start ==
  /\ ~alive
  /\ alive' = TRUE /\ sock' = TRUE
  /\ UNCHANGED <<mic, framed, blocked, state, owner, left, detected, socketVars, routerVars,
                 history, spent>>

(* Half a second passes: frames arrive 31 times a second, a handler polls  *)
(* fifty times, a client notices its answer at once.                       *)
Tick ==
  /\ Running => /\ mic => framed
                /\ backlog = <<>>
                /\ \A c \in Rounds : ~Settled(c)
  /\ \A c \in Rounds : call[c] = "calling" =>
       timeout[c] > 0 /\ handler[c] \notin {"cancelled", "clear", "hungup"}
  /\ left' = Less(left)
  /\ patience' = [c \in Rounds |-> Less(patience[c])]
  /\ timeout' = [c \in Rounds |-> Less(timeout[c])]
  /\ framed' = FALSE
  /\ UNCHANGED <<alive, sock, mic, blocked, state, owner, detected, backlog, handler, call, sent,
                 history, spent>>

-----------------------------------------------------------------------------

Init ==
  /\ alive = TRUE /\ sock = TRUE /\ mic = TRUE /\ framed = FALSE /\ blocked = FALSE
  /\ state = "IDLE" /\ owner = NoRound /\ left = 0 /\ detected = FALSE
  /\ backlog = <<>>
  /\ handler = [c \in Rounds |-> "none"]
  /\ patience = [c \in Rounds |-> 0]
  /\ call = [c \in Rounds |-> "new"]
  /\ timeout = [c \in Rounds |-> 0]
  /\ sent = {} /\ asked = {} /\ closed = {}
  /\ spent = [k \in DOMAIN Bounded |-> 0]

RouterMoves(c) ==
  Confirm(c) \/ Receive(c) \/ TimeOut(c) \/ Drop(c) \/ StartBatch(c) \/ Send(c)

HandlerMoves(c) == Request(c) \/ Answer(c)

Frame == (\E hey \in BOOLEAN : CancelFrame(hey)) \/ IdleFrame \/ CaptureFrame

Next ==
  \/ \E c \in Rounds : RouterMoves(c) \/ HandlerMoves(c)
  \/ Frame \/ Delivered
  \/ MicStalls \/ MicRecovers \/ Die \/ Start
  \/ Tick

Spec == Init /\ [][Next]_vars

(* The event loop and the router run, time passes, a delivery comes to an  *)
(* end (its tmux and speech calls are bounded) and frames come back.       *)
Fairness ==
  /\ WF_vars(Tick) /\ WF_vars(Frame) /\ WF_vars(Delivered) /\ WF_vars(MicRecovers)
  /\ \A c \in Rounds : WF_vars(RouterMoves(c)) /\ WF_vars(HandlerMoves(c))

FairSpec == Spec /\ Fairness

-----------------------------------------------------------------------------
(* Properties *)

TypeOK ==
  /\ {alive, sock, mic, framed, blocked, detected} \subseteq BOOLEAN
  /\ state \in {"IDLE", "CAPTURING", "CANCEL_ARMED"}
  /\ owner \in Rounds \cup {NoRound}
  /\ left \in 0..Window
  /\ backlog \in Seq(Rounds)
  /\ handler \in [Rounds -> HandlerStates]
  /\ patience \in [Rounds -> 0..(Window + Slack)]
  /\ call \in [Rounds -> CallStates]
  /\ timeout \in [Rounds -> 0..(Window + ClientSlack)]
  /\ {sent, asked, closed} \subseteq SUBSET Rounds
  /\ spent \in [DOMAIN Bounded -> Nat]

(* What he cancelled is not sent: a "Hey Jarvis" detected in a round's      *)
(* window reaches that round's router, whatever happens to the daemon, the  *)
(* microphone or the next dictation in between.                             *)
CancelHonoured == asked \cap sent = {}

(* A window is meant.  While frames arrive, a plan goes to a real target    *)
(* only after one that was listened to up to its deadline ("a missing       *)
(* safety control must never look identical to that control having run",    *)
(* say_feedback.py:265; behind a stalled microphone the handler's own       *)
(* deadline answers instead).  And, dictations and stalls apart, one is     *)
(* open only while a router waits for its outcome: none is left behind to   *)
(* swallow the "Hey Jarvis" of a later dictation.                           *)
WindowsAreMeant ==
  spent.stalls = 0 =>
    /\ sent \cap Real \subseteq closed
    /\ spent.dictations = 0 /\ state = "CANCEL_ARMED" => call[owner] = "calling"

(* An armed window does not stay armed: the daemon hears a wake word again. *)
WindowCloses == state = "CANCEL_ARMED" ~> state # "CANCEL_ARMED"
=============================================================================
