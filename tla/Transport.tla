------------------------------- MODULE Transport -------------------------------
(***************************************************************************)
(* l4_controller/transport.py: keystrokes for one tmux target.             *)
(*                                                                         *)
(* A call (deliver, answer_blocked_question, approve_permission_prompt)    *)
(* takes its process's lock for the target, looks at the pane, refuses     *)
(* what is not safe, and sends its keys one tmux command at a time.  The   *)
(* pane is a Claude Code session and moves on its own: turns end, it asks  *)
(* questions and permission, its user types, opens views and answers.      *)
(***************************************************************************)
EXTENDS Naturals, Sequences

CONSTANTS
  Calls,         \* the calls made on this target
  Plans,         \* what the calls and the user's habits may be: see Kinds, UserMoves
  ProcOf,        \* the process that makes each: locks are per process
  Waits,         \* STUCK_VIEW_WAIT_ATTEMPTS
  Polls,         \* VIEW_OPEN_, DISMISS_VERIFY_, ANSWER_VERIFY_POLL_ATTEMPTS
  Settles,       \* BTW_ANSWER_SETTLE_POLL_ATTEMPTS
  Steady,        \* does the pane hold still between a look and the keys after it?
  MaxMoves,      \* bound: moves the pane and its user make
  MaxLost        \* bound: Escape and digit keys the pane ignores

Kinds == {"text", "compact", "view", "btw", "answer", "approve"}
UserMoves == {"types", "typesAhead", "views", "viewsMeanwhile", "answers", "closesBtw"}

ASSUME TransportAssumption ==
  /\ Plans \subseteq [want : [Calls -> Kinds], habits : SUBSET UserMoves]
  /\ {Waits, Polls, Settles} \subseteq Nat \ {0}
  /\ Steady \in BOOLEAN
  /\ {MaxMoves, MaxLost} \subseteq Nat

CONSTANT Him     \* the user at the pane

None == "none"

ASSUME HimAssumption == Him \notin Calls /\ None \notin Calls

VARIABLES
  plan,       \* the plan of this behaviour: it does not change
  screen,     \* what the pane shows: see Screens
  overlay,    \* whose /btw view lies over it, or None
  answering,  \* does that view still say "Answering..."?
  box,        \* who typed what is in the input box
  due,        \* whose commands are still to open their views
  owner,      \* who opened the view on the screen
  dialog,     \* how many questions and prompts there have been
  submitted,  \* every input box ever submitted
  lock,       \* the call that holds each process's lock, or None
  pc, tries,  \* where each call is
  read,       \* whose view each call has read, or None
  asked,      \* the dialog each call pressed its digit for
  result,     \* what each call returned
  stray,      \* keys sent where they did not belong
  moves, lost \* bounded counters

pane == <<screen, overlay, answering, box, due, owner, dialog, submitted>>
ctl  == <<plan, lock, pc, tries, result>>
vars == <<pane, ctl, read, asked, stray, moves, lost>>

Screens == {"prompt", "working", "readonly", "picker", "question", "permission", "gone"}

(* classify_pane_ansi: dialogs before busy, busy before views, and only     *)
(* then the input line, where typed text is not a ready prompt.             *)
State ==
  CASE screen = "question"   -> "blocked_question"
    [] screen = "permission" -> "permission_prompt"
    [] screen = "working"    -> "busy"
    [] screen \in {"readonly", "picker"} -> "persistent_view"
    [] screen = "gone"       -> "no_session"
    [] OTHER -> IF overlay = None /\ box = <<>> THEN "ready" ELSE "unknown"

BusyTolerant(c) == plan.want[c] \in {"compact", "btw"}
Delivers(c) == plan.want[c] \in {"text", "compact", "view", "btw"}

-----------------------------------------------------------------------------
(* Steps of a call.  A tmux command on a dead session fails. *)

Processes == {ProcOf[c] : c \in Calls}

Goto(c, label) == /\ pc' = [pc EXCEPT ![c] = label]
                  /\ tries' = [tries EXCEPT ![c] = 0]
                  /\ UNCHANGED <<plan, lock, result>>

Again(c) == tries' = [tries EXCEPT ![c] = @ + 1] /\ UNCHANGED <<plan, lock, pc, result>>

Return(c, r) ==
  /\ pc' = [pc EXCEPT ![c] = "done"]
  /\ tries' = [tries EXCEPT ![c] = 0]
  /\ result' = [result EXCEPT ![c] = r]
  /\ UNCHANGED plan
  /\ lock' = [lock EXCEPT ![ProcOf[c]] = None]

At(c, label) == pc[c] = label
Alive == screen # "gone"
Looks == UNCHANGED <<pane, read, asked, stray, moves, lost>>

Raise(c) == ~Alive /\ Return(c, "raised") /\ Looks

(* _lock_for_target: one lock per target and process. *)
Acquire_NoLock(c) ==           \* mutant: a lock on each Transport object
  /\ At(c, "start") /\ lock' = [lock EXCEPT ![ProcOf[c]] = c]
  /\ pc' = [pc EXCEPT ![c] = "check"] /\ UNCHANGED <<plan, tries, result>> /\ Looks

Acquire(c) ==
  /\ At(c, "start") /\ lock[ProcOf[c]] = None
  /\ lock' = [lock EXCEPT ![ProcOf[c]] = c]
  /\ pc' = [pc EXCEPT ![c] = "check"] /\ UNCHANGED <<plan, tries, result>> /\ Looks

Accepts(c) == State = "ready" \/ (State = "busy" /\ BusyTolerant(c))

(* The gate of _deliver_locked; the slash guard has let the payload pass. *)
Gate(c) == IF Accepts(c) THEN Goto(c, "type") ELSE Return(c, State)

Check_NoRecovery(c) ==         \* mutant: a stuck view is refused like the rest
  /\ At(c, "check") /\ Delivers(c)
  /\ IF Alive THEN Gate(c) ELSE Return(c, "no_session")
  /\ Looks

Check(c) ==
  /\ At(c, "check") /\ Delivers(c)
  /\ IF ~Alive THEN Return(c, "no_session")
     ELSE IF State = "persistent_view" THEN Goto(c, "wait") ELSE Gate(c)
  /\ Looks

Recheck_Trusting(c) ==         \* mutant: after a recovery the pane must be ready
  At(c, "recheck") /\ Alive /\ Goto(c, "type") /\ Looks

Recheck(c) == At(c, "recheck") /\ Alive /\ Gate(c) /\ Looks

-----------------------------------------------------------------------------
(* _recover_stuck_view *)

Wait_Patient(c) ==             \* mutant: it waits for as long as the view stays
  /\ At(c, "wait") /\ Alive
  /\ IF State # "persistent_view" THEN Goto(c, "recheck") ELSE UNCHANGED ctl
  /\ Looks

Wait(c) ==
  /\ At(c, "wait") /\ Alive
  /\ IF State # "persistent_view" THEN Goto(c, "recheck")
     ELSE IF tries[c] + 1 < Waits THEN Again(c) ELSE Goto(c, "identify")
  /\ Looks

(* Only a view whose content is a known read-only one is touched. *)
Identify_Any(c) ==             \* mutant: the tab bar alone is enough
  At(c, "identify") /\ Alive /\ Goto(c, "dismiss") /\ Looks

Identify(c) ==
  /\ At(c, "identify") /\ Alive
  /\ Goto(c, IF screen = "readonly" THEN "dismiss" ELSE "recheck")
  /\ Looks

(* Announced either way; then the gate has the last word. *)
Dismissed(c) ==
  /\ At(c, "dismissed") /\ Alive
  /\ IF State = "ready" \/ tries[c] + 1 >= Polls THEN Goto(c, "recheck") ELSE Again(c)
  /\ Looks

-----------------------------------------------------------------------------
(* Keys. *)

Stray(c, key, meant) ==
  stray' = IF meant THEN stray ELSE stray \cup {<<c, key, screen, overlay>>}

(* What is typed reaches the input line if no view lies over it.            *)
Input == screen \in {"prompt", "working"} /\ overlay = None
Takes(c) == Input /\ (screen = "working" => BusyTolerant(c))

(* The text, typed without Enter. *)
Type(c) ==
  /\ At(c, "type")
  /\ IF ~Alive
     THEN Return(c, "tmux_error") /\ Looks
     ELSE /\ Goto(c, "enter")
          /\ Stray(c, "text", Takes(c))
          /\ box' = IF Input THEN Append(box, c) ELSE box
          /\ UNCHANGED <<screen, overlay, answering, due, owner, dialog, submitted,
                         read, asked, moves, lost>>

AfterEnter(c) == CASE plan.want[c] = "view" -> "opened"
                   [] plan.want[c] = "btw"  -> "opened"
                   [] OTHER -> "done"

(* Enter submits the box; a dialog takes what is marked, a view whatever    *)
(* the key means to it.                                                     *)
Submits(c) ==
  /\ submitted' = submitted \cup {box}
  /\ box' = <<>>
  /\ due' = IF AfterEnter(c) = "opened" THEN due \cup {c} ELSE due
  /\ screen' = IF plan.want[c] \in {"text", "compact"} THEN "working" ELSE screen

Enter(c) ==
  /\ At(c, "enter")
  /\ IF ~Alive
     THEN Return(c, "tmux_error") /\ Looks
     ELSE /\ IF AfterEnter(c) = "opened" THEN Goto(c, "opened") ELSE Return(c, "ok")
          /\ Stray(c, "Enter", Takes(c))
          /\ IF Input
             THEN Submits(c)
             ELSE /\ screen' = IF overlay = None /\ screen \in {"question", "permission"}
                               THEN "working" ELSE screen
                  /\ UNCHANGED <<submitted, box, due>>
          /\ UNCHANGED <<overlay, answering, owner, dialog, read, asked, moves, lost>>

(* Escape closes what lies on top; a running turn it interrupts. *)
Escapes ==
  \/ /\ overlay # None
     /\ overlay' = None /\ answering' = FALSE /\ UNCHANGED <<screen, owner>>
  \/ /\ overlay = None
     /\ CASE screen \in {"question", "permission"} -> screen' = "working" /\ UNCHANGED owner
          [] OTHER -> screen' = "prompt" /\ owner' = None
     /\ UNCHANGED <<overlay, answering>>

Escape(c, from, to, meant) ==
  /\ At(c, from) /\ Alive
  /\ Goto(c, to)
  /\ Stray(c, "Escape", meant)
  /\ \/ Escapes /\ UNCHANGED lost
     \/ lost < MaxLost /\ lost' = lost + 1 /\ UNCHANGED <<overlay, answering, screen, owner>>
  /\ UNCHANGED <<box, due, dialog, submitted, read, asked, moves>>

Dismiss(c) == Escape(c, "dismiss", "dismissed", screen = "readonly")

-----------------------------------------------------------------------------
(* _handle_readonly_view and _handle_busy_tolerant_view *)

(* Has the view of this command's kind come up? *)
ViewOpen(c) == IF plan.want[c] = "btw" THEN overlay # None ELSE State = "persistent_view"

(* A view that has not come up within the window may still do so later.     *)
Opened(c) ==
  /\ At(c, "opened") /\ Alive
  /\ IF ViewOpen(c)
     THEN /\ Goto(c, IF plan.want[c] = "btw" THEN "settle" ELSE "close")
          /\ read' = [read EXCEPT ![c] = IF plan.want[c] = "btw" THEN overlay ELSE owner]
          /\ UNCHANGED <<pane, asked, stray, moves, lost>>
     ELSE /\ IF tries[c] + 1 < Polls THEN Again(c) ELSE Return(c, "view_not_opened")
          /\ Looks

(* The answer is waited for while the view stays open.  Escape follows even *)
(* where it has been seen to be closed.                                     *)
Settle(c) ==
  /\ At(c, "settle") /\ Alive
  /\ IF overlay # None /\ answering /\ tries[c] < Settles THEN Again(c) ELSE Goto(c, "close")
  /\ Looks

Close(c) == Escape(c, "close", "closed", IF plan.want[c] = "btw" THEN overlay # None
                                                            ELSE screen \in {"readonly", "picker"})

Gone(c) == IF plan.want[c] = "btw" THEN overlay = None ELSE State = "ready"

Closed(c) ==
  /\ At(c, "closed") /\ Alive
  /\ IF Gone(c) THEN Return(c, "ok")
     ELSE IF tries[c] + 1 < Polls THEN Again(c) ELSE Return(c, "dismiss_failed")
  /\ Looks

-----------------------------------------------------------------------------
(* answer_blocked_question and approve_permission_prompt *)

Dialog(c) == IF plan.want[c] = "answer" THEN "question" ELSE "permission"

Confirm(c) ==
  /\ At(c, "check") /\ ~Delivers(c)
  /\ IF ~Alive THEN Return(c, "no_session")
     ELSE IF screen = Dialog(c) THEN Goto(c, "press") ELSE Return(c, State)
  /\ Looks

(* One digit, no Enter. *)
Press(c) ==
  /\ At(c, "press")
  /\ IF ~Alive
     THEN Return(c, "tmux_error") /\ Looks
     ELSE /\ Goto(c, "pressed")
          /\ Stray(c, "digit", screen = Dialog(c) /\ overlay = None)
          /\ asked' = [asked EXCEPT ![c] = dialog]
          /\ \/ /\ screen' = IF overlay = None /\ screen \in {"question", "permission"}
                               THEN "working" ELSE screen
                /\ box' = IF Input THEN Append(box, c) ELSE box
                /\ UNCHANGED lost
             \/ lost < MaxLost /\ lost' = lost + 1 /\ UNCHANGED <<screen, box>>
          /\ UNCHANGED <<overlay, answering, due, owner, dialog, submitted, read, moves>>

Pressed_Hopeful(c) ==          \* mutant: sent is as good as answered
  At(c, "pressed") /\ Alive /\ Return(c, "ok") /\ Looks

Pressed(c) ==
  /\ At(c, "pressed") /\ Alive
  /\ IF screen # Dialog(c) THEN Return(c, "ok")
     ELSE IF tries[c] + 1 < Polls THEN Again(c) ELSE Return(c, "not_confirmed")
  /\ Looks

-----------------------------------------------------------------------------
(* The pane and its user. *)

(* Between a look and the keys it justifies. *)
InGap(c) == pc[c] \in {"type", "enter", "dismiss", "close", "press"}

MayMove == Steady => \A c \in Calls : ~InGap(c)

Moves == /\ moves < MaxMoves /\ moves' = moves + 1
         /\ MayMove
         /\ UNCHANGED <<ctl, read, asked, stray, lost>>

(* A submitted view command opens its view, however late, or is not         *)
(* honoured after all.                                                      *)
PaneOpens ==
  /\ MayMove /\ screen \in {"prompt", "working"}
  /\ \E c \in due :
       /\ due' = due \ {c}
       /\ \/ /\ plan.want[c] = "view" /\ overlay = None
             /\ screen' = "readonly" /\ owner' = c /\ UNCHANGED <<overlay, answering>>
          \/ plan.want[c] = "btw" /\ overlay' = c /\ answering' = TRUE /\ UNCHANGED <<screen, owner>>
          \/ UNCHANGED <<screen, owner, overlay, answering>>
  /\ UNCHANGED <<box, dialog, submitted, ctl, read, asked, stray, moves, lost>>

BtwAnswers ==
  /\ answering /\ answering' = FALSE
  /\ UNCHANGED <<screen, overlay, box, due, owner, dialog, submitted, ctl, read, asked, stray, moves, lost>>

(* A turn ends, asks, or the session dies with what it showed. *)
Works ==
  /\ Moves
  /\ \/ /\ screen = "working" /\ screen' \in {"prompt", "question", "permission"}
        /\ dialog' = IF screen' = "prompt" THEN dialog ELSE dialog + 1
        /\ UNCHANGED <<box, due, owner, overlay, answering>>
     \/ /\ Alive /\ screen' = "gone" /\ overlay' = None /\ answering' = FALSE
        /\ box' = <<>> /\ due' = {} /\ owner' = None /\ UNCHANGED dialog
  /\ UNCHANGED submitted

UserTypes ==
  /\ Moves /\ Input
  /\ \/ "types" \in plan.habits /\ screen = "prompt"
     \/ "typesAhead" \in plan.habits /\ screen = "working"
  /\ \/ Him \notin {box[i] : i \in DOMAIN box} /\ box' = Append(box, Him) /\ UNCHANGED <<screen, submitted>>
     \/ box # <<>> /\ box' = <<>> /\ screen' = "working" /\ submitted' = submitted \cup {box}
  /\ UNCHANGED <<overlay, answering, due, owner, dialog>>

UserViews ==
  /\ Moves /\ "views" \in plan.habits
  /\ \/ /\ State = "ready"
        /\ "viewsMeanwhile" \in plan.habits \/ \A c \in Calls : pc[c] # "opened"
        /\ screen' \in {"readonly", "picker"}
        /\ owner' = Him
     \/ screen \in {"readonly", "picker"} /\ owner = Him /\ screen' = "prompt" /\ owner' = None
  /\ UNCHANGED <<overlay, answering, box, due, dialog, submitted>>

UserAnswers ==
  /\ Moves /\ "answers" \in plan.habits
  /\ screen \in {"question", "permission"} /\ screen' = "working"
  /\ UNCHANGED <<overlay, answering, box, due, owner, dialog, submitted>>

UserClosesBtw ==
  /\ Moves /\ "closesBtw" \in plan.habits /\ overlay # None
  /\ overlay' = None /\ answering' = FALSE
  /\ UNCHANGED <<screen, box, due, owner, dialog, submitted>>

-----------------------------------------------------------------------------

Init ==
  /\ plan \in Plans
  /\ screen \in {"prompt", "working", "readonly", "picker", "question", "permission"}
  /\ overlay = None /\ answering = FALSE /\ box = <<>> /\ due = {}
  /\ owner = IF screen \in {"readonly", "picker"} THEN Him ELSE None
  /\ dialog = IF screen \in {"question", "permission"} THEN 1 ELSE 0
  /\ submitted = {}
  /\ lock = [p \in Processes |-> None]
  /\ pc = [c \in Calls |-> "start"] /\ tries = [c \in Calls |-> 0]
  /\ read = [c \in Calls |-> None] /\ asked = [c \in Calls |-> 0]
  /\ result = [c \in Calls |-> None]
  /\ stray = {} /\ moves = 0 /\ lost = 0

Looking == {"recheck", "wait", "identify", "dismiss", "dismissed",
            "opened", "settle", "close", "closed", "pressed"}

Deliver(c) == Acquire(c) \/ Check(c) \/ Recheck(c) \/ Type(c) \/ Enter(c)
Recover(c) == Wait(c) \/ Identify(c) \/ Dismiss(c) \/ Dismissed(c)
ReadView(c) == Opened(c) \/ Settle(c) \/ Close(c) \/ Closed(c)
AnswerDialog(c) == Confirm(c) \/ Press(c) \/ Pressed(c)
Fails(c) == pc[c] \in Looking /\ Raise(c)

Step(c) == Deliver(c) \/ Recover(c) \/ ReadView(c) \/ AnswerDialog(c) \/ Fails(c)

Pane == PaneOpens \/ BtwAnswers \/ Works
User == UserTypes \/ UserViews \/ UserAnswers \/ UserClosesBtw

Next == (\E c \in Calls : Step(c)) \/ Pane \/ User

Spec == Init /\ [][Next]_vars

(* Calls run on; a submitted view command takes effect.  Nothing else about *)
(* the session or its user is certain.                                      *)
FairSpec == Spec /\ (\A c \in Calls : WF_vars(Step(c))) /\ WF_vars(PaneOpens)

-----------------------------------------------------------------------------
(* Properties *)

TypeOK ==
  /\ plan \in Plans
  /\ screen \in Screens /\ overlay \in Calls \cup {None} /\ answering \in BOOLEAN
  /\ {box} \cup submitted \subseteq Seq(Calls \cup {Him})
  /\ due \subseteq Calls /\ {owner} \cup {read[c] : c \in Calls} \subseteq Calls \cup {Him, None}
  /\ lock \in [Processes -> Calls \cup {None}]
  /\ \A c \in Calls : /\ pc[c] \in Looking \cup {"start", "check", "type", "enter", "press", "done"}
                      /\ tries[c] <= (IF pc[c] = "settle" THEN Settles
                                      ELSE IF pc[c] = "wait" THEN Waits - 1 ELSE Polls - 1)
                      /\ asked[c] <= dialog

(* "Payload corruption, not an ordering nuance": no payload is submitted    *)
(* together with another one or with what the user has typed                *)
(* (transport.py:24-35, 101-104), unless he types ahead while the session   *)
(* is busy, when the input line is not looked at.                           *)
SentAlone == "typesAhead" \notin plan.habits =>
  \A b \in submitted : (\E i \in DOMAIN b : b[i] \in Calls) => Len(b) = 1

(* A view command that has not read its own view, or could not close it: to *)
(* its caller the pane is left "in an uncertain state".                     *)
Missed(d) == result[d] # None /\ (read[d] # d \/ result[d] = "dismiss_failed")

(* Text and Enter go to an input line, Escape to an open view, a digit to   *)
(* the kind of dialog it answers: what the re-checks before each key and    *)
(* the positive identification of views are for (transport.py:53-64).  The  *)
(* exceptions are an overlay its user closes while it is waited for, and,   *)
(* as a busy session is not looked at for overlays, the view of a           *)
(* side-question that was missed.                                           *)
NoStrayKeys == "closesBtw" \notin plan.habits =>
  \A k \in stray : k[4] \in Calls /\ Missed(k[4])

(* ok is never a guess: the payload was submitted, its view is off the      *)
(* screen again, the dialog its digit was for is over.  And what a view     *)
(* command reads back is the view it opened itself, not one the user or an  *)
(* earlier command left on the screen, as long as the user opens none in    *)
(* the very moments the command waits for its own.  The exceptions are what *)
(* a missed view does to the calls after it: it is taken for theirs, and a  *)
(* text for a busy session goes into it.                                    *)
OkMeansDone == \A c \in Calls : result[c] = "ok" =>
  /\ Delivers(c) => \/ \E b \in submitted : \E i \in DOMAIN b : b[i] = c
                    \/ \E k \in stray : k[1] = c /\ k[4] \in Calls
  /\ read[c] = c => owner # c /\ overlay # c
  /\ ~Delivers(c) => asked[c] < dialog \/ screen # Dialog(c)
  /\ plan.want[c] = "view" /\ "viewsMeanwhile" \notin plan.habits =>
       read[c] = c \/ (read[c] \in Calls /\ Missed(read[c]))
  /\ plan.want[c] = "btw" => read[c] = c \/ (read[c] \in Calls /\ Missed(read[c]))

(* Nothing sticks.  Every call returns and gives the target back, whatever  *)
(* the pane does: each wait is bounded ("never block forever").  And a      *)
(* read-only view someone left open does not make the pane unreachable for  *)
(* good: the delivery that finds it gets rid of it, unless the pane ignores *)
(* the Escape (transport.py:314-).                                          *)
NothingSticks == \A c \in Calls :
  /\ pc[c] # "start" ~> pc[c] = "done"
  /\ (pc[c] = "check" /\ Delivers(c) /\ screen = "readonly") ~> (screen # "readonly" \/ lost > 0)
=============================================================================
