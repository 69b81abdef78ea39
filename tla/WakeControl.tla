----------------------------- MODULE WakeControl -----------------------------
(***************************************************************************)
(* l5_console/app/wake_control.py with the wake panel (app/console.py),    *)
(* the panic key and Quit (app/main.py) and the poll behind them           *)
(* (state/wake.py, state/poller.py): the console starting and stopping the *)
(* listener, which is what opens and closes the microphone.                *)
(*                                                                         *)
(* A button press is a message: it waits while the panel awaits an earlier *)
(* one, and is read by the label the button has when its turn comes.  The  *)
(* panic key is awaited by the application, beside the panel.  Both wait   *)
(* on one global, the handle of the process this console spawned.          *)
(***************************************************************************)
EXTENDS FiniteSets, Naturals

CONSTANTS
  Pids,
  NoPid,
  MaxStarts,  \* bound: listeners started, here or elsewhere
  MaxPresses, \* bound: presses of the button
  MaxFaults   \* bound: polls that fail or stall

ASSUME WakeAssumption == /\ NoPid \notin Pids
                         /\ {MaxStarts, MaxPresses, MaxFaults} \subseteq Nat

Waiters == {"panel", "panic"}

VARIABLES
  proc,     \* each listener process, with what it takes to end it
  mine,     \* those spawned by this console
  handle,   \* wake_control._process
  stop,     \* each waiter's stop(): which signal it has sent
  aimed,    \* history: the process each waiter began to stop
  pressed,  \* presses not handled yet
  label, disabled, \* the button
  shown,    \* the status line
  polled,   \* JarvisState.wake
  running,  \* the application's copy of wake.running
  console,  \* "open", "warning" (quit pressed while listening), "closed" or "crashed"
  unpolled, unshown, \* history: a listener started since the poll, and since the poll shown
  starts, presses, faults

button == <<pressed, label, disabled>>
view == <<shown, polled, running, unpolled, unshown>>
wakeVars == <<proc, mine, handle, stop, aimed, button, view, console, starts, presses, faults>>

Live == {p \in Pids : proc[p] \notin {"unborn", "gone"}}
Open == console \in {"open", "warning"}

-----------------------------------------------------------------------------
(* Processes *)

(* Most end on SIGTERM; some need SIGKILL; one wedged in a system call     *)
(* survives both.                                                          *)
Natures == {"normal", "deaf", "wedged"}

Spawned(p) ==
  /\ proc[p] = "unborn" /\ starts < MaxStarts /\ starts' = starts + 1
  /\ \E n \in Natures : proc' = [proc EXCEPT ![p] = n]
  /\ unpolled' = TRUE /\ unshown' = TRUE

(* run_daemon.sh by hand, in a terminal this console never touched. *)
StartsElsewhere(p) ==
  /\ Spawned(p)
  /\ UNCHANGED <<mine, handle, stop, aimed, button, shown, polled, running, console,
                 presses, faults>>

(* It ends, killed or by itself. *)
Exits(p) ==
  /\ proc[p] \in {"normal", "dying"}
  /\ proc' = [proc EXCEPT ![p] = "gone"]
  /\ UNCHANGED <<mine, handle, stop, aimed, button, view, console, starts, presses, faults>>

Obeyed(p, signal) ==
  \/ proc[p] = "normal"
  \/ proc[p] = "deaf" /\ signal = "kill"
Send(p, signal) == proc' = IF Obeyed(p, signal) THEN [proc EXCEPT ![p] = "dying"] ELSE proc

-----------------------------------------------------------------------------
(* wake_control.stop *)

Dead(p) == p \notin Live

(* Begun by w: nothing to stop, or the first signal. *)
Stop(w) ==
  IF Dead(handle)
  THEN /\ handle' = NoPid
       /\ UNCHANGED <<proc, stop, aimed>>
  ELSE /\ Send(handle, "term")
       /\ stop' = [stop EXCEPT ![w] = "term"]
       /\ aimed' = [aimed EXCEPT ![w] = handle]
       /\ UNCHANGED handle

Waiting(w) == Open /\ stop[w] # "no"
Rests == UNCHANGED <<mine, aimed, button, view, starts, presses, faults>>

(* _wait_for_exit looks at the handle there is now; the other waiter may   *)
(* have been first to clear it, and then there is no poll() to call.       *)
LosesHandle(w) ==
  /\ Waiting(w) /\ handle = NoPid
  /\ console' = "crashed"
  /\ UNCHANGED <<proc, handle, stop>> /\ Rests

SeesExit(w) ==
  /\ Waiting(w) /\ handle # NoPid /\ proc[handle] = "gone"
  /\ handle' = NoPid
  /\ stop' = [stop EXCEPT ![w] = "no"]
  /\ UNCHANGED <<proc, console>> /\ Rests

(* Mutant: SIGKILL cannot fail. *)
GivesUp_Clears(w) ==
  /\ Waiting(w) /\ handle # NoPid /\ proc[handle] # "gone"
  /\ stop[w] = "kill"
  /\ stop' = [stop EXCEPT ![w] = "no"]
  /\ handle' = NoPid
  /\ UNCHANGED <<proc, console>> /\ Rests

(* Mutant: the same signal again. *)
Escalates_Gently(w) ==
  /\ Waiting(w) /\ handle # NoPid /\ proc[handle] # "gone"
  /\ stop[w] = "term"
  /\ Send(handle, "term")
  /\ stop' = [stop EXCEPT ![w] = "kill"]
  /\ UNCHANGED <<handle, console>> /\ Rests

(* Three seconds after SIGTERM, and three after SIGKILL. *)
Escalates(w) ==
  /\ Waiting(w) /\ handle # NoPid /\ proc[handle] # "gone"
  /\ stop[w] = "term"
  /\ Send(handle, "kill")
  /\ stop' = [stop EXCEPT ![w] = "kill"]
  /\ UNCHANGED <<handle, console>> /\ Rests

GivesUp(w) ==
  /\ Waiting(w) /\ handle # NoPid /\ proc[handle] # "gone"
  /\ stop[w] = "kill"
  /\ stop' = [stop EXCEPT ![w] = "no"]
  /\ UNCHANGED <<proc, handle, console>> /\ Rests

-----------------------------------------------------------------------------
(* The poll, and what the panel makes of it *)

(* is_running: any such process, whoever started it. *)
Poll ==
  /\ Open
  /\ polled' = [running |-> Live # {}, ok |-> TRUE]
  /\ unpolled' = FALSE
  /\ UNCHANGED <<proc, mine, handle, stop, aimed, button, shown, running, unshown, console,
                 starts, presses, faults>>

(* It raises, or the last one is more than three intervals old. *)
PollFails ==
  /\ Open /\ faults < MaxFaults /\ faults' = faults + 1
  /\ polled' = [polled EXCEPT !.ok = FALSE]
  /\ UNCHANGED <<proc, mine, handle, stop, aimed, button, shown, running, unpolled, unshown,
                 console, starts, presses>>

(* update_state, every second or every 0.2 s: what is rendered, and the    *)
(* button, which is enabled and labelled again whatever is awaited.        *)
Refresh ==
  /\ Open
  /\ running' = polled.running
  /\ unshown' = unpolled
  /\ disabled' = ~polled.ok
  /\ IF polled.ok
     THEN /\ shown' = IF polled.running THEN "listening" ELSE "stopped"
          /\ label' = IF polled.running THEN "stop" ELSE "start"
     ELSE shown' = "unknown" /\ UNCHANGED label
  /\ UNCHANGED <<proc, mine, handle, stop, aimed, pressed, polled, unpolled, console,
                 starts, presses, faults>>

-----------------------------------------------------------------------------
(* The button, the panic key and Quit *)

Press ==
  /\ console = "open" /\ ~disabled
  /\ presses < MaxPresses /\ presses' = presses + 1
  /\ pressed' = pressed + 1
  /\ UNCHANGED <<proc, mine, handle, stop, aimed, label, disabled, view, console,
                 starts, faults>>

(* The turn of the first press: the panel is not awaiting another. *)
Turn == Open /\ pressed > 0 /\ stop["panel"] = "no"

(* start(), if both roles run and this console has no live process.        *)
Start(p) ==
  /\ Turn /\ label = "start"
  /\ Dead(handle)
  /\ Spawned(p)
  /\ mine' = mine \cup {p} /\ handle' = p
  /\ pressed' = pressed - 1 /\ label' = "starting" /\ disabled' = TRUE
  /\ UNCHANGED <<stop, aimed, shown, polled, running, console, presses, faults>>

(* A role is missing, a process is alive, or it could not be spawned. *)
StartRefused ==
  /\ Turn /\ label = "start"
  /\ pressed' = pressed - 1
  /\ \/ UNCHANGED disabled
     \/ disabled' = FALSE
  /\ UNCHANGED <<proc, mine, handle, stop, aimed, label, view, console, starts, presses, faults>>

(* Mutant: what stop() returns is shown at once. *)
StopPressed_Shows ==
  /\ Turn /\ label # "start"
  /\ pressed' = pressed - 1 /\ label' = "stopping" /\ disabled' = TRUE
  /\ shown' = "stopped"
  /\ Stop("panel")
  /\ UNCHANGED <<mine, polled, running, unpolled, unshown, console, starts, presses, faults>>

(* Any other label stops, "starting..." too. *)
StopPressed ==
  /\ Turn /\ label # "start"
  /\ pressed' = pressed - 1 /\ label' = "stopping" /\ disabled' = TRUE
  /\ Stop("panel")
  /\ UNCHANGED <<mine, view, console, starts, presses, faults>>

Panic ==
  /\ Open /\ stop["panic"] = "no" /\ running
  /\ Stop("panic")
  /\ UNCHANGED <<mine, button, view, console, starts, presses, faults>>

(* Mutant: the status line decides, which may say neither. *)
Quit_AsShown ==
  /\ console = "open"
  /\ console' = IF shown = "listening" THEN "warning" ELSE "closed"
  /\ UNCHANGED <<proc, mine, handle, stop, aimed, button, view, starts, presses, faults>>

Quit ==
  /\ console = "open"
  /\ console' = IF running THEN "warning" ELSE "closed"
  /\ UNCHANGED <<proc, mine, handle, stop, aimed, button, view, starts, presses, faults>>

(* QuitWarningScreen *)
QuitAnyway ==
  /\ console = "warning" /\ console' = "closed"
  /\ UNCHANGED <<proc, mine, handle, stop, aimed, button, view, starts, presses, faults>>

Cancel ==
  /\ console = "warning" /\ console' = "open"
  /\ UNCHANGED <<proc, mine, handle, stop, aimed, button, view, starts, presses, faults>>

-----------------------------------------------------------------------------
WakeInit ==
  /\ proc = [p \in Pids |-> "unborn"] /\ mine = {} /\ handle = NoPid
  /\ stop = [w \in Waiters |-> "no"] /\ aimed = [w \in Waiters |-> NoPid]
  /\ pressed = 0 /\ label = "start" /\ disabled = FALSE
  /\ shown = "unknown" /\ polled = [running |-> FALSE, ok |-> FALSE] /\ running = FALSE
  /\ console = "open" /\ unpolled = FALSE /\ unshown = FALSE
  /\ starts = 0 /\ presses = 0 /\ faults = 0

Waits(w) == LosesHandle(w) \/ SeesExit(w) \/ Escalates(w) \/ GivesUp(w)
Pressing == StartRefused \/ StopPressed \/ \E p \in Pids : Start(p)

WakeNext ==
  \/ \E p \in Pids : StartsElsewhere(p) \/ Exits(p)
  \/ \E w \in Waiters : Waits(w)
  \/ Poll \/ PollFails \/ Refresh
  \/ Press \/ Pressing \/ Panic \/ Quit \/ QuitAnyway \/ Cancel

WakeSpec == WakeInit /\ [][WakeNext]_wakeVars

(* A signalled process that does not ignore the signal ends, and the event *)
(* loop runs what is due.                                                  *)
WakeFairness ==
  /\ \A p \in Pids : WF_wakeVars(proc[p] = "dying" /\ Exits(p))
  /\ \A w \in Waiters : WF_wakeVars(Waits(w))
  /\ WF_wakeVars(Pressing)

WakeFairSpec == WakeSpec /\ WakeFairness

-----------------------------------------------------------------------------
(* Properties *)

WakeTypeOK ==
  /\ proc \in [Pids -> Natures \cup {"unborn", "dying", "gone"}]
  /\ mine \subseteq Pids /\ handle \in Pids \cup {NoPid}
  /\ stop \in [Waiters -> {"no", "term", "kill"}] /\ aimed \in [Waiters -> Pids \cup {NoPid}]
  /\ pressed \in 0..MaxPresses
  /\ shown \in {"unknown", "listening", "stopped"}
  /\ polled \in [running : BOOLEAN, ok : BOOLEAN]

(* WakePanel: "stopped" is shown only of a listener a poll has found gone, *)
(* never because one was told to stop: while a microphone is open it is    *)
(* shown for no longer than the next poll, and its rendering, take.        *)
StoppedIsTrue == Open /\ shown = "stopped" /\ Live # {} => unshown

(* action_quit: the console does not close over a live listener without a  *)
(* warning, unless it was started since the poll last rendered; neither a  *)
(* failed poll nor a stop under way makes it forget.                       *)
QuitWarns ==
  [][console = "open" /\ console' = "closed" => Live = {} \/ unshown]_wakeVars

(* start: two listeners of one console are never alive at once, although   *)
(* two stop() share the handle and each may clear it.                      *)
OneOfOurs == Cardinality(mine \cap Live) <= 1

(* stop: a listener that can be killed is, once asked to stop, whichever   *)
(* of button and panic key asked and whatever was pressed since.           *)
MicCloses ==
  \A p \in Pids, w \in Waiters :
    stop[w] # "no" /\ aimed[w] = p ~> proc[p] \in {"gone", "wedged"} \/ ~Open

=============================================================================
