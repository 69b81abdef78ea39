----------------------------- MODULE ConsoleView -----------------------------
(***************************************************************************)
(* l5_console/state/poller.py and the panels that show what it found       *)
(* (app/console.py, app/rail.py, app/staleness.py).                        *)
(*                                                                         *)
(* One thread per section checks the world on its own clock and stores     *)
(* what it found, when, and whether the check failed; the panels show the  *)
(* stored value, "stale" when the last attempt is too old, or "error".     *)
(* No section reads another, so a behavior follows one of them, whichever  *)
(* it is; a tick is one interval of it, and what it holds is reduced to    *)
(* "some" (listening, a role attached, speech waiting, models loaded, a    *)
(* cost, teams) or "none".  Most sections are one record that is replaced  *)
(* whole; the teams are stored field by field under a lock that the panels *)
(* do not hold while they read.                                            *)
(***************************************************************************)
EXTENDS Integers

CONSTANTS
  StaleAfter,    \* STALE_MULTIPLIER: intervals until a section is stale
  MaxCheck       \* bound: ticks a check takes that is stamped when it ends

ASSUME ViewAssumption == StaleAfter \in Nat /\ MaxCheck \in Nat

Sections == {"wake", "engine", "speech", "runtime", "spend", "teams"}
Early    == {"wake", "engine", "speech"}     \* stamped before they are stored
Quiet    == {"wake", "teams", "speech"}      \* can fail and look like nothing found
Panels   == {"rail", "console"}
Values   == {"some", "none"}

VARIABLES
  sec,       \* the section this behavior follows
  world,     \* what there is to be found
  gone,      \* ticks since there was "some" (saturating)
  hand,      \* the check in hand: what it found and when, or Due or Resting
  snap,      \* its part of JarvisState: value, ticks since polled_at, error
  last,      \* what the last completed check found, or "never"
  pen,       \* the teams thread: inside its lock, or announcing
  eye,       \* the panel that is reading the section: what it has read so far
  looked,    \* a refresh since the last tick and the last check: "no", "begun", "done"
  misread,   \* per panel: how many readings in a row have misled
  clocks,    \* main.py's timers: how many of each are running
  burst      \* does it hold a burst timer?

thread == <<hand, snap, last, pen>>
screen == <<eye, looked, misread>>
timers == <<clocks, burst>>
vars   == <<sec, world, gone, thread, screen, timers>>

Old     == StaleAfter + 1
Due     == [found |-> "none", age |-> -1]
Resting == [found |-> "none", age |-> -2]
Held    == hand \notin {Due, Resting}
Unlocked == pen \in {"up", "telling"}
Older(n, cap) == IF n < cap THEN n + 1 ELSE cap

(* What may be older than the stamp says: a check that is stamped at its end. *)
Limit == StaleAfter + IF sec \in Early THEN 0 ELSE MaxCheck
FarGone == StaleAfter + MaxCheck + 1

NothingRead(p) == [panel |-> p, step |-> "value", value |-> "none", error |-> TRUE]

(* Mutant: before the first check the sections hold ordinary values. *)
NotYetPolled_Empty == [value |-> "none", age |-> 0, error |-> FALSE]

(* _initial_state: "not yet polled" is an error, never an empty section. *)
NotYetPolled == [value |-> "none", age |-> Old, error |-> TRUE]

Init ==
  /\ sec \in Sections /\ world \in Values
  /\ gone = IF world = "some" THEN 0 ELSE FarGone
  /\ hand = Due /\ snap = NotYetPolled /\ last = "never" /\ pen = "up"
  /\ eye = NothingRead("rail") /\ looked = "no" /\ misread = [p \in Panels |-> 0]
  /\ clocks = [normal |-> 1, fast |-> 0, end |-> 0] /\ burst = FALSE

-----------------------------------------------------------------------------
(* The checking threads. *)

(* The truth, or, where pgrep fails or a file that is being rewritten does  *)
(* not parse, nothing at all.                                               *)
Finds == {world} \cup (IF sec \in Quiet THEN {"none"} ELSE {})

(* A thread waits one interval between two checks, or hangs for longer. *)
Look ==
  /\ hand = Due /\ pen = "up"
  /\ \E v \in Finds : hand' = [found |-> v, age |-> 0]
  /\ UNCHANGED <<sec, world, gone, snap, last, pen, screen, timers>>

Ends(stored) ==
  /\ snap' = stored /\ hand' = Resting
  /\ UNCHANGED <<sec, world, gone, pen, screen, timers>>

Found(age) ==
  /\ Ends([value |-> hand.found, age |-> age, error |-> FALSE])
  /\ last' = hand.found

(* Mutant: the failure of a check is not stored with the attempt. *)
Raised_Quietly == [snap EXCEPT !.age = 0]

(* The old value stays, the attempt is stamped, the error is beside it. *)
Raised == [snap EXCEPT !.age = 0, !.error = TRUE]

StoreWake   == sec = "wake" /\ Held /\ Found(hand.age)
FailWake    == sec = "wake" /\ hand # Resting /\ Ends(Raised) /\ UNCHANGED last
StoreSpeech == sec = "speech" /\ Held /\ Found(hand.age)
FailSpeech  == sec = "speech" /\ hand # Resting /\ Ends(Raised) /\ UNCHANGED last

(* The roles' prompts are dealt with after the stamp, before the record is  *)
(* stored; if that raises, what was found is lost.                          *)
StoreEngine == sec = "engine" /\ Held /\ Found(hand.age)
FailEngine  == sec = "engine" /\ hand # Resting /\ Ends(Raised) /\ UNCHANGED last

(* Models and memory are two checks: each keeps its old value if it fails,  *)
(* and the error of either is the section's.                                *)
StoreRuntime == sec = "runtime" /\ Held /\ Found(0)
FailMemory ==
  /\ sec = "runtime" /\ Held
  /\ Ends([value |-> hand.found, age |-> 0, error |-> TRUE]) /\ last' = hand.found
FailModels == sec = "runtime" /\ Held /\ Ends(Raised) /\ UNCHANGED last

(* A cost that cannot be had is a failure: the old one stays, newly stamped. *)
StoreSpend == sec = "spend" /\ Held /\ hand.found = "some" /\ Found(0)
FailSpend  == sec = "spend" /\ hand # Resting /\ Ends(Raised) /\ UNCHANGED last

(* _loop_teams, field by field: the teams, polled_at, the error. *)
StoreTeams ==
  /\ sec = "teams" /\ pen = "up" /\ Held
  /\ snap' = [snap EXCEPT !.value = hand.found] /\ last' = hand.found
  /\ pen' = "stored"
  /\ UNCHANGED <<sec, world, gone, hand, screen, timers>>

StampTeams ==
  /\ pen = "stored"
  /\ snap' = [snap EXCEPT !.age = 0] /\ pen' = "stamped"
  /\ UNCHANGED <<sec, world, gone, hand, last, screen, timers>>

ClearTeams ==
  /\ pen = "stamped"
  /\ snap' = [snap EXCEPT !.error = FALSE] /\ pen' = "telling"
  /\ hand' = Resting /\ looked' = "no"
  /\ UNCHANGED <<sec, world, gone, last, eye, misread, timers>>

(* _maybe_escalate_blocked, after the lock is released. *)
Announced ==
  /\ pen = "telling" /\ pen' = "up"
  /\ UNCHANGED <<sec, world, gone, hand, snap, last, screen, timers>>

(* The check raised, or announcing what it found did. *)
FailTeams ==
  /\ sec = "teams"
  /\ \/ pen = "telling"
     \/ pen = "up" /\ hand # Resting
  /\ snap' = [snap EXCEPT !.age = 0] /\ pen' = "failed"
  /\ UNCHANGED <<sec, world, gone, hand, last, screen, timers>>

(* Mutant: the error of a failed check is not stored. *)
MarkTeams_Forgets ==
  /\ pen = "failed" /\ pen' = "up" /\ hand' = Resting /\ looked' = "no"
  /\ UNCHANGED <<sec, world, gone, snap, last, eye, misread, timers>>

MarkTeams ==
  /\ pen = "failed" /\ pen' = "up" /\ hand' = Resting /\ looked' = "no"
  /\ snap' = [snap EXCEPT !.error = TRUE]
  /\ UNCHANGED <<sec, world, gone, last, eye, misread, timers>>

Check ==
  \/ Look
  \/ StoreWake \/ FailWake \/ StoreSpeech \/ FailSpeech \/ StoreEngine \/ FailEngine
  \/ StoreRuntime \/ FailMemory \/ FailModels \/ StoreSpend \/ FailSpend
  \/ StoreTeams \/ StampTeams \/ ClearTeams \/ Announced \/ FailTeams \/ MarkTeams

-----------------------------------------------------------------------------
(* What the panels show for value v, error e and age a. *)

IsStale(a) == a > StaleAfter                                  \* is_stale
Marked(when, mark, v) == IF when THEN mark ELSE v

WakeLine(v, e, a)   == Marked(e, "error", Marked(IsStale(a), "stale", v))
EngineRows(v, e, a) == Marked(e, "error", Marked(IsStale(a), "stale", v))

(* An empty list of waiting speech takes no room, however old. *)
SpeechRows(v, e, a) == Marked(e, "error", Marked(v = "some" /\ IsStale(a), "stale", v))

RuntimeRows(v, e, a) == Marked(e, "error", Marked(IsStale(a), "stale", v))

(* The cost is marked when it is old; that it failed no panel says. *)
SpendLine(v, e, a) == Marked(IsStale(a), "stale", v)

TeamsRows(v, e, a) == Marked(e, "error", Marked(IsStale(a), "stale", v))
RailTeams(v, e, a) == Marked(e, "error", Marked(v = "some" /\ IsStale(a), "stale", v))

Shows(p, v, e, a) ==
  CASE sec = "wake"    -> WakeLine(v, e, a)
    [] sec = "engine"  -> EngineRows(v, e, a)
    [] sec = "speech"  -> SpeechRows(v, e, a)
    [] sec = "runtime" -> RuntimeRows(v, e, a)
    [] sec = "spend"   -> SpendLine(v, e, a)
    [] OTHER -> IF p = "rail" THEN RailTeams(v, e, a) ELSE TeamsRows(v, e, a)

(* A reading that shows as current what has not been so for longer than     *)
(* the staleness mark allows, or nothing where no check found nothing.      *)
Misleads(shown) ==
  \/ shown = "some" /\ gone > Limit
  \/ shown = "none" /\ last # "none"

(* Rail.update_state begins the refresh: get_state takes the lock, once.    *)
(* All but the teams is one reference, read at one instant.                 *)
ReadValue ==
  /\ eye.step = "value"
  /\ eye.panel = "rail" => Unlocked /\ clocks.normal + clocks.fast > 0
  /\ eye' = [eye EXCEPT !.step = "error", !.value = snap.value]
  /\ looked' = (IF eye.panel = "rail" /\ looked = "no" THEN "begun" ELSE looked)
  /\ UNCHANGED <<sec, world, gone, thread, misread, timers>>

ReadError ==
  /\ eye.step = "error"
  /\ eye' = [eye EXCEPT !.step = "age", !.error = snap.error]
  /\ UNCHANGED <<sec, world, gone, thread, looked, misread, timers>>

ReadAge ==
  LET p == eye.panel
      shown == IF sec = "teams" THEN Shows(p, eye.value, eye.error, snap.age)
                                ELSE Shows(p, snap.value, snap.error, snap.age)
  IN /\ eye.step = "age"
     /\ misread' = [misread EXCEPT ![p] = IF Misleads(shown) THEN Older(@, 2) ELSE 0]
     /\ eye' = NothingRead(IF p = "rail" THEN "console" ELSE "rail")
     /\ looked' = (IF p = "console" /\ looked = "begun" THEN "done" ELSE looked)
     /\ UNCHANGED <<sec, world, gone, thread, timers>>

-----------------------------------------------------------------------------
(* The clock of the refreshes: after a press of start or stop a fast timer  *)
(* takes the place of the normal one, and a third one ends that.            *)

(* Mutant: the end of the first burst is left to come. *)
StartBurst_KeepsEnd ==
  /\ clocks' = IF burst THEN [clocks EXCEPT !.end = Older(@, 3)]
                        ELSE [normal |-> clocks.normal - 1, fast |-> 1, end |-> clocks.end + 1]
  /\ burst' = TRUE
  /\ UNCHANGED <<sec, world, gone, thread, screen>>

StartBurst ==                                          \* start_wake_poll_burst
  /\ clocks' = IF burst THEN clocks
                        ELSE [normal |-> clocks.normal - 1, fast |-> 1, end |-> clocks.end + 1]
  /\ burst' = TRUE
  /\ UNCHANGED <<sec, world, gone, thread, screen>>

EndBurst ==                                            \* _end_wake_poll_burst
  /\ clocks.end > 0
  /\ clocks' = [normal |-> Older(clocks.normal, 2), fast |-> IF burst THEN 0 ELSE clocks.fast,
                end |-> clocks.end - 1]
  /\ burst' = FALSE
  /\ UNCHANGED <<sec, world, gone, thread, screen>>

-----------------------------------------------------------------------------
(* The world, and time.  Storing and reading take no time next to a tick,   *)
(* and the screen is refreshed at least once between two checks of the      *)
(* teams (REFRESH_INTERVAL_S is a third of TEAMS_INTERVAL_S).               *)

Change ==
  /\ world' = (IF world = "some" THEN "none" ELSE "some") /\ gone' = 0
  /\ UNCHANGED <<sec, thread, screen, timers>>

Tick ==
  /\ Unlocked /\ eye = NothingRead("rail") /\ looked = "done" /\ looked' = "no"
  /\ sec \notin Early /\ Held => hand.age < MaxCheck
  /\ gone' = IF world = "some" THEN 0 ELSE Older(gone, FarGone)
  /\ hand' = IF Held THEN [hand EXCEPT !.age = Older(@, FarGone)] ELSE Due
  /\ snap' = [snap EXCEPT !.age = Older(@, FarGone)]
  /\ UNCHANGED <<sec, world, last, pen, eye, misread, timers>>

Next == Check \/ ReadValue \/ ReadError \/ ReadAge \/ StartBurst \/ EndBurst \/ Change \/ Tick

Spec == Init /\ [][Next]_vars

-----------------------------------------------------------------------------
TypeOK ==
  /\ sec \in Sections /\ world \in Values /\ gone \in 0 .. FarGone
  /\ hand \in [found : Values, age : 0 .. FarGone] \cup {Due, Resting}
  /\ snap \in [value : Values, age : 0 .. FarGone, error : BOOLEAN]
  /\ last \in Values \cup {"never"}
  /\ pen \in {"up", "stored", "stamped", "telling", "failed"}
  /\ eye \in [panel : Panels, step : {"value", "error", "age"}, value : Values, error : BOOLEAN]
  /\ looked \in {"no", "begun", "done"} /\ misread \in [Panels -> 0 .. 2]
  /\ clocks \in [normal : 0 .. 2, fast : 0 .. 1, end : 0 .. 3] /\ burst \in BOOLEAN

(* What a refresh would show at this instant. *)
Shown(p) == Shows(p, snap.value, snap.error, snap.age)

(* What is shown is true.  "Listening", an attached role or waiting speech  *)
(* shown without a mark was so within the last StaleAfter intervals,        *)
(* whatever check has hung, raised or been stored late since; "stopped" or  *)
(* nothing waiting is shown only when the last check that completed found   *)
(* that: a check that raised, or has not run yet, never looks like an empty *)
(* section (models.py:19-28, staleness.py:1-6).  Only the cost, of which no *)
(* panel says that its check failed, may be an old one that failures have   *)
(* stamped anew (poller.py:366, console.py:431-438), and it is unavailable  *)
(* only while none has ever been had.                                       *)
ShownIsTrue ==
  sec # "teams" => \A p \in Panels :
    /\ Shown(p) = "some" => gone <= Limit \/ (sec = "spend" /\ snap.error)
    /\ Shown(p) = "none" => last = IF sec = "spend" THEN "never" ELSE "none"

(* The teams are read without the lock, and one reading may mix an old list *)
(* with the stamp of a new one: the next reading of the same panel is right *)
(* (poller.py _loop_teams, Rail.update_state, Console.update_state).        *)
MisreadOnce == sec # "spend" => \A p \in Panels : misread[p] < 2

(* However often start and stop are pressed, the screen is refreshed by one *)
(* timer, never by two and never by none (main.py:215-238).                 *)
OneClock == clocks.normal + clocks.fast = 1
=============================================================================
