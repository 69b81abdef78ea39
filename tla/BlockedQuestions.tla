--------------------------- MODULE BlockedQuestions ---------------------------
(***************************************************************************)
(* l4_controller/blocked_state.py and its three writers: the console's     *)
(* poller, which records the questions sessions stop at and announces      *)
(* them, the router's answer tool, which sends the digit and clears the    *)
(* record, and anyone who lists the pending questions, which drops those   *)
(* of dead sessions.                                                       *)
(*                                                                         *)
(* Every operation on the file reads it whole and writes it whole, without *)
(* a lock; a file that is being written reads as empty.  A record is keyed *)
(* by the session alone.                                                   *)
(***************************************************************************)
EXTENDS Naturals, Sequences

CONSTANTS
  Order,        \* the members, in the order the poller looks at them
  Settle,       \* BLOCKED_SETTLE_DELAY_S in poll rounds
  MaxAsks,      \* bound: questions per session
  MaxDeaths     \* bound: sessions that die

Sessions == {Order[i] : i \in DOMAIN Order}
Writers  == {"poller", "router", "concierge"}

ASSUME BlockedAssumption ==
  /\ Order \in Seq(Sessions) /\ Order # <<>>
  /\ {Settle, MaxAsks, MaxDeaths} \subseteq Nat

VARIABLES
  asks, open, alive,   \* per session: questions so far, is one on screen, does it run
  file,                \* the records, or Torn
  age,                 \* poll rounds since each session's record was made (saturating)
  job,                 \* what each writer is about to write, or None
  at, cur, cap,        \* the poller: its step, the member it is at, what it captured
  listed,              \* the record of each member in this round's team list
  todo,                \* members announced but not yet marked surfaced
  tool,                \* the answer tool: <<>> or <<step, session, question>>
  overlapped,          \* history: has a change been read while another's write was under way?
  hurried,             \* history: questions asked while a trace of an earlier one was left
  spoken,              \* how often each question has been announced
  digits,              \* answers sent: <<session, question meant, question hit>>
  deaths

panes  == <<asks, open, alive, deaths>>
poller == <<at, cur, cap, listed, todo>>
history == <<hurried, overlapped>>
blockedVars == <<panes, poller, file, age, job, tool, spoken, digits, history>>

None  == <<>>
Torn  == <<>>
Empty == [s \in Sessions |-> None]
Record(q, surfaced) == <<q, surfaced>>

Read == IF file = Torn THEN Empty ELSE file          \* _read

Busy(w) == job[w] # None

-----------------------------------------------------------------------------
(* Read, change, write: the writer goes on when its write has landed. *)

Begin(w, records) == job' = [job EXCEPT ![w] = <<"changed", records>>]

(* History: the file is read in order to change it. *)
Reads(w) == overlapped' = (overlapped \/ \E v \in Writers \ {w} : Busy(v))

Truncate(w) ==
  /\ Busy(w) /\ job[w][1] = "changed"
  /\ file' = Torn /\ job' = [job EXCEPT ![w][1] = "truncated"]
  /\ UNCHANGED <<panes, poller, age, tool, spoken, digits, history>>

Write(w) ==
  /\ Busy(w) /\ job[w][1] = "truncated"
  /\ file' \in IF file = Torn THEN {job[w][2]} ELSE {job[w][2], Torn}
  /\ job' = [job EXCEPT ![w] = None]
  /\ UNCHANGED <<panes, poller, age, tool, spoken, digits, history>>

(* Mutant: a question on record counts as announced. *)
MarkBlocked_Surfaced(w, s, q) ==
  /\ Reads(w)
  /\ IF Read[s] # None THEN UNCHANGED <<job, age>>
     ELSE /\ Begin(w, [Read EXCEPT ![s] = Record(q, TRUE)])
          /\ age' = [age EXCEPT ![s] = 0]

(* mark_blocked: a session that is on record keeps the record it has. *)
MarkBlocked(w, s, q) ==
  /\ Reads(w)
  /\ IF Read[s] # None THEN UNCHANGED <<job, age>>
     ELSE /\ Begin(w, [Read EXCEPT ![s] = Record(q, FALSE)])
          /\ age' = [age EXCEPT ![s] = 0]

MarkSurfaced(w, s) ==
  /\ Reads(w)
  /\ IF Read[s] = None THEN UNCHANGED job
     ELSE Begin(w, [Read EXCEPT ![s] = Record(@[1], TRUE)])

ClearBlocked(w, s) ==
  /\ Reads(w)
  /\ IF Read[s] = None THEN UNCHANGED job ELSE Begin(w, [Read EXCEPT ![s] = None])

-----------------------------------------------------------------------------
(* The poller: enrich_running_members, then _maybe_escalate_blocked. *)

Member == Order[cur]
PollerAt(step) == at = step /\ ~Busy("poller")
ThenNext == IF cur < Len(Order) THEN at' = "look" /\ cur' = cur + 1
                                ELSE at' = "escalate" /\ UNCHANGED cur

PollStart ==
  /\ PollerAt("idle")
  /\ at' = "look" /\ cur' = 1 /\ listed' = Empty
  /\ age' = [s \in Sessions |-> IF age[s] < Settle THEN age[s] + 1 ELSE Settle]
  /\ UNCHANGED <<panes, cap, todo, file, job, tool, spoken, digits, history>>

(* _parse_blocked_question: the question on the pane with its options, or   *)
(* none when there is no answerable prompt on it.                           *)
Captured(s) == IF open[s] THEN asks[s] ELSE 0

(* session_activity: what is on the pane, if the member runs at all. *)
LookAtPane ==
  /\ PollerAt("look")
  /\ IF alive[Member]
     THEN cap' = Captured(Member) /\ at' = "get" /\ UNCHANGED cur
     ELSE ThenNext /\ UNCHANGED cap
  /\ UNCHANGED <<panes, listed, todo, file, age, job, tool, spoken, digits, history>>

Get ==
  /\ PollerAt("get")
  /\ LET tracked == Read[Member]
     IN IF tracked = None /\ cap # 0 THEN at' = "mark" /\ UNCHANGED <<cur, listed>>
        ELSE IF tracked # None /\ cap = 0 THEN at' = "clear" /\ UNCHANGED <<cur, listed>>
        ELSE listed' = [listed EXCEPT ![Member] = tracked] /\ ThenNext
  /\ UNCHANGED <<panes, cap, todo, file, age, job, tool, spoken, digits, history>>

Mark ==
  /\ PollerAt("mark")
  /\ MarkBlocked("poller", Member, cap)
  /\ at' = "reget"
  /\ UNCHANGED <<panes, cur, cap, listed, todo, file, tool, spoken, digits, hurried>>

(* No record after all: the subscript raises, and the round is over. *)
Reget ==
  /\ PollerAt("reget")
  /\ IF Read[Member] = None
     THEN at' = "idle" /\ UNCHANGED <<cur, listed>>
     ELSE listed' = [listed EXCEPT ![Member] = Read[Member]] /\ ThenNext
  /\ UNCHANGED <<panes, cap, todo, file, age, job, tool, spoken, digits, history>>

Clear ==
  /\ PollerAt("clear")
  /\ ClearBlocked("poller", Member)
  /\ ThenNext
  /\ UNCHANGED <<panes, cap, listed, todo, file, age, tool, spoken, digits, hurried>>

Pending == {s \in Sessions : listed[s] # None /\ ~listed[s][2] /\ age[s] >= Settle}

(* Mutant: only what has just been found is announced. *)
Announce_NewOnly ==
  /\ PollerAt("escalate") /\ {s \in Pending : age[s] = 0} # {}
  /\ todo' = Pending /\ at' = "surface"
  /\ spoken' = [s \in Sessions |->
       IF s \in Pending THEN [spoken[s] EXCEPT ![listed[s][1]] = 1] ELSE spoken[s]]
  /\ UNCHANGED <<panes, cur, cap, listed, file, age, job, tool, digits, history>>

(* One utterance for all that are pending.  Two announcements are as bad as *)
(* more.                                                                    *)
Announce ==
  /\ PollerAt("escalate") /\ Pending # {}
  /\ todo' = Pending /\ at' = "surface"
  /\ spoken' = [s \in Sessions |->
       IF s \in Pending THEN [spoken[s] EXCEPT ![listed[s][1]] = IF @ < 2 THEN @ + 1 ELSE 2]
                        ELSE spoken[s]]
  /\ UNCHANGED <<panes, cur, cap, listed, file, age, job, tool, digits, history>>

(* Nothing pending, or _safe_to_speak says no: another round, no record.    *)
HoldBack ==
  /\ PollerAt("escalate")
  /\ at' = "idle"
  /\ UNCHANGED <<panes, cur, cap, listed, todo, file, age, job, tool, spoken, digits, history>>

(* Mutant: the announcement is not recorded. *)
Surface_Unrecorded ==
  /\ PollerAt("surface") /\ todo' = {} /\ at' = "idle"
  /\ UNCHANGED <<panes, cur, cap, listed, file, age, job, tool, spoken, digits, history>>

(* Mutant: one utterance, one mark. *)
Surface_FirstOnly ==
  /\ PollerAt("surface")
  /\ IF todo = {} THEN at' = "idle" /\ UNCHANGED <<todo, job, overlapped>>
     ELSE \E s \in todo : todo' = {} /\ MarkSurfaced("poller", s) /\ UNCHANGED at
  /\ UNCHANGED <<panes, cur, cap, listed, file, age, tool, spoken, digits, hurried>>

Surface ==
  /\ PollerAt("surface")
  /\ IF todo = {} THEN at' = "idle" /\ UNCHANGED <<todo, job, overlapped>>
     ELSE \E s \in todo : todo' = todo \ {s} /\ MarkSurfaced("poller", s) /\ UNCHANGED at
  /\ UNCHANGED <<panes, cur, cap, listed, file, age, tool, spoken, digits, hurried>>

-----------------------------------------------------------------------------
(* pending_questions and answer_blocked_session *)

DeadOnRecord == {s \in Sessions : Read[s] # None /\ ~alive[s]}

(* _drop_dead_blocked, on behalf of whoever lists the questions. *)
DropDead(w) ==
  /\ ~Busy(w) /\ w \in {"router", "concierge"}
  /\ \E s \in DeadOnRecord : ClearBlocked(w, s)
  /\ UNCHANGED <<panes, poller, file, age, tool, spoken, digits, hurried>>

(* The spoken answer matches one option of the recorded question; a second  *)
(* pending question must be ruled out by naming the session.                *)
Hear(s) ==
  /\ tool = None /\ ~Busy("router") /\ DeadOnRecord = {}
  /\ Read[s] # None
  /\ tool' = <<"heard", s, Read[s][1]>>
  /\ UNCHANGED <<panes, poller, file, age, job, spoken, digits, history>>

(* The second look: is this session still on record?                        *)
Still(s, q) ==
  /\ tool = <<"heard", s, q>> /\ ~Busy("router") /\ DeadOnRecord = {}
  /\ tool' = IF Read[s] # None THEN <<"still", s, q>> ELSE None
  /\ UNCHANGED <<panes, poller, file, age, job, spoken, digits, history>>

(* Mutant: the digit is sent without looking at the pane again. *)
PressDigit_Unchecked(s, q) ==
  /\ tool = <<"still", s, q>>
  /\ digits' = digits \cup {<<s, q, Captured(s)>>}
  /\ open' = [open EXCEPT ![s] = FALSE]
  /\ tool' = <<"pressed", s, q>>
  /\ UNCHANGED <<asks, alive, deaths, poller, file, age, job, spoken, history>>

(* transport.answer_blocked_question: any question on the pane will do, and  *)
(* the key may not land.                                                    *)
PressDigit(s, q) ==
  /\ tool = <<"still", s, q>>
  /\ IF alive[s] /\ open[s]
     THEN /\ tool' = <<"pressed", s, q>>
          /\ \/ digits' = digits \cup {<<s, q, asks[s]>>} /\ open' = [open EXCEPT ![s] = FALSE]
             \/ UNCHANGED <<digits, open>>
     ELSE tool' = None /\ UNCHANGED <<digits, open>>
  /\ UNCHANGED <<asks, alive, deaths, poller, file, age, job, spoken, history>>

(* It looks every half a second, and has failed if to the last there is a   *)
(* question on the pane or if the session is gone.                          *)
Confirm(s, q) ==
  /\ tool = <<"pressed", s, q>>
  /\ tool' = IF alive[s] /\ ~open[s] THEN <<"clear", s, q>> ELSE None
  /\ UNCHANGED <<panes, poller, file, age, job, spoken, digits, history>>

Answered(s, q) ==
  /\ tool = <<"clear", s, q>> /\ ~Busy("router")
  /\ ClearBlocked("router", s)
  /\ tool' = None
  /\ UNCHANGED <<panes, poller, file, age, spoken, digits, hurried>>

-----------------------------------------------------------------------------
(* The sessions. *)

(* Something of an earlier question of the session is on record, listed in  *)
(* this round, or in the hands of a writer, the poller or the answer tool.  *)
Traced(s) ==
  \/ Read[s] # None
  \/ \E w \in Writers : Busy(w) /\ job[w][2][s] # None
  \/ at # "idle" /\ listed[s] # None
  \/ at \in {"get", "mark"} /\ Member = s /\ cap # 0
  \/ tool # None /\ tool[2] = s

Ask(s) ==
  /\ alive[s] /\ ~open[s] /\ asks[s] < MaxAsks
  /\ asks' = [asks EXCEPT ![s] = @ + 1] /\ open' = [open EXCEPT ![s] = TRUE]
  /\ hurried' = IF Traced(s) THEN hurried \cup {<<s, asks'[s]>>} ELSE hurried
  /\ UNCHANGED <<alive, deaths, poller, file, age, job, tool, spoken, digits, overlapped>>

(* Its user answers at the terminal. *)
Resolve(s) ==
  /\ open[s] /\ open' = [open EXCEPT ![s] = FALSE]
  /\ UNCHANGED <<asks, alive, deaths, poller, file, age, job, tool, spoken, digits, history>>

Die(s) ==
  /\ alive[s] /\ deaths < MaxDeaths /\ deaths' = deaths + 1
  /\ alive' = [alive EXCEPT ![s] = FALSE] /\ open' = [open EXCEPT ![s] = FALSE]
  /\ UNCHANGED <<asks, poller, file, age, job, tool, spoken, digits, history>>

Reconnect(s) ==
  /\ ~alive[s] /\ alive' = [alive EXCEPT ![s] = TRUE]
  /\ UNCHANGED <<asks, open, deaths, poller, file, age, job, tool, spoken, digits, history>>

-----------------------------------------------------------------------------

BlockedInit ==
  /\ asks = [s \in Sessions |-> 0] /\ open = [s \in Sessions |-> FALSE]
  /\ alive = [s \in Sessions |-> TRUE] /\ deaths = 0
  /\ file = Empty /\ age = [s \in Sessions |-> 0]
  /\ job = [w \in Writers |-> None]
  /\ at = "idle" /\ cur = 1 /\ cap = 0 /\ listed = Empty /\ todo = {}
  /\ tool = None
  /\ spoken = [s \in Sessions |-> [q \in 1..MaxAsks |-> 0]]
  /\ digits = {} /\ hurried = {} /\ overlapped = FALSE

PollStep == PollStart \/ LookAtPane \/ Get \/ Mark \/ Reget \/ Clear \/ HoldBack \/ Surface
AnswerStep == \E s \in Sessions :
  \/ Hear(s)
  \/ \E q \in 1..MaxAsks : Still(s, q) \/ PressDigit(s, q) \/ Confirm(s, q) \/ Answered(s, q)
Session(s) == Ask(s) \/ Resolve(s) \/ Die(s) \/ Reconnect(s)

BlockedNext ==
  \/ PollStep \/ Announce
  \/ \E w \in Writers : Truncate(w) \/ Write(w) \/ DropDead(w)
  \/ AnswerStep
  \/ \E s \in Sessions : Session(s)

BlockedSpec == BlockedInit /\ [][BlockedNext]_blockedVars

(* The poller's loop and every write run on; the microphone is not in use   *)
(* each and every time there is something to announce.                      *)
BlockedFairSpec ==
  /\ BlockedSpec /\ WF_blockedVars(PollStep) /\ SF_blockedVars(Announce)
  /\ \A w \in Writers : WF_blockedVars(Truncate(w) \/ Write(w))

-----------------------------------------------------------------------------
(* Properties *)

Questions == 1..MaxAsks
Records == [Sessions -> {None} \cup (Questions \X BOOLEAN)]

BlockedTypeOK ==
  /\ asks \in [Sessions -> 0..MaxAsks] /\ {open, alive} \subseteq [Sessions -> BOOLEAN]
  /\ file \in Records \cup {Torn} /\ listed \in Records
  /\ age \in [Sessions -> 0..Settle]
  /\ job \in [Writers -> {None} \cup ({"changed", "truncated"} \X Records)]
  /\ at \in {"idle", "look", "get", "mark", "reget", "clear", "escalate", "surface"}
  /\ cur \in DOMAIN Order /\ cap \in 0..MaxAsks /\ todo \subseteq Sessions
  /\ tool = None \/ tool \in {"heard", "still", "pressed", "clear"} \X Sessions \X Questions
  /\ spoken \in [Sessions -> [Questions -> 0..2]]
  /\ digits \subseteq Sessions \X Questions \X (0..MaxAsks)
  /\ hurried \subseteq Sessions \X Questions /\ overlapped \in BOOLEAN

(* The digit lands on the question whose recorded options it was matched   *)
(* to, or on one that was asked while a trace of an earlier one was left:   *)
(* the record does not say which question it is about, nor does the second  *)
(* look at the pane (blocked_answer.py:145-173, transport.py:540).          *)
AnswerHitsItsQuestion == \A p \in digits : p[2] = p[3] \/ <<p[1], p[3]>> \in hurried

(* "Never deliver an answer to the wrong question" (docs/SPEC-blockers.md:  *)
(* 202-203).                                                                *)
NeverWrongQuestion == \A p \in digits : p[2] = p[3]

(* The question came upon a trace of an earlier one, or the next upon one   *)
(* of it.                                                                   *)
Tangled(s, q) == <<s, q>> \in hurried \/ <<s, q + 1>> \in hurried

(* A write to the file "is not itself the surfacing event, speaking it is": *)
(* a question on record as surfaced has been announced, whatever the writes *)
(* of the others undo, unless it is tangled with another question of its    *)
(* session (blocked_state.py:8-12, 51-55).                                  *)
SurfacedWasSpoken == \A s \in Sessions :
  Read[s] # None /\ Read[s][2] =>
    spoken[s][Read[s][1]] > 0 \/ Tangled(s, Read[s][1])

(* Spoken, and once: no episode is announced on every tick, whichever       *)
(* members are announced, cleared and dropped in between, as long as no     *)
(* change was read under another's write and it is not tangled with another *)
(* question of its session (blocked_state.py:9-14, 52-55).                  *)
SpokenOnce ==
  /\ SurfacedWasSpoken
  /\ ~overlapped => \A s \in Sessions : \A q \in Questions :
                      spoken[s][q] <= 1 \/ Tangled(s, q)

(* A session that stops at a question is announced in the end, unless the   *)
(* question has gone away by itself or came upon the record of another.     *)
Escalated == \A s \in Sessions : \A q \in Questions :
  (open[s] /\ asks[s] = q /\ <<s, q>> \notin hurried)
    ~> (spoken[s][q] > 0 \/ ~open[s] \/ asks[s] # q)
=============================================================================
