---------------------------- MODULE TransportProofs ----------------------------
(***************************************************************************)
(* What the calls of one process do to a pane that holds still between a   *)
(* look and the keys it justifies, for any number of calls of any kinds,   *)
(* any habits of the user and any number of moves and lost keys: texts are *)
(* submitted alone, keys go where they were meant, and ok means done.      *)
(*                                                                         *)
(* LockInv makes the calls take turns.  GapInv is what each look           *)
(* established and the turn-taking and the stillness preserve until the    *)
(* key is sent; BoxInv, whose text the input line holds.  DoneInv, on top  *)
(* of them, is what each call has achieved where it stands: submitted, its *)
(* own view read, its dialog's number; that a view which is still to open  *)
(* is one its call has not read; and that a side-question's view lies over *)
(* the screen only while its own call is there to close it, or was missed. *)
(***************************************************************************)
EXTENDS Transport, SequenceTheorems, TLAPS

OneProcess == \A c, d \in Calls : ProcOf[c] = ProcOf[d]

Labels == Looking \cup {"start", "check", "type", "enter", "press", "done"}
Views == {"readonly", "picker"}
BtwIsHis == "closesBtw" \in plan.habits
AheadIsHis == "typesAhead" \in plan.habits

Types ==
  /\ plan \in Plans /\ pc \in [Calls -> Labels]
  /\ lock \in [Processes -> Calls \cup {None}]
  /\ screen \in Screens
  /\ due \subseteq Calls

Active(c) == pc[c] \notin {"start", "done"}
LockInv == \A c \in Calls : Active(c) => lock[ProcOf[c]] = c

(* What text and Enter are for. *)
Fits(c) == screen = "prompt" \/ (screen = "working" /\ BusyTolerant(c))
Overlaid == BtwIsHis \/ screen = "gone" \/ overlay # None

GapAt(c, label) ==
  /\ label \in {"type", "enter"} => Fits(c)
  /\ label = "type" => AheadIsHis \/ box = <<>>
  /\ label = "dismiss" => screen = "readonly"
  /\ label = "press" => screen = Dialog(c)
  /\ label \in {"opened", "settle", "close", "closed"} => plan.want[c] \in {"view", "btw"}
  /\ label = "settle" => plan.want[c] = "btw" /\ Overlaid
  /\ label = "close" /\ plan.want[c] = "btw" => Overlaid
  /\ label = "close" /\ plan.want[c] = "view" => screen \in Views
GapInv == \A c \in Calls : GapAt(c, pc[c])

(* What a call has typed went to the input line, or to the view over it.   *)
BoxInv == ~AheadIsHis =>
  /\ \/ box = <<>>
     \/ box = <<Him>> /\ screen \in {"prompt"} \cup Views
     \/ \E c \in Calls : pc[c] = "enter" /\ box = <<c>>
  /\ \A c \in Calls : pc[c] = "enter" => box = (IF overlay = None THEN <<c>> ELSE <<>>)
  /\ SentAlone

Inv == Types /\ LockInv /\ GapInv /\ BoxInv

-----------------------------------------------------------------------------
(* Taking turns *)

Rests(c) == pc[c] \in {"start", "done"}

(* One at a time: who works holds the lock of the one process there is.    *)
LEMMA Turn ==
  ASSUME OneProcess, LockInv, NEW c \in Calls, ~Rests(c)
  PROVE  \A d \in Calls \ {c} : Rests(d)
BY DEF OneProcess, LockInv, Active, Rests

(* How a step of a call moves on. *)
Stands(c, label) ==
  /\ plan' = plan /\ pc'[c] = label
  /\ \A d \in Calls \ {c} : pc'[d] = pc[d]

LEMMA WentTo == ASSUME Types, NEW c \in Calls, NEW label \in Labels, Goto(c, label)
              PROVE  Stands(c, label) /\ pc' \in [Calls -> Labels] /\ lock' = lock
BY DEF Types, Goto, Stands

LEMMA Agained == ASSUME Types, NEW c \in Calls, Again(c)
                 PROVE  Stands(c, pc[c]) /\ pc' \in [Calls -> Labels] /\ lock' = lock
BY DEF Types, Again, Stands

LEMMA Returned ==
  ASSUME Types, NEW c \in Calls, NEW r, Return(c, r)
  PROVE  /\ Stands(c, "done") /\ pc' \in [Calls -> Labels]
         /\ lock' = [lock EXCEPT ![ProcOf[c]] = None]
BY DEF Types, Return, Stands, Labels

(* The states of a pane. *)
LEMMA States ==
  ASSUME Types
  PROVE  /\ State = "ready" => screen = "prompt" /\ box = <<>>
         /\ State = "busy" => screen = "working"
         /\ State = "persistent_view" <=> screen \in Views
BY DEF Types, State, Screens, Views

LEMMA Accepted == ASSUME Types, NEW c \in Calls, Accepts(c), BoxInv,
                         \A d \in Calls : pc[d] # "enter"
                  PROVE  Fits(c) /\ (AheadIsHis \/ box = <<>>)
BY States DEF Accepts, Fits, BoxInv, Views

(* The lock follows the calls. *)
LEMMA LockGoes ==
  ASSUME Types, LockInv, OneProcess, NEW c \in Calls, ~Rests(c), NEW label \in Labels,
         Stands(c, label), lock' = lock
  PROVE  LockInv'
BY DEF Types, LockInv, Active, Rests, Stands

LEMMA LockEnds ==
  ASSUME Types, LockInv, OneProcess, NEW c \in Calls, ~Rests(c), Stands(c, "done")
  PROVE  LockInv'
<1>1. \A d \in Calls : ~Active(d)'
  BY Turn DEF Rests, Active, Stands
<1> QED BY <1>1 DEF LockInv

(* A call that looks changes nothing; what it found holds until it acts.   *)
Goes(c, label) == \/ Goto(c, label)
                  \/ Again(c) /\ label = pc[c]
                  \/ \E r : Return(c, r) /\ label = "done"

LEMMA Going ==
  ASSUME Types, NEW c \in Calls, NEW label \in Labels, Goes(c, label)
  PROVE  Stands(c, label) /\ pc' \in [Calls -> Labels]
         /\ (lock' = lock \/ (lock' = [lock EXCEPT ![ProcOf[c]] = None] /\ label = "done"))
<1>1. CASE Goto(c, label)
  BY <1>1, WentTo
<1>2. CASE Again(c) /\ label = pc[c]
  BY <1>2, Agained
<1>3. CASE \E r : Return(c, r) /\ label = "done"
  <2>1. PICK r : Return(c, r) /\ label = "done"
    BY <1>3
  <2> QED BY <2>1, Returned
<1> QED BY <1>1, <1>2, <1>3 DEF Goes

LEMMA TurnOver ==
  ASSUME Inv, OneProcess, NEW c \in Calls, NEW label \in Labels, ~Rests(c), Goes(c, label),
         screen' \in Screens, due' \subseteq Calls
  PROVE  Types' /\ LockInv'
<1>1. /\ Stands(c, label) /\ pc' \in [Calls -> Labels]
      /\ (lock' = lock \/ (lock' = [lock EXCEPT ![ProcOf[c]] = None] /\ label = "done"))
  BY Going DEF Inv
<1>2. Types'
  BY <1>1 DEF Inv, Types, Stands
<1>3. LockInv'
  <2>1. CASE lock' = lock
    BY <1>1, <2>1, LockGoes DEF Inv
  <2>2. CASE label = "done"
    BY <1>1, <2>2, LockEnds DEF Inv
  <2> QED BY <1>1, <2>1, <2>2
<1> QED BY <1>2, <1>3

(* What is asked of the others is unchanged. *)
LEMMA UnmovedPane ==
  ASSUME Inv, OneProcess, UNCHANGED pane, NEW c \in Calls, NEW label \in Labels,
         \A d \in Calls \ {c} : Rests(d),
         pc[c] # "enter", label # "enter", Stands(c, label), GapAt(c, label)
  PROVE  GapInv' /\ BoxInv'
<1>1. \A d \in Calls \ {c} : Rests(d) /\ Rests(d)'
  BY DEF Stands, Rests
<1>2. UNCHANGED <<screen, overlay, box, submitted, plan>>
  BY DEF pane, Stands
<1>3. GapInv'
  <2>1. GapAt(c, pc[c])'
    <3>1. pc'[c] = label
      BY DEF Stands
    <3> QED BY <1>2, <3>1 DEF GapAt, Fits, BusyTolerant, AheadIsHis, Dialog, Overlaid,
               BtwIsHis
  <2>2. \A d \in Calls \ {c} : GapAt(d, pc[d])'
    BY <1>1 DEF GapAt, Rests
  <2> QED BY <2>1, <2>2 DEF GapInv
<1>6. BoxInv'
  <2>1. \A d \in Calls : pc[d] # "enter" /\ pc'[d] # "enter"
    BY <1>1 DEF Rests, Stands
  <2> QED BY <1>2, <2>1 DEF Inv, BoxInv, AheadIsHis, SentAlone
<1> QED BY <1>3, <1>6

LEMMA Unmoved ==
  ASSUME Inv, OneProcess, Looks, NEW c \in Calls, NEW label \in Labels,
         \A d \in Calls \ {c} : Rests(d),
         pc[c] # "enter", label # "enter", Stands(c, label), GapAt(c, label)
  PROVE  GapInv' /\ BoxInv'
BY UnmovedPane DEF Looks

LEMMA LookStep ==
  ASSUME Inv, OneProcess, Looks, NEW c \in Calls, NEW label \in Labels, ~Rests(c),
         pc[c] # "enter", label # "enter", Goes(c, label), GapAt(c, label)
  PROVE  Inv'
<1>1. \A d \in Calls \ {c} : Rests(d)
  BY Turn DEF Inv
<1>2. screen' \in Screens /\ due' \subseteq Calls
  BY DEF Looks, pane, Inv, Types
<1>3. Stands(c, label)
  BY Going DEF Inv
<1> QED BY <1>1, <1>2, <1>3, TurnOver, Unmoved DEF Inv

(* A call that returns asks nothing of the pane. *)
LEMMA ReturnStep ==
  ASSUME Inv, OneProcess, Looks, NEW c \in Calls, NEW r, ~Rests(c), pc[c] # "enter", Return(c, r)
  PROVE  Inv'
<1>1. GapAt(c, "done") /\ "done" \in Labels /\ Goes(c, "done")
  BY DEF GapAt, Labels, Goes
<1> QED BY <1>1, LookStep

-----------------------------------------------------------------------------
(* Steps that look *)

LEMMA AcquireStep ==
  ASSUME Inv, OneProcess, NEW c \in Calls, Acquire(c) PROVE Inv'
<1>1. pc[c] = "start" /\ lock[ProcOf[c]] = None /\ Looks
  BY DEF Acquire, At
<1>2. \A d \in Calls : Rests(d)
  BY <1>1, HimAssumption DEF OneProcess, Inv, LockInv, Active, Rests
<1>3. /\ pc' = [pc EXCEPT ![c] = "check"] /\ lock' = [lock EXCEPT ![ProcOf[c]] = c]
      /\ plan' = plan
  BY DEF Acquire
<1>4. Stands(c, "check") /\ pc' \in [Calls -> Labels]
  BY <1>3 DEF Stands, Inv, Types, Labels
<1>5. Types' /\ LockInv'
  <2>1. screen' = screen /\ due' = due
    BY <1>1 DEF Looks, pane
  <2>2. ProcOf[c] \in Processes
    BY DEF Processes
  <2>3. Types'
    BY <1>3, <1>4, <2>1, <2>2 DEF Inv, Types
  <2>4. LockInv'
    BY <1>2, <1>3, <1>4, <2>2 DEF Inv, Types, LockInv, Active, Rests, Stands
  <2> QED BY <2>3, <2>4
<1>6. GapAt(c, "check") /\ "check" \in Labels
  BY DEF GapAt, Labels
<1> QED BY <1>1, <1>2, <1>4, <1>5, <1>6, Unmoved DEF Inv

(* The gate lets a call type into what takes its text, or sends it away.   *)
LEMMA GateStep ==
  ASSUME Inv, OneProcess, Looks, NEW c \in Calls, ~Rests(c), pc[c] \notin {"enter", "opened"},
         Gate(c)
  PROVE  Inv'
<1>2. CASE Accepts(c)
  <2>1. \A d \in Calls : pc[d] # "enter"
    BY Turn DEF Inv, Rests
  <2>2. GapAt(c, "type")
    BY <1>2, <2>1, Accepted DEF Inv, GapAt
  <2>3. Goes(c, "type") /\ "type" \in Labels
    BY <1>2 DEF Gate, Goes, Labels
  <2> QED BY <2>2, <2>3, LookStep
<1>3. CASE ~Accepts(c)
  BY <1>3, ReturnStep DEF Gate
<1> QED BY <1>2, <1>3

(* Going to a place that asks nothing of the pane. *)
LEMMA FreeStep ==
  ASSUME Inv, OneProcess, Looks, NEW c \in Calls, ~Rests(c), pc[c] \notin {"enter", "opened"},
         NEW label \in {"recheck", "wait", "identify", "dismissed", "pressed"}, Goes(c, label)
  PROVE  Inv'
<1>1. GapAt(c, label) /\ label \in Labels /\ label # "enter"
  BY DEF GapAt, Labels, Looking
<1> QED BY <1>1, LookStep

LEMMA CheckStep ==
  ASSUME Inv, OneProcess, NEW c \in Calls, Check(c) \/ Recheck(c) PROVE Inv'
<1>1. pc[c] \in {"check", "recheck"} /\ ~Rests(c) /\ Looks
  BY DEF Check, Recheck, At, Rests
<1>2. Return(c, "no_session") \/ Goto(c, "wait") \/ Gate(c)
  BY DEF Check, Recheck
<1>3. CASE Return(c, "no_session")
  BY <1>1, <1>3, ReturnStep
<1>4. CASE Goto(c, "wait")
  BY <1>1, <1>4, FreeStep DEF Goes
<1>5. CASE Gate(c)
  BY <1>1, <1>5, GateStep
<1> QED BY <1>2, <1>3, <1>4, <1>5

LEMMA RecoverStep ==
  ASSUME Inv, OneProcess, NEW c \in Calls, Wait(c) \/ Identify(c) \/ Dismissed(c) PROVE Inv'
<1>1. pc[c] \in {"wait", "identify", "dismissed"} /\ ~Rests(c) /\ Looks
  BY DEF Wait, Identify, Dismissed, At, Rests
<1>2. CASE \E label \in {"recheck", "wait", "identify", "dismissed"} : Goes(c, label)
  <2>1. PICK label \in {"recheck", "wait", "identify", "dismissed"} : Goes(c, label)
    BY <1>2
  <2> QED BY <1>1, <2>1, FreeStep
<1>3. CASE Goto(c, "dismiss") /\ screen = "readonly"
  <2>1. GapAt(c, "dismiss") /\ "dismiss" \in Labels /\ Goes(c, "dismiss")
    BY <1>3 DEF GapAt, Labels, Looking, Goes
  <2> QED BY <1>1, <2>1, LookStep
<1>4. Wait(c) => \E label \in {"recheck", "wait", "identify", "dismissed"} : Goes(c, label)
  BY DEF Wait, At, Goes
<1>5. Dismissed(c) => \E label \in {"recheck", "wait", "identify", "dismissed"} : Goes(c, label)
  BY DEF Dismissed, At, Goes
<1>6. Identify(c) => \/ Goto(c, "dismiss") /\ screen = "readonly"
                     \/ \E label \in {"recheck", "wait", "identify", "dismissed"} : Goes(c, label)
  BY DEF Identify, Goes
<1> QED BY <1>2, <1>3, <1>4, <1>5, <1>6

(* Where a call that reads a view stands: its kind is known.               *)
LEMMA Reads ==
  ASSUME Inv, NEW c \in Calls, pc[c] \in {"opened", "settle", "close", "closed"}
  PROVE  plan.want[c] \in {"view", "btw"} /\ GapAt(c, "opened") /\ GapAt(c, "closed")
BY DEF Inv, GapInv, GapAt

LEMMA OpenedStep ==
  ASSUME Inv, OneProcess, NEW c \in Calls, Opened(c) PROVE Inv'
<1>1. pc[c] = "opened" /\ ~Rests(c)
  BY DEF Opened, At, Rests
<1>2. CASE ViewOpen(c)
  <2> DEFINE label == IF plan.want[c] = "btw" THEN "settle" ELSE "close"
  <2>1. Goto(c, label) /\ UNCHANGED pane
    BY <1>2 DEF Opened
  <2>2. GapAt(c, label)
    BY <1>1, <1>2, Reads, States DEF Inv, GapAt, ViewOpen, Overlaid
  <2>4. label \in Labels /\ label \notin {"enter", "opened"}
    BY DEF Labels, Looking
  <2> HIDE DEF label
  <2>5. Stands(c, label) /\ Goes(c, label)
    BY <2>1, <2>4, WentTo DEF Inv, Goes
  <2>6. \A d \in Calls \ {c} : Rests(d)
    BY <1>1, Turn DEF Inv
  <2>7. screen' \in Screens /\ due' \subseteq Calls
    BY <2>1 DEF pane, Inv, Types
  <2>8. Types' /\ LockInv'
    BY <1>1, <2>4, <2>5, <2>7, TurnOver
  <2> QED BY <1>1, <2>1, <2>2, <2>4, <2>5, <2>6, <2>8, UnmovedPane DEF Inv
<1>3. CASE ~ViewOpen(c)
  <2>1. Looks /\ (Again(c) \/ Return(c, "view_not_opened"))
    BY <1>3 DEF Opened
  <2>2. CASE Again(c)
    <3>1. GapAt(c, "opened") /\ "opened" \in Labels /\ Goes(c, "opened")
      BY <1>1, <2>2, Reads DEF Labels, Looking, Goes
    <3> QED BY <1>1, <2>1, <3>1, LookStep
  <2>3. CASE Return(c, "view_not_opened")
    BY <1>1, <2>1, <2>3, ReturnStep
  <2> QED BY <2>1, <2>2, <2>3
<1> QED BY <1>2, <1>3

LEMMA SettleStep ==
  ASSUME Inv, OneProcess, NEW c \in Calls, Settle(c) PROVE Inv'
<1>1. pc[c] = "settle" /\ ~Rests(c) /\ Looks
  BY DEF Settle, At, Rests
<1>2. GapAt(c, "settle")
  BY <1>1 DEF Inv, GapInv
<1>3. Again(c) \/ Goto(c, "close")
  BY DEF Settle
<1>4. CASE Again(c)
  <2>1. Goes(c, "settle") /\ "settle" \in Labels
    BY <1>1, <1>4 DEF Goes, Labels, Looking
  <2> QED BY <1>1, <1>2, <2>1, LookStep
<1>5. CASE Goto(c, "close")
  <2>1. Goes(c, "close") /\ "close" \in Labels
    BY <1>5 DEF Goes, Labels, Looking
  <2>2. GapAt(c, "close")
    BY <1>2 DEF GapAt
  <2> QED BY <1>1, <2>1, <2>2, LookStep
<1> QED BY <1>3, <1>4, <1>5

LEMMA ClosedStep ==
  ASSUME Inv, OneProcess, NEW c \in Calls, Closed(c) PROVE Inv'
<1>1. pc[c] = "closed" /\ ~Rests(c) /\ Looks
  BY DEF Closed, At, Rests
<1>2. Again(c) \/ \E r : Return(c, r)
  BY DEF Closed
<1>3. CASE Again(c)
  <2>1. Goes(c, "closed") /\ "closed" \in Labels
    BY <1>1, <1>3 DEF Goes, Labels, Looking
  <2> QED BY <1>1, <2>1, Reads, LookStep
<1>4. CASE \E r : Return(c, r)
  BY <1>1, <1>4, ReturnStep
<1> QED BY <1>2, <1>3, <1>4

LEMMA ConfirmStep ==
  ASSUME Inv, OneProcess, NEW c \in Calls, Confirm(c) PROVE Inv'
<1>1. pc[c] = "check" /\ ~Rests(c) /\ Looks
  BY DEF Confirm, At, Rests
<1>2. (screen = Dialog(c) /\ Goto(c, "press")) \/ \E r : Return(c, r)
  BY DEF Confirm
<1>3. CASE screen = Dialog(c) /\ Goto(c, "press")
  <2>1. GapAt(c, "press") /\ "press" \in Labels /\ Goes(c, "press")
    BY <1>3 DEF GapAt, Labels, Goes
  <2> QED BY <1>1, <2>1, LookStep
<1>4. CASE \E r : Return(c, r)
  BY <1>1, <1>4, ReturnStep
<1> QED BY <1>2, <1>3, <1>4

LEMMA PressedStep ==
  ASSUME Inv, OneProcess, NEW c \in Calls, Pressed(c) PROVE Inv'
<1>1. pc[c] = "pressed" /\ ~Rests(c) /\ Looks
  BY DEF Pressed, At, Rests
<1>2. Again(c) \/ \E r : Return(c, r)
  BY DEF Pressed
<1>3. CASE Again(c)
  BY <1>1, <1>3, FreeStep DEF Goes
<1>4. CASE \E r : Return(c, r)
  BY <1>1, <1>4, ReturnStep
<1> QED BY <1>2, <1>3, <1>4

LEMMA RaiseStep ==
  ASSUME Inv, OneProcess, NEW c \in Calls, Fails(c) PROVE Inv'
<1>1. pc[c] # "enter" /\ ~Rests(c) /\ Looks /\ Return(c, "raised") /\ screen = "gone"
  BY DEF Fails, Raise, Rests, Looking, Alive
<1> QED BY <1>1, ReturnStep

-----------------------------------------------------------------------------
(* Steps that send keys *)

(* What is asked of the pane is asked of the one call that works. *)
LEMMA KeyStep ==
  ASSUME Inv, OneProcess, NEW c \in Calls, NEW label \in Labels, ~Rests(c), Goes(c, label),
         screen' \in Screens, due' \subseteq Calls,
         GapAt(c, label)', BoxInv'
  PROVE  Inv'
<1>1. Stands(c, label)
  BY Going DEF Inv
<1>2. \A d \in Calls \ {c} : Rests(d)'
  BY <1>1, Turn DEF Inv, Rests, Stands
<1>3. \A d \in Calls \ {c} : GapAt(d, pc[d])'
  BY <1>2 DEF Rests, GapAt
<1>4. GapAt(c, pc[c])'
  BY <1>1 DEF Stands
<1>5. GapInv'
  BY <1>3, <1>4 DEF GapInv
<1>6. Types' /\ LockInv'
  BY TurnOver
<1> QED BY <1>5, <1>6 DEF Inv

(* Text goes to an empty input line that takes it, or to the view over it. *)
LEMMA TypeStep ==
  ASSUME Inv, OneProcess, NEW c \in Calls, Type(c) PROVE Inv'
<1>1. pc[c] = "type" /\ ~Rests(c)
  BY DEF Type, At, Rests
<1>2. Fits(c) /\ (AheadIsHis \/ box = <<>>)
  BY <1>1 DEF Inv, GapInv, GapAt
<1>3. Alive /\ (Input <=> overlay = None)
  BY <1>2 DEF Fits, Alive, Input
<1>4. /\ Goto(c, "enter") /\ box' = (IF overlay = None THEN Append(box, c) ELSE box)
      /\ UNCHANGED <<screen, overlay, due, submitted>>
  BY <1>3 DEF Type
<1>5. "enter" \in Labels /\ Goes(c, "enter") /\ plan' = plan
  BY <1>4 DEF Labels, Goes, Goto
<1>6. Stands(c, "enter")
  BY <1>5, Going DEF Inv
<1>7. GapAt(c, "enter")'
  BY <1>2, <1>4, <1>5 DEF GapAt, Fits, BusyTolerant
<1>10. BoxInv'
  <2>1. \A d \in Calls : pc'[d] = "enter" => d = c
    BY <1>1, <1>6, Turn DEF Inv, Rests, Stands
  <2>2. ~AheadIsHis => box' = (IF overlay' = None THEN <<c>> ELSE <<>>)
    <3>1. Append(<<>>, c) = <<c>>
      OBVIOUS
    <3> QED BY <1>2, <1>4, <3>1
  <2>3. SentAlone'= SentAlone /\ AheadIsHis' = AheadIsHis
    BY <1>4, <1>5 DEF SentAlone, AheadIsHis
  <2>4. pc'[c] = "enter"
    BY <1>6 DEF Stands
  <2> QED BY <2>1, <2>2, <2>3, <2>4 DEF Inv, BoxInv
<1>11. screen' \in Screens /\ due' \subseteq Calls
  BY <1>4 DEF Inv, Types
<1> QED BY <1>1, <1>5, <1>7, <1>10, <1>11, KeyStep

(* Enter sends what the call has typed, and nothing else. *)
LEMMA EnterStep ==
  ASSUME Inv, OneProcess, NEW c \in Calls, Enter(c) PROVE Inv'
<1>0. PICK label \in {"opened", "done"} : label = IF AfterEnter(c) = "opened" THEN "opened" ELSE "done"
  OBVIOUS
<1>1. pc[c] = "enter" /\ ~Rests(c)
  BY DEF Enter, At, Rests
<1>2. Fits(c)
  BY <1>1 DEF Inv, GapInv, GapAt
<1>3. Alive /\ screen \in {"prompt", "working"} /\ (Input <=> overlay = None)
  BY <1>2 DEF Fits, Alive, Input
<1>4. /\ IF AfterEnter(c) = "opened" THEN Goto(c, "opened") ELSE Return(c, "ok")
      /\ \/ overlay = None /\ Submits(c)
         \/ overlay # None /\ UNCHANGED <<screen, submitted, box, due>>
  BY <1>3 DEF Enter
<1>5. label \in Labels /\ Goes(c, label) /\ plan' = plan
  BY <1>0, <1>4 DEF Labels, Looking, Goes, Goto, Return
<1>6. Stands(c, label)
  BY <1>5, Going DEF Inv
<1>7. GapAt(c, label)'
  BY <1>0, <1>5 DEF GapAt, AfterEnter
<1>8. screen' \in {"prompt", "working"} /\ due' \subseteq due \cup {c}
  BY <1>3, <1>4 DEF Submits
<1>11. BoxInv'
  <2>1. \A d \in Calls : pc'[d] # "enter"
    BY <1>0, <1>1, <1>6, Turn DEF Inv, Rests, Stands
  <2>2. ~AheadIsHis => SentAlone /\ box = (IF overlay = None THEN <<c>> ELSE <<>>)
    BY <1>1 DEF Inv, BoxInv
  <2>3. ~AheadIsHis => box' = <<>>
    BY <1>4, <2>2 DEF Submits
  <2>4. ~AheadIsHis => SentAlone'
    <3>1. CASE overlay = None
      <4>1. submitted' = submitted \cup {box}
        BY <1>4, <3>1 DEF Submits
      <4> QED BY <1>5, <2>2, <3>1, <4>1 DEF SentAlone, AheadIsHis
    <3>2. CASE overlay # None
      BY <1>4, <1>5, <2>2, <3>2 DEF SentAlone, AheadIsHis
    <3> QED BY <3>1, <3>2
  <2> QED BY <1>5, <2>1, <2>3, <2>4 DEF BoxInv, AheadIsHis
<1>12. screen' \in Screens /\ due' \subseteq Calls
  BY <1>8 DEF Inv, Types, Screens
<1> QED BY <1>1, <1>5, <1>7, <1>11, <1>12, KeyStep

(* An Escape leaves what was typed alone, and no view behind. *)
LEMMA EscapeStep ==
  ASSUME Inv, OneProcess, NEW c \in Calls, NEW from, NEW to \in {"dismissed", "closed"},
         NEW meant, Escape(c, from, to, meant), ~Rests(c), from \notin {"enter", "opened"},
         GapAt(c, to)
  PROVE  Inv'
<1>1. pc[c] = from /\ Alive /\ Goto(c, to)
      /\ UNCHANGED <<box, due, submitted>> /\ (Escapes \/ screen' = screen)
  BY DEF Escape, At
<1>3. to \in Labels /\ Goes(c, to) /\ plan' = plan /\ to # "enter"
  BY <1>1 DEF Labels, Looking, Goes, Goto
<1>4. Stands(c, to)
  BY <1>3, Going DEF Inv
<1>5. screen' \in {screen, "prompt", "working"} /\ (screen \in {"prompt"} \cup Views => screen' \in {"prompt"} \cup Views)
  BY <1>1 DEF Escapes, Views
<1>6. GapAt(c, to)'
  BY <1>3 DEF GapAt
<1>9. BoxInv'
  <2>1. \A d \in Calls : pc[d] # "enter" /\ pc'[d] # "enter"
    BY <1>1, <1>3, <1>4, Turn DEF Inv, Rests, Stands
  <2>2. SentAlone' = SentAlone /\ AheadIsHis' = AheadIsHis
    BY <1>1, <1>3 DEF SentAlone, AheadIsHis
  <2> QED BY <1>1, <1>5, <2>1, <2>2 DEF Inv, BoxInv
<1>10. screen' \in Screens /\ due' \subseteq Calls
  BY <1>1, <1>5 DEF Inv, Types, Screens
<1> QED BY <1>3, <1>6, <1>9, <1>10, KeyStep

LEMMA DismissStep ==
  ASSUME Inv, OneProcess, NEW c \in Calls, Dismiss(c) PROVE Inv'
<1>1. pc[c] = "dismiss" /\ ~Rests(c)
  BY DEF Dismiss, Escape, At, Rests
<1>2. screen = "readonly" /\ GapAt(c, "dismissed")
  BY <1>1 DEF Inv, GapInv, GapAt
<1> QED BY <1>1, <1>2, EscapeStep DEF Dismiss

LEMMA CloseStep ==
  ASSUME Inv, OneProcess, NEW c \in Calls, Close(c) PROVE Inv'
<1> DEFINE meant == IF plan.want[c] = "btw" THEN overlay # None ELSE screen \in {"readonly", "picker"}
<1>1. pc[c] = "close" /\ ~Rests(c)
  BY DEF Close, Escape, At, Rests
<1>2. GapAt(c, "closed")
  BY <1>1, Reads
<1>3. Escape(c, "close", "closed", meant)
  BY DEF Close
<1> HIDE DEF meant
<1> QED BY <1>1, <1>2, <1>3, EscapeStep

(* A digit goes to a dialog, never to the input line. *)
LEMMA PressStep ==
  ASSUME Inv, OneProcess, NEW c \in Calls, Press(c) PROVE Inv'
<1>1. pc[c] = "press" /\ ~Rests(c)
  BY DEF Press, At, Rests
<1>2. screen = Dialog(c) /\ screen \in {"question", "permission"} /\ Alive
  BY <1>1 DEF Inv, GapInv, GapAt, Dialog, Alive
<1>3. /\ Goto(c, "pressed")
      /\ screen' \in {screen, "working"}
      /\ UNCHANGED <<box, overlay, due, submitted>>
  BY <1>2 DEF Press, Input
<1>4. "pressed" \in Labels /\ Goes(c, "pressed") /\ plan' = plan
  BY <1>3 DEF Labels, Looking, Goes, Goto
<1>5. Stands(c, "pressed")
  BY <1>4, Going DEF Inv
<1>6. GapAt(c, "pressed")'
  BY DEF GapAt
<1>9. BoxInv'
  <2>1. \A d \in Calls : pc[d] # "enter" /\ pc'[d] # "enter"
    BY <1>1, <1>5, Turn DEF Inv, Rests, Stands
  <2>2. SentAlone' = SentAlone /\ AheadIsHis' = AheadIsHis
    BY <1>3, <1>4 DEF SentAlone, AheadIsHis
  <2> QED BY <1>2, <1>3, <2>1, <2>2 DEF Inv, BoxInv, Views
<1>10. screen' \in Screens /\ due' \subseteq Calls
  BY <1>2, <1>3 DEF Inv, Types, Screens
<1> QED BY <1>1, <1>4, <1>6, <1>9, <1>10, KeyStep

-----------------------------------------------------------------------------
(* The pane and its user move.  The calls stay where they are. *)

LEMMA Elsewhere ==
  ASSUME Inv, UNCHANGED ctl, screen' \in Screens, due' \subseteq Calls,
         GapInv', BoxInv'
  PROVE  Inv'
<1>1. Types' /\ LockInv'
  BY DEF ctl, Inv, Types, LockInv, Active
<1> QED BY <1>1 DEF Inv

(* Where nobody is about to press a key, only what is waited for counts.   *)
LEMMA Quiet ==
  ASSUME Inv, plan' = plan, pc' = pc, \A c \in Calls : ~InGap(c), Overlaid => Overlaid'
  PROVE  GapInv'
<1>1. ASSUME NEW c \in Calls PROVE GapAt(c, pc[c])'
  <2>1. pc[c] \notin {"type", "enter", "dismiss", "close", "press"}
    BY DEF InGap
  <2>2. GapAt(c, pc[c])
    BY DEF Inv, GapInv
  <2> QED BY <2>1, <2>2 DEF GapAt
<1> QED BY <1>1 DEF GapInv

(* Without anybody at the Enter the input line holds what its user typed.  *)
LEMMA NobodysText ==
  ASSUME Inv, \A c \in Calls : ~InGap(c)
  PROVE  /\ \A c \in Calls : pc[c] # "enter"
         /\ AheadIsHis \/ box = <<>> \/ (box = <<Him>> /\ screen \in {"prompt"} \cup Views)
         /\ AheadIsHis \/ SentAlone
BY DEF Inv, BoxInv, InGap

LEMMA BoxStays ==
  ASSUME Inv, \A c \in Calls : ~InGap(c), plan' = plan, pc' = pc,
         AheadIsHis \/ box' = <<>> \/ (box' = <<Him>> /\ screen' \in {"prompt"} \cup Views),
         AheadIsHis \/ SentAlone'
  PROVE  BoxInv'
<1>1. \A c \in Calls : pc'[c] # "enter"
  BY NobodysText
<1> QED BY <1>1 DEF BoxInv, AheadIsHis

LEMMA SentStays == ASSUME UNCHANGED <<plan, submitted>>, SentAlone PROVE SentAlone'
BY DEF SentAlone

(* A view opens, early or late, where nobody is about to press a key.      *)
LEMMA OpensStep ==
  ASSUME Inv, Steady, PaneOpens PROVE Inv'
<1>1. /\ screen \in {"prompt", "working"} /\ UNCHANGED <<box, submitted, plan, pc, ctl>>
      /\ \A c \in Calls : ~InGap(c)
  BY DEF PaneOpens, ctl, MayMove
<1>2. PICK c \in due : /\ due' = due \ {c}
                      /\ overlay' \in {overlay, c}
                      /\ \/ screen' = screen
                         \/ screen' = "readonly" /\ plan.want[c] = "view" /\ overlay = None
  BY DEF PaneOpens
<1>3. c \in Calls /\ due' \subseteq Calls /\ screen' \in Screens
  BY <1>1, <1>2 DEF Inv, Types, Screens
<1>4. Overlaid => Overlaid'
  BY <1>1, <1>2, <1>3, HimAssumption DEF Overlaid, BtwIsHis
<1>5. BoxInv'
  <2>1. AheadIsHis \/ box' = <<>> \/ (box' = <<Him>> /\ screen' \in {"prompt"} \cup Views)
    BY <1>1, <1>2, NobodysText DEF Views
  <2> QED BY <1>1, <2>1, BoxStays, NobodysText, SentStays
<1> QED BY <1>1, <1>3, <1>4, <1>5, Quiet, Elsewhere

(* The session works: it ends its turn, asks something, or dies.           *)
LEMMA WorksStep ==
  ASSUME Inv, Steady, Works PROVE Inv'
<1>1. UNCHANGED <<ctl, submitted>> /\ plan' = plan /\ pc' = pc
      /\ \A c \in Calls : ~InGap(c)
  BY DEF Works, Moves, MayMove, ctl
<1>2. CASE /\ screen = "working" /\ screen' \in {"prompt", "question", "permission"}
           /\ UNCHANGED <<box, due, overlay>>
  <2>1. Overlaid => Overlaid'
    BY <1>1, <1>2 DEF Overlaid, BtwIsHis
  <2>3. BoxInv'
    <3>1. AheadIsHis \/ box = <<>>
      BY <1>1, <1>2, NobodysText DEF Views
    <3> QED BY <1>1, <1>2, <3>1, NobodysText, BoxStays, SentStays
  <2>4. screen' \in Screens /\ due' \subseteq Calls
    BY <1>2 DEF Inv, Types, Screens
  <2> QED BY <1>1, <2>1, <2>3, <2>4, Quiet, Elsewhere
<1>3. CASE screen' = "gone" /\ box' = <<>> /\ due' = {}
  <2>1. Overlaid'
    BY <1>3 DEF Overlaid
  <2>3. BoxInv'
    BY <1>1, <1>3, NobodysText, BoxStays, SentStays
  <2>4. screen' \in Screens /\ due' \subseteq Calls
    BY <1>3 DEF Screens
  <2> QED BY <1>1, <2>1, <2>3, <2>4, Quiet, Elsewhere
<1> QED BY <1>2, <1>3 DEF Works

LEMMA TypesStep ==
  ASSUME Inv, Steady, UserTypes PROVE Inv'
<1>1. UNCHANGED <<ctl, overlay, due>> /\ plan' = plan /\ pc' = pc
      /\ \A c \in Calls : ~InGap(c)
  BY DEF UserTypes, Moves, MayMove, ctl
<1>2. screen \in {"prompt", "working"} /\ screen' \in {"prompt", "working"}
      /\ (~AheadIsHis => screen = "prompt")
  BY DEF UserTypes, AheadIsHis
<1>3. Overlaid => Overlaid'
  BY <1>1, <1>2 DEF Overlaid, BtwIsHis
<1>4. screen' \in Screens /\ due' \subseteq Calls
  BY <1>1, <1>2 DEF Screens, Inv, Types
<1>5. CASE /\ Him \notin {box[i] : i \in DOMAIN box} /\ box' = Append(box, Him)
           /\ UNCHANGED <<screen, submitted>>
  <2>1. ~AheadIsHis => box = <<>>
    <3>1. box = <<Him>> => box[1] = Him /\ 1 \in DOMAIN box
      OBVIOUS
    <3> QED BY <1>1, <1>5, <3>1, NobodysText
  <2>2. Append(<<>>, Him) = <<Him>>
    OBVIOUS
  <2>3. AheadIsHis \/ (box' = <<Him>> /\ screen' \in {"prompt"} \cup Views)
    BY <1>2, <1>5, <2>1, <2>2
  <2>4. BoxInv'
    BY <1>1, <1>5, <2>3, NobodysText, BoxStays, SentStays
  <2> QED BY <1>1, <1>3, <1>4, <2>4, Quiet, Elsewhere
<1>6. CASE box # <<>> /\ box' = <<>> /\ submitted' = submitted \cup {box}
  <2>1. AheadIsHis \/ SentAlone'
    <3>1. AheadIsHis \/ (box = <<Him>> /\ SentAlone)
      BY <1>1, <1>6, NobodysText
    <3> QED BY <1>1, <1>6, <3>1 DEF SentAlone, AheadIsHis
  <2>2. BoxInv'
    BY <1>1, <1>6, <2>1, BoxStays
  <2> QED BY <1>1, <1>3, <1>4, <2>2, Quiet, Elsewhere
<1> QED BY <1>5, <1>6 DEF UserTypes

LEMMA ViewsStep ==
  ASSUME Inv, Steady, UserViews PROVE Inv'
<1>1. UNCHANGED <<ctl, overlay, box, due, submitted>> /\ plan' = plan /\ pc' = pc
      /\ \A c \in Calls : ~InGap(c)
  BY DEF UserViews, Moves, MayMove, ctl
<1>2. \/ screen = "prompt" /\ screen' \in Views
      \/ screen \in Views /\ screen' = "prompt"
  BY States DEF UserViews, Views, Inv
<1>3. Overlaid => Overlaid'
  BY <1>1, <1>2 DEF Overlaid, BtwIsHis, Views
<1>5. BoxInv'
  <2>1. screen' \in {"prompt"} \cup Views
    BY <1>2
  <2> QED BY <1>1, <2>1, NobodysText, BoxStays, SentStays
<1>6. screen' \in Screens /\ due' \subseteq Calls
  BY <1>1, <1>2 DEF Inv, Types, Screens, Views
<1> QED BY <1>1, <1>3, <1>5, <1>6, Quiet, Elsewhere

LEMMA AnswersStep ==
  ASSUME Inv, Steady, UserAnswers PROVE Inv'
<1>1. UNCHANGED <<ctl, overlay, box, due, submitted>> /\ plan' = plan /\ pc' = pc
      /\ screen \in {"question", "permission"} /\ screen' = "working"
      /\ \A c \in Calls : ~InGap(c)
  BY DEF UserAnswers, Moves, MayMove, ctl
<1>2. Overlaid => Overlaid'
  BY <1>1 DEF Overlaid, BtwIsHis
<1>4. BoxInv'
  <2>1. AheadIsHis \/ box = <<>>
    BY <1>1, NobodysText DEF Views
  <2> QED BY <1>1, <2>1, NobodysText, BoxStays, SentStays
<1>5. screen' \in Screens /\ due' \subseteq Calls
  BY <1>1 DEF Inv, Types, Screens
<1> QED BY <1>1, <1>2, <1>4, <1>5, Quiet, Elsewhere

LEMMA ClosesStep ==
  ASSUME Inv, Steady, UserClosesBtw PROVE Inv'
<1>1. UNCHANGED <<ctl, screen, box, due, submitted>> /\ plan' = plan /\ pc' = pc
      /\ BtwIsHis /\ \A c \in Calls : ~InGap(c)
  BY DEF UserClosesBtw, Moves, MayMove, ctl, BtwIsHis
<1>2. Overlaid'
  BY <1>1 DEF Overlaid, BtwIsHis
<1>4. BoxInv'
  BY <1>1, NobodysText, BoxStays, SentStays
<1>5. screen' \in Screens /\ due' \subseteq Calls
  BY <1>1 DEF Inv, Types
<1> QED BY <1>1, <1>2, <1>4, <1>5, Quiet, Elsewhere

LEMMA StillThere ==
  ASSUME Inv, BtwAnswers \/ UNCHANGED vars PROVE Inv'
<1>1. UNCHANGED <<ctl, screen, overlay, box, due, submitted>> /\ plan' = plan /\ pc' = pc
  BY DEF BtwAnswers, ctl, vars, pane
<1>2. GapInv'
  BY <1>1 DEF Inv, GapInv, GapAt, Fits, Overlaid, BtwIsHis, AheadIsHis, BusyTolerant, Dialog
<1>3. BoxInv'
  BY <1>1, SentStays DEF Inv, BoxInv, AheadIsHis
<1>4. screen' \in Screens /\ due' \subseteq Calls
  BY <1>1 DEF Inv, Types
<1> QED BY <1>1, <1>2, <1>3, <1>4, Elsewhere

LEMMA PaneStep ==
  ASSUME Inv, Steady, Pane \/ User PROVE Inv'
BY StillThere, OpensStep, WorksStep, TypesStep, ViewsStep, AnswersStep, ClosesStep DEF Pane, User

-----------------------------------------------------------------------------

LEMMA InitOK == Init => Inv
<1> SUFFICES ASSUME Init PROVE Inv
  OBVIOUS
<1>1. Types
  BY DEF Init, Types, Screens, Labels
<1>2. LockInv
  BY DEF Init, LockInv, Active
<1>3. GapInv
  BY DEF Init, GapInv, GapAt
<1>6. BoxInv
  BY DEF Init, BoxInv, SentAlone
<1> QED BY <1>1, <1>2, <1>3, <1>6 DEF Inv

LEMMA CallStep ==
  ASSUME Inv, OneProcess, NEW c \in Calls, Step(c) PROVE Inv'
<1>1. CASE Deliver(c)
  BY <1>1, AcquireStep, CheckStep, TypeStep, EnterStep DEF Deliver
<1>2. CASE Recover(c)
  BY <1>2, RecoverStep, DismissStep DEF Recover
<1>3. CASE ReadView(c)
  BY <1>3, OpenedStep, SettleStep, CloseStep, ClosedStep DEF ReadView
<1>4. CASE AnswerDialog(c)
  BY <1>4, ConfirmStep, PressStep, PressedStep DEF AnswerDialog
<1>5. CASE Fails(c)
  BY <1>5, RaiseStep
<1> QED BY <1>1, <1>2, <1>3, <1>4, <1>5 DEF Step

LEMMA NextOK == ASSUME OneProcess, Steady PROVE Inv /\ [Next]_vars => Inv'
<1> SUFFICES ASSUME Inv, [Next]_vars PROVE Inv'
  OBVIOUS
<1>1. CASE UNCHANGED vars
  BY <1>1, StillThere
<1>2. CASE \E c \in Calls : Step(c)
  BY <1>2, CallStep
<1>3. CASE Pane \/ User
  BY <1>3, PaneStep
<1> QED BY <1>1, <1>2, <1>3 DEF Next

(* The invariant holds of every behaviour in which one process makes the   *)
(* calls and the pane holds still between a look and the keys after it.    *)
THEOREM Invariance == ASSUME OneProcess, Steady PROVE Spec => []Inv
BY InitOK, NextOK, PTL DEF Spec

(* No payload is ever submitted with another one, nor with what the user   *)
(* has typed: the lock of the target and the look at the input line are     *)
(* enough for that (_deliver_locked), for any number of calls, as long as   *)
(* they are made by one process.                                            *)
THEOREM TextsAlone == ASSUME OneProcess, Steady PROVE Spec => []SentAlone
<1>1. Inv => SentAlone
  BY DEF Inv, BoxInv, SentAlone, AheadIsHis
<1> QED BY <1>1, Invariance, PTL

-----------------------------------------------------------------------------
(* What a call says it has done *)

(* Where a call whose command opens a view waits for it and closes it. *)
Reading == {"settle", "close", "closed"}
After == {"opened"} \cup Reading

InBox(c) == \E i \in DOMAIN box : box[i] = c
Sent(c)  == \E b \in submitted : \E i \in DOMAIN b : b[i] = c
Aside(c) == \E k \in stray : k[1] = c /\ k[4] \in Calls
Reached(c) == Sent(c) \/ Aside(c)

(* The call's own view, or one that was missed. *)
Taken(v, c) == v = c \/ (v \in Calls /\ Missed(v))

OwnView(c) ==
  /\ plan.want[c] = "view" /\ "viewsMeanwhile" \notin plan.habits => Taken(read[c], c)
  /\ plan.want[c] = "btw" => Taken(read[c], c)

(* What ok promises. *)
Kept(c) ==
  /\ Delivers(c) => Reached(c)
  /\ read[c] = c => owner # c /\ overlay # c
  /\ ~Delivers(c) => asked[c] < dialog \/ screen # Dialog(c)
  /\ OwnView(c)

(* A view that is still to open, or lies over the session without its call, *)
(* is one its call has missed.                                              *)
ViewInv(c) ==
  /\ c \in due => pc[c] \in After \cup {"done"} /\ read[c] # c
  /\ read[c] = c => pc[c] \in Reading \cup {"done"}
  /\ overlay = c \/ owner = c => c \notin due
  /\ overlay = c => pc[c] \in After \/ Missed(c)

CallInv(c) ==
  /\ asked[c] \in 0 .. dialog
  /\ result[c] # None <=> pc[c] = "done"
  /\ pc[c] = "enter" => IF overlay = None THEN InBox(c) ELSE Aside(c)
  /\ pc[c] \in {"press", "pressed"} => ~Delivers(c)
  /\ pc[c] \in After => Reached(c)
  /\ pc[c] = "opened" /\ plan.want[c] = "view" /\ screen \in Views
       => Taken(owner, c) \/ "viewsMeanwhile" \in plan.habits
  /\ pc[c] \in Reading => OwnView(c)
  /\ result[c] = "ok" => Kept(c)

ScreenInv ==
  /\ box \in Seq(Calls \cup {Him}) /\ dialog \in Nat
  /\ owner # None => screen \in Views /\ (owner \in Calls => plan.want[owner] = "view")
  /\ overlay # None => overlay \in Calls /\ plan.want[overlay] = "btw" /\ screen # "gone"

(* A key that went astray went into a side-question's view that was missed. *)
StrayInv == BtwIsHis \/ \A k \in stray : k[4] \in Calls /\ Missed(k[4])

DoneInv ==
  /\ DOMAIN result = Calls /\ DOMAIN read = Calls /\ DOMAIN asked = Calls
  /\ ScreenInv /\ StrayInv /\ \A c \in Calls : CallInv(c) /\ ViewInv(c)

(* A view that was missed stays so. *)
MissStays == \A d \in Calls : Missed(d) => Missed(d)'

LEMMA MissKept ==
  ASSUME DoneInv, NEW c \in Calls, pc[c] # "done",
         \A d \in Calls \ {c} : result'[d] = result[d] /\ read'[d] = read[d]
  PROVE  MissStays
<1>1. result[c] = None
  BY DEF DoneInv, CallInv
<1> QED BY <1>1 DEF MissStays, Missed

LEMMA TakenStays ==
  ASSUME MissStays, NEW c \in Calls, NEW v, Taken(v, c) PROVE v = c \/ (v \in Calls /\ Missed(v)')
BY DEF MissStays, Taken

(* What was read, and was the call's own or missed, still is. *)
LEMMA OwnStays ==
  ASSUME MissStays, NEW c \in Calls, OwnView(c), plan' = plan, read'[c] = read[c]
  PROVE  OwnView(c)'
<1>1. PICK v : v = read[c]
  OBVIOUS
<1>2. Taken(v, c) => Taken(read[c], c)'
  BY <1>1, TakenStays DEF Taken, Missed
<1> QED BY <1>1, <1>2 DEF OwnView

LEMMA ReachedStays ==
  ASSUME NEW c, Reached(c), submitted \subseteq submitted', stray \subseteq stray'
  PROVE  Reached(c)'
BY DEF Reached, Sent, Aside

(* What ok promised stays so: views are opened for those who wait for them, *)
(* and a dialog that comes is a new one.                                    *)
LEMMA KeptStays ==
  ASSUME NEW c \in Calls, Kept(c), plan' = plan,
         dialog \in Nat, asked[c] \in 0 .. dialog,
         asked'[c] = asked[c], read'[c] = read[c],
         submitted \subseteq submitted', stray \subseteq stray', MissStays,
         read[c] = c => owner' # c /\ overlay' # c,
         \/ dialog' = dialog /\ (screen' = screen \/ screen' \notin {"question", "permission"})
         \/ dialog' = dialog + 1
  PROVE  Kept(c)'
<1>1. Delivers(c)' = Delivers(c) /\ Dialog(c)' = Dialog(c) /\ Dialog(c) \in {"question", "permission"}
  BY DEF Delivers, Dialog
<1>2. Reached(c) => Reached(c)'
  BY ReachedStays
<1>3. OwnView(c)'
  BY OwnStays DEF Kept
<1> QED BY <1>1, <1>2, <1>3 DEF Kept

LEMMA StrayStays == ASSUME StrayInv, MissStays, plan' = plan, stray' = stray PROVE StrayInv'
<1>1. BtwIsHis' = BtwIsHis
  BY DEF BtwIsHis
<1>2. ASSUME NEW k \in stray, k[4] \in Calls, Missed(k[4]) PROVE Missed(k[4])'
  BY <1>2 DEF MissStays
<1> QED BY <1>1, <1>2 DEF StrayInv

(* A step of call c leaves what holds of the others. *)
LEMMA OthersKept ==
  ASSUME DoneInv, NEW c \in Calls, \A d \in Calls \ {c} : Rests(d), NEW label, Stands(c, label),
         pc[c] # "done",
         \A d \in Calls \ {c} : result'[d] = result[d] /\ asked'[d] = asked[d] /\ read'[d] = read[d],
         submitted \subseteq submitted', stray \subseteq stray', dialog' = dialog,
         owner' \in {owner, None}, overlay' \in {overlay, None}, due' \subseteq due \cup {c},
         screen' = screen \/ screen' \notin {"question", "permission"}
  PROVE  MissStays /\ \A d \in Calls \ {c} : CallInv(d)' /\ ViewInv(d)'
<1>1. MissStays
  BY MissKept
<1> SUFFICES ASSUME NEW d \in Calls \ {c} PROVE CallInv(d)' /\ ViewInv(d)'
  BY <1>1
<1>2. plan' = plan /\ pc'[d] = pc[d] /\ Rests(d)
  BY DEF Stands
<1>3. CallInv(d) /\ ViewInv(d) /\ dialog \in Nat
  BY DEF DoneInv, ScreenInv
<1>4. (Missed(d) => Missed(d)') /\ d # None
  BY <1>1, HimAssumption DEF MissStays
<1>5. ViewInv(d)'
  BY <1>2, <1>3, <1>4 DEF ViewInv
<1>6. read[d] = d => (owner' # d /\ overlay' # d) \/ result[d] # "ok"
  BY <1>3, <1>4 DEF CallInv, Kept
<1>7. result'[d] = "ok" => Kept(d)'
  BY <1>1, <1>2, <1>3, <1>6, KeptStays DEF CallInv
<1>8. CallInv(d)'
  BY <1>2, <1>3, <1>7 DEF CallInv, Rests, After, Reading
<1> QED BY <1>5, <1>8

(* What a call that works returns, or does not yet. *)
Says(c, label) ==
  /\ DOMAIN result' = Calls /\ \A d \in Calls \ {c} : result'[d] = result[d]
  /\ result'[c] # None <=> label = "done"
  /\ result'[c] = "ok" => Kept(c)'

LEMMA Saying ==
  ASSUME DoneInv, NEW c \in Calls, pc[c] # "done", NEW label, NEW r,
         \/ result' = result /\ label # "done"
         \/ result' = [result EXCEPT ![c] = r] /\ label = "done" /\ r # None /\ (r = "ok" => Kept(c)')
  PROVE  Says(c, label)
<1>1. result[c] = None /\ DOMAIN result = Calls /\ None # "ok"
  BY DEF DoneInv, CallInv, None
<1> QED BY <1>1 DEF Says

LEMMA SayingOnReturn ==
  ASSUME DoneInv, NEW c \in Calls, pc[c] # "done", NEW r, Return(c, r), r # None, r = "ok" => Kept(c)'
  PROVE  Says(c, "done")
<1>1. result' = [result EXCEPT ![c] = r]
  BY DEF Return
<1>2. result[c] = None /\ DOMAIN result = Calls /\ None # "ok"
  BY DEF DoneInv, CallInv, None
<1> QED BY <1>1, <1>2 DEF Says

(* How a call that looks, or goes on, leaves its own. *)
LEMMA LooksOn ==
  ASSUME Inv, DoneInv, NEW c \in Calls, NEW label, pc[c] # "done",
         \A d \in Calls \ {c} : Rests(d), Stands(c, label),
         UNCHANGED <<pane, asked, stray>>, DOMAIN read' = Calls,
         \A d \in Calls \ {c} : read'[d] = read[d],
         Says(c, label),
         label \in {"press", "pressed"} => ~Delivers(c),
         label # "enter", label = "opened" => pc[c] = "opened",
         label \in Reading => pc[c] \in After /\ OwnView(c)',
         c \in due => label \in After \cup {"done"} /\ read'[c] # c,
         read'[c] = c => label \in Reading \cup {"done"},
         overlay = c => label \in After \/ Missed(c)'
  PROVE  DoneInv'
<1>1. UNCHANGED <<plan, screen, overlay, box, due, owner, dialog, submitted>>
  BY DEF pane, Stands
<1>2. /\ DOMAIN result' = Calls
      /\ \A d \in Calls \ {c} : result'[d] = result[d] /\ asked'[d] = asked[d]
      /\ DOMAIN asked' = Calls
  BY DEF DoneInv, Says
<1>3. MissStays /\ \A d \in Calls \ {c} : CallInv(d)' /\ ViewInv(d)'
  BY <1>1, <1>2, OthersKept
<1>4. ScreenInv'
  BY <1>1 DEF DoneInv, ScreenInv
<1>5. pc'[c] = label
  BY DEF Stands
<1>6. StrayInv'
  BY <1>1, <1>3, StrayStays DEF DoneInv
<1>7. ViewInv(c)'
  BY <1>1, <1>5 DEF DoneInv, ViewInv
<1>8. CallInv(c)'
  <2>1. CallInv(c) /\ result[c] = None
    BY DEF DoneInv, CallInv
  <2>2. asked'[c] \in 0 .. dialog'
    BY <1>1, <2>1 DEF CallInv
  <2>3. label \in {"press", "pressed"} => ~Delivers(c)'
    BY <1>1 DEF Delivers
  <2>4. label \in After => Reached(c)'
    BY <1>1, <2>1, ReachedStays DEF CallInv, After
  <2>5. label = "opened" /\ plan'.want[c] = "view" /\ screen' \in Views
          => Taken(owner, c)' \/ "viewsMeanwhile" \in plan'.habits
    <3>1. PICK v : v = owner
      OBVIOUS
    <3>2. Taken(v, c) => Taken(owner, c)'
      BY <1>1, <1>3, <3>1, TakenStays DEF Taken, Missed
    <3> QED BY <1>1, <2>1, <3>1, <3>2 DEF CallInv
  <2> QED BY <1>5, <2>2, <2>3, <2>4, <2>5 DEF CallInv, Says
<1> QED BY <1>2, <1>3, <1>4, <1>6, <1>7, <1>8 DEF DoneInv

(* Where nothing of a call's view is at stake. *)
LEMMA NoView ==
  ASSUME DoneInv, NEW c \in Calls, pc[c] \notin After \cup {"done"}
  PROVE  c \notin due /\ read[c] # c /\ overlay # c
BY DEF DoneInv, ViewInv, CallInv, Missed, After

(* Steps that only look: nothing is said to be done before it is. *)
LEMMA LooksOnSimply ==
  ASSUME Inv, DoneInv, NEW c \in Calls, NEW label \in Labels, pc[c] \notin After \cup {"done"},
         \A d \in Calls \ {c} : Rests(d), Looks,
         Stands(c, label), label # "enter", label \notin After,
         label \in {"press", "pressed"} => ~Delivers(c), NEW r, r \notin {"ok", None},
         \/ result' = result /\ label # "done"
         \/ result' = [result EXCEPT ![c] = r] /\ label = "done"
  PROVE  DoneInv'
<1>1. UNCHANGED <<pane, read, asked, stray>>
  BY DEF Looks
<1>2. DOMAIN read' = Calls
  BY <1>1 DEF DoneInv
<1>3. Says(c, label)
  BY Saying
<1>4. label \notin Reading /\ label # "opened"
  BY DEF After
<1> QED BY <1>1, <1>2, <1>3, <1>4, NoView, LooksOn

LEMMA StatesAreNot == State \notin {"ok", None}
BY DEF State, None

LEMMA EarlyDone ==
  ASSUME Inv, DoneInv, OneProcess, NEW c \in Calls,
         \/ Acquire(c) \/ Check(c) \/ Recheck(c) \/ Wait(c) \/ Identify(c) \/ Dismissed(c)
         \/ Confirm(c)
  PROVE  DoneInv'
<1>1. pc[c] \notin {"press", "pressed", "done"} \cup After /\ Looks
  BY DEF Acquire, Check, Recheck, Wait, Identify, Dismissed, Confirm, At, After, Reading
<1>0. PICK other : other \notin {"ok", None}
  BY StatesAreNot
<1>2. CASE Acquire(c)
  <2>1. Stands(c, "check") /\ result' = result /\ \A d \in Calls \ {c} : Rests(d)
    BY <1>2, HimAssumption DEF Acquire, At, Stands, Inv, Types, OneProcess, LockInv, Active, Rests
  <2>2. "check" \in Labels /\ "check" \notin After
    BY DEF Labels, After, Reading
  <2> QED BY <1>0, <1>1, <2>1, <2>2, LooksOnSimply
<1>3. CASE ~Acquire(c)
  <2>1. ~Rests(c)
    BY <1>3 DEF Check, Recheck, Wait, Identify, Dismissed, Confirm, At, Rests
  <2>2. \A d \in Calls \ {c} : Rests(d)
    BY <2>1, Turn DEF Inv
  <2>3. \/ \E label \in {"wait", "recheck", "type", "identify", "dismiss", "dismissed"} : Goto(c, label)
        \/ Goto(c, "press") /\ ~Delivers(c)
        \/ Again(c)
        \/ \E r : Return(c, r) /\ r \notin {"ok", None}
    BY <1>3, StatesAreNot DEF Check, Recheck, Wait, Identify, Dismissed, Confirm, Gate, None
  <2>4. ASSUME NEW label \in {"wait", "recheck", "type", "identify", "dismiss", "dismissed", "press"},
               Goto(c, label), label = "press" => ~Delivers(c)
        PROVE  DoneInv'
    <3>1. /\ label \in Labels /\ result' = result /\ label \notin {"enter", "done"} \cup After
          /\ label \in {"press", "pressed"} => ~Delivers(c)
      BY <2>4 DEF Labels, Looking, Goto, After, Reading
    <3>2. Stands(c, label)
      BY <2>4, <3>1, WentTo DEF Inv
    <3> QED BY <1>0, <1>1, <2>2, <3>1, <3>2, LooksOnSimply
  <2>5. CASE Again(c)
    <3>1. Stands(c, pc[c]) /\ result' = result /\ pc[c] # "enter" /\ pc[c] \in Labels
      BY <1>3, <2>5, Agained DEF Inv, Again, Check, Recheck, Wait, Identify, Dismissed, Confirm, At, Types
    <3> QED BY <1>0, <1>1, <2>2, <3>1, LooksOnSimply
  <2>6. CASE \E r : Return(c, r) /\ r \notin {"ok", None}
    <3>1. PICK r : Return(c, r) /\ r \notin {"ok", None}
      BY <2>6
    <3>2. Stands(c, "done") /\ result' = [result EXCEPT ![c] = r] /\ "done" \in Labels
      BY <3>1, Returned DEF Inv, Return, Labels
    <3>3. "done" \notin After
      BY DEF After, Reading
    <3> QED BY <1>1, <2>2, <3>1, <3>2, <3>3, LooksOnSimply
  <2>7. CASE Goto(c, "press") /\ ~Delivers(c)
    BY <2>4, <2>7
  <2>8. CASE \E label \in {"wait", "recheck", "type", "identify", "dismiss", "dismissed"} : Goto(c, label)
    <3>1. PICK label \in {"wait", "recheck", "type", "identify", "dismiss", "dismissed"} : Goto(c, label)
      BY <2>8
    <3> QED BY <2>4, <3>1
  <2> QED BY <2>3, <2>5, <2>6, <2>7, <2>8
<1> QED BY <1>2, <1>3

(* What lies over the session while call c works is c's, or was missed. *)
LEMMA OverTaken ==
  ASSUME Inv, DoneInv, OneProcess, NEW c \in Calls, ~Rests(c), overlay # None
  PROVE  Taken(overlay, c)
<1>1. overlay \in Calls
  BY DEF DoneInv, ScreenInv
<1>2. overlay # c => pc[overlay] \notin After
  BY <1>1, Turn DEF Inv, Rests, After, Reading
<1>3. ViewInv(overlay)
  BY <1>1 DEF DoneInv
<1> QED BY <1>1, <1>2, <1>3 DEF ViewInv, Taken

(* A view that is open when its call looks is its own, or was missed. *)
LEMMA OpenedDone ==
  ASSUME Inv, DoneInv, OneProcess, NEW c \in Calls, Opened(c) PROVE DoneInv'
<1>1. pc[c] = "opened" /\ pc[c] # "done" /\ ~Rests(c) /\ stray' = stray
  BY DEF Opened, At, Rests, Looks
<1>2. /\ \A d \in Calls \ {c} : Rests(d)
      /\ plan.want[c] \in {"view", "btw"} /\ CallInv(c) /\ ViewInv(c) /\ read[c] # c
  BY <1>1, Turn, Reads DEF Inv, DoneInv, ViewInv, Reading
<1>3. overlay = c => plan.want[c] = "btw"
  BY HimAssumption DEF DoneInv, ScreenInv
<1>4. "opened" \in After /\ Reading \subseteq After /\ "done" \notin After /\ "opened" \notin Reading
  BY DEF After, Reading
<1>5. CASE ViewOpen(c)
  <2> DEFINE label == IF plan.want[c] = "btw" THEN "settle" ELSE "close"
             seen == IF plan.want[c] = "btw" THEN overlay ELSE owner
  <2>1. /\ Goto(c, label) /\ UNCHANGED <<pane, asked>> /\ read' = [read EXCEPT ![c] = seen]
        /\ label \in Labels /\ label \in Reading
    BY <1>5 DEF Opened, Labels, Looking, Reading
  <2>2. result' = result /\ plan' = plan
    BY <2>1 DEF Goto
  <2>3. Stands(c, label) /\ DOMAIN read' = Calls /\ \A d \in Calls \ {c} : read'[d] = read[d]
    BY <2>1, WentTo DEF Inv, DoneInv
  <2>4. seen = c => c \notin due
    BY <1>2 DEF ViewInv
  <2>5. OwnView(c)'
    <3>1. plan.want[c] = "btw" => Taken(seen, c)
      BY <1>1, <1>5, OverTaken DEF ViewOpen
    <3>2. plan.want[c] = "view" => screen \in Views /\ seen = owner
      BY <1>2, <1>5, States DEF ViewOpen, Inv
    <3>3. plan.want[c] = "view" /\ "viewsMeanwhile" \notin plan.habits => Taken(seen, c)
      BY <1>1, <1>2, <3>2 DEF CallInv
    <3> HIDE DEF seen
    <3>4. PICK v : v = seen
      OBVIOUS
    <3>5. MissStays /\ read'[c] = v
      BY <1>1, <2>1, <2>2, <2>3, <3>4, MissKept DEF DoneInv
    <3>6. Taken(v, c) => Taken(read[c], c)'
      BY <3>5, TakenStays DEF Taken, Missed
    <3> QED BY <2>2, <3>1, <3>3, <3>4, <3>6 DEF OwnView
  <2>6. label \notin {"enter", "opened", "press", "pressed", "done"} /\ read'[c] = seen
    BY <2>1 DEF DoneInv
  <2>7. Says(c, label)
    BY <1>1, <2>2, <2>6, Saying
  <2>8. PICK l \in Reading : l = label
    BY <2>1
  <2>9. c \in due => read'[c] # c
    BY <2>4, <2>6
  <2>10. Stands(c, l) /\ Says(c, l) /\ l \in After /\ l \notin {"enter", "opened", "press", "pressed"}
    BY <1>4, <2>3, <2>6, <2>7, <2>8
  <2>11. UNCHANGED <<pane, asked, stray>> /\ pc[c] \in After
    BY <1>1, <1>4, <2>1
  <2> HIDE DEF label, seen
  <2> QED BY <1>1, <1>2, <2>3, <2>5, <2>9, <2>10, <2>11, LooksOn
<1>6. CASE ~ViewOpen(c)
  <2>1. Looks /\ (Again(c) \/ Return(c, "view_not_opened"))
    BY <1>6 DEF Opened
  <2>2. UNCHANGED <<pane, asked, read>> /\ DOMAIN read' = Calls
    BY <2>1 DEF Looks, DoneInv
  <2>3. CASE Again(c)
    <3>1. Stands(c, "opened") /\ result' = result
      BY <1>1, <2>3, Agained DEF Inv, Again
    <3>2. Says(c, "opened")
      BY <1>1, <3>1, Saying
    <3> QED BY <1>1, <1>2, <1>4, <2>2, <3>1, <3>2, LooksOn
  <2>4. CASE Return(c, "view_not_opened")
    <3>1. Stands(c, "done")
      BY <2>4, Returned DEF Inv
    <3>2. overlay # c
      BY <1>3, <1>6, HimAssumption DEF ViewOpen
    <3>3. "view_not_opened" # None
      BY DEF None
    <3>4. Says(c, "done")
      BY <1>1, <2>4, <3>3, SayingOnReturn
    <3> QED BY <1>1, <1>2, <1>4, <2>2, <3>1, <3>2, <3>4, LooksOn
  <2> QED BY <2>1, <2>3, <2>4
<1> QED BY <1>5, <1>6

LEMMA SettleDone ==
  ASSUME Inv, DoneInv, OneProcess, NEW c \in Calls, Settle(c) PROVE DoneInv'
<1>1. pc[c] = "settle" /\ ~Rests(c) /\ Looks /\ (Again(c) \/ Goto(c, "close"))
  BY DEF Settle, At, Rests
<1>2. PICK label \in {"settle", "close"} : Stands(c, label)
  BY <1>1, Agained, WentTo DEF Inv, Labels, Looking
<1>3. result' = result /\ plan' = plan
  BY <1>1 DEF Again, Goto
<1>4. UNCHANGED <<pane, asked, read, stray>> /\ DOMAIN read' = Calls
  BY <1>1 DEF Looks, DoneInv
<1>5. OwnView(c)'
  <2>1. MissStays
    BY <1>1, <1>3, <1>4, MissKept
  <2> QED BY <1>1, <1>3, <1>4, <2>1, OwnStays DEF DoneInv, CallInv, Reading
<1>6. \A d \in Calls \ {c} : Rests(d)
  BY <1>1, Turn DEF Inv
<1>7. Says(c, label)
  BY <1>1, <1>2, <1>3, Saying
<1>8. ViewInv(c)
  BY DEF DoneInv
<1>9. label \in Reading /\ label \in After /\ pc[c] \in After
  BY <1>1, <1>2 DEF After, Reading
<1> QED BY <1>1, <1>2, <1>4, <1>5, <1>6, <1>7, <1>8, <1>9, LooksOn DEF ViewInv

(* ok, when the view is gone; one that is not was missed. *)
LEMMA ClosedDone ==
  ASSUME Inv, DoneInv, OneProcess, NEW c \in Calls, Closed(c) PROVE DoneInv'
<1>1. pc[c] = "closed" /\ ~Rests(c) /\ Looks /\ pc[c] # "done"
  BY DEF Closed, At, Rests
<1>2. /\ \A d \in Calls \ {c} : Rests(d)
      /\ UNCHANGED <<pane, asked, read, stray>> /\ DOMAIN read' = Calls /\ plan.want[c] \in {"view", "btw"}
      /\ CallInv(c) /\ ViewInv(c) /\ Reached(c) /\ OwnView(c)
  BY <1>1, Turn, Reads DEF Inv, DoneInv, CallInv, Looks, After, Reading
<1>3. overlay = c => plan.want[c] = "btw"
  BY HimAssumption DEF DoneInv, ScreenInv
<1>4. {"closed"} \subseteq Reading /\ "closed" \in After /\ "done" \notin After \cup Reading
  BY DEF After, Reading
<1>5. CASE Again(c)
  <2>1. Stands(c, "closed") /\ result' = result /\ plan' = plan
    BY <1>1, <1>5, Agained DEF Inv, Again
  <2>2. Says(c, "closed")
    BY <1>1, <2>1, Saying
  <2>3. OwnView(c)'
    <3>1. MissStays
      BY <1>1, <1>2, <2>1, MissKept
    <3> QED BY <1>2, <2>1, <3>1, OwnStays
  <2> QED BY <1>1, <1>2, <1>4, <2>1, <2>2, <2>3, LooksOn DEF ViewInv
<1>6. ASSUME NEW r \in {"ok", "dismiss_failed"}, Return(c, r) PROVE /\ Stands(c, "done") /\ plan' = plan
                                                                  /\ result' = [result EXCEPT ![c] = r] /\ MissStays
  <2>1. Stands(c, "done") /\ result' = [result EXCEPT ![c] = r] /\ plan' = plan
    BY <1>6, Returned DEF Inv, Return
  <2>2. MissStays
    BY <1>1, <1>2, <2>1, MissKept DEF DoneInv
  <2> QED BY <2>1, <2>2
<1>7. CASE Gone(c) /\ Return(c, "ok")
  <2>1. Stands(c, "done") /\ plan' = plan /\ MissStays
    BY <1>6, <1>7
  <2>2. owner # c /\ overlay # c
    <3>1. plan.want[c] = "view" => screen = "prompt"
      BY <1>7, States DEF Gone, Inv
    <3>2. plan.want[c] = "btw" => owner # c
      BY HimAssumption DEF DoneInv, ScreenInv
    <3>3. owner # c
      BY <1>2, <3>1, <3>2, HimAssumption DEF DoneInv, ScreenInv, Views
    <3> QED BY <1>3, <1>7, <3>3, HimAssumption DEF Gone
  <2>3. OwnView(c)'
    BY <1>2, <2>1, OwnStays
  <2>4. Kept(c)'
    <3>1. Reached(c)' /\ owner' # c /\ overlay' # c
      BY <1>2, <2>2, ReachedStays DEF pane
    <3> QED BY <1>2, <2>1, <2>3, <3>1 DEF Kept, Delivers
  <2>5. "ok" # None
    BY DEF None
  <2>6. Says(c, "done")
    BY <1>1, <1>7, <2>4, <2>5, SayingOnReturn
  <2> QED BY <1>1, <1>2, <1>4, <2>1, <2>2, <2>6, LooksOn DEF ViewInv
<1>8. CASE Return(c, "dismiss_failed")
  <2>1. Stands(c, "done") /\ result' = [result EXCEPT ![c] = "dismiss_failed"]
    BY <1>6, <1>8
  <2>2. "dismiss_failed" \notin {"ok", None}
    BY DEF None
  <2>3. Missed(c)'
    BY <2>1, <2>2 DEF Missed, DoneInv
  <2>4. Says(c, "done")
    BY <1>1, <1>8, <2>2, SayingOnReturn
  <2> QED BY <1>1, <1>2, <1>4, <2>1, <2>3, <2>4, LooksOn DEF ViewInv
<1> QED BY <1>5, <1>7, <1>8 DEF Closed

LEMMA PressedDone ==
  ASSUME Inv, DoneInv, OneProcess, NEW c \in Calls, Pressed(c) PROVE DoneInv'
<1>1. pc[c] = "pressed" /\ ~Rests(c) /\ Looks /\ pc[c] \notin After \cup {"done"}
  BY DEF Pressed, At, Rests, After, Reading
<1>2. /\ \A d \in Calls \ {c} : Rests(d)
      /\ UNCHANGED <<pane, asked, read, stray>> /\ DOMAIN read' = Calls /\ ~Delivers(c)
      /\ c \notin due /\ read[c] # c /\ overlay # c
  BY <1>1, Turn, NoView DEF Inv, DoneInv, Looks, CallInv
<1>3. Again(c) \/ (screen # Dialog(c) /\ Return(c, "ok")) \/ Return(c, "not_confirmed")
  BY DEF Pressed
<1>4. "pressed" \notin After \cup Reading /\ "done" \notin After \cup Reading
      /\ "ok" # None /\ "not_confirmed" \notin {"ok", None}
  BY DEF After, Reading, None
<1>5. CASE Again(c)
  <2>1. Stands(c, "pressed") /\ result' = result
    BY <1>1, <1>5, Agained DEF Inv, Again
  <2>2. Says(c, "pressed")
    BY <1>1, <2>1, Saying
  <2> QED BY <1>1, <1>2, <1>4, <2>1, <2>2, LooksOn
<1>6. CASE screen # Dialog(c) /\ Return(c, "ok")
  <2>1. Stands(c, "done") /\ plan' = plan
    BY <1>6, Returned DEF Inv, Return
  <2>2. Kept(c)'
    BY <1>2, <1>6, <2>1 DEF Kept, Delivers, Dialog, OwnView, pane
  <2>3. Says(c, "done")
    BY <1>1, <1>4, <1>6, <2>2, SayingOnReturn
  <2> QED BY <1>1, <1>2, <1>4, <2>1, <2>3, LooksOn
<1>7. CASE Return(c, "not_confirmed")
  <2>1. Stands(c, "done")
    BY <1>7, Returned DEF Inv
  <2>2. Says(c, "done")
    BY <1>1, <1>4, <1>7, SayingOnReturn
  <2> QED BY <1>1, <1>2, <1>4, <2>1, <2>2, LooksOn
<1> QED BY <1>3, <1>5, <1>6, <1>7

(* On a dead session no view lies over anything. *)
LEMMA RaiseDone ==
  ASSUME Inv, DoneInv, OneProcess, NEW c \in Calls, Fails(c) PROVE DoneInv'
<1>1. ~Rests(c) /\ Looks /\ Return(c, "raised") /\ screen = "gone" /\ pc[c] # "done"
  BY DEF Fails, Raise, Rests, Looking, Alive
<1>2. overlay # c /\ ViewInv(c)
  BY <1>1, HimAssumption DEF DoneInv, ScreenInv
<1>3. /\ \A d \in Calls \ {c} : Rests(d)
      /\ UNCHANGED <<pane, asked, read, stray>> /\ DOMAIN read' = Calls
  BY <1>1, Turn DEF Inv, DoneInv, Looks
<1>4. Stands(c, "done") /\ "raised" \notin {"ok", None} /\ "done" \notin After \cup Reading
  BY <1>1, Returned DEF Inv, None, After, Reading
<1>5. Says(c, "done")
  BY <1>1, <1>4, SayingOnReturn
<1> QED BY <1>1, <1>2, <1>3, <1>4, <1>5, LooksOn DEF ViewInv

(* A call that sends keys. *)
LEMMA KeysDone ==
  ASSUME Inv, DoneInv, OneProcess, NEW c \in Calls, ~Rests(c), NEW label, Stands(c, label), Says(c, label),
         UNCHANGED read, DOMAIN asked' = Calls, \A d \in Calls \ {c} : asked'[d] = asked[d],
         submitted \subseteq submitted', stray \subseteq stray', dialog' = dialog,
         owner' \in {owner, None}, overlay' \in {overlay, None}, due' \subseteq due \cup {c},
         screen' = screen \/ screen' \notin {"question", "permission"},
         ScreenInv', StrayInv', CallInv(c)', ViewInv(c)'
  PROVE  DoneInv'
<1>1. \A d \in Calls \ {c} : Rests(d)
  BY Turn DEF Inv
<1>2. pc[c] # "done" /\ DOMAIN read' = Calls
  BY DEF Rests, DoneInv
<1>3. \A d \in Calls \ {c} : CallInv(d)' /\ ViewInv(d)'
  BY <1>1, <1>2, OthersKept DEF Says
<1> QED BY <1>2, <1>3 DEF DoneInv, Says

(* The keys of a call go where they are meant to, into a side-question's    *)
(* view that was missed, or into one its user may have closed.              *)
LEMMA KeyGoes ==
  ASSUME Inv, DoneInv, OneProcess, NEW c \in Calls, ~Rests(c), plan' = plan, MissStays,
         NEW key, NEW meant, Stray(c, key, meant),
         meant \/ BtwIsHis \/ (overlay # None /\ pc[c] \notin After)
  PROVE  StrayInv' /\ stray \subseteq stray' /\ (~meant /\ overlay # None => Aside(c)')
<1>1. PICK o : o = overlay
  OBVIOUS
<1>2. PICK k : k = <<c, key, screen, o>>
  OBVIOUS
<1>3. k[1] = c /\ k[4] = o /\ stray' = (IF meant THEN stray ELSE stray \cup {k})
  BY <1>1, <1>2 DEF Stray
<1>4. o # None => o \in Calls
  BY <1>1 DEF DoneInv, ScreenInv
<1>5. o # None /\ pc[c] \notin After => Missed(o)
  <2>1. o # None /\ pc[c] \notin After => Taken(o, c) /\ o # c
    BY <1>1, OverTaken, NoView DEF Rests
  <2> QED BY <2>1 DEF Taken
<1>6. StrayInv'
  <2>1. BtwIsHis' = BtwIsHis
    BY DEF BtwIsHis
  <2>2. ASSUME ~BtwIsHis, NEW n \in stray' PROVE n[4] \in Calls /\ Missed(n[4])'
    <3>1. CASE n \in stray
      BY <2>2, <3>1 DEF DoneInv, StrayInv, MissStays
    <3>2. CASE n \notin stray
      <4>1. n = k /\ ~meant
        BY <1>3, <2>2, <3>2
      <4>2. o # None /\ pc[c] \notin After
        BY <1>1, <2>2, <4>1
      <4>3. o \in Calls /\ Missed(o)'
        BY <1>4, <1>5, <4>2 DEF MissStays
      <4> QED BY <1>3, <4>1, <4>3
    <3> QED BY <3>1, <3>2
  <2> QED BY <2>1, <2>2 DEF StrayInv
<1>7. ~meant /\ overlay # None => Aside(c)'
  BY <1>1, <1>3, <1>4 DEF Aside
<1> QED BY <1>3, <1>6, <1>7

LEMMA TypeDone ==
  ASSUME Inv, DoneInv, OneProcess, NEW c \in Calls, Type(c) PROVE DoneInv'
<1>1. pc[c] = "type" /\ ~Rests(c) /\ pc[c] \notin After \cup {"done"}
  BY DEF Type, At, Rests, After, Reading
<1>2. Fits(c)
  BY <1>1 DEF Inv, GapInv, GapAt
<1>3. Alive /\ (Input <=> overlay = None) /\ (Takes(c) <=> overlay = None)
  BY <1>2 DEF Fits, Alive, Input, Takes
<1>4. /\ Goto(c, "enter") /\ Stray(c, "text", Takes(c))
      /\ box' = (IF overlay = None THEN Append(box, c) ELSE box)
      /\ UNCHANGED <<screen, overlay, due, owner, dialog, submitted, read, asked>>
  BY <1>3 DEF Type
<1>5. Stands(c, "enter") /\ result' = result /\ plan' = plan
  BY <1>4, WentTo DEF Inv, Labels, Goto
<1>6. Says(c, "enter")
  BY <1>1, <1>5, Saying
<1>7. PICK meant : meant = Takes(c)
  OBVIOUS
<1>8. StrayInv' /\ stray \subseteq stray' /\ (overlay # None => Aside(c)')
  <2>1. MissStays
    BY <1>1, <1>4, <1>5, MissKept
  <2>2. Stray(c, "text", meant)
    BY <1>4, <1>7 DEF Stray
  <2>3. PICK key : key = "text"
    OBVIOUS
  <2>4. Stray(c, key, meant) /\ (meant <=> overlay = None)
    BY <1>3, <1>7, <2>2, <2>3
  <2> QED BY <1>1, <1>5, <2>1, <2>4, KeyGoes
<1>9. ScreenInv' /\ (overlay = None => InBox(c)')
  <2>1. box \in Seq(Calls \cup {Him}) /\ c \in Calls \cup {Him}
    BY DEF DoneInv, ScreenInv
  <2>2. PICK b : b = Append(box, c)
    OBVIOUS
  <2>3. b \in Seq(Calls \cup {Him}) /\ Len(box) + 1 \in DOMAIN b /\ b[Len(box) + 1] = c
    BY <2>1, <2>2
  <2>4. box' \in Seq(Calls \cup {Him})
    BY <1>4, <2>1, <2>2, <2>3
  <2>5. overlay = None => InBox(c)'
    BY <1>4, <2>2, <2>3 DEF InBox
  <2> QED BY <1>4, <1>5, <2>4, <2>5 DEF DoneInv, ScreenInv
<1>10. CallInv(c)'
  <2>1. CallInv(c) /\ result[c] = None /\ None # "ok"
    BY <1>1 DEF DoneInv, CallInv, None
  <2> QED BY <1>4, <1>5, <1>8, <1>9, <2>1 DEF CallInv, Stands, After, Reading
<1>11. ViewInv(c)'
  BY <1>1, <1>4, NoView DEF ViewInv
<1> QED BY <1>1, <1>4, <1>5, <1>6, <1>8, <1>9, <1>10, <1>11, KeysDone DEF DoneInv

(* Enter submits what was typed, unless a view has it: that much is done.   *)
LEMMA EnterDone ==
  ASSUME Inv, DoneInv, OneProcess, NEW c \in Calls, Enter(c) PROVE DoneInv'
<1>0. PICK label \in {"opened", "done"} : label = IF AfterEnter(c) = "opened" THEN "opened" ELSE "done"
  OBVIOUS
<1>1. pc[c] = "enter" /\ ~Rests(c) /\ pc[c] \notin After \cup {"done"}
  BY DEF Enter, At, Rests, After, Reading
<1>2. Fits(c) /\ screen \in {"prompt", "working"}
  BY <1>1 DEF Inv, GapInv, GapAt, Fits
<1>3. Alive /\ (Input <=> overlay = None) /\ (Takes(c) <=> overlay = None)
  BY <1>2 DEF Fits, Alive, Input, Takes
<1>4. /\ IF AfterEnter(c) = "opened" THEN Goto(c, "opened") ELSE Return(c, "ok")
      /\ Stray(c, "Enter", Takes(c))
      /\ \/ overlay = None /\ Submits(c)
         \/ overlay # None /\ UNCHANGED <<screen, submitted, box, due>>
      /\ UNCHANGED <<overlay, owner, dialog, read, asked>>
  BY <1>2, <1>3 DEF Enter
<1>5. /\ Stands(c, label) /\ plan' = plan
      /\ \A d \in Calls \ {c} : result'[d] = result[d]
  <2>1. CASE AfterEnter(c) = "opened"
    BY <1>0, <1>4, <2>1, WentTo DEF Inv, Labels, Looking, Goto
  <2>2. CASE AfterEnter(c) # "opened"
    <3>1. label = "done" /\ Return(c, "ok")
      BY <1>0, <1>4, <2>2
    <3>2. PICK r : r = "ok"
      OBVIOUS
    <3>3. Stands(c, label) /\ result' = [result EXCEPT ![c] = "ok"]
      BY <3>1, <3>2, Returned DEF Inv, Return
    <3> QED BY <3>3 DEF Stands, DoneInv
  <2> QED BY <2>1, <2>2
<1>6. /\ CallInv(c) /\ result[c] = None /\ owner = None
      /\ c \notin due /\ read[c] # c /\ overlay # c
  BY <1>1, <1>2, NoView DEF DoneInv, CallInv, ScreenInv, Views
<1>7. /\ screen' \in {"prompt", "working"} /\ submitted \subseteq submitted'
      /\ (box' = box \/ box' = <<>>) /\ due' \subseteq due \cup {c}
      /\ (label = "done" => due' = due)
  BY <1>0, <1>2, <1>4 DEF Submits
<1>8. MissStays
  BY <1>1, <1>4, <1>5, MissKept
<1>9. PICK meant : meant = Takes(c)
  OBVIOUS
<1>10. StrayInv' /\ stray \subseteq stray'
  <2>1. Stray(c, "Enter", meant)
    BY <1>4, <1>9 DEF Stray
  <2>2. PICK key : key = "Enter"
    OBVIOUS
  <2>3. Stray(c, key, meant) /\ (meant <=> overlay = None)
    BY <1>3, <1>9, <2>1, <2>2
  <2> QED BY <1>1, <1>5, <1>8, <2>3, KeyGoes
<1>11. Reached(c)'
  <2>1. CASE overlay = None
    <3>1. InBox(c) /\ submitted' = submitted \cup {box}
      BY <1>1, <1>4, <1>6, <2>1 DEF CallInv, Submits
    <3> QED BY <3>1 DEF InBox, Reached, Sent
  <2>2. CASE overlay # None
    BY <1>1, <1>6, <1>10, <2>2 DEF CallInv, Reached, Aside
  <2> QED BY <2>1, <2>2
<1>12. ScreenInv'
  <2>1. box' \in Seq(Calls \cup {Him})
    <3>1. box \in Seq(Calls \cup {Him}) /\ <<>> \in Seq(Calls \cup {Him})
      BY DEF DoneInv, ScreenInv
    <3> QED BY <1>7, <3>1
  <2> QED BY <1>4, <1>5, <1>6, <1>7, <2>1 DEF DoneInv, ScreenInv
<1>13. Says(c, label)
  <2>1. CASE AfterEnter(c) = "opened"
    BY <1>0, <1>1, <1>4, <2>1, Saying DEF Goto
  <2>2. CASE AfterEnter(c) # "opened"
    <3>1. label = "done" /\ Return(c, "ok") /\ "ok" # None
      BY <1>0, <1>4, <2>2 DEF None
    <3>2. Kept(c)'
      <4>1. plan'.want[c] \notin {"view", "btw"} /\ screen' # Dialog(c)'
        BY <1>5, <1>7, <2>2 DEF AfterEnter, Dialog
      <4> QED BY <1>4, <1>6, <1>11, <4>1 DEF Kept, OwnView
    <3> QED BY <1>1, <3>1, <3>2, SayingOnReturn
  <2> QED BY <2>1, <2>2
<1>14. CallInv(c)'
  <2>1. asked'[c] \in 0 .. dialog'
    BY <1>4, <1>6 DEF CallInv
  <2>2. screen' \notin Views
    BY <1>7 DEF Views
  <2> QED BY <1>0, <1>5, <1>11, <1>13, <2>1, <2>2 DEF CallInv, Stands, Says, After, Reading
<1>15. ViewInv(c)'
  <2>1. c \in due' => label = "opened"
    BY <1>0, <1>6, <1>7
  <2>2. owner' # c /\ overlay' # c /\ read'[c] # c
    BY <1>4, <1>6, HimAssumption
  <2> QED BY <1>5, <2>1, <2>2 DEF ViewInv, Stands, After
<1>16. DOMAIN asked' = Calls /\ \A d \in Calls \ {c} : asked'[d] = asked[d]
  BY <1>4 DEF DoneInv
<1>17. screen' \notin {"question", "permission"}
  BY <1>7
<1> QED BY <1>1, <1>4, <1>5, <1>7, <1>10, <1>12, <1>13, <1>14, <1>15, <1>16, <1>17, KeysDone

(* An Escape takes away what lies on top; what it does not is seen later.   *)
LEMMA EscapeDone ==
  ASSUME Inv, DoneInv, OneProcess, NEW c \in Calls, NEW from, NEW to \in {"dismissed", "closed"},
         NEW meant, Escape(c, from, to, meant), meant \/ BtwIsHis, ~Rests(c),
         to = "closed" <=> pc[c] \in After, pc[c] \notin {"opened"}
  PROVE  DoneInv'
<1>1. pc[c] = from /\ Alive /\ Goto(c, to) /\ Stray(c, "Escape", meant)
      /\ UNCHANGED <<box, due, submitted, dialog, read, asked>>
      /\ (Escapes \/ UNCHANGED <<overlay, answering, screen, owner>>)
  BY DEF Escape, At
<1>2. Stands(c, to) /\ result' = result /\ plan' = plan /\ pc[c] # "done"
  BY <1>1, WentTo DEF Inv, Labels, Looking, Goto, Rests
<1>3. /\ overlay' \in {overlay, None}
      /\ \/ screen' = screen /\ owner' = owner
         \/ screen \in {"question", "permission"} /\ screen' = "working" /\ owner' = owner
         \/ screen' = "prompt" /\ owner' = None
  BY <1>1 DEF Escapes
<1>4. Says(c, to)
  BY <1>2, Saying
<1>5. ScreenInv'
  BY <1>1, <1>2, <1>3 DEF DoneInv, ScreenInv, Views, Alive
<1>6. MissStays
  BY <1>1, <1>2, MissKept
<1>7. StrayInv' /\ stray \subseteq stray'
  <2>1. PICK key : key = "Escape"
    OBVIOUS
  <2>2. Stray(c, key, meant)
    BY <1>1, <2>1
  <2> QED BY <1>2, <1>6, <2>2, KeyGoes
<1>8. CallInv(c) /\ ViewInv(c) /\ result[c] = None /\ (pc[c] \in After => pc[c] \in Reading)
  BY <1>2 DEF DoneInv, CallInv, After
<1>9. CallInv(c)'
  <2>1. OwnView(c) => OwnView(c)'
    BY <1>1, <1>2, <1>6, OwnStays
  <2>2. Reached(c) => Reached(c)'
    BY <1>1, <1>7, ReachedStays
  <2>3. to \in After => Reached(c)' /\ OwnView(c)'
    BY <1>8, <2>1, <2>2 DEF CallInv, After, Reading
  <2> QED BY <1>1, <1>2, <1>8, <2>3 DEF CallInv, Stands, After, Reading, None
<1>10. ViewInv(c)'
  <2>1. c # None
    BY HimAssumption
  <2>2. pc[c] \in After => to \in Reading /\ to \in After
    BY DEF After, Reading
  <2>3. ~Missed(c)
    BY <1>8 DEF Missed
  <2>4. pc'[c] = to
    BY <1>2 DEF Stands
  <2>5. (owner' = c => owner = c) /\ (overlay' = c => overlay = c)
    BY <1>3, <2>1
  <2>6. c \in due \/ overlay = c \/ read[c] = c => pc[c] \in After
    BY <1>2, <1>8, <2>3 DEF ViewInv, After
  <2> QED BY <1>1, <1>8, <2>2, <2>4, <2>5, <2>6 DEF ViewInv
<1>11. owner' \in {owner, None} /\ (screen' = screen \/ screen' \notin {"question", "permission"})
  BY <1>3
<1>12. DOMAIN asked' = Calls
  BY <1>1 DEF DoneInv
<1> QED BY <1>1, <1>2, <1>3, <1>4, <1>5, <1>7, <1>9, <1>10, <1>11, <1>12, KeysDone

LEMMA DismissDone ==
  ASSUME Inv, DoneInv, OneProcess, NEW c \in Calls, Dismiss(c) \/ Close(c) PROVE DoneInv'
<1>1. CASE Dismiss(c)
  <2>1. pc[c] = "dismiss" /\ ~Rests(c) /\ pc[c] \notin After
    BY <1>1 DEF Dismiss, Escape, At, Rests, After, Reading
  <2>2. screen = "readonly"
    BY <2>1 DEF Inv, GapInv, GapAt
  <2> QED BY <1>1, <2>1, <2>2, EscapeDone DEF Dismiss, After
<1>2. CASE Close(c)
  <2> DEFINE meant == IF plan.want[c] = "btw" THEN overlay # None ELSE screen \in {"readonly", "picker"}
  <2>1. pc[c] = "close" /\ ~Rests(c) /\ pc[c] \in After /\ Alive
    BY <1>2 DEF Close, Escape, At, Rests, After, Reading
  <2>2. Escape(c, "close", "closed", meant)
    BY <1>2 DEF Close
  <2>3. meant \/ BtwIsHis
    <3>1. GapAt(c, "close") /\ plan.want[c] \in {"view", "btw"}
      BY <2>1, Reads DEF Inv, GapInv
    <3> QED BY <2>1, <3>1 DEF GapAt, Overlaid, Alive, Views
  <2> HIDE DEF meant
  <2> QED BY <2>1, <2>2, <2>3, EscapeDone
<1> QED BY <1>1, <1>2

LEMMA PressDone ==
  ASSUME Inv, DoneInv, OneProcess, NEW c \in Calls, Press(c) PROVE DoneInv'
<1>1. pc[c] = "press" /\ ~Rests(c) /\ pc[c] \notin After \cup {"done"}
  BY DEF Press, At, Rests, After, Reading
<1>2. screen = Dialog(c) /\ screen \in {"question", "permission"}
  BY <1>1 DEF Inv, GapInv, GapAt, Dialog
<1>3. /\ Goto(c, "pressed") /\ Stray(c, "digit", screen = Dialog(c) /\ overlay = None)
      /\ asked' = [asked EXCEPT ![c] = dialog]
      /\ screen' \in {screen, "working"}
      /\ UNCHANGED <<box, overlay, due, owner, dialog, submitted, read>>
  BY <1>2 DEF Press, Alive, Input
<1>4. Stands(c, "pressed") /\ result' = result /\ plan' = plan
  BY <1>3, WentTo DEF Inv, Labels, Looking, Goto
<1>5. Says(c, "pressed")
  BY <1>1, <1>4, Saying
<1>6. ScreenInv'
  BY <1>2, <1>3, <1>4 DEF DoneInv, ScreenInv, Views
<1>7. StrayInv' /\ stray \subseteq stray'
  <2>1. MissStays
    BY <1>1, <1>3, <1>4, MissKept
  <2>2. PICK meant : meant <=> screen = Dialog(c) /\ overlay = None
    OBVIOUS
  <2>3. PICK key : key = "digit"
    OBVIOUS
  <2>4. Stray(c, key, meant)
    BY <1>3, <2>2, <2>3 DEF Stray
  <2> QED BY <1>1, <1>2, <1>4, <2>1, <2>2, <2>4, KeyGoes
<1>8. CallInv(c)'
  <2>1. CallInv(c) /\ result[c] = None /\ dialog \in Nat /\ asked'[c] = dialog /\ ~Delivers(c)
    BY <1>1, <1>3 DEF DoneInv, CallInv, ScreenInv
  <2>2. asked'[c] \in 0 .. dialog' /\ ~Delivers(c)'
    BY <1>3, <1>4, <2>1 DEF Delivers
  <2> QED BY <1>4, <2>1, <2>2 DEF CallInv, Stands, After, Reading, None
<1>9. DOMAIN asked' = Calls /\ \A d \in Calls \ {c} : asked'[d] = asked[d]
  BY <1>3 DEF DoneInv
<1>10. ViewInv(c)'
  <2>1. owner = c => c \notin due
    BY DEF DoneInv, ViewInv
  <2> QED BY <1>1, <1>3, <2>1, NoView DEF ViewInv
<1> QED BY <1>1, <1>2, <1>3, <1>4, <1>5, <1>6, <1>7, <1>8, <1>9, <1>10, KeysDone

(* The pane and its user move; no call does. *)
LEMMA PaneDone ==
  ASSUME Inv, DoneInv, UNCHANGED <<plan, pc, result, read, asked, stray>>,
         submitted \subseteq submitted', box' \in Seq(Calls \cup {Him}),
         \A c \in Calls : pc[c] = "enter" => box' = box /\ overlay' = overlay,
         \/ dialog' = dialog /\ (screen' = screen \/ screen' \notin {"question", "permission"})
         \/ dialog' = dialog + 1,
         due' \subseteq due,
         \A c \in Calls : owner' = c => owner = c \/ (c \in due \ due' /\ plan.want[c] = "view"),
         \A c \in Calls : overlay' = c => overlay = c \/ c \in due \ due',
         owner' # None => screen' \in Views,
         \A c \in Calls : pc[c] = "opened" /\ screen' \in Views =>
           \/ screen \in Views /\ owner' = owner
           \/ Taken(owner', c)
           \/ "viewsMeanwhile" \in plan.habits,
         overlay' # None => overlay' \in Calls /\ plan.want[overlay'] = "btw" /\ screen' # "gone"
  PROVE  DoneInv'
<1>1. MissStays
  BY DEF MissStays, Missed
<1>2. dialog \in Nat /\ dialog' \in Nat /\ dialog <= dialog'
  BY DEF DoneInv, ScreenInv
<1>3. owner' \in Calls => plan.want[owner'] = "view"
  BY HimAssumption DEF DoneInv, ScreenInv
<1>4. ScreenInv'
  BY <1>2, <1>3 DEF ScreenInv
<1>5. ASSUME NEW c \in Calls PROVE CallInv(c)' /\ ViewInv(c)'
  <2>1. CallInv(c) /\ ViewInv(c) /\ c # None
    BY HimAssumption DEF DoneInv
  <2>2. c \in due => pc[c] \in After \/ Missed(c)
    BY <2>1 DEF ViewInv, CallInv, Missed
  <2>3. ViewInv(c)'
    <3>1. Missed(c)' = Missed(c)
      BY DEF Missed
    <3>2. overlay' = c => pc[c] \in After \/ Missed(c)
      BY <2>1, <2>2 DEF ViewInv
    <3>3. overlay' = c \/ owner' = c => c \notin due'
      BY <2>1 DEF ViewInv
    <3> QED BY <2>1, <3>1, <3>2, <3>3 DEF ViewInv
  <2>4. result[c] = "ok" => Kept(c)'
    <3> SUFFICES ASSUME result[c] = "ok" PROVE Kept(c)'
      OBVIOUS
    <3>1. Kept(c)
      BY <2>1 DEF CallInv
    <3>2. read[c] = c => owner' # c /\ overlay' # c
      BY <2>1, <3>1 DEF ViewInv, Kept
    <3> QED BY <1>1, <1>2, <2>1, <3>1, <3>2, KeptStays DEF CallInv
  <2>5. asked'[c] \in 0 .. dialog'
    BY <1>2, <2>1 DEF CallInv
  <2>6. pc'[c] = "enter" => (IF overlay' = None THEN InBox(c)' ELSE Aside(c)')
    BY <2>1 DEF CallInv, InBox, Aside
  <2>7. pc'[c] \in After => Reached(c)'
    BY <2>1, ReachedStays DEF CallInv
  <2>8. pc'[c] \in Reading => OwnView(c)'
    BY <1>1, <2>1, OwnStays DEF CallInv
  <2>9. pc'[c] \in {"press", "pressed"} => ~Delivers(c)'
    BY <2>1 DEF CallInv, Delivers
  <2>10. pc'[c] = "opened" /\ plan'.want[c] = "view" /\ screen' \in Views
          => Taken(owner, c)' \/ "viewsMeanwhile" \in plan'.habits
    <3>1. Taken(owner', c) => Taken(owner, c)'
      BY DEF Taken, Missed
    <3>2. owner' = owner /\ Taken(owner, c) => Taken(owner', c)
      BY DEF Taken
    <3> QED BY <2>1, <3>1, <3>2 DEF CallInv
  <2>11. result'[c] # None <=> pc'[c] = "done"
    BY <2>1 DEF CallInv
  <2>12. CallInv(c)'
    BY <2>4, <2>5, <2>6, <2>7, <2>8, <2>9, <2>10, <2>11 DEF CallInv
  <2> QED BY <2>3, <2>12
<1>6. StrayInv'
  BY <1>1, StrayStays DEF DoneInv
<1> QED BY <1>4, <1>5, <1>6 DEF DoneInv

(* Whose view opens while a call waits is that call, or has missed it. *)
LEMMA OpensDone ==
  ASSUME Inv, DoneInv, OneProcess, Steady, PaneOpens PROVE DoneInv'
<1>1. /\ screen \in {"prompt", "working"}
      /\ UNCHANGED <<plan, pc, result, read, asked, stray, box, dialog, submitted>>
      /\ owner = None /\ box \in Seq(Calls \cup {Him})
      /\ \A c \in Calls : pc[c] # "enter"
  BY DEF PaneOpens, MayMove, InGap, ctl, DoneInv, ScreenInv, Views
<1>2. PICK d \in due :
        /\ due' = due \ {d}
        /\ \/ /\ plan.want[d] = "view" /\ overlay = None
              /\ screen' = "readonly" /\ owner' = d /\ UNCHANGED <<overlay, answering>>
           \/ plan.want[d] = "btw" /\ overlay' = d /\ answering' = TRUE /\ UNCHANGED <<screen, owner>>
           \/ UNCHANGED <<screen, owner, overlay, answering>>
  BY DEF PaneOpens
<1>3. d \in Calls /\ d # None /\ ViewInv(d) /\ CallInv(d)
  BY <1>2, HimAssumption DEF Inv, Types, DoneInv
<1>4. ASSUME NEW c \in Calls, pc[c] = "opened" PROVE Taken(d, c)
  <2>1. d # c => pc[d] \notin After
    BY <1>3, <1>4, Turn DEF Inv, Rests, After, Reading
  <2> QED BY <1>2, <1>3, <2>1 DEF Taken, ViewInv, CallInv, Missed
<1>5. overlay # None => overlay \in Calls /\ plan.want[overlay] = "btw" /\ screen # "gone"
  BY DEF DoneInv, ScreenInv
<1>6. CASE /\ plan.want[d] = "view" /\ overlay = None
           /\ screen' = "readonly" /\ owner' = d /\ UNCHANGED <<overlay, answering>>
  BY <1>1, <1>2, <1>3, <1>4, <1>6, PaneDone DEF Views
<1>7. CASE plan.want[d] = "btw" /\ overlay' = d /\ answering' = TRUE /\ UNCHANGED <<screen, owner>>
  BY <1>1, <1>2, <1>3, <1>7, PaneDone DEF Views
<1>8. CASE UNCHANGED <<screen, owner, overlay, answering>>
  BY <1>1, <1>2, <1>5, <1>8, PaneDone DEF Views
<1> QED BY <1>2, <1>6, <1>7, <1>8

(* A user who keeps to himself opens no view while a call waits for its own. *)
LEMMA MovesDone ==
  ASSUME Inv, DoneInv, OneProcess, Steady, Works \/ UserTypes \/ UserViews \/ UserAnswers \/ UserClosesBtw
  PROVE  DoneInv'
<1>1. /\ UNCHANGED <<plan, pc, result, read, asked, stray>>
      /\ \A c \in Calls : pc[c] # "enter"
  BY DEF Works, UserTypes, UserViews, UserAnswers, UserClosesBtw, Moves, MayMove, ctl, InGap
<1>2. /\ box \in Seq(Calls \cup {Him}) /\ dialog \in Nat
      /\ owner # None => screen \in Views
      /\ overlay # None => overlay \in Calls /\ plan.want[overlay] = "btw" /\ screen # "gone"
      /\ None \notin Calls /\ Him \notin Calls
  BY HimAssumption DEF DoneInv, ScreenInv
<1>3. overlay' \in {overlay, None} /\ due' \subseteq due
  BY DEF Works, UserTypes, UserViews, UserAnswers, UserClosesBtw
<1>4. CASE Works
  <2>1. CASE /\ screen = "working" /\ screen' \in {"prompt", "question", "permission"}
             /\ dialog' = (IF screen' = "prompt" THEN dialog ELSE dialog + 1)
             /\ UNCHANGED <<box, owner, overlay, submitted>>
    BY <1>1, <1>2, <1>3, <2>1, PaneDone DEF Views
  <2>2. CASE /\ screen' = "gone" /\ overlay' = None /\ box' = <<>> /\ owner' = None
             /\ UNCHANGED <<dialog, submitted>>
    <3>1. box' \in Seq(Calls \cup {Him})
      BY <2>2
    <3> QED BY <1>1, <1>2, <1>3, <2>2, <3>1, PaneDone DEF Views
  <2> QED BY <1>4, <2>1, <2>2 DEF Works
<1>5. CASE UserTypes
  <2>1. box' = Append(box, Him) \/ box' = <<>>
    BY <1>5 DEF UserTypes
  <2>2. box' \in Seq(Calls \cup {Him})
    <3>1. Him \in Calls \cup {Him} /\ box \in Seq(Calls \cup {Him})
      BY <1>2
    <3>2. Append(box, Him) \in Seq(Calls \cup {Him}) /\ <<>> \in Seq(Calls \cup {Him})
      BY <3>1
    <3> QED BY <2>1, <3>2
  <2>3. /\ submitted \subseteq submitted' /\ UNCHANGED <<overlay, owner, dialog>>
        /\ screen' \in {screen, "working"} /\ screen \in {"prompt", "working"}
    BY <1>5 DEF UserTypes, Input
  <2> QED BY <1>1, <1>2, <1>3, <2>2, <2>3, PaneDone DEF Views
<1>6. CASE UserViews
  <2>1. UNCHANGED <<overlay, box, dialog, submitted>>
    BY <1>6 DEF UserViews
  <2>2. \/ /\ screen = "prompt" /\ screen' \in Views /\ owner' = Him
           /\ "viewsMeanwhile" \in plan.habits \/ \A c \in Calls : pc[c] # "opened"
        \/ screen' = "prompt" /\ owner' = None /\ screen \in Views
    BY <1>6, States DEF UserViews, Views, Inv
  <2> QED BY <1>1, <1>2, <1>3, <2>1, <2>2, PaneDone DEF Views
<1>7. CASE UserAnswers
  <2>1. /\ UNCHANGED <<overlay, box, owner, dialog, submitted>>
        /\ screen \in {"question", "permission"} /\ screen' = "working"
    BY <1>7 DEF UserAnswers
  <2> QED BY <1>1, <1>2, <1>3, <2>1, PaneDone DEF Views
<1>8. CASE UserClosesBtw
  <2>1. overlay' = None /\ UNCHANGED <<screen, box, owner, dialog, submitted>>
    BY <1>8 DEF UserClosesBtw
  <2> QED BY <1>1, <1>2, <1>3, <2>1, PaneDone DEF Views
<1> QED BY <1>4, <1>5, <1>6, <1>7, <1>8

LEMMA StillDone ==
  ASSUME DoneInv, BtwAnswers \/ UNCHANGED vars PROVE DoneInv'
<1>1. UNCHANGED <<plan, pc, result, read, asked, stray, screen, overlay, box, due, owner, dialog, submitted>>
  BY DEF BtwAnswers, vars, pane, ctl
<1>2. ScreenInv' /\ StrayInv'
  BY <1>1 DEF DoneInv, ScreenInv, StrayInv, BtwIsHis, Missed
<1>3. ASSUME NEW c \in Calls PROVE CallInv(c)' /\ ViewInv(c)'
  <2>1. CallInv(c) /\ ViewInv(c)
    BY DEF DoneInv
  <2>2. ViewInv(c)'
    BY <1>1, <2>1 DEF ViewInv, Missed
  <2>3. CallInv(c)'
    BY <1>1, <2>1 DEF CallInv, InBox, Sent, Aside, Reached, Taken, Missed, OwnView, Kept, Delivers, Dialog
  <2> QED BY <2>2, <2>3
<1> QED BY <1>1, <1>2, <1>3 DEF DoneInv

LEMMA DoneStart == Init => DoneInv
<1> SUFFICES ASSUME Init PROVE DoneInv
  OBVIOUS
<1>1. ScreenInv /\ StrayInv
  BY HimAssumption DEF Init, ScreenInv, StrayInv, Views
<1>2. ASSUME NEW c \in Calls PROVE CallInv(c) /\ ViewInv(c)
  <2>1. /\ pc[c] = "start" /\ result[c] = None /\ asked[c] = 0 /\ dialog \in {0, 1}
        /\ read[c] = None /\ overlay = None /\ owner \in {Him, None} /\ due = {}
    BY DEF Init
  <2>2. None # "ok" /\ c \notin {Him, None}
    BY HimAssumption DEF None
  <2> QED BY <2>1, <2>2 DEF CallInv, ViewInv, After, Reading
<1> QED BY <1>1, <1>2 DEF Init, DoneInv

LEMMA DoneStep ==
  ASSUME OneProcess, Steady PROVE Inv /\ DoneInv /\ [Next]_vars => DoneInv'
<1> SUFFICES ASSUME Inv, DoneInv, [Next]_vars PROVE DoneInv'
  OBVIOUS
<1>1. ASSUME NEW c \in Calls, Step(c) PROVE DoneInv'
  <2>1. CASE Deliver(c)
    BY <2>1, EarlyDone, TypeDone, EnterDone DEF Deliver
  <2>2. CASE Recover(c)
    BY <2>2, EarlyDone, DismissDone DEF Recover
  <2>3. CASE ReadView(c)
    BY <2>3, OpenedDone, SettleDone, DismissDone, ClosedDone DEF ReadView
  <2>4. CASE AnswerDialog(c)
    BY <2>4, EarlyDone, PressDone, PressedDone DEF AnswerDialog
  <2>5. CASE Fails(c)
    BY <2>5, RaiseDone
  <2> QED BY <1>1, <2>1, <2>2, <2>3, <2>4, <2>5 DEF Step
<1>2. CASE Pane \/ User
  BY <1>2, OpensDone, StillDone, MovesDone DEF Pane, User
<1>3. CASE UNCHANGED vars
  BY <1>3, StillDone
<1> QED BY <1>1, <1>2, <1>3 DEF Next

LEMMA DoneInvariance == ASSUME OneProcess, Steady PROVE Spec => []DoneInv
BY InitOK, NextOK, DoneStart, DoneStep, PTL DEF Spec

(* A key goes where it belongs, each one still justified when it is sent by *)
(* what the look before it found; or into the view of a side-question that  *)
(* had ended without reading or closing it, which the look at a busy        *)
(* session does not see; unless the user closes such views while they are   *)
(* waited for (_deliver_locked, _handle_busy_tolerant_view).                *)
THEOREM KeysInPlace == ASSUME OneProcess, Steady PROVE Spec => []NoStrayKeys
<1>1. DoneInv => NoStrayKeys
  BY DEF DoneInv, StrayInv, NoStrayKeys, BtwIsHis
<1> QED BY <1>1, DoneInvariance, PTL

(* What a call reports as done is done: the payload is submitted, the view  *)
(* it opened is closed again, the dialog answered; and what it read back    *)
(* was its own, or a view its own call had missed, which is also the only   *)
(* other place where the payload can have gone (transport.py:398-500,       *)
(* 653-731).                                                                *)
THEOREM OkIsDone == ASSUME OneProcess, Steady PROVE Spec => []OkMeansDone
<1>1. DoneInv => OkMeansDone
  <2> SUFFICES ASSUME DoneInv, NEW c \in Calls, result[c] = "ok" PROVE Kept(c)
    BY DEF OkMeansDone, Kept, Reached, Sent, Aside, OwnView, Taken
  <2> QED BY DEF DoneInv, CallInv
<1> QED BY <1>1, DoneInvariance, PTL
=============================================================================
