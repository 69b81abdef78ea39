---------------------------- MODULE ConsoleProofs -----------------------------
(***************************************************************************)
(* Theorems about the console.                                             *)
(*                                                                         *)
(* What it shows, ConsoleView, for any staleness mark and any length of a  *)
(* check: TypeOK, OneClock, ShownIsTrue by ViewInv and CostInv,            *)
(* MisreadOnce by WatchInv.                                                *)
(*                                                                         *)
(* How it starts and stops the listener, WakeControl, for any processes    *)
(* and any number of starts, presses and failed polls: WakeTypeOK,         *)
(* OneOfOurs, StoppedIsTrue and QuitWarns.                                 *)
(*                                                                         *)
(* What it records and announces of the questions sessions stop at,        *)
(* BlockedQuestions, for any number of members and however hurried the     *)
(* sessions are: BlockedTypeOK, AnswerHitsItsQuestion by HitInv,           *)
(* SurfacedWasSpoken by SurfacedInv and SpokenOnce by OnceInv.             *)
(***************************************************************************)
EXTENDS ConsoleView, WakeControl, BlockedQuestions, FiniteSetTheorems, TLAPS

(* The end of a burst is awaited exactly while the fast timer runs. *)
ClockInv ==
  clocks = IF burst THEN [normal |-> 0, fast |-> 1, end |-> 1]
                    ELSE [normal |-> 1, fast |-> 0, end |-> 0]

(* How much older than it says a finding may be. *)
Lag == IF sec \in Early THEN 0 ELSE MaxCheck

WorldInv == world = "some" => gone = 0

(* What a check in hand has found was there as lately as it says, and a    *)
(* check that is stamped at its end does not take for ever.                *)
FoundInv ==
  Held => /\ hand.found = "some" => gone <= hand.age
          /\ sec \notin Early => hand.age <= MaxCheck

(* What is stored was there as lately, unless an error is stored beside    *)
(* it; and nothing is stored as found only when nothing was found.         *)
StoredInv ==
  sec # "teams" =>
    /\ snap.value = "some" /\ ~snap.error => gone <= snap.age + Lag
    /\ snap.value = "none" /\ ~snap.error => last = "none"

(* Only the teams are stored in pieces. *)
PenInv == sec # "teams" => pen = "up"

ViewInv == TypeOK /\ ClockInv /\ WorldInv /\ PenInv /\ FoundInv /\ StoredInv

-----------------------------------------------------------------------------
LEMMA ClockStep ==
  ASSUME ClockInv, [Next]_vars
  PROVE  ClockInv'
<1>1. CASE StartBurst
  BY <1>1 DEF ClockInv, StartBurst
<1>2. CASE EndBurst
  BY <1>2 DEF ClockInv, EndBurst, Older
<1>3. CASE UNCHANGED timers
  BY <1>3 DEF ClockInv, timers
<1>4. CASE ~StartBurst /\ ~EndBurst /\ Next
  BY <1>3, <1>4 DEF Next, Check, Look, StoreWake, FailWake, StoreSpeech, FailSpeech, StoreEngine,
       FailEngine, StoreRuntime, FailMemory, FailModels, StoreSpend, FailSpend, StoreTeams,
       StampTeams, ClearTeams, Announced, FailTeams, MarkTeams, Found, Ends, ReadValue,
       ReadError, ReadAge, Change, Tick, timers
<1> QED BY <1>1, <1>2, <1>3, <1>4 DEF vars

(* However often start and stop are pressed, one timer refreshes the       *)
(* screen: main.py's burst takes the normal timer's place and gives it     *)
(* back.                                                                   *)
THEOREM OneTimer == Spec => []OneClock
<1>1. Init => ClockInv
  BY DEF Init, ClockInv
<1>2. ClockInv => OneClock
  BY DEF ClockInv, OneClock
<1> QED BY <1>1, <1>2, ClockStep, PTL DEF Spec

-----------------------------------------------------------------------------
(* A check in hand has an age that is a number. *)
LEMMA InHand ==
  ASSUME TypeOK
  PROVE  /\ Held => hand \in [found : Values, age : 0 .. FarGone]
         /\ \A h \in [found : Values, age : 0 .. FarGone] : h \notin {Due, Resting}
         /\ FarGone \in Nat /\ Old \in 0 .. FarGone /\ MaxCheck \in 0 .. FarGone
BY ViewAssumption DEF TypeOK, Held, Due, Resting, FarGone, Old

LEMMA ViewStart == Init => ViewInv
<1> SUFFICES ASSUME Init PROVE ViewInv
  OBVIOUS
<1>1. FarGone \in Nat /\ Old \in 0 .. FarGone
  BY ViewAssumption DEF FarGone, Old
<1>2. TypeOK
  <2>1. snap \in [value : Values, age : 0 .. FarGone, error : BOOLEAN]
    BY <1>1 DEF Init, NotYetPolled, Values
  <2>2. eye \in [panel : Panels, step : {"value", "error", "age"}, value : Values, error : BOOLEAN]
    BY DEF Init, NothingRead, Panels, Values
  <2>3. gone \in 0 .. FarGone /\ misread \in [Panels -> 0 .. 2]
    BY <1>1 DEF Init
  <2>4. clocks \in [normal : 0 .. 2, fast : 0 .. 1, end : 0 .. 3]
    BY DEF Init
  <2> QED BY <2>1, <2>2, <2>3, <2>4 DEF Init, TypeOK
<1>3. ClockInv /\ WorldInv /\ PenInv
  BY DEF Init, ClockInv, WorldInv, PenInv
<1>4. FoundInv /\ StoredInv
  BY DEF Init, FoundInv, StoredInv, Held, NotYetPolled
<1> QED BY <1>2, <1>3, <1>4 DEF ViewInv

LEMMA EndsKeep ==
  ASSUME ViewInv, NEW stored \in [value : Values, age : 0 .. FarGone, error : BOOLEAN], Ends(stored),
         last' \in Values \cup {"never"},
         sec # "teams" =>
           /\ stored.value = "some" /\ ~stored.error => gone <= stored.age + Lag
           /\ stored.value = "none" /\ ~stored.error => last' = "none"
  PROVE  ViewInv'
<1> USE DEF Ends, screen, timers
<1>1. TypeOK'
  BY DEF ViewInv, TypeOK
<1>2. ClockInv' /\ WorldInv' /\ PenInv'
  BY DEF ViewInv, ClockInv, WorldInv, PenInv
<1>3. FoundInv' /\ StoredInv'
  BY DEF ViewInv, FoundInv, StoredInv, Held, Lag
<1> QED BY <1>1, <1>2, <1>3 DEF ViewInv

LEMMA RaisedTyped ==
  ASSUME ViewInv
  PROVE  /\ Raised \in [value : Values, age : 0 .. FarGone, error : BOOLEAN] /\ Raised.error
         /\ last \in Values \cup {"never"}
<1>1. snap \in [value : Values, age : 0 .. FarGone, error : BOOLEAN] /\ 0 \in 0 .. FarGone
  BY InHand DEF ViewInv, TypeOK
<1>2. Raised \in [value : Values, age : 0 .. FarGone, error : BOOLEAN]
  BY <1>1 DEF Raised
<1>3. Raised.error
  BY <1>1 DEF Raised
<1> QED BY <1>2, <1>3 DEF ViewInv, TypeOK

LEMMA FoundKeeps ==
  ASSUME ViewInv, Held, NEW now, Found(now),
         now = hand.age \/ (now = 0 /\ sec \notin Early)
  PROVE  ViewInv'
<1> DEFINE stored == [value |-> hand.found, age |-> now, error |-> FALSE]
<1>1. hand \in [found : Values, age : 0 .. FarGone] /\ FarGone \in Nat
  BY InHand DEF ViewInv
<1>2. stored \in [value : Values, age : 0 .. FarGone, error : BOOLEAN]
  BY <1>1
<1>3. hand.found = "some" => gone <= now + Lag
  BY <1>1, ViewAssumption DEF ViewInv, TypeOK, FoundInv, Lag, FarGone
<1>4. Ends(stored) /\ last' = hand.found
  BY DEF Found
<1> QED BY <1>1, <1>2, <1>3, <1>4, EndsKeep

LEMMA ChecksKeep ==
  ASSUME ViewInv, Check
  PROVE  ViewInv'
<1>1. CASE Look
  <2>1. PICK v \in Finds : hand' = [found |-> v, age |-> 0]
    BY <1>1 DEF Look
  <2>2. v \in Values /\ (v = "some" => gone = 0)
    BY <2>1 DEF Finds, ViewInv, TypeOK, WorldInv, Values
  <2>3. UNCHANGED <<sec, world, gone, snap, last, pen, screen, timers>>
    BY <1>1 DEF Look
  <2>4. TypeOK'
    BY <2>1, <2>2, <2>3, InHand DEF ViewInv, TypeOK, screen, timers
  <2>5. ClockInv' /\ WorldInv' /\ PenInv'
    BY <2>3 DEF ViewInv, ClockInv, WorldInv, PenInv, timers
  <2>6. FoundInv' /\ StoredInv'
    BY <2>1, <2>2, <2>3, ViewAssumption DEF ViewInv, FoundInv, StoredInv, Held, Lag
  <2> QED BY <2>4, <2>5, <2>6 DEF ViewInv
<1>2. CASE StoreWake \/ StoreSpeech \/ StoreEngine \/ StoreRuntime \/ StoreSpend
  BY <1>2, FoundKeeps
     DEF StoreWake, StoreSpeech, StoreEngine, StoreRuntime, StoreSpend, Early
<1>3. CASE FailWake \/ FailSpeech \/ FailEngine \/ FailModels \/ FailSpend
  <2>1. Ends(Raised) /\ last' = last
    BY <1>3 DEF FailWake, FailSpeech, FailEngine, FailModels, FailSpend
  <2> QED BY <2>1, RaisedTyped, EndsKeep
<1>4. CASE FailMemory
  <2> DEFINE stored == [value |-> hand.found, age |-> 0, error |-> TRUE]
  <2>1. hand \in [found : Values, age : 0 .. FarGone] /\ FarGone \in Nat
    BY <1>4, InHand DEF ViewInv, FailMemory
  <2>2. Ends(stored) /\ last' = hand.found
    BY <1>4 DEF FailMemory
  <2>3. stored \in [value : Values, age : 0 .. FarGone, error : BOOLEAN] /\ stored.error
    BY <2>1
  <2> QED BY <2>1, <2>2, <2>3, EndsKeep
<1>5. CASE sec = "teams" /\ (StoreTeams \/ StampTeams \/ ClearTeams \/ Announced \/ FailTeams \/ MarkTeams)
  <2>1. /\ UNCHANGED <<sec, world, gone, timers>>
        /\ hand' \in {hand, Resting} /\ misread' = misread /\ eye' = eye
        /\ looked' \in {looked, "no"} /\ last' \in {last, hand.found}
        /\ (last' = last \/ Held)
        /\ pen' \in {"up", "stored", "stamped", "telling", "failed"}
    BY <1>5 DEF StoreTeams, StampTeams, ClearTeams, Announced, FailTeams, MarkTeams, screen
  <2>2. snap' \in [value : Values, age : 0 .. FarGone, error : BOOLEAN]
    <3>1. snap \in [value : Values, age : 0 .. FarGone, error : BOOLEAN] /\ 0 \in 0 .. FarGone
      BY InHand DEF ViewInv, TypeOK
    <3>2. CASE StoreTeams
      <4>1. hand.found \in Values
        BY <3>2, InHand DEF StoreTeams, ViewInv
      <4> QED BY <3>1, <3>2, <4>1 DEF StoreTeams
    <3>3. CASE StampTeams
      BY <3>1, <3>3 DEF StampTeams
    <3>4. CASE ClearTeams
      BY <3>1, <3>4 DEF ClearTeams
    <3>5. CASE Announced
      BY <3>1, <3>5 DEF Announced
    <3>6. CASE FailTeams
      BY <3>1, <3>6 DEF FailTeams
    <3>7. CASE MarkTeams
      BY <3>1, <3>7 DEF MarkTeams
    <3> QED BY <1>5, <3>2, <3>3, <3>4, <3>5, <3>6, <3>7
  <2>3. TypeOK'
    BY <2>1, <2>2, InHand DEF ViewInv, TypeOK, timers
  <2>4. ClockInv' /\ WorldInv' /\ PenInv'
    BY <1>5, <2>1 DEF ViewInv, ClockInv, WorldInv, PenInv, timers
  <2>5. FoundInv' /\ StoredInv'
    BY <1>5, <2>1 DEF ViewInv, FoundInv, StoredInv, Held
  <2> QED BY <2>3, <2>4, <2>5 DEF ViewInv
<1>6. StoreTeams \/ StampTeams \/ ClearTeams \/ Announced \/ FailTeams \/ MarkTeams
        => sec = "teams"
  BY DEF StoreTeams, StampTeams, ClearTeams, Announced, FailTeams, MarkTeams, ViewInv, PenInv
<1> QED BY <1>1, <1>2, <1>3, <1>4, <1>5, <1>6 DEF Check

(* Reading disturbs nothing that is stored. *)
LEMMA ReadsKeep ==
  ASSUME ViewInv, ReadValue \/ ReadError \/ ReadAge
  PROVE  ViewInv'
<1>1. UNCHANGED <<sec, world, gone, thread, timers>> /\ looked' \in {looked, "begun", "done"}
  BY DEF ReadValue, ReadError, ReadAge
<1>2. eye' \in [panel : Panels, step : {"value", "error", "age"}, value : Values, error : BOOLEAN]
  <2>1. /\ eye \in [panel : Panels, step : {"value", "error", "age"}, value : Values, error : BOOLEAN]
        /\ snap.value \in Values /\ snap.error \in BOOLEAN
    BY DEF ViewInv, TypeOK
  <2>2. CASE ReadValue
    BY <2>1, <2>2 DEF ReadValue
  <2>3. CASE ReadError
    BY <2>1, <2>3 DEF ReadError
  <2>4. CASE ReadAge
    BY <2>4 DEF ReadAge, NothingRead, Panels, Values
  <2> QED BY <2>2, <2>3, <2>4
<1>3. misread' \in [Panels -> 0 .. 2]
  <2>1. misread' = misread
        \/ \E p \in Panels : \E n \in {0, Older(misread[p], 2)} : misread' = [misread EXCEPT ![p] = n]
    <3>1. CASE ReadValue \/ ReadError
      BY <3>1 DEF ReadValue, ReadError
    <3>2. CASE ReadAge
      <4>1. eye.panel \in Panels
        BY DEF ViewInv, TypeOK
      <4> QED BY <3>2, <4>1 DEF ReadAge
    <3> QED BY <3>1, <3>2
  <2> QED BY <2>1 DEF ViewInv, TypeOK, Older
<1>4. TypeOK'
  BY <1>1, <1>2, <1>3 DEF ViewInv, TypeOK, thread, timers
<1>5. ClockInv' /\ WorldInv' /\ PenInv' /\ FoundInv' /\ StoredInv'
  BY <1>1 DEF ViewInv, ClockInv, WorldInv, PenInv, FoundInv, StoredInv, Held, Lag, thread, timers
<1> QED BY <1>4, <1>5 DEF ViewInv

LEMMA BurstsKeep ==
  ASSUME ViewInv, StartBurst \/ EndBurst
  PROVE  ViewInv'
<1>1. UNCHANGED <<sec, world, gone, thread, screen>>
  BY DEF StartBurst, EndBurst
<1>2. ClockInv'
  BY ClockStep DEF ViewInv, Next
<1>3. burst' \in BOOLEAN
  BY DEF StartBurst, EndBurst
<1>4. clocks' \in [normal : 0 .. 2, fast : 0 .. 1, end : 0 .. 3]
  BY <1>2, <1>3 DEF ClockInv
<1>5. TypeOK'
  BY <1>1, <1>3, <1>4 DEF ViewInv, TypeOK, thread, screen
<1>6. WorldInv' /\ PenInv' /\ FoundInv' /\ StoredInv'
  BY <1>1 DEF ViewInv, WorldInv, PenInv, FoundInv, StoredInv, Held, Lag, thread
<1> QED BY <1>2, <1>5, <1>6 DEF ViewInv

LEMMA ChangeKeeps ==
  ASSUME ViewInv, Change
  PROVE  ViewInv'
<1> USE InHand, ViewAssumption DEF Change, ViewInv, thread, screen, timers
<1>1. TypeOK'
  BY DEF TypeOK, Values
<1>2. ClockInv' /\ WorldInv' /\ PenInv'
  BY DEF ClockInv, WorldInv, PenInv
<1>3. FoundInv'
  BY DEF FoundInv, Held
<1>4. StoredInv'
  BY DEF StoredInv, Lag, TypeOK
<1> QED BY <1>1, <1>2, <1>3, <1>4

LEMMA TickKeeps ==
  ASSUME ViewInv, Tick
  PROVE  ViewInv'
<1>1. /\ UNCHANGED <<sec, world, last, pen, eye, misread, timers>> /\ looked' = "no"
      /\ gone' = IF world = "some" THEN 0 ELSE Older(gone, FarGone)
      /\ hand' = IF Held THEN [hand EXCEPT !.age = Older(@, FarGone)] ELSE Due
      /\ snap' = [snap EXCEPT !.age = Older(@, FarGone)]
      /\ sec \notin Early /\ Held => hand.age < MaxCheck
  BY DEF Tick
<1>2. /\ gone \in 0 .. FarGone /\ FarGone \in Nat /\ MaxCheck \in 0 .. FarGone
      /\ snap \in [value : Values, age : 0 .. FarGone, error : BOOLEAN]
      /\ Held => hand \in [found : Values, age : 0 .. FarGone]
      /\ \A h \in [found : Values, age : 0 .. FarGone] : h \notin {Due, Resting}
  BY InHand DEF ViewInv, TypeOK
<1>3. /\ gone' \in 0 .. FarGone /\ gone' <= gone + 1
      /\ snap' = [snap EXCEPT !.age = snap'.age] /\ snap'.age \in 0 .. FarGone
      /\ snap'.age = FarGone \/ snap'.age = snap.age + 1
  BY <1>1, <1>2 DEF Older
<1>4. snap' \in [value : Values, age : 0 .. FarGone, error : BOOLEAN]
      /\ snap'.value = snap.value /\ snap'.error = snap.error
  BY <1>1, <1>2, <1>3
<1>5. /\ Held' <=> Held
      /\ Held => /\ hand' \in [found : Values, age : 0 .. FarGone]
                 /\ hand'.found = hand.found
                 /\ hand'.age = FarGone \/ hand'.age = hand.age + 1
                 /\ sec \notin Early => hand'.age <= MaxCheck
      /\ ~Held => hand' = Due
  <2>1. CASE Held
    <3>1. /\ hand' \in [found : Values, age : 0 .. FarGone] /\ hand'.found = hand.found
          /\ hand'.age = Older(hand.age, FarGone)
      BY <1>1, <1>2, <2>1 DEF Older
    <3> QED BY <1>1, <1>2, <2>1, <3>1 DEF Older, Held
  <2>2. CASE ~Held
    BY <1>1, <2>2 DEF Held
  <2> QED BY <2>1, <2>2
<1>6. TypeOK'
  BY <1>1, <1>2, <1>3, <1>4, <1>5 DEF ViewInv, TypeOK, timers
<1>7. ClockInv' /\ WorldInv' /\ PenInv'
  BY <1>1 DEF ViewInv, ClockInv, WorldInv, PenInv, timers
<1>8. FoundInv'
  <2>1. Held => hand.age \in 0 .. FarGone
    BY <1>2
  <2> QED BY <1>1, <1>2, <1>3, <1>5, <2>1 DEF ViewInv, FoundInv
<1>9. StoredInv'
  <2>1. Lag \in Nat /\ Lag' = Lag /\ snap.age \in 0 .. FarGone
    BY <1>1, <1>2 DEF Lag
  <2> QED BY <1>1, <1>2, <1>3, <1>4, <2>1 DEF ViewInv, StoredInv
<1> QED BY <1>6, <1>7, <1>8, <1>9 DEF ViewInv

LEMMA ViewStep ==
  ViewInv /\ [Next]_vars => ViewInv'
<1>1. ASSUME ViewInv, UNCHANGED vars PROVE ViewInv'
  BY <1>1 DEF vars, thread, screen, timers, ViewInv, TypeOK, ClockInv, WorldInv, PenInv,
              FoundInv, StoredInv, Held, Lag
<1> QED BY <1>1, ChecksKeep, ReadsKeep, BurstsKeep, ChangeKeeps, TickKeeps DEF Next

(* Every variable keeps its type, whatever hangs, fails or is pressed. *)
THEOREM TypeCorrect == Spec => []TypeOK
<1>1. ViewInv => TypeOK
  BY DEF ViewInv
<1> QED BY <1>1, ViewStart, ViewStep, PTL DEF Spec

(* Once a cost was had there is one to show. *)
CostInv == sec = "spend" /\ snap.value = "none" => last = "never"

LEMMA CostStep ==
  ViewInv /\ CostInv /\ [Next]_vars => CostInv'
<1> SUFFICES ASSUME ViewInv, CostInv, [Next]_vars PROVE CostInv'
  OBVIOUS
<1>1. snap \in [value : Values, age : 0 .. FarGone, error : BOOLEAN]
  BY DEF ViewInv, TypeOK
<1>2. CASE StoreSpend
  BY <1>2 DEF StoreSpend, Found, Ends, CostInv
<1>3. CASE FailSpend
  BY <1>1, <1>3 DEF FailSpend, Ends, Raised, CostInv
<1>4. CASE UNCHANGED <<sec, last>> /\ snap'.value = snap.value
  BY <1>4 DEF CostInv
<1>5. CASE StoreWake \/ FailWake \/ StoreSpeech \/ FailSpeech \/ StoreEngine \/ FailEngine
           \/ StoreRuntime \/ FailMemory \/ FailModels \/ StoreTeams
  <2>1. sec' = sec /\ sec # "spend"
    BY <1>5 DEF StoreWake, FailWake, StoreSpeech, FailSpeech, StoreEngine, FailEngine, StoreRuntime,
                FailMemory, FailModels, StoreTeams, Found, Ends
  <2> QED BY <2>1 DEF CostInv
<1>6. CASE Look \/ StampTeams \/ ClearTeams \/ Announced \/ FailTeams \/ MarkTeams
  <2>1. UNCHANGED <<sec, last>> /\ snap'.value = snap.value
    BY <1>1, <1>6 DEF Look, StampTeams, ClearTeams, Announced, FailTeams, MarkTeams
  <2> QED BY <1>4, <2>1
<1>7. CASE Tick
  <2>1. UNCHANGED <<sec, last>> /\ snap'.value = snap.value
    BY <1>1, <1>7 DEF Tick
  <2> QED BY <1>4, <2>1
<1>8. CASE ReadValue \/ ReadError \/ ReadAge \/ StartBurst \/ EndBurst \/ Change \/ UNCHANGED vars
  <2>1. UNCHANGED <<sec, last, snap>>
    BY <1>8 DEF ReadValue, ReadError, ReadAge, StartBurst, EndBurst, Change, vars, thread
  <2> QED BY <1>4, <2>1
<1> QED BY <1>2, <1>3, <1>5, <1>6, <1>7, <1>8 DEF Next, Check

LEMMA Truth == ViewInv /\ CostInv => ShownIsTrue
<1> SUFFICES ASSUME ViewInv, CostInv, sec # "teams", NEW p \in Panels
             PROVE  /\ Shown(p) = "some" => gone <= Limit \/ (sec = "spend" /\ snap.error)
                    /\ Shown(p) = "none" => last = IF sec = "spend" THEN "never" ELSE "none"
  BY DEF ShownIsTrue
<1>1. /\ sec \in {"wake", "engine", "speech", "runtime", "spend"} /\ snap.value \in {"some", "none"}
      /\ snap.age \in 0 .. FarGone /\ gone \in 0 .. FarGone
  BY DEF ViewInv, TypeOK, Sections, Values
<1>2. Shown(p) \in {"some", "none"} =>
        (~snap.error \/ sec = "spend") /\ Shown(p) = snap.value
  BY <1>1 DEF Shown, Shows, WakeLine, EngineRows, SpeechRows, RuntimeRows, SpendLine, Marked
<1>3. Shown(p) = "some" => ~IsStale(snap.age)
  BY <1>1 DEF Shown, Shows, WakeLine, EngineRows, SpeechRows, RuntimeRows, SpendLine, Marked
<1>4. snap.value = "some" /\ ~snap.error => gone <= snap.age + Lag
  BY <1>1 DEF ViewInv, StoredInv
<1>5. Limit = StaleAfter + Lag /\ Lag \in Nat
  BY ViewAssumption DEF Limit, Lag
<1>6. Shown(p) = "some" => gone <= Limit \/ (sec = "spend" /\ snap.error)
  BY <1>1, <1>2, <1>3, <1>4, <1>5, ViewAssumption DEF IsStale, FarGone
<1>7. Shown(p) = "none" => last = IF sec = "spend" THEN "never" ELSE "none"
  BY <1>1, <1>2 DEF ViewInv, StoredInv, CostInv
<1> QED BY <1>6, <1>7

(* What wake, engine, speech and runtime show without a mark was so within *)
(* the staleness mark, and "none" is shown only when a check found it; a   *)
(* cost shown without a mark may be older only if its last check failed.   *)
THEOREM PanelsTellTheTruth == Spec => []ShownIsTrue
<1>1. Init => CostInv
  BY DEF Init, CostInv
<1> QED BY <1>1, Truth, CostStep, ViewStart, ViewStep, PTL DEF Spec

-----------------------------------------------------------------------------
(* Readings of the teams.                                                  *)

(* The teams.  In hand is what is being stored; what is stored, unless an   *)
(* error stands beside it, was found and is as young as it says.            *)
TeamsInv ==
  sec = "teams" =>
    /\ pen \in {"stored", "stamped"} => Held /\ snap.value = hand.found /\ last = hand.found
    /\ pen = "stamped" => snap.age = 0
    /\ pen = "telling" => ~Held /\ (snap.age = 0 => hand = Resting)
    /\ Unlocked => /\ snap.value = "some" /\ ~snap.error => gone <= snap.age + MaxCheck
                   /\ snap.value = "none" /\ ~snap.error => last = "none"

(* Nothing has been written, and no time has passed, since a check ended. *)
JustWritten == /\ hand = Resting
               /\ pen = "up" \/ (pen = "telling" /\ snap.age = 0 /\ ~snap.error)

(* What a reading has read so far is what is still stored. *)
Agrees == /\ eye.step # "value" => eye.value = snap.value
          /\ eye.step = "age" => eye.error = snap.error

(* No reading of what is stored misleads, whatever stands beside it. *)
Harmless == /\ snap.value = "some" => gone <= Limit
            /\ snap.value = "none" => last = "none"

(* The reading of p that follows its last one has begun, or that of the     *)
(* panel before it in the same refresh.                                     *)
Again(p) == IF p = "rail" THEN eye.panel = "rail" /\ eye.step # "value"
                          ELSE eye.panel = "console" \/ eye.step # "value"

LookedInv ==
  /\ Unlocked /\ (~JustWritten \/ looked # "no") => Agrees
  /\ looked = "begun" => eye.panel = "console" \/ eye.step # "value"
  /\ Unlocked /\ looked = "begun" /\ eye.panel = "console" => misread["rail"] = 0
  /\ Unlocked /\ looked = "done" => \A p \in Panels : misread[p] = 0

MisreadInv ==
  \A p \in Panels : misread[p] # 0 =>
    /\ misread[p] = 1
    /\ Unlocked => JustWritten
    /\ Again(p) => /\ hand = Resting /\ pen \in {"up", "telling", "failed"}
                   /\ eye.step # "value" => eye.value = snap.value
                   /\ Harmless \/ (pen = "up" /\ Agrees)

ReadingInv == IF sec = "teams" THEN LookedInv /\ MisreadInv
              ELSE sec # "spend" => \A p \in Panels : misread[p] = 0

WatchInv == TeamsInv /\ ReadingInv

(* What a mark does not hide. *)
LEMMA TeamsShow ==
  ASSUME sec = "teams", NEW p, NEW v, NEW e \in BOOLEAN, NEW a,
         Shows(p, v, e, a) \in {"some", "none"}
  PROVE  ~e /\ Shows(p, v, e, a) = v /\ (v = "some" => ~IsStale(a))
BY DEF Shows, RailTeams, TeamsRows, Marked

(* A reading of what is stored, all at once, does not mislead. *)
LEMMA WholeReading ==
  ASSUME ViewInv, TeamsInv, sec = "teams", Unlocked, NEW p
  PROVE  ~Misleads(Shows(p, snap.value, snap.error, snap.age))
<1>1. snap.error \in BOOLEAN /\ snap.age \in 0 .. FarGone /\ gone \in 0 .. FarGone
  BY DEF ViewInv, TypeOK
<1>2. Limit = StaleAfter + MaxCheck
  BY DEF Limit, Early
<1> DEFINE seen == Shows(p, snap.value, snap.error, snap.age)
<1>3. seen \in {"some", "none"} =>
        ~snap.error /\ seen = snap.value /\ (snap.value = "some" => snap.age <= StaleAfter)
  BY <1>1, TeamsShow, ViewAssumption DEF IsStale, FarGone
<1> HIDE DEF seen
<1>4. seen = "some" => gone <= Limit
  BY <1>1, <1>2, <1>3, ViewAssumption DEF TeamsInv, FarGone
<1>5. seen = "none" => last = "none"
  BY <1>3 DEF TeamsInv
<1> QED BY <1>1, <1>2, <1>4, <1>5, ViewAssumption DEF Misleads, seen, FarGone

(* Nor does one of what was harmless when it was read. *)
LEMMA HarmlessReading ==
  ASSUME ViewInv, sec = "teams", Harmless, NEW p, NEW e \in BOOLEAN, NEW a
  PROVE  ~Misleads(Shows(p, snap.value, e, a))
<1>1. gone \in 0 .. FarGone /\ Limit \in Nat
  BY ViewAssumption DEF ViewInv, TypeOK, Limit
<1> QED BY <1>1, TeamsShow, ViewAssumption DEF Misleads, Harmless, FarGone

LEMMA WatchStart == Init => WatchInv
<1> SUFFICES ASSUME Init PROVE WatchInv
  OBVIOUS
<1>1. snap.error /\ eye.step = "value" /\ pen = "up" /\ looked = "no" /\ ~Held
  BY DEF Init, NotYetPolled, NothingRead, Held
<1>2. \A p \in Panels : misread[p] = 0
  BY DEF Init
<1> QED BY <1>1, <1>2 DEF WatchInv, TeamsInv, ReadingInv, LookedInv, MisreadInv, Agrees

(* Sections that are replaced whole. *)
LEMMA OthersWatched ==
  ASSUME ViewInv, WatchInv, Next, sec # "teams"
  PROVE  WatchInv'
<1>1. sec' = sec
  BY DEF Next, Check, Look, StoreWake, FailWake, StoreSpeech, FailSpeech, StoreEngine, FailEngine,
         StoreRuntime, FailMemory, FailModels, StoreSpend, FailSpend, StoreTeams, StampTeams,
         ClearTeams, Announced, FailTeams, MarkTeams, Found, Ends, ReadValue, ReadError, ReadAge,
         StartBurst, EndBurst, Change, Tick
<1>2. misread' = misread \/ ReadAge
  BY DEF Next, Check, Look, StoreWake, FailWake, StoreSpeech, FailSpeech, StoreEngine, FailEngine,
         StoreRuntime, FailMemory, FailModels, StoreSpend, FailSpend, StoreTeams, StampTeams,
         ClearTeams, Announced, FailTeams, MarkTeams, Found, Ends, ReadValue, ReadError,
         StartBurst, EndBurst, Change, Tick, screen
<1>3. ASSUME ReadAge, sec # "spend" PROVE \A p \in Panels : misread'[p] = 0
  <2>1. /\ eye.panel \in Panels /\ misread \in [Panels -> 0 .. 2] /\ \A p \in Panels : misread[p] = 0
        /\ gone \in 0 .. FarGone /\ Limit \in Nat
    BY <1>3, ViewAssumption DEF WatchInv, ReadingInv, ViewInv, TypeOK, Limit
  <2>2. ~Misleads(Shown(eye.panel))
    BY <1>3, <2>1, Truth, ViewAssumption DEF ShownIsTrue, Misleads, FarGone, CostInv
  <2>3. misread' = [misread EXCEPT ![eye.panel] = 0]
    BY <1>3, <2>2 DEF ReadAge, Shown
  <2> QED BY <2>1, <2>3
<1> QED BY <1>1, <1>2, <1>3 DEF WatchInv, TeamsInv, ReadingInv

(* The teams thread. *)
LEMMA WritesWatched ==
  ASSUME ViewInv, WatchInv, sec = "teams", Check
  PROVE  WatchInv'
<1>1. /\ sec' = sec /\ gone' = gone /\ eye' = eye /\ misread' = misread
      /\ misread \in [Panels -> 0 .. 2]
  BY DEF Check, Look, StoreWake, FailWake, StoreSpeech, FailSpeech, StoreEngine, FailEngine,
         StoreRuntime, FailMemory, FailModels, StoreSpend, FailSpend, StoreTeams, StampTeams,
         ClearTeams, Announced, FailTeams, MarkTeams, Found, Ends, screen, ViewInv, TypeOK
<1>2. /\ snap \in [value : Values, age : 0 .. FarGone, error : BOOLEAN]
      /\ gone \in 0 .. FarGone /\ FarGone \in Nat /\ MaxCheck \in 0 .. FarGone
      /\ Held => hand \in [found : Values, age : 0 .. FarGone]
      /\ Limit = StaleAfter + MaxCheck /\ Limit' = Limit /\ sec \notin Early
      /\ \A h \in [found : Values, age : 0 .. FarGone] : h \notin {Due, Resting}
      /\ Due # Resting
  BY <1>1, InHand DEF ViewInv, TypeOK, Limit, Early, Due, Resting
<1>3. CASE Look
  <2>1. /\ hand = Due /\ pen = "up" /\ Held' /\ hand' # Resting
        /\ pen' = pen /\ snap' = snap /\ last' = last /\ looked' = looked
    <3>1. PICK v \in Finds : hand' = [found |-> v, age |-> 0]
      BY <1>3 DEF Look
    <3> QED BY <1>3, <3>1 DEF Look, Held, Due, Resting, screen
  <2>2. ~JustWritten /\ ~JustWritten' /\ Unlocked /\ Unlocked'
    BY <1>2, <2>1 DEF JustWritten, Unlocked
  <2>3. Agrees' = Agrees
    BY <1>1, <2>1 DEF Agrees
  <2>4. \A p \in Panels : misread[p] = 0
    BY <2>2 DEF WatchInv, ReadingInv, MisreadInv
  <2>5. TeamsInv'
    BY <1>1, <2>1 DEF WatchInv, TeamsInv, Unlocked
  <2>6. LookedInv'
    BY <1>1, <2>1, <2>2, <2>3, <2>4 DEF WatchInv, ReadingInv, LookedInv
  <2>7. MisreadInv'
    BY <1>1, <2>4 DEF MisreadInv
  <2> QED BY <1>1, <2>5, <2>6, <2>7 DEF WatchInv, ReadingInv
<1>4. CASE StoreTeams
  <2>1. /\ pen = "up" /\ Held /\ pen' = "stored" /\ hand' = hand /\ looked' = looked
        /\ snap' = [snap EXCEPT !.value = hand.found] /\ last' = hand.found /\ hand # Resting
    BY <1>4 DEF StoreTeams, screen, Held
  <2>2. ~JustWritten /\ Unlocked /\ ~Unlocked'
    BY <2>1 DEF JustWritten, Unlocked
  <2>3. \A p \in Panels : misread[p] = 0
    BY <2>2 DEF WatchInv, ReadingInv, MisreadInv
  <2>4. TeamsInv'
    BY <1>1, <1>2, <2>1, <2>2 DEF TeamsInv, Held
  <2>5. LookedInv' /\ MisreadInv'
    BY <1>1, <2>1, <2>2, <2>3 DEF WatchInv, ReadingInv, LookedInv, MisreadInv
  <2> QED BY <1>1, <2>4, <2>5 DEF WatchInv, ReadingInv
<1>5. CASE StampTeams
  <2>1. /\ pen = "stored" /\ pen' = "stamped" /\ hand' = hand /\ looked' = looked
        /\ snap' = [snap EXCEPT !.age = 0] /\ last' = last
    BY <1>5 DEF StampTeams, screen
  <2>2. ~Unlocked'
    BY <2>1 DEF Unlocked
  <2>3. TeamsInv'
    BY <1>1, <1>2, <2>1, <2>2 DEF WatchInv, TeamsInv, Held
  <2>4. LookedInv' /\ MisreadInv'
    BY <1>1, <1>2, <2>1, <2>2 DEF WatchInv, ReadingInv, LookedInv, MisreadInv, Again
  <2> QED BY <1>1, <2>3, <2>4 DEF WatchInv, ReadingInv
<1>6. CASE ClearTeams
  <2>1. /\ pen = "stamped" /\ pen' = "telling" /\ hand' = Resting /\ looked' = "no"
        /\ snap' = [snap EXCEPT !.error = FALSE] /\ last' = last
    BY <1>6 DEF ClearTeams
  <2>2. /\ Held /\ snap.value = hand.found /\ last = hand.found /\ snap.age = 0
    BY <2>1 DEF WatchInv, TeamsInv
  <2>3. snap'.value = snap.value /\ snap'.age = 0 /\ ~snap'.error /\ ~Held' /\ hand' = Resting
    BY <1>2, <2>1, <2>2 DEF Held
  <2>4. TeamsInv'
    BY <1>1, <1>2, <2>1, <2>2, <2>3 DEF ViewInv, FoundInv, TeamsInv
  <2>5. JustWritten'
    BY <2>1, <2>3 DEF JustWritten
  <2>6. LookedInv' /\ MisreadInv'
    BY <1>1, <2>1, <2>5 DEF WatchInv, ReadingInv, LookedInv, MisreadInv, Again
  <2> QED BY <1>1, <2>4, <2>6 DEF WatchInv, ReadingInv
<1>7. CASE Announced
  <2>1. /\ pen = "telling" /\ pen' = "up" /\ hand' = hand /\ looked' = looked /\ snap' = snap
        /\ last' = last
    BY <1>7 DEF Announced, screen
  <2>2. Unlocked /\ Unlocked' /\ (JustWritten => JustWritten')
    BY <2>1 DEF Unlocked, JustWritten
  <2>3. Agrees' = Agrees /\ Harmless' = Harmless /\ \A p : Again(p)' = Again(p)
    BY <1>1, <1>2, <2>1 DEF Agrees, Harmless, Again
  <2>4. TeamsInv'
    BY <1>1, <2>1, <2>2 DEF WatchInv, TeamsInv
  <2>5. LookedInv'
    BY <1>1, <2>1, <2>2, <2>3 DEF WatchInv, ReadingInv, LookedInv
  <2>6. MisreadInv'
    BY <1>1, <2>1, <2>2, <2>3 DEF WatchInv, ReadingInv, MisreadInv
  <2> QED BY <1>1, <2>4, <2>5, <2>6 DEF WatchInv, ReadingInv
<1>8. CASE FailTeams
  <2>1. /\ pen = "telling" \/ (pen = "up" /\ hand # Resting)
        /\ pen' = "failed" /\ hand' = hand /\ looked' = looked
        /\ snap' = [snap EXCEPT !.age = 0] /\ last' = last
    BY <1>8 DEF FailTeams, screen
  <2>2. Unlocked /\ ~Unlocked' /\ snap'.value = snap.value
    BY <1>2, <2>1 DEF Unlocked
  <2>3. Harmless' = Harmless /\ \A p : Again(p)' = Again(p)
    BY <1>1, <1>2, <2>1, <2>2 DEF Harmless, Again
  <2>4. TeamsInv'
    BY <1>1, <2>1, <2>2 DEF TeamsInv
  <2>5. LookedInv'
    BY <1>1, <2>1, <2>2 DEF WatchInv, ReadingInv, LookedInv
  <2>6. MisreadInv'
    BY <1>1, <2>1, <2>2, <2>3 DEF WatchInv, ReadingInv, MisreadInv, JustWritten
  <2> QED BY <1>1, <2>4, <2>5, <2>6 DEF WatchInv, ReadingInv
<1>9. CASE MarkTeams
  <2>1. /\ pen = "failed" /\ pen' = "up" /\ hand' = Resting /\ looked' = "no"
        /\ snap' = [snap EXCEPT !.error = TRUE] /\ last' = last
    BY <1>9 DEF MarkTeams
  <2>2. ~Unlocked /\ Unlocked' /\ JustWritten' /\ snap'.value = snap.value /\ snap'.error
    BY <1>2, <2>1 DEF Unlocked, JustWritten
  <2>3. Harmless' = Harmless /\ \A p : Again(p)' = Again(p)
    BY <1>1, <1>2, <2>1, <2>2 DEF Harmless, Again
  <2>4. TeamsInv'
    BY <1>1, <2>1, <2>2 DEF TeamsInv
  <2>5. LookedInv'
    BY <1>1, <2>1, <2>2 DEF LookedInv
  <2>6. MisreadInv'
    BY <1>1, <2>1, <2>2, <2>3 DEF WatchInv, ReadingInv, MisreadInv
  <2> QED BY <1>1, <2>4, <2>5, <2>6 DEF WatchInv, ReadingInv
<1>10. Look \/ StoreTeams \/ StampTeams \/ ClearTeams \/ Announced \/ FailTeams \/ MarkTeams
  BY DEF Check, StoreWake, FailWake, StoreSpeech, FailSpeech, StoreEngine, FailEngine,
         StoreRuntime, FailMemory, FailModels, StoreSpend, FailSpend
<1> QED BY <1>3, <1>4, <1>5, <1>6, <1>7, <1>8, <1>9, <1>10

(* The panels. *)
LEMMA ReadsWatched ==
  ASSUME ViewInv, WatchInv, sec = "teams", ReadValue \/ ReadError \/ ReadAge
  PROVE  WatchInv'
<1>1. UNCHANGED <<sec, world, gone, hand, snap, last, pen>>
  BY DEF ReadValue, ReadError, ReadAge, thread
<1>2. /\ Unlocked' = Unlocked /\ JustWritten' = JustWritten /\ Harmless' = Harmless
      /\ TeamsInv'
  BY <1>1 DEF Unlocked, JustWritten, Harmless, Limit, WatchInv, TeamsInv, Held
<1>3. /\ eye \in [panel : Panels, step : {"value", "error", "age"}, value : Values, error : BOOLEAN]
      /\ misread \in [Panels -> 0 .. 2] /\ snap.error \in BOOLEAN
  BY DEF ViewInv, TypeOK
<1>4. LookedInv /\ MisreadInv
  BY DEF WatchInv, ReadingInv
(* Where a reading begins, what it takes is right, or has just been written. *)
<1>5. ASSUME Unlocked, JustWritten PROVE Harmless \/ pen = "up"
  <2>1. CASE pen = "telling"
    <3>1. snap.value = "some" => gone <= MaxCheck
      BY <1>5, <2>1, ViewAssumption DEF JustWritten, WatchInv, TeamsInv, ViewInv, TypeOK, FarGone
    <3>2. snap.value = "none" => last = "none"
      BY <1>5, <2>1 DEF JustWritten, WatchInv, TeamsInv
    <3>3. gone \in 0 .. FarGone /\ Limit = StaleAfter + MaxCheck
      BY DEF ViewInv, TypeOK, Limit, Early
    <3> QED BY <3>1, <3>2, <3>3, ViewAssumption DEF Harmless, FarGone
  <2> QED BY <1>5, <2>1 DEF Unlocked
<1>6. CASE ReadValue
  <2>1. /\ eye.step = "value" /\ eye.panel = "rail" => Unlocked
        /\ eye' = [eye EXCEPT !.step = "error", !.value = snap.value]
        /\ looked' = (IF eye.panel = "rail" /\ looked = "no" THEN "begun" ELSE looked)
        /\ misread' = misread
    BY <1>6 DEF ReadValue
  <2>2. eye'.step = "error" /\ eye'.value = snap'.value /\ eye'.panel = eye.panel /\ Agrees'
    BY <1>1, <1>3, <2>1 DEF Agrees
  <2>3. LookedInv'
    BY <1>1, <1>2, <1>4, <2>1, <2>2 DEF LookedInv
  <2>4. ASSUME NEW p \in Panels, misread'[p] # 0
        PROVE  /\ misread'[p] = 1
               /\ Unlocked' => JustWritten'
               /\ Again(p)' => /\ hand' = Resting /\ pen' \in {"up", "telling", "failed"}
                               /\ eye'.value = snap'.value
                               /\ Harmless' \/ (pen' = "up" /\ Agrees')
    <3>1. misread[p] = 1 /\ (Unlocked => JustWritten)
      BY <1>4, <2>1, <2>4 DEF MisreadInv
    <3>2. CASE eye.panel = "rail"
      <4>1. Unlocked /\ JustWritten
        BY <1>6, <3>1, <3>2 DEF ReadValue
      <4> QED BY <1>1, <1>2, <1>5, <2>1, <2>2, <3>1, <4>1 DEF JustWritten
    <3>3. CASE eye.panel = "console" /\ p = "console"
      <4>1. hand = Resting /\ pen \in {"up", "telling", "failed"} /\ (Harmless \/ pen = "up")
        BY <1>4, <2>1, <2>4, <3>3 DEF MisreadInv, Again
      <4> QED BY <1>1, <1>2, <2>1, <2>2, <3>1, <4>1
    <3>4. CASE eye.panel = "console" /\ p = "rail"
      <4>1. ~Again(p)'
        BY <2>2, <3>4 DEF Again
      <4> QED BY <1>1, <1>2, <2>1, <3>1, <4>1
    <3> QED BY <1>3, <3>2, <3>3, <3>4 DEF Panels
  <2>5. MisreadInv'
    BY <2>4 DEF MisreadInv
  <2> QED BY <1>1, <1>2, <2>3, <2>5 DEF WatchInv, ReadingInv
<1>7. CASE ReadError
  <2>1. /\ eye.step = "error" /\ eye' = [eye EXCEPT !.step = "age", !.error = snap.error]
        /\ looked' = looked /\ misread' = misread
    BY <1>7 DEF ReadError
  <2>2. /\ eye'.step = "age" /\ eye'.value = eye.value /\ eye'.panel = eye.panel
        /\ eye'.error = snap'.error
        /\ \A p : Again(p)' = Again(p)
        /\ Agrees => Agrees'
    BY <1>1, <1>3, <2>1 DEF Agrees, Again
  <2>3. LookedInv'
    BY <1>1, <1>2, <1>4, <2>1, <2>2 DEF LookedInv
  <2>4. MisreadInv'
    BY <1>1, <1>2, <1>4, <2>1, <2>2 DEF MisreadInv
  <2> QED BY <1>1, <1>2, <2>3, <2>4 DEF WatchInv, ReadingInv
<1>8. CASE ReadAge
  <2> DEFINE p == eye.panel
             seen == Shows(p, eye.value, eye.error, snap.age)
             q == IF p = "rail" THEN "console" ELSE "rail"
  <2>1. /\ eye.step = "age" /\ eye' = NothingRead(q)
        /\ misread' = [misread EXCEPT ![p] = IF Misleads(seen) THEN Older(@, 2) ELSE 0]
        /\ looked' = (IF p = "console" /\ looked = "begun" THEN "done" ELSE looked)
    BY <1>8 DEF ReadAge
  <2>2. eye'.step = "value" /\ eye'.panel = q /\ Agrees' /\ p \in Panels
    BY <1>3, <2>1 DEF NothingRead, Agrees
  <2>3. Unlocked /\ Agrees => ~Misleads(seen)
    BY <2>1, WholeReading DEF Agrees, WatchInv
  <2>4. Harmless /\ eye.value = snap.value => ~Misleads(seen)
    BY <1>3, HarmlessReading
  <2>5. Misleads(seen) => misread[p] = 0 /\ (Unlocked => JustWritten /\ looked = "no")
    <3> SUFFICES ASSUME Misleads(seen) PROVE misread[p] = 0 /\ (Unlocked => JustWritten /\ looked = "no")
      OBVIOUS
    <3>1. Unlocked => JustWritten /\ looked = "no"
      BY <1>4, <2>3 DEF LookedInv
    <3>2. ASSUME misread[p] # 0 PROVE FALSE
      <4>1. Again(p)
        BY <2>1, <2>2 DEF Again, Panels
      <4>2. eye.value = snap.value /\ (Harmless \/ (pen = "up" /\ Agrees))
        BY <1>4, <2>1, <2>2, <3>2, <4>1 DEF MisreadInv
      <4> QED BY <2>3, <2>4, <4>2 DEF Unlocked
    <3> QED BY <3>1, <3>2
  <2> HIDE DEF seen
  <2>6. /\ \A r \in Panels : r # p => misread'[r] = misread[r]
        /\ misread'[p] = IF Misleads(seen) THEN 1 ELSE 0
    BY <1>3, <2>1, <2>2, <2>5 DEF Older
  <2>7. LookedInv'
    <3>1. Unlocked /\ looked = "begun" /\ p = "console" => misread["rail"] = 0
      BY <1>4 DEF LookedInv
    <3>2. Unlocked /\ looked # "no" => misread'[p] = 0
      BY <2>5, <2>6
    <3>3. Unlocked' /\ looked' = "begun" /\ eye'.panel = "console" => misread'["rail"] = 0
      BY <1>2, <2>1, <2>2, <3>2 DEF Panels
    <3>4. Unlocked' /\ looked' = "done" => \A r \in Panels : misread'[r] = 0
      BY <1>2, <1>4, <2>1, <2>2, <2>6, <3>1, <3>2 DEF LookedInv, Panels
    <3>5. looked' = "begun" => eye'.panel = "console"
      BY <2>1, <2>2 DEF Panels
    <3> QED BY <2>2, <3>3, <3>4, <3>5 DEF LookedInv
  <2>8. MisreadInv'
    <3> SUFFICES ASSUME NEW r \in Panels, misread'[r] # 0
                 PROVE  /\ misread'[r] = 1
                        /\ Unlocked' => JustWritten'
                        /\ Again(r)' => /\ hand' = Resting /\ pen' \in {"up", "telling", "failed"}
                                        /\ eye'.step # "value" => eye'.value = snap'.value
                                        /\ Harmless' \/ (pen' = "up" /\ Agrees')
      BY DEF MisreadInv
    <3>1. CASE r = p
      <4>1. ~Again(r)'
        BY <2>2, <3>1 DEF Again, Panels
      <4> QED BY <1>2, <2>5, <2>6, <3>1, <4>1
    <3>2. CASE r # p
      <4>1. Again(r)' => Again(r)
        BY <2>1, <2>2, <3>2 DEF Again, Panels
      <4> QED BY <1>1, <1>2, <1>4, <2>2, <2>6, <3>2, <4>1 DEF MisreadInv
    <3> QED BY <3>1, <3>2
  <2> QED BY <1>1, <1>2, <2>7, <2>8 DEF WatchInv, ReadingInv
<1> QED BY <1>6, <1>7, <1>8

LEMMA TimersWatched ==
  ASSUME WatchInv, StartBurst \/ EndBurst \/ UNCHANGED vars
  PROVE  WatchInv'
BY DEF StartBurst, EndBurst, vars, thread, screen, WatchInv, TeamsInv, ReadingInv, LookedInv,
       MisreadInv, Unlocked, JustWritten, Held, Agrees, Again, Harmless, Limit

LEMMA ChangeWatched ==
  ASSUME ViewInv, WatchInv, Change, sec = "teams"
  PROVE  WatchInv'
<1>1. /\ UNCHANGED <<sec, hand, snap, last, pen, eye, looked, misread>> /\ gone' = 0
      /\ gone \in 0 .. FarGone /\ FarGone \in Nat /\ snap.age \in 0 .. FarGone /\ Limit \in Nat
  BY ViewAssumption DEF Change, thread, screen, ViewInv, TypeOK, FarGone, Limit
<1>2. /\ Limit' = Limit /\ Unlocked' = Unlocked /\ JustWritten' = JustWritten /\ Agrees' = Agrees
      /\ Held' = Held /\ \A p : Again(p)' = Again(p)
  BY <1>1 DEF Limit, Unlocked, JustWritten, Agrees, Held, Again
<1>3. Harmless => Harmless'
  BY <1>1, <1>2 DEF Harmless
<1>4. TeamsInv'
  BY <1>1, <1>2, ViewAssumption DEF WatchInv, TeamsInv
<1>5. LookedInv' /\ MisreadInv'
  BY <1>1, <1>2, <1>3 DEF WatchInv, ReadingInv, LookedInv, MisreadInv
<1> QED BY <1>1, <1>4, <1>5 DEF WatchInv, ReadingInv

LEMMA TickWatched ==
  ASSUME ViewInv, WatchInv, Tick, sec = "teams"
  PROVE  WatchInv'
<1>1. /\ UNCHANGED <<sec, world, last, pen, eye, misread>> /\ looked' = "no" /\ looked = "done"
      /\ eye = NothingRead("rail") /\ Unlocked
      /\ gone' = IF world = "some" THEN 0 ELSE Older(gone, FarGone)
      /\ hand' = IF Held THEN [hand EXCEPT !.age = Older(@, FarGone)] ELSE Due
      /\ snap' = [snap EXCEPT !.age = Older(@, FarGone)]
  BY DEF Tick
<1>2. /\ gone \in 0 .. FarGone /\ FarGone \in Nat \ {0} /\ MaxCheck \in 0 .. FarGone
      /\ snap \in [value : Values, age : 0 .. FarGone, error : BOOLEAN]
      /\ Held => hand \in [found : Values, age : 0 .. FarGone]
      /\ \A h \in [found : Values, age : 0 .. FarGone] : h \notin {Due, Resting}
      /\ Due # Resting
  BY InHand, ViewAssumption DEF ViewInv, TypeOK, FarGone, Due, Resting
<1>3. /\ gone' \in 0 .. FarGone /\ gone' <= gone + 1
      /\ snap'.age \in 0 .. FarGone /\ snap'.age # 0
      /\ snap'.age = FarGone \/ snap'.age = snap.age + 1
      /\ snap'.value = snap.value /\ snap'.error = snap.error
  BY <1>1, <1>2 DEF Older
<1>4. Unlocked' /\ pen \notin {"stored", "stamped"} /\ Agrees'
  BY <1>1 DEF Unlocked, Agrees, NothingRead
<1>5. ~Held => ~Held'
  BY <1>1 DEF Held
<1>6. TeamsInv'
  BY <1>1, <1>2, <1>3, <1>4, <1>5 DEF WatchInv, TeamsInv
<1>7. \A p \in Panels : misread[p] = 0
  BY <1>1 DEF WatchInv, ReadingInv, LookedInv
<1>8. LookedInv' /\ MisreadInv'
  BY <1>1, <1>4, <1>7 DEF LookedInv, MisreadInv
<1> QED BY <1>1, <1>6, <1>8 DEF WatchInv, ReadingInv

LEMMA WatchStep ==
  ViewInv /\ WatchInv /\ [Next]_vars => WatchInv'
<1> SUFFICES ASSUME ViewInv, WatchInv, [Next]_vars PROVE WatchInv'
  OBVIOUS
<1>1. CASE sec = "teams" /\ Next
  BY <1>1, WritesWatched, ReadsWatched, TimersWatched, ChangeWatched, TickWatched DEF Next
<1> QED BY <1>1, OthersWatched, TimersWatched

(* No panel misreads the teams twice in a row, and no other section at all: *)
(* a reading that mixes two of poller.py's stores is followed by one that    *)
(* no store can overtake.                                                   *)
THEOREM TornOnce == Spec => []MisreadOnce
<1>1. ViewInv /\ WatchInv => MisreadOnce
  BY DEF WatchInv, ReadingInv, MisreadInv, MisreadOnce
<1> QED BY <1>1, ViewStart, WatchStart, ViewStep, WatchStep, PTL DEF Spec

-----------------------------------------------------------------------------
(* Starting and stopping the listener *)

(* WakeTypeOK, with the counters it leaves out. *)
WakeTypes == /\ WakeTypeOK
         /\ pressed <= presses /\ presses \in 0..MaxPresses
         /\ running \in BOOLEAN /\ unpolled \in BOOLEAN /\ unshown \in BOOLEAN

(* The one handle holds the one listener of this console that can be alive. *)
Born == {p \in Pids : proc[p] # "unborn"}
HandleInv == mine \subseteq Born /\ mine \cap Live \subseteq {handle}

(* What was polled, copied and shown as "none" was so, unless a listener   *)
(* has been started since, and that is remembered.                         *)
PollInv  == ~polled.running /\ Live # {} => unpolled
CacheInv == ~running /\ Live # {} => unshown
ShownInv == shown = "stopped" /\ Live # {} => unshown

IInv == HandleInv /\ PollInv /\ CacheInv /\ ShownInv

-----------------------------------------------------------------------------
(* Signals leave the dying among the living, exits only take from them. *)

LEMMA SendKeepsLive ==
  ASSUME WakeTypeOK, NEW p \in Pids, NEW signal, Send(p, signal)
  PROVE  /\ Live' = Live /\ Born' = Born
         /\ proc' \in [Pids -> Natures \cup {"unborn", "dying", "gone"}]
BY DEF WakeTypeOK, Send, Obeyed, Live, Born, Natures

LEMMA StopKeepsLive ==
  ASSUME WakeTypes, NEW w \in Waiters, Stop(w)
  PROVE  /\ Live' = Live /\ Born' = Born
         /\ proc' \in [Pids -> Natures \cup {"unborn", "dying", "gone"}]
         /\ stop' \in [Waiters -> {"no", "term", "kill"}]
         /\ aimed' \in [Waiters -> Pids \cup {NoPid}]
         /\ handle' \in {handle, NoPid} /\ (handle' # handle => handle \notin Live)
         /\ handle' \in Pids \cup {NoPid}
<1>1. CASE Dead(handle)
  BY <1>1 DEF WakeTypes, WakeTypeOK, Stop, Dead, Live, Born
<1>2. CASE ~Dead(handle)
  <2>1. handle \in Pids /\ Send(handle, "term")
    BY <1>2 DEF Stop, Dead, Live
  <2>2. Live' = Live /\ Born' = Born /\ proc' \in [Pids -> Natures \cup {"unborn", "dying", "gone"}]
    BY <2>1, SendKeepsLive DEF WakeTypes
  <2> QED BY <1>2, <2>1, <2>2 DEF Stop, WakeTypes, WakeTypeOK
<1> QED BY <1>1, <1>2

LEMMA SpawnedAdds ==
  ASSUME WakeTypeOK, NEW p \in Pids, Spawned(p)
  PROVE  /\ Live' = Live \cup {p} /\ Born' = Born \cup {p} /\ p \notin Born
         /\ proc' \in [Pids -> Natures \cup {"unborn", "dying", "gone"}]
         /\ unpolled' = TRUE /\ unshown' = TRUE
BY DEF WakeTypeOK, Spawned, Live, Born, Natures

LEMMA ExitTakes ==
  ASSUME WakeTypeOK, NEW p \in Pids, Exits(p)
  PROVE  /\ Live' \subseteq Live /\ Born' = Born
         /\ proc' \in [Pids -> Natures \cup {"unborn", "dying", "gone"}]
BY DEF WakeTypeOK, Exits, Live, Born

-----------------------------------------------------------------------------

LEMMA WakeTypesStart == WakeInit => WakeTypes
<1>1. WakeInit => WakeTypeOK
  BY WakeAssumption DEF WakeInit, WakeTypeOK, Natures, Waiters
<1>2. WakeInit => pressed <= presses /\ presses \in 0..MaxPresses
  BY WakeAssumption DEF WakeInit
<1>3. WakeInit => running \in BOOLEAN /\ unpolled \in BOOLEAN /\ unshown \in BOOLEAN
  BY Zenon DEF WakeInit
<1> QED BY <1>1, <1>2, <1>3 DEF WakeTypes

LEMMA WakeTypesKept ==
  ASSUME WakeTypes, [WakeNext]_wakeVars
  PROVE  WakeTypes'
<1> USE WakeAssumption DEF WakeTypes, WakeTypeOK, button, view, Rests
<1>1. ASSUME NEW p \in Pids, StartsElsewhere(p) PROVE WakeTypes'
  BY <1>1, SpawnedAdds DEF StartsElsewhere
<1>2. ASSUME NEW p \in Pids, Exits(p) PROVE WakeTypes'
  BY <1>2, ExitTakes DEF Exits
<1>3. ASSUME NEW w \in Waiters, Waits(w) PROVE WakeTypes'
  <2>1. CASE LosesHandle(w)
    BY <2>1 DEF LosesHandle
  <2>2. CASE SeesExit(w)
    BY <2>2 DEF SeesExit
  <2>3. CASE Escalates(w)
    <3>1. handle \in Pids /\ Send(handle, "kill")
      BY <2>3 DEF Escalates
    <3> QED BY <2>3, <3>1, SendKeepsLive DEF Escalates
  <2>4. CASE GivesUp(w)
    BY <2>4 DEF GivesUp
  <2> QED BY <1>3, <2>1, <2>2, <2>3, <2>4 DEF Waits
<1>4. CASE Poll
  BY <1>4 DEF Poll
<1>5. CASE PollFails
  BY <1>5 DEF PollFails
<1>6. CASE Refresh
  BY <1>6 DEF Refresh
<1>7. CASE Press
  BY <1>7 DEF Press
<1>8. ASSUME NEW p \in Pids, Start(p) PROVE WakeTypes'
  <2>1. pressed' \in 0..MaxPresses /\ pressed' <= presses'
    BY <1>8 DEF Start, Turn
  <2>2. /\ proc' \in [Pids -> Natures \cup {"unborn", "dying", "gone"}]
        /\ unpolled' = TRUE /\ unshown' = TRUE
    BY <1>8, SpawnedAdds DEF Start
  <2> QED BY <1>8, <2>1, <2>2 DEF Start
<1>9. CASE StartRefused
  BY <1>9 DEF StartRefused, Turn
<1>10. CASE StopPressed
  BY <1>10, StopKeepsLive DEF StopPressed, Turn, Waiters
<1>11. CASE Panic
  BY <1>11, StopKeepsLive DEF Panic, Waiters
<1>12. CASE Quit \/ QuitAnyway \/ Cancel
  BY <1>12 DEF Quit, QuitAnyway, Cancel
<1>13. CASE UNCHANGED wakeVars
  BY <1>13 DEF wakeVars
<1> QED BY <1>1, <1>2, <1>3, <1>4, <1>5, <1>6, <1>7, <1>8, <1>9, <1>10, <1>11, <1>12, <1>13
        DEF WakeNext, Pressing

(* Every variable keeps its type, whatever processes, starts and presses    *)
(* there are.                                                               *)
THEOREM WakeTypeCorrect == WakeSpec => []WakeTypeOK
<1>1. WakeTypes => WakeTypeOK
  BY DEF WakeTypes
<1> QED BY <1>1, WakeTypesStart, WakeTypesKept, PTL DEF WakeSpec

-----------------------------------------------------------------------------

(* A step that neither starts nor ends a listener keeps the invariant if it *)
(* keeps the handle, the polled record, its copy and the status line.       *)
LEMMA ViewKept ==
  ASSUME IInv, Live' \subseteq Live, Born' = Born, UNCHANGED <<mine, handle, view>>
  PROVE  IInv'
BY DEF IInv, HandleInv, PollInv, CacheInv, ShownInv, view

(* Letting go of the handle of a process that is gone. *)
LEMMA HandleLetGo ==
  ASSUME IInv, Live' = Live, Born' = Born, handle' # handle => handle \notin Live,
         UNCHANGED <<mine, view>>
  PROVE  IInv'
BY DEF IInv, HandleInv, PollInv, CacheInv, ShownInv, view

LEMMA InvKept ==
  ASSUME WakeTypes, IInv, [WakeNext]_wakeVars
  PROVE  IInv'
<1> USE DEF Rests
<1>1. ASSUME NEW p \in Pids, StartsElsewhere(p) PROVE IInv'
  <2>1. /\ Live' = Live \cup {p} /\ Born' = Born \cup {p} /\ p \notin Born
        /\ unpolled' = TRUE /\ unshown' = TRUE
    BY <1>1, SpawnedAdds DEF StartsElsewhere, WakeTypes
  <2> QED BY <1>1, <2>1 DEF StartsElsewhere, IInv, HandleInv, PollInv, CacheInv, ShownInv
<1>2. ASSUME NEW p \in Pids, Exits(p) PROVE IInv'
  BY <1>2, ExitTakes, ViewKept DEF Exits, WakeTypes
<1>3. ASSUME NEW w \in Waiters, Waits(w) PROVE IInv'
  <2>1. CASE LosesHandle(w)
    BY <2>1, ViewKept DEF LosesHandle, Live, Born
  <2>2. CASE SeesExit(w)
    BY <2>2, HandleLetGo DEF SeesExit, Live, Born
  <2>3. CASE Escalates(w)
    <3>1. handle \in Pids /\ Send(handle, "kill")
      BY <2>3 DEF Escalates, WakeTypes, WakeTypeOK
    <3> QED BY <2>3, <3>1, SendKeepsLive, ViewKept DEF Escalates, WakeTypes
  <2>4. CASE GivesUp(w)
    BY <2>4, ViewKept DEF GivesUp, Live, Born
  <2> QED BY <1>3, <2>1, <2>2, <2>3, <2>4 DEF Waits
<1>4. CASE Poll
  BY <1>4 DEF Poll, IInv, HandleInv, PollInv, CacheInv, ShownInv, Live, Born
<1>5. CASE PollFails
  BY <1>5 DEF PollFails, IInv, HandleInv, PollInv, CacheInv, ShownInv, Live, Born, WakeTypes, WakeTypeOK
<1>6. CASE Refresh
  BY <1>6 DEF Refresh, IInv, HandleInv, PollInv, CacheInv, ShownInv, Live, Born
<1>7. CASE Press
  BY <1>7, ViewKept DEF Press, Live, Born
<1>8. ASSUME NEW p \in Pids, Start(p) PROVE IInv'
  <2>1. /\ Live' = Live \cup {p} /\ Born' = Born \cup {p} /\ p \notin Born
        /\ unpolled' = TRUE /\ unshown' = TRUE
    BY <1>8, SpawnedAdds DEF Start, WakeTypes
  <2>2. mine \cap Live = {}
    BY <1>8 DEF Start, Dead, IInv, HandleInv
  <2> QED BY <1>8, <2>1, <2>2 DEF Start, IInv, HandleInv, PollInv, CacheInv, ShownInv
<1>9. CASE StartRefused
  BY <1>9, ViewKept DEF StartRefused, Live, Born
<1>10. CASE StopPressed
  BY <1>10, StopKeepsLive, HandleLetGo DEF StopPressed, Waiters
<1>11. CASE Panic
  BY <1>11, StopKeepsLive, HandleLetGo DEF Panic, Waiters
<1>12. CASE Quit \/ QuitAnyway \/ Cancel
  BY <1>12, ViewKept DEF Quit, QuitAnyway, Cancel, Live, Born
<1>13. CASE UNCHANGED wakeVars
  BY <1>13, ViewKept DEF wakeVars, Live, Born
<1> QED BY <1>1, <1>2, <1>3, <1>4, <1>5, <1>6, <1>7, <1>8, <1>9, <1>10, <1>11, <1>12, <1>13
        DEF WakeNext, Pressing

(* Of the listeners this console has spawned at most the one it holds is    *)
(* alive, and whoever believes there is none has been right since the last  *)
(* start: in every reachable state.                                         *)
THEOREM WakeInvariance == WakeSpec => [](WakeTypes /\ IInv)
<1>1. WakeInit => IInv
  BY DEF WakeInit, IInv, HandleInv, PollInv, CacheInv, ShownInv, Live, Born
<1> QED BY <1>1, WakeTypesStart, WakeTypesKept, InvKept, PTL DEF WakeSpec

(* start: two listeners of one console are never alive at once, however     *)
(* often button and panic key are pressed and signals ignored.              *)
THEOREM OneListener == WakeSpec => []OneOfOurs
<1>1. WakeTypes /\ IInv => OneOfOurs
  <2> SUFFICES ASSUME IInv PROVE Cardinality(mine \cap Live) <= 1
    BY DEF OneOfOurs
  <2>1. mine \cap Live = {} \/ mine \cap Live = {handle}
    BY DEF IInv, HandleInv
  <2>2. Cardinality(mine \cap Live) \in {0, 1}
    BY <2>1, FS_EmptySet, FS_Singleton, Zenon
  <2> QED BY <2>2
<1> QED BY <1>1, WakeInvariance, PTL

(* WakePanel: "stopped" is not shown over an open microphone, but for the   *)
(* moment until a listener just started has been polled and rendered.       *)
THEOREM StoppedMeansStopped == WakeSpec => []StoppedIsTrue
<1>1. IInv => StoppedIsTrue
  BY DEF IInv, ShownInv, StoppedIsTrue
<1> QED BY <1>1, WakeInvariance, PTL

(* action_quit: no console closes over a live listener without a warning.   *)
THEOREM QuitNeverSilent == WakeSpec => QuitWarns
<1>1. IInv /\ [WakeNext]_wakeVars => [console = "open" /\ console' = "closed" => Live = {} \/ unshown]_wakeVars
  <2> SUFFICES ASSUME IInv, WakeNext, console = "open", console' = "closed"
               PROVE  Live = {} \/ unshown
    BY DEF IInv
  <2>1. Quit
    BY DEF WakeNext, StartsElsewhere, Exits, Waits, LosesHandle, SeesExit, Escalates, GivesUp, Rests,
           Poll, PollFails, Refresh, Press, Pressing, Start, StartRefused, StopPressed, Panic,
           QuitAnyway, Cancel
  <2> QED BY <2>1 DEF Quit, IInv, CacheInv
<1> QED BY <1>1, WakeInvariance, PTL DEF WakeSpec, QuitWarns

-----------------------------------------------------------------------------
(* The questions sessions stop at. *)

(* What is marked is a question. *)
BlockedTypes == BlockedTypeOK /\ (at = "mark" => cap # 0)

(* A trace of a question is of the one asked last, or that one was hurried. *)
Current(s, q) ==
  /\ q <= asks[s]
  /\ q # asks[s] => {<<s, q + 1>>, <<s, asks[s]>>} \subseteq hurried

(* A set of records with nothing but traces like that. *)
Latest(records) == \A s \in Sessions : records[s] # None => Current(s, records[s][1])

(* Whatever is on record or in hand anywhere is.                            *)
LatestInv ==
  /\ file # Torn => Latest(file)
  /\ \A w \in Writers : Busy(w) => Latest(job[w][2])
  /\ at # "idle" => Latest(listed)
  /\ at \in {"get", "mark"} /\ cap # 0 => Current(Member, cap)
  /\ tool # None => Current(tool[2], tool[3])

HitInv == BlockedTypes /\ LatestInv /\ AnswerHitsItsQuestion

(* A set of records in which none is surfaced that has not been announced. *)
Told(records) == \A s \in Sessions :
  records[s] # None /\ records[s][2] =>
    spoken[s][records[s][1]] > 0 \/ Tangled(s, records[s][1])

SurfacedInv ==
  /\ file # Torn => Told(file)
  /\ \A w \in Writers : Busy(w) => Told(job[w][2])
  /\ at = "surface" => \A s \in todo : listed[s] # None /\ spoken[s][listed[s][1]] > 0

-----------------------------------------------------------------------------
(* While no change is read under another's write. *)

(* One writer at a time, and the file is torn while it writes.              *)
SerialInv == ~overlapped =>
  /\ \A v, w \in Writers : Busy(v) /\ Busy(w) => v = w
  /\ file = Torn <=> \E w \in Writers : Busy(w) /\ job[w][1] = "truncated"
  /\ Busy("poller") => at \notin {"idle", "get", "mark", "clear"}

(* What will be on record of the session once the poller has written.       *)
Coming(s) ==
  {job[w][2][s] : w \in {v \in Writers : Busy(v)}}
    \cup (IF file # Torn /\ ~Busy("poller") THEN {file[s]} ELSE {})

Ticked(record) == record # None /\ record[2]
Clean(s)       == ~overlapped /\ <<s, asks[s]>> \notin hurried
AlreadyTold(s) == asks[s] # 0 /\ spoken[s][asks[s]] > 0   \* its last question was announced
AtMember(s, step) == at = step /\ Member = s

(* While its question is open, nobody takes its record away, and what has   *)
(* been announced is on record as surfaced, except between the two.         *)
Guarded(s) ==
  /\ alive[s] /\ asks[s] # 0
  /\ tool # None /\ tool[2] = s => tool[1] # "clear"
  /\ AtMember(s, "clear") \/ (AtMember(s, "get") /\ cap = 0) =>
       Coming(s) \subseteq {None} /\ ~AlreadyTold(s)
  /\ AlreadyTold(s) /\ ~(at = "surface" /\ s \in todo) => \A c \in Coming(s) : Ticked(c)
  /\ at \notin {"idle", "surface"} /\ listed[s] # None => None \notin Coming(s)
  /\ at = "surface" /\ s \in todo => None \notin Coming(s)
  /\ \A w \in Writers \ {"poller"} : Busy(w) /\ file # Torn => job[w][2][s] = file[s]

OpenInv(s) == open[s] /\ Clean(s) => Guarded(s)

(* What the poller has in hand of a question that has been announced is     *)
(* on record as surfaced, or so young that it is not announced.             *)
Young(s) ==
  /\ (AtMember(s, "get") /\ cap # 0) \/ AtMember(s, "mark") \/ (AtMember(s, "reget") /\ age[s] # 0) =>
       \A c \in Coming(s) : c # None => c[2]
  /\ at \notin {"idle", "surface"} /\ listed[s] # None /\ ~listed[s][2] => age[s] = 0

RoundInv(s) == Clean(s) /\ AlreadyTold(s) => Young(s)

(* What will be asked has not been announced, and nothing was twice. *)
CountInv(s) == \A q \in Questions :
  /\ overlapped \/ spoken[s][q] <= 1 \/ Tangled(s, q)
  /\ q > asks[s] => spoken[s][q] = 0

OnceInv == SerialInv /\ \A s \in Sessions : OpenInv(s) /\ RoundInv(s) /\ CountInv(s)
-----------------------------------------------------------------------------
LEMMA SessionFacts ==
  /\ Sessions # {} /\ DOMAIN Order = 1..Len(Order) /\ Len(Order) \in Nat \ {0}
  /\ \A i \in DOMAIN Order : Order[i] \in Sessions
  /\ Settle \in Nat /\ MaxAsks \in Nat /\ MaxDeaths \in Nat
<1>1. Order \in Seq(Sessions) /\ Order # <<>>
  BY BlockedAssumption
<1>2. DOMAIN Order = 1..Len(Order) /\ Len(Order) \in Nat \ {0}
  BY <1>1
<1>3. 1 \in DOMAIN Order
  BY <1>2
<1> QED BY <1>2, <1>3, BlockedAssumption DEF Sessions

LEMMA MemberIsOne ==
  ASSUME BlockedTypes
  PROVE  Member \in Sessions
BY SessionFacts DEF BlockedTypes, BlockedTypeOK, Member

(* No set of records is a file that is being written. *)
LEMMA NotTorn ==
  ASSUME NEW r \in Records
  PROVE  r # Torn
<1>1. DOMAIN r = Sessions
  BY DEF Records
<1>2. DOMAIN Torn = {}
  BY DEF Torn
<1> QED BY <1>1, <1>2, SessionFacts

LEMMA EmptyIsRecords == Empty \in Records
BY DEF Empty, Records

LEMMA ReadIsRecords ==
  ASSUME BlockedTypes
  PROVE  Read \in Records
BY EmptyIsRecords DEF BlockedTypes, BlockedTypeOK, Read

LEMMA RecordIsSome ==
  ASSUME NEW q \in Questions, NEW b \in BOOLEAN
  PROVE  /\ Record(q, b) # None /\ Record(q, b)[1] = q /\ Record(q, b)[2] = b
         /\ Record(q, b) \in Questions \X BOOLEAN
BY DEF Record, None

(* The three changes keep a set of records one.                             *)
LEMMA ChangedRecords ==
  ASSUME NEW r \in Records, NEW s \in Sessions, NEW q \in Questions
  PROVE  /\ [r EXCEPT ![s] = Record(q, FALSE)] \in Records
         /\ [r EXCEPT ![s] = None] \in Records
         /\ r[s] # None => [r EXCEPT ![s] = Record(r[s][1], TRUE)] \in Records
<1>1. Record(q, FALSE) \in Questions \X BOOLEAN
  BY RecordIsSome
<1>2. r[s] # None => Record(r[s][1], TRUE) \in Questions \X BOOLEAN
  BY RecordIsSome DEF Records
<1> QED BY <1>1, <1>2 DEF Records

(* A write under way by one writer, of these records. *)
LEMMA BeginTypes ==
  ASSUME BlockedTypes, NEW w \in Writers, NEW r \in Records, Begin(w, r)
  PROVE  /\ job' \in [Writers -> {None} \cup ({"changed", "truncated"} \X Records)]
         /\ job'[w] = <<"changed", r>> /\ job'[w] # None
         /\ \A v \in Writers \ {w} : job'[v] = job[v]
BY DEF BlockedTypes, BlockedTypeOK, Begin, None
LEMMA WriterTypes ==
  ASSUME BlockedTypes, NEW w \in Writers, NEW s \in Sessions, NEW q \in Questions,
         \/ MarkBlocked(w, s, q)
         \/ (MarkSurfaced(w, s) \/ ClearBlocked(w, s)) /\ UNCHANGED age
  PROVE  /\ job' \in [Writers -> {None} \cup ({"changed", "truncated"} \X Records)]
         /\ age' \in [Sessions -> 0..Settle] /\ overlapped' \in BOOLEAN
<1> DEFINE Goal == /\ job' \in [Writers -> {None} \cup ({"changed", "truncated"} \X Records)]
                   /\ age' \in [Sessions -> 0..Settle]
<1> USE ReadIsRecords, SessionFacts
<1>1. UNCHANGED <<job, age>> => Goal
  BY DEF BlockedTypes, BlockedTypeOK
<1>2. Begin(w, [Read EXCEPT ![s] = Record(q, FALSE)]) /\ age' = [age EXCEPT ![s] = 0] => Goal
  <2> SUFFICES ASSUME Begin(w, [Read EXCEPT ![s] = Record(q, FALSE)]), age' = [age EXCEPT ![s] = 0]
               PROVE  Goal
    OBVIOUS
  <2>1. job' \in [Writers -> {None} \cup ({"changed", "truncated"} \X Records)]
    BY BeginTypes, ChangedRecords
  <2> QED BY <2>1 DEF BlockedTypes, BlockedTypeOK
<1>3. Begin(w, [Read EXCEPT ![s] = None]) /\ UNCHANGED age => Goal
  BY BeginTypes, ChangedRecords DEF BlockedTypes, BlockedTypeOK
<1>4. /\ Read[s] # None /\ Begin(w, [Read EXCEPT ![s] = Record(Read[s][1], TRUE)])
      /\ UNCHANGED age
      => Goal
  BY BeginTypes, ChangedRecords DEF BlockedTypes, BlockedTypeOK
<1>5. overlapped' \in BOOLEAN
  BY DEF MarkBlocked, MarkSurfaced, ClearBlocked, Reads
<1> QED BY <1>1, <1>2, <1>3, <1>4, <1>5 DEF MarkBlocked, MarkSurfaced, ClearBlocked

LEMMA ClearTypes ==
  ASSUME BlockedTypes, NEW w \in Writers, NEW s \in Sessions, ClearBlocked(w, s)
  PROVE  /\ job' \in [Writers -> {None} \cup ({"changed", "truncated"} \X Records)]
         /\ overlapped' \in BOOLEAN
<1>1. Read[s] = None => job' \in [Writers -> {None} \cup ({"changed", "truncated"} \X Records)]
  BY DEF ClearBlocked, BlockedTypes, BlockedTypeOK
<1>2. Read[s] # None => job' \in [Writers -> {None} \cup ({"changed", "truncated"} \X Records)]
  <2>1. Read[s] # None => Begin(w, [Read EXCEPT ![s] = None])
    BY DEF ClearBlocked
  <2>2. [Read EXCEPT ![s] = None] \in Records
    BY ReadIsRecords DEF Records
  <2> QED BY <2>1, <2>2, BeginTypes
<1>3. overlapped' \in BOOLEAN
  BY DEF ClearBlocked, Reads
<1> QED BY <1>1, <1>2, <1>3

(* A step of the poller, whatever it does to the file. *)
LEMMA ThenNextTypes ==
  ASSUME BlockedTypes, ThenNext
  PROVE  cur' \in DOMAIN Order /\ at' \in {"look", "escalate"}
BY SessionFacts DEF BlockedTypes, BlockedTypeOK, ThenNext

LEMMA FileTypes ==
  ASSUME BlockedTypes, NEW w \in Writers, Truncate(w) \/ Write(w)
  PROVE  BlockedTypes'
<1>1. Busy(w) /\ job[w] \in {"changed", "truncated"} \X Records
  BY DEF BlockedTypes, BlockedTypeOK, Truncate, Write, Busy
<1>2. job[w][2] \in Records
  BY <1>1
<1>3. file' \in Records \cup {Torn}
  BY <1>2 DEF Truncate, Write
<1>4. job' \in [Writers -> {None} \cup ({"changed", "truncated"} \X Records)]
  <2>1. CASE Write(w)
    BY <2>1 DEF BlockedTypes, BlockedTypeOK, Write
  <2>2. CASE Truncate(w)
    <3>1. [job[w] EXCEPT ![1] = "truncated"] \in {"changed", "truncated"} \X Records
      BY <1>1
    <3> QED BY <2>2, <3>1 DEF BlockedTypes, BlockedTypeOK, Truncate
  <2> QED BY <2>1, <2>2
<1> QED BY <1>3, <1>4 DEF BlockedTypes, BlockedTypeOK, Truncate, Write, panes, history, poller
(* The member's record, put in the list. *)
LEMMA ListedRecords ==
  ASSUME BlockedTypes
  PROVE  [listed EXCEPT ![Member] = Read[Member]] \in Records
<1>1. listed \in Records /\ Read \in Records /\ Member \in Sessions
  BY ReadIsRecords, MemberIsOne DEF BlockedTypes, BlockedTypeOK
<1> QED BY <1>1 DEF Records

LEMMA PollTypes ==
  ASSUME BlockedTypes, PollStep
  PROVE  BlockedTypes'
<1> USE SessionFacts, MemberIsOne, ReadIsRecords, EmptyIsRecords DEF BlockedTypes, BlockedTypeOK
<1>1. CASE PollStart
  <2>1. age' \in [Sessions -> 0..Settle]
    <3>1. Settle \in Nat /\ \A s \in Sessions : age[s] \in 0..Settle
      OBVIOUS
    <3> HIDE DEF BlockedTypes, BlockedTypeOK
    <3>2. \A s \in Sessions : (IF age[s] < Settle THEN age[s] + 1 ELSE Settle) \in 0..Settle
      BY <3>1
    <3> QED BY <1>1, <3>2 DEF PollStart
  <2>2. listed' = Empty /\ at' = "look" /\ cur' = 1 /\ 1 \in DOMAIN Order
    BY <1>1 DEF PollStart
  <2> QED BY <1>1, <2>1, <2>2 DEF PollStart, panes, history
<1>2. CASE LookAtPane
  <2>1. cap' \in 0..MaxAsks
    <3>1. Captured(Member) \in 0..MaxAsks
      <4>1. asks[Member] \in 0..MaxAsks /\ MaxAsks \in Nat
        OBVIOUS
      <4> HIDE DEF BlockedTypes, BlockedTypeOK
      <4> QED BY <4>1 DEF Captured
    <3> QED BY <1>2, <3>1 DEF LookAtPane
  <2>2. cur' \in DOMAIN Order /\ at' \in {"look", "get", "escalate"}
    BY <1>2, ThenNextTypes DEF LookAtPane
  <2> QED BY <1>2, <2>1, <2>2 DEF LookAtPane, panes, history
<1>3. CASE Get
  <2>1. listed' \in Records
    <3>1. [listed EXCEPT ![Member] = Read[Member]] \in Records
      BY ListedRecords
    <3> QED BY <1>3, <3>1 DEF Get
  <2>2. /\ cur' \in DOMAIN Order /\ at' \in {"look", "mark", "clear", "escalate"}
        /\ at' = "mark" => cap' # 0
    BY <1>3, ThenNextTypes DEF Get
  <2> QED BY <1>3, <2>1, <2>2 DEF Get, panes, history
<1>4. CASE Mark
  <2>1. cap \in Questions
    BY <1>4 DEF Mark, PollerAt, Questions
  <2>2. /\ job' \in [Writers -> {None} \cup ({"changed", "truncated"} \X Records)]
        /\ age' \in [Sessions -> 0..Settle] /\ overlapped' \in BOOLEAN
    BY <1>4, <2>1, WriterTypes DEF Mark, Writers
  <2> QED BY <1>4, <2>2 DEF Mark, panes, history
<1>5. CASE Reget
  <2>1. listed' \in Records
    <3>1. [listed EXCEPT ![Member] = Read[Member]] \in Records
      BY ListedRecords
    <3> QED BY <1>5, <3>1 DEF Reget
  <2>2. cur' \in DOMAIN Order /\ at' \in {"idle", "look", "escalate"}
    BY <1>5, ThenNextTypes DEF Reget
  <2> QED BY <1>5, <2>1, <2>2 DEF Reget, panes, history
<1>6. CASE Clear
  <2>1. /\ job' \in [Writers -> {None} \cup ({"changed", "truncated"} \X Records)]
        /\ overlapped' \in BOOLEAN
    BY <1>6, ClearTypes DEF Clear, Writers
  <2>2. cur' \in DOMAIN Order /\ at' \in {"look", "escalate"}
    BY <1>6, ThenNextTypes DEF Clear
  <2> QED BY <1>6, <2>1, <2>2 DEF Clear, panes, history
<1>7. CASE HoldBack
  BY <1>7 DEF HoldBack, panes, history
<1>8. CASE Surface
  <2>1. /\ todo' \subseteq Sessions /\ at' \in {"idle", "surface"}
        /\ job' \in [Writers -> {None} \cup ({"changed", "truncated"} \X Records)]
        /\ overlapped' \in BOOLEAN
    <3>1. CASE todo = {}
      BY <1>8, <3>1 DEF Surface, PollerAt
    <3>2. CASE todo # {}
      <4>1. PICK s \in todo : todo' = todo \ {s} /\ MarkSurfaced("poller", s) /\ UNCHANGED at
        BY <1>8, <3>2 DEF Surface
      <4>2. /\ job' \in [Writers -> {None} \cup ({"changed", "truncated"} \X Records)]
            /\ overlapped' \in BOOLEAN
        <5>1. CASE Read[s] = None
          BY <4>1, <5>1 DEF MarkSurfaced, Reads
        <5>2. CASE Read[s] # None
          BY <1>8, <4>1, <5>2, WriterTypes DEF Surface, Writers, Questions, Records
        <5> QED BY <5>1, <5>2
      <4> QED BY <1>8, <4>1, <4>2 DEF Surface, PollerAt
    <3> QED BY <3>1, <3>2
  <2> QED BY <1>8, <2>1 DEF Surface, panes, history
<1> QED BY <1>1, <1>2, <1>3, <1>4, <1>5, <1>6, <1>7, <1>8 DEF PollStep

LEMMA AnnounceTypes ==
  ASSUME BlockedTypes, Announce
  PROVE  /\ BlockedTypes'
         /\ \A s \in Pending : listed[s][1] \in Questions
         /\ \A s \in Sessions, q \in Questions :
              spoken'[s][q] = IF s \in Pending /\ q = listed[s][1]
                              THEN IF spoken[s][q] < 2 THEN spoken[s][q] + 1 ELSE 2
                              ELSE spoken[s][q]
<1> USE SessionFacts DEF BlockedTypes, BlockedTypeOK
<1>1. \A s \in Pending : s \in Sessions /\ listed[s][1] \in Questions
  BY DEF Pending, Records
<1>2. \A s \in Sessions, q \in Questions :
        spoken'[s][q] = IF s \in Pending /\ q = listed[s][1]
                        THEN IF spoken[s][q] < 2 THEN spoken[s][q] + 1 ELSE 2
                        ELSE spoken[s][q]
  BY <1>1 DEF Announce
<1>3. spoken' \in [Sessions -> [Questions -> 0..2]]
  <2>1. \A s \in Pending :
          [spoken[s] EXCEPT ![listed[s][1]] = IF @ < 2 THEN @ + 1 ELSE 2] \in [Questions -> 0..2]
    <3> TAKE s \in Pending
    <3>1. spoken[s] \in [Questions -> 0..2] /\ listed[s][1] \in Questions
      BY <1>1
    <3> HIDE DEF BlockedTypes, BlockedTypeOK
    <3>2. spoken[s][listed[s][1]] \in 0..2
      BY <3>1
    <3>3. (IF spoken[s][listed[s][1]] < 2 THEN spoken[s][listed[s][1]] + 1 ELSE 2) \in 0..2
      BY <3>2
    <3> QED BY <3>1, <3>3
  <2>2. \A s \in Sessions : spoken[s] \in [Questions -> 0..2]
    OBVIOUS
  <2> HIDE DEF BlockedTypes, BlockedTypeOK
  <2> QED BY <2>1, <2>2 DEF Announce
<1> QED BY <1>1, <1>2, <1>3 DEF Announce, Pending, panes, history
LEMMA DropTypes ==
  ASSUME BlockedTypes, NEW w \in Writers, DropDead(w)
  PROVE  BlockedTypes'
<1>1. /\ job' \in [Writers -> {None} \cup ({"changed", "truncated"} \X Records)]
      /\ overlapped' \in BOOLEAN
  BY ClearTypes DEF DropDead, DeadOnRecord
<1> QED BY <1>1 DEF DropDead, BlockedTypes, BlockedTypeOK, panes, history, poller

LEMMA HeardRecord ==
  ASSUME BlockedTypes, NEW s \in Sessions, Read[s] # None
  PROVE  Read[s][1] \in Questions /\ Read[s][2] \in BOOLEAN
BY ReadIsRecords DEF Records

LEMMA AnswerTypes ==
  ASSUME BlockedTypes, AnswerStep
  PROVE  BlockedTypes'
<1>1. ASSUME NEW s \in Sessions, Hear(s)
      PROVE  BlockedTypes'
  <2>1. tool' \in {"heard", "still", "pressed", "clear"} \X Sessions \X Questions
    BY <1>1, HeardRecord DEF Hear
  <2> QED BY <1>1, <2>1 DEF Hear, BlockedTypes, BlockedTypeOK, panes, history, poller
<1>2. ASSUME NEW s \in Sessions, NEW q \in Questions, Still(s, q)
      PROVE  BlockedTypes'
  BY <1>2 DEF Still, BlockedTypes, BlockedTypeOK, panes, history, poller
<1>3. ASSUME NEW s \in Sessions, NEW q \in Questions, PressDigit(s, q)
      PROVE  BlockedTypes'
  <2>1. open' \in [Sessions -> BOOLEAN]
    BY <1>3 DEF PressDigit, BlockedTypes, BlockedTypeOK
  <2>2. asks[s] \in 0..MaxAsks
    BY DEF BlockedTypes, BlockedTypeOK
  <2>3. digits' \subseteq Sessions \X Questions \X (0..MaxAsks)
    BY <1>3, <2>2 DEF PressDigit, BlockedTypes, BlockedTypeOK
  <2>4. tool' = None \/ tool' \in {"heard", "still", "pressed", "clear"} \X Sessions \X Questions
    BY <1>3 DEF PressDigit
  <2> QED BY <1>3, <2>1, <2>3, <2>4 DEF PressDigit, BlockedTypes, BlockedTypeOK, poller, history
<1>4. ASSUME NEW s \in Sessions, NEW q \in Questions, Answered(s, q)
      PROVE  BlockedTypes'
  <2>1. /\ job' \in [Writers -> {None} \cup ({"changed", "truncated"} \X Records)]
        /\ overlapped' \in BOOLEAN
    BY <1>4, ClearTypes DEF Answered, Writers
  <2> QED BY <1>4, <2>1 DEF Answered, BlockedTypes, BlockedTypeOK, panes, history, poller
<1>5. ASSUME NEW s \in Sessions, NEW q \in Questions, Confirm(s, q)
      PROVE  BlockedTypes'
  BY <1>5 DEF Confirm, BlockedTypes, BlockedTypeOK, panes, history, poller
<1> QED BY <1>1, <1>2, <1>3, <1>4, <1>5 DEF AnswerStep, Questions

LEMMA SessionTypes ==
  ASSUME BlockedTypes, NEW s \in Sessions, Ask(s) \/ Resolve(s) \/ Die(s) \/ Reconnect(s)
  PROVE  BlockedTypes'
<1>1. asks' \in [Sessions -> 0..MaxAsks]
  <2>1. asks[s] \in 0..MaxAsks /\ MaxAsks \in Nat
    BY SessionFacts DEF BlockedTypes, BlockedTypeOK
  <2> QED BY <2>1 DEF BlockedTypes, BlockedTypeOK, Ask, Resolve, Die, Reconnect
<1>2. open' \in [Sessions -> BOOLEAN] /\ alive' \in [Sessions -> BOOLEAN]
  BY DEF BlockedTypes, BlockedTypeOK, Ask, Resolve, Die, Reconnect
<1>3. hurried' \subseteq Sessions \X Questions /\ overlapped' \in BOOLEAN
  <2>1. CASE Ask(s)
    <3>1. asks'[s] = asks[s] + 1 /\ asks[s] \in Nat /\ asks[s] < MaxAsks /\ MaxAsks \in Nat
      BY <2>1, SessionFacts DEF BlockedTypes, BlockedTypeOK, Ask
    <3>2. asks'[s] \in Questions
      BY <3>1 DEF Questions
    <3> QED BY <2>1, <3>2 DEF Ask, BlockedTypes, BlockedTypeOK
  <2>2. CASE ~Ask(s)
    BY <2>2 DEF BlockedTypes, BlockedTypeOK, Resolve, Die, Reconnect, history
  <2> QED BY <2>1, <2>2
<1> QED BY <1>1, <1>2, <1>3 DEF BlockedTypes, BlockedTypeOK, Ask, Resolve, Die, Reconnect, poller

LEMMA TypesStep ==
  ASSUME BlockedTypes, [BlockedNext]_blockedVars
  PROVE  BlockedTypes'
<1>1. CASE UNCHANGED blockedVars
  BY <1>1 DEF BlockedTypes, BlockedTypeOK, blockedVars, panes, history, poller
<1> QED BY <1>1, FileTypes, PollTypes, AnnounceTypes, DropTypes, AnswerTypes, SessionTypes
        DEF BlockedNext, Session

LEMMA BlockedInitTypes ==
  ASSUME BlockedInit
  PROVE  BlockedTypes
<1> USE SessionFacts, EmptyIsRecords
<1>1. spoken \in [Sessions -> [Questions -> 0..2]]
  BY DEF BlockedInit, Questions
<1>2. job \in [Writers -> {None} \cup ({"changed", "truncated"} \X Records)]
  BY DEF BlockedInit
<1>3. age \in [Sessions -> 0..Settle] /\ asks \in [Sessions -> 0..MaxAsks]
  BY DEF BlockedInit
<1>4. cur \in DOMAIN Order
  BY DEF BlockedInit
<1> QED BY <1>1, <1>2, <1>3, <1>4 DEF BlockedInit, BlockedTypes, BlockedTypeOK
-----------------------------------------------------------------------------
LEMMA LatestRead ==
  ASSUME BlockedTypes, LatestInv
  PROVE  Latest(Read)
BY DEF LatestInv, Latest, Read, Empty

(* The three changes, of the question asked last. *)
LEMMA LatestChanged ==
  ASSUME NEW r \in Records, Latest(r), NEW s \in Sessions, NEW q \in Questions
  PROVE  /\ Current(s, q) => Latest([r EXCEPT ![s] = Record(q, FALSE)])
         /\ Latest([r EXCEPT ![s] = None])
         /\ r[s] # None => Latest([r EXCEPT ![s] = Record(r[s][1], TRUE)])
<1>1. Record(q, FALSE)[1] = q /\ Record(r[s][1], TRUE)[1] = r[s][1]
  BY DEF Record
<1> QED BY <1>1 DEF Latest, Records

LEMMA LatestJobs ==
  ASSUME BlockedTypes, LatestInv, NEW w \in Writers, NEW s \in Sessions, NEW q \in Questions,
         UNCHANGED <<asks, hurried>>,
         \/ MarkBlocked(w, s, q) /\ Current(s, q)
         \/ MarkSurfaced(w, s) \/ ClearBlocked(w, s)
  PROVE  \A v \in Writers : Busy(v)' => Latest(job[v][2])'
<1>1. Read \in Records /\ Latest(Read)
  BY ReadIsRecords, LatestRead
<1>2. ASSUME NEW r \in Records, Latest(r), Begin(w, r)
      PROVE  \A v \in Writers : Busy(v)' => Latest(job[v][2])'
  <2>1. job'[w][2] = r /\ \A v \in Writers \ {w} : job'[v] = job[v]
    BY <1>2, BeginTypes
  <2> QED BY <1>2, <2>1 DEF LatestInv, Latest, Current, Busy
<1>3. CASE UNCHANGED job
  BY <1>3 DEF LatestInv, Latest, Current, Busy
<1>4. CASE Begin(w, [Read EXCEPT ![s] = Record(q, FALSE)]) /\ Current(s, q)
  BY <1>1, <1>2, <1>4, LatestChanged, ChangedRecords
<1>5. CASE Begin(w, [Read EXCEPT ![s] = None])
  <2>1. [Read EXCEPT ![s] = None] \in Records /\ Latest([Read EXCEPT ![s] = None])
    BY <1>1, LatestChanged, ChangedRecords
  <2> QED BY <1>2, <1>5, <2>1
<1>6. CASE Read[s] # None /\ Begin(w, [Read EXCEPT ![s] = Record(Read[s][1], TRUE)])
  BY <1>1, <1>2, <1>6, LatestChanged, ChangedRecords
<1> QED BY <1>3, <1>4, <1>5, <1>6 DEF MarkBlocked, MarkSurfaced, ClearBlocked

(* A member's record can be cleared, whatever question it is about.         *)
LEMMA LatestCleared ==
  ASSUME BlockedTypes, LatestInv, NEW w \in Writers, NEW s \in Sessions,
         UNCHANGED <<asks, hurried>>, ClearBlocked(w, s)
  PROVE  \A v \in Writers : Busy(v)' => Latest(job[v][2])'
<1>1. CASE UNCHANGED job
  BY <1>1 DEF LatestInv, Latest, Current, Busy
<1>2. CASE Read[s] # None
  BY <1>2, HeardRecord, LatestJobs
<1> QED BY <1>1, <1>2 DEF ClearBlocked

LEMMA LatestFile ==
  ASSUME BlockedTypes, LatestInv, NEW w \in Writers, Truncate(w) \/ Write(w)
  PROVE  LatestInv'
<1>1. Busy(w) /\ Latest(job[w][2]) /\ asks' = asks /\ hurried' = hurried
  BY DEF LatestInv, Truncate, Write, panes, history
<1>2. (file # Torn => Latest(file))'
  BY <1>1 DEF Truncate, Write, Latest, Current
<1>3. \A v \in Writers : Busy(v)' => Busy(v) /\ job'[v][2] = job[v][2]
  <2>1. CASE Truncate(w)
    <3>1. job[w] \in {"changed", "truncated"} \X Records
      BY <1>1 DEF BlockedTypes, BlockedTypeOK, Busy
    <3>2. [job[w] EXCEPT ![1] = "truncated"][2] = job[w][2]
      BY <3>1
    <3> QED BY <1>1, <2>1, <3>2 DEF Truncate, BlockedTypes, BlockedTypeOK, Busy
  <2>2. CASE Write(w)
    BY <2>2 DEF Write, BlockedTypes, BlockedTypeOK, Busy
  <2> QED BY <2>1, <2>2
<1> QED BY <1>1, <1>2, <1>3 DEF LatestInv, Latest, Current, Truncate, Write, panes, history, poller, Member
LEMMA LatestPoll ==
  ASSUME BlockedTypes, LatestInv, PollStep \/ Announce
  PROVE  LatestInv'
<1> USE MemberIsOne, SessionFacts
<1>0. /\ asks' = asks /\ file' = file /\ tool' = tool /\ digits' = digits
      /\ hurried' = hurried
  BY DEF PollStep, PollStart, LookAtPane, Get, Mark, Reget, Clear, HoldBack, Surface, Announce,
     panes, history
<1>1. (file # Torn => Latest(file))' /\ (tool # None => Current(tool[2], tool[3]))'
  BY <1>0 DEF LatestInv, Latest, Current
<1>2. \A v \in Writers : Busy(v)' => Latest(job[v][2])'
  <2>1. CASE UNCHANGED job
    BY <1>0, <2>1 DEF LatestInv, Latest, Current, Busy
  <2>2. CASE Mark
    <3>1. cap \in Questions /\ Current(Member, cap) /\ MarkBlocked("poller", Member, cap)
      BY <2>2 DEF LatestInv, Mark, PollerAt, BlockedTypes, BlockedTypeOK, Questions
    <3> QED BY <1>0, <3>1, LatestJobs DEF Writers
  <2>3. CASE Clear
    BY <1>0, <2>3, LatestCleared DEF Clear, Writers
  <2>4. CASE Surface /\ todo # {}
    <3>1. PICK s \in todo : MarkSurfaced("poller", s)
      BY <2>4 DEF Surface
    <3>2. s \in Sessions
      BY DEF BlockedTypes, BlockedTypeOK
    <3>3. Read[s] # None => Read[s][1] \in Questions
      BY <3>2, HeardRecord
    <3> QED BY <1>0, <2>1, <3>1, <3>2, <3>3, LatestJobs DEF Writers, MarkSurfaced
  <2> QED BY <2>1, <2>2, <2>3, <2>4
          DEF PollStep, PollStart, LookAtPane, Get, Reget, HoldBack, Surface, Announce
<1>3. (at # "idle" => Latest(listed))'
  <2>1. CASE listed' = listed /\ at # "idle"
    BY <1>0, <2>1 DEF LatestInv, Latest, Current
  <2>2. CASE listed' = Empty
    BY <2>2 DEF Latest, Empty
  <2>3. CASE listed' = [listed EXCEPT ![Member] = Read[Member]] /\ at # "idle"
    <3>1. Latest(listed) /\ Latest(Read)
      BY <2>3, LatestRead DEF LatestInv
    <3>2. \A s \in Sessions : listed'[s] = IF s = Member THEN Read[s] ELSE listed[s]
      BY <2>3 DEF BlockedTypes, BlockedTypeOK, Records
    <3>3. \A s \in Sessions : listed'[s] # None => Current(s, listed'[s][1])
      BY <3>1, <3>2 DEF Latest
    <3> QED BY <1>0, <3>3 DEF Latest, Current
  <2>4. CASE PollStart
    BY <2>2, <2>4 DEF PollStart
  <2>5. CASE Get \/ Reget
    BY <2>1, <2>3, <2>5 DEF Get, Reget, PollerAt
  <2> QED BY <2>1, <2>4, <2>5
          DEF PollStep, LookAtPane, Mark, Clear, HoldBack, Surface, Announce, PollerAt
<1>4. (at \in {"get", "mark"} /\ cap # 0 => Current(Member, cap))'
  <2>1. CASE LookAtPane
    <3>1. at' \in {"get", "mark"} => cap' = Captured(Member) /\ cur' = cur
      BY <2>1 DEF LookAtPane, ThenNext
    <3>2. asks[Member] \in Nat
      <4>1. Member \in Sessions
        BY MemberIsOne
      <4> QED BY <4>1, SessionFacts DEF BlockedTypes, BlockedTypeOK
    <3>3. Captured(Member) # 0 => Captured(Member) = asks[Member]
      BY DEF Captured
    <3> QED BY <1>0, <3>1, <3>2, <3>3 DEF Member, Current
  <2>2. CASE Get
    BY <1>0, <2>2 DEF Get, ThenNext, Member, LatestInv, PollerAt, Current
  <2> QED BY <1>0, <2>1, <2>2 DEF PollStep, PollStart, Mark, Reget, Clear, HoldBack,
          Surface, Announce, ThenNext, LatestInv, PollerAt
<1> QED BY <1>1, <1>2, <1>3, <1>4 DEF LatestInv

(* A question is matched to an answer, and a digit is pressed.              *)
LEMMA LatestAnswer ==
  ASSUME HitInv, AnswerStep \/ \E w \in Writers : DropDead(w)
  PROVE  LatestInv' /\ AnswerHitsItsQuestion'
<1> USE DEF HitInv
<1>0. /\ asks' = asks /\ file' = file /\ listed' = listed /\ at' = at /\ cap' = cap /\ cur' = cur
      /\ hurried' = hurried
  BY DEF AnswerStep, Hear, Still, PressDigit, Confirm, Answered, DropDead, panes, history, poller
<1>1. /\ (file # Torn => Latest(file))' /\ (at # "idle" => Latest(listed))'
      /\ (at \in {"get", "mark"} /\ cap # 0 => Current(Member, cap))'
  BY <1>0 DEF LatestInv, Latest, Member, Current
<1>2. \A v \in Writers : Busy(v)' => Latest(job[v][2])'
  <2>1. CASE UNCHANGED job
    BY <1>0, <2>1 DEF LatestInv, Latest, Current, Busy
  <2>2. ASSUME NEW w \in Writers, NEW s \in Sessions, ClearBlocked(w, s)
        PROVE  \A v \in Writers : Busy(v)' => Latest(job[v][2])'
    BY <1>0, <2>2, LatestCleared
  <2> QED BY <2>1, <2>2
          DEF AnswerStep, Hear, Still, PressDigit, Confirm, Answered, DropDead, Writers, DeadOnRecord
<1>3. (tool # None => Current(tool[2], tool[3]))'
  <2>1. ASSUME NEW s \in Sessions, Hear(s)
        PROVE  (tool # None => Current(tool[2], tool[3]))'
    BY <1>0, <2>1, LatestRead DEF Hear, Latest, Current
  <2>2. ASSUME NEW s \in Sessions, NEW q \in Questions,
               Still(s, q) \/ PressDigit(s, q) \/ Confirm(s, q) \/ Answered(s, q)
        PROVE  (tool # None => Current(tool[2], tool[3]))'
    <3>1. tool # None /\ tool[2] = s /\ tool[3] = q
      BY <2>2 DEF Still, PressDigit, Confirm, Answered, None
    <3>2. Current(s, q)
      BY <3>1 DEF LatestInv
    <3>3. tool' # None => tool'[2] = s /\ tool'[3] = q
      BY <2>2, <3>1 DEF Still, PressDigit, Confirm, Answered
    <3> QED BY <1>0, <3>2, <3>3 DEF Current
  <2>3. CASE \E w \in Writers : DropDead(w)
    BY <1>0, <2>3 DEF DropDead, LatestInv, Current
  <2> QED BY <2>1, <2>2, <2>3 DEF AnswerStep, Questions
<1>4. AnswerHitsItsQuestion'
  <2>1. ASSUME NEW s \in Sessions, NEW q \in Questions, PressDigit(s, q)
        PROVE  AnswerHitsItsQuestion'
    <3>1. Current(s, q)
      BY <2>1 DEF PressDigit, LatestInv, None
    <3>2. digits' \subseteq digits \cup {<<s, q, asks[s]>>}
      BY <2>1 DEF PressDigit
    <3>3. q = asks[s] \/ <<s, asks[s]>> \in hurried
      BY <3>1 DEF Current
    <3>4. \A p \in digits : p[2] = p[3] \/ <<p[1], p[3]>> \in hurried
      BY DEF AnswerHitsItsQuestion
    <3>5. \A p \in digits' : p[2] = p[3] \/ <<p[1], p[3]>> \in hurried
      <4> TAKE p \in digits'
      <4>1. CASE p \in digits
        BY <3>4, <4>1
      <4>2. CASE p = <<s, q, asks[s]>>
        BY <3>3, <4>2
      <4> QED BY <3>2, <4>1, <4>2
    <3> QED BY <1>0, <3>5 DEF AnswerHitsItsQuestion
  <2> QED BY <1>0, <2>1
          DEF AnswerStep, Hear, Still, Confirm, Answered, DropDead, AnswerHitsItsQuestion, Questions
<1> QED BY <1>1, <1>2, <1>3, <1>4 DEF LatestInv

LEMMA LatestSame ==
  ASSUME LatestInv, UNCHANGED <<asks, poller, file, job, tool, hurried>>
  PROVE  LatestInv'
<1>0. /\ asks' = asks /\ file' = file /\ job' = job /\ tool' = tool /\ hurried' = hurried
      /\ at' = at /\ cap' = cap /\ cur' = cur /\ listed' = listed
  BY DEF poller
<1>1. (file # Torn => Latest(file))' /\ (at # "idle" => Latest(listed))'
  BY <1>0 DEF LatestInv, Latest, Current
<1>2. \A w \in Writers : Busy(w)' => Latest(job[w][2])'
  BY <1>0 DEF LatestInv, Latest, Current, Busy
<1>3. (at \in {"get", "mark"} /\ cap # 0 => Current(Member, cap))'
  BY <1>0 DEF LatestInv, Member, Current
<1>4. (tool # None => Current(tool[2], tool[3]))'
  BY <1>0 DEF LatestInv, Current
<1> QED BY <1>1, <1>2, <1>3, <1>4 DEF LatestInv

(* A new question leaves the traces of the last one behind, or is hurried.  *)
LEMMA AskCurrent ==
  ASSUME BlockedTypes, NEW s \in Sessions, Ask(s)
  PROVE  /\ asks'[s] = asks[s] + 1 /\ asks[s] \in Nat
         /\ \A t \in Sessions \ {s} : asks'[t] = asks[t]
         /\ hurried \subseteq hurried' /\ (Traced(s) => <<s, asks'[s]>> \in hurried')
         /\ \A t \in Sessions, q \in Questions :
              Current(t, q) /\ (t = s => Traced(s)) => Current(t, q)'
<1>1. /\ asks'[s] = asks[s] + 1 /\ asks[s] \in Nat
      /\ \A t \in Sessions \ {s} : asks'[t] = asks[t]
  BY DEF Ask, BlockedTypes, BlockedTypeOK
<1>2. hurried \subseteq hurried' /\ (Traced(s) => <<s, asks'[s]>> \in hurried')
  BY DEF Ask
<1>3. ASSUME NEW t \in Sessions, NEW q \in Questions, Current(t, q), t = s => Traced(s)
      PROVE  Current(t, q)'
  <2>1. CASE t # s
    BY <1>1, <1>2, <1>3, <2>1 DEF Current
  <2>2. CASE t = s
    <3>1. q \in Nat /\ q <= asks[s]
      BY <1>3, <2>2, SessionFacts DEF Questions, Current
    <3>2. q <= asks'[s]
      BY <1>1, <3>1
    <3>3. <<s, asks'[s]>> \in hurried'
      BY <1>2, <1>3, <2>2
    <3>4. <<s, q + 1>> \in hurried'
      <4>1. CASE q = asks[s]
        BY <1>1, <3>3, <4>1
      <4>2. CASE q # asks[s]
        BY <1>2, <1>3, <2>2, <4>2 DEF Current
      <4> QED BY <4>1, <4>2
    <3> QED BY <2>2, <3>2, <3>3, <3>4 DEF Current
  <2> QED BY <2>1, <2>2
<1> QED BY <1>1, <1>2, <1>3

(* A set of records that goes on being like that. *)
GoesOn(records) == \A s \in Sessions : records[s] # None =>
  LET q == records[s][1]
  IN  /\ q <= asks'[s]
      /\ q # asks'[s] => {<<s, q + 1>>, <<s, asks'[s]>>} \subseteq hurried'

LEMMA AskGoesOn ==
  ASSUME BlockedTypes, NEW s \in Sessions, Ask(s),
         NEW r, r \in Records, Latest(r), r[s] # None => Traced(s)
  PROVE  GoesOn(r)
<1>1. ASSUME NEW t \in Sessions, NEW q \in Questions, Current(t, q), t = s => Traced(s)
      PROVE  q <= asks'[t] /\ (q # asks'[t] => {<<t, q + 1>>, <<t, asks'[t]>>} \subseteq hurried')
  BY <1>1, AskCurrent DEF Current
<1>2. \A t \in Sessions : r[t] # None => r[t][1] \in Questions /\ Current(t, r[t][1])
  BY DEF Records, Latest
<1> QED BY <1>1, <1>2 DEF GoesOn

LEMMA LatestAsk ==
  ASSUME BlockedTypes, LatestInv, NEW s \in Sessions, Ask(s)
  PROVE  LatestInv'
<1>0. UNCHANGED <<file, job, tool, at, cur, cap, listed>>
  BY DEF Ask, poller
<1>1. (file # Torn => Latest(file))'
  <2>1. file # Torn => file \in Records /\ (file[s] # None => Traced(s)) /\ Latest(file)
    BY DEF BlockedTypes, BlockedTypeOK, Traced, Read, LatestInv
  <2>2. file # Torn => GoesOn(file)
    BY <2>1, AskGoesOn
  <2> QED BY <1>0, <2>2 DEF Latest, Current, GoesOn
<1>2. \A w \in Writers : Busy(w)' => Latest(job[w][2])'
  <2> SUFFICES ASSUME NEW w \in Writers, Busy(w)
               PROVE  Latest(job[w][2])'
    BY <1>0 DEF Busy
  <2>1. job[w][2] \in Records /\ (job[w][2][s] # None => Traced(s)) /\ Latest(job[w][2])
    BY DEF BlockedTypes, BlockedTypeOK, Busy, Traced, LatestInv
  <2>2. GoesOn(job[w][2])
    BY <2>1, AskGoesOn
  <2> QED BY <1>0, <2>2 DEF Latest, Current, GoesOn
<1>3. (at # "idle" => Latest(listed))'
  <2>1. at # "idle" => listed \in Records /\ (listed[s] # None => Traced(s)) /\ Latest(listed)
    BY DEF BlockedTypes, BlockedTypeOK, Traced, LatestInv
  <2>2. at # "idle" => GoesOn(listed)
    BY <2>1, AskGoesOn
  <2> QED BY <1>0, <2>2 DEF Latest, Current, GoesOn
<1>4. (at \in {"get", "mark"} /\ cap # 0 => Current(Member, cap))'
  <2>1. ASSUME at \in {"get", "mark"}, cap # 0
        PROVE  Current(Member, cap)'
    <3>1. cap \in Questions /\ Member \in Sessions /\ Current(Member, cap)
      <4>1. Member \in Sessions
        BY MemberIsOne
      <4>2. cap \in 0..MaxAsks /\ MaxAsks \in Nat
        BY SessionFacts DEF BlockedTypes, BlockedTypeOK
      <4> QED BY <2>1, <4>1, <4>2 DEF LatestInv, Questions
    <3>2. Member = s => Traced(s)
      BY <2>1 DEF Traced
    <3>3. cap <= asks'[Member] /\ (cap # asks'[Member] =>
            {<<Member, cap + 1>>, <<Member, asks'[Member]>>} \subseteq hurried')
      <4>1. \A t \in Sessions, q \in Questions :
              Current(t, q) /\ (t = s => Traced(s)) =>
                q <= asks'[t] /\ (q # asks'[t] => {<<t, q + 1>>, <<t, asks'[t]>>} \subseteq hurried')
        BY AskCurrent DEF Current
      <4> QED BY <3>1, <3>2, <4>1
    <3> QED BY <1>0, <3>3 DEF Current, Member
  <2> QED BY <1>0, <2>1
<1>5. (tool # None => Current(tool[2], tool[3]))'
  <2>1. ASSUME tool # None
        PROVE  Current(tool[2], tool[3])'
    <3>1. tool[2] \in Sessions /\ tool[3] \in Questions /\ Current(tool[2], tool[3])
      BY <2>1 DEF LatestInv, BlockedTypes, BlockedTypeOK
    <3>2. tool[2] = s => Traced(s)
      BY <2>1 DEF Traced
    <3>3. \A t \in Sessions, q \in Questions :
            Current(t, q) /\ (t = s => Traced(s)) =>
              q <= asks'[t] /\ (q # asks'[t] => {<<t, q + 1>>, <<t, asks'[t]>>} \subseteq hurried')
      BY AskCurrent DEF Current
    <3> QED BY <1>0, <3>1, <3>2, <3>3 DEF Current
  <2> QED BY <1>0, <2>1
<1> QED BY <1>1, <1>2, <1>3, <1>4, <1>5 DEF LatestInv

LEMMA LatestSession ==
  ASSUME HitInv, NEW s \in Sessions, Session(s)
  PROVE  LatestInv' /\ AnswerHitsItsQuestion'
<1> USE DEF HitInv
<1>0. UNCHANGED <<poller, file, job, tool, digits>> /\ hurried \subseteq hurried'
  BY DEF Session, Ask, Resolve, Die, Reconnect, history
<1>1. AnswerHitsItsQuestion'
  BY <1>0 DEF AnswerHitsItsQuestion
<1>2. CASE Ask(s)
  BY <1>1, <1>2, LatestAsk
<1>3. CASE ~Ask(s)
  <2>1. asks' = asks /\ hurried' = hurried
    BY <1>3 DEF Session, Resolve, Die, Reconnect, history
  <2> QED BY <1>0, <1>1, <2>1, LatestSame
<1> QED BY <1>2, <1>3

LEMMA HitStep ==
  ASSUME HitInv, [BlockedNext]_blockedVars
  PROVE  HitInv'
<1>1. BlockedTypes'
  BY TypesStep DEF HitInv
<1>2. CASE UNCHANGED blockedVars
  BY <1>1, <1>2, LatestSame DEF HitInv, AnswerHitsItsQuestion, blockedVars, panes, history
<1>3. ASSUME PollStep \/ Announce
      PROVE  LatestInv' /\ AnswerHitsItsQuestion'
  <2>1. digits' = digits /\ hurried' = hurried
    BY <1>3 DEF PollStep, PollStart, LookAtPane, Get, Mark, Reget, Clear, HoldBack, Surface, Announce,
       history
  <2> QED BY <1>3, <2>1, LatestPoll DEF HitInv, AnswerHitsItsQuestion
<1>4. ASSUME NEW w \in Writers, Truncate(w) \/ Write(w)
      PROVE  LatestInv' /\ AnswerHitsItsQuestion'
  <2>1. digits' = digits /\ hurried' = hurried
    BY <1>4 DEF Truncate, Write, history
  <2> QED BY <1>4, <2>1, LatestFile DEF HitInv, AnswerHitsItsQuestion
<1> QED BY <1>1, <1>2, <1>3, <1>4, LatestAnswer, LatestSession DEF BlockedNext, HitInv

(* Whatever the writers of the file undo of each other's work and however   *)
(* slow the answer tool is, a digit lands on the question it was matched    *)
(* to, or on one that was asked while a trace of an earlier one was left.   *)
THEOREM AnswersHit == BlockedSpec => []AnswerHitsItsQuestion
<1>1. BlockedInit => HitInv
  <2> SUFFICES ASSUME BlockedInit
               PROVE  HitInv
    OBVIOUS
  <2>1. LatestInv /\ AnswerHitsItsQuestion
    BY DEF BlockedInit, LatestInv, Latest, Busy, Empty, AnswerHitsItsQuestion
  <2> QED BY <2>1, BlockedInitTypes DEF HitInv
<1>2. HitInv /\ [BlockedNext]_blockedVars => HitInv'
  BY HitStep
<1>3. HitInv => AnswerHitsItsQuestion
  BY DEF HitInv
<1> QED BY <1>1, <1>2, <1>3, PTL DEF BlockedSpec

(* Every variable has its type.                                             *)
THEOREM BlockedTypeCorrect == BlockedSpec => []BlockedTypeOK
<1>1. BlockedTypes => BlockedTypeOK
  BY DEF BlockedTypes
<1> QED BY <1>1, BlockedInitTypes, TypesStep, PTL DEF BlockedSpec
-----------------------------------------------------------------------------
(* What has been announced stays announced. *)
LEMMA SpokenGrows ==
  ASSUME BlockedTypes, [BlockedNext]_blockedVars, NEW s \in Sessions, NEW q \in Questions,
         spoken[s][q] > 0
  PROVE  spoken'[s][q] > 0
<1>1. CASE spoken' = spoken
  BY <1>1
<1>2. CASE Announce
  <2>1. spoken[s][q] \in 0..2
    BY DEF BlockedTypes, BlockedTypeOK
  <2> QED BY <1>2, <2>1, AnnounceTypes
<1> QED BY <1>1, <1>2 DEF BlockedNext, PollStep, PollStart, LookAtPane, Get, Mark, Reget, Clear,
        HoldBack, Surface, Truncate, Write, DropDead, AnswerStep, Hear, Still, PressDigit, Confirm, Answered,
        Session, Ask, Resolve, Die, Reconnect, blockedVars

LEMMA HurriedGrows ==
  ASSUME [BlockedNext]_blockedVars
  PROVE  hurried \subseteq hurried'
BY DEF BlockedNext, PollStep, PollStart, LookAtPane, Get, Mark, Reget, Clear, HoldBack, Surface,
   Announce, Truncate, Write, DropDead, AnswerStep, Hear, Still, PressDigit, Confirm, Answered,
   Session, Ask, Resolve, Die, Reconnect, history, blockedVars

LEMMA ToldGrows ==
  ASSUME BlockedTypes, [BlockedNext]_blockedVars, NEW r, r \in Records, Told(r)
  PROVE  \A s \in Sessions : r[s] # None /\ r[s][2] =>
           spoken'[s][r[s][1]] > 0 \/ {<<s, r[s][1]>>, <<s, r[s][1] + 1>>} \cap hurried' # {}
<1> SUFFICES ASSUME NEW s \in Sessions, r[s] # None, r[s][2]
             PROVE  spoken'[s][r[s][1]] > 0 \/ {<<s, r[s][1]>>, <<s, r[s][1] + 1>>} \cap hurried' # {}
  OBVIOUS
<1>1. r[s][1] \in Questions
  BY DEF Records
<1>2. CASE spoken[s][r[s][1]] > 0
  BY <1>1, <1>2, SpokenGrows
<1>3. CASE Tangled(s, r[s][1])
  BY <1>3, HurriedGrows DEF Tangled
<1> QED BY <1>2, <1>3 DEF Told

LEMMA ToldRead ==
  ASSUME BlockedTypes, SurfacedInv
  PROVE  Told(Read)
BY DEF SurfacedInv, Told, Read, Empty

(* The three changes surface nothing that has not been announced.           *)
LEMMA ToldChanged ==
  ASSUME NEW r \in Records, Told(r), NEW s \in Sessions, NEW q \in Questions
  PROVE  /\ Told([r EXCEPT ![s] = Record(q, FALSE)])
         /\ Told([r EXCEPT ![s] = None])
         /\ r[s] # None /\ (spoken[s][r[s][1]] > 0 \/ Tangled(s, r[s][1])) =>
              Told([r EXCEPT ![s] = Record(r[s][1], TRUE)])
<1>1. /\ Record(r[s][1], TRUE)[1] = r[s][1]
      /\ Record(q, FALSE)[2] = FALSE
  BY DEF Record
<1>2. \A t \in Sessions \ {s} : r[t] # None /\ r[t][2] =>
        spoken[t][r[t][1]] > 0 \/ Tangled(t, r[t][1])
  BY DEF Told
<1>3. Told([r EXCEPT ![s] = Record(q, FALSE)])
  BY <1>1, <1>2 DEF Told, Records
<1>4. Told([r EXCEPT ![s] = None])
  BY <1>2 DEF Told, Records
<1>5. r[s] # None /\ (spoken[s][r[s][1]] > 0 \/ Tangled(s, r[s][1])) =>
        Told([r EXCEPT ![s] = Record(r[s][1], TRUE)])
  BY <1>1, <1>2 DEF Told, Records
<1> QED BY <1>3, <1>4, <1>5

LEMMA ToldJobs ==
  ASSUME BlockedTypes, SurfacedInv, UNCHANGED <<spoken, hurried>>,
         NEW w \in Writers, NEW s \in Sessions, NEW q \in Questions,
         \/ MarkBlocked(w, s, q)
         \/ /\ MarkSurfaced(w, s)
            /\ Read[s] # None => spoken[s][Read[s][1]] > 0 \/ Tangled(s, Read[s][1])
         \/ ClearBlocked(w, s)
  PROVE  \A v \in Writers : Busy(v)' => Told(job[v][2])'
<1>1. Read \in Records /\ Told(Read)
  BY ReadIsRecords, ToldRead
<1>2. ASSUME NEW r \in Records, Told(r), Begin(w, r)
      PROVE  \A v \in Writers : Busy(v)' => Told(job[v][2])'
  <2>1. job'[w][2] = r /\ \A v \in Writers \ {w} : job'[v] = job[v]
    BY <1>2, BeginTypes
  <2> QED BY <1>2, <2>1 DEF SurfacedInv, Told, Tangled, Busy
<1>3. CASE UNCHANGED job
  BY <1>3 DEF SurfacedInv, Told, Tangled, Busy
<1>4. CASE Begin(w, [Read EXCEPT ![s] = Record(q, FALSE)])
  BY <1>1, <1>2, <1>4, ToldChanged, ChangedRecords
<1>5. CASE Begin(w, [Read EXCEPT ![s] = None])
  BY <1>1, <1>2, <1>5, ToldChanged, ChangedRecords
<1>6. CASE /\ Read[s] # None /\ (spoken[s][Read[s][1]] > 0 \/ Tangled(s, Read[s][1]))
           /\ Begin(w, [Read EXCEPT ![s] = Record(Read[s][1], TRUE)])
  BY <1>1, <1>2, <1>6, ToldChanged, ChangedRecords
<1> QED BY <1>3, <1>4, <1>5, <1>6 DEF MarkBlocked, MarkSurfaced, ClearBlocked
LEMMA SurfacedStep ==
  ASSUME BlockedTypes, LatestInv, SurfacedInv, [BlockedNext]_blockedVars
  PROVE  SurfacedInv'
<1>1. (file # Torn => Told(file))'
  <2>1. CASE file' = file
    <3>1. file # Torn => file \in Records
      BY DEF BlockedTypes, BlockedTypeOK
    <3> QED BY <2>1, <3>1, ToldGrows DEF SurfacedInv, Told, Tangled
  <2>2. ASSUME NEW w \in Writers, Truncate(w) \/ Write(w)
        PROVE  (file # Torn => Told(file))'
    BY <2>2 DEF Truncate, Write, SurfacedInv, Told, Tangled, history
  <2> QED BY <2>1, <2>2 DEF BlockedNext, PollStep, PollStart, LookAtPane, Get, Mark, Reget, Clear,
          HoldBack, Surface, Announce, DropDead, AnswerStep, Hear, Still, PressDigit, Confirm, Answered,
          Session, Ask, Resolve, Die, Reconnect, blockedVars
<1>2. (at = "surface" => \A s \in todo : listed[s] # None /\ spoken[s][listed[s][1]] > 0)'
  <2>1. CASE Announce
    <3>1. todo' = Pending /\ listed' = listed
      BY <2>1 DEF Announce
    <3>2. ASSUME NEW s \in Pending
          PROVE  listed[s] # None /\ spoken'[s][listed[s][1]] > 0
      <4>1. s \in Sessions /\ listed[s] # None /\ listed[s][1] \in Questions
        BY <2>1, AnnounceTypes DEF Pending
      <4>2. spoken[s][listed[s][1]] \in 0..2
        BY <4>1 DEF BlockedTypes, BlockedTypeOK
      <4> QED BY <2>1, <4>1, <4>2, AnnounceTypes
    <3> QED BY <3>1, <3>2
  <2>2. CASE ~Announce /\ at' = "surface"
    <3>1. at = "surface" /\ listed' = listed /\ todo' \subseteq todo /\ spoken' = spoken
      BY <2>2 DEF BlockedNext, PollStep, PollStart, LookAtPane, Get, Mark, Reget, Clear, ThenNext,
         HoldBack, Surface, PollerAt, Truncate, Write, DropDead, AnswerStep, Hear, Still, PressDigit,
         Confirm, Answered, Session, Ask, Resolve, Die, Reconnect, poller, blockedVars
    <3> QED BY <3>1 DEF SurfacedInv
  <2> QED BY <2>1, <2>2
<1>3. \A v \in Writers : Busy(v)' => Told(job[v][2])'
  <2>1. ASSUME \A v \in Writers : job'[v] # None => job[v] # None /\ job'[v][2] = job[v][2]
        PROVE  \A v \in Writers : Busy(v)' => Told(job[v][2])'
    <3>1. SUFFICES ASSUME NEW v \in Writers, job'[v] # None
                   PROVE  Told(job[v][2])'
      BY DEF Busy
    <3>2. job[v][2] \in Records /\ Told(job[v][2])
      BY <2>1, <3>1 DEF BlockedTypes, BlockedTypeOK, SurfacedInv, Busy
    <3>3. job'[v][2] = job[v][2]
      BY <2>1, <3>1
    <3> QED BY <3>2, <3>3, ToldGrows DEF Told, Tangled
  <2>2. CASE job' = job
    BY <2>1, <2>2
  <2>3. ASSUME NEW w \in Writers, Truncate(w) \/ Write(w)
        PROVE  \A v \in Writers : Busy(v)' => Told(job[v][2])'
    <3>1. job[w] \in {"changed", "truncated"} \X Records
      BY <2>3 DEF BlockedTypes, BlockedTypeOK, Truncate, Write, Busy
    <3>2. [job[w] EXCEPT ![1] = "truncated"][2] = job[w][2]
      BY <3>1
    <3> QED BY <2>1, <2>3, <3>2 DEF BlockedTypes, BlockedTypeOK, Truncate, Write, Busy
  <2>4. CASE Mark
    <3>1. /\ cap \in Questions /\ MarkBlocked("poller", Member, cap)
          /\ spoken' = spoken /\ hurried' = hurried
      BY <2>4, SessionFacts DEF Mark, PollerAt, BlockedTypes, BlockedTypeOK, Questions
    <3> QED BY <3>1, ToldJobs, MemberIsOne DEF Writers
  <2>5. ASSUME NEW w \in Writers, NEW s \in Sessions, ClearBlocked(w, s), spoken' = spoken, hurried' = hurried
        PROVE  \A v \in Writers : Busy(v)' => Told(job[v][2])'
    <3>1. CASE job' = job
      BY <2>2, <3>1
    <3>2. CASE Read[s] # None
      BY <2>5, <3>2, ToldJobs, HeardRecord
    <3> QED BY <2>5, <3>1, <3>2 DEF ClearBlocked
  <2>6. CASE Surface
    <3>1. spoken' = spoken /\ hurried' = hurried /\ at = "surface"
      BY <2>6 DEF Surface, PollerAt
    <3>2. CASE job' = job
      BY <2>2, <3>2
    <3>3. CASE job' # job
      <4>1. PICK s \in todo : MarkSurfaced("poller", s)
        BY <2>6, <3>3 DEF Surface
      <4>2. s \in Sessions /\ Read[s] # None
        BY <3>3, <4>1 DEF BlockedTypes, BlockedTypeOK, MarkSurfaced
      <4>3. /\ Current(s, Read[s][1]) /\ Current(s, listed[s][1])
            /\ spoken[s][listed[s][1]] > 0
        BY <3>1, <4>1, <4>2, LatestRead DEF LatestInv, Latest, SurfacedInv
      <4>4. spoken[s][Read[s][1]] > 0 \/ Tangled(s, Read[s][1])
        <5>1. CASE Read[s][1] = listed[s][1]
          BY <4>3, <5>1
        <5>2. CASE Read[s][1] # asks[s]
          BY <4>3, <5>2 DEF Current, Tangled
        <5>3. CASE Read[s][1] = asks[s] /\ listed[s][1] # asks[s]
          BY <4>3, <5>3 DEF Current, Tangled
        <5> QED BY <5>1, <5>2, <5>3
      <4> QED BY <3>1, <4>1, <4>2, <4>4, ToldJobs, HeardRecord DEF Writers
    <3> QED BY <3>2, <3>3
  <2> QED BY <2>2, <2>3, <2>4, <2>5, <2>6, MemberIsOne
          DEF BlockedNext, PollStep, PollStart, LookAtPane, Get, Reget, Clear, HoldBack, Announce,
          DropDead, DeadOnRecord, AnswerStep, Hear, Still, PressDigit, Confirm, Answered, Session, Ask,
          Resolve, Die, Reconnect, blockedVars, Writers
<1> QED BY <1>1, <1>2, <1>3 DEF SurfacedInv

(* A write to the file "is not itself the surfacing event, speaking it is": *)
(* a question on record as surfaced has been announced, however many        *)
(* members there are and whatever the writers undo of each other's work,    *)
(* unless it is tangled with another question of its session.               *)
THEOREM SurfacedIsSpoken == BlockedSpec => []SurfacedWasSpoken
<1>1. BlockedInit => HitInv /\ SurfacedInv
  <2> SUFFICES ASSUME BlockedInit
               PROVE  HitInv /\ SurfacedInv
    OBVIOUS
  <2>1. LatestInv /\ AnswerHitsItsQuestion
    BY DEF BlockedInit, LatestInv, Latest, Busy, Empty, AnswerHitsItsQuestion
  <2>2. SurfacedInv
    BY DEF BlockedInit, SurfacedInv, Told, Busy, Empty
  <2> QED BY <2>1, <2>2, BlockedInitTypes DEF HitInv
<1>2. HitInv /\ SurfacedInv /\ [BlockedNext]_blockedVars => (HitInv /\ SurfacedInv)'
  BY HitStep, SurfacedStep DEF HitInv
<1>3. HitInv /\ SurfacedInv => SurfacedWasSpoken
  BY ToldRead DEF HitInv, Told, SurfacedWasSpoken
<1> QED BY <1>1, <1>2, <1>3, PTL DEF BlockedSpec
-----------------------------------------------------------------------------
(* A write under way goes on with the same records. *)
LEMMA TruncateKeeps ==
  ASSUME BlockedTypes, NEW w \in Writers, Truncate(w)
  PROVE  /\ Busy(w) /\ Busy(w)' /\ job'[w][1] = "truncated" /\ job'[w][2] = job[w][2]
         /\ job[w][1] = "changed" /\ \A v \in Writers \ {w} : job'[v] = job[v]
<1>1. job[w] \in {"changed", "truncated"} \X Records
  BY DEF BlockedTypes, BlockedTypeOK, Truncate, Busy
<1>2. /\ [job[w] EXCEPT ![1] = "truncated"][1] = "truncated"
      /\ [job[w] EXCEPT ![1] = "truncated"][2] = job[w][2]
      /\ [job[w] EXCEPT ![1] = "truncated"] # None
  BY <1>1 DEF None
<1>3. job'[w] = [job[w] EXCEPT ![1] = "truncated"] /\ \A v \in Writers \ {w} : job'[v] = job[v]
  BY DEF Truncate, BlockedTypes, BlockedTypeOK
<1> QED BY <1>2, <1>3 DEF Truncate, Busy

LEMMA WriteEnds ==
  ASSUME BlockedTypes, NEW w \in Writers, Write(w)
  PROVE  /\ Busy(w) /\ job[w][1] = "truncated" /\ ~Busy(w)' /\ job[w][2] \in Records
         /\ \A v \in Writers \ {w} : job'[v] = job[v]
BY DEF Write, Busy, BlockedTypes, BlockedTypeOK

(* What is changed is read by a writer that is alone.                       *)
LEMMA Alone ==
  ASSUME SerialInv, NEW w \in Writers, ~Busy(w), Reads(w), ~overlapped'
  PROVE  ~overlapped /\ file # Torn /\ \A v \in Writers : ~Busy(v)
<1>1. ~overlapped /\ \A v \in Writers : ~Busy(v)
  BY DEF Reads
<1> QED BY <1>1 DEF SerialInv

LEMMA OverlapGrows ==
  ASSUME [BlockedNext]_blockedVars, overlapped
  PROVE  overlapped'
BY DEF BlockedNext, PollStep, PollStart, LookAtPane, Get, Mark, Reget, Clear, HoldBack, Surface,
   Announce, Truncate, Write, DropDead, AnswerStep, Hear, Still, PressDigit, Confirm, Answered,
   Session, Ask, Resolve, Die, Reconnect, MarkBlocked, MarkSurfaced, ClearBlocked, Reads,
   history, blockedVars

(* A step changes nothing of what is on record or in hand, goes on with a   *)
(* write, or begins one.                                                    *)
Begins(w, s, record) ==
  /\ ~Busy(w) /\ Reads(w) /\ file' = file
  /\ Begin(w, [Read EXCEPT ![s] = record]) /\ [Read EXCEPT ![s] = record] \in Records

LEMMA Marking ==
  ASSUME BlockedTypes, NEW w \in Writers, NEW s \in Sessions, NEW q \in Questions,
         ~Busy(w), file' = file,
         MarkBlocked(w, s, q) \/ MarkSurfaced(w, s) \/ ClearBlocked(w, s)
  PROVE  \/ job' = job
         \/ \E x : Begins(w, s, x)
<1>1. Read \in Records
  BY ReadIsRecords
<1> QED BY <1>1, ChangedRecords DEF MarkBlocked, MarkSurfaced, ClearBlocked, Begins

LEMMA Clearing ==
  ASSUME BlockedTypes, NEW w \in Writers, NEW s \in Sessions,
         ~Busy(w), file' = file, ClearBlocked(w, s)
  PROVE  job' = job \/ (Read[s] # None /\ Begins(w, s, None))
<1>1. [Read EXCEPT ![s] = None] \in Records
  BY ReadIsRecords DEF Records
<1> QED BY <1>1 DEF ClearBlocked, Begins

LEMMA Marks ==
  ASSUME BlockedTypes, Mark
  PROVE  /\ Member \in Sessions /\ file' = file
         /\ \/ job' = job /\ age' = age /\ Read[Member] # None
            \/ /\ Begins("poller", Member, Record(cap, FALSE))
               /\ Read[Member] = None /\ age' = [age EXCEPT ![Member] = 0]
<1>1. Member \in Sessions /\ Read \in Records
  BY MemberIsOne, ReadIsRecords
<1>2. cap \in Questions
  BY SessionFacts DEF Mark, PollerAt, BlockedTypes, BlockedTypeOK, Questions
<1>3. [Read EXCEPT ![Member] = Record(cap, FALSE)] \in Records
  BY <1>1, <1>2, ChangedRecords
<1> QED BY <1>1, <1>3 DEF Mark, MarkBlocked, Begins, PollerAt

LEMMA Surfaces ==
  ASSUME BlockedTypes, Surface, todo # {}
  PROVE  \E s \in todo :
           /\ todo' = todo \ {s} /\ at' = at /\ file' = file /\ Reads("poller")
           /\ \/ job' = job /\ Read[s] = None
              \/ Begins("poller", s, Record(Read[s][1], TRUE)) /\ Read[s] # None
<1>1. PICK s \in todo : todo' = todo \ {s} /\ MarkSurfaced("poller", s) /\ at' = at
  BY DEF Surface
<1>2. s \in Sessions /\ Read \in Records
  BY ReadIsRecords DEF BlockedTypes, BlockedTypeOK
<1>3. Read[s] # None => [Read EXCEPT ![s] = Record(Read[s][1], TRUE)] \in Records
  BY <1>2, HeardRecord, ChangedRecords
<1> QED BY <1>1, <1>2, <1>3 DEF Surface, MarkSurfaced, Begins, PollerAt

LEMMA Kinds ==
  ASSUME BlockedTypes, [BlockedNext]_blockedVars
  PROVE  \/ job' = job /\ file' = file
         \/ \E w \in Writers : Truncate(w) \/ Write(w)
         \/ \E w \in Writers, s \in Sessions : \E x : Begins(w, s, x)
<1>1. CASE Mark
  BY <1>1, Marks DEF Writers
<1>2. CASE Clear
  BY <1>2, Clearing, MemberIsOne DEF Clear, PollerAt, Writers
<1>3. CASE Surface
  <2>1. CASE todo = {}
    BY <1>3, <2>1 DEF Surface
  <2>2. CASE todo # {}
    <3>1. todo \subseteq Sessions
      BY DEF BlockedTypes, BlockedTypeOK
    <3> QED BY <1>3, <2>2, <3>1, Surfaces DEF Writers
  <2> QED BY <2>1, <2>2
<1>4. ASSUME NEW w \in Writers, DropDead(w)
      PROVE  (job' = job /\ file' = file) \/ \E s \in Sessions : \E x : Begins(w, s, x)
  BY <1>4, Clearing DEF DropDead, DeadOnRecord
<1>5. ASSUME NEW s \in Sessions, NEW q \in Questions, Answered(s, q)
      PROVE  (job' = job /\ file' = file) \/ \E x : Begins("router", s, x)
  BY <1>5, Clearing DEF Answered, Writers
<1>6. CASE AnswerStep
  BY <1>5, <1>6 DEF AnswerStep, Hear, Still, PressDigit, Confirm, Questions, Writers
<1> QED BY <1>1, <1>2, <1>3, <1>4, <1>6
        DEF BlockedNext, PollStep, PollStart, LookAtPane, Get, Reget, HoldBack, Announce,
        Session, Ask, Resolve, Die, Reconnect, blockedVars

LEMMA BeginsFacts ==
  ASSUME BlockedTypes, SerialInv, NEW w \in Writers, NEW s \in Sessions, NEW x, Begins(w, s, x),
         ~overlapped'
  PROVE  /\ ~overlapped /\ file # Torn /\ file' = file /\ file \in Records /\ Read = file
         /\ \A v \in Writers : ~Busy(v)
         /\ Busy(w)' /\ job'[w][1] = "changed"
         /\ \A t \in Sessions : job'[w][2][t] = IF t = s THEN x ELSE file[t]
         /\ \A v \in Writers \ {w} : ~Busy(v)'
<1>1. ~overlapped /\ file # Torn /\ \A v \in Writers : ~Busy(v)
  BY Alone DEF Begins
<1>2. file \in Records /\ Read = file
  BY <1>1 DEF BlockedTypes, BlockedTypeOK, Read
<1>3. /\ job'[w] = <<"changed", [file EXCEPT ![s] = x]>> /\ job'[w] # None
      /\ \A v \in Writers \ {w} : job'[v] = job[v]
  BY <1>2, BeginTypes DEF Begins
<1>4. \A t \in Sessions : [file EXCEPT ![s] = x][t] = IF t = s THEN x ELSE file[t]
  BY <1>2 DEF Records
<1> QED BY <1>1, <1>2, <1>3, <1>4 DEF Begins, Busy

LEMMA SerialStep ==
  ASSUME BlockedTypes, SerialInv, [BlockedNext]_blockedVars
  PROVE  SerialInv'
<1> SUFFICES ASSUME ~overlapped'
             PROVE  /\ (\A v, w \in Writers : Busy(v) /\ Busy(w) => v = w)'
                    /\ (file = Torn <=> \E w \in Writers : Busy(w) /\ job[w][1] = "truncated")'
                    /\ (Busy("poller") => at \notin {"idle", "get", "mark", "clear"})'
  BY DEF SerialInv
<1>0. /\ ~overlapped /\ \A v, w \in Writers : Busy(v) /\ Busy(w) => v = w
      /\ file = Torn <=> \E w \in Writers : Busy(w) /\ job[w][1] = "truncated"
      /\ Busy("poller") => at \notin {"idle", "get", "mark", "clear"}
  BY OverlapGrows DEF SerialInv
<1>1. /\ (\A v, w \in Writers : Busy(v) /\ Busy(w) => v = w)'
      /\ (file = Torn <=> \E w \in Writers : Busy(w) /\ job[w][1] = "truncated")'
  <2>1. CASE job' = job /\ file' = file
    BY <1>0, <2>1 DEF Busy
  <2>2. ASSUME NEW w \in Writers, Truncate(w)
        PROVE  /\ (\A v, u \in Writers : Busy(v) /\ Busy(u) => v = u)'
               /\ (file = Torn <=> \E u \in Writers : Busy(u) /\ job[u][1] = "truncated")'
    <3>1. /\ Busy(w) /\ Busy(w)' /\ job'[w][1] = "truncated"
          /\ \A v \in Writers \ {w} : job'[v] = job[v]
      BY <2>2, TruncateKeeps
    <3>2. file' = Torn
      BY <2>2 DEF Truncate
    <3> QED BY <1>0, <3>1, <3>2 DEF Busy
  <2>3. ASSUME NEW w \in Writers, Write(w)
        PROVE  /\ (\A v, u \in Writers : Busy(v) /\ Busy(u) => v = u)'
               /\ (file = Torn <=> \E u \in Writers : Busy(u) /\ job[u][1] = "truncated")'
    <3>1. /\ Busy(w) /\ ~Busy(w)' /\ job[w][1] = "truncated" /\ job[w][2] # Torn
          /\ \A v \in Writers \ {w} : job'[v] = job[v]
      BY <2>3, WriteEnds, NotTorn
    <3>2. \A v \in Writers : ~Busy(v)'
      BY <1>0, <3>1 DEF Busy
    <3>3. file = Torn
      BY <1>0, <3>1
    <3>4. file' # Torn
      BY <2>3, <3>1, <3>3 DEF Write
    <3> QED BY <3>2, <3>4
  <2>4. ASSUME NEW w \in Writers, NEW s \in Sessions, NEW x, Begins(w, s, x)
        PROVE  /\ (\A v, u \in Writers : Busy(v) /\ Busy(u) => v = u)'
               /\ (file = Torn <=> \E u \in Writers : Busy(u) /\ job[u][1] = "truncated")'
    <3>1. /\ file # Torn /\ file' = file /\ job'[w][1] = "changed"
          /\ \A v \in Writers \ {w} : ~Busy(v)'
      BY <2>4, BeginsFacts
    <3> QED BY <3>1
  <2> QED BY <2>1, <2>2, <2>3, <2>4, Kinds
<1>2. (Busy("poller") => at \notin {"idle", "get", "mark", "clear"})'
  <2>1. CASE PollStep \/ Announce
    <3>1. ~Busy("poller")
      BY <2>1 DEF PollStep, PollStart, LookAtPane, Get, Mark, Reget, Clear, HoldBack, Surface,
         Announce, PollerAt
    <3>2. CASE Mark \/ Clear
      BY <3>2 DEF Mark, Clear, ThenNext
    <3>3. CASE Surface /\ todo # {}
      BY <3>3, Surfaces DEF Surface, PollerAt
    <3>4. CASE job' = job
      BY <3>1, <3>4 DEF Busy
    <3> QED BY <2>1, <3>2, <3>3, <3>4
            DEF PollStep, PollStart, LookAtPane, Get, Reget, HoldBack, Surface, Announce
  <2>2. CASE ~(PollStep \/ Announce)
    <3>1. at' = at
      BY <2>2 DEF BlockedNext, Truncate, Write, DropDead, AnswerStep, Hear, Still, PressDigit,
         Confirm, Answered, Session, Ask, Resolve, Die, Reconnect, poller, blockedVars
    <3>2. Busy("poller")' => Busy("poller")
      <4>1. ASSUME NEW w \in Writers, Truncate(w) \/ Write(w)
            PROVE  Busy("poller")' => Busy("poller")
        BY <4>1, TruncateKeeps, WriteEnds DEF Busy, Writers
      <4>2. ASSUME NEW w \in {"router", "concierge"}, NEW s \in Sessions, ClearBlocked(w, s)
            PROVE  Busy("poller")' => Busy("poller")
        BY <4>2 DEF ClearBlocked, Begin, Busy, BlockedTypes, BlockedTypeOK, Writers
      <4>3. CASE job' = job
        BY <4>3 DEF Busy
      <4> QED BY <2>2, <4>1, <4>2, <4>3
              DEF BlockedNext, DropDead, DeadOnRecord, AnswerStep, Hear, Still, PressDigit, Confirm,
              Answered, Session, Ask, Resolve, Die, Reconnect, blockedVars
    <3> QED BY <1>0, <3>1, <3>2
  <2> QED BY <2>1, <2>2
<1> QED BY <1>1, <1>2

-----------------------------------------------------------------------------
(* What is coming of a session, after a step. *)
LEMMA ComingSame ==
  ASSUME job' = job, file' = file, NEW s \in Sessions
  PROVE  Coming(s)' = Coming(s)
BY DEF Coming, Busy

LEMMA ComingFile ==
  ASSUME BlockedTypes, NEW w \in Writers, Truncate(w) \/ Write(w), NEW s \in Sessions
  PROVE  Coming(s)' \subseteq Coming(s)
<1>1. CASE Truncate(w)
  <2>1. \A v \in Writers : (Busy(v)' <=> Busy(v)) /\ (Busy(v) => job'[v][2] = job[v][2])
    BY <1>1, TruncateKeeps DEF Busy
  <2>2. file' = Torn
    BY <1>1 DEF Truncate
  <2> QED BY <2>1, <2>2 DEF Coming
<1>2. CASE Write(w)
  <2>1. /\ Busy(w) /\ ~Busy(w)' /\ \A v \in Writers \ {w} : (Busy(v)' <=> Busy(v)) /\ job'[v] = job[v]
    BY <1>2, WriteEnds DEF Busy
  <2>2. file' = Torn \/ file' = job[w][2]
    BY <1>2 DEF Write
  <2>3. job[w][2][s] \in Coming(s)
    BY <2>1 DEF Coming
  <2> QED BY <2>1, <2>2, <2>3 DEF Coming
<1> QED BY <1>1, <1>2

LEMMA ComingBegin ==
  ASSUME BlockedTypes, SerialInv, NEW w \in Writers, NEW s \in Sessions, NEW x, Begins(w, s, x),
         ~overlapped', NEW t \in Sessions
  PROVE  /\ Coming(t) = {file[t]} /\ Read[t] = file[t]
         /\ Coming(t)' \subseteq {file[t], job'[w][2][t]}
         /\ w = "poller" => Coming(t)' = {job'[w][2][t]}
         /\ job'[w][2][t] = IF t = s THEN x ELSE file[t]
<1>1. /\ file # Torn /\ file' = file /\ Read = file
      /\ \A v \in Writers : ~Busy(v)
      /\ Busy(w)' /\ \A v \in Writers \ {w} : ~Busy(v)'
      /\ job'[w][2][t] = IF t = s THEN x ELSE file[t]
  BY BeginsFacts
<1>2. "poller" \in Writers
  BY DEF Writers
<1> QED BY <1>1, <1>2 DEF Coming

-----------------------------------------------------------------------------
(* A question that is asked with no trace of another. *)
LEMMA AskGuarded ==
  ASSUME BlockedTypes, SurfacedInv, NEW s \in Sessions, CountInv(s), Ask(s), Clean(s)'
  PROVE  Guarded(s)' /\ ~AlreadyTold(s)'
<1>0. UNCHANGED <<alive, file, job, tool, at, cur, cap, listed, todo, spoken>> /\ alive[s]
  BY DEF Ask, poller
<1>1. asks'[s] = asks[s] + 1 /\ asks[s] \in Nat /\ ~Traced(s)
  BY AskCurrent DEF Clean
<1>2. ~AlreadyTold(s)'
  <2>1. asks[s] + 1 \in Questions
    BY <1>1, SessionFacts DEF Ask, BlockedTypes, BlockedTypeOK, Questions
  <2>2. spoken[s][asks[s] + 1] = 0
    BY <1>1, <2>1 DEF CountInv
  <2> QED BY <1>0, <1>1, <2>2 DEF AlreadyTold
<1>3. /\ \A w \in Writers : Busy(w) => job[w][2][s] = None
      /\ file # Torn => file[s] = None
      /\ at # "idle" => listed[s] = None
      /\ tool # None => tool[2] # s
  BY <1>1 DEF Traced, Read
<1>4. Coming(s) \subseteq {None} /\ Coming(s)' = Coming(s)
  BY <1>0, <1>3, ComingSame DEF Coming
<1>5. at = "surface" => s \notin todo
  BY <1>3 DEF SurfacedInv
<1>6. \A w \in Writers \ {"poller"} : Busy(w)' /\ file' # Torn => job'[w][2][s] = file'[s]
  BY <1>0, <1>3 DEF Busy
<1> QED BY <1>0, <1>1, <1>2, <1>3, <1>4, <1>5, <1>6 DEF Guarded

(* What the others do while the poller stands still. *)
LEMMA GuardedQuiet ==
  ASSUME NEW s \in Sessions, Guarded(s), UNCHANGED <<at, cur, cap, listed, todo>>,
         asks'[s] = asks[s], spoken'[s] = spoken[s], alive'[s],
         Coming(s)' \subseteq Coming(s),
         tool' # None /\ tool'[2] = s => tool'[1] # "clear",
         \A w \in Writers \ {"poller"} : Busy(w)' /\ file' # Torn => job'[w][2][s] = file'[s]
  PROVE  Guarded(s)'
<1>1. AlreadyTold(s)' <=> AlreadyTold(s)
  BY DEF AlreadyTold
<1>2. \A step : AtMember(s, step)' <=> AtMember(s, step)
  BY DEF AtMember, Member
<1> QED BY <1>1, <1>2 DEF Guarded

LEMMA GuardedFile ==
  ASSUME BlockedTypes, SerialInv, NEW s \in Sessions, Guarded(s), ~overlapped',
         NEW w \in Writers, Truncate(w) \/ Write(w)
  PROVE  Guarded(s)'
<1>1. UNCHANGED <<at, cur, cap, listed, todo, asks, spoken, alive, tool>> /\ overlapped' = overlapped
  BY DEF Truncate, Write, panes, poller, history
<1>2. Coming(s)' \subseteq Coming(s)
  BY ComingFile
<1>3. \A v \in Writers \ {"poller"} : Busy(v)' /\ file' # Torn => job'[v][2][s] = file'[s]
  <2>1. CASE Truncate(w)
    BY <2>1 DEF Truncate
  <2>2. CASE Write(w)
    <3>1. \A v \in Writers : ~Busy(v)'
      BY <1>1, <2>2, WriteEnds DEF SerialInv, Busy
    <3> QED BY <3>1
  <2> QED BY <2>1, <2>2
<1> QED BY <1>1, <1>2, <1>3, GuardedQuiet DEF Guarded

(* Another member's record is changed. *)
LEMMA GuardedBegin ==
  ASSUME BlockedTypes, SerialInv, ~overlapped', NEW s \in Sessions, NEW t \in Sessions \ {s},
         NEW w \in Writers, NEW x, Begins(w, t, x)
  PROVE  /\ Coming(s)' \subseteq Coming(s)
         /\ \A v \in Writers \ {"poller"} : Busy(v)' /\ file' # Torn => job'[v][2][s] = file'[s]
<1>1. /\ Coming(s) = {file[s]} /\ Coming(s)' \subseteq {file[s], job'[w][2][s]}
      /\ job'[w][2][s] = file[s]
  BY ComingBegin
<1>2. file' = file /\ \A v \in Writers \ {w} : ~Busy(v)'
  BY BeginsFacts
<1> QED BY <1>1, <1>2

LEMMA GuardedCleared ==
  ASSUME BlockedTypes, SerialInv, ~overlapped', NEW s \in Sessions, Guarded(s),
         NEW t \in Sessions \ {s}, NEW w \in Writers, ~Busy(w), ClearBlocked(w, t), file' = file
  PROVE  /\ Coming(s)' \subseteq Coming(s)
         /\ \A v \in Writers \ {"poller"} : Busy(v)' /\ file' # Torn => job'[v][2][s] = file'[s]
<1>1. CASE job' = job
  BY <1>1, ComingSame DEF Guarded, Busy
<1>2. CASE Begins(w, t, None)
  BY <1>2, GuardedBegin
<1> QED BY <1>1, <1>2, Clearing

LEMMA GuardedAnswer ==
  ASSUME BlockedTypes, SerialInv, ~overlapped', NEW s \in Sessions, Guarded(s), open[s], open'[s],
         AnswerStep \/ \E w \in Writers : DropDead(w)
  PROVE  Guarded(s)'
<1>0. UNCHANGED <<at, cur, cap, listed, todo, asks, spoken, alive, file>>
  BY DEF AnswerStep, Hear, Still, PressDigit, Confirm, Answered, DropDead, panes, poller
<1>1. alive'[s]
  BY <1>0 DEF Guarded
<1>2. ASSUME job' = job, tool' # None /\ tool'[2] = s => tool'[1] # "clear"
      PROVE  Guarded(s)'
  <2>1. Coming(s)' \subseteq Coming(s)
    BY <1>0, <1>2, ComingSame
  <2>2. \A w \in Writers \ {"poller"} : Busy(w)' /\ file' # Torn => job'[w][2][s] = file'[s]
    BY <1>0, <1>2 DEF Guarded, Busy
  <2> QED BY <1>0, <1>1, <1>2, <2>1, <2>2, GuardedQuiet
<1>3. ASSUME NEW t \in Sessions, Hear(t)
      PROVE  Guarded(s)'
  BY <1>2, <1>3 DEF Hear
<1>4. ASSUME NEW t \in Sessions, NEW q \in Questions, Still(t, q) \/ PressDigit(t, q)
      PROVE  Guarded(s)'
  <2>1. tool' # None => tool'[1] # "clear"
    BY <1>4 DEF Still, PressDigit
  <2> QED BY <1>2, <1>4, <2>1 DEF Still, PressDigit
<1>5. ASSUME NEW t \in Sessions, NEW q \in Questions, Confirm(t, q)
      PROVE  Guarded(s)'
  <2>1. tool' # None /\ tool'[2] = s => tool'[1] # "clear"
    BY <1>5 DEF Confirm
  <2> QED BY <1>2, <1>5, <2>1 DEF Confirm
<1>6. ASSUME NEW t \in Sessions, NEW q \in Questions, Answered(t, q)
      PROVE  Guarded(s)'
  <2>1. t # s /\ tool' = None /\ ClearBlocked("router", t) /\ ~Busy("router")
    BY <1>6 DEF Answered, Guarded, None
  <2> QED BY <1>0, <1>1, <2>1, GuardedCleared, GuardedQuiet DEF Writers
<1>7. ASSUME NEW w \in Writers, DropDead(w)
      PROVE  Guarded(s)'
  <2>1. PICK t \in DeadOnRecord : ClearBlocked(w, t) /\ ~Busy(w)
    BY <1>7 DEF DropDead
  <2>2. t \in Sessions \ {s} /\ tool' = tool
    BY <1>7, <2>1 DEF DropDead, DeadOnRecord, Guarded
  <2> QED BY <1>0, <1>1, <2>1, <2>2, GuardedCleared, GuardedQuiet DEF Guarded
<1> QED BY <1>3, <1>4, <1>5, <1>6, <1>7 DEF AnswerStep, Questions

LEMMA PollerBegins ==
  ASSUME BlockedTypes, SerialInv, NEW s \in Sessions, NEW x, Begins("poller", s, x), ~overlapped'
  PROVE  /\ Coming(s) = {file[s]} /\ Read[s] = file[s] /\ Coming(s)' = {x}
         /\ \A v \in Writers \ {"poller"} : ~Busy(v)'
<1>1. PICK w \in Writers : w = "poller"
  BY DEF Writers
<1>2. Begins(w, s, x)
  BY <1>1
<1>3. /\ Coming(s) = {file[s]} /\ Read[s] = file[s]
      /\ Coming(s)' = {job'[w][2][s]} /\ job'[w][2][s] = x
  BY <1>1, <1>2, ComingBegin
<1>4. \A v \in Writers \ {w} : ~Busy(v)'
  BY <1>2, BeginsFacts
<1> QED BY <1>1, <1>3, <1>4

(* What is on record is coming, and nothing else is.                        *)
LEMMA ReadComes ==
  ASSUME BlockedTypes, NEW s \in Sessions, Guarded(s), ~Busy("poller"), Read[s] # None
  PROVE  Coming(s) = {Read[s]}
<1>1. file # Torn /\ Read[s] = file[s]
  BY DEF Read, Empty
<1>2. \A w \in Writers : Busy(w) => job[w][2][s] = file[s]
  BY <1>1 DEF Guarded
<1> QED BY <1>1, <1>2 DEF Coming

(* The poller goes on to a step other than surfacing. *)
LEMMA GuardedMoves ==
  ASSUME NEW s \in Sessions, Guarded(s), UNCHANGED <<asks, alive, tool, spoken>>,
         at' # "surface", ~(at = "surface" /\ s \in todo),
         Coming(s)' \subseteq Coming(s),
         AtMember(s, "clear")' \/ (AtMember(s, "get")' /\ cap' = 0) =>
           Coming(s) \subseteq {None} /\ ~AlreadyTold(s),
         at' # "idle" /\ listed'[s] # None => None \notin Coming(s),
         \A w \in Writers \ {"poller"} : Busy(w)' /\ file' # Torn => job'[w][2][s] = file'[s]
  PROVE  Guarded(s)'
<1>1. AlreadyTold(s)' <=> AlreadyTold(s)
  BY DEF AlreadyTold
<1> QED BY <1>1 DEF Guarded

LEMMA GuardedList ==
  ASSUME BlockedTypes, NEW s \in Sessions, open[s], Guarded(s),
         PollStart \/ LookAtPane \/ Get \/ Reget \/ HoldBack
  PROVE  Guarded(s)'
<1>1. UNCHANGED <<asks, alive, tool, spoken, job, file>>
  BY DEF PollStart, LookAtPane, Get, Reget, HoldBack, panes
<1>2. /\ Coming(s)' = Coming(s) /\ ~Busy("poller") /\ Member \in Sessions
      /\ \A w \in Writers \ {"poller"} : Busy(w)' /\ file' # Torn => job'[w][2][s] = file'[s]
  BY <1>1, ComingSame, MemberIsOne
     DEF PollStart, LookAtPane, Get, Reget, HoldBack, PollerAt, Guarded, Busy
<1>3. at' # "surface" /\ at # "surface"
  BY DEF PollStart, LookAtPane, Get, Reget, HoldBack, PollerAt, ThenNext
<1>4. AtMember(s, "clear")' \/ (AtMember(s, "get")' /\ cap' = 0) =>
        Coming(s) \subseteq {None} /\ ~AlreadyTold(s)
  <2>1. CASE LookAtPane
    <3>1. at' = "get" => cur' = cur /\ cap' = Captured(Member)
      BY <2>1 DEF LookAtPane, ThenNext
    <3>2. at' = "get" /\ Member = s => cap' = asks[s] /\ asks[s] # 0
      BY <3>1 DEF Captured, Guarded
    <3> QED BY <2>1, <3>1, <3>2 DEF LookAtPane, ThenNext, AtMember, Member
  <2>2. CASE Get
    <3>1. /\ at = "get" /\ at' # "get"
          /\ at' = "clear" => Read[Member] # None /\ cap = 0 /\ cur' = cur
      BY <2>2 DEF Get, PollerAt, ThenNext
    <3>2. CASE at' = "clear" /\ Member = s
      <4>1. Coming(s) \subseteq {None} /\ Coming(s) = {Read[s]} /\ Read[s] # None
        BY <1>2, <3>1, <3>2, ReadComes DEF Guarded, AtMember
      <4> QED BY <4>1
    <3> QED BY <3>1, <3>2 DEF AtMember, Member
  <2>3. CASE PollStart \/ Reget \/ HoldBack
    BY <2>3 DEF PollStart, Reget, HoldBack, ThenNext, AtMember
  <2> QED BY <2>1, <2>2, <2>3
<1>5. at' # "idle" /\ listed'[s] # None => None \notin Coming(s)
  <2>1. CASE PollStart
    BY <2>1 DEF PollStart, Empty
  <2>2. CASE HoldBack
    BY <2>2 DEF HoldBack
  <2>3. CASE LookAtPane \/ Get \/ Reget
    <3>1. at \in {"look", "get", "reget"}
      BY <2>3 DEF LookAtPane, Get, Reget, PollerAt
    <3>2. CASE at' = "idle" \/ listed' = listed
      BY <3>1, <3>2 DEF Guarded
    <3>3. CASE listed' = [listed EXCEPT ![Member] = Read[Member]]
      <4>1. CASE Member = s
        <5>1. listed'[s] = Read[s]
          BY <3>3, <4>1 DEF BlockedTypes, BlockedTypeOK, Records
        <5> QED BY <1>2, <5>1, ReadComes
      <4>2. CASE Member # s
        BY <3>1, <3>3, <4>2 DEF Guarded
      <4> QED BY <4>1, <4>2
    <3> QED BY <2>3, <3>2, <3>3 DEF LookAtPane, Get, Reget
  <2> QED BY <2>1, <2>2, <2>3
<1> QED BY <1>1, <1>2, <1>3, <1>4, <1>5, GuardedMoves

LEMMA GuardedMark ==
  ASSUME BlockedTypes, SerialInv, ~overlapped', NEW s \in Sessions, Guarded(s), Mark
  PROVE  Guarded(s)'
<1>1. /\ UNCHANGED <<asks, alive, tool, spoken, listed, cur, cap, file>>
      /\ at = "mark" /\ at' = "reget" /\ ~Busy("poller")
  BY DEF Mark, PollerAt, panes
<1>2. ~AtMember(s, "clear")' /\ ~AtMember(s, "get")'
  BY <1>1 DEF AtMember
<1>3. listed'[s] # None => None \notin Coming(s)
  BY <1>1 DEF Guarded
<1>4. CASE job' = job
  <2>1. /\ Coming(s)' = Coming(s)
        /\ \A w \in Writers \ {"poller"} : Busy(w)' /\ file' # Torn => job'[w][2][s] = file'[s]
    BY <1>1, <1>4, ComingSame DEF Guarded, Busy
  <2> QED BY <1>1, <1>2, <1>3, <2>1, GuardedMoves
<1>5. CASE Begins("poller", Member, Record(cap, FALSE)) /\ Read[Member] = None
  <2>1. Member \in Sessions /\ "poller" \in Writers
    BY MemberIsOne DEF Writers
  <2>2. CASE Member # s
    <3>1. /\ Coming(s)' \subseteq Coming(s)
          /\ \A v \in Writers \ {"poller"} : Busy(v)' /\ file' # Torn => job'[v][2][s] = file'[s]
      BY <1>5, <2>1, <2>2, GuardedBegin
    <3> QED BY <1>1, <1>2, <1>3, <3>1, GuardedMoves
  <2>3. CASE Member = s
    <3>1. PICK x : x = Record(cap, FALSE) /\ Begins("poller", s, x)
      BY <1>5, <2>3
    <3>2. /\ Coming(s) = {file[s]} /\ Read[s] = file[s] /\ Coming(s)' = {x}
          /\ \A v \in Writers \ {"poller"} : ~Busy(v)'
      BY <3>1, PollerBegins
    <3>3. ~AlreadyTold(s)'
      BY <1>1, <1>5, <2>3, <3>2 DEF Guarded, Ticked, AlreadyTold
    <3>4. Record(cap, FALSE) # None
      BY DEF Record, None
    <3> QED BY <1>1, <1>2, <3>1, <3>2, <3>3, <3>4 DEF Guarded
  <2> QED BY <2>2, <2>3
<1> QED BY <1>4, <1>5, Marks

LEMMA GuardedClear ==
  ASSUME BlockedTypes, SerialInv, ~overlapped', NEW s \in Sessions, Guarded(s), Clear
  PROVE  Guarded(s)'
<1>1. /\ UNCHANGED <<asks, alive, tool, spoken, listed, cap, file>>
      /\ at = "clear" /\ at' \in {"look", "escalate"} /\ ~Busy("poller")
      /\ ClearBlocked("poller", Member) /\ Member \in Sessions /\ "poller" \in Writers
  BY MemberIsOne DEF Clear, PollerAt, ThenNext, panes, Writers
<1>2. /\ Coming(s)' \subseteq Coming(s)
      /\ \A v \in Writers \ {"poller"} : Busy(v)' /\ file' # Torn => job'[v][2][s] = file'[s]
  <2>1. CASE Member # s
    BY <1>1, <2>1, GuardedCleared
  <2>2. CASE Member = s
    <3>1. Read[s] = None
      BY <1>1, <2>2, ReadComes DEF Guarded, AtMember
    <3>2. job' = job
      BY <1>1, <2>2, <3>1 DEF ClearBlocked
    <3> QED BY <1>1, <3>2, ComingSame DEF Guarded, Busy
  <2> QED BY <2>1, <2>2
<1>3. ~AtMember(s, "clear")' /\ ~AtMember(s, "get")'
  BY <1>1 DEF AtMember
<1>4. listed'[s] # None => None \notin Coming(s)
  BY <1>1 DEF Guarded
<1> QED BY <1>1, <1>2, <1>3, <1>4, GuardedMoves

LEMMA GuardedSurface ==
  ASSUME BlockedTypes, SerialInv, ~overlapped', NEW s \in Sessions, Guarded(s), Surface
  PROVE  Guarded(s)'
<1>1. /\ UNCHANGED <<asks, alive, tool, spoken, listed, cur, cap, file>>
      /\ at = "surface" /\ ~Busy("poller") /\ "poller" \in Writers
  BY DEF Surface, PollerAt, panes, Writers
<1>2. AlreadyTold(s)' <=> AlreadyTold(s)
  BY <1>1 DEF AlreadyTold
<1>3. CASE todo = {}
  <2>1. at' = "idle" /\ job' = job
    BY <1>3 DEF Surface
  <2>2. /\ Coming(s)' = Coming(s)
        /\ \A w \in Writers \ {"poller"} : Busy(w)' /\ file' # Torn => job'[w][2][s] = file'[s]
    BY <1>1, <2>1, ComingSame DEF Guarded, Busy
  <2>3. ~AtMember(s, "clear")' /\ ~AtMember(s, "get")'
    BY <2>1 DEF AtMember
  <2> QED BY <1>1, <1>3, <2>1, <2>2, <2>3, GuardedMoves
<1>4. CASE todo # {}
  <2>1. PICK t \in todo :
          /\ todo' = todo \ {t} /\ at' = at /\ Reads("poller")
          /\ \/ job' = job /\ Read[t] = None
             \/ Begins("poller", t, Record(Read[t][1], TRUE)) /\ Read[t] # None
    BY <1>4, Surfaces
  <2>2. t \in Sessions
    BY DEF BlockedTypes, BlockedTypeOK
  <2>3. ~AtMember(s, "clear")' /\ ~AtMember(s, "get")'
    BY <1>1, <2>1 DEF AtMember
  <2>4. CASE t # s
    <3>1. /\ Coming(s)' \subseteq Coming(s)
          /\ \A w \in Writers \ {"poller"} : Busy(w)' /\ file' # Torn => job'[w][2][s] = file'[s]
      <4>1. CASE job' = job
        BY <1>1, <4>1, ComingSame DEF Guarded, Busy
      <4>2. CASE Begins("poller", t, Record(Read[t][1], TRUE))
        BY <1>1, <2>2, <2>4, <4>2, GuardedBegin
      <4> QED BY <2>1, <4>1, <4>2
    <3>2. s \in todo' <=> s \in todo
      BY <2>1, <2>4
    <3> QED BY <1>1, <1>2, <2>1, <2>3, <3>1, <3>2 DEF Guarded
  <2>5. CASE t = s
    <3>1. file # Torn /\ None \notin Coming(s)
      BY <1>1, <2>1, <2>5, Alone DEF Guarded
    <3>2. Read[s] # None
      BY <1>1, <3>1 DEF Coming, Read
    <3>3. PICK x : x = Record(Read[s][1], TRUE) /\ Begins("poller", s, x)
      BY <2>1, <2>5, <3>2
    <3>5. Coming(s)' = {x} /\ \A w \in Writers \ {"poller"} : ~Busy(w)'
      BY <3>3, PollerBegins
    <3>4. Ticked(Record(Read[s][1], TRUE)) /\ Record(Read[s][1], TRUE) # None
      BY DEF Ticked, Record, None
    <3> QED BY <1>1, <2>1, <2>3, <3>3, <3>4, <3>5 DEF Guarded
  <2> QED BY <2>4, <2>5
<1> QED BY <1>3, <1>4

LEMMA GuardedAnnounce ==
  ASSUME BlockedTypes, NEW s \in Sessions, Guarded(s), Announce
  PROVE  Guarded(s)'
<1>1. /\ UNCHANGED <<asks, alive, tool, listed, cur, cap, file, job>>
      /\ at = "escalate" /\ at' = "surface" /\ todo' = Pending
  BY DEF Announce, PollerAt, panes
<1>2. s \notin Pending => spoken'[s] = spoken[s]
  BY DEF Announce
<1>3. Coming(s)' = Coming(s)
  BY <1>1, ComingSame
<1>4. s \in Pending => None \notin Coming(s)
  BY <1>1 DEF Guarded, Pending
<1>5. AlreadyTold(s)' /\ s \notin Pending => \A c \in Coming(s) : Ticked(c)
  BY <1>1, <1>2 DEF Guarded, AlreadyTold
<1>6. \A w \in Writers \ {"poller"} : Busy(w)' /\ file' # Torn => job'[w][2][s] = file'[s]
  BY <1>1 DEF Guarded, Busy
<1>7. ~AtMember(s, "clear")' /\ ~AtMember(s, "get")'
  BY <1>1 DEF AtMember
<1> QED BY <1>1, <1>3, <1>4, <1>5, <1>6, <1>7 DEF Guarded

LEMMA GuardedSession ==
  ASSUME BlockedTypes, NEW s \in Sessions, Guarded(s), open'[s],
         NEW t \in Sessions, Session(t), ~Ask(s)
  PROVE  Guarded(s)'
<1>1. UNCHANGED <<at, cur, cap, listed, todo, spoken, tool, job, file>>
  BY DEF Session, Ask, Resolve, Die, Reconnect, poller
<1>2. asks'[s] = asks[s] /\ alive'[s]
  <2>1. CASE t = s
    BY <2>1 DEF Session, Resolve, Die, Reconnect, Guarded, BlockedTypes, BlockedTypeOK
  <2>2. CASE t # s
    BY <2>2 DEF Session, Ask, Resolve, Die, Reconnect, Guarded, BlockedTypes, BlockedTypeOK
  <2> QED BY <2>1, <2>2
<1>3. /\ Coming(s)' = Coming(s)
      /\ \A w \in Writers \ {"poller"} : Busy(w)' /\ file' # Torn => job'[w][2][s] = file'[s]
  BY <1>1, ComingSame DEF Guarded, Busy
<1> QED BY <1>1, <1>2, <1>3, GuardedQuiet DEF Guarded

(* An open question stays the one it was, but for its being asked. *)
LEMMA StaysOpen ==
  ASSUME BlockedTypes, [BlockedNext]_blockedVars, NEW s \in Sessions, ~Ask(s)
  PROVE  asks'[s] = asks[s] /\ (open'[s] => open[s])
<1>1. ASSUME NEW t \in Sessions, Session(t)
      PROVE  asks'[s] = asks[s] /\ (open'[s] => open[s])
  <2>1. CASE t = s
    BY <1>1, <2>1 DEF Session, Resolve, Die, Reconnect, BlockedTypes, BlockedTypeOK
  <2>2. CASE t # s
    BY <1>1, <2>2 DEF Session, Ask, Resolve, Die, Reconnect, BlockedTypes, BlockedTypeOK
  <2> QED BY <2>1, <2>2
<1>2. ASSUME NEW t \in Sessions, NEW q \in Questions, PressDigit(t, q)
      PROVE  asks'[s] = asks[s] /\ (open'[s] => open[s])
  BY <1>2 DEF PressDigit, BlockedTypes, BlockedTypeOK
<1>3. CASE UNCHANGED panes
  BY <1>3 DEF panes
<1> QED BY <1>1, <1>2, <1>3
        DEF BlockedNext, PollStep, PollStart, LookAtPane, Get, Mark, Reget, Clear, HoldBack, Surface,
        Announce, Truncate, Write, DropDead, AnswerStep, Hear, Still, Confirm, Answered, Questions,
        blockedVars

LEMMA CleanBefore ==
  ASSUME BlockedTypes, [BlockedNext]_blockedVars, NEW s \in Sessions, ~Ask(s), Clean(s)'
  PROVE  Clean(s)
BY StaysOpen, OverlapGrows, HurriedGrows DEF Clean

LEMMA OpenStep ==
  ASSUME BlockedTypes, SurfacedInv, SerialInv, [BlockedNext]_blockedVars,
         NEW s \in Sessions, OpenInv(s), CountInv(s)
  PROVE  OpenInv(s)'
<1> SUFFICES ASSUME open'[s], Clean(s)'
             PROVE  Guarded(s)'
  BY DEF OpenInv
<1>1. CASE Ask(s)
  BY <1>1, AskGuarded
<1>2. CASE ~Ask(s)
  <2>1. open[s] /\ Guarded(s) /\ ~overlapped'
    BY <1>2, StaysOpen, CleanBefore DEF OpenInv, Clean
  <2>2. CASE UNCHANGED blockedVars
    <3>1. UNCHANGED <<at, cur, cap, listed, todo, spoken, tool, job, file, asks, alive>>
      BY <2>2 DEF blockedVars, panes, poller
    <3>2. /\ Coming(s)' = Coming(s)
          /\ \A w \in Writers \ {"poller"} : Busy(w)' /\ file' # Torn => job'[w][2][s] = file'[s]
      BY <2>1, <3>1, ComingSame DEF Guarded, Busy
    <3> QED BY <2>1, <3>1, <3>2, GuardedQuiet DEF Guarded
  <2>3. CASE PollStep \/ Announce
    BY <2>1, <2>3, GuardedList, GuardedMark, GuardedClear, GuardedSurface, GuardedAnnounce
       DEF PollStep
  <2>4. ASSUME NEW w \in Writers, Truncate(w) \/ Write(w)
        PROVE  Guarded(s)'
    BY <2>1, <2>4, GuardedFile
  <2>5. CASE AnswerStep \/ \E w \in Writers : DropDead(w)
    BY <2>1, <2>5, GuardedAnswer
  <2>6. ASSUME NEW t \in Sessions, Session(t)
        PROVE  Guarded(s)'
    BY <1>2, <2>1, <2>6, GuardedSession
  <2> QED BY <2>2, <2>3, <2>4, <2>5, <2>6 DEF BlockedNext
<1> QED BY <1>1, <1>2

-----------------------------------------------------------------------------
(* What the poller has in hand of a question that has been announced. *)

LEMMA YoungQuiet ==
  ASSUME NEW s \in Sessions, Young(s), UNCHANGED <<at, cur, cap, listed, age>>,
         Coming(s)' \subseteq Coming(s) \cup {None}
  PROVE  Young(s)'
<1>1. \A step : AtMember(s, step)' <=> AtMember(s, step)
  BY DEF AtMember, Member
<1> QED BY <1>1 DEF Young

(* A write of the others goes on, or they begin to clear a record.          *)
LEMMA YoungOthers ==
  ASSUME BlockedTypes, SerialInv, ~overlapped', NEW s \in Sessions, Young(s),
         [BlockedNext]_blockedVars, ~(PollStep \/ Announce)
  PROVE  Young(s)'
<1>1. UNCHANGED <<at, cur, cap, listed, age>>
  BY DEF BlockedNext, Truncate, Write, DropDead, AnswerStep, Hear, Still, PressDigit, Confirm,
     Answered, Session, Ask, Resolve, Die, Reconnect, poller, blockedVars
<1>2. Coming(s)' \subseteq Coming(s) \cup {None}
  <2>1. CASE job' = job /\ file' = file
    BY <2>1, ComingSame
  <2>2. ASSUME NEW w \in Writers, Truncate(w) \/ Write(w)
        PROVE  Coming(s)' \subseteq Coming(s) \cup {None}
    BY <2>2, ComingFile
  <2>3. ASSUME NEW w \in Writers, NEW t \in Sessions, Begins(w, t, None)
        PROVE  Coming(s)' \subseteq Coming(s) \cup {None}
    BY <2>3, ComingBegin
  <2>4. ASSUME NEW w \in Writers, DropDead(w)
        PROVE  Coming(s)' \subseteq Coming(s) \cup {None}
    BY <2>1, <2>3, <2>4, Clearing DEF DropDead, DeadOnRecord
  <2>5. ASSUME NEW t \in Sessions, NEW q \in Questions, Answered(t, q)
        PROVE  Coming(s)' \subseteq Coming(s) \cup {None}
    BY <2>1, <2>3, <2>5, Clearing DEF Answered, Writers
  <2> QED BY <2>1, <2>2, <2>4, <2>5
          DEF BlockedNext, AnswerStep, Hear, Still, PressDigit, Confirm, Session, Ask, Resolve, Die,
          Reconnect, Questions, blockedVars
<1> QED BY <1>1, <1>2, YoungQuiet

(* What the poller finds on record goes into its list.                      *)
LEMMA YoungListed ==
  ASSUME BlockedTypes, NEW s \in Sessions, Young(s), ~Busy("poller"), UNCHANGED <<age, file, job>>,
         \/ at = "get" /\ cap # 0
         \/ at = "get" /\ Read[Member] = None
         \/ at = "reget",
         listed' = [listed EXCEPT ![Member] = Read[Member]], at' \in {"look", "escalate"}
  PROVE  Young(s)'
<1>1. \A step \in {"get", "mark", "reget"} : ~AtMember(s, step)'
  BY DEF AtMember
<1>2. listed'[s] # None /\ ~listed'[s][2] => age[s] = 0
  <2>1. CASE Member # s
    BY <2>1 DEF Young
  <2>2. CASE Member = s
    <3>1. listed'[s] = Read[s]
      BY <2>2 DEF BlockedTypes, BlockedTypeOK, Records
    <3>2. Read[s] # None => Read[s] \in Coming(s)
      BY DEF Read, Empty, Coming
    <3> QED BY <2>2, <3>1, <3>2 DEF Young, AtMember
  <2> QED BY <2>1, <2>2
<1> QED BY <1>1, <1>2 DEF Young

LEMMA YoungPoll ==
  ASSUME BlockedTypes, NEW s \in Sessions, OpenInv(s), Clean(s), AlreadyTold(s), Young(s), PollStep
  PROVE  Young(s)'
<1>1. CASE PollStart \/ HoldBack \/ Surface
  BY <1>1 DEF PollStart, HoldBack, Surface, PollerAt, Empty, Young, AtMember
<1>2. CASE LookAtPane
  <2>1. /\ at = "look" /\ UNCHANGED <<listed, age, job, file>>
        /\ at' \in {"look", "escalate"} \/ (at' = "get" /\ cur' = cur /\ cap' = Captured(Member))
    BY <1>2 DEF LookAtPane, ThenNext, PollerAt
  <2>2. ~AtMember(s, "mark")' /\ ~AtMember(s, "reget")'
    BY <2>1 DEF AtMember
  <2>3. AtMember(s, "get")' /\ cap' # 0 => \A c \in Coming(s) : c # None => c[2]
    <3>1. AtMember(s, "get")' /\ cap' # 0 => open[s]
      BY <2>1 DEF AtMember, Member, Captured
    <3>2. open[s] => \A c \in Coming(s) : Ticked(c)
      BY <2>1 DEF OpenInv, Guarded
    <3> QED BY <3>1, <3>2 DEF Ticked
  <2>4. Coming(s)' = Coming(s)
    BY <2>1, ComingSame
  <2> QED BY <2>1, <2>2, <2>3, <2>4 DEF Young
<1>3. CASE Get
  <2>1. at = "get" /\ ~Busy("poller") /\ UNCHANGED <<age, job, file, cap>>
    BY <1>3 DEF Get, PollerAt
  <2>2. CASE at' = "mark" /\ cap # 0 /\ UNCHANGED <<cur, listed>>
    <3>1. AtMember(s, "mark")' => AtMember(s, "get") /\ cap # 0
      BY <2>1, <2>2 DEF AtMember, Member
    <3>2. ~AtMember(s, "get")' /\ ~AtMember(s, "reget")' /\ Coming(s)' = Coming(s)
      BY <2>1, <2>2, ComingSame DEF AtMember
    <3> QED BY <2>1, <2>2, <3>1, <3>2 DEF Young
  <2>3. CASE at' = "clear" /\ UNCHANGED <<cur, listed>>
    BY <2>1, <2>3 DEF Young, AtMember
  <2>4. CASE /\ cap # 0 \/ Read[Member] = None
             /\ listed' = [listed EXCEPT ![Member] = Read[Member]] /\ ThenNext
    <3>1. at' \in {"look", "escalate"}
      BY <2>4 DEF ThenNext
    <3> QED BY <2>1, <2>4, <3>1, YoungListed
  <2> QED BY <1>3, <2>2, <2>3, <2>4 DEF Get
<1>4. CASE Mark
  <2>1. at = "mark" /\ at' = "reget" /\ UNCHANGED <<cur, listed>> /\ age \in [Sessions -> 0..Settle]
    BY <1>4 DEF Mark, PollerAt, BlockedTypes, BlockedTypeOK
  <2>2. ~AtMember(s, "get")' /\ ~AtMember(s, "mark")'
    BY <2>1 DEF AtMember
  <2>3. AtMember(s, "reget")' => AtMember(s, "mark")
    BY <2>1 DEF AtMember, Member
  <2>4. CASE job' = job /\ age' = age /\ file' = file
    <3>1. Coming(s)' = Coming(s)
      BY <2>4, ComingSame
    <3> QED BY <2>1, <2>2, <2>3, <2>4, <3>1 DEF Young
  <2>5. CASE age' = [age EXCEPT ![Member] = 0]
    <3>1. AtMember(s, "mark") => age'[s] = 0
      BY <2>1, <2>5 DEF AtMember
    <3>2. age[s] = 0 => age'[s] = 0
      BY <2>1, <2>5
    <3> QED BY <2>1, <2>2, <2>3, <3>1, <3>2 DEF Young
  <2> QED BY <1>4, <2>4, <2>5, Marks
<1>5. CASE Reget
  <2>1. at = "reget" /\ ~Busy("poller") /\ UNCHANGED <<age, job, file>>
    BY <1>5 DEF Reget, PollerAt
  <2>2. CASE at' = "idle"
    BY <2>2 DEF Young, AtMember
  <2>3. CASE listed' = [listed EXCEPT ![Member] = Read[Member]] /\ ThenNext
    <3>1. at' \in {"look", "escalate"}
      BY <2>3 DEF ThenNext
    <3> QED BY <2>1, <2>3, <3>1, YoungListed
  <2> QED BY <1>5, <2>2, <2>3 DEF Reget
<1>6. CASE Clear
  <2>1. at = "clear" /\ at' \in {"look", "escalate"} /\ UNCHANGED <<listed, age>>
    BY <1>6 DEF Clear, PollerAt, ThenNext
  <2> QED BY <2>1 DEF Young, AtMember
<1> QED BY <1>1, <1>2, <1>3, <1>4, <1>5, <1>6 DEF PollStep

LEMMA RoundStep ==
  ASSUME BlockedTypes, SurfacedInv, SerialInv, [BlockedNext]_blockedVars,
         NEW s \in Sessions, OpenInv(s), RoundInv(s), CountInv(s)
  PROVE  RoundInv(s)'
<1> SUFFICES ASSUME Clean(s)', AlreadyTold(s)'
             PROVE  Young(s)'
  BY DEF RoundInv
<1>1. ~Ask(s)
  BY AskGuarded
<1>2. Clean(s) /\ ~overlapped' /\ asks'[s] = asks[s]
  BY <1>1, CleanBefore, StaysOpen DEF Clean
<1>3. CASE Announce
  <2>1. at' = "surface"
    BY <1>3 DEF Announce
  <2> QED BY <2>1 DEF Young, AtMember
<1>4. CASE ~Announce
  <2>1. spoken' = spoken
    BY <1>4 DEF BlockedNext, PollStep, PollStart, LookAtPane, Get, Mark, Reget, Clear, HoldBack,
       Surface, Truncate, Write, DropDead, AnswerStep, Hear, Still, PressDigit, Confirm, Answered,
       Session, Ask, Resolve, Die, Reconnect, blockedVars
  <2>2. AlreadyTold(s) /\ Young(s)
    BY <1>2, <2>1 DEF AlreadyTold, RoundInv
  <2> QED BY <1>2, <1>4, <2>2, YoungPoll, YoungOthers
<1> QED BY <1>3, <1>4

(* What is announced is the question asked last, and not for the second time. *)
LEMMA CountStep ==
  ASSUME BlockedTypes, LatestInv, [BlockedNext]_blockedVars, Settle > 0,
         NEW s \in Sessions, RoundInv(s), CountInv(s)
  PROVE  CountInv(s)'
<1> SUFFICES ASSUME NEW q \in Questions
             PROVE  /\ overlapped' \/ spoken'[s][q] <= 1 \/ Tangled(s, q)'
                    /\ q > asks'[s] => spoken'[s][q] = 0
  BY DEF CountInv
<1>0. /\ overlapped \/ spoken[s][q] <= 1 \/ Tangled(s, q)
      /\ q > asks[s] => spoken[s][q] = 0
      /\ q \in Nat /\ asks[s] \in Nat /\ spoken[s][q] \in 0..2
  <2>1. asks[s] \in 0..MaxAsks /\ spoken[s][q] \in 0..2
    BY DEF BlockedTypes, BlockedTypeOK
  <2>2. q \in Nat /\ asks[s] \in Nat
    BY <2>1, SessionFacts DEF Questions
  <2> QED BY <2>1, <2>2 DEF CountInv
<1>1. (overlapped => overlapped') /\ (Tangled(s, q) => Tangled(s, q)')
  BY OverlapGrows, HurriedGrows DEF Tangled
<1>2. CASE Announce
  <2>1. asks' = asks /\ at = "escalate" /\ overlapped' = overlapped /\ hurried' = hurried
    BY <1>2 DEF Announce, PollerAt, panes, history
  <2>2. CASE s \in Pending /\ q = listed[s][1]
    <3>1. Current(s, q) /\ listed[s] # None /\ ~listed[s][2] /\ age[s] >= Settle
      BY <2>1, <2>2 DEF LatestInv, Latest, Pending
    <3>2. q <= asks[s]
      BY <3>1 DEF Current
    <3>3. ASSUME ~overlapped, ~Tangled(s, q)
          PROVE  spoken[s][q] = 0
      <4>1. q = asks[s] /\ Clean(s)
        BY <3>1, <3>3 DEF Current, Tangled, Clean
      <4>2. age[s] # 0
        <5>1. age[s] \in Nat /\ Settle \in Nat
          BY SessionFacts DEF BlockedTypes, BlockedTypeOK
        <5> QED BY <3>1, <5>1
      <4>3. ~AlreadyTold(s)
        BY <2>1, <3>1, <4>1, <4>2 DEF RoundInv, Young
      <4>4. asks[s] # 0
        BY <4>1 DEF Questions
      <4> QED BY <1>0, <4>1, <4>3, <4>4 DEF AlreadyTold
    <3>4. spoken'[s][q] = IF spoken[s][q] < 2 THEN spoken[s][q] + 1 ELSE 2
      BY <1>2, <2>2, AnnounceTypes
    <3>5. overlapped \/ spoken'[s][q] <= 1 \/ Tangled(s, q)
      BY <1>0, <3>3, <3>4
    <3> QED BY <1>0, <1>1, <2>1, <3>2, <3>5
  <2>3. CASE ~(s \in Pending /\ q = listed[s][1])
    <3>1. spoken'[s][q] = spoken[s][q]
      BY <1>2, <2>3, AnnounceTypes
    <3> QED BY <1>0, <1>1, <2>1, <3>1
  <2> QED BY <2>2, <2>3
<1>3. CASE ~Announce
  <2>1. spoken' = spoken
    BY <1>3 DEF BlockedNext, PollStep, PollStart, LookAtPane, Get, Mark, Reget, Clear, HoldBack,
       Surface, Truncate, Write, DropDead, AnswerStep, Hear, Still, PressDigit, Confirm, Answered,
       Session, Ask, Resolve, Die, Reconnect, blockedVars
  <2>2. asks'[s] = asks[s] \/ asks'[s] = asks[s] + 1
    <3>1. CASE Ask(s)
      BY <3>1, AskCurrent
    <3>2. CASE ~Ask(s)
      BY <3>2, StaysOpen
    <3> QED BY <3>1, <3>2
  <2>3. q > asks'[s] => q > asks[s]
    BY <1>0, <2>2
  <2> QED BY <1>0, <1>1, <2>1, <2>3
<1> QED BY <1>2, <1>3

LEMMA OnceInit ==
  ASSUME BlockedInit
  PROVE  OnceInv
<1>1. SerialInv
  <2>1. \A w \in Writers : ~Busy(w)
    BY DEF BlockedInit, Busy
  <2>2. file # Torn
    BY EmptyIsRecords, NotTorn DEF BlockedInit
  <2> QED BY <2>1, <2>2 DEF SerialInv, Writers
<1>2. ASSUME NEW s \in Sessions
      PROVE  OpenInv(s) /\ RoundInv(s) /\ CountInv(s)
  <2>1. \A q \in Questions : spoken[s][q] = 0
    BY DEF BlockedInit, Questions
  <2>2. ~open[s] /\ asks[s] = 0
    BY DEF BlockedInit
  <2>3. CountInv(s)
    BY <2>1 DEF CountInv
  <2>4. ~AlreadyTold(s)
    BY <2>2 DEF AlreadyTold
  <2> QED BY <2>2, <2>3, <2>4 DEF OpenInv, RoundInv
<1> QED BY <1>1, <1>2 DEF OnceInv

LEMMA OnceStep ==
  ASSUME HitInv, SurfacedInv, OnceInv, [BlockedNext]_blockedVars, Settle > 0
  PROVE  OnceInv'
BY SerialStep, OpenStep, RoundStep, CountStep DEF OnceInv, HitInv

(* A question on record as surfaced has been announced; and as long as no   *)
(* change is read under another's write, a question is announced once,      *)
(* however many members there are and whichever of them are announced,      *)
(* answered, cleared and dropped in between, unless it is tangled with      *)
(* another question of its session.  The settling delay, for which a        *)
(* question just put on record is not announced, must not be nothing.       *)
THEOREM MembersSpokenOnce ==
  ASSUME Settle > 0
  PROVE  BlockedSpec => []SpokenOnce
<1> DEFINE Inv == HitInv /\ SurfacedInv /\ OnceInv
<1>1. BlockedInit => Inv
  <2> SUFFICES ASSUME BlockedInit
               PROVE  Inv
    OBVIOUS
  <2>1. LatestInv /\ AnswerHitsItsQuestion
    BY DEF BlockedInit, LatestInv, Latest, Busy, Empty, AnswerHitsItsQuestion
  <2>2. SurfacedInv
    BY DEF BlockedInit, SurfacedInv, Told, Busy, Empty
  <2> QED BY <2>1, <2>2, BlockedInitTypes, OnceInit DEF HitInv
<1>2. Inv /\ [BlockedNext]_blockedVars => Inv'
  BY HitStep, SurfacedStep, OnceStep DEF HitInv
<1>3. Inv => SpokenOnce
  <2> SUFFICES ASSUME Inv
               PROVE  SpokenOnce
    OBVIOUS
  <2>1. SurfacedWasSpoken
    BY ToldRead DEF HitInv, Told, SurfacedWasSpoken
  <2> QED BY <2>1 DEF OnceInv, CountInv, SpokenOnce
<1> QED BY <1>1, <1>2, <1>3, PTL DEF BlockedSpec
=============================================================================
