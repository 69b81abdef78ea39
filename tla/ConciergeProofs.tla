--------------------------- MODULE ConciergeProofs ---------------------------
(***************************************************************************)
(* Theorems about the dispatch file and the concierge that reads it, for   *)
(* any dictations on either hop, any number of crashes and any age at      *)
(* which a dispatch counts as abandoned: CTypeOK, NoFalseNews,             *)
(* AnswersAreTrue and NeverSmallTalk of Concierge.                         *)
(*                                                                         *)
(* FileInv says what an operation under way may be about and what the file *)
(* and the copies in memory may tell of each dictation; RecentInv ties the *)
(* dictation forwarded last to what became of it.                          *)
(***************************************************************************)
EXTENDS Concierge, TLAPS

Lives == {"new", "handed", "working", "undelivered", "stranded", "done", "failed", "dropped"}
Over  == {"done", "failed", "dropped"}

Jobs == Ops \X Refs \X {"modified", "truncated"} \X [Refs -> Stages]

(* CTypeOK, with what it leaves out of the idle. *)
Types == CTypeOK /\ job \in [Procs -> {Idle} \cup Jobs]

(* The dictation an operation is about waits for just that operation: no   *)
(* other process is about to settle it.                                    *)
Due(w, d) ==
  \/ OpOf(w) = "heal"
  \/ OpOf(w) = "forward" /\ w = Forwarder[d] /\ life[d] = "new"
  \/ OpOf(w) \in {"complete", "note"} /\ w = "router" /\ life[d] = "working"
  \/ OpOf(w) = "fail" /\ w = Forwarder[d] /\ life[d] = "undelivered"

DueInv == \A w \in Procs : Busy(w) => Due(w, RefOf(w))

(* Records that call complete or failed only what is so in lives. *)
TrueNews(records, lives) ==
  \A d \in Refs : /\ records[d] = "complete" => lives[d] \in {"done", "dropped"}
                  /\ records[d] = "failed" => lives[d] \in {"failed", "dropped"}

NewsInv ==
  /\ TrueNews(ReadRaw, life)
  /\ \A w \in Procs : Busy(w) => TrueNews(RecordsOf(w), LifeAfter(w))

(* Records that show every dictation as it is in lives. *)
Shows(d, records, lives) ==
  CASE lives[d] = "new"    -> records[d] = "none"
    [] lives[d] = "done"   -> records[d] = "complete"
    [] lives[d] = "failed" -> records[d] = "failed"
    [] OTHER               -> records[d] \in {"forwarded", "abandoned"}
AllShown(records, lives) == \A d \in Refs : Shows(d, records, lives)

(* As long as no operations overlap and none is cut short, one at most is  *)
(* under way; what it will write is what its dictation will have become,   *)
(* and until it truncates the file is as faithful as before.               *)
Orderly ==
  /\ \A d \in Refs : life[d] # "dropped"
  /\ \A v, w \in Procs : Busy(v) /\ Busy(w) => v = w
  /\ Quiet => AllShown(ReadRaw, life)
  /\ \A w \in Procs : Busy(w) =>
       /\ AllShown(RecordsOf(w), LifeAfter(w))
       /\ StepOf(w) = "modified" => AllShown(ReadRaw, life)
       /\ StepOf(w) = "truncated" => file = Torn

Clean == ~overlapped /\ crashes = 0
CleanInv == Clean => Orderly

(* Something has been forwarded once anything has, and the latest has left *)
(* its beginnings or is about to.                                          *)
Forwarding(w) == Busy(w) /\ OpOf(w) = "forward"
RecentInv ==
  /\ recent # NoRef =>
       life[recent] # "new" \/ \E w \in Procs : Forwarding(w) /\ RefOf(w) = recent
  /\ recent = NoRef => (\A d \in Refs : life[d] = "new") /\ \A w \in Procs : ~Forwarding(w)

-----------------------------------------------------------------------------
(* The steps *)

(* An operation from its read to its change in memory. *)
Handles(w, op, d, records) ==
  /\ Begin(w, op, d, records)
  /\ \/ /\ op = "forward" /\ w = Forwarder[d] /\ life[d] = "new"
        /\ records = [ReadRaw EXCEPT ![d] = "forwarded"]
     \/ /\ op = "complete" /\ w = "router" /\ life[d] = "working"
        /\ records = [ReadRaw EXCEPT ![d] = "complete"]
     \/ /\ op = "note" /\ w = "router" /\ life[d] = "working"
        /\ records = [ReadRaw EXCEPT ![d] = IF @ = "none" THEN "noted" ELSE @]
     \/ /\ op = "fail" /\ w = Forwarder[d] /\ life[d] = "undelivered"
        /\ records = [ReadRaw EXCEPT ![d] = "failed"]
     \/ op = "heal" /\ records = Healed

FileStep ==
  \/ \E w \in Procs, d \in Refs, op \in Ops : \E records \in [Refs -> Stages] :
       Handles(w, op, d, records)
  \/ \E w \in Procs : Truncate(w) \/ Write(w) \/ Crash(w)
  \/ \E d \in Refs : Deliver(d)
  \/ Tick
  \/ UNCHANGED vars

LEMMA ReadIsRecords ==
  ASSUME Types
  PROVE  ReadRaw \in [Refs -> Stages] /\ Healed \in [Refs -> Stages]
BY DEF Types, CTypeOK, TypeOK, ReadRaw, Empty, Stages, Healed

LEMMA ForwardHandles ==
  ASSUME Types, NEW w \in Procs, NEW d \in Refs, MarkForwarded(w, d)
  PROVE  \E records \in [Refs -> Stages] : Handles(w, "forward", d, records)
BY ReadIsRecords DEF MarkForwarded, Handles, Stages

LEMMA CompleteHandles ==
  ASSUME Types, NEW d \in Refs, MarkComplete(d)
  PROVE  \E records \in [Refs -> Stages] : Handles("router", "complete", d, records)
BY ReadIsRecords DEF MarkComplete, Handles, Stages

LEMMA NoteHandles ==
  ASSUME Types, NEW d \in Refs, ReportStage(d)
  PROVE  \E records \in [Refs -> Stages] : Handles("router", "note", d, records)
BY ReadIsRecords DEF ReportStage, Handles, Stages

LEMMA FailHandles ==
  ASSUME Types, NEW w \in Procs, NEW d \in Refs, MarkFailed(w, d)
  PROVE  \E records \in [Refs -> Stages] : Handles(w, "fail", d, records)
BY ReadIsRecords DEF MarkFailed, Handles, Stages

LEMMA HealHandles ==
  ASSUME Types, Heal
  PROVE  \E d \in Refs : \E records \in [Refs -> Stages] : Handles("console", "heal", d, records)
BY ReadIsRecords DEF Heal, Handles, Healed

LEMMA ReadHandles ==
  ASSUME Types, ReadState
  PROVE  \/ \E d \in Refs : \E records \in [Refs -> Stages] : Handles("concierge", "heal", d, records)
         \/ UNCHANGED vars
BY ReadIsRecords DEF ReadState, Handles

(* Whatever a turn or another process does, the file sees one of these.    *)
LEMMA StepsOfTheFile ==
  ASSUME Types, [CNext]_all
  PROVE  FileStep
<1>1. CASE \E d \in Refs : Forward(d) \/ DaemonForwards(d)
  BY <1>1, ForwardHandles DEF Forward, DaemonForwards, FileStep, Procs, Ops
<1>2. CASE Others
  <2>1. CASE \E d \in Refs : MarkComplete(d)
    BY <2>1, CompleteHandles DEF FileStep, Procs, Ops
  <2>2. CASE \E d \in Refs : ReportStage(d)
    BY <2>2, NoteHandles DEF FileStep, Procs, Ops
  <2>3. CASE \E d \in Refs, w \in Procs : MarkFailed(w, d)
    BY <2>3, FailHandles DEF FileStep, Ops
  <2>4. CASE Heal
    BY <2>4, HealHandles DEF FileStep, Procs, Ops
  <2> QED BY <1>2, <2>1, <2>2, <2>3, <2>4 DEF Others, FileStep
<1>3. CASE \E t \in Texts : AnswerState(t) \/ Chat(t)
  <2>1. ReadState \/ UNCHANGED vars
    BY <1>3 DEF AnswerState, Chat
  <2> QED BY <2>1, ReadHandles DEF FileStep, Procs, Ops
<1>4. CASE \/ \E t \in Texts : Dispatch(t) \/ Control(t) \/ AnswerElse(t)
           \/ CannotForward \/ UNCHANGED all
  BY <1>4 DEF Dispatch, Control, AnswerElse, CannotForward, all, FileStep
<1>5. CASE \E w \in Procs : Dies(w)
  BY <1>5 DEF Dies, FileStep
<1>6. CASE \E d \in Refs : HandOver(d)
  BY <1>6 DEF HandOver, FileStep
<1> QED BY <1>1, <1>2, <1>3, <1>4, <1>5, <1>6 DEF CNext

(* Beginning an operation makes one process busy with it. *)
LEMMA BeginSets ==
  ASSUME Types, NEW w \in Procs, NEW op, NEW d, NEW records, Begin(w, op, d, records)
  PROVE  /\ job'[w] = Job(op, d, "modified", records) /\ \A v \in Procs \ {w} : job'[v] = job[v]
         /\ Busy(w)' /\ OpOf(w)' = op /\ RefOf(w)' = d /\ StepOf(w)' = "modified"
         /\ RecordsOf(w)' = records /\ ~Busy(w)
BY DEF Types, Begin, Busy, Idle, Job, OpOf, RefOf, StepOf, RecordsOf

LEMMA BusyJob ==
  ASSUME Types, NEW w \in Procs, Busy(w)
  PROVE  /\ OpOf(w) \in Ops /\ RefOf(w) \in Refs /\ StepOf(w) \in {"modified", "truncated"}
         /\ RecordsOf(w) \in [Refs -> Stages]
         /\ job[w] = Job(OpOf(w), RefOf(w), StepOf(w), RecordsOf(w))
BY DEF Types, Busy, Jobs, Job, OpOf, RefOf, StepOf, RecordsOf

LEMMA TruncateSets ==
  ASSUME Types, NEW w \in Procs, Truncate(w)
  PROVE  /\ job'[w] = Job(OpOf(w), RefOf(w), "truncated", RecordsOf(w))
         /\ \A v \in Procs \ {w} : job'[v] = job[v]
         /\ Busy(w)' /\ OpOf(w)' = OpOf(w) /\ RefOf(w)' = RefOf(w) /\ StepOf(w)' = "truncated"
         /\ RecordsOf(w)' = RecordsOf(w) /\ Busy(w)
BY DEF Types, Truncate, Busy, Idle, Job, OpOf, RefOf, StepOf, RecordsOf

(* Every step leaves the other processes' operations alone. *)
LEMMA JobsElsewhere ==
  ASSUME Types, FileStep, NEW v \in Procs
  PROVE  \/ job'[v] = job[v]
         \/ Truncate(v) \/ Write(v) \/ Crash(v)
         \/ \E d \in Refs, op \in Ops : \E records \in [Refs -> Stages] : Handles(v, op, d, records)
BY DEF Types, FileStep, Handles, Begin, Truncate, Write, Crash, Deliver, Tick, vars

(* What an operation makes of its dictation, and of no other. *)
LEMMA LivesAfter ==
  ASSUME Types, NEW w \in Procs, Busy(w)
  PROVE  /\ LifeAfter(w) \in [Refs -> Lives]
         /\ \A d \in Refs \ {RefOf(w)} : LifeAfter(w)[d] = life[d]
         /\ OpOf(w) \in {"heal", "note"} => LifeAfter(w) = life
         /\ OpOf(w) = "forward"  => LifeAfter(w)[RefOf(w)] = "handed"
         /\ OpOf(w) = "complete" => LifeAfter(w)[RefOf(w)] = "done"
         /\ OpOf(w) = "fail"     => LifeAfter(w)[RefOf(w)] = "failed"
BY BusyJob DEF Types, CTypeOK, TypeOK, LifeAfter, Lives, Ops

-----------------------------------------------------------------------------
(* Types *)

LEMMA TypesOfJobs ==
  ASSUME Types, FileStep
  PROVE  job' \in [Procs -> {Idle} \cup Jobs]
<1>1. CASE \E w \in Procs, d \in Refs, op \in Ops : \E records \in [Refs -> Stages] :
             Handles(w, op, d, records)
  BY <1>1 DEF Handles, Begin, Types, Jobs, Job
<1>2. CASE \E w \in Procs : Truncate(w)
  BY <1>2, BusyJob DEF Truncate, Types, Jobs, Job
<1>3. CASE (\E w \in Procs : Write(w) \/ Crash(w)) \/ (\E d \in Refs : Deliver(d)) \/ Tick \/ UNCHANGED vars
  BY <1>3 DEF Write, Crash, Deliver, Tick, vars, Types
<1> QED BY <1>1, <1>2, <1>3 DEF FileStep

LEMMA TypesOfFile ==
  ASSUME Types, FileStep
  PROVE  file' \in [Refs -> Stages] \cup {Torn} /\ life' \in [Refs -> Lives]
<1>1. file \in [Refs -> Stages] \cup {Torn} /\ life \in [Refs -> Lives]
  BY DEF Types, CTypeOK, TypeOK, Lives
<1>2. CASE \E w \in Procs, d \in Refs, op \in Ops : \E records \in [Refs -> Stages] :
             Handles(w, op, d, records)
  BY <1>1, <1>2 DEF Handles, Begin
<1>3. CASE \E w \in Procs : Write(w)
  BY <1>1, <1>3, BusyJob, LivesAfter DEF Write
<1>4. CASE \E w \in Procs : Crash(w)
  BY <1>1, <1>4, BusyJob DEF Crash, Lives
<1>5. CASE \E w \in Procs : Truncate(w)
  BY <1>1, <1>5 DEF Truncate
<1>6. CASE (\E d \in Refs : Deliver(d)) \/ Tick \/ UNCHANGED vars
  BY <1>1, <1>6 DEF Deliver, Tick, vars, Lives
<1> QED BY <1>2, <1>3, <1>4, <1>5, <1>6 DEF FileStep

LEMMA TypesOfCounters ==
  ASSUME DispatchAssumption, Types, FileStep
  PROVE  /\ overlapped' \in BOOLEAN
         /\ crashes' \in 0..MaxCrashes
<1>1. overlapped \in BOOLEAN /\ crashes \in 0..MaxCrashes /\ MaxCrashes \in Nat
  BY DEF DispatchAssumption, Types, CTypeOK, TypeOK
<1>2. CASE \E w \in Procs, d \in Refs, op \in Ops : \E records \in [Refs -> Stages] :
             Handles(w, op, d, records)
  BY <1>1, <1>2 DEF Handles, Begin
<1>3. CASE \E w \in Procs : Crash(w)
  BY <1>1, <1>3 DEF Crash
<1>4. CASE \/ \E w \in Procs : Truncate(w) \/ Write(w)
           \/ (\E d \in Refs : Deliver(d)) \/ Tick \/ UNCHANGED vars
  BY <1>1, <1>4 DEF Truncate, Write, Deliver, Tick, vars
<1> QED BY <1>2, <1>3, <1>4 DEF FileStep

(* Only being forwarded and the passage of time change an age. *)
LEMMA TypesOfAges ==
  ASSUME DispatchAssumption, Types, [CNext]_all
  PROVE  age' \in [Refs -> 0..(Abandon + 1)]
<1>1. age \in [Refs -> 0..(Abandon + 1)] /\ Abandon \in Nat
  BY DEF DispatchAssumption, Types, CTypeOK, TypeOK
<1>2. CASE \E d \in Refs, w \in Procs : MarkForwarded(w, d)
  BY <1>1, <1>2 DEF MarkForwarded
<1>3. CASE Tick
  BY <1>1, <1>3 DEF Tick
<1>4. (\E d \in Refs, w \in Procs : MarkForwarded(w, d)) \/ Tick \/ UNCHANGED age
  BY DEF CNext, Forward, DaemonForwards, Others, MarkComplete, ReportStage, MarkFailed, Deliver,
     Heal, Truncate, Write, Dispatch, Control, AnswerElse, AnswerState, Chat, ReadState,
     CannotForward, HandOver, Dies, Crash, all, vars, Procs
<1> QED BY <1>1, <1>2, <1>3, <1>4

LEMMA TypesKept ==
  ASSUME DispatchAssumption, Types, [CNext]_all
  PROVE  Types'
<1>1. FileStep
  BY StepsOfTheFile
<1>2. job' \in [Procs -> {Idle} \cup Jobs] /\ file' \in [Refs -> Stages] \cup {Torn}
      /\ life' \in [Refs -> Lives]
  BY <1>1, TypesOfJobs, TypesOfFile
<1>3. \A w \in Procs : Busy(w)' =>
        /\ OpOf(w)' \in Ops /\ RefOf(w)' \in Refs
        /\ StepOf(w)' \in {"modified", "truncated"} /\ RecordsOf(w)' \in [Refs -> Stages]
  BY <1>2 DEF Busy, Jobs, OpOf, RefOf, StepOf, RecordsOf
<1>4. toForward' \in BOOLEAN /\ recent' \in Refs \cup {NoRef} /\ eaten' \in Ways
  BY DEF CNext, Forward, DaemonForwards, Others, Dispatch, Control, AnswerElse, AnswerState, Chat,
     Ends, EndsSilently, Forwards, FallsBack, CannotForward, HandOver, Dies, all, turns, Types,
     CTypeOK, Ways
<1> QED BY <1>1, <1>2, <1>3, <1>4, TypesOfCounters, TypesOfAges DEF Types, CTypeOK, TypeOK, Lives

LEMMA TypesStart ==
  ASSUME DispatchAssumption, CInit
  PROVE  Types
<1>1. job = [w \in Procs |-> Idle] /\ \A w \in Procs : ~Busy(w)
  BY DEF CInit, Init, Busy
<1>2. file \in [Refs -> Stages] /\ age \in [Refs -> 0..(Abandon + 1)] /\ crashes \in 0..MaxCrashes
  BY DEF DispatchAssumption, CInit, Init, Empty, Stages
<1> QED BY <1>1, <1>2 DEF CInit, Init, Types, CTypeOK, TypeOK, Ways

(* Every field of every process, file and turn keeps its type. *)
THEOREM TypeCorrect == CSpec => []CTypeOK
<1>1. CSpec => []Types
  BY DispatchAssumption, TypesStart, TypesKept, PTL DEF CSpec
<1>2. Types => CTypeOK
  BY DEF Types
<1> QED BY <1>1, <1>2, PTL

-----------------------------------------------------------------------------
(* What an operation under way is about *)

LEMMA DueKept ==
  ASSUME Types, DueInv, FileStep
  PROVE  DueInv'
<1>1. CASE \E w \in Procs, d \in Refs, op \in Ops : \E records \in [Refs -> Stages] :
             Handles(w, op, d, records)
  <2> PICK w \in Procs, d \in Refs, op \in Ops, records \in [Refs -> Stages] :
        Handles(w, op, d, records)
    BY <1>1
  <2>1. Due(w, RefOf(w))'
    <3>1. Begin(w, op, d, records) /\ life' = life
      BY DEF Handles, Begin
    <3>2. OpOf(w)' = op /\ RefOf(w)' = d
      BY <3>1, BeginSets
    <3> QED BY <3>1, <3>2 DEF Handles, Due
  <2>2. ASSUME NEW v \in Procs \ {w}, Busy(v)' PROVE Due(v, RefOf(v))'
    BY <2>2, BeginSets DEF Handles, Begin, DueInv, Due, Busy, OpOf, RefOf
  <2> QED BY <2>1, <2>2 DEF DueInv
<1>2. CASE \E w \in Procs : Truncate(w)
  <2> PICK w \in Procs : Truncate(w)
    BY <1>2
  <2>1. Due(w, RefOf(w))'
    BY TruncateSets DEF Truncate, DueInv, Due
  <2>2. ASSUME NEW v \in Procs \ {w}, Busy(v)' PROVE Due(v, RefOf(v))'
    BY <2>2, TruncateSets DEF Truncate, DueInv, Due, Busy, OpOf, RefOf
  <2> QED BY <2>1, <2>2 DEF DueInv
<1>3. CASE \E w \in Procs : Write(w)
  <2> PICK w \in Procs : Write(w)
    BY <1>3
  <2> SUFFICES ASSUME NEW v \in Procs, Busy(v)' PROVE Due(v, RefOf(v))'
    BY DEF DueInv
  <2>1. v # w /\ job'[v] = job[v] /\ Busy(v) /\ Busy(w)
    BY DEF Write, Busy, Types
  <2>2. Due(v, RefOf(v)) /\ Due(w, RefOf(w))
    BY <2>1 DEF DueInv
  <2>3. life'[RefOf(v)] = life[RefOf(v)] \/ OpOf(v) = "heal"
    BY <2>1, <2>2, LivesAfter, BusyJob DEF Write, Due, Ops
  <2> QED BY <2>1, <2>2, <2>3 DEF Due, OpOf, RefOf
<1>4. CASE \E w \in Procs : Crash(w)
  <2> PICK w \in Procs : Crash(w)
    BY <1>4
  <2> SUFFICES ASSUME NEW v \in Procs, Busy(v)' PROVE Due(v, RefOf(v))'
    BY DEF DueInv
  <2>1. v # w /\ job'[v] = job[v] /\ Busy(v) /\ Busy(w)
    BY DEF Crash, Busy, Types
  <2>2. Due(v, RefOf(v)) /\ Due(w, RefOf(w))
    BY <2>1 DEF DueInv
  <2>3. life'[RefOf(v)] = life[RefOf(v)] \/ OpOf(v) = "heal"
    BY <2>1, <2>2, BusyJob DEF Crash, Due, Types, CTypeOK, TypeOK
  <2> QED BY <2>1, <2>2, <2>3 DEF Due, OpOf, RefOf
<1>5. CASE (\E d \in Refs : Deliver(d)) \/ Tick \/ UNCHANGED vars
  <2>1. job' = job /\ \A d \in Refs : life[d] # "handed" => life'[d] = life[d]
    BY <1>5 DEF Deliver, Tick, vars, Types, CTypeOK, TypeOK
  <2> QED BY <2>1, BusyJob DEF DueInv, Due, Busy, OpOf, RefOf
<1> QED BY <1>1, <1>2, <1>3, <1>4, <1>5 DEF FileStep

(* What is over stays what it was. *)
LEMMA OverIsOver ==
  ASSUME Types, DueInv, FileStep, NEW d \in Refs, life[d] \in Over
  PROVE  life'[d] = life[d]
<1>1. CASE \E w \in Procs : Write(w)
  BY <1>1, LivesAfter, BusyJob DEF Write, DueInv, Due, Over, Ops
<1>2. CASE \E w \in Procs : Crash(w)
  BY <1>2, BusyJob DEF Crash, DueInv, Due, Over, Types, CTypeOK, TypeOK
<1>3. CASE ~(\E w \in Procs : Write(w) \/ Crash(w))
  BY <1>3 DEF FileStep, Handles, Begin, Truncate, Deliver, Tick, vars, Over, Types, CTypeOK, TypeOK
<1> QED BY <1>1, <1>2, <1>3

(* What an operation under way will make of the dictations: no other        *)
(* process takes it back.                                                   *)
LEMMA AfterIsOver ==
  ASSUME Types, DueInv, FileStep, NEW w \in Procs, Busy(w), Busy(w)',
         OpOf(w)' = OpOf(w), RefOf(w)' = RefOf(w),
         NEW d \in Refs, LifeAfter(w)[d] \in Over
  PROVE  LifeAfter(w)'[d] = LifeAfter(w)[d]
<1>1. OpOf(w) \in Ops /\ RefOf(w) \in Refs
  BY BusyJob
<1>2. life \in [Refs -> Lives] /\ life' \in [Refs -> Lives]
  BY TypesOfFile DEF Types, CTypeOK, TypeOK, Lives
<1>3. CASE d = RefOf(w) /\ OpOf(w) \in {"forward", "complete", "fail"}
  BY <1>1, <1>2, <1>3 DEF LifeAfter, Over
<1>4. CASE ~(d = RefOf(w) /\ OpOf(w) \in {"forward", "complete", "fail"})
  <2>1. LifeAfter(w)[d] = life[d] /\ LifeAfter(w)'[d] = life'[d]
    BY <1>1, <1>2, <1>4 DEF LifeAfter, Ops
  <2> QED BY <2>1, OverIsOver
<1> QED BY <1>3, <1>4
-----------------------------------------------------------------------------
(* The news *)

LEMMA NewsStays ==
  ASSUME NEW records, NEW lives, NEW lives2, TrueNews(records, lives),
         \A d \in Refs : lives[d] \in Over => lives2[d] = lives[d]
  PROVE  TrueNews(records, lives2)
BY DEF TrueNews, Over

(* What an operation makes of the records is no more than it will make true. *)
LEMMA NewsBegin ==
  ASSUME Types, TrueNews(ReadRaw, life), NEW w \in Procs, NEW op \in Ops, NEW d \in Refs,
         NEW records \in [Refs -> Stages], Handles(w, op, d, records)
  PROVE  TrueNews(RecordsOf(w)', LifeAfter(w)')
<1>1. Begin(w, op, d, records) /\ life' = life
  BY DEF Handles, Begin
<1>2. OpOf(w)' = op /\ RefOf(w)' = d /\ RecordsOf(w)' = records
  BY <1>1, BeginSets
<1>3. life \in [Refs -> Lives] /\ ReadRaw \in [Refs -> Stages]
  BY ReadIsRecords DEF Types, CTypeOK, TypeOK, Lives
<1>4. CASE op = "forward"
  BY <1>1, <1>2, <1>3, <1>4 DEF Handles, TrueNews, LifeAfter
<1>5. CASE op = "complete"
  BY <1>1, <1>2, <1>3, <1>5 DEF Handles, TrueNews, LifeAfter
<1>6. CASE op = "fail"
  BY <1>1, <1>2, <1>3, <1>6 DEF Handles, TrueNews, LifeAfter
<1>7. CASE op = "note"
  BY <1>1, <1>2, <1>3, <1>7 DEF Handles, TrueNews, LifeAfter
<1>8. CASE op = "heal"
  BY <1>1, <1>2, <1>3, <1>8 DEF Handles, TrueNews, LifeAfter, Healed
<1> QED BY <1>4, <1>5, <1>6, <1>7, <1>8 DEF Ops

LEMMA NewsKept ==
  ASSUME Types, DueInv, NewsInv, FileStep
  PROVE  NewsInv'
<1>1. TrueNews(ReadRaw, life')
  BY OverIsOver, NewsStays DEF NewsInv
<1>2. TrueNews(ReadRaw', life')
  <2>1. CASE file' = file
    BY <1>1, <2>1 DEF ReadRaw
  <2>2. CASE file' = Torn
    BY <2>2 DEF ReadRaw, Empty, TrueNews
  <2>3. CASE \E w \in Procs : Write(w) /\ file' = RecordsOf(w)
    <3> PICK w \in Procs : Write(w) /\ file' = RecordsOf(w)
      BY <2>3
    <3>1. TrueNews(RecordsOf(w), LifeAfter(w)) /\ life' = LifeAfter(w)
      BY DEF Write, NewsInv
    <3>2. CASE file' # Torn
      BY <3>1, <3>2 DEF ReadRaw
    <3> QED BY <2>2, <3>2
  <2> QED BY <2>1, <2>2, <2>3 DEF FileStep, Handles, Begin, Truncate, Write, Crash, Deliver, Tick, vars
<1>3. ASSUME NEW v \in Procs, Busy(v)'
      PROVE  TrueNews(RecordsOf(v)', LifeAfter(v)')
  <2>1. CASE \E d \in Refs, op \in Ops : \E records \in [Refs -> Stages] : Handles(v, op, d, records)
    BY <2>1, NewsBegin DEF NewsInv
  <2>2. CASE /\ Busy(v) /\ OpOf(v)' = OpOf(v) /\ RefOf(v)' = RefOf(v)
             /\ RecordsOf(v)' = RecordsOf(v)
    <3>1. TrueNews(RecordsOf(v), LifeAfter(v))
      BY <2>2 DEF NewsInv
    <3>2. \A d \in Refs : LifeAfter(v)[d] \in Over => LifeAfter(v)'[d] = LifeAfter(v)[d]
      BY <1>3, <2>2, AfterIsOver
    <3> QED BY ONLY <2>2, <3>1, <3>2, NewsStays
  <2>3. CASE job'[v] = job[v]
    BY <1>3, <2>2, <2>3 DEF Busy, OpOf, RefOf, RecordsOf
  <2>4. CASE Truncate(v)
    BY <2>2, <2>4, TruncateSets
  <2>5. ~(Write(v) \/ Crash(v))
    BY <1>3 DEF Write, Crash, Busy, Types
  <2> QED BY <2>1, <2>3, <2>4, <2>5, JobsElsewhere DEF FileStep
<1> QED BY <1>2, <1>3 DEF NewsInv

-----------------------------------------------------------------------------
(* A file that shows everything as it is *)

(* A dispatch that is healed was still out; the others are as they were. *)
LEMMA ShownBegin ==
  ASSUME Types, AllShown(ReadRaw, life), NEW w \in Procs, NEW op \in Ops, NEW d \in Refs,
         NEW records \in [Refs -> Stages], Handles(w, op, d, records)
  PROVE  AllShown(RecordsOf(w)', LifeAfter(w)')
<1>1. Begin(w, op, d, records) /\ life' = life
  BY DEF Handles, Begin
<1>2. OpOf(w)' = op /\ RefOf(w)' = d /\ RecordsOf(w)' = records
  BY <1>1, BeginSets
<1>3. life \in [Refs -> Lives] /\ ReadRaw \in [Refs -> Stages]
  BY ReadIsRecords DEF Types, CTypeOK, TypeOK, Lives
<1>4. CASE op = "forward"
  BY <1>1, <1>2, <1>3, <1>4 DEF Handles, AllShown, Shows, LifeAfter
<1>5. CASE op = "complete"
  BY <1>1, <1>2, <1>3, <1>5 DEF Handles, AllShown, Shows, LifeAfter
<1>6. CASE op = "fail"
  BY <1>1, <1>2, <1>3, <1>6 DEF Handles, AllShown, Shows, LifeAfter
<1>7. CASE op = "note"
  BY <1>1, <1>2, <1>3, <1>7 DEF Handles, AllShown, Shows, LifeAfter
<1>8. CASE op = "heal"
  BY <1>1, <1>2, <1>3, <1>8 DEF Handles, AllShown, Shows, LifeAfter, Healed, Stale
<1> QED BY <1>4, <1>5, <1>6, <1>7, <1>8 DEF Ops

(* To the file a dispatch in flight is one, delivered or not. *)
LEMMA ShownDeliver ==
  ASSUME NEW records, NEW lives, NEW lives2, AllShown(records, lives),
         \A d \in Refs : \/ lives2[d] = lives[d]
                         \/ lives[d] = "handed" /\ lives2[d] \in {"working", "undelivered", "stranded"}
  PROVE  AllShown(records, lives2)
BY DEF AllShown, Shows

LEMMA CleanBegin ==
  ASSUME Types, Orderly, NEW w \in Procs, NEW op \in Ops, NEW d \in Refs,
         NEW records \in [Refs -> Stages], Handles(w, op, d, records), ~overlapped'
  PROVE  Orderly'
<1>1. Begin(w, op, d, records) /\ life' = life /\ file' = file /\ Quiet
  BY DEF Handles, Begin, Quiet
<1>2. /\ Busy(w)' /\ StepOf(w)' = "modified" /\ \A v \in Procs : Busy(v)' => v = w
  BY <1>1, BeginSets DEF Quiet, Busy
<1>3. AllShown(ReadRaw, life)
  BY <1>1 DEF Orderly
<1>4. AllShown(RecordsOf(w)', LifeAfter(w)') /\ AllShown(ReadRaw', life')
  BY <1>1, <1>3, ShownBegin DEF ReadRaw
<1>5. \A e \in Refs : life'[e] # "dropped"
  BY <1>1 DEF Orderly
<1> QED BY <1>2, <1>4, <1>5 DEF Orderly, Quiet

LEMMA CleanTruncate ==
  ASSUME Types, Orderly, NEW w \in Procs, Truncate(w)
  PROVE  Orderly'
<1>1. life' = life /\ file' = Torn
  BY DEF Truncate
<1>2. /\ Busy(w) /\ Busy(w)' /\ StepOf(w)' = "truncated" /\ \A v \in Procs : Busy(v)' => v = w
  BY TruncateSets DEF Orderly, Busy
<1>3. RecordsOf(w)' = RecordsOf(w) /\ LifeAfter(w)' = LifeAfter(w)
  BY <1>1, TruncateSets DEF LifeAfter
<1>4. AllShown(RecordsOf(w)', LifeAfter(w)')
  BY <1>2, <1>3 DEF Orderly
<1>5. \A e \in Refs : life'[e] # "dropped"
  BY <1>1 DEF Orderly
<1> QED BY <1>1, <1>2, <1>4, <1>5 DEF Orderly, Quiet

LEMMA CleanWrite ==
  ASSUME Types, Orderly, NEW w \in Procs, Write(w)
  PROVE  Orderly'
<1>1. Busy(w) /\ file = Torn /\ file' = RecordsOf(w) /\ life' = LifeAfter(w)
  BY DEF Write, Orderly
<1>2. \A v \in Procs : ~Busy(v)'
  BY <1>1 DEF Write, Orderly, Busy, Types
<1>3. AllShown(RecordsOf(w), LifeAfter(w)) /\ RecordsOf(w) \in [Refs -> Stages]
  BY <1>1, BusyJob DEF Orderly
<1>4. AllShown(ReadRaw', life')
  <2>1. CASE file' # Torn
    BY <1>1, <1>3, <2>1 DEF ReadRaw
  <2>2. CASE file' = Torn
    <3>1. DOMAIN RecordsOf(w) = Refs /\ DOMAIN Torn = {}
      BY <1>3 DEF Torn
    <3>2. Refs = {}
      BY <1>1, <2>2, <3>1
    <3> QED BY <3>2 DEF AllShown
  <2> QED BY <2>1, <2>2
<1>5. \A e \in Refs : life'[e] # "dropped"
  <2>1. \A e \in Refs : life[e] # "dropped"
    BY DEF Orderly
  <2>2. RefOf(w) \in Refs /\ OpOf(w) \in Ops
    BY <1>1, BusyJob
  <2> QED BY <1>1, <2>1, <2>2, LivesAfter DEF Ops
<1> QED BY <1>2, <1>4, <1>5 DEF Orderly, Quiet

LEMMA CleanDeliver ==
  ASSUME Types, DueInv, Orderly, NEW d \in Refs, Deliver(d)
  PROVE  Orderly'
<1>1. /\ file' = file /\ job' = job /\ life \in [Refs -> Lives] /\ life' \in [Refs -> Lives]
      /\ \A e \in Refs : \/ life'[e] = life[e]
                         \/ e = d /\ life[e] = "handed" /\ life'[e] \in {"working", "undelivered", "stranded"}
  BY DEF Deliver, Types, CTypeOK, TypeOK, Lives
<1>2. ASSUME NEW w \in Procs, Busy(w)
      PROVE  AllShown(RecordsOf(w), LifeAfter(w)')
  <2>1. AllShown(RecordsOf(w), LifeAfter(w)) /\ Due(w, RefOf(w)) /\ OpOf(w) \in Ops /\ RefOf(w) \in Refs
    BY <1>2, BusyJob DEF Orderly, DueInv
  <2>2. \A e \in Refs :
          \/ LifeAfter(w)'[e] = LifeAfter(w)[e]
          \/ LifeAfter(w)[e] = "handed" /\ LifeAfter(w)'[e] \in {"working", "undelivered", "stranded"}
    <3>1. CASE OpOf(w) \in {"heal", "note"}
      BY <1>1, <3>1 DEF LifeAfter, OpOf
    <3>2. CASE OpOf(w) \in {"forward", "complete", "fail"}
      <4>1. RefOf(w) # d
        BY <1>1, <2>1, <3>2 DEF Due, Deliver
      <4> QED BY <1>1, <2>1, <3>2, <4>1 DEF LifeAfter, OpOf, RefOf
    <3> QED BY <2>1, <3>1, <3>2 DEF Ops
  <2> QED BY <2>1, <2>2, ShownDeliver
<1>3. AllShown(ReadRaw, life) => AllShown(ReadRaw, life')
  BY <1>1, ShownDeliver
<1>4. /\ ReadRaw' = ReadRaw /\ Quiet' = Quiet
      /\ \A w \in Procs : /\ Busy(w)' = Busy(w) /\ RecordsOf(w)' = RecordsOf(w)
                          /\ StepOf(w)' = StepOf(w)
  BY <1>1 DEF ReadRaw, Quiet, Busy, RecordsOf, StepOf
<1>5. \A e \in Refs : life'[e] # "dropped"
  BY <1>1 DEF Orderly
<1> QED BY <1>1, <1>2, <1>3, <1>4, <1>5 DEF Orderly

LEMMA CleanKept ==
  ASSUME DispatchAssumption, Types, DueInv, CleanInv, FileStep
  PROVE  CleanInv'
<1> SUFFICES ASSUME Clean' PROVE Orderly'
  BY DEF CleanInv
<1>1. Clean /\ ~\E w \in Procs : Crash(w)
  BY DEF Clean, FileStep, Handles, Begin, Truncate, Write, Crash, Deliver, Tick, vars,
     Types, CTypeOK, TypeOK, DispatchAssumption
<1>2. Orderly
  BY <1>1 DEF CleanInv
<1>3. CASE Tick \/ UNCHANGED vars
  BY <1>2, <1>3 DEF Tick, vars, Orderly, Quiet, Busy, RecordsOf, StepOf, OpOf, RefOf, LifeAfter,
     ReadRaw, AllShown, Shows
<1> QED BY <1>1, <1>2, <1>3, CleanBegin, CleanTruncate, CleanWrite, CleanDeliver DEF FileStep, Clean

-----------------------------------------------------------------------------
(* The dictation forwarded last *)

LEMMA NoForwardBegins ==
  ASSUME Types, NEW v \in Procs, Forwarding(v)'
  PROVE  /\ \A w \in Procs, op \in Ops \ {"forward"} : \A d, records :
              Begin(w, op, d, records) => Forwarding(v)
         /\ \A w \in Procs : Truncate(w) \/ Write(w) \/ Crash(w) => Forwarding(v)
<1>1. ASSUME NEW w \in Procs, NEW op \in Ops \ {"forward"}, NEW d, NEW records, Begin(w, op, d, records)
      PROVE  Forwarding(v)
  <2>1. job'[v] = job[v] \/ OpOf(v)' = op
    BY <1>1, BeginSets
  <2> QED BY <2>1 DEF Forwarding, Busy, OpOf
<1>2. ASSUME NEW w \in Procs, Truncate(w)
      PROVE  Forwarding(v)
  <2>1. job'[v] = job[v] \/ (Busy(v) /\ OpOf(v)' = OpOf(v))
    BY <1>2, TruncateSets
  <2> QED BY <2>1 DEF Forwarding, Busy, OpOf
<1>3. ASSUME NEW w \in Procs, Write(w) \/ Crash(w)
      PROVE  Forwarding(v)
  BY <1>3 DEF Write, Crash, Forwarding, Busy, OpOf, Types
<1> QED BY <1>1, <1>2, <1>3

LEMMA StepsOfRecent ==
  ASSUME Types, [CNext]_all
  PROVE  \/ \E w \in Procs, d \in Refs : MarkForwarded(w, d) /\ recent' = d
         \/ recent' = recent /\ \A w \in Procs : Forwarding(w)' => Forwarding(w)
<1>1. CASE \E d \in Refs : Forward(d) \/ DaemonForwards(d)
  BY <1>1 DEF Forward, DaemonForwards, Procs
<1>2. CASE Others
  <2>1. recent' = recent
    BY <1>2 DEF Others, turns
  <2>2. CASE \E d \in Refs : MarkComplete(d) \/ ReportStage(d)
    BY <2>1, <2>2, NoForwardBegins DEF MarkComplete, ReportStage, Procs, Ops
  <2>3. CASE \E d \in Refs, w \in Procs : MarkFailed(w, d)
    BY <2>1, <2>3, NoForwardBegins DEF MarkFailed, Ops
  <2>4. CASE Heal
    BY <2>1, <2>4, NoForwardBegins DEF Heal, Procs, Ops
  <2>5. CASE Tick
    BY <2>1, <2>5 DEF Tick, Forwarding, Busy, OpOf
  <2>6. CASE \E w \in Procs : Truncate(w) \/ Write(w)
    BY <2>1, <2>6, NoForwardBegins
  <2> QED BY <1>2, <2>2, <2>3, <2>4, <2>5, <2>6 DEF Others
<1>3. CASE \E t \in Texts : AnswerState(t) \/ Chat(t)
  <2>1. recent' = recent /\ (ReadState \/ UNCHANGED vars)
    BY <1>3 DEF AnswerState, Chat, Ends, EndsSilently, Forwards, FallsBack
  <2>2. CASE UNCHANGED vars
    BY <2>1, <2>2 DEF vars, Forwarding, Busy, OpOf
  <2>3. CASE ReadState
    BY <2>1, <2>2, <2>3, NoForwardBegins DEF ReadState, Procs, Ops
  <2> QED BY <2>1, <2>2, <2>3
<1>4. CASE \/ \E t \in Texts : Dispatch(t) \/ Control(t) \/ AnswerElse(t)
           \/ CannotForward \/ UNCHANGED all
  BY <1>4 DEF Dispatch, Control, AnswerElse, CannotForward, Ends, EndsSilently, Forwards, FallsBack,
     all, turns, vars, Forwarding, Busy, OpOf
<1>5. CASE \E w \in Procs : Dies(w)
  BY <1>5, NoForwardBegins DEF Dies
<1>6. CASE \E d \in Refs : HandOver(d)
  BY <1>6 DEF HandOver, Deliver, Forwarding, Busy, OpOf
<1> QED BY <1>1, <1>2, <1>3, <1>4, <1>5, <1>6 DEF CNext

(* A dictation leaves its beginnings only by the write of its forward, or   *)
(* with the process that was about to; and never returns to them.           *)
LEMMA Begun ==
  ASSUME Types, DueInv, FileStep, NEW d \in Refs
  PROVE  /\ life[d] # "new" => life'[d] # "new"
         /\ life'[d] # "new" => life[d] # "new" \/ \E w \in Procs : Forwarding(w)
         /\ \A w \in Procs : Forwarding(w) /\ RefOf(w) = d =>
              life'[d] # "new" \/ (Forwarding(w) /\ RefOf(w) = d)'
<1>1. life \in [Refs -> Lives]
  BY DEF Types, CTypeOK, TypeOK, Lives
<1>2. ASSUME NEW w \in Procs, Write(w)
      PROVE  /\ life[d] # "new" => life'[d] # "new"
             /\ life'[d] # "new" => life[d] # "new" \/ Forwarding(w)
             /\ Forwarding(w) /\ RefOf(w) = d => life'[d] # "new"
  BY <1>2, LivesAfter, BusyJob DEF Write, DueInv, Due, Forwarding, Ops
<1>3. ASSUME NEW w \in Procs, Crash(w)
      PROVE  /\ life[d] # "new" => life'[d] # "new"
             /\ life'[d] # "new" => life[d] # "new" \/ Forwarding(w)
             /\ Forwarding(w) /\ RefOf(w) = d => life'[d] # "new"
  BY <1>1, <1>3, BusyJob DEF Crash, DueInv, Due, Forwarding, Ops
<1>4. ASSUME ~(\E w \in Procs : Write(w) \/ Crash(w))
      PROVE  /\ life[d] # "new" => life'[d] # "new"
             /\ life'[d] # "new" => life[d] # "new" \/ \E w \in Procs : Forwarding(w)
  <2>1. CASE \E e \in Refs : Deliver(e)
    BY <1>1, <2>1 DEF Deliver
  <2>2. CASE life' = life
    BY <2>2
  <2> QED BY <1>4, <2>1, <2>2 DEF FileStep, Handles, Begin, Truncate, Tick, vars
<1>5. ASSUME NEW w \in Procs, Forwarding(w), RefOf(w) = d
      PROVE  life'[d] # "new" \/ (Forwarding(w) /\ RefOf(w) = d)'
  <2>1. CASE job'[w] = job[w]
    BY <1>5, <2>1 DEF Forwarding, Busy, OpOf, RefOf
  <2>2. CASE Truncate(w)
    BY <1>5, <2>2, TruncateSets DEF Forwarding
  <2>3. CASE \E e \in Refs, op \in Ops : \E records \in [Refs -> Stages] : Handles(w, op, e, records)
    BY <1>5, <2>3 DEF Handles, Begin, Forwarding
  <2> QED BY <1>2, <1>3, <1>5, <2>1, <2>2, <2>3, JobsElsewhere
<1> QED BY <1>2, <1>3, <1>4, <1>5

LEMMA RecentKept ==
  ASSUME ConciergeAssumption, Types, DueInv, RecentInv, [CNext]_all
  PROVE  RecentInv'
<1>1. FileStep /\ recent \in Refs \cup {NoRef}
  BY StepsOfTheFile DEF Types, CTypeOK
<1>2. CASE \E w \in Procs, d \in Refs : MarkForwarded(w, d) /\ recent' = d
  <2> PICK w \in Procs, d \in Refs : MarkForwarded(w, d) /\ recent' = d
    BY <1>2
  <2>1. Forwarding(w)' /\ RefOf(w)' = d /\ d # NoRef
    BY BeginSets DEF MarkForwarded, Forwarding, ConciergeAssumption
  <2> QED BY <2>1 DEF RecentInv
<1>3. CASE recent' = recent /\ \A w \in Procs : Forwarding(w)' => Forwarding(w)
  <2>1. CASE recent = NoRef
    BY <1>1, <1>3, <2>1, Begun DEF RecentInv
  <2>2. CASE recent # NoRef
    BY <1>1, <1>3, <2>2, Begun DEF RecentInv
  <2> QED BY <2>1, <2>2
<1> QED BY <1>2, <1>3, StepsOfRecent

-----------------------------------------------------------------------------
FileInv == Types /\ DueInv /\ NewsInv /\ CleanInv /\ RecentInv

LEMMA FileStart ==
  ASSUME DispatchAssumption, CInit
  PROVE  FileInv
<1>1. \A w \in Procs : ~Busy(w)
  BY DEF CInit, Init, Busy
<1>2. ReadRaw = Empty /\ life = [d \in Refs |-> "new"]
  BY DEF CInit, Init, ReadRaw
<1>3. TrueNews(ReadRaw, life) /\ AllShown(ReadRaw, life)
  BY <1>2 DEF TrueNews, AllShown, Shows, Empty
<1> QED BY <1>1, <1>2, <1>3, TypesStart
    DEF FileInv, DueInv, NewsInv, CleanInv, Orderly, RecentInv, Forwarding, CInit

(* The invariant of the dispatch file and its readers holds throughout. *)
THEOREM Invariance == CSpec => []FileInv
<1>1. FileInv /\ [CNext]_all => FileInv'
  BY DispatchAssumption, ConciergeAssumption, StepsOfTheFile, TypesKept, DueKept, NewsKept, CleanKept,
     RecentKept DEF FileInv
<1> QED BY <1>1, DispatchAssumption, FileStart, PTL DEF CSpec

(* mark_complete, mark_failed and the healing of stale records: however the *)
(* reads and writes of the four processes overlap, the file calls nothing   *)
(* complete or failed that is not; and while none overlap or are cut short, *)
(* it shows every dictation as it is.                                       *)
THEOREM NewsIsTrue == CSpec => []NoFalseNews
<1>1. FileInv => NoFalseNews
  <2>1. NewsInv => \A d \in Refs :
          /\ ReadRaw[d] = "complete" => life[d] \in {"done", "dropped"}
          /\ ReadRaw[d] = "failed" => life[d] \in {"failed", "dropped"}
    BY DEF NewsInv, TrueNews
  <2>2. CleanInv /\ Clean /\ Quiet => \A d \in Refs : Faithful(d)
    BY DEF CleanInv, Orderly, AllShown, Shows, Faithful
  <2> QED BY <2>1, <2>2 DEF FileInv, NoFalseNews, Clean
<1> QED BY <1>1, Invariance, PTL

(* dispatch_state and _chat_facts: what the concierge answers about the     *)
(* last dispatch is so, of the dictation forwarded last.                    *)
THEOREM AnswersTrue == CSpec => []AnswersAreTrue
<1>1. FileInv => AnswersAreTrue
  <2> SUFFICES ASSUME FileInv, Quiet, Clean
               PROVE  /\ \A said \in {Answers, ChatFacts} :
                           /\ ("finished" \in said) <=> (recent # NoRef /\ life[recent] = "done")
                           /\ ("nothing" \in said) <=> (recent = NoRef)
                      /\ "error" \notin Answers
    BY DEF AnswersAreTrue, Clean
  <2>1. AllShown(ReadRaw, life) /\ recent \in Refs \cup {NoRef} /\ ReadRaw \in [Refs -> Stages]
    BY ReadIsRecords DEF FileInv, CleanInv, Orderly, Types, CTypeOK
  <2>2. CASE recent = NoRef
    <3>1. Recorded = {}
      BY <2>1, <2>2 DEF FileInv, RecentInv, AllShown, Shows, Recorded
    <3>2. Answers = {"nothing"} /\ ChatFacts = {"nothing"}
      BY <3>1 DEF Answers, ChatFacts
    <3> QED BY <2>2, <3>2
  <2>3. CASE recent # NoRef
    <3>1. recent \in Refs /\ life[recent] # "new"
      BY <2>1, <2>3 DEF FileInv, RecentInv, Quiet, Forwarding
    <3>2. recent \in Recorded /\ Latest = {recent}
      BY <2>1, <3>1 DEF AllShown, Shows, Recorded, Latest, Clean, Types, CTypeOK, TypeOK, FileInv
    <3>3. Shows(recent, ReadRaw, life)
      BY <2>1, <3>1 DEF AllShown
    <3>4. /\ Healed[recent] = "complete" <=> life[recent] = "done"
          /\ Healed[recent] # "noted"
      BY <3>1, <3>3 DEF Healed, Stale, Shows
    <3>5. Answers = {Says(Healed[recent])}
      BY <3>2 DEF Answers
    <3>6. ChatFacts = {IF Healed[recent] = "complete" THEN "finished" ELSE "working"}
      BY <3>2 DEF ChatFacts
    <3>7. Says(Healed[recent]) = IF life[recent] = "done" THEN "finished" ELSE "working"
      BY <3>4 DEF Says
    <3> QED BY <2>3, <3>4, <3>5, <3>6, <3>7
  <2> QED BY <2>2, <2>3
<1> QED BY <1>1, Invariance, PTL

(* classify: what names a live session is never small talk, whatever the    *)
(* model says of it.                                                        *)
THEOREM NamedNeverSmallTalk == CSpec => []NeverSmallTalk
<1>1. NeverSmallTalk /\ [CNext]_all => NeverSmallTalk'
  <2>1. ASSUME NEW t \in Texts, Chat(t) PROVE ~t.names
    BY <2>1 DEF Chat, Labelled, Classify, ModelSays, AskedAgain, Labels, Texts
  <2>2. ASSUME NEW t \in Texts, Chat(t) PROVE NeverSmallTalk'
    BY <2>1, <2>2 DEF NeverSmallTalk, Chat, Ends, EndsSilently
  <2> QED BY <2>2 DEF NeverSmallTalk, CNext, Dispatch, Control, AnswerElse, AnswerState, Ends,
        EndsSilently, Forwards, FallsBack, Forward, DaemonForwards, CannotForward, HandOver, Others,
        Dies, all, turns
<1>2. CInit => NeverSmallTalk
  BY DEF CInit, NeverSmallTalk
<1> QED BY <1>1, <1>2, PTL DEF CSpec
=============================================================================
