---------------------------- MODULE DeliveryProofs ----------------------------
(***************************************************************************)
(* What Delivery promises, proved for any number of dictations, any plans  *)
(* and any number of faults.                                               *)
(*                                                                         *)
(* Each invariant of the runs follows from one about who holds what:       *)
(* HandInv (a busy sender has one dictation, and no one else has it),      *)
(* SilentInv (what the user has been told), WordsInv (no two dictations    *)
(* share a file), RecordInv and StrayInv (what the record of a file says,  *)
(* and which records can be left forwarded), BatchInv (where deliver_batch *)
(* is in its plan).                                                        *)
(***************************************************************************)
EXTENDS Delivery, FiniteSetTheorems, TLAPS

Steps == {"idle", "asked", "named", "written", "recorded", "refused"}
Places == {"unsaid", "listener", "to concierge", "concierge", "handing", "to router",
           "router", "batch", "done", "lost", "dropped", "blank"}
Jobs == [step : Steps, d : Dictations \cup {Nothing}, path : Paths]
Acks == [is : {"none", "armed", "over", "dropped", "swallowed"}, due : Nat]
Batches == [step : {"idle", "next", "retry", "sleep", "summary"},
            d : Dictations \cup {Nothing}, plan : Seq(Targets), i : Nat,
            budget : Nat, until : Nat, up : BOOLEAN, failures : SUBSET Nat]

HandTypes ==
  /\ job \in [Senders -> Jobs] /\ at \in [Dictations -> Places]
  /\ text \in [Dictations -> Dictations] /\ ref \in [Dictations -> Paths \cup {Nothing}]
  /\ files \in [Paths -> Dictations \cup {Nothing}]
  /\ record \in [Paths -> {"none", "forwarded", "complete", "failed"}]
VoiceTypes ==
  /\ heard \in [Dictations -> BOOLEAN] /\ ack \in [Dictations -> Acks]
  /\ told \subseteq Dictations
ClockTypes == now \in 0..MaxTime /\ listener \in BOOLEAN
BatchTypes == batch \in Batches /\ typed \in [1..Len(batch.plan) -> Nat]

(* Where a dictation is while a sender works on it, and after its first.   *)
Desk(s) == IF s = "listener" THEN "listener" ELSE "handing"
Handed == {"to concierge", "concierge", "blank", "handing", "to router", "router", "batch", "done"}

HandInv == \A s \in Senders :
  /\ job[s].step = "idle" <=> job[s].d = Nothing
  /\ job[s].d \in Dictations => at[job[s].d] = Desk(s)

FileInv ==
  /\ \A s \in Senders : job[s].step \in {"written", "recorded", "refused"} =>
                          files[job[s].path] \in Dictations
  /\ \A d \in Dictations : at[d] \in Handed => ref[d] \in Paths /\ files[ref[d]] \in Dictations

DeskInv ==
  /\ batch.step = "idle" <=> batch.d = Nothing
  /\ \A d \in Dictations : at[d] = "batch" <=> batch.d = d

Shape == HandTypes /\ VoiceTypes /\ ClockTypes /\ BatchTypes /\ HandInv /\ FileInv
         /\ DeskInv

SilentInv ==
  /\ \A s \in Senders : job[s].step = "refused" => job[s].d \in told
  /\ \A d \in told : heard[d] /\ at[d] # "unsaid"
  /\ \A d \in Dictations : /\ at[d] = "lost" => d \in told
                           /\ Armed(d) => now <= ack[d].due
                           /\ ack[d].is = "over" => heard[d]
                           /\ at[d] = "unsaid" => ack[d].is = "none"

WordsFacts ==
  /\ \A d \in Dictations : /\ text[d] = d
                           /\ at[d] \in Handed => files[ref[d]] = d
  /\ \A s \in Senders :
       /\ job[s].step \in {"written", "recorded", "refused"} => files[job[s].path] = job[s].d
       /\ job[s].step = "named" => files[job[s].path] = Nothing
  /\ \A s, t \in Senders :
       s # t /\ job[s].step = "named" /\ job[t].step = "named" => job[s].path # job[t].path

WordsInv == ~raced => WordsFacts

RouterHas == {"to router", "router"}

RecordFacts ==
  /\ \A p \in Paths : files[p] = Nothing => record[p] = "none"
  /\ \A s \in Senders : job[s].step \in {"recorded", "refused"} =>
                          record[job[s].path] = "forwarded"
  /\ \A d \in Dictations :
       /\ at[d] \in RouterHas => record[ref[d]] = "forwarded"
       /\ at[d] = "done" => record[ref[d]] = "complete"

SummaryFacts == batch.step = "summary" => record[ref[batch.d]] = "complete"

RecordInv == ~raced => RecordFacts /\ SummaryFacts

Early == {"unsaid", "listener", "to concierge", "concierge", "blank", "handing", "lost"}
InHand(d, p) == \E s \in Senders : /\ job[s].d = d /\ job[s].path = p
                                   /\ job[s].step \in {"recorded", "refused"}

Unsent == {"unsaid", "listener"}
StrayFacts == \A d \in Dictations, p \in Paths :
  at[d] \in Early /\ files[p] = d /\ record[p] = "forwarded" =>
    InHand(d, p) \/ (at[d] \notin Unsent /\ p = ref[d])

StrayInv == ~raced /\ faults = 0 => StrayFacts

BatchInv ==
  /\ \A j \in 1..Len(batch.plan) :
       /\ j >= batch.i => typed[j] = 0
       /\ j < batch.i => typed[j] <= 1 /\ (j \notin batch.failures => typed[j] = 1)
  /\ batch.step = "summary" => batch.i > Len(batch.plan)

-----------------------------------------------------------------------------
(* Types *)

(* Idle has a path, though a meaningless one: there is a name to spare.    *)
LEMMA ZeroPath == <<0, 0>> \in Paths
<1>1. Cardinality(Dictations) \in Nat /\ Cardinality(Dictations) # 0
  BY DeliveryAssumption, FS_CardinalityType, FS_EmptySet
<1>2. 0 \in 0..MaxTime /\ 0 \in 0..(2 * Cardinality(Dictations) - 1)
  BY <1>1, DeliveryAssumption
<1> QED BY <1>2 DEF Paths

LEMMA IdleJob == Idle \in Jobs
BY ZeroPath DEF Idle, Jobs, Steps

LEMMA NoBatchShape == NoBatch \in Batches /\ Len(NoBatch.plan) = 0 /\ <<>> \in [1..0 -> Nat]
BY DEF NoBatch, Batches

(* The frames in which the actions leave what they do not touch.           *)
Hand == <<job, at, text, ref, files, record>>
Voice == <<heard, ack, told>>

LEMMA HandKept == ASSUME HandTypes, UNCHANGED Hand PROVE HandTypes'
BY DEF HandTypes, Hand

LEMMA VoiceKept == ASSUME VoiceTypes, UNCHANGED Voice PROVE VoiceTypes'
BY DEF VoiceTypes, Voice

LEMMA SpokenKept == ASSUME VoiceTypes, Spoken, UNCHANGED ack,
                           told' \subseteq Dictations
                    PROVE  VoiceTypes'
BY DEF VoiceTypes, Spoken

(* What a sender's step may do to what is typed. *)
LEMMA JobMoves ==
  ASSUME HandTypes, NEW s \in Senders, NEW j \in Jobs, job' = [job EXCEPT ![s] = j],
         at' \in [Dictations -> Places], text' \in [Dictations -> Dictations],
         ref' \in [Dictations -> Paths \cup {Nothing}],
         files' \in [Paths -> Dictations \cup {Nothing}],
         record' \in [Paths -> {"none", "forwarded", "complete", "failed"}]
  PROVE  HandTypes'
BY DEF HandTypes

LEMMA HandTypesStep == ASSUME Shape, [Next]_vars PROVE HandTypes'
<1> USE DEF Shape
<1>1. ASSUME NEW s \in Senders, NEW x \in Steps
      PROVE  /\ [job[s] EXCEPT !.step = x] \in Jobs
             /\ [job EXCEPT ![s].step = x] = [job EXCEPT ![s] = [job[s] EXCEPT !.step = x]]
  BY DEF HandTypes, Jobs
<1>2. ASSUME NEW d \in Dictations, Dictated(d) PROVE HandTypes'
  <2>1. [Idle EXCEPT !.step = "asked", !.d = d] \in Jobs
    BY IdleJob DEF Jobs, Steps
  <2> QED BY <1>2, <2>1 DEF Dictated, HandTypes, Senders, Places
<1>3. ASSUME NEW d \in Dictations, HandsOff(d) PROVE HandTypes'
  <2>1. [Idle EXCEPT !.step = "asked", !.d = d] \in Jobs
    BY IdleJob DEF Jobs, Steps
  <2> QED BY <1>3, <2>1 DEF HandsOff, HandTypes, Senders, Places
<1>4. ASSUME NEW s \in Senders, Fails(s), UNCHANGED <<text, ref, files, record>>
      PROVE  HandTypes'
  BY <1>4, IdleJob DEF Fails, HandTypes, Places
<1>5. ASSUME NEW s \in Senders, Names(s) PROVE HandTypes'
  <2>1. PICK p \in Paths : job' = [job EXCEPT ![s].step = "named", ![s].path = p]
    BY <1>5 DEF Names
  <2>0. job[s] \in Jobs /\ "named" \in Steps
    BY DEF HandTypes, Steps
  <2>2. [job[s] EXCEPT !.step = "named", !.path = p] \in Jobs
    BY ONLY <2>0, p \in Paths DEF Jobs
  <2>3. job' = [job EXCEPT ![s] = [job[s] EXCEPT !.step = "named", !.path = p]]
    BY <2>1 DEF HandTypes, Jobs
  <2> QED BY <1>5, <2>2, <2>3, JobMoves DEF Names, HandTypes
<1>6. ASSUME NEW s \in Senders, Writes(s) PROVE HandTypes'
  <2>1. job[s].path \in Paths
    BY DEF HandTypes, Jobs
  <2>2. files' \in [Paths -> Dictations \cup {Nothing}]
    <3>1. job[s].d \in Dictations /\ text[job[s].d] \in Dictations
      BY <1>6 DEF HandTypes, HandInv, Writes, At, Jobs
    <3> QED BY <1>6, <2>1, <3>1 DEF Writes, HandTypes
  <2> QED BY <1>6, <2>2, <1>1, JobMoves DEF Writes, Moves, Steps, HandTypes
<1>7. ASSUME NEW s \in Senders, MarksForwarded(s) PROVE HandTypes'
  <2>1. job[s].path \in Paths
    BY DEF HandTypes, Jobs
  <2>2. record' \in [Paths -> {"none", "forwarded", "complete", "failed"}]
    BY <1>7, <2>1 DEF MarksForwarded, HandTypes
  <2> QED BY <1>7, <2>2, <1>1, JobMoves DEF MarksForwarded, Moves, Steps, HandTypes
<1>8. ASSUME NEW s \in Senders, Delivered(s) PROVE HandTypes'
  <2>1. job[s].path \in Paths
    BY DEF HandTypes, Jobs
  <2> QED BY <1>8, <2>1, IdleJob DEF Delivered, HandTypes, Places
<1>9. ASSUME NEW s \in Senders, Refused(s) PROVE HandTypes'
  BY <1>9, <1>1, JobMoves DEF Refused, Moves, Steps, HandTypes
<1>10. ASSUME NEW s \in Senders, MarksFailed(s) PROVE HandTypes'
  <2>1. job[s].path \in Paths
    BY DEF HandTypes, Jobs
  <2> QED BY <1>10, <2>1, IdleJob DEF MarksFailed, HandTypes, Places
<1>11. CASE HandoffRaises
  BY <1>11, <1>4 DEF HandoffRaises, Senders
<1>12. CASE ListenerDies
  BY <1>12, IdleJob DEF ListenerDies, HandTypes, Senders, Places
<1>13. ASSUME NEW d \in Dictations, Reads(d) PROVE HandTypes'
  <2>1. at' \in [Dictations -> Places] /\ Words(d) \in Dictations
    BY <1>13 DEF Reads, HandTypes, Places, Words, FileInv, Handed
  <2> QED BY <1>13, <2>1 DEF Reads, HandTypes
<1>14. ASSUME NEW d \in Dictations, Begins(d) PROVE HandTypes'
  BY <1>14 DEF Begins, HandTypes, Places
<1>15. CASE BatchRaises
  BY <1>15 DEF BatchRaises, HandTypes, Places
<1>16. CASE Completes
  BY <1>16 DEF Completes, HandTypes
<1>17. CASE Summarises
  BY <1>17 DEF Summarises, HandTypes, Places
<1>18. ASSUME NEW d \in Dictations, Acknowledges(d) PROVE HandTypes'
  BY <1>18, HandKept DEF Acknowledges, hand, Hand
<1>19. CASE ListenerStarts \/ SomeoneSpeaks \/ Tick \/ UNCHANGED vars
  BY <1>19, HandKept DEF ListenerStarts, SomeoneSpeaks, Tick, vars, hand, Hand
<1>20. CASE Skipped \/ Sent \/ NotSent \/ LeftOpen \/ Busy \/ Wakes
  BY <1>20, HandKept DEF Skipped, Sent, NotSent, LeftOpen, Busy, Wakes, Still, hand, Hand
<1>21. ASSUME NEW s \in Senders, NoTarget(s) \/ EnqueueFails(s) PROVE HandTypes'
  BY <1>21, <1>4 DEF NoTarget, EnqueueFails
<1>22. ASSUME NEW d \in Dictations, HandsNothing(d) PROVE HandTypes'
  BY <1>22 DEF HandsNothing, HandTypes, Places
<1> QED
  BY <1>2, <1>3, <1>5, <1>6, <1>7, <1>8, <1>9, <1>10, <1>11, <1>12, <1>13, <1>14, <1>15,
     <1>16, <1>17, <1>18, <1>19, <1>20, <1>21, <1>22 DEF Next, Sends, Batch

LEMMA VoiceTypesStep == ASSUME Shape, [Next]_vars PROVE VoiceTypes'
<1> USE DEF Shape
<1>1. now \in Nat /\ now + AckAfter \in Nat
  BY DeliveryAssumption DEF ClockTypes
<1>2. ASSUME NEW is \in {"none", "armed", "over", "dropped", "swallowed"}, NEW due \in Nat
      PROVE  Ack(is, due) \in Acks
  BY DEF Ack, Acks
<1>3. ASSUME NEW s \in Senders, Fails(s), job[s].step # "idle", UNCHANGED ack
      PROVE  VoiceTypes'
  <2>1. job[s].d \in Dictations
    BY <1>3 DEF HandTypes, HandInv, Jobs
  <2> QED BY <1>3, <2>1, SpokenKept DEF Fails, VoiceTypes
<1>4. ASSUME NEW d \in Dictations, Dictated(d) PROVE VoiceTypes'
  <2>1. Ack("armed", now + AckAfter) \in Acks /\ Ack("swallowed", 0) \in Acks
    BY <1>1, <1>2
  <2> QED BY <1>4, <2>1 DEF Dictated, VoiceTypes
<1>5. ASSUME NEW d \in Dictations, Acknowledges(d) PROVE VoiceTypes'
  <2>1. Ack("over", 0) \in Acks
    BY <1>2
  <2>2. heard' \in [Dictations -> BOOLEAN]
    BY <1>5 DEF Acknowledges, Spoken, VoiceTypes
  <2> QED BY <1>5, <2>1, <2>2 DEF Acknowledges, VoiceTypes
<1>6. ASSUME NEW s \in Senders, NoTarget(s) \/ EnqueueFails(s) PROVE VoiceTypes'
  BY <1>6, <1>3 DEF NoTarget, EnqueueFails, At
<1>7. ASSUME NEW s \in Senders, Refused(s) PROVE VoiceTypes'
  <2>1. job[s].d \in Dictations
    BY <1>7 DEF HandTypes, HandInv, Jobs, Refused, At
  <2> QED BY <1>7, <2>1, SpokenKept DEF Refused, VoiceTypes
<1>8. CASE HandoffRaises
  BY <1>8, <1>3 DEF HandoffRaises, At, Senders
<1>9. CASE ListenerDies
  <2>1. Ack("dropped", 0) \in Acks
    BY <1>2
  <2> QED BY <1>9, <2>1 DEF ListenerDies, VoiceTypes
<1>10. CASE SomeoneSpeaks
  BY <1>10, SpokenKept DEF SomeoneSpeaks, VoiceTypes
<1>11. CASE Skipped \/ Sent \/ NotSent \/ LeftOpen
  BY <1>11, SpokenKept DEF Skipped, Sent, NotSent, LeftOpen, Still, VoiceTypes
<1>12. CASE Summarises
  BY <1>12, SpokenKept DEF Summarises, VoiceTypes
<1>13. CASE Busy \/ Wakes \/ BatchRaises \/ Completes
  BY <1>13, VoiceKept DEF Busy, Wakes, Still, BatchRaises, Completes, voice, Voice
<1>14. CASE ListenerStarts \/ Tick \/ UNCHANGED vars
  BY <1>14, VoiceKept DEF ListenerStarts, Tick, vars, voice, Voice
<1>15. ASSUME NEW s \in Senders,
              Names(s) \/ Writes(s) \/ MarksForwarded(s) \/ Delivered(s) \/ MarksFailed(s)
       PROVE  VoiceTypes'
  BY <1>15, VoiceKept DEF Names, Writes, MarksForwarded, Delivered, MarksFailed, voice, Voice
<1>16. ASSUME NEW d \in Dictations, HandsNothing(d) \/ HandsOff(d) \/ Reads(d) \/ Begins(d)
       PROVE  VoiceTypes'
  BY <1>16, VoiceKept DEF HandsNothing, HandsOff, Reads, Begins, voice, Voice
<1> QED
  BY <1>4, <1>5, <1>6, <1>7, <1>8, <1>9, <1>10, <1>11, <1>12, <1>13, <1>14, <1>15, <1>16
     DEF Next, Sends, Batch

LEMMA ClockTypesStep == ASSUME Shape, [Next]_vars PROVE ClockTypes'
<1> USE DEF Shape, ClockTypes
<1>1. CASE UNCHANGED <<now, listener>>
  BY <1>1
<1>2. CASE Tick
  BY <1>2, DeliveryAssumption DEF Tick
<1>3. CASE ListenerDies \/ ListenerStarts
  BY <1>3 DEF ListenerDies, ListenerStarts
<1>4. ASSUME NEW d \in Dictations PROVE
        Dictated(d) \/ HandsNothing(d) \/ HandsOff(d) \/ Reads(d) \/ Acknowledges(d) \/ Begins(d)
          => UNCHANGED <<now, listener>>
  BY DEF Dictated, HandsNothing, HandsOff, Reads, Acknowledges, Begins
<1>5. ASSUME NEW s \in Senders PROVE Sends(s) => UNCHANGED <<now, listener>>
  BY DEF Sends, NoTarget, Names, Writes, MarksForwarded, EnqueueFails, Delivered, Refused,
         MarksFailed
<1>6. HandoffRaises \/ SomeoneSpeaks \/ Batch => UNCHANGED <<now, listener>>
  BY DEF HandoffRaises, SomeoneSpeaks, Batch, Skipped, Sent, NotSent, LeftOpen, Busy, Wakes,
         Still, BatchRaises, Completes, Summarises
<1> QED BY <1>1, <1>2, <1>3, <1>4, <1>5, <1>6 DEF Next, vars

(* What the steps of a batch do to its own state; every other step leaves  *)
(* batch and typed alone.                                                  *)
LEMMA BatchTypesStep == ASSUME Shape, [Next]_vars PROVE BatchTypes'
<1> USE DEF Shape
<1>1. CASE UNCHANGED work
  BY <1>1 DEF BatchTypes, work
<1>2. ASSUME NEW d \in Dictations, Begins(d) PROVE BatchTypes'
  <2>1. PICK plan \in Plans, up \in {listener, TRUE} :
          /\ batch' = [NoBatch EXCEPT !.step = "next", !.d = d, !.plan = plan,
                                      !.budget = Budget, !.up = up]
          /\ typed' = [i \in DOMAIN plan |-> 0]
    BY <1>2 DEF Begins
  <2>2. plan \in Seq(Targets) /\ Budget \in Nat /\ up \in BOOLEAN
    BY DeliveryAssumption DEF ClockTypes
  <2>3. batch' \in Batches
    BY <2>1, <2>2, NoBatchShape DEF Batches
  <2>4. batch'.plan = plan /\ DOMAIN plan = 1..Len(plan)
    BY <2>1, <2>2 DEF NoBatch
  <2>5. typed' \in [1..Len(batch'.plan) -> Nat]
    BY <2>1, <2>4
  <2> QED BY <2>3, <2>5 DEF BatchTypes
<1>3. CASE BatchRaises \/ Summarises
  BY <1>3, NoBatchShape DEF BatchRaises, Summarises, BatchTypes
<1>4. CASE Completes \/ Wakes
  BY <1>4 DEF Completes, Wakes, BatchTypes, Batches
<1>5. ASSUME NEW failed \in BOOLEAN, Advance(failed) PROVE batch' \in Batches /\ batch'.plan = batch.plan
  <2>1. batch \in Batches /\ batch.i \in Nat /\ batch.i + 1 \in Nat
        /\ batch.failures \in SUBSET Nat /\ batch.failures \cup {batch.i} \in SUBSET Nat
    BY DEF BatchTypes, Batches
  <2>2. CASE failed
    BY <1>5, <2>1, <2>2 DEF Advance, Batches
  <2>3. CASE ~failed
    BY <1>5, <2>1, <2>3 DEF Advance, Batches
  <2> QED BY <2>2, <2>3
<1>6. CASE Skipped \/ NotSent
  BY <1>6, <1>5 DEF Skipped, NotSent, BatchTypes
<1>7. CASE Sent \/ LeftOpen
  <2>1. typed' = [typed EXCEPT ![batch.i] = @ + 1]
    BY <1>7 DEF Sent, LeftOpen, Types
  <2>2. typed' \in [1..Len(batch.plan) -> Nat]
    <3>1. typed \in [1..Len(batch.plan) -> Nat]
      BY DEF BatchTypes
    <3>2. CASE batch.i \in 1..Len(batch.plan)
      BY <2>1, <3>1, <3>2
    <3>3. CASE batch.i \notin 1..Len(batch.plan)
      BY <2>1, <3>1, <3>3
    <3> QED BY <3>2, <3>3
  <2> QED BY <1>7, <1>5, <2>2 DEF Sent, LeftOpen, BatchTypes
<1>8. CASE Busy
  <2>1. now + RetryDelay \in Nat /\ batch.budget - RetryDelay \in Nat
    BY <1>8, DeliveryAssumption DEF Busy, CanRetry, ClockTypes, BatchTypes, Batches
  <2> QED BY <1>8, <2>1 DEF Busy, BatchTypes, Batches
<1>9. ASSUME NEW d \in Dictations PROVE
        Dictated(d) \/ HandsNothing(d) \/ HandsOff(d) \/ Reads(d) \/ Acknowledges(d) => UNCHANGED work
  BY DEF Dictated, HandsNothing, HandsOff, Reads, Acknowledges
<1>10. ASSUME NEW s \in Senders PROVE Sends(s) => UNCHANGED work
  BY DEF Sends, NoTarget, Names, Writes, MarksForwarded, EnqueueFails, Delivered, Refused,
         MarksFailed
<1>11. HandoffRaises \/ ListenerDies \/ ListenerStarts \/ SomeoneSpeaks \/ Tick => UNCHANGED work
  BY DEF HandoffRaises, ListenerDies, ListenerStarts, SomeoneSpeaks, Tick
<1> QED
  BY <1>1, <1>2, <1>3, <1>4, <1>6, <1>7, <1>8, <1>9, <1>10, <1>11 DEF Next, Batch, vars

(* No two senders work on one dictation. *)
LEMMA OwnDesk ==
  ASSUME Shape, NEW s \in Senders, NEW t \in Senders, s # t,
         job[s].step # "idle"
  PROVE  /\ job[s].d \in Dictations /\ at[job[s].d] = Desk(s)
         /\ job[t].d # job[s].d /\ job[s].path \in Paths
BY DEF Shape, HandTypes, HandInv, Jobs, Desk, Senders

LEMMA AtDesk ==
  ASSUME Shape, NEW s \in Senders, job[s].step # "idle"
  PROVE  job[s].d \in Dictations /\ at[job[s].d] = Desk(s) /\ job[s].path \in Paths
BY DEF Shape, HandTypes, HandInv, Jobs

(* A sender lays down what it had, or lets go of it somewhere else. *)
LEMMA HandFreed ==
  ASSUME Shape, NEW s \in Senders, job[s].step # "idle", NEW place \in Places,
         job' = [job EXCEPT ![s] = Idle], at' = [at EXCEPT ![job[s].d] = place]
  PROVE  HandInv'
<1>1. job[s].d \in Dictations
  BY AtDesk
<1>2. ASSUME NEW t \in Senders
      PROVE  /\ job'[t].step = "idle" <=> job'[t].d = Nothing
             /\ job'[t].d \in Dictations => at'[job'[t].d] = Desk(t)
  <2>1. CASE t = s
    BY <2>1, DeliveryAssumption DEF Idle, Shape, HandTypes
  <2>2. CASE t # s
    <3>1. job'[t] = job[t] /\ job[t].d # job[s].d
      BY <2>2, OwnDesk DEF Shape, HandTypes
    <3> QED BY <3>1, <1>1 DEF Shape, HandTypes, HandInv
  <2> QED BY <2>1, <2>2
<1> QED BY <1>2 DEF HandInv

(* It takes up one that is on no desk. *)
LEMMA HandTaken ==
  ASSUME Shape, NEW s \in Senders, NEW d \in Dictations, at[d] \in {"unsaid", "concierge", "blank"},
         job' = [job EXCEPT ![s] = [Idle EXCEPT !.step = "asked", !.d = d]],
         at' = [at EXCEPT ![d] = Desk(s)]
  PROVE  HandInv'
<1>1. ASSUME NEW t \in Senders
      PROVE  /\ job'[t].step = "idle" <=> job'[t].d = Nothing
             /\ job'[t].d \in Dictations => at'[job'[t].d] = Desk(t)
  <2>1. CASE t = s
    BY <2>1, DeliveryAssumption DEF Idle, Shape, HandTypes
  <2>2. CASE t # s
    <3>1. job'[t] = job[t] /\ job[t].d # d
      BY <2>2 DEF Shape, HandTypes, HandInv, Desk
    <3> QED BY <3>1 DEF Shape, HandTypes, HandInv
  <2> QED BY <2>1, <2>2
<1> QED BY <1>1 DEF HandInv

(* It goes on with what it has, or another place changes hands. *)
LEMMA HandStays ==
  ASSUME Shape, job' \in [Senders -> Jobs],
         \A t \in Senders : /\ job'[t].d = job[t].d
                            /\ job'[t].step = "idle" <=> job[t].step = "idle",
         \A d \in Dictations : at[d] \in {"listener", "handing"} => at'[d] = at[d]
  PROVE  HandInv'
BY DEF Shape, HandTypes, HandInv, Desk

LEMMA HandInvStep == ASSUME Shape, [Next]_vars PROVE HandInv'
<1>1. HandTypes'
  BY HandTypesStep
<1>2. CASE UNCHANGED <<job, at>>
  BY <1>2 DEF Shape, HandInv
<1>3. ASSUME NEW d \in Dictations, Dictated(d) PROVE HandInv'
  BY <1>3, HandTaken DEF Dictated, Senders, Desk
<1>4. ASSUME NEW d \in Dictations, HandsOff(d) PROVE HandInv'
  BY <1>4, HandTaken DEF HandsOff, Senders, Desk
<1>5. ASSUME NEW s \in Senders, Fails(s), job[s].step # "idle" PROVE HandInv'
  BY <1>5, HandFreed DEF Fails, Places
<1>6. ASSUME NEW s \in Senders, NoTarget(s) \/ EnqueueFails(s) PROVE HandInv'
  BY <1>6, <1>5 DEF NoTarget, EnqueueFails, At
<1>7. ASSUME NEW s \in Senders, Names(s) \/ Writes(s) \/ MarksForwarded(s) \/ Refused(s)
      PROVE  HandInv'
  <2>1. \A t \in Senders : /\ job'[t].d = job[t].d
                           /\ job'[t].step = "idle" <=> job[t].step = "idle"
    BY <1>7 DEF Names, Writes, MarksForwarded, Refused, Moves, At, Shape, HandTypes, Jobs
  <2>2. at' = at
    BY <1>7 DEF Names, Writes, MarksForwarded, Refused
  <2> QED BY <2>1, <2>2, <1>1, HandStays DEF HandTypes
<1>8. ASSUME NEW s \in Senders, Delivered(s) PROVE HandInv'
  <2>1. PICK place \in Places : at' = [at EXCEPT ![job[s].d] = place]
    BY <1>8 DEF Delivered, Places
  <2> QED BY <1>8, <2>1, HandFreed DEF Delivered, At
<1>9. ASSUME NEW s \in Senders, MarksFailed(s) PROVE HandInv'
  BY <1>9, HandFreed DEF MarksFailed, At, Places
<1>10. CASE HandoffRaises
  BY <1>10, <1>5 DEF HandoffRaises, At, Senders
<1>11. CASE ListenerDies
  BY <1>11, DeliveryAssumption DEF ListenerDies, Idle, Shape, HandTypes, HandInv, Senders, Desk
<1>12. ASSUME NEW d \in Dictations, Reads(d) PROVE HandInv'
  <2>1. \A e \in Dictations : at[e] \in {"listener", "handing"} => at'[e] = at[e]
    BY <1>12 DEF Reads, Shape, HandTypes
  <2> QED BY <1>12, <2>1, HandStays DEF Reads, Shape, HandTypes
<1>13. ASSUME NEW d \in Dictations, Begins(d) \/ HandsNothing(d) PROVE HandInv'
  <2>1. \A e \in Dictations : at[e] \in {"listener", "handing"} => at'[e] = at[e]
    BY <1>13 DEF Begins, HandsNothing, Shape, HandTypes
  <2> QED BY <1>13, <2>1, HandStays DEF Begins, HandsNothing, Shape, HandTypes
<1>14. CASE BatchRaises \/ Summarises
  <2>1. \A e \in Dictations : at[e] \in {"listener", "handing"} => at'[e] = at[e]
    BY <1>14 DEF BatchRaises, Summarises, Shape, HandTypes, DeskInv, Done, BatchTypes, Batches
  <2> QED BY <1>14, <2>1, HandStays DEF BatchRaises, Summarises, Shape, HandTypes
<1>15. ASSUME NEW d \in Dictations PROVE Acknowledges(d) => UNCHANGED <<job, at>>
  BY DEF Acknowledges, hand
<1>16. ListenerStarts \/ SomeoneSpeaks \/ Tick => UNCHANGED <<job, at>>
  BY DEF ListenerStarts, SomeoneSpeaks, Tick, hand
<1>17. Skipped \/ Sent \/ NotSent \/ LeftOpen \/ Busy \/ Wakes \/ Completes => UNCHANGED <<job, at>>
  BY DEF Skipped, Sent, NotSent, LeftOpen, Busy, Wakes, Completes, Still, hand
<1> QED
  BY <1>2, <1>3, <1>4, <1>6, <1>7, <1>8, <1>9, <1>10, <1>11, <1>12, <1>13, <1>14, <1>15,
     <1>16, <1>17 DEF Next, Sends, Batch, vars, hand

(* A step of another moves no dictation to the batch or away from it. *)
LEMMA DeskStays ==
  ASSUME Shape, UNCHANGED batch,
         \A d \in Dictations : at'[d] # at[d] => at[d] # "batch" /\ at'[d] # "batch"
  PROVE  DeskInv'
BY DEF Shape, DeskInv

LEMMA DeskInvStep == ASSUME Shape, [Next]_vars PROVE DeskInv'
<1> USE DEF Shape, HandTypes
<1>1. CASE UNCHANGED <<at, batch>>
  BY <1>1 DEF DeskInv
<1>2. ASSUME NEW s \in Senders, NEW place \in Places \ {"batch"}, job[s].step # "idle",
             UNCHANGED batch, at' = [at EXCEPT ![job[s].d] = place]
      PROVE  DeskInv'
  BY <1>2, AtDesk, DeskStays DEF Desk
<1>3. ASSUME NEW s \in Senders, Sends(s) PROVE DeskInv'
  <2>1. CASE UNCHANGED at
    BY <1>3, <2>1, <1>1 DEF Sends, NoTarget, Names, Writes, MarksForwarded, EnqueueFails,
          Delivered, Refused, MarksFailed, work
  <2>2. CASE NoTarget(s) \/ EnqueueFails(s) \/ Delivered(s) \/ MarksFailed(s)
    BY <2>2, <1>2 DEF NoTarget, EnqueueFails, Delivered, MarksFailed, Fails, At, Places, work
  <2> QED BY <1>3, <2>1, <2>2 DEF Sends, Names, Writes, MarksForwarded, Refused
<1>4. CASE HandoffRaises
  BY <1>4, <1>2 DEF HandoffRaises, Fails, At, Senders, Places, work
<1>5. CASE ListenerDies
  BY <1>5, DeskStays DEF ListenerDies, work
<1>6. ASSUME NEW d \in Dictations, Dictated(d) \/ HandsNothing(d) \/ HandsOff(d) \/ Reads(d) PROVE DeskInv'
  BY <1>6, DeskStays DEF Dictated, HandsNothing, HandsOff, Reads, work
<1>7. ASSUME NEW d \in Dictations, Begins(d) PROVE DeskInv'
  <2>1. batch'.step = "next" /\ batch'.d = d
    BY <1>7 DEF Begins, NoBatch
  <2>2. \A e \in Dictations : at[e] # "batch"
    BY <1>7, DeliveryAssumption DEF Begins, DeskInv
  <2> QED BY <1>7, <2>1, <2>2, DeliveryAssumption DEF Begins, DeskInv
<1>8. CASE BatchRaises \/ Summarises
  <2>1. batch.d \in Dictations /\ batch' = NoBatch
    BY <1>8 DEF BatchRaises, Summarises, DeskInv, BatchTypes, Batches
  <2>2. \A d \in Dictations : at'[d] # "batch"
    BY <1>8, <2>1 DEF BatchRaises, Summarises, DeskInv
  <2> QED BY <2>1, <2>2, DeliveryAssumption DEF NoBatch, DeskInv
<1>9. ASSUME UNCHANGED at, batch'.d = batch.d, batch.step # "idle", batch'.step # "idle"
      PROVE  DeskInv'
  BY <1>9 DEF DeskInv
<1>10. CASE Skipped \/ Sent \/ NotSent \/ LeftOpen \/ Busy \/ Wakes \/ Completes
  <2>1. batch'.d = batch.d /\ batch.step # "idle" /\ batch'.step # "idle"
    BY <1>10 DEF Skipped, Sent, NotSent, LeftOpen, Busy, Wakes, Completes, Done, Sending,
          Advance, BatchTypes, Batches
  <2> QED BY <1>10, <2>1, <1>9
          DEF Skipped, Sent, NotSent, LeftOpen, Busy, Wakes, Completes, Still, hand
<1>11. ASSUME NEW d \in Dictations PROVE Acknowledges(d) => UNCHANGED <<at, batch>>
  BY DEF Acknowledges, hand, work
<1>12. ListenerStarts \/ SomeoneSpeaks \/ Tick => UNCHANGED <<at, batch>>
  BY DEF ListenerStarts, SomeoneSpeaks, Tick, hand, work
<1> QED
  BY <1>1, <1>3, <1>4, <1>5, <1>6, <1>7, <1>8, <1>10, <1>11, <1>12
     DEF Next, Batch, vars, hand, work

LEMMA FileInvStep == ASSUME Shape, [Next]_vars PROVE FileInv'
<1> USE DEF Shape, HandTypes
<1>1. ASSUME files' = files, ref' = ref,
             \A s \in Senders : job'[s].step \in {"written", "recorded", "refused"} =>
               /\ job[s].step \in {"written", "recorded", "refused"}
               /\ job'[s].path = job[s].path,
             \A d \in Dictations : at'[d] \in Handed => at[d] \in Handed
      PROVE  FileInv'
  BY <1>1 DEF FileInv
<1>2. ASSUME NEW s \in Senders, NEW place, job[s].step # "idle", place \notin Handed,
             files' = files, ref' = ref,
             job' = [job EXCEPT ![s] = Idle], at' = [at EXCEPT ![job[s].d] = place]
      PROVE  FileInv'
  BY <1>2, <1>1 DEF Idle
<1>3. ASSUME NEW s \in Senders, NoTarget(s) \/ EnqueueFails(s) \/ MarksFailed(s) PROVE FileInv'
  BY <1>3, <1>2 DEF NoTarget, EnqueueFails, MarksFailed, Fails, At, Handed
<1>4. CASE HandoffRaises
  BY <1>4, <1>2 DEF HandoffRaises, Fails, At, Handed, Senders
<1>5. ASSUME NEW s \in Senders, Names(s) PROVE FileInv'
  <2>1. job'[s].step = "named" /\ \A t \in Senders \ {s} : job'[t] = job[t]
    BY <1>5 DEF Names, Jobs
  <2> QED BY <1>5, <2>1, <1>1 DEF Names
<1>6. ASSUME NEW s \in Senders, Writes(s) PROVE FileInv'
  <2>1. /\ job[s].path \in Paths /\ text[job[s].d] \in Dictations
        /\ files' = [files EXCEPT ![job[s].path] = text[job[s].d]]
    BY <1>6, AtDesk DEF Writes, At
  <2>2. \A p \in Paths : files[p] \in Dictations \/ p = job[s].path => files'[p] \in Dictations
    BY <2>1
  <2>3. \A t \in Senders : job'[t].path = job[t].path /\ job[t].path \in Paths
                           /\ (t # s => job'[t] = job[t])
    BY <1>6 DEF Writes, Moves, Jobs
  <2> QED BY <1>6, <2>2, <2>3 DEF Writes, FileInv
<1>7. ASSUME NEW s \in Senders, MarksForwarded(s) \/ Refused(s) PROVE FileInv'
  <2>1. \A t \in Senders : job'[t].path = job[t].path /\ (t # s => job'[t] = job[t])
    BY <1>7 DEF MarksForwarded, Refused, Moves, Jobs
  <2> QED BY <1>7, <2>1, <1>1 DEF MarksForwarded, Refused, At
<1>8. ASSUME NEW s \in Senders, Delivered(s) PROVE FileInv'
  <2>1. job[s].path \in Paths /\ files[job[s].path] \in Dictations /\ files' = files
    BY <1>8, AtDesk DEF Delivered, At, FileInv
  <2>2. \A t \in Senders : (t = s /\ job'[t].step = "idle") \/ job'[t] = job[t]
    BY <1>8 DEF Delivered, Idle
  <2>3. \A d \in Dictations : \/ ref'[d] = ref[d] /\ at'[d] = at[d]
                              \/ ref'[d] = job[s].path
    BY <1>8 DEF Delivered
  <2> QED BY <2>1, <2>2, <2>3 DEF FileInv
<1>9. ASSUME NEW s \in Senders, NEW d \in Dictations, files' = files, ref' = ref,
             job' = [job EXCEPT ![s] = [Idle EXCEPT !.step = "asked", !.d = d]],
             at' = [at EXCEPT ![d] = Desk(s)], Desk(s) \in Handed => at[d] \in Handed
      PROVE  FileInv'
  BY <1>9, <1>1 DEF Idle
<1>10. ASSUME NEW d \in Dictations, Dictated(d) \/ HandsOff(d) PROVE FileInv'
  BY <1>10, <1>9 DEF Dictated, HandsOff, Senders, Desk, Handed
<1>11. CASE ListenerDies
  BY <1>11, <1>1 DEF ListenerDies, Idle, Handed
<1>12. ASSUME NEW d \in Dictations, HandsNothing(d) \/ Reads(d) \/ Begins(d) PROVE FileInv'
  BY <1>12, <1>1 DEF HandsNothing, Reads, Begins, Handed
<1>13. CASE BatchRaises \/ Summarises
  <2>1. batch.d \in Dictations /\ at[batch.d] \in Handed
    BY <1>13 DEF BatchRaises, Summarises, Handed, DeskInv, BatchTypes, Batches
  <2>2. \A d \in Dictations : at'[d] \in Handed => at[d] \in Handed
    BY <1>13, <2>1 DEF BatchRaises, Summarises
  <2>3. files' = files /\ ref' = ref /\ job' = job
    BY <1>13 DEF BatchRaises, Summarises
  <2> QED BY <2>2, <2>3, <1>1
<1>14. CASE UNCHANGED <<job, at, ref, files>>
  BY <1>14, <1>1
<1>15. ASSUME NEW d \in Dictations PROVE Acknowledges(d) => UNCHANGED <<job, at, ref, files>>
  BY DEF Acknowledges, hand
<1>16. ListenerStarts \/ SomeoneSpeaks \/ Tick => UNCHANGED <<job, at, ref, files>>
  BY DEF ListenerStarts, SomeoneSpeaks, Tick, hand
<1>17. Skipped \/ Sent \/ NotSent \/ LeftOpen \/ Busy \/ Wakes \/ Completes
         => UNCHANGED <<job, at, ref, files>>
  BY DEF Skipped, Sent, NotSent, LeftOpen, Busy, Wakes, Completes, Still, hand
<1> QED
  BY <1>3, <1>4, <1>5, <1>6, <1>7, <1>8, <1>10, <1>11, <1>12, <1>13, <1>14, <1>15,
     <1>16, <1>17 DEF Next, Sends, Batch, vars, hand

LEMMA ShapeInit == ASSUME Init PROVE Shape
<1>1. HandTypes /\ VoiceTypes /\ ClockTypes
  BY IdleJob, DeliveryAssumption DEF Init, HandTypes, VoiceTypes, ClockTypes, Places, Ack, Acks
<1>2. BatchTypes
  BY NoBatchShape DEF Init, BatchTypes
<1>3. HandInv /\ FileInv /\ DeskInv
  BY DeliveryAssumption DEF Init, HandInv, FileInv, DeskInv, Idle, NoBatch, Handed
<1> QED BY <1>1, <1>2, <1>3 DEF Shape

LEMMA ShapeStep == ASSUME Shape, [Next]_vars PROVE Shape'
BY HandTypesStep, VoiceTypesStep, ClockTypesStep, BatchTypesStep, HandInvStep, FileInvStep,
   DeskInvStep DEF Shape

LEMMA ShapeHolds == Spec => []Shape
BY ShapeInit, ShapeStep, PTL DEF Spec

(* Every variable keeps its type; a sender that is idle has no dictation.  *)
THEOREM TypeCorrect == Spec => []TypeOK
<1>1. Shape => TypeOK
  BY DEF Shape, TypeOK, HandTypes, VoiceTypes, ClockTypes, HandInv, Jobs
<1> QED BY <1>1, ShapeHolds, PTL

-----------------------------------------------------------------------------
(* What the user hears *)

LEMMA SilentInit == ASSUME Init PROVE SilentInv
BY DEF Init, SilentInv, Idle, Ack, Armed

LEMMA SilentStep == ASSUME Shape, SilentInv, [Next]_vars PROVE SilentInv'
<1> USE DEF Shape, HandTypes, VoiceTypes, SilentInv, Armed
(* Nothing is unsaid: what was lost, refused or spoken remains so. *)
<1>1. ASSUME \A s \in Senders : job'[s].step = "refused" =>
               job[s].step = "refused" /\ job'[s].d = job[s].d,
             \A d \in Dictations : at'[d] \in {"lost", "unsaid"} => at'[d] = at[d],
             ack' = ack, now' = now, told' = told, heard' = heard \/ Spoken
      PROVE  SilentInv'
  BY <1>1 DEF Spoken
<1>2. ASSUME NEW s \in Senders, Fails(s), job[s].step # "idle", ack' = ack, now' = now
      PROVE  SilentInv'
  BY <1>2, AtDesk DEF Fails, Idle, Spoken
<1>3. ASSUME NEW s \in Senders, NoTarget(s) \/ EnqueueFails(s) PROVE SilentInv'
  BY <1>3, <1>2 DEF NoTarget, EnqueueFails, At
<1>4. CASE HandoffRaises
  BY <1>4, <1>2 DEF HandoffRaises, At, Senders
<1>5. ASSUME NEW s \in Senders, Refused(s) PROVE SilentInv'
  BY <1>5, AtDesk DEF Refused, Moves, At, Spoken, Desk
<1>6. ASSUME NEW s \in Senders, MarksFailed(s) PROVE SilentInv'
  BY <1>6, AtDesk DEF MarksFailed, At, Idle, voice
<1>7. ASSUME NEW s \in Senders, Names(s) \/ Writes(s) \/ MarksForwarded(s) PROVE SilentInv'
  <2>1. \A t \in Senders : job'[t].step = "refused" =>
               job[t].step = "refused" /\ job'[t].d = job[t].d
    BY <1>7 DEF Names, Writes, MarksForwarded, Moves, At, Jobs
  <2> QED BY <1>7, <2>1, <1>1 DEF Names, Writes, MarksForwarded, voice
<1>8. ASSUME NEW s \in Senders, Delivered(s) PROVE SilentInv'
  BY <1>8, <1>1, AtDesk DEF Delivered, At, Idle, voice
<1>9. ASSUME NEW d \in Dictations, Dictated(d) PROVE SilentInv'
  <2>1. now <= now + AckAfter
    BY DeliveryAssumption DEF ClockTypes
  <2> QED BY <1>9, <2>1 DEF Dictated, Idle, Ack
<1>10. ASSUME NEW d \in Dictations, HandsNothing(d) \/ HandsOff(d) \/ Reads(d) \/ Begins(d)
       PROVE  SilentInv'
  <2>1. CASE HandsOff(d)
    BY <2>1, <1>1 DEF HandsOff, Idle, voice
  <2>4. CASE HandsNothing(d)
    BY <2>4, <1>1 DEF HandsNothing, voice
  <2>2. CASE Reads(d)
    BY <2>2, <1>1 DEF Reads, voice
  <2>3. CASE Begins(d)
    BY <2>3, <1>1 DEF Begins, voice
  <2> QED BY <1>10, <2>1, <2>2, <2>3, <2>4
<1>11. ASSUME NEW d \in Dictations, Acknowledges(d) PROVE SilentInv'
  BY <1>11 DEF Acknowledges, Due, Ack, Spoken, hand
<1>12. CASE ListenerDies
  BY <1>12 DEF ListenerDies, Idle, Ack
<1>13. CASE Tick
  <2>1. \A d \in Dictations : ack[d].due \in Nat
    BY DEF Acks
  <2>2. \A d \in Dictations : Armed(d) => now + 1 <= ack[d].due
    <3> SUFFICES ASSUME NEW d \in Dictations, Armed(d) PROVE now + 1 <= ack[d].due
      OBVIOUS
    <3>1. now <= ack[d].due /\ ack[d].due # now
      BY <1>13 DEF Tick, Due
    <3>2. now \in Nat /\ ack[d].due \in Nat
      BY <2>1, DeliveryAssumption DEF ClockTypes
    <3>3. \A m, n \in Nat : m <= n /\ n # m => m + 1 <= n
      OBVIOUS
    <3> QED BY ONLY <3>1, <3>2, <3>3
  <2> QED BY <1>13, <2>2 DEF Tick, hand, voice
<1>14. CASE BatchRaises \/ Summarises
  BY <1>14, <1>1 DEF BatchRaises, Summarises, voice
<1>15. CASE Skipped \/ Sent \/ NotSent \/ LeftOpen \/ Busy \/ Wakes
  BY <1>15, <1>1 DEF Skipped, Sent, NotSent, LeftOpen, Busy, Wakes, Still, hand
<1>16. CASE Completes \/ ListenerStarts \/ SomeoneSpeaks \/ UNCHANGED vars
  BY <1>16, <1>1 DEF Completes, ListenerStarts, SomeoneSpeaks, vars, hand, voice
<1> QED
  BY <1>3, <1>4, <1>5, <1>6, <1>7, <1>8, <1>9, <1>10, <1>11, <1>12, <1>13, <1>14, <1>15,
     <1>16 DEF Next, Sends, Batch

(* deliver_transcript, handoff_to_router, _wait_then_ack: a dictation that *)
(* went no further was announced, whoever gave it up and over what; and    *)
(* once its acknowledgement is over, something has been heard since it     *)
(* ended.                                                                  *)
THEOREM FailuresAnnounced == Spec => []FailuresHeard
<1>1. Init => Shape /\ SilentInv
  BY ShapeInit, SilentInit
<1>2. Shape /\ SilentInv /\ [Next]_vars => (Shape /\ SilentInv)'
  BY ShapeStep, SilentStep
<1>3. SilentInv => FailuresHeard
  BY DEF SilentInv, FailuresHeard
<1> QED BY <1>1, <1>2, <1>3, PTL DEF Spec

-----------------------------------------------------------------------------
(* Whose words *)

LEMMA WordsInit == ASSUME Init PROVE WordsInv
BY DEF Init, WordsInv, WordsFacts, Idle, Handed

LEMMA WordsStep == ASSUME Shape, WordsInv, [Next]_vars, ~raced' PROVE WordsInv'
<1>0. ~raced
  <2>1. ASSUME NEW d \in Dictations PROVE
        Dictated(d) \/ HandsNothing(d) \/ HandsOff(d) \/ Reads(d) \/ Acknowledges(d) \/ Begins(d)
          => UNCHANGED raced
    BY DEF Dictated, HandsNothing, HandsOff, Reads, Acknowledges, Begins, hand
  <2>2. ASSUME NEW s \in Senders PROVE Sends(s) => UNCHANGED raced \/ (raced => raced')
    BY DEF Sends, NoTarget, Names, Writes, MarksForwarded, EnqueueFails, Delivered, Refused,
           MarksFailed
  <2>3. HandoffRaises \/ ListenerDies \/ ListenerStarts \/ SomeoneSpeaks \/ Batch \/ Tick
          => UNCHANGED raced
    BY DEF HandoffRaises, ListenerDies, ListenerStarts, SomeoneSpeaks, Tick, hand, Batch,
           Skipped, Sent, NotSent, LeftOpen, Busy, Wakes, Still, BatchRaises, Completes,
           Summarises
  <2> QED BY <2>1, <2>2, <2>3 DEF Next, vars, hand
<1> USE <1>0 DEF Shape, HandTypes, WordsInv, WordsFacts
<1>1. ASSUME files' = files, ref' = ref, text' = text,
             \A s \in Senders : /\ job'[s].step \in {"written", "recorded", "refused"} =>
                                     /\ job[s].step \in {"written", "recorded", "refused"}
                                     /\ job'[s].path = job[s].path /\ job'[s].d = job[s].d
                                /\ job'[s].step = "named" =>
                                     job[s].step = "named" /\ job'[s].path = job[s].path,
             \A d \in Dictations : at'[d] \in Handed => at[d] \in Handed
      PROVE  WordsInv'
  BY <1>1
<1>2. ASSUME NEW s \in Senders, NEW place, job[s].step # "idle", place \notin Handed,
             files' = files, ref' = ref, text' = text,
             job' = [job EXCEPT ![s] = Idle], at' = [at EXCEPT ![job[s].d] = place]
      PROVE  WordsInv'
  BY <1>2, <1>1 DEF Idle
<1>3. ASSUME NEW s \in Senders, NoTarget(s) \/ EnqueueFails(s) \/ MarksFailed(s) PROVE WordsInv'
  <2>1. CASE NoTarget(s)
    BY <2>1, <1>2 DEF NoTarget, Fails, At, Handed
  <2>2. CASE EnqueueFails(s)
    BY <2>2, <1>2 DEF EnqueueFails, Fails, At, Handed
  <2>3. CASE MarksFailed(s)
    BY <2>3, <1>2 DEF MarksFailed, At, Handed
  <2> QED BY <1>3, <2>1, <2>2, <2>3
<1>4. CASE HandoffRaises
  BY <1>4, <1>2 DEF HandoffRaises, Fails, At, Handed, Senders
<1>5. ASSUME NEW s \in Senders, Names(s) PROVE WordsInv'
  <2>1. PICK p \in Paths :
          /\ FreeName(p) /\ job' = [job EXCEPT ![s].step = "named", ![s].path = p]
          /\ raced' = (raced \/ \E t \in Senders : At(t, "named") /\ job[t].path = p)
    BY <1>5 DEF Names
  <2>2. files[p] = Nothing /\ \A t \in Senders : job[t].step = "named" => job[t].path # p
    BY <2>1 DEF FreeName, At
  <2>3. /\ job'[s].step = "named" /\ job'[s].path = p
        /\ \A t \in Senders \ {s} : job'[t] = job[t]
    BY <2>1 DEF Jobs
  <2> QED BY <1>5, <2>2, <2>3 DEF Names
<1>6. ASSUME NEW s \in Senders, Writes(s) PROVE WordsInv'
  <2>1. /\ job[s].path \in Paths /\ job[s].d \in Dictations /\ files[job[s].path] = Nothing
        /\ files' = [files EXCEPT ![job[s].path] = job[s].d]
    BY <1>6, AtDesk DEF Writes, At
  <2>2. \A p \in Paths : p # job[s].path => files'[p] = files[p]
    BY <2>1
  <2>3. files'[job[s].path] = job[s].d
    BY <2>1
  <2>4. \A t \in Senders : /\ job'[t].path = job[t].path /\ job'[t].d = job[t].d
                           /\ job[t].path \in Paths /\ job[t].d \in Dictations \cup {Nothing}
                           /\ (t # s => job'[t] = job[t])
    BY <1>6 DEF Writes, Moves, Jobs
  <2>5. job[s].step = "named" /\ job'[s].step = "written"
    BY <1>6 DEF Writes, Moves, At, Jobs
  <2>6. \A d \in Dictations : at'[d] \in Handed => files'[ref'[d]] = d
    BY <1>6, <2>1, <2>2, DeliveryAssumption DEF Writes, FileInv
  <2>7. \A t \in Senders :
          /\ job'[t].step \in {"written", "recorded", "refused"} => files'[job'[t].path] = job'[t].d
          /\ job'[t].step = "named" => files'[job'[t].path] = Nothing
    <3> SUFFICES ASSUME NEW t \in Senders
        PROVE  /\ job'[t].step \in {"written", "recorded", "refused"} => files'[job'[t].path] = job'[t].d
               /\ job'[t].step = "named" => files'[job'[t].path] = Nothing
      OBVIOUS
    <3>1. CASE t = s
      BY <3>1, <2>3, <2>4, <2>5
    <3>2. CASE t # s
      <4>1. job[t].step \in {"written", "recorded", "refused"} => job[t].path # job[s].path
        BY <2>1, DeliveryAssumption DEF FileInv
      <4>2. job[t].step = "named" => job[t].path # job[s].path
        BY <2>5, <3>2
      <4> QED BY <3>2, <2>2, <2>4, <4>1, <4>2
    <3> QED BY <3>1, <3>2
  <2>8. \A t, u \in Senders :
          t # u /\ job'[t].step = "named" /\ job'[u].step = "named" => job'[t].path # job'[u].path
    BY <2>4, <2>5
  <2> QED BY <1>6, <2>6, <2>7, <2>8 DEF Writes
<1>7. ASSUME NEW s \in Senders, MarksForwarded(s) \/ Refused(s) PROVE WordsInv'
  <2>1. \A t \in Senders : /\ job'[t].path = job[t].path /\ job'[t].d = job[t].d
                           /\ (t # s => job'[t] = job[t])
    BY <1>7 DEF MarksForwarded, Refused, Moves, Jobs
  <2>2. job'[s].step # "named"
    BY <1>7 DEF MarksForwarded, Refused, Moves, Jobs
  <2> QED BY <1>7, <2>1, <2>2, <1>1 DEF MarksForwarded, Refused, At
<1>8. ASSUME NEW s \in Senders, Delivered(s) PROVE WordsInv'
  <2>1. job[s].d \in Dictations /\ files[job[s].path] = job[s].d /\ files' = files /\ text' = text
    BY <1>8, AtDesk DEF Delivered, At
  <2>2. job'[s].step = "idle" /\ \A t \in Senders \ {s} : job'[t] = job[t]
    BY <1>8 DEF Delivered, Idle
  <2>3. \A d \in Dictations : \/ d # job[s].d /\ ref'[d] = ref[d] /\ at'[d] = at[d]
                              \/ d = job[s].d /\ ref'[d] = job[s].path
    BY <1>8 DEF Delivered
  <2> QED BY <2>1, <2>2, <2>3
<1>9. ASSUME NEW s \in Senders, NEW d \in Dictations, files' = files, ref' = ref, text' = text,
             job' = [job EXCEPT ![s] = [Idle EXCEPT !.step = "asked", !.d = d]],
             at' = [at EXCEPT ![d] = Desk(s)], Desk(s) \in Handed => at[d] \in Handed
      PROVE  WordsInv'
  BY <1>9, <1>1 DEF Idle
<1>10. ASSUME NEW d \in Dictations, Dictated(d) \/ HandsNothing(d) \/ HandsOff(d) PROVE WordsInv'
  <2>1. "listener" \in Senders /\ "concierge" \in Senders
        /\ Desk("listener") \notin Handed /\ Desk("concierge") = "handing"
        /\ "concierge" \in Handed /\ "blank" \in Handed
    BY ONLY DEF Senders, Desk, Handed
  <2>2. CASE Dictated(d)
    <3>1. /\ UNCHANGED <<files, ref, text>> /\ Desk("listener") = "listener"
          /\ job' = [job EXCEPT !["listener"] = [Idle EXCEPT !.step = "asked", !.d = d]]
          /\ at' = [at EXCEPT ![d] = "listener"]
      BY ONLY <2>2 DEF Dictated, Desk
    <3> QED BY ONLY <2>1, <3>1, d \in Dictations, <1>9
  <2>3. CASE HandsOff(d)
    <3>1. /\ UNCHANGED <<files, ref, text>> /\ at[d] \in {"concierge", "blank"}
          /\ job' = [job EXCEPT !["concierge"] = [Idle EXCEPT !.step = "asked", !.d = d]]
          /\ at' = [at EXCEPT ![d] = "handing"]
      BY ONLY <2>3 DEF HandsOff
    <3> QED BY ONLY <2>1, <3>1, d \in Dictations, <1>9
  <2>4. CASE HandsNothing(d)
    <3>1. \A e \in Dictations : at'[e] \in Handed => at[e] \in Handed
      BY ONLY <2>1, <2>4 DEF HandsNothing
    <3> QED BY <2>4, <3>1, <1>1 DEF HandsNothing
  <2> QED BY ONLY <1>10, <2>2, <2>3, <2>4
<1>11. CASE ListenerDies
  <2>1. \A t \in Senders : job'[t].step = "idle" \/ job'[t] = job[t]
    BY <1>11 DEF ListenerDies, Idle
  <2>2. \A d \in Dictations : at'[d] = "dropped" \/ at'[d] = at[d]
    BY <1>11 DEF ListenerDies
  <2>3. \A d \in Dictations : at'[d] \in Handed => at[d] \in Handed
    BY ONLY <2>2 DEF Handed
  <2>4. files' = files /\ ref' = ref /\ text' = text
    BY ONLY <1>11 DEF ListenerDies
  <2> QED BY ONLY <2>1, <2>3, <2>4, <1>1
<1>12. ASSUME NEW d \in Dictations, Begins(d) PROVE WordsInv'
  BY <1>12, <1>1 DEF Begins, Handed
<1>13. ASSUME NEW d \in Dictations, Reads(d) PROVE WordsInv'
  <2>1. at[d] \in Handed /\ text' = [text EXCEPT ![d] = Words(d)]
    BY <1>13 DEF Reads, Handed
  <2>2. text[d] = d /\ files[ref[d]] = d
    BY <2>1
  <2>3. Words(d) = d
    BY <2>2 DEF Words
  <2>4. text' = text
    BY <2>1, <2>2, <2>3
  <2>5. at' = [at EXCEPT ![d] = IF @ = "to concierge" THEN "concierge" ELSE "router"]
        /\ files' = files /\ ref' = ref /\ job' = job
    BY ONLY <1>13 DEF Reads
  <2>6. \A e \in Dictations : at'[e] \in Handed => at[e] \in Handed
    BY <2>1, <2>5
  <2> QED BY ONLY <2>4, <2>5, <2>6, <1>1
<1>14. CASE BatchRaises \/ Summarises
  <2>1. batch.d \in Dictations /\ at[batch.d] \in Handed
    BY <1>14 DEF BatchRaises, Summarises, Handed, DeskInv, BatchTypes, Batches
  <2>2. \A d \in Dictations : at'[d] \in Handed => at[d] \in Handed
    BY <1>14, <2>1 DEF BatchRaises, Summarises
  <2> QED BY <1>14, <2>2, <1>1 DEF BatchRaises, Summarises
<1>15. CASE UNCHANGED <<job, at, text, ref, files>>
  BY <1>15, <1>1
<1>16. ASSUME NEW d \in Dictations PROVE Acknowledges(d) => UNCHANGED <<job, at, text, ref, files>>
  BY DEF Acknowledges, hand
<1>17. ListenerStarts \/ SomeoneSpeaks \/ Tick => UNCHANGED <<job, at, text, ref, files>>
  BY DEF ListenerStarts, SomeoneSpeaks, Tick, hand
<1>18. Skipped \/ Sent \/ NotSent \/ LeftOpen \/ Busy \/ Wakes \/ Completes
         => UNCHANGED <<job, at, text, ref, files>>
  BY DEF Skipped, Sent, NotSent, LeftOpen, Busy, Wakes, Completes, Still, hand
<1> QED
  BY <1>3, <1>4, <1>5, <1>6, <1>7, <1>8, <1>10, <1>11, <1>12, <1>13, <1>14, <1>15,
     <1>16, <1>17, <1>18 DEF Next, Sends, Batch, vars, hand

LEMMA WordsKept == ASSUME Shape, WordsInv, [Next]_vars PROVE WordsInv'
<1>1. CASE ~raced'
  BY <1>1, WordsStep
<1>2. CASE raced'
  BY <1>2 DEF WordsInv
<1> QED BY <1>1, <1>2

(* write_dictation, _handoff_message: every agent reads its own            *)
(* dictation's words, inlined or from the file it is told of, unless two   *)
(* senders took one name before either had written it.                     *)
THEOREM NoMixedWords == Spec => []OwnWords
<1>1. Init => Shape /\ WordsInv
  BY ShapeInit, WordsInit
<1>2. Shape /\ WordsInv /\ [Next]_vars => (Shape /\ WordsInv)'
  BY ShapeStep, WordsKept
<1>3. WordsInv => OwnWords
  BY DEF WordsInv, WordsFacts, OwnWords
<1> QED BY <1>1, <1>2, <1>3, PTL DEF Spec

-----------------------------------------------------------------------------
(* What is reported *)

LEMMA BatchInit == ASSUME Init PROVE BatchInv
BY NoBatchShape DEF Init, BatchInv, NoBatch

LEMMA BatchStep == ASSUME Shape, BatchInv, [Next]_vars PROVE BatchInv'
<1> USE DEF BatchInv
<1>0. /\ batch \in Batches /\ typed \in [1..Len(batch.plan) -> Nat]
      /\ batch.i \in Nat /\ Len(batch.plan) \in Nat
  BY DEF Shape, BatchTypes, Batches
<1>1. CASE UNCHANGED work
  BY <1>1 DEF work
<1>2. ASSUME NEW d \in Dictations, Begins(d) PROVE BatchInv'
  <2>1. PICK plan \in Plans, up \in {listener, TRUE} :
          /\ batch' = [NoBatch EXCEPT !.step = "next", !.d = d, !.plan = plan,
                                      !.budget = Budget, !.up = up]
          /\ typed' = [i \in DOMAIN plan |-> 0]
    BY <1>2 DEF Begins
  <2>2. plan \in Seq(Targets)
    BY DeliveryAssumption
  <2>3. batch'.plan = plan /\ DOMAIN plan = 1..Len(plan) /\ batch'.i = 1 /\ batch'.step = "next"
    BY <2>1, <2>2 DEF NoBatch
  <2> QED BY <2>1, <2>3
<1>3. CASE BatchRaises \/ Summarises
  <2>1. batch' = NoBatch
    BY <1>3 DEF BatchRaises, Summarises
  <2> QED BY <2>1, NoBatchShape DEF NoBatch
<1>4. CASE Completes \/ Wakes \/ Busy
  <2>1. /\ batch'.plan = batch.plan /\ batch'.i = batch.i
        /\ batch'.failures = batch.failures /\ typed' = typed
        /\ batch'.step = "summary" => batch.i > Len(batch.plan)
    BY <1>0, <1>4 DEF Completes, Wakes, Busy, Batches, Done, work
  <2> QED BY <2>1
<1>5. ASSUME NEW failed \in BOOLEAN, Advance(failed)
      PROVE  /\ batch'.plan = batch.plan /\ batch'.i = batch.i + 1 /\ batch'.step = "next"
             /\ batch'.failures = IF failed THEN batch.failures \cup {batch.i} ELSE batch.failures
  BY <1>0, <1>5 DEF Advance, Batches
<1>6. CASE Skipped \/ NotSent
  <2>1. batch.i <= Len(batch.plan) /\ typed' = typed /\ Advance(TRUE)
    BY <1>6 DEF Skipped, NotSent, Sending
  <2>2. /\ batch'.plan = batch.plan /\ batch'.i = batch.i + 1 /\ batch'.step = "next"
        /\ batch'.failures = batch.failures \cup {batch.i}
    BY <1>5, <2>1
  <2>3. \A j \in 1..Len(batch.plan) :
          /\ j >= batch.i + 1 => j >= batch.i
          /\ j < batch.i + 1 => j < batch.i \/ j = batch.i
    BY <1>0
  <2>4. typed[batch.i] = 0 \/ batch.i = 0
    BY <1>0, <2>1
  <2>5. ASSUME NEW j \in 1..Len(batch.plan)
        PROVE  /\ j >= batch.i + 1 => typed[j] = 0
               /\ j < batch.i + 1 =>
                    /\ typed[j] <= 1
                    /\ j \notin batch.failures \cup {batch.i} => typed[j] = 1
    BY <2>3, <2>4
  <2> QED BY <2>1, <2>2, <2>5
<1>7. CASE Sent \/ LeftOpen
  <2>1. PICK failed \in BOOLEAN : Advance(failed)
    BY <1>7 DEF Sent, LeftOpen
  <2>2. batch.i <= Len(batch.plan) /\ typed' = [typed EXCEPT ![batch.i] = @ + 1]
    BY <1>7 DEF Sent, LeftOpen, Sending, Types
  <2>3. /\ batch'.plan = batch.plan /\ batch'.i = batch.i + 1 /\ batch'.step = "next"
        /\ batch.failures \subseteq batch'.failures
    BY <1>5, <2>1
  <2>4. \A j \in 1..Len(batch.plan) :
          /\ j >= batch.i + 1 => j >= batch.i /\ j # batch.i
          /\ j < batch.i + 1 => (j < batch.i /\ j # batch.i) \/ j = batch.i
    BY <1>0
  <2>5. ASSUME NEW j \in 1..Len(batch.plan)
        PROVE  typed'[j] = IF j = batch.i THEN typed[j] + 1 ELSE typed[j]
    BY <1>0, <2>2
  <2>6. batch.i \in 1..Len(batch.plan) => typed[batch.i] = 0
    BY <1>0
  <2>7. ASSUME NEW j \in 1..Len(batch.plan)
        PROVE  /\ j >= batch.i + 1 => typed'[j] = 0
               /\ j < batch.i + 1 =>
                    /\ typed'[j] <= 1
                    /\ j \notin batch'.failures => typed'[j] = 1
    <3>1. CASE j = batch.i
      BY <1>0, <3>1, <2>5, <2>6
    <3>2. CASE j # batch.i
      BY <3>2, <2>3, <2>4, <2>5
    <3> QED BY <3>1, <3>2
  <2> QED BY <2>3, <2>7
<1>8. ASSUME NEW d \in Dictations PROVE
        Dictated(d) \/ HandsNothing(d) \/ HandsOff(d) \/ Reads(d) \/ Acknowledges(d) => UNCHANGED work
  BY DEF Dictated, HandsNothing, HandsOff, Reads, Acknowledges
<1>9. ASSUME NEW s \in Senders PROVE Sends(s) => UNCHANGED work
  BY DEF Sends, NoTarget, Names, Writes, MarksForwarded, EnqueueFails, Delivered, Refused,
         MarksFailed
<1>10. HandoffRaises \/ ListenerDies \/ ListenerStarts \/ SomeoneSpeaks \/ Tick => UNCHANGED work
  BY DEF HandoffRaises, ListenerDies, ListenerStarts, SomeoneSpeaks, Tick
<1> QED
  BY <1>1, <1>2, <1>3, <1>4, <1>6, <1>7, <1>8, <1>9, <1>10 DEF Next, Batch, vars

LEMMA Elsewhere ==
  /\ "unsaid" \notin RouterHas /\ "listener" \notin RouterHas /\ "to concierge" \notin RouterHas
  /\ "concierge" \notin RouterHas /\ "handing" \notin RouterHas /\ "batch" \notin RouterHas
  /\ "done" \notin RouterHas /\ "lost" \notin RouterHas /\ "dropped" \notin RouterHas
  /\ "to router" \in RouterHas /\ "router" \in RouterHas
BY DEF RouterHas

LEMMA RecordInit == ASSUME Init PROVE RecordInv /\ StrayInv
<1>1. RecordFacts /\ SummaryFacts
  BY DeliveryAssumption, Elsewhere DEF Init, RecordFacts, SummaryFacts, Idle, NoBatch
<1>2. StrayInv
  BY DeliveryAssumption DEF Init, StrayInv, StrayFacts
<1> QED BY <1>1, <1>2 DEF RecordInv

(* The words a sender has put in a file are its own dictation's: what it   *)
(* records of that file is recorded of no other dictation.                 *)
LEMMA OwnRecord ==
  ASSUME Shape, WordsFacts, NEW s \in Senders,
         job[s].step \in {"written", "recorded", "refused"}
  PROVE  /\ job[s].path \in Paths /\ files[job[s].path] = job[s].d /\ job[s].d \in Dictations
         /\ \A t \in Senders \ {s} : job[t].step \in {"recorded", "refused"} =>
                                       job[t].path # job[s].path
         /\ \A d \in Dictations : at[d] \in Handed /\ d # job[s].d =>
                                    ref[d] # job[s].path /\ ref[d] \in Paths
<1>1. /\ job[s].d \in Dictations /\ at[job[s].d] = Desk(s) /\ job[s].path \in Paths
      /\ files[job[s].path] = job[s].d
  BY AtDesk DEF WordsFacts
<1>2. ASSUME NEW t \in Senders \ {s}, job[t].step \in {"recorded", "refused"}
      PROVE  job[t].path # job[s].path
  <2>1. job[t].d # job[s].d
    BY <1>2, OwnDesk
  <2>2. files[job[t].path] = job[t].d
    BY <1>2 DEF WordsFacts
  <2> QED BY <1>1, <2>1, <2>2
<1>3. ASSUME NEW d \in Dictations, at[d] \in Handed, d # job[s].d
      PROVE  ref[d] # job[s].path /\ ref[d] \in Paths
  BY <1>1, <1>3 DEF WordsFacts, Shape, FileInv
<1> QED BY <1>1, <1>2, <1>3

(* So are the words in the file the batch's dictation was told of. *)
LEMMA BatchRecord ==
  ASSUME Shape, WordsFacts, batch.step # "idle"
  PROVE  /\ batch.d \in Dictations /\ at[batch.d] = "batch"
         /\ ref[batch.d] \in Paths /\ files[ref[batch.d]] = batch.d
         /\ \A t \in Senders : job[t].step \in {"written", "recorded", "refused"} =>
                                 job[t].path # ref[batch.d]
         /\ \A d \in Dictations : at[d] \in Handed /\ d # batch.d => ref[d] # ref[batch.d]
<1>1. batch.d \in Dictations /\ at[batch.d] = "batch"
  BY DEF Shape, DeskInv, BatchTypes, Batches
<1>2. ref[batch.d] \in Paths /\ files[ref[batch.d]] = batch.d
  BY <1>1 DEF Shape, FileInv, WordsFacts, Handed
<1>3. ASSUME NEW t \in Senders, job[t].step \in {"written", "recorded", "refused"}
      PROVE  job[t].path # ref[batch.d]
  <2>1. job[t].d # batch.d
    BY <1>1, <1>3, AtDesk DEF Desk
  <2> QED BY <1>2, <1>3, <2>1 DEF WordsFacts
<1>4. ASSUME NEW d \in Dictations, at[d] \in Handed, d # batch.d
      PROVE  ref[d] # ref[batch.d]
  BY <1>2, <1>4 DEF WordsFacts
<1> QED BY <1>1, <1>2, <1>3, <1>4

LEMMA RecordStep ==
  ASSUME Shape, WordsFacts, RecordFacts, SummaryFacts, [Next]_vars
  PROVE  RecordFacts'
<1> USE Elsewhere DEF Shape, HandTypes
<1>a. \A p \in Paths : files[p] = Nothing => record[p] = "none"
  BY DEF RecordFacts
<1>b. \A s \in Senders : job[s].step \in {"recorded", "refused"} =>
                          record[job[s].path] = "forwarded"
  BY DEF RecordFacts
<1>c. \A d \in Dictations : /\ at[d] \in RouterHas => record[ref[d]] = "forwarded"
                            /\ at[d] = "done" => record[ref[d]] = "complete"
  BY DEF RecordFacts
<1>1. ASSUME record' = record,
             \A p \in Paths : files'[p] = Nothing => files[p] = Nothing,
             \A s \in Senders : job'[s].step \in {"recorded", "refused"} =>
               job[s].step \in {"recorded", "refused"} /\ job'[s].path = job[s].path,
             \A d \in Dictations :
               /\ at'[d] \in RouterHas => at[d] \in RouterHas /\ ref'[d] = ref[d]
               /\ at'[d] = "done" => at[d] = "done" /\ ref'[d] = ref[d]
      PROVE  RecordFacts'
  <2>1. \A p \in Paths : files'[p] = Nothing => record'[p] = "none"
    BY ONLY <1>1, <1>a
  <2>2. \A s \in Senders : job'[s].step \in {"recorded", "refused"} =>
                             record'[job'[s].path] = "forwarded"
    BY ONLY <1>1, <1>b
  <2>3. \A d \in Dictations : /\ at'[d] \in RouterHas => record'[ref'[d]] = "forwarded"
                              /\ at'[d] = "done" => record'[ref'[d]] = "complete"
    BY ONLY <1>1, <1>c
  <2> QED BY ONLY <2>1, <2>2, <2>3 DEF RecordFacts
<1>2. ASSUME NEW s \in Senders, NEW place, job[s].step # "idle",
             place \notin RouterHas, place # "done",
             files' = files, ref' = ref, record' = record,
             job' = [job EXCEPT ![s] = Idle], at' = [at EXCEPT ![job[s].d] = place]
      PROVE  RecordFacts'
  <2>1. \A t \in Senders : job'[t].step = "idle" \/ job'[t] = job[t]
    BY <1>2 DEF Idle
  <2>2. \A d \in Dictations : at'[d] = place \/ at'[d] = at[d]
    BY <1>2
  <2> QED BY <1>2, <2>1, <2>2, <1>1
<1>3. ASSUME NEW s \in Senders, NoTarget(s) PROVE RecordFacts'
  BY <1>3, <1>2 DEF NoTarget, Fails, At
<1>4. ASSUME NEW s \in Senders, EnqueueFails(s) PROVE RecordFacts'
  BY <1>4, <1>2 DEF EnqueueFails, Fails, At
<1>5. CASE HandoffRaises
  BY <1>5, <1>2 DEF HandoffRaises, Fails, At, Senders
<1>6. ASSUME NEW s \in Senders, Names(s) PROVE RecordFacts'
  <2>0. job \in [Senders -> Jobs]
        /\ \E p \in Paths : job' = [job EXCEPT ![s].step = "named", ![s].path = p]
    BY <1>6 DEF Names
  <2>1. job'[s].step = "named" /\ \A t \in Senders \ {s} : job'[t] = job[t]
    BY ONLY <2>0, s \in Senders DEF Jobs
  <2> QED BY <1>6, <2>1, <1>1 DEF Names
<1>7. ASSUME NEW s \in Senders, Writes(s) PROVE RecordFacts'
  <2>1. /\ job[s].path \in Paths /\ text[job[s].d] \in Dictations
        /\ files' = [files EXCEPT ![job[s].path] = text[job[s].d]]
    BY <1>7, AtDesk DEF Writes, At
  <2>2. \A p \in Paths : files'[p] = Nothing => files[p] = Nothing
    BY <2>1, DeliveryAssumption
  <2>3. job'[s].step = "written" /\ \A t \in Senders \ {s} : job'[t] = job[t]
    BY <1>7 DEF Writes, Moves, Jobs
  <2> QED BY <1>7, <2>2, <2>3, <1>1 DEF Writes
<1>8. ASSUME NEW s \in Senders, Refused(s) PROVE RecordFacts'
  <2>1. \A t \in Senders : job'[t].path = job[t].path /\ (t # s => job'[t] = job[t])
    BY <1>8 DEF Refused, Moves, Jobs
  <2> QED BY <1>8, <2>1, <1>1 DEF Refused, At
<1>9. ASSUME NEW s \in Senders, MarksForwarded(s) PROVE RecordFacts'
  <2>1. job[s].step = "written" /\ at[job[s].d] = Desk(s)
    BY <1>9, AtDesk DEF MarksForwarded, At
  <2>2. /\ \A p \in Paths : p # job[s].path => record'[p] = record[p]
        /\ record'[job[s].path] = "forwarded"
    BY <1>9, <2>1, OwnRecord DEF MarksForwarded
  <2>3. /\ \A t \in Senders \ {s} : job'[t] = job[t]
        /\ job'[s].path = job[s].path
    BY <1>9 DEF MarksForwarded, Moves, Jobs
  <2>4. files' = files /\ at' = at /\ ref' = ref
    BY <1>9 DEF MarksForwarded
  <2>5. \A p \in Paths : files'[p] = Nothing => record'[p] = "none"
    <3> SUFFICES ASSUME NEW p \in Paths, files[p] = Nothing PROVE record'[p] = "none"
      BY <2>4
    <3>1. p # job[s].path
      BY <2>1, OwnRecord, DeliveryAssumption
    <3> QED BY <3>1, <2>2, <1>a
  <2>6. \A t \in Senders : job'[t].step \in {"recorded", "refused"} =>
                             record'[job'[t].path] = "forwarded"
    <3> SUFFICES ASSUME NEW t \in Senders, job'[t].step \in {"recorded", "refused"}
                 PROVE  record'[job'[t].path] = "forwarded"
      OBVIOUS
    <3>1. CASE t = s
      BY <3>1, <2>2, <2>3
    <3>2. CASE t # s
      <4>1. job'[t] = job[t] /\ job[t].path \in Paths /\ job[t].path # job[s].path
        BY <3>2, <2>1, <2>3, OwnRecord DEF Jobs
      <4> QED BY <3>2, <4>1, <2>2, <1>b
    <3> QED BY <3>1, <3>2
  <2>7. ASSUME NEW d \in Dictations, at[d] \in RouterHas \/ at[d] = "done"
        PROVE  record'[ref'[d]] = record[ref[d]]
    <3>1. d # job[s].d /\ at[d] \in Handed
      BY <2>1, <2>7 DEF Desk, Handed, RouterHas
    <3> QED BY <3>1, <2>1, <2>2, <2>4, OwnRecord
  <2> QED BY <2>4, <2>5, <2>6, <2>7 DEF RecordFacts
<1>10. ASSUME NEW s \in Senders, MarksFailed(s) PROVE RecordFacts'
  <2>1. job[s].step = "refused" /\ at[job[s].d] = Desk(s)
    BY <1>10, AtDesk DEF MarksFailed, At
  <2>2. \A p \in Paths : p # job[s].path => record'[p] = record[p]
    BY <1>10 DEF MarksFailed
  <2>3. job'[s].step = "idle" /\ \A t \in Senders \ {s} : job'[t] = job[t]
    BY <1>10 DEF MarksFailed, Idle
  <2>4. /\ files' = files /\ ref' = ref
        /\ \A d \in Dictations : at'[d] = "lost" \/ (at'[d] = at[d] /\ d # job[s].d)
    BY <1>10 DEF MarksFailed
  <2>5. \A p \in Paths : files'[p] = Nothing => record'[p] = "none"
    <3> SUFFICES ASSUME NEW p \in Paths, files[p] = Nothing PROVE record'[p] = "none"
      BY <2>4
    <3>1. p # job[s].path
      BY <2>1, OwnRecord, DeliveryAssumption
    <3> QED BY <3>1, <2>2, <1>a
  <2>6. \A t \in Senders : job'[t].step \in {"recorded", "refused"} =>
                             record'[job'[t].path] = "forwarded"
    <3> SUFFICES ASSUME NEW t \in Senders, job'[t].step \in {"recorded", "refused"}
                 PROVE  record'[job'[t].path] = "forwarded"
      OBVIOUS
    <3>1. job'[t] = job[t] /\ job[t].path \in Paths /\ job[t].path # job[s].path
      BY <2>1, <2>3, OwnRecord DEF Jobs
    <3> QED BY <3>1, <2>2, <1>b
  <2>7. ASSUME NEW d \in Dictations, at'[d] \in RouterHas \/ at'[d] = "done"
        PROVE  record'[ref'[d]] = record[ref[d]] /\ at'[d] = at[d]
    <3>1. at'[d] = at[d] /\ d # job[s].d
      BY <2>4, <2>7
    <3>2. at[d] \in Handed
      BY <3>1, <2>7 DEF Handed, RouterHas
    <3> QED BY <3>1, <3>2, <2>1, <2>2, <2>4, OwnRecord
  <2>8. \A d \in Dictations :
          /\ at'[d] \in RouterHas => record'[ref'[d]] = "forwarded"
          /\ at'[d] = "done" => record'[ref'[d]] = "complete"
    BY <2>7 DEF RecordFacts
  <2> QED BY <2>5, <2>6, <2>8 DEF RecordFacts
<1>11. ASSUME NEW s \in Senders, Delivered(s) PROVE RecordFacts'
  <2>1. job[s].step = "recorded" /\ record' = record /\ files' = files
    BY <1>11 DEF Delivered, At
  <2>2. record[job[s].path] = "forwarded"
    BY <2>1 DEF RecordFacts
  <2>3. \A t \in Senders : job'[t].step = "idle" \/ job'[t] = job[t]
    BY <1>11 DEF Delivered, Idle
  <2>4. \A d \in Dictations :
          \/ ref'[d] = ref[d] /\ at'[d] = at[d]
          \/ ref'[d] = job[s].path /\ at'[d] # "done"
    BY <1>11 DEF Delivered
  <2>5. \A p \in Paths : files'[p] = Nothing => record'[p] = "none"
    BY ONLY <2>1, <1>a
  <2>6. \A t \in Senders : job'[t].step \in {"recorded", "refused"} =>
                             record'[job'[t].path] = "forwarded"
    BY ONLY <2>1, <2>3, <1>b
  <2>7. \A d \in Dictations : /\ at'[d] \in RouterHas => record'[ref'[d]] = "forwarded"
                              /\ at'[d] = "done" => record'[ref'[d]] = "complete"
    BY ONLY <2>1, <2>2, <2>4, <1>c
  <2> QED BY ONLY <2>5, <2>6, <2>7 DEF RecordFacts
<1>12. ASSUME NEW s \in Senders, NEW d \in Dictations, files' = files, ref' = ref,
             record' = record,
             job' = [job EXCEPT ![s] = [Idle EXCEPT !.step = "asked", !.d = d]],
             at' = [at EXCEPT ![d] = Desk(s)]
      PROVE  RecordFacts'
  <2>1. job'[s].step = "asked" /\ \A t \in Senders \ {s} : job'[t] = job[t]
    BY <1>12 DEF Idle
  <2>2. at'[d] = Desk(s) /\ \A e \in Dictations \ {d} : at'[e] = at[e]
    BY <1>12
  <2> QED BY <1>12, <2>1, <2>2, <1>1 DEF Desk
<1>13. ASSUME NEW d \in Dictations, Dictated(d) PROVE RecordFacts'
  BY <1>13, <1>12 DEF Dictated, Senders, Desk
<1>14. ASSUME NEW d \in Dictations, HandsNothing(d) \/ HandsOff(d) PROVE RecordFacts'
  <2>1. CASE HandsOff(d)
    BY <2>1, <1>12 DEF HandsOff, Senders, Desk
  <2>2. CASE HandsNothing(d)
    <3>1. at'[d] = "blank" /\ \A e \in Dictations \ {d} : at'[e] = at[e]
      BY <2>2 DEF HandsNothing
    <3>2. \A e \in Dictations :
            /\ at'[e] \in RouterHas => at[e] \in RouterHas
            /\ at'[e] = "done" => at[e] = "done"
      BY <3>1 DEF RouterHas
    <3>3. job' = job /\ ref' = ref /\ files' = files /\ record' = record
      BY <2>2 DEF HandsNothing
    <3> QED BY <3>2, <3>3, <1>1
  <2> QED BY <1>14, <2>1, <2>2
<1>15. CASE ListenerDies
  <2>1. job'["listener"].step = "idle" /\ \A t \in Senders : t # "listener" => job'[t] = job[t]
    BY <1>15 DEF ListenerDies, Idle, Senders
  <2>2. \A d \in Dictations : at'[d] = "dropped" \/ at'[d] = at[d]
    BY <1>15 DEF ListenerDies
  <2> QED BY <1>15, <2>1, <2>2, <1>1 DEF ListenerDies
<1>16. ASSUME NEW d \in Dictations, Reads(d) PROVE RecordFacts'
  <2>1. \/ at[d] = "to concierge" /\ at'[d] = "concierge"
        \/ at[d] = "to router" /\ at'[d] = "router"
    BY <1>16 DEF Reads
  <2>2. \A e \in Dictations \ {d} : at'[e] = at[e]
    BY <1>16 DEF Reads
  <2> QED BY <1>16, <2>1, <2>2, <1>1 DEF Reads
<1>17. ASSUME NEW d \in Dictations, Begins(d) PROVE RecordFacts'
  <2>1. \A e \in Dictations : at'[e] = "batch" \/ at'[e] = at[e]
    BY <1>17 DEF Begins
  <2> QED BY <1>17, <2>1, <1>1 DEF Begins
<1>18. CASE BatchRaises
  <2>1. \A e \in Dictations : at'[e] = "dropped" \/ at'[e] = at[e]
    BY <1>18 DEF BatchRaises
  <2> QED BY <1>18, <2>1, <1>1 DEF BatchRaises
<1>20. CASE Completes
  <2>1. batch.step # "idle"
    BY <1>20 DEF Completes, Done
  <2>2. /\ \A p \in Paths : p # ref[batch.d] => record'[p] = record[p]
        /\ files' = files /\ job' = job /\ at' = at /\ ref' = ref
    BY <1>20 DEF Completes
  <2>3. \A p \in Paths : files'[p] = Nothing => record'[p] = "none"
    <3> SUFFICES ASSUME NEW p \in Paths, files[p] = Nothing PROVE record'[p] = "none"
      BY <2>2
    <3>1. p # ref[batch.d]
      BY <2>1, BatchRecord, DeliveryAssumption
    <3> QED BY <3>1, <2>2, <1>a
  <2>4. ASSUME NEW t \in Senders, job[t].step \in {"recorded", "refused"}
        PROVE  record'[job'[t].path] = "forwarded"
    <3>1. job[t].path \in Paths /\ job[t].path # ref[batch.d]
      BY <2>1, <2>4, BatchRecord DEF Jobs
    <3> QED BY <3>1, <2>2, <2>4 DEF RecordFacts
  <2>5. ASSUME NEW d \in Dictations, at[d] \in RouterHas \/ at[d] = "done"
        PROVE  record'[ref'[d]] = record[ref[d]]
    <3>1. d # batch.d
      BY <2>1, <2>5, BatchRecord
    <3>2. at[d] \in Handed
      BY <2>5 DEF Handed, RouterHas
    <3>3. ref[d] \in Paths /\ ref[d] # ref[batch.d]
      BY <2>1, <3>1, <3>2, BatchRecord DEF FileInv
    <3> QED BY <3>3, <2>2
  <2> QED BY <2>2, <2>3, <2>4, <2>5 DEF RecordFacts
<1>21. CASE UNCHANGED <<job, at, ref, files, record>>
  BY <1>21, <1>1
<1>22. ASSUME NEW d \in Dictations
       PROVE  Acknowledges(d) => UNCHANGED <<job, at, ref, files, record>>
  BY DEF Acknowledges, hand
<1>23. ListenerStarts \/ SomeoneSpeaks \/ Tick => UNCHANGED <<job, at, ref, files, record>>
  BY DEF ListenerStarts, SomeoneSpeaks, Tick, hand
<1>24. Skipped \/ Sent \/ NotSent \/ LeftOpen \/ Busy \/ Wakes
         => UNCHANGED <<job, at, ref, files, record>>
  BY DEF Skipped, Sent, NotSent, LeftOpen, Busy, Wakes, Still, hand
<1>25. CASE Summarises
  <2>1. batch.step = "summary" /\ record[ref[batch.d]] = "complete"
    BY <1>25 DEF Summarises, SummaryFacts
  <2>2. /\ at' = [at EXCEPT ![batch.d] = "done"]
        /\ record' = record /\ files' = files /\ job' = job /\ ref' = ref
    BY <1>25 DEF Summarises
  <2>3. \A d \in Dictations : (at'[d] = "done" /\ d = batch.d) \/ at'[d] = at[d]
    BY <2>2
  <2> QED BY <2>1, <2>2, <2>3 DEF RecordFacts
<1> QED
  BY <1>3, <1>4, <1>5, <1>6, <1>7, <1>8, <1>9, <1>10, <1>11, <1>13, <1>14, <1>15, <1>16,
     <1>17, <1>18, <1>20, <1>21, <1>22, <1>23, <1>24, <1>25 DEF Next, Sends, Batch, vars, hand

LEMMA SummaryStep ==
  ASSUME Shape, WordsFacts, SummaryFacts, [Next]_vars PROVE SummaryFacts'
<1> USE DEF Shape, HandTypes
<1>1. ASSUME batch' = batch, ref' = ref, record' = record PROVE SummaryFacts'
  BY <1>1 DEF SummaryFacts
<1>2. ASSUME batch'.step # "summary" PROVE SummaryFacts'
  BY <1>2 DEF SummaryFacts
<1>3. ASSUME NEW s \in Senders, job[s].step \in {"written", "recorded", "refused"},
             NEW r, batch' = batch, ref' = ref, record' = [record EXCEPT ![job[s].path] = r]
      PROVE  SummaryFacts'
  <2>1. batch.step = "summary" => ref[batch.d] \in Paths /\ ref[batch.d] # job[s].path
    BY <1>3, BatchRecord
  <2> QED BY <1>3, <2>1 DEF SummaryFacts
<1>4. ASSUME NEW s \in Senders, MarksForwarded(s) PROVE SummaryFacts'
  BY <1>4, <1>3 DEF MarksForwarded, At, work
<1>5. ASSUME NEW s \in Senders, MarksFailed(s) PROVE SummaryFacts'
  BY <1>5, <1>3 DEF MarksFailed, At, work
<1>6. ASSUME NEW s \in Senders, Delivered(s) PROVE SummaryFacts'
  <2>1. batch.step = "summary" => batch.d \in Dictations /\ batch.d # job[s].d
    BY <1>6, AtDesk, BatchRecord DEF Delivered, At, Desk
  <2> QED BY <1>6, <2>1 DEF Delivered, work, SummaryFacts
<1>7. CASE Completes
  <2>1. batch.step # "idle"
    BY <1>7 DEF Completes, Done
  <2>2. batch'.d = batch.d /\ ref' = ref /\ record' = [record EXCEPT ![ref[batch.d]] = "complete"]
    BY <1>7 DEF Completes, BatchTypes, Batches
  <2>3. record'[ref[batch.d]] = "complete"
    BY <2>1, <2>2, BatchRecord
  <2> QED BY <2>2, <2>3 DEF SummaryFacts
<1>8. ASSUME NEW d \in Dictations, Begins(d) PROVE batch'.step # "summary"
  BY <1>8 DEF Begins, NoBatch
<1>9. CASE BatchRaises \/ Summarises
  BY <1>9, <1>2 DEF BatchRaises, Summarises, NoBatch
<1>10. CASE Skipped \/ Sent \/ NotSent \/ LeftOpen \/ Busy \/ Wakes
  <2>1. batch'.step # "summary"
    BY <1>10 DEF Skipped, Sent, NotSent, LeftOpen, Busy, Wakes, Advance, BatchTypes, Batches
  <2> QED BY <2>1, <1>2
<1>11. ASSUME NEW d \in Dictations PROVE
         Dictated(d) \/ HandsNothing(d) \/ HandsOff(d) \/ Reads(d) \/ Acknowledges(d)
           => UNCHANGED <<batch, ref, record>>
  BY DEF Dictated, HandsNothing, HandsOff, Reads, Acknowledges, hand, work
<1>12. ASSUME NEW s \in Senders PROVE
         NoTarget(s) \/ Names(s) \/ Writes(s) \/ EnqueueFails(s) \/ Refused(s)
           => UNCHANGED <<batch, ref, record>>
  BY DEF NoTarget, Names, Writes, EnqueueFails, Refused, work
<1>13. HandoffRaises \/ ListenerDies \/ ListenerStarts \/ SomeoneSpeaks \/ Tick \/ UNCHANGED vars
         => UNCHANGED <<batch, ref, record>>
  BY DEF HandoffRaises, ListenerDies, ListenerStarts, SomeoneSpeaks, Tick, vars, hand, work
<1> QED
  BY <1>1, <1>2, <1>4, <1>5, <1>6, <1>7, <1>8, <1>9, <1>10, <1>11, <1>12, <1>13
     DEF Next, Sends, Batch

(* Once raced, always raced; and a fault is never taken back. *)
LEMMA Lasting ==
  ASSUME [Next]_vars PROVE (raced => raced') /\ (faults' = faults \/ faults' = faults + 1)
<1> DEFINE Keeps == (raced => raced') /\ (faults' = faults \/ faults' = faults + 1)
<1>1. ASSUME NEW d \in Dictations PROVE
      HandsNothing(d) \/ HandsOff(d) \/ Reads(d) \/ Acknowledges(d) \/ Begins(d)
        => UNCHANGED <<raced, faults>>
  BY DEF HandsNothing, HandsOff, Reads, Acknowledges, Begins, hand
<1>2. ASSUME NEW s \in Senders PROVE
      Names(s) => Keeps
  BY DEF Names
<1>3. ASSUME NEW s \in Senders PROVE
      NoTarget(s) \/ Writes(s) \/ MarksForwarded(s) \/ Delivered(s) \/ Refused(s)
      \/ MarksFailed(s) => UNCHANGED <<raced, faults>>
  BY DEF NoTarget, Writes, MarksForwarded, Delivered, Refused, MarksFailed
<1>4. ASSUME NEW s \in Senders PROVE EnqueueFails(s) => Keeps
  BY DEF EnqueueFails, Fault
<1>5. HandoffRaises \/ ListenerDies \/ BatchRaises => Keeps
  BY DEF HandoffRaises, ListenerDies, BatchRaises, Fault
<1>6. ListenerStarts \/ SomeoneSpeaks \/ Tick \/ UNCHANGED vars => Keeps
  BY DEF ListenerStarts, SomeoneSpeaks, Tick, vars, hand
<1>7. Skipped \/ Sent \/ NotSent \/ LeftOpen \/ Busy \/ Wakes \/ Completes \/ Summarises
        => UNCHANGED <<raced, faults>>
  BY DEF Skipped, Sent, NotSent, LeftOpen, Busy, Wakes, Still, Completes, Summarises, hand
<1>8. UNCHANGED <<raced, faults>> => Keeps
  OBVIOUS
<1>10. ASSUME NEW d \in Dictations PROVE Dictated(d) => Keeps
  BY DEF Dictated, Fault
<1>9. Keeps
  <2> HIDE DEF Keeps
  <2> QED BY <1>1, <1>2, <1>3, <1>4, <1>5, <1>6, <1>7, <1>8, <1>10 DEF Next, Sends, Batch
<1> QED BY <1>9

LEMMA RecordKept == ASSUME Shape, WordsInv, RecordInv, [Next]_vars PROVE RecordInv'
<1>1. CASE raced
  BY <1>1, Lasting DEF RecordInv
<1>2. CASE ~raced
  <2>1. WordsFacts /\ RecordFacts /\ SummaryFacts
    BY <1>2 DEF WordsInv, RecordInv
  <2>2. RecordFacts' /\ SummaryFacts'
    BY <2>1, RecordStep, SummaryStep
  <2> QED BY <2>2 DEF RecordInv
<1> QED BY <1>1, <1>2

LEMMA EarlyPlaces ==
  /\ "unsaid" \in Early /\ "listener" \in Early /\ "to concierge" \in Early
  /\ "concierge" \in Early /\ "blank" \in Early /\ "handing" \in Early /\ "lost" \in Early
  /\ "to router" \notin Early /\ "router" \notin Early /\ "batch" \notin Early
  /\ "done" \notin Early /\ "dropped" \notin Early
  /\ "unsaid" \in Unsent /\ "listener" \in Unsent
  /\ \A place \in {"to concierge", "concierge", "blank", "handing", "lost"} : place \notin Unsent
BY DEF Early, Unsent

(* Only the sender whose hand it is in can have recorded what it has.      *)
LEMMA HandOf ==
  ASSUME Shape, NEW s \in Senders, NEW p, job[s].step # "idle", InHand(job[s].d, p)
  PROVE  p = job[s].path
BY OwnDesk DEF InHand

LEMMA StrayStep ==
  ASSUME Shape, WordsFacts, RecordFacts, StrayFacts, [Next]_vars, faults \in Nat,
         faults' = faults
  PROVE  StrayFacts'
<1> USE EarlyPlaces DEF Shape, HandTypes
<1>0. \A d \in Dictations, p \in Paths :
        at[d] \in Early /\ files[p] = d /\ record[p] = "forwarded" =>
          InHand(d, p) \/ (at[d] \notin Unsent /\ p = ref[d])
  BY DEF StrayFacts
<1>a. ~Fault
  <2> SUFFICES ASSUME Fault PROVE FALSE
    OBVIOUS
  <2>1. faults' = faults + 1
    BY DEF Fault
  <2> QED BY ONLY <2>1, faults \in Nat, faults' = faults
<1>1. ASSUME UNCHANGED <<files, ref, record>>,
             \A s \in Senders : job[s].step \in {"recorded", "refused"} =>
               /\ job'[s].step \in {"recorded", "refused"}
               /\ job'[s].path = job[s].path /\ job'[s].d = job[s].d,
             \A d \in Dictations : at'[d] \in Early =>
               at[d] \in Early /\ (at[d] \notin Unsent => at'[d] \notin Unsent)
      PROVE  StrayFacts'
  <2>1. ASSUME NEW d, NEW p, InHand(d, p) PROVE InHand(d, p)'
    BY <1>1, <2>1 DEF InHand
  <2>2. ASSUME NEW d \in Dictations, NEW p \in Paths,
               at'[d] \in Early, files'[p] = d, record'[p] = "forwarded"
        PROVE  InHand(d, p)' \/ (at'[d] \notin Unsent /\ p = ref'[d])
    <3>1. InHand(d, p) \/ (at[d] \notin Unsent /\ p = ref[d])
      BY <1>1, <1>0, <2>2
    <3> QED BY <3>1, <2>1, <2>2, <1>1
  <2> QED BY <2>2 DEF StrayFacts
<1>2. ASSUME NEW s \in Senders, NoTarget(s) PROVE StrayFacts'
  <2>1. /\ job[s].step = "asked" /\ at[job[s].d] = Desk(s)
        /\ \A t \in Senders \ {s} : job'[t] = job[t]
    BY <1>2, AtDesk DEF NoTarget, Fails, At
  <2>2. \A d \in Dictations : at'[d] \in Early =>
               at[d] \in Early /\ (at[d] \notin Unsent => at'[d] \notin Unsent)
    BY <1>2, <2>1 DEF NoTarget, Fails, Desk
  <2> QED BY <1>2, <2>1, <2>2, <1>1 DEF NoTarget
<1>3. ASSUME NEW s \in Senders, Names(s) PROVE StrayFacts'
  <2>1. job[s].step = "asked" /\ \A t \in Senders \ {s} : job'[t] = job[t]
    BY <1>3 DEF Names, Jobs, At
  <2> QED BY <1>3, <2>1, <1>1 DEF Names
<1>4. ASSUME NEW s \in Senders, Refused(s) PROVE StrayFacts'
  <2>1. \A t \in Senders : /\ job'[t].path = job[t].path /\ job'[t].d = job[t].d
                           /\ (t # s => job'[t] = job[t])
    BY <1>4 DEF Refused, Moves, Jobs
  <2>2. job'[s].step = "refused"
    BY <1>4 DEF Refused, Moves, Jobs
  <2> QED BY <1>4, <2>1, <2>2, <1>1 DEF Refused
<1>5. ASSUME NEW s \in Senders, Writes(s) PROVE StrayFacts'
  <2>1. /\ job[s].step = "named" /\ job[s].path \in Paths /\ files[job[s].path] = Nothing
        /\ \A p \in Paths : p # job[s].path => files'[p] = files[p]
    BY <1>5, AtDesk DEF Writes, At, WordsFacts
  <2>2. record[job[s].path] = "none"
    BY <2>1 DEF RecordFacts
  <2>3. \A t \in Senders : job[t].step \in {"recorded", "refused"} => job'[t] = job[t]
    BY <1>5, <2>1 DEF Writes, Moves
  <2>4. ASSUME NEW d \in Dictations, NEW p \in Paths,
               at'[d] \in Early, files'[p] = d, record'[p] = "forwarded"
        PROVE  InHand(d, p)' \/ (at'[d] \notin Unsent /\ p = ref'[d])
    <3>1. at' = at /\ record' = record /\ ref' = ref
      BY <1>5 DEF Writes
    <3>2. files[p] = d
      BY <2>1, <2>2, <2>4, <3>1
    <3>3. InHand(d, p) => InHand(d, p)'
      BY <2>3 DEF InHand
    <3> QED BY <1>0, <2>4, <3>1, <3>2, <3>3
  <2> QED BY <2>4 DEF StrayFacts
<1>6. ASSUME NEW s \in Senders, MarksForwarded(s) PROVE StrayFacts'
  <2>1. /\ job[s].step = "written" /\ job[s].path \in Paths /\ files[job[s].path] = job[s].d
        /\ \A p \in Paths : p # job[s].path => record'[p] = record[p]
    BY <1>6, OwnRecord DEF MarksForwarded, At
  <2>2. \A t \in Senders : job[t].step \in {"recorded", "refused"} => job'[t] = job[t]
    BY <1>6, <2>1 DEF MarksForwarded, Moves
  <2>3. job'[s].step = "recorded" /\ job'[s].path = job[s].path /\ job'[s].d = job[s].d
    BY <1>6 DEF MarksForwarded, Moves, Jobs
  <2>4. at' = at /\ files' = files /\ ref' = ref
    BY <1>6 DEF MarksForwarded
  <2>5. ASSUME NEW d \in Dictations, NEW p \in Paths,
               at'[d] \in Early, files'[p] = d, record'[p] = "forwarded"
        PROVE  InHand(d, p)' \/ (at'[d] \notin Unsent /\ p = ref'[d])
    <3>1. CASE p = job[s].path
      BY <2>1, <2>3, <2>4, <2>5, <3>1 DEF InHand
    <3>2. CASE p # job[s].path
      <4>1. record[p] = "forwarded"
        BY <2>1, <2>5, <3>2
      <4>2. InHand(d, p) => InHand(d, p)'
        BY <2>2 DEF InHand
      <4> QED BY <1>0, <2>4, <2>5, <4>1, <4>2
    <3> QED BY <3>1, <3>2
  <2> QED BY <2>5 DEF StrayFacts
<1>7. ASSUME NEW s \in Senders, Delivered(s) PROVE StrayFacts'
  <2>1. /\ job[s].step = "recorded" /\ at[job[s].d] = Desk(s) /\ job[s].d \in Dictations
        /\ record' = record /\ files' = files
    BY <1>7, AtDesk DEF Delivered, At
  <2>2. \A t \in Senders \ {s} : job'[t] = job[t]
    BY <1>7 DEF Delivered
  <2>3. ASSUME NEW d \in Dictations, NEW p \in Paths,
               at'[d] \in Early, files'[p] = d, record'[p] = "forwarded"
        PROVE  InHand(d, p)' \/ (at'[d] \notin Unsent /\ p = ref'[d])
    <3>1. CASE d = job[s].d
      <4>1. /\ at'[d] = IF s = "listener" THEN "to concierge" ELSE "to router"
            /\ ref'[d] = job[s].path
        BY <1>7, <3>1, <2>1 DEF Delivered
      <4>2. s = "listener" /\ at[d] = "listener" /\ at'[d] = "to concierge"
        BY <4>1, <2>1, <2>3, <3>1 DEF Desk
      <4>3. InHand(d, p)
        BY <1>0, <2>1, <2>3, <4>2
      <4>4. p = job[s].path
        BY <4>3, <3>1, <2>1, HandOf
      <4> QED BY <4>1, <4>2, <4>4
    <3>2. CASE d # job[s].d
      <4>1. at'[d] = at[d] /\ ref'[d] = ref[d]
        BY <1>7, <3>2 DEF Delivered
      <4>2. InHand(d, p) => InHand(d, p)'
        BY <2>2, <3>2 DEF InHand
      <4> QED BY <1>0, <2>1, <2>3, <4>1, <4>2
    <3> QED BY <3>1, <3>2
  <2> QED BY <2>3 DEF StrayFacts
<1>8. ASSUME NEW s \in Senders, MarksFailed(s) PROVE StrayFacts'
  <2>1. /\ job[s].step = "refused" /\ job[s].d \in Dictations /\ job[s].path \in Paths
        /\ files' = files /\ ref' = ref
    BY <1>8, AtDesk DEF MarksFailed, At
  <2>2. \A t \in Senders \ {s} : job'[t] = job[t]
    BY <1>8 DEF MarksFailed
  <2>3. /\ record'[job[s].path] = "failed"
        /\ \A p \in Paths : p # job[s].path => record'[p] = record[p]
    BY <1>8, <2>1 DEF MarksFailed
  <2>4. ASSUME NEW d \in Dictations, NEW p \in Paths,
               at'[d] \in Early, files'[p] = d, record'[p] = "forwarded"
        PROVE  InHand(d, p)' \/ (at'[d] \notin Unsent /\ p = ref'[d])
    <3>1. p # job[s].path /\ record[p] = "forwarded" /\ files[p] = d
      BY <2>1, <2>3, <2>4
    <3>2. CASE d = job[s].d
      <4>1. at'[d] = "lost" /\ at[d] \in Early
        BY <1>8, <2>1, <3>2, AtDesk DEF MarksFailed, Desk
      <4>2. ~InHand(d, p)
        BY <3>1, <3>2, <2>1, HandOf
      <4> QED BY <1>0, <2>1, <3>1, <4>1, <4>2
    <3>3. CASE d # job[s].d
      <4>1. at'[d] = at[d]
        BY <1>8, <3>3 DEF MarksFailed
      <4>2. InHand(d, p) => InHand(d, p)'
        BY <2>2, <3>3 DEF InHand
      <4> QED BY <1>0, <2>1, <2>4, <3>1, <4>1, <4>2
    <3> QED BY <3>2, <3>3
  <2> QED BY <2>4 DEF StrayFacts
<1>9. ASSUME NEW s \in Senders, NEW d \in Dictations, job[s].step = "idle",
             at[d] \in Early, at[d] \in Unsent \/ Desk(s) \notin Unsent,
             UNCHANGED <<files, ref, record>>,
             job' = [job EXCEPT ![s] = [Idle EXCEPT !.step = "asked", !.d = d]],
             at' = [at EXCEPT ![d] = Desk(s)]
      PROVE  StrayFacts'
  <2>1. \A t \in Senders \ {s} : job'[t] = job[t]
    BY <1>9
  <2>2. \A e \in Dictations : at'[e] \in Early =>
               at[e] \in Early /\ (at[e] \notin Unsent => at'[e] \notin Unsent)
    BY <1>9
  <2> QED BY <1>9, <2>1, <2>2, <1>1
<1>10. ASSUME NEW d \in Dictations, Dictated(d) PROVE StrayFacts'
  BY <1>10, <1>9 DEF Dictated, Senders, Desk, At
<1>11. ASSUME NEW d \in Dictations, HandsNothing(d) \/ HandsOff(d) PROVE StrayFacts'
  <2>1. CASE HandsOff(d)
    BY <2>1, <1>9 DEF HandsOff, Senders, Desk, At
  <2>2. CASE HandsNothing(d)
    <3>1. \A e \in Dictations : at'[e] \in Early =>
                 at[e] \in Early /\ (at[e] \notin Unsent => at'[e] \notin Unsent)
      BY <2>2 DEF HandsNothing
    <3> QED BY <2>2, <3>1, <1>1 DEF HandsNothing
  <2> QED BY <1>11, <2>1, <2>2
<1>12. ASSUME NEW d \in Dictations, Reads(d) PROVE StrayFacts'
  <2>1. \/ at[d] = "to concierge" /\ at'[d] = "concierge"
        \/ at[d] = "to router" /\ at'[d] = "router"
    BY <1>12 DEF Reads
  <2>2. \A e \in Dictations \ {d} : at'[e] = at[e]
    BY <1>12 DEF Reads
  <2>3. UNCHANGED <<job, ref, files, record>>
    BY ONLY <1>12 DEF Reads
  <2>4. \A e \in Dictations : at'[e] \in Early =>
               at[e] \in Early /\ (at[e] \notin Unsent => at'[e] \notin Unsent)
    BY ONLY <2>1, <2>2, EarlyPlaces DEF Early, Unsent
  <2> QED BY <2>3, <2>4, <1>1
<1>13. ASSUME NEW d \in Dictations, Begins(d) PROVE StrayFacts'
  <2>1. \A e \in Dictations : at'[e] = "batch" \/ at'[e] = at[e]
    BY <1>13 DEF Begins
  <2> QED BY <1>13, <2>1, <1>1 DEF Begins
<1>14. CASE Summarises
  <2>1. \A e \in Dictations : at'[e] = "done" \/ at'[e] = at[e]
    BY <1>14 DEF Summarises
  <2> QED BY <1>14, <2>1, <1>1 DEF Summarises
<1>15. CASE Completes
  <2>1. /\ batch.step # "idle" /\ files' = files /\ ref' = ref /\ at' = at /\ job' = job
        /\ record' = [record EXCEPT ![ref[batch.d]] = "complete"]
    BY <1>15 DEF Completes, Done
  <2>2. ref[batch.d] \in Paths
    BY <2>1, BatchRecord
  <2>3. \A p \in Paths : record'[p] = "forwarded" => record[p] = "forwarded"
    BY <2>1, <2>2
  <2> QED BY <2>1, <2>3, <1>0 DEF StrayFacts, InHand
<1>16. CASE UNCHANGED <<job, at, ref, files, record>>
  BY <1>16, <1>1
<1>17. ASSUME NEW d \in Dictations
       PROVE  Acknowledges(d) => UNCHANGED <<job, at, ref, files, record>>
  BY DEF Acknowledges, hand
<1>18. ListenerStarts \/ SomeoneSpeaks \/ Tick \/ UNCHANGED vars
         => UNCHANGED <<job, at, ref, files, record>>
  BY DEF ListenerStarts, SomeoneSpeaks, Tick, vars, hand
<1>19. Skipped \/ Sent \/ NotSent \/ LeftOpen \/ Busy \/ Wakes
         => UNCHANGED <<job, at, ref, files, record>>
  BY DEF Skipped, Sent, NotSent, LeftOpen, Busy, Wakes, Still, hand
<1>20. ASSUME NEW s \in Senders PROVE ~EnqueueFails(s)
  BY <1>a DEF EnqueueFails
<1>21. ~HandoffRaises /\ ~ListenerDies /\ ~BatchRaises
  BY <1>a DEF HandoffRaises, ListenerDies, BatchRaises
<1> QED
  BY <1>2, <1>3, <1>4, <1>5, <1>6, <1>7, <1>8, <1>10, <1>11, <1>12, <1>13, <1>14, <1>15,
     <1>16, <1>17, <1>18, <1>19, <1>20, <1>21 DEF Next, Sends, Batch

ReportInv ==
  WordsInv /\ RecordInv /\ StrayInv /\ BatchInv /\ faults \in Nat

LEMMA ReportStep == ASSUME Shape, ReportInv, [Next]_vars PROVE ReportInv'
<1> USE DEF ReportInv
<1>1. WordsInv' /\ RecordInv' /\ BatchInv'
  BY WordsKept, RecordKept, BatchStep
<1>2. faults' \in Nat /\ (faults' = 0 => faults' = faults)
  BY Lasting
<1>3. StrayInv'
  <2>1. CASE raced' \/ faults' # 0
    BY <2>1 DEF StrayInv
  <2>2. CASE ~raced' /\ faults' = 0
    <3>1. ~raced /\ faults' = faults /\ faults = 0
      BY <2>2, <1>2, Lasting
    <3>2. WordsFacts /\ RecordFacts /\ StrayFacts
      BY <3>1 DEF WordsInv, RecordInv, StrayInv
    <3>3. StrayFacts'
      BY <3>1, <3>2, StrayStep
    <3> QED BY <3>3 DEF StrayInv
  <2> QED BY <2>1, <2>2
<1> QED BY <1>1, <1>2, <1>3

LEMMA ReportTrue == ASSUME Shape, ReportInv PROVE ReportsAreTrue
<1>1. ASSUME ~raced, NEW d \in Dictations
      PROVE  /\ at[d] = "done" => record[ref[d]] = "complete"
             /\ at[d] \in {"to router", "router"} => record[ref[d]] = "forwarded"
  <2>1. RecordFacts
    BY <1>1 DEF ReportInv, RecordInv
  <2> QED BY <2>1 DEF RecordFacts, RouterHas
<1>2. ASSUME ~raced, faults = 0, NEW d \in Dictations, NEW p \in Paths,
             at[d] = "lost", files[p] = d, record[p] = "forwarded"
      PROVE  p = ref[d]
  <2>1. StrayFacts
    BY <1>2 DEF ReportInv, StrayInv
  <2>2. ~InHand(d, p)
    BY <1>2, AtDesk DEF InHand, Desk
  <2> QED BY <1>2, <2>1, <2>2, EarlyPlaces DEF StrayFacts
<1>3. ASSUME NEW i \in DOMAIN typed
      PROVE  /\ typed[i] <= 1
             /\ batch.step = "summary" /\ i \notin batch.failures => typed[i] = 1
  <2>1. i \in 1..Len(batch.plan) /\ batch.i \in Nat /\ Len(batch.plan) \in Nat
    BY <1>3 DEF Shape, BatchTypes, Batches
  <2>2. BatchInv
    BY DEF ReportInv
  <2>3. i >= batch.i \/ i < batch.i
    BY <2>1
  <2> QED BY <2>1, <2>2, <2>3 DEF BatchInv
<1> QED BY <1>1, <1>2, <1>3 DEF ReportsAreTrue

(* deliver_batch, dispatch_state: the record of a dictation an agent was   *)
(* told of is forwarded until its batch has run to the end and complete    *)
(* from then on; but for faults, a refused one leaves nothing forwarded    *)
(* behind but the record of the hop before; no instruction is typed twice, *)
(* and each one the summary does not name has been typed.                  *)
THEOREM TrueReports == Spec => []ReportsAreTrue
<1>1. Init => Shape /\ ReportInv
  <2>1. Init => faults \in Nat
    BY DEF Init
  <2> QED BY <2>1, ShapeInit, WordsInit, RecordInit, BatchInit DEF ReportInv
<1>2. Shape /\ ReportInv /\ [Next]_vars => (Shape /\ ReportInv)'
  BY ShapeStep, ReportStep
<1>3. Shape /\ ReportInv => ReportsAreTrue
  BY ReportTrue
<1> QED BY <1>1, <1>2, <1>3, PTL DEF Spec
=============================================================================
