------------------------------- MODULE Delivery -------------------------------
(***************************************************************************)
(* A dictation on its way: the listener hands it to the concierge          *)
(* (l1_wakeword/daemon.py default_deliver), the concierge's server hands   *)
(* it to the router (l4_controller/tools_handoff.py), both through         *)
(* l2_l3_handoff.py, and the router's server types what the router made of *)
(* it into the sessions it is for (tools_write.py deliver_batch), while a  *)
(* thread of the listener waits to acknowledge it (instant_ack.py).        *)
(*                                                                         *)
(* Each of the three does one thing at a time; the three run beside each   *)
(* other, on one directory of dictations and one record of dispatches      *)
(* (whose file is DispatchState's subject: here each update is one step).  *)
(* The cancel window is the listener's: no listener, no window.            *)
(***************************************************************************)
EXTENDS FiniteSets, FiniteSetsExt, Naturals, Sequences

CONSTANTS
  Dictations,
  Long,       \* those over MAX_INLINE_TRANSCRIPT_CHARS: read from their file
  Targets, TestTargets,
  Nothing,
  AckAfter,   \* ACK_FALLBACK_AFTER_S in ticks
  RetryDelay, \* RETRY_DELAY_S
  Budget,     \* BATCH_RETRY_BUDGET_S
  MaxTime,    \* bound: ticks
  Plans,      \* what a router may make of a dictation: sequences of targets
  MaxFaults   \* bound: exceptions, and deaths of the listener

ASSUME DeliveryAssumption ==
  /\ Dictations # {} /\ IsFiniteSet(Dictations) /\ Nothing \notin Dictations
  /\ Long \subseteq Dictations /\ TestTargets \subseteq Targets
  /\ {AckAfter, RetryDelay, Budget, MaxTime, MaxFaults} \subseteq Nat
  /\ Plans \subseteq Seq(Targets)
  /\ RetryDelay > 0

Senders == {"listener", "concierge"}

VARIABLES
  now,
  listener, \* is the process up?
  job,      \* each sender: what it hands on, and how far it is
  at,       \* who has each dictation
  text,     \* whose words they have of it
  ref,      \* the file they were told of
  files, record, \* by path: the words in it, and how far its dispatch has come
  heard,    \* each dictation: was anything spoken since it ended?
  ack,      \* its acknowledgement: when it is due, or what became of it
  told,     \* dictations whose failure was spoken
  batch,    \* the router's call of deliver_batch
  typed,    \* history: how often each instruction of the batch was typed
  raced,    \* history: has a name been taken while another sender held it unwritten?
  faults

hand == <<job, at, text, ref, files, record, raced>>
voice == <<heard, ack, told>>
work == <<batch, typed>>
vars == <<now, listener, hand, voice, work, faults>>

Idle == [step |-> "idle", d |-> Nothing, path |-> <<0, 0>>]
NoBatch == [step |-> "idle", d |-> Nothing, plan |-> <<>>, i |-> 1,
            budget |-> 0, until |-> 0, up |-> FALSE, failures |-> {}]

(* A name: the second, and the suffix that tells those of one second apart. *)
Paths == (0..MaxTime) \X (0..(2 * Cardinality(Dictations) - 1))

At(s, step) == job[s].step = step
Moves(s, step) == job' = [job EXCEPT ![s].step = step]

(* Whatever is spoken, by any process, is heard of in the speech log.      *)
Spoken == heard' = [d \in Dictations |-> TRUE]

Ack(is, due) == [is |-> is, due |-> due]
Armed(d) == ack[d].is = "armed"

Fault == faults < MaxFaults /\ faults' = faults + 1

-----------------------------------------------------------------------------
(* Handing on *)

(* A dictation ends while a listener can deliver: the acknowledgement is   *)
(* armed with what the log holds now, or whatever raises on the way to it  *)
(* (the registry, the thread) is swallowed, and none will come.            *)
Dictated(d) ==
  /\ listener /\ At("listener", "idle") /\ at[d] = "unsaid"
  /\ at' = [at EXCEPT ![d] = "listener"]
  /\ job' = [job EXCEPT !["listener"] = [Idle EXCEPT !.step = "asked", !.d = d]]
  /\ heard' = [heard EXCEPT ![d] = FALSE]
  /\ \/ ack' = [ack EXCEPT ![d] = Ack("armed", now + AckAfter)] /\ UNCHANGED faults
     \/ ack' = [ack EXCEPT ![d] = Ack("swallowed", 0)] /\ Fault
  /\ UNCHANGED <<now, listener, text, ref, files, record, told, work, raced>>

(* The concierge calls handoff_to_router with nothing in it: refused, and  *)
(* for once nothing is said.  It may call again, or leave it at that.      *)
HandsNothing(d) ==
  /\ At("concierge", "idle") /\ at[d] = "concierge"
  /\ at' = [at EXCEPT ![d] = "blank"]
  /\ UNCHANGED <<now, listener, job, text, ref, files, record, voice, work, raced, faults>>

(* handoff_to_router, with a transcript. *)
HandsOff(d) ==
  /\ At("concierge", "idle") /\ at[d] \in {"concierge", "blank"}
  /\ at' = [at EXCEPT ![d] = "handing"]
  /\ job' = [job EXCEPT !["concierge"] = [Idle EXCEPT !.step = "asked", !.d = d]]
  /\ UNCHANGED <<now, listener, text, ref, files, record, voice, work, raced, faults>>

(* It ends here, and the user is told. *)
Fails(s) ==
  /\ at' = [at EXCEPT ![job[s].d] = "lost"]
  /\ job' = [job EXCEPT ![s] = Idle]
  /\ told' = told \cup {job[s].d} /\ Spoken

(* No such role, not running, its lookup failed, or the router's server is *)
(* not up: nothing was written.                                            *)
NoTarget(s) ==
  /\ At(s, "asked") /\ Fails(s)
  /\ UNCHANGED <<now, listener, text, ref, files, record, ack, work, raced, faults>>

(* Mutant: the second is enough of a name. *)
FreeName_Second(p) == p = <<now, 0>>

(* write_dictation: the first suffix of this second with no file.          *)
FreeName(p) ==
  /\ p[1] = now /\ files[p] = Nothing
  /\ \A q \in Paths : q[1] = now /\ q[2] < p[2] => files[q] # Nothing

Names(s) ==
  /\ At(s, "asked")
  /\ \E p \in Paths :
       /\ FreeName(p)
       /\ job' = [job EXCEPT ![s].step = "named", ![s].path = p]
       /\ raced' = (raced \/ \E t \in Senders : At(t, "named") /\ job[t].path = p)
  /\ UNCHANGED <<now, listener, at, text, ref, files, record, voice, work, faults>>

Writes(s) ==
  /\ At(s, "named") /\ Moves(s, "written")
  /\ files' = [files EXCEPT ![job[s].path] = text[job[s].d]]
  /\ UNCHANGED <<now, listener, at, text, ref, record, voice, work, raced, faults>>

MarksForwarded(s) ==
  /\ At(s, "written") /\ Moves(s, "recorded")
  /\ record' = [record EXCEPT ![job[s].path] = "forwarded"]
  /\ UNCHANGED <<now, listener, at, text, ref, files, voice, work, raced, faults>>

(* The file or the record cannot be written. *)
EnqueueFails(s) ==
  /\ At(s, "named") \/ At(s, "written")
  /\ Fault /\ Fails(s)
  /\ UNCHANGED <<now, listener, text, ref, files, record, ack, work, raced>>

(* transport.deliver has typed the words, or where they are. *)
Delivered(s) ==
  /\ At(s, "recorded")
  /\ at' = [at EXCEPT ![job[s].d] = IF s = "listener" THEN "to concierge" ELSE "to router"]
  /\ ref' = [ref EXCEPT ![job[s].d] = job[s].path]
  /\ job' = [job EXCEPT ![s] = Idle]
  /\ UNCHANGED <<now, listener, text, files, record, voice, work, raced, faults>>

(* It has not, and says why; then the record is put right. *)
Refused(s) ==
  /\ At(s, "recorded") /\ Moves(s, "refused")
  /\ told' = told \cup {job[s].d} /\ Spoken
  /\ UNCHANGED <<now, listener, at, text, ref, files, record, ack, work, raced, faults>>

(* Mutant: the record is left to abandonment. *)
MarksFailed_Later(s) ==
  /\ At(s, "refused")
  /\ at' = [at EXCEPT ![job[s].d] = "lost"]
  /\ job' = [job EXCEPT ![s] = Idle]
  /\ UNCHANGED <<now, listener, text, ref, files, record, voice, work, raced, faults>>

MarksFailed(s) ==
  /\ At(s, "refused")
  /\ record' = [record EXCEPT ![job[s].path] = "failed"]
  /\ at' = [at EXCEPT ![job[s].d] = "lost"]
  /\ job' = [job EXCEPT ![s] = Idle]
  /\ UNCHANGED <<now, listener, text, ref, files, voice, work, raced, faults>>

(* Mutant: the tool's answer is trusted to tell. *)
HandoffRaises_Quietly ==
  /\ At("concierge", "recorded") \/ At("concierge", "refused")
  /\ Fault
  /\ at' = [at EXCEPT ![job["concierge"].d] = "lost"]
  /\ job' = [job EXCEPT !["concierge"] = Idle]
  /\ UNCHANGED <<now, listener, text, ref, files, record, voice, work, raced>>

(* list_sessions, the transport or the record raises: the concierge's      *)
(* server catches it and speaks, the listener dies of it.                  *)
HandoffRaises ==
  /\ At("concierge", "recorded") \/ At("concierge", "refused")
  /\ Fault /\ Fails("concierge")
  /\ UNCHANGED <<now, listener, text, ref, files, record, ack, work, raced>>

(* That, or it is stopped: its thread dies with it. *)
ListenerDies ==
  /\ listener /\ Fault
  /\ listener' = FALSE
  /\ job' = [job EXCEPT !["listener"] = Idle]
  /\ at' = [d \in Dictations |-> IF at[d] = "listener" THEN "dropped" ELSE at[d]]
  /\ ack' = [d \in Dictations |-> IF Armed(d) THEN Ack("dropped", 0) ELSE ack[d]]
  /\ UNCHANGED <<now, text, ref, files, record, heard, told, work, raced>>

ListenerStarts ==
  /\ ~listener /\ listener' = TRUE
  /\ UNCHANGED <<now, hand, voice, work, faults>>

-----------------------------------------------------------------------------
(* The agents, and anyone else who speaks *)

Words(d) == IF d \in Long THEN files[ref[d]] ELSE text[d]

(* It reads what it was told: the message, or the file as it is now.       *)
Reads(d) ==
  /\ \E who \in {"concierge", "router"} :
       at[d] = IF who = "concierge" THEN "to concierge" ELSE "to router"
  /\ at' = [at EXCEPT ![d] = IF @ = "to concierge" THEN "concierge" ELSE "router"]
  /\ text' = [text EXCEPT ![d] = Words(d)]
  /\ UNCHANGED <<now, listener, job, ref, files, record, raced, voice, work, faults>>

SomeoneSpeaks ==
  /\ Spoken
  /\ UNCHANGED <<now, listener, hand, ack, told, work, faults>>

-----------------------------------------------------------------------------
(* instant_ack *)

Due(d) == Armed(d) /\ ack[d].due = now

(* Mutant: any speech the log holds will do. *)
Acknowledges_AnyLog(d) ==
  /\ Due(d) /\ ack' = [ack EXCEPT ![d] = Ack("over", 0)]
  /\ \/ \E e \in Dictations : heard[e]
        /\ UNCHANGED heard
     \/ Spoken
  /\ UNCHANGED <<now, listener, hand, told, work, faults>>

(* Suppressed if the log has grown since; spoken if it cannot be read.     *)
Acknowledges(d) ==
  /\ Due(d) /\ ack' = [ack EXCEPT ![d] = Ack("over", 0)]
  /\ \/ heard[d] /\ UNCHANGED heard
     \/ Spoken
  /\ UNCHANGED <<now, listener, hand, told, work, faults>>

-----------------------------------------------------------------------------
(* deliver_batch *)

(* Each instruction by its target; retry_busy_once as it is by default.    *)
(* A listener that died may have left its socket's path: "available".      *)
Begins(d) ==
  /\ batch.step = "idle" /\ at[d] = "router"
  /\ at' = [at EXCEPT ![d] = "batch"]
  /\ \E plan \in Plans, up \in {listener, TRUE} :
       /\ batch' = [NoBatch EXCEPT !.step = "next", !.d = d, !.plan = plan,
                                   !.budget = Budget, !.up = up]
       /\ typed' = [i \in DOMAIN plan |-> 0]
  /\ UNCHANGED <<now, listener, job, text, ref, files, record, raced, voice, faults>>

Instruction == batch.plan[batch.i]
Sending(step) == batch.step = step /\ batch.i <= Len(batch.plan)
Still == UNCHANGED <<now, listener, hand, ack, told, faults>>

Advance(failed) ==
  batch' = [batch EXCEPT !.step = "next", !.i = @ + 1,
                         !.failures = IF failed THEN @ \cup {batch.i} ELSE @]

(* Typed in the end or not, one of these is said. *)
Types == typed' = [typed EXCEPT ![batch.i] = @ + 1]

MayTry == batch.up \/ Instruction \in TestTargets

(* No such session, or no cancel window when the batch began. *)
Skipped == Sending("next") /\ Advance(TRUE) /\ Spoken /\ UNCHANGED typed /\ Still

Sent ==
  /\ Sending("next") \/ Sending("retry")
  /\ MayTry
  /\ Types /\ Advance(FALSE) /\ Spoken /\ Still

(* Refused with nothing typed; or busy, and no retry is left. *)
NotSent ==
  /\ Sending("next") \/ Sending("retry")
  /\ MayTry
  /\ Advance(TRUE) /\ Spoken /\ UNCHANGED typed /\ Still

(* dismiss_failed: typed and read, but not closed. *)
LeftOpen ==
  /\ Sending("next") \/ Sending("retry")
  /\ MayTry
  /\ Types /\ Advance(TRUE) /\ Spoken /\ Still

CanRetry == batch.budget >= RetryDelay

(* Mutant: whatever went wrong is tried again. *)
Busy_Anything ==
  /\ Sending("next") /\ MayTry /\ CanRetry
  /\ batch' = [batch EXCEPT !.step = "retry", !.until = now + RetryDelay,
                            !.budget = @ - RetryDelay]
  /\ \/ UNCHANGED typed
     \/ Types
  /\ UNCHANGED heard /\ Still

(* Busy: it sleeps, and tries once more. *)
Busy ==
  /\ Sending("next") /\ MayTry /\ CanRetry
  /\ batch' = [batch EXCEPT !.step = "sleep", !.until = now + RetryDelay,
                            !.budget = @ - RetryDelay]
  /\ UNCHANGED <<heard, typed>> /\ Still

Wakes ==
  /\ batch.step = "sleep" /\ now = batch.until
  /\ batch' = [batch EXCEPT !.step = "retry"]
  /\ UNCHANGED <<heard, typed>> /\ Still

(* An exception ends the batch with neither record nor summary. *)
BatchRaises ==
  /\ batch.step \in {"next", "retry"} /\ Fault
  /\ at' = [at EXCEPT ![batch.d] = "dropped"]
  /\ batch' = NoBatch /\ typed' = <<>>
  /\ UNCHANGED <<now, listener, job, text, ref, files, record, raced, voice>>

Done == batch.step = "next" /\ batch.i > Len(batch.plan)

Completes ==
  /\ Done
  /\ record' = [record EXCEPT ![ref[batch.d]] = "complete"]
  /\ batch' = [batch EXCEPT !.step = "summary"]
  /\ UNCHANGED <<now, listener, job, at, text, ref, files, raced, voice, typed, faults>>

Summarises ==
  /\ batch.step = "summary"
  /\ at' = [at EXCEPT ![batch.d] = "done"]
  /\ batch' = NoBatch /\ typed' = <<>> /\ Spoken
  /\ UNCHANGED <<now, listener, job, text, ref, files, record, raced, ack, told, faults>>

-----------------------------------------------------------------------------
(* Neither the thread nor the sleep oversleeps by a tick. *)
Tick ==
  /\ now < MaxTime /\ now' = now + 1
  /\ \A d \in Dictations : ~Due(d)
  /\ ~(batch.step = "sleep" /\ now = batch.until)
  /\ UNCHANGED <<listener, hand, voice, work, faults>>

Init ==
  /\ now = 0 /\ listener = TRUE /\ faults = 0
  /\ job = [s \in Senders |-> Idle]
  /\ at = [d \in Dictations |-> "unsaid"] /\ text = [d \in Dictations |-> d]
  /\ ref = [d \in Dictations |-> Nothing]
  /\ files = [p \in Paths |-> Nothing] /\ record = [p \in Paths |-> "none"]
  /\ heard = [d \in Dictations |-> FALSE]
  /\ ack = [d \in Dictations |-> Ack("none", 0)] /\ told = {}
  /\ batch = NoBatch /\ typed = <<>> /\ raced = FALSE

Sends(s) == \/ NoTarget(s) \/ Names(s) \/ Writes(s) \/ MarksForwarded(s)
            \/ EnqueueFails(s) \/ Delivered(s) \/ Refused(s) \/ MarksFailed(s)
Batch == \/ Skipped \/ Sent \/ NotSent \/ LeftOpen \/ Busy \/ Wakes \/ BatchRaises
         \/ Completes \/ Summarises

Next ==
  \/ \E d \in Dictations : \/ Dictated(d) \/ HandsNothing(d) \/ HandsOff(d) \/ Reads(d)
                           \/ Acknowledges(d) \/ Begins(d)
  \/ \E s \in Senders : Sends(s)
  \/ HandoffRaises \/ ListenerDies \/ ListenerStarts \/ SomeoneSpeaks
  \/ Batch \/ Tick

Spec == Init /\ [][Next]_vars

-----------------------------------------------------------------------------
(* Properties *)

TypeOK ==
  /\ now \in 0..MaxTime /\ listener \in BOOLEAN
  /\ \A s \in Senders : /\ job[s].d \in Dictations \cup {Nothing} /\ job[s].path \in Paths
                        /\ job[s].step = "idle" <=> job[s].d = Nothing
  /\ files \in [Paths -> Dictations \cup {Nothing}]
  /\ record \in [Paths -> {"none", "forwarded", "complete", "failed"}]
  /\ text \in [Dictations -> Dictations] /\ ref \in [Dictations -> Paths \cup {Nothing}]
  /\ told \subseteq Dictations

(* write_dictation: "rather than silently overwriting an existing          *)
(* dictation from the same second".  Agents read their own dictation's     *)
(* words, however late, unless the two senders took one name at once.      *)
OwnWords == ~raced => \A d \in Dictations : text[d] = d

(* Failures are heard.  deliver_transcript, handoff_to_router: "the caller  *)
(* must not mistake this for success", and the user is not left to: a       *)
(* dictation that a lookup, preflight, file, record, session list or        *)
(* transport stopped was announced, whichever of the two senders had it.    *)
(* instant_ack: once the wait is over something has been heard since the    *)
(* dictation ended, and where its exception was swallowed                   *)
(* (daemon.py:412-414) at least a failure was.  Not when the listener's     *)
(* thread died, nor of a hand-off with nothing in it, which is refused      *)
(* without a word (tools_handoff.py:69-71).                                 *)
FailuresHeard ==
  \A d \in Dictations : /\ at[d] = "lost" => d \in told /\ heard[d]
                        /\ Armed(d) => now <= ack[d].due
                        /\ ack[d].is = "over" => heard[d]

(* What is recorded and reported is so.  dispatch_state's record of the     *)
(* file an agent was told of, or that was refused: complete once its batch  *)
(* has run to the end and only then, no longer forwarded once that sender   *)
(* was refused (the concierge's own is closed by abandonment alone).        *)
(* deliver_batch: no instruction is typed twice, retries included, and when *)
(* the summary is spoken, each one it does not name was typed.              *)
ReportsAreTrue ==
  /\ ~raced => \A d \in Dictations :
       /\ at[d] = "done" => record[ref[d]] = "complete"
       /\ at[d] \in {"to router", "router"} => record[ref[d]] = "forwarded"
  /\ ~raced /\ faults = 0 => \A d \in Dictations, p \in Paths :
       at[d] = "lost" /\ files[p] = d /\ record[p] = "forwarded" => p = ref[d]
  /\ \A i \in DOMAIN typed :
       /\ typed[i] <= 1
       /\ batch.step = "summary" /\ i \notin batch.failures => typed[i] = 1
=============================================================================
