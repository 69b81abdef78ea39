---------------------------- MODULE DispatchState ----------------------------
(***************************************************************************)
(* l4_controller/dispatch_state.py: the file that says how far each        *)
(* dictation has come, and the processes that rewrite it.                  *)
(*                                                                         *)
(* Every operation reads the whole file, changes one dictation's record in *)
(* memory (or heals the stale ones) and writes the whole file back, with   *)
(* no lock.  write_text truncates before it writes, and a file that does   *)
(* not parse reads as no records at all.  The wake daemon forwards         *)
(* dictations to the concierge, the concierge's server to the router, the  *)
(* router's server completes them, and the console polls for any in flight.*)
(***************************************************************************)
EXTENDS Naturals

CONSTANTS
  Refs,          \* dictation_refs
  Forwarder,     \* the process that hands each dictation off
  Abandon,       \* DISPATCH_ABANDONED_AFTER_S in ticks
  MaxCrashes     \* bound: processes that die in the middle of an operation

Procs == {"daemon", "concierge", "router", "console"}

ASSUME DispatchAssumption == /\ Forwarder \in [Refs -> {"daemon", "concierge"}]
                             /\ Abandon \in Nat
                             /\ MaxCrashes \in Nat

VARIABLES
  file,      \* the records on disk, or Torn
  age,       \* ticks since each dictation was forwarded (saturating)
  job,       \* the operation each process is in the middle of, if any
  life,      \* what really became of each dictation
  overlapped,\* history: has an operation begun while another was under way?
  crashes    \* crashes so far

vars == <<file, age, job, life, overlapped, crashes>>

(* "noted" is a record that holds only the router's color: no stage.       *)
Stages == {"none", "noted", "forwarded", "complete", "failed", "abandoned"}

Torn  == <<>>                         \* truncated, or two writes overlaid
Empty == [d \in Refs |-> "none"]

Ops == {"forward", "complete", "fail", "note", "heal"}

Idle == <<>>
Job(op, d, step, records) == <<op, d, step, records>>
OpOf(w) == job[w][1]
RefOf(w) == job[w][2]
StepOf(w) == job[w][3]
RecordsOf(w) == job[w][4]

Busy(w) == job[w] # Idle

Begin(w, op, d, records) ==
  /\ ~Busy(w)
  /\ overlapped' = (overlapped \/ \E v \in Procs : Busy(v))
  /\ job' = [job EXCEPT ![w] = Job(op, d, "modified", records)]
  /\ UNCHANGED <<file, life, crashes>>

-----------------------------------------------------------------------------
(* The operations, from the read to the change in memory. *)

(* _read_raw: a missing or unparsable file holds no records. *)
ReadRaw == IF file = Torn THEN Empty ELSE file

MarkForwarded(w, d) ==
  /\ w = Forwarder[d] /\ life[d] = "new"
  /\ Begin(w, "forward", d, [ReadRaw EXCEPT ![d] = "forwarded"])
  /\ age' = [age EXCEPT ![d] = 0]

(* The dictations the router is told of; no one completes the others. *)
ToRouter(d) == Forwarder[d] = "concierge"

(* Mutant: whatever record happens to still say forwarded is closed. *)
MarkComplete_AnyForwarded(d) ==
  /\ ToRouter(d) /\ life[d] = "working"
  /\ Begin("router", "complete", d,
           [e \in Refs |-> IF e = d \/ ReadRaw[e] = "forwarded" THEN "complete" ELSE ReadRaw[e]])
  /\ UNCHANGED age

MarkComplete(d) ==
  /\ ToRouter(d) /\ life[d] = "working"
  /\ Begin("router", "complete", d, [ReadRaw EXCEPT ![d] = "complete"])
  /\ UNCHANGED age

MarkFailed(w, d) ==
  /\ w = Forwarder[d] /\ life[d] = "undelivered"
  /\ Begin(w, "fail", d, [ReadRaw EXCEPT ![d] = "failed"])
  /\ UNCHANGED age

(* report_dispatch_stage keeps the stage of a record that is there. *)
ReportStage(d) ==
  /\ ToRouter(d) /\ life[d] = "working"
  /\ Begin("router", "note", d, [ReadRaw EXCEPT ![d] = IF @ = "none" THEN "noted" ELSE @])
  /\ UNCHANGED age

Stale(d) == ReadRaw[d] = "forwarded" /\ age[d] > Abandon

(* Mutant: what is healed is healed for this caller only. *)
Heal_InMemory == (\E d \in Refs : Stale(d)) /\ UNCHANGED vars

(* _heal_and_maybe_write, on behalf of any_forwarded: only if there is     *)
(* something to heal is anything written.                                  *)
Heal ==
  /\ \E d \in Refs : Stale(d)
  /\ \E d \in Refs : Begin("console", "heal", d,
       [e \in Refs |-> IF Stale(e) THEN "abandoned" ELSE ReadRaw[e]])
  /\ UNCHANGED age

-----------------------------------------------------------------------------
(* _write *)

Truncate(w) ==
  /\ Busy(w) /\ StepOf(w) = "modified"
  /\ file' = Torn
  /\ job' = [job EXCEPT ![w] = Job(OpOf(w), RefOf(w), "truncated", RecordsOf(w))]
  /\ UNCHANGED <<age, life, overlapped, crashes>>

(* What the operation did to its dictation, once its write has landed. *)
LifeAfter(w) ==
  CASE OpOf(w) = "forward"  -> [life EXCEPT ![RefOf(w)] = "handed"]
    [] OpOf(w) = "complete" -> [life EXCEPT ![RefOf(w)] = "done"]
    [] OpOf(w) = "fail"     -> [life EXCEPT ![RefOf(w)] = "failed"]
    [] OTHER                -> life

(* Over a write that landed since our truncation, ours may leave a tail. *)
Write(w) ==
  /\ Busy(w) /\ StepOf(w) = "truncated"
  /\ file' \in IF file = Torn THEN {RecordsOf(w)} ELSE {RecordsOf(w), Torn}
  /\ job' = [job EXCEPT ![w] = Idle]
  /\ life' = LifeAfter(w)
  /\ UNCHANGED <<age, overlapped, crashes>>

-----------------------------------------------------------------------------
(* Around the file. *)

(* transport.deliver of the pointer lands, or it does not, or something     *)
(* raises between the record and its result: nobody corrects the record.    *)
Deliver(d) ==
  /\ life[d] = "handed" /\ ~Busy(Forwarder[d])
  /\ \E r \in {"working", "undelivered", "stranded"} : life' = [life EXCEPT ![d] = r]
  /\ UNCHANGED <<file, age, job, overlapped, crashes>>

(* A process dies in the middle of an operation. *)
Crash(w) ==
  /\ Busy(w) /\ crashes < MaxCrashes
  /\ crashes' = crashes + 1
  /\ job' = [job EXCEPT ![w] = Idle]
  /\ life' = [life EXCEPT ![RefOf(w)] = IF OpOf(w) = "heal" THEN @ ELSE "dropped"]
  /\ UNCHANGED <<file, age, overlapped>>

(* Operations take far less than a tick. *)
Tick ==
  /\ \A w \in Procs : ~Busy(w)
  /\ age' = [d \in Refs |-> IF age[d] <= Abandon THEN age[d] + 1 ELSE age[d]]
  /\ UNCHANGED <<file, job, life, overlapped, crashes>>

-----------------------------------------------------------------------------

Init ==
  /\ file = Empty
  /\ age = [d \in Refs |-> 0]
  /\ job = [w \in Procs |-> Idle]
  /\ life = [d \in Refs |-> "new"]
  /\ overlapped = FALSE /\ crashes = 0

Next ==
  \/ \E d \in Refs : \/ \E w \in Procs : MarkForwarded(w, d) \/ MarkFailed(w, d)
                     \/ MarkComplete(d) \/ ReportStage(d) \/ Deliver(d)
  \/ Heal
  \/ \E w \in Procs : Truncate(w) \/ Write(w) \/ Crash(w)
  \/ Tick

Spec == Init /\ [][Next]_vars

(* The console polls, operations end and time passes; of agents, nothing. *)
Fairness == /\ WF_vars(Tick) /\ WF_vars(Heal)
            /\ \A w \in Procs : WF_vars(Truncate(w) \/ Write(w))

FairSpec == Spec /\ Fairness

-----------------------------------------------------------------------------
(* Properties *)

TypeOK ==
  /\ file \in [Refs -> Stages] \cup {Torn}
  /\ age \in [Refs -> 0..(Abandon + 1)]
  /\ \A w \in Procs : Busy(w) =>
       /\ OpOf(w) \in Ops /\ RefOf(w) \in Refs
       /\ StepOf(w) \in {"modified", "truncated"} /\ RecordsOf(w) \in [Refs -> Stages]
  /\ life \in [Refs -> {"new", "handed", "working", "undelivered", "stranded",
                        "done", "failed", "dropped"}]
  /\ overlapped \in BOOLEAN /\ crashes \in 0..MaxCrashes

(* The stages the file may show for what really became of a dictation.      *)
Faithful(d) ==
  LET shown == ReadRaw[d]
  IN CASE life[d] = "new"  -> shown = "none"
       [] life[d] = "done" -> shown = "complete"
       [] life[d] = "failed" -> shown = "failed"
       [] OTHER -> shown \in {"forwarded", "abandoned"}

Quiet == \A w \in Procs : ~Busy(w)

(* "A confident yes about work that is still running" never comes from this *)
(* file: it calls a dictation complete or failed only once it is, whatever  *)
(* reads and writes of other dictations overlap (dispatch_state.py:40-42).  *)
(* And as long as no two operations overlap and none is cut short, each     *)
(* "closes out ONLY dictation_ref's own record": between operations the     *)
(* file shows every dictation as it is (dispatch_state.py:77, 98).          *)
NoFalseNews ==
  /\ \A d \in Refs : /\ ReadRaw[d] = "complete" => life[d] \in {"done", "dropped"}
                     /\ ReadRaw[d] = "failed" => life[d] \in {"failed", "dropped"}
  /\ ~overlapped /\ crashes = 0 /\ Quiet => \A d \in Refs : life[d] # "dropped" => Faithful(d)

(* The console never waits on a dispatch for ever: what says forwarded is   *)
(* completed, failed or abandoned in the end.                               *)
NothingForwardedForever == \A d \in Refs : ReadRaw[d] = "forwarded" ~> ReadRaw[d] # "forwarded"
=============================================================================
