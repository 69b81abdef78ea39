----------------------------- MODULE ReturnQueue -----------------------------
(***************************************************************************)
(* The batching queue of the return channel: l4_controller/return_queue.py *)
(* as it is driven by tools_voice.jarvis_say and drained into the speech   *)
(* queue of say_feedback.py.                                               *)
(*                                                                         *)
(* The concierge's and the router's MCP servers are separate processes.    *)
(* Each runs a tool thread that enqueues and, once it has enqueued         *)
(* anything, a flush worker that ticks every half second.  They share one  *)
(* JSON file and one flock; the RLock, the worker and the speech queue are *)
(* private to a process and die with it.                                   *)
(*                                                                         *)
(* Time is counted in worker ticks.  Every reader of the file sorts it by  *)
(* (tier, queued_at), so the list is modelled as the set of its records,   *)
(* each carrying its age now - queued_at.                                  *)
(***************************************************************************)
EXTENDS Naturals, FiniteSets

CONSTANTS
  Procs,      \* the processes that load return_queue.py
  Items,      \* the messages that will ever be said
  Kind,       \* the kind each message is said with
  Settle,     \* SETTLE_S in ticks
  MaxHold,    \* MAX_HOLD_S in ticks
  MaxFaults   \* bound: crashes and failed writes in one behaviour

KINDS == {"answer", "error", "blocked_question", "completion"}

BatchableKinds == {"blocked_question", "completion"}

ASSUME KindAssumption == Kind \in [Items -> KINDS]

ASSUME HoldAssumption == /\ Settle \in Nat
                         /\ MaxHold \in Nat
                         /\ 0 < Settle
                         /\ Settle < MaxHold
                         /\ MaxFaults \in Nat

VARIABLES
  up,        \* is the process alive?
  pc,        \* where each thread of each process stands
  lock,      \* which thread of the process holds its RLock
  flock,     \* which thread of which process holds the file lock
  saying,    \* the message the tool thread is enqueueing, if any
  seen,      \* the file as a thread has read it, about to be written back
  taken,     \* the batch the worker has read
  due,       \* has the worker's half-second sleep run out?
  file,      \* return_queue.json
  age,       \* ticks a message has spent in the file (saturating)
  voice,     \* utterances waiting in the process's own speech queue
  spoken,    \* messages whose utterance has begun to play
  called,    \* history: messages handed to jarvis_say
  accepted,  \* history: messages jarvis_say answered ok for
  lost,      \* history: messages held by a process that died or failed to play them
  wake,      \* the state the wake daemon last wrote to wake_state.json
  daemon,    \* is the wake daemon alive?
  fresh,     \* was wake_state.json written within its staleness limit?
  faults     \* faults so far

threadVars == <<pc, lock, flock, saying, seen, taken, due>>
history    == <<called, accepted, lost>>
wakeVars   == <<wake, daemon, fresh>>
vars       == <<up, threadVars, file, age, voice, spoken, history, wakeVars, faults>>

Roles == {"tool", "worker"}

PC == {"idle", "off", "sleep", "check", "lock", "flock", "read", "reread", "write",
       "ensure", "speak"}

Nobody == <<>>

Batchable(i) == Kind[i] \in BatchableKinds

(* KINDS' priorities: everything except a completion is PRIORITY_HIGH. *)
Urgent(S) == \E i \in S : Kind[i] # "completion"

(* What process p has taken responsibility for and would lose by dying. *)
Held(p) == (UNION voice[p]) \cup (IF pc[p]["worker"] = "speak" THEN taken[p] ELSE {})

Threads(t, w) == [r \in Roles |-> IF r = "tool" THEN t ELSE w]

Step(p, r, from, to) == pc[p][r] = from /\ pc' = [pc EXCEPT ![p][r] = to]

(* Leaving the locked block: both locks drop, the local lists go away. *)
Release(p, r) ==
  /\ lock' = [lock EXCEPT ![p] = "none"]
  /\ flock' = Nobody
  /\ seen' = [seen EXCEPT ![p][r] = {}]

-----------------------------------------------------------------------------
(* The two locks, always taken in this order. *)

(* Mutants: no file lock at all, and none on the enqueueing side. *)
AcquireFlock_NoWait(p, r) ==
  /\ Step(p, r, "flock", "read")
  /\ flock' = <<p, r>>
  /\ UNCHANGED <<up, lock, saying, seen, taken, due, file, age, voice, spoken, history,
                 wakeVars, faults>>

AcquireFlock_FlushOnly(p, r) ==
  /\ Step(p, r, "flock", "read")
  /\ r = "tool" \/ flock = Nobody
  /\ flock' = <<p, r>>
  /\ UNCHANGED <<up, lock, saying, seen, taken, due, file, age, voice, spoken, history,
                 wakeVars, faults>>

AcquireLock(p, r) ==
  /\ Step(p, r, "lock", "flock")
  /\ lock[p] = "none"
  /\ lock' = [lock EXCEPT ![p] = r]
  /\ UNCHANGED <<up, flock, saying, seen, taken, due, file, age, voice, spoken, history,
                 wakeVars, faults>>

AcquireFlock(p, r) ==
  /\ Step(p, r, "flock", "read")
  /\ flock = Nobody
  /\ flock' = <<p, r>>
  /\ UNCHANGED <<up, lock, saying, seen, taken, due, file, age, voice, spoken, history,
                 wakeVars, faults>>

-----------------------------------------------------------------------------
(* The tool thread: jarvis_say and enqueue. *)

(* jarvis_say: a batchable kind goes to enqueue, any other is spoken now. *)
SayQueued(p, i) ==
  /\ up[p] /\ i \notin called /\ Batchable(i)
  /\ Step(p, "tool", "idle", "lock")
  /\ saying' = [saying EXCEPT ![p] = {i}]
  /\ called' = called \cup {i}
  /\ UNCHANGED <<up, lock, flock, seen, taken, due, file, age, voice, spoken, accepted,
                 lost, wakeVars, faults>>

SayNow(p, i) ==
  /\ up[p] /\ i \notin called /\ ~Batchable(i)
  /\ pc[p]["tool"] = "idle"
  /\ voice' = [voice EXCEPT ![p] = @ \cup {{i}}]
  /\ called' = called \cup {i}
  /\ accepted' = accepted \cup {i}
  /\ UNCHANGED <<up, threadVars, file, age, spoken, lost, wakeVars, faults>>

EnqueueRead(p) ==
  /\ Step(p, "tool", "read", "write")
  /\ seen' = [seen EXCEPT ![p]["tool"] = file]
  /\ UNCHANGED <<up, lock, flock, saying, taken, due, file, age, voice, spoken, history,
                 wakeVars, faults>>

EnqueueWrite(p) ==
  /\ Step(p, "tool", "write", "ensure")
  /\ file' = seen[p]["tool"] \cup saying[p]
  /\ age' = [i \in Items |-> IF i \in saying[p] THEN 0 ELSE age[i]]
  /\ accepted' = accepted \cup saying[p]
  /\ saying' = [saying EXCEPT ![p] = {}]
  /\ Release(p, "tool")
  /\ UNCHANGED <<up, taken, due, voice, spoken, called, lost, wakeVars, faults>>

(* The write raises: the locks are released, jarvis_say does not answer ok. *)
EnqueueWriteFails(p) ==
  /\ faults < MaxFaults
  /\ faults' = faults + 1
  /\ Step(p, "tool", "write", "idle")
  /\ saying' = [saying EXCEPT ![p] = {}]
  /\ Release(p, "tool")
  /\ UNCHANGED <<up, taken, due, file, age, voice, spoken, history, wakeVars>>

(* _ensure_worker: the first enqueue of a process starts its flush worker. *)
EnsureWorker(p) ==
  /\ pc[p]["tool"] = "ensure" /\ lock[p] = "none"
  /\ pc' = [pc EXCEPT ![p] = Threads("idle", IF pc[p]["worker"] = "off" THEN "sleep"
                                             ELSE pc[p]["worker"])]
  /\ UNCHANGED <<up, lock, flock, saying, seen, taken, due, file, age, voice, spoken, history,
                 wakeVars, faults>>

-----------------------------------------------------------------------------
(* The flush worker: ready_to_flush, then flush_now. *)

MidSentence == wake = "capturing" /\ fresh

Oldest(n) == \E i \in file : age[i] >= n   \* the oldest message waited n ticks
Newest(n) == \A i \in file : age[i] >= n   \* so did the newest

(* Mutant: the gate is asked before the backstop. *)
ReadyToFlush_GateFirst ==
  /\ file # {} /\ ~MidSentence
  /\ Oldest(MaxHold) \/ Newest(Settle)

ReadyToFlush ==
  /\ file # {}
  /\ \/ Oldest(MaxHold)
     \/ ~MidSentence /\ Newest(Settle)

WakeUp(p) ==
  /\ due[p]
  /\ Step(p, "worker", "sleep", "check")
  /\ due' = [due EXCEPT ![p] = FALSE]
  /\ UNCHANGED <<up, lock, flock, saying, seen, taken, file, age, voice, spoken, history,
                 wakeVars, faults>>

(* pending() takes the RLock for its read; nothing is held afterwards. *)
CheckReady(p) ==
  /\ lock[p] = "none"
  /\ Step(p, "worker", "check", IF ReadyToFlush THEN "lock" ELSE "sleep")
  /\ UNCHANGED <<up, lock, flock, saying, seen, taken, due, file, age, voice, spoken, history,
                 wakeVars, faults>>

FlushNothing(p) ==
  /\ file = {}
  /\ Step(p, "worker", "read", "sleep")
  /\ Release(p, "worker")
  /\ UNCHANGED <<up, saying, taken, due, file, age, voice, spoken, history, wakeVars, faults>>

(* Mutant: only what is urgent is taken into the batch. *)
FlushRead_UrgentOnly(p) ==
  /\ file # {}
  /\ Step(p, "worker", "read", "reread")
  /\ taken' = [taken EXCEPT ![p] = {i \in file : Urgent({i})}]
  /\ UNCHANGED <<up, lock, flock, saying, seen, due, file, age, voice, spoken, history,
                 wakeVars, faults>>

FlushRead(p) ==
  /\ file # {}
  /\ Step(p, "worker", "read", "reread")
  /\ taken' = [taken EXCEPT ![p] = file]
  /\ UNCHANGED <<up, lock, flock, saying, seen, due, file, age, voice, spoken, history,
                 wakeVars, faults>>

FlushReread(p) ==
  /\ Step(p, "worker", "reread", "write")
  /\ seen' = [seen EXCEPT ![p]["worker"] = file \ taken[p]]
  /\ UNCHANGED <<up, lock, flock, saying, taken, due, file, age, voice, spoken, history,
                 wakeVars, faults>>

FlushWrite(p) ==
  /\ Step(p, "worker", "write", "speak")
  /\ file' = seen[p]["worker"]
  /\ Release(p, "worker")
  /\ UNCHANGED <<up, saying, taken, due, age, voice, spoken, history, wakeVars, faults>>

(* The write raises: _worker_loop swallows it, nothing has been spoken. *)
FlushWriteFails(p) ==
  /\ faults < MaxFaults
  /\ faults' = faults + 1
  /\ Step(p, "worker", "write", "sleep")
  /\ taken' = [taken EXCEPT ![p] = {}]
  /\ Release(p, "worker")
  /\ UNCHANGED <<up, saying, due, file, age, voice, spoken, history, wakeVars>>

(* compose and speak, after both locks have been released. *)
FlushSpeak(p) ==
  /\ Step(p, "worker", "speak", "sleep")
  /\ voice' = [voice EXCEPT ![p] = @ \cup {taken[p]}]
  /\ taken' = [taken EXCEPT ![p] = {}]
  /\ UNCHANGED <<up, lock, flock, saying, seen, due, file, age, spoken, history,
                 wakeVars, faults>>

-----------------------------------------------------------------------------
(* say_feedback's worker in p begins an utterance; urgent ones go first.   *)
(* First-in-first-out among equals is the business of module SpeechQueue.  *)
Play(p) ==
  \E u \in voice[p] :
    /\ Urgent(u) \/ \A w \in voice[p] : ~Urgent(w)
    /\ voice' = [voice EXCEPT ![p] = @ \ {u}]
    /\ spoken' = spoken \cup u
    /\ UNCHANGED <<up, threadVars, file, age, history, wakeVars, faults>>

(* The worker's turn raises, in the log write, say: the item is dropped. *)
PlayFails(p) ==
  /\ faults < MaxFaults
  /\ faults' = faults + 1
  /\ \E u \in voice[p] :
       /\ Urgent(u) \/ \A w \in voice[p] : ~Urgent(w)
       /\ voice' = [voice EXCEPT ![p] = @ \ {u}]
       /\ lost' = lost \cup u
  /\ UNCHANGED <<up, threadVars, file, age, spoken, called, accepted, wakeVars>>

-----------------------------------------------------------------------------
(* The environment: processes, the wake daemon, and time. *)

(* The kernel drops the flock of a process that dies; the file stays. *)
Crash(p) ==
  /\ up[p] /\ faults < MaxFaults
  /\ faults' = faults + 1
  /\ up' = [up EXCEPT ![p] = FALSE]
  /\ pc' = [pc EXCEPT ![p] = Threads("idle", "off")]
  /\ lock' = [lock EXCEPT ![p] = "none"]
  /\ flock' = IF \E r \in Roles : flock = <<p, r>> THEN Nobody ELSE flock
  /\ due' = [due EXCEPT ![p] = FALSE]
  /\ lost' = lost \cup Held(p)
  /\ voice' = [voice EXCEPT ![p] = {}]
  /\ saying' = [saying EXCEPT ![p] = {}]
  /\ seen' = [seen EXCEPT ![p] = [r \in Roles |-> {}]]
  /\ taken' = [taken EXCEPT ![p] = {}]
  /\ UNCHANGED <<file, age, spoken, called, accepted, wakeVars>>

(* A new server process loads the module; no worker runs until it enqueues. *)
Restart(p) ==
  /\ ~up[p]
  /\ up' = [up EXCEPT ![p] = TRUE]
  /\ UNCHANGED <<threadVars, file, age, voice, spoken, history, wakeVars, faults>>

(* The live daemon writes wake_state.json. *)
DaemonWrites(s) ==
  /\ daemon
  /\ wake' = s
  /\ fresh' = TRUE
  /\ UNCHANGED <<up, threadVars, file, age, voice, spoken, history, daemon, faults>>

(* A crash leaves its last word on disk, a clean exit removes the file. *)
DaemonStops ==
  /\ daemon
  /\ daemon' = FALSE
  /\ wake' \in {wake, "absent"}
  /\ UNCHANGED <<up, threadVars, file, age, voice, spoken, history, fresh, faults>>

(* live() starts idle and writes its state at once. *)
DaemonStarts ==
  /\ ~daemon
  /\ daemon' = TRUE /\ wake' = "idle" /\ fresh' = TRUE
  /\ UNCHANGED <<up, threadVars, file, age, voice, spoken, history, faults>>

(* Half a second passes.  A pass of a worker or a call of a tool takes far *)
(* less, so time does not pass while one is under way.  A live daemon      *)
(* refreshes its file every tenth of a second, unless its loop is busy     *)
(* delivering; a dead one never does.                                      *)
Tick ==
  /\ \A p \in Procs : /\ pc[p]["tool"] = "idle"
                      /\ pc[p]["worker"] \in {"off", "sleep"}
                      /\ ~due[p]
  /\ due' = [p \in Procs |-> pc[p]["worker"] = "sleep"]
  /\ age' = [i \in Items |-> IF i \in file /\ age[i] <= MaxHold THEN age[i] + 1
                             ELSE age[i]]
  /\ fresh' \in {FALSE, daemon}
  /\ UNCHANGED <<up, pc, lock, flock, saying, seen, taken, file, voice, spoken, history, wake,
                 daemon, faults>>

-----------------------------------------------------------------------------

Init ==
  /\ up = [p \in Procs |-> TRUE]
  /\ pc = [p \in Procs |-> Threads("idle", "off")]
  /\ lock = [p \in Procs |-> "none"]
  /\ flock = Nobody
  /\ saying = [p \in Procs |-> {}]
  /\ seen = [p \in Procs |-> [r \in Roles |-> {}]]
  /\ taken = [p \in Procs |-> {}]
  /\ due = [p \in Procs |-> FALSE]
  /\ file = {}
  /\ age = [i \in Items |-> 0]
  /\ voice = [p \in Procs |-> {}]
  /\ spoken = {} /\ called = {} /\ accepted = {} /\ lost = {}
  /\ wake = "idle" /\ daemon = TRUE /\ fresh = TRUE
  /\ faults = 0

ToolMoves(p) ==
  \/ AcquireLock(p, "tool") \/ AcquireFlock(p, "tool")
  \/ EnqueueRead(p) \/ EnqueueWrite(p) \/ EnsureWorker(p)

WorkerMoves(p) ==
  \/ WakeUp(p) \/ CheckReady(p)
  \/ AcquireLock(p, "worker") \/ AcquireFlock(p, "worker")
  \/ FlushNothing(p) \/ FlushRead(p) \/ FlushReread(p) \/ FlushWrite(p) \/ FlushSpeak(p)

Tool(p) ==
  \/ \E i \in Items : SayQueued(p, i) \/ SayNow(p, i)
  \/ EnqueueWriteFails(p)
  \/ ToolMoves(p)

Worker(p) == WorkerMoves(p) \/ FlushWriteFails(p)

Environment ==
  \/ \E s \in {"idle", "capturing"} : DaemonWrites(s)
  \/ DaemonStops \/ DaemonStarts
  \/ Tick

Next ==
  \/ \E p \in Procs : Tool(p) \/ Worker(p) \/ Play(p) \/ PlayFails(p) \/ Crash(p) \/ Restart(p)
  \/ Environment

Spec == Init /\ [][Next]_vars

-----------------------------------------------------------------------------
(* Properties *)

TypeOK ==
  /\ up \in [Procs -> BOOLEAN]
  /\ pc \in [Procs -> [Roles -> PC]]
  /\ lock \in [Procs -> Roles \cup {"none"}]
  /\ flock \in (Procs \X Roles) \cup {Nobody}
  /\ saying \in [Procs -> SUBSET Items]
  /\ seen \in [Procs -> [Roles -> SUBSET Items]]
  /\ taken \in [Procs -> SUBSET Items]
  /\ due \in [Procs -> BOOLEAN]
  /\ file \in SUBSET Items
  /\ age \in [Items -> 0..(MaxHold + 1)]
  /\ voice \in [Procs -> SUBSET (SUBSET Items)]
  /\ spoken \in SUBSET Items /\ called \in SUBSET Items
  /\ accepted \in SUBSET Items /\ lost \in SUBSET Items
  /\ wake \in {"idle", "capturing", "absent"}
  /\ daemon \in BOOLEAN /\ fresh \in BOOLEAN
  /\ faults \in 0..MaxFaults

(* No accepted message goes missing: whatever two processes do to the file, *)
(* it is waiting there, or a live process holds it, or it has been spoken,  *)
(* or it was in the hands of a process that died.                           *)
NothingMislaid ==
  accepted = file \cup spoken \cup lost \cup (UNION {Held(p) : p \in Procs})

(* No message is spoken twice: two flushers never hold the same message,    *)
(* and a message once taken is gone from the file.                          *)
OneVoicePerMessage ==
  /\ file \cap spoken = {}
  /\ \A p \in Procs : Held(p) \cap (file \cup spoken) = {}
  /\ \A p, q \in Procs : p # q => Held(p) \cap Held(q) = {}

(* "Nothing may be held longer than this, for any reason": no message waits *)
(* in the file past MAX_HOLD_S (return_queue.py:82), whatever the wake file *)
(* claims and however long he keeps talking, as long as no process has died *)
(* and no write has failed.  After a crash nobody may be left to flush.     *)
HoldBounded == faults = 0 => \A i \in file : age[i] <= MaxHold

-----------------------------------------------------------------------------
(* The abstract channel this queue implements.                             *)

StatusOf(i) ==
  CASE i \in spoken -> "spoken"
    [] i \in lost -> "lost"
    [] i \in file -> "queued"
    [] \E p \in Procs : i \in Held(p) -> "claimed"
    [] OTHER -> "new"

Channel == INSTANCE ReturnChannel WITH status <- [i \in Items |-> StatusOf(i)]

(* The file, the two locks and the crashes together behave like the         *)
(* abstract channel: one claim per message, whole queue per utterance.      *)
ImplementsChannel == Channel!Spec
=============================================================================
