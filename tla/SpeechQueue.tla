----------------------------- MODULE SpeechQueue -----------------------------
(***************************************************************************)
(* l4_controller/say_feedback.py: the priority queue every process speaks  *)
(* through, its lazily started worker thread, and the callers of speak and *)
(* speak_with_cancel_window.                                               *)
(*                                                                         *)
(* A call is one thread's call of speak or speak_with_cancel_window.  Two  *)
(* things may be spoken on its behalf: its text, and the warning of a call *)
(* whose cancel window was not available.  The queue, the worker and the   *)
(* sequence counter are private to a process; say_log.jsonl, the speakers  *)
(* and the wake daemon's socket are shared by all.                         *)
(***************************************************************************)
EXTENDS Naturals, FiniteSets

CONSTANTS
  Procs,        \* processes that load say_feedback.py
  Calls,        \* calls of speak and speak_with_cancel_window
  Home,         \* the process each call is made in
  Priority,     \* the priority each text is spoken with
  Windowed,     \* the calls of speak_with_cancel_window with a window
  MaxFaults     \* bound: appends to say_log.jsonl that fail

HIGH   == 0     \* PRIORITY_HIGH
NORMAL == 1     \* PRIORITY_NORMAL

ASSUME SpeechAssumption == /\ Home \in [Calls -> Procs]
                           /\ Priority \in [Calls -> {HIGH, NORMAL}]
                           /\ Windowed \subseteq Calls
                           /\ MaxFaults \in Nat

VARIABLES
  muted,     \* the processes started with JARVIS_MUTE=1
  pc,        \* where each calling thread stands
  saying,    \* what the calling thread is enqueueing: its text or the warning
  mutex,     \* the call that holds its process's _worker_lock, if any
  started,   \* _worker_started of each process
  counter,   \* _seq_counter of each process
  number,    \* the sequence number an utterance drew
  waiting,   \* _speech_queue of each process
  worker,    \* the state of the worker thread a call started
  work,      \* the utterance that worker has taken
  event,     \* windowed calls whose started event is set
  listener,  \* the state of a windowed call's listener thread
  logged,    \* utterances in say_log.jsonl
  before,    \* history: what was put into the queue before an utterance's speak began
  faults     \* failed appends so far

callerVars == <<muted, pc, saying, mutex, started, counter, number, before>>
workerVars == <<worker, work, logged, faults>>
windowVars == <<event, listener>>
speechVars == <<callerVars, waiting, workerVars, windowVars>>

Kinds == {"text", "warning"}

Utterances == Calls \X Kinds

Of(u) == u[1]                 \* the call an utterance belongs to
At(u) == Home[Of(u)]          \* the process that speaks it
Rank(u) == IF u[2] = "warning" THEN HIGH ELSE Priority[Of(u)]

Current(c) == <<c, saying[c]>>

In(p) == {c \in Calls : Home[c] = p}

Step(c, from, to) == pc[c] = from /\ pc' = [pc EXCEPT ![c] = to]

(* u leaves a priority queue of (priority, seq) pairs before v. *)
Precedes(u, v) == \/ Rank(u) < Rank(v)
                  \/ Rank(u) = Rank(v) /\ number[u] < number[v]

First(Q) == {u \in Q : \A v \in Q \ {u} : Precedes(u, v)}

(* Every utterance that has been put into the queue of process p. *)
Submitted(p) ==
  {u \in Utterances : /\ At(u) = p /\ number[u] > 0
                      /\ ~(pc[Of(u)] = "put" /\ u = Current(Of(u)))}

-----------------------------------------------------------------------------
(* The caller: _enqueue, and around it speak_with_cancel_window. *)

(* speak is called; a windowed call has just started its listener. *)
Call(c) ==
  /\ Step(c, "new", "ensure")
  /\ before' = [before EXCEPT ![Current(c)] = Submitted(Home[c])]
  /\ listener' = [listener EXCEPT ![c] = IF c \in Windowed THEN "waiting" ELSE @]
  /\ UNCHANGED <<muted, saying, mutex, started, counter, number, waiting, workerVars, event>>

(* The unlocked look at _worker_started. *)
Ensure(c) ==
  /\ Step(c, "ensure", IF started[Home[c]] THEN "number" ELSE "lock")
  /\ UNCHANGED <<muted, saying, mutex, started, counter, number, before, waiting, workerVars, windowVars>>

Lock(c) ==
  /\ Step(c, "lock", "locked")
  /\ \A d \in In(Home[c]) : ~mutex[d]
  /\ mutex' = [mutex EXCEPT ![c] = TRUE]
  /\ UNCHANGED <<muted, saying, started, counter, number, before, waiting, workerVars, windowVars>>

(* Mutant: the second look, under the lock, is missing. *)
StartWorker_NoSecondLook(c) ==
  /\ Step(c, "locked", "number")
  /\ mutex' = [mutex EXCEPT ![c] = FALSE]
  /\ worker' = [worker EXCEPT ![c] = "get"]
  /\ started' = [started EXCEPT ![Home[c]] = TRUE]
  /\ UNCHANGED <<muted, saying, counter, number, before, waiting, work, logged, faults, windowVars>>

(* The second look, the thread's start and the release of the lock. *)
StartWorker(c) ==
  /\ Step(c, "locked", "number")
  /\ mutex' = [mutex EXCEPT ![c] = FALSE]
  /\ worker' = [worker EXCEPT ![c] = IF started[Home[c]] THEN @ ELSE "get"]
  /\ started' = [started EXCEPT ![Home[c]] = TRUE]
  /\ UNCHANGED <<muted, saying, counter, number, before, waiting, work, logged, faults, windowVars>>

(* next(_seq_counter), evaluated before the put. *)
Number(c) ==
  /\ Step(c, "number", "put")
  /\ number' = [number EXCEPT ![Current(c)] = counter[Home[c]] + 1]
  /\ counter' = [counter EXCEPT ![Home[c]] = @ + 1]
  /\ UNCHANGED <<muted, saying, mutex, started, before, waiting, workerVars, windowVars>>

(* Mutant: nobody is told when the window was not available. *)
Joined_Silent(c) ==
  /\ listener[c] \in {"answered", "unavailable"}
  /\ Step(c, "join", "done")
  /\ UNCHANGED <<muted, saying, mutex, started, counter, number, before, waiting, workerVars, windowVars>>

(* speak returns; a windowed call goes on to join its listener. *)
Put(c) ==
  /\ Step(c, "put", IF c \in Windowed /\ saying[c] = "text" THEN "join" ELSE "done")
  /\ waiting' = [waiting EXCEPT ![Home[c]] = @ \cup {Current(c)}]
  /\ UNCHANGED <<muted, saying, mutex, started, counter, number, before, workerVars, windowVars>>

(* The listener has come back: "Cancel unavailable." if there was no window. *)
Joined(c) ==
  /\ listener[c] \in {"answered", "unavailable"}
  /\ IF listener[c] = "unavailable"
       THEN /\ Step(c, "join", "ensure")
            /\ saying' = [saying EXCEPT ![c] = "warning"]
            /\ before' = [before EXCEPT ![<<c, "warning">>] = Submitted(Home[c])]
       ELSE /\ Step(c, "join", "done")
            /\ UNCHANGED <<saying, before>>
  /\ UNCHANGED <<muted, mutex, started, counter, number, waiting, workerVars, windowVars>>

-----------------------------------------------------------------------------
(* The listener thread of a windowed call. *)

Listen(c) ==
  /\ listener[c] = "waiting" /\ c \in event
  /\ listener' = [listener EXCEPT ![c] = "listening"]
  /\ UNCHANGED <<callerVars, waiting, workerVars, event>>

(* listen_for_cancel, which always returns: see module CancelWindow. *)
Answered(c) ==
  /\ listener[c] = "listening"
  /\ \E a \in {"answered", "unavailable"} : listener' = [listener EXCEPT ![c] = a]
  /\ UNCHANGED <<callerVars, waiting, workerVars, event>>

-----------------------------------------------------------------------------
(* The worker thread that call w started: _worker_loop. *)

(* Mutant: the tie is not broken by the sequence number. *)
Get_NoTieBreak(w) ==
  /\ worker[w] = "get"
  /\ \E u \in waiting[Home[w]] :
       /\ \A v \in waiting[Home[w]] : Rank(u) <= Rank(v)
       /\ waiting' = [waiting EXCEPT ![Home[w]] = @ \ {u}]
       /\ work' = [work EXCEPT ![w] = {u}]
  /\ worker' = [worker EXCEPT ![w] = "log"]
  /\ UNCHANGED <<callerVars, logged, faults, windowVars>>

(* Mutant: the caller is woken before the log is written. *)
Get_SignalFirst(w) ==
  /\ worker[w] = "get"
  /\ \E u \in First(waiting[Home[w]]) :
       /\ waiting' = [waiting EXCEPT ![Home[w]] = @ \ {u}]
       /\ work' = [work EXCEPT ![w] = {u}]
       /\ event' = event \cup {c \in Windowed : <<c, "text">> = u}
  /\ worker' = [worker EXCEPT ![w] = "log"]
  /\ UNCHANGED <<callerVars, logged, faults, listener>>

Get(w) ==
  /\ worker[w] = "get"
  /\ \E u \in First(waiting[Home[w]]) :
       /\ waiting' = [waiting EXCEPT ![Home[w]] = @ \ {u}]
       /\ work' = [work EXCEPT ![w] = {u}]
  /\ worker' = [worker EXCEPT ![w] = "log"]
  /\ UNCHANGED <<callerVars, logged, faults, windowVars>>

Log(w) ==
  /\ worker[w] = "log"
  /\ logged' = logged \cup work[w]
  /\ worker' = [worker EXCEPT ![w] = "signal"]
  /\ UNCHANGED <<callerVars, waiting, work, faults, windowVars>>

(* _log_say raises: the item is given up, unsignalled and unspoken. *)
LogFails(w) ==
  /\ worker[w] = "log" /\ faults < MaxFaults
  /\ faults' = faults + 1
  /\ worker' = [worker EXCEPT ![w] = "get"]
  /\ work' = [work EXCEPT ![w] = {}]
  /\ UNCHANGED <<callerVars, waiting, logged, windowVars>>

Signals(w) == {c \in Windowed : <<c, "text">> \in work[w]}

Signal_NotMuted(w) ==
  /\ worker[w] = "signal"
  /\ event' = IF Home[w] \in muted THEN event ELSE event \cup Signals(w)
  /\ worker' = [worker EXCEPT ![w] = IF Home[w] \in muted THEN "get" ELSE "play"]
  /\ work' = [work EXCEPT ![w] = IF Home[w] \in muted THEN {} ELSE @]
  /\ UNCHANGED <<callerVars, waiting, logged, faults, listener>>

(* on_start, then straight to the next item if the process is muted. *)
Signal(w) ==
  /\ worker[w] = "signal"
  /\ event' = event \cup Signals(w)
  /\ worker' = [worker EXCEPT ![w] = IF Home[w] \in muted THEN "get" ELSE "play"]
  /\ work' = [work EXCEPT ![w] = IF Home[w] \in muted THEN {} ELSE @]
  /\ UNCHANGED <<callerVars, waiting, logged, faults, listener>>

(* _speak_now returns, played or raised; either way the loop goes on. *)
Played(w) ==
  /\ worker[w] = "play"
  /\ worker' = [worker EXCEPT ![w] = "get"]
  /\ work' = [work EXCEPT ![w] = {}]
  /\ UNCHANGED <<callerVars, waiting, logged, faults, windowVars>>

-----------------------------------------------------------------------------

SpeechInit ==
  /\ muted \in SUBSET Procs
  /\ pc = [c \in Calls |-> "new"]
  /\ saying = [c \in Calls |-> "text"]
  /\ mutex = [c \in Calls |-> FALSE]
  /\ started = [p \in Procs |-> FALSE]
  /\ counter = [p \in Procs |-> 0]
  /\ number = [u \in Utterances |-> 0]
  /\ waiting = [p \in Procs |-> {}]
  /\ worker = [c \in Calls |-> "none"]
  /\ work = [c \in Calls |-> {}]
  /\ event = {}
  /\ listener = [c \in Calls |-> "none"]
  /\ logged = {}
  /\ before = [u \in Utterances |-> {}]
  /\ faults = 0

Caller(c) ==
  Ensure(c) \/ Lock(c) \/ StartWorker(c) \/ Number(c) \/ Put(c) \/ Joined(c)

Listener(c) == Listen(c) \/ Answered(c)

Worker(w) == Get(w) \/ Log(w) \/ Signal(w) \/ Played(w)

SpeechNext == \E c \in Calls : \/ Call(c) \/ Caller(c) \/ Listener(c)
                         \/ Worker(c) \/ LogFails(c)

SpeechSpec == SpeechInit /\ [][SpeechNext]_speechVars

(* Threads run; an utterance ends, its player being a subprocess that exits. *)
SpeechFairness == \A c \in Calls : WF_speechVars(Caller(c)) /\ WF_speechVars(Listener(c)) /\ WF_speechVars(Worker(c))

SpeechFairSpec == SpeechSpec /\ SpeechFairness

-----------------------------------------------------------------------------
(* Properties *)

SpeechTypeOK ==
  /\ muted \subseteq Procs
  /\ pc \in [Calls -> {"new", "ensure", "lock", "locked", "number", "put", "join", "done"}]
  /\ saying \in [Calls -> Kinds]
  /\ mutex \in [Calls -> BOOLEAN]
  /\ started \in [Procs -> BOOLEAN]
  /\ counter \in [Procs -> Nat]
  /\ number \in [Utterances -> Nat]
  /\ waiting \in [Procs -> SUBSET Utterances]
  /\ worker \in [Calls -> {"none", "get", "log", "signal", "play"}]
  /\ work \in [Calls -> SUBSET Utterances]
  /\ event \subseteq Windowed
  /\ listener \in [Calls -> {"none", "waiting", "listening", "answered", "unavailable"}]
  /\ logged \subseteq Utterances
  /\ before \in [Utterances -> SUBSET Utterances]
  /\ faults \in 0..MaxFaults

(* Within a process two utterances are never under way at once, however     *)
(* many threads make the process's first call together.                     *)
OneAtATime ==
  \A w, x \in Calls : Home[w] = Home[x] /\ work[w] # {} /\ work[x] # {} => w = x

(* Taken from the queue, whether or not it is over yet. *)
Taken(u) == number[u] > 0 /\ u \in Submitted(At(u)) /\ u \notin waiting[At(u)]

(* An utterance put into the queue before another's speak began is not      *)
(* overtaken by it unless the other outranks it.                            *)
NoOvertaking ==
  \A v \in Utterances : Taken(v) =>
    \A u \in before[v] : Rank(u) <= Rank(v) => Taken(u)

(* The cancel window opens only once its own text is in the log and at the  *)
(* front of the queue, never while he could not yet have heard it.          *)
WindowFollowsSpeech ==
  \A c \in Windowed : listener[c] \notin {"none", "waiting"} => <<c, "text">> \in logged

(* Muted or not, a confirm_plan that is spoken comes back, "the instant     *)
(* this item is dequeued" having started its listener (say_feedback.py:297),*)
(* and a window that was not real is announced, as long as no append to     *)
(* say_log.jsonl fails.                                                     *)
ConfirmReturns == \A c \in Windowed :
  /\ pc[c] # "new" ~> pc[c] = "done" \/ faults > 0
  /\ listener[c] = "unavailable" ~> <<c, "warning">> \in logged \/ faults > 0

=============================================================================
