----------------------------- MODULE VoiceProofs -----------------------------
(***************************************************************************)
(* Theorems about what jarvis says and what it hears.                      *)
(*                                                                         *)
(* What it says, SpeechQueue, for any processes, calls, priorities and     *)
(* failed appends: SpeechTypeOK, OneAtATime, WindowFollowsSpeech,          *)
(* NoOvertaking.                                                           *)
(*                                                                         *)
(* The cancel window, CancelWindow, for any window, any number of rounds   *)
(* of one heedful router, and any dictations, stalls and crashes:          *)
(* CancelHonoured and WindowsAreMeant.                                     *)
(*                                                                         *)
(* A dictation, Dictation, for any thresholds in the order the code has    *)
(* them and any sounds: DictationTypeOK, NothingLost, PhrasesCount and     *)
(* EndsOnTime, by one inductive invariant, DictationInv.                   *)
(***************************************************************************)
EXTENDS SpeechQueue, CancelWindow, Dictation, FiniteSetTheorems, SequenceTheorems, TLAPS

-----------------------------------------------------------------------------
(* The speech queue *)

LEMMA SpeechTypesKept ==
  ASSUME SpeechTypeOK, [SpeechNext]_speechVars
  PROVE  SpeechTypeOK'
<1> USE SpeechAssumption
        DEF SpeechTypeOK, Step, callerVars, workerVars, windowVars, Current, Utterances, Kinds
<1>1. ASSUME NEW c \in Calls, Call(c) PROVE SpeechTypeOK'
  BY <1>1 DEF Call, Submitted
<1>2. ASSUME NEW c \in Calls, Caller(c) PROVE SpeechTypeOK'
  <2>1. CASE Ensure(c)
    BY <2>1 DEF Ensure
  <2>2. CASE Lock(c)
    BY <2>2 DEF Lock
  <2>3. CASE StartWorker(c)
    BY <2>3 DEF StartWorker
  <2>4. CASE Number(c)
    BY <2>4 DEF Number
  <2>5. CASE Put(c)
    BY <2>5 DEF Put
  <2>6. CASE Joined(c)
    <3>1. CASE listener[c] = "unavailable"
      <4>1. Submitted(Home[c]) \in SUBSET Utterances /\ <<c, "warning">> \in Utterances
        BY DEF Submitted
      <4>2. /\ Step(c, "join", "ensure")
            /\ saying' = [saying EXCEPT ![c] = "warning"]
            /\ before' = [before EXCEPT ![<<c, "warning">>] = Submitted(Home[c])]
            /\ UNCHANGED <<muted, mutex, started, counter, number, waiting, workerVars, windowVars>>
        BY <2>6, <3>1 DEF Joined
      <4>3. before' \in [Utterances -> SUBSET Utterances]
        BY <4>1, <4>2
      <4> QED BY <4>2, <4>3
    <3>2. CASE listener[c] # "unavailable"
      BY <2>6, <3>2 DEF Joined
    <3> QED BY <3>1, <3>2
  <2> QED BY <1>2, <2>1, <2>2, <2>3, <2>4, <2>5, <2>6 DEF Caller
<1>3. ASSUME NEW c \in Calls, Listener(c) PROVE SpeechTypeOK'
  <2>1. CASE Listen(c)
    BY <2>1 DEF Listen
  <2>2. CASE Answered(c)
    BY <2>2 DEF Answered
  <2> QED BY <1>3, <2>1, <2>2 DEF Listener
<1>4. ASSUME NEW w \in Calls, Worker(w) PROVE SpeechTypeOK'
  <2>1. CASE Get(w)
    BY <2>1 DEF Get, First
  <2>2. CASE Log(w)
    BY <2>2 DEF Log
  <2>3. CASE Signal(w)
    BY <2>3 DEF Signal, Signals
  <2>4. CASE Played(w)
    BY <2>4 DEF Played
  <2> QED BY <1>4, <2>1, <2>2, <2>3, <2>4 DEF Worker
<1>5. ASSUME NEW w \in Calls, LogFails(w) PROVE SpeechTypeOK'
  BY <1>5 DEF LogFails
<1>6. CASE UNCHANGED speechVars
  BY <1>6 DEF speechVars
<1> QED BY <1>1, <1>2, <1>3, <1>4, <1>5, <1>6 DEF SpeechNext

LEMMA TypesStart == SpeechInit => SpeechTypeOK
BY SpeechAssumption DEF SpeechInit, SpeechTypeOK, Utterances, Kinds

(* Every variable keeps its type, for any calls in any processes. *)
THEOREM SpeechTypeCorrect == SpeechSpec => []SpeechTypeOK
BY TypesStart, SpeechTypesKept, PTL DEF SpeechSpec

-----------------------------------------------------------------------------
(* One worker thread to a process. *)

(* A process whose worker runs is marked started, has one worker only, and *)
(* only a worker has an utterance under way.                               *)
WorkerInv ==
  /\ \A w \in Calls : worker[w] # "none" => started[Home[w]]
  /\ \A w, x \in Calls :
       Home[w] = Home[x] /\ worker[w] # "none" /\ worker[x] # "none" => w = x
  /\ \A w \in Calls : work[w] # {} => worker[w] # "none"

LEMMA WorkersKept ==
  ASSUME SpeechTypeOK, WorkerInv, [SpeechNext]_speechVars
  PROVE  WorkerInv'
<1> USE SpeechAssumption DEF SpeechTypeOK, WorkerInv, Step, callerVars, workerVars, windowVars
<1>1. ASSUME NEW c \in Calls, Call(c) PROVE WorkerInv'
  BY <1>1 DEF Call
<1>2. ASSUME NEW c \in Calls, StartWorker(c) PROVE WorkerInv'
  BY <1>2 DEF StartWorker
<1>3. ASSUME NEW c \in Calls, Caller(c), ~StartWorker(c) PROVE WorkerInv'
  BY <1>3 DEF Caller, Ensure, Lock, Number, Put, Joined
<1>4. ASSUME NEW c \in Calls, Listener(c) PROVE WorkerInv'
  BY <1>4 DEF Listener, Listen, Answered
<1>5. ASSUME NEW w \in Calls, Worker(w) \/ LogFails(w) PROVE WorkerInv'
  <2>1. started' = started /\ \A x \in Calls : worker'[x] # "none" <=> worker[x] # "none"
    BY <1>5 DEF Worker, Get, Log, LogFails, Signal, Played
  <2>2. \A x \in Calls : work'[x] # {} => work[x] # {} \/ (x = w /\ worker[w] # "none")
    BY <1>5 DEF Worker, Get, Log, LogFails, Signal, Played
  <2> QED BY <2>1, <2>2
<1>6. CASE UNCHANGED speechVars
  BY <1>6 DEF speechVars
<1> QED BY <1>1, <1>2, <1>3, <1>4, <1>5, <1>6 DEF SpeechNext

(* However many threads make a process's first call together, two of its   *)
(* utterances are never under way at once: say_feedback.py's double look   *)
(* at _worker_started.                                                     *)
THEOREM OneVoice == SpeechSpec => []OneAtATime
<1>1. SpeechInit => SpeechTypeOK /\ WorkerInv
  <2>1. SpeechInit => /\ \A w \in Calls : worker[w] = "none"
                /\ \A w \in Calls : work[w] = {}
    BY DEF SpeechInit
  <2>2. SpeechInit => WorkerInv
    BY <2>1, Zenon DEF WorkerInv
  <2> QED BY <2>2, TypesStart
<1>2. (SpeechTypeOK /\ WorkerInv) /\ [SpeechNext]_speechVars => (SpeechTypeOK /\ WorkerInv)'
  BY SpeechTypesKept, WorkersKept
<1>3. SpeechTypeOK /\ WorkerInv => OneAtATime
  BY DEF WorkerInv, OneAtATime
<1> QED BY <1>1, <1>2, <1>3, PTL DEF SpeechSpec

-----------------------------------------------------------------------------
(* The window and the log. *)

(* What a worker is about to signal is in the log, what has been signalled *)
(* is, and a listener that listens was signalled.                          *)
SpokenInv ==
  /\ \A w \in Calls : worker[w] = "signal" => work[w] \subseteq logged
  /\ \A c \in event : <<c, "text">> \in logged
  /\ \A c \in Calls : listener[c] \notin {"none", "waiting"} => c \in event

LEMMA WindowsKept ==
  ASSUME SpeechTypeOK, SpokenInv, [SpeechNext]_speechVars
  PROVE  SpokenInv'
<1> USE SpeechAssumption DEF SpeechTypeOK, SpokenInv, Step, callerVars, workerVars, windowVars
<1>1. ASSUME NEW c \in Calls, Call(c) PROVE SpokenInv'
  BY <1>1 DEF Call
<1>2. ASSUME NEW c \in Calls, Caller(c) PROVE SpokenInv'
  BY <1>2 DEF Caller, Ensure, Lock, Number, Put, Joined, StartWorker
<1>4. ASSUME NEW c \in Calls, Listener(c) PROVE SpokenInv'
  BY <1>4 DEF Listener, Listen, Answered
<1>5. ASSUME NEW w \in Calls, Worker(w) \/ LogFails(w) PROVE SpokenInv'
  <2>1. CASE Get(w)
    BY <2>1 DEF Get
  <2>2. CASE Log(w)
    BY <2>2 DEF Log
  <2>3. CASE Signal(w)
    BY <2>3 DEF Signal, Signals
  <2>4. CASE Played(w) \/ LogFails(w)
    BY <2>4 DEF Played, LogFails
  <2> QED BY <1>5, <2>1, <2>2, <2>3, <2>4 DEF Worker
<1>6. CASE UNCHANGED speechVars
  BY <1>6 DEF speechVars
<1> QED BY <1>1, <1>2, <1>4, <1>5, <1>6 DEF SpeechNext

(* The cancel window of a text opens only once that text is in             *)
(* say_log.jsonl, whatever else is queued and whichever appends fail.      *)
THEOREM WindowNotEarly == SpeechSpec => []WindowFollowsSpeech
<1>1. SpeechInit => SpeechTypeOK /\ SpokenInv
  <2>1. SpeechInit => SpokenInv
    BY DEF SpeechInit, SpokenInv
  <2> QED BY <2>1, TypesStart
<1>2. (SpeechTypeOK /\ SpokenInv) /\ [SpeechNext]_speechVars => (SpeechTypeOK /\ SpokenInv)'
  BY SpeechTypesKept, WindowsKept
<1>3. SpeechTypeOK /\ SpokenInv => WindowFollowsSpeech
  BY SpeechAssumption DEF SpeechTypeOK, SpokenInv, WindowFollowsSpeech
<1> QED BY <1>1, <1>2, <1>3, PTL DEF SpeechSpec

-----------------------------------------------------------------------------
(* The order of the queue. *)

(* An utterance has no number before its put begins. *)
FreshInv ==
  /\ \A c \in Calls : pc[c] \in {"new", "ensure", "lock", "locked", "number"}
                       => number[Current(c)] = 0
  /\ \A c \in Calls : saying[c] = "text" => number[<<c, "warning">>] = 0
  /\ \A c \in Calls : pc[c] = "join" => saying[c] = "text"

(* Numbers grow with the counter, so what was put before v was begun has a *)
(* smaller number than v, when v has one.                                  *)
NumberInv ==
  /\ \A u \in Utterances : number[u] <= counter[At(u)]
  /\ \A v \in Utterances : \A u \in before[v] :
       /\ At(u) = At(v) /\ u \in Submitted(At(v))
       /\ number[v] > 0 => number[u] < number[v]

SpeechInv == \A p \in Procs : waiting[p] \subseteq Submitted(p)

OrderInv == FreshInv /\ NumberInv /\ SpeechInv /\ NoOvertaking

LEMMA SubmittedSame ==
  ASSUME SpeechTypeOK, number' = number, saying' = saying,
         \A c \in Calls : pc'[c] = "put" <=> pc[c] = "put"
  PROVE  \A p \in Procs : Submitted(p)' = Submitted(p)
BY SpeechAssumption DEF SpeechTypeOK, Submitted, Of, At, Utterances, Current

(* A step that numbers, puts and takes nothing disturbs no order. *)
LEMMA QuietStep ==
  ASSUME SpeechTypeOK, OrderInv, number' = number, counter' = counter, waiting' = waiting,
         before' = before, \A p \in Procs : Submitted(p)' = Submitted(p)
  PROVE  NumberInv' /\ SpeechInv' /\ NoOvertaking'
<1> USE SpeechAssumption DEF SpeechTypeOK, OrderInv
<1>1. \A u \in Utterances : At(u) \in Procs /\ before[u] \subseteq Utterances
  BY DEF At, Of, Utterances
<1>2. NumberInv'
  BY <1>1, Zenon DEF NumberInv, At
<1>3. SpeechInv'
  BY Zenon DEF SpeechInv
<1>4. \A u \in Utterances : Taken(u)' <=> Taken(u)
  BY <1>1, Zenon DEF Taken, At
<1>5. NoOvertaking'
  BY <1>1, <1>4, Zenon DEF NoOvertaking, Rank
<1> QED BY <1>2, <1>3, <1>5

(* As a call begins to speak v, what is in its queue is put before v. *)
LEMMA BeginStep ==
  ASSUME SpeechTypeOK, OrderInv, NEW v \in Utterances, number[v] = 0,
         number' = number, counter' = counter, waiting' = waiting,
         before' = [before EXCEPT ![v] = Submitted(At(v))],
         \A p \in Procs : Submitted(p)' = Submitted(p)
  PROVE  NumberInv' /\ SpeechInv' /\ NoOvertaking'
<1> USE SpeechAssumption DEF SpeechTypeOK, OrderInv
<1>1. \A u \in Utterances : At(u) \in Procs /\ before[u] \subseteq Utterances
  BY DEF At, Of, Utterances
<1>2. \A u \in Submitted(At(v)) : u \in Utterances /\ At(u) = At(v)
  BY DEF Submitted
<1>3. NumberInv'
  <2>1. \A u \in Utterances : number'[u] <= counter'[At(u)]
    BY DEF NumberInv
  <2>2. ASSUME NEW w \in Utterances, NEW u \in before'[w]
        PROVE  /\ At(u) = At(w) /\ u \in Submitted(At(w))'
               /\ number'[w] > 0 => number'[u] < number'[w]
    <3>1. CASE w = v
      BY <1>1, <1>2, <2>2, <3>1
    <3>2. CASE w # v
      BY <1>1, <2>2, <3>2 DEF NumberInv
    <3> QED BY <3>1, <3>2
  <2> QED BY <2>1, <2>2 DEF NumberInv, At
<1>4. SpeechInv'
  BY Zenon DEF SpeechInv
<1>5. \A u \in Utterances : Taken(u)' <=> Taken(u)
  BY <1>1, Zenon DEF Taken, At
<1>6. ~Taken(v)
  BY DEF Taken
<1>7. \A w \in Utterances : w # v => before'[w] = before[w]
  OBVIOUS
<1>8. NoOvertaking'
  BY <1>1, <1>5, <1>6, <1>7, Zenon DEF NoOvertaking, Rank
<1> QED BY <1>3, <1>4, <1>8

LEMMA NumberStep ==
  ASSUME SpeechTypeOK, OrderInv, NEW c \in Calls, Number(c)
  PROVE  NumberInv' /\ SpeechInv' /\ NoOvertaking'
<1> USE SpeechAssumption DEF SpeechTypeOK, OrderInv
<1> DEFINE n == Current(c)
<1>1. /\ \A u \in Utterances : At(u) \in Procs /\ before[u] \subseteq Utterances
      /\ n \in Utterances /\ At(n) = Home[c]
  BY DEF At, Of, Utterances, Current
<1>2. number[n] = 0
  BY DEF Number, Step, FreshInv
<1>3. /\ number' = [number EXCEPT ![n] = counter[Home[c]] + 1]
      /\ counter' = [counter EXCEPT ![Home[c]] = @ + 1]
      /\ before' = before /\ waiting' = waiting /\ saying' = saying
      /\ pc[c] = "number" /\ pc' = [pc EXCEPT ![c] = "put"]
  BY DEF Number, Step, callerVars
<1>4. \A p \in Procs : Submitted(p)' = Submitted(p) /\ n \notin Submitted(p)
  <2>1. \A p \in Procs : n \notin Submitted(p) /\ n \notin Submitted(p)'
    <3>1. Of(n) = c /\ Current(c)' = n /\ pc'[c] = "put"
      BY <1>3 DEF Of, Current
    <3> QED BY <1>2, <3>1 DEF Submitted
  <2>2. ASSUME NEW u \in Utterances, u # n
        PROVE  /\ number'[u] = number[u] /\ Current(Of(u))' = Current(Of(u))
               /\ (pc'[Of(u)] = "put" /\ u = Current(Of(u))) <=>
                    (pc[Of(u)] = "put" /\ u = Current(Of(u)))
    <3>1. number'[u] = number[u] /\ Current(Of(u))' = Current(Of(u)) /\ Of(u) \in Calls
      BY <1>1, <1>3, <2>2 DEF Current, Of, Utterances
    <3>2. CASE Of(u) = c
      BY <2>2, <3>1, <3>2
    <3>3. CASE Of(u) # c
      BY <1>3, <3>1, <3>3
    <3> QED BY <3>1, <3>2, <3>3
  <2>3. ASSUME NEW p \in Procs PROVE Submitted(p)' = Submitted(p)
    BY <2>1, <2>2 DEF Submitted, At
  <2> QED BY <2>1, <2>3
<1> HIDE DEF n
<1>5. NumberInv'
  <2>1. \A u \in Utterances : number'[u] <= counter'[At(u)]
    BY <1>1, <1>3 DEF NumberInv
  <2>2. ASSUME NEW w \in Utterances, NEW u \in before'[w]
        PROVE  /\ At(u) = At(w) /\ u \in Submitted(At(w))'
               /\ number'[w] > 0 => number'[u] < number'[w]
    <3>1. /\ At(u) = At(w) /\ u \in Submitted(At(w)) /\ u \in Utterances
          /\ number[w] > 0 => number[u] < number[w]
          /\ number[u] <= counter[At(u)]
      BY <1>1, <1>3, <2>2 DEF NumberInv
    <3>2. u # n /\ number'[u] = number[u]
      BY <1>1, <1>3, <1>4, <3>1
    <3>3. CASE w = n
      BY <1>1, <1>3, <1>4, <3>1, <3>2, <3>3
    <3>4. CASE w # n
      BY <1>1, <1>3, <1>4, <3>1, <3>2, <3>4
    <3> QED BY <3>3, <3>4
  <2> QED BY <2>1, <2>2 DEF NumberInv, At
<1>6. SpeechInv'
  <2>1. SpeechInv
    BY DEF OrderInv
  <2> QED BY ONLY <1>3, <1>4, <2>1 DEF SpeechInv
<1>7. \A u \in Utterances : Taken(u)' <=> Taken(u)
  BY <1>1, <1>3, <1>4 DEF Taken, At
<1>8. NoOvertaking'
  BY <1>1, <1>3, <1>7, Zenon DEF NoOvertaking, Rank
<1> QED BY <1>5, <1>6, <1>8

LEMMA PutStep ==
  ASSUME SpeechTypeOK, OrderInv, NEW c \in Calls, Put(c), number[Current(c)] > 0
  PROVE  NumberInv' /\ SpeechInv' /\ NoOvertaking'
<1> USE SpeechAssumption DEF SpeechTypeOK, OrderInv
<1> DEFINE n == Current(c)
<1>1. /\ \A u \in Utterances : At(u) \in Procs /\ before[u] \subseteq Utterances
      /\ n \in Utterances /\ At(n) = Home[c]
  BY DEF At, Of, Utterances, Current
<1>2. /\ number' = number /\ counter' = counter /\ before' = before /\ saying' = saying
      /\ waiting' = [waiting EXCEPT ![Home[c]] = @ \cup {n}]
      /\ pc[c] = "put" /\ pc'[c] # "put" /\ \A d \in Calls : d # c => pc'[d] = pc[d]
  BY DEF Put, Step, callerVars
<1>3. \A p \in Procs : Submitted(p)' = Submitted(p) \cup (IF p = Home[c] THEN {n} ELSE {})
  <2>1. \A p \in Procs : n \in Submitted(p)' <=> p = Home[c]
    <3>1. Of(n) = c /\ number'[n] > 0 /\ pc'[c] # "put"
      BY <1>2 DEF Of, Current
    <3> QED BY <1>1, <3>1 DEF Submitted, At
  <2>2. ASSUME NEW u \in Utterances, u # n
        PROVE  /\ number'[u] = number[u] /\ Current(Of(u))' = Current(Of(u))
               /\ (pc'[Of(u)] = "put" /\ u = Current(Of(u))) <=>
                    (pc[Of(u)] = "put" /\ u = Current(Of(u)))
    <3>1. number'[u] = number[u] /\ Current(Of(u))' = Current(Of(u)) /\ Of(u) \in Calls
      BY <1>1, <1>2 DEF Current, Of, Utterances
    <3>2. CASE Of(u) = c
      BY <2>2, <3>1, <3>2
    <3>3. CASE Of(u) # c
      BY <1>2, <3>1, <3>3
    <3> QED BY <3>1, <3>2, <3>3
  <2>3. ASSUME NEW p \in Procs, NEW u \in Utterances, u # n
        PROVE  u \in Submitted(p)' <=> u \in Submitted(p)
    BY <2>2, <2>3 DEF Submitted, At
  <2>4. \A p \in Procs : Submitted(p) \subseteq Utterances /\ Submitted(p)' \subseteq Utterances
    BY DEF Submitted
  <2>5. \A p \in Procs : n \in Submitted(p) => p = Home[c]
    BY <1>1 DEF Submitted
  <2> HIDE DEF n
  <2> QED BY ONLY <1>1, <2>1, <2>3, <2>4, <2>5
<1>4. \A p \in Procs : n \notin Submitted(p)
  BY <1>2 DEF Submitted, Of, Current
<1> HIDE DEF n
<1>5. NumberInv'
  BY <1>1, <1>2, <1>3 DEF NumberInv, At
<1>6. SpeechInv'
  BY <1>1, <1>2, <1>3 DEF SpeechInv
<1>7. \A u \in Utterances : Taken(u)' <=> Taken(u)
  BY <1>1, <1>2, <1>3, <1>4 DEF Taken, At
<1>8. NoOvertaking'
  BY <1>1, <1>2, <1>7, Zenon DEF NoOvertaking, Rank
<1> QED BY <1>5, <1>6, <1>8

LEMMA GetStep ==
  ASSUME SpeechTypeOK, OrderInv, NEW w \in Calls, Get(w)
  PROVE  NumberInv' /\ SpeechInv' /\ NoOvertaking'
<1> USE SpeechAssumption DEF SpeechTypeOK, OrderInv
<1>1. \A u \in Utterances : At(u) \in Procs /\ before[u] \subseteq Utterances
  BY DEF At, Of, Utterances
<1>2. /\ number' = number /\ counter' = counter /\ before' = before /\ saying' = saying
      /\ pc' = pc
  BY DEF Get, callerVars
<1>3. \A p \in Procs : Submitted(p)' = Submitted(p)
  BY <1>2, SubmittedSame
<1>4. PICK t \in First(waiting[Home[w]]) :
        waiting' = [waiting EXCEPT ![Home[w]] = @ \ {t}]
  BY DEF Get
<1>5. /\ t \in waiting[Home[w]] /\ t \in Utterances /\ t \in Submitted(Home[w])
      /\ At(t) = Home[w] /\ number[t] > 0 /\ Home[w] \in Procs
  BY <1>4 DEF First, SpeechInv, Submitted
<1>6. NumberInv'
  BY <1>1, <1>2, <1>3, Zenon DEF NumberInv, At
<1>7. SpeechInv'
  BY <1>3, <1>4 DEF SpeechInv
<1>8. \A u \in Utterances : Taken(u)' <=> Taken(u) \/ u = t
  BY <1>1, <1>2, <1>3, <1>4, <1>5 DEF Taken, At
<1>9. ASSUME NEW u \in before[t], Rank(u) <= Rank(t) PROVE Taken(u)
  <2>1. /\ u \in Utterances /\ At(u) = At(t) /\ u \in Submitted(At(t))
        /\ number[u] < number[t] /\ number[u] > 0
    BY <1>1, <1>5, <1>9 DEF NumberInv, Submitted
  <2>2. Rank(u) \in Nat /\ Rank(t) \in Nat
    BY <1>5, <2>1 DEF Rank, Of, Utterances, HIGH, NORMAL
  <2>3. u \notin waiting[Home[w]]
    BY <1>4, <1>5, <1>9, <2>1, <2>2 DEF First, Precedes
  <2> QED BY <1>5, <2>1, <2>3 DEF Taken
<1>10. NoOvertaking'
  BY <1>1, <1>2, <1>8, <1>9, Zenon DEF NoOvertaking, Rank
<1> QED BY <1>6, <1>7, <1>10

LEMMA FreshKept ==
  ASSUME SpeechTypeOK, FreshInv, [SpeechNext]_speechVars
  PROVE  FreshInv'
<1> USE SpeechAssumption
        DEF SpeechTypeOK, FreshInv, Step, callerVars, workerVars, windowVars, Current, Utterances, Kinds
<1>1. ASSUME NEW c \in Calls, Call(c) PROVE FreshInv'
  BY <1>1 DEF Call
<1>2. ASSUME NEW c \in Calls, Caller(c) PROVE FreshInv'
  <2>1. CASE Ensure(c)
    BY <2>1 DEF Ensure
  <2>2. CASE Lock(c)
    BY <2>2 DEF Lock
  <2>3. CASE StartWorker(c)
    BY <2>3 DEF StartWorker
  <2>4. CASE Number(c)
    BY <2>4 DEF Number
  <2>5. CASE Put(c)
    BY <2>5 DEF Put
  <2>6. CASE Joined(c)
    <3>1. CASE listener[c] = "unavailable"
      <4>1. /\ number' = number /\ pc[c] = "join" /\ pc' = [pc EXCEPT ![c] = "ensure"]
            /\ saying' = [saying EXCEPT ![c] = "warning"]
        BY <2>6, <3>1 DEF Joined
      <4> QED BY <4>1
    <3>2. CASE listener[c] # "unavailable"
      BY <2>6, <3>2 DEF Joined
    <3> QED BY <3>1, <3>2
  <2> QED BY <1>2, <2>1, <2>2, <2>3, <2>4, <2>5, <2>6 DEF Caller
<1>3. ASSUME NEW c \in Calls, Listener(c) \/ Worker(c) \/ LogFails(c) PROVE FreshInv'
  BY <1>3 DEF Listener, Listen, Answered, Worker, Get, Log, Signal, Played, LogFails
<1>4. CASE UNCHANGED speechVars
  BY <1>4 DEF speechVars
<1> QED BY <1>1, <1>2, <1>3, <1>4 DEF SpeechNext

(* A call between numbering and putting holds the number it drew. *)
PutInv == \A c \in Calls : pc[c] = "put" => number[Current(c)] > 0

LEMMA PutKept ==
  ASSUME SpeechTypeOK, PutInv, [SpeechNext]_speechVars
  PROVE  PutInv'
<1> USE SpeechAssumption
        DEF SpeechTypeOK, PutInv, Step, callerVars, workerVars, windowVars, Current, Utterances, Kinds
<1>1. ASSUME NEW c \in Calls, Call(c) PROVE PutInv'
  BY <1>1 DEF Call
<1>2. ASSUME NEW c \in Calls, Caller(c) PROVE PutInv'
  <2>1. CASE Number(c)
    BY <2>1 DEF Number
  <2>2. CASE ~Number(c)
    BY <1>2, <2>2 DEF Caller, Ensure, Lock, StartWorker, Put, Joined
  <2> QED BY <2>1, <2>2
<1>3. ASSUME NEW c \in Calls, Listener(c) \/ Worker(c) \/ LogFails(c) PROVE PutInv'
  BY <1>3 DEF Listener, Listen, Answered, Worker, Get, Log, Signal, Played, LogFails
<1>4. CASE UNCHANGED speechVars
  BY <1>4 DEF speechVars
<1> QED BY <1>1, <1>2, <1>3, <1>4 DEF SpeechNext

LEMMA OrderKept ==
  ASSUME SpeechTypeOK, OrderInv, PutInv, [SpeechNext]_speechVars
  PROVE  OrderInv'
<1> USE SpeechAssumption DEF SpeechTypeOK, Step, callerVars, workerVars, windowVars
<1>1. FreshInv'
  BY FreshKept DEF OrderInv
<1> SUFFICES NumberInv' /\ SpeechInv' /\ NoOvertaking'
  BY <1>1 DEF OrderInv
<1>2. ASSUME NEW c \in Calls, Call(c) PROVE NumberInv' /\ SpeechInv' /\ NoOvertaking'
  <2>1. Current(c) \in Utterances /\ At(Current(c)) = Home[c]
    BY DEF Current, Utterances, At, Of
  <2>2. number[Current(c)] = 0
    BY <1>2 DEF Call, OrderInv, FreshInv
  <2>3. \A d \in Calls : pc'[d] = "put" <=> pc[d] = "put"
    BY <1>2 DEF Call
  <2>4. /\ number' = number /\ counter' = counter /\ waiting' = waiting /\ saying' = saying
        /\ before' = [before EXCEPT ![Current(c)] = Submitted(At(Current(c)))]
    BY <1>2, <2>1 DEF Call
  <2>5. \A p \in Procs : Submitted(p)' = Submitted(p)
    BY <2>3, <2>4, SubmittedSame
  <2> QED BY <2>1, <2>2, <2>4, <2>5, BeginStep
<1>3. ASSUME NEW c \in Calls, Ensure(c) \/ Lock(c) \/ StartWorker(c)
      PROVE  NumberInv' /\ SpeechInv' /\ NoOvertaking'
  <2>1. /\ number' = number /\ counter' = counter /\ waiting' = waiting
        /\ before' = before /\ saying' = saying
        /\ \A d \in Calls : pc'[d] = "put" <=> pc[d] = "put"
    BY <1>3 DEF Ensure, Lock, StartWorker
  <2> QED BY <2>1, SubmittedSame, QuietStep
<1>4. ASSUME NEW c \in Calls, Joined(c) PROVE NumberInv' /\ SpeechInv' /\ NoOvertaking'
  <2>1. CASE listener[c] = "unavailable"
    <3> DEFINE v == <<c, "warning">>
    <3>1. /\ number' = number /\ counter' = counter /\ waiting' = waiting
          /\ before' = [before EXCEPT ![v] = Submitted(Home[c])]
          /\ pc[c] = "join" /\ pc' = [pc EXCEPT ![c] = "ensure"]
          /\ saying' = [saying EXCEPT ![c] = "warning"]
      BY <1>4, <2>1 DEF Joined
    <3>2. v \in Utterances /\ At(v) = Home[c]
      BY DEF Utterances, Kinds, At, Of
    <3>3. number[v] = 0
      BY <3>1 DEF OrderInv, FreshInv
    <3>4. \A p \in Procs : Submitted(p)' = Submitted(p)
      BY <3>1 DEF Submitted, Of, At, Utterances, Current
    <3> HIDE DEF v
    <3> QED BY <3>1, <3>2, <3>3, <3>4, BeginStep
  <2>2. CASE listener[c] # "unavailable"
    <3>1. /\ number' = number /\ counter' = counter /\ waiting' = waiting
          /\ before' = before /\ saying' = saying
          /\ \A d \in Calls : pc'[d] = "put" <=> pc[d] = "put"
      BY <1>4, <2>2 DEF Joined
    <3> QED BY <3>1, SubmittedSame, QuietStep
  <2> QED BY <2>1, <2>2
<1>5. ASSUME NEW c \in Calls, Put(c) PROVE NumberInv' /\ SpeechInv' /\ NoOvertaking'
  BY <1>5, PutStep DEF PutInv, Put
<1>6. ASSUME NEW c \in Calls, Listener(c) \/ Log(c) \/ LogFails(c) \/ Signal(c) \/ Played(c)
      PROVE  NumberInv' /\ SpeechInv' /\ NoOvertaking'
  <2>1. /\ number' = number /\ counter' = counter /\ waiting' = waiting
        /\ before' = before /\ saying' = saying /\ pc' = pc
    BY <1>6 DEF Listener, Listen, Answered, Log, Signal, Played, LogFails
  <2> QED BY <2>1, SubmittedSame, QuietStep
<1>7. CASE UNCHANGED speechVars
  <2>1. /\ number' = number /\ counter' = counter /\ waiting' = waiting
        /\ before' = before /\ saying' = saying /\ pc' = pc
    BY <1>7 DEF speechVars
  <2> QED BY <2>1, SubmittedSame, QuietStep
<1> QED BY <1>2, <1>3, <1>4, <1>5, <1>6, <1>7, NumberStep, GetStep
        DEF SpeechNext, Caller, Worker

(* What was queued before a speak began is taken before it, unless it is   *)
(* outranked: _seq_counter's draw and the put are two steps, yet a draw    *)
(* after a put is always the larger.                                       *)
THEOREM FirstComeFirstSpoken == SpeechSpec => []NoOvertaking
<1>1. SpeechInit => SpeechTypeOK /\ OrderInv /\ PutInv
  <2>1. ASSUME SpeechInit PROVE OrderInv /\ PutInv
    <3>1. /\ \A c \in Calls : pc[c] = "new" /\ saying[c] = "text" /\ Current(c) \in Utterances
          /\ \A c \in Calls : <<c, "warning">> \in Utterances
          /\ \A u \in Utterances : number[u] = 0 /\ before[u] = {} /\ At(u) \in Procs
          /\ \A p \in Procs : waiting[p] = {} /\ counter[p] = 0
      BY <2>1, SpeechAssumption DEF SpeechInit, Current, Utterances, Kinds, At, Of
    <3> QED BY <3>1 DEF OrderInv, PutInv, FreshInv, NumberInv, SpeechInv, NoOvertaking
  <2> QED BY <2>1, TypesStart
<1>2. (SpeechTypeOK /\ OrderInv /\ PutInv) /\ [SpeechNext]_speechVars => (SpeechTypeOK /\ OrderInv /\ PutInv)'
  BY SpeechTypesKept, OrderKept, PutKept
<1>3. OrderInv => NoOvertaking
  BY DEF OrderInv
<1> QED BY <1>1, <1>2, <1>3, PTL DEF SpeechSpec

-----------------------------------------------------------------------------
(* The cancel window *)

(* jarvis has one router, and the router one conversation. *)
OneRouter == \A c, d \in Rounds : Router[c] = Router[d]

(* Numbers, not members of intervals, are what most steps are about. *)
Types ==
  /\ state \in {"IDLE", "CAPTURING", "CANCEL_ARMED"}
  /\ detected \in BOOLEAN
  /\ owner \in Rounds \cup {NoRound}
  /\ left \in Nat
  /\ backlog \in Seq(Rounds)
  /\ handler \in [Rounds -> HandlerStates]
  /\ patience \in [Rounds -> Nat]
  /\ call \in [Rounds -> CallStates]
  /\ timeout \in [Rounds -> Nat]
  /\ sent \subseteq Rounds /\ asked \subseteq Rounds /\ closed \subseteq Rounds

(* One round at a time. *)
RoundInv ==
  \A c, d \in Rounds : call[c] \notin {"new", "over"} /\ call[d] \notin {"new", "over"} => c = d

(* A connection that waits to be handled is its round's first and only     *)
(* one, and of those that wait only the last still has a client.           *)
QueueInv ==
  /\ \A n \in 1..Len(backlog) :
       /\ handler[backlog[n]] = "none" /\ call[backlog[n]] # "new"
       /\ call[backlog[n]] = "calling" => n = Len(backlog)
  /\ \A m, n \in 1..Len(backlog) : backlog[m] = backlog[n] => m = n
  /\ \A c \in Rounds : call[c] = "new" => handler[c] = "none"
  /\ \A c \in Rounds : call[c] = "calling" /\ handler[c] = "polling" => backlog = <<>>

(* The handler outlasts the window it was given. *)
ArmedInv ==
  state = "CANCEL_ARMED" =>
    /\ owner \in Rounds
    /\ left > 0 => handler[owner] = "polling" /\ patience[owner] >= left + Slack

(* A round is sent only after its own handler has answered "clear". *)
SentInv ==
  \A c \in Rounds : call[c] \in {"clear", "batch"} \/ c \in sent => handler[c] = "clear"

(* A detection is the handler's to answer until its client has given up. *)
AskedInv ==
  \A c \in asked :
    /\ c \notin sent /\ call[c] \notin {"clear", "batch", "new"}
    /\ call[c] = "calling" => \/ handler[c] = "polling" /\ detected
                              \/ handler[c] \in {"cancelled", "hungup"}

WindowInv == Types /\ RoundInv /\ QueueInv /\ ArmedInv /\ SentInv /\ AskedInv

-----------------------------------------------------------------------------
LEMMA WindowStart == Init => WindowInv
<1> SUFFICES ASSUME Init PROVE WindowInv
  OBVIOUS
<1>1. Types
  <2>1. backlog \in Seq(Rounds)
    BY DEF Init
  <2>2. /\ handler \in [Rounds -> HandlerStates] /\ call \in [Rounds -> CallStates]
        /\ patience \in [Rounds -> Nat] /\ timeout \in [Rounds -> Nat]
    BY DEF Init, HandlerStates, CallStates
  <2>3. /\ state \in {"IDLE", "CAPTURING", "CANCEL_ARMED"} /\ detected \in BOOLEAN
        /\ owner \in Rounds \cup {NoRound} /\ left \in Nat
        /\ sent \subseteq Rounds /\ asked \subseteq Rounds /\ closed \subseteq Rounds
    BY DEF Init
  <2> QED BY <2>1, <2>2, <2>3 DEF Types
<1>2. RoundInv /\ QueueInv /\ ArmedInv /\ SentInv /\ AskedInv
  BY DEF Init, RoundInv, QueueInv, ArmedInv, SentInv, AskedInv
<1> QED BY <1>1, <1>2 DEF WindowInv

(* A step of a call that has begun, to a state that is not the first. *)
LEMMA CallsGoOn ==
  ASSUME WindowInv, NEW c \in Rounds, NEW s \in CallStates \ {"new", "calling"},
         call[c] \notin {"new", "over"},
         call' = [call EXCEPT ![c] = s],
         s \in {"clear", "batch"} => handler[c] = "clear" /\ call[c] \in {"calling", "clear"},
         UNCHANGED <<daemonVars, socketVars, timeout, history, spent>>,
         sent' = sent \/ (sent' = sent \cup {c} /\ handler[c] = "clear"
                          /\ call[c] \in {"clear", "batch"})
  PROVE  WindowInv'
<1> USE DEF daemonVars, socketVars, history, WindowInv
<1>1. Types'
  BY DEF Types
<1>2. RoundInv'
  BY DEF Types, RoundInv
<1>3. QueueInv'
  BY DEF Types, QueueInv
<1>4. ArmedInv'
  BY DEF Types, ArmedInv
<1>5. SentInv'
  BY DEF Types, SentInv
<1>6. AskedInv'
  BY DEF Types, AskedInv
<1> QED BY <1>1, <1>2, <1>3, <1>4, <1>5, <1>6

LEMMA RouterKeeps ==
  ASSUME WindowInv, OneRouter, Heedful, NEW c \in Rounds, RouterMoves(c)
  PROVE  WindowInv'
<1> USE DEF WindowInv, CallStates
<1>1. CASE Confirm(c) /\ sock /\ alive
  <2>1. /\ call[c] = "new" /\ call' = [call EXCEPT ![c] = "calling"]
        /\ backlog' = Append(backlog, c)
        /\ timeout' = [timeout EXCEPT ![c] = Window + ClientSlack]
        /\ UNCHANGED <<daemonVars, handler, patience, sent, history, spent>>
        /\ \A d \in Rounds : call[d] \in {"new", "over"}
    BY <1>1 DEF Confirm, Free, OneRouter
  <2> USE DEF daemonVars, history
  <2>2. Types'
    BY <2>1, WindowAssumption DEF Types, ClientSlack
  <2>3. RoundInv'
    BY <2>1 DEF Types, RoundInv
  <2>4. QueueInv'
    <3>1. /\ backlog' \in Seq(Rounds) /\ Len(backlog') = Len(backlog) + 1
          /\ \A n \in 1..Len(backlog) : backlog'[n] = backlog[n] /\ backlog[n] \in Rounds
          /\ backlog'[Len(backlog) + 1] = c /\ Len(backlog) \in Nat
      BY <2>1 DEF Types
    <3>2. \A n \in 1..Len(backlog) : backlog[n] # c /\ call'[backlog[n]] # "calling"
      BY <2>1, <3>1 DEF Types, QueueInv
    <3>3. \A n \in 1..Len(backlog') :
            /\ handler'[backlog'[n]] = "none" /\ call'[backlog'[n]] # "new"
            /\ call'[backlog'[n]] = "calling" => n = Len(backlog')
      <4>1. ASSUME NEW n \in 1..Len(backlog)
            PROVE  handler'[backlog'[n]] = "none" /\ call'[backlog'[n]] \notin {"new", "calling"}
        <5>1. /\ backlog'[n] = backlog[n] /\ backlog[n] \in Rounds
              /\ backlog[n] # c /\ call'[backlog[n]] # "calling"
          BY <3>1, <3>2
        <5>2. handler[backlog[n]] = "none" /\ call[backlog[n]] # "new"
          BY DEF QueueInv
        <5> QED BY <2>1, <5>1, <5>2 DEF Types
      <4>2. handler'[c] = "none" /\ call'[c] = "calling"
        BY <2>1 DEF Types, QueueInv
      <4>3. \A n \in 1..Len(backlog') : n \in 1..Len(backlog) \/ n = Len(backlog')
        BY <3>1
      <4> QED BY <3>1, <4>1, <4>2, <4>3
    <3>4. \A m, n \in 1..Len(backlog') : backlog'[m] = backlog'[n] => m = n
      BY <3>1, <3>2 DEF QueueInv
    <3>5. \A d \in Rounds : /\ call'[d] = "new" => handler'[d] = "none"
                            /\ ~(call'[d] = "calling" /\ handler'[d] = "polling")
      BY <2>1 DEF Types, QueueInv
    <3> QED BY <3>3, <3>4, <3>5 DEF QueueInv
  <2>5. ArmedInv' /\ SentInv' /\ AskedInv'
    BY <2>1 DEF Types, ArmedInv, SentInv, AskedInv, QueueInv
  <2> QED BY <2>2, <2>3, <2>4, <2>5
<1>2. CASE Confirm(c) /\ ~(sock /\ alive)
  <2>1. /\ call[c] = "new" /\ call' = [call EXCEPT ![c] = "unavailable"]
        /\ UNCHANGED <<daemonVars, backlog, timeout, handler, patience, sent, history, spent>>
        /\ \A d \in Rounds : call[d] \in {"new", "over"}
    BY <1>2 DEF Confirm, Free, OneRouter
  <2> USE DEF daemonVars, history
  <2>2. Types' /\ RoundInv'
    BY <2>1 DEF Types, RoundInv
  <2>3. QueueInv'
    BY <2>1 DEF Types, QueueInv
  <2>4. ArmedInv' /\ SentInv' /\ AskedInv'
    BY <2>1 DEF Types, ArmedInv, SentInv, AskedInv
  <2> QED BY <2>2, <2>3, <2>4
<1>3. CASE Receive(c)
  BY <1>3, CallsGoOn DEF Receive, routerVars
<1>4. CASE TimeOut(c)
  BY <1>4, CallsGoOn DEF TimeOut
<1>5. CASE Drop(c)
  BY <1>5, CallsGoOn DEF Drop
<1>6. CASE StartBatch(c)
  <2>1. handler[c] = "clear"
    BY <1>6 DEF StartBatch, SentInv
  <2> QED BY <1>6, <2>1, CallsGoOn DEF StartBatch
<1>7. CASE Send(c)
  <2>1. handler[c] = "clear"
    BY <1>7 DEF Send, SentInv
  <2> QED BY <1>7, <2>1, CallsGoOn DEF Send
<1> QED BY <1>1, <1>2, <1>3, <1>4, <1>5, <1>6, <1>7 DEF RouterMoves

LEMMA RequestKeeps ==
  ASSUME WindowInv, NEW c \in Rounds, Request(c)
  PROVE  WindowInv'
<1> USE DEF WindowInv, routerVars, history
<1>1. /\ backlog # <<>> /\ c = Head(backlog) /\ backlog' = Tail(backlog)
      /\ UNCHANGED <<routerVars, history>>
  BY DEF Request
<1>2. /\ Len(backlog) \in Nat \ {0} /\ Len(backlog') = Len(backlog) - 1
      /\ backlog' \in Seq(Rounds) /\ c = backlog[1] /\ 1 \in 1..Len(backlog)
      /\ \A n \in 1..Len(backlog') : backlog'[n] = backlog[n + 1] /\ n + 1 \in 1..Len(backlog)
  BY <1>1 DEF Types
<1>3. /\ handler[c] = "none" /\ call[c] # "new" /\ c \notin sent
      /\ call[c] \notin {"clear", "batch"} /\ (call[c] = "calling" => backlog' = <<>>)
      /\ \A n \in 1..Len(backlog') : backlog'[n] # c /\ backlog'[n] \in Rounds
  <2>1. handler[c] = "none" /\ call[c] # "new" /\ (call[c] = "calling" => 1 = Len(backlog))
    BY <1>2 DEF QueueInv
  <2>2. \A n \in 1..Len(backlog') : backlog'[n] # c /\ backlog'[n] \in Rounds
    <3> SUFFICES ASSUME NEW n \in 1..Len(backlog') PROVE backlog'[n] # c /\ backlog'[n] \in Rounds
      OBVIOUS
    <3>1. backlog[n + 1] = backlog[1] => n + 1 = 1
      BY <1>2 DEF QueueInv
    <3> QED BY <1>2, <3>1
  <2>3. call[c] = "calling" => backlog' = <<>>
    <3>1. backlog' \in Seq(Rounds) /\ (call[c] = "calling" => Len(backlog') = 0)
      BY ONLY <1>2, <2>1
    <3> HIDE DEF WindowInv
    <3> QED BY ONLY <3>1, EmptySeq, Zenon
  <2> QED BY <2>1, <2>2, <2>3 DEF SentInv
<1>4. RoundInv' /\ \A d \in Rounds : call'[d] = call[d]
  BY <1>1 DEF RoundInv
<1>5. ASSUME handler' \in [Rounds -> HandlerStates], handler'[c] # "none",
             \A d \in Rounds : d # c => handler'[d] = handler[d]
      PROVE  QueueInv'
  <2>1. ASSUME NEW n \in 1..Len(backlog')
        PROVE  /\ handler'[backlog'[n]] = "none" /\ call'[backlog'[n]] # "new"
               /\ call'[backlog'[n]] = "calling" => n = Len(backlog')
    <3>1. /\ handler[backlog[n + 1]] = "none" /\ call[backlog[n + 1]] # "new"
          /\ call[backlog[n + 1]] = "calling" => n + 1 = Len(backlog)
      BY <1>2 DEF QueueInv
    <3>2. n \in Nat /\ backlog'[n] = backlog[n + 1]
      BY <1>2
    <3>3. backlog'[n] \in Rounds /\ backlog'[n] # c /\ n \in 1..Len(backlog')
      BY <1>3
    <3>4. handler'[backlog'[n]] = handler[backlog[n + 1]] /\ call'[backlog'[n]] = call[backlog[n + 1]]
      BY ONLY <1>4, <1>5, <3>2, <3>3
    <3> QED BY ONLY <1>2, <3>1, <3>2, <3>4
  <2>2. ASSUME NEW m \in 1..Len(backlog'), NEW n \in 1..Len(backlog'), backlog'[m] = backlog'[n]
        PROVE  m = n
    <3>1. m + 1 = n + 1
      BY <1>2, <2>2 DEF QueueInv
    <3> QED BY <1>2, <3>1
  <2>3. \A d \in Rounds : call'[d] = "new" => handler'[d] = "none"
    BY <1>3, <1>4, <1>5 DEF QueueInv
  <2>4. \A d \in Rounds : call'[d] = "calling" /\ handler'[d] = "polling" => backlog' = <<>>
    <3>1. \A d \in Rounds : call[d] = "calling" /\ handler[d] = "polling" => backlog = <<>>
      BY DEF QueueInv
    <3> QED BY <1>1, <1>3, <1>4, <1>5, <3>1
  <2> QED BY <2>1, <2>2, <2>3, <2>4 DEF QueueInv
<1>6. SentInv' <=> \A d \in Rounds : call[d] \in {"clear", "batch"} \/ d \in sent => handler'[d] = "clear"
  BY <1>1 DEF SentInv
<1>7. \A d \in asked : call[d] = "calling" /\ d # c => handler[d] \in {"cancelled", "hungup"}
  BY <1>1 DEF AskedInv, QueueInv, Types
<1>8. c \in asked => call[c] # "calling"
  BY <1>3 DEF AskedInv
<1>9. CASE state = "IDLE"
  <2>1. /\ state' = "CANCEL_ARMED" /\ owner' = c /\ left' = Window /\ detected' = FALSE
        /\ handler' = [handler EXCEPT ![c] = "polling"]
        /\ patience' = [patience EXCEPT ![c] = Window + Slack]
    BY <1>9 DEF Request
  <2>2. handler' \in [Rounds -> HandlerStates] /\ handler'[c] = "polling"
        /\ \A d \in Rounds : d # c => handler'[d] = handler[d]
    BY <2>1 DEF Types, HandlerStates
  <2>3. Types'
    <3>1. left' \in Nat /\ patience' \in [Rounds -> Nat]
      BY <2>1, WindowAssumption DEF Types, Slack
    <3> QED BY <1>1, <1>2, <2>1, <2>2, <3>1 DEF Types
  <2>4. ArmedInv'
    BY <2>1, <2>2, WindowAssumption DEF ArmedInv, Types, Slack
  <2>5. SentInv'
    BY <1>3, <1>6, <2>2 DEF SentInv
  <2>6. AskedInv'
    BY <1>1, <1>7, <1>8, <2>2 DEF AskedInv, Types
  <2> QED BY <1>4, <1>5, <2>2, <2>3, <2>4, <2>5, <2>6
<1>10. CASE state # "IDLE"
  <2>1. /\ UNCHANGED <<state, owner, left, detected, patience>>
        /\ handler' = [handler EXCEPT ![c] = "hungup"]
    BY <1>10 DEF Request
  <2>2. handler' \in [Rounds -> HandlerStates] /\ handler'[c] = "hungup"
        /\ \A d \in Rounds : d # c => handler'[d] = handler[d]
    BY <2>1 DEF Types, HandlerStates
  <2>3. Types'
    BY <1>1, <1>2, <2>1, <2>2 DEF Types
  <2>4. ArmedInv'
    BY <1>3, <2>1, <2>2 DEF ArmedInv
  <2>5. SentInv'
    BY <1>3, <1>6, <2>2 DEF SentInv
  <2>6. AskedInv'
    BY <1>1, <1>7, <1>8, <2>2 DEF AskedInv, Types
  <2> QED BY <1>4, <1>5, <2>2, <2>3, <2>4, <2>5, <2>6
<1> QED BY <1>9, <1>10

LEMMA AnswerKeeps ==
  ASSUME WindowInv, NEW c \in Rounds, Answer(c)
  PROVE  WindowInv'
<1> USE DEF WindowInv, daemonVars, routerVars, history
<1>1. /\ handler[c] = "polling" /\ (state # "CANCEL_ARMED" \/ patience[c] = 0)
      /\ handler' = [handler EXCEPT ![c] = IF detected THEN "cancelled" ELSE "clear"]
      /\ UNCHANGED <<daemonVars, backlog, patience, routerVars, history>>
  BY DEF Answer, Settled
<1>2. Types'
  BY <1>1 DEF Types, HandlerStates
<1>3. RoundInv'
  BY <1>1 DEF RoundInv
<1>4. QueueInv'
  <2>1. \A n \in 1..Len(backlog) : backlog[n] # c
    BY <1>1 DEF QueueInv
  <2>2. \A n \in 1..Len(backlog) : backlog[n] \in Rounds
    BY DEF Types
  <2> QED BY <1>1, <2>1, <2>2 DEF QueueInv, Types
<1>5. ArmedInv'
  BY <1>1 DEF ArmedInv, Types, Slack
<1>6. SentInv'
  BY <1>1 DEF SentInv, Types
<1>7. AskedInv'
  BY <1>1 DEF AskedInv, Types
<1> QED BY <1>2, <1>3, <1>4, <1>5, <1>6, <1>7

LEMMA FramesKeep ==
  ASSUME WindowInv, Frame \/ Delivered
  PROVE  WindowInv'
<1> USE DEF WindowInv, socketVars, routerVars, history
<1>1. ASSUME NEW hey \in BOOLEAN, CancelFrame(hey) PROVE WindowInv'
  <2>1. /\ state = "CANCEL_ARMED" /\ state' \in {"IDLE", "CANCEL_ARMED"}
        /\ closed' = (IF left = 0 THEN closed \cup {owner} ELSE closed)
        /\ detected' = (detected \/ (left > 0 /\ hey))
        /\ asked' = (IF left > 0 /\ hey THEN asked \cup {owner} ELSE asked)
        /\ UNCHANGED <<owner, left, socketVars, routerVars>>
    BY <1>1 DEF CancelFrame
  <2>2. owner \in Rounds
    BY <2>1 DEF ArmedInv
  <2>3. Types'
    <3>1. detected' \in BOOLEAN
      BY <2>1
    <3> QED BY <2>1, <2>2, <3>1 DEF Types
  <2>4. RoundInv' /\ QueueInv' /\ ArmedInv' /\ SentInv'
    BY <2>1 DEF RoundInv, QueueInv, ArmedInv, SentInv
  <2>5. AskedInv'
    <3>1. ASSUME NEW c \in asked
          PROVE  /\ c \notin sent /\ call[c] \notin {"clear", "batch", "new"}
                 /\ call[c] = "calling" => \/ handler[c] = "polling" /\ detected'
                                           \/ handler[c] \in {"cancelled", "hungup"}
      BY <2>1 DEF AskedInv
    <3>2. ASSUME left > 0, hey
          PROVE  /\ owner \notin sent /\ call[owner] \notin {"clear", "batch", "new"}
                 /\ handler[owner] = "polling" /\ detected'
      <4>1. handler[owner] = "polling" /\ detected'
        BY <2>1, <3>2 DEF ArmedInv
      <4> QED BY <2>2, <4>1 DEF SentInv, QueueInv
    <3> QED BY <2>1, <3>1, <3>2 DEF AskedInv
  <2> QED BY <2>3, <2>4, <2>5
<1>2. CASE IdleFrame
  <2>1. /\ state = "IDLE" /\ state' \in {"IDLE", "CAPTURING"}
        /\ UNCHANGED <<owner, left, detected, socketVars, routerVars, history>>
    BY <1>2 DEF IdleFrame
  <2> QED BY <2>1 DEF Types, RoundInv, QueueInv, ArmedInv, SentInv, AskedInv
<1>3. CASE CaptureFrame
  BY <1>3 DEF CaptureFrame, Types, RoundInv, QueueInv, ArmedInv, SentInv, AskedInv
<1>4. CASE Delivered
  BY <1>4 DEF Delivered, Types, RoundInv, QueueInv, ArmedInv, SentInv, AskedInv
<1> QED BY <1>1, <1>2, <1>3, <1>4 DEF Frame

LEMMA WorldKeeps ==
  ASSUME WindowInv, MicStalls \/ MicRecovers \/ Die \/ Start
  PROVE  WindowInv'
<1> USE DEF WindowInv, socketVars, routerVars, history
<1>1. CASE MicStalls \/ MicRecovers \/ Start
  <2>1. UNCHANGED <<state, owner, left, detected, socketVars, routerVars, history>>
    BY <1>1 DEF MicStalls, MicRecovers, Start
  <2> QED BY <2>1 DEF Types, RoundInv, QueueInv, ArmedInv, SentInv, AskedInv
<1>2. CASE Die
  <2>1. /\ state' = "IDLE" /\ left' = 0 /\ detected' = FALSE /\ backlog' = <<>>
        /\ handler' = [c \in Rounds |-> IF handler[c] = "polling" \/ Waiting(c)
                                        THEN "hungup" ELSE handler[c]]
        /\ UNCHANGED <<owner, patience, routerVars, history>>
    BY <1>2 DEF Die
  <2>2. Types'
    <3>1. backlog' \in Seq(Rounds)
      BY <2>1
    <3>2. handler' \in [Rounds -> HandlerStates]
      BY <2>1 DEF Types, HandlerStates
    <3> QED BY <2>1, <3>1, <3>2 DEF Types
  <2>3. RoundInv' /\ ArmedInv'
    BY <2>1 DEF RoundInv, ArmedInv
  <2>4. \A c \in Rounds : Waiting(c) => handler[c] = "none" /\ call[c] # "new"
    BY DEF Waiting, QueueInv
  <2>5. QueueInv'
    <3>1. 1..Len(backlog') = {}
      BY <2>1
    <3> QED BY <2>1, <2>4, <3>1 DEF QueueInv
  <2>6. SentInv'
    BY <2>1, <2>4 DEF SentInv
  <2>7. AskedInv'
    BY <2>1 DEF AskedInv, Types
  <2> QED BY <2>2, <2>3, <2>5, <2>6, <2>7
<1> QED BY <1>1, <1>2

LEMMA TimeKeeps ==
  ASSUME WindowInv, Tick
  PROVE  WindowInv'
<1> USE DEF WindowInv, history
<1>1. /\ left' = Less(left) /\ patience' = [c \in Rounds |-> Less(patience[c])]
      /\ timeout' = [c \in Rounds |-> Less(timeout[c])]
      /\ UNCHANGED <<state, owner, detected, backlog, handler, call, sent, history>>
  BY DEF Tick
<1>2. \A n \in Nat : Less(n) \in Nat /\ (n > 0 => Less(n) = n - 1) /\ (Less(n) > 0 => n > 0)
  BY DEF Less
<1>3. Types'
  BY <1>1, <1>2 DEF Types
<1>4. RoundInv' /\ QueueInv' /\ SentInv' /\ AskedInv'
  BY <1>1 DEF RoundInv, QueueInv, SentInv, AskedInv
<1>5. ArmedInv'
  <2> SUFFICES ASSUME state = "CANCEL_ARMED", left' > 0
               PROVE  handler[owner] = "polling" /\ patience'[owner] >= left' + Slack
    BY <1>1 DEF ArmedInv
  <2>1. owner \in Rounds /\ left \in Nat /\ patience[owner] \in Nat /\ left > 0
    BY <1>1, <1>2 DEF ArmedInv, Types
  <2>2. handler[owner] = "polling" /\ patience[owner] >= left + Slack
    BY <2>1 DEF ArmedInv
  <2>3. left' = left - 1 /\ patience'[owner] = patience[owner] - 1
    BY <1>1, <1>2, <2>1, <2>2 DEF Slack
  <2> QED BY <2>1, <2>2, <2>3 DEF Slack
<1> QED BY <1>3, <1>4, <1>5

LEMMA WindowStep ==
  OneRouter /\ Heedful /\ WindowInv /\ [Next]_vars => WindowInv'
<1>1. ASSUME WindowInv, UNCHANGED vars PROVE WindowInv'
  BY <1>1 DEF vars, daemonVars, socketVars, routerVars, history, WindowInv, Types, RoundInv,
              QueueInv, ArmedInv, SentInv, AskedInv
<1> QED BY <1>1, RouterKeeps, RequestKeeps, AnswerKeeps, FramesKeep, WorldKeeps, TimeKeeps
        DEF Next, HandlerMoves

(* A "Hey Jarvis" heard in a plan's window keeps that plan from being      *)
(* sent, whatever dies, stalls or is dictated before the router hears of   *)
(* it, as long as the router, of which there is one, heeds the answer.     *)
THEOREM CancelsAreHonoured ==
  ASSUME OneRouter, Heedful
  PROVE  Spec => []CancelHonoured
<1>1. WindowInv => CancelHonoured
  BY DEF WindowInv, AskedInv, CancelHonoured
<1>2. WindowInv /\ [Next]_vars => WindowInv'
  BY WindowStep
<1> QED BY <1>1, <1>2, WindowStart, PTL DEF Spec

-----------------------------------------------------------------------------
(* Windows are meant. *)

BoundsInv ==
  /\ alive \in BOOLEAN /\ mic \in BOOLEAN /\ framed \in BOOLEAN /\ blocked \in BOOLEAN
  /\ spent \in [{"dictations", "stalls", "crashes"} -> Nat]

(* What a microphone that never stalls, and a daemon that never captures,  *)
(* cannot be in.                                                           *)
LoopInv ==
  /\ spent["stalls"] = 0 => mic
  /\ state # "IDLE" => alive
  /\ blocked => state = "CAPTURING"
  /\ spent["dictations"] = 0 => state # "CAPTURING"

(* Frames keep coming, so a window is heard out before its handler ends. *)
OutlastInv ==
  spent["stalls"] = 0 /\ state = "CANCEL_ARMED" =>
    /\ handler[owner] = "polling" /\ patience[owner] >= left + Slack
    /\ left = 0 => ~framed

(* What is answered "clear", and what is sent, was heard out to its end. *)
HeardInv ==
  spent["stalls"] = 0 => \A c \in Rounds :
    /\ call[c] = "calling" /\ handler[c] = "polling" =>
         (state = "CANCEL_ARMED" /\ owner = c) \/ detected \/ c \in closed
    /\ \/ call[c] = "calling" /\ handler[c] = "clear"
       \/ call[c] \in {"clear", "batch"} \/ c \in sent
       => c \in closed

(* Without a dictation a connection is handled as it is made, and a client *)
(* outwaits the handler.                                                   *)
PromptInv ==
  spent["dictations"] = 0 =>
    /\ \A n \in 1..Len(backlog) : /\ alive /\ call[backlog[n]] = "calling"
                                  /\ timeout[backlog[n]] = Window + ClientSlack
    /\ spent["stalls"] = 0 /\ state = "CANCEL_ARMED" =>
         call[owner] = "calling" /\ timeout[owner] >= left + ClientSlack

MeantInv == BoundsInv /\ LoopInv /\ OutlastInv /\ HeardInv /\ PromptInv

LEMMA Spends ==
  ASSUME BoundsInv, NEW k \in {"dictations", "stalls", "crashes"}, Spend(k)
  PROVE  /\ spent' \in [{"dictations", "stalls", "crashes"} -> Nat] /\ spent'[k] > 0
         /\ \A j \in {"dictations", "stalls", "crashes"} : j # k => spent'[j] = spent[j]
BY DEF Spend, BoundsInv

LEMMA MeantStart == Init => MeantInv
<1> SUFFICES ASSUME Init PROVE MeantInv
  OBVIOUS
<1>1. spent \in [{"dictations", "stalls", "crashes"} -> Nat]
      /\ spent["stalls"] = 0 /\ spent["dictations"] = 0
  BY DEF Init, Bounded
<1>2. 1..Len(backlog) = {}
  BY DEF Init
<1>3. BoundsInv /\ LoopInv /\ OutlastInv
  BY <1>1 DEF Init, BoundsInv, LoopInv, OutlastInv
<1>4. HeardInv
  BY DEF Init, HeardInv
<1>5. PromptInv
  BY <1>2 DEF Init, PromptInv
<1> QED BY <1>3, <1>4, <1>5 DEF MeantInv

LEMMA RouterMeant ==
  ASSUME WindowInv, MeantInv, OneRouter, Heedful, NEW c \in Rounds, RouterMoves(c)
  PROVE  MeantInv'
<1> USE DEF WindowInv, MeantInv
<1>1. UNCHANGED <<daemonVars, handler, patience, history, spent>>
  BY DEF RouterMoves, Confirm, Receive, TimeOut, Drop, StartBatch, Send, socketVars
<1>2. BoundsInv' /\ LoopInv' /\ OutlastInv'
  BY <1>1 DEF BoundsInv, LoopInv, OutlastInv, daemonVars, history
<1>3. CASE Confirm(c)
  <2>1. /\ call[c] = "new" /\ call' = [call EXCEPT ![c] = IF sock /\ alive THEN "calling" ELSE "unavailable"]
        /\ sent' = sent /\ \A d \in Rounds : call[d] \in {"new", "over"}
    BY <1>3 DEF Confirm, Free, OneRouter, CallStates
  <2>2. handler[c] = "none" /\ \A n \in 1..Len(backlog) : backlog[n] # c /\ backlog[n] \in Rounds
    BY <2>1 DEF QueueInv, Types
  <2>3. HeardInv'
    BY <1>1, <2>1, <2>2 DEF HeardInv, Types, daemonVars, history
  <2>4. PromptInv'
    <3>1. ~(state = "CANCEL_ARMED" /\ spent["stalls"] = 0 /\ spent["dictations"] = 0)
      BY <2>1 DEF PromptInv, ArmedInv
    <3>2. CASE sock /\ alive
      <4>1. backlog' = Append(backlog, c) /\ timeout' = [timeout EXCEPT ![c] = Window + ClientSlack]
        BY <1>3, <3>2 DEF Confirm
      <4>2. /\ Len(backlog') = Len(backlog) + 1 /\ Len(backlog) \in Nat
            /\ \A n \in 1..Len(backlog) : backlog'[n] = backlog[n]
            /\ backlog'[Len(backlog) + 1] = c
        BY <4>1 DEF Types
      <4>3. \A n \in 1..Len(backlog') : n \in 1..Len(backlog) \/ n = Len(backlog) + 1
        BY <4>2
      <4>4. call'[c] = "calling" /\ timeout'[c] = Window + ClientSlack
        BY <2>1, <3>2, <4>1 DEF Types
      <4>5. spent["dictations"] = 0 => \A n \in 1..Len(backlog) : FALSE
        BY <2>1, <2>2 DEF PromptInv
      <4> QED BY <1>1, <3>1, <3>2, <4>2, <4>3, <4>4, <4>5 DEF PromptInv, daemonVars
    <3>3. CASE ~(sock /\ alive)
      <4>1. backlog' = backlog /\ timeout' = timeout
        BY <1>3, <3>3 DEF Confirm
      <4>2. spent["dictations"] = 0 => \A n \in 1..Len(backlog) : FALSE
        BY <2>1, <2>2 DEF PromptInv
      <4> QED BY <1>1, <3>1, <4>1, <4>2 DEF PromptInv, daemonVars
    <3> QED BY <3>2, <3>3
  <2> QED BY <1>2, <2>3, <2>4
<1>4. CASE ~Confirm(c)
  <2>1. /\ backlog' = backlog /\ timeout' = timeout
        /\ call[c] \notin {"new", "over"}
        /\ \E s \in CallStates : call' = [call EXCEPT ![c] = s] /\ s # "calling"
    BY <1>4 DEF RouterMoves, Receive, TimeOut, Drop, StartBatch, Send, socketVars, CallStates, Types,
                HandlerStates
  <2>2. HeardInv'
    <3>1. /\ call'[c] # "calling"
          /\ call'[c] = "clear" => call[c] = "calling" /\ handler[c] = "clear"
          /\ call'[c] = "batch" => call[c] = "clear"
          /\ sent' = sent \/ (sent' = sent \cup {c} /\ call[c] = "batch")
          /\ \A d \in Rounds : d # c => call'[d] = call[d]
      BY <1>4 DEF RouterMoves, Receive, TimeOut, Drop, StartBatch, Send, Types, routerVars
    <3> QED BY <1>1, <3>1 DEF HeardInv, daemonVars, history
  <2>3. PromptInv'
    <3>1. ASSUME spent["dictations"] = 0, NEW n \in 1..Len(backlog), backlog[n] = c PROVE FALSE
      <4>1. handler[c] = "none" /\ call[c] = "calling" /\ timeout[c] = Window + ClientSlack
        BY <3>1 DEF QueueInv, PromptInv
      <4> QED BY <1>4, <4>1, WindowAssumption
              DEF RouterMoves, Receive, TimeOut, Drop, StartBatch, Send, ClientSlack
    <3>2. ASSUME spent["dictations"] = 0, spent["stalls"] = 0, state = "CANCEL_ARMED", owner = c
          PROVE  FALSE
      <4>1. handler[c] = "polling" /\ call[c] = "calling" /\ timeout[c] >= left + ClientSlack
        BY <3>2 DEF OutlastInv, PromptInv
      <4>2. left \in Nat /\ timeout[c] \in Nat
        BY DEF Types
      <4> QED BY <1>4, <4>1, <4>2
              DEF RouterMoves, Receive, TimeOut, Drop, StartBatch, Send, ClientSlack
    <3>3. /\ \A n \in 1..Len(backlog) : backlog[n] \in Rounds
          /\ \A d \in Rounds : d # c => call'[d] = call[d]
          /\ state = "CANCEL_ARMED" => owner \in Rounds
      BY <2>1 DEF Types, ArmedInv
    <3> QED BY <1>1, <2>1, <3>1, <3>2, <3>3 DEF PromptInv, daemonVars
  <2> QED BY <1>2, <2>2, <2>3
<1> QED BY <1>3, <1>4

LEMMA RequestMeant ==
  ASSUME WindowInv, MeantInv, NEW c \in Rounds, Request(c)
  PROVE  MeantInv'
<1> USE DEF WindowInv, MeantInv
<1>1. /\ backlog # <<>> /\ c = Head(backlog) /\ backlog' = Tail(backlog)
      /\ alive /\ ~blocked
      /\ UNCHANGED <<alive, mic, framed, blocked, call, timeout, sent, closed, spent>>
  BY DEF Request, Running, routerVars, history
<1>2. /\ Len(backlog) \in Nat \ {0} /\ Len(backlog') = Len(backlog) - 1
      /\ c = backlog[1] /\ 1 \in 1..Len(backlog)
      /\ \A n \in 1..Len(backlog') : backlog'[n] = backlog[n + 1] /\ n + 1 \in 1..Len(backlog)
  BY <1>1 DEF Types
<1>3. handler[c] = "none"
  BY <1>2 DEF QueueInv
<1>4. \A d \in Rounds : ~(call[d] = "calling" /\ handler[d] = "polling")
  BY <1>1 DEF QueueInv
<1>5. BoundsInv'
  BY <1>1 DEF BoundsInv
<1>6. spent["dictations"] = 0 =>
        /\ call[c] = "calling" /\ timeout[c] = Window + ClientSlack
        /\ \A n \in 1..Len(backlog') : /\ alive /\ call[backlog'[n]] = "calling"
                                       /\ timeout[backlog'[n]] = Window + ClientSlack
  BY <1>2 DEF PromptInv
<1>7. CASE state = "IDLE"
  <2>1. /\ state' = "CANCEL_ARMED" /\ owner' = c /\ left' = Window /\ detected' = FALSE
        /\ handler' = [handler EXCEPT ![c] = "polling"]
        /\ patience' = [patience EXCEPT ![c] = Window + Slack]
    BY <1>7 DEF Request
  <2>2. handler'[c] = "polling" /\ patience'[c] = Window + Slack /\ Window \in Nat \ {0}
        /\ \A d \in Rounds : d # c => handler'[d] = handler[d]
    BY <2>1, WindowAssumption DEF Types
  <2>3. LoopInv' /\ OutlastInv'
    BY <1>1, <2>1, <2>2 DEF LoopInv, OutlastInv, Slack
  <2>4. HeardInv'
    BY <1>1, <1>3, <1>4, <2>1, <2>2 DEF HeardInv
  <2>5. PromptInv'
    BY <1>1, <1>6, <2>1, <2>2 DEF PromptInv, ClientSlack
  <2> QED BY <1>5, <2>3, <2>4, <2>5
<1>8. CASE state # "IDLE"
  <2>1. /\ UNCHANGED <<state, owner, left, detected, patience>>
        /\ handler' = [handler EXCEPT ![c] = "hungup"]
    BY <1>8 DEF Request
  <2>2. handler'[c] = "hungup" /\ \A d \in Rounds : d # c => handler'[d] = handler[d]
    BY <2>1 DEF Types
  <2>3. LoopInv' /\ OutlastInv'
    BY <1>1, <1>3, <2>1, <2>2 DEF LoopInv, OutlastInv, ArmedInv
  <2>4. HeardInv'
    BY <1>1, <1>4, <2>1, <2>2 DEF HeardInv
  <2>5. PromptInv'
    BY <1>1, <1>6, <2>1 DEF PromptInv
  <2> QED BY <1>5, <2>3, <2>4, <2>5
<1> QED BY <1>7, <1>8

LEMMA AnswerMeant ==
  ASSUME WindowInv, MeantInv, NEW c \in Rounds, Answer(c)
  PROVE  MeantInv'
<1> USE DEF WindowInv, MeantInv, daemonVars, routerVars, history
<1>1. /\ handler[c] = "polling" /\ (state # "CANCEL_ARMED" \/ patience[c] = 0)
      /\ handler' = [handler EXCEPT ![c] = IF detected THEN "cancelled" ELSE "clear"]
      /\ UNCHANGED <<daemonVars, backlog, patience, routerVars, history, spent>>
  BY DEF Answer, Settled
<1>2. /\ handler'[c] = "cancelled" \/ (~detected /\ handler'[c] = "clear")
      /\ \A d \in Rounds : d # c => handler'[d] = handler[d]
  <2>1. CASE detected
    BY <1>1, <2>1 DEF Types
  <2>2. CASE ~detected
    BY <1>1, <2>2 DEF Types
  <2> QED BY <2>1, <2>2
<1>3. ~(spent["stalls"] = 0 /\ state = "CANCEL_ARMED" /\ owner = c)
  <2>1. left \in Nat /\ patience[c] \in Nat
    BY DEF Types
  <2> QED BY <1>1, <2>1 DEF OutlastInv, Slack
<1>4. BoundsInv' /\ LoopInv' /\ PromptInv'
  BY <1>1 DEF BoundsInv, LoopInv, PromptInv
<1>5. OutlastInv'
  BY <1>1, <1>2, <1>3 DEF OutlastInv, ArmedInv
<1>6. HeardInv'
  BY <1>1, <1>2, <1>3 DEF HeardInv
<1> QED BY <1>4, <1>5, <1>6

LEMMA FramesMeant ==
  ASSUME WindowInv, MeantInv, Frame \/ Delivered
  PROVE  MeantInv'
<1> USE DEF WindowInv, MeantInv, socketVars, routerVars, history
<1>1. ASSUME NEW hey \in BOOLEAN, CancelFrame(hey) PROVE MeantInv'
  <2>1. /\ state = "CANCEL_ARMED" /\ alive /\ ~blocked
        /\ state' = (IF left = 0 \/ hey THEN "IDLE" ELSE state)
        /\ closed' = (IF left = 0 THEN closed \cup {owner} ELSE closed)
        /\ detected' = (detected \/ (left > 0 /\ hey))
        /\ framed' = TRUE
        /\ UNCHANGED <<alive, mic, blocked, owner, left, socketVars, routerVars, spent>>
    BY <1>1 DEF CancelFrame, Running
  <2>2. left \in Nat
    BY DEF Types
  <2>3. BoundsInv' /\ LoopInv' /\ OutlastInv' /\ PromptInv'
    BY <2>1, <2>2 DEF BoundsInv, LoopInv, OutlastInv, PromptInv
  <2>4. HeardInv'
    <3>1. /\ state' = "CANCEL_ARMED" \/ detected' \/ owner \in closed'
          /\ (detected => detected') /\ closed \subseteq closed'
      <4>1. (detected => detected') /\ (left > 0 /\ hey => detected')
        BY <2>1, Zenon
      <4>2. left > 0 \/ left = 0
        BY <2>2
      <4> QED BY <2>1, <4>1, <4>2
    <3> QED BY <2>1, <3>1 DEF HeardInv
  <2> QED BY <2>3, <2>4
<1>2. CASE IdleFrame
  <2>1. /\ state = "IDLE" /\ alive /\ ~blocked /\ framed' = TRUE
        /\ \/ state' = state /\ spent' = spent
           \/ Spend("dictations") /\ state' = "CAPTURING"
        /\ UNCHANGED <<alive, mic, blocked, owner, left, detected, socketVars, routerVars, history>>
    BY <1>2 DEF IdleFrame, Running
  <2>2. /\ spent' \in [{"dictations", "stalls", "crashes"} -> Nat]
        /\ spent'["stalls"] = spent["stalls"]
        /\ spent'["dictations"] = 0 => spent["dictations"] = 0 /\ state' = state
    <3>1. CASE Spend("dictations")
      BY <2>1, <3>1, Spends
    <3>2. CASE spent' = spent /\ state' = state
      BY <3>2 DEF BoundsInv
    <3> QED BY <2>1, <3>1, <3>2
  <2>3. BoundsInv' /\ LoopInv' /\ OutlastInv'
    BY <2>1, <2>2 DEF BoundsInv, LoopInv, OutlastInv
  <2>4. HeardInv'
    BY <2>1, <2>2 DEF HeardInv
  <2>5. PromptInv'
    BY <2>1, <2>2 DEF PromptInv
  <2> QED BY <2>3, <2>4, <2>5
<1>3. CASE CaptureFrame
  BY <1>3 DEF CaptureFrame, BoundsInv, LoopInv, OutlastInv, HeardInv, PromptInv
<1>4. CASE Delivered
  BY <1>4 DEF Delivered, BoundsInv, LoopInv, OutlastInv, HeardInv, PromptInv
<1> QED BY <1>1, <1>2, <1>3, <1>4 DEF Frame

LEMMA WorldMeant ==
  ASSUME WindowInv, MeantInv, MicStalls \/ MicRecovers \/ Die \/ Start
  PROVE  MeantInv'
<1> USE DEF WindowInv, MeantInv, socketVars, routerVars, history
<1>1. CASE MicStalls
  <2>1. /\ mic' = FALSE /\ Spend("stalls")
        /\ UNCHANGED <<alive, framed, blocked, state, owner, left, detected, socketVars,
                       routerVars, history>>
    BY <1>1 DEF MicStalls
  <2>2. /\ spent' \in [{"dictations", "stalls", "crashes"} -> Nat] /\ spent'["stalls"] > 0
        /\ spent'["dictations"] = spent["dictations"]
    BY <2>1, Spends
  <2>3. spent'["stalls"] # 0
    BY <2>2
  <2>4. BoundsInv' /\ LoopInv'
    BY <2>1, <2>2, <2>3 DEF BoundsInv, LoopInv
  <2>5. OutlastInv' /\ HeardInv' /\ PromptInv'
    BY <2>1, <2>2, <2>3 DEF OutlastInv, HeardInv, PromptInv
  <2> QED BY <2>4, <2>5
<1>2. CASE MicRecovers
  BY <1>2 DEF MicRecovers, BoundsInv, LoopInv, OutlastInv, HeardInv, PromptInv
<1>3. CASE Start
  BY <1>3 DEF Start, BoundsInv, LoopInv, OutlastInv, HeardInv, PromptInv
<1>4. CASE Die
  <2>1. /\ alive' = FALSE /\ blocked' = FALSE /\ state' = "IDLE" /\ left' = 0
        /\ detected' = FALSE /\ backlog' = <<>> /\ Spend("crashes")
        /\ handler' = [c \in Rounds |-> IF handler[c] = "polling" \/ Waiting(c)
                                        THEN "hungup" ELSE handler[c]]
        /\ UNCHANGED <<mic, framed, owner, patience, routerVars, history>>
    BY <1>4 DEF Die
  <2>2. /\ spent' \in [{"dictations", "stalls", "crashes"} -> Nat]
        /\ spent'["dictations"] = spent["dictations"] /\ spent'["stalls"] = spent["stalls"]
    BY <2>1, Spends
  <2>3. 1..Len(backlog') = {}
    BY <2>1
  <2>4. BoundsInv' /\ LoopInv' /\ OutlastInv' /\ PromptInv'
    BY <2>1, <2>2, <2>3 DEF BoundsInv, LoopInv, OutlastInv, PromptInv
  <2>5. HeardInv'
    BY <2>1, <2>2 DEF HeardInv
  <2> QED BY <2>4, <2>5
<1> QED BY <1>1, <1>2, <1>3, <1>4

LEMMA TimeMeant ==
  ASSUME WindowInv, MeantInv, Tick
  PROVE  MeantInv'
<1> USE DEF WindowInv, MeantInv, history
<1>1. /\ left' = Less(left) /\ patience' = [c \in Rounds |-> Less(patience[c])]
      /\ timeout' = [c \in Rounds |-> Less(timeout[c])] /\ framed' = FALSE
      /\ alive /\ ~blocked /\ mic => framed
      /\ alive /\ ~blocked => backlog = <<>>
      /\ UNCHANGED <<alive, mic, blocked, state, owner, detected, backlog, handler, call, sent,
                     history, spent>>
  BY DEF Tick, Running
<1>3. BoundsInv' /\ LoopInv' /\ HeardInv'
  BY <1>1 DEF BoundsInv, LoopInv, HeardInv
<1>4. ASSUME spent["stalls"] = 0, state = "CANCEL_ARMED"
      PROVE  /\ owner \in Rounds /\ left \in Nat /\ left > 0
             /\ patience[owner] \in Nat /\ timeout[owner] \in Nat
             /\ handler[owner] = "polling" /\ patience[owner] >= left + Slack
  <2>1. owner \in Rounds /\ left \in Nat /\ patience[owner] \in Nat /\ timeout[owner] \in Nat
    BY <1>4 DEF ArmedInv, Types
  <2>2. framed
    BY <1>1, <1>4 DEF LoopInv
  <2> QED BY <1>4, <2>1, <2>2 DEF OutlastInv
<1>5. OutlastInv'
  <2> SUFFICES ASSUME spent["stalls"] = 0, state = "CANCEL_ARMED"
               PROVE  handler[owner] = "polling" /\ patience'[owner] >= left' + Slack
    BY <1>1 DEF OutlastInv
  <2>1. left' = left - 1 /\ patience'[owner] = patience[owner] - 1
    <3>1. Less(left) = left - 1 /\ Less(patience[owner]) = patience[owner] - 1
      BY <1>4 DEF Slack, Less
    <3> QED BY <1>1, <1>4, <3>1
  <2> QED BY <1>4, <2>1 DEF Slack
<1>6. PromptInv'
  <2> SUFFICES ASSUME spent["dictations"] = 0 PROVE PromptInv'
    BY <1>1 DEF PromptInv
  <2>1. \A n \in 1..Len(backlog) : FALSE
    <3>1. ~blocked
      BY DEF LoopInv
    <3>2. CASE alive
      <4>1. Len(backlog) = 0
        BY <1>1, <3>1, <3>2
      <4> QED BY <4>1
    <3>3. CASE ~alive
      BY <3>3 DEF PromptInv
    <3> QED BY <3>2, <3>3
  <2>2. ASSUME spent["stalls"] = 0, state = "CANCEL_ARMED"
        PROVE  call[owner] = "calling" /\ timeout'[owner] >= left' + ClientSlack
    <3>1. call[owner] = "calling" /\ timeout[owner] >= left + ClientSlack
      BY <2>2 DEF PromptInv
    <3>2. left' = left - 1 /\ timeout'[owner] = timeout[owner] - 1
      <4>1. Less(left) = left - 1 /\ Less(timeout[owner]) = timeout[owner] - 1
        BY <1>4, <2>2, <3>1 DEF ClientSlack, Less
      <4> QED BY <1>1, <1>4, <2>2, <4>1
    <3> QED BY <1>4, <2>2, <3>1, <3>2 DEF ClientSlack
  <2> QED BY <1>1, <2>1, <2>2 DEF PromptInv
<1> QED BY <1>3, <1>5, <1>6

LEMMA MeantStep ==
  OneRouter /\ Heedful /\ WindowInv /\ MeantInv /\ [Next]_vars => MeantInv'
<1>1. ASSUME MeantInv, UNCHANGED vars PROVE MeantInv'
  BY <1>1 DEF vars, daemonVars, socketVars, routerVars, history, MeantInv, BoundsInv, LoopInv,
              OutlastInv, HeardInv, PromptInv
<1> QED BY <1>1, RouterMeant, RequestMeant, AnswerMeant, FramesMeant, WorldMeant, TimeMeant
        DEF Next, HandlerMoves

(* While frames arrive a plan goes to a real target only after a window    *)
(* that was listened to up to its deadline, and, without dictations, none  *)
(* is open that no router waits for.                                       *)
THEOREM WindowsMatter ==
  ASSUME OneRouter, Heedful
  PROVE  Spec => []WindowsAreMeant
<1>1. WindowInv /\ MeantInv => WindowsAreMeant
  BY DEF WindowInv, Types, MeantInv, HeardInv, PromptInv, WindowsAreMeant
<1>2. (WindowInv /\ MeantInv) /\ [Next]_vars => (WindowInv /\ MeantInv)'
  BY WindowStep, MeantStep
<1> QED BY <1>1, <1>2, WindowStart, MeantStart, PTL DEF Spec

-----------------------------------------------------------------------------
(* Dictation *)

Heards == Sounds \cup {Quiet}

HearingTypes ==
  /\ mode \in {"live", "simulate"}
  /\ phase \in {"IDLE", "CAPTURING", "over"}
  /\ echo \in BOOLEAN /\ hold \in BOOLEAN /\ called \in BOOLEAN
  /\ sounds \in 0..MaxSounds /\ said \in Nat /\ said <= sounds /\ last \in Heards
  /\ preroll \in 0..Forgotten
  /\ buf \in Seq(Heards) /\ silence \in Nat /\ hush \in 0..Longest
  /\ transcript \in Seq(Nat) /\ dropped \subseteq Nat /\ stripped \subseteq Nat
  /\ ending \in [how : {"none", "stop", "silence", "eof"}, hush : Nat]

(* The acoustic model holds nothing from before the daemon went idle. *)
CallInv == (echo => called) /\ (phase = "CAPTURING" => called)

(* The run of silence is the quiet end of the buffer, or all of it. *)
ChunkInv ==
  /\ Len(buf) < MaxChunk /\ silence <= Len(buf)
  /\ Spoken(buf) = {} => silence = Len(buf)
  /\ phase # "CAPTURING" => buf = <<>>
  /\ \A i \in Spoken(buf) : i <= Len(buf) - silence

(* A chunk with speech in it is cut at the first pause, so the chunker's   *)
(* count of silence, which begins anew at each cut, is at most one pause   *)
(* behind; unless a hold is armed and the length cuts silence itself.      *)
HushInv ==
  phase = "CAPTURING" =>
    /\ silence <= hush /\ silence < SilenceLimit
    /\ Spoken(buf) # {} => silence < SilenceToCut /\ hush = silence
    /\ Spoken(buf) = {} /\ ~hold => hush <= silence + SilenceToCut

(* The first n frames said are in the transcript, in order, or dropped. *)
Accounted(t, d, n) ==
  /\ Range(t) \cup d = 1..n /\ Range(t) \cap d = {}
  /\ \A i, j \in DOMAIN t : i < j => t[i] < t[j]

(* Those in the buffer and those of the stop phrase are the last ones. *)
WordsInv ==
  /\ Cardinality(Spoken(buf)) <= said
  /\ \/ stripped = {} /\ Accounted(transcript, dropped, said - Cardinality(Spoken(buf)))
     \/ /\ phase # "CAPTURING" /\ said >= 2 /\ stripped = {said - 1, said}
        /\ Accounted(transcript, dropped, said - 2)

EndInv ==
  /\ ending.how = "stop" => ending.hush >= SilenceToCut
  /\ ending.how = "silence" /\ phase = "IDLE" =>
       ending.hush >= IF transcript = <<>> THEN OpeningGrace ELSE SafetyNet

-----------------------------------------------------------------------------
(* Chunks *)

LEMMA Thresholds ==
  /\ MinSpeech \in Nat /\ MinChunk \in Nat /\ SilenceToCut \in Nat /\ MaxChunk \in Nat
  /\ SafetyNet \in Nat /\ OpeningGrace \in Nat /\ HoldTime \in Nat
  /\ MaxSounds \in Nat /\ Forgotten \in Nat /\ Longest \in Nat
  /\ 0 < MinSpeech /\ MinChunk <= SilenceToCut /\ 0 < SilenceToCut /\ SilenceToCut < SafetyNet
  /\ SafetyNet < OpeningGrace /\ OpeningGrace < MaxChunk /\ MaxChunk < HoldTime
  /\ Longest = SilenceToCut + HoldTime + 1
BY DictationAssumption DEF DictationAssumption, ChunkThresholds, SilenceLimits, Forgotten, Longest

LEMMA SpokenFacts ==
  ASSUME NEW b \in Seq(Heards)
  PROVE  /\ IsFiniteSet(Spoken(b)) /\ Spoken(b) \subseteq 1..Len(b)
         /\ Cardinality(Spoken(b)) \in Nat
         /\ Cardinality(Spoken(b)) = 0 <=> Spoken(b) = {}
<1>1. Spoken(b) \subseteq 1..Len(b)
  BY DEF Spoken
<1>2. IsFiniteSet(1..Len(b))
  BY FS_Interval
<1>3. IsFiniteSet(Spoken(b))
  BY <1>1, <1>2, FS_Subset
<1> QED BY <1>1, <1>3, FS_CardinalityType, FS_EmptySet

LEMMA PushedFacts ==
  ASSUME HearingTypes, NEW s \in Heards
  PROVE  /\ Pushed(s) \in Seq(Heards) /\ Len(Pushed(s)) = Len(buf) + 1
         /\ Spoken(Pushed(s)) = IF IsSpeech(s) THEN Spoken(buf) \cup {Len(buf) + 1} ELSE Spoken(buf)
         /\ SaidNow(s) - Cardinality(Spoken(Pushed(s))) = said - Cardinality(Spoken(buf))
         /\ SaidNow(s) \in Nat /\ Cardinality(Spoken(Pushed(s))) \in Nat
<1>0. buf \in Seq(Heards) /\ said \in Nat
  BY DEF HearingTypes
<1>1. /\ Pushed(s) \in Seq(Heards) /\ Len(Pushed(s)) = Len(buf) + 1
      /\ Pushed(s)[Len(buf) + 1] = s /\ \A i \in 1..Len(buf) : Pushed(s)[i] = buf[i]
  BY <1>0 DEF Pushed
<1>2. Spoken(Pushed(s)) = IF IsSpeech(s) THEN Spoken(buf) \cup {Len(buf) + 1} ELSE Spoken(buf)
  <2>1. DOMAIN Pushed(s) = 1..(Len(buf) + 1) /\ DOMAIN buf = 1..Len(buf) /\ Len(buf) \in Nat
    BY <1>0, <1>1
  <2>2. \A i : i \in 1..(Len(buf) + 1) <=> i \in 1..Len(buf) \/ i = Len(buf) + 1
    BY <2>1
  <2> QED BY <1>1, <2>1, <2>2 DEF Spoken
<1>3. /\ IsFiniteSet(Spoken(buf)) /\ Cardinality(Spoken(buf)) \in Nat /\ Len(buf) + 1 \notin Spoken(buf)
  BY <1>0, SpokenFacts
<1>4. Cardinality(Spoken(Pushed(s))) = Cardinality(Spoken(buf)) + IF IsSpeech(s) THEN 1 ELSE 0
  <2>1. Cardinality(Spoken(buf) \cup {Len(buf) + 1}) = Cardinality(Spoken(buf)) + 1
    BY <1>3, FS_AddElement
  <2> QED BY <1>2, <1>3, <2>1
<1> QED BY <1>0, <1>1, <1>2, <1>3, <1>4 DEF SaidNow

LEMMA PhraseIsTwo ==
  ASSUME NEW b \in Seq(Heards), NEW phrase, EndsWith(b, phrase)
  PROVE  Cardinality(Spoken(b)) >= 2
<1> PICK i, j \in Spoken(b) : i < j
  BY DEF EndsWith
<1>1. i # j
  BY SpokenFacts
<1>2. Cardinality({i, j}) = 2
  <2>1. IsFiniteSet({i}) /\ Cardinality({i}) = 1 /\ {i, j} = {i} \cup {j} /\ j \notin {i}
    BY <1>1, FS_Singleton
  <2>2. Cardinality({i} \cup {j}) = Cardinality({i}) + 1
    BY <2>1, FS_AddElement
  <2> QED BY <2>1, <2>2
<1>3. Cardinality({i, j}) <= Cardinality(Spoken(b))
  BY SpokenFacts, FS_Subset
<1> QED BY <1>2, <1>3, SpokenFacts

LEMMA FramesFacts ==
  ASSUME NEW b \in Seq(Heards), NEW n \in Nat, Cardinality(Spoken(b)) <= n
  PROVE  /\ Frames(b, n) \in Seq(Nat) /\ Len(Frames(b, n)) = Cardinality(Spoken(b))
         /\ \A i \in 1..Cardinality(Spoken(b)) : Frames(b, n)[i] = n - Cardinality(Spoken(b)) + i
         /\ Range(Frames(b, n)) = (n - Cardinality(Spoken(b)) + 1)..n
<1> DEFINE k == Cardinality(Spoken(b))
<1>1. k \in Nat /\ k <= n
  BY SpokenFacts
<1>2. Frames(b, n) = [i \in 1..k |-> n - k + i]
  BY DEF Frames
<1> HIDE DEF k
<1>3. Frames(b, n) \in [1..k -> Nat]
  BY <1>1, <1>2
<1>4. Frames(b, n) \in Seq(Nat) /\ Len(Frames(b, n)) = k
  BY <1>1, <1>3
<1>5. Range(Frames(b, n)) = (n - k + 1)..n
  <2>1. \A x \in (n - k + 1)..n : x - (n - k) \in 1..k /\ x = n - k + (x - (n - k))
    BY <1>1
  <2>2. \A i \in 1..k : n - k + i \in (n - k + 1)..n
    BY <1>1
  <2> QED BY <1>2, <2>1, <2>2 DEF Range
<1> QED BY <1>2, <1>4, <1>5 DEF k

-----------------------------------------------------------------------------
(* Accounts *)

LEMMA DroppedAccounted ==
  ASSUME NEW t, NEW d, NEW n \in Nat, NEW k \in Nat, Accounted(t, d, n)
  PROVE  Accounted(t, d \cup (n + 1)..(n + k), n + k)
<1>1. \A x : x \in 1..(n + k) <=> x \in 1..n \/ x \in (n + 1)..(n + k)
  OBVIOUS
<1>2. \A x \in (n + 1)..(n + k) : x \notin 1..n
  OBVIOUS
<1>3. Range(t) \subseteq 1..n /\ Range(t) \cup d = 1..n /\ Range(t) \cap d = {}
  BY DEF Accounted
<1>4. Range(t) \cup (d \cup (n + 1)..(n + k)) = 1..(n + k)
  BY <1>1, <1>3
<1>5. Range(t) \cap (d \cup (n + 1)..(n + k)) = {}
  BY <1>2, <1>3
<1> QED BY <1>4, <1>5 DEF Accounted

LEMMA KeptAccounted ==
  ASSUME NEW t \in Seq(Nat), NEW d, NEW n \in Nat, NEW f \in Seq(Nat), Accounted(t, d, n),
         \A i \in 1..Len(f) : f[i] = n + i
  PROVE  Accounted(t \o f, d, n + Len(f)) /\ t \o f \in Seq(Nat)
<1> DEFINE g == t \o f
<1>1. /\ g \in Seq(Nat) /\ Len(g) = Len(t) + Len(f) /\ Len(t) \in Nat /\ Len(f) \in Nat
      /\ DOMAIN t = 1..Len(t) /\ DOMAIN g = 1..Len(g)
      /\ \A i \in 1..Len(t) : g[i] = t[i]
      /\ \A i \in 1..Len(g) : i > Len(t) => g[i] = n + (i - Len(t))
  BY ConcatProperties
<1> HIDE DEF g
<1>2. Range(t) \subseteq 1..n /\ Range(t) \cup d = 1..n /\ Range(t) \cap d = {}
  BY DEF Accounted
<1>3. \A i \in 1..Len(t) : t[i] \in 1..n
  BY <1>2 DEF Range
<1>4. Range(g) = Range(t) \cup (n + 1)..(n + Len(f))
  <2>1. \A i \in 1..Len(g) : g[i] \in Range(t) \cup (n + 1)..(n + Len(f))
    <3> SUFFICES ASSUME NEW i \in 1..Len(g) PROVE g[i] \in Range(t) \cup (n + 1)..(n + Len(f))
      OBVIOUS
    <3>1. CASE i \in 1..Len(t)
      <4>1. t[i] \in Range(t)
        BY <1>1, <3>1 DEF Range
      <4> QED BY <1>1, <3>1, <4>1
    <3>2. CASE i > Len(t)
      BY <1>1, <3>2
    <3> QED BY <1>1, <3>1, <3>2
  <2>2. \A x \in Range(t) : \E i \in 1..Len(g) : g[i] = x
    <3>1. \A i \in 1..Len(t) : i \in 1..Len(g)
      BY <1>1
    <3>2. \A x \in Range(t) : \E i \in 1..Len(t) : t[i] = x
      BY <1>1 DEF Range
    <3> QED BY <1>1, <3>1, <3>2
  <2>3. \A x \in (n + 1)..(n + Len(f)) : \E i \in 1..Len(g) : g[i] = x
    <3> SUFFICES ASSUME NEW x \in (n + 1)..(n + Len(f)) PROVE \E i \in 1..Len(g) : g[i] = x
      OBVIOUS
    <3>1. x - n + Len(t) \in 1..Len(g) /\ x - n + Len(t) > Len(t) /\ n + ((x - n + Len(t)) - Len(t)) = x
      BY <1>1
    <3> QED BY <1>1, <3>1
  <2>4. DOMAIN g = 1..Len(g)
    BY <1>1
  <2> QED BY <2>1, <2>2, <2>3, <2>4 DEF Range
<1>5. \A x : x \in 1..(n + Len(f)) <=> x \in 1..n \/ x \in (n + 1)..(n + Len(f))
  BY <1>1
<1>6. \A x \in (n + 1)..(n + Len(f)) : x \notin 1..n
  BY <1>1
<1>7. Range(g) \cup d = 1..(n + Len(f))
  BY <1>2, <1>4, <1>5
<1>8. Range(g) \cap d = {}
  BY <1>2, <1>4, <1>6
<1>9. \A i, j \in 1..Len(g) : i < j => g[i] < g[j]
  <2> SUFFICES ASSUME NEW i \in 1..Len(g), NEW j \in 1..Len(g), i < j PROVE g[i] < g[j]
    OBVIOUS
  <2>1. CASE j \in 1..Len(t)
    <3>0. i \in 1..Len(t)
      BY <1>1, <2>1
    <3>1. i \in 1..Len(t) /\ g[i] = t[i] /\ g[j] = t[j]
      BY <1>1, <2>1, <3>0
    <3> QED BY <1>1, <2>1, <3>1 DEF Accounted
  <2>2. CASE i \in 1..Len(t) /\ j > Len(t)
    <3>1. g[i] \in 1..n /\ g[j] = n + (j - Len(t))
      BY <1>1, <1>3, <2>2
    <3> QED BY <1>1, <2>2, <3>1
  <2>3. CASE i > Len(t)
    <3>0. i \in Nat /\ j \in Nat /\ Len(t) \in Nat /\ j > Len(t)
      BY <1>1, <2>3
    <3>1. g[i] = n + (i - Len(t)) /\ g[j] = n + (j - Len(t))
      BY <1>1, <2>3, <3>0
    <3> QED BY <3>0, <3>1
  <2> QED BY <1>1, <2>1, <2>2, <2>3
<1>10. Accounted(g, d, n + Len(f))
  BY <1>1, <1>7, <1>8, <1>9 DEF Accounted
<1> QED BY <1>1, <1>10 DEF g

LEMMA ChunkAccounted ==
  ASSUME NEW t \in Seq(Nat), NEW d, NEW b \in Seq(Heards), NEW m \in Nat,
         Cardinality(Spoken(b)) <= m, Accounted(t, d, m - Cardinality(Spoken(b)))
  PROVE  /\ Accounted(t, d \cup Range(Frames(b, m)), m) /\ Range(Frames(b, m)) \subseteq Nat
         /\ Accounted(t \o Frames(b, m), d, m) /\ t \o Frames(b, m) \in Seq(Nat)
         /\ Stops(b) => /\ Accounted(t \o StripStopPhrase(Frames(b, m)), d, m - 2) /\ m >= 2
                        /\ t \o StripStopPhrase(Frames(b, m)) \in Seq(Nat)
<1> DEFINE k == Cardinality(Spoken(b))
           n == m - k
           f == Frames(b, m)
<1>1. k \in Nat /\ n \in Nat /\ n + k = m
  BY SpokenFacts
<1>2. /\ f \in Seq(Nat) /\ Len(f) = k /\ Range(f) = (n + 1)..(n + k) /\ Accounted(t, d, n)
      /\ \A i \in 1..k : f[i] = n + i
  BY <1>1, FramesFacts
<1>3. Stops(b) => k >= 2
  BY PhraseIsTwo DEF Stops
<1> HIDE DEF k, n, f
<1>4. Accounted(t, d \cup Range(f), m)
  BY <1>1, <1>2, DroppedAccounted
<1>5. Accounted(t \o f, d, m) /\ t \o f \in Seq(Nat)
  BY <1>1, <1>2, KeptAccounted
<1>6. ASSUME k >= 2
      PROVE  /\ Accounted(t \o StripStopPhrase(f), d, m - 2) /\ m >= 2
             /\ t \o StripStopPhrase(f) \in Seq(Nat)
  <2>1. StripStopPhrase(f) = SubSeq(f, 1, k - 2) /\ k - 2 \in 0..Len(f)
    BY <1>1, <1>2, <1>6 DEF StripStopPhrase, StopPhrase
  <2>2. /\ SubSeq(f, 1, k - 2) \in Seq(Nat) /\ Len(SubSeq(f, 1, k - 2)) = k - 2
        /\ \A i \in 1..(k - 2) : SubSeq(f, 1, k - 2)[i] = n + i
    BY <1>1, <1>2, <1>6
  <2>3. n + (k - 2) = m - 2 /\ m >= 2
    BY <1>1, <1>6
  <2> DEFINE g == SubSeq(f, 1, k - 2)
  <2> HIDE DEF g
  <2>4. g \in Seq(Nat) /\ Len(g) = k - 2 /\ \A i \in 1..Len(g) : g[i] = n + i
    BY <2>2 DEF g
  <2>5. Accounted(t \o g, d, n + Len(g)) /\ t \o g \in Seq(Nat)
    BY ONLY <1>1, <1>2, <2>4, KeptAccounted, t \in Seq(Nat)
  <2> QED BY <2>1, <2>3, <2>4, <2>5 DEF g
<1>7. Range(f) \subseteq Nat
  BY <1>1, <1>2
<1> QED BY <1>3, <1>4, <1>5, <1>6, <1>7 DEF f, k

LEMMA NoneSpoken == Spoken(<<>>) = {} /\ Cardinality(Spoken(<<>>)) = 0 /\ <<>> \in Seq(Heards)
BY FS_EmptySet DEF Spoken

-----------------------------------------------------------------------------
(* Silence *)

Hush(s) == IF IsSpeech(s) THEN 0 ELSE IF hush < Longest THEN hush + 1 ELSE hush

LEMMA LimitFacts ==
  /\ SilenceLimit \in Nat /\ SafetyNet <= SilenceLimit /\ SilenceLimit <= HoldTime
  /\ ~hold => SilenceLimit <= OpeningGrace
  /\ transcript = <<>> => OpeningGrace <= SilenceLimit
BY Thresholds DEF SilenceLimit

LEMMA SilenceFacts ==
  ASSUME HearingTypes, ChunkInv, HushInv, phase = "CAPTURING", NEW s \in Heards
  PROVE  /\ Run(s) \in Nat /\ Hush(s) \in 0..Longest /\ Run(s) <= Hush(s)
         /\ Spoken(Pushed(s)) # {} => /\ Hush(s) = Run(s) /\ Run(s) <= SilenceToCut
                                      /\ Hush(s) = IF IsSpeech(s) THEN 0 ELSE hush + 1
                                      /\ ~Cuts(s) => Run(s) < SilenceToCut
         /\ Spoken(Pushed(s)) = {} => /\ Run(s) = Len(buf) + 1 /\ ~IsSpeech(s)
                                      /\ ~hold => Hush(s) <= Run(s) + SilenceToCut
         /\ Cuts(s) /\ (~hold \/ Spoken(Pushed(s)) # {}) => Hush(s) <= SilenceToCut
         /\ CutsOnSilence(s) => Hush(s) >= SilenceToCut
         /\ ~Cuts(s) => Len(buf) + 1 < MaxChunk
         /\ TimeIsUp(s) => ~IsSpeech(s)
<1>1. /\ silence \in Nat /\ hush \in Nat /\ hush <= Longest /\ Len(buf) \in Nat /\ silence <= Len(buf)
      /\ Spoken(buf) = {} => silence = Len(buf)
      /\ silence <= hush /\ silence < SilenceLimit
      /\ Spoken(buf) # {} => silence < SilenceToCut /\ hush = silence
      /\ Spoken(buf) = {} /\ ~hold => hush <= silence + SilenceToCut
  BY Thresholds DEF HearingTypes, ChunkInv, HushInv
<1>2. /\ Len(Pushed(s)) = Len(buf) + 1
      /\ ~IsSpeech(s) => Spoken(Pushed(s)) = Spoken(buf)
      /\ IsSpeech(s) => Spoken(Pushed(s)) # {}
  BY PushedFacts
<1>3. CASE IsSpeech(s)
  <2>1. Run(s) = 0 /\ Hush(s) = 0
    BY <1>3 DEF Run, Hush
  <2> QED BY <1>1, <1>2, <1>3, <2>1, Thresholds, LimitFacts DEF Cuts, CutsOnSilence, CutsOnLength, TimeIsUp
<1>4. CASE ~IsSpeech(s)
  <2>1. Run(s) = silence + 1 /\ Hush(s) = IF hush < Longest THEN hush + 1 ELSE hush
    BY <1>4 DEF Run, Hush
  <2>2. Run(s) <= Longest
    BY <1>1, <2>1, Thresholds, LimitFacts
  <2>3. CASE Spoken(buf) # {}
    <3>1. hush < Longest /\ Hush(s) = Run(s) /\ Run(s) <= SilenceToCut
      BY <1>1, <2>1, <2>3, Thresholds
    <3>2. Run(s) = SilenceToCut => CutsOnSilence(s)
      BY <1>1, <1>2, <1>4, <2>1, <2>3, Thresholds DEF CutsOnSilence
    <3> QED BY <1>1, <1>2, <1>4, <2>1, <2>3, <3>1, <3>2, Thresholds DEF Cuts, CutsOnSilence, CutsOnLength
  <2>4. CASE Spoken(buf) = {}
    <3>1. ~CutsOnSilence(s)
      BY <1>2, <1>4, <2>4 DEF CutsOnSilence
    <3>2. ~hold => ~CutsOnLength(s)
      BY <1>1, <1>2, <2>4, Thresholds, LimitFacts DEF CutsOnLength
    <3> QED BY <1>1, <1>2, <1>4, <2>1, <2>2, <2>4, <3>1, <3>2, Thresholds DEF Cuts, CutsOnLength
  <2> QED BY <2>3, <2>4
<1> QED BY <1>3, <1>4

LEMMA ResetFacts ==
  ASSUME ResetBuffer, hush' \in Nat, hold' \in BOOLEAN, ~hold' => hush' <= SilenceToCut
  PROVE  ChunkInv' /\ HushInv'
<1>1. buf' = <<>> /\ silence' = 0
  BY DEF ResetBuffer
<1>2. Spoken(buf)' = {} /\ Len(buf') = 0
  BY <1>1, NoneSpoken DEF Spoken
<1>3. 0 < SilenceLimit'
  BY Thresholds DEF SilenceLimit
<1> QED BY <1>1, <1>2, <1>3, Thresholds DEF ChunkInv, HushInv

-----------------------------------------------------------------------------
(* Steps *)

DictationInv == HearingTypes /\ CallInv /\ ChunkInv /\ HushInv /\ WordsInv /\ EndInv

LEMMA HeardFacts ==
  ASSUME HearingTypes, NEW s \in Heards, Heard(s)
  PROVE  /\ mode' \in {"live", "simulate"} /\ last' \in Heards /\ sounds' \in 0..MaxSounds
         /\ SaidNow(s) \in Nat /\ SaidNow(s) <= sounds' /\ Roll(s) \in 0..Forgotten
<1>1. sounds \in Nat /\ sounds <= MaxSounds /\ said \in Nat /\ said <= sounds
  BY Thresholds DEF HearingTypes
<1>2. sounds' = (IF s = Quiet THEN sounds ELSE sounds + 1) /\ (s # Quiet => sounds < MaxSounds)
      /\ mode' = mode /\ last' = s
  BY DEF Heard
<1>3. sounds' \in 0..MaxSounds /\ SaidNow(s) \in Nat /\ SaidNow(s) <= sounds'
  BY <1>1, <1>2, Thresholds DEF SaidNow, IsSpeech
<1>4. Roll(s) \in 0..Forgotten
  BY Thresholds DEF HearingTypes, Roll
<1> QED BY <1>2, <1>3, <1>4 DEF HearingTypes

LEMMA ListenKeeps ==
  ASSUME DictationInv, NEW s \in Heards, ListenFrame(s)
  PROVE  DictationInv'
<1>0. /\ HearingTypes /\ CallInv /\ ChunkInv /\ HushInv /\ WordsInv /\ EndInv
      /\ phase = "IDLE" /\ Heard(s) /\ called' = (called \/ s \in WakeLike) /\ ending' = ending
  BY DEF DictationInv, ListenFrame
<1>1. /\ echo' \in BOOLEAN /\ called' \in BOOLEAN /\ (echo' => called')
      /\ phase' = "CAPTURING" => called'
  BY <1>0 DEF ListenFrame, Scores, CallInv, HearingTypes
<1>2. CASE phase' = "CAPTURING" /\ preroll' = Forgotten /\ NewSession
  <2>1. buf' = <<>> /\ silence' = 0 /\ hold' = FALSE /\ transcript' = <<>>
        /\ said' = 0 /\ dropped' = {} /\ stripped' = {} /\ hush' = 0
    BY <1>2 DEF NewSession
  <2>2. HearingTypes'
    <3>1. /\ mode' \in {"live", "simulate"} /\ last' \in Heards /\ sounds' \in 0..MaxSounds
          /\ preroll' \in 0..Forgotten /\ said' <= sounds' /\ hush' \in 0..Longest
      BY <1>0, <1>2, <2>1, HeardFacts, Thresholds
    <3>2. /\ buf' \in Seq(Heards) /\ transcript' \in Seq(Nat) /\ ending' = ending
          /\ dropped' \subseteq Nat /\ stripped' \subseteq Nat
      BY <1>0, <2>1
    <3> QED BY <1>0, <1>1, <1>2, <2>1, <3>1, <3>2 DEF HearingTypes
  <2>3. ChunkInv' /\ HushInv'
    <3>1. ResetBuffer /\ hold' \in BOOLEAN
      BY <2>1 DEF ResetBuffer
    <3>2. hush' \in Nat /\ hush' <= SilenceToCut
      BY <2>1, Thresholds
    <3> QED BY <3>1, <3>2, ResetFacts
  <2>4. WordsInv'
    <3>1. Cardinality(Spoken(buf))' = 0 /\ said' - 0 = 0
      BY <2>1, NoneSpoken DEF Spoken
    <3>2. Accounted(transcript, dropped, 0)'
      BY <2>1 DEF Accounted, Range
    <3> QED BY <2>1, <3>1, <3>2 DEF WordsInv
  <2>5. CallInv' /\ EndInv'
    BY <1>0, <1>1, <1>2 DEF CallInv, EndInv
  <2> QED BY <2>2, <2>3, <2>4, <2>5 DEF DictationInv
<1>3. CASE preroll' = Roll(s) /\ UNCHANGED <<phase, session>>
  <2>1. UNCHANGED <<buf, silence, hold, transcript, said, dropped, stripped, hush>>
    BY <1>3 DEF session
  <2>2. HearingTypes'
    <3>1. /\ mode' \in {"live", "simulate"} /\ last' \in Heards /\ sounds' \in 0..MaxSounds
          /\ preroll' \in 0..Forgotten /\ sounds <= sounds'
      BY <1>0, <1>3, HeardFacts, Thresholds DEF Heard, HearingTypes
    <3>2. said' <= sounds'
      BY <1>0, <2>1, <3>1 DEF HearingTypes
    <3> QED BY <1>0, <1>1, <1>3, <2>1, <3>1, <3>2 DEF HearingTypes
  <2> QED BY <1>0, <1>1, <1>3, <2>1, <2>2
          DEF DictationInv, CallInv, ChunkInv, HushInv, WordsInv, EndInv, SilenceLimit
<1> QED BY <1>2, <1>3 DEF ListenFrame

(* What every frame of a dictation does. *)
LEMMA HearFacts ==
  ASSUME DictationInv, phase = "CAPTURING", NEW s \in Heards, Hear(s)
  PROVE  /\ mode' \in {"live", "simulate"} /\ last' \in Heards /\ sounds' \in 0..MaxSounds
         /\ said' = SaidNow(s) /\ said' \in Nat /\ said' <= sounds' /\ preroll' \in 0..Forgotten
         /\ hush' = Hush(s) /\ hush' \in 0..Longest /\ hush' \in Nat
         /\ echo' = echo /\ called' = called /\ echo' \in BOOLEAN /\ called' \in BOOLEAN
         /\ CallInv /\ called
<1>1. HearingTypes /\ ChunkInv /\ HushInv /\ CallInv /\ Heard(s)
  BY DEF DictationInv, Hear
<1>2. hush' = Hush(s) /\ Hush(s) \in 0..Longest
  BY <1>1, SilenceFacts DEF Hear, Hush
<1>3. hush' \in Nat
  BY <1>2, Thresholds
<1> QED BY <1>1, <1>2, <1>3, HeardFacts DEF Hear, HearingTypes, CallInv

(* The accounts before a chunk is cut, and with it. *)
LEMMA ChunkFacts ==
  ASSUME DictationInv, phase = "CAPTURING", NEW s \in Heards
  PROVE  LET f == Frames(Pushed(s), SaidNow(s))
         IN /\ stripped = {} /\ Range(f) \subseteq Nat
            /\ Accounted(transcript, dropped, SaidNow(s) - Cardinality(Spoken(Pushed(s))))
            /\ Cardinality(Spoken(Pushed(s))) <= SaidNow(s)
            /\ Accounted(transcript, dropped \cup Range(f), SaidNow(s))
            /\ Accounted(transcript \o f, dropped, SaidNow(s)) /\ transcript \o f \in Seq(Nat)
            /\ Stops(Pushed(s)) =>
                 /\ Accounted(transcript \o StripStopPhrase(f), dropped, SaidNow(s) - 2)
                 /\ SaidNow(s) >= 2 /\ transcript \o StripStopPhrase(f) \in Seq(Nat)
<1>1. HearingTypes /\ WordsInv /\ stripped = {} /\ transcript \in Seq(Nat) /\ said \in Nat
  BY DEF DictationInv, WordsInv, HearingTypes
<1>2. /\ Cardinality(Spoken(buf)) \in Nat /\ Cardinality(Spoken(buf)) <= said
      /\ Accounted(transcript, dropped, said - Cardinality(Spoken(buf)))
  BY <1>1, SpokenFacts DEF WordsInv, HearingTypes
<1>3. /\ Pushed(s) \in Seq(Heards) /\ SaidNow(s) \in Nat /\ Cardinality(Spoken(Pushed(s))) \in Nat
      /\ SaidNow(s) - Cardinality(Spoken(Pushed(s))) = said - Cardinality(Spoken(buf))
  BY <1>1, PushedFacts
<1>4. Cardinality(Spoken(Pushed(s))) <= SaidNow(s)
  BY <1>1, <1>2, <1>3
<1> QED BY <1>1, <1>2, <1>3, <1>4, ChunkAccounted

LEMMA BufferKeeps ==
  ASSUME DictationInv, NEW s \in Heards, BufferFrame(s)
  PROVE  DictationInv'
<1>0. /\ HearingTypes /\ CallInv /\ ChunkInv /\ HushInv /\ WordsInv /\ EndInv
      /\ phase = "CAPTURING" /\ Hear(s) /\ ~Cuts(s) /\ ~TimeIsUp(s)
      /\ buf' = Pushed(s) /\ silence' = Run(s)
      /\ UNCHANGED <<phase, hold, transcript, dropped, stripped, ending>>
  BY DEF DictationInv, BufferFrame, Buffer
<1>1. HearingTypes' /\ CallInv'
  BY <1>0, HearFacts, PushedFacts, SilenceFacts DEF HearingTypes, CallInv
<1>2. ChunkInv'
  <2>1. Len(buf') < MaxChunk /\ Len(buf') = Len(buf) + 1 /\ Len(buf) \in Nat /\ silence \in Nat
    <3>1. Len(buf) \in Nat /\ silence \in Nat
      BY <1>0 DEF HearingTypes
    <3> QED BY <1>0, <3>1, PushedFacts, SilenceFacts
  <2>2. silence' <= Len(buf') /\ (Spoken(buf') = {} => silence' = Len(buf'))
    BY <1>0, <2>1, SilenceFacts DEF ChunkInv, Run
  <2>3. \A i \in Spoken(buf') : i <= Len(buf') - silence'
    <3>1. Spoken(buf) \subseteq 1..Len(buf)
      BY <1>0, SpokenFacts DEF HearingTypes
    <3>2. \A i \in Spoken(buf) : i \in Nat /\ i <= Len(buf) - silence /\ i <= Len(buf)
      BY <1>0, <2>1, <3>1 DEF ChunkInv
    <3>3. CASE IsSpeech(s)
      <4>1. silence' = 0 /\ Spoken(buf') = Spoken(buf) \cup {Len(buf) + 1}
        BY <1>0, <3>3, PushedFacts DEF Run
      <4> QED BY <2>1, <3>2, <4>1
    <3>4. CASE ~IsSpeech(s)
      <4>1. silence' = silence + 1 /\ Spoken(buf') = Spoken(buf)
        BY <1>0, <3>4, PushedFacts DEF Run
      <4> QED BY <2>1, <3>2, <4>1
    <3> QED BY <3>3, <3>4
  <2> QED BY <1>0, <2>1, <2>2, <2>3 DEF ChunkInv
<1>3. HushInv'
  <2>1. silence' < SilenceLimit'
    BY <1>0, LimitFacts, SilenceFacts DEF TimeIsUp, SilenceLimit
  <2> QED BY <1>0, <2>1, HearFacts, SilenceFacts DEF HushInv
<1>4. WordsInv'
  BY <1>0, ChunkFacts, HearFacts DEF WordsInv
<1>5. EndInv'
  BY <1>0 DEF EndInv
<1> QED BY <1>1, <1>2, <1>3, <1>4, <1>5 DEF DictationInv

(* A chunk that was cut leaves nothing behind. *)
LEMMA CutKeeps ==
  ASSUME DictationInv, phase = "CAPTURING", NEW s \in Heards, Cuts(s), Hear(s), ResetBuffer,
         hold' \in BOOLEAN, ~hold' => ~hold \/ Spoken(Pushed(s)) # {},
         transcript' \in Seq(Nat), dropped' \subseteq Nat, Accounted(transcript, dropped, said)',
         UNCHANGED <<phase, stripped, ending>>
  PROVE  DictationInv'
<1>0. HearingTypes /\ ChunkInv /\ HushInv /\ EndInv /\ stripped = {} /\ buf' = <<>> /\ silence' = 0
  BY DEF DictationInv, WordsInv, ResetBuffer
<1>1. HearingTypes' /\ CallInv'
  BY <1>0, HearFacts, NoneSpoken DEF HearingTypes, CallInv
<1>2. ChunkInv' /\ HushInv'
  BY <1>0, HearFacts, SilenceFacts, ResetFacts
<1>3. WordsInv'
  <2>1. Cardinality(Spoken(buf))' = 0 /\ said' - 0 = said' /\ 0 <= said'
    BY <1>0, NoneSpoken, HearFacts DEF Spoken
  <2> QED BY <1>0, <2>1 DEF WordsInv
<1>4. EndInv'
  BY <1>0 DEF EndInv
<1> QED BY <1>1, <1>2, <1>3, <1>4 DEF DictationInv

LEMMA ChunksKeep ==
  ASSUME DictationInv, NEW s \in Heards, DropChunk(s) \/ FilterChunk(s) \/ KeepChunk(s)
  PROVE  DictationInv'
<1>0. /\ phase = "CAPTURING" /\ Hear(s) /\ Cuts(s) /\ ResetBuffer /\ UNCHANGED <<phase, stripped, ending>>
      /\ transcript \in Seq(Nat) /\ dropped \subseteq Nat /\ hold \in BOOLEAN
  BY DEF DropChunk, FilterChunk, KeepChunk, DictationInv, HearingTypes
<1>1. said' = SaidNow(s)
  BY <1>0, HearFacts
<1>2. Gate(Pushed(s)) => Spoken(Pushed(s)) # {}
  <2>1. Pushed(s) \in Seq(Heards)
    BY PushedFacts DEF DictationInv
  <2> QED BY <2>1, SpokenFacts, Thresholds DEF Gate
<1>3. CASE KeepChunk(s)
  <2>1. /\ transcript' = transcript \o Frames(Pushed(s), SaidNow(s)) /\ dropped' = dropped
        /\ hold' \in BOOLEAN /\ Gate(Pushed(s))
    BY <1>3 DEF KeepChunk
  <2>2. Accounted(transcript, dropped, said)' /\ transcript' \in Seq(Nat)
    BY <1>0, <1>1, <2>1, ChunkFacts DEF Accounted
  <2> QED BY <1>0, <1>2, <2>1, <2>2, CutKeeps
<1>4. CASE DropChunk(s) \/ FilterChunk(s)
  <2>1. /\ dropped' = dropped \cup Range(Frames(Pushed(s), SaidNow(s))) /\ transcript' = transcript
        /\ hold' = hold
    BY <1>4 DEF DropChunk, FilterChunk
  <2>2. Accounted(transcript, dropped, said)' /\ dropped' \subseteq Nat
    BY <1>0, <1>1, <2>1, ChunkFacts DEF Accounted
  <2> QED BY <1>0, <2>1, <2>2, CutKeeps
<1> QED BY <1>3, <1>4

(* A dictation is over: what is left is the account and how it ended. *)
LEMMA OverKeeps ==
  ASSUME HearingTypes', CallInv', EndInv', ResetBuffer, phase' # "CAPTURING",
         \/ stripped' = {} /\ Accounted(transcript, dropped, said)'
         \/ /\ said' >= 2 /\ stripped' = {said' - 1, said'}
            /\ Accounted(transcript, dropped, said - 2)'
  PROVE  DictationInv'
<1>1. buf' = <<>> /\ silence' = 0 /\ said' \in Nat
  BY DEF ResetBuffer, HearingTypes
<1>2. Cardinality(Spoken(buf))' = 0 /\ Spoken(buf)' = {} /\ Len(buf') = 0 /\ said' - 0 = said'
  <2>1. Cardinality(Spoken(buf))' = 0 /\ Spoken(buf)' = {}
    BY <1>1, NoneSpoken DEF Spoken
  <2>2. Len(buf') = 0
    BY <1>1
  <2>3. \A n \in Nat : n - 0 = n
    OBVIOUS
  <2> QED BY <1>1, <2>1, <2>2, <2>3
<1>3. ChunkInv' /\ HushInv'
  BY <1>1, <1>2, Thresholds DEF ChunkInv, HushInv
<1>4. WordsInv'
  BY <1>1, <1>2 DEF WordsInv
<1> QED BY <1>3, <1>4 DEF DictationInv

LEMMA StopKeeps ==
  ASSUME DictationInv, NEW s \in Heards, StopChunk(s)
  PROVE  DictationInv'
<1>0. /\ HearingTypes /\ ChunkInv /\ HushInv /\ WordsInv /\ EndInv /\ phase = "CAPTURING"
      /\ Heard(s) /\ Cuts(s) /\ CutsOnSilence(s) /\ Stops(Pushed(s)) /\ ResetBuffer
      /\ said' = SaidNow(s) /\ preroll' = Roll(s) /\ called' = FALSE /\ echo' = FALSE
      /\ hush' = (IF IsSpeech(s) THEN 0 ELSE hush + 1) /\ hold' = FALSE /\ dropped' = dropped
      /\ phase' = "IDLE" /\ ending' = [how |-> "stop", hush |-> hush']
      /\ transcript' = transcript \o StripStopPhrase(Frames(Pushed(s), SaidNow(s)))
      /\ stripped' = {said' - 1, said'}
  BY DEF DictationInv, StopChunk, StopNow, ToIdle, ResetWakeModel
<1>1. hush' = Hush(s) /\ hush' \in 0..Longest /\ hush' \in Nat /\ hush' >= SilenceToCut
  BY <1>0, SilenceFacts, Thresholds DEF CutsOnSilence
<1>2. /\ said' >= 2 /\ said' \in Nat /\ Accounted(transcript, dropped, said - 2)'
      /\ transcript' \in Seq(Nat)
  BY <1>0, ChunkFacts, HeardFacts DEF Accounted
<1>3. HearingTypes'
  <2>1. stripped' \subseteq Nat /\ buf' \in Seq(Heards) /\ silence' \in Nat
    BY <1>0, <1>2, NoneSpoken DEF ResetBuffer
  <2> QED BY <1>0, <1>1, <1>2, <2>1, HeardFacts DEF HearingTypes
<1>4. CallInv' /\ EndInv'
  BY <1>0, <1>1 DEF CallInv, EndInv
<1> QED BY <1>0, <1>2, <1>3, <1>4, OverKeeps

(* What flush leaves of the account of the chunk b, the last of m frames. *)
LEMMA FlushFacts ==
  ASSUME NEW b \in Seq(Heards), NEW m \in Nat, Cardinality(Spoken(b)) <= m,
         transcript \in Seq(Nat), dropped \subseteq Nat,
         Accounted(transcript, dropped, m - Cardinality(Spoken(b))), FlushFinal(b, m)
  PROVE  /\ transcript' \in Seq(Nat) /\ dropped' \subseteq Nat /\ stripped' = stripped
         /\ Accounted(transcript', dropped', m)
         /\ transcript' = <<>> => transcript = <<>>
<1>1. /\ Accounted(transcript, dropped \cup Range(Frames(b, m)), m) /\ Range(Frames(b, m)) \subseteq Nat
      /\ Accounted(transcript \o Frames(b, m), dropped, m) /\ transcript \o Frames(b, m) \in Seq(Nat)
  BY ChunkAccounted
<1>2. stripped' = stripped /\ \/ transcript' = transcript \o Frames(b, m) /\ dropped' = dropped
                              \/ transcript' = transcript /\ dropped' = dropped \cup Range(Frames(b, m))
  BY DEF FlushFinal
<1>3. transcript \o Frames(b, m) = <<>> => transcript = <<>>
  <2>1. Frames(b, m) \in Seq(Nat)
    BY FramesFacts
  <2>2. Len(transcript \o Frames(b, m)) = Len(transcript) + Len(Frames(b, m))
    BY <2>1
  <2> QED BY <2>1, <2>2, EmptySeq
<1> QED BY <1>1, <1>2, <1>3

LEMMA SilenceKeeps ==
  ASSUME DictationInv, NEW s \in Heards, SilenceEnds(s)
  PROVE  DictationInv'
<1>0. /\ HearingTypes /\ ChunkInv /\ HushInv /\ WordsInv /\ EndInv /\ phase = "CAPTURING"
      /\ Heard(s) /\ TimeIsUp(s) /\ ResetBuffer /\ FlushFinal(Pushed(s), SaidNow(s))
      /\ said' = SaidNow(s) /\ preroll' = Roll(s) /\ called' = FALSE /\ echo' = FALSE
      /\ hush' = (IF hush < Longest THEN hush + 1 ELSE hush) /\ hold' = hold
      /\ phase' = "IDLE" /\ ending' = [how |-> "silence", hush |-> hush']
  BY DEF DictationInv, SilenceEnds, ToIdle, ResetWakeModel
<1>1. hush' = Hush(s) /\ hush' \in 0..Longest /\ hush' \in Nat /\ hush' >= SilenceLimit
  BY <1>0, SilenceFacts, LimitFacts, Thresholds DEF Hush, TimeIsUp
<1>2. /\ said' \in Nat /\ Accounted(transcript, dropped, said)' /\ stripped' = {}
      /\ transcript' \in Seq(Nat) /\ dropped' \subseteq Nat
      /\ transcript' = <<>> => transcript = <<>>
  <2>1. Pushed(s) \in Seq(Heards) /\ SaidNow(s) \in Nat /\ transcript \in Seq(Nat) /\ dropped \subseteq Nat
    BY <1>0, PushedFacts DEF HearingTypes
  <2> QED BY <1>0, <2>1, ChunkFacts, FlushFacts DEF Accounted
<1>3. HearingTypes'
  <2>1. stripped' \subseteq Nat /\ buf' \in Seq(Heards) /\ silence' \in Nat
    BY <1>0, <1>2, NoneSpoken DEF ResetBuffer
  <2> QED BY <1>0, <1>1, <1>2, <2>1, HeardFacts DEF HearingTypes
<1>4. CallInv' /\ EndInv'
  BY <1>0, <1>1, <1>2, LimitFacts, Thresholds DEF CallInv, EndInv
<1> QED BY <1>0, <1>2, <1>3, <1>4, OverKeeps

LEMMA FileKeeps ==
  ASSUME DictationInv, EndOfFile
  PROVE  DictationInv'
<1>0. /\ HearingTypes /\ CallInv /\ ChunkInv /\ HushInv /\ WordsInv /\ EndInv /\ phase' = "over"
      /\ UNCHANGED <<mode, sounds, last, echo, preroll, hold, said, hush, called>>
  BY DEF DictationInv, EndOfFile
<1>1. CASE phase = "CAPTURING"
  <2>1. /\ FlushFinal(buf, said) /\ ResetBuffer /\ ending' = [how |-> "eof", hush |-> hush]
        /\ buf \in Seq(Heards) /\ said \in Nat /\ transcript \in Seq(Nat) /\ dropped \subseteq Nat
        /\ hush \in Nat /\ stripped = {}
    BY <1>0, <1>1, Thresholds DEF EndOfFile, HearingTypes, WordsInv
  <2>2. /\ transcript' \in Seq(Nat) /\ dropped' \subseteq Nat /\ stripped' = {}
        /\ Accounted(transcript, dropped, said)'
    <3>1. /\ Cardinality(Spoken(buf)) <= said
          /\ Accounted(transcript, dropped, said - Cardinality(Spoken(buf)))
      BY <1>0, <1>1 DEF WordsInv
    <3> QED BY <1>0, <2>1, <3>1, FlushFacts DEF Accounted
  <2>3. HearingTypes'
    <3>1. stripped' \subseteq Nat /\ buf' \in Seq(Heards) /\ silence' \in Nat
      BY <2>1, <2>2, NoneSpoken DEF ResetBuffer
    <3> QED BY <1>0, <2>1, <2>2, <3>1 DEF HearingTypes
  <2>4. CallInv' /\ EndInv'
    BY <1>0, <2>1 DEF CallInv, EndInv
  <2> QED BY <1>0, <2>1, <2>2, <2>3, <2>4, OverKeeps
<1>2. CASE phase # "CAPTURING"
  <2>1. UNCHANGED <<transcript, dropped, stripped, buf, silence, ending>>
    BY <1>2 DEF EndOfFile
  <2> QED BY <1>0, <1>2, <2>1
          DEF DictationInv, HearingTypes, CallInv, ChunkInv, HushInv, WordsInv, EndInv
<1> QED BY <1>1, <1>2

LEMMA DictationStart == DictationInit => DictationInv
<1> SUFFICES ASSUME DictationInit PROVE DictationInv
  OBVIOUS
<1>1. HearingTypes
  <2>1. buf \in Seq(Heards) /\ transcript \in Seq(Nat)
    BY NoneSpoken DEF DictationInit
  <2>2. sounds \in 0..MaxSounds /\ preroll \in 0..Forgotten /\ hush \in 0..Longest /\ said <= sounds
    BY Thresholds DEF DictationInit
  <2>3. ending \in [how : {"none", "stop", "silence", "eof"}, hush : Nat]
    BY DEF DictationInit
  <2> QED BY <2>1, <2>2, <2>3 DEF DictationInit, HearingTypes, Heards
<1>2. Spoken(buf) = {} /\ Cardinality(Spoken(buf)) = 0 /\ Len(buf) = 0
  BY NoneSpoken DEF DictationInit
<1>3. CallInv /\ ChunkInv /\ HushInv /\ EndInv
  BY <1>2, Thresholds DEF DictationInit, CallInv, ChunkInv, HushInv, EndInv
<1>4. WordsInv
  BY <1>2 DEF DictationInit, WordsInv, Accounted, Range
<1> QED BY <1>1, <1>3, <1>4 DEF DictationInv

LEMMA DictationStep == DictationInv /\ [DictationNext]_dictationVars => DictationInv'
<1>1. ASSUME DictationInv, UNCHANGED dictationVars PROVE DictationInv'
  <2>1. UNCHANGED <<mode, phase, sounds, last, echo, preroll, buf, silence, hold, transcript, said,
                    dropped, stripped, hush, called, ending>>
    BY <1>1 DEF dictationVars, session
  <2> QED BY <1>1, <2>1
          DEF DictationInv, HearingTypes, CallInv, ChunkInv, HushInv, WordsInv, EndInv, SilenceLimit
<1> QED BY <1>1, ListenKeeps, BufferKeeps, ChunksKeep, StopKeeps, SilenceKeeps, FileKeeps
        DEF DictationNext, AnyFrame, Heards

-----------------------------------------------------------------------------
(* The theorems *)

(* Every variable of a dictation keeps its type; no chunk outgrows the cap. *)
THEOREM DictationTypeCorrect == DictationSpec => []DictationTypeOK
<1>1. DictationInv => DictationTypeOK
  <2> SUFFICES ASSUME DictationInv PROVE DictationTypeOK
    OBVIOUS
  <2>1. HearingTypes /\ ChunkInv /\ WordsInv
    BY DEF DictationInv
  <2>2. said \in 0..MaxSounds /\ silence \in 0..Len(buf)
    BY <2>1, Thresholds DEF HearingTypes, ChunkInv
  <2>3. Range(transcript) \cup dropped \cup stripped \subseteq 1..said
    <3>1. Cardinality(Spoken(buf)) \in Nat /\ said \in Nat
      BY <2>1, SpokenFacts DEF HearingTypes
    <3> QED BY <2>1, <3>1 DEF WordsInv, Accounted
  <2> QED BY <2>1, <2>2, <2>3 DEF DictationTypeOK, HearingTypes, ChunkInv, Heards
<1> QED BY <1>1, DictationStart, DictationStep, PTL DEF DictationSpec

(* Whatever is said during a dictation is in its transcript, once and in   *)
(* order, or was dropped by the gate or the filter, or was its stop        *)
(* phrase, or waits in the buffer.                                         *)
THEOREM NoWordLost == DictationSpec => []NothingLost
<1>1. DictationInv => NothingLost
  <2> SUFFICES ASSUME DictationInv PROVE NothingLost
    OBVIOUS
  <2> DEFINE w == Cardinality(Spoken(buf))
             unheard == {said - i : i \in 0..(w - 1)}
  <2>1. w \in Nat /\ said \in Nat /\ w <= said /\ transcript \in Seq(Nat)
    BY SpokenFacts DEF DictationInv, HearingTypes, WordsInv
  <2>2. unheard = (said - w + 1)..said
    <3> HIDE DEF w
    <3>1. \A x \in (said - w + 1)..said : said - x \in 0..(w - 1) /\ x = said - (said - x)
      BY <2>1
    <3>2. \A i \in 0..(w - 1) : said - i \in (said - w + 1)..said
      BY <2>1
    <3> QED BY <3>1, <3>2
  <2>3. phase # "CAPTURING" => w = 0
    BY NoneSpoken DEF DictationInv, ChunkInv
  <2>4. \/ stripped = {} /\ Accounted(transcript, dropped, said - w)
        \/ w = 0 /\ said >= 2 /\ stripped = {said - 1, said} /\ Accounted(transcript, dropped, said - 2)
    BY <2>3 DEF DictationInv, WordsInv
  <2> HIDE DEF w, unheard
  <2>5. \A n : Accounted(transcript, dropped, n) =>
          /\ Range(transcript) \cup dropped = 1..n /\ Range(transcript) \cap dropped = {}
          /\ \A i \in 1..(Len(transcript) - 1) : transcript[i] < transcript[i + 1]
    <3>1. \A i \in 1..(Len(transcript) - 1) : i \in DOMAIN transcript /\ i + 1 \in DOMAIN transcript /\ i < i + 1
      BY <2>1
    <3> QED BY <3>1 DEF Accounted
  <2>6. CASE stripped = {} /\ Accounted(transcript, dropped, said - w)
    <3>1. 1..(said - w) \cup unheard = 1..said /\ 1..(said - w) \cap unheard = {}
      BY <2>1, <2>2
    <3> QED BY <2>5, <2>6, <3>1 DEF NothingLost, w, unheard
  <2>7. CASE w = 0 /\ said >= 2 /\ stripped = {said - 1, said} /\ Accounted(transcript, dropped, said - 2)
    <3>1. /\ 1..(said - 2) \cup stripped \cup unheard = 1..said /\ unheard = {}
          /\ 1..(said - 2) \cap stripped = {}
      BY <2>1, <2>2, <2>7
    <3> QED BY <2>5, <2>7, <3>1 DEF NothingLost, w, unheard
  <2> QED BY <2>4, <2>6, <2>7
<1> QED BY <1>1, DictationStart, DictationStep, PTL DEF DictationSpec

(* A dictation begins on a call made since the one before it, and the stop *)
(* phrase ends it at a pause and nowhere else.                             *)
THEOREM PhrasesDecide == DictationSpec => []PhrasesCount
<1>1. DictationInv => PhrasesCount
  BY DEF DictationInv, CallInv, EndInv, PhrasesCount
<1> QED BY <1>1, DictationStart, DictationStep, PTL DEF DictationSpec

(* Silence ends a dictation no sooner than its limit; and, with no hold    *)
(* armed, no later than a pause and a limit after the last sound, wherever *)
(* the chunker's cuts fall.                                                *)
THEOREM SilenceIsTimely == DictationSpec => []EndsOnTime
<1>1. DictationInv => EndsOnTime
  <2> SUFFICES ASSUME DictationInv PROVE EndsOnTime
    OBVIOUS
  <2>1. phase = "CAPTURING" /\ ~hold => hush < SilenceToCut + SilenceLimit
    BY Thresholds, LimitFacts DEF DictationInv, HearingTypes, HushInv
  <2>2. ~hold => SilenceLimit = IF transcript = <<>> THEN OpeningGrace ELSE SafetyNet
    BY DEF SilenceLimit
  <2> QED BY <2>1, <2>2 DEF DictationInv, EndInv, EndsOnTime
<1> QED BY <1>1, DictationStart, DictationStep, PTL DEF DictationSpec
=============================================================================
