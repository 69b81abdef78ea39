-------------------------- MODULE ReturnQueueProofs --------------------------
(***************************************************************************)
(* Theorems about ReturnQueue for any number of processes and messages.    *)
(***************************************************************************)
EXTENDS ReturnQueue, TLAPS

(***************************************************************************)
(* The inductive invariant.                                                *)
(***************************************************************************)

(* A thread inside the locked block holds both locks, and nobody else does. *)
LockInv ==
  \A p \in Procs, r \in Roles :
    /\ pc[p][r] \in {"flock", "read", "reread", "write"} <=> lock[p] = r
    /\ pc[p][r] \in {"read", "reread", "write"} <=> flock = <<p, r>>

(* The tool thread and the worker each run their own program. *)
RoleInv ==
  \A p \in Procs :
    /\ pc[p]["tool"] \in {"idle", "lock", "flock", "read", "write", "ensure"}
    /\ pc[p]["worker"] \in {"off", "sleep", "check", "lock", "flock", "read", "reread",
                            "write", "speak"}

(* What a thread is about to write back is still what the file holds.       *)
SnapshotInv ==
  \A p \in Procs :
    /\ pc[p]["tool"] = "write" => seen[p]["tool"] = file
    /\ pc[p]["worker"] \in {"reread", "write"} => taken[p] = file /\ file # {}
    /\ pc[p]["worker"] = "write" => seen[p]["worker"] = {}

(* The message being enqueued is known to nobody else yet. *)
SayingInv ==
  /\ accepted \subseteq called
  /\ \A p \in Procs : /\ saying[p] \subseteq called
                      /\ saying[p] \cap accepted = {}
  /\ \A p, q \in Procs : p # q => saying[p] \cap saying[q] = {}

(* A tool thread on its way to the file carries exactly one message. *)
CarriesInv ==
  \A p \in Procs : pc[p]["tool"] \in {"lock", "flock", "read", "write"}
                    => \E i \in Items : saying[p] = {i}

(* The utterances of one process share no message. *)
UtterancesInv ==
  \A p \in Procs :
    /\ \A u, w \in voice[p] : u # w => u \cap w = {}
    /\ pc[p]["worker"] = "speak" => \A u \in voice[p] : u \cap taken[p] = {}

(* Process p answers for message i: it is in the batch p has just taken off *)
(* the file or in an utterance waiting in p's speech queue.                 *)
Answers(p, i) == \/ \E u \in voice[p] : i \in u
                 \/ pc[p]["worker"] = "speak" /\ i \in taken[p]

(* Where an accepted message is, and that it is in one place only. *)
PlaceInv ==
  \A i \in Items :
    /\ i \in accepted <=> \/ i \in file \/ i \in spoken \/ i \in lost
                          \/ \E p \in Procs : Answers(p, i)
    /\ ~(i \in file /\ i \in spoken)
    /\ i \in lost => i \notin file \cup spoken
    /\ \A p \in Procs : Answers(p, i) => i \notin file \cup spoken \cup lost
    /\ \A p, q \in Procs : p # q => ~(Answers(p, i) /\ Answers(q, i))

IInv == /\ LockInv /\ RoleInv /\ SnapshotInv /\ SayingInv /\ CarriesInv
        /\ UtterancesInv /\ PlaceInv

(* Every variable keeps its type. *)
THEOREM TypeCorrect == Spec => []TypeOK
<1> USE DEF Nobody, Roles, PC, Threads
<1>1. Init => TypeOK
  BY HoldAssumption DEF Init, TypeOK
<1>2. TypeOK /\ [Next]_vars => TypeOK'
  <2> SUFFICES ASSUME TypeOK, [Next]_vars PROVE TypeOK'
    OBVIOUS
  <2> USE HoldAssumption DEF TypeOK, Step, Release, history, wakeVars, threadVars
  <2>1. ASSUME NEW p \in Procs, Tool(p) PROVE TypeOK'
    <3>1. ASSUME NEW i \in Items, SayQueued(p, i) PROVE TypeOK'
      BY <3>1 DEF SayQueued
    <3>2. ASSUME NEW i \in Items, SayNow(p, i) PROVE TypeOK'
      BY <3>2 DEF SayNow
    <3>3. CASE EnqueueWriteFails(p)
      BY <3>3 DEF EnqueueWriteFails
    <3>4. CASE AcquireLock(p, "tool")
      BY <3>4 DEF AcquireLock
    <3>5. CASE AcquireFlock(p, "tool")
      BY <3>5 DEF AcquireFlock
    <3>6. CASE EnqueueRead(p)
      BY <3>6 DEF EnqueueRead
    <3>7. CASE EnqueueWrite(p)
      BY <3>7 DEF EnqueueWrite
    <3>8. CASE EnsureWorker(p)
      BY <3>8 DEF EnsureWorker
    <3> QED BY <2>1, <3>1, <3>2, <3>3, <3>4, <3>5, <3>6, <3>7, <3>8 DEF Tool, ToolMoves
  <2>2. ASSUME NEW p \in Procs, Worker(p) PROVE TypeOK'
    <3>1. CASE WakeUp(p)
      BY <3>1 DEF WakeUp
    <3>2. CASE CheckReady(p)
      BY <3>2 DEF CheckReady
    <3>3. CASE AcquireLock(p, "worker")
      BY <3>3 DEF AcquireLock
    <3>4. CASE AcquireFlock(p, "worker")
      BY <3>4 DEF AcquireFlock
    <3>5. CASE FlushNothing(p)
      BY <3>5 DEF FlushNothing
    <3>6. CASE FlushRead(p)
      BY <3>6 DEF FlushRead
    <3>7. CASE FlushReread(p)
      BY <3>7 DEF FlushReread
    <3>8. CASE FlushWrite(p)
      BY <3>8 DEF FlushWrite
    <3>9. CASE FlushWriteFails(p)
      BY <3>9 DEF FlushWriteFails
    <3>10. CASE FlushSpeak(p)
      BY <3>10 DEF FlushSpeak
    <3> QED BY <2>2, <3>1, <3>2, <3>3, <3>4, <3>5, <3>6, <3>7, <3>8, <3>9, <3>10
            DEF Worker, WorkerMoves
  <2>3. ASSUME NEW p \in Procs, Play(p) PROVE TypeOK'
    BY <2>3 DEF Play
  <2>8. ASSUME NEW p \in Procs, PlayFails(p) PROVE TypeOK'
    BY <2>8 DEF PlayFails
  <2>4. ASSUME NEW p \in Procs, Crash(p) PROVE TypeOK'
    <3>1. Held(p) \in SUBSET Items
      BY DEF Held
    <3> QED BY <2>4, <3>1 DEF Crash
  <2>5. ASSUME NEW p \in Procs, Restart(p) PROVE TypeOK'
    BY <2>5 DEF Restart
  <2>6. CASE Environment
    <3>1. ASSUME NEW s \in {"idle", "capturing"}, DaemonWrites(s) PROVE TypeOK'
      BY <3>1 DEF DaemonWrites
    <3>2. CASE DaemonStops
      BY <3>2 DEF DaemonStops
    <3>3. CASE DaemonStarts
      BY <3>3 DEF DaemonStarts
    <3>4. CASE Tick
      <4>1. fresh' \in BOOLEAN
        BY <3>4, Zenon DEF Tick
      <4>2. age' \in [Items -> 0..(MaxHold + 1)]
        BY <3>4 DEF Tick
      <4> QED BY <3>4, <4>1, <4>2 DEF Tick
    <3> QED BY <2>6, <3>1, <3>2, <3>3, <3>4 DEF Environment
  <2>7. CASE UNCHANGED vars
    BY <2>7 DEF vars
  <2> QED BY <2>1, <2>2, <2>3, <2>4, <2>5, <2>6, <2>7, <2>8 DEF Next
<1> QED BY <1>1, <1>2, PTL DEF Spec

-----------------------------------------------------------------------------
(* Each thread keeps to its own program and inside the locked block it      *)
(* holds both locks.                                                        *)
LEMMA LockStep == TypeOK /\ LockInv /\ RoleInv /\ [Next]_vars => (LockInv /\ RoleInv)'
<1> SUFFICES ASSUME TypeOK, LockInv, RoleInv, [Next]_vars PROVE (LockInv /\ RoleInv)'
  OBVIOUS
<1> USE DEF TypeOK, LockInv, RoleInv, Step, Release, Threads, Roles, Nobody, history,
        wakeVars, threadVars
<1>1. ASSUME NEW p \in Procs, NEW i \in Items, SayQueued(p, i) PROVE (LockInv /\ RoleInv)'
  BY <1>1 DEF SayQueued
<1>2. ASSUME NEW p \in Procs, NEW i \in Items, SayNow(p, i) PROVE (LockInv /\ RoleInv)'
  BY <1>2 DEF SayNow
<1>3. ASSUME NEW p \in Procs, EnqueueWriteFails(p) PROVE (LockInv /\ RoleInv)'
  BY <1>3 DEF EnqueueWriteFails
<1>4. ASSUME NEW p \in Procs, AcquireLock(p, "tool") PROVE (LockInv /\ RoleInv)'
  BY <1>4 DEF AcquireLock
<1>5. ASSUME NEW p \in Procs, AcquireFlock(p, "tool") PROVE (LockInv /\ RoleInv)'
  BY <1>5 DEF AcquireFlock
<1>6. ASSUME NEW p \in Procs, EnqueueRead(p) PROVE (LockInv /\ RoleInv)'
  BY <1>6 DEF EnqueueRead
<1>7. ASSUME NEW p \in Procs, EnqueueWrite(p) PROVE (LockInv /\ RoleInv)'
  BY <1>7 DEF EnqueueWrite
<1>8. ASSUME NEW p \in Procs, EnsureWorker(p) PROVE (LockInv /\ RoleInv)'
  BY <1>8 DEF EnsureWorker
<1>9. ASSUME NEW p \in Procs, WakeUp(p) PROVE (LockInv /\ RoleInv)'
  BY <1>9 DEF WakeUp
<1>10. ASSUME NEW p \in Procs, CheckReady(p) PROVE (LockInv /\ RoleInv)'
  BY <1>10 DEF CheckReady
<1>11. ASSUME NEW p \in Procs, AcquireLock(p, "worker") PROVE (LockInv /\ RoleInv)'
  BY <1>11 DEF AcquireLock
<1>12. ASSUME NEW p \in Procs, AcquireFlock(p, "worker") PROVE (LockInv /\ RoleInv)'
  BY <1>12 DEF AcquireFlock
<1>13. ASSUME NEW p \in Procs, FlushNothing(p) PROVE (LockInv /\ RoleInv)'
  BY <1>13 DEF FlushNothing
<1>14. ASSUME NEW p \in Procs, FlushRead(p) PROVE (LockInv /\ RoleInv)'
  BY <1>14 DEF FlushRead
<1>15. ASSUME NEW p \in Procs, FlushReread(p) PROVE (LockInv /\ RoleInv)'
  BY <1>15 DEF FlushReread
<1>16. ASSUME NEW p \in Procs, FlushWrite(p) PROVE (LockInv /\ RoleInv)'
  BY <1>16 DEF FlushWrite
<1>17. ASSUME NEW p \in Procs, FlushWriteFails(p) PROVE (LockInv /\ RoleInv)'
  BY <1>17 DEF FlushWriteFails
<1>18. ASSUME NEW p \in Procs, FlushSpeak(p) PROVE (LockInv /\ RoleInv)'
  BY <1>18 DEF FlushSpeak
<1>19. ASSUME NEW p \in Procs, Play(p) PROVE (LockInv /\ RoleInv)'
  BY <1>19 DEF Play
<1>27. ASSUME NEW p \in Procs, PlayFails(p) PROVE (LockInv /\ RoleInv)'
  BY <1>27 DEF PlayFails
<1>20. ASSUME NEW p \in Procs, Crash(p) PROVE (LockInv /\ RoleInv)'
  <2>1. /\ pc'[p] = Threads("idle", "off") /\ lock'[p] = "none"
        /\ \A q \in Procs \ {p} : pc'[q] = pc[q] /\ lock'[q] = lock[q]
    BY <1>20 DEF Crash
  <2>2. \A q \in Procs, r \in Roles : flock' = <<q, r>> <=> q # p /\ flock = <<q, r>>
    <3>1. CASE \E r \in Roles : flock = <<p, r>>
      BY <1>20, <3>1 DEF Crash
    <3>2. CASE ~ \E r \in Roles : flock = <<p, r>>
      BY <1>20, <3>2 DEF Crash
    <3> QED BY <3>1, <3>2
  <2>3. ASSUME NEW q \in Procs, NEW r \in Roles
        PROVE  /\ pc'[q][r] \in {"flock", "read", "reread", "write"} <=> lock'[q] = r
               /\ pc'[q][r] \in {"read", "reread", "write"} <=> flock' = <<q, r>>
    <3>1. CASE q = p
      BY <2>1, <2>2, <3>1
    <3>2. CASE q # p
      BY <2>1, <2>2, <3>2
    <3> QED BY <3>1, <3>2
  <2>4. RoleInv'
    <3>1. pc'[p]["tool"] = "idle" /\ pc'[p]["worker"] = "off"
      BY <2>1
    <3>2. \A q \in Procs : q = p \/ pc'[q] = pc[q]
      BY <2>1
    <3> QED BY <3>1, <3>2
  <2> QED BY <2>3, <2>4
<1>21. ASSUME NEW p \in Procs, Restart(p) PROVE (LockInv /\ RoleInv)'
  BY <1>21 DEF Restart
<1>22. ASSUME NEW s \in {"idle", "capturing"}, DaemonWrites(s) PROVE (LockInv /\ RoleInv)'
  BY <1>22 DEF DaemonWrites
<1>23. CASE DaemonStops
  BY <1>23 DEF DaemonStops
<1>24. CASE DaemonStarts
  BY <1>24 DEF DaemonStarts
<1>25. CASE Tick
  BY <1>25 DEF Tick
<1>26. CASE UNCHANGED vars
  BY <1>26 DEF vars
<1> QED
  BY <1>1, <1>2, <1>3, <1>4, <1>5, <1>6, <1>7, <1>8, <1>9, <1>10, <1>11, <1>12,
     <1>13, <1>14, <1>15, <1>16, <1>17, <1>18, <1>19, <1>20, <1>21, <1>22, <1>23,
     <1>24, <1>25, <1>26, <1>27 DEF Next, Tool, ToolMoves, Worker, WorkerMoves, Environment

(* What a thread read under the locks stays what the file holds.            *)
LEMMA SnapshotStep ==
  TypeOK /\ LockInv /\ RoleInv /\ SnapshotInv /\ [Next]_vars => SnapshotInv'
<1> SUFFICES ASSUME TypeOK, LockInv, RoleInv, SnapshotInv, [Next]_vars PROVE SnapshotInv'
  OBVIOUS
<1> USE DEF TypeOK, LockInv, RoleInv, SnapshotInv, Step, Release, Threads, Roles, Nobody,
        history, wakeVars, threadVars
<1>1. ASSUME NEW p \in Procs, NEW i \in Items, SayQueued(p, i) PROVE SnapshotInv'
  BY <1>1 DEF SayQueued
<1>2. ASSUME NEW p \in Procs, NEW i \in Items, SayNow(p, i) PROVE SnapshotInv'
  BY <1>2 DEF SayNow
<1>3. ASSUME NEW p \in Procs, EnqueueWriteFails(p) PROVE SnapshotInv'
  BY <1>3 DEF EnqueueWriteFails
<1>4. ASSUME NEW p \in Procs, AcquireLock(p, "tool") PROVE SnapshotInv'
  BY <1>4 DEF AcquireLock
<1>5. ASSUME NEW p \in Procs, AcquireFlock(p, "tool") PROVE SnapshotInv'
  BY <1>5 DEF AcquireFlock
<1>6. ASSUME NEW p \in Procs, EnqueueRead(p) PROVE SnapshotInv'
  BY <1>6 DEF EnqueueRead
<1>7. ASSUME NEW p \in Procs, EnqueueWrite(p) PROVE SnapshotInv'
  BY <1>7 DEF EnqueueWrite
<1>8. ASSUME NEW p \in Procs, EnsureWorker(p) PROVE SnapshotInv'
  BY <1>8 DEF EnsureWorker
<1>9. ASSUME NEW p \in Procs, WakeUp(p) PROVE SnapshotInv'
  BY <1>9 DEF WakeUp
<1>10. ASSUME NEW p \in Procs, CheckReady(p) PROVE SnapshotInv'
  BY <1>10 DEF CheckReady
<1>11. ASSUME NEW p \in Procs, AcquireLock(p, "worker") PROVE SnapshotInv'
  BY <1>11 DEF AcquireLock
<1>12. ASSUME NEW p \in Procs, AcquireFlock(p, "worker") PROVE SnapshotInv'
  BY <1>12 DEF AcquireFlock
<1>13. ASSUME NEW p \in Procs, FlushNothing(p) PROVE SnapshotInv'
  BY <1>13 DEF FlushNothing
<1>14. ASSUME NEW p \in Procs, FlushRead(p) PROVE SnapshotInv'
  BY <1>14 DEF FlushRead
<1>15. ASSUME NEW p \in Procs, FlushReread(p) PROVE SnapshotInv'
  BY <1>15 DEF FlushReread
<1>16. ASSUME NEW p \in Procs, FlushWrite(p) PROVE SnapshotInv'
  BY <1>16 DEF FlushWrite
<1>17. ASSUME NEW p \in Procs, FlushWriteFails(p) PROVE SnapshotInv'
  BY <1>17 DEF FlushWriteFails
<1>18. ASSUME NEW p \in Procs, FlushSpeak(p) PROVE SnapshotInv'
  BY <1>18 DEF FlushSpeak
<1>19. ASSUME NEW p \in Procs, Play(p) PROVE SnapshotInv'
  BY <1>19 DEF Play
<1>27. ASSUME NEW p \in Procs, PlayFails(p) PROVE SnapshotInv'
  BY <1>27 DEF PlayFails
<1>20. ASSUME NEW p \in Procs, Crash(p) PROVE SnapshotInv'
  BY <1>20 DEF Crash
<1>21. ASSUME NEW p \in Procs, Restart(p) PROVE SnapshotInv'
  BY <1>21 DEF Restart
<1>22. ASSUME NEW s \in {"idle", "capturing"}, DaemonWrites(s) PROVE SnapshotInv'
  BY <1>22 DEF DaemonWrites
<1>23. CASE DaemonStops
  BY <1>23 DEF DaemonStops
<1>24. CASE DaemonStarts
  BY <1>24 DEF DaemonStarts
<1>25. CASE Tick
  BY <1>25 DEF Tick
<1>26. CASE UNCHANGED vars
  BY <1>26 DEF vars
<1> QED
  BY <1>1, <1>2, <1>3, <1>4, <1>5, <1>6, <1>7, <1>8, <1>9, <1>10, <1>11, <1>12,
     <1>13, <1>14, <1>15, <1>16, <1>17, <1>18, <1>19, <1>20, <1>21, <1>22, <1>23,
     <1>24, <1>25, <1>26, <1>27 DEF Next, Tool, ToolMoves, Worker, WorkerMoves, Environment

(* The message being enqueued stays private to the enqueueing thread.       *)
LEMMA SayingStep ==
  TypeOK /\ RoleInv /\ SayingInv /\ [Next]_vars => SayingInv'
<1> SUFFICES ASSUME TypeOK, RoleInv, SayingInv, [Next]_vars PROVE SayingInv'
  OBVIOUS
<1> USE DEF TypeOK, RoleInv, SayingInv, Step, Release, history, wakeVars, threadVars
<1>1. ASSUME NEW p \in Procs, NEW i \in Items, SayQueued(p, i) PROVE SayingInv'
  BY <1>1 DEF SayQueued
<1>2. ASSUME NEW p \in Procs, NEW i \in Items, SayNow(p, i) PROVE SayingInv'
  BY <1>2 DEF SayNow
<1>3. ASSUME NEW p \in Procs, EnqueueWriteFails(p) PROVE SayingInv'
  BY <1>3 DEF EnqueueWriteFails
<1>4. ASSUME NEW p \in Procs, AcquireLock(p, "tool") PROVE SayingInv'
  BY <1>4 DEF AcquireLock
<1>5. ASSUME NEW p \in Procs, AcquireFlock(p, "tool") PROVE SayingInv'
  BY <1>5 DEF AcquireFlock
<1>6. ASSUME NEW p \in Procs, EnqueueRead(p) PROVE SayingInv'
  BY <1>6 DEF EnqueueRead
<1>7. ASSUME NEW p \in Procs, EnqueueWrite(p) PROVE SayingInv'
  BY <1>7 DEF EnqueueWrite
<1>8. ASSUME NEW p \in Procs, EnsureWorker(p) PROVE SayingInv'
  BY <1>8 DEF EnsureWorker
<1>9. ASSUME NEW p \in Procs, WakeUp(p) PROVE SayingInv'
  BY <1>9 DEF WakeUp
<1>10. ASSUME NEW p \in Procs, CheckReady(p) PROVE SayingInv'
  BY <1>10 DEF CheckReady
<1>11. ASSUME NEW p \in Procs, AcquireLock(p, "worker") PROVE SayingInv'
  BY <1>11 DEF AcquireLock
<1>12. ASSUME NEW p \in Procs, AcquireFlock(p, "worker") PROVE SayingInv'
  BY <1>12 DEF AcquireFlock
<1>13. ASSUME NEW p \in Procs, FlushNothing(p) PROVE SayingInv'
  BY <1>13 DEF FlushNothing
<1>14. ASSUME NEW p \in Procs, FlushRead(p) PROVE SayingInv'
  BY <1>14 DEF FlushRead
<1>15. ASSUME NEW p \in Procs, FlushReread(p) PROVE SayingInv'
  BY <1>15 DEF FlushReread
<1>16. ASSUME NEW p \in Procs, FlushWrite(p) PROVE SayingInv'
  BY <1>16 DEF FlushWrite
<1>17. ASSUME NEW p \in Procs, FlushWriteFails(p) PROVE SayingInv'
  BY <1>17 DEF FlushWriteFails
<1>18. ASSUME NEW p \in Procs, FlushSpeak(p) PROVE SayingInv'
  BY <1>18 DEF FlushSpeak
<1>19. ASSUME NEW p \in Procs, Play(p) PROVE SayingInv'
  BY <1>19 DEF Play
<1>27. ASSUME NEW p \in Procs, PlayFails(p) PROVE SayingInv'
  BY <1>27 DEF PlayFails
<1>20. ASSUME NEW p \in Procs, Crash(p) PROVE SayingInv'
  BY <1>20 DEF Crash
<1>21. ASSUME NEW p \in Procs, Restart(p) PROVE SayingInv'
  BY <1>21 DEF Restart
<1>22. ASSUME NEW s \in {"idle", "capturing"}, DaemonWrites(s) PROVE SayingInv'
  BY <1>22 DEF DaemonWrites
<1>23. CASE DaemonStops
  BY <1>23 DEF DaemonStops
<1>24. CASE DaemonStarts
  BY <1>24 DEF DaemonStarts
<1>25. CASE Tick
  BY <1>25 DEF Tick
<1>26. CASE UNCHANGED vars
  BY <1>26 DEF vars
<1> QED
  BY <1>1, <1>2, <1>3, <1>4, <1>5, <1>6, <1>7, <1>8, <1>9, <1>10, <1>11, <1>12,
     <1>13, <1>14, <1>15, <1>16, <1>17, <1>18, <1>19, <1>20, <1>21, <1>22, <1>23,
     <1>24, <1>25, <1>26, <1>27 DEF Next, Tool, ToolMoves, Worker, WorkerMoves, Environment

(* A tool thread picks up one message and keeps it until it is written.     *)
LEMMA CarriesStep == TypeOK /\ RoleInv /\ CarriesInv /\ [Next]_vars => CarriesInv'
<1> SUFFICES ASSUME TypeOK, RoleInv, CarriesInv, [Next]_vars PROVE CarriesInv'
  OBVIOUS
<1> USE DEF TypeOK, RoleInv, CarriesInv, Step, Release, Threads, Roles, history, wakeVars,
        threadVars
<1>1. ASSUME NEW p \in Procs, NEW i \in Items, SayQueued(p, i) PROVE CarriesInv'
  BY <1>1 DEF SayQueued
<1>2. ASSUME NEW p \in Procs, NEW i \in Items, SayNow(p, i) PROVE CarriesInv'
  BY <1>2 DEF SayNow
<1>3. ASSUME NEW p \in Procs, EnqueueWriteFails(p) PROVE CarriesInv'
  BY <1>3 DEF EnqueueWriteFails
<1>4. ASSUME NEW p \in Procs, AcquireLock(p, "tool") PROVE CarriesInv'
  BY <1>4 DEF AcquireLock
<1>5. ASSUME NEW p \in Procs, AcquireFlock(p, "tool") PROVE CarriesInv'
  BY <1>5 DEF AcquireFlock
<1>6. ASSUME NEW p \in Procs, EnqueueRead(p) PROVE CarriesInv'
  BY <1>6 DEF EnqueueRead
<1>7. ASSUME NEW p \in Procs, EnqueueWrite(p) PROVE CarriesInv'
  BY <1>7 DEF EnqueueWrite
<1>8. ASSUME NEW p \in Procs, EnsureWorker(p) PROVE CarriesInv'
  BY <1>8 DEF EnsureWorker
<1>9. ASSUME NEW p \in Procs, WakeUp(p) PROVE CarriesInv'
  BY <1>9 DEF WakeUp
<1>10. ASSUME NEW p \in Procs, CheckReady(p) PROVE CarriesInv'
  BY <1>10 DEF CheckReady
<1>11. ASSUME NEW p \in Procs, AcquireLock(p, "worker") PROVE CarriesInv'
  BY <1>11 DEF AcquireLock
<1>12. ASSUME NEW p \in Procs, AcquireFlock(p, "worker") PROVE CarriesInv'
  BY <1>12 DEF AcquireFlock
<1>13. ASSUME NEW p \in Procs, FlushNothing(p) PROVE CarriesInv'
  BY <1>13 DEF FlushNothing
<1>14. ASSUME NEW p \in Procs, FlushRead(p) PROVE CarriesInv'
  BY <1>14 DEF FlushRead
<1>15. ASSUME NEW p \in Procs, FlushReread(p) PROVE CarriesInv'
  BY <1>15 DEF FlushReread
<1>16. ASSUME NEW p \in Procs, FlushWrite(p) PROVE CarriesInv'
  BY <1>16 DEF FlushWrite
<1>17. ASSUME NEW p \in Procs, FlushWriteFails(p) PROVE CarriesInv'
  BY <1>17 DEF FlushWriteFails
<1>18. ASSUME NEW p \in Procs, FlushSpeak(p) PROVE CarriesInv'
  BY <1>18 DEF FlushSpeak
<1>19. ASSUME NEW p \in Procs, Play(p) PROVE CarriesInv'
  BY <1>19 DEF Play
<1>27. ASSUME NEW p \in Procs, PlayFails(p) PROVE CarriesInv'
  BY <1>27 DEF PlayFails
<1>20. ASSUME NEW p \in Procs, Crash(p) PROVE CarriesInv'
  BY <1>20 DEF Crash
<1>21. ASSUME NEW p \in Procs, Restart(p) PROVE CarriesInv'
  BY <1>21 DEF Restart
<1>22. ASSUME NEW s \in {"idle", "capturing"}, DaemonWrites(s) PROVE CarriesInv'
  BY <1>22 DEF DaemonWrites
<1>23. CASE DaemonStops
  BY <1>23 DEF DaemonStops
<1>24. CASE DaemonStarts
  BY <1>24 DEF DaemonStarts
<1>25. CASE Tick
  BY <1>25 DEF Tick
<1>26. CASE UNCHANGED vars
  BY <1>26 DEF vars
<1> QED
  BY <1>1, <1>2, <1>3, <1>4, <1>5, <1>6, <1>7, <1>8, <1>9, <1>10, <1>11, <1>12,
     <1>13, <1>14, <1>15, <1>16, <1>17, <1>18, <1>19, <1>20, <1>21, <1>22, <1>23,
     <1>24, <1>25, <1>26, <1>27 DEF Next, Tool, ToolMoves, Worker, WorkerMoves, Environment

(* Held and Answers say the same thing. *)
LEMMA HeldAnswers ==
  ASSUME TypeOK, NEW p \in Procs
  PROVE  Held(p) = {i \in Items : Answers(p, i)}
BY DEF TypeOK, Held, Answers

(* The utterances of a process never share a message.                       *)
LEMMA UtterancesStep ==
  TypeOK /\ RoleInv /\ SnapshotInv /\ SayingInv /\ UtterancesInv /\ PlaceInv /\ [Next]_vars
    => UtterancesInv'
<1> SUFFICES ASSUME TypeOK, RoleInv, SnapshotInv, SayingInv, UtterancesInv, PlaceInv,
                    [Next]_vars
             PROVE  UtterancesInv'
  OBVIOUS
<1> USE DEF TypeOK, RoleInv, SnapshotInv, UtterancesInv, Step, Release, Threads, Roles,
        history, wakeVars, threadVars
<1>1. ASSUME NEW p \in Procs, NEW i \in Items, SayQueued(p, i) PROVE UtterancesInv'
  BY <1>1 DEF SayQueued
<1>2. ASSUME NEW p \in Procs, NEW i \in Items, SayNow(p, i) PROVE UtterancesInv'
  <2>1. i \notin accepted
    BY <1>2 DEF SayNow, SayingInv
  <2>2. ~Answers(p, i)
    BY <2>1 DEF PlaceInv
  <2>3. (\A u \in voice[p] : i \notin u) /\ (pc[p]["worker"] = "speak" => i \notin taken[p])
    BY <2>2 DEF Answers
  <2>4. /\ {i} \in voice'[p] /\ voice[p] \subseteq voice'[p]
        /\ \A u \in voice'[p] : u \in voice[p] \/ u = {i}
        /\ \A q \in Procs \ {p} : voice'[q] = voice[q]
        /\ UNCHANGED <<pc, taken>>
    BY <1>2 DEF SayNow
  <2>5. \A u \in voice[p] : u \cap {i} = {} /\ {i} \cap u = {}
    BY <2>3
  <2>6. ASSUME NEW u \in voice'[p], NEW w \in voice'[p], u # w PROVE u \cap w = {}
    <3>1. u \in voice[p] \/ u = {i}
      BY <2>4
    <3>2. w \in voice[p] \/ w = {i}
      BY <2>4
    <3> QED BY <2>5, <2>6, <3>1, <3>2
  <2>7. ASSUME pc'[p]["worker"] = "speak", NEW u \in voice'[p] PROVE u \cap taken'[p] = {}
    <3>1. u \in voice[p] \/ u = {i}
      BY <2>4
    <3>2. {i} \cap taken[p] = {}
      BY <2>3, <2>4, <2>7
    <3> QED BY <2>4, <2>7, <3>1, <3>2
  <2> QED BY <2>4, <2>6, <2>7
<1>3. ASSUME NEW p \in Procs, EnqueueWriteFails(p) PROVE UtterancesInv'
  BY <1>3 DEF EnqueueWriteFails
<1>4. ASSUME NEW p \in Procs, AcquireLock(p, "tool") PROVE UtterancesInv'
  BY <1>4 DEF AcquireLock
<1>5. ASSUME NEW p \in Procs, AcquireFlock(p, "tool") PROVE UtterancesInv'
  BY <1>5 DEF AcquireFlock
<1>6. ASSUME NEW p \in Procs, EnqueueRead(p) PROVE UtterancesInv'
  BY <1>6 DEF EnqueueRead
<1>7. ASSUME NEW p \in Procs, EnqueueWrite(p) PROVE UtterancesInv'
  BY <1>7 DEF EnqueueWrite
<1>8. ASSUME NEW p \in Procs, EnsureWorker(p) PROVE UtterancesInv'
  BY <1>8 DEF EnsureWorker
<1>9. ASSUME NEW p \in Procs, WakeUp(p) PROVE UtterancesInv'
  BY <1>9 DEF WakeUp
<1>10. ASSUME NEW p \in Procs, CheckReady(p) PROVE UtterancesInv'
  BY <1>10 DEF CheckReady
<1>11. ASSUME NEW p \in Procs, AcquireLock(p, "worker") PROVE UtterancesInv'
  BY <1>11 DEF AcquireLock
<1>12. ASSUME NEW p \in Procs, AcquireFlock(p, "worker") PROVE UtterancesInv'
  BY <1>12 DEF AcquireFlock
<1>13. ASSUME NEW p \in Procs, FlushNothing(p) PROVE UtterancesInv'
  BY <1>13 DEF FlushNothing
<1>14. ASSUME NEW p \in Procs, FlushRead(p) PROVE UtterancesInv'
  BY <1>14 DEF FlushRead
<1>15. ASSUME NEW p \in Procs, FlushReread(p) PROVE UtterancesInv'
  BY <1>15 DEF FlushReread
<1>16. ASSUME NEW p \in Procs, FlushWrite(p) PROVE UtterancesInv'
  <2>1. taken[p] = file
    BY <1>16 DEF FlushWrite
  <2>2. \A u \in voice[p] : u \cap file = {}
    BY DEF PlaceInv, Answers
  <2> QED BY <1>16, <2>1, <2>2 DEF FlushWrite
<1>17. ASSUME NEW p \in Procs, FlushWriteFails(p) PROVE UtterancesInv'
  BY <1>17 DEF FlushWriteFails
<1>18. ASSUME NEW p \in Procs, FlushSpeak(p) PROVE UtterancesInv'
  BY <1>18 DEF FlushSpeak
<1>19. ASSUME NEW p \in Procs, Play(p) PROVE UtterancesInv'
  BY <1>19 DEF Play
<1>27. ASSUME NEW p \in Procs, PlayFails(p) PROVE UtterancesInv'
  BY <1>27 DEF PlayFails
<1>20. ASSUME NEW p \in Procs, Crash(p) PROVE UtterancesInv'
  BY <1>20 DEF Crash
<1>21. ASSUME NEW p \in Procs, Restart(p) PROVE UtterancesInv'
  BY <1>21 DEF Restart
<1>22. ASSUME NEW s \in {"idle", "capturing"}, DaemonWrites(s) PROVE UtterancesInv'
  BY <1>22 DEF DaemonWrites
<1>23. CASE DaemonStops
  BY <1>23 DEF DaemonStops
<1>24. CASE DaemonStarts
  BY <1>24 DEF DaemonStarts
<1>25. CASE Tick
  BY <1>25 DEF Tick
<1>26. CASE UNCHANGED vars
  BY <1>26 DEF vars
<1> QED
  BY <1>1, <1>2, <1>3, <1>4, <1>5, <1>6, <1>7, <1>8, <1>9, <1>10, <1>11, <1>12,
     <1>13, <1>14, <1>15, <1>16, <1>17, <1>18, <1>19, <1>20, <1>21, <1>22, <1>23,
     <1>24, <1>25, <1>26, <1>27 DEF Next, Tool, ToolMoves, Worker, WorkerMoves, Environment

(* A step that moves no message from one place to another.                  *)
Quiet ==
  /\ UNCHANGED <<voice, accepted, file, spoken, lost>>
  /\ \A p \in Procs : /\ pc'[p]["worker"] = "speak" <=> pc[p]["worker"] = "speak"
                      /\ pc[p]["worker"] = "speak" => taken'[p] = taken[p]

LEMMA QuietPlace ==
  ASSUME PlaceInv, Quiet
  PROVE  PlaceInv'
<1>1. \A p \in Procs, i \in Items : Answers(p, i)' <=> Answers(p, i)
  BY DEF Quiet, Answers
<1> QED BY <1>1 DEF Quiet, PlaceInv

(* A message is always in exactly one place.                                *)
LEMMA PlaceStep ==
  TypeOK /\ RoleInv /\ SnapshotInv /\ SayingInv /\ UtterancesInv /\ PlaceInv /\ [Next]_vars
    => PlaceInv'
<1> SUFFICES ASSUME TypeOK, RoleInv, SnapshotInv, SayingInv, UtterancesInv, PlaceInv,
                    [Next]_vars
             PROVE  PlaceInv'
  OBVIOUS
<1> USE DEF TypeOK, RoleInv, Step, Release, Threads, Roles, history, wakeVars, threadVars
<1>1. ASSUME NEW p \in Procs, NEW i \in Items, SayQueued(p, i) PROVE PlaceInv'
  <2>1. Quiet
    BY <1>1 DEF SayQueued, Quiet
  <2> QED BY <2>1, QuietPlace
<1>2. ASSUME NEW p \in Procs, NEW i \in Items, SayNow(p, i) PROVE PlaceInv'
  <2>1. i \notin accepted
    BY <1>2 DEF SayNow, SayingInv
  <2>4. /\ {i} \in voice'[p] /\ voice[p] \subseteq voice'[p]
        /\ \A u \in voice'[p] : u \in voice[p] \/ u = {i}
        /\ \A q \in Procs \ {p} : voice'[q] = voice[q]
        /\ UNCHANGED <<pc, taken>>
    BY <1>2 DEF SayNow
  <2>2. ASSUME NEW q \in Procs, NEW j \in Items
        PROVE  Answers(q, j)' <=> Answers(q, j) \/ (q = p /\ j = i)
    <3>1. CASE q = p
      <4>1. (\E u \in voice'[p] : j \in u) <=> (\E u \in voice[p] : j \in u) \/ j \in {i}
        BY <2>4
      <4> QED BY <2>4, <3>1, <4>1 DEF Answers
    <3>2. CASE q # p
      BY <2>4, <3>2 DEF Answers
    <3> QED BY <3>1, <3>2
  <2>3. accepted' = accepted \cup {i} /\ UNCHANGED <<file, spoken, lost>>
    BY <1>2 DEF SayNow
  <2> QED BY <2>1, <2>2, <2>3 DEF PlaceInv
<1>3. ASSUME NEW p \in Procs, EnqueueWriteFails(p) PROVE PlaceInv'
  <2>1. Quiet
    BY <1>3 DEF EnqueueWriteFails, Quiet
  <2> QED BY <2>1, QuietPlace
<1>4. ASSUME NEW p \in Procs, AcquireLock(p, "tool") PROVE PlaceInv'
  <2>1. Quiet
    BY <1>4 DEF AcquireLock, Quiet
  <2> QED BY <2>1, QuietPlace
<1>5. ASSUME NEW p \in Procs, AcquireFlock(p, "tool") PROVE PlaceInv'
  <2>1. Quiet
    BY <1>5 DEF AcquireFlock, Quiet
  <2> QED BY <2>1, QuietPlace
<1>6. ASSUME NEW p \in Procs, EnqueueRead(p) PROVE PlaceInv'
  <2>1. Quiet
    BY <1>6 DEF EnqueueRead, Quiet
  <2> QED BY <2>1, QuietPlace
<1>7. ASSUME NEW p \in Procs, EnqueueWrite(p) PROVE PlaceInv'
  <2>1. seen[p]["tool"] = file /\ saying[p] \cap accepted = {}
    BY <1>7 DEF EnqueueWrite, SnapshotInv, SayingInv
  <2>2. \A q \in Procs, j \in Items : Answers(q, j)' <=> Answers(q, j)
    BY <1>7 DEF EnqueueWrite, Answers
  <2>3. /\ file' = file \cup saying[p]
        /\ accepted' = accepted \cup saying[p]
        /\ UNCHANGED <<spoken, lost>>
    BY <1>7, <2>1 DEF EnqueueWrite
  <2> QED BY <2>1, <2>2, <2>3 DEF PlaceInv
<1>8. ASSUME NEW p \in Procs, EnsureWorker(p) PROVE PlaceInv'
  <2>1. Quiet
    BY <1>8 DEF EnsureWorker, Quiet
  <2> QED BY <2>1, QuietPlace
<1>9. ASSUME NEW p \in Procs, WakeUp(p) PROVE PlaceInv'
  <2>1. Quiet
    BY <1>9 DEF WakeUp, Quiet
  <2> QED BY <2>1, QuietPlace
<1>10. ASSUME NEW p \in Procs, CheckReady(p) PROVE PlaceInv'
  <2>1. Quiet
    BY <1>10 DEF CheckReady, Quiet
  <2> QED BY <2>1, QuietPlace
<1>11. ASSUME NEW p \in Procs, AcquireLock(p, "worker") PROVE PlaceInv'
  <2>1. Quiet
    BY <1>11 DEF AcquireLock, Quiet
  <2> QED BY <2>1, QuietPlace
<1>12. ASSUME NEW p \in Procs, AcquireFlock(p, "worker") PROVE PlaceInv'
  <2>1. Quiet
    BY <1>12 DEF AcquireFlock, Quiet
  <2> QED BY <2>1, QuietPlace
<1>13. ASSUME NEW p \in Procs, FlushNothing(p) PROVE PlaceInv'
  <2>1. Quiet
    BY <1>13 DEF FlushNothing, Quiet
  <2> QED BY <2>1, QuietPlace
<1>14. ASSUME NEW p \in Procs, FlushRead(p) PROVE PlaceInv'
  <2>1. Quiet
    BY <1>14 DEF FlushRead, Quiet
  <2> QED BY <2>1, QuietPlace
<1>15. ASSUME NEW p \in Procs, FlushReread(p) PROVE PlaceInv'
  <2>1. Quiet
    BY <1>15 DEF FlushReread, Quiet
  <2> QED BY <2>1, QuietPlace
<1>16. ASSUME NEW p \in Procs, FlushWrite(p) PROVE PlaceInv'
  <2>1. taken[p] = file /\ seen[p]["worker"] = {}
    BY <1>16 DEF FlushWrite, SnapshotInv
  <2>2. \A q \in Procs, j \in Items : Answers(q, j)' <=> Answers(q, j) \/ (q = p /\ j \in file)
    BY <1>16, <2>1 DEF FlushWrite, Answers
  <2>3. file' = {} /\ UNCHANGED <<accepted, spoken, lost>>
    BY <1>16, <2>1 DEF FlushWrite
  <2> QED BY <2>2, <2>3 DEF PlaceInv
<1>17. ASSUME NEW p \in Procs, FlushWriteFails(p) PROVE PlaceInv'
  <2>1. Quiet
    BY <1>17 DEF FlushWriteFails, Quiet
  <2> QED BY <2>1, QuietPlace
<1>18. ASSUME NEW p \in Procs, FlushSpeak(p) PROVE PlaceInv'
  <2>1. \A q \in Procs, j \in Items : Answers(q, j)' <=> Answers(q, j)
    BY <1>18 DEF FlushSpeak, Answers
  <2>2. UNCHANGED <<accepted, file, spoken, lost>>
    BY <1>18 DEF FlushSpeak
  <2> QED BY <2>1, <2>2 DEF PlaceInv
<1>19. ASSUME NEW p \in Procs, Play(p) PROVE PlaceInv'
  <2>1. PICK u \in voice[p] : /\ voice' = [voice EXCEPT ![p] = @ \ {u}]
                             /\ spoken' = spoken \cup u
                             /\ UNCHANGED <<pc, taken, accepted, file, lost>>
    BY <1>19 DEF Play
  <2>2. \A q \in Procs, j \in Items :
          Answers(q, j)' <=> Answers(q, j) /\ ~(q = p /\ j \in u)
    BY <2>1 DEF Answers, UtterancesInv
  <2>3. \A j \in u : Answers(p, j)
    BY <2>1 DEF Answers
  <2> QED BY <2>1, <2>2, <2>3 DEF PlaceInv
<1>27. ASSUME NEW p \in Procs, PlayFails(p) PROVE PlaceInv'
  <2>1. PICK u \in voice[p] : /\ voice' = [voice EXCEPT ![p] = @ \ {u}]
                             /\ lost' = lost \cup u
                             /\ UNCHANGED <<pc, taken, accepted, file, spoken>>
    BY <1>27 DEF PlayFails
  <2>2. \A q \in Procs, j \in Items :
          Answers(q, j)' <=> Answers(q, j) /\ ~(q = p /\ j \in u)
    BY <2>1 DEF Answers, UtterancesInv
  <2>3. \A j \in u : Answers(p, j)
    BY <2>1 DEF Answers
  <2> QED BY <2>1, <2>2, <2>3 DEF PlaceInv
<1>20. ASSUME NEW p \in Procs, Crash(p) PROVE PlaceInv'
  <2>1. \A q \in Procs, j \in Items : Answers(q, j)' <=> q # p /\ Answers(q, j)
    BY <1>20 DEF Crash, Answers
  <2>2. \A j \in Items : j \in lost' <=> j \in lost \/ Answers(p, j)
    BY <1>20, HeldAnswers DEF Crash
  <2>3. UNCHANGED <<accepted, file, spoken>>
    BY <1>20 DEF Crash
  <2> QED BY <2>1, <2>2, <2>3 DEF PlaceInv
<1>21. ASSUME NEW p \in Procs, Restart(p) PROVE PlaceInv'
  <2>1. Quiet
    BY <1>21 DEF Restart, Quiet
  <2> QED BY <2>1, QuietPlace
<1>22. ASSUME NEW s \in {"idle", "capturing"}, DaemonWrites(s) PROVE PlaceInv'
  <2>1. Quiet
    BY <1>22 DEF DaemonWrites, Quiet
  <2> QED BY <2>1, QuietPlace
<1>23. CASE DaemonStops
  <2>1. Quiet
    BY <1>23 DEF DaemonStops, Quiet
  <2> QED BY <2>1, QuietPlace
<1>24. CASE DaemonStarts
  <2>1. Quiet
    BY <1>24 DEF DaemonStarts, Quiet
  <2> QED BY <2>1, QuietPlace
<1>25. CASE Tick
  <2>1. Quiet
    BY <1>25 DEF Tick, Quiet
  <2> QED BY <2>1, QuietPlace
<1>26. CASE UNCHANGED vars
  <2>1. Quiet
    BY <1>26 DEF vars, Quiet
  <2> QED BY <2>1, QuietPlace
<1> QED
  BY <1>1, <1>2, <1>3, <1>4, <1>5, <1>6, <1>7, <1>8, <1>9, <1>10, <1>11, <1>12,
     <1>13, <1>14, <1>15, <1>16, <1>17, <1>18, <1>19, <1>20, <1>21, <1>22, <1>23,
     <1>24, <1>25, <1>26, <1>27 DEF Next, Tool, ToolMoves, Worker, WorkerMoves, Environment

-----------------------------------------------------------------------------
(* The inductive invariant holds in every reachable state.                  *)
THEOREM Invariance == Spec => []IInv
<1>1. Init => IInv
  BY DEF Init, IInv, LockInv, RoleInv, SnapshotInv, SayingInv, CarriesInv,
         UtterancesInv, PlaceInv, Answers, Threads, Roles, Nobody
<1>2. TypeOK /\ IInv /\ [Next]_vars => IInv'
  BY LockStep, SnapshotStep, SayingStep, CarriesStep, UtterancesStep, PlaceStep DEF IInv
<1> QED BY <1>1, <1>2, TypeCorrect, PTL DEF Spec

(* No accepted message goes missing while its process lives, whatever two   *)
(* servers do to return_queue.json at once.                                 *)
THEOREM MessagesAccountedFor == Spec => []NothingMislaid
<1>1. TypeOK /\ IInv => NothingMislaid
  <2> SUFFICES ASSUME TypeOK, IInv PROVE NothingMislaid
    OBVIOUS
  <2>1. \A p \in Procs : Held(p) = {i \in Items : Answers(p, i)}
    BY HeldAnswers
  <2> QED BY <2>1 DEF TypeOK, IInv, PlaceInv, NothingMislaid
<1> QED BY <1>1, TypeCorrect, Invariance, PTL

(* The two flush workers never speak the same message.                      *)
THEOREM SpokenOnce == Spec => []OneVoicePerMessage
<1>1. TypeOK /\ IInv => OneVoicePerMessage
  <2> SUFFICES ASSUME TypeOK, IInv PROVE OneVoicePerMessage
    OBVIOUS
  <2>1. \A p \in Procs : Held(p) = {i \in Items : Answers(p, i)}
    BY HeldAnswers
  <2>2. file \cap spoken = {}
    BY DEF TypeOK, IInv, PlaceInv
  <2>3. \A p \in Procs : Held(p) \cap (file \cup spoken) = {}
    BY <2>1 DEF IInv, PlaceInv
  <2>4. \A p, q \in Procs : p # q => Held(p) \cap Held(q) = {}
    BY <2>1 DEF IInv, PlaceInv
  <2> QED BY <2>2, <2>3, <2>4 DEF OneVoicePerMessage
<1> QED BY <1>1, TypeCorrect, Invariance, PTL

-----------------------------------------------------------------------------
(* Without a crash or a failed write a waiting message always has a worker  *)
(* (or one about to be started), and a message that has reached MAX_HOLD_S  *)
(* has a worker whose current pass is bound to take it.                     *)
HoldInv ==
  faults = 0 =>
    /\ \A p \in Procs : due[p] => pc[p]["worker"] = "sleep"
    /\ file # {} => \E p \in Procs : pc[p]["worker"] # "off" \/ pc[p]["tool"] = "ensure"
    /\ (\E i \in file : age[i] >= MaxHold) =>
         \E p \in Procs :
           \/ due[p]
           \/ pc[p]["worker"] \in {"check", "lock", "flock", "read", "reread", "write"}
    /\ \A i \in file : age[i] <= MaxHold

LEMMA HoldStep ==
  ASSUME TypeOK, RoleInv, SnapshotInv, HoldInv, [Next]_vars, faults' = 0
  PROVE  HoldInv'
<1> USE HoldAssumption DEF TypeOK, RoleInv, SnapshotInv, HoldInv, HoldBounded, Step, Release,
        Threads, Roles, history, wakeVars, threadVars
<1>1. ASSUME NEW p \in Procs, NEW i \in Items, SayQueued(p, i) PROVE HoldInv'
  BY <1>1 DEF SayQueued
<1>2. ASSUME NEW p \in Procs, NEW i \in Items, SayNow(p, i) PROVE HoldInv'
  BY <1>2 DEF SayNow
<1>3. ASSUME NEW p \in Procs, EnqueueWriteFails(p) PROVE HoldInv'
  BY <1>3 DEF EnqueueWriteFails
<1>4. ASSUME NEW p \in Procs, AcquireLock(p, "tool") PROVE HoldInv'
  BY <1>4 DEF AcquireLock
<1>5. ASSUME NEW p \in Procs, AcquireFlock(p, "tool") PROVE HoldInv'
  BY <1>5 DEF AcquireFlock
<1>6. ASSUME NEW p \in Procs, EnqueueRead(p) PROVE HoldInv'
  BY <1>6 DEF EnqueueRead
<1>7. ASSUME NEW p \in Procs, EnqueueWrite(p) PROVE HoldInv'
  <2>0. faults = 0
    BY <1>7 DEF EnqueueWrite
  <2>1. file' = file \cup saying[p] /\ due' = due /\ pc'[p]["tool"] = "ensure"
    BY <1>7 DEF EnqueueWrite
  <2>2. \A q \in Procs : pc'[q]["worker"] = pc[q]["worker"]
    BY <1>7 DEF EnqueueWrite
  <2>3. \A i \in Items : age'[i] = IF i \in saying[p] THEN 0 ELSE age[i]
    BY <1>7 DEF EnqueueWrite
  <2>4. \A i \in file' : age'[i] = 0 \/ (i \in file /\ age'[i] = age[i])
    BY <2>1, <2>3
  <2>5. \A q \in Procs : due'[q] => pc'[q]["worker"] = "sleep"
    BY <2>0, <2>1, <2>2
  <2>6. (\E i \in file' : age'[i] >= MaxHold) => \E i \in file : age[i] >= MaxHold
    BY ONLY <2>4, HoldAssumption
  <2>7. \A i \in file' : age'[i] <= MaxHold
    BY <2>0, <2>4
  <2> QED BY <2>0, <2>1, <2>2, <2>5, <2>6, <2>7
<1>8. ASSUME NEW p \in Procs, EnsureWorker(p) PROVE HoldInv'
  BY <1>8 DEF EnsureWorker
<1>9. ASSUME NEW p \in Procs, WakeUp(p) PROVE HoldInv'
  BY <1>9 DEF WakeUp
<1>10. ASSUME NEW p \in Procs, CheckReady(p) PROVE HoldInv'
  BY <1>10 DEF CheckReady, ReadyToFlush, Oldest
<1>11. ASSUME NEW p \in Procs, AcquireLock(p, "worker") PROVE HoldInv'
  BY <1>11 DEF AcquireLock
<1>12. ASSUME NEW p \in Procs, AcquireFlock(p, "worker") PROVE HoldInv'
  BY <1>12 DEF AcquireFlock
<1>13. ASSUME NEW p \in Procs, FlushNothing(p) PROVE HoldInv'
  BY <1>13 DEF FlushNothing
<1>14. ASSUME NEW p \in Procs, FlushRead(p) PROVE HoldInv'
  BY <1>14 DEF FlushRead
<1>15. ASSUME NEW p \in Procs, FlushReread(p) PROVE HoldInv'
  BY <1>15 DEF FlushReread
<1>16. ASSUME NEW p \in Procs, FlushWrite(p) PROVE HoldInv'
  BY <1>16 DEF FlushWrite
<1>17. ASSUME NEW p \in Procs, FlushWriteFails(p) PROVE HoldInv'
  BY <1>17 DEF FlushWriteFails
<1>18. ASSUME NEW p \in Procs, FlushSpeak(p) PROVE HoldInv'
  BY <1>18 DEF FlushSpeak
<1>19. ASSUME NEW p \in Procs, Play(p) PROVE HoldInv'
  BY <1>19 DEF Play
<1>27. ASSUME NEW p \in Procs, PlayFails(p) PROVE HoldInv'
  BY <1>27 DEF PlayFails
<1>20. ASSUME NEW p \in Procs, Crash(p) PROVE HoldInv'
  BY <1>20 DEF Crash
<1>21. ASSUME NEW p \in Procs, Restart(p) PROVE HoldInv'
  BY <1>21 DEF Restart
<1>22. ASSUME NEW s \in {"idle", "capturing"}, DaemonWrites(s) PROVE HoldInv'
  BY <1>22 DEF DaemonWrites
<1>23. CASE DaemonStops
  BY <1>23 DEF DaemonStops
<1>24. CASE DaemonStarts
  BY <1>24 DEF DaemonStarts
<1>25. CASE Tick
  <2>0. faults = 0
    BY <1>25 DEF Tick
  <2>1. \A q \in Procs : ~due[q] /\ pc[q]["worker"] \in {"off", "sleep"} /\ pc[q]["tool"] = "idle"
    BY <1>25 DEF Tick
  <2>2. \A i \in file : age[i] < MaxHold
    BY <2>0, <2>1
  <2>3. \A i \in Items : age'[i] \in {age[i], age[i] + 1} /\ age[i] \in Nat
    BY <1>25 DEF Tick
  <2>4. file # {} => \E q \in Procs : pc[q]["worker"] = "sleep" /\ due'[q]
    BY <1>25, <2>0, <2>1 DEF Tick
  <2>5. file' = file /\ pc' = pc /\ \A q \in Procs : due'[q] => pc[q]["worker"] = "sleep"
    BY <1>25 DEF Tick
  <2> QED BY <2>2, <2>3, <2>4, <2>5
<1>26. CASE UNCHANGED vars
  BY <1>26 DEF vars
<1> QED
  BY <1>1, <1>2, <1>3, <1>4, <1>5, <1>6, <1>7, <1>8, <1>9, <1>10, <1>11, <1>12,
     <1>13, <1>14, <1>15, <1>16, <1>17, <1>18, <1>19, <1>20, <1>21, <1>22, <1>23,
     <1>24, <1>25, <1>26, <1>27 DEF Next, Tool, ToolMoves, Worker, WorkerMoves, Environment

(* Until something fails the backstop is unconditional: no message waits    *)
(* longer than MAX_HOLD_S, for any SETTLE_S, number of servers and messages *)
(* and whatever the wake daemon claims.                                     *)
THEOREM BackstopHolds == Spec => []HoldBounded
<1>1. Init => HoldInv
  BY DEF Init, HoldInv, Threads, Roles
<1>2. TypeOK /\ IInv /\ HoldInv /\ [Next]_vars => HoldInv'
  <2>1. CASE faults' = 0
    BY <2>1, HoldStep DEF IInv
  <2>2. CASE faults' # 0
    BY <2>2 DEF HoldInv
  <2> QED BY <2>1, <2>2
<1>3. HoldInv => HoldBounded
  BY DEF HoldInv, HoldBounded
<1> QED BY <1>1, <1>2, <1>3, TypeCorrect, Invariance, PTL DEF Spec

-----------------------------------------------------------------------------
(* The queue implements the abstract channel.                               *)

(* What the refinement mapping says of every message, place by place.       *)
StatusFollowsPlace ==
  \A i \in Items :
    /\ i \in spoken => StatusOf(i) = "spoken"
    /\ i \in lost => StatusOf(i) = "lost"
    /\ i \in file => StatusOf(i) = "queued"
    /\ (\E p \in Procs : Answers(p, i)) => StatusOf(i) = "claimed"
    /\ i \notin accepted => StatusOf(i) = "new"

LEMMA StatusByPlace == TypeOK /\ PlaceInv => StatusFollowsPlace
<1> SUFFICES ASSUME TypeOK, PlaceInv, NEW i \in Items
             PROVE  /\ i \in spoken => StatusOf(i) = "spoken"
                    /\ i \in lost => StatusOf(i) = "lost"
                    /\ i \in file => StatusOf(i) = "queued"
                    /\ (\E p \in Procs : Answers(p, i)) => StatusOf(i) = "claimed"
                    /\ i \notin accepted => StatusOf(i) = "new"
  BY DEF StatusFollowsPlace
<1> DEFINE claimed == \E p \in Procs : i \in Held(p)
<1>1. claimed <=> \E p \in Procs : Answers(p, i)
  BY HeldAnswers
<1>2. /\ i \in accepted <=> i \in file \/ i \in spoken \/ i \in lost \/ claimed
      /\ ~(i \in file /\ i \in spoken)
      /\ i \in lost => i \notin file \cup spoken
      /\ claimed => i \notin file \cup spoken \cup lost
  BY <1>1 DEF PlaceInv
<1>3. StatusOf(i) = CASE i \in spoken -> "spoken"
                      [] i \in lost -> "lost"
                      [] i \in file -> "queued"
                      [] claimed -> "claimed"
                      [] OTHER -> "new"
  BY DEF StatusOf
<1> HIDE DEF claimed
<1> QED BY <1>1, <1>2, <1>3

(* A message that stays where it is keeps its status. *)
LEMMA SamePlaceSameStatus ==
  ASSUME StatusFollowsPlace, StatusFollowsPlace', PlaceInv, NEW j \in Items,
         (j \in accepted') <=> (j \in accepted), (j \in file') <=> (j \in file),
         (j \in spoken') <=> (j \in spoken), (j \in lost') <=> (j \in lost),
         \A p \in Procs : Answers(p, j)' <=> Answers(p, j)
  PROVE  StatusOf(j)' = StatusOf(j)
BY DEF PlaceInv, StatusFollowsPlace

(* A quiet step is a stutter of the channel.                                *)
LEMMA SamePlacesStutter ==
  ASSUME StatusFollowsPlace, StatusFollowsPlace', PlaceInv,
         UNCHANGED <<accepted, file, spoken, lost>>,
         \A p \in Procs, i \in Items : Answers(p, i)' <=> Answers(p, i)
  PROVE  UNCHANGED [i \in Items |-> StatusOf(i)]
<1>1. ASSUME NEW i \in Items PROVE StatusOf(i)' = StatusOf(i)
  BY DEF PlaceInv, StatusFollowsPlace
<1> QED BY <1>1

LEMMA QuietStutters ==
  ASSUME StatusFollowsPlace, StatusFollowsPlace', PlaceInv, Quiet
  PROVE  UNCHANGED [i \in Items |-> StatusOf(i)]
<1>1. \A p \in Procs, i \in Items : Answers(p, i)' <=> Answers(p, i)
  BY DEF Quiet, Answers
<1> QED BY <1>1, SamePlacesStutter DEF Quiet

Status == [i \in Items |-> StatusOf(i)]

(* Every step of the queue is a step of the channel or a stutter.           *)
LEMMA ChannelStep ==
  TypeOK /\ TypeOK' /\ IInv /\ IInv' /\ [Next]_vars => [Channel!Next]_Status
<1> SUFFICES ASSUME TypeOK, TypeOK', IInv, IInv', [Next]_vars PROVE [Channel!Next]_Status
  OBVIOUS
<1> USE DEF TypeOK, IInv, RoleInv, Step, Release, Threads, Roles, history, wakeVars, threadVars,
        Status
<1>0. StatusFollowsPlace /\ StatusFollowsPlace'
  BY StatusByPlace, PTL DEF IInv
<1>1. ASSUME NEW p \in Procs, NEW i \in Items, SayQueued(p, i) PROVE [Channel!Next]_Status
  <2>1. Quiet
    BY <1>1 DEF SayQueued, Quiet
  <2> QED BY <1>0, <2>1, QuietStutters
<1>2. ASSUME NEW p \in Procs, NEW i \in Items, SayNow(p, i) PROVE [Channel!Next]_Status
  <2>1. \A q \in Procs, j \in Items : Answers(q, j) => Answers(q, j)'
    BY <1>2 DEF SayNow, Answers
  <2>2. Answers(p, i)'
    <3>1. {i} \in voice'[p]
      BY <1>2 DEF SayNow
    <3> QED BY <3>1 DEF Answers
  <2>3. accepted' = accepted \cup {i} /\ i \notin accepted /\ UNCHANGED <<file, spoken, lost>>
    BY <1>2 DEF SayNow, SayingInv
  <2>4. \A j \in Items : StatusOf(j)' = IF j \in {i} THEN "claimed" ELSE StatusOf(j)
    BY <1>0, <2>1, <2>2, <2>3 DEF PlaceInv, StatusFollowsPlace
  <2>5. StatusOf(i) = "new"
    BY <1>0, <2>3 DEF StatusFollowsPlace
  <2>6. Channel!MoveTo({i}, "claimed")
    BY <2>4 DEF Channel!MoveTo
  <2>7. Channel!SpeakAtOnce(i)
    BY <2>5, <2>6 DEF Channel!SpeakAtOnce
  <2> QED BY <2>7 DEF Channel!Next
<1>3. ASSUME NEW p \in Procs, EnqueueWriteFails(p) PROVE [Channel!Next]_Status
  <2>1. Quiet
    BY <1>3 DEF EnqueueWriteFails, Quiet
  <2> QED BY <1>0, <2>1, QuietStutters
<1>4. ASSUME NEW p \in Procs, AcquireLock(p, "tool") PROVE [Channel!Next]_Status
  <2>1. Quiet
    BY <1>4 DEF AcquireLock, Quiet
  <2> QED BY <1>0, <2>1, QuietStutters
<1>5. ASSUME NEW p \in Procs, AcquireFlock(p, "tool") PROVE [Channel!Next]_Status
  <2>1. Quiet
    BY <1>5 DEF AcquireFlock, Quiet
  <2> QED BY <1>0, <2>1, QuietStutters
<1>6. ASSUME NEW p \in Procs, EnqueueRead(p) PROVE [Channel!Next]_Status
  <2>1. Quiet
    BY <1>6 DEF EnqueueRead, Quiet
  <2> QED BY <1>0, <2>1, QuietStutters
<1>7. ASSUME NEW p \in Procs, EnqueueWrite(p) PROVE [Channel!Next]_Status
  <2>1. PICK i \in Items : saying[p] = {i}
    BY <1>7 DEF EnqueueWrite, CarriesInv
  <2>2. /\ file' = file \cup {i} /\ i \notin accepted
        /\ accepted' = accepted \cup {i}
        /\ UNCHANGED <<spoken, lost>>
    BY <1>7, <2>1 DEF EnqueueWrite, SnapshotInv, SayingInv
  <2>3. \A q \in Procs, j \in Items : Answers(q, j)' <=> Answers(q, j)
    BY <1>7 DEF EnqueueWrite, Answers
  <2>4. \A j \in Items : StatusOf(j)' = IF j \in {i} THEN "queued" ELSE StatusOf(j)
    <3>1. StatusOf(i)' = "queued"
      BY <1>0, <2>2 DEF StatusFollowsPlace
    <3>2. ASSUME NEW j \in Items, j # i PROVE StatusOf(j)' = StatusOf(j)
      <4>1. /\ (j \in accepted') <=> (j \in accepted)
            /\ (j \in file') <=> (j \in file)
            /\ (j \in spoken') <=> (j \in spoken)
            /\ (j \in lost') <=> (j \in lost)
        BY <2>2, <3>2
      <4>2. PlaceInv
        BY DEF IInv
      <4> QED BY ONLY <1>0, <2>3, <3>2, <4>1, <4>2, SamePlaceSameStatus
    <3> QED BY ONLY <3>1, <3>2
  <2>5. StatusOf(i) = "new"
    BY <1>0, <2>2 DEF StatusFollowsPlace
  <2>6. Channel!MoveTo({i}, "queued")
    BY <2>4 DEF Channel!MoveTo
  <2>7. Channel!Queue(i)
    BY <2>5, <2>6 DEF Channel!Queue
  <2> QED BY <2>7 DEF Channel!Next
<1>8. ASSUME NEW p \in Procs, EnsureWorker(p) PROVE [Channel!Next]_Status
  <2>1. Quiet
    BY <1>8 DEF EnsureWorker, Quiet
  <2> QED BY <1>0, <2>1, QuietStutters
<1>9. ASSUME NEW p \in Procs, WakeUp(p) PROVE [Channel!Next]_Status
  <2>1. Quiet
    BY <1>9 DEF WakeUp, Quiet
  <2> QED BY <1>0, <2>1, QuietStutters
<1>10. ASSUME NEW p \in Procs, CheckReady(p) PROVE [Channel!Next]_Status
  <2>1. Quiet
    BY <1>10 DEF CheckReady, Quiet
  <2> QED BY <1>0, <2>1, QuietStutters
<1>11. ASSUME NEW p \in Procs, AcquireLock(p, "worker") PROVE [Channel!Next]_Status
  <2>1. Quiet
    BY <1>11 DEF AcquireLock, Quiet
  <2> QED BY <1>0, <2>1, QuietStutters
<1>12. ASSUME NEW p \in Procs, AcquireFlock(p, "worker") PROVE [Channel!Next]_Status
  <2>1. Quiet
    BY <1>12 DEF AcquireFlock, Quiet
  <2> QED BY <1>0, <2>1, QuietStutters
<1>13. ASSUME NEW p \in Procs, FlushNothing(p) PROVE [Channel!Next]_Status
  <2>1. Quiet
    BY <1>13 DEF FlushNothing, Quiet
  <2> QED BY <1>0, <2>1, QuietStutters
<1>14. ASSUME NEW p \in Procs, FlushRead(p) PROVE [Channel!Next]_Status
  <2>1. Quiet
    BY <1>14 DEF FlushRead, Quiet
  <2> QED BY <1>0, <2>1, QuietStutters
<1>15. ASSUME NEW p \in Procs, FlushReread(p) PROVE [Channel!Next]_Status
  <2>1. Quiet
    BY <1>15 DEF FlushReread, Quiet
  <2> QED BY <1>0, <2>1, QuietStutters
<1>16. ASSUME NEW p \in Procs, FlushWrite(p) PROVE [Channel!Next]_Status
  <2>1. taken[p] = file /\ seen[p]["worker"] = {} /\ file # {}
    BY <1>16 DEF FlushWrite, SnapshotInv
  <2>2. file' = {} /\ UNCHANGED <<accepted, spoken, lost>>
    BY <1>16, <2>1 DEF FlushWrite
  <2>3. \A q \in Procs, j \in Items : Answers(q, j)' <=> Answers(q, j) \/ (q = p /\ j \in file)
    BY <1>16, <2>1 DEF FlushWrite, Answers
  <2>4. \A j \in Items : StatusOf(j)' = IF j \in file THEN "claimed" ELSE StatusOf(j)
    BY <1>0, <2>2, <2>3 DEF PlaceInv, StatusFollowsPlace
  <2>5. \A j \in Items : j \in file <=> StatusOf(j) = "queued"
    BY <1>0 DEF PlaceInv, StatusFollowsPlace
  <2>6. Channel!At("queued") = file
    BY <2>5 DEF Channel!At
  <2>7. Channel!MoveTo(file, "claimed")
    BY <2>4 DEF Channel!MoveTo
  <2>8. Channel!Claim
    BY <2>1, <2>6, <2>7 DEF Channel!Claim
  <2> QED BY <2>8 DEF Channel!Next
<1>17. ASSUME NEW p \in Procs, FlushWriteFails(p) PROVE [Channel!Next]_Status
  <2>1. Quiet
    BY <1>17 DEF FlushWriteFails, Quiet
  <2> QED BY <1>0, <2>1, QuietStutters
<1>18. ASSUME NEW p \in Procs, FlushSpeak(p) PROVE [Channel!Next]_Status
  <2>1. \A q \in Procs, j \in Items : Answers(q, j)' <=> Answers(q, j)
    BY <1>18 DEF FlushSpeak, Answers
  <2>2. UNCHANGED <<accepted, file, spoken, lost>>
    BY <1>18 DEF FlushSpeak
  <2> QED BY <1>0, <2>1, <2>2, SamePlacesStutter
<1>19. ASSUME NEW p \in Procs, Play(p) PROVE [Channel!Next]_Status
  <2>1. PICK u \in voice[p] : /\ voice' = [voice EXCEPT ![p] = @ \ {u}]
                             /\ spoken' = spoken \cup u
                             /\ UNCHANGED <<pc, taken, accepted, file, lost>>
    BY <1>19 DEF Play
  <2>2. u \subseteq Items /\ \A j \in u : Answers(p, j)
    BY <2>1 DEF Answers
  <2>3. \A q \in Procs, j \in Items : j \notin u => (Answers(q, j)' <=> Answers(q, j))
    BY <2>1 DEF Answers
  <2>4. \A j \in Items : StatusOf(j)' = IF j \in u THEN "spoken" ELSE StatusOf(j)
    BY <1>0, <2>1, <2>2, <2>3 DEF PlaceInv, StatusFollowsPlace
  <2>5. u \subseteq Channel!At("claimed")
    BY <1>0, <2>2 DEF StatusFollowsPlace, Channel!At
  <2>6. Channel!MoveTo(u, "spoken")
    BY <2>2, <2>4 DEF Channel!MoveTo
  <2>7. CASE u = {}
    BY <2>4, <2>7
  <2>8. CASE u # {}
    BY <2>2, <2>5, <2>6, <2>8 DEF Channel!Next, Channel!Say
  <2> QED BY <2>7, <2>8
<1>27. ASSUME NEW p \in Procs, PlayFails(p) PROVE [Channel!Next]_Status
  <2>1. PICK u \in voice[p] : /\ voice' = [voice EXCEPT ![p] = @ \ {u}]
                             /\ lost' = lost \cup u
                             /\ UNCHANGED <<pc, taken, accepted, file, spoken>>
    BY <1>27 DEF PlayFails
  <2>2. u \subseteq Items /\ \A j \in u : Answers(p, j)
    BY <2>1 DEF Answers
  <2>3. \A q \in Procs, j \in Items : j \notin u => (Answers(q, j)' <=> Answers(q, j))
    BY <2>1 DEF Answers
  <2>4. \A j \in Items : StatusOf(j)' = IF j \in u THEN "lost" ELSE StatusOf(j)
    <3>1. ASSUME NEW j \in Items, j \in u PROVE StatusOf(j)' = "lost"
      BY <1>0, <2>1, <3>1 DEF StatusFollowsPlace
    <3>2. ASSUME NEW j \in Items, j \notin u PROVE StatusOf(j)' = StatusOf(j)
      <4>1. /\ (j \in accepted') <=> (j \in accepted)
            /\ (j \in file') <=> (j \in file)
            /\ (j \in spoken') <=> (j \in spoken)
            /\ (j \in lost') <=> (j \in lost)
        BY <2>1, <3>2
      <4>2. \A q \in Procs : Answers(q, j)' <=> Answers(q, j)
        BY ONLY <2>3, <3>2
      <4>3. PlaceInv
        BY DEF IInv
      <4> QED BY ONLY <1>0, <3>2, <4>1, <4>2, <4>3, SamePlaceSameStatus
    <3> QED BY ONLY <3>1, <3>2
  <2>5. u \subseteq Channel!At("claimed")
    BY <1>0, <2>2 DEF StatusFollowsPlace, Channel!At
  <2>6. Channel!MoveTo(u, "lost")
    BY <2>2, <2>4 DEF Channel!MoveTo
  <2>7. CASE u = {}
    BY <2>4, <2>7
  <2>8. CASE u # {}
    BY <2>2, <2>5, <2>6, <2>8 DEF Channel!Next, Channel!Lose
  <2> QED BY <2>7, <2>8
<1>20. ASSUME NEW p \in Procs, Crash(p) PROVE [Channel!Next]_Status
  <2>1. \A q \in Procs, j \in Items : Answers(q, j)' <=> q # p /\ Answers(q, j)
    BY <1>20 DEF Crash, Answers
  <2>2. Held(p) = {j \in Items : Answers(p, j)} /\ lost' = lost \cup Held(p)
    BY <1>20, HeldAnswers DEF Crash
  <2>3. UNCHANGED <<accepted, file, spoken>>
    BY <1>20 DEF Crash
  <2>4. \A j \in Items : StatusOf(j)' = IF j \in Held(p) THEN "lost" ELSE StatusOf(j)
    <3>1. ASSUME NEW j \in Items, j \in Held(p) PROVE StatusOf(j)' = "lost"
      BY <1>0, <2>2, <3>1 DEF StatusFollowsPlace
    <3>2. ASSUME NEW j \in Items, j \notin Held(p) PROVE StatusOf(j)' = StatusOf(j)
      <4>1. /\ (j \in accepted') <=> (j \in accepted)
            /\ (j \in file') <=> (j \in file)
            /\ (j \in spoken') <=> (j \in spoken)
            /\ (j \in lost') <=> (j \in lost)
        BY <2>2, <2>3, <3>2
      <4>2. \A q \in Procs : Answers(q, j)' <=> Answers(q, j)
        BY ONLY <2>1, <2>2, <3>2
      <4>3. PlaceInv
        BY DEF IInv
      <4> QED BY ONLY <1>0, <3>2, <4>1, <4>2, <4>3, SamePlaceSameStatus
    <3> QED BY ONLY <3>1, <3>2
  <2>5. Held(p) \subseteq Channel!At("claimed")
    BY <1>0, <2>2 DEF StatusFollowsPlace, Channel!At
  <2>6. Held(p) \subseteq Items
    BY <2>2
  <2>7. Channel!MoveTo(Held(p), "lost")
    BY <2>4, <2>6 DEF Channel!MoveTo
  <2>8. CASE Held(p) = {}
    BY <2>4, <2>8
  <2>9. CASE Held(p) # {}
    BY <2>5, <2>6, <2>7, <2>9 DEF Channel!Next, Channel!Lose
  <2> QED BY <2>8, <2>9
<1>21. ASSUME NEW p \in Procs, Restart(p) PROVE [Channel!Next]_Status
  <2>1. Quiet
    BY <1>21 DEF Restart, Quiet
  <2> QED BY <1>0, <2>1, QuietStutters
<1>22. ASSUME NEW s \in {"idle", "capturing"}, DaemonWrites(s) PROVE [Channel!Next]_Status
  <2>1. Quiet
    BY <1>22 DEF DaemonWrites, Quiet
  <2> QED BY <1>0, <2>1, QuietStutters
<1>23. CASE DaemonStops
  <2>1. Quiet
    BY <1>23 DEF DaemonStops, Quiet
  <2> QED BY <1>0, <2>1, QuietStutters
<1>24. CASE DaemonStarts
  <2>1. Quiet
    BY <1>24 DEF DaemonStarts, Quiet
  <2> QED BY <1>0, <2>1, QuietStutters
<1>25. CASE Tick
  <2>1. Quiet
    BY <1>25 DEF Tick, Quiet
  <2> QED BY <1>0, <2>1, QuietStutters
<1>26. CASE UNCHANGED vars
  <2>1. Quiet
    BY <1>26 DEF vars, Quiet
  <2> QED BY <1>0, <2>1, QuietStutters
<1> QED
  BY <1>1, <1>2, <1>3, <1>4, <1>5, <1>6, <1>7, <1>8, <1>9, <1>10, <1>11, <1>12,
     <1>13, <1>14, <1>15, <1>16, <1>17, <1>18, <1>19, <1>20, <1>21, <1>22, <1>23,
     <1>24, <1>25, <1>26, <1>27 DEF Next, Tool, ToolMoves, Worker, WorkerMoves, Environment

(* The persisted file, the two locks, the workers and their crashes behave  *)
(* like the abstract channel, for any number of servers and messages.       *)
THEOREM QueueImplementsChannel == Spec => ImplementsChannel
<1>1. Init => Channel!Init
  <2> SUFFICES ASSUME Init PROVE \A i \in Items : StatusOf(i) = "new"
    BY DEF Channel!Init
  <2> QED BY DEF Init, StatusOf, Held, Threads, Roles
<1>2. TypeOK /\ TypeOK' /\ IInv /\ IInv' /\ [Next]_vars => [Channel!Next]_Status
  BY ChannelStep
<1> QED BY <1>1, <1>2, TypeCorrect, Invariance, PTL
        DEF Spec, ImplementsChannel, Channel!Spec, Status
=============================================================================
