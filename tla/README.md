# A TLA+ model of Jarvis

Jarvis lets one person work with a set of Claude Code sessions by voice.  A wake word daemon
(L1, `src/l1_wakeword`, with the chunker of L2) records what he says and hands the transcript on;
a *concierge* and a *router*, themselves Claude Code sessions with an MCP server each (L4,
`src/l4_controller`), decide what it means and type instructions into the tmux panes of the worker
sessions; a console (L5, `src/l5_console`) starts and stops the daemon, polls everything, announces
questions the sessions stop at, and keeps the registries of teams and of the two engine roles.  All
of these are separate processes.  They talk through files that several of them rewrite, one unix
socket, tmux, and the loudspeaker.

This directory holds TLA+ modules of the parts whose correctness depends on the order in which
those processes act, the TLC configurations that check them, and TLAPS proofs.  Read the modules
beside the source: each action names the function it stands for, and `PROJECT.json` gives the
source lines of every definition.

## 1. Inventory

| Component | State it keeps | Operations | Interacts with |
|---|---|---|---|
| Dictation capture (`daemon.py`, `vad_chunker.py`, `hallucination_filter.py`) | controller state, the chunk buffer, silence counters, the transcript so far | idle and capturing frames, cut, gate, hold, stop, end of file | transcription, handoff |
| Handoff (`l2_l3_handoff.py`, `tools_handoff.py`, `instant_ack.py`) | transcript files; the acknowledgement's thread | two hops, each delivery or failure spoken | dispatch state, transport, speech |
| Delivery of a batch (`tools_write.py`, `registry.py`, `member_identity.py`) | none beyond a call | refuse, resolve, deliver, retry a busy target, record, summarise | transport, dispatch state |
| Dispatch state (`dispatch_state.py`) | `dispatch_state.json`, a record per dictation | forwarded, complete, failed, stage, heal | daemon, both servers, console: no lock |
| Concierge model (`l2_5_concierge`) | none beyond a turn | classify, match a session, answer from the record, forward | dispatch state, a small model |
| Cancel window (`cancel_listener.py`, `daemon.py` LiveController, `tools_write.py`) | controller state, deadline and detection flag; the socket | `confirm_plan`, `arm_cancel`, `on_frame`, `deliver_batch` | router and daemon over `l1.sock` |
| Return queue (`return_queue.py`, `tools_voice.py`) | `return_queue.json`; per process an RLock and a worker flag | `jarvis_say`, `enqueue`, `flush_now`, `_worker_loop` | read and rewritten by the servers under a file lock; reads `wake_state.json`; ends in the speech queue |
| Speech queue (`say_feedback.py`) | per process a priority queue, a sequence counter, a worker flag; `say_log.jsonl` | `speak`, `speak_with_cancel_window`, `_worker_loop` | every process that speaks; starts the listener of a cancel window |
| tmux transport (`transport.py`, `pane_state.py`, `slash_guard.py`) | a lock per target and process | deliver, recovery of stuck views, `/cost`-like and `/btw` views, answer, approve | a Claude Code pane and the user at it |
| Blocked questions (`blocked_state.py`, `blocked_answer.py`, `providers.py`, `poller.py`, `teams.py`) | `blocked_state.json`, a record per session | detect, announce, answer, forget | console poller and both servers: no lock |
| Team registry (`teams.py`, `team_actions.py`, `setup.py`, `reconnect.py`, `revive.py`, `team_registry_tools.py`) | `teams.json` | create, adopt, add, remove, set lead, relocate, reconnect, verify an identity | console and servers: no lock |
| Engine roles and their prompts (`engine_roles.py`, `models.py`, `setup.py`, `poller.py`) | `engine.json`; the last prompt episode of each role, in memory | create, attach, swap, remove, activate, rename; judge, approve, announce | tmux, transport |
| Console poller (`poller.py`) | one in-memory state, six loops | check, store, fail | all files above |
| Textual console (`app/*.py`) | widgets; one handle of the daemon's process | start, stop, panic, quit, refresh bursts, the flows | poller, wake daemon, registries |
| Others | | | transcription, wake word scoring, MCP registration, synthesis, view parsing, the latency log, terminal windows, paths |

What makes each correct, in a sentence: what was said is transcribed once and in order, and the
microphone closes in time; a dictation that goes no further is announced, and an agent acts on its
own dictation's words; a record shows what really became of one; a plan cancelled out loud is never
sent and one that is sent was listened for; a message accepted is heard once and in time; one
utterance at a time, in order; what is typed is submitted alone, into the screen it was meant for,
and `ok` is true; a question is announced once and its answer reaches it and no other; a live
session has one owner and one copy; what the panels show as current is; "stopped" means stopped.

The hard behaviours: unlocked read-change-write of whole files by several processes (dispatch
state, blocked state, team registry); one file under a lock that must be held across the read and
the write (return queue); a three-way race of timeouts (cancel window); state looked at and acted
on later (every key sent to a pane, every flow of the console that ends in a write minutes after its
list was read); processes that die with work in memory; a button and a panic key that await the same
process; counters of silence that begin anew at every cut; waits that must end.  `PROJECT.json`
lists them under "hazards", each at its line.

## 2. Modules

| Module | Models | Run | Proofs |
|---|---|---|---|
| `ReturnChannel` | what the return channel promises, with no files, locks or processes | through `ReturnQueue` | |
| `ReturnQueue` | the two-process batching queue | `RQ_safety` | `ReturnQueueProofs` |
| `CancelWindow` | router, socket handler, controller and microphone | `CW_controller` | `VoiceProofs` |
| `SpeechQueue` | callers, listeners and the worker of a process | `SQ_queue` | `VoiceProofs` |
| `DispatchState` | four rewriters of one file | through `Concierge` | `ConciergeProofs` |
| `Concierge` | the local concierge beside those rewriters | `DS_file` | `ConciergeProofs` |
| `Transport` | calls on one pane, the pane, its user | `TR_pane` | `TransportProofs` |
| `BlockedQuestions` | poller, answer tool, sessions | `BQ_escalation`, `CV_poller`, `BQ_wrong` | `ConsoleProofs` |
| `Dictation` | one microphone, from wake word to transcript | `CW_controller` | `VoiceProofs` |
| `Delivery` | a dictation from the listener to the sessions it is for | `DV_delivery` | `DeliveryProofs` |
| `TeamRegistry` | `teams.json`, the sessions it is matched with, its editors | `TM_teams` | `TeamRegistryProofs` |
| `EngineRoles` | `engine.json`, the two roles' sessions and prompts | `EN_roles` | `RolesProofs` |
| `WakeControl` | the console starting and stopping the listener | `WK_control` | `ConsoleProofs` |
| `ConsoleView` | the poller's threads and what the panels make of them | `CV_poller` | `ConsoleProofs` |

Each `MC...` module extends its component and gives names to finite constants; the `.cfg` files
choose among them. `MCController` and `MCPoller` hold two components each that share a process and
no state that is modelled: a variable of theirs chooses, once, which of the two moves. Operators
named `Action_Variant`, each marked "mutant" beside the definition it varies, are deliberately
broken: with the variant in place of the action the run's property fails. Components whose theorems
share a proof module keep their names apart: `WakeSpec`, `SpeechSpec`, `DictationSpec` and
`BlockedSpec` are the specifications of theirs.

**ReturnQueue.**  Every process has a `tool` thread (a call of `jarvis_say`) and, once it has
enqueued, a `worker`.  `SayQueued`/`SayNow` are the two branches of `jarvis_say`;
`AcquireLock`, `AcquireFlock`, `EnqueueRead`, `EnqueueWrite` (or `EnqueueWriteFails`),
`EnsureWorker` are `enqueue` in its order; `WakeUp`, `CheckReady`, then the same two locks,
`FlushRead`, `FlushReread`, `FlushWrite`, `FlushSpeak` are a pass of `_worker_loop` through
`flush_now`, which reads the file twice under the lock.  Threads interleave between any two of
these; `Crash` may fall between any two and drops the locks and whatever the process held;
`PlayFails` is an exception in the speech worker, which drops the utterance and goes on;
`Restart` is a fresh import, without a worker.  The file is a set of messages with their ages:
every reader sorts it, so its order says nothing.  `ReadyToFlush` is the gate with its branches
in the code's order, over what `wake_state.json` last said and whether it is still fresh.

**CancelWindow.**  A round is a `confirm_plan` and the `deliver_batch` after it.  The daemon is
one event loop: a frame, a connection and a handler's poll exclude one another and a dictation
being delivered blocks all three.  `Confirm`..`Send` are the router's side, `Request` and
`Answer` the handler (arm, or hang up if not idle; poll until the controller has left
`CANCEL_ARMED` or its own deadline passes), `CancelFrame`, `IdleFrame`, `CaptureFrame` the
branches of `on_frame`.  `Tick` is half a second, the slack of the handler beyond the window.

**SpeechQueue.**  `Ensure` is the unlocked look at `_worker_started`, `Lock` and `StartWorker`
the locked one, `Number` draws the sequence number and `Put` enqueues (two steps of one
expression).  `Get`, `Log`, `Signal`, `Played` are an iteration of the worker; `LogFails` is an
exception of `_log_say`, after which the loop goes on with the next item.

**DispatchState and Concierge.** An operation is one step that reads the file and changes the
record, then `Truncate` and `Write` (`write_text`). A torn file reads as no records. `life` is what
really became of a dictation; a hand-over may also raise after its record was made and leave it
"stranded". `Concierge` extends it by turns of the local concierge: the keyword rules and the
session match come before the model, whose verdict is any answer or a timeout; a question about the
last dictation is answered from the latest record as the file shows it when it is read. `eaten` says
of a turn that ends with nothing heard whether it was kept as small talk or lost on the way (an
empty answer, an exception in the hand-over). (The daemon has not called this concierge since
2026-08-18; it runs from the command line.)

**Transport.**  `Check` to `Enter` are `_deliver_locked`, `Wait` to `Dismissed`
`_recover_stuck_view`, `Opened` to `Closed` the two view handlers, `Confirm` to `Pressed` the
answer and the approval.  `State` is `classify_pane_ansi` with its order of precedence; a payload is
its kind, because the slash guard distinguishes nothing else.  The pane (turns end, ask, die;
commands open views) and its user are modelled from how the code deals with them.  A view may come up
at any time after its command was submitted, also when that command has given up waiting (`due`); keys
sent while one lies over the session go into it (`Input`), and where they were not meant to, into
`stray`.

**BlockedQuestions.**  `PollStart` to `Surface` are one round of the console's teams loop, member
by member, with the two reads around a `mark_blocked`; `Hear` to `Answered` the answer tool, which
presses the digit in between (`PressDigit`) and then watches the pane (`Confirm`);
`DropDead` the removal of dead sessions when questions are listed.  Every write of the file is
`Begin`, `Truncate`, `Write`, interleaved with everyone else's.  A session may ask again at any moment.
Two histories say what the properties except: `hurried`, the questions asked while a trace of an
earlier one of the session was left anywhere, and `overlapped`, that a change was read while another's
write was under way.

**Dictation.**  One step is one frame, as in the code, which handles frames one after another.  A
frame is what is heard in it: a pause, "Jarvis" or a name that sounds like it, a word, or half of the
stop or the hold phrase; a transcription may be confabulated.  Text is the numbers of the frames it came
from, so "lost", "twice" and "out of order" can be said.  `Forgotten` is how far back
the verification of a wake word hears.  Frames also come from a recorded file, which ends.

**Delivery.**  A sender (the listener; the concierge's server) looks up its target, names and writes
the dictation's file, records it as forwarded and types it; every one of these may fail, and each
failure has its announcement and its record, or neither, as in the code (`HandsNothing` is refused
without a word; arming the acknowledgement may fail without one).  The router's batch
refuses, delivers in order, sleeps and retries busy targets within one budget, completes the record
and speaks its summary.  The listener's acknowledgement thread runs beside them.  A file's name is
the second it is written in and a suffix; the look for a free one and the write are two steps.

**TeamRegistry.**  Between the read and the write of an operation may lie microseconds (one step), a
`/status` or a turn of an agent; the slow ones hold their copy of the file in `busy` and others act
in between.  `Claimants` matches live sessions to members by directory and name; adoption
reads an identity off `/status`.  Users start, stop, rename and move sessions by themselves.

**EngineRoles.**  One modal screen writes `engine.json`; activations (the panel's and Revive's) hold
the record they began with for their ten seconds.  A prompt has an identity and a kind: what the
poller judges and what it approves are two looks at the pane.

**WakeControl.**  Presses of the button queue as messages and are read by the label the button has
by then; the panic key is awaited beside the panel; both wait on one global handle.  Processes may
obey, ignore the first signal, or be wedged, and one may belong to another console.

**ConsoleView.**  One section of the poller at a time: its thread's look at the world, the store of
value, stamp and error in the order of its own loop, and the panels' reading, which is one step
except for the teams, which are stored field by field under a lock the panels do not take.

**Composition.**  `Concierge` extends `DispatchState`.  `Delivery` stands between `Dictation` and
`Transport`: it begins with a finished transcript and takes a delivery's outcome as a choice, and it
takes each update of the dispatch record as one step, because what overlapping updates do to the file
is `DispatchState`'s subject.  `CancelWindow` takes the idle and capturing controller as two states
of `Dictation`'s.  `SpeechQueue` begins where `ReturnQueue` ends, in `FlushSpeak`.
`ReturnQueue` implements `ReturnChannel` under the mapping `StatusOf`.

## 3. Runs

| Run | Properties | Instance |
|---|---|---|
| `RQ_safety` | `NothingMislaid` every accepted message is in exactly one place or died with its process; `OneVoicePerMessage`; `HoldBounded` the backstop, until something fails; `ImplementsChannel` the refinement | 2 processes, 3 messages of three kinds, 1 crash or failed write |
| `CW_controller` | `CancelHonoured` what was cancelled is not sent; `WindowsAreMeant` what was sent was listened for, and no window is left to swallow a later wake word; `WindowCloses` | the window: 2 rounds of one router, one with a real target, 1 dictation, 1 stall, 1 death of the daemon, window of 2 |
| | `NothingLost` every word is kept once and in order, or dropped whole; `PhrasesCount` a dictation begins on a call and ends on its phrase at a pause; `EndsOnTime` neither too early nor never | the capture: 6 sounds; limits of 2 to 7 frames in the code's order |
| `SQ_queue` | `OneAtATime`; `NoOvertaking`; `WindowFollowsSpeech`; `ConfirmReturns` | 3 calls in one process, one with a window, 1 failed log write, muted or not |
| `DS_file` | `NoFalseNews` the file calls nothing complete or failed before it is; `AnswersAreTrue` nor does the concierge; `NeverSmallTalk` a turn that names a session is never kept as small talk; `NothingForwardedForever` | 2 dictations, one per hop, 4 processes, 1 crash |
| `TR_pane` | `SentAlone`; `NoStrayKeys`; `OkMeansDone` the text was submitted, the view read and closed, the key pressed; `NothingSticks` calls return and a stuck view is got rid of | 3 calls of one process, four mixes of kinds and habits, views that come up late or stay, 3 moves of pane and user, 1 lost key |
| `BQ_escalation` | `AnswerHitsItsQuestion`; `Escalated` a question that stays is announced | 1 session, 2 questions at any moment, 1 death, 3 writers |
| `BQ_wrong` (violated) | `NeverWrongQuestion`, as the specification of the feature has it | 2 members, 2 questions each |
| `TM_teams` | `LeadIsMember`; `OneToOne` a live session is one team's and resumed once; `ToldOnce` a restart is announced once, unless the announcement was overtaken or the member moved | 2 teams, directories, names and identities; a console and a router; 3 moves, 3 operations |
| `EN_roles` | `OneOfEach` one session does not serve two roles, a name is one session's, none is resumed twice; `PromptsHandled` only harmless reads approved, a prompt announced once | both roles, 1 session of the user's, 2 directories, 2 identities, 2 activators, 3 kinds of prompt; 2 moves, 2 prompts, 3 operations |
| `WK_control` | `StoppedIsTrue`; `OneOfOurs`; `QuitWarns`; `MicCloses` a stop closes the microphone in the end | 2 listeners, 2 starts, 3 presses, 1 failed poll |
| `DV_delivery` | `FailuresHeard` what is lost is announced, and an acknowledgement that was armed leaves no silence; `OwnWords`; `ReportsAreTrue` | 2 dictations, one too long to inline; a session and a test target; 2 ticks, 1 fault |
| `CV_poller` | `SpokenOnce` a question is announced once, and on record as announced only if it was, whichever member is announced, answered or dropped in between | 2 members with a question each, 1 death, 3 writers |
| | `ShownIsTrue` what is shown unmarked was so within the staleness mark and "none" was found; `MisreadOnce` a torn reading of the teams lasts one refresh; `OneClock` | each of six sections, mark of 3, checks of up to 4 ticks |

Every run but `BQ_wrong` passes, and every property of those has a mutant in `PROJECT.json` that
violates it.  `BQ_wrong` finds in a few steps what `docs/SPEC-blockers.md:202-203` rules out ("Never
deliver an answer to the wrong question"): the session asks again while the digit for its first question
is on its way.

**Bounds.** Two processes are all that share `return_queue.json`. Three messages allow a batch with
a message arriving between its read and its write; one fault is enough for a batch to be in any
thread's hands when it strikes. `MAX_HOLD_S` and `SETTLE_S` matter by their order, which is what the
gate distinguishes; so do the chunker's and the silence limits (`DictationAssumption` states that
order, and the run keeps it). The cancel window is two ticks, the handler's slack one and the
client's two, as 0.5 s and 1.0 s are. Two rounds let a late answer of the first meet the window of
the second. Every polling loop of the transport is cut to two attempts, so both "again" and "give
up" occur. Ages saturate at the first value past their limit. Two dictations suffice for one
operation to undo another's record, and for one to take the other's file name. Two questions of one
session let the second meet every trace of the first; two members with one each let every rewrite
for one meet the other's record. Six sounds are a wake word, speech, a phrase and speech again, with
room for a chunk that is dropped. Two directories, names and identities are enough for a session to
be moved onto another's; with a screen and a tool call, three operations let one be read, overtaken
and written back. A check of the panels takes up to four ticks, which is what two timeouts of five
seconds take at the shortest interval. Three presses are a start, a stop and a panic stop at once; a
second start is what a stale stop can meet.

**Fairness.**  Threads and event loops that can take a step do, time passes, a player's
subprocess ends, the console polls, a submitted view command takes effect, and a process that has
been sent a signal it obeys ends; the microphone delivers frames again in the end; the console is
not prevented from speaking each and every time (strong fairness of `Announce`: `_safe_to_speak`
looks at an idle microphone and no dictation in flight, and `NothingForwardedForever` says the latter
passes).  Nothing is assumed of agents, users, crashes or the state the wake daemon writes.
`TeamRegistry`, `EngineRoles`, `Delivery`, `Dictation` and `ConsoleView` are checked for safety
alone: their waits are bounded by counters that the safety properties mention (`EndsOnTime`,
`FailuresHeard`), or end with a person.

`CHECK_DEADLOCK FALSE` stands where calls, moves, presses or sounds are finite and the system really
comes to rest (`SQ_queue`, `TR_pane`, `TM_teams`, `EN_roles`, `WK_control`, `DV_delivery`).

**Assumptions that appear as constants.** `Heedful`: the router drops a plan when
`cancel_window_available` is false, as its instructions say. `Steady`: a pane does not change in the
milliseconds between a look and the keys it justifies; the code cannot do better over tmux, and
without it a permission prompt that comes up in the gap is answered by an Enter. `Typed`: the
names given by hand to a role's session are not ones the console would suggest next. The habits in
`Plans` of `Transport`: a user who types ahead into a busy pane has `/compact` appended to his text
(a busy pane's input line is not looked at); one who closes a `/btw` overlay himself gets an Escape
into what lies below; one who opens a view while a command waits for its own has it read and closed.
The properties say so in their antecedents. The runs fix `Heedful` and `Steady` to TRUE
and `Typed` to {0}; section 4 says what the code does otherwise. (`ComesUp` of `EngineRoles` is no
assumption: the run leaves both outcomes open.)

**Exceptions in properties.** Where the code keeps a promise only short of some event, the property
names the event as a history and section 4 says what happens then: `hurried` and `overlapped`
(blocked questions), `Missed` (a view command that has not read its own view, or could not close
it), `overlapped` and `crashes` (dispatch state), `raced` and `faults` (file names and records of a
delivery), `overtaken` and `relocated` (teams), `swapped` (roles), `unpolled` and `unshown` (the
listener). `OwnWords`, `ToldOnce` and `OneToOne` therefore say nothing of the overlap itself, and
`AnswersAreTrue` takes "latest" as what was forwarded last. A file that is torn shows nothing as
forwarded, so a truncation satisfies `NothingForwardedForever` for a moment.

## 4. Where the code does less than it says

These are stated here, and in the antecedents of the properties, because a reader of the properties
would otherwise take them for granted.

- *Cancel window.*  `deliver_batch` asks once whether the socket's path exists
  (`tools_write.py:112`): a daemon that is capturing, or that crashed, passes, although
  `tools_write.py:58-61` says a plan without a window is refused "regardless of what this call
  returns".  With `Heedful = FALSE` `WindowsAreMeant` fails.  A stalled microphone turns into the
  answer "not cancelled, available".  Two routers arming at once would clear each other's detection.
- *Speech.*  `_log_say` runs before `on_start` (`say_feedback.py:172-174`) and its exception is
  swallowed (`:177`): the event is never set and the caller waits at `:301` for ever, against the
  comment at `:297-299`.  Queues and locks belong to one process: two processes speak at once.
  An exception of playing is swallowed as well (`:177`): that utterance is never heard.
- *Return queue.*  `flush_now` clears the file before the text is anywhere else, so a crash loses a
  batch (`lost` in `ReturnChannel`); a restarted process starts no flush worker until it enqueues, so
  a message in the file outlives `MAX_HOLD_S`; the gate is asked before the flush, so a completion may
  still interrupt.
- *Dispatch state.*  Overlapping rewrites restore each other's old records
  (`dispatch_state.py:108-118`), against "closes out ONLY dictation_ref's own record" (`:76-78`, `:98`).
  The record of the daemon's own hop is never completed, only abandoned.
- *Concierge.* An empty reply of the model is spoken as it is (`concierge.py:375-376`), so nothing
  is heard and nobody has the turn; `_forward` (`:254`, `:366`) is outside every `try`, and what it
  raises, after the record was made or before, is heard by nobody; against `:225-231`, "instead of
  silently eating a turn". `NeverSmallTalk` excepts both. Its answers are true only while no write
  is under way and none was lost. `assess_retention` is outside every `try`: a model timeout raises,
  though `concierge.py:225-231` says a turn never does. "Still working on it" is also said of failed
  and abandoned dictations. A read during another process's write answers that nothing has been
  dispatched.
- *Transport.* `_handle_busy_tolerant_view` stops waiting when the overlay is gone
  (`transport.py:715-716`) and sends the Escape anyway (`:719`), against `:680`. The lock on a
  target does not reach another process. A view that comes up after the three seconds its command
  waited (`:468`), or whose Escape was ignored, is read by the next command as its own (`:653-731`);
  and since a busy session is let pass whatever lies over it (`:406-411`), a busy-tolerant command
  types into such a view and reports `ok`, although `:446-448` forbids "sending anything further
  into an uncertain state". `OkMeansDone` and `NoStrayKeys` except these views (`Missed`).
- *Blocked questions.*  A record is kept per session and `mark_blocked` keeps an old one
  (`blocked_state.py:57-58`), and the second look at the pane asks only whether there is some question
  (`transport.py:540`), so a digit matched against an old question is pressed in a new one
  (`BQ_wrong`), and the new one may inherit the mark of the old and never be announced.  A rewrite for
  one session may undo a mark on another and repeat its announcement, although the poller is called the
  only writer (`:13-14`): with two members, answering one while the other is announced has it announced
  again ("don't re-escalate every poll tick", `:54-55`).  `SpokenOnce` excepts overlapping changes.
- *Dictation.*  After "hold up" silent frames fill the 30 s buffer, the length cut resets
  `_silence_run`, and the 50 s of silence that would end the dictation are never reached
  (`vad_chunker.py:135`, `:149-161`; `daemon.py:19-21` says they are).
- *Teams.*  A shell that a member's Claude left behind counts as running (`teams.py:195-201`), so
  reconnecting reports success (`reconnect.py:46-52`); `verify_and_refresh_identity` renames a member
  and leaves the team's lead at the old identity (`member_identity.py:70-71`, against `:17-20`);
  relocation does not ask whose directory or name it gives away.  Which of several members that
  share a name a restart is announced for is left open.
- *Engine roles.* The model is stored as `/status` words it and passed unquoted
  (`engine_roles.py:881`): with parentheses the shell rejects the command, Claude never starts (and
  with no model on record building the command raises), and the next activation finds "already
  running" (`:564`, `:1015-1016`). A name typed by hand that looks like the next default is given
  out again; a create that fails leaves a live session nobody is attached to. The approval looks at
  the pane again and accepts any permission prompt (`transport.py:618-625`), so one that comes up
  after the poller's look is approved whatever it asks for, against "Read/Glob/Grep- shaped prompts
  ONLY" (`:470-473`); `PromptsHandled` excepts it. Two prompts with the same preview and no poll in
  between count as one.
- *Listener.*  A press acts on the state last shown (`console.py:201-204`); two stops at once may
  leave the second waiting on a handle that is None, and the console crashes (`LosesHandle`); a second
  stop's kill may reach a listener started since; the panic key is not heard in the console's first
  second.
- *Delivery.* An empty transcript is refused without a word (`tools_handoff.py:69-71`), just below
  the docstring that says failures are spoken (`:65-67`); what arming the acknowledgement raises is
  swallowed (`daemon.py:412-414`), and then only a failure is heard of. `FailuresHeard` excepts
  both. An exception after the record was made leaves it "forwarded" although the failure was
  spoken; the check and the write of a file name are not exclusive across processes
  (`l2_l3_handoff.py:192-193`); an exception kills the listener and its acknowledgement with it; one
  inside a batch ends it with neither record nor summary; any speech of any process suppresses the
  acknowledgement.
- *Panels.* `spend_error` is shown nowhere, and a failed check stamps the old cost anew
  (`poller.py:366`), so it goes on looking current, against `staleness.py:4-5`; the teams' fields
  are read without their lock; "none configured" and an empty pending speech look the same when
  stale; a failing `pgrep` reads as "stopped" and a corrupt `teams.json` as no teams.

## 5. Theorems

The proofs hold for every value of the constants that their assumptions allow: any sets of processes,
messages, calls, rounds, teams, roles, members, dictations, any bounds.  Every invariant a run checks
is the subject of a theorem.  Each follows from an inductive invariant that says *why* it holds, which
TLC checked on the run's instance before it was proved; what is special to each is below.  `TypeCorrect`
theorems and their like state the type invariants, which carry no insight of their own.

| Module | Theorem | Property |
|---|---|---|
| `ReturnQueueProofs` | `MessagesAccountedFor`, `SpokenOnce`, `BackstopHolds`, `QueueImplementsChannel` | `NothingMislaid`, `OneVoicePerMessage`, `HoldBounded`, `ImplementsChannel` |
| `VoiceProofs` | `OneVoice`, `WindowNotEarly`, `FirstComeFirstSpoken` | `OneAtATime`, `WindowFollowsSpeech`, `NoOvertaking` |
| `VoiceProofs` | `CancelsAreHonoured`, `WindowsMatter` | `CancelHonoured`, `WindowsAreMeant` |
| `VoiceProofs` | `NoWordLost`, `PhrasesDecide`, `SilenceIsTimely` | `NothingLost`, `PhrasesCount`, `EndsOnTime` |
| `ConciergeProofs` | `NewsIsTrue`, `AnswersTrue`, `NamedNeverSmallTalk` | `NoFalseNews`, `AnswersAreTrue`, `NeverSmallTalk` |
| `TransportProofs` | `TextsAlone`, `KeysInPlace`, `OkIsDone` | `SentAlone`, `NoStrayKeys`, `OkMeansDone` |
| `DeliveryProofs` | `FailuresAnnounced`, `NoMixedWords`, `TrueReports` | `FailuresHeard`, `OwnWords`, `ReportsAreTrue` |
| `TeamRegistryProofs` | `LeadsAreMembers`, `SessionsAreOnes`, `RestartsAreToldOnce` | `LeadIsMember`, `OneToOne`, `ToldOnce` |
| `RolesProofs` | `RolesAreOnes`, `PromptsAreHandled` | `OneOfEach`, `PromptsHandled` |
| `ConsoleProofs` | `OneListener`, `StoppedMeansStopped`, `QuitNeverSilent` | `OneOfOurs`, `StoppedIsTrue`, `QuitWarns` |
| `ConsoleProofs` | `OneTimer`, `PanelsTellTheTruth`, `TornOnce` | `OneClock`, `ShownIsTrue`, `MisreadOnce` |
| `ConsoleProofs` | `AnswersHit`, `SurfacedIsSpoken`, `MembersSpokenOnce` | `AnswerHitsItsQuestion`, `SurfacedWasSpoken` (a part of `SpokenOnce`), `SpokenOnce` |

**Return queue.**  `IInv` is `LockInv` (a thread past `flock` holds the file lock and its
process's RLock, so at most one thread is anywhere between a read and a write), `RoleInv` (which
steps a tool and a worker can be at), `SnapshotInv` (what that one thread has read is still what the
file holds, or what its batch leaves of it), `SayingInv` and `CarriesInv` (what a thread's local
variables hold at each step), `UtterancesInv` (utterances in the speech queues are disjoint) and
`PlaceInv` (an accepted message is in exactly one place).  The refinement maps every step to a step
of `ReturnChannel` or a stutter.  `HoldInv` strengthens the backstop: a message at the limit has a
worker that is due or already past its gate, and time does not pass while it is.

**Speech queue.**  `WorkerInv`: a process whose worker runs is marked started and has one, and
only a worker has an utterance under way.  `SpokenInv`: what has been signalled is in the log, and a
listener that listens was signalled.  `OrderInv` (`FreshInv`, `NumberInv`) and `PutInv`: numbers grow
with the counter, so what was put before a speak began has the smaller number, although draw and put
are two steps.

**Cancel window.**  Hypotheses: `OneRouter`, `Heedful`.  `RoundInv`: one round at a time.
`QueueInv`: of the waiting connections only the last still has a client.  `ArmedInv`: the handler
outlasts the window it was given.  `SentInv`: a round is sent only on its own handler's "clear".
`AskedInv`: a detection is the handler's to answer until its client has given up.  `MeantInv` adds, for
`WindowsAreMeant`, that without a stall what is answered "clear" was heard out to its end
(`HeardInv`, from `OutlastInv`: the controller's deadline passes before the handler's), and that
without a dictation a connection is handled as it is made and its client outwaits it (`PromptInv`).

**Dictation.**  `DictationInv` is one invariant for all three properties.  `CallInv`: the acoustic model
holds nothing from before the daemon went idle, so whatever wakes it was a call.  `ChunkInv`: the run
of silence is the quiet end of the buffer, so every cut is at a pause or at the length.  `WordsInv`:
the first frames said are each in the transcript, in order, or dropped, and the others are in the
buffer or are the stop phrase.  `HushInv` ties the chunker's count of silence, which begins anew at
each cut, to the silence itself: unless a hold is armed it is at most one pause behind.

**Dispatch state and concierge.**  `DueInv`: the dictation an operation is about waits for just that
operation.  `NewsInv`: neither the file nor any copy in memory tells more than has happened, which is
why undoing a write restores an older truth and no falsehood.  `CleanInv`: while operations do not
overlap and none is cut short, one at most is under way, and the file shows every dictation as it is or
will be when that one has written.  `RecentInv` ties the dictation forwarded last to what became of it.

**Transport.**  Hypotheses: `OneProcess` (all calls on the pane come from one process), `Steady`.
`LockInv` makes the calls take turns; `GapInv` is what each look established, which stillness and
turn-taking preserve until the key is sent; `BoxInv` whose text the input line holds.  `DoneInv`, on
top of them, is what a call has achieved by where it stands: `CallInv` (its text submitted, or gone
into a view that was missed, its own view read, its dialog's number), `ViewInv` (a view that is still to
open is one its call has not read, and a side-question's view lies over the session only while its own
call is there to close it, or was missed), `ScreenInv` and `StrayInv` (every key that went astray went
into such a view).

**Delivery.**  `Shape` (`HandInv`, `FileInv`, `DeskInv` with the types): a sender or the batch
that is busy has one dictation, which no other has, and whose file exists.  `SilentInv`: a refusal
has been spoken before the dictation is lost.  `WordsInv`: two dictations share no file and no name,
unless `raced`.  `RecordInv` and `StrayInv`: what the record of a file says at each step of the sender
that owns it, and which records can be left forwarded.  `BatchInv`: which instructions have been
typed, by the batch's place in its plan.

**Team registry.** `LeadInv` asks of the copies that slow operations hold what it asks of the file,
since any of them may be written back; `BusyOK` says that a copy is of a file that had the team.
`TeamInv` does the same for ownership: `OrderInv` (in the file and in every copy no two teams share
a directory and no two members of a team a name), `SeenInv` (an identity is under one name wherever
it is recorded, held or at work, until one has strayed) and `LaunchInv`, `FoundInv` (what launches
and verifications may hold). Its `ToldInv`: the member whose restart was told is on file with the
identity it came back with.

**Engine roles.**  `CountInv` counts the flows, so a number given fits.  The parts of `OneOfEach` are
`SlotInv` (no session in two slots), `NumberInv` (the numbers given are an initial segment of those
there are: this needs `Typed \subseteq {0}`, no name typed by hand that looks like one of them) and
`HomeInv` (an identity is under one name wherever it lives, is recorded, held by an activation or on
the screen).  `PromptInv`: prompts are numbered, and what the loop is about to approve it judged safe,
in a pane that shows that prompt or a later one.  `ToldInv`: an announced prompt still shown is marked
in the episode of a role that shows it, until a role has changed hands.

**Listener.**  `HandleInv`: of the listeners this console spawned only the one it holds may be
alive.  `PollInv`, `CacheInv`, `ShownInv`: whoever (the poll, the panel's cache, the screen) believes
that none runs has been right since the last start.  `QuitNeverSilent` is about steps.

**Panels.** `ClockInv`: the end of a burst is awaited exactly while the fast timer runs. `FoundInv`
and `StoredInv`: a finding, in a thread's hand or stored, is no older than its stamp says, or than a
check can take where the stamp is made at its end. `CostInv`: once a cost was had there is one to
show. `WatchInv` is about readings of the teams, which are stored piece by piece: what a reading has
read so far is what is still stored unless a check has just ended (`LookedInv`), and a reading that
misled was of such a moment, which the next one is not (`MisreadInv`).

**Blocked questions.** For any number of members and sessions that ask again at any moment.
`LatestInv`: all that is on record, in a writer's hands, in the poller's list or with the answer
tool is the question its session asked last, or one that the next came upon (`hurried`), so what the
writers undo of each other's work cannot exchange questions otherwise. `SurfacedInv`: nowhere is a
question marked as surfaced that was not spoken, unless tangled with another. That it is spoken
*once* is `OnceInv`, which needs `Settle > 0`: `SerialInv` (until changes overlap one writer is at
work, and the file is torn while it writes), `OpenInv` (while its question is open nobody takes its
record away, and what was announced is on record as such, but for the moment between the two),
`RoundInv` (a record that reappears after its question was announced and answered is too young to be
announced before the next round drops it) and `CountInv`.

**Only model-checked.**  Liveness and everything under fairness, which is out of the prover's reach:
`WindowCloses`, `ConfirmReturns`, `NothingForwardedForever`, `NothingSticks`, `Escalated`, `MicCloses`.

## 6. What is not modelled

Speech recognition, wake word scores, language model verdicts, synthesis and the text of utterances
are data or choices.  MCP registration, the latency log, terminal windows, view parsers, the meter,
the log stream and the layout of the console keep no state a property could be about.

Within the modelled components: the fallback from Kokoro to `say` is one step; the truncation of
long texts, the migration of old file formats and malformed socket requests, which no caller sends,
are left out; an exception between the write of the queue and the start of the worker (a full disk
under the log) is left out; so is a loudspeaker that triggers the wake word. Matching a spoken
answer to an option is data. `/clear` and the effort of a role only type into a pane.
`terminal_window`, visibility flags and the CLAUDE.md branch of `capture_context` in the team
registry are left out, as is an exception while a role's prompt is being announced, which ends the
tick for the other role. The users of the roles' sessions do not rename or move them, as those of a
team's members do; the pattern of a harmless prompt, which is searched for in the whole capture of
the pane, is reduced to the kind of the prompt shown. `_apply_layout`'s retries are left out. The
`*_canary.py` programs exercise these same operations against live sessions and add none.

Some steps are shorter than in the code.  A rejected verification of the wake word holds the daemon's
loop for half a second, and loading fresh models when a window is armed takes a moment: neither is time
in `CancelWindow`, whose deadlines count ticks of the clock and not frames.  A stop phrase that is heard
wrongly is a word like any other in `Dictation`.  `TeamRegistry` writes its file in one step, without
the torn file that `DispatchState` and `BlockedQuestions` have, because no property depends on it; for
the same reason `Delivery` takes a stale path of the socket as a choice of `Begins`.  The poll of
`WakeControl` looks and stores at once.  In `ConsoleView` the screen is refreshed between two checks, as
the intervals of the code have it.
