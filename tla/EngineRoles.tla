----------------------------- MODULE EngineRoles -----------------------------
(***************************************************************************)
(* l5_console/state/engine_roles.py with the screens and the poller that   *)
(* drive it: the two engine roles, which session each is attached to, how  *)
(* one is created, attached, activated or let go, and what the console     *)
(* does when the session of a role waits on a permission prompt.           *)
(*                                                                         *)
(* engine.json keeps what was meant, never what is: whether a role runs is *)
(* looked up among the live tmux sessions each time.  One modal screen     *)
(* writes the file, while activations, which take ten seconds and hold the *)
(* record they began with, may run in the panel and in Revive.             *)
(***************************************************************************)
EXTENDS FiniteSets, Naturals

CONSTANTS
  Roles,
  Names,      \* tmux names of the sessions users start
  Dirs,
  Home,       \* JARVIS_HOME, where roles are created
  Inside,     \* the directories under it: whose sessions may be attached
  Uuids,
  Typed,      \* names typed over the suggestion, as numbers; 0 for any other words
  Activators, \* what may activate: the panel, and Revive
  Kinds,      \* what a permission prompt asks for, as its preview tells it
  Reads,      \* those of Read, Glob and Grep
  Sensitive,  \* those whose pane speaks of deletion, money, credentials...
  ComesUp,    \* whether a Claude that is started comes up: {TRUE}, or BOOLEAN
  None,
  MaxMoves,   \* bound: what users and sessions do by themselves
  MaxAsked,   \* bound: permission prompts
  MaxOps      \* bound: flows and activations begun

Numbers == 1 .. MaxOps + 1
Tmux == Names \cup (Roles \X Numbers)
Record == [tmux : Tmux, cwd : Dirs, sess : Uuids, name : Nat, model : {"plain", "verbatim"}]
Prompt == [kind : Kinds, id : 1 .. MaxAsked]
Session == [cwd : Dirs, sess : Uuids \cup {None}, prompt : Prompt \cup {None}]

ASSUME RolesAssumption ==
  /\ Home \in Inside /\ Inside \subseteq Dirs
  /\ Reads \cup Sensitive \subseteq Kinds
  /\ TRUE \in ComesUp /\ ComesUp \subseteq BOOLEAN
  /\ Typed \subseteq Nat /\ {MaxMoves, MaxAsked, MaxOps} \subseteq Nat
  /\ None \notin Roles \cup Names \cup Uuids \cup Dirs \cup Kinds
  /\ None \notin Record /\ None \notin Session /\ None \notin Prompt

VARIABLES
  slot,     \* engine.json: the record of each role
  named,    \* engine.json: name_history
  live,     \* tmux: where a session is, the Claude in it, the prompt it shows
  written,  \* the transcripts there are
  known,    \* identities ever used
  screen,   \* the create or attach screen
  act,      \* each activator's activation
  poll,     \* the engine loop, between judging a prompt and approving it
  episode,  \* _ROLE_PROMPT_EPISODE
  given,    \* history: the names sessions have had in a role
  keyed,    \* history: prompts a key was sent to, with the one it was meant for
  told, retold, \* history: prompts announced, and whether one was again
  swapped,  \* history: has a role lost or changed its session?
  moves, asked, ops

file == <<slot, named>>
world == <<live, written, known, moves, asked>>
prompts == <<poll, episode, keyed, told, retold>>
vars == <<file, world, screen, act, prompts, given, swapped, ops>>

Attached(r) == slot[r] # None

(* role_liveness: by name and directory *)
Running(rec) == live[rec.tmux] # None /\ live[rec.tmux].cwd = rec.cwd
Mismatch(rec) == live[rec.tmux] # None /\ live[rec.tmux].cwd # rec.cwd
HasHistory(rec) == <<rec.cwd, rec.sess>> \in written

(* _default_name, and the number create_role_session gives a tmux session:  *)
(* one more than the names ever given.                                     *)
NextNumber(r) == Cardinality(named[r]) + 1

(* attach_role and list_attachable_sessions: already the other role's? *)
Taken_Never(r, t) == FALSE
Taken(r, t) == \E o \in Roles \ {r} : Attached(o) /\ slot[o].tmux = t

-----------------------------------------------------------------------------
(* Users and sessions *)

Fresh == Uuids \ known
Shell(d) == [cwd |-> d, sess |-> None, prompt |-> None]
Claude(d, s) == [cwd |-> d, sess |-> s, prompt |-> None]

Goes == moves < MaxMoves /\ moves' = moves + 1
OnlyWorld == UNCHANGED <<file, screen, act, prompts, given, swapped, ops, asked>>

Appears(t, d, s, worked) ==
  /\ live' = [live EXCEPT ![t] = Claude(d, s)]
  /\ known' = known \cup {s}
  /\ written' = written \cup (IF worked THEN {<<d, s>>} ELSE {})

Starts(t, d) ==
  /\ Goes /\ live[t] = None
  /\ \E s \in Fresh, worked \in BOOLEAN : Appears(t, d, s, worked)
  /\ OnlyWorld

Restarts(t) ==
  /\ Goes /\ live[t] # None
  /\ \E s \in Fresh, worked \in BOOLEAN : Appears(t, live[t].cwd, s, worked)
  /\ OnlyWorld

(* Claude ends, the shell it was started from stays. *)
Quits(t) ==
  /\ Goes /\ live[t] # None
  /\ live' = [live EXCEPT ![t] = Shell(live[t].cwd)]
  /\ OnlyWorld /\ UNCHANGED <<written, known>>

Dies(t) ==
  /\ Goes /\ live[t] # None
  /\ live' = [live EXCEPT ![t] = None]
  /\ OnlyWorld /\ UNCHANGED <<written, known>>

Asks(t, k) ==
  /\ asked < MaxAsked /\ asked' = asked + 1
  /\ live[t] # None /\ live[t].sess # None /\ live[t].prompt = None
  /\ live' = [live EXCEPT ![t].prompt = [kind |-> k, id |-> asked']]
  /\ UNCHANGED <<file, screen, act, prompts, given, swapped, ops,
                 written, known, moves>>

(* A user answers it in the terminal. *)
Answered(t) ==
  /\ live[t] # None /\ live[t].prompt # None
  /\ live' = [live EXCEPT ![t].prompt = None]
  /\ OnlyWorld /\ UNCHANGED <<written, known, moves>>

-----------------------------------------------------------------------------
(* The screens *)

Closed == [at |-> "none"]
Begins == ops < MaxOps /\ ops' = ops + 1

(* attach_role, called with a name; a swap overwrites the record. *)
AttachRole(r, rec) ==
  IF Taken(r, rec.tmux) THEN UNCHANGED <<file, given, swapped>>
  ELSE /\ slot' = [slot EXCEPT ![r] = rec]
       /\ named' = [named EXCEPT ![r] = @ \cup {rec.name}]
       /\ given' = given \cup {<<r, rec.name, rec.sess>>}
       /\ swapped' = (swapped \/ Attached(r))

(* Mutant: letting go of a role forgets it entirely. *)
RemoveRole_Forgets(r) ==
  /\ screen = Closed /\ Begins /\ Attached(r)
  /\ slot' = [slot EXCEPT ![r] = None]
  /\ named' = [named EXCEPT ![r] = {}]
  /\ swapped' = TRUE
  /\ UNCHANGED <<world, screen, act, prompts, given>>

RemoveRole(r) ==
  /\ screen = Closed /\ Begins /\ Attached(r)
  /\ slot' = [slot EXCEPT ![r] = None]
  /\ swapped' = TRUE
  /\ UNCHANGED <<named, world, screen, act, prompts, given>>

(* _build_launch_cmd and _build_resume_cmd with the flags they share: one    *)
(* line, typed into the shell of the pane.  Every part with a blank or a    *)
(* parenthesis in it is quoted but the model: where what /status says of it  *)
(* has parentheses the shell rejects the line.                              *)
Comes(model) == IF model = "plain" THEN ComesUp ELSE ComesUp \cup {FALSE}

(* CreateRoleScreen and create_role_session up to the launch.  The name    *)
(* suggested on the last step is still the one to suggest when it is       *)
(* accepted: nothing else writes the file.  new-session refuses a name     *)
(* that is live, that of an earlier creation that failed for instance.     *)
Create(r) ==
  /\ screen = Closed /\ Begins /\ ~Attached(r)
  /\ LET t == <<r, NextNumber(r)>>
     IN IF live[t] # None THEN UNCHANGED <<live, known, screen>>
        ELSE \E s \in Fresh, name \in {NextNumber(r)} \cup Typed, up \in Comes("plain") :
               /\ live' = [live EXCEPT ![t] = IF up THEN Claude(Home, s) ELSE Shell(Home)]
               /\ known' = known \cup {s}
               /\ screen' = [at |-> "create", role |-> r,
                             rec |-> [tmux |-> t, cwd |-> Home, sess |-> s, name |-> name,
                                      model |-> "plain"]]
  /\ UNCHANGED <<file, written, moves, asked, act, prompts, given, swapped>>

(* READY, the boot message, and the role is attached; or it is reported    *)
(* as failed and the session, if there is one, is left as it is.           *)
Ready(t) == live[t] # None /\ live[t].sess # None /\ live[t].prompt = None

CreateEnds ==
  /\ screen.at = "create"
  /\ LET rec == screen.rec
     IN \/ /\ Ready(rec.tmux)
           /\ written' = written \cup {<<Home, live[rec.tmux].sess>>}
           /\ AttachRole(screen.role, rec)
        \/ UNCHANGED <<written, file, given, swapped>>
  /\ screen' = Closed
  /\ UNCHANGED <<live, known, moves, asked, act, prompts, ops>>

(* AttachRoleScreen: a session of the list, re-read when it is picked; its *)
(* identity, which takes a second; a name, which takes as long as it may.  *)
PickSession(r, t) ==
  /\ screen = Closed /\ Begins
  /\ live[t] # None /\ live[t].cwd \in Inside /\ ~Taken(r, t)
  /\ screen' = [at |-> "status", role |-> r, tmux |-> t, cwd |-> live[t].cwd]
  /\ UNCHANGED <<file, world, act, prompts, given, swapped>>

Identified ==
  /\ screen.at = "status"
  /\ LET now == live[screen.tmux]
     IN screen' = IF now = None \/ now.sess = None \/ now.prompt # None THEN Closed
                  ELSE [at |-> "name", role |-> screen.role, tmux |-> screen.tmux,
                        cwd |-> screen.cwd, sess |-> now.sess]
  /\ UNCHANGED <<file, world, act, prompts, given, swapped, ops>>

(* What /status says of the model is kept as it is: "haiku (claude-...)".  *)
DoAttach ==
  /\ screen.at = "name"
  /\ \E name \in {NextNumber(screen.role)} \cup Typed :
       AttachRole(screen.role, [tmux |-> screen.tmux, cwd |-> screen.cwd,
                                sess |-> screen.sess, name |-> name, model |-> "verbatim"])
  /\ screen' = Closed
  /\ UNCHANGED <<world, act, prompts, ops>>

Close ==
  /\ screen.at \in {"status", "name"}
  /\ screen' = Closed
  /\ UNCHANGED <<file, world, act, prompts, given, swapped, ops>>

-----------------------------------------------------------------------------
(* activate_role *)

Rest == [at |-> "rest"]

(* Nothing to launch: not attached, running, elsewhere, or with no history. *)
Activated(a, r, ok) ==
  /\ act[a] = Rest /\ Begins /\ Attached(r)
  /\ ok = Running(slot[r])
  /\ ok \/ Mismatch(slot[r]) \/ ~HasHistory(slot[r])
  /\ UNCHANGED <<file, world, screen, act, prompts, given, swapped>>

Activate(a, r) ==
  /\ act[a] = Rest /\ Begins /\ Attached(r)
  /\ ~Running(slot[r]) /\ ~Mismatch(slot[r]) /\ HasHistory(slot[r])
  /\ act' = [act EXCEPT ![a] = [at |-> "launch", rec |-> slot[r]]]
  /\ UNCHANGED <<file, world, screen, prompts, given, swapped>>

(* Mutant: a name that is taken is no reason to stop. *)
Launch_AnyName(a) ==
  /\ act[a].at = "launch"
  /\ LET rec == act[a].rec
     IN \E t \in Tmux, up \in Comes(rec.model) :
          /\ live[t] = None
          /\ live' = [live EXCEPT ![t] = IF up THEN Claude(rec.cwd, rec.sess) ELSE Shell(rec.cwd)]
          /\ act' = [act EXCEPT ![a] = [at |-> "wait", rec |-> rec]]
  /\ UNCHANGED <<file, screen, prompts, given, swapped, ops, written, known, moves, asked>>

Launch(a) ==
  /\ act[a].at = "launch"
  /\ LET rec == act[a].rec
     IN IF live[rec.tmux] # None
        THEN act' = [act EXCEPT ![a] = Rest] /\ UNCHANGED live
        ELSE \E up \in Comes(rec.model) :
               /\ live' = [live EXCEPT ![rec.tmux] =
                             IF up THEN Claude(rec.cwd, rec.sess) ELSE Shell(rec.cwd)]
               /\ act' = [act EXCEPT ![a] = [at |-> "wait", rec |-> rec]]
  /\ UNCHANGED <<file, screen, prompts, given, swapped, ops, written, known, moves, asked>>

(* /status named no model: the line cannot be built, and nothing starts.   *)
LaunchRaises(a) ==
  /\ act[a].at = "launch" /\ act[a].rec.model = "verbatim"
  /\ act' = [act EXCEPT ![a] = Rest]
  /\ UNCHANGED <<file, world, screen, prompts, given, swapped, ops>>

(* wait_for_ready, which any Claude in the pane satisfies. *)
Awaited(a, ok) ==
  /\ act[a].at = "wait"
  /\ ok => Ready(act[a].rec.tmux)
  /\ act' = [act EXCEPT ![a] = Rest]
  /\ UNCHANGED <<file, world, screen, prompts, given, swapped, ops>>

-----------------------------------------------------------------------------
(* maybe_auto_approve_role_prompt, once a second for each role *)

Safe_Reads(p) == p.kind \in Reads
Safe(p) == p.kind \in Reads \ Sensitive

Announce(p) == told' = told \cup {p.id} /\ retold' = (retold \/ p.id \in told)
Shown(r) == IF Attached(r) /\ live[slot[r].tmux] # None THEN live[slot[r].tmux].prompt ELSE None

(* No prompt, or no role: the episode is over. *)
Quiet(r) ==
  /\ poll = Rest
  /\ Attached(r) => live[slot[r].tmux] # None
  /\ Shown(r) = None
  /\ episode' = [episode EXCEPT ![r] = None]
  /\ UNCHANGED <<file, world, screen, act, poll, keyed, told, retold, given, swapped, ops>>

(* A prompt that does not look like the one already acted on. *)
Escalate_Unmarked(r) ==
  /\ poll = Rest
  /\ Shown(r) # None /\ episode[r] # Shown(r).kind /\ ~Safe(Shown(r))
  /\ Announce(Shown(r))
  /\ UNCHANGED <<file, world, screen, act, poll, keyed, episode, given, swapped, ops>>

Escalate(r) ==
  /\ poll = Rest
  /\ Shown(r) # None /\ episode[r] # Shown(r).kind /\ ~Safe(Shown(r))
  /\ episode' = [episode EXCEPT ![r] = Shown(r).kind]
  /\ Announce(Shown(r))
  /\ UNCHANGED <<file, world, screen, act, poll, keyed, given, swapped, ops>>

Judge(r) ==
  /\ poll = Rest
  /\ Shown(r) # None /\ episode[r] # Shown(r).kind /\ Safe(Shown(r))
  /\ episode' = [episode EXCEPT ![r] = Shown(r).kind]
  /\ poll' = [at |-> "approve", tmux |-> slot[r].tmux, prompt |-> Shown(r)]
  /\ UNCHANGED <<file, world, screen, act, keyed, told, retold, given, swapped, ops>>

(* approve_permission_prompt: the pane is looked at again, for any prompt. *)
(* What is announced of it differs in wording only.                        *)
Approve ==
  /\ poll.at = "approve"
  /\ LET now == live[poll.tmux]
     IN IF now # None /\ now.prompt # None
        THEN /\ live' = [live EXCEPT ![poll.tmux].prompt = None]
             /\ keyed' = keyed \cup {<<poll.prompt, now.prompt>>}
        ELSE UNCHANGED <<live, keyed>>
  /\ Announce(poll.prompt)
  /\ poll' = Rest
  /\ UNCHANGED <<file, written, known, moves, asked, screen, act, episode,
                 given, swapped, ops>>

-----------------------------------------------------------------------------
Init ==
  /\ slot = [r \in Roles |-> None] /\ named = [r \in Roles |-> {}]
  /\ live = [t \in Tmux |-> None] /\ written = {} /\ known = {}
  /\ screen = Closed /\ act = [a \in Activators |-> Rest]
  /\ poll = Rest /\ episode = [r \in Roles |-> None]
  /\ given = {} /\ keyed = {} /\ told = {} /\ retold = FALSE
  /\ swapped = FALSE /\ moves = 0 /\ asked = 0 /\ ops = 0

Users ==
  \/ \E t \in Names, d \in Dirs : Starts(t, d)
  \/ \E t \in Tmux : Restarts(t) \/ Quits(t) \/ Dies(t) \/ Answered(t)
  \/ \E t \in Tmux, k \in Kinds : Asks(t, k)

Screens ==
  \/ \E r \in Roles : RemoveRole(r) \/ Create(r)
  \/ \E r \in Roles, t \in Tmux : PickSession(r, t)
  \/ CreateEnds \/ Identified \/ DoAttach \/ Close

Activations ==
  \E a \in Activators :
    \/ \E r \in Roles : Activate(a, r) \/ \E ok \in BOOLEAN : Activated(a, r, ok)
    \/ Launch(a) \/ LaunchRaises(a)
    \/ \E ok \in BOOLEAN : Awaited(a, ok)

Poller == Approve \/ \E r \in Roles : Quiet(r) \/ Escalate(r) \/ Judge(r)

Next == Users \/ Screens \/ Activations \/ Poller

Spec == Init /\ [][Next]_vars

-----------------------------------------------------------------------------
(* Properties *)

TypeOK ==
  /\ slot \in [Roles -> Record \cup {None}]
  /\ named \in [Roles -> SUBSET Nat]
  /\ live \in [Tmux -> Session \cup {None}]
  /\ written \subseteq Dirs \X Uuids /\ known \subseteq Uuids
  /\ episode \in [Roles -> Kinds \cup {None}]
  /\ {retold, swapped} \subseteq BOOLEAN

(* One of each.  attach_role "Refuses if tmux is already the OTHER role's   *)
(* attached session -- never silently steals it": whatever was created,     *)
(* attached or swapped, and however old the list it was picked from, one    *)
(* session does not serve as both.  _default_name: a name "must not be      *)
(* reissued, or two different sessions read as the same name across time":  *)
(* a role's numbered names are each one session's.  activate_role, by the   *)
(* panel and by Revive at once, with the record of a role that has been     *)
(* swapped since: a Claude session is never resumed while it is live.       *)
OneOfEach ==
  /\ \A r, o \in Roles : Attached(r) /\ Attached(o) /\ slot[r].tmux = slot[o].tmux => r = o
  /\ \A g, h \in given : g[1] = h[1] /\ g[2] = h[2] /\ g[2] # 0 => g = h
  /\ \A t, u \in Tmux :
       live[t] # None /\ live[u] # None /\ live[t].sess = live[u].sess /\ live[t].sess # None
         => t = u

(* maybe_auto_approve_role_prompt.  "Read/Glob/Grep-shaped prompts ONLY":   *)
(* any other is approved only if it came up between the two looks.  And a   *)
(* prompt that nobody answers is not announced again every second, unless   *)
(* its session was given to a role anew (_ROLE_PROMPT_EPISODE).             *)
PromptsHandled ==
  /\ \A k \in keyed : k[2].kind \in Reads \ Sensitive \/ k[2].id > k[1].id
  /\ retold => swapped
=============================================================================
