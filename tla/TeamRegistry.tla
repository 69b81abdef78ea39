----------------------------- MODULE TeamRegistry -----------------------------
(***************************************************************************)
(* l5_console/state/teams.py, team_actions.py, setup.py, reconnect.py and  *)
(* l4_controller/team_registry_tools.py, member_identity.py: the registry  *)
(* of teams, the live tmux sessions it is matched against, and the screens *)
(* of the console and tools of the router that rewrite it.                 *)
(*                                                                         *)
(* teams.json is read whole and written whole, without a lock.  What an    *)
(* operation does between its read and its write may take microseconds (it *)
(* is then one step), a second (/status) or minutes (a turn of an agent),  *)
(* and then others act in between.  A member is a tmux name and the        *)
(* identity of a Claude session; whether it runs is always recomputed.     *)
(***************************************************************************)
EXTENDS FiniteSets, Naturals

CONSTANTS
  Teams,     \* team ids; the single alias of a team is its id
  Roots,     \* directories
  Names,     \* tmux session names, those of the engine roles excepted
  Uuids,     \* identities of Claude sessions
  Consoles,  \* the screens of the console and their threads
  Routers,   \* the router's tool calls
  None,
  MaxMoves,  \* bound: what users and sessions do by themselves
  MaxOps     \* bound: operations begun

Actors == Consoles \cup Routers

VARIABLES
  file,      \* teams.json
  live,      \* tmux: where a session is, and what Claude session runs in it, if any
  written,   \* ~/.claude/projects: the transcripts there are
  known,     \* identities ever used
  busy,      \* what an actor is in the middle of
  told,      \* history: the teams and names whose present session was announced as new
  strayed,   \* history: has a session moved, or been renamed, by itself?
  relocated, \* history: has a team's root been changed?
  refreshed, \* history: has a member's identity been changed?
  overtaken, \* history: has a copy been saved over a file that had changed?
  retold,    \* history: has one restart been announced to a team twice?
  moves, ops

world == <<live, written, known, moves, strayed>>
marks == <<told, relocated, refreshed, overtaken, retold>>
vars == <<file, world, busy, marks, ops>>

Member == [tmux : Names, sess : Uuids \cup {None}]
Entry == [root : Roots, members : SUBSET Member, lead : Uuids \cup {None},
          ctx : BOOLEAN]
Registry == [Teams -> Entry \cup {None}]
Session == [cwd : Roots, sess : Uuids \cup {None}]

ASSUME RegistryAssumption ==
  /\ None \notin Teams \cup Roots \cup Names \cup Uuids /\ None \notin Entry
  /\ {MaxMoves, MaxOps} \subseteq Nat

Idle == [op |-> "idle"]
Registered(reg) == {t \in Teams : reg[t] # None}
Sessions(e) == {m.sess : m \in e.members}

-----------------------------------------------------------------------------
(* What is read from the two *)

(* member_liveness: the name is live, in the directory of the team. *)
Running(e, m, now) == now[m.tmux] # None /\ now[m.tmux].cwd = e.root
HasHistory(e, m) == <<e.root, m.sess>> \in written
Stopped(e, m, now) == ~Running(e, m, now) /\ HasHistory(e, m)

(* discover_teams_and_unassigned *)
Claimants(n) ==
  UNION {{<<t, m>> : m \in {k \in file[t].members : k.tmux = n /\ Running(file[t], k, live)}}
         : t \in Registered(file)}
Unassigned == {n \in Names : live[n] # None /\ Claimants(n) = {}}

(* check_root_available, check_team_id_available, check_alias_available *)
RootFree(reg, r) == \A t \in Registered(reg) : reg[t].root # r
IdFree(reg, t) == reg[t] = None

(* _target_for_capture: the lead if it is live, or else a live member. *)
Live(e) == {m \in e.members : Running(e, m, live)}
Target(e) == LET leads == {m \in Live(e) : m.sess = e.lead}
             IN IF leads # {} THEN leads ELSE Live(e)

-----------------------------------------------------------------------------
(* Users and sessions *)

Fresh == Uuids \ known

Goes == moves < MaxMoves /\ moves' = moves + 1

(* What was told is told of something else from now on. *)
Untold(old) == /\ told' = told \ old
               /\ UNCHANGED <<relocated, refreshed, overtaken, retold>>
Elsewhere(n) == Untold(Teams \X {n})

(* Work in a session leaves a transcript; a session may also be unused yet. *)
Appears(n, r, s, worked) ==
  /\ live' = [live EXCEPT ![n] = [cwd |-> r, sess |-> s]]
  /\ known' = known \cup {s}
  /\ written' = written \cup (IF worked THEN {<<r, s>>} ELSE {})

Starts(n, r) ==
  /\ Goes /\ live[n] = None
  /\ \E s \in Fresh, worked \in BOOLEAN : Appears(n, r, s, worked)
  /\ UNCHANGED <<file, busy, marks, ops, strayed>>

Dies(n) ==
  /\ Goes /\ live[n] # None
  /\ live' = [live EXCEPT ![n] = None]
  /\ Elsewhere(n)
  /\ UNCHANGED <<file, busy, ops, strayed, written, known>>

(* Claude ends, the shell it was started from stays. *)
Quits(n) ==
  /\ Goes /\ live[n] # None
  /\ live' = [live EXCEPT ![n].sess = None]
  /\ Elsewhere(n)
  /\ UNCHANGED <<file, busy, ops, strayed, written, known>>

(* Claude is started again in the same pane. *)
Restarts(n) ==
  /\ Goes /\ live[n] # None
  /\ \E s \in Fresh, worked \in BOOLEAN : Appears(n, live[n].cwd, s, worked)
  /\ Elsewhere(n)
  /\ UNCHANGED <<file, busy, ops, strayed>>

(* The directory under a session is renamed, or the tmux session is. *)
Strays(n, m, r) ==
  /\ Goes /\ live[n] # None
  /\ m = n \/ live[m] = None
  /\ live' = [live EXCEPT ![n] = None, ![m] = [live[n] EXCEPT !.cwd = r]]
  /\ strayed' = TRUE
  /\ Elsewhere(n)
  /\ UNCHANGED <<file, busy, ops, written, known>>

-----------------------------------------------------------------------------
(* Operations *)

Begin(a, rec) == /\ busy[a] = Idle /\ ops < MaxOps /\ ops' = ops + 1
                 /\ busy' = [busy EXCEPT ![a] = rec]
Now(a) == busy[a] = Idle /\ ops < MaxOps /\ ops' = ops + 1 /\ UNCHANGED busy
Goto(a, rec) == busy' = [busy EXCEPT ![a] = rec] /\ UNCHANGED ops
End(a) == Goto(a, Idle)

Doing(a, op) == busy[a].op = op

(* save_registry of a copy read earlier: what others wrote since is undone. *)
SaveCopy(a, reg) == /\ file' = reg
                    /\ overtaken' = (overtaken \/ busy[a].copy # file)

(* set_lead *)
SetLead(a, t, s) ==
  /\ Now(a) /\ a \in Consoles
  /\ t \in Registered(file) /\ s \in Sessions(file[t])
  /\ file' = [file EXCEPT ![t].lead = s]
  /\ UNCHANGED <<world, marks>>

(* remove_member: not the lead, and not the last one. *)
RemoveMember_AnyMember(a, t, s) ==
  /\ Now(a) /\ a \in Consoles
  /\ t \in Registered(file) /\ s \in Sessions(file[t])
  /\ Cardinality(file[t].members) > 1
  /\ file' = [file EXCEPT ![t].members = {m \in @ : m.sess # s}]
  /\ UNCHANGED <<world, marks>>

RemoveMember(a, t, s) ==
  /\ Now(a) /\ a \in Consoles
  /\ t \in Registered(file) /\ s \in Sessions(file[t])
  /\ file[t].lead # s
  /\ Cardinality(file[t].members) > 1
  /\ file' = [file EXCEPT ![t].members = {m \in @ : m.sess # s}]
  /\ UNCHANGED <<world, marks>>

(* remove_team: the sessions are left alone. *)
RemoveTeam(a, t) ==
  /\ Now(a) /\ a \in Consoles
  /\ t \in Registered(file)
  /\ file' = [file EXCEPT ![t] = None]
  /\ Untold({t} \X Names)
  /\ UNCHANGED world

(* relocate_team_member: the registry and the session's directory are read *)
(* first, its identity takes a second.                                     *)
Relocate(a, t, n) ==
  /\ a \in Consoles /\ t \in Registered(file) /\ n \in Unassigned
  /\ Begin(a, [op |-> "relocate", team |-> t, name |-> n, copy |-> file, at |-> live[n].cwd])
  /\ UNCHANGED <<file, world, marks>>

Relocated(a, t, n, m) ==
  LET e == busy[a].copy[t]
  IN [e EXCEPT !.root = busy[a].at, !.members = (@ \ {m}) \cup {[m EXCEPT !.tmux = n]}]

RelocateEnds(a) ==
  /\ Doing(a, "relocate")
  /\ LET t == busy[a].team
         n == busy[a].name
         matching == {m \in busy[a].copy[t].members :
                        live[n] # None /\ live[n].sess = m.sess}
     IN IF matching # {}
        THEN \E m \in matching :
               /\ SaveCopy(a, [busy[a].copy EXCEPT ![t] = Relocated(a, t, n, m)])
               /\ relocated' = TRUE
        ELSE UNCHANGED <<file, overtaken, relocated>>
  /\ End(a)
  /\ UNCHANGED <<world, told, refreshed, retold>>

(* capture_context, as the Refresh action calls it: a turn of an agent,    *)
(* which may take minutes, fail to be delivered, or come to nothing.       *)
Capture(a, t) ==
  /\ a \in Consoles /\ t \in Registered(file) /\ Target(file[t]) # {}
  /\ Begin(a, [op |-> "capture", team |-> t, copy |-> file])
  /\ UNCHANGED <<file, world, marks>>

(* _wait_for_reply_settled: busy, then READY twice; or it gives up. *)
Replies == BOOLEAN

CaptureEnds(a) ==
  /\ Doing(a, "capture")
  /\ \E answered \in Replies :
       IF answered THEN SaveCopy(a, [busy[a].copy EXCEPT ![busy[a].team].ctx = TRUE])
       ELSE UNCHANGED <<file, overtaken>>
  /\ End(a)
  /\ UNCHANGED <<world, told, relocated, refreshed, retold>>

(* verify_and_refresh_identity, before a delivery to a member; of several  *)
(* with that name it takes the first, and their order is left open.        *)
Verify(a, n) ==
  /\ a \in Routers
  /\ \E t \in Registered(file) : \E m \in file[t].members :
       /\ m.tmux = n
       /\ Begin(a, [op |-> "verify", team |-> t, member |-> m, copy |-> file])
  /\ UNCHANGED <<file, world, marks>>

VerifyEnds_OnlyTells(a) ==
  /\ Doing(a, "verify")
  /\ LET m == busy[a].member
         now == live[m.tmux]
     IN IF now # None /\ now.sess \notin {None, m.sess}
        THEN /\ told' = told \cup {<<busy[a].team, m.tmux>>}
             /\ retold' = (retold \/ <<busy[a].team, m.tmux>> \in told)
        ELSE UNCHANGED <<told, retold>>
  /\ End(a)
  /\ UNCHANGED <<file, world, relocated, overtaken, refreshed>>

VerifyEnds(a) ==
  /\ Doing(a, "verify")
  /\ LET t == busy[a].team
         m == busy[a].member
         now == live[m.tmux]
     IN IF now # None /\ now.sess \notin {None, m.sess}
        THEN /\ SaveCopy(a, [busy[a].copy EXCEPT ![t].members =
                               (@ \ {m}) \cup {[m EXCEPT !.sess = now.sess]}])
             /\ told' = told \cup {<<t, m.tmux>>}
             /\ retold' = (retold \/ <<t, m.tmux>> \in told)
             /\ refreshed' = TRUE
        ELSE UNCHANGED <<file, overtaken, told, retold, refreshed>>
  /\ End(a)
  /\ UNCHANGED <<world, relocated>>

(* create_team: the checks that count, on the file as it is now. *)
Entered(t, r, ms, lead) ==
  file' = [file EXCEPT ![t] = [root |-> r, members |-> ms, lead |-> lead, ctx |-> FALSE]]

(* Mutant: the check made when the directory was picked is enough. *)
Register_Trusting(t, r, ms, lead) ==
  IF IdFree(file, t) THEN Entered(t, r, ms, lead) ELSE UNCHANGED file

Register(t, r, ms, lead) ==
  IF IdFree(file, t) /\ RootFree(file, r) THEN Entered(t, r, ms, lead) ELSE UNCHANGED file

(* Adoption, by ways that differ in what they check first, how many        *)
(* sessions they take and whether one without an identity will do.  The    *)
(* sessions come from a list that may be a moment old; /status of each     *)
(* takes a second, and what to call the team longer.                       *)
AdoptFrom(a, t, S, careful) ==
  \E r \in Roots :
    /\ \A n \in S : live[n].cwd = r
    /\ a \in Consoles => RootFree(file, r)
    /\ Begin(a, [op |-> "adopt", team |-> t, root |-> r, names |-> S, careful |-> careful])

WizardAdopt(a, t, S) ==
  /\ a \in Consoles
  /\ S # {} /\ S \subseteq Unassigned
  /\ AdoptFrom(a, t, S, FALSE)
  /\ UNCHANGED <<file, world, marks>>

RegisterByAdoption(a, t, n) ==
  /\ a \in Routers
  /\ IdFree(file, t) /\ n \in Unassigned
  /\ AdoptFrom(a, t, {n}, TRUE)
  /\ UNCHANGED <<file, world, marks>>

(* adopt_candidate_info *)
Identity(n) == IF live[n] = None THEN None ELSE live[n].sess

AdoptEnds(a) ==
  /\ Doing(a, "adopt")
  /\ LET ms == {[tmux |-> n, sess |-> Identity(n)] : n \in busy[a].names}
     IN \/ \E m \in ms :
             /\ busy[a].careful => m.sess # None
             /\ Register(busy[a].team, busy[a].root, ms, m.sess)
        \/ UNCHANGED file
  /\ End(a)
  /\ UNCHANGED <<world, marks>>

(* The quick way takes one session, asks nothing, and names the team when  *)
(* it is there: _first_available_slug, which gives up after so many.       *)
QuickAdopt(a, n) ==
  /\ a \in Consoles
  /\ n \in Unassigned /\ RootFree(file, live[n].cwd)
  /\ Begin(a, [op |-> "quick", root |-> live[n].cwd, name |-> n])
  /\ UNCHANGED <<file, world, marks>>

FreeSlugs == {t \in Teams : IdFree(file, t)}

QuickEnds(a) ==
  /\ Doing(a, "quick")
  /\ LET m == [tmux |-> busy[a].name, sess |-> Identity(busy[a].name)]
     IN \/ m.sess # None /\ \E t \in FreeSlugs : Register(t, busy[a].root, {m}, m.sess)
        \/ UNCHANGED file
  /\ End(a)
  /\ UNCHANGED <<world, marks>>

(* The fresh paths: create_fresh_member for every name, then create_team.  *)
WizardFresh(a, t, r, S) ==
  /\ a \in Consoles
  /\ S # {} /\ RootFree(file, r)
  /\ Begin(a, [op |-> "fresh", team |-> t, root |-> r, todo |-> S, got |-> {}])
  /\ UNCHANGED <<file, world, marks>>

RegisterFresh(a, t, r, n) ==
  /\ a \in Routers
  /\ IdFree(file, t)
  /\ Begin(a, [op |-> "fresh", team |-> t, root |-> r, todo |-> {n}, got |-> {}])
  /\ UNCHANGED <<file, world, marks>>

(* A session that does not come up stays behind, in no registry. *)
LaunchFresh(a, n) ==
  /\ Doing(a, "fresh") /\ n \in busy[a].todo
  /\ LET rest == [busy[a] EXCEPT !.todo = @ \ {n}]
         r == busy[a].root
     IN \/ live[n] # None /\ Goto(a, rest) /\ UNCHANGED <<live, known, written>>
        \/ /\ live[n] = None
           /\ \E s \in Fresh :
                /\ Appears(n, r, s, FALSE)
                /\ Goto(a, [rest EXCEPT !.got = @ \cup {[tmux |-> n, sess |-> s]}])
        \/ /\ live[n] = None
           /\ live' = [live EXCEPT ![n] = [cwd |-> r, sess |-> None]]
           /\ Goto(a, rest)
           /\ UNCHANGED <<known, written>>
  /\ UNCHANGED <<file, moves, strayed, marks>>

FreshEnds(a) ==
  /\ Doing(a, "fresh") /\ busy[a].todo = {}
  /\ \/ \E m \in busy[a].got : Register(busy[a].team, busy[a].root, busy[a].got, m.sess)
     \/ UNCHANGED file
  /\ End(a)
  /\ UNCHANGED <<world, marks>>

(* reconnect_team, for one team or, from Revive, for one after another:    *)
(* the sessions are listed once, those stopped are resumed one by one.     *)
Reconnect(a, t) ==
  /\ a \in Consoles /\ t \in Registered(file)
  /\ LET e == file[t]
     IN Begin(a, [op |-> "reconnect", team |-> t, root |-> e.root,
                  todo |-> {m \in e.members : Stopped(e, m, live)}])
  /\ UNCHANGED <<file, world, marks>>

(* Mutant: a session is resumed under another name when its own is taken. *)
Resume_AnyName(a, m) ==
  /\ Doing(a, "reconnect") /\ m \in busy[a].todo
  /\ \E n \in Names :
       /\ live[n] = None
       /\ live' = [live EXCEPT ![n] = [cwd |-> busy[a].root, sess |-> m.sess]]
  /\ Goto(a, [busy[a] EXCEPT !.todo = @ \ {m}])
  /\ UNCHANGED <<file, written, known, moves, strayed, marks>>

(* new-session refuses a name that is live; Claude may not come up in it. *)
Resume(a, m) ==
  /\ Doing(a, "reconnect") /\ m \in busy[a].todo
  /\ IF live[m.tmux] # None THEN UNCHANGED live
     ELSE \E s \in {m.sess, None} :
            live' = [live EXCEPT ![m.tmux] = [cwd |-> busy[a].root, sess |-> s]]
  /\ Goto(a, [busy[a] EXCEPT !.todo = @ \ {m}])
  /\ UNCHANGED <<file, written, known, moves, strayed, marks>>

ReconnectEnds(a) ==
  /\ Doing(a, "reconnect") /\ busy[a].todo = {}
  /\ End(a)
  /\ UNCHANGED <<file, world, marks>>

-----------------------------------------------------------------------------
Init ==
  /\ file = [t \in Teams |-> None] /\ live = [n \in Names |-> None]
  /\ written = {} /\ known = {} /\ busy = [a \in Actors |-> Idle]
  /\ told = {}
  /\ strayed = FALSE /\ relocated = FALSE /\ refreshed = FALSE
  /\ overtaken = FALSE /\ retold = FALSE
  /\ moves = 0 /\ ops = 0

Moves ==
  \/ \E n \in Names, r \in Roots : Starts(n, r)
  \/ \E n \in Names : Dies(n) \/ Quits(n) \/ Restarts(n)
  \/ \E n, m \in Names, r \in Roots : Strays(n, m, r)

Quick(a) ==
  \/ \E t \in Teams, s \in Uuids \cup {None} : SetLead(a, t, s) \/ RemoveMember(a, t, s)
  \/ \E t \in Teams : RemoveTeam(a, t)

Slow(a) ==
  \/ \E t \in Teams, n \in Names : Relocate(a, t, n)
  \/ \E t \in Teams : Capture(a, t) \/ Reconnect(a, t)
  \/ \E n \in Names : Verify(a, n)
  \/ \E t \in Teams, S \in SUBSET Names : WizardAdopt(a, t, S)
  \/ \E n \in Names : QuickAdopt(a, n)
  \/ \E t \in Teams, n \in Names : RegisterByAdoption(a, t, n)
  \/ \E t \in Teams, S \in SUBSET Names, r \in Roots : WizardFresh(a, t, r, S)
  \/ \E t \in Teams, n \in Names, r \in Roots : RegisterFresh(a, t, r, n)

Continues(a) ==
  \/ RelocateEnds(a) \/ CaptureEnds(a) \/ VerifyEnds(a) \/ AdoptEnds(a) \/ QuickEnds(a)
  \/ \E n \in Names : LaunchFresh(a, n)
  \/ FreshEnds(a)
  \/ \E m \in Member : Resume(a, m)
  \/ ReconnectEnds(a)

Next == Moves \/ \E a \in Actors : Quick(a) \/ Slow(a) \/ Continues(a)

Spec == Init /\ [][Next]_vars

-----------------------------------------------------------------------------
(* Properties *)

TypeOK ==
  /\ file \in Registry
  /\ live \in [Names -> Session \cup {None}]
  /\ written \subseteq Roots \X Uuids /\ known \subseteq Uuids
  /\ {strayed, relocated, refreshed, overtaken, retold} \subseteq BOOLEAN
  /\ told \subseteq Teams \X Names
  /\ moves \in Nat /\ ops \in Nat

(* teams.py resolves the lead among the members, create_team and set_lead  *)
(* refuse any other, remove_member refuses the lead: whoever is registered *)
(* as lead is a member, through any sequence of edits, stale ones too.     *)
(* verify_and_refresh_identity alone leaves the lead behind when it        *)
(* renames the member.                                                     *)
LeadIsMember ==
  ~refreshed => \A t \in Registered(file) : file[t].lead \in Sessions(file[t]) \cup {None}

(* One live session, one member.  "A live session is running for one team": *)
(* the directory and the name that make a session a member's are no         *)
(* other's, unless a relocation, which does not ask whose directory or      *)
(* whose name it gives to a member, has been at work.  And reconnect_team   *)
(* resumes no session while it is live, not even from two screens at once,  *)
(* unless it was moved or renamed out of sight.                             *)
OneToOne ==
  /\ ~relocated => \A n \in Names : \A c, d \in Claimants(n) : c = d
  /\ ~strayed => \A n, m \in Names :
       live[n] # None /\ live[m] # None /\ live[n].sess = live[m].sess /\ live[n].sess # None
         => n = m

(* verify_and_refresh_identity writes what it has announced into the file: *)
(* while a session stays what it is and its team registered, no delivery   *)
(* announces it as new a second time, unless an older copy brought the     *)
(* former identity back, or a relocation gave one name to two members.     *)
ToldOnce == retold => overtaken \/ relocated

=============================================================================
