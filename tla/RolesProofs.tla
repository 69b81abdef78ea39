----------------------------- MODULE RolesProofs -----------------------------
(***************************************************************************)
(* Theorems about EngineRoles, for any roles, names, directories and       *)
(* identities, and any number of flows, prompts and moves of the users.    *)
(*                                                                         *)
(* Types and CountInv make every record one: a session is created under a  *)
(* number that fits.  SlotInv, NumberInv and HomeInv, each inductive with  *)
(* those two, are the three parts of OneOfEach; PromptInv, and ToldInv     *)
(* with it and SlotInv, are those of PromptsHandled.                       *)
(***************************************************************************)
EXTENDS EngineRoles, FiniteSetTheorems, TLAPS

(* A flow of the screen is for one role; what it and the activations hold. *)
Create1 == [at : {"create"}, role : Roles, rec : Record]
Status1 == [at : {"status"}, role : Roles, tmux : Tmux, cwd : Dirs]
Name1   == [at : {"name"}, role : Roles, tmux : Tmux, cwd : Dirs, sess : Uuids]

FileTypes ==
  /\ slot \in [Roles -> Record \cup {None}] /\ named \in [Roles -> SUBSET Nat]
  /\ given \subseteq Roles \X Nat \X Uuids /\ swapped \in BOOLEAN
WorldTypes ==
  /\ live \in [Tmux -> Session \cup {None}]
  /\ written \subseteq Dirs \X Uuids /\ known \subseteq Uuids
  /\ moves \in 0..MaxMoves /\ asked \in 0..MaxAsked
ScreenTypes ==
  /\ screen \in {Closed} \cup Create1 \cup Status1 \cup Name1
  /\ act \in [Activators -> {Rest} \cup [at : {"launch", "wait"}, rec : Record]]
  /\ ops \in 0..MaxOps
PollTypes ==
  /\ poll \in {Rest} \cup [at : {"approve"}, tmux : Tmux, prompt : Prompt]
  /\ episode \in [Roles -> Kinds \cup {None}]
  /\ keyed \subseteq Prompt \X Prompt
  /\ told \subseteq 1..MaxAsked /\ retold \in BOOLEAN

Types == FileTypes /\ WorldTypes /\ ScreenTypes /\ PollTypes

(* Each name given in a role took a flow. *)
Opens(r) == screen # Closed /\ screen.role = r
CountInv ==
  \A r \in Roles : /\ IsFiniteSet(named[r])
                   /\ Cardinality(named[r]) <= ops
                   /\ Opens(r) => Cardinality(named[r]) < ops

-----------------------------------------------------------------------------
(* What each kind of step leaves alone *)

LEMMA UsersFrame ==
  ASSUME Users
  PROVE  UNCHANGED <<slot, named, screen, act, poll, episode, keyed, told, retold, given, swapped, ops>>
BY DEF Users, Starts, Restarts, Quits, Dies, Answered, Asks, OnlyWorld, file, prompts

LEMMA ScreensFrame ==
  ASSUME Screens
  PROVE  UNCHANGED <<act, poll, episode, keyed, told, retold, moves, asked>>
BY DEF Screens, RemoveRole, Create, PickSession, CreateEnds, Identified, DoAttach, Close, file, prompts, world

LEMMA ActivationsFrame ==
  ASSUME Activations
  PROVE  UNCHANGED <<slot, named, screen, poll, episode, keyed, told, retold, given, swapped,
                     written, known, moves, asked>>
BY DEF Activations, Activate, Activated, Launch, LaunchRaises, Awaited, file, prompts, world

LEMMA PollerFrame ==
  ASSUME Poller
  PROVE  UNCHANGED <<slot, named, screen, act, given, swapped, ops, written, known, moves, asked>>
BY DEF Poller, Quiet, Escalate, Judge, Approve, file, prompts, world

LEMMA VarsFrame ==
  ASSUME UNCHANGED vars
  PROVE  UNCHANGED <<slot, named, live, written, known, screen, act, poll, episode, given, keyed, told,
                     retold, swapped, moves, asked, ops>>
BY DEF vars, file, world, prompts

-----------------------------------------------------------------------------
(* Types *)

LEMMA NumberIsNat ==
  ASSUME CountInv, NEW r \in Roles
  PROVE  Cardinality(named[r]) \in Nat /\ NextNumber(r) \in Nat
BY FS_CardinalityType DEF CountInv, NextNumber

LEMMA NumberIsOne ==
  ASSUME CountInv, ops < MaxOps, MaxOps \in Nat, ops \in Nat, NEW r \in Roles
  PROVE  NextNumber(r) \in Numbers
<1>1. IsFiniteSet(named[r]) /\ Cardinality(named[r]) <= ops
  BY DEF CountInv
<1>2. Cardinality(named[r]) \in Nat
  BY <1>1, FS_CardinalityType
<1> QED BY <1>1, <1>2 DEF NextNumber, Numbers

LEMMA TypesOfWorld ==
  ASSUME RolesAssumption, Types, CountInv, [Next]_vars
  PROVE  WorldTypes'
<1> USE DEF RolesAssumption, Types, WorldTypes, Session, Claude, Shell, Prompt
<1>1. CASE \E t \in Names, d \in Dirs : Starts(t, d)
  BY <1>1 DEF Starts, Goes, Fresh, Appears, OnlyWorld, Tmux
<1>2. CASE \E t \in Tmux : Restarts(t)
  BY <1>2 DEF Restarts, Goes, Fresh, Appears, OnlyWorld
<1>3. CASE \E t \in Tmux : Quits(t) \/ Dies(t) \/ Answered(t)
  BY <1>3 DEF Quits, Dies, Answered, Goes, OnlyWorld
<1>4. CASE \E t \in Tmux, k \in Kinds : Asks(t, k)
  BY <1>4 DEF Asks
<1>5. CASE \E r \in Roles : Create(r)
  <2> PICK r \in Roles : Create(r)
    BY <1>5
  <2>1. <<r, NextNumber(r)>> \in Tmux
    BY NumberIsOne DEF Create, Begins, ScreenTypes, Tmux
  <2>2. UNCHANGED <<written, moves, asked>>
    BY DEF Create
  <2>3. known' \subseteq Uuids
    BY DEF Create, Fresh
  <2>4. live' = live \/ \E s \in Uuids : live' \in {[live EXCEPT ![<<r, NextNumber(r)>>] = Claude(Home, s)],
                                                  [live EXCEPT ![<<r, NextNumber(r)>>] = Shell(Home)]}
    BY DEF Create, Fresh
  <2>5. live' \in [Tmux -> Session \cup {None}]
    <3>1. Home \in Dirs
      BY DEF RolesAssumption
    <3>2. \A s \in Uuids : Claude(Home, s) \in Session /\ Shell(Home) \in Session
      BY <3>1
    <3>3. CASE \E s \in Uuids : live' \in {[live EXCEPT ![<<r, NextNumber(r)>>] = Claude(Home, s)],
                                           [live EXCEPT ![<<r, NextNumber(r)>>] = Shell(Home)]}
      BY ONLY <2>1, <3>2, <3>3, live \in [Tmux -> Session \cup {None}]
    <3> QED BY <2>4, <3>3
  <2> QED BY <2>2, <2>3, <2>5
<1>6. CASE CreateEnds
  BY <1>6 DEF CreateEnds, Ready, ScreenTypes, Create1, Status1, Name1, Closed, Record
<1>7. CASE Screens /\ ~(\E r \in Roles : Create(r)) /\ ~CreateEnds
  BY <1>7 DEF Screens, RemoveRole, PickSession, Identified, DoAttach, Close, world
<1>8. CASE \E a \in Activators : Launch(a)
  <2> PICK a \in Activators : Launch(a)
    BY <1>8
  <2>1. act[a].rec \in Record
    BY DEF Launch, ScreenTypes, Rest
  <2>2. act[a].rec.tmux \in Tmux /\ act[a].rec.cwd \in Dirs /\ act[a].rec.sess \in Uuids
    BY <2>1 DEF Record
  <2>3. UNCHANGED <<written, known, moves, asked>>
    BY DEF Launch
  <2>4. \/ live' = live
        \/ live' = [live EXCEPT ![act[a].rec.tmux] = Claude(act[a].rec.cwd, act[a].rec.sess)]
        \/ live' = [live EXCEPT ![act[a].rec.tmux] = Shell(act[a].rec.cwd)]
    BY DEF Launch
  <2>5. live' \in [Tmux -> Session \cup {None}]
    BY <2>2, <2>4
  <2> QED BY <2>3, <2>5
<1>9. CASE Activations /\ ~(\E a \in Activators : Launch(a))
  BY <1>9 DEF Activations, Activate, Activated, LaunchRaises, Awaited, world
<1>10. CASE Approve
  BY <1>10 DEF Approve, PollTypes
<1>11. CASE Poller /\ ~Approve
  BY <1>11 DEF Poller, Quiet, Escalate, Judge, world
<1>12. CASE UNCHANGED vars
  BY <1>12, VarsFrame
<1> QED BY <1>1, <1>2, <1>3, <1>4, <1>5, <1>6, <1>7, <1>8, <1>9, <1>10, <1>11, <1>12
        DEF Next, Users, Screens

LEMMA AttachTypes ==
  ASSUME FileTypes, NEW r \in Roles, NEW rec \in Record, AttachRole(r, rec)
  PROVE  FileTypes'
<1>1. CASE Taken(r, rec.tmux)
  BY <1>1 DEF FileTypes, AttachRole, file
<1>2. CASE ~Taken(r, rec.tmux)
  <2>1. rec.name \in Nat /\ rec.sess \in Uuids
    BY DEF Record
  <2>2. slot' \in [Roles -> Record \cup {None}] /\ swapped' \in BOOLEAN
    BY <1>2 DEF FileTypes, AttachRole, Attached
  <2>3. named' \in [Roles -> SUBSET Nat] /\ given' \subseteq Roles \X Nat \X Uuids
    BY <1>2, <2>1 DEF FileTypes, AttachRole
  <2> QED BY <2>2, <2>3 DEF FileTypes
<1> QED BY <1>1, <1>2

LEMMA TypesOfFile ==
  ASSUME RolesAssumption, Types, CountInv, [Next]_vars
  PROVE  FileTypes'
<1>1. CASE UNCHANGED <<slot, named, given, swapped>>
  BY <1>1 DEF Types, FileTypes
<1>2. CASE \E r \in Roles : RemoveRole(r)
  BY <1>2 DEF RemoveRole, Types, FileTypes
<1>3. CASE CreateEnds
  <2>1. screen.role \in Roles /\ screen.rec \in Record
    BY <1>3 DEF CreateEnds, Types, ScreenTypes, Create1, Status1, Name1, Closed
  <2> QED BY <1>1, <1>3, <2>1, AttachTypes DEF CreateEnds, Types, file
<1>4. CASE DoAttach
  <2>1. screen \in Name1
    BY <1>4 DEF DoAttach, Types, ScreenTypes, Create1, Status1, Name1, Closed
  <2>2. NextNumber(screen.role) \in Nat
    BY <2>1, NumberIsNat DEF Name1
  <2> PICK name \in {NextNumber(screen.role)} \cup Typed :
        AttachRole(screen.role, [tmux |-> screen.tmux, cwd |-> screen.cwd,
                                 sess |-> screen.sess, name |-> name, model |-> "verbatim"])
    BY <1>4 DEF DoAttach
  <2>3. name \in Nat
    BY <2>2 DEF RolesAssumption
  <2>4. [tmux |-> screen.tmux, cwd |-> screen.cwd, sess |-> screen.sess, name |-> name,
         model |-> "verbatim"] \in Record
    BY <2>1, <2>3 DEF Name1, Record
  <2> QED BY <2>1, <2>4, AttachTypes DEF Types, Name1
<1>5. CASE Screens /\ ~(\E r \in Roles : RemoveRole(r)) /\ ~CreateEnds /\ ~DoAttach
  BY <1>1, <1>5 DEF Screens, Create, PickSession, Identified, Close, file
<1> QED BY <1>1, <1>2, <1>3, <1>4, <1>5, UsersFrame, ActivationsFrame, PollerFrame, VarsFrame
        DEF Next

LEMMA ScreenFields ==
  ASSUME Types
  PROVE  /\ screen.at = "create" => screen \in Create1 /\ screen # Closed
         /\ screen.at = "status" => screen \in Status1 /\ screen # Closed
         /\ screen.at = "name" => screen \in Name1 /\ screen # Closed
BY DEF Types, ScreenTypes, Create1, Status1, Name1, Closed

LEMMA TypesOfScreens ==
  ASSUME RolesAssumption, Types, CountInv, [Next]_vars
  PROVE  ScreenTypes'
<1>1. CASE UNCHANGED <<screen, act, ops>>
  BY <1>1 DEF Types, ScreenTypes
<1>2. ops < MaxOps => ops + 1 \in 0..MaxOps
  BY DEF RolesAssumption, Types, ScreenTypes
<1>3. CASE \E r \in Roles : RemoveRole(r)
  BY <1>2, <1>3 DEF RemoveRole, Begins, Types, ScreenTypes
<1>4. CASE \E r \in Roles : Create(r)
  <2> PICK r \in Roles : Create(r)
    BY <1>4
  <2>1. act' = act /\ ops' \in 0..MaxOps
    BY <1>2 DEF Create, Begins
  <2>2. \/ screen' = screen
        \/ \E s \in Uuids, name \in {NextNumber(r)} \cup Typed :
             screen' = [at |-> "create", role |-> r,
                        rec |-> [tmux |-> <<r, NextNumber(r)>>, cwd |-> Home, sess |-> s, name |-> name,
                                 model |-> "plain"]]
    BY DEF Create, Fresh
  <2>3. <<r, NextNumber(r)>> \in Tmux
    BY NumberIsOne DEF RolesAssumption, Create, Begins, Types, ScreenTypes, Tmux
  <2>4. Home \in Dirs /\ {NextNumber(r)} \cup Typed \subseteq Nat
    BY NumberIsNat DEF RolesAssumption
  <2>5. screen' \in {Closed} \cup Create1 \cup Status1 \cup Name1
    BY <2>2, <2>3, <2>4 DEF Types, ScreenTypes, Create1, Record
  <2> QED BY <2>1, <2>5 DEF Types, ScreenTypes
<1>5. CASE \E r \in Roles, t \in Tmux : PickSession(r, t)
  <2> PICK r \in Roles, t \in Tmux : PickSession(r, t)
    BY <1>5
  <2>1. act' = act /\ ops' \in 0..MaxOps
    BY <1>2 DEF PickSession, Begins
  <2>2. screen' = [at |-> "status", role |-> r, tmux |-> t, cwd |-> live[t].cwd] /\ live[t].cwd \in Dirs
    BY DEF PickSession, RolesAssumption
  <2>3. screen' \in Status1
    BY <2>2 DEF Status1
  <2> QED BY <2>1, <2>3 DEF Types, ScreenTypes
<1>6. CASE CreateEnds \/ DoAttach \/ Close
  BY <1>6 DEF CreateEnds, DoAttach, Close, Types, ScreenTypes
<1>7. CASE Identified
  <2>1. screen \in Status1 /\ act' = act /\ ops' = ops
    BY <1>7, ScreenFields DEF Identified
  <2>2. live[screen.tmux] \in Session \cup {None}
    BY <2>1 DEF Types, WorldTypes, Status1
  <2>3. \/ screen' = Closed
        \/ /\ live[screen.tmux] # None /\ live[screen.tmux].sess # None
           /\ screen' = [at |-> "name", role |-> screen.role, tmux |-> screen.tmux,
                         cwd |-> screen.cwd, sess |-> live[screen.tmux].sess]
    BY <1>7 DEF Identified
  <2>4. screen' \in {Closed} \cup Name1
    BY <2>1, <2>2, <2>3 DEF Status1, Name1, Session
  <2> QED BY <2>1, <2>4 DEF Types, ScreenTypes
<1>8. CASE Activations
  <2>1. screen' = screen
    BY <1>8, ActivationsFrame
  <2>2. ops' \in 0..MaxOps
    BY <1>2, <1>8 DEF Activations, Activate, Activated, Launch, LaunchRaises, Awaited, Begins, Types, ScreenTypes
  <2>3. act' \in [Activators -> {Rest} \cup [at : {"launch", "wait"}, rec : Record]]
    <3>1. CASE \E a \in Activators, r \in Roles : Activate(a, r)
      BY <3>1 DEF Activate, Attached, Types, FileTypes, ScreenTypes
    <3>2. CASE \E a \in Activators : Launch(a)
      BY <3>2 DEF Launch, Types, ScreenTypes, Rest
    <3>3. CASE \E a \in Activators, ok \in BOOLEAN : Awaited(a, ok) \/ LaunchRaises(a)
      BY <3>3 DEF Awaited, LaunchRaises, Types, ScreenTypes
    <3>4. CASE \E a \in Activators, r \in Roles, ok \in BOOLEAN : Activated(a, r, ok)
      BY <3>4 DEF Activated, Types, ScreenTypes
    <3> QED BY <1>8, <3>1, <3>2, <3>3, <3>4 DEF Activations
  <2> QED BY <2>1, <2>2, <2>3 DEF Types, ScreenTypes
<1> QED BY <1>1, <1>3, <1>4, <1>5, <1>6, <1>7, <1>8, UsersFrame, PollerFrame, VarsFrame
        DEF Next, Screens

LEMMA ShownIsPrompt ==
  ASSUME RolesAssumption, Types, NEW r \in Roles, Shown(r) # None
  PROVE  /\ Attached(r) /\ slot[r] \in Record /\ slot[r].tmux \in Tmux /\ live[slot[r].tmux] \in Session
         /\ live[slot[r].tmux].prompt = Shown(r) /\ Shown(r) \in Prompt
         /\ Shown(r).kind \in Kinds /\ Shown(r).id \in 1..MaxAsked
BY DEF RolesAssumption, Types, FileTypes, WorldTypes, Shown, Attached, Record, Session, Prompt

LEMMA TypesOfPrompts ==
  ASSUME RolesAssumption, Types, [Next]_vars
  PROVE  PollTypes'
<1>1. CASE UNCHANGED <<poll, episode, keyed, told, retold>>
  BY <1>1 DEF Types, PollTypes
<1>2. CASE \E r \in Roles : Quiet(r)
  BY <1>2 DEF Quiet, Types, PollTypes
<1>3. CASE \E r \in Roles : Escalate(r)
  <2> PICK r \in Roles : Escalate(r)
    BY <1>3
  <2>1. /\ episode' = [episode EXCEPT ![r] = Shown(r).kind] /\ UNCHANGED <<poll, keyed>>
        /\ told' = told \cup {Shown(r).id} /\ retold' \in BOOLEAN /\ Shown(r) # None
    BY DEF Escalate, Announce, Types, PollTypes
  <2>2. Shown(r).kind \in Kinds /\ Shown(r).id \in 1..MaxAsked
    BY <2>1, ShownIsPrompt
  <2> QED BY <2>1, <2>2 DEF Types, PollTypes
<1>4. CASE \E r \in Roles : Judge(r)
  <2> PICK r \in Roles : Judge(r)
    BY <1>4
  <2>1. /\ poll' = [at |-> "approve", tmux |-> slot[r].tmux, prompt |-> Shown(r)]
        /\ episode' = [episode EXCEPT ![r] = Shown(r).kind] /\ UNCHANGED <<keyed, told, retold>>
        /\ Shown(r) # None
    BY DEF Judge
  <2>2. slot[r].tmux \in Tmux /\ Shown(r) \in Prompt /\ Shown(r).kind \in Kinds
    BY <2>1, ShownIsPrompt
  <2>3. poll' \in [at : {"approve"}, tmux : Tmux, prompt : Prompt]
    BY <2>1, <2>2
  <2> QED BY <2>1, <2>2, <2>3 DEF Types, PollTypes
<1>5. CASE Approve
  <2>1. poll.tmux \in Tmux /\ poll.prompt \in Prompt /\ poll.prompt.id \in 1..MaxAsked
    BY <1>5 DEF Approve, Types, PollTypes, Rest, Prompt
  <2>2. told' = told \cup {poll.prompt.id} /\ retold' \in BOOLEAN /\ poll' = Rest /\ episode' = episode
    BY <1>5 DEF Approve, Announce, Types, PollTypes
  <2>3. live[poll.tmux] \in Session \cup {None}
    BY <2>1 DEF Types, WorldTypes
  <2>4. keyed' = keyed \/ (/\ live[poll.tmux] # None /\ live[poll.tmux].prompt # None
                           /\ keyed' = keyed \cup {<<poll.prompt, live[poll.tmux].prompt>>})
    BY <1>5 DEF Approve
  <2>5. keyed' \subseteq Prompt \X Prompt
    BY <2>1, <2>3, <2>4 DEF Session, Types, PollTypes
  <2> QED BY <2>1, <2>2, <2>5 DEF Types, PollTypes
<1> QED BY <1>1, <1>2, <1>3, <1>4, <1>5, UsersFrame, ScreensFrame, ActivationsFrame, VarsFrame
        DEF Next, Poller

-----------------------------------------------------------------------------
(* Who writes the file *)

(* A flow that ends in attach_role: with the record it gathered. *)
Attaches(r, rec) ==
  /\ r = screen.role /\ screen # Closed /\ screen' = Closed
  /\ \/ screen \in Create1 /\ rec = screen.rec
     \/ /\ screen \in Name1 /\ rec.tmux = screen.tmux /\ rec.cwd = screen.cwd /\ rec.sess = screen.sess
        /\ rec.name \in {NextNumber(r)} \cup Typed
  /\ UNCHANGED <<known, act, live, ops>>
  /\ AttachRole(r, rec)

LEMMA EndsAttach ==
  ASSUME RolesAssumption, Types, CountInv, CreateEnds \/ DoAttach
  PROVE  \/ \E r \in Roles, rec \in Record : Attaches(r, rec)
         \/ screen' = Closed /\ UNCHANGED <<slot, named, given, swapped, known, act, live, ops>>
<1>1. CASE CreateEnds
  <2>1. screen \in Create1 /\ screen # Closed
    BY <1>1, ScreenFields DEF CreateEnds
  <2>2. screen.role \in Roles /\ screen.rec \in Record
    BY <2>1 DEF Create1
  <2> QED BY <1>1, <2>1, <2>2 DEF CreateEnds, Attaches, file
<1>2. CASE DoAttach
  <2>1. screen \in Name1 /\ screen # Closed
    BY <1>2, ScreenFields DEF DoAttach
  <2> PICK name \in {NextNumber(screen.role)} \cup Typed :
        AttachRole(screen.role, [tmux |-> screen.tmux, cwd |-> screen.cwd,
                                 sess |-> screen.sess, name |-> name, model |-> "verbatim"])
    BY <1>2 DEF DoAttach
  <2> DEFINE rec == [tmux |-> screen.tmux, cwd |-> screen.cwd, sess |-> screen.sess, name |-> name,
                     model |-> "verbatim"]
  <2>2. screen.role \in Roles /\ name \in Nat
    BY <2>1, NumberIsNat DEF Name1, RolesAssumption
  <2>3. rec \in Record
    BY <2>1, <2>2 DEF Name1, Record
  <2>4. screen' = Closed /\ UNCHANGED <<known, act, live, ops>>
    BY <1>2 DEF DoAttach, world
  <2>5. Attaches(screen.role, rec)
    BY <2>1, <2>4 DEF Attaches
  <2> QED BY <2>2, <2>3, <2>5
<1> QED BY <1>1, <1>2

(* Every step, as the file sees it. *)
LEMMA StepsOfTheFile ==
  ASSUME RolesAssumption, Types, CountInv, [Next]_vars
  PROVE  \/ \E r \in Roles, rec \in Record : Attaches(r, rec)
         \/ \E r \in Roles : RemoveRole(r)
         \/ \E r \in Roles : Create(r)
         \/ \E r \in Roles, t \in Tmux : PickSession(r, t)
         \/ Identified
         \/ screen' = Closed /\ UNCHANGED <<slot, named, given, swapped, known, act, live, ops>>
         \/ /\ UNCHANGED <<slot, named, given, swapped, screen>>
            /\ Users \/ Activations \/ Poller \/ UNCHANGED vars
<1>1. CASE Close
  BY <1>1 DEF Close, file, world
<1> QED BY <1>1, EndsAttach, UsersFrame, ActivationsFrame, PollerFrame, VarsFrame DEF Next, Screens

LEMMA AttachSets ==
  ASSUME FileTypes, NEW r \in Roles, NEW rec \in Record, AttachRole(r, rec)
  PROVE  \/ UNCHANGED <<slot, named, given, swapped>>
         \/ /\ ~Taken(r, rec.tmux)
            /\ slot'[r] = rec /\ \A o \in Roles \ {r} : slot'[o] = slot[o]
            /\ named'[r] = named[r] \cup {rec.name} /\ \A o \in Roles \ {r} : named'[o] = named[o]
            /\ given' = given \cup {<<r, rec.name, rec.sess>>}
            /\ swapped' = (swapped \/ Attached(r))
BY DEF FileTypes, AttachRole, file

LEMMA CountKept ==
  ASSUME RolesAssumption, Types, CountInv, [Next]_vars
  PROVE  CountInv'
<1>0. /\ ops \in Nat
      /\ \A r \in Roles : /\ IsFiniteSet(named[r]) /\ Cardinality(named[r]) \in Nat
                          /\ Cardinality(named[r]) <= ops
                          /\ Opens(r) => Cardinality(named[r]) < ops
  BY NumberIsNat DEF CountInv, Types, ScreenTypes, RolesAssumption
<1>1. CASE \E r \in Roles, rec \in Record : Attaches(r, rec)
  <2> PICK r \in Roles, rec \in Record : Attaches(r, rec)
    BY <1>1
  <2>1. screen' = Closed /\ ops' = ops /\ Opens(r)
    BY DEF Attaches, Opens
  <2>2. \A o \in Roles : ~Opens(o)'
    BY <2>1 DEF Opens
  <2>3. \A o \in Roles : named'[o] = named[o] \/ (o = r /\ named'[o] = named[r] \cup {rec.name})
    BY AttachSets DEF Attaches, Types
  <2>4. /\ IsFiniteSet(named[r] \cup {rec.name})
        /\ Cardinality(named[r] \cup {rec.name}) \in {Cardinality(named[r]), Cardinality(named[r]) + 1}
    BY <1>0, FS_AddElement
  <2>5. Cardinality(named[r] \cup {rec.name}) <= ops
    BY <1>0, <2>1, <2>4
  <2> QED BY <1>0, <2>1, <2>2, <2>3, <2>4, <2>5 DEF CountInv
<1>2. CASE UNCHANGED <<named, screen>> /\ ops' \in Nat /\ ops' >= ops
  BY <1>0, <1>2 DEF CountInv, Opens
<1>3. CASE named' = named /\ ops' = ops + 1
  BY <1>0, <1>3 DEF CountInv
<1>4. CASE /\ named' = named /\ ops' = ops
           /\ \/ screen' = Closed
              \/ screen' # Closed /\ screen # Closed /\ screen'.role = screen.role
  BY <1>0, <1>4 DEF CountInv, Opens
<1>5. CASE Identified
  <2>1. screen # Closed
    BY <1>5, ScreenFields DEF Identified
  <2> QED BY <1>4, <1>5, <2>1 DEF Identified, file
<1>6. Users \/ Activations \/ Poller \/ UNCHANGED vars => ops' = ops \/ ops' = ops + 1
  BY UsersFrame, PollerFrame, VarsFrame DEF Activations, Activate, Activated, Launch, LaunchRaises, Awaited, Begins
<1>7. (\E r \in Roles : RemoveRole(r) \/ Create(r)) \/ (\E r \in Roles, t \in Tmux : PickSession(r, t))
        => named' = named /\ ops' = ops + 1
  BY DEF RemoveRole, Create, PickSession, Begins, file
<1> QED BY <1>0, <1>1, <1>2, <1>3, <1>4, <1>5, <1>6, <1>7, StepsOfTheFile

LEMMA TypesKept ==
  ASSUME RolesAssumption, Types, CountInv, [Next]_vars
  PROVE  Types'
BY TypesOfWorld, TypesOfFile, TypesOfScreens, TypesOfPrompts DEF Types

LEMMA TypesStart ==
  ASSUME RolesAssumption, Init
  PROVE  Types /\ CountInv
<1>1. FileTypes /\ WorldTypes
  <2>1. /\ slot \in [Roles -> Record \cup {None}] /\ named \in [Roles -> SUBSET Nat]
        /\ live \in [Tmux -> Session \cup {None}]
    BY DEF Init
  <2>2. 0 \in 0..MaxMoves /\ 0 \in 0..MaxAsked
    BY DEF RolesAssumption
  <2> QED BY <2>1, <2>2 DEF Init, FileTypes, WorldTypes
<1>3. ScreenTypes /\ PollTypes
  <2>1. /\ act \in [Activators -> {Rest} \cup [at : {"launch", "wait"}, rec : Record]]
        /\ episode \in [Roles -> Kinds \cup {None}]
    BY DEF Init
  <2>2. 0 \in 0..MaxOps
    BY DEF RolesAssumption
  <2> QED BY <2>1, <2>2 DEF Init, ScreenTypes, PollTypes
<1>2. CountInv
  BY FS_EmptySet DEF RolesAssumption, Init, CountInv, Opens
<1> QED BY <1>1, <1>2, <1>3 DEF Types

-----------------------------------------------------------------------------
(* One session, one role *)

SlotInv == \A r, o \in Roles : Attached(r) /\ Attached(o) /\ slot[r].tmux = slot[o].tmux => r = o

LEMMA SlotKept ==
  ASSUME RolesAssumption, Types, CountInv, SlotInv, [Next]_vars
  PROVE  SlotInv'
<1>1. CASE \E r \in Roles, rec \in Record : Attaches(r, rec)
  BY <1>1, AttachSets DEF Attaches, Types, Taken, SlotInv, Attached
<1>2. CASE \E r \in Roles : RemoveRole(r)
  BY <1>2 DEF RemoveRole, SlotInv, Attached, Types, FileTypes
<1>3. CASE slot' = slot
  BY <1>3 DEF SlotInv, Attached
<1> QED BY <1>1, <1>2, <1>3, StepsOfTheFile DEF Create, PickSession, Identified, file

-----------------------------------------------------------------------------
(* The names given *)

(* A number not above its role's count has been given, one above it has    *)
(* not; the file is not written while a name is on the screen.             *)
NumberInv ==
  /\ \A r \in Roles : \A n \in named[r] : n <= Cardinality(named[r])
  /\ \A g \in given : g[2] \in named[g[1]]
  /\ \A g, h \in given : g[1] = h[1] /\ g[2] = h[2] /\ g[2] # 0 => g = h
  /\ screen \in Create1 => screen.rec.name \in {NextNumber(screen.role), 0}

LEMMA NumberKept ==
  ASSUME RolesAssumption, Typed \subseteq {0}, Types, CountInv, NumberInv, [Next]_vars
  PROVE  NumberInv'
<1>0. \A r \in Roles : /\ IsFiniteSet(named[r]) /\ Cardinality(named[r]) \in Nat /\ named[r] \subseteq Nat
                       /\ \A n \in named[r] : n <= Cardinality(named[r])
  BY NumberIsNat DEF CountInv, Types, FileTypes, NumberInv
<1>1. CASE \E r \in Roles, rec \in Record : Attaches(r, rec) /\ ~UNCHANGED <<slot, named, given, swapped>>
  <2> PICK r \in Roles, rec \in Record : Attaches(r, rec) /\ ~UNCHANGED <<slot, named, given, swapped>>
    BY <1>1
  <2>1. /\ named'[r] = named[r] \cup {rec.name} /\ \A o \in Roles \ {r} : named'[o] = named[o]
        /\ given' = given \cup {<<r, rec.name, rec.sess>>}
    BY AttachSets DEF Attaches, Types
  <2>2. rec.name \in {NextNumber(r), 0}
    BY DEF Attaches, NumberInv
  <2>3. rec.name \in Nat /\ (rec.name # 0 => rec.name = Cardinality(named[r]) + 1)
    BY <1>0, <2>2 DEF NextNumber
  <2>4. named'[r] = named[r] \/ Cardinality(named'[r]) = Cardinality(named[r]) + 1
    <3>1. CASE rec.name \in named[r]
      BY <2>1, <3>1
    <3>2. CASE rec.name \notin named[r]
      <4>1. Cardinality(named[r] \cup {rec.name}) = Cardinality(named[r]) + 1
        BY <1>0, <3>2, FS_AddElement
      <4> QED BY <2>1, <4>1
    <3> QED BY <3>1, <3>2
  <2>5. \A n \in named'[r] : n <= Cardinality(named'[r])
    <3>1. CASE named'[r] = named[r]
      BY <1>0, <3>1
    <3>2. CASE Cardinality(named'[r]) = Cardinality(named[r]) + 1
      <4>1. \A n \in named[r] : n \in Nat /\ n <= Cardinality(named[r])
        BY <1>0
      <4>2. Cardinality(named[r]) \in Nat
        BY <1>0
      <4> QED BY ONLY <2>1, <2>3, <3>2, <4>1, <4>2
    <3> QED BY <2>4, <3>1, <3>2
  <2>6. \A g \in given : g[1] = r /\ g[2] = rec.name => rec.name = 0
    BY <1>0, <2>3 DEF NumberInv
  <2>7. \A g \in given' : g[2] \in named'[g[1]]
    <3>1. \A g \in given : g[1] \in Roles /\ g[2] \in named[g[1]]
      BY DEF NumberInv, Types, FileTypes
    <3> QED BY <2>1, <3>1
  <2>8. \A g, h \in given' : g[1] = h[1] /\ g[2] = h[2] /\ g[2] # 0 => g = h
    BY <2>1, <2>6 DEF NumberInv
  <2>9. screen' = Closed
    BY DEF Attaches
  <2> QED BY <1>0, <2>1, <2>5, <2>7, <2>8, <2>9 DEF NumberInv, Create1, Closed
<1>2. CASE UNCHANGED <<named, given>> /\ (screen' = screen \/ screen' \in {Closed} \cup Name1 \cup Status1)
  BY <1>2 DEF NumberInv, NextNumber, Create1, Closed, Name1, Status1
<1>3. CASE \E r \in Roles : Create(r)
  BY <1>2, <1>3 DEF Create, NumberInv, NextNumber, file
<1>4. CASE \E r \in Roles : RemoveRole(r)
  BY <1>2, <1>4 DEF RemoveRole
<1>5. CASE \E r \in Roles, t \in Tmux : PickSession(r, t)
  <2>1. /\ UNCHANGED <<named, given>>
        /\ \E r \in Roles, t \in Tmux : /\ live[t].cwd \in Dirs
             /\ screen' = [at |-> "status", role |-> r, tmux |-> t, cwd |-> live[t].cwd]
    BY <1>5 DEF PickSession, file, RolesAssumption
  <2>2. screen' \in Status1
    BY <2>1 DEF Status1
  <2> QED BY <1>2, <2>1, <2>2
<1>6. CASE Identified
  <2>1. (screen' = Closed \/ screen'.at = "name") /\ UNCHANGED <<named, given>>
    BY <1>6 DEF Identified, file
  <2>2. screen' \in {Closed} \cup Name1
    BY <2>1, TypesOfScreens DEF ScreenTypes, Closed, Create1, Name1, Status1
  <2> QED BY <1>2, <2>1, <2>2
<1>7. CASE \E r \in Roles, rec \in Record : Attaches(r, rec) /\ UNCHANGED <<slot, named, given, swapped>>
  BY <1>2, <1>7 DEF Attaches
<1> QED BY <1>1, <1>2, <1>3, <1>4, <1>5, <1>6, <1>7, StepsOfTheFile

-----------------------------------------------------------------------------
(* Where an identity lives *)

(* Under which name a session with this identity runs, or would run again. *)
Holds(t, s) ==
  \/ live[t] # None /\ live[t].sess = s
  \/ \E r \in Roles : Attached(r) /\ slot[r].tmux = t /\ slot[r].sess = s
  \/ \E a \in Activators : act[a] # Rest /\ act[a].rec.tmux = t /\ act[a].rec.sess = s
  \/ screen \in Create1 /\ screen.rec.tmux = t /\ screen.rec.sess = s
  \/ screen \in Name1 /\ screen.tmux = t /\ screen.sess = s

(* Under one, which never becomes another. *)
HomeInv ==
  \A s \in Uuids : /\ \A t, u \in Tmux : Holds(t, s) /\ Holds(u, s) => t = u
                   /\ \A t \in Tmux : Holds(t, s) => s \in known

LEMMA HomeStays ==
  ASSUME HomeInv, known \subseteq known', \A t \in Tmux, s \in Uuids : Holds(t, s)' => Holds(t, s)
  PROVE  HomeInv'
BY DEF HomeInv

(* Only a fresh identity comes to be anywhere it was not. *)
LEMMA HomeFresh ==
  ASSUME HomeInv, NEW t \in Tmux, NEW s \in Uuids \ known, known' = known \cup {s},
         \A u \in Tmux, v \in Uuids : Holds(u, v)' => Holds(u, v) \/ (u = t /\ v = s)
  PROVE  HomeInv'
BY DEF HomeInv

LEMMA HomeUsers ==
  ASSUME RolesAssumption, Types, HomeInv, Users
  PROVE  HomeInv'
<1>0. live \in [Tmux -> Session \cup {None}] /\ known \subseteq Uuids /\ Names \subseteq Tmux
  BY DEF Types, WorldTypes, Tmux
<1>1. UNCHANGED <<slot, act, screen>>
  BY UsersFrame
<1>2. ASSUME NEW t \in Tmux, NEW d \in Dirs, NEW s \in Fresh, NEW worked \in BOOLEAN, Appears(t, d, s, worked)
      PROVE  HomeInv'
  <2>1. \A u \in Tmux, v \in Uuids : Holds(u, v)' => Holds(u, v) \/ (u = t /\ v = s)
    BY <1>0, <1>1, <1>2 DEF Appears, Holds, Claude, Attached
  <2> QED BY <1>2, <2>1, HomeFresh DEF Appears, Fresh
<1>3. CASE \E t \in Names, d \in Dirs : Starts(t, d)
  BY <1>0, <1>2, <1>3 DEF Starts
<1>4. CASE \E t \in Tmux : Restarts(t)
  <2>1. \A t \in Tmux : live[t] # None => live[t].cwd \in Dirs
    BY <1>0 DEF Session
  <2> QED BY <1>2, <1>4, <2>1 DEF Restarts
<1>5. CASE \/ \E t \in Tmux : Quits(t) \/ Dies(t) \/ Answered(t)
           \/ \E t \in Tmux, k \in Kinds : Asks(t, k)
  <2>1. \A t \in Tmux : live'[t] # None /\ live'[t].sess # None
                          => live[t] # None /\ live'[t].sess = live[t].sess
    BY <1>0, <1>5 DEF Quits, Dies, Answered, Asks, Shell, Session
  <2>2. known' = known
    BY <1>5 DEF Quits, Dies, Answered, Asks
  <2> QED BY <1>1, <2>1, <2>2, HomeStays DEF Holds, Attached, RolesAssumption
<1> QED BY <1>3, <1>4, <1>5 DEF Users

LEMMA HomeActivations ==
  ASSUME RolesAssumption, Types, HomeInv, Activations
  PROVE  HomeInv'
<1>0. /\ live \in [Tmux -> Session \cup {None}]
      /\ act \in [Activators -> {Rest} \cup [at : {"launch", "wait"}, rec : Record]]
  BY DEF Types, WorldTypes, ScreenTypes
<1>1. UNCHANGED <<slot, screen, known>>
  BY ActivationsFrame
<1>2. CASE \E a \in Activators, r \in Roles : Activate(a, r)
  BY <1>0, <1>1, <1>2, HomeStays DEF Activate, Holds, Attached, world
<1>3. CASE \E a \in Activators : Launch(a)
  <2> PICK a \in Activators : Launch(a)
    BY <1>3
  <2> DEFINE rec == act[a].rec
  <2>1. act[a] # Rest /\ rec \in Record /\ rec.tmux \in Tmux
    BY <1>0 DEF Launch, Rest, Record
  <2>2. /\ \A t \in Tmux : \/ live'[t] = live[t]
                           \/ t = rec.tmux /\ live'[t] \in {Claude(rec.cwd, rec.sess), Shell(rec.cwd)}
        /\ \A b \in Activators : act'[b] # Rest => act[b] # Rest /\ act'[b].rec = act[b].rec
    BY <1>0, <2>1 DEF Launch
  <2>3. ASSUME NEW t \in Tmux, NEW s \in Uuids, Holds(t, s)'
        PROVE  Holds(t, s)
    <3>1. CASE live'[t] # None /\ live'[t].sess = s
      <4>1. s # None
        BY DEF RolesAssumption
      <4> QED BY <2>1, <2>2, <3>1, <4>1 DEF Holds, Claude, Shell
    <3>2. CASE ~(live'[t] # None /\ live'[t].sess = s)
      BY <1>1, <2>2, <2>3, <3>2 DEF Holds, Attached
    <3> QED BY <3>1, <3>2
  <2> QED BY <1>1, <2>3, HomeStays
<1>4. CASE \/ \E a \in Activators, ok \in BOOLEAN : Awaited(a, ok) \/ LaunchRaises(a)
           \/ \E a \in Activators, r \in Roles, ok \in BOOLEAN : Activated(a, r, ok)
  BY <1>0, <1>1, <1>4, HomeStays DEF Awaited, LaunchRaises, Activated, Holds, Attached, world
<1> QED BY <1>2, <1>3, <1>4 DEF Activations

LEMMA HomePoller ==
  ASSUME RolesAssumption, Types, HomeInv, Poller
  PROVE  HomeInv'
<1>0. live \in [Tmux -> Session \cup {None}]
  BY DEF Types, WorldTypes
<1>1. UNCHANGED <<slot, screen, act, known>>
  BY PollerFrame
<1>2. \A t \in Tmux : live'[t] # None => live[t] # None /\ live'[t].sess = live[t].sess
  BY <1>0 DEF Poller, Quiet, Escalate, Judge, Approve, world, Session
<1> QED BY <1>1, <1>2, HomeStays DEF Holds, Attached

LEMMA HomeCreate ==
  ASSUME RolesAssumption, Types, CountInv, HomeInv, NEW r \in Roles, Create(r)
  PROVE  HomeInv'
<1> DEFINE t == <<r, NextNumber(r)>>
<1>0. live \in [Tmux -> Session \cup {None}]
  BY DEF Types, WorldTypes
<1>1. t \in Tmux
  BY NumberIsOne DEF RolesAssumption, Create, Begins, Types, ScreenTypes, Tmux
<1>2. UNCHANGED <<slot, act>>
  BY DEF Create, file
<1>3. CASE live[t] # None
  BY <1>2, <1>3, HomeStays DEF Create, Holds, Attached
<1>4. CASE live[t] = None
  <2> PICK s \in Fresh, name \in {NextNumber(r)} \cup Typed, up \in Comes("plain") :
        /\ live' = [live EXCEPT ![t] = IF up THEN Claude(Home, s) ELSE Shell(Home)]
        /\ known' = known \cup {s}
        /\ screen' = [at |-> "create", role |-> r,
                      rec |-> [tmux |-> t, cwd |-> Home, sess |-> s, name |-> name, model |-> "plain"]]
    BY <1>4 DEF Create
  <2>1. screen'.at = "create" /\ screen'.rec.tmux = t /\ screen'.rec.sess = s
    OBVIOUS
  <2>2. \A u \in Tmux : live'[u] = live[u] \/ (u = t /\ live'[u] \in {Claude(Home, s), Shell(Home)})
    BY <1>0, <1>1
  <2>3. ASSUME NEW u \in Tmux, NEW v \in Uuids, Holds(u, v)'
        PROVE  Holds(u, v) \/ (u = t /\ v = s)
    <3>1. CASE live'[u] # None /\ live'[u].sess = v
      <4>1. v # None
        BY DEF RolesAssumption
      <4> QED BY <2>2, <3>1, <4>1 DEF Holds, Claude, Shell
    <3>2. CASE ~(live'[u] # None /\ live'[u].sess = v)
      BY <1>2, <2>1, <2>3, <3>2 DEF Holds, Attached, Name1
    <3> QED BY <3>1, <3>2
  <2> QED BY <1>1, <2>3, HomeFresh DEF Fresh
<1> QED BY <1>3, <1>4

LEMMA HomeKept ==
  ASSUME RolesAssumption, Types, CountInv, HomeInv, [Next]_vars
  PROVE  HomeInv'
<1>1. CASE \E r \in Roles, rec \in Record : Attaches(r, rec)
  <2> PICK r \in Roles, rec \in Record : Attaches(r, rec)
    BY <1>1
  <2>1. /\ screen' = Closed /\ UNCHANGED <<known, act, live>>
        /\ \A o \in Roles : slot'[o] = slot[o] \/ (o = r /\ slot'[o] = rec)
    BY AttachSets DEF Attaches, Types
  <2>2. Holds(rec.tmux, rec.sess)
    BY DEF Attaches, Holds
  <2> QED BY <2>1, <2>2, HomeStays DEF Holds, Attached, Closed, Create1, Name1
<1>2. CASE \E r \in Roles : RemoveRole(r)
  BY <1>2, HomeStays DEF RemoveRole, Holds, Attached, Types, FileTypes, world
<1>3. CASE \E r \in Roles, t \in Tmux : PickSession(r, t)
  <2>1. UNCHANGED <<slot, live, act, known>> /\ screen'.at = "status"
    BY <1>3 DEF PickSession, file, world
  <2> QED BY <2>1, HomeStays DEF Holds, Attached, Create1, Name1
<1>4. CASE Identified
  <2>1. UNCHANGED <<slot, live, act, known>>
    BY <1>4 DEF Identified, file, world
  <2>2. \/ screen'.at = "none"
        \/ /\ live[screen.tmux] # None
           /\ screen'.at = "name" /\ screen'.tmux = screen.tmux /\ screen'.sess = live[screen.tmux].sess
    BY <1>4 DEF Identified, Closed
  <2> QED BY <2>1, <2>2, HomeStays DEF Holds, Attached, Create1, Name1
<1>5. CASE screen' = Closed /\ UNCHANGED <<slot, named, given, swapped, known, act, live, ops>>
  BY <1>5, HomeStays DEF Holds, Attached, Closed, Create1, Name1
<1>6. CASE UNCHANGED vars
  BY <1>6, VarsFrame, HomeStays DEF Holds, Attached
<1> QED BY <1>1, <1>2, <1>3, <1>4, <1>5, <1>6, HomeCreate, HomeUsers,
           HomeActivations, HomePoller, StepsOfTheFile

-----------------------------------------------------------------------------
(* The prompts *)

Prompting(t) == live[t] # None /\ live[t].prompt # None

(* A prompt has a number of its own; what the loop is about to approve it  *)
(* took for a safe one, in a pane which shows that prompt still or a later. *)
PromptInv ==
  /\ \A t \in Tmux : Prompting(t) => live[t].prompt.id <= asked
  /\ \A t, u \in Tmux : Prompting(t) /\ Prompting(u) /\ live[t].prompt.id = live[u].prompt.id => t = u
  /\ \A i \in told : i <= asked
  /\ poll.at = "approve" =>
       /\ poll.prompt.kind \in Reads \ Sensitive /\ poll.prompt.id <= asked
       /\ Prompting(poll.tmux) => live[poll.tmux].prompt = poll.prompt
                                  \/ live[poll.tmux].prompt.id > poll.prompt.id
       /\ \A t \in Tmux : Prompting(t) /\ live[t].prompt.id = poll.prompt.id => t = poll.tmux
  /\ \A k \in keyed : k[2].kind \in Reads \ Sensitive \/ k[2].id > k[1].id

(* While no role has changed hands, what has been announced and is still   *)
(* shown is marked in the episode of the role whose pane shows it.         *)
ToldInv ==
  ~swapped =>
    /\ ~retold
    /\ poll.at = "approve" => poll.prompt.id \notin told
    /\ \A t \in Tmux : Prompting(t) /\ live[t].prompt.id \in told =>
         \E r \in Roles : Attached(r) /\ slot[r].tmux = t /\ episode[r] = live[t].prompt.kind

LEMMA PromptFacts ==
  ASSUME RolesAssumption, Types
  PROVE  /\ \A t \in Tmux : Prompting(t) => live[t].prompt \in Prompt /\ live[t].prompt.id \in 1..MaxAsked
         /\ poll.at = "approve" => poll.tmux \in Tmux /\ poll.prompt \in Prompt /\ poll.prompt.id \in 1..MaxAsked
         /\ asked \in Nat /\ told \subseteq Nat
<1>1. \A t \in Tmux : Prompting(t) => live[t].prompt \in Prompt
  BY DEF Types, WorldTypes, Prompting, Session
<1>2. poll.at = "approve" => poll.tmux \in Tmux /\ poll.prompt \in Prompt
  BY DEF Types, PollTypes, Rest
<1>3. \A p \in Prompt : p.id \in 1..MaxAsked
  BY DEF Prompt
<1> QED BY <1>1, <1>2, <1>3 DEF Types, WorldTypes, PollTypes, RolesAssumption

KeepsPrompts ==
  asked' = asked /\ \A t \in Tmux : Prompting(t)' => Prompting(t) /\ live'[t].prompt = live[t].prompt

(* A step that shows a prompt is the one in which a session asks. *)
LEMMA PromptsComeFromSessions ==
  ASSUME RolesAssumption, Types, CountInv, [Next]_vars
  PROVE  KeepsPrompts \/ \E t \in Tmux, k \in Kinds : Asks(t, k)
<1>0. /\ live \in [Tmux -> Session \cup {None}]
      /\ \A d \in Dirs : Shell(d).prompt = None /\ \A s \in Uuids : Claude(d, s).prompt = None
  BY DEF Types, WorldTypes, Claude, Shell
<1>1. CASE \E t \in Names, d \in Dirs : Starts(t, d)
  BY <1>0, <1>1 DEF Starts, Appears, OnlyWorld, Tmux, KeepsPrompts, Prompting, Fresh
<1>2. CASE \E t \in Tmux : Restarts(t)
  BY <1>0, <1>2 DEF Restarts, Appears, OnlyWorld, KeepsPrompts, Prompting, Fresh, Session
<1>3. CASE \E t \in Tmux : Quits(t) \/ Dies(t) \/ Answered(t)
  <2> PICK t \in Tmux : Quits(t) \/ Dies(t) \/ Answered(t)
    BY <1>3
  <2>1. live[t] # None => live[t].cwd \in Dirs
    BY <1>0 DEF Session
  <2>2. asked' = asked /\ \A u \in Tmux : u # t => live'[u] = live[u]
    BY <1>0 DEF Quits, Dies, Answered, OnlyWorld
  <2>3. live'[t] # None => live'[t].prompt = None
    <3>1. CASE Quits(t)
      BY <1>0, <2>1, <3>1 DEF Quits
    <3>2. CASE Dies(t)
      BY <1>0, <3>2 DEF Dies
    <3>3. CASE Answered(t)
      BY <1>0, <3>3 DEF Answered, Session
    <3> QED BY <3>1, <3>2, <3>3
  <2> QED BY <2>2, <2>3 DEF KeepsPrompts, Prompting
<1>4. CASE \E r \in Roles : Create(r)
  <2> PICK r \in Roles : Create(r)
    BY <1>4
  <2> DEFINE t == <<r, NextNumber(r)>>
  <2>1. \/ live' = live
        \/ \E s \in Uuids : live' = [live EXCEPT ![t] = Claude(Home, s)]
                            \/ live' = [live EXCEPT ![t] = Shell(Home)]
    BY DEF Create, Fresh
  <2>2. Home \in Dirs /\ asked' = asked
    BY DEF RolesAssumption, Create
  <2>3. \A u \in Tmux : live'[u] = live[u] \/ live'[u].prompt = None
    BY <1>0, <2>1, <2>2
  <2> QED BY <2>2, <2>3 DEF KeepsPrompts, Prompting
<1>5. CASE \E a \in Activators : Launch(a)
  <2> PICK a \in Activators : Launch(a)
    BY <1>5
  <2>1. act[a].rec \in Record
    BY DEF Launch, Types, ScreenTypes, Rest
  <2>2. act[a].rec.cwd \in Dirs /\ act[a].rec.sess \in Uuids
    BY <2>1 DEF Record
  <2>3. asked' = asked /\ \A u \in Tmux : live'[u] = live[u] \/ live'[u].prompt = None
    BY <1>0, <2>2 DEF Launch
  <2> QED BY <2>3 DEF KeepsPrompts, Prompting
<1>6. CASE Approve
  <2>1. asked' = asked /\ poll.tmux \in Tmux
    BY <1>6, PromptFacts DEF Approve
  <2>2. \A u \in Tmux : live'[u] = live[u] \/ live'[u].prompt = None
    BY <1>0, <1>6, <2>1 DEF Approve, Session
  <2> QED BY <2>1, <2>2 DEF KeepsPrompts, Prompting
<1>7. CASE live' = live /\ asked' = asked
  BY <1>7 DEF KeepsPrompts, Prompting
<1>8. Screens /\ ~(\E r \in Roles : Create(r)) => live' = live /\ asked' = asked
  BY DEF Screens, RemoveRole, PickSession, CreateEnds, Identified, DoAttach, Close, world
<1>9. Activations /\ ~(\E a \in Activators : Launch(a)) => live' = live /\ asked' = asked
  BY DEF Activations, Activate, Activated, LaunchRaises, Awaited, world
<1>10. Poller /\ ~Approve => live' = live /\ asked' = asked
  BY DEF Poller, Quiet, Escalate, Judge, world
<1> QED BY <1>1, <1>2, <1>3, <1>4, <1>5, <1>6, <1>7, <1>8, <1>9, <1>10, VarsFrame DEF Next, Users

LEMMA PromptsAsked ==
  ASSUME RolesAssumption, Types, NEW t \in Tmux, NEW k \in Kinds, Asks(t, k)
  PROVE  /\ asked' = asked + 1 /\ live'[t].prompt.id = asked + 1
         /\ \A u \in Tmux : u # t => live'[u] = live[u]
         /\ UNCHANGED <<slot, poll, episode, keyed, told, retold, swapped>>
<1>1. t \in DOMAIN live /\ live[t] \in Session
  BY DEF Types, WorldTypes, Asks
<1> QED BY <1>1 DEF Asks, file, prompts, Session

LEMMA PromptsKept ==
  ASSUME RolesAssumption, Types, CountInv, PromptInv, [Next]_vars
  PROVE  PromptInv'
<1>0. /\ \A t \in Tmux : Prompting(t) => live[t].prompt \in Prompt /\ live[t].prompt.id \in 1..MaxAsked
      /\ poll.at = "approve" => poll.tmux \in Tmux /\ poll.prompt \in Prompt /\ poll.prompt.id \in 1..MaxAsked
      /\ asked \in Nat /\ told \subseteq Nat
  BY PromptFacts
<1>1. CASE \E t \in Tmux, k \in Kinds : Asks(t, k)
  <2> PICK t \in Tmux, k \in Kinds : Asks(t, k)
    BY <1>1
  <2>1. /\ asked' = asked + 1 /\ live'[t].prompt.id = asked + 1
        /\ \A u \in Tmux : u # t => live'[u] = live[u]
        /\ UNCHANGED <<poll, keyed, told>>
    BY PromptsAsked
  <2>2. \A u \in Tmux : u # t => (Prompting(u)' <=> Prompting(u)) /\ live'[u] = live[u]
    BY <2>1 DEF Prompting
  <2>3. \A u \in Tmux : Prompting(u)' => live'[u].prompt.id <= asked'
    BY <1>0, <2>1, <2>2 DEF PromptInv
  <2>4. \A u \in Tmux : u # t /\ Prompting(u)' => live'[u].prompt.id # asked + 1
    BY <1>0, <2>2 DEF PromptInv
  <2>5. \A u, v \in Tmux : Prompting(u)' /\ Prompting(v)' /\ live'[u].prompt.id = live'[v].prompt.id => u = v
    BY <2>1, <2>2, <2>4 DEF PromptInv
  <2>6. \A i \in told' : i <= asked'
    <3>1. \A i \in told : i \in Nat /\ i <= asked
      BY <1>0 DEF PromptInv
    <3> QED BY <1>0, <2>1, <3>1
  <2>7. \A n : n \in Nat /\ n <= asked => n <= asked' /\ n # asked + 1 /\ asked + 1 > n
    BY <1>0, <2>1
  <2>8. poll.at = "approve" =>
          /\ poll.prompt.kind \in Reads \ Sensitive /\ poll.prompt.id <= asked'
          /\ Prompting(poll.tmux)' => live'[poll.tmux].prompt = poll.prompt
                                     \/ live'[poll.tmux].prompt.id > poll.prompt.id
          /\ \A u \in Tmux : Prompting(u)' /\ live'[u].prompt.id = poll.prompt.id => u = poll.tmux
    <3> SUFFICES ASSUME poll.at = "approve"
                 PROVE  /\ poll.prompt.id <= asked'
                        /\ Prompting(poll.tmux)' => live'[poll.tmux].prompt = poll.prompt
                                                   \/ live'[poll.tmux].prompt.id > poll.prompt.id
                        /\ \A u \in Tmux : Prompting(u)' /\ live'[u].prompt.id = poll.prompt.id
                                            => u = poll.tmux
      BY DEF PromptInv
    <3>1. poll.prompt.id \in Nat /\ poll.prompt.id <= asked /\ poll.tmux \in Tmux
      BY <1>0 DEF PromptInv
    <3>2. CASE poll.tmux = t
      BY <2>1, <2>2, <2>7, <3>1, <3>2 DEF PromptInv
    <3>3. CASE poll.tmux # t
      BY <2>1, <2>2, <2>7, <3>1, <3>3 DEF PromptInv
    <3> QED BY <3>2, <3>3
  <2> QED BY <2>1, <2>3, <2>5, <2>6, <2>8 DEF PromptInv
<1>2. CASE KeepsPrompts /\ UNCHANGED <<poll, keyed, told>>
  BY <1>0, <1>2 DEF PromptInv, KeepsPrompts
<1>3. CASE \E r \in Roles : Quiet(r)
  BY <1>3 DEF Quiet, PromptInv, Prompting, world
<1>4. CASE \E r \in Roles : Escalate(r)
  <2> PICK r \in Roles : Escalate(r)
    BY <1>4
  <2>1. /\ Shown(r) # None /\ UNCHANGED <<poll, keyed, live, asked>>
        /\ told' = told \cup {Shown(r).id}
    BY DEF Escalate, Announce, world
  <2>2. slot[r].tmux \in Tmux /\ Prompting(slot[r].tmux) /\ live[slot[r].tmux].prompt = Shown(r)
    BY <2>1, ShownIsPrompt DEF Prompting, RolesAssumption
  <2>3. Shown(r).id <= asked
    BY <2>2 DEF PromptInv
  <2> QED BY <2>1, <2>3 DEF PromptInv, Prompting
<1>5. CASE \E r \in Roles : Judge(r)
  <2> PICK r \in Roles : Judge(r)
    BY <1>5
  <2>1. /\ Shown(r) # None /\ Safe(Shown(r)) /\ UNCHANGED <<keyed, live, asked, told>>
        /\ poll' = [at |-> "approve", tmux |-> slot[r].tmux, prompt |-> Shown(r)]
    BY DEF Judge, world
  <2>2. slot[r].tmux \in Tmux /\ Prompting(slot[r].tmux) /\ live[slot[r].tmux].prompt = Shown(r)
    BY <2>1, ShownIsPrompt DEF Prompting, RolesAssumption
  <2>3. poll'.tmux = slot[r].tmux /\ poll'.prompt = Shown(r)
    BY <2>1
  <2> QED BY <2>1, <2>2, <2>3 DEF PromptInv, Prompting, Safe
<1>6. CASE Approve
  <2>1. KeepsPrompts
    <3>1. asked' = asked
      BY <1>6 DEF Approve
    <3>2. \A t \in Tmux, k \in Kinds : ~Asks(t, k)
      BY <1>0, <3>1 DEF Asks
    <3> QED BY <3>2, PromptsComeFromSessions
  <2>2. poll' = Rest /\ told' = told \cup {poll.prompt.id} /\ poll.at = "approve"
    BY <1>6 DEF Approve, Announce
  <2>3. \/ keyed' = keyed
        \/ /\ Prompting(poll.tmux)
           /\ keyed' = keyed \cup {<<poll.prompt, live[poll.tmux].prompt>>}
    BY <1>6 DEF Approve, Prompting
  <2>4. \A k \in keyed' : k[2].kind \in Reads \ Sensitive \/ k[2].id > k[1].id
    BY <2>2, <2>3 DEF PromptInv
  <2> QED BY <1>0, <2>1, <2>2, <2>4 DEF PromptInv, KeepsPrompts, Rest
<1> QED BY <1>1, <1>2, <1>3, <1>4, <1>5, <1>6, PromptsComeFromSessions, UsersFrame, ScreensFrame,
           ActivationsFrame, VarsFrame DEF Next, Poller

LEMMA ToldKept ==
  ASSUME RolesAssumption, Types, CountInv, SlotInv, PromptInv, ToldInv, [Next]_vars
  PROVE  ToldInv'
<1>0. /\ \A t \in Tmux : Prompting(t) => live[t].prompt \in Prompt /\ live[t].prompt.id \in 1..MaxAsked
      /\ poll.at = "approve" => poll.tmux \in Tmux /\ poll.prompt \in Prompt /\ poll.prompt.id \in 1..MaxAsked
      /\ asked \in Nat /\ told \subseteq Nat
      /\ \A i \in told : i <= asked
      /\ episode \in [Roles -> Kinds \cup {None}] /\ swapped \in BOOLEAN /\ retold \in BOOLEAN
  BY PromptFacts DEF PromptInv, Types, FileTypes, PollTypes
<1> SUFFICES ASSUME ~swapped' PROVE ToldInv'
  BY DEF ToldInv
<1>1. CASE \E t \in Tmux, k \in Kinds : Asks(t, k)
  <2> PICK t \in Tmux, k \in Kinds : Asks(t, k)
    BY <1>1
  <2>1. /\ live'[t].prompt.id = asked + 1
        /\ \A u \in Tmux : u # t => live'[u] = live[u]
        /\ UNCHANGED <<slot, poll, episode, told, retold, swapped>>
    BY PromptsAsked
  <2>2. \A u \in Tmux : u # t => (Prompting(u)' <=> Prompting(u))
    BY <2>1 DEF Prompting
  <2>3. live'[t].prompt.id \notin told
    BY <1>0, <2>1
  <2> QED BY <2>1, <2>2, <2>3 DEF ToldInv, Attached
<1>2. CASE KeepsPrompts /\ UNCHANGED <<slot, poll, episode, told, retold, swapped>>
  BY <1>2 DEF KeepsPrompts, ToldInv, Attached
<1>3. CASE Screens
  <2>1. KeepsPrompts /\ UNCHANGED <<poll, episode, told, retold>>
    <3>1. \A t \in Tmux, k \in Kinds : ~Asks(t, k)
      BY <1>0, <1>3, ScreensFrame DEF Asks
    <3> QED BY <1>3, <3>1, ScreensFrame, PromptsComeFromSessions
  <2>2. ~swapped /\ \A r \in Roles : Attached(r) => slot'[r] = slot[r] /\ slot'[r] # None
    <3>1. CASE \E r \in Roles, rec \in Record : Attaches(r, rec)
      BY <1>0, <3>1, AttachSets DEF Attaches, Types, Attached
    <3>2. CASE UNCHANGED <<slot, swapped>>
      BY <3>2 DEF Attached
    <3>3. CASE \E r \in Roles : RemoveRole(r)
      BY <3>3 DEF RemoveRole
    <3> QED BY <3>1, <3>2, <3>3, StepsOfTheFile DEF Create, PickSession, Identified, file
  <2> QED BY <2>1, <2>2 DEF KeepsPrompts, ToldInv, Attached
<1>4. CASE \E r \in Roles : Quiet(r)
  <2> PICK r \in Roles : Quiet(r)
    BY <1>4
  <2>1. /\ UNCHANGED <<slot, live, poll, told, retold, swapped>> /\ Shown(r) = None
        /\ \A o \in Roles \ {r} : episode'[o] = episode[o]
    BY <1>0 DEF Quiet, file, world
  <2>2. \A t \in Tmux : Prompting(t) /\ Attached(r) /\ slot[r].tmux = t => FALSE
    BY <2>1 DEF Shown, Prompting
  <2> QED BY <2>1, <2>2 DEF ToldInv, Attached, Prompting
<1>5. ASSUME NEW r \in Roles, Shown(r) # None, episode[r] # Shown(r).kind, ~swapped
      PROVE  /\ Shown(r).id \notin told /\ Attached(r)
             /\ slot[r].tmux \in Tmux /\ Prompting(slot[r].tmux) /\ live[slot[r].tmux].prompt = Shown(r)
             /\ Shown(r).kind \in Kinds
  <2>1. /\ Attached(r) /\ Prompting(slot[r].tmux)
        /\ slot[r].tmux \in Tmux /\ live[slot[r].tmux].prompt = Shown(r) /\ Shown(r).kind \in Kinds
    BY <1>5, ShownIsPrompt DEF Prompting, RolesAssumption
  <2>2. ASSUME Shown(r).id \in told
        PROVE  FALSE
    <3> PICK o \in Roles : Attached(o) /\ slot[o].tmux = slot[r].tmux /\ episode[o] = Shown(r).kind
      BY <1>5, <2>1, <2>2 DEF ToldInv
    <3> QED BY <1>5, <2>1 DEF SlotInv
  <2> QED BY <2>1, <2>2
<1>6. ASSUME NEW r \in Roles, Shown(r) # None, episode[r] # Shown(r).kind,
             episode' = [episode EXCEPT ![r] = Shown(r).kind],
             told' \subseteq told \cup {Shown(r).id}, UNCHANGED <<slot, live, swapped>>
      PROVE  \A t \in Tmux : Prompting(t)' /\ live'[t].prompt.id \in told' =>
               \E o \in Roles : Attached(o)' /\ slot'[o].tmux = t /\ episode'[o] = live'[t].prompt.kind
  <2>0. /\ Attached(r)
        /\ slot[r].tmux \in Tmux /\ Prompting(slot[r].tmux) /\ live[slot[r].tmux].prompt = Shown(r)
    BY <1>5, <1>6
  <2>1. episode'[r] = Shown(r).kind /\ \A o \in Roles \ {r} : episode'[o] = episode[o]
    BY <1>0, <1>6
  <2> SUFFICES ASSUME NEW t \in Tmux, Prompting(t), live[t].prompt.id \in told \cup {Shown(r).id}
               PROVE  \E o \in Roles : Attached(o) /\ slot[o].tmux = t /\ episode'[o] = live[t].prompt.kind
    BY <1>6 DEF Prompting, Attached
  <2>2. CASE t = slot[r].tmux
    BY <2>0, <2>1, <2>2
  <2>3. CASE t # slot[r].tmux
    <3>1. live[t].prompt.id \in told
      BY <2>0, <2>3 DEF PromptInv
    <3> PICK o \in Roles : Attached(o) /\ slot[o].tmux = t /\ episode[o] = live[t].prompt.kind
      BY <1>6, <3>1 DEF ToldInv
    <3> QED BY <2>1, <2>3
  <2> QED BY <2>2, <2>3
<1>7. CASE \E r \in Roles : Escalate(r)
  <2> PICK r \in Roles : Escalate(r)
    BY <1>7
  <2>1. /\ UNCHANGED <<slot, live, poll, swapped>> /\ poll = Rest
        /\ Shown(r) # None /\ episode[r] # Shown(r).kind
        /\ episode' = [episode EXCEPT ![r] = Shown(r).kind]
        /\ told' = told \cup {Shown(r).id} /\ retold' = (retold \/ Shown(r).id \in told)
    BY DEF Escalate, Announce, file, world
  <2>2. ~retold'
    BY <1>5, <2>1 DEF ToldInv
  <2>3. ~(poll'.at = "approve")
    BY <2>1 DEF Rest
  <2> QED BY <1>6, <2>1, <2>2, <2>3 DEF ToldInv
<1>8. CASE \E r \in Roles : Judge(r)
  <2> PICK r \in Roles : Judge(r)
    BY <1>8
  <2>1. /\ UNCHANGED <<slot, live, told, retold, swapped>>
        /\ Shown(r) # None /\ episode[r] # Shown(r).kind
        /\ episode' = [episode EXCEPT ![r] = Shown(r).kind]
        /\ poll' = [at |-> "approve", tmux |-> slot[r].tmux, prompt |-> Shown(r)]
    BY DEF Judge, file, world
  <2>2. ~retold' /\ poll'.prompt.id \notin told'
    BY <1>5, <2>1 DEF ToldInv
  <2> QED BY <1>6, <2>1, <2>2 DEF ToldInv
<1>9. CASE Approve
  <2>1. /\ UNCHANGED <<slot, swapped, episode>> /\ poll.at = "approve" /\ poll' = Rest
        /\ told' = told \cup {poll.prompt.id} /\ retold' = (retold \/ poll.prompt.id \in told)
        /\ live'[poll.tmux] = None \/ live'[poll.tmux].prompt = None
    <3>1. live \in [Tmux -> Session \cup {None}] /\ poll.tmux \in Tmux
      BY <1>0, <1>9 DEF Approve, Types, WorldTypes
    <3>2. live'[poll.tmux] = None \/ live'[poll.tmux].prompt = None
      BY <1>9, <3>1 DEF Approve, Session
    <3> QED BY <1>9, <3>2 DEF Approve, Announce, file
  <2>2. KeepsPrompts
    <3>1. \A t \in Tmux, k \in Kinds : ~Asks(t, k)
      BY <1>0, <1>9 DEF Approve, Asks
    <3> QED BY <3>1, PromptsComeFromSessions
  <2>3. ~retold' /\ ~(poll'.at = "approve")
    BY <2>1 DEF ToldInv, Rest
  <2>4. \A t \in Tmux : Prompting(t)' /\ live'[t].prompt.id \in told' =>
          Prompting(t) /\ live'[t].prompt = live[t].prompt /\ live[t].prompt.id \in told
    <3>1. \A t \in Tmux : Prompting(t) /\ live[t].prompt.id = poll.prompt.id => t = poll.tmux
      BY <2>1 DEF PromptInv
    <3> QED BY <2>1, <2>2, <3>1 DEF KeepsPrompts, Prompting
  <2> QED BY <2>1, <2>3, <2>4 DEF ToldInv, Attached
<1>10. Users => KeepsPrompts \/ \E t \in Tmux, k \in Kinds : Asks(t, k)
  BY PromptsComeFromSessions
<1>11. Activations \/ UNCHANGED vars => KeepsPrompts
  <2>1. (Activations \/ UNCHANGED vars) => asked' = asked
    BY ActivationsFrame, VarsFrame
  <2>2. \A t \in Tmux, k \in Kinds : Asks(t, k) => asked' # asked
    BY <1>0 DEF Asks
  <2> QED BY <2>1, <2>2, PromptsComeFromSessions
<1> QED BY <1>1, <1>2, <1>3, <1>4, <1>7, <1>8, <1>9, <1>10, <1>11, UsersFrame, ActivationsFrame, VarsFrame
        DEF Next, Poller

-----------------------------------------------------------------------------
(* The theorems *)

LEMMA RolesStart ==
  ASSUME RolesAssumption, Init
  PROVE  SlotInv /\ NumberInv /\ HomeInv /\ PromptInv /\ ToldInv
<1>1. SlotInv /\ NumberInv
  BY DEF Init, SlotInv, NumberInv, Attached, Closed, Create1
<1>2. HomeInv
  BY DEF Init, HomeInv, Holds, Attached, Closed, Create1, Name1
<1>3. PromptInv /\ ToldInv
  BY DEF Init, PromptInv, ToldInv, Prompting, Rest
<1> QED BY <1>1, <1>2, <1>3

(* Every record, session, prompt and transcript of the two roles is one.   *)
THEOREM RolesAreTyped == Spec => []TypeOK
<1>1. Init => Types /\ CountInv
  BY RolesAssumption, TypesStart
<1>2. Types /\ CountInv /\ [Next]_vars => (Types /\ CountInv)'
  BY RolesAssumption, TypesKept, CountKept
<1>3. Types => TypeOK
  BY DEF Types, FileTypes, WorldTypes, PollTypes, TypeOK
<1> QED BY <1>1, <1>2, <1>3, PTL DEF Spec

(* Where the names typed over the suggestion are words, not numbers: one   *)
(* session never serves as both roles, a numbered name is never given to a *)
(* second session, and a Claude session is never live twice, whatever is   *)
(* created, attached, swapped and activated at once.                       *)
THEOREM RolesAreOnes ==
  ASSUME Typed \subseteq {0}
  PROVE  Spec => []OneOfEach
<1> DEFINE Inv == Types /\ CountInv /\ SlotInv /\ NumberInv /\ HomeInv
<1>1. Init => Inv
  BY RolesAssumption, TypesStart, RolesStart
<1>2. Inv /\ [Next]_vars => Inv'
  BY RolesAssumption, TypesKept, CountKept, SlotKept, NumberKept, HomeKept
<1>3. Inv => OneOfEach
  <2> SUFFICES ASSUME Inv PROVE OneOfEach
    OBVIOUS
  <2>1. ASSUME NEW t \in Tmux, NEW u \in Tmux, live[t] # None, live[u] # None,
               live[t].sess = live[u].sess, live[t].sess # None
        PROVE  t = u
    <3>1. live[t].sess \in Uuids
      BY <2>1 DEF Types, WorldTypes, Session
    <3> QED BY <2>1, <3>1 DEF HomeInv, Holds
  <2> QED BY <2>1 DEF OneOfEach, SlotInv, NumberInv
<1> QED BY <1>1, <1>2, <1>3, PTL DEF Spec

(* A key reaches a prompt that was judged safe, or one that came up after  *)
(* the one that was; and no prompt is announced twice while no role has    *)
(* lost or changed its session.                                            *)
THEOREM PromptsAreHandled == Spec => []PromptsHandled
<1> DEFINE Inv == Types /\ CountInv /\ SlotInv /\ PromptInv /\ ToldInv
<1>1. Init => Inv
  BY RolesAssumption, TypesStart, RolesStart
<1>2. Inv /\ [Next]_vars => Inv'
  BY RolesAssumption, TypesKept, CountKept, SlotKept, PromptsKept, ToldKept
<1>3. Inv => PromptsHandled
  BY DEF PromptInv, ToldInv, PromptsHandled
<1> QED BY <1>1, <1>2, <1>3, PTL DEF Spec
=============================================================================
