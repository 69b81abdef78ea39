------------------------- MODULE TeamRegistryProofs --------------------------
(***************************************************************************)
(* Theorems about TeamRegistry, for any teams, sessions, screens and tool  *)
(* calls: TypeOK; LeadIsMember, which the copies of teams.json that slow   *)
(* operations hold must satisfy as well as the file; OneToOne and          *)
(* ToldOnce, which rest on what names, directories and identities those    *)
(* copies, the launches and the resumptions under way may hold (TeamInv).  *)
(***************************************************************************)
EXTENDS TeamRegistry, TLAPS

(* What an actor may be in the middle of. *)
Relocating   == [op : {"relocate"}, team : Teams, name : Names, copy : Registry, at : Roots]
Capturing    == [op : {"capture"}, team : Teams, copy : Registry]
Verifying    == [op : {"verify"}, team : Teams, member : Member, copy : Registry]
Adopting     == [op : {"adopt"}, team : Teams, root : Roots, names : SUBSET Names,
                 careful : BOOLEAN]
Quicking     == [op : {"quick"}, root : Roots, name : Names]
Launching    == [op : {"fresh"}, team : Teams, root : Roots, todo : SUBSET Names,
                 got : SUBSET Member]
Reconnecting == [op : {"reconnect"}, team : Teams, root : Roots, todo : SUBSET Member]

Copying == Relocating \cup Capturing \cup Verifying

Busy == {Idle} \cup Copying \cup Adopting \cup Quicking \cup Launching \cup Reconnecting

Copies == {a \in Actors : busy[a] \in Copying}

(* A copy is of a file that had the team in it. *)
BusyOK == /\ busy \in [Actors -> Busy]
          /\ \A a \in Copies : busy[a].copy[busy[a].team] # None

Types == TypeOK /\ BusyOK

(* Every lead of a registry is a member of its team. *)
Led(reg) == \A t \in Registered(reg) : reg[t].lead \in Sessions(reg[t]) \cup {None}

LeadInv == ~refreshed => Led(file) /\ \A a \in Copies : Led(busy[a].copy)

-----------------------------------------------------------------------------
(* What an operation is, its name tells. *)

LEMMA Ops ==
  ASSUME NEW b \in Busy
  PROVE  /\ b.op = "relocate" => b \in Relocating
         /\ b.op = "capture" => b \in Capturing
         /\ b.op = "verify" => b \in Verifying
         /\ b.op = "adopt" => b \in Adopting
         /\ b.op = "quick" => b \in Quicking
         /\ b.op = "fresh" => b \in Launching
         /\ b.op = "reconnect" => b \in Reconnecting
         /\ b \in Copying <=> b.op \in {"relocate", "capture", "verify"}
BY DEF Busy, Copying, Idle, Relocating, Capturing, Verifying, Adopting, Quicking,
       Launching, Reconnecting

-----------------------------------------------------------------------------
(* What the edits make of a registry. *)

LEMMA LeadSet ==
  ASSUME NEW reg \in Registry, NEW t \in Registered(reg), NEW s \in Sessions(reg[t])
  PROVE  /\ [reg EXCEPT ![t].lead = s] \in Registry
         /\ Led(reg) => Led([reg EXCEPT ![t].lead = s])
<1>1. reg[t] \in Entry /\ t \in Teams
  BY DEF Registered, Registry
<1>2. s \in Uuids \cup {None}
  BY <1>1 DEF Sessions, Entry, Member
<1>3. [reg[t] EXCEPT !.lead = s] \in Entry
  BY <1>1, <1>2 DEF Entry
<1> QED BY <1>1, <1>2, <1>3 DEF Registry, Registered, Led, Sessions, Entry

LEMMA MemberRemoved ==
  ASSUME NEW reg \in Registry, NEW t \in Registered(reg), NEW s, reg[t].lead # s
  PROVE  /\ [reg EXCEPT ![t].members = {m \in @ : m.sess # s}] \in Registry
         /\ Led(reg) => Led([reg EXCEPT ![t].members = {m \in @ : m.sess # s}])
<1>1. reg[t] \in Entry /\ t \in Teams
  BY DEF Registered, Registry
<1> DEFINE e == [reg[t] EXCEPT !.members = {m \in @ : m.sess # s}]
<1>2. e \in Entry
  BY <1>1 DEF Entry
<1>3. e.lead = reg[t].lead /\ e.members = {m \in reg[t].members : m.sess # s}
  BY <1>1 DEF Entry
<1>4. reg[t].lead \in Sessions(reg[t]) \cup {None} => e.lead \in Sessions(e) \cup {None}
  BY <1>3 DEF Sessions
<1> HIDE DEF e
<1>5. [reg EXCEPT ![t] = e] \in Registry /\ (Led(reg) => Led([reg EXCEPT ![t] = e]))
  BY <1>1, <1>2, <1>4 DEF Registry, Registered, Led
<1>6. [reg EXCEPT ![t].members = {m \in @ : m.sess # s}] = [reg EXCEPT ![t] = e]
  BY DEF e
<1> QED BY <1>5, <1>6

(* Replacing one entry by another whose lead is a member. *)
LEMMA EntryReplaced ==
  ASSUME NEW reg \in Registry, NEW t, NEW e \in Entry
  PROVE  /\ [reg EXCEPT ![t] = e] \in Registry
         /\ Led(reg) /\ e.lead \in Sessions(e) \cup {None} => Led([reg EXCEPT ![t] = e])
BY DEF Registry, Registered, Led

LEMMA Registering ==
  ASSUME file \in Registry, NEW t, NEW r \in Roots, NEW ms \in SUBSET Member, NEW m \in ms,
         Register(t, r, ms, m.sess)
  PROVE  file' \in Registry /\ (Led(file) => Led(file'))
<1> DEFINE e == [root |-> r, members |-> ms, lead |-> m.sess, ctx |-> FALSE]
<1>1. e \in Entry /\ e.lead \in Sessions(e)
  BY DEF Entry, Member, Sessions
<1>2. file' = file \/ file' = [file EXCEPT ![t] = e]
  BY DEF Register, Entered
<1> HIDE DEF e
<1> QED BY <1>1, <1>2, EntryReplaced

-----------------------------------------------------------------------------
(* The steps, as they change the file, the copies and the rest. *)

LEMMA MovesKeep ==
  ASSUME Types, LeadInv, Moves
  PROVE  Types' /\ LeadInv'
<1>1. /\ file' = file /\ busy' = busy /\ ops' = ops
      /\ told' \subseteq told /\ relocated' = relocated /\ refreshed' = refreshed
      /\ overtaken' = overtaken /\ retold' = retold
  BY DEF Moves, Starts, Dies, Quits, Restarts, Strays, marks, Elsewhere, Untold
<1>2. /\ live' \in [Names -> Session \cup {None}]
      /\ written' \subseteq Roots \X Uuids /\ known' \subseteq Uuids
      /\ strayed' \in BOOLEAN /\ moves' \in Nat
  <2> USE RegistryAssumption DEF Types, TypeOK, Goes, Session
  <2>1. ASSUME NEW n \in Names, NEW r \in Roots, Starts(n, r) PROVE <1>2
    BY <2>1 DEF Starts, Appears, Fresh
  <2>2. ASSUME NEW n \in Names, Dies(n) \/ Quits(n) PROVE <1>2
    BY <2>2 DEF Dies, Quits
  <2>3. ASSUME NEW n \in Names, Restarts(n) PROVE <1>2
    BY <2>3 DEF Restarts, Appears, Fresh
  <2>4. ASSUME NEW n \in Names, NEW m \in Names, NEW r \in Roots, Strays(n, m, r) PROVE <1>2
    BY <2>4 DEF Strays
  <2> QED BY <2>1, <2>2, <2>3, <2>4 DEF Moves
<1> QED BY <1>1, <1>2 DEF Types, TypeOK, BusyOK, LeadInv, Copies

LEMMA QuickKeeps ==
  ASSUME Types, LeadInv, NEW a \in Actors, Quick(a)
  PROVE  Types' /\ LeadInv'
<1>1. /\ busy' = busy /\ world' = world /\ ops' = ops + 1
      /\ told' \subseteq told /\ relocated' = relocated /\ refreshed' = refreshed
      /\ overtaken' = overtaken /\ retold' = retold
  BY DEF Quick, SetLead, RemoveMember, RemoveTeam, Now, marks, Untold
<1>2. file' \in Registry /\ (Led(file) => Led(file'))
  <2>1. ASSUME NEW t \in Teams, NEW s, SetLead(a, t, s) PROVE <1>2
    BY <2>1, LeadSet DEF SetLead, Types, TypeOK
  <2>2. ASSUME NEW t \in Teams, NEW s, RemoveMember(a, t, s) PROVE <1>2
    BY <2>2, MemberRemoved DEF RemoveMember, Types, TypeOK
  <2>3. ASSUME NEW t \in Teams, RemoveTeam(a, t) PROVE <1>2
    BY <2>3 DEF RemoveTeam, Types, TypeOK, Registry, Led, Registered
  <2> QED BY <2>1, <2>2, <2>3 DEF Quick
<1> QED BY <1>1, <1>2 DEF Types, TypeOK, BusyOK, LeadInv, Copies, world

(* What an actor takes up: something well typed, and of a copy, the file. *)
LEMMA Begins ==
  ASSUME Types, LeadInv, NEW a \in Actors, NEW b \in Busy, Begin(a, b),
         file' = file, world' = world, marks' = marks,
         b \in Copying => b.copy = file /\ file[b.team] # None
  PROVE  Types' /\ LeadInv'
<1>1. busy' = [busy EXCEPT ![a] = b] /\ ops' = ops + 1
  BY DEF Begin
<1>2. BusyOK'
  BY <1>1 DEF Types, BusyOK, Copies
<1>3. LeadInv'
  BY <1>1 DEF Types, BusyOK, LeadInv, Copies, marks
<1> QED BY <1>1, <1>2, <1>3 DEF Types, TypeOK, world, marks

(* What an actor goes on to: nothing that holds a copy. *)
LEMMA GoesOn ==
  ASSUME Types, LeadInv, NEW a \in Actors, NEW b \in Busy, b \notin Copying, Goto(a, b),
         file' \in Registry, ~refreshed' => ~refreshed /\ Led(file')
  PROVE  BusyOK' /\ LeadInv' /\ ops' = ops
<1>1. busy' = [busy EXCEPT ![a] = b] /\ ops' = ops
  BY DEF Goto
<1>2. BusyOK'
  BY <1>1 DEF Types, BusyOK, Copies
<1>3. LeadInv'
  BY <1>1 DEF Types, BusyOK, LeadInv, Copies
<1> QED BY <1>1, <1>2, <1>3

LEMMA IdleBusy == Idle \in Busy /\ Idle \notin Copying
BY DEF Busy, Copying, Idle, Relocating, Capturing, Verifying

LEMMA RelocateKeeps ==
  ASSUME Types, LeadInv, NEW a \in Actors, RelocateEnds(a)
  PROVE  Types' /\ LeadInv'
<1> DEFINE b == busy[a]
           t == b.team
           n == b.name
<1>1. b \in Relocating /\ a \in Copies /\ b.copy[t] # None
  BY Ops DEF RelocateEnds, Doing, Types, BusyOK, Copies
<1>2. /\ b.copy \in Registry /\ t \in Teams /\ n \in Names /\ b.at \in Roots
      /\ b.copy[t] \in Entry
  BY <1>1 DEF Relocating, Registry
<1>3. ASSUME NEW m \in b.copy[t].members
      PROVE  /\ Relocated(a, t, n, m) \in Entry
             /\ b.copy[t].lead \in Sessions(b.copy[t]) \cup {None} =>
                  Relocated(a, t, n, m).lead \in Sessions(Relocated(a, t, n, m)) \cup {None}
  <2> DEFINE k == [m EXCEPT !.tmux = n]
             ks == (b.copy[t].members \ {m}) \cup {k}
  <2>1. m \in Member /\ k \in Member /\ k.sess = m.sess
    BY <1>2 DEF Entry, Member
  <2>2. ks \in SUBSET Member
    BY <1>2, <2>1 DEF Entry
  <2> HIDE DEF k
  <2>3. /\ Relocated(a, t, n, m) \in Entry
        /\ Relocated(a, t, n, m).lead = b.copy[t].lead
        /\ Relocated(a, t, n, m).members = ks
    BY <1>2, <2>2 DEF Relocated, Entry, k
  <2>4. Sessions(Relocated(a, t, n, m)) = Sessions(b.copy[t])
    BY <2>1, <2>3 DEF Sessions
  <2> QED BY <2>3, <2>4
<1>4. file' = file \/ \E m \in b.copy[t].members :
                       file' = [b.copy EXCEPT ![t] = Relocated(a, t, n, m)]
  BY DEF RelocateEnds, SaveCopy
<1> HIDE DEF b
<1>5. file' \in Registry
  <2>1. CASE file' = file
    BY <2>1 DEF Types, TypeOK
  <2>2. ASSUME NEW m \in b.copy[t].members, file' = [b.copy EXCEPT ![t] = Relocated(a, t, n, m)]
        PROVE  file' \in Registry
    BY <1>2, <1>3, <2>2, EntryReplaced
  <2> QED BY <1>4, <2>1, <2>2
<1>6. ~refreshed => Led(file')
  <2> SUFFICES ASSUME ~refreshed PROVE Led(file')
    OBVIOUS
  <2>1. Led(file) /\ Led(b.copy)
    BY <1>1 DEF LeadInv, b
  <2>2. b.copy[t].lead \in Sessions(b.copy[t]) \cup {None}
    BY <1>1, <1>2, <2>1 DEF Led, Registered
  <2>3. ASSUME NEW m \in b.copy[t].members, file' = [b.copy EXCEPT ![t] = Relocated(a, t, n, m)]
        PROVE  Led(file')
    BY <1>2, <1>3, <2>1, <2>2, <2>3, EntryReplaced
  <2> QED BY <1>4, <2>1, <2>3
<1>7. /\ Goto(a, Idle) /\ refreshed' = refreshed /\ world' = world
      /\ relocated' \in {relocated, TRUE} /\ retold' = retold /\ told' = told
      /\ overtaken' = overtaken \/ overtaken' \in BOOLEAN
  BY DEF RelocateEnds, End, SaveCopy
<1>8. BusyOK' /\ LeadInv' /\ ops' = ops
  BY <1>5, <1>6, <1>7, IdleBusy, GoesOn
<1> QED BY <1>5, <1>7, <1>8 DEF Types, TypeOK, world

LEMMA CaptureKeeps ==
  ASSUME Types, LeadInv, NEW a \in Actors, CaptureEnds(a)
  PROVE  Types' /\ LeadInv'
<1> DEFINE b == busy[a]
           t == b.team
           e == [b.copy[t] EXCEPT !.ctx = TRUE]
<1>1. b \in Capturing /\ a \in Copies /\ b.copy[t] # None
  BY Ops DEF CaptureEnds, Doing, Types, BusyOK, Copies
<1>2. b.copy \in Registry /\ t \in Teams /\ b.copy[t] \in Entry
  BY <1>1 DEF Capturing, Registry
<1>3. e \in Entry /\ e.lead = b.copy[t].lead /\ Sessions(e) = Sessions(b.copy[t])
  BY <1>2 DEF Entry, Sessions
<1>4. file' = file \/ file' = [b.copy EXCEPT ![t] = e]
  BY DEF CaptureEnds, SaveCopy
<1> HIDE DEF e
<1> HIDE DEF b
<1>5. file' \in Registry
  <2>1. [b.copy EXCEPT ![t] = e] \in Registry
    BY <1>2, <1>3, EntryReplaced
  <2> QED BY <1>4, <2>1 DEF Types, TypeOK
<1>6. ~refreshed => Led(file')
  <2> SUFFICES ASSUME ~refreshed PROVE Led(file')
    OBVIOUS
  <2>1. Led(file) /\ Led(b.copy)
    BY <1>1 DEF LeadInv, b
  <2>2. e.lead \in Sessions(e) \cup {None}
    BY <1>1, <1>2, <1>3, <2>1 DEF Led, Registered
  <2>3. Led([b.copy EXCEPT ![t] = e])
    BY <1>2, <1>3, <2>1, <2>2, EntryReplaced
  <2> QED BY <1>4, <2>1, <2>3
<1>7. /\ Goto(a, Idle) /\ refreshed' = refreshed /\ world' = world
      /\ relocated' = relocated /\ retold' = retold /\ told' = told
      /\ overtaken' = overtaken \/ overtaken' \in BOOLEAN
  BY DEF CaptureEnds, End, SaveCopy
<1>8. BusyOK' /\ LeadInv' /\ ops' = ops
  BY <1>5, <1>6, <1>7, IdleBusy, GoesOn
<1> QED BY <1>5, <1>7, <1>8 DEF Types, TypeOK, world

LEMMA VerifyKeeps ==
  ASSUME Types, LeadInv, NEW a \in Actors, VerifyEnds(a)
  PROVE  Types' /\ LeadInv'
<1> DEFINE b == busy[a]
           t == b.team
           m == b.member
           now == live[m.tmux]
           ks == (b.copy[t].members \ {m}) \cup {[m EXCEPT !.sess = now.sess]}
           e == [b.copy[t] EXCEPT !.members = ks]
<1>1. b \in Verifying /\ a \in Copies /\ b.copy[t] # None
  BY Ops DEF VerifyEnds, Doing, Types, BusyOK, Copies
<1>2. /\ b.copy \in Registry /\ t \in Teams /\ b.copy[t] \in Entry /\ m \in Member
      /\ now \in Session \cup {None}
  BY <1>1 DEF Verifying, Registry, Member, Types, TypeOK
<1>3. \/ /\ file' = file /\ refreshed' = refreshed /\ overtaken' = overtaken
         /\ retold' = retold /\ told' = told
      \/ /\ now # None
         /\ file' = [b.copy EXCEPT ![t].members = ks]
         /\ refreshed' = TRUE
         /\ overtaken' = (overtaken \/ b.copy # file)
         /\ told' = told \cup {<<t, m.tmux>>}
         /\ retold' = (retold \/ <<t, m.tmux>> \in told)
  BY DEF VerifyEnds, SaveCopy
<1>4. file' \in Registry
  <2>1. CASE file' = file
    BY <2>1 DEF Types, TypeOK
  <2>2. CASE now # None /\ file' = [b.copy EXCEPT ![t].members = ks]
    <3>1. [m EXCEPT !.sess = now.sess] \in Member
      BY <1>2, <2>2 DEF Member, Session
    <3>2. ks \in SUBSET Member
      BY <1>2, <3>1 DEF Entry
    <3>3. e \in Entry
      BY <1>2, <3>2 DEF Entry
    <3>4. file' = [b.copy EXCEPT ![t] = e]
      BY <2>2
    <3> QED BY <1>2, <3>3, <3>4, EntryReplaced
  <2> QED BY <1>3, <2>1, <2>2
<1>5. ~refreshed' => ~refreshed /\ Led(file')
  BY <1>3 DEF LeadInv
<1>6. Goto(a, Idle) /\ world' = world /\ relocated' = relocated
  BY DEF VerifyEnds, End
<1>7. BusyOK' /\ LeadInv' /\ ops' = ops
  BY <1>4, <1>5, <1>6, IdleBusy, GoesOn
<1>8. refreshed' \in BOOLEAN /\ overtaken' \in BOOLEAN /\ retold' \in BOOLEAN
  BY <1>3 DEF Types, TypeOK
<1>9. told' \subseteq Teams \X Names
  <2>1. told' = told \/ told' = told \cup {<<t, m.tmux>>}
    BY <1>3
  <2>2. <<t, m.tmux>> \in Teams \X Names
    BY <1>2 DEF Member
  <2> HIDE DEF m, t
  <2> QED BY <2>1, <2>2 DEF Types, TypeOK
<1> QED BY <1>4, <1>6, <1>7, <1>8, <1>9 DEF Types, TypeOK, world

(* Adoption and creation: every way ends in Register or in nothing. *)
LEMMA EntersKeep ==
  ASSUME Types, LeadInv, NEW a \in Actors, AdoptEnds(a) \/ QuickEnds(a) \/ FreshEnds(a)
  PROVE  Types' /\ LeadInv'
<1>1. file' \in Registry /\ (Led(file) => Led(file'))
  <2>1. CASE AdoptEnds(a)
    <3> DEFINE ms == {[tmux |-> n, sess |-> Identity(n)] : n \in busy[a].names}
    <3>1. busy[a] \in Adopting
      BY <2>1, Ops DEF AdoptEnds, Doing, Types, BusyOK
    <3>2. \A n \in Names : Identity(n) \in Uuids \cup {None}
      BY DEF Identity, Types, TypeOK, Session
    <3>3. busy[a].root \in Roots /\ ms \in SUBSET Member
      BY <3>1, <3>2 DEF Adopting, Member
    <3>4. file' = file \/ \E m \in ms : Register(busy[a].team, busy[a].root, ms, m.sess)
      BY <2>1 DEF AdoptEnds
    <3> HIDE DEF ms
    <3> QED BY <3>3, <3>4, Registering DEF Types, TypeOK
  <2>2. CASE QuickEnds(a)
    <3> DEFINE m == [tmux |-> busy[a].name, sess |-> Identity(busy[a].name)]
    <3>1. busy[a] \in Quicking
      BY <2>2, Ops DEF QuickEnds, Doing, Types, BusyOK
    <3>2. busy[a].root \in Roots /\ m \in Member
      BY <3>1 DEF Quicking, Member, Identity, Types, TypeOK, Session
    <3>3. file' = file \/ \E t \in FreeSlugs : Register(t, busy[a].root, {m}, m.sess)
      BY <2>2 DEF QuickEnds
    <3> HIDE DEF m
    <3>4. {m} \in SUBSET Member /\ m \in {m}
      BY <3>2
    <3> QED BY <3>2, <3>3, <3>4, Registering DEF Types, TypeOK
  <2>3. CASE FreshEnds(a)
    <3>1. busy[a] \in Launching
      BY <2>3, Ops DEF FreshEnds, Doing, Types, BusyOK
    <3>2. busy[a].root \in Roots /\ busy[a].got \in SUBSET Member
      BY <3>1 DEF Launching
    <3>3. file' = file \/ \E m \in busy[a].got :
                             Register(busy[a].team, busy[a].root, busy[a].got, m.sess)
      BY <2>3 DEF FreshEnds
    <3> QED BY <3>2, <3>3, Registering DEF Types, TypeOK
  <2> QED BY <2>1, <2>2, <2>3
<1>2. Goto(a, Idle) /\ world' = world /\ marks' = marks
  BY DEF AdoptEnds, QuickEnds, FreshEnds, End
<1>3. BusyOK' /\ LeadInv' /\ ops' = ops
  BY <1>1, <1>2, IdleBusy, GoesOn DEF LeadInv, marks
<1> QED BY <1>1, <1>2, <1>3 DEF Types, TypeOK, world, marks

(* The steps that start sessions touch neither the file nor a copy. *)
LEMMA SessionsKeep ==
  ASSUME Types, LeadInv, NEW a \in Actors,
         \/ \E n \in Names : LaunchFresh(a, n)
         \/ \E m \in Member : Resume(a, m)
         \/ ReconnectEnds(a)
  PROVE  Types' /\ LeadInv'
<1>1. file' = file /\ marks' = marks
  BY DEF LaunchFresh, Resume, ReconnectEnds
<1>2. ASSUME NEW b \in Busy, b \notin Copying, Goto(a, b)
      PROVE  BusyOK' /\ LeadInv' /\ ops' = ops
  <2>1. file' \in Registry /\ (~refreshed' => ~refreshed /\ Led(file'))
    BY <1>1 DEF Types, TypeOK, LeadInv, marks
  <2> QED BY <1>2, <2>1, GoesOn
<1>3. ASSUME NEW n \in Names, LaunchFresh(a, n) PROVE Types' /\ LeadInv'
  <2> DEFINE rest == [busy[a] EXCEPT !.todo = @ \ {n}]
             r == busy[a].root
  <2>1. busy[a] \in Launching
    BY <1>3, Ops DEF LaunchFresh, Doing, Types, BusyOK
  <2>2. rest \in Launching /\ r \in Roots
    BY <2>1 DEF Launching
  <2>3. ASSUME NEW s \in Uuids
        PROVE  [rest EXCEPT !.got = @ \cup {[tmux |-> n, sess |-> s]}] \in Launching
    <3> HIDE DEF rest
    <3>1. [tmux |-> n, sess |-> s] \in Member
      BY DEF Member
    <3>2. rest.got \cup {[tmux |-> n, sess |-> s]} \in SUBSET Member
      BY <2>2, <3>1 DEF Launching
    <3> QED BY <2>2, <3>2 DEF Launching
  <2>4. \A b \in Launching : b \in Busy /\ b \notin Copying
    BY DEF Launching, Busy, Copying, Relocating, Capturing, Verifying
  <2>5. /\ live' \in [Names -> Session \cup {None}]
        /\ written' \subseteq Roots \X Uuids /\ known' \subseteq Uuids
        /\ moves' = moves /\ strayed' = strayed
    <3> HIDE DEF rest
    <3> USE <2>2 DEF Session, Types, TypeOK
    <3>1. CASE UNCHANGED <<live, known, written>>
      BY <1>3, <3>1 DEF LaunchFresh
    <3>2. ASSUME NEW s \in Fresh, Appears(n, r, s, FALSE) PROVE <2>5
      BY <1>3, <3>2 DEF LaunchFresh, Appears, Fresh
    <3>3. CASE /\ live' = [live EXCEPT ![n] = [cwd |-> r, sess |-> None]]
               /\ UNCHANGED <<known, written>>
      BY <1>3, <3>3 DEF LaunchFresh
    <3> QED BY <1>3, <3>1, <3>2, <3>3 DEF LaunchFresh
  <2>6. \E b \in Launching : Goto(a, b)
    <3> HIDE DEF rest
    <3>1. \/ Goto(a, rest)
          \/ \E s \in Fresh : Goto(a, [rest EXCEPT !.got = @ \cup {[tmux |-> n, sess |-> s]}])
      BY <1>3 DEF LaunchFresh, rest
    <3> QED BY <2>2, <2>3, <3>1 DEF Fresh
  <2>7. BusyOK' /\ LeadInv' /\ ops' = ops
    BY <1>2, <2>4, <2>6
  <2> QED BY <1>1, <2>5, <2>7 DEF Types, TypeOK, marks
<1>4. ASSUME NEW m \in Member, Resume(a, m) PROVE Types' /\ LeadInv'
  <2> DEFINE rest == [busy[a] EXCEPT !.todo = @ \ {m}]
  <2>1. busy[a] \in Reconnecting
    BY <1>4, Ops DEF Resume, Doing, Types, BusyOK
  <2>2. rest \in Reconnecting /\ busy[a].root \in Roots
    BY <2>1 DEF Reconnecting
  <2>3. rest \in Busy /\ rest \notin Copying
    BY <2>2 DEF Reconnecting, Busy, Copying, Relocating, Capturing, Verifying
  <2>4. /\ live' \in [Names -> Session \cup {None}]
        /\ written' = written /\ known' = known /\ moves' = moves /\ strayed' = strayed
    BY <1>4, <2>2 DEF Resume, Session, Member, Types, TypeOK
  <2>5. BusyOK' /\ LeadInv' /\ ops' = ops
    BY <1>2, <1>4, <2>3 DEF Resume
  <2> QED BY <1>1, <2>4, <2>5 DEF Types, TypeOK, marks
<1>5. CASE ReconnectEnds(a)
  <2>1. BusyOK' /\ LeadInv' /\ ops' = ops
    BY <1>2, <1>5, IdleBusy DEF ReconnectEnds, End
  <2> QED BY <1>1, <1>5, <2>1 DEF ReconnectEnds, Types, TypeOK, world, marks
<1> QED BY <1>3, <1>4, <1>5

-----------------------------------------------------------------------------
(* What OneToOne and ToldOnce rest on.  Directories and names are no two    *)
(* members' of any copy; an identity goes with one tmux name wherever it    *)
(* stands recorded, waits to be resumed, or is at work.                     *)

Orderly(reg) ==
  \A t \in Registered(reg) :
    /\ \A u \in Registered(reg) : reg[t].root = reg[u].root => t = u
    /\ \A m, k \in reg[t].members : m.tmux = k.tmux => m = k

OrderInv == ~relocated => Orderly(file) /\ \A a \in Copies : Orderly(busy[a].copy)

(* The members launched so far have names of their own, and are not awaited. *)
Distinct(b) ==
  \A m \in b.got : m.tmux \notin b.todo /\ \A k \in b.got : m.tmux = k.tmux => m = k
LaunchInv == \A a \in Actors : busy[a] \in Launching => Distinct(busy[a])

FoundInv == \A a \in Actors : busy[a] \in Verifying =>
              busy[a].member \in busy[a].copy[busy[a].team].members

Recorded(reg) == {m \in Member : m.sess # None /\ \E t \in Registered(reg) : m \in reg[t].members}
Held(b) == {m \in Member : /\ m.sess # None
                           /\ \/ b \in Copying /\ m \in Recorded(b.copy)
                              \/ b \in Launching /\ m \in b.got
                              \/ b \in Reconnecting /\ m \in b.todo}
AtWork == {m \in Member : m.sess # None /\ live[m.tmux] # None /\ live[m.tmux].sess = m.sess}
Seen == Recorded(file) \cup AtWork \cup UNION {Held(busy[a]) : a \in Actors}

SeenInv == /\ \A m \in Seen : m.sess \in known
           /\ ~strayed => \A m, k \in Seen : m.sess = k.sess => m.tmux = k.tmux

(* What was told is in the file. *)
Settled(t, n) == /\ live[n] # None /\ file[t] # None
                 /\ \A m \in file[t].members : m.tmux = n => m.sess = live[n].sess
ToldInv == ~overtaken /\ ~relocated =>
             ~retold /\ \A t \in Teams, n \in Names : <<t, n>> \in told => Settled(t, n)

TeamInv == OrderInv /\ LaunchInv /\ FoundInv /\ SeenInv /\ ToldInv

(* The kinds of busyness exclude each other. *)
LEMMA Kinds ==
  ASSUME NEW b
  PROVE  /\ b \in Copying => b \notin Launching /\ b \notin Reconnecting
         /\ b \in Launching => b \notin Reconnecting /\ b \notin Verifying
         /\ b \in Relocating \cup Capturing \cup Reconnecting => b \notin Verifying
         /\ b \in Adopting \cup Quicking \cup {Idle} =>
              b \notin Copying /\ b \notin Launching /\ b \notin Reconnecting /\ b \notin Verifying
BY DEF Copying, Idle, Relocating, Capturing, Verifying, Adopting, Quicking, Launching,
       Reconnecting

LEMMA OrderlyReplaced ==
  ASSUME NEW reg \in Registry, Orderly(reg), NEW t \in Teams, NEW e \in Entry,
         \A u \in Registered(reg) : reg[u].root = e.root => u = t,
         \A m, k \in e.members : m.tmux = k.tmux => m = k
  PROVE  Orderly([reg EXCEPT ![t] = e])
BY DEF Orderly, Registry, Registered

(* A step of an actor, seen from each part of the invariant. *)

LEMMA OrderStep ==
  ASSUME Types, OrderInv, NEW a \in Actors, NEW b \in Busy, busy' = [busy EXCEPT ![a] = b],
         relocated => relocated',
         b \in Copying => b.copy = file \/ b = busy[a],
         ~relocated' /\ Orderly(file) /\ (a \in Copies => Orderly(busy[a].copy)) => Orderly(file')
  PROVE  OrderInv'
<1> SUFFICES ASSUME ~relocated'
             PROVE  Orderly(file') /\ \A c \in Copies' : Orderly(busy'[c].copy)
  BY DEF OrderInv
<1>1. Orderly(file) /\ \A c \in Copies : Orderly(busy[c].copy)
  BY DEF OrderInv
<1>2. ASSUME NEW c \in Copies' PROVE Orderly(busy'[c].copy)
  <2>1. c \in Actors /\ busy'[c] \in Copying
    BY DEF Copies
  <2>2. CASE c = a
    <3>1. busy'[c] = b
      BY <2>2 DEF Types, BusyOK
    <3>2. b = busy[a] => a \in Copies
      BY <2>1, <3>1 DEF Copies
    <3> QED BY <1>1, <2>1, <3>1, <3>2
  <2>3. CASE c # a
    BY <1>1, <2>1, <2>3 DEF Types, BusyOK, Copies
  <2> QED BY <2>2, <2>3
<1> QED BY <1>1, <1>2

LEMMA SeenStep ==
  ASSUME Types, SeenInv, NEW a \in Actors, NEW b \in Busy, busy' = [busy EXCEPT ![a] = b],
         known \subseteq known', strayed => strayed',
         NEW x, x.sess \in known' /\ x.sess \notin known,
         \A m \in Recorded(file') \cup Held(b) \cup AtWork' :
           m = x \/ m \in Recorded(file) \cup Held(busy[a]) \cup AtWork
  PROVE  SeenInv'
<1>1. ASSUME NEW m \in Seen' PROVE m = x \/ m \in Seen
  <2>1. CASE m \in Recorded(file') \cup AtWork'
    BY <2>1 DEF Seen
  <2>2. ASSUME NEW c \in Actors, m \in Held(busy'[c]) PROVE m = x \/ m \in Seen
    <3>1. CASE c = a
      <4>1. busy'[c] = b
        BY <3>1 DEF Types, BusyOK
      <4> QED BY <2>2, <4>1 DEF Seen
    <3>2. CASE c # a
      BY <2>2, <3>2 DEF Types, BusyOK, Seen
    <3> QED BY <3>1, <3>2
  <2>3. Seen' = Recorded(file') \cup AtWork' \cup UNION {Held(busy'[c]) : c \in Actors}
    BY DEF Seen, Recorded, Held, Registered, Copying, Relocating, Capturing, Verifying,
           Launching, Reconnecting, Registry, Entry, Member
  <2> QED BY <2>1, <2>2, <2>3
<1> QED BY <1>1 DEF SeenInv

(* The same when no identity is new. *)
LEMMA SeenKept ==
  ASSUME Types, SeenInv, NEW a \in Actors, NEW b \in Busy, busy' = [busy EXCEPT ![a] = b],
         known \subseteq known', strayed => strayed',
         \A m \in Recorded(file') \cup Held(b) \cup AtWork' :
           m \in Recorded(file) \cup Held(busy[a]) \cup AtWork
  PROVE  SeenInv'
<1>1. ASSUME NEW m \in Seen' PROVE m \in Seen
  <2>1. CASE m \in Recorded(file') \cup AtWork'
    BY <2>1 DEF Seen
  <2>2. ASSUME NEW c \in Actors, m \in Held(busy'[c]) PROVE m \in Seen
    <3>1. CASE c = a
      <4>1. busy'[c] = b
        BY <3>1 DEF Types, BusyOK
      <4> QED BY <2>2, <4>1 DEF Seen
    <3>2. CASE c # a
      BY <2>2, <3>2 DEF Types, BusyOK, Seen
    <3> QED BY <3>1, <3>2
  <2> QED BY <2>1, <2>2 DEF Seen
<1> QED BY <1>1 DEF SeenInv

LEMMA BusyStep ==
  ASSUME Types, LaunchInv, FoundInv, NEW a \in Actors, NEW b \in Busy,
         busy' = [busy EXCEPT ![a] = b],
         b \in Launching => Distinct(b),
         b \in Verifying => b.member \in b.copy[b.team].members
  PROVE  LaunchInv' /\ FoundInv'
BY DEF Types, BusyOK, LaunchInv, FoundInv, Distinct

(* A step that announces nothing. *)
LEMMA ToldStep ==
  ASSUME ToldInv, overtaken => overtaken', relocated => relocated', retold' = retold,
         told' \subseteq told,
         ~overtaken' => \A t \in Teams, n \in Names :
           <<t, n>> \in told' /\ Settled(t, n) => Settled(t, n)'
  PROVE  ToldInv'
BY DEF ToldInv

(* One that leaves the sessions alone, and of every team the members. *)
LEMMA ToldKept ==
  ASSUME ToldInv, overtaken => overtaken', relocated => relocated', retold' = retold,
         told' = told, world' = world,
         ~overtaken' => \A t \in Teams : file[t] # None =>
                          file'[t] # None /\ file'[t].members \subseteq file[t].members
  PROVE  ToldInv'
<1>1. live' = live
  BY DEF world
<1>2. ~overtaken' => \A t \in Teams, n \in Names : Settled(t, n) => Settled(t, n)'
  BY <1>1 DEF Settled
<1> QED BY <1>2, ToldStep

LEMMA MovesKeepTeams ==
  ASSUME Types, TeamInv, Moves
  PROVE  TeamInv'
<1>1. /\ file' = file /\ busy' = busy /\ told' \subseteq told /\ relocated' = relocated
      /\ overtaken' = overtaken /\ retold' = retold
  BY DEF Moves, Starts, Dies, Quits, Restarts, Strays, marks, Elsewhere, Untold
<1>2. OrderInv' /\ LaunchInv' /\ FoundInv'
  BY <1>1 DEF TeamInv, OrderInv, LaunchInv, FoundInv, Copies
<1>3. \A m \in Seen' : m \in AtWork' \/ m \in Seen
  BY <1>1 DEF Seen
<1>4. \A m, k \in Member : m.tmux = k.tmux /\ m.sess = k.sess => m = k
  BY DEF Member
<1>5. \A t \in Teams, n \in Names : <<t, n>> \in told' =>
        (Settled(t, n) /\ live'[n] = live[n] => Settled(t, n)')
  BY <1>1 DEF Settled
<1>6. (\A t \in Teams, n \in Names : <<t, n>> \in told' /\ Settled(t, n) => live'[n] = live[n])
      => ToldInv'
  BY <1>1, <1>5, ToldStep DEF TeamInv
<1> USE DEF Types, TypeOK
<1>7. ASSUME NEW n \in Names, NEW r \in Roots, NEW s \in Fresh, NEW worked \in BOOLEAN,
             Appears(n, r, s, worked), strayed' = strayed
      PROVE  SeenInv'
  <2> DEFINE x == [tmux |-> n, sess |-> s]
  <2>1. x \in Member /\ x.sess = s /\ x.tmux = n /\ s \in known' /\ s \notin known /\ known \subseteq known'
    BY <1>7 DEF Fresh, Member, Appears
  <2>2. \A m \in AtWork' : m = x \/ m \in AtWork
    BY <1>7, <1>4, <2>1 DEF Appears, AtWork, Member
  <2> HIDE DEF x
  <2>3. \A m \in Seen' : m = x \/ m \in Seen
    BY <1>3, <2>2 DEF Seen
  <2> QED BY <1>7, <2>1, <2>3 DEF SeenInv, TeamInv
<1>8. ASSUME NEW n \in Names, NEW r \in Roots, Starts(n, r) PROVE SeenInv' /\ ToldInv'
  <2>1. live[n] = None /\ \A k \in Names \ {n} : live'[k] = live[k]
    BY <1>8 DEF Starts, Appears
  <2>2. ToldInv'
    BY <1>6, <2>1 DEF Settled
  <2> QED BY <1>7, <1>8, <2>2 DEF Starts
<1>9. ASSUME NEW n \in Names, told' = told \ (Teams \X {n}),
             \A k \in Names \ {n} : live'[k] = live[k]
      PROVE  ToldInv'
  BY <1>6, <1>9
<1>10. ASSUME NEW n \in Names, Dies(n) \/ Quits(n) PROVE SeenInv' /\ ToldInv'
  <2>1. told' = told \ (Teams \X {n}) /\ \A k \in Names \ {n} : live'[k] = live[k]
    BY <1>10 DEF Dies, Quits, Elsewhere, Untold
  <2>2. live'[n] = None \/ live'[n].sess = None
    BY <1>10 DEF Dies, Quits, Session
  <2>3. \A m \in AtWork' : m \in AtWork
    BY <2>1, <2>2 DEF AtWork, Member
  <2>4. known' = known /\ strayed' = strayed
    BY <1>10 DEF Dies, Quits
  <2>5. \A m \in Seen' : m \in Seen
    BY <1>3, <2>3 DEF Seen
  <2> QED BY <1>9, <2>1, <2>4, <2>5 DEF SeenInv, TeamInv
<1>11. ASSUME NEW n \in Names, Restarts(n) PROVE SeenInv' /\ ToldInv'
  <2>1. told' = told \ (Teams \X {n}) /\ \A k \in Names \ {n} : live'[k] = live[k]
    BY <1>11 DEF Restarts, Appears, Elsewhere, Untold
  <2>2. live[n].cwd \in Roots /\ strayed' = strayed
    BY <1>11 DEF Restarts, Session
  <2> QED BY <1>7, <1>9, <1>11, <2>1, <2>2 DEF Restarts
<1>12. ASSUME NEW n \in Names, NEW m \in Names, NEW r \in Roots, Strays(n, m, r)
       PROVE  SeenInv' /\ ToldInv'
  <2>1. /\ told' = told \ (Teams \X {n}) /\ known' = known /\ strayed'
        /\ m = n \/ live[m] = None
        /\ live' = [live EXCEPT ![n] = None, ![m] = [live[n] EXCEPT !.cwd = r]]
        /\ live[n] # None
    BY <1>12 DEF Strays, Elsewhere, Untold
  <2>2. live'[m].sess = live[n].sess /\ \A k \in Names \ {m, n} : live'[k] = live[k]
    BY <2>1 DEF Session
  <2>3. ToldInv'
    <3>1. \A t \in Teams, k \in Names :
            <<t, k>> \in told' /\ Settled(t, k) => live'[k] = live[k]
      BY <2>1, <2>2 DEF Settled
    <3> QED BY <1>6, <3>1
  <2>4. ASSUME NEW k \in Seen' PROVE k.sess \in known'
    <3>1. CASE k \in Seen
      BY <2>1, <3>1 DEF SeenInv, TeamInv
    <3>2. CASE k \in AtWork' /\ k.tmux \notin {m, n}
      BY <2>1, <2>2, <3>2 DEF AtWork, Seen, SeenInv, TeamInv, Member
    <3>3. CASE k \in AtWork' /\ k.tmux \in {m, n}
      <4> DEFINE was == [tmux |-> n, sess |-> k.sess]
      <4>1. k \in Member /\ k.sess # None /\ k.sess = live[n].sess
        BY <2>1, <2>2, <3>3 DEF AtWork
      <4>2. was \in AtWork /\ was.sess = k.sess
        BY <2>1, <4>1 DEF AtWork, Member
      <4> QED BY <2>1, <4>2 DEF Seen, SeenInv, TeamInv
    <3> QED BY <1>3, <3>1, <3>2, <3>3
  <2> QED BY <2>1, <2>3, <2>4 DEF SeenInv
<1>13. SeenInv' /\ ToldInv'
  BY <1>8, <1>10, <1>11, <1>12 DEF Moves
<1> QED BY <1>2, <1>13 DEF TeamInv

LEMMA QuickKeepsTeams ==
  ASSUME Types, TeamInv, NEW a \in Actors, Quick(a)
  PROVE  TeamInv'
<1>1. /\ busy' = busy /\ world' = world /\ told' \subseteq told /\ relocated' = relocated
      /\ overtaken' = overtaken /\ retold' = retold
  BY DEF Quick, SetLead, RemoveMember, RemoveTeam, Now, marks, Untold
<1>2. busy' = [busy EXCEPT ![a] = busy[a]] /\ busy[a] \in Busy
  BY <1>1 DEF Types, BusyOK
(* An edit leaves the directories, and of the members some. *)
<1>3. /\ Registered(file') \subseteq Registered(file)
      /\ \A t \in Registered(file') :
           file'[t].root = file[t].root /\ file'[t].members \subseteq file[t].members
      /\ \A t \in Teams, n \in Names : <<t, n>> \in told' => file[t] = None \/ file'[t] # None
  <2> USE DEF Types, TypeOK, Registry, Registered
  <2>1. ASSUME NEW t \in Teams, NEW s, SetLead(a, t, s) PROVE <1>3
    <3>1. file' = [file EXCEPT ![t].lead = s] /\ file[t] \in Entry /\ file[t] # None
      BY <2>1 DEF SetLead
    <3>2. [file[t] EXCEPT !.lead = s].root = file[t].root
          /\ [file[t] EXCEPT !.lead = s].members = file[t].members
      BY <3>1 DEF Entry
    <3> DEFINE e == [file[t] EXCEPT !.lead = s]
    <3>3. file' = [file EXCEPT ![t] = e]
      BY <3>1
    <3>4. e \in Entry
      BY <2>1, <3>1 DEF SetLead, Sessions, Entry, Member
    <3> HIDE DEF e
    <3>5. e # None
      BY <3>4, RegistryAssumption
    <3>6. e.root = file[t].root /\ e.members = file[t].members
      BY <3>2 DEF e
    <3> QED BY <3>1, <3>3, <3>5, <3>6
  <2>2. ASSUME NEW t \in Teams, NEW s, RemoveMember(a, t, s) PROVE <1>3
    <3>1. /\ file' = [file EXCEPT ![t].members = {m \in @ : m.sess # s}]
          /\ file[t] \in Entry /\ file[t] # None
      BY <2>2 DEF RemoveMember
    <3> DEFINE e == [file[t] EXCEPT !.members = {m \in @ : m.sess # s}]
    <3>2. e.root = file[t].root /\ e.members \subseteq file[t].members
      BY <3>1 DEF Entry
    <3>3. file' = [file EXCEPT ![t] = e]
      BY <3>1
    <3>4. e \in Entry
      BY <3>1 DEF Entry
    <3> HIDE DEF e
    <3>5. e # None
      BY <3>4, RegistryAssumption
    <3> QED BY <3>1, <3>2, <3>3, <3>5
  <2>3. ASSUME NEW t \in Teams, RemoveTeam(a, t) PROVE <1>3
    BY <2>3 DEF RemoveTeam, Untold
  <2> QED BY <2>1, <2>2, <2>3 DEF Quick
<1>4. Orderly(file) => Orderly(file')
  BY <1>3 DEF Orderly
<1>5. Recorded(file') \subseteq Recorded(file)
  BY <1>3 DEF Recorded
<1>6. AtWork' = AtWork /\ known' = known /\ strayed' = strayed
  BY <1>1 DEF AtWork, world
<1>7. OrderInv'
  BY <1>1, <1>2, <1>4, OrderStep DEF TeamInv
<1>8. SeenInv'
  BY <1>2, <1>5, <1>6, SeenKept DEF TeamInv
<1>9. LaunchInv' /\ FoundInv'
  BY <1>1 DEF TeamInv, LaunchInv, FoundInv
<1>10. ToldInv'
  <2>1. \A t \in Teams, n \in Names : <<t, n>> \in told' /\ Settled(t, n) => Settled(t, n)'
    BY <1>1, <1>3 DEF Settled, world, Registered
  <2> QED BY <1>1, <2>1, ToldStep DEF TeamInv
<1> QED BY <1>7, <1>8, <1>9, <1>10 DEF TeamInv

LEMMA BeginsTeams ==
  ASSUME Types, TeamInv, NEW a \in Actors, NEW b \in Busy, Begin(a, b),
         file' = file, world' = world, marks' = marks,
         b \in Copying => b.copy = file,
         b \in Launching => b.got = {},
         b \in Verifying => b.member \in b.copy[b.team].members,
         b \in Reconnecting => \A m \in b.todo : m.sess # None => m \in Recorded(file)
  PROVE  TeamInv'
<1>1. busy' = [busy EXCEPT ![a] = b]
  BY DEF Begin
<1>2. OrderInv'
  <2>1. relocated' = relocated /\ OrderInv
    BY DEF TeamInv, marks
  <2>2. Orderly(file) => Orderly(file')
    OBVIOUS
  <2> QED BY ONLY <1>1, <2>1, <2>2, OrderStep, Types, a \in Actors, b \in Busy,
                  b \in Copying => b.copy = file
<1>3. LaunchInv' /\ FoundInv'
  BY <1>1, BusyStep DEF TeamInv, Distinct
<1>4. AtWork' = AtWork /\ known' = known /\ strayed' = strayed
  BY DEF AtWork, world
<1>5. Held(b) \subseteq Recorded(file)
  BY DEF Held
<1>6. SeenInv'
  BY <1>1, <1>4, <1>5, SeenKept DEF TeamInv
<1>7. ToldInv'
  BY ToldStep DEF TeamInv, Settled, marks, world
<1> QED BY <1>2, <1>3, <1>6, <1>7 DEF TeamInv

(* What an actor may take up. *)
Fit(b) ==
  /\ b \in Busy
  /\ b \in Copying => b.copy = file /\ file[b.team] # None
  /\ b \in Launching => b.got = {}
  /\ b \in Verifying => b.member \in b.copy[b.team].members
  /\ b \in Reconnecting => \A m \in b.todo : m.sess # None => m \in Recorded(file)

LEMMA FitBegins ==
  ASSUME Types, LeadInv, TeamInv, NEW a \in Actors, NEW b, Fit(b), Begin(a, b),
         file' = file, world' = world, marks' = marks
  PROVE  Types' /\ LeadInv' /\ TeamInv'
<1>1. Types' /\ LeadInv'
  BY Begins DEF Fit
<1>2. TeamInv'
  BY BeginsTeams DEF Fit
<1> QED BY <1>1, <1>2

LEMMA SlowKeeps ==
  ASSUME Types, LeadInv, TeamInv, NEW a \in Actors, Slow(a)
  PROVE  Types' /\ LeadInv' /\ TeamInv'
<1> DEFINE Kept == Types' /\ LeadInv' /\ TeamInv'
<1> USE DEF Types, TypeOK
<1>1. ASSUME NEW t \in Teams, NEW n \in Names, Relocate(a, t, n) PROVE Kept
  <2> DEFINE b == [op |-> "relocate", team |-> t, name |-> n, copy |-> file, at |-> live[n].cwd]
  <2>1. b \in Relocating /\ b.copy = file /\ b.team = t /\ file[t] # None
    BY <1>1 DEF Relocate, Unassigned, Session, Relocating, Registered
  <2>2. Begin(a, b) /\ file' = file /\ world' = world /\ marks' = marks
    BY <1>1 DEF Relocate
  <2> HIDE DEF b
  <2>3. Fit(b)
    BY <2>1, Kinds DEF Fit, Busy, Copying
  <2> QED BY <2>2, <2>3, FitBegins
<1>2. ASSUME NEW t \in Teams, Capture(a, t) PROVE Kept
  <2> DEFINE b == [op |-> "capture", team |-> t, copy |-> file]
  <2>1. b \in Capturing /\ b.copy = file /\ b.team = t /\ file[t] # None
    BY <1>2 DEF Capture, Capturing, Registered
  <2>2. Begin(a, b) /\ file' = file /\ world' = world /\ marks' = marks
    BY <1>2 DEF Capture
  <2> HIDE DEF b
  <2>3. Fit(b)
    BY <2>1, Kinds DEF Fit, Busy, Copying
  <2> QED BY <2>2, <2>3, FitBegins
<1>3. ASSUME NEW n \in Names, Verify(a, n) PROVE Kept
  <2>0. PICK t \in Registered(file) : \E m \in file[t].members :
          Begin(a, [op |-> "verify", team |-> t, member |-> m, copy |-> file])
    BY <1>3 DEF Verify
  <2>1. PICK m \in file[t].members :
          Begin(a, [op |-> "verify", team |-> t, member |-> m, copy |-> file])
    BY <2>0
  <2> DEFINE b == [op |-> "verify", team |-> t, member |-> m, copy |-> file]
  <2>2. t \in Teams /\ m \in Member
    BY <2>1 DEF Registered, Registry, Entry
  <2>3. b \in Verifying /\ b.copy = file /\ b.team = t /\ b.member = m /\ file[t] # None
    BY <2>2 DEF Verifying, Registered
  <2>4. Begin(a, b) /\ file' = file /\ world' = world /\ marks' = marks
    BY <1>3, <2>1 DEF Verify
  <2> HIDE DEF b
  <2>5. Fit(b)
    BY <2>1, <2>3, Kinds DEF Fit, Busy, Copying
  <2> QED BY <2>4, <2>5, FitBegins
(* What holds no copy and awaits nobody is fit. *)
<1>4. ASSUME NEW b \in Adopting \cup Quicking PROVE Fit(b)
  BY Kinds DEF Fit, Busy
<1>5. ASSUME NEW t \in Teams, NEW S \in SUBSET Names, NEW careful \in BOOLEAN,
             AdoptFrom(a, t, S, careful), file' = file, world' = world, marks' = marks
      PROVE  Kept
  <2>1. PICK r \in Roots :
          Begin(a, [op |-> "adopt", team |-> t, root |-> r, names |-> S, careful |-> careful])
    BY <1>5 DEF AdoptFrom
  <2> DEFINE b == [op |-> "adopt", team |-> t, root |-> r, names |-> S, careful |-> careful]
  <2>2. b \in Adopting
    BY DEF Adopting
  <2> HIDE DEF b
  <2>3. Begin(a, b)
    BY <2>1 DEF b
  <2> QED BY <1>4, <1>5, <2>2, <2>3, FitBegins
<1>6. ASSUME NEW n \in Names, QuickAdopt(a, n) PROVE Kept
  <2> DEFINE b == [op |-> "quick", root |-> live[n].cwd, name |-> n]
  <2>1. b \in Quicking
    BY <1>6 DEF QuickAdopt, Unassigned, Session, Quicking
  <2>2. Begin(a, b) /\ file' = file /\ world' = world /\ marks' = marks
    BY <1>6 DEF QuickAdopt
  <2> HIDE DEF b
  <2> QED BY <1>4, <2>1, <2>2, FitBegins
<1>7. ASSUME NEW t \in Teams, NEW r \in Roots, NEW S \in SUBSET Names,
             Begin(a, [op |-> "fresh", team |-> t, root |-> r, todo |-> S, got |-> {}]),
             file' = file, world' = world, marks' = marks
      PROVE  Kept
  <2> DEFINE b == [op |-> "fresh", team |-> t, root |-> r, todo |-> S, got |-> {}]
  <2>1. b \in Launching /\ b.got = {}
    BY DEF Launching
  <2> HIDE DEF b
  <2>2. Begin(a, b)
    BY <1>7 DEF b
  <2>3. Fit(b)
    BY <2>1, Kinds DEF Fit, Busy
  <2> QED BY <1>7, <2>2, <2>3, FitBegins
<1>8. ASSUME NEW t \in Teams, Reconnect(a, t) PROVE Kept
  <2> DEFINE e == file[t]
             S == {m \in e.members : Stopped(e, m, live)}
             b == [op |-> "reconnect", team |-> t, root |-> e.root, todo |-> S]
  <2>1. e \in Entry /\ t \in Registered(file)
    BY <1>8 DEF Reconnect, Registered, Registry
  <2>2. b \in Reconnecting /\ b.todo = S /\ S \subseteq e.members /\ e.members \subseteq Member
    BY <2>1 DEF Entry, Reconnecting
  <2>3. Begin(a, b) /\ file' = file /\ world' = world /\ marks' = marks
    BY <1>8 DEF Reconnect
  <2>4. \A m \in S : m.sess # None => m \in Recorded(file)
    BY <2>1, <2>2 DEF Recorded
  <2> HIDE DEF b, S, e
  <2>5. Fit(b)
    BY <2>2, <2>4, Kinds DEF Fit, Busy
  <2> QED BY <2>3, <2>5, FitBegins
<1>9. ASSUME NEW n \in Names, NEW t \in Teams, RegisterByAdoption(a, t, n) PROVE Kept
  BY <1>5, <1>9 DEF RegisterByAdoption
<1>10. ASSUME NEW t \in Teams, NEW S \in SUBSET Names, WizardAdopt(a, t, S) PROVE Kept
  BY <1>5, <1>10 DEF WizardAdopt
<1>11. ASSUME NEW t \in Teams, NEW S \in SUBSET Names, NEW r \in Roots, WizardFresh(a, t, r, S)
       PROVE  Kept
  BY <1>7, <1>11 DEF WizardFresh
<1>12. ASSUME NEW t \in Teams, NEW n \in Names, NEW r \in Roots, RegisterFresh(a, t, r, n)
       PROVE  Kept
  BY <1>7, <1>12 DEF RegisterFresh
<1> QED BY <1>1, <1>2, <1>3, <1>6, <1>8, <1>9, <1>10, <1>11, <1>12 DEF Slow

-----------------------------------------------------------------------------
(* What an actor ends leaves it without a copy: OneToOne and ToldOnce then  *)
(* depend on what becomes of the file.                                     *)
LEMMA EndsTeams ==
  ASSUME Types, TeamInv, NEW a \in Actors, End(a), world' = world,
         relocated => relocated',
         ~relocated' /\ Orderly(file) /\ (a \in Copies => Orderly(busy[a].copy)) => Orderly(file'),
         Recorded(file') \subseteq Recorded(file) \cup Held(busy[a]) \cup AtWork,
         ToldInv'
  PROVE  TeamInv'
<1>1. busy' = [busy EXCEPT ![a] = Idle] /\ Idle \in Busy
  BY IdleBusy DEF End, Goto
<1>2. Idle \notin Copying /\ Idle \notin Launching /\ Idle \notin Reconnecting /\ Idle \notin Verifying
  BY Kinds
<1>3. LaunchInv' /\ FoundInv'
  BY <1>1, <1>2, BusyStep DEF TeamInv
<1>4. OrderInv'
  BY <1>1, <1>2, OrderStep DEF TeamInv
<1>5. AtWork' = AtWork /\ known' = known /\ strayed' = strayed /\ Held(Idle) = {}
  BY <1>2 DEF AtWork, world, Held
<1>6. SeenInv'
  BY <1>1, <1>5, SeenKept DEF TeamInv
<1> QED BY <1>3, <1>4, <1>6 DEF TeamInv

LEMMA RelocateKeepsTeams ==
  ASSUME Types, TeamInv, NEW a \in Actors, RelocateEnds(a)
  PROVE  TeamInv'
<1> DEFINE b == busy[a]
           t == b.team
           n == b.name
<1>1. b \in Relocating /\ a \in Copies /\ b.copy[t] # None
  BY Ops DEF RelocateEnds, Doing, Types, BusyOK, Copies
<1>2. /\ b.copy \in Registry /\ t \in Teams /\ n \in Names /\ b.copy[t] \in Entry
      /\ t \in Registered(b.copy)
  BY <1>1 DEF Relocating, Registry, Registered
<1>3. /\ End(a) /\ world' = world /\ told' = told /\ retold' = retold
      /\ overtaken => overtaken'
      /\ relocated => relocated'
      /\ \/ file' = file /\ relocated' = relocated
         \/ /\ relocated'
            /\ \E m \in b.copy[t].members : /\ live[n] # None /\ live[n].sess = m.sess
                                            /\ file' = [b.copy EXCEPT ![t] = Relocated(a, t, n, m)]
  BY DEF RelocateEnds, SaveCopy
<1>4. Recorded(file') \subseteq Recorded(file) \cup Held(b) \cup AtWork
  <2>1. ASSUME NEW m \in b.copy[t].members, live[n] # None, live[n].sess = m.sess,
               file' = [b.copy EXCEPT ![t] = Relocated(a, t, n, m)],
               NEW k \in Recorded(file')
        PROVE  k \in Held(b) \cup AtWork
    <3> DEFINE moved == [m EXCEPT !.tmux = n]
    <3>1. Relocated(a, t, n, m).members = (b.copy[t].members \ {m}) \cup {moved}
      BY <1>2 DEF Relocated, Entry
    <3>2. m \in Member /\ moved.tmux = n /\ moved.sess = m.sess
      BY <1>2 DEF Entry, Member
    <3> HIDE DEF moved
    <3>3. PICK u \in Registered(file') : k \in file'[u].members
      BY <2>1 DEF Recorded
    <3>4. k \in Member /\ k.sess # None
      BY DEF Recorded
    <3>5. CASE k = moved
      BY <2>1, <3>2, <3>4, <3>5 DEF AtWork
    <3>6. CASE k # moved
      <4> HIDE DEF b, t, n
      <4>1. u \in Registered(b.copy) /\ k \in b.copy[u].members
        BY <1>2, <2>1, <3>1, <3>3, <3>6 DEF Registered, Registry
      <4>2. k \in Recorded(b.copy)
        BY <3>4, <4>1 DEF Recorded
      <4> QED BY <1>1, <3>4, <4>2 DEF Held, Copying
    <3> QED BY <3>5, <3>6
  <2>2. CASE file' = file
    BY <2>2
  <2> QED BY <1>3, <2>1, <2>2
<1>5. ToldInv'
  <2>1. CASE relocated'
    BY <2>1 DEF ToldInv
  <2>2. CASE file' = file
    BY ONLY <1>3, <2>2, TeamInv, ToldKept DEF TeamInv
  <2> QED BY <1>3, <2>1, <2>2
<1>6. ~relocated' /\ Orderly(file) => Orderly(file')
  BY <1>3
<1> QED BY <1>3, <1>4, <1>5, <1>6, EndsTeams

LEMMA CaptureKeepsTeams ==
  ASSUME Types, TeamInv, NEW a \in Actors, CaptureEnds(a)
  PROVE  TeamInv'
<1> DEFINE b == busy[a]
           t == b.team
           e == [b.copy[t] EXCEPT !.ctx = TRUE]
<1>1. b \in Capturing /\ a \in Copies /\ b.copy[t] # None
  BY Ops DEF CaptureEnds, Doing, Types, BusyOK, Copies
<1>2. b.copy \in Registry /\ t \in Teams /\ b.copy[t] \in Entry
  BY <1>1 DEF Capturing, Registry
<1>3. /\ End(a) /\ world' = world /\ told' = told /\ retold' = retold /\ relocated' = relocated
      /\ \/ file' = file /\ overtaken' = overtaken
         \/ /\ file' = [b.copy EXCEPT ![t] = e]
            /\ overtaken' = (overtaken \/ b.copy # file)
  BY DEF CaptureEnds, SaveCopy
(* The copy with a context is the copy, as far as members go. *)
<1>4. ASSUME file' = [b.copy EXCEPT ![t] = e]
      PROVE  /\ Registered(file') = Registered(b.copy)
             /\ \A u \in Registered(b.copy) : file'[u].root = b.copy[u].root
                                              /\ file'[u].members = b.copy[u].members
  <2>1. e \in Entry /\ e.root = b.copy[t].root /\ e.members = b.copy[t].members
    BY <1>2 DEF Entry
  <2>2. e # None
    BY <2>1, RegistryAssumption
  <2> HIDE DEF e, b
  <2> QED BY <1>1, <1>2, <1>4, <2>1, <2>2 DEF Registered, Registry
<1> HIDE DEF e
<1>5. Recorded(file') \subseteq Recorded(file) \cup Held(b) \cup AtWork
  <2>1. CASE file' = file
    BY <2>1
  <2>2. CASE file' = [b.copy EXCEPT ![t] = e]
    <3>1. Recorded(file') \subseteq Recorded(b.copy)
      BY <1>4, <2>2 DEF Recorded
    <3> QED BY <1>1, <3>1 DEF Held, Copying, Recorded
  <2> QED BY <1>3, <2>1, <2>2
<1>6. Orderly(file) /\ Orderly(b.copy) => Orderly(file')
  <2>1. CASE file' = file
    BY <2>1
  <2>2. CASE file' = [b.copy EXCEPT ![t] = e]
    BY <1>4, <2>2 DEF Orderly
  <2> QED BY <1>3, <2>1, <2>2
<1>7. ToldInv'
  <2>0. overtaken => overtaken'
    BY ONLY <1>3
  <2>1. CASE file' = file
    BY ONLY <1>3, <2>0, <2>1, TeamInv, ToldKept DEF TeamInv
  <2>2. CASE file' = [b.copy EXCEPT ![t] = e] /\ b.copy = file
    <3>1. \A u \in Teams : file[u] # None =>
            file'[u] # None /\ file'[u].members = file[u].members
      BY <1>4, <2>2 DEF Registered
    <3> QED BY ONLY <1>3, <2>0, <3>1, TeamInv, ToldKept DEF TeamInv
  <2>3. CASE overtaken'
    BY <2>3 DEF ToldInv
  <2> QED BY <1>3, <2>1, <2>2, <2>3
<1> QED BY <1>1, <1>3, <1>5, <1>6, <1>7, EndsTeams

LEMMA VerifyKeepsTeams ==
  ASSUME Types, TeamInv, NEW a \in Actors, VerifyEnds(a)
  PROVE  TeamInv'
<1> DEFINE b == busy[a]
           t == b.team
           m == b.member
           now == live[m.tmux]
           new == [m EXCEPT !.sess = now.sess]
           ks == (b.copy[t].members \ {m}) \cup {new}
           e == [b.copy[t] EXCEPT !.members = ks]
<1>1. b \in Verifying /\ a \in Copies /\ b.copy[t] # None /\ m \in b.copy[t].members
  BY Ops DEF VerifyEnds, Doing, Types, BusyOK, Copies, TeamInv, FoundInv
<1>2. /\ b.copy \in Registry /\ t \in Teams /\ b.copy[t] \in Entry /\ m \in Member
      /\ now \in Session \cup {None} /\ t \in Registered(b.copy)
  BY <1>1 DEF Verifying, Registry, Member, Types, TypeOK, Registered
<1>3. /\ End(a) /\ world' = world /\ relocated' = relocated
      /\ \/ file' = file /\ overtaken' = overtaken /\ retold' = retold /\ told' = told
         \/ /\ now # None /\ now.sess \notin {None, m.sess}
            /\ file' = [b.copy EXCEPT ![t] = e]
            /\ overtaken' = (overtaken \/ b.copy # file)
            /\ told' = told \cup {<<t, m.tmux>>}
            /\ retold' = (retold \/ <<t, m.tmux>> \in told)
  BY DEF VerifyEnds, SaveCopy
(* The saved copy differs by one member, whose name stays. *)
<1>4. ASSUME now # None, file' = [b.copy EXCEPT ![t] = e]
      PROVE  /\ new \in Member /\ new.tmux = m.tmux /\ new.sess = now.sess
             /\ Registered(file') = Registered(b.copy)
             /\ \A u \in Registered(b.copy) :
                  /\ file'[u].root = b.copy[u].root
                  /\ u # t => file'[u].members = b.copy[u].members
             /\ file'[t].members = ks
  <2>1. new \in Member /\ new.tmux = m.tmux /\ new.sess = now.sess
    BY <1>2, <1>4 DEF Member, Session
  <2>2. e \in Entry /\ e.root = b.copy[t].root /\ e.members = ks
    BY <1>2, <2>1 DEF Entry
  <2>3. e # None
    BY <2>2, RegistryAssumption
  <2> HIDE DEF e, ks, new, now, b
  <2> QED BY <1>1, <1>2, <1>4, <2>1, <2>2, <2>3 DEF Registered, Registry
<1> HIDE DEF e
<1>5. Recorded(file') \subseteq Recorded(file) \cup Held(b) \cup AtWork
  <2>1. CASE file' = file
    BY <2>1
  <2>2. ASSUME now # None, file' = [b.copy EXCEPT ![t] = e], NEW k \in Recorded(file')
        PROVE  k \in Held(b) \cup AtWork
    <3>1. PICK u \in Registered(file') : k \in file'[u].members
      BY <2>2 DEF Recorded
    <3>2. k \in Member /\ k.sess # None
      BY <2>2 DEF Recorded
    <3>3. CASE k = new
      BY <1>4, <2>2, <3>2, <3>3 DEF AtWork
    <3>4. CASE k # new
      <4>1. u \in Registered(b.copy) /\ k \in b.copy[u].members
        BY <1>4, <2>2, <3>1, <3>4
      <4>2. k \in Recorded(b.copy)
        BY <3>2, <4>1 DEF Recorded
      <4> QED BY <1>1, <3>2, <4>2 DEF Held, Copying
    <3> QED BY <3>3, <3>4
  <2> QED BY <1>3, <2>1, <2>2
<1>6. Orderly(file) /\ Orderly(b.copy) => Orderly(file')
  <2>1. CASE file' = file
    BY <2>1
  <2>2. ASSUME now # None, file' = [b.copy EXCEPT ![t] = e], Orderly(b.copy)
        PROVE  Orderly(file')
    <3>0. new.tmux = m.tmux
      BY <1>4, <2>2
    <3> HIDE DEF new, t, m
    <3>1. \A k, l \in ks : k.tmux = l.tmux => k = l
      BY <1>1, <1>2, <2>2, <3>0 DEF Orderly
    <3> HIDE DEF ks, b
    <3> QED BY <1>2, <1>4, <2>2, <3>1 DEF Orderly
  <2> QED BY <1>3, <2>1, <2>2
<1>7. ToldInv'
  <2>1. CASE file' = file /\ told' = told /\ retold' = retold /\ overtaken' = overtaken
    BY ONLY <1>3, <2>1, TeamInv, ToldKept DEF TeamInv
  <2>2. CASE overtaken' \/ relocated'
    BY <2>2 DEF ToldInv
  <2>3. ASSUME ~overtaken', ~relocated', now # None, now.sess \notin {None, m.sess},
               file' = [b.copy EXCEPT ![t] = e], b.copy = file, ~overtaken,
               told' = told \cup {<<t, m.tmux>>}, retold' = (retold \/ <<t, m.tmux>> \in told)
        PROVE  ToldInv'
    <3>1. ~relocated /\ Orderly(file) /\ live' = live /\ m.tmux \in Names
      BY <1>2, <1>3, <2>3 DEF TeamInv, OrderInv, world, Member
    <3>2. ~retold /\ \A u \in Teams, n \in Names : <<u, n>> \in told => Settled(u, n)
      BY <2>3, <3>1 DEF TeamInv, ToldInv
    <3>3. <<t, m.tmux>> \notin told
      BY <1>1, <1>2, <2>3, <3>1, <3>2 DEF Settled
    <3>4. ASSUME NEW u \in Teams, NEW n \in Names, <<u, n>> \in told' PROVE Settled(u, n)'
      <4>1. CASE u = t /\ n = m.tmux
        <5>1. file'[u] # None /\ live'[n] # None
          BY <1>2, <1>4, <2>3, <3>1, <4>1 DEF Registered
        <5>2. \A k \in ks : k.tmux = n => k = new
          BY <1>1, <1>2, <2>3, <3>1, <4>1 DEF Orderly
        <5>3. \A k \in file'[u].members : k.tmux = n => k.sess = live'[n].sess
          BY <1>4, <2>3, <3>1, <4>1, <5>2
        <5> QED BY <5>1, <5>3 DEF Settled
      <4>2. CASE ~(u = t /\ n = m.tmux)
        <5>1. Settled(u, n)
          BY <2>3, <3>2, <3>4, <4>2
        <5>2. u \in Registered(b.copy)
          BY <2>3, <5>1 DEF Settled, Registered
        <5>3. \A k \in file'[u].members : k.tmux = n => k \in file[u].members
          <6>1. CASE u # t
            BY <1>4, <2>3, <5>2, <6>1
          <6>2. CASE u = t
            <7>1. new.tmux # n /\ file'[t].members = ks /\ b.copy[t].members = file[t].members
              BY <1>4, <2>3, <4>2, <6>2
            <7> HIDE DEF new, b, t
            <7> QED BY <6>2, <7>1
          <6> QED BY <6>1, <6>2
        <5>4. file'[u] # None
          BY <1>4, <2>3, <5>2 DEF Registered
        <5> QED BY <3>1, <5>1, <5>3, <5>4 DEF Settled
      <4> QED BY <4>1, <4>2
    <3>5. ~retold'
      BY <2>3, <3>2, <3>3
    <3> QED BY <3>4, <3>5 DEF ToldInv
  <2> QED BY <1>3, <2>1, <2>2, <2>3
<1> QED BY <1>1, <1>3, <1>5, <1>6, <1>7, EndsTeams

(* A team entered is new, its directory no other's; nothing was told of it. *)
LEMMA RegisteringTeams ==
  ASSUME Types, TeamInv, NEW t \in Teams, NEW r \in Roots, NEW ms \in SUBSET Member, NEW m \in ms,
         Register(t, r, ms, m.sess),
         \A k, l \in ms : k.tmux = l.tmux => k = l
  PROVE  /\ Orderly(file) => Orderly(file')
         /\ \A k \in Recorded(file') : k \in Recorded(file) \/ k \in ms
         /\ world' = world /\ marks' = marks => ToldInv'
<1> DEFINE e == [root |-> r, members |-> ms, lead |-> m.sess, ctx |-> FALSE]
<1>1. e \in Entry /\ e.root = r /\ e.members = ms
  BY DEF Entry, Member
<1>2. \/ file' = file
      \/ file[t] = None /\ RootFree(file, r) /\ file' = [file EXCEPT ![t] = e]
  BY DEF Register, Entered, IdFree
<1> HIDE DEF e
<1>3. file \in Registry
  BY DEF Types, TypeOK
<1>4. CASE file' = file
  <2>1. world' = world /\ marks' = marks => ToldInv'
    BY <1>4, ToldKept DEF TeamInv, marks
  <2> QED BY <1>4, <2>1
<1>5. CASE file[t] = None /\ RootFree(file, r) /\ file' = [file EXCEPT ![t] = e]
  <2>1. Orderly(file) => Orderly(file')
    BY <1>1, <1>3, <1>5, OrderlyReplaced DEF RootFree
  <2>2. \A k \in Recorded(file') : k \in Recorded(file) \/ k \in ms
    BY <1>1, <1>3, <1>5 DEF Recorded, Registered, Registry
  <2>3. \A u \in Teams : file[u] # None => file'[u] = file[u]
    BY <1>3, <1>5 DEF Registry
  <2>4. world' = world /\ marks' = marks => ToldInv'
    BY <2>3, ToldKept DEF TeamInv, marks
  <2> QED BY <2>1, <2>2, <2>4
<1> QED BY <1>2, <1>4, <1>5

LEMMA EntersKeepTeams ==
  ASSUME Types, TeamInv, NEW a \in Actors, AdoptEnds(a) \/ QuickEnds(a) \/ FreshEnds(a)
  PROVE  TeamInv'
<1>1. End(a) /\ world' = world /\ marks' = marks
  BY DEF AdoptEnds, QuickEnds, FreshEnds, End
<1>2. ASSUME NEW n \in Names, NEW k \in Member, k.tmux = n, k.sess = Identity(n), k.sess # None
      PROVE  k \in AtWork
  BY <1>2 DEF Identity, AtWork
<1>3. \A n \in Names : Identity(n) \in Uuids \cup {None}
  BY DEF Identity, Types, TypeOK, Session
<1>4. \/ file' = file
      \/ \E t \in Teams, r \in Roots, ms \in SUBSET Member : \E m \in ms :
           /\ Register(t, r, ms, m.sess)
           /\ \A k, l \in ms : k.tmux = l.tmux => k = l
           /\ \A k \in ms : k.sess # None => k \in Held(busy[a]) \cup AtWork
  <2>1. CASE AdoptEnds(a)
    <3> DEFINE ms == {[tmux |-> n, sess |-> Identity(n)] : n \in busy[a].names}
    <3>1. busy[a] \in Adopting
      BY <2>1, Ops DEF AdoptEnds, Doing, Types, BusyOK
    <3>2. /\ busy[a].team \in Teams /\ busy[a].root \in Roots /\ busy[a].names \subseteq Names
          /\ ms \in SUBSET Member
      BY <1>3, <3>1 DEF Adopting, Member
    <3>3. \A k \in ms : k.tmux \in Names /\ k.sess = Identity(k.tmux) /\ k = [tmux |-> k.tmux, sess |-> k.sess]
      BY <3>2
    <3>4. file' = file \/ \E m \in ms : Register(busy[a].team, busy[a].root, ms, m.sess)
      BY <2>1 DEF AdoptEnds
    <3> HIDE DEF ms
    <3>5. \A k \in ms : k.sess # None => k \in AtWork
      BY <1>2, <3>2, <3>3
    <3>6. \A k, l \in ms : k.tmux = l.tmux => k = l
      BY <3>3
    <3> QED BY <3>2, <3>4, <3>5, <3>6
  <2>2. CASE QuickEnds(a)
    <3> DEFINE m == [tmux |-> busy[a].name, sess |-> Identity(busy[a].name)]
    <3>1. busy[a] \in Quicking
      BY <2>2, Ops DEF QuickEnds, Doing, Types, BusyOK
    <3>2. busy[a].root \in Roots /\ m \in Member /\ busy[a].name \in Names
      BY <1>3, <3>1 DEF Quicking, Member
    <3>3. m.tmux = busy[a].name /\ m.sess = Identity(busy[a].name)
      OBVIOUS
    <3>4. file' = file \/ \E t \in FreeSlugs : Register(t, busy[a].root, {m}, m.sess)
      BY <2>2 DEF QuickEnds
    <3> HIDE DEF m
    <3>5. m.sess # None => m \in AtWork
      BY <1>2, <3>2, <3>3
    <3>6. {m} \in SUBSET Member /\ m \in {m} /\ (\A k \in {m} : k = m) /\ FreeSlugs \subseteq Teams
      BY <3>2 DEF FreeSlugs
    <3> QED BY <3>2, <3>4, <3>5, <3>6
  <2>3. CASE FreshEnds(a)
    <3>1. busy[a] \in Launching
      BY <2>3, Ops DEF FreshEnds, Doing, Types, BusyOK
    <3>2. /\ busy[a].team \in Teams /\ busy[a].root \in Roots /\ busy[a].got \in SUBSET Member
          /\ \A k, l \in busy[a].got : k.tmux = l.tmux => k = l
      BY <3>1 DEF Launching, TeamInv, LaunchInv, Distinct
    <3>3. file' = file \/ \E m \in busy[a].got :
                             Register(busy[a].team, busy[a].root, busy[a].got, m.sess)
      BY <2>3 DEF FreshEnds
    <3>4. \A k \in busy[a].got : k.sess # None => k \in Held(busy[a])
      BY <3>1, <3>2 DEF Held
    <3> QED BY <3>2, <3>3, <3>4
  <2> QED BY <2>1, <2>2, <2>3
<1>5. CASE file' = file
  <2>1. ToldInv'
    BY <1>1, <1>5, ToldKept DEF TeamInv, marks
  <2> QED BY <1>1, <1>5, <2>1, EndsTeams DEF marks
<1>6. ASSUME NEW t \in Teams, NEW r \in Roots, NEW ms \in SUBSET Member, NEW m \in ms,
             Register(t, r, ms, m.sess), \A k, l \in ms : k.tmux = l.tmux => k = l,
             \A k \in ms : k.sess # None => k \in Held(busy[a]) \cup AtWork
      PROVE  TeamInv'
  <2>1. /\ Orderly(file) => Orderly(file')
        /\ \A k \in Recorded(file') : k \in Recorded(file) \/ k \in ms
        /\ ToldInv'
    BY <1>1, <1>6, RegisteringTeams
  <2>2. Recorded(file') \subseteq Recorded(file) \cup Held(busy[a]) \cup AtWork
    BY <1>6, <2>1 DEF Recorded
  <2> QED BY <1>1, <2>1, <2>2, EndsTeams DEF marks
<1> QED BY <1>4, <1>5, <1>6

(* The steps that start sessions: a fresh identity, or one that was waiting *)
(* to be resumed under its own name.                                        *)
LEMMA SessionsKeepTeams ==
  ASSUME Types, TeamInv, NEW a \in Actors,
         \/ \E n \in Names : LaunchFresh(a, n)
         \/ \E m \in Member : Resume(a, m)
         \/ ReconnectEnds(a)
  PROVE  TeamInv'
<1>1. file' = file /\ marks' = marks /\ strayed' = strayed
  BY DEF LaunchFresh, Resume, ReconnectEnds, world
(* Of a name that was free nothing was told. *)
<1>2. ASSUME NEW n \in Names, \A k \in Names : k # n => live'[k] = live[k],
             live[n] = None \/ live'[n] = live[n]
      PROVE  ToldInv'
  <2>1. \A t \in Teams, k \in Names : Settled(t, k) => Settled(t, k)'
    BY <1>1, <1>2 DEF Settled
  <2> QED BY <1>1, <2>1, ToldStep DEF TeamInv, marks
<1>3. ASSUME NEW b \in Busy, Goto(a, b), b \notin Copying, b \notin Verifying,
             b \in Launching => Distinct(b)
      PROVE  /\ busy' = [busy EXCEPT ![a] = b]
             /\ OrderInv' /\ LaunchInv' /\ FoundInv'
  <2>1. busy' = [busy EXCEPT ![a] = b]
    BY <1>3 DEF Goto
  <2>2. LaunchInv' /\ FoundInv'
    BY <1>3, <2>1, BusyStep DEF TeamInv
  <2>3. relocated' = relocated /\ OrderInv /\ (Orderly(file) => Orderly(file'))
    BY <1>1 DEF marks, TeamInv
  <2>4. OrderInv'
    BY ONLY <1>3, <2>1, <2>3, OrderStep, Types, a \in Actors
  <2> QED BY <2>1, <2>2, <2>4
<1>4. ASSUME NEW n \in Names, LaunchFresh(a, n) PROVE TeamInv'
  <2> DEFINE b == busy[a]
             rest == [b EXCEPT !.todo = @ \ {n}]
             r == b.root
  <2>1. b \in Launching /\ n \in b.todo /\ Distinct(b)
    BY <1>4, Ops DEF LaunchFresh, Doing, Types, BusyOK, TeamInv, LaunchInv
  <2>2. rest \in Launching /\ r \in Roots /\ rest.got = b.got /\ rest.todo = b.todo \ {n}
    BY <2>1 DEF Launching
  <2>3. Distinct(rest)
    BY <2>1, <2>2 DEF Distinct
  <2>4. \A c \in Launching : c \in Busy /\ c \notin Copying /\ c \notin Verifying
    BY Kinds DEF Busy
  <2>5. \A c \in Launching : Held(c) = {m \in c.got : m.sess # None}
    BY Kinds DEF Held, Launching
  <2>6. live \in [Names -> Session \cup {None}]
    BY DEF Types, TypeOK
  <2>7. CASE live[n] # None /\ Goto(a, rest) /\ UNCHANGED <<live, known, written>>
    <3> HIDE DEF rest
    <3>1. AtWork' = AtWork /\ Held(rest) = Held(b)
      BY <2>1, <2>2, <2>5, <2>7 DEF AtWork
    <3>2. ToldInv'
      BY <1>2, <2>7
    <3>3. SeenInv'
      BY <1>1, <1>3, <2>2, <2>3, <2>4, <2>7, <3>1, SeenKept DEF TeamInv
    <3> QED BY <1>3, <2>2, <2>3, <2>4, <2>7, <3>2, <3>3 DEF TeamInv
  <2>8. ASSUME live[n] = None, NEW s \in Fresh, Appears(n, r, s, FALSE),
               Goto(a, [rest EXCEPT !.got = @ \cup {[tmux |-> n, sess |-> s]}])
        PROVE  TeamInv'
    <3> DEFINE x == [tmux |-> n, sess |-> s]
               c == [rest EXCEPT !.got = @ \cup {x}]
    <3>1. x \in Member /\ x.tmux = n /\ x.sess = s /\ s \in known' /\ s \notin known
          /\ known \subseteq known'
      BY <2>8 DEF Member, Fresh, Appears
    <3>2. live' = [live EXCEPT ![n] = [cwd |-> r, sess |-> s]]
      BY <2>8 DEF Appears
    <3> HIDE DEF x, rest
    <3>3. c \in Launching /\ c.got = b.got \cup {x} /\ c.todo = b.todo \ {n}
      BY <2>2, <3>1 DEF Launching
    <3>4. Distinct(c)
      BY <2>1, <3>1, <3>3 DEF Distinct
    <3>5. Goto(a, c)
      BY <2>8 DEF x
    <3> HIDE DEF c
    <3>6. \A m \in AtWork' : m = x \/ m \in AtWork
      BY <2>6, <3>1, <3>2 DEF AtWork, Member
    <3>7. \A m \in Held(c) : m = x \/ m \in Held(b)
      BY <2>1, <2>5, <3>3
    <3>8. ToldInv'
      BY <1>2, <2>6, <2>8, <3>2
    <3>9. busy' = [busy EXCEPT ![a] = c] /\ c \in Busy /\ OrderInv' /\ LaunchInv' /\ FoundInv'
      BY <1>3, <2>4, <3>3, <3>4, <3>5
    <3>10. SeenInv'
      BY <1>1, <3>1, <3>6, <3>7, <3>9, SeenStep DEF TeamInv
    <3> QED BY <3>8, <3>9, <3>10 DEF TeamInv
  <2>9. CASE /\ live[n] = None
             /\ live' = [live EXCEPT ![n] = [cwd |-> r, sess |-> None]]
             /\ Goto(a, rest)
             /\ UNCHANGED <<known, written>>
    <3> HIDE DEF rest
    <3>1. AtWork' \subseteq AtWork
      BY <2>6, <2>9 DEF AtWork, Member
    <3>2. Held(rest) = Held(b)
      BY <2>1, <2>2, <2>5
    <3>3. ToldInv'
      BY <1>2, <2>6, <2>9
    <3>4. SeenInv'
      BY <1>1, <1>3, <2>2, <2>3, <2>4, <2>9, <3>1, <3>2, SeenKept DEF TeamInv
    <3> QED BY <1>3, <2>2, <2>3, <2>4, <2>9, <3>3, <3>4 DEF TeamInv
  <2> QED BY <1>4, <2>7, <2>8, <2>9 DEF LaunchFresh
<1>5. ASSUME NEW m \in Member, Resume(a, m) PROVE TeamInv'
  <2> DEFINE b == busy[a]
             rest == [b EXCEPT !.todo = @ \ {m}]
             n == m.tmux
  <2>1. b \in Reconnecting /\ m \in b.todo
    BY <1>5, Ops DEF Resume, Doing, Types, BusyOK
  <2>2. rest \in Reconnecting /\ rest.todo \subseteq b.todo
    BY <2>1 DEF Reconnecting
  <2> HIDE DEF rest
  <2>3. rest \in Busy /\ rest \notin Copying /\ rest \notin Verifying /\ rest \notin Launching
    BY <2>2, Kinds DEF Busy
  <2>4. live \in [Names -> Session \cup {None}] /\ n \in Names
    BY DEF Types, TypeOK, Member
  <2>5. /\ Goto(a, rest) /\ known' = known
        /\ \/ live' = live
           \/ live[n] = None /\ \E s \in {m.sess, None} :
                live' = [live EXCEPT ![n] = [cwd |-> b.root, sess |-> s]]
    BY <1>5 DEF Resume, rest
  <2>6. Held(rest) \subseteq Held(b)
    BY <2>1, <2>2, Kinds DEF Held
  <2>7. m.sess # None => m \in Held(b)
    BY <2>1 DEF Held
  <2> HIDE DEF b
  <2>8. \A k \in AtWork' : k \in AtWork \/ k \in Held(b)
    <3>1. CASE live' = live
      BY <3>1 DEF AtWork
    <3>2. ASSUME NEW s \in {m.sess, None}, live' = [live EXCEPT ![n] = [cwd |-> b.root, sess |-> s]],
                 NEW k \in AtWork', k \notin AtWork
          PROVE  k \in Held(b)
      <4>1. k \in Member /\ k.sess # None /\ k.tmux = n /\ k.sess = s
        BY <2>4, <3>2 DEF AtWork, Member
      <4>2. k = m
        BY <4>1 DEF Member
      <4> QED BY <2>7, <4>1, <4>2
    <3> QED BY <2>5, <3>1, <3>2
  <2>9. ToldInv'
    BY <1>2, <2>4, <2>5
  <2>10. busy' = [busy EXCEPT ![a] = rest] /\ OrderInv' /\ LaunchInv' /\ FoundInv'
    BY <1>3, <2>3, <2>5
  <2>11. SeenInv'
    BY <1>1, <2>3, <2>5, <2>6, <2>8, <2>10, SeenKept DEF TeamInv, b
  <2> QED BY <2>9, <2>10, <2>11 DEF TeamInv
<1>6. CASE ReconnectEnds(a)
  <2>1. End(a) /\ world' = world
    BY <1>6 DEF ReconnectEnds
  <2>2. ToldInv'
    BY <1>1, <2>1, ToldKept DEF TeamInv, marks
  <2> QED BY <1>1, <2>1, <2>2, EndsTeams DEF marks
<1> QED BY <1>4, <1>5, <1>6

-----------------------------------------------------------------------------
LEMMA Start == Init => Types /\ LeadInv /\ TeamInv
<1> SUFFICES ASSUME Init PROVE Types /\ LeadInv /\ TeamInv
  OBVIOUS
<1>1. Registered(file) = {} /\ Copies = {}
  BY IdleBusy DEF Init, Registered, Copies
<1>2. BusyOK
  BY <1>1, IdleBusy DEF Init, BusyOK
<1>3. TypeOK
  BY DEF Init, TypeOK, Registry
<1>4. \A a \in Actors : busy[a] \notin Launching /\ busy[a] \notin Verifying /\ Held(busy[a]) = {}
  BY Kinds DEF Init, Held
<1>5. Seen = {}
  BY <1>1, <1>4 DEF Init, Seen, Recorded, AtWork, Member
<1>6. TeamInv
  BY <1>1, <1>4, <1>5 DEF Init, TeamInv, OrderInv, Orderly, LaunchInv, FoundInv, SeenInv, ToldInv
<1> QED BY <1>1, <1>2, <1>3, <1>6 DEF Types, LeadInv, Led

LEMMA Step ==
  Types /\ LeadInv /\ TeamInv /\ [Next]_vars => Types' /\ LeadInv' /\ TeamInv'
<1> SUFFICES ASSUME Types, LeadInv, TeamInv, [Next]_vars
             PROVE  Types' /\ LeadInv' /\ TeamInv'
  OBVIOUS
<1>1. CASE UNCHANGED vars
  <2>1. Types' /\ LeadInv'
    BY <1>1 DEF vars, world, marks, Types, TypeOK, BusyOK, LeadInv, Copies
  <2>2. OrderInv' /\ LaunchInv' /\ FoundInv'
    BY <1>1 DEF vars, marks, TeamInv, OrderInv, LaunchInv, FoundInv, Copies
  <2>3. SeenInv' /\ ToldInv'
    BY <1>1 DEF vars, world, marks, TeamInv, SeenInv, Seen, AtWork, ToldInv, Settled
  <2> QED BY <2>1, <2>2, <2>3 DEF TeamInv
<1>2. ASSUME NEW a \in Actors, Continues(a) PROVE Types' /\ LeadInv' /\ TeamInv'
  <2>1. Types' /\ LeadInv'
    BY <1>2, RelocateKeeps, CaptureKeeps, VerifyKeeps, EntersKeep, SessionsKeep DEF Continues
  <2>2. TeamInv'
    BY <1>2, RelocateKeepsTeams, CaptureKeepsTeams, VerifyKeepsTeams, EntersKeepTeams,
       SessionsKeepTeams DEF Continues
  <2> QED BY <2>1, <2>2
<1>3. CASE Moves
  BY <1>3, MovesKeep, MovesKeepTeams
<1>4. ASSUME NEW a \in Actors, Quick(a) PROVE Types' /\ LeadInv' /\ TeamInv'
  BY <1>4, QuickKeeps, QuickKeepsTeams
<1> QED BY <1>1, <1>2, <1>3, <1>4, SlowKeeps DEF Next

(* teams.json stays a registry of teams, through any operations begun,     *)
(* overtaken and ended in any order.                                       *)
THEOREM TypeCorrect == Spec => []TypeOK
<1>1. Types => TypeOK
  BY DEF Types
<1> QED BY <1>1, Start, Step, PTL DEF Spec

(* Whoever is registered as a team's lead is one of its members, as long   *)
(* as verify_and_refresh_identity has not renamed one.                     *)
THEOREM LeadsAreMembers == Spec => []LeadIsMember
<1>1. LeadInv => LeadIsMember
  BY DEF LeadInv, Led, LeadIsMember
<1> QED BY <1>1, Start, Step, PTL DEF Spec

(* A live session is one member's at most until a team is relocated, and   *)
(* no conversation is live under two names, resumed by two screens at once *)
(* or restarted in between, unless a session was renamed or moved.         *)
THEOREM SessionsAreOnes == Spec => []OneToOne
<1>1. Types /\ TeamInv => OneToOne
  <2> SUFFICES ASSUME Types, TeamInv PROVE OneToOne
    OBVIOUS
  <2>1. ASSUME ~relocated, NEW n \in Names, NEW c \in Claimants(n), NEW d \in Claimants(n)
        PROVE  c = d
    <3>1. PICK t \in Registered(file) : \E m \in file[t].members :
                 c = <<t, m>> /\ m.tmux = n /\ Running(file[t], m, live)
      BY DEF Claimants
    <3>2. PICK m \in file[t].members : c = <<t, m>> /\ m.tmux = n /\ Running(file[t], m, live)
      BY <3>1
    <3>3. PICK u \in Registered(file) : \E k \in file[u].members :
                 d = <<u, k>> /\ k.tmux = n /\ Running(file[u], k, live)
      BY DEF Claimants
    <3>4. PICK k \in file[u].members : d = <<u, k>> /\ k.tmux = n /\ Running(file[u], k, live)
      BY <3>3
    <3>5. Orderly(file)
      BY <2>1 DEF TeamInv, OrderInv
    <3>6. t = u
      BY <3>2, <3>4, <3>5 DEF Running, Orderly
    <3> QED BY <3>2, <3>4, <3>5, <3>6 DEF Orderly
  <2>2. ASSUME ~strayed, NEW n \in Names, NEW m \in Names, live[n] # None, live[m] # None,
               live[n].sess = live[m].sess, live[n].sess # None
        PROVE  n = m
    <3> DEFINE at(k) == [tmux |-> k, sess |-> live[k].sess]
    <3>1. at(n) \in AtWork /\ at(m) \in AtWork
      BY <2>2 DEF AtWork, Member, Types, TypeOK, Session
    <3> QED BY <2>2, <3>1 DEF TeamInv, SeenInv, Seen
  <2> QED BY <2>1, <2>2 DEF OneToOne
<1> QED BY <1>1, Start, Step, PTL DEF Spec

(* No delivery announces as new a session that was announced to the team    *)
(* before, unless a stale copy brought the former identity back or a       *)
(* relocation gave two members one name.                                   *)
THEOREM RestartsAreToldOnce == Spec => []ToldOnce
<1>1. TeamInv => ToldOnce
  BY DEF TeamInv, ToldInv, ToldOnce
<1> QED BY <1>1, Start, Step, PTL DEF Spec

=============================================================================
