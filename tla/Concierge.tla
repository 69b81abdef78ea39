------------------------------ MODULE Concierge ------------------------------
(***************************************************************************)
(* l2_5_concierge: the local concierge (concierge.py, classifier.py,       *)
(* session_match.py, ollama_client.py), beside the other processes that    *)
(* read and rewrite the dispatch file.                                     *)
(*                                                                         *)
(* A turn is one transcript: it is classified, by keyword or by a small    *)
(* model, and forwarded, answered or kept as small talk.  A transcript is  *)
(* what the rules can tell of it: a keyword, and whether it names a live   *)
(* session.  What the model says is anything; it may also time out.        *)
(***************************************************************************)
EXTENDS DispatchState

CONSTANT NoRef
ASSUME ConciergeAssumption == NoRef \notin Refs

VARIABLES
  toForward, \* is the turn in hand one to forward?
  recent,    \* the dictation forwarded last (forwarded_at), or NoRef
  eaten      \* history: has this very step brought a turn to nothing, and how?

turns == <<toForward, recent, eaten>>
all   == <<vars, turns>>

Labels == {"DISPATCH", "QUERY", "CONTROL", "CHAT", "UNSURE"}
Keywords == {"none", "control", "query"}
Texts  == [keyword : Keywords, names : BOOLEAN]

(* classify_with_model, reclassify_dispatch_or_query: what the model says,  *)
(* where anything unheard of, or nothing in time, is UNSURE.                *)
ModelSays == Labels
AskedAgain == {"DISPATCH", "QUERY", "UNSURE"}

-----------------------------------------------------------------------------
(* classify *)

(* Mutant: a live session's name does not make small talk unavailable. *)
Classify_NoOverride(t) ==
  CASE t.keyword = "control" -> {"CONTROL"}
    [] t.keyword = "query"   -> {"QUERY"}
    [] OTHER                 -> ModelSays

(* Small talk about a live session is asked again, as DISPATCH or QUERY. *)
Classify(t) ==
  CASE t.keyword = "control" -> {"CONTROL"}
    [] t.keyword = "query"   -> {"QUERY"}
    [] t.names               -> (ModelSays \ {"CHAT"}) \cup AskedAgain
    [] OTHER                 -> ModelSays

(* A turn begins when the one process is in no other, nor in what the last  *)
(* one has it do.  Its label needs nothing that another process writes.     *)
Labelled(t, label) ==
  /\ label \in Classify(t)
  /\ ~toForward /\ ~Busy("concierge")
  /\ \A d \in Refs : Forwarder[d] = "concierge" => life[d] \notin {"handed", "undelivered"}

Ways == {"no", "kept", "lost"}

Ends == toForward' = FALSE /\ eaten' = "no" /\ UNCHANGED recent

(* Nothing is heard of the turn, and nobody else has it. *)
EndsSilently(way) == toForward' = FALSE /\ eaten' = way /\ UNCHANGED recent

Forwards == toForward' = TRUE /\ eaten' = "no" /\ UNCHANGED recent

-----------------------------------------------------------------------------
(* DISPATCH and UNSURE: deliver_transcript. *)

Dispatch(t) ==
  /\ \E l \in {"DISPATCH", "UNSURE"} : Labelled(t, l)
  /\ Forwards /\ UNCHANGED vars

Forward(d) ==
  /\ toForward /\ MarkForwarded("concierge", d)
  /\ toForward' = FALSE /\ recent' = d /\ eaten' = "no"

(* No session with the tools, or no record: the refusal is spoken.  What    *)
(* raises in the preflight is caught nowhere.                               *)
CannotForward ==
  /\ toForward /\ UNCHANGED vars
  /\ Ends \/ EndsSilently("lost")

(* The pointer goes out, or what lists the sessions for it raises. *)
HandOver(d) ==
  /\ Deliver(d)
  /\ eaten' = IF life'[d] = "stranded" /\ Forwarder[d] = "concierge" THEN "lost" ELSE "no"
  /\ UNCHANGED <<toForward, recent>>

-----------------------------------------------------------------------------
(* The dispatch file, as the concierge reads it. *)

Healed == [d \in Refs |-> IF Stale(d) THEN "abandoned" ELSE ReadRaw[d]]
Recorded == {d \in Refs : ReadRaw[d] # "none"}

(* Mutant: the dispatch that has got furthest comes before the latest one. *)
Latest_CompletedFirst ==
  LET done == {d \in Recorded : ReadRaw[d] = "complete"}
  IN IF done # {} THEN done ELSE IF recent \in Recorded THEN {recent} ELSE Recorded

(* dispatch_state(): the most recent by forwarded_at.  A record that was    *)
(* lost and made anew has only a later time, or none.                       *)
Latest ==
  IF overlapped \/ crashes > 0 \/ recent \notin Recorded THEN Recorded ELSE {recent}

(* A record that is only a note of the router's has no stage: KeyError. *)
Says(stage) ==
  CASE stage = "complete" -> "finished"
    [] stage = "noted"    -> "error"
    [] OTHER              -> "working"

Answers == IF Recorded = {} THEN {"nothing"} ELSE {Says(Healed[d]) : d \in Latest}

(* _chat_facts: the same news as a fact for small talk, which no record can *)
(* make raise.                                                              *)
ChatFacts ==
  IF Recorded = {} THEN {"nothing"}
  ELSE {IF Healed[d] = "complete" THEN "finished" ELSE "working" : d \in Latest}

(* Reading writes, if there is something to heal. *)
ReadState ==
  IF \E d \in Refs : Stale(d)
  THEN /\ \E d \in Refs : Stale(d) /\ Begin("concierge", "heal", d, Healed)
       /\ UNCHANGED age
  ELSE UNCHANGED vars

-----------------------------------------------------------------------------
(* CONTROL, QUERY and CHAT. *)

(* The last sentence again, or "nothing to cancel". *)
Control(t) == Labelled(t, "CONTROL") /\ Ends /\ UNCHANGED vars

(* Anything that raises on the way to an answer makes it a dispatch. *)
FallsBack == Forwards

(* A sentence, an exception, or an empty reply, which is "spoken" too. *)
PhraseAnswer == {"sentence", "raises", "empty"}

(* About cost, the running sessions, or one session: from the providers. *)
AnswerElse(t) ==
  /\ Labelled(t, "QUERY")
  /\ \E answer \in PhraseAnswer :
       \/ answer = "sentence" /\ Ends
       \/ answer = "empty" /\ EndsSilently("lost")
       \/ answer = "raises" /\ FallsBack
  /\ UNCHANGED vars

(* About the last dispatch. *)
AnswerState(t) ==
  /\ Labelled(t, "QUERY") /\ ReadState
  /\ \E answer \in Answers :
       \/ answer # "error" /\ Ends
       \/ answer = "error" /\ FallsBack

(* assess_retention: what sounds like an order gets no verdict.  A model    *)
(* that answers nothing in time raises, and nothing catches it.             *)
AssessAddressed == {"ADDRESSED", "AMBIENT", "UNSURE", "raises"}
AssessRetention == AssessAddressed \cup {"None"}

PhraseChatReply == PhraseAnswer

(* Small talk is answered from the facts, or comes to nothing. *)
Chat(t) ==
  /\ Labelled(t, "CHAT")
  /\ \E verdict \in AssessRetention :
       \/ verdict \notin {"ADDRESSED", "UNSURE"} /\ UNCHANGED vars
          /\ EndsSilently(IF t.names THEN "kept" ELSE "no")
       \/ /\ verdict \in {"ADDRESSED", "UNSURE"} /\ ReadState
          /\ \E reply \in PhraseChatReply :
               \/ reply = "sentence" /\ Ends
               \/ reply # "sentence" /\ EndsSilently(IF t.names THEN "kept" ELSE "no")

-----------------------------------------------------------------------------
(* The other processes, and the concierge's share of the file protocol. *)

Others ==
  /\ \/ \E d \in Refs : MarkComplete(d) \/ ReportStage(d)
     \/ \E d \in Refs, w \in Procs : MarkFailed(w, d)
     \/ Heal \/ Tick
     \/ \E w \in Procs : Truncate(w) \/ Write(w)
  /\ eaten' = "no" /\ UNCHANGED <<toForward, recent>>

DaemonForwards(d) ==
  MarkForwarded("daemon", d) /\ recent' = d /\ eaten' = "no" /\ UNCHANGED toForward

Dies(w) == Crash(w) /\ eaten' = "no" /\ UNCHANGED <<toForward, recent>>

CInit == Init /\ toForward = FALSE /\ recent = NoRef /\ eaten = "no"

CNext ==
  \/ \E t \in Texts :
       \/ Dispatch(t) \/ Control(t) \/ AnswerElse(t) \/ AnswerState(t) \/ Chat(t)
  \/ \E d \in Refs : Forward(d) \/ DaemonForwards(d) \/ HandOver(d)
  \/ CannotForward \/ Others
  \/ \E w \in Procs : Dies(w)

CSpec == CInit /\ [][CNext]_all /\ Fairness

-----------------------------------------------------------------------------
CTypeOK ==
  /\ TypeOK
  /\ toForward \in BOOLEAN
  /\ recent \in Refs \cup {NoRef} /\ eaten \in Ways

(* Asked whether it is done, or in small talk, the concierge says           *)
(* "finished" when the dictation forwarded last is, and only then, and      *)
(* "nothing" before the first: whatever was completed, failed, noted or     *)
(* healed out of order (concierge.py:99-110, 189-202,                       *)
(* dispatch_state.py:159-182).  Not while a write is under way, or after    *)
(* one was lost.                                                            *)
AnswersAreTrue ==
  Quiet /\ ~overlapped /\ crashes = 0 =>
    /\ \A said \in {Answers, ChatFacts} :
         /\ ("finished" \in said) <=> (recent # NoRef /\ life[recent] = "done")
         /\ ("nothing" \in said) <=> (recent = NoRef)
    /\ "error" \notin Answers

(* A transcript that names a live session is never taken for small talk,    *)
(* whatever the model says of it, twice: it is forwarded, answered or       *)
(* refused aloud, unless the model's answer is empty or the hand-over       *)
(* raises (classifier.py:217-230, concierge.py:254-255, 366, 375-376).      *)
NeverSmallTalk == eaten # "kept"
=============================================================================
