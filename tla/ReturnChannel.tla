---------------------------- MODULE ReturnChannel ----------------------------
(***************************************************************************)
(* What the return channel promises, independently of files, locks and     *)
(* processes: every message an agent hands to jarvis_say moves forward     *)
(* through                                                                 *)
(*                                                                         *)
(*     new -> queued -> claimed -> spoken                                  *)
(*                                                                         *)
(* A queued message can only leave the queue by being claimed for an       *)
(* utterance, every queued message is claimed by the same utterance, a     *)
(* message is claimed once and spoken once, and the only message that may  *)
(* disappear is one a process had already claimed when it died or when     *)
(* the utterance raised.                                                   *)
(***************************************************************************)

CONSTANT Items    \* the messages the agents will ever hand over

VARIABLE status   \* how far each message has come

Stage == {"new", "queued", "claimed", "spoken", "lost"}

TypeOK == status \in [Items -> Stage]

(* The messages that have come as far as stage s. *)
At(s) == {i \in Items : status[i] = s}

(* Every message of S moves to stage s; no other message moves. *)
MoveTo(S, s) == status' = [i \in Items |-> IF i \in S THEN s ELSE status[i]]

Init == status = [i \in Items |-> "new"]

(* A batchable message is persisted. *)
Queue(i) == status[i] = "new" /\ MoveTo({i}, "queued")

(* An answer or an error is handed straight to a speaker. *)
SpeakAtOnce(i) == status[i] = "new" /\ MoveTo({i}, "claimed")

(* A flusher takes the whole queue as one utterance. *)
Claim == At("queued") # {} /\ MoveTo(At("queued"), "claimed")

(* A claimed utterance is heard. *)
Say(S) == S # {} /\ S \subseteq At("claimed") /\ MoveTo(S, "spoken")

(* The process that had claimed these utterances dies, or fails to say them. *)
Lose(S) == S # {} /\ S \subseteq At("claimed") /\ MoveTo(S, "lost")

Next == \/ \E i \in Items : Queue(i) \/ SpeakAtOnce(i)
        \/ Claim
        \/ \E S \in SUBSET Items : Say(S) \/ Lose(S)

Spec == Init /\ [][Next]_status
=============================================================================
