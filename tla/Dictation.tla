------------------------------ MODULE Dictation ------------------------------
(***************************************************************************)
(* l1_wakeword/daemon.py and l2_transcription/vad_chunker.py: one          *)
(* microphone, from the wake word to the finished transcript.              *)
(*                                                                         *)
(* IDLE frames feed the acoustic model; what sounds like the wake word is  *)
(* transcribed before it is believed.  CAPTURING frames are cut into       *)
(* chunks by pauses, chunks with too little speech never leave the         *)
(* chunker, and the text of a chunk may end the dictation, buy time, or be *)
(* dropped as a confabulation.  Otherwise silence ends it.                 *)
(*                                                                         *)
(* A frame is what is heard in it.  Text is the numbers of the frames it   *)
(* came from, so that what was said can be told from what was kept.        *)
(***************************************************************************)
EXTENDS FiniteSets, Functions, Naturals, Sequences

CONSTANTS
  SilenceToCut,  \* SILENCE_MS_TO_CUT, in frames, as are all that follow
  MinChunk,      \* MIN_CHUNK_MS
  MaxChunk,      \* MAX_CHUNK_MS
  MinSpeech,     \* MIN_SPEECH_FRAMES_PER_CHUNK
  SafetyNet,     \* SILENCE_SAFETY_NET_S
  OpeningGrace,  \* SILENCE_OPENING_GRACE_S
  HoldTime,      \* SILENCE_HOLD_S
  VerifyBuffer,  \* VERIFY_BUFFER_FRAMES
  MaxSounds      \* bound: frames that are not quiet

(* The order of the chunker's thresholds and of the three silence limits.  *)
ChunkThresholds == /\ {MinSpeech, MinChunk, SilenceToCut, MaxChunk} \subseteq Nat \ {0}
                   /\ MinSpeech <= MinChunk /\ MinChunk <= SilenceToCut /\ SilenceToCut < MaxChunk
SilenceLimits == /\ {SafetyNet, OpeningGrace, HoldTime} \subseteq Nat
                 /\ SilenceToCut < SafetyNet /\ SafetyNet < OpeningGrace
                 /\ OpeningGrace < MaxChunk /\ MaxChunk < HoldTime

ASSUME DictationAssumption == /\ ChunkThresholds /\ SilenceLimits
                              /\ {MaxSounds, VerifyBuffer} \subseteq Nat

VARIABLES
  mode,        \* "live", or "simulate" over a recorded file that ends
  phase,       \* LiveController.state; "over" once the file has ended
  sounds,      \* frames so far that were not quiet
  last,        \* the last frame heard
  echo,        \* does the acoustic model's buffer still hold a wake word?
  preroll,     \* frames since "Jarvis" was last said, as far as the preroll reaches
  buf,         \* StreamingChunker._buf
  silence,     \* StreamingChunker._silence_run
  hold,        \* DictationSession._hold_active
  transcript,  \* DictationSession.chunks_transcribed
  said,        \* history: frames of speech in this dictation
  dropped,     \* history: those the gate or the filter dropped
  stripped,    \* history: those of the stop phrase that ended it
  hush,        \* history: frames since this dictation last heard speech (saturating)
  called,      \* history: has anything like the wake word been heard since IDLE?
  ending       \* history: how the last dictation ended, and when

session == <<buf, silence, hold, transcript, said, dropped, stripped, hush>>
dictationVars == <<mode, phase, sounds, last, echo, preroll, session, called, ending>>

(* "Jarvis" and a name that sounds like it; a phrase takes two frames.     *)
Quiet == "quiet"
WakeLike == {"jarvis", "charles"}
StopPhrase == <<"thats", "it">>
HoldPhrase == <<"hold", "up">>
Sounds == WakeLike \cup {"word", "thats", "it", "hold", "up"}

(* What may be heard next: a phrase that was begun is finished. *)
Follows(s) ==
  CASE last = "thats" -> s = "it"
    [] last = "hold"  -> s = "up"
    [] OTHER          -> s \notin {"it", "up"}

Heard(s) ==
  /\ Follows(s)
  /\ s # Quiet => sounds < MaxSounds
  /\ s \in {Head(StopPhrase), Head(HoldPhrase)} => sounds + 1 < MaxSounds
  /\ sounds' = IF s = Quiet THEN sounds ELSE sounds + 1
  /\ last' = s
  /\ UNCHANGED mode

-----------------------------------------------------------------------------
(* IDLE: the wake word *)

Forgotten == VerifyBuffer         \* no "Jarvis" in the preroll

(* preroll.append: a deque that forgets. *)
Roll(s) == IF s = "jarvis" THEN 0
           ELSE IF preroll < Forgotten THEN preroll + 1 ELSE Forgotten

(* The score is high on what sounds like the wake word, and may be as long *)
(* as the model's buffer holds one.                                        *)
Scores(s) == IF s \in WakeLike THEN {TRUE} ELSE IF echo THEN BOOLEAN ELSE {FALSE}

(* verify_wake_trigger: Whisper may miss the word, and does not invent it. *)
Verified(s) == IF Roll(s) < Forgotten THEN BOOLEAN ELSE {FALSE}

NewSession ==
  /\ buf' = <<>> /\ silence' = 0 /\ hold' = FALSE /\ transcript' = <<>>
  /\ said' = 0 /\ dropped' = {} /\ stripped' = {} /\ hush' = 0

ListenFrame(s) ==
  /\ phase = "IDLE"
  /\ Heard(s)
  /\ called' = (called \/ s \in WakeLike)
  /\ \E high \in Scores(s), accepted \in Verified(s) :
       /\ echo' \in IF s \in WakeLike THEN {TRUE} ELSE {e \in BOOLEAN : e => echo}
       /\ IF high /\ accepted
          THEN /\ phase' = "CAPTURING"
               /\ preroll' = Forgotten
               /\ NewSession
          ELSE /\ preroll' = Roll(s)
               /\ UNCHANGED <<phase, session>>
  /\ UNCHANGED ending

-----------------------------------------------------------------------------
(* StreamingChunker *)

IsSpeech(s) == s # Quiet
Spoken(b) == {i \in DOMAIN b : IsSpeech(b[i])}
Pushed(s) == Append(buf, s)
Run(s) == IF IsSpeech(s) THEN 0 ELSE silence + 1

CutsOnSilence(s) == /\ Spoken(Pushed(s)) # {}
                    /\ Run(s) >= SilenceToCut
                    /\ Len(Pushed(s)) >= MinChunk
CutsOnLength(s) == Len(Pushed(s)) >= MaxChunk
Cuts(s) == CutsOnSilence(s) \/ CutsOnLength(s)

(* _gate: the one place a chunk leaves the chunker. *)
Gate(b) == Len(b) >= MinChunk /\ Cardinality(Spoken(b)) >= MinSpeech

Buffer(s) == buf' = Pushed(s) /\ silence' = Run(s)
ResetBuffer == buf' = <<>> /\ silence' = 0

-----------------------------------------------------------------------------
(* DictationSession *)

(* The frames of speech in a chunk are the last ones said. *)
SaidNow(s) == said + IF IsSpeech(s) THEN 1 ELSE 0
Frames(b, n) == LET count == Cardinality(Spoken(b))
                IN [i \in 1..count |-> n - count + i]

(* match_stop_phrase, match_hold_phrase: only the end of a chunk counts,   *)
(* the two last frames of speech in it.                                    *)
EndsWith(b, phrase) ==
  \E i, j \in Spoken(b) : /\ i < j /\ b[i] = phrase[1] /\ b[j] = phrase[2]
                          /\ \A k \in Spoken(b) : k <= i \/ k = j
Stops(b) == EndsWith(b, StopPhrase)
Holds(b) == EndsWith(b, HoldPhrase)

(* Mutant: the phrase ends the dictation wherever the chunk was cut. *)
StopNow_AnyCut(s) == Cuts(s) /\ Stops(Pushed(s))
StopNow(s) == CutsOnSilence(s) /\ Stops(Pushed(s))

(* Mutant: one limit before the first word and between words. *)
SilenceLimit_OneNet == IF hold THEN HoldTime ELSE SafetyNet

SilenceLimit == IF hold THEN HoldTime
                ELSE IF transcript = <<>> THEN OpeningGrace
                ELSE SafetyNet

(* Mutant: only a dictation that has text is ended by silence. *)
TimeIsUp_AfterText(s) == transcript # <<>> /\ Run(s) >= SilenceLimit

(* silence_exceeds_safety_net, once the frame is in the buffer. *)
TimeIsUp(s) == Run(s) >= SilenceLimit

Longest == SilenceToCut + HoldTime + 1      \* hush counts no further

Hear(s) ==
  /\ Heard(s)
  /\ said' = SaidNow(s)
  /\ hush' = IF IsSpeech(s) THEN 0 ELSE IF hush < Longest THEN hush + 1 ELSE hush
  /\ preroll' = Roll(s)
  /\ UNCHANGED <<echo, called>>

(* _report_and_deliver and _to_idle, which resets the acoustic model.  The *)
(* session object is dropped; what it held is kept here to be looked at.   *)
ToIdle(how) ==
  /\ phase' = "IDLE"
  /\ ending' = [how |-> how, hush |-> hush']

(* Mutant: as the code was before the replay was found. *)
ResetWakeModel_Never == UNCHANGED echo
ResetWakeModel == echo' = FALSE

(* feed: no chunk yet, or one the gate drops. *)
BufferFrame(s) ==
  /\ phase = "CAPTURING" /\ ~Cuts(s) /\ ~TimeIsUp(s)
  /\ Hear(s) /\ Buffer(s)
  /\ UNCHANGED <<phase, hold, transcript, dropped, stripped, ending>>

DropChunk(s) ==
  /\ phase = "CAPTURING" /\ Cuts(s) /\ ~Gate(Pushed(s))
  /\ Hear(s) /\ ResetBuffer
  /\ dropped' = dropped \cup Range(Frames(Pushed(s), SaidNow(s)))
  /\ UNCHANGED <<phase, hold, transcript, stripped, ending>>

(* filter_transcript takes the chunk for a confabulation. *)
FilterChunk(s) ==
  /\ phase = "CAPTURING" /\ Cuts(s) /\ Gate(Pushed(s))
  /\ Hear(s) /\ ResetBuffer
  /\ dropped' = dropped \cup Range(Frames(Pushed(s), SaidNow(s)))
  /\ UNCHANGED <<phase, hold, transcript, stripped, ending>>

(* Text that goes on: a hold is spent, and a hold phrase buys another. *)
KeepChunk(s) ==
  /\ phase = "CAPTURING" /\ Cuts(s) /\ Gate(Pushed(s))
  /\ ~StopNow(s)
  /\ Hear(s) /\ ResetBuffer
  /\ transcript' = transcript \o Frames(Pushed(s), SaidNow(s))
  /\ hold' = (CutsOnSilence(s) /\ Holds(Pushed(s)))
  /\ UNCHANGED <<phase, dropped, stripped, ending>>

(* Mutant: the chunk goes, not the phrase. *)
StripStopPhrase_Chunk(chunk) == <<>>
StripStopPhrase(chunk) == SubSeq(chunk, 1, Len(chunk) - Len(StopPhrase))

(* The stop phrase: strip_stop_phrase, deliver. *)
StopChunk(s) ==
  /\ phase = "CAPTURING" /\ Cuts(s) /\ Gate(Pushed(s)) /\ StopNow(s)
  /\ Heard(s) /\ said' = SaidNow(s) /\ preroll' = Roll(s) /\ called' = FALSE
  /\ hush' = IF IsSpeech(s) THEN 0 ELSE hush + 1
  /\ ResetBuffer /\ ResetWakeModel
  /\ LET chunk == Frames(Pushed(s), SaidNow(s))
     IN /\ transcript' = transcript \o StripStopPhrase(chunk)
        /\ stripped' = {said' - 1, said'}
  /\ hold' = FALSE
  /\ UNCHANGED dropped
  /\ ToIdle("stop")

(* flush: what is buffered, if anyone spoke, and if the gate and the filter *)
(* let it through.                                                         *)
FlushFinal(b, n) ==
  \E kept \in BOOLEAN :
    LET chunk == Frames(b, n)
        through == Gate(b) /\ kept
    IN /\ transcript' = IF through THEN transcript \o chunk ELSE transcript
       /\ dropped' = IF through THEN dropped ELSE dropped \cup Range(chunk)
       /\ UNCHANGED stripped

(* No stop phrase: what is buffered is transcribed as it is. *)
SilenceEnds(s) ==
  /\ phase = "CAPTURING" /\ ~Cuts(s) /\ TimeIsUp(s)
  /\ Heard(s) /\ said' = SaidNow(s) /\ preroll' = Roll(s) /\ called' = FALSE
  /\ hush' = IF hush < Longest THEN hush + 1 ELSE hush
  /\ FlushFinal(Pushed(s), SaidNow(s)) /\ ResetBuffer /\ ResetWakeModel
  /\ UNCHANGED hold
  /\ ToIdle("silence")

(* simulate: the file ends in the middle of a dictation. *)
EndOfFile ==
  /\ mode = "simulate" /\ phase \in {"IDLE", "CAPTURING"}
  /\ phase' = "over"
  /\ IF phase = "CAPTURING"
     THEN /\ FlushFinal(buf, said) /\ ResetBuffer
          /\ ending' = [how |-> "eof", hush |-> hush]
     ELSE UNCHANGED <<transcript, dropped, stripped, buf, silence, ending>>
  /\ UNCHANGED <<mode, sounds, last, echo, preroll, hold, said, hush, called>>

-----------------------------------------------------------------------------

DictationInit ==
  /\ mode \in {"live", "simulate"}
  /\ phase = "IDLE" /\ sounds = 0 /\ last = Quiet
  /\ echo = FALSE /\ preroll = Forgotten
  /\ buf = <<>> /\ silence = 0 /\ hold = FALSE /\ transcript = <<>>
  /\ said = 0 /\ dropped = {} /\ stripped = {} /\ hush = 0
  /\ called = FALSE
  /\ ending = [how |-> "none", hush |-> 0]

AnyFrame == \E s \in Sounds \cup {Quiet} :
           \/ ListenFrame(s) \/ BufferFrame(s) \/ DropChunk(s) \/ FilterChunk(s)
           \/ KeepChunk(s) \/ StopChunk(s) \/ SilenceEnds(s)

DictationNext == AnyFrame \/ EndOfFile

DictationSpec == DictationInit /\ [][DictationNext]_dictationVars

-----------------------------------------------------------------------------
(* Properties *)

DictationTypeOK ==
  /\ mode \in {"live", "simulate"}
  /\ phase \in {"IDLE", "CAPTURING", "over"}
  /\ sounds \in 0..MaxSounds /\ last \in Sounds \cup {Quiet}
  /\ echo \in BOOLEAN /\ hold \in BOOLEAN /\ called \in BOOLEAN
  /\ preroll \in 0..Forgotten
  /\ buf \in Seq(Sounds \cup {Quiet}) /\ Len(buf) < MaxChunk
  /\ silence \in 0..Len(buf)
  /\ said \in 0..MaxSounds /\ Range(transcript) \cup dropped \cup stripped \subseteq 1..said
  /\ hush \in 0..Longest

(* What was said is in the transcript, once and in the order it was said,   *)
(* or was dropped by the gate or the filter, or was the stop phrase, or     *)
(* waits in the buffer: however pauses, hard cuts and the end fall.         *)
NothingLost ==
  LET waiting == {said - i : i \in 0..(Cardinality(Spoken(buf)) - 1)}
      kept == Range(transcript)
  IN /\ kept \cup dropped \cup stripped \cup waiting = 1..said
     /\ \A i \in 1..(Len(transcript) - 1) : transcript[i] < transcript[i + 1]
     /\ (kept \cup dropped) \cap (stripped \cup waiting) = {} /\ kept \cap dropped = {}

(* A dictation begins on a call and ends on its phrase.  It never begins on *)
(* the wake word of the one before: something like it was said since the    *)
(* daemon went idle (daemon.py _to_idle).  The stop phrase ends it at a     *)
(* pause and nowhere else: not where the hard cap happened to cut           *)
(* (daemon.py:173-182).                                                     *)
PhrasesCount == /\ phase = "CAPTURING" => called
                /\ ending.how = "stop" => ending.hush >= SilenceToCut

(* Silence ends a dictation no sooner than promised: who has not said       *)
(* anything yet has the opening grace, who has the safety net.  Nor later:  *)
(* unless a hold is armed, the microphone closes a pause and a limit after  *)
(* the last sound, with or without a transcript, whatever the chunker       *)
(* counted from (its silence begins anew at every cut).                     *)
EndsOnTime ==
  LET limit == IF transcript = <<>> THEN OpeningGrace ELSE SafetyNet
  IN /\ ending.how = "silence" /\ phase = "IDLE" => ending.hush >= limit
     /\ phase = "CAPTURING" /\ ~hold => hush < SilenceToCut + limit
=============================================================================
