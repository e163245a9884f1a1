----------------------------- MODULE Listening -----------------------------
(***************************************************************************)
(* The listening half of a voice turn: frames go through SileroVAD         *)
(* (saap/plugins/voice/silero) into FasterWhisperSTT.stream()              *)
(* (saap/plugins/voice/faster_whisper), as run_turn() pulls them           *)
(* (saap/voice/session_runtime.py).  All turns of a session share the      *)
(* detector, whose state outlives them: run_turn() never resets it.  What  *)
(* the two neural models answer is free: whether a frame is speech, and    *)
(* whether a buffer has words.  VoiceSession models what follows.          *)
(***************************************************************************)
EXTENDS Naturals, Sequences

CONSTANTS
  ListeningTurns,
  Interval,      \* partial_interval_frames
  FramesHeard    \* bound on the frames of a turn

ASSUME ListeningAssumption == Interval \in Nat \ {0} /\ FramesHeard \in Nat

VARIABLES
  vad,       \* _is_speaking, and _elapsed_ms in frames
  heard,     \* history: whether each frame since the last reset() was speech
  vadEvents, \* history: what process_frame() returned since then
  hearing    \* per turn, the generator stream() and what run_turn() took from it

listeningVars == <<vad, heard, vadEvents, hearing>>

ListeningInit ==
  /\ vad = [speaking |-> FALSE, elapsed |-> 0] /\ heard = <<>> /\ vadEvents = <<>>
  /\ hearing = [t \in ListeningTurns |->
       [at |-> "frames", buffer |-> 0, since |-> 0, partials |-> <<>>, utterance |-> 0]]

\* _transition(): an event where the frame differs from the one before.
Transition(speaking, speech, elapsed) ==
  IF speech = speaking THEN <<>>
  ELSE <<[kind |-> IF speech THEN "speech_start" ELSE "speech_end", timestamp |-> elapsed]>>

\* Mutant: one frame late.
PartialOverdue(since) == since > Interval

PartialDue(since) == since >= Interval

\* A frame passes the detector, is buffered, and may be the one that makes a
\* partial transcription due.
HearFrame(t, speech) ==
  /\ hearing[t].at = "frames" /\ hearing[t].buffer < FramesHeard
  /\ vad' = [speaking |-> speech, elapsed |-> vad.elapsed + 1]
  /\ vadEvents' = vadEvents \o Transition(vad.speaking, speech, vad'.elapsed)
  /\ heard' = Append(heard, speech)
  /\ hearing' = [hearing EXCEPT ![t].buffer = @ + 1, ![t].since = @ + 1,
                                ![t].at = IF PartialDue(hearing[t].since + 1) THEN "partial" ELSE @]

\* A frame of another size raises through stream() into run_turn(), which
\* ends with all it had buffered.
OddFrame(t) ==
  /\ hearing[t].at = "frames"
  /\ hearing' = [hearing EXCEPT ![t].at = "raised"]
  /\ UNCHANGED <<vad, heard, vadEvents>>

\* The executor returns from transcribing the whole buffer; other turns may
\* have passed frames to the detector meanwhile.
Transcribed(t, words) ==
  LET h == hearing[t]
      partial == [frames |-> h.buffer, final |-> h.at = "final"]
  IN /\ h.at \in {"partial", "final"}
     /\ hearing' = [hearing EXCEPT
          ![t] = [at        |-> IF partial.final THEN "done" ELSE "frames",
                  buffer    |-> h.buffer,
                  since     |-> IF partial.final THEN h.since ELSE 0,
                  partials  |-> IF words THEN Append(h.partials, partial) ELSE h.partials,
                  utterance |-> IF words /\ partial.final THEN partial.frames ELSE h.utterance]]
     /\ UNCHANGED <<vad, heard, vadEvents>>

\* The caller's frames end.
EndFrames(t) ==
  /\ hearing[t].at = "frames"
  /\ hearing' = [hearing EXCEPT ![t].at = IF hearing[t].buffer = 0 THEN "done" ELSE "final"]
  /\ UNCHANGED <<vad, heard, vadEvents>>

\* reset(), which no turn calls.
ResetVAD ==
  /\ heard # <<>>
  /\ vad' = [speaking |-> FALSE, elapsed |-> 0] /\ heard' = <<>> /\ vadEvents' = <<>>
  /\ UNCHANGED hearing

ListeningNext ==
  \/ \E t \in ListeningTurns :
       \/ \E speech \in BOOLEAN : HearFrame(t, speech)
       \/ \E words \in BOOLEAN : Transcribed(t, words)
       \/ OddFrame(t) \/ EndFrames(t)
  \/ ResetVAD

-----------------------------------------------------------------------------
\* The frames with which speech begins or ends.
Edges == {n \in DOMAIN heard : heard[n] # (n > 1 /\ heard[n - 1])}

\* The detector reports each beginning and each end of speech once, in order,
\* at the frame where it happened, whichever turns the frames belong to and
\* where one ends in the middle of speech.  A partial covers all frames of its
\* own turn up to a multiple of the interval, never of the same length twice,
\* and the utterance a turn is answered for covers every frame of it.
ListeningIsExact ==
  /\ {vadEvents[k].timestamp : k \in DOMAIN vadEvents} = Edges
  /\ \A k \in DOMAIN vadEvents :
       LET e == vadEvents[k] IN
       /\ k > 1 => vadEvents[k - 1].timestamp < e.timestamp
       /\ e.kind = IF heard[e.timestamp] THEN "speech_start" ELSE "speech_end"
  /\ \A t \in ListeningTurns :
       LET partials == hearing[t].partials IN
         /\ \A i \in DOMAIN partials :
              /\ ~ partials[i].final => partials[i].frames % Interval = 0
              /\ partials[i].final => i = Len(partials)
              /\ i > 1 /\ ~ partials[i].final => partials[i - 1].frames < partials[i].frames
         /\ hearing[t].at = "partial" => hearing[t].buffer % Interval = 0
         /\ hearing[t].utterance \in {0, hearing[t].buffer}
         /\ hearing[t].utterance # 0 => hearing[t].at = "done"
=============================================================================
