----------------------------- MODULE VoiceSession ------------------------------
(***************************************************************************)
(* A voice session: VoiceSessionRuntime (saap/voice/session_runtime.py)    *)
(* over PiperTTS (saap/plugins/voice/piper).                               *)
(*                                                                         *)
(* A turn is one call of run_turn(): it listens, then asks the dialog for  *)
(* a sentence, has a thread synthesize it, and yields the chunks that the  *)
(* thread puts on a queue.  All turns of a session share is_speaking and   *)
(* the barge-in flag, and nothing in the code keeps a turn from starting   *)
(* before the last one is over: the microphone has to be heard while the   *)
(* agent speaks.  What a turn does between two awaits is one action.       *)
(*                                                                         *)
(* Audio, texts and the latency ledger are left out: a chunk is its number *)
(* in its turn, and a blank sentence, which Piper skips, changes nothing.  *)
(***************************************************************************)
EXTENDS Naturals, Sequences

CONSTANTS
  Turns,
  MaxSentences,   \* bound: sentences the dialog answers in a turn
  MaxChunks,      \* bound: chunks synthesized in a turn
  End             \* _SENTINEL

ASSUME BoundsAssumption == MaxSentences \in Nat /\ MaxChunks \in Nat
ASSUME EndAssumption == End \notin Nat

VARIABLES
  speaking,   \* _speaking
  barge_in,   \* _barge_in
  at,         \* at[t]: where the turn stands
  sentences,  \* sentences[t]: how many sentences the dialog has given t
  thread,     \* thread[t]: is the worker that synthesizes t's sentence at work
  queue,      \* queue[t]: the queue between that worker and t
  orphan,     \* orphan[t]: t was cancelled and left a thread behind in q.get
  made,       \* history: chunks synthesized for t
  heard,      \* history: the chunks t has yielded
  ended,      \* history: turns that came to their regular end
  dropped,    \* history: of these, those that dropped a sentence or a chunk
  barged,     \* history: turns that were speaking when a barge-in was accepted
  overruled,  \* history: of these, those after which another turn began to speak
  undercut    \* history: turns that were speaking when another turn ended

flags == <<speaking, barge_in>>
audio == <<sentences, thread, queue, orphan, made, heard>>
history == <<ended, dropped, barged, overruled, undercut>>
vars == <<flags, at, audio, history>>

-----------------------------------------------------------------------------
\* A turn that speaks awaits a sentence of the dialog or a chunk of the thread,
\* stands at its yield, or was left there by a caller who iterates no more.
Speaking == {"asking", "getting", "yielded", "left"}
Places == {"idle", "listening", "done"} \cup Speaking

TypeOK ==
  /\ speaking \in BOOLEAN
  /\ barge_in \in BOOLEAN
  /\ at \in [Turns -> Places]
  /\ sentences \in [Turns -> 0..MaxSentences]
  /\ thread \in [Turns -> {"on", "off"}]
  /\ queue \in [Turns -> Seq(Nat \cup {End})]
  /\ orphan \in [Turns -> BOOLEAN]
  /\ made \in [Turns -> 0..MaxChunks]
  /\ heard \in [Turns -> Seq(Nat)]
  /\ ended \subseteq Turns
  /\ dropped \subseteq Turns
  /\ barged \subseteq Turns
  /\ overruled \subseteq Turns
  /\ undercut \subseteq Turns

Init ==
  /\ speaking = FALSE
  /\ barge_in = FALSE
  /\ at = [t \in Turns |-> "idle"]
  /\ sentences = [t \in Turns |-> 0]
  /\ thread = [t \in Turns |-> "off"]
  /\ queue = [t \in Turns |-> <<>>]
  /\ orphan = [t \in Turns |-> FALSE]
  /\ made = [t \in Turns |-> 0]
  /\ heard = [t \in Turns |-> <<>>]
  /\ ended = {}
  /\ dropped = {}
  /\ barged = {}
  /\ overruled = {}
  /\ undercut = {}

Goto(t, place) == at' = [at EXCEPT ![t] = place]

Talking == {t \in Turns : at[t] \in Speaking}

-----------------------------------------------------------------------------
(* Listening: frames through the VAD to the speech recognizer.              *)

StartTurn(t) ==
  /\ at[t] = "idle"
  /\ Goto(t, "listening")
  /\ UNCHANGED <<flags, audio, history>>

\* No final transcript, a blank one, an exception, or a cancellation.
HearNothing(t) ==
  /\ at[t] = "listening"
  /\ Goto(t, "done")
  /\ UNCHANGED <<flags, audio, history>>

\* Mutant: the flag is left as the last turn left it.
HearUtteranceStale(t) ==
  /\ at[t] = "listening"
  /\ Goto(t, "asking")
  /\ speaking' = TRUE
  /\ overruled' = overruled \cup barged
  /\ UNCHANGED <<barge_in, audio, ended, dropped, barged, undercut>>

HearUtterance(t) ==
  /\ at[t] = "listening"
  /\ Goto(t, "asking")
  /\ speaking' = TRUE
  /\ barge_in' = FALSE
  /\ overruled' = overruled \cup barged
  /\ UNCHANGED <<audio, ended, dropped, barged, undercut>>

-----------------------------------------------------------------------------
(* Speaking.                                                                *)

\* Mutant: the flag is cleared after the loop instead of in a finally, so a
\* generator closed at its yield never gets there.
FinishAfterLoop(t) ==
  /\ Goto(t, "done")
  /\ speaking' = (speaking /\ at[t] \in {"yielded", "left"})
  /\ undercut' = undercut \cup (Talking \ {t})
  /\ UNCHANGED <<barge_in, barged, overruled>>

\* The finally block, on every way out.
Finish(t) ==
  /\ Goto(t, "done")
  /\ speaking' = FALSE
  /\ undercut' = undercut \cup (Talking \ {t})
  /\ UNCHANGED <<barge_in, barged, overruled>>

FinishRegularly(t) == Finish(t) /\ ended' = ended \cup {t}

Drop(t) == FinishRegularly(t) /\ dropped' = dropped \cup {t}

\* The dialog gives another sentence, and PiperTTS starts a thread for it.
NextSentence(t) ==
  /\ at[t] = "asking"
  /\ sentences[t] < MaxSentences
  /\ ~ barge_in
  /\ Goto(t, "getting")
  /\ sentences' = [sentences EXCEPT ![t] = @ + 1]
  /\ thread' = [thread EXCEPT ![t] = "on"]
  /\ queue' = [queue EXCEPT ![t] = <<>>]
  /\ UNCHANGED <<flags, orphan, made, heard, history>>

\* dialog_tokens() drops the sentence and returns.
SentenceDropped(t) ==
  /\ at[t] = "asking"
  /\ sentences[t] < MaxSentences
  /\ barge_in
  /\ Drop(t)
  /\ UNCHANGED audio

DialogEnds(t) ==
  /\ at[t] = "asking"
  /\ FinishRegularly(t)
  /\ UNCHANGED <<audio, dropped>>

DialogRaises(t) ==
  /\ at[t] = "asking"
  /\ Finish(t)
  /\ UNCHANGED <<audio, ended, dropped>>

\* Mutant: the flag is looked at only between sentences.
GetChunkUnchecked(t) ==
  /\ at[t] = "getting"
  /\ queue[t] # <<>> /\ Head(queue[t]) # End
  /\ queue' = [queue EXCEPT ![t] = Tail(@)]
  /\ heard' = [heard EXCEPT ![t] = Append(@, Head(queue[t]))]
  /\ Goto(t, "yielded")
  /\ UNCHANGED <<flags, sentences, thread, orphan, made, history>>

\* The thread's next chunk is yielded, unless the caller has barged in.
GetChunk(t) ==
  /\ at[t] = "getting"
  /\ queue[t] # <<>> /\ Head(queue[t]) # End
  /\ ~ barge_in
  /\ queue' = [queue EXCEPT ![t] = Tail(@)]
  /\ heard' = [heard EXCEPT ![t] = Append(@, Head(queue[t]))]
  /\ Goto(t, "yielded")
  /\ UNCHANGED <<flags, sentences, thread, orphan, made, history>>

\* The break: the chunk is dropped, the thread goes on for nobody.
ChunkDropped(t) ==
  /\ at[t] = "getting"
  /\ queue[t] # <<>> /\ Head(queue[t]) # End
  /\ barge_in
  /\ queue' = [queue EXCEPT ![t] = Tail(@)]
  /\ Drop(t)
  /\ UNCHANGED <<sentences, thread, orphan, made, heard>>

GetEnd(t) ==
  /\ at[t] = "getting"
  /\ queue[t] # <<>> /\ Head(queue[t]) = End
  /\ queue' = [queue EXCEPT ![t] = Tail(@)]
  /\ Goto(t, "asking")
  /\ UNCHANGED <<flags, sentences, thread, orphan, made, heard, history>>

-----------------------------------------------------------------------------
(* The thread: worker() of _iter_in_thread.                                 *)

Synthesize(t) ==
  /\ thread[t] = "on"
  /\ made[t] < MaxChunks
  /\ made' = [made EXCEPT ![t] = @ + 1]
  /\ queue' = [queue EXCEPT ![t] = Append(@, made[t] + 1)]
  /\ UNCHANGED <<flags, at, sentences, thread, orphan, heard, history>>

\* Mutant: a synthesis that raises before its first chunk puts no sentinel.
ThreadEndsSilently(t) ==
  /\ thread[t] = "on"
  /\ thread' = [thread EXCEPT ![t] = "off"]
  /\ queue' = [queue EXCEPT ![t] = IF @ = <<>> THEN @ ELSE Append(@, End)]
  /\ UNCHANGED <<flags, at, sentences, orphan, made, heard, history>>

\* The sentence is done, or the voice raised: the sentinel either way, and
\* nobody learns of the exception.
ThreadEnds(t) ==
  /\ thread[t] = "on"
  /\ thread' = [thread EXCEPT ![t] = "off"]
  /\ queue' = [queue EXCEPT ![t] = Append(@, End)]
  /\ UNCHANGED <<flags, at, sentences, orphan, made, heard, history>>

\* The executor thread a cancelled turn left behind gets an item and returns.
OrphanReturns(t) ==
  /\ orphan[t]
  /\ queue[t] # <<>>
  /\ orphan' = [orphan EXCEPT ![t] = FALSE]
  /\ queue' = [queue EXCEPT ![t] = Tail(@)]
  /\ UNCHANGED <<flags, at, sentences, thread, made, heard, history>>

-----------------------------------------------------------------------------
(* The caller.                                                              *)

NotifyBargeIn ==
  /\ speaking
  /\ barge_in' = TRUE
  /\ barged' = barged \cup Talking
  /\ UNCHANGED <<speaking, at, audio, ended, dropped, overruled, undercut>>

AskNext(t) ==
  /\ at[t] = "yielded"
  /\ Goto(t, "getting")
  /\ UNCHANGED <<flags, audio, history>>

\* aclose() at the yield, or a cancellation at an await.
Close(t) ==
  /\ at[t] \in {"asking", "getting", "yielded"}
  /\ Finish(t)
  /\ orphan' = [orphan EXCEPT ![t] = at[t] = "getting"]
  /\ UNCHANGED <<sentences, thread, queue, made, heard, ended, dropped>>

\* The caller drops the generator; its finally runs when the loop finalizes it.
Leave(t) ==
  /\ at[t] = "yielded"
  /\ Goto(t, "left")
  /\ UNCHANGED <<flags, audio, history>>

Finalize(t) ==
  /\ at[t] = "left"
  /\ Finish(t)
  /\ UNCHANGED <<audio, ended, dropped>>

-----------------------------------------------------------------------------
TurnStep(t) ==
  \/ NextSentence(t) \/ SentenceDropped(t) \/ DialogEnds(t) \/ DialogRaises(t)
  \/ GetChunk(t) \/ ChunkDropped(t) \/ GetEnd(t)

CallerStep(t) == AskNext(t) \/ Close(t) \/ Leave(t) \/ Finalize(t)

ThreadStep(t) == Synthesize(t) \/ ThreadEnds(t)

Next ==
  \/ \E t \in Turns :
       \/ StartTurn(t) \/ HearNothing(t) \/ HearUtterance(t)
       \/ TurnStep(t) \/ CallerStep(t) \/ ThreadStep(t) \/ OrphanReturns(t)
  \/ NotifyBargeIn

Spec == Init /\ [][Next]_vars

\* The loop and the threads run; the dialog's answer and a sentence's audio
\* are finite; a caller at the yield asks on, closes or drops the generator,
\* and the loop finalizes what was dropped.
Fairness ==
  \A t \in Turns :
    /\ WF_vars(TurnStep(t))
    /\ WF_vars(ThreadStep(t))
    /\ WF_vars(OrphanReturns(t))
    /\ WF_vars(at[t] \in {"yielded", "left"} /\ CallerStep(t))

FairSpec == Spec /\ Fairness

-----------------------------------------------------------------------------
(* Safety.                                                                  *)

\* A barge-in silences the turn it interrupts: from then on it yields no
\* chunk, neither of the sentence being synthesized nor of a later one,
\* unless another turn began to speak and cleared the flag they share
\* (session_runtime.py:47-48: "Takes effect at the next dialog token / TTS
\* chunk boundary").
BargeInSilences ==
  [][\A t \in barged \ overruled : heard'[t] = heard[t]]_vars

\* What is heard is the synthesized audio in its order, without gaps, and a
\* turn that ran to its regular end was cut short, within a sentence or after
\* one, only by a barge-in that came while it was speaking: none is carried
\* over from an earlier turn.
SpeechIsWhole ==
  \A t \in Turns :
    /\ \A i \in 1..Len(heard[t]) : heard[t][i] = i
    /\ t \in ended \ barged => Len(heard[t]) = made[t] /\ t \notin dropped

\* is_speaking is true only while some turn speaks, whatever way turns end,
\* and it is false while one does only if another turn ended under it.
SpeakingFlagTells ==
  /\ speaking => Talking # {}
  /\ ~ speaking => Talking \subseteq undercut

-----------------------------------------------------------------------------
(* Liveness.                                                                *)

\* A turn that speaks comes to its end, and no thread stays in q.get for ever:
\* neither a voice that raises nor a cancellation leaves anyone waiting.
SpeechEnds == \A t \in Turns : at[t] \in Speaking ~> at[t] = "done" /\ ~ orphan[t]

-----------------------------------------------------------------------------
(* The inductive invariant.                                                 *)

\* A queue q holds the rest of n chunks of which those in h were heard, and the
\* sentinel after it once the thread has ended.
HoldsRest(q, h, n, state) ==
  /\ state = "on" => n = Len(h) + Len(q)
  /\ state = "off" => n + 1 = Len(h) + Len(q) /\ Len(q) # 0
  /\ \A i \in 1..Len(q) :
       q[i] = IF state = "off" /\ i = Len(q) THEN End ELSE Len(h) + i

\* A turn between sentences has nothing outstanding.
NothingOutstanding(t) ==
  thread[t] = "off" /\ Len(queue[t]) = 0 /\ Len(heard[t]) = made[t]

AudioInv(t) ==
  /\ \A i \in 1..Len(heard[t]) : heard[t][i] = i
  /\ at[t] \in {"idle", "listening", "asking"} => NothingOutstanding(t)
  /\ at[t] \in {"getting", "yielded", "left"} =>
       HoldsRest(queue[t], heard[t], made[t], thread[t])
  /\ orphan[t] => at[t] = "done"
  /\ t \in ended => at[t] = "done"
  /\ t \in ended \ barged => thread[t] = "off" /\ Len(heard[t]) = made[t]

\* The shared flag and the turns it was raised for.
FlagInv ==
  /\ barge_in => Talking \subseteq barged
  /\ \A t \in barged \ overruled : at[t] \in Speaking => barge_in

IInv ==
  /\ TypeOK
  /\ SpeakingFlagTells
  /\ FlagInv
  /\ dropped \subseteq barged
  /\ \A t \in Turns : AudioInv(t)
=============================================================================
