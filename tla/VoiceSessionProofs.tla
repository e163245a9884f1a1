-------------------------- MODULE VoiceSessionProofs ---------------------------
(***************************************************************************)
(* Theorems about VoiceSession, for any number of turns, sentences and     *)
(* chunks.                                                                 *)
(*                                                                         *)
(* The argument: the flag is raised for every turn that speaks, and only   *)
(* a turn that begins to speak clears it, so a turn it was raised for      *)
(* finds it raised whenever it looks, unless it was overruled.  And the    *)
(* queue of a turn always holds exactly what was synthesized and not heard *)
(* yet, so a turn that comes to an end by itself has been heard in full.   *)
(***************************************************************************)
EXTENDS VoiceSession, TLAPS

USE DEF Speaking, Places, flags, audio, history, Goto

-----------------------------------------------------------------------------
(* Initial states.                                                          *)

\* Before the first turn there is nothing to speak, hear or interrupt.
LEMMA InitIInv == Init => IInv
<1> SUFFICES ASSUME Init PROVE IInv
  OBVIOUS
<1>1. TypeOK
  <2>1. <<>> \in Seq(Nat \cup {End}) /\ <<>> \in Seq(Nat)
    OBVIOUS
  <2>2. 0 \in 0..MaxSentences /\ 0 \in 0..MaxChunks
    BY BoundsAssumption
  <2>3. QED
    BY <2>1, <2>2 DEF Init, TypeOK
<1>2. SpeakingFlagTells /\ FlagInv
  BY DEF Init, SpeakingFlagTells, FlagInv, Talking
<1>3. \A t \in Turns : AudioInv(t)
  <2>1. Len(<<>>) = 0 /\ 1..Len(<<>>) = {}
    OBVIOUS
  <2>2. ASSUME NEW t \in Turns PROVE NothingOutstanding(t)
    BY <2>1 DEF Init, NothingOutstanding
  <2>3. ASSUME NEW t \in Turns PROVE \A i \in 1..Len(heard[t]) : heard[t][i] = i
    BY <2>1 DEF Init
  <2>4. QED
    BY <2>2, <2>3 DEF Init, AudioInv
<1>4. dropped \subseteq barged
  BY DEF Init
<1>5. QED
  BY <1>1, <1>2, <1>3, <1>4 DEF IInv

-----------------------------------------------------------------------------
(* Type correctness of each step.                                           *)

\* No step of a turn, its thread or its caller leaves the types.
LEMMA TypeOKStep == IInv /\ [Next]_vars => TypeOK'
<1> SUFFICES ASSUME IInv, [Next]_vars PROVE TypeOK'
  OBVIOUS
<1> USE BoundsAssumption DEF IInv, TypeOK
<1>1. ASSUME NEW t \in Turns, StartTurn(t) \/ HearNothing(t) \/ HearUtterance(t)
      PROVE  TypeOK'
  BY <1>1 DEF StartTurn, HearNothing, HearUtterance
<1>2. ASSUME NEW t \in Turns, NextSentence(t) PROVE TypeOK'
  BY <1>2 DEF NextSentence
<1>3. ASSUME NEW t \in Turns, SentenceDropped(t) \/ DialogEnds(t) \/ DialogRaises(t)
      PROVE  TypeOK'
  BY <1>3 DEF SentenceDropped, DialogEnds, DialogRaises, Drop, FinishRegularly, Finish, Talking
<1>4. ASSUME NEW t \in Turns, GetChunk(t) PROVE TypeOK'
  <2>1. Head(queue[t]) \in Nat /\ Tail(queue[t]) \in Seq(Nat \cup {End})
    BY <1>4 DEF GetChunk
  <2>2. queue' \in [Turns -> Seq(Nat \cup {End})] /\ heard' \in [Turns -> Seq(Nat)]
    BY <1>4, <2>1 DEF GetChunk
  <2>3. QED
    BY <1>4, <2>2 DEF GetChunk
<1>5. ASSUME NEW t \in Turns, ChunkDropped(t) \/ GetEnd(t) \/ OrphanReturns(t)
      PROVE  TypeOK'
  <2>1. Tail(queue[t]) \in Seq(Nat \cup {End})
    BY <1>5 DEF ChunkDropped, GetEnd, OrphanReturns
  <2>2. queue' \in [Turns -> Seq(Nat \cup {End})]
    BY <1>5, <2>1 DEF ChunkDropped, GetEnd, OrphanReturns
  <2>3. QED
    BY <1>5, <2>2
       DEF ChunkDropped, GetEnd, OrphanReturns, Drop, FinishRegularly, Finish, Talking
<1>6. ASSUME NEW t \in Turns, Synthesize(t) PROVE TypeOK'
  <2>1. queue' \in [Turns -> Seq(Nat \cup {End})]
    BY <1>6 DEF Synthesize
  <2>2. QED
    BY <1>6, <2>1 DEF Synthesize
<1>7. ASSUME NEW t \in Turns, ThreadEnds(t) PROVE TypeOK'
  <2>1. queue' \in [Turns -> Seq(Nat \cup {End})]
    BY <1>7 DEF ThreadEnds
  <2>2. QED
    BY <1>7, <2>1 DEF ThreadEnds
<1>8. ASSUME NEW t \in Turns, AskNext(t) \/ Leave(t) \/ Finalize(t) PROVE TypeOK'
  BY <1>8 DEF AskNext, Leave, Finalize, Finish, Talking
<1>9. ASSUME NEW t \in Turns, Close(t) PROVE TypeOK'
  <2>1. orphan' \in [Turns -> BOOLEAN]
    BY <1>9 DEF Close
  <2>2. QED
    BY <1>9, <2>1 DEF Close, Finish, Talking
<1>10. CASE NotifyBargeIn
  BY <1>10 DEF NotifyBargeIn, Talking
<1>11. CASE UNCHANGED vars
  BY <1>11 DEF vars
<1>12. QED
  BY <1>1, <1>2, <1>3, <1>4, <1>5, <1>6, <1>7, <1>8, <1>9, <1>10, <1>11
     DEF Next, TurnStep, CallerStep, ThreadStep

-----------------------------------------------------------------------------
(* The flags.                                                               *)

\* What a step does to the set of speaking turns and to the flags: it moves a
\* turn within or outside of its speech, begins a speech, ends one, or raises
\* the barge-in flag.
Moves ==
  /\ Talking' = Talking
  /\ UNCHANGED <<flags, barged, overruled, undercut>>
Begins(t) ==
  /\ Talking' = Talking \cup {t}
  /\ speaking' = TRUE /\ barge_in' = FALSE
  /\ overruled' = overruled \cup barged
  /\ UNCHANGED <<barged, undercut>>
Ends(t) ==
  /\ Talking' = Talking \ {t}
  /\ speaking' = FALSE
  /\ undercut' = undercut \cup (Talking \ {t})
  /\ UNCHANGED <<barge_in, barged, overruled>>
Interrupts ==
  /\ Talking' = Talking
  /\ barge_in' = TRUE /\ barged' = barged \cup Talking
  /\ UNCHANGED <<speaking, overruled, undercut>>

\* Every step is one of these four.
LEMMA FlagSteps ==
  ASSUME TypeOK, [Next]_vars
  PROVE  Moves \/ Interrupts \/ \E t \in Turns : Begins(t) \/ Ends(t)
<1> USE DEF TypeOK, Talking
<1>1. ASSUME NEW t \in Turns, StartTurn(t) \/ HearNothing(t) PROVE Moves
  BY <1>1 DEF StartTurn, HearNothing, Moves
<1>2. ASSUME NEW t \in Turns, HearUtterance(t) PROVE Begins(t)
  BY <1>2 DEF HearUtterance, Begins
<1>3. ASSUME NEW t \in Turns, NextSentence(t) \/ GetChunk(t) \/ GetEnd(t) PROVE Moves
  BY <1>3 DEF NextSentence, GetChunk, GetEnd, Moves
<1>4. ASSUME NEW t \in Turns,
             SentenceDropped(t) \/ DialogEnds(t) \/ DialogRaises(t) \/ ChunkDropped(t)
      PROVE  Ends(t)
  BY <1>4 DEF SentenceDropped, DialogEnds, DialogRaises, ChunkDropped, Drop,
              FinishRegularly, Finish, Ends
<1>5. ASSUME NEW t \in Turns, AskNext(t) \/ Leave(t) PROVE Moves
  BY <1>5 DEF AskNext, Leave, Moves
<1>6. ASSUME NEW t \in Turns, Close(t) \/ Finalize(t) PROVE Ends(t)
  BY <1>6 DEF Close, Finalize, Finish, Ends
<1>7. ASSUME NEW t \in Turns, ThreadStep(t) \/ OrphanReturns(t) PROVE Moves
  BY <1>7 DEF ThreadStep, Synthesize, ThreadEnds, OrphanReturns, Moves
<1>8. CASE NotifyBargeIn
  BY <1>8 DEF NotifyBargeIn, Interrupts
<1>9. CASE UNCHANGED vars
  BY <1>9 DEF vars, Moves
<1>10. QED
  BY <1>1, <1>2, <1>3, <1>4, <1>5, <1>6, <1>7, <1>8, <1>9
     DEF Next, TurnStep, CallerStep

\* No step breaks what is known of the flags.
LEMMA FlagsStep ==
  ASSUME IInv, [Next]_vars
  PROVE  SpeakingFlagTells' /\ FlagInv'
<1> USE DEF SpeakingFlagTells, FlagInv
<1>1. TypeOK /\ SpeakingFlagTells /\ FlagInv
  BY DEF IInv
<1>a. \A t \in Turns : at[t] \in Speaking <=> t \in Talking
  BY DEF Talking
<1>b. \A t \in Turns : (at[t] \in Speaking)' <=> t \in Talking'
  BY DEF Talking
<1>c. barged \subseteq Turns /\ barged' \subseteq Turns /\ speaking \in BOOLEAN
  BY TypeOKStep DEF IInv, TypeOK
<1>2. CASE Moves
  BY <1>1, <1>2, <1>a, <1>b, <1>c DEF Moves
<1>3. CASE Interrupts
  BY <1>1, <1>3, <1>a, <1>b, <1>c DEF Interrupts
<1>4. ASSUME NEW t \in Turns, Begins(t) PROVE SpeakingFlagTells' /\ FlagInv'
  BY <1>1, <1>4, <1>a, <1>b, <1>c DEF Begins
<1>5. ASSUME NEW t \in Turns, Ends(t) PROVE SpeakingFlagTells' /\ FlagInv'
  BY <1>1, <1>5, <1>a, <1>b, <1>c DEF Ends
<1>6. QED
  BY <1>1, <1>2, <1>3, <1>4, <1>5, FlagSteps

\* Only a turn that speaks under a raised flag drops something.
LEMMA DroppedStep ==
  ASSUME IInv, [Next]_vars
  PROVE  dropped' \subseteq barged'
<1>1. dropped \subseteq barged /\ (barge_in => Talking \subseteq barged)
  BY DEF IInv, FlagInv
<1>2. barged \subseteq barged'
  BY DEF Next, vars, TurnStep, CallerStep, ThreadStep, StartTurn, HearNothing,
         HearUtterance, NextSentence, SentenceDropped, DialogEnds, DialogRaises,
         GetChunk, ChunkDropped, GetEnd, AskNext, Close, Leave, Finalize, Synthesize,
         ThreadEnds, OrphanReturns, NotifyBargeIn, Drop, FinishRegularly, Finish
<1>3. ASSUME NEW t \in Turns, SentenceDropped(t) \/ ChunkDropped(t)
      PROVE  dropped' \subseteq barged'
  <2>1. t \in Talking /\ barge_in /\ dropped' = dropped \cup {t}
    BY <1>3 DEF SentenceDropped, ChunkDropped, Drop, Talking
  <2>2. QED
    BY <1>1, <1>2, <2>1
<1>4. CASE ~ \E t \in Turns : SentenceDropped(t) \/ ChunkDropped(t)
  <2>1. dropped' = dropped
    BY <1>4 DEF Next, vars, TurnStep, CallerStep, ThreadStep, StartTurn, HearNothing,
                HearUtterance, NextSentence, DialogEnds, DialogRaises, GetChunk, GetEnd,
                AskNext, Close, Leave, Finalize, Synthesize, ThreadEnds, OrphanReturns,
                NotifyBargeIn
  <2>2. QED
    BY <1>1, <1>2, <2>1
<1>5. QED
  BY <1>3, <1>4

-----------------------------------------------------------------------------
(* The audio.                                                               *)

\* A step that leaves a turn's place, audio and end alone keeps what is known
\* of its audio; an interruption only makes it easier.
LEMMA AudioKept ==
  ASSUME NEW u \in Turns, AudioInv(u),
         at'[u] = at[u], thread'[u] = thread[u], queue'[u] = queue[u],
         orphan'[u] = orphan[u], made'[u] = made[u], heard'[u] = heard[u],
         u \in ended' <=> u \in ended, barged \subseteq barged'
  PROVE  AudioInv(u)'
<1>1. (NothingOutstanding(u) <=> NothingOutstanding(u)')
  BY DEF NothingOutstanding
<1>2. QED
  BY <1>1 DEF AudioInv

\* A chunk taken from the queue is the next one in order, and the rest stays.
LEMMA TakeChunk ==
  ASSUME NEW q \in Seq(Nat \cup {End}), NEW h \in Seq(Nat), NEW n \in Nat,
         NEW state \in {"on", "off"}, HoldsRest(q, h, n, state), Len(q) # 0, Head(q) \in Nat
  PROVE  /\ Head(q) = Len(h) + 1
         /\ HoldsRest(Tail(q), Append(h, Head(q)), n, state)
<1>1. 1 \in 1..Len(q) /\ Head(q) = q[1]
  OBVIOUS
<1>2. Head(q) = Len(h) + 1 /\ (state = "off" => Len(q) # 1)
  BY <1>1, EndAssumption DEF HoldsRest
<1>3. /\ Len(Append(h, Head(q))) = Len(h) + 1
      /\ Len(Append(h, Head(q))) + Len(Tail(q)) = Len(h) + Len(q)
  BY <1>2
<1>4. state = "off" => Len(Tail(q)) # 0
  BY <1>2
<1>5. ASSUME NEW i \in 1..Len(Tail(q))
      PROVE  Tail(q)[i] = IF state = "off" /\ i = Len(Tail(q))
                            THEN End ELSE Len(Append(h, Head(q))) + i
  <2>1. i \in Nat /\ i + 1 \in 1..Len(q) /\ Tail(q)[i] = q[i + 1] /\ Len(Tail(q)) = Len(q) - 1
    OBVIOUS
  <2>2. q[i + 1] = IF state = "off" /\ i + 1 = Len(q) THEN End ELSE Len(h) + (i + 1)
    BY <2>1 DEF HoldsRest
  <2>3. Len(Append(h, Head(q))) + i = Len(h) + (i + 1)
    BY <1>3, <2>1
  <2>4. i = Len(Tail(q)) <=> i + 1 = Len(q)
    BY <2>1
  <2>5. QED
    BY <2>1, <2>2, <2>3, <2>4
<1>6. QED
  BY <1>2, <1>3, <1>4, <1>5 DEF HoldsRest

\* The sentinel comes last: what was synthesized has then been heard.
LEMMA TakeEnd ==
  ASSUME NEW q \in Seq(Nat \cup {End}), NEW h \in Seq(Nat), NEW n \in Nat,
         NEW state \in {"on", "off"}, HoldsRest(q, h, n, state), Len(q) # 0, Head(q) \notin Nat
  PROVE  state = "off" /\ Len(Tail(q)) = 0 /\ Len(h) = n
<1>1. 1 \in 1..Len(q) /\ Head(q) = q[1] /\ q[1] # Len(h) + 1
  OBVIOUS
<1>2. state = "off" /\ Len(q) = 1
  BY <1>1 DEF HoldsRest
<1>3. QED
  BY <1>2 DEF HoldsRest

\* A chunk put on the queue is the next of those still to be heard.
LEMMA AddChunk ==
  ASSUME NEW q \in Seq(Nat \cup {End}), NEW h \in Seq(Nat), NEW n \in Nat,
         HoldsRest(q, h, n, "on")
  PROVE  HoldsRest(Append(q, n + 1), h, n + 1, "on")
<1>1. n = Len(h) + Len(q) /\ \A i \in 1..Len(q) : q[i] = Len(h) + i
  BY DEF HoldsRest
<1>2. Append(q, n + 1) \in Seq(Nat \cup {End}) /\ Len(Append(q, n + 1)) = Len(q) + 1
  OBVIOUS
<1>3. n + 1 = Len(h) + Len(Append(q, n + 1))
  BY <1>1, <1>2
<1>4. ASSUME NEW i \in 1..Len(Append(q, n + 1))
      PROVE  Append(q, n + 1)[i] = Len(h) + i
  BY <1>1, <1>2
<1>5. QED
  BY <1>2, <1>3, <1>4 DEF HoldsRest

\* The thread that ends puts the sentinel after what is still to be heard.
LEMMA AddEnd ==
  ASSUME NEW q \in Seq(Nat \cup {End}), NEW h \in Seq(Nat), NEW n \in Nat,
         HoldsRest(q, h, n, "on")
  PROVE  HoldsRest(Append(q, End), h, n, "off")
<1>1. n = Len(h) + Len(q) /\ \A i \in 1..Len(q) : q[i] = Len(h) + i
  BY DEF HoldsRest
<1>2. Len(Append(q, End)) = Len(q) + 1 /\ Len(Append(q, End)) # 0
  OBVIOUS
<1>3. n + 1 = Len(h) + Len(Append(q, End))
  BY <1>1, <1>2
<1>4. ASSUME NEW i \in 1..Len(Append(q, End))
      PROVE  Append(q, End)[i] = IF i = Len(Append(q, End)) THEN End ELSE Len(h) + i
  BY <1>1, <1>2
<1>5. QED
  BY <1>2, <1>3, <1>4 DEF HoldsRest

\* What the steps of turn t do to its own audio.
LEMMA OwnAudioStep ==
  ASSUME IInv, NEW t \in Turns,
         \/ TurnStep(t) \/ CallerStep(t) \/ ThreadStep(t) \/ OrphanReturns(t)
         \/ StartTurn(t) \/ HearNothing(t) \/ HearUtterance(t)
  PROVE  AudioInv(t)'
<1>1. /\ TypeOK /\ AudioInv(t) /\ queue[t] \in Seq(Nat \cup {End}) /\ heard[t] \in Seq(Nat)
      /\ made[t] \in Nat /\ thread[t] \in {"on", "off"}
  BY BoundsAssumption DEF IInv, TypeOK
<1>t. /\ queue[t] \in Seq(Nat \cup {End}) /\ heard[t] \in Seq(Nat)
      /\ made[t] \in Nat /\ thread[t] \in {"on", "off"}
  BY <1>1
<1> USE <1>1 DEF TypeOK, AudioInv, NothingOutstanding
<1>2. CASE StartTurn(t) \/ HearNothing(t) \/ HearUtterance(t)
  BY <1>2 DEF StartTurn, HearNothing, HearUtterance
<1>3. CASE NextSentence(t)
  <2>1. HoldsRest(<<>>, heard[t], made[t], "on")
    <3>1. Len(<<>>) = 0 /\ Len(heard[t]) = made[t]
      BY <1>3 DEF NextSentence
    <3>2. QED
      BY <3>1 DEF HoldsRest
  <2>2. QED
    BY <1>3, <2>1 DEF NextSentence
<1>4. CASE SentenceDropped(t)
  <2>1. t \in barged
    BY <1>4 DEF SentenceDropped, IInv, FlagInv, Talking
  <2>2. QED
    BY <1>4, <2>1 DEF SentenceDropped, Drop, FinishRegularly, Finish
<1>5. CASE DialogEnds(t) \/ DialogRaises(t)
  BY <1>5 DEF DialogEnds, DialogRaises, Drop, FinishRegularly, Finish
<1>6. CASE GetChunk(t)
  <2>1. /\ Head(queue[t]) = Len(heard[t]) + 1
        /\ HoldsRest(Tail(queue[t]), Append(heard[t], Head(queue[t])), made[t], thread[t])
    <3>1. Len(queue[t]) # 0 /\ HoldsRest(queue[t], heard[t], made[t], thread[t])
      BY <1>6 DEF GetChunk
    <3>2. Head(queue[t]) \in Nat
      BY <1>6, <1>t DEF GetChunk
    <3>3. QED
      BY ONLY <1>t, <3>1, <3>2, TakeChunk
  <2>2. /\ at'[t] = "yielded" /\ queue'[t] = Tail(queue[t])
        /\ heard'[t] = Append(heard[t], Head(queue[t]))
        /\ thread'[t] = thread[t] /\ made'[t] = made[t] /\ orphan'[t] = orphan[t]
        /\ ended' = ended /\ at[t] # "done"
    BY <1>6 DEF GetChunk
  <2>3. \A i \in 1..Len(heard'[t]) : heard'[t][i] = i
    BY <2>1, <2>2
  <2>4. QED
    BY <2>1, <2>2, <2>3
<1>7. CASE ChunkDropped(t)
  <2>1. t \in barged
    BY <1>7 DEF ChunkDropped, IInv, FlagInv, Talking
  <2>2. QED
    BY <1>7, <2>1 DEF ChunkDropped, Drop, FinishRegularly, Finish
<1>8. CASE GetEnd(t)
  <2>1. thread[t] = "off" /\ Len(Tail(queue[t])) = 0 /\ Len(heard[t]) = made[t]
    <3>1. Len(queue[t]) # 0 /\ HoldsRest(queue[t], heard[t], made[t], thread[t])
      BY <1>8 DEF GetEnd
    <3>2. Head(queue[t]) \notin Nat
      BY <1>8, EndAssumption DEF GetEnd
    <3>3. QED
      BY ONLY <1>t, <3>1, <3>2, TakeEnd
  <2>2. QED
    BY <1>8, <2>1 DEF GetEnd
<1>9. CASE AskNext(t) \/ Leave(t) \/ Finalize(t) \/ Close(t)
  BY <1>9 DEF AskNext, Leave, Finalize, Close, Finish
<1>10. CASE Synthesize(t)
  <2>1. at[t] \in {"getting", "yielded", "left"} =>
          HoldsRest(Append(queue[t], made[t] + 1), heard[t], made[t] + 1, "on")
    BY <1>10, AddChunk DEF Synthesize
  <2>2. QED
    BY <1>10, <2>1 DEF Synthesize
<1>11. CASE ThreadEnds(t)
  <2>1. at[t] \in {"getting", "yielded", "left"} =>
          HoldsRest(Append(queue[t], End), heard[t], made[t], "off")
    BY <1>11, AddEnd DEF ThreadEnds
  <2>2. QED
    BY <1>11, <2>1 DEF ThreadEnds
<1>12. CASE OrphanReturns(t)
  BY <1>12 DEF OrphanReturns
<1>13. QED
  BY <1>2, <1>3, <1>4, <1>5, <1>6, <1>7, <1>8, <1>9, <1>10, <1>11, <1>12
     DEF TurnStep, CallerStep, ThreadStep

\* No step breaks what is known of anyone's audio.
LEMMA AudioStep ==
  ASSUME IInv, [Next]_vars, NEW u \in Turns
  PROVE  AudioInv(u)'
<1> DEFINE Acts(t) ==
      \/ TurnStep(t) \/ CallerStep(t) \/ ThreadStep(t) \/ OrphanReturns(t)
      \/ StartTurn(t) \/ HearNothing(t) \/ HearUtterance(t)
<1>1. CASE Acts(u)
  BY <1>1, OwnAudioStep
<1>2. ASSUME NEW t \in Turns \ {u}, Acts(t) PROVE AudioInv(u)'
  <2>1. /\ at'[u] = at[u] /\ thread'[u] = thread[u] /\ queue'[u] = queue[u]
        /\ orphan'[u] = orphan[u] /\ made'[u] = made[u] /\ heard'[u] = heard[u]
        /\ (u \in ended' <=> u \in ended) /\ barged \subseteq barged'
    <3> USE DEF IInv, TypeOK
    <3>1. CASE TurnStep(t)
      BY <1>2, <3>1 DEF TurnStep, NextSentence, SentenceDropped, DialogEnds, DialogRaises,
                        GetChunk, ChunkDropped, GetEnd, Drop, FinishRegularly, Finish
    <3>2. CASE CallerStep(t)
      BY <1>2, <3>2 DEF CallerStep, AskNext, Close, Leave, Finalize, Finish
    <3>3. CASE ThreadStep(t) \/ OrphanReturns(t)
      BY <1>2, <3>3 DEF ThreadStep, Synthesize, ThreadEnds, OrphanReturns
    <3>4. CASE StartTurn(t) \/ HearNothing(t) \/ HearUtterance(t)
      BY <1>2, <3>4 DEF StartTurn, HearNothing, HearUtterance
    <3>5. QED
      BY <1>2, <3>1, <3>2, <3>3, <3>4
  <2>2. QED
    BY <2>1, AudioKept DEF IInv
<1>3. CASE NotifyBargeIn \/ UNCHANGED vars
  BY <1>3, AudioKept DEF NotifyBargeIn, vars, IInv
<1>4. QED
  BY <1>1, <1>2, <1>3 DEF Next

-----------------------------------------------------------------------------
(* The theorems.                                                            *)

\* Every reachable state is well typed, its flags are true to the turns that
\* speak, and its queues hold exactly what is still to be heard.
THEOREM VoiceInvariance == Spec => []IInv
<1>1. IInv /\ [Next]_vars => IInv'
  BY TypeOKStep, FlagsStep, DroppedStep, AudioStep DEF IInv
<1>2. QED
  BY InitIInv, <1>1, PTL DEF Spec

\* is_speaking is true only while a turn speaks, and false under a speaking
\* turn only if another one ended (session_runtime.py:85 and its finally).
THEOREM SpeakingFlag == Spec => []SpeakingFlagTells
<1>1. IInv => SpeakingFlagTells
  BY DEF IInv
<1>2. QED
  BY VoiceInvariance, <1>1, PTL

\* Audio is heard in order and without gaps, and in full unless the turn was
\* interrupted while it spoke: the queue loses nothing and no barge-in is
\* carried over (session_runtime.py:86).
THEOREM WholeSpeech == Spec => []SpeechIsWhole
<1>1. IInv => SpeechIsWhole
  BY DEF IInv, AudioInv, SpeechIsWhole
<1>2. QED
  BY VoiceInvariance, <1>1, PTL

\* A turn that was interrupted and not overruled yields no chunk any more
\* (session_runtime.py:105-106).
THEOREM Silence == Spec => BargeInSilences
<1>1. IInv /\ [Next]_vars => [\A t \in barged \ overruled : heard'[t] = heard[t]]_vars
  <2> SUFFICES ASSUME IInv, Next, NEW t \in barged \ overruled PROVE heard'[t] = heard[t]
    BY DEF vars
  <2>1. t \in Turns /\ TypeOK /\ (at[t] \in Speaking => barge_in)
    BY DEF IInv, TypeOK, FlagInv
  <2>2. CASE \E u \in Turns : GetChunk(u)
    <3>1. PICK u \in Turns : GetChunk(u)
      BY <2>2
    <3>2. u # t
      BY <2>1, <3>1 DEF GetChunk
    <3>3. QED
      BY <2>1, <3>1, <3>2 DEF GetChunk, TypeOK
  <2>3. CASE ~ \E u \in Turns : GetChunk(u)
    <3>1. heard' = heard
      BY <2>3 DEF Next, TurnStep, CallerStep, ThreadStep, StartTurn, HearNothing,
                  HearUtterance, NextSentence, SentenceDropped, DialogEnds, DialogRaises,
                  ChunkDropped, GetEnd, AskNext, Close, Leave, Finalize, Synthesize,
                  ThreadEnds, OrphanReturns, NotifyBargeIn
    <3>2. QED
      BY <3>1
  <2>4. QED
    BY <2>2, <2>3
<1>2. QED
  BY VoiceInvariance, <1>1, PTL DEF Spec, BargeInSilences
=============================================================================
