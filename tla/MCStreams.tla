----------------------------- MODULE MCStreams -----------------------------
(***************************************************************************)
(* The two components whose streams have to end, a voice session and the   *)
(* run registry, checked in one run under the fairness of both: a          *)
(* behaviour picks one of them, and only that one takes steps.             *)
(***************************************************************************)
EXTENDS VoiceSession, InProcessOrchestrator

VARIABLE part

streamsVars == <<part, vars, registryVars>>

OnlyVoice == part = "voice" /\ UNCHANGED <<part, registryVars>>
OnlyRuns == part = "runs" /\ UNCHANGED <<part, vars>>

StreamsInit == part \in {"voice", "runs"} /\ Init /\ RegistryInit

\* The actions of the two Next.
StreamsNext ==
  \/ OnlyVoice /\ \E t \in Turns : StartTurn(t)
  \/ OnlyVoice /\ \E t \in Turns : HearNothing(t)
  \/ OnlyVoice /\ \E t \in Turns : HearUtterance(t)
  \/ OnlyVoice /\ \E t \in Turns : NextSentence(t)
  \/ OnlyVoice /\ \E t \in Turns : SentenceDropped(t)
  \/ OnlyVoice /\ \E t \in Turns : DialogEnds(t)
  \/ OnlyVoice /\ \E t \in Turns : DialogRaises(t)
  \/ OnlyVoice /\ \E t \in Turns : GetChunk(t)
  \/ OnlyVoice /\ \E t \in Turns : ChunkDropped(t)
  \/ OnlyVoice /\ \E t \in Turns : GetEnd(t)
  \/ OnlyVoice /\ \E t \in Turns : AskNext(t)
  \/ OnlyVoice /\ \E t \in Turns : Close(t)
  \/ OnlyVoice /\ \E t \in Turns : Leave(t)
  \/ OnlyVoice /\ \E t \in Turns : Finalize(t)
  \/ OnlyVoice /\ \E t \in Turns : Synthesize(t)
  \/ OnlyVoice /\ \E t \in Turns : ThreadEnds(t)
  \/ OnlyVoice /\ \E t \in Turns : OrphanReturns(t)
  \/ OnlyVoice /\ NotifyBargeIn
  \/ OnlyRuns /\ \E r \in Runs : Start(r)
  \/ OnlyRuns /\ \E r \in Runs : TaskBegins(r)
  \/ OnlyRuns /\ \E r \in Runs : TaskDropped(r)
  \/ OnlyRuns /\ \E r \in Runs : Emit(r)
  \/ OnlyRuns /\ \E r \in Runs : RuntimeReturns(r)
  \/ OnlyRuns /\ \E r \in Runs : RuntimeRaises(r)
  \/ OnlyRuns /\ \E r \in Runs : TaskCancelled(r)
  \/ OnlyRuns /\ \E r \in Runs : Cancel(r)
  \/ OnlyRuns /\ \E c \in Consumers : GetEvent(c)
  \/ OnlyRuns /\ \E c \in Consumers : AskEvent(c)
  \/ OnlyRuns /\ \E c \in Consumers : GetSentinel(c)
  \/ OnlyRuns /\ \E c \in Consumers : Abandon(c)
  \/ OnlyRuns /\ \E c \in Consumers, r \in Runs : Attach(c, r)

\* The fairness of VoiceSession and of InProcessOrchestrator.
StreamsFairness ==
  /\ \A t \in Turns :
       /\ WF_streamsVars(OnlyVoice /\ TurnStep(t))
       /\ WF_streamsVars(OnlyVoice /\ ThreadStep(t))
       /\ WF_streamsVars(OnlyVoice /\ OrphanReturns(t))
       /\ WF_streamsVars(OnlyVoice /\ at[t] \in {"yielded", "left"} /\ CallerStep(t))
  /\ \A r \in Runs : WF_streamsVars(OnlyRuns /\ TaskStep(r))
  /\ \A c \in Consumers : WF_streamsVars(OnlyRuns /\ ReaderStep(c))

StreamsSpec == StreamsInit /\ [][StreamsNext]_streamsVars /\ StreamsFairness
=============================================================================
