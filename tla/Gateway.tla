-------------------------------- MODULE Gateway --------------------------------
(***************************************************************************)
(* The chat gateway: ws_chat in saap/gateway/app.py, with the WebChat      *)
(* adapter, InterceptedRuntime and the run registry it drives.             *)
(*                                                                         *)
(* A session is one WebSocket.  Its handler receives a message, passes it  *)
(* through the compliance chain, whose inner call starts a run, renders    *)
(* the run's events to the socket and only then listens again.  The run    *)
(* registry is module InProcessOrchestrator: every step of the gateway is  *)
(* a step of it or leaves it alone, and the generator that reads run r is  *)
(* the consumer r.  What the chain decides is left open here (module       *)
(* ComplianceChain): it refuses, fails, or lets the message start a run.   *)
(***************************************************************************)
EXTENDS InProcessOrchestrator

CONSTANTS
  Sessions,     \* WebSocket connections
  MaxMessages,  \* bound: messages a client sends on one socket
  NoSession,    \* a run nobody has started
  Faults        \* a subset of {"disconnect", "before", "after"}

\* A started run takes a fresh id (uuid4); one generator reads it.
ASSUME GeneratorsAssumption == Consumers = Runs /\ MaxReaders = 1
ASSUME MessagesAssumption == MaxMessages \in Nat
ASSUME NoSessionAssumption == NoSession \notin Sessions

VARIABLES
  socket,    \* is the client still there
  place,     \* place[s]: where the handler of s stands
  current,   \* current[s]: the run it renders
  got,       \* how many messages it has received
  owner,     \* history: owner[r], the session that started r
  answered,  \* history: messages that were answered to the end
  served,    \* history: the runs s has begun to render, in order
  shown      \* history: the events sent on s's socket

handler == <<place, current, got>>
history == <<owner, answered, served, shown>>
vars == <<registryVars, socket, handler, history>>

-----------------------------------------------------------------------------
\* The handler listens, runs the chain's before() stages, runs its after()
\* stages, iterates a run, sends an event, sends a refusal, or has returned.
Places == {"listening", "admitting", "unwinding", "rendering", "sending", "refusing",
           "closed"}

TypeOK ==
  /\ RegistryTypeOK
  /\ socket \in [Sessions -> {"open", "gone"}]
  /\ place \in [Sessions -> Places]
  /\ current \in [Sessions -> Runs \cup {NoRun}]
  /\ got \in [Sessions -> 0..MaxMessages]
  /\ owner \in [Runs -> Sessions \cup {NoSession}]
  /\ answered \in [Sessions -> 0..MaxMessages]
  /\ served \in [Sessions -> Seq(Runs)]
  /\ shown \in [Sessions -> Seq(Runs \X Events)]

\* verify, claims_to_tenant and accept have happened: the sockets are open.
Init ==
  /\ RegistryInit
  /\ socket = [s \in Sessions |-> "open"]
  /\ place = [s \in Sessions |-> "listening"]
  /\ current = [s \in Sessions |-> NoRun]
  /\ got = [s \in Sessions |-> 0]
  /\ owner = [r \in Runs |-> NoSession]
  /\ answered = [s \in Sessions |-> 0]
  /\ served = [s \in Sessions |-> <<>>]
  /\ shown = [s \in Sessions |-> <<>>]

Goto(s, p) == place' = [place EXCEPT ![s] = p]

-----------------------------------------------------------------------------
(* One turn of the loop in ws_chat.                                         *)

\* Mutant: the next message is read while the last one is still answered.
ReceiveAnyTime(s) ==
  /\ place[s] \in {"listening", "rendering"}
  /\ socket[s] = "open"
  /\ got[s] < MaxMessages
  /\ got' = [got EXCEPT ![s] = @ + 1]
  /\ Goto(s, "admitting")
  /\ UNCHANGED <<registryVars, socket, current, history>>

\* receive_json returns a message with some content; a blank one is skipped.
Receive(s) ==
  /\ place[s] = "listening"
  /\ socket[s] = "open"
  /\ got[s] < MaxMessages
  /\ got' = [got EXCEPT ![s] = @ + 1]
  /\ Goto(s, "admitting")
  /\ UNCHANGED <<registryVars, socket, current, history>>

\* The chain passes the message and its inner call starts a run.
Admit(s, r) ==
  /\ place[s] = "admitting"
  /\ Start(r)
  /\ owner' = [owner EXCEPT ![r] = s]
  /\ current' = [current EXCEPT ![s] = r]
  /\ Goto(s, "unwinding")
  /\ UNCHANGED <<socket, got, answered, served, shown>>

\* Mutant: RuntimeRefused is swallowed, the client is told nothing.
RefuseSilently(s) ==
  /\ place[s] = "admitting"
  /\ Goto(s, "listening")
  /\ UNCHANGED <<registryVars, socket, current, got, history>>

\* A violation in a before(): no run id, RuntimeRefused.
Refuse(s) ==
  /\ place[s] = "admitting"
  /\ Goto(s, "refusing")
  /\ UNCHANGED <<registryVars, socket, current, got, history>>

RenderRefusal(s) ==
  /\ place[s] = "refusing"
  /\ socket[s] = "open"
  /\ answered' = [answered EXCEPT ![s] = @ + 1]
  /\ Goto(s, "listening")
  /\ UNCHANGED <<registryVars, socket, current, got, owner, served, shown>>

\* The after() stages return, and render() asks events(run_id) for the first
\* event: the generator looks the run up.
BeginRender(s) ==
  /\ place[s] = "unwinding"
  /\ Attach(current[s], current[s])
  /\ served' = [served EXCEPT ![s] = Append(@, current[s])]
  /\ Goto(s, "rendering")
  /\ UNCHANGED <<socket, current, got, owner, answered, shown>>

TakeEvent(s) ==
  /\ place[s] = "rendering"
  /\ GetEvent(current[s])
  /\ Goto(s, "sending")
  /\ UNCHANGED <<socket, current, got, history>>

LastDelivered(r) == Last(delivered[r])

\* send_json returns; the loop asks for the next event.
SendEvent(s) ==
  /\ place[s] = "sending"
  /\ socket[s] = "open"
  /\ AskEvent(current[s])
  /\ shown' = [shown EXCEPT ![s] = Append(@, <<current[s], LastDelivered(current[s])>>)]
  /\ Goto(s, "rendering")
  /\ UNCHANGED <<socket, current, got, owner, answered, served>>

\* Mutant: the handler leaves the generator at the first error event.
FinishAtError(s) ==
  /\ place[s] = "rendering"
  /\ delivered[current[s]] # <<>> /\ LastDelivered(current[s]) = Error
  /\ Abandon(current[s])
  /\ answered' = [answered EXCEPT ![s] = @ + 1]
  /\ current' = [current EXCEPT ![s] = NoRun]
  /\ Goto(s, "listening")
  /\ UNCHANGED <<socket, got, owner, served, shown>>

Finish(s) ==
  /\ place[s] = "rendering"
  /\ GetSentinel(current[s])
  /\ answered' = [answered EXCEPT ![s] = @ + 1]
  /\ current' = [current EXCEPT ![s] = NoRun]
  /\ Goto(s, "listening")
  /\ UNCHANGED <<socket, got, owner, served, shown>>

-----------------------------------------------------------------------------
(* Failure.                                                                 *)

Disconnect(s) ==
  /\ "disconnect" \in Faults
  /\ socket[s] = "open"
  /\ socket' = [socket EXCEPT ![s] = "gone"]
  /\ UNCHANGED <<registryVars, handler, history>>

\* The handler notices only when it next uses the socket.
NoticeIdle(s) ==
  /\ socket[s] = "gone"
  /\ place[s] \in {"listening", "refusing"}
  /\ Goto(s, "closed")
  /\ UNCHANGED <<registryVars, socket, current, got, history>>

\* Mutant: the run's queue is dropped behind the registry's back.
NoticeSendingDrops(s) ==
  /\ socket[s] = "gone"
  /\ place[s] = "sending"
  /\ reader' = [reader EXCEPT ![current[s]].at = "abandoned"]
  /\ queues' = queues \ {current[s]}
  /\ Goto(s, "closed")
  /\ UNCHANGED <<task, asked, queueOf, tasks, produced, delivered, socket, current, got, history>>

\* The generator is left at its yield; nobody calls cancel(run_id).
NoticeSending(s) ==
  /\ socket[s] = "gone"
  /\ place[s] = "sending"
  /\ Abandon(current[s])
  /\ Goto(s, "closed")
  /\ UNCHANGED <<socket, current, got, history>>

\* Another exception in a before() or after() stage ends the handler; after
\* the inner call the run it started goes on without a reader.
ChainFails(s) ==
  /\ \/ "before" \in Faults /\ place[s] = "admitting"
     \/ "after" \in Faults /\ place[s] = "unwinding"
  /\ Goto(s, "closed")
  /\ UNCHANGED <<registryVars, socket, current, got, history>>

\* The tasks of the runs take their own steps.
TaskSteps(r) == TaskStep(r) /\ UNCHANGED <<socket, handler, history>>

-----------------------------------------------------------------------------
HandlerStep(s) ==
  \/ (\E r \in Runs : Admit(s, r)) \/ Refuse(s) \/ RenderRefusal(s)
  \/ BeginRender(s) \/ TakeEvent(s) \/ SendEvent(s) \/ Finish(s)
  \/ NoticeIdle(s) \/ NoticeSending(s) \/ ChainFails(s)

Next ==
  \/ \E s \in Sessions : Receive(s) \/ HandlerStep(s) \/ Disconnect(s)
  \/ \E r \in Runs : TaskSteps(r)

Spec == Init /\ [][Next]_vars

\* The handler goes on whenever what it awaits is there, and so do the tasks.
Fairness ==
  /\ \A s \in Sessions : WF_vars(HandlerStep(s))
  /\ \A r \in Runs : WF_vars(TaskSteps(r))

FairSpec == Spec /\ Fairness

-----------------------------------------------------------------------------
(* Safety.                                                                  *)

\* How many of the first n events on s's socket are events of r.
ShownOf(s, r, n) == Cardinality({k \in 1..n : shown[s][k][1] = r})

\* A client sees the streams of its own runs only, each from its beginning and
\* in the order the runtime produced it, one run after the other, and every run
\* but the last it was shown in full: no turn's reply is cut short by the next
\* turn.
TranscriptIsFaithful ==
  \A s \in Sessions :
    /\ \A i \in DOMAIN shown[s] :
         LET r == shown[s][i][1]
             n == ShownOf(s, r, i)
         IN owner[r] = s /\ n \in DOMAIN produced[r] /\ shown[s][i][2] = produced[r][n]
    /\ \A i \in 1..(Len(served[s]) - 1) :
         LET r == served[s][i]
         IN task[r] = "ended" /\ ShownOf(s, r, Len(shown[s])) = Len(produced[r])
    /\ \A i, j \in DOMAIN shown[s] : i < j =>
         \E a, b \in DOMAIN served[s] :
           a <= b /\ served[s][a] = shown[s][i][1] /\ served[s][b] = shown[s][j][1]

\* The gateway uses the registry as the registry's own specification says:
\* a run is started once, read by one reader and forgotten at its sentinel.
UsesOrchestrator == RegistrySpec

-----------------------------------------------------------------------------
(* Liveness.                                                                *)

\* A message is answered, unless its session ends.
EveryMessageAnswered ==
  \A s \in Sessions : \A n \in 1..MaxMessages :
    got[s] = n ~> (answered[s] >= n \/ place[s] = "closed")

\* Every run is forgotten again, unless the session that started it ended.
EveryRunReleased ==
  \A r \in Runs :
    r \in queues ~> (r \notin queues \/ \E s \in Sessions : owner[r] = s /\ place[s] = "closed")
=============================================================================
