------------------------- MODULE InProcessOrchestrator -------------------------
(***************************************************************************)
(* The gateway's run registry: saap/gateway/orchestrator.py.               *)
(*                                                                         *)
(* start() makes a queue and a background task for a run, events() drains  *)
(* the queue until the sentinel and then forgets the run, cancel() asks    *)
(* asyncio to cancel the task.  Everything happens on one event loop: a    *)
(* step of a coroutine up to its next suspension is one action.  The queue *)
(* is unbounded, so put() never suspends; a task is created first and      *)
(* takes its first step later, and a cancel() may come in between.         *)
(*                                                                         *)
(* The LangflowRuntime behind the task is outside this module: it yields   *)
(* any finite number of events, then returns or raises.                    *)
(***************************************************************************)
EXTENDS Naturals, Sequences, SequencesExt, FiniteSets

CONSTANTS
  Runs,          \* run ids
  Consumers,     \* coroutines that iterate events(run_id)
  MaxEvents,     \* bound: events the runtime yields in one run
  MaxReaders,    \* bound: consumers of one run
  Error,         \* the FlowRunEvent of kind "error"
  None,          \* the sentinel: run complete
  NoRun          \* a consumer that reads no run

ASSUME RegistryBounds == MaxEvents \in Nat /\ MaxReaders \in Nat
ASSUME EventsAssumption == Error \notin Nat /\ None \notin Nat /\ None # Error
ASSUME NoRunAssumption == NoRun \notin Runs

VARIABLES
  task,      \* task[r]: the asyncio task of r
  asked,     \* asked[r]: cancel(r) was called on the live task
  queueOf,   \* queueOf[r]: the queue object of r (readers keep a reference to it)
  queues,    \* the keys of self._queues
  tasks,     \* the keys of self._tasks
  reader,    \* reader[c]: the run c reads and where it stands
  produced,  \* history: the events put on r's queue
  delivered  \* history: the events taken from r's queue

registryVars == <<task, asked, queueOf, queues, tasks, reader, produced, delivered>>

-----------------------------------------------------------------------------
Events == 1..MaxEvents \cup {Error}

\* A task is created, then runs; it ends through its finally block, or it is
\* dropped: asyncio throws the cancellation into a coroutine that has not
\* begun, and neither its try nor its finally is entered.
TaskStates == {"none", "created", "running", "ended", "dropped"}

\* A consumer waits in queue.get(), or works on an event it was handed; it
\* leaves after the sentinel, on a KeyError, or because its caller went away.
Gone == {"finished", "keyerror", "abandoned"}
ReaderStates == {"idle", "waiting", "working"} \cup Gone

RegistryTypeOK ==
  /\ task \in [Runs -> TaskStates]
  /\ asked \in [Runs -> BOOLEAN]
  /\ queueOf \in [Runs -> Seq(Events \cup {None})]
  /\ produced \in [Runs -> Seq(Events)]
  /\ delivered \in [Runs -> Seq(Events)]
  /\ queues \subseteq Runs
  /\ tasks \subseteq Runs
  /\ reader \in [Consumers -> [run : Runs \cup {NoRun}, at : ReaderStates]]

RegistryInit ==
  /\ task = [r \in Runs |-> "none"]
  /\ asked = [r \in Runs |-> FALSE]
  /\ queueOf = [r \in Runs |-> <<>>]
  /\ queues = {}
  /\ tasks = {}
  /\ reader = [c \in Consumers |-> [run |-> NoRun, at |-> "idle"]]
  /\ produced = [r \in Runs |-> <<>>]
  /\ delivered = [r \in Runs |-> <<>>]

ReadersOf(r) == {c \in Consumers : reader[c].run = r}

-----------------------------------------------------------------------------
(* start() and the task it creates.                                         *)

Start(r) ==
  /\ task[r] = "none"
  /\ task' = [task EXCEPT ![r] = "created"]
  /\ queues' = queues \cup {r}
  /\ tasks' = tasks \cup {r}
  /\ UNCHANGED <<asked, queueOf, reader, produced, delivered>>

TaskBegins(r) ==
  /\ task[r] = "created"
  /\ ~ asked[r]
  /\ task' = [task EXCEPT ![r] = "running"]
  /\ UNCHANGED <<asked, queueOf, queues, tasks, reader, produced, delivered>>

\* The first step of a cancelled task: nothing of _drive() is executed.
TaskDropped(r) ==
  /\ task[r] = "created"
  /\ asked[r]
  /\ task' = [task EXCEPT ![r] = "dropped"]
  /\ UNCHANGED <<asked, queueOf, queues, tasks, reader, produced, delivered>>

\* The runtime yields its next event.
Emit(r) ==
  /\ task[r] = "running"
  /\ ~ asked[r]
  /\ Len(produced[r]) < MaxEvents
  /\ LET event == Len(produced[r]) + 1 IN
       /\ queueOf' = [queueOf EXCEPT ![r] = Append(@, event)]
       /\ produced' = [produced EXCEPT ![r] = Append(@, event)]
  /\ UNCHANGED <<task, asked, queues, tasks, reader, delivered>>

\* _drive() leaves its try with the events it still puts; the finally block
\* adds the sentinel.
EndWith(r, events) ==
  /\ task' = [task EXCEPT ![r] = "ended"]
  /\ queueOf' = [queueOf EXCEPT ![r] = @ \o events \o <<None>>]
  /\ produced' = [produced EXCEPT ![r] = @ \o events]
  /\ UNCHANGED <<asked, queues, tasks, reader, delivered>>

RuntimeReturns(r) ==
  /\ task[r] = "running"
  /\ ~ asked[r]
  /\ EndWith(r, <<>>)

\* Mutants: the sentinel is put only on the way out of a normal return; it is
\* put before the error event.
RuntimeRaisesUnended(r) ==
  /\ task[r] = "running"
  /\ ~ asked[r]
  /\ task' = [task EXCEPT ![r] = "ended"]
  /\ queueOf' = [queueOf EXCEPT ![r] = Append(@, Error)]
  /\ produced' = [produced EXCEPT ![r] = Append(@, Error)]
  /\ UNCHANGED <<asked, queues, tasks, reader, delivered>>

RuntimeRaisesLate(r) ==
  /\ task[r] = "running"
  /\ ~ asked[r]
  /\ task' = [task EXCEPT ![r] = "ended"]
  /\ queueOf' = [queueOf EXCEPT ![r] = @ \o <<None, Error>>]
  /\ produced' = [produced EXCEPT ![r] = Append(@, Error)]
  /\ UNCHANGED <<asked, queues, tasks, reader, delivered>>

RuntimeRaises(r) ==
  /\ task[r] = "running"
  /\ ~ asked[r]
  /\ EndWith(r, <<Error>>)

\* CancelledError is no Exception: no error event, the finally block only.
TaskCancelled(r) ==
  /\ task[r] = "running"
  /\ asked[r]
  /\ EndWith(r, <<>>)

\* cancel(): asyncio ignores it on a task that is done.
Cancel(r) ==
  /\ r \in tasks
  /\ task[r] \in {"created", "running"}
  /\ asked' = [asked EXCEPT ![r] = TRUE]
  /\ UNCHANGED <<task, queueOf, queues, tasks, reader, produced, delivered>>

-----------------------------------------------------------------------------
(* events(): the consumer c of run r.                                       *)

MoveReader(c, place) == reader' = [reader EXCEPT ![c].at = place]

\* The first step of the generator: KeyError unless the run is registered.
Attach(c, r) ==
  /\ reader[c].at = "idle"
  /\ task[r] # "none"
  /\ Cardinality(ReadersOf(r)) < MaxReaders
  /\ reader' = [reader EXCEPT ![c] =
       [run |-> r, at |-> IF r \in queues THEN "waiting" ELSE "keyerror"]]
  /\ UNCHANGED <<task, asked, queueOf, queues, tasks, produced, delivered>>

GetEvent(c) ==
  LET r == reader[c].run IN
  /\ reader[c].at = "waiting"
  /\ queueOf[r] # <<>> /\ Head(queueOf[r]) # None
  /\ queueOf' = [queueOf EXCEPT ![r] = Tail(@)]
  /\ delivered' = [delivered EXCEPT ![r] = Append(@, Head(queueOf[r]))]
  /\ MoveReader(c, "working")
  /\ UNCHANGED <<task, asked, queues, tasks, produced>>

\* The consumer asks for the next event.
AskEvent(c) ==
  /\ reader[c].at = "working"
  /\ MoveReader(c, "waiting")
  /\ UNCHANGED <<task, asked, queueOf, queues, tasks, produced, delivered>>

\* Mutant: the task entry of a finished run is kept.
GetSentinelKeepsTask(c) ==
  LET r == reader[c].run IN
  /\ reader[c].at = "waiting"
  /\ queueOf[r] # <<>> /\ Head(queueOf[r]) = None
  /\ queueOf' = [queueOf EXCEPT ![r] = Tail(@)]
  /\ MoveReader(c, IF r \in queues THEN "finished" ELSE "keyerror")
  /\ queues' = queues \ {r}
  /\ UNCHANGED <<task, asked, tasks, produced, delivered>>

\* The sentinel ends the loop; del raises KeyError if the key is gone, and
\* then the task entry is not popped.
GetSentinel(c) ==
  LET r == reader[c].run IN
  /\ reader[c].at = "waiting"
  /\ queueOf[r] # <<>> /\ Head(queueOf[r]) = None
  /\ queueOf' = [queueOf EXCEPT ![r] = Tail(@)]
  /\ MoveReader(c, IF r \in queues THEN "finished" ELSE "keyerror")
  /\ queues' = queues \ {r}
  /\ tasks' = IF r \in queues THEN tasks \ {r} ELSE tasks
  /\ UNCHANGED <<task, asked, produced, delivered>>

\* The caller stops iterating: the socket is gone, or its task is cancelled.
\* The generator is closed at its await or yield, past no cleanup at all.
Abandon(c) ==
  /\ reader[c].at \in {"waiting", "working"}
  /\ MoveReader(c, "abandoned")
  /\ UNCHANGED <<task, asked, queueOf, queues, tasks, produced, delivered>>

-----------------------------------------------------------------------------
TaskStep(r) ==
  \/ TaskBegins(r) \/ TaskDropped(r) \/ Emit(r)
  \/ RuntimeReturns(r) \/ RuntimeRaises(r) \/ TaskCancelled(r)

ReaderStep(c) == GetEvent(c) \/ AskEvent(c) \/ GetSentinel(c)

RegistryNext ==
  \/ \E r \in Runs : Start(r) \/ TaskStep(r) \/ Cancel(r)
  \/ \E c \in Consumers : ReaderStep(c) \/ Abandon(c) \/ \E r \in Runs : Attach(c, r)

RegistrySpec == RegistryInit /\ [][RegistryNext]_registryVars

\* The loop runs every task that is ready, the runtime's stream is finite,
\* and a consumer that is handed an event asks for the next one.
RegistryFairness ==
  /\ \A r \in Runs : WF_registryVars(TaskStep(r))
  /\ \A c \in Consumers : WF_registryVars(ReaderStep(c))

FairRegistrySpec == RegistrySpec /\ RegistryFairness

-----------------------------------------------------------------------------
(* Safety.                                                                  *)

\* What the queue holds for its readers: all but the sentinel at its end.
Pending(r) ==
  IF queueOf[r] # <<>> /\ Last(queueOf[r]) = None THEN Front(queueOf[r]) ELSE queueOf[r]

\* Nothing is lost, doubled or reordered between the runtime and whoever
\* reads the run, also when several consumers share one queue or leave early;
\* and a consumer that left through the sentinel left a run that was over and
\* whose every event had been handed out, an error of the runtime included.
StreamIsFifo ==
  /\ \A r \in Runs : produced[r] = delivered[r] \o Pending(r)
  /\ \A c \in Consumers : reader[c].at = "finished" =>
       LET r == reader[c].run IN task[r] = "ended" /\ delivered[r] = produced[r]

\* A run is forgotten by both dictionaries at once, and only after its stream
\* was read to the end: nobody finds a run gone that still has something to
\* say, and no entry outlives its reader's last event.
ForgottenWhenRead ==
  \A r \in Runs :
    /\ r \in queues <=> r \in tasks
    /\ task[r] # "none" =>
         (r \in queues <=> \A c \in ReadersOf(r) : reader[c].at # "finished")

-----------------------------------------------------------------------------
(* Liveness.                                                                *)

\* Every consumer of a run that nobody cancels gets to the end of the stream,
\* goes away itself, or shares the run with one that got there before it: a
\* run has one sentinel, and whoever takes it leaves the others waiting.
StreamEnds ==
  \A c \in Consumers :
    reader[c].at = "waiting" ~>
      \/ reader[c].at \in Gone
      \/ \E r \in Runs : reader[c].run = r /\ asked[r]
      \/ \E d \in ReadersOf(reader[c].run) \ {c} : reader[d].at = "finished"

\* saap/core/flow.py:60 asks of a runtime that "Streaming supports early
\* cancel (voice barge-in)": the stream of a run that is cancelled ends.
CancelEndsStream ==
  \A c \in Consumers : \A r \in Runs :
    reader[c].run = r /\ asked[r] ~> reader[c].at \in Gone
=============================================================================
