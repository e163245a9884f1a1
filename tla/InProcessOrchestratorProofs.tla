---------------------- MODULE InProcessOrchestratorProofs ----------------------
(***************************************************************************)
(* Theorems about InProcessOrchestrator, for any number of runs, consumers *)
(* and events.                                                             *)
(*                                                                         *)
(* The argument: until its task ends, the queue of a run holds events only *)
(* and is what was produced less what was delivered.  The task ends once   *)
(* and puts one sentinel, last; so whoever takes the sentinel empties the  *)
(* queue, finds the run still registered, and is the only one to forget it.*)
(***************************************************************************)
EXTENDS InProcessOrchestrator, SequenceTheorems, TLAPS

Streamed(r) == queueOf[r] \in Seq(Events) /\ produced[r] = delivered[r] \o queueOf[r]

Ending(r) ==
  \E pending \in Seq(Events) :
    queueOf[r] = Append(pending, None) /\ produced[r] = delivered[r] \o pending

\* What the queue holds while the task lives, between its end and the end of
\* its stream, and after that.
Content(r) ==
  /\ task[r] # "ended" => Streamed(r)
  /\ task[r] = "ended" /\ r \in queues => Ending(r)
  /\ r \notin queues => queueOf[r] = <<>> /\ produced[r] = delivered[r]

\* A run is registered from its start to its reader's end, never longer than
\* its task leaves it unread.
Registered(r) ==
  /\ r \in queues <=> r \in tasks
  /\ task[r] = "none" => r \notin queues /\ \A c \in Consumers : reader[c].run # r
  /\ task[r] # "none" =>
       /\ r \in queues <=> \A c \in Consumers : reader[c].run = r => reader[c].at # "finished"
       /\ r \notin queues => task[r] = "ended"

ReadersPlaced ==
  \A c \in Consumers : reader[c].at # "idle" => reader[c].run \in Runs

RegistryInv ==
  /\ RegistryTypeOK
  /\ ReadersPlaced
  /\ \A r \in Runs : Content(r) /\ Registered(r)

-----------------------------------------------------------------------------
(* Sequences.                                                               *)

\* Events are concatenated in any grouping.
LEMMA EventsAssociative ==
  ASSUME NEW d \in Seq(Events), NEW q \in Seq(Events), NEW e \in Seq(Events)
  PROVE  (d \o q) \o e = d \o (q \o e)
  BY ConcatAssociative

\* An event appended to the rest is appended to the whole.
LEMMA AppendToRest ==
  ASSUME NEW d \in Seq(Events), NEW q \in Seq(Events), NEW e \in Events
  PROVE  Append(d \o q, e) = d \o Append(q, e)
<1>1. d \o q \in Seq(Events) /\ <<e>> \in Seq(Events)
  BY ConcatProperties
<1>2. Append(d \o q, e) = (d \o q) \o <<e>> /\ Append(q, e) = q \o <<e>>
  BY <1>1, AppendIsConcat
<1>3. QED
  BY <1>1, <1>2, EventsAssociative

\* Taking the head of the rest and appending it to the front changes nothing.
LEMMA MoveHead ==
  ASSUME NEW S, NEW d \in Seq(S), NEW q \in Seq(S), q # <<>>
  PROVE  Append(d, Head(q)) \o Tail(q) = d \o q
<1>1. Head(q) \in S /\ Tail(q) \in Seq(S) /\ q = <<Head(q)>> \o Tail(q)
  BY HeadTailProperties, ConcatProperties, SeqEqual
<1>2. Append(d, Head(q)) = d \o <<Head(q)>> /\ <<Head(q)>> \in Seq(S)
  BY <1>1, AppendIsConcat
<1>3. QED
  BY <1>1, <1>2, ConcatAssociative

\* Head and tail of what ends with a sentinel.
LEMMA EndingQueue ==
  ASSUME NEW S, NEW p \in Seq(S), NEW e
  PROVE  /\ Append(p, e) \in Seq(S \cup {e}) /\ Append(p, e) # <<>>
         /\ Last(Append(p, e)) = e /\ Front(Append(p, e)) = p
         /\ p = <<>> => Head(Append(p, e)) = e /\ Tail(Append(p, e)) = <<>>
         /\ p # <<>> => /\ Head(Append(p, e)) = Head(p) /\ Head(p) \in S
                        /\ Tail(Append(p, e)) = Append(Tail(p), e) /\ Tail(p) \in Seq(S)
<1>1. p \in Seq(S \cup {e})
  BY SeqMonotonic
<1>2. /\ Append(p, e) \in Seq(S \cup {e}) /\ Append(p, e) # <<>>
      /\ Len(Append(p, e)) = Len(p) + 1 /\ Append(p, e)[Len(p) + 1] = e
      /\ \A i \in 1..Len(p) : Append(p, e)[i] = p[i]
  BY <1>1
<1>3. Last(Append(p, e)) = e
  BY <1>2 DEF Last
<1>4. Front(Append(p, e)) = p
  BY <1>1, <1>2 DEF Front
<1>5. p = <<>> => Head(Append(p, e)) = e /\ Tail(Append(p, e)) = <<>>
  OBVIOUS
<1>6. ASSUME p # <<>>
      PROVE  /\ Head(Append(p, e)) = Head(p) /\ Head(p) \in S
             /\ Tail(Append(p, e)) = Append(Tail(p), e) /\ Tail(p) \in Seq(S)
  <2>1. Head(Append(p, e)) = Head(p) /\ Head(p) \in S /\ Tail(p) \in Seq(S)
    BY <1>2, <1>6
  <2>2. Tail(Append(p, e)) = Append(Tail(p), e)
    BY <1>1, <1>2, <1>6
  <2>3. QED
    BY <2>1, <2>2
<1>7. QED
  BY <1>2, <1>3, <1>4, <1>5, <1>6

\* The events of a queue that the sentinel closes.
LEMMA ClosedQueue ==
  ASSUME NEW p \in Seq(Events)
  PROVE  /\ Append(p, None) # <<>> /\ Last(Append(p, None)) = None
         /\ Front(Append(p, None)) = p
         /\ Head(Append(p, None)) # None => p # <<>>
         /\ p # <<>> => /\ Head(Append(p, None)) = Head(p) /\ Tail(p) \in Seq(Events)
                        /\ Tail(Append(p, None)) = Append(Tail(p), None)
<1>1. /\ Append(p, None) # <<>> /\ Last(Append(p, None)) = None
      /\ Front(Append(p, None)) = p
  BY EndingQueue, Zenon
<1>2. p = <<>> => Head(Append(p, None)) = None
  OBVIOUS
<1>3. p # <<>> => /\ Head(Append(p, None)) = Head(p) /\ Tail(p) \in Seq(Events)
                  /\ Tail(Append(p, None)) = Append(Tail(p), None)
  BY EndingQueue, Zenon
<1>4. QED
  BY <1>1, <1>2, <1>3

-----------------------------------------------------------------------------
(* Initial states.                                                          *)

\* Before the first start() every stream is empty and nobody reads.
LEMMA RegistryInitial == RegistryInit => RegistryInv
<1> SUFFICES ASSUME RegistryInit PROVE RegistryInv
  OBVIOUS
<1> USE DEF RegistryInit
<1>1. RegistryTypeOK
  BY DEF RegistryTypeOK, TaskStates, ReaderStates
<1>2. ReadersPlaced
  BY DEF ReadersPlaced
<1>3. ASSUME NEW r \in Runs PROVE Content(r) /\ Registered(r)
  <2>1. <<>> = <<>> \o <<>> /\ <<>> \in Seq(Events)
    OBVIOUS
  <2>2. Content(r)
    BY <2>1 DEF Content, Streamed
  <2>3. Registered(r)
    BY NoRunAssumption DEF Registered
  <2>4. QED
    BY <2>2, <2>3
<1>4. QED
  BY <1>1, <1>2, <1>3 DEF RegistryInv

-----------------------------------------------------------------------------
(* Type correctness of each step.                                           *)

\* No step of a task or of a consumer leaves the types.
LEMMA RegistryTypeStep ==
  ASSUME RegistryTypeOK, ReadersPlaced, [RegistryNext]_registryVars
  PROVE  RegistryTypeOK'
<1> USE RegistryBounds DEF RegistryTypeOK, TaskStates, ReaderStates, Gone
<1>1. ASSUME NEW r \in Runs, Start(r) \/ TaskBegins(r) \/ TaskDropped(r) \/ Cancel(r)
      PROVE  RegistryTypeOK'
  BY <1>1 DEF Start, TaskBegins, TaskDropped, Cancel
<1>2. ASSUME NEW r \in Runs, Emit(r) PROVE RegistryTypeOK'
  <2>1. Len(produced[r]) + 1 \in Events
    BY <1>2 DEF Emit, Events
  <2>2. /\ Append(produced[r], Len(produced[r]) + 1) \in Seq(Events)
        /\ Append(queueOf[r], Len(produced[r]) + 1) \in Seq(Events \cup {None})
    BY <2>1
  <2>3. QED
    BY <1>2, <2>2 DEF Emit
<1>3. ASSUME NEW r \in Runs, NEW events \in Seq(Events), EndWith(r, events)
      PROVE  RegistryTypeOK'
  <2>1. /\ produced[r] \o events \in Seq(Events)
        /\ queueOf[r] \o events \o <<None>> \in Seq(Events \cup {None})
    BY SeqMonotonic, ConcatProperties
  <2>2. QED
    BY <1>3, <2>1 DEF EndWith
<1>4. ASSUME NEW r \in Runs, RuntimeReturns(r) \/ RuntimeRaises(r) \/ TaskCancelled(r)
      PROVE  RegistryTypeOK'
  <2>1. <<>> \in Seq(Events) /\ <<Error>> \in Seq(Events)
    BY DEF Events
  <2>2. QED
    BY <1>3, <1>4, <2>1 DEF RuntimeReturns, RuntimeRaises, TaskCancelled
<1>5. ASSUME NEW c \in Consumers, NEW r \in Runs, Attach(c, r) PROVE RegistryTypeOK'
  BY <1>5 DEF Attach
<1>6. ASSUME NEW c \in Consumers, GetEvent(c) PROVE RegistryTypeOK'
  <2>1. reader[c].run \in Runs
    BY <1>6 DEF GetEvent, ReadersPlaced
  <2>2. /\ Head(queueOf[reader[c].run]) \in Events
        /\ Tail(queueOf[reader[c].run]) \in Seq(Events \cup {None})
    BY <1>6, <2>1 DEF GetEvent
  <2>3. Append(delivered[reader[c].run], Head(queueOf[reader[c].run])) \in Seq(Events)
    BY <2>1, <2>2
  <2>4. QED
    BY <1>6, <2>1, <2>2, <2>3 DEF GetEvent, MoveReader
<1>7. ASSUME NEW c \in Consumers, GetSentinel(c) PROVE RegistryTypeOK'
  <2>1. reader[c].run \in Runs
    BY <1>7 DEF GetSentinel, ReadersPlaced
  <2>2. Tail(queueOf[reader[c].run]) \in Seq(Events \cup {None})
    BY <1>7, <2>1 DEF GetSentinel
  <2>3. queueOf' \in [Runs -> Seq(Events \cup {None})]
    BY <2>1, <2>2, <1>7 DEF GetSentinel
  <2>4. queues' \subseteq Runs /\ tasks' \subseteq Runs
    BY <1>7 DEF GetSentinel
  <2>5. reader' \in [Consumers -> [run : Runs \cup {NoRun}, at : ReaderStates]]
    <3>1. PICK place \in {"finished", "keyerror"} : MoveReader(c, place)
      BY <1>7 DEF GetSentinel
    <3>2. [reader[c] EXCEPT !.at = place] \in [run : Runs \cup {NoRun}, at : ReaderStates]
      BY <3>1
    <3>3. QED
      BY <3>1, <3>2 DEF MoveReader
  <2>6. QED
    BY <1>7, <2>3, <2>4, <2>5 DEF GetSentinel
<1>8. ASSUME NEW c \in Consumers, AskEvent(c) \/ Abandon(c) PROVE RegistryTypeOK'
  <2>1. reader' \in [Consumers -> [run : Runs \cup {NoRun}, at : ReaderStates]]
    <3>1. PICK place \in {"waiting", "abandoned"} : MoveReader(c, place)
      BY <1>8 DEF AskEvent, Abandon
    <3>2. reader[c] \in [run : Runs \cup {NoRun}, at : ReaderStates]
      OBVIOUS
    <3>3. [reader[c] EXCEPT !.at = place] \in [run : Runs \cup {NoRun}, at : ReaderStates]
      BY <3>2
    <3>4. QED
      BY <3>1, <3>3 DEF MoveReader
  <2>2. UNCHANGED <<task, asked, queueOf, queues, tasks, produced, delivered>>
    BY <1>8 DEF AskEvent, Abandon
  <2>3. QED
    BY <2>1, <2>2
<1>9. CASE UNCHANGED registryVars
  BY <1>9 DEF registryVars
<1> HIDE DEF RegistryTypeOK, TaskStates, ReaderStates, Gone
<1>10. QED
  BY <1>1, <1>2, <1>4, <1>5, <1>6, <1>7, <1>8, <1>9 DEF RegistryNext, TaskStep, ReaderStep

-----------------------------------------------------------------------------
(* The streams.                                                             *)

\* A step that leaves the stream of run r and its entries alone.
LEMMA RunKept ==
  ASSUME NEW r \in Runs, Content(r),
         task'[r] = "ended" <=> task[r] = "ended",
         queueOf'[r] = queueOf[r], produced'[r] = produced[r], delivered'[r] = delivered[r],
         r \in queues' <=> r \in queues
  PROVE  Content(r)'
  BY DEF Content, Streamed, Ending

\* What the steps of a task do to its own stream.
LEMMA OwnTaskStep ==
  ASSUME RegistryInv, NEW r \in Runs, Start(r) \/ TaskStep(r) \/ Cancel(r)
  PROVE  Content(r)'
<1>1. /\ Content(r) /\ Registered(r) /\ RegistryTypeOK
      /\ produced[r] \in Seq(Events) /\ delivered[r] \in Seq(Events)
  BY DEF RegistryInv, RegistryTypeOK
<1>2. CASE Start(r)
  <2>1. /\ task[r] = "none" /\ task'[r] = "created" /\ r \in queues'
        /\ queueOf' = queueOf /\ produced' = produced /\ delivered' = delivered
    BY <1>1, <1>2 DEF RegistryTypeOK, Start
  <2>2. QED
    BY <1>1, <2>1 DEF Content, Streamed
<1>3. CASE TaskBegins(r) \/ TaskDropped(r) \/ Cancel(r)
  BY <1>1, <1>3 DEF RegistryTypeOK, TaskBegins, TaskDropped, Cancel, Content, Streamed
<1>4. CASE Emit(r)
  <2> DEFINE event == Len(produced[r]) + 1
  <2>1. event \in Events
    BY <1>1, <1>4, RegistryBounds DEF Emit, Events
  <2>2. /\ task[r] = "running" /\ r \in queues /\ task' = task /\ queues' = queues
        /\ delivered' = delivered
        /\ queueOf'[r] = Append(queueOf[r], event) /\ produced'[r] = Append(produced[r], event)
    BY <1>1, <1>4 DEF RegistryTypeOK, Emit, Registered
  <2>3. queueOf[r] \in Seq(Events) /\ produced[r] = delivered[r] \o queueOf[r]
    BY <1>1, <2>2 DEF Content, Streamed
  <2>4. /\ Append(queueOf[r], event) \in Seq(Events)
        /\ Append(delivered[r] \o queueOf[r], event) = delivered[r] \o Append(queueOf[r], event)
    <3> HIDE DEF event
    <3>1. Append(queueOf[r], event) \in Seq(Events)
      BY <2>1, <2>3
    <3>2. Append(delivered[r] \o queueOf[r], event) = delivered[r] \o Append(queueOf[r], event)
      <4>1. delivered[r] \in Seq(Events) /\ queueOf[r] \in Seq(Events)
        BY <1>1, <2>3
      <4>2. QED
        BY <2>1, <4>1, AppendToRest
    <3>3. QED
      BY <3>1, <3>2
  <2>5. QED
    BY <2>2, <2>3, <2>4 DEF Content, Streamed
<1>5. ASSUME NEW events \in Seq(Events), task[r] = "running", EndWith(r, events)
      PROVE  Content(r)'
  <2>1. /\ r \in queues /\ task'[r] = "ended" /\ queues' = queues /\ delivered' = delivered
        /\ queueOf'[r] = (queueOf[r] \o events) \o <<None>>
        /\ produced'[r] = produced[r] \o events
    BY <1>1, <1>5 DEF RegistryTypeOK, EndWith, Registered
  <2>2. queueOf[r] \in Seq(Events) /\ produced[r] = delivered[r] \o queueOf[r]
    BY <1>1, <1>5 DEF Content, Streamed
  <2>3. queueOf[r] \o events \in Seq(Events)
    BY <2>2, ConcatProperties
  <2>4. queueOf'[r] = Append(queueOf[r] \o events, None)
    <3>1. queueOf[r] \o events \in Seq(Events \cup {None})
      BY <2>3, SeqMonotonic
    <3>2. QED
      BY <2>1, <3>1, AppendIsConcat
  <2>5. produced'[r] = delivered'[r] \o (queueOf[r] \o events)
    <3>1. (delivered[r] \o queueOf[r]) \o events = delivered[r] \o (queueOf[r] \o events)
      <4>1. /\ delivered[r] \in Seq(Events) /\ queueOf[r] \in Seq(Events)
            /\ events \in Seq(Events)
        BY <1>1, <2>2
      <4>2. QED
        BY <4>1, EventsAssociative
    <3>2. QED
      BY <2>1, <2>2, <3>1
  <2>6. Ending(r)'
    BY <2>3, <2>4, <2>5 DEF Ending
  <2>7. QED
    BY <2>1, <2>6 DEF Content
<1>6. CASE RuntimeReturns(r) \/ RuntimeRaises(r) \/ TaskCancelled(r)
  <2>1. <<>> \in Seq(Events) /\ <<Error>> \in Seq(Events)
    BY DEF Events
  <2>2. QED
    BY <1>5, <1>6, <2>1 DEF RuntimeReturns, RuntimeRaises, TaskCancelled
<1>7. QED
  BY <1>2, <1>3, <1>4, <1>6 DEF TaskStep

\* A consumer that takes an event moves it from the queue to what was delivered.
LEMMA TakesEvent ==
  ASSUME RegistryInv, NEW c \in Consumers, GetEvent(c), NEW r \in Runs, r = reader[c].run
  PROVE  Content(r)'
<1>1. Content(r) /\ delivered[r] \in Seq(Events)
  BY DEF RegistryInv, RegistryTypeOK
<1>2. /\ queueOf[r] # <<>> /\ Head(queueOf[r]) # None /\ r \in queues
      /\ task' = task /\ queues' = queues /\ produced' = produced
      /\ queueOf'[r] = Tail(queueOf[r])
      /\ delivered'[r] = Append(delivered[r], Head(queueOf[r]))
  <2>1. /\ queueOf[r] # <<>> /\ Head(queueOf[r]) # None /\ r \in queues
        /\ UNCHANGED <<task, queues, produced>>
    BY <1>1 DEF GetEvent, Content
  <2>2. DOMAIN queueOf = Runs /\ DOMAIN delivered = Runs
    BY DEF RegistryInv, RegistryTypeOK
  <2>3. QED
    BY <2>1, <2>2 DEF GetEvent
<1>3. CASE task[r] # "ended"
  <2>1. queueOf[r] \in Seq(Events) /\ produced[r] = delivered[r] \o queueOf[r]
    BY <1>1, <1>3 DEF Content, Streamed
  <2>2. Append(delivered[r], Head(queueOf[r])) \o Tail(queueOf[r]) = delivered[r] \o queueOf[r]
    BY <1>1, <1>2, <2>1, MoveHead, Zenon
  <2>3. Tail(queueOf[r]) \in Seq(Events)
    BY <1>2, <2>1, HeadTailProperties, Zenon
  <2>4. Streamed(r)'
    <3>1. queueOf'[r] \in Seq(Events) /\ produced'[r] = delivered'[r] \o queueOf'[r]
      BY <1>2, <2>1, <2>2, <2>3, Zenon
    <3>2. QED
      BY <3>1 DEF Streamed
  <2>5. QED
    BY <1>1, <1>2, <1>3, <2>4 DEF Content
<1>4. CASE task[r] = "ended"
  <2>1. PICK pending \in Seq(Events) :
          queueOf[r] = Append(pending, None) /\ produced[r] = delivered[r] \o pending
    BY <1>1, <1>2, <1>4 DEF Content, Ending
  <2>2. pending # <<>>
    BY <1>2, <2>1, ClosedQueue, Zenon
  <2>3. /\ Head(queueOf[r]) = Head(pending) /\ Tail(queueOf[r]) = Append(Tail(pending), None)
        /\ Tail(pending) \in Seq(Events)
    BY <2>1, <2>2, ClosedQueue, Zenon
  <2>4. Append(delivered[r], Head(pending)) \o Tail(pending) = delivered[r] \o pending
    BY <1>1, <2>2, MoveHead, Zenon
  <2>5. /\ queueOf'[r] = Append(Tail(pending), None)
        /\ produced'[r] = delivered'[r] \o Tail(pending)
    BY <1>2, <2>1, <2>3, <2>4, Zenon
  <2>6. Ending(r)'
    BY <2>3, <2>5 DEF Ending
  <2>7. QED
    BY <1>2, <1>4, <2>6 DEF Content
<1>5. QED
  BY <1>3, <1>4

\* A consumer finds the sentinel where nothing else is left, of a run that is
\* over and still registered.
LEMMA TakesSentinel ==
  ASSUME RegistryInv, NEW c \in Consumers, GetSentinel(c), NEW r \in Runs, r = reader[c].run
  PROVE  /\ task[r] = "ended" /\ r \in queues
         /\ queueOf'[r] = <<>> /\ produced[r] = delivered[r]
<1>1. /\ Content(r) /\ delivered[r] \in Seq(Events)
      /\ queueOf[r] # <<>> /\ Head(queueOf[r]) = None /\ queueOf'[r] = Tail(queueOf[r])
  BY DEF GetSentinel, RegistryInv, RegistryTypeOK
<1>2. None \notin Events
  BY EventsAssumption DEF Events
<1>3. task[r] = "ended" /\ r \in queues
  <2>1. queueOf[r] \notin Seq(Events)
    BY <1>1, <1>2
  <2>2. QED
    BY <1>1, <2>1 DEF Content, Streamed
<1>4. PICK pending \in Seq(Events) :
        queueOf[r] = Append(pending, None) /\ produced[r] = delivered[r] \o pending
  BY <1>1, <1>3 DEF Content, Ending
<1>5. pending = <<>>
  BY <1>1, <1>2, <1>4, EndingQueue
<1>6. queueOf'[r] = <<>> /\ produced[r] = delivered[r]
  BY <1>1, <1>4, <1>5, EndingQueue, ConcatEmptySeq
<1>7. QED
  BY <1>3, <1>6

-----------------------------------------------------------------------------
(* The invariant.                                                           *)

\* A step that leaves the entries of run r alone, and its readers where they
\* are or short of the end.
LEMMA EntriesKept ==
  ASSUME NEW r \in Runs, Registered(r),
         r \in queues' <=> r \in queues, r \in tasks' <=> r \in tasks,
         task[r] = "none" <=> task'[r] = "none", task[r] = "ended" => task'[r] = "ended",
         \A c \in Consumers :
           /\ reader'[c].run = r <=> reader[c].run = r
           /\ reader[c].run = r => (reader'[c].at = "finished" <=> reader[c].at = "finished")
  PROVE  Registered(r)'
  BY DEF Registered

\* What a step of the task of one run does to another run.
Beside(r) ==
  \A o \in Runs \ {r} :
    /\ task'[o] = task[o] /\ queueOf'[o] = queueOf[o]
    /\ produced'[o] = produced[o] /\ delivered'[o] = delivered[o]
    /\ o \in queues' <=> o \in queues
    /\ o \in tasks' <=> o \in tasks

\* start(), a step of the task and cancel() keep the invariant.
LEMMA TaskKeepsInv ==
  ASSUME RegistryInv, NEW r \in Runs, Start(r) \/ TaskStep(r) \/ Cancel(r)
  PROVE  ReadersPlaced' /\ \A o \in Runs : Content(o)' /\ Registered(o)'
<1>1. RegistryTypeOK /\ ReadersPlaced /\ Registered(r) /\ reader' = reader
  BY DEF RegistryInv, Start, TaskStep, TaskBegins, TaskDropped, Emit, RuntimeReturns,
         RuntimeRaises, TaskCancelled, EndWith, Cancel
<1>2. Beside(r)
  BY <1>1 DEF RegistryTypeOK, Beside, Start, TaskStep, TaskBegins, TaskDropped, Emit,
              RuntimeReturns, RuntimeRaises, TaskCancelled, EndWith, Cancel
<1>3. Registered(r)'
  <2>1. CASE Start(r)
    BY <1>1, <2>1 DEF Start, Registered, RegistryTypeOK, ReadersPlaced
  <2>2. CASE TaskStep(r) \/ Cancel(r)
    <3>1. /\ queues' = queues /\ tasks' = tasks /\ task[r] # "none" /\ task'[r] # "none"
          /\ task[r] = "ended" => task'[r] = "ended"
      BY <1>1, <2>2 DEF RegistryTypeOK, TaskStep, TaskBegins, TaskDropped, Emit,
              RuntimeReturns, RuntimeRaises, TaskCancelled, EndWith, Cancel
    <3>2. QED
      BY <1>1, <3>1, EntriesKept
  <2>3. QED
    BY <2>1, <2>2
<1>4. ASSUME NEW o \in Runs \ {r} PROVE Content(o)' /\ Registered(o)'
  <2>1. /\ Content(o) /\ Registered(o)
        /\ task'[o] = task[o] /\ queueOf'[o] = queueOf[o]
        /\ produced'[o] = produced[o] /\ delivered'[o] = delivered[o]
        /\ o \in queues' <=> o \in queues
        /\ o \in tasks' <=> o \in tasks
    BY <1>2 DEF RegistryInv, Beside
  <2>2. QED
    BY <1>1, <2>1, RunKept, EntriesKept
<1>5. QED
  BY <1>1, <1>3, <1>4, OwnTaskStep DEF ReadersPlaced

\* A consumer that begins, asks for more or goes away touches no stream.
LEMMA ReaderKeepsInv ==
  ASSUME RegistryInv, NEW c \in Consumers,
         AskEvent(c) \/ Abandon(c) \/ \E r \in Runs : Attach(c, r)
  PROVE  ReadersPlaced' /\ \A o \in Runs : Content(o)' /\ Registered(o)'
<1>1. RegistryTypeOK /\ ReadersPlaced
  BY DEF RegistryInv
<1>2. UNCHANGED <<task, queueOf, queues, tasks, produced, delivered>>
  BY DEF AskEvent, Abandon, Attach
<1>3. \A o \in Runs : Content(o)'
  BY <1>2 DEF RegistryInv, Content, Streamed, Ending
<1>4. /\ \A d \in Consumers \ {c} : reader'[d] = reader[d]
      /\ reader'[c].run \in Runs /\ reader'[c].at # "finished"
      /\ \/ reader'[c].run = reader[c].run /\ reader[c].at # "finished"
         \/ reader[c].at = "idle" /\ task[reader'[c].run] # "none"
  <2>1. CASE AskEvent(c) \/ Abandon(c)
    BY <1>1, <2>1 DEF RegistryTypeOK, ReadersPlaced, AskEvent, Abandon, MoveReader
  <2>2. ASSUME NEW r \in Runs, Attach(c, r) PROVE <1>4
    BY <1>1, <2>2 DEF RegistryTypeOK, Attach
  <2>3. QED
    BY <2>1, <2>2
<1>5. ASSUME NEW o \in Runs PROVE Registered(o)'
  BY <1>1, <1>2, <1>4 DEF RegistryInv, Registered, ReadersPlaced
<1>6. ReadersPlaced'
  BY <1>1, <1>4 DEF ReadersPlaced
<1>7. QED
  BY <1>3, <1>5, <1>6
\* Every event a consumer takes goes from the queue to what was delivered, and
\* the entries stay.
LEMMA TakeKeepsInv ==
  ASSUME RegistryInv, NEW c \in Consumers, GetEvent(c)
  PROVE  ReadersPlaced' /\ \A o \in Runs : Content(o)' /\ Registered(o)'
<1>0. PICK r \in Runs : r = reader[c].run
  BY DEF RegistryInv, GetEvent, ReadersPlaced
<1>1. RegistryTypeOK /\ ReadersPlaced
  BY DEF RegistryInv
<1>2. /\ UNCHANGED <<task, queues, tasks, produced>>
      /\ \A o \in Runs \ {r} : queueOf'[o] = queueOf[o] /\ delivered'[o] = delivered[o]
  BY <1>0, <1>1 DEF RegistryTypeOK, GetEvent
<1>3. /\ \A d \in Consumers \ {c} : reader'[d] = reader[d]
      /\ reader[c].run = r /\ reader'[c].run = r
      /\ reader[c].at # "finished" /\ reader'[c].at # "finished"
  BY <1>0, <1>1 DEF RegistryTypeOK, GetEvent, MoveReader
<1>4. Content(r)'
  BY <1>0, TakesEvent
<1>5. ASSUME NEW o \in Runs \ {r} PROVE Content(o)'
  <2>1. Content(o)
    BY DEF RegistryInv
  <2>2. QED
    BY <1>2, <2>1, RunKept
<1>6. ASSUME NEW o \in Runs PROVE Registered(o)'
  BY <1>2, <1>3 DEF RegistryInv, Registered
<1>7. ReadersPlaced'
  BY <1>1, <1>3 DEF ReadersPlaced
<1>8. QED
  BY <1>4, <1>5, <1>6, <1>7

\* The one consumer that takes the sentinel forgets the run.
LEMMA SentinelKeepsInv ==
  ASSUME RegistryInv, NEW c \in Consumers, GetSentinel(c)
  PROVE  ReadersPlaced' /\ \A o \in Runs : Content(o)' /\ Registered(o)'
<1>0. PICK r \in Runs : r = reader[c].run
  BY DEF RegistryInv, GetSentinel, ReadersPlaced
<1>1. RegistryTypeOK /\ ReadersPlaced
  BY DEF RegistryInv
<1>2. task[r] = "ended" /\ r \in queues /\ queueOf'[r] = <<>> /\ produced[r] = delivered[r]
  BY <1>0, TakesSentinel
<1>3. /\ UNCHANGED <<task, produced, delivered>>
      /\ queues' = queues \ {r} /\ tasks' = tasks \ {r}
      /\ \A o \in Runs \ {r} : queueOf'[o] = queueOf[o]
  BY <1>0, <1>1, <1>2 DEF RegistryTypeOK, GetSentinel
<1>4. /\ \A d \in Consumers \ {c} : reader'[d] = reader[d]
      /\ reader[c].run = r /\ reader'[c].run = r /\ reader'[c].at = "finished"
  BY <1>0, <1>1, <1>2 DEF RegistryTypeOK, GetSentinel, MoveReader
<1>5. Content(r)' /\ Registered(r)'
  <2>1. Content(r)'
    BY <1>2, <1>3 DEF Content
  <2>2. Registered(r)'
    BY <1>2, <1>3, <1>4 DEF RegistryInv, Registered
  <2>3. QED
    BY <2>1, <2>2
<1>6. ASSUME NEW o \in Runs \ {r} PROVE Content(o)' /\ Registered(o)'
  <2>1. Content(o) /\ Registered(o)
    BY DEF RegistryInv
  <2>2. Content(o)'
    BY <1>3, <2>1, RunKept
  <2>3. Registered(o)'
    BY <1>3, <1>4, <2>1 DEF Registered
  <2>4. QED
    BY <2>2, <2>3
<1>7. ReadersPlaced'
  BY <1>1, <1>4 DEF ReadersPlaced
<1>8. QED
  BY <1>5, <1>6, <1>7

\* The invariant is inductive.
LEMMA RegistryInductive == RegistryInv /\ [RegistryNext]_registryVars => RegistryInv'
<1> SUFFICES ASSUME RegistryInv, [RegistryNext]_registryVars PROVE RegistryInv'
  OBVIOUS
<1>1. RegistryTypeOK'
  BY RegistryTypeStep DEF RegistryInv
<1>2. ReadersPlaced' /\ \A o \in Runs : Content(o)' /\ Registered(o)'
  <2>1. CASE \E r \in Runs : Start(r) \/ TaskStep(r) \/ Cancel(r)
    BY <2>1, TaskKeepsInv
  <2>2. CASE \E c \in Consumers : AskEvent(c) \/ Abandon(c) \/ \E r \in Runs : Attach(c, r)
    BY <2>2, ReaderKeepsInv
  <2>3. CASE \E c \in Consumers : GetEvent(c)
    BY <2>3, TakeKeepsInv
  <2>4. CASE \E c \in Consumers : GetSentinel(c)
    BY <2>4, SentinelKeepsInv
  <2>5. CASE UNCHANGED registryVars
    BY <2>5 DEF registryVars, RegistryInv, ReadersPlaced, Content, Streamed, Ending, Registered
  <2>6. QED
    BY <2>1, <2>2, <2>3, <2>4, <2>5 DEF RegistryNext, ReaderStep
<1>3. QED
  BY <1>1, <1>2 DEF RegistryInv

\* The registry always satisfies its invariant.
THEOREM RegistryCorrect == RegistrySpec => []RegistryInv
  BY RegistryInitial, RegistryInductive, PTL DEF RegistrySpec

-----------------------------------------------------------------------------
(* What follows.                                                            *)

\* Whatever the order of steps of the tasks and of the consumers that share a
\* queue, leave early or are cancelled, a run's events are handed out in the
\* order they were produced, each once, and who leaves through the sentinel
\* leaves a run that is over and read in full (saap/gateway/orchestrator.py).
THEOREM RegistryStreams == RegistrySpec => []StreamIsFifo
<1>1. RegistryInv => StreamIsFifo
  <2> SUFFICES ASSUME RegistryInv PROVE StreamIsFifo
    OBVIOUS
  <2>1. None \notin Events
    BY EventsAssumption DEF Events
  <2>2. ASSUME NEW r \in Runs PROVE produced[r] = delivered[r] \o Pending(r)
    <3>1. Content(r) /\ Registered(r) /\ delivered[r] \in Seq(Events)
      BY DEF RegistryInv, RegistryTypeOK
    <3>2. CASE task[r] # "ended"
      <4>1. queueOf[r] \in Seq(Events) /\ produced[r] = delivered[r] \o queueOf[r]
        BY <3>1, <3>2 DEF Content, Streamed
      <4>2. queueOf[r] # <<>> => Last(queueOf[r]) # None
        BY <2>1, <4>1 DEF Last
      <4>3. QED
        BY <4>1, <4>2 DEF Pending
    <3>3. CASE task[r] = "ended" /\ r \in queues
      <4>1. PICK pending \in Seq(Events) :
              queueOf[r] = Append(pending, None) /\ produced[r] = delivered[r] \o pending
        BY <3>1, <3>3 DEF Content, Ending
      <4>2. Pending(r) = pending
        BY <4>1, ClosedQueue DEF Pending
      <4>3. QED
        BY <4>1, <4>2
    <3>4. CASE r \notin queues
      BY <3>1, <3>4, ConcatEmptySeq DEF Content, Pending
    <3>5. QED
      BY <3>2, <3>3, <3>4
  <2>3. ASSUME NEW c \in Consumers, reader[c].at = "finished"
        PROVE  LET r == reader[c].run IN task[r] = "ended" /\ delivered[r] = produced[r]
    BY <2>3 DEF RegistryInv, ReadersPlaced, Registered, Content
  <2>4. QED
    BY <2>2, <2>3 DEF StreamIsFifo
<1>2. QED
  BY <1>1, RegistryCorrect, PTL

\* The two dictionaries forget a run at once, and exactly when one of its
\* consumers has read its stream to the end (saap/gateway/orchestrator.py).
THEOREM RegistryForgets == RegistrySpec => []ForgottenWhenRead
<1>1. RegistryInv => ForgottenWhenRead
  BY DEF RegistryInv, Registered, ForgottenWhenRead, ReadersOf
<1>2. QED
  BY <1>1, RegistryCorrect, PTL
=============================================================================
