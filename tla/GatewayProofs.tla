----------------------------- MODULE GatewayProofs -----------------------------
(***************************************************************************)
(* Theorems about Gateway, for any number of sessions, runs, messages and  *)
(* events.                                                                 *)
(*                                                                         *)
(* Every step of the gateway is a step of the run registry or leaves it    *)
(* alone, so what is proved of the registry holds here.  The transcript of *)
(* a session then follows from a cursor: what the socket has shown of a    *)
(* run is what the registry delivered of it, less the event that is on its *)
(* way; and a session begins to render a run when it has finished the      *)
(* run before.                                                             *)
(***************************************************************************)
EXTENDS Gateway, InProcessOrchestratorProofs, FiniteSetTheorems

\* A run is read by its own generator, if at all, and nobody reads what was
\* not started.
Read(r) ==
  /\ reader[r].run = IF reader[r].at = "idle" THEN NoRun ELSE r
  /\ reader[r].at = "idle" => delivered[r] = <<>>
  /\ reader[r].at # "keyerror"
  /\ owner[r] = NoSession <=> task[r] = "none"

\* Where a handler stands, and where the generator of its run does.
Placed(s) ==
  LET r == current[s] IN
  /\ place[s] \in {"unwinding", "rendering", "sending"} => r \in Runs /\ owner[r] = s
  /\ place[s] = "unwinding" => reader[r].at = "idle"
  /\ place[s] = "rendering" => reader[r].at = "waiting"
  /\ place[s] = "sending" => reader[r].at = "working"
  /\ place[s] \in {"rendering", "sending"} => served[s] # <<>> /\ Last(served[s]) = r

\* While a handler listens it has answered all it received.
Counted(s) ==
  /\ place[s] = "listening" => got[s] = answered[s]
  /\ place[s] \notin {"listening", "closed"} => got[s] = answered[s] + 1
  /\ answered[s] <= got[s]

\* The runs s has begun are its own, and all but the one it renders, or that
\* ended the session, are finished.
Finished(s) ==
  /\ \A i \in DOMAIN served[s] : owner[served[s][i]] = s
  /\ \A i \in DOMAIN served[s] :
       i < Len(served[s]) \/ place[s] \notin {"rendering", "sending", "closed"}
         => reader[served[s][i]].at = "finished"

\* The event of r that was delivered and not shown.
OnItsWay(r) == IF reader[r].at \in {"working", "abandoned"} THEN 1 ELSE 0

\* What was shown of r is what was delivered, less the event on its way.
Cursor(r) ==
  owner[r] \in Sessions =>
    ShownOf(owner[r], r, Len(shown[owner[r]])) + OnItsWay(r) = Len(delivered[r])

Shows(s) ==
  \A i \in DOMAIN shown[s] :
    LET r == shown[s][i][1]
        n == ShownOf(s, r, i)
    IN owner[r] = s /\ n \in DOMAIN delivered[r] /\ shown[s][i][2] = delivered[r][n]

\* One run after the other.
Ordered(s) ==
  /\ \A i \in DOMAIN shown[s] : \E a \in DOMAIN served[s] : served[s][a] = shown[s][i][1]
  /\ \A i, j \in DOMAIN shown[s] : i < j =>
       \E a, b \in DOMAIN served[s] :
         a <= b /\ served[s][a] = shown[s][i][1] /\ served[s][b] = shown[s][j][1]

Transcribed ==
  /\ \A r \in Runs : Read(r) /\ Cursor(r)
  /\ \A s \in Sessions : Placed(s) /\ Finished(s) /\ Shows(s) /\ Ordered(s)

GatewayInv ==
  /\ TypeOK
  /\ RegistryInv
  /\ Transcribed
  /\ \A s \in Sessions : Counted(s)

-----------------------------------------------------------------------------
(* The gateway and the registry.                                            *)

\* Each handler drives the registry by its own operations.
LEMMA StepsOfRegistry ==
  ASSUME GatewayInv, [Next]_vars
  PROVE  [RegistryNext]_registryVars
<1>1. ASSUME NEW s \in Sessions, Receive(s) \/ Disconnect(s)
      PROVE  UNCHANGED registryVars
  BY <1>1 DEF Receive, Disconnect
<1>2. ASSUME NEW s \in Sessions, NEW r \in Runs, Admit(s, r)
      PROVE  RegistryNext
  BY <1>2 DEF Admit, RegistryNext
<1>3. ASSUME NEW s \in Sessions, Refuse(s) \/ RenderRefusal(s) \/ NoticeIdle(s) \/ ChainFails(s)
      PROVE  UNCHANGED registryVars
  BY <1>3 DEF Refuse, RenderRefusal, NoticeIdle, ChainFails
<1>4. ASSUME NEW r \in Runs, TaskSteps(r)
      PROVE  RegistryNext
  BY <1>4 DEF TaskSteps, RegistryNext
<1>5. ASSUME NEW r \in Runs,
             Attach(r, r) \/ GetEvent(r) \/ AskEvent(r) \/ GetSentinel(r) \/ Abandon(r)
      PROVE  RegistryNext
  BY <1>5, GeneratorsAssumption DEF RegistryNext, ReaderStep
<1>6. ASSUME NEW s \in Sessions,
             BeginRender(s) \/ TakeEvent(s) \/ SendEvent(s) \/ Finish(s) \/ NoticeSending(s)
      PROVE  RegistryNext
  <2>1. current[s] \in Runs
    BY <1>6 DEF GatewayInv, Transcribed, Placed, BeginRender, TakeEvent, SendEvent, Finish, NoticeSending
  <2> QED BY <1>5, <1>6, <2>1 DEF BeginRender, TakeEvent, SendEvent, Finish, NoticeSending
<1> QED BY <1>1, <1>2, <1>3, <1>4, <1>6 DEF Next, HandlerStep, vars

-----------------------------------------------------------------------------
(* Counting what was shown.                                                 *)

\* How many of the first n events of a transcript are events of r.
CountOf(q, r, n) == Cardinality({k \in 1..n : q[k][1] = r})

LEMMA CountFacts ==
  ASSUME NEW q, NEW r, NEW n \in Nat
  PROVE  /\ CountOf(q, r, n) \in Nat
         /\ CountOf(q, r, n + 1) = CountOf(q, r, n) + IF q[n + 1][1] = r THEN 1 ELSE 0
         /\ \A i \in 1..n : CountOf(q, r, i) <= CountOf(q, r, n)
         /\ \A i \in 1..n : q[i][1] = r => CountOf(q, r, i) >= 1
<1> DEFINE Ks(m) == {k \in 1..m : q[k][1] = r}
<1>1. ASSUME NEW m \in Nat PROVE IsFiniteSet(Ks(m)) /\ Cardinality(Ks(m)) \in Nat
  <2>1. IsFiniteSet(1..m) /\ Ks(m) \in SUBSET (1..m)
    BY FS_Interval
  <2> QED BY <2>1, FS_Subset, FS_CardinalityType
<1>2. Cardinality(Ks(n + 1)) = Cardinality(Ks(n)) + IF q[n + 1][1] = r THEN 1 ELSE 0
  <2>1. CASE q[n + 1][1] = r
    <3>1. Ks(n + 1) = Ks(n) \cup {n + 1} /\ n + 1 \notin Ks(n)
      BY <2>1
    <3>2. IsFiniteSet(Ks(n))
      BY <1>1
    <3> HIDE DEF Ks
    <3> QED BY <2>1, <3>1, <3>2, FS_AddElement
  <2>2. CASE q[n + 1][1] # r
    <3>1. Ks(n + 1) = Ks(n)
      BY <2>2
    <3> HIDE DEF Ks
    <3>2. Cardinality(Ks(n)) \in Nat
      BY <1>1
    <3> QED BY <2>2, <3>1, <3>2
  <2> QED BY <2>1, <2>2
<1>3. ASSUME NEW i \in 1..n PROVE Cardinality(Ks(i)) <= Cardinality(Ks(n))
  <2>1. Ks(i) \in SUBSET Ks(n) /\ IsFiniteSet(Ks(n))
    BY <1>1
  <2> QED BY <2>1, FS_Subset
<1>4. ASSUME NEW i \in 1..n, q[i][1] = r PROVE Cardinality(Ks(i)) >= 1
  <2>1. i \in Ks(i) /\ i \in Nat
    BY <1>4
  <2>2. IsFiniteSet(Ks(i)) /\ Cardinality(Ks(i)) \in Nat
    BY <1>1, <2>1
  <2> HIDE DEF Ks
  <2>3. Cardinality(Ks(i)) # 0
    BY <2>1, <2>2, FS_EmptySet
  <2> QED BY <2>2, <2>3
<1> QED BY <1>1, <1>2, <1>3, <1>4 DEF CountOf

\* An event appended to a transcript leaves the counts before it as they were
\* and is counted for its own run at the end.
LEMMA CountStays ==
  ASSUME NEW S, NEW q \in Seq(S), NEW e \in S, NEW r, NEW n \in 0..Len(q)
  PROVE  CountOf(Append(q, e), r, n) = CountOf(q, r, n)
<1>1. \A k \in 1..n : Append(q, e)[k] = q[k]
  OBVIOUS
<1>2. {k \in 1..n : Append(q, e)[k][1] = r} = {k \in 1..n : q[k][1] = r}
  BY <1>1
<1> QED BY <1>2 DEF CountOf

LEMMA CountAppend ==
  ASSUME NEW S, NEW q \in Seq(S), NEW e \in S, NEW r
  PROVE  CountOf(Append(q, e), r, Len(q) + 1)
           = CountOf(q, r, Len(q)) + IF e[1] = r THEN 1 ELSE 0
<1>1. Len(q) \in Nat /\ Append(q, e)[Len(q) + 1] = e
  OBVIOUS
<1>2. CountOf(Append(q, e), r, Len(q)) = CountOf(q, r, Len(q))
  BY <1>1, CountStays
<1>3. CountOf(Append(q, e), r, Len(q) + 1)
        = CountOf(Append(q, e), r, Len(q)) + IF e[1] = r THEN 1 ELSE 0
  <2> DEFINE p == Append(q, e)
             n == Len(q)
  <2>1. p[n + 1] = e /\ n \in Nat
    BY <1>1
  <2> HIDE DEF p, n
  <2>2. CountOf(p, r, n + 1) = CountOf(p, r, n) + IF p[n + 1][1] = r THEN 1 ELSE 0
    BY <2>1, CountFacts
  <2>3. CountOf(p, r, n + 1) = CountOf(p, r, n) + IF e[1] = r THEN 1 ELSE 0
    BY <2>1, <2>2
  <2> QED BY <2>3 DEF p, n
<1> QED BY <1>1, <1>2, <1>3

-----------------------------------------------------------------------------
(* What the registry's invariant says to a handler.                         *)

LEMMA Streams ==
  ASSUME GatewayInv, NEW r \in Runs
  PROVE  /\ delivered[r] \in Seq(Events) /\ produced[r] \in Seq(Events)
         /\ DOMAIN delivered[r] = 1..Len(delivered[r]) /\ Len(delivered[r]) \in Nat
         /\ \A n \in DOMAIN delivered[r] :
              n \in DOMAIN produced[r] /\ produced[r][n] = delivered[r][n]
         /\ reader[r].at = "finished" => task[r] = "ended" /\ delivered[r] = produced[r]
         /\ reader[r].at # "finished" /\ task[r] # "none" => r \in queues
<1>1. /\ delivered[r] \in Seq(Events) /\ produced[r] \in Seq(Events)
      /\ Content(r) /\ Registered(r) /\ Read(r) /\ r \in Consumers
  BY GeneratorsAssumption DEF GatewayInv, Transcribed, RegistryInv, RegistryTypeOK
<1>2. \E rest \in Seq(Events) : produced[r] = delivered[r] \o rest
  <2>1. CASE Streamed(r)
    BY <2>1 DEF Streamed
  <2>2. CASE Ending(r)
    BY <2>2 DEF Ending
  <2>3. CASE produced[r] = delivered[r]
    <3>1. <<>> \in Seq(Events) /\ delivered[r] \o <<>> = delivered[r]
      BY <1>1, ConcatEmptySeq
    <3> QED BY <2>3, <3>1
  <2> QED BY <1>1, <2>1, <2>2, <2>3 DEF Content
<1>3. DOMAIN delivered[r] = 1..Len(delivered[r]) /\ Len(delivered[r]) \in Nat
  BY <1>1, LenProperties
<1>4. \A n \in DOMAIN delivered[r] :
        n \in DOMAIN produced[r] /\ produced[r][n] = delivered[r][n]
  BY <1>1, <1>2, <1>3, ConcatProperties
<1>5. reader[r].at = "finished" => reader[r].run = r /\ task[r] # "none" /\ r \notin queues
  BY <1>1 DEF Read, Registered
<1>6. reader[r].at = "finished" => task[r] = "ended" /\ delivered[r] = produced[r]
  BY <1>1, <1>5 DEF Content, Registered
<1>7. reader[r].at # "finished" /\ task[r] # "none" => r \in queues
  <2>1. \A c \in Consumers : reader[c].run = r => c = r
    BY GeneratorsAssumption, NoRunAssumption DEF GatewayInv, Transcribed, Read
  <2> QED BY <1>1, <2>1 DEF Registered
<1> QED BY <1>1, <1>3, <1>4, <1>6, <1>7

\* A transcript that no step touches stays one.
LEMMA ShowsKept ==
  ASSUME NEW s \in Sessions, TypeOK, Shows(s), UNCHANGED shown[s],
         \A r \in Runs : owner[r] = s =>
           /\ owner'[r] = s
           /\ \A n \in DOMAIN delivered[r] :
                n \in DOMAIN delivered'[r] /\ delivered'[r][n] = delivered[r][n]
  PROVE  Shows(s)'
<1>1. ASSUME NEW i \in DOMAIN shown[s]
      PROVE  LET r == shown[s][i][1]
                 n == ShownOf(s, r, i)
             IN owner'[r] = s /\ n \in DOMAIN delivered'[r]
                /\ shown[s][i][2] = delivered'[r][n]
  <2>1. shown[s][i][1] \in Runs
    <3>1. shown[s] \in Seq(Runs \X Events)
      BY DEF TypeOK
    <3>2. shown[s][i] \in Runs \X Events
      BY <3>1, ElementOfSeq, LenProperties
    <3> QED BY <3>2
  <2> QED BY <2>1 DEF Shows
<1>2. \A r, n : ShownOf(s, r, n)' = ShownOf(s, r, n)
  BY DEF ShownOf
<1> QED BY <1>1, <1>2 DEF Shows

LEMMA OrderedKept ==
  ASSUME NEW s \in Sessions, TypeOK, Ordered(s), UNCHANGED shown[s],
         UNCHANGED served[s] \/ \E r \in Runs : served'[s] = Append(served[s], r)
  PROVE  Ordered(s)'
<1>1. \A a \in DOMAIN served[s] : a \in DOMAIN served'[s] /\ served'[s][a] = served[s][a]
  <2>1. served[s] \in Seq(Runs)
    BY DEF TypeOK
  <2> QED BY <2>1
<1> QED BY <1>1 DEF Ordered

\* A handler's step of the run r it renders, seen from the other runs and the
\* other sessions.
LEMMA OthersKept ==
  ASSUME GatewayInv, NEW s \in Sessions, NEW r \in Runs, owner[r] = s,
         UNCHANGED owner, \A x \in Runs : task'[x] = "none" <=> task[x] = "none",
         \A x \in Runs \ {r} : reader'[x] = reader[x] /\ delivered'[x] = delivered[x],
         \A z \in Sessions \ {s} :
           UNCHANGED <<place[z], current[z], served[z], shown[z]>>,
         \/ UNCHANGED shown[s]
         \/ \E e \in Events : shown'[s] = Append(shown[s], <<r, e>>)
  PROVE  /\ \A x \in Runs \ {r} : Read(x)' /\ Cursor(x)'
         /\ \A z \in Sessions \ {s} : Placed(z)' /\ Finished(z)' /\ Shows(z)' /\ Ordered(z)'
<1>1. ASSUME NEW x \in Runs \ {r} PROVE Read(x)' /\ Cursor(x)'
  <2>1. Read(x)'
    BY DEF GatewayInv, Transcribed, Read
  <2>2. UNCHANGED delivered[x] /\ OnItsWay(x)' = OnItsWay(x)
    BY DEF OnItsWay
  <2>3. ASSUME owner[x] \in Sessions
        PROVE  ShownOf(owner[x], x, Len(shown[owner[x]]))' = ShownOf(owner[x], x, Len(shown[owner[x]]))
    <3>1. CASE UNCHANGED shown[owner[x]]
      BY <3>1 DEF ShownOf
    <3>2. ASSUME owner[x] = s, NEW e \in Events, shown'[s] = Append(shown[s], <<r, e>>)
          PROVE  ShownOf(s, x, Len(shown[s]))' = ShownOf(s, x, Len(shown[s]))
      <4>1. shown[s] \in Seq(Runs \X Events) /\ <<r, e>> \in Runs \X Events /\ <<r, e>>[1] # x
        BY DEF GatewayInv, TypeOK
      <4>2. Len(shown[s]) \in Nat /\ Len(shown'[s]) = Len(shown[s]) + 1
        BY <3>2, <4>1
      <4>3. CountOf(shown'[s], x, Len(shown[s]) + 1) = CountOf(shown[s], x, Len(shown[s])) + 0
        BY <3>2, <4>1, CountAppend
      <4>4. CountOf(shown[s], x, Len(shown[s])) \in Nat
        BY <4>2, CountFacts
      <4> QED BY <4>2, <4>3, <4>4 DEF ShownOf, CountOf
    <3> QED BY <2>3, <3>1, <3>2
  <2>4. Cursor(x)
    BY DEF GatewayInv, Transcribed
  <2>5. Cursor(x)'
    BY <2>2, <2>3, <2>4 DEF Cursor
  <2> QED BY <2>1, <2>5
<1>2. ASSUME NEW z \in Sessions \ {s} PROVE Placed(z)' /\ Finished(z)' /\ Shows(z)' /\ Ordered(z)'
  <2>1. Placed(z) /\ Finished(z) /\ Shows(z) /\ Ordered(z) /\ TypeOK
    BY DEF GatewayInv, Transcribed
  <2>2. Placed(z)'
    BY <2>1 DEF Placed
  <2>3. Finished(z)'
    <3>1. \A i \in DOMAIN served[z] : served[z][i] \in Runs /\ served[z][i] # r
      <4>1. served[z] \in Seq(Runs)
        BY <2>1 DEF TypeOK
      <4>2. \A i \in DOMAIN served[z] : served[z][i] \in Runs
        BY <4>1, ElementOfSeq, LenProperties
      <4> QED BY <2>1, <4>2 DEF Finished
    <3> QED BY <2>1, <3>1 DEF Finished
  <2>4. Shows(z)'
    BY <2>1, ShowsKept
  <2>5. Ordered(z)'
    BY <2>1, OrderedKept
  <2> QED BY <2>2, <2>3, <2>4, <2>5
<1> QED BY <1>1, <1>2

-----------------------------------------------------------------------------
(* The steps of a handler.                                                  *)

LEMMA ShownCount ==
  ASSUME TypeOK, NEW s \in Sessions, NEW r
  PROVE  Len(shown[s]) \in Nat /\ ShownOf(s, r, Len(shown[s])) \in Nat
<1> DEFINE n == Len(shown[s])
<1>1. n \in Nat
  BY DEF TypeOK
<1> HIDE DEF n
<1>2. CountOf(shown[s], r, n) \in Nat
  BY <1>1, CountFacts
<1> QED BY <1>1, <1>2 DEF ShownOf, CountOf, n

LEMMA LastShown ==
  ASSUME GatewayInv, NEW r \in Runs, delivered[r] # <<>>
  PROVE  LastDelivered(r) = delivered[r][Len(delivered[r])] /\ LastDelivered(r) \in Events
<1>1. delivered[r] \in Seq(Events)
  BY Streams
<1> QED BY <1>1 DEF LastDelivered, Last

\* A handler answers a message only after it has received one more.
LEMMA CountedStep ==
  ASSUME GatewayInv, [Next]_vars, NEW z \in Sessions
  PROVE  Counted(z)' /\ got'[z] \in 0..MaxMessages /\ answered'[z] \in 0..MaxMessages
<1>1. /\ Counted(z) /\ got[z] \in 0..MaxMessages /\ answered[z] \in 0..MaxMessages
      /\ place \in [Sessions -> Places] /\ got \in [Sessions -> 0..MaxMessages]
      /\ answered \in [Sessions -> 0..MaxMessages] /\ MaxMessages \in Nat
  BY MessagesAssumption DEF GatewayInv, TypeOK
<1>2. ASSUME UNCHANGED <<place[z], got[z], answered[z]>>
      PROVE  Counted(z)' /\ got'[z] \in 0..MaxMessages /\ answered'[z] \in 0..MaxMessages
  BY <1>1, <1>2 DEF Counted
<1>3. ASSUME NEW s \in Sessions, Receive(s)
      PROVE  Counted(z)' /\ got'[z] \in 0..MaxMessages /\ answered'[z] \in 0..MaxMessages
  <2>1. CASE z = s
    BY <1>1, <1>3, <2>1 DEF Receive, Goto, Counted, history
  <2>2. CASE z # s
    BY <1>1, <1>2, <1>3, <2>2 DEF Receive, Goto, history
  <2> QED BY <2>1, <2>2
<1>4. ASSUME NEW s \in Sessions,
             \/ \E r \in Runs : Admit(s, r)
             \/ Refuse(s) \/ BeginRender(s) \/ TakeEvent(s) \/ SendEvent(s)
             \/ NoticeIdle(s) \/ NoticeSending(s) \/ ChainFails(s)
      PROVE  Counted(z)' /\ got'[z] \in 0..MaxMessages /\ answered'[z] \in 0..MaxMessages
  <2>1. UNCHANGED <<got, answered>>
    BY <1>4 DEF Admit, Refuse, BeginRender, TakeEvent, SendEvent, NoticeIdle, NoticeSending,
                ChainFails, history
  <2>2. CASE z = s
    <3>1. \/ place[s] \notin {"listening", "closed"} /\ place'[s] \notin {"listening", "closed"}
          \/ place'[s] = "closed"
      BY <1>1, <1>4 DEF Admit, Refuse, BeginRender, TakeEvent, SendEvent, NoticeIdle,
                        NoticeSending, ChainFails, Goto, Places
    <3> QED BY <1>1, <2>1, <2>2, <3>1 DEF Counted
  <2>3. CASE z # s
    <3>1. UNCHANGED place[z]
      BY <1>1, <1>4, <2>3 DEF Admit, Refuse, BeginRender, TakeEvent, SendEvent, NoticeIdle,
                              NoticeSending, ChainFails, Goto
    <3> QED BY <1>2, <2>1, <3>1
  <2> QED BY <2>2, <2>3
<1>5. ASSUME NEW s \in Sessions, RenderRefusal(s) \/ Finish(s)
      PROVE  Counted(z)' /\ got'[z] \in 0..MaxMessages /\ answered'[z] \in 0..MaxMessages
  <2>1. /\ place[s] \in {"refusing", "rendering"} /\ UNCHANGED got
        /\ place' = [place EXCEPT ![s] = "listening"]
        /\ answered' = [answered EXCEPT ![s] = @ + 1]
    BY <1>5 DEF RenderRefusal, Finish, Goto
  <2>2. CASE z = s
    BY <1>1, <2>1, <2>2 DEF Counted
  <2>3. CASE z # s
    BY <1>1, <1>2, <2>1, <2>3
  <2> QED BY <2>2, <2>3
<1>6. CASE (\E s \in Sessions : Disconnect(s)) \/ (\E r \in Runs : TaskSteps(r)) \/ UNCHANGED vars
  BY <1>2, <1>6 DEF Disconnect, TaskSteps, handler, history, vars
<1> QED BY <1>3, <1>4, <1>5, <1>6 DEF Next, HandlerStep

LEMMA TypeStep ==
  ASSUME GatewayInv, RegistryInv', [Next]_vars
  PROVE  TypeOK'
<1>1. TypeOK /\ RegistryTypeOK'
  BY DEF GatewayInv, RegistryInv
<1>2. got' \in [Sessions -> 0..MaxMessages] /\ answered' \in [Sessions -> 0..MaxMessages]
  <2>1. /\ got' = [z \in Sessions |-> got'[z]] /\ answered' = [z \in Sessions |-> answered'[z]]
    BY <1>1 DEF TypeOK, Next, HandlerStep, vars, handler, history, Receive, Admit, Refuse,
       RenderRefusal, BeginRender, TakeEvent, SendEvent, Finish, NoticeIdle, NoticeSending,
       ChainFails, Disconnect, TaskSteps
  <2>2. \A z \in Sessions : got'[z] \in 0..MaxMessages /\ answered'[z] \in 0..MaxMessages
    BY CountedStep
  <2> QED BY <2>1, <2>2
<1>3. /\ socket' \in [Sessions -> {"open", "gone"}]
      /\ place' \in [Sessions -> Places]
      /\ owner' \in [Runs -> Sessions \cup {NoSession}]
      /\ current' \in [Sessions -> Runs \cup {NoRun}]
  <2>1. CASE (\E s \in Sessions : Disconnect(s)) \/ (\E r \in Runs : TaskSteps(r)) \/ UNCHANGED vars
    BY <1>1, <2>1 DEF TypeOK, Disconnect, TaskSteps, vars, handler, history
  <2>2. ASSUME NEW s \in Sessions, Receive(s) \/ HandlerStep(s)
        PROVE  /\ UNCHANGED socket
               /\ \E p \in Places : place' = [place EXCEPT ![s] = p]
               /\ owner' = owner \/ \E r \in Runs : owner' = [owner EXCEPT ![r] = s]
               /\ current' = current \/ \E r \in Runs \cup {NoRun} : current' = [current EXCEPT ![s] = r]
    BY <2>2 DEF HandlerStep, handler, history, Receive, Admit, Refuse,
       RenderRefusal, BeginRender, TakeEvent, SendEvent, Finish, NoticeIdle, NoticeSending,
       ChainFails, Goto, Places
  <2>3. ASSUME NEW s \in Sessions, Receive(s) \/ HandlerStep(s)
        PROVE  /\ socket' \in [Sessions -> {"open", "gone"}]
               /\ place' \in [Sessions -> Places]
               /\ owner' \in [Runs -> Sessions \cup {NoSession}]
               /\ current' \in [Sessions -> Runs \cup {NoRun}]
    <3>1. /\ UNCHANGED socket
          /\ \E p \in Places : place' = [place EXCEPT ![s] = p]
          /\ owner' = owner \/ \E r \in Runs : owner' = [owner EXCEPT ![r] = s]
          /\ current' = current \/ \E r \in Runs \cup {NoRun} : current' = [current EXCEPT ![s] = r]
      BY <2>2, <2>3
    <3>2. socket' \in [Sessions -> {"open", "gone"}] /\ place' \in [Sessions -> Places]
      BY <1>1, <3>1 DEF TypeOK
    <3>3. owner' \in [Runs -> Sessions \cup {NoSession}]
      BY <1>1, <3>1 DEF TypeOK
    <3>4. current' \in [Sessions -> Runs \cup {NoRun}]
      BY <1>1, <3>1 DEF TypeOK
    <3> QED BY <3>2, <3>3, <3>4
  <2> QED BY <2>1, <2>3 DEF Next
<1>4. served' \in [Sessions -> Seq(Runs)] /\ shown' \in [Sessions -> Seq(Runs \X Events)]
  <2>1. ASSUME NEW s \in Sessions, BeginRender(s) PROVE served' \in [Sessions -> Seq(Runs)]
    <3>1. current[s] \in Runs
      BY <2>1 DEF BeginRender, GatewayInv, Transcribed, Placed
    <3>2. served \in [Sessions -> Seq(Runs)]
      BY <1>1 DEF TypeOK
    <3> QED BY <2>1, <3>1, <3>2 DEF BeginRender
  <2>2. ASSUME NEW s \in Sessions, SendEvent(s) PROVE shown' \in [Sessions -> Seq(Runs \X Events)]
    <3>1. current[s] \in Runs /\ delivered[current[s]] # <<>>
      <4>1. /\ current[s] \in Runs /\ owner[current[s]] = s
            /\ reader[current[s]].at = "working" /\ Cursor(current[s])
        BY <2>2 DEF SendEvent, GatewayInv, Transcribed, Placed
      <4>2. ShownOf(s, current[s], Len(shown[s])) \in Nat
        BY <1>1, ShownCount
      <4>3. Len(delivered[current[s]]) # 0
        BY <4>1, <4>2 DEF Cursor, OnItsWay
      <4> QED BY <4>1, <4>3
    <3>2. LastDelivered(current[s]) \in Events
      BY <3>1, LastShown
    <3>3. shown \in [Sessions -> Seq(Runs \X Events)]
      BY <1>1 DEF TypeOK
    <3> QED BY <2>2, <3>1, <3>2, <3>3 DEF SendEvent
  <2>3. (\E s \in Sessions : BeginRender(s)) \/ UNCHANGED served
    BY DEF Next, HandlerStep, vars, history, Receive, Admit, Refuse,
       RenderRefusal, TakeEvent, SendEvent, Finish, NoticeIdle, NoticeSending,
       ChainFails, Disconnect, TaskSteps
  <2>4. (\E s \in Sessions : SendEvent(s)) \/ UNCHANGED shown
    BY DEF Next, HandlerStep, vars, history, Receive, Admit, Refuse,
       RenderRefusal, BeginRender, TakeEvent, Finish, NoticeIdle, NoticeSending,
       ChainFails, Disconnect, TaskSteps
  <2> QED BY <1>1, <2>1, <2>2, <2>3, <2>4 DEF TypeOK
<1> QED BY <1>1, <1>2, <1>3, <1>4 DEF TypeOK

\* A step of a handler's own: nothing is started, read or shown.
LEMMA QuietStep ==
  ASSUME GatewayInv, UNCHANGED <<registryVars, owner, served, shown, current>>, NEW s \in Sessions,
         \A z \in Sessions \ {s} : UNCHANGED place[z],
         \/ UNCHANGED place[s]
         \/ place'[s] = "closed"
         \/ /\ place[s] \in {"listening", "admitting", "refusing"}
            /\ place'[s] \in {"listening", "admitting", "refusing"}
  PROVE  Transcribed'
<1>1. TypeOK /\ Transcribed
  BY DEF GatewayInv
<1>2. \A r \in Runs : Read(r)' /\ Cursor(r)'
  BY <1>1 DEF Transcribed, Read, Cursor, ShownOf, OnItsWay, registryVars
<1>3. ASSUME NEW z \in Sessions PROVE Placed(z)' /\ Finished(z)' /\ Shows(z)' /\ Ordered(z)'
  <2>1. /\ UNCHANGED <<place[z], current[z]>>
           \/ place'[z] = "closed"
           \/ /\ place[z] \in {"listening", "admitting", "refusing"}
              /\ place'[z] \in {"listening", "admitting", "refusing"}
    OBVIOUS
  <2>2. Placed(z)'
    BY <1>1, <2>1 DEF Transcribed, Placed, registryVars
  <2>3. Finished(z)'
    BY <1>1, <2>1 DEF Transcribed, Finished, registryVars
  <2>4. Shows(z)'
    BY <1>1, ShowsKept DEF Transcribed, registryVars
  <2>5. Ordered(z)'
    BY <1>1, OrderedKept DEF Transcribed, registryVars
  <2> QED BY <2>2, <2>3, <2>4, <2>5
<1> QED BY <1>2, <1>3 DEF Transcribed

\* start() in the chain: the run is new, and becomes s's.
LEMMA AdmitStep ==
  ASSUME GatewayInv, NEW s \in Sessions, NEW r \in Runs, Admit(s, r)
  PROVE  Transcribed'
<1>1. TypeOK /\ Transcribed
  BY DEF GatewayInv
<1>2. /\ UNCHANGED <<reader, delivered, served, shown>>
      /\ place[s] = "admitting" /\ place'[s] = "unwinding" /\ current'[s] = r
      /\ \A z \in Sessions : z # s => place'[z] = place[z] /\ current'[z] = current[z]
      /\ owner[r] = NoSession /\ owner'[r] = s /\ \A x \in Runs : x # r => owner'[x] = owner[x]
      /\ \A x \in Runs : task'[x] = "none" <=> task[x] = "none" /\ x # r
  BY <1>1 DEF Admit, Start, Goto, TypeOK, RegistryTypeOK, Transcribed, Read
<1>3. reader[r].at = "idle" /\ delivered[r] = <<>>
  BY <1>1, <1>2, NoRunAssumption, GeneratorsAssumption
  DEF Transcribed, Read, GatewayInv, RegistryInv, Registered
<1>4. ASSUME NEW x \in Runs PROVE Read(x)'
  BY <1>1, <1>2, <1>3, NoSessionAssumption DEF Transcribed, Read
<1>5. \A z \in Sessions : \A i \in DOMAIN shown[z] : shown[z][i][1] # r
  BY <1>1, <1>2, NoSessionAssumption DEF Transcribed, Shows
<1>6. Cursor(r)'
  <2> DEFINE n == Len(shown[s])
  <2>1. n \in Nat /\ DOMAIN shown[s] = 1..n
    BY <1>1 DEF TypeOK
  <2>2. {k \in 1..n : shown[s][k][1] = r} = {}
    BY <1>5, <2>1
  <2>3. Cardinality({k \in 1..n : shown[s][k][1] = r}) = 0
    BY <2>2, FS_EmptySet
  <2>4. ShownOf(s, r, Len(shown[s]))' = 0
    BY <1>2, <2>3 DEF ShownOf
  <2>5. Len(delivered[r]) = 0
    BY <1>3
  <2> QED BY <1>2, <1>3, <2>4, <2>5 DEF Cursor, OnItsWay
<1>7. ASSUME NEW x \in Runs, x # r PROVE Cursor(x)'
  <2>1. ShownOf(owner[x], x, Len(shown[owner[x]]))' = ShownOf(owner[x], x, Len(shown[owner[x]]))
    <3>1. owner'[x] = owner[x] /\ shown' = shown
      BY <1>2, <1>7
    <3> QED BY <3>1 DEF ShownOf
  <2>2. owner'[x] = owner[x] /\ delivered'[x] = delivered[x] /\ OnItsWay(x)' = OnItsWay(x)
    BY <1>2, <1>7 DEF OnItsWay
  <2> QED BY <1>1, <2>1, <2>2 DEF Transcribed, Cursor
<1>8. ASSUME NEW z \in Sessions PROVE Placed(z)' /\ Finished(z)' /\ Shows(z)' /\ Ordered(z)'
  <2>1. \A x \in Runs : owner[x] = z => owner'[x] = z
    BY <1>2, NoSessionAssumption
  <2>2. Placed(z)'
    <3>1. CASE z = s
      BY <1>2, <1>3, <3>1 DEF Placed
    <3>2. CASE z # s
      BY <1>1, <1>2, <2>1, <3>2 DEF Transcribed, Placed
    <3> QED BY <3>1, <3>2
  <2>3. Finished(z)'
    <3>1. \A i \in DOMAIN served[z] : served[z][i] \in Runs
      <4>1. served[z] \in Seq(Runs)
        BY <1>1 DEF TypeOK
      <4> QED BY <4>1, ElementOfSeq, LenProperties
    <3>2. place[z] \notin {"rendering", "sending", "closed"}
            <=> place'[z] \notin {"rendering", "sending", "closed"}
      BY <1>2
    <3> QED BY <1>1, <1>2, <2>1, <3>1, <3>2 DEF Transcribed, Finished
  <2>4. Shows(z)' /\ Ordered(z)'
    BY <1>1, <1>2, <2>1, ShowsKept, OrderedKept DEF Transcribed
  <2> QED BY <2>2, <2>3, <2>4
<1> QED BY <1>4, <1>6, <1>7, <1>8 DEF Transcribed

LEMMA ServedRuns ==
  ASSUME TypeOK, NEW s \in Sessions
  PROVE  /\ served[s] \in Seq(Runs) /\ Len(served[s]) \in Nat
         /\ DOMAIN served[s] = 1..Len(served[s])
         /\ \A i \in DOMAIN served[s] : served[s][i] \in Runs
<1>1. served[s] \in Seq(Runs)
  BY DEF TypeOK
<1> QED BY <1>1, ElementOfSeq, LenProperties

\* The run s renders: only its generator moves, with what it delivers.
LEMMA RenderStep ==
  ASSUME GatewayInv, NEW s \in Sessions, NEW r \in Runs, r = current[s],
         place[s] \in {"unwinding", "rendering", "sending"},
         UNCHANGED owner, \A x \in Runs : task'[x] = "none" <=> task[x] = "none",
         \A x \in Runs \ {r} : reader'[x] = reader[x] /\ delivered'[x] = delivered[x],
         \A z \in Sessions \ {s} :
           UNCHANGED <<place[z], current[z], served[z], shown[z]>>,
         \/ UNCHANGED shown[s]
         \/ \E e \in Events : shown'[s] = Append(shown[s], <<r, e>>),
         Read(r)', Cursor(r)', Placed(s)', Finished(s)', Shows(s)', Ordered(s)'
  PROVE  Transcribed'
<1>1. owner[r] = s
  BY DEF GatewayInv, Transcribed, Placed
<1>2. /\ \A x \in Runs \ {r} : Read(x)' /\ Cursor(x)'
      /\ \A z \in Sessions \ {s} : Placed(z)' /\ Finished(z)' /\ Shows(z)' /\ Ordered(z)'
  BY <1>1, OthersKept
<1> QED BY <1>2 DEF Transcribed

LEMMA CursorKept ==
  ASSUME NEW r \in Runs, Cursor(r), UNCHANGED <<owner[r], shown[owner[r]], delivered[r]>>,
         OnItsWay(r)' = OnItsWay(r)
  PROVE  Cursor(r)'
<1>1. ShownOf(owner[r], r, Len(shown[owner[r]]))' = ShownOf(owner[r], r, Len(shown[owner[r]]))
  BY DEF ShownOf
<1> QED BY <1>1 DEF Cursor

\* What a handler knows while it renders.
LEMMA Rendering ==
  ASSUME GatewayInv, NEW s \in Sessions, place[s] \in {"rendering", "sending"}
  PROVE  LET r == current[s] IN
         /\ r \in Runs /\ owner[r] = s /\ Read(r) /\ Cursor(r) /\ reader[r].run = r
         /\ task[r] # "none" /\ served[s] # <<>> /\ Last(served[s]) = r
         /\ place[s] = "rendering" => reader[r].at = "waiting"
         /\ place[s] = "sending" => reader[r].at = "working"
         /\ TypeOK /\ Finished(s) /\ Shows(s) /\ Ordered(s)
         /\ reader \in [Runs -> [run : Runs \cup {NoRun}, at : ReaderStates]]
         /\ delivered \in [Runs -> Seq(Events)]
<1>1. /\ TypeOK /\ Finished(s) /\ Shows(s) /\ Ordered(s) /\ Placed(s)
      /\ \A r \in Runs : Read(r) /\ Cursor(r)
  BY DEF GatewayInv, Transcribed
<1>2. /\ current[s] \in Runs /\ owner[current[s]] = s
      /\ served[s] # <<>> /\ Last(served[s]) = current[s]
      /\ place[s] = "rendering" => reader[current[s]].at = "waiting"
      /\ place[s] = "sending" => reader[current[s]].at = "working"
  BY <1>1 DEF Placed
<1>3. reader[current[s]].run = current[s] /\ task[current[s]] # "none"
  BY <1>1, <1>2, NoSessionAssumption DEF Read
<1>4. /\ reader \in [Runs -> [run : Runs \cup {NoRun}, at : ReaderStates]]
      /\ delivered \in [Runs -> Seq(Events)]
  BY <1>1, GeneratorsAssumption DEF TypeOK, RegistryTypeOK
<1> QED BY <1>1, <1>2, <1>3, <1>4

LEMMA BeginStep ==
  ASSUME GatewayInv, NEW s \in Sessions, BeginRender(s)
  PROVE  Transcribed'
<1> DEFINE r == current[s]
<1>1. /\ TypeOK /\ Transcribed /\ reader \in [Runs -> [run : Runs \cup {NoRun}, at : ReaderStates]]
      /\ place[s] = "unwinding" /\ r \in Runs /\ owner[r] = s /\ reader[r].at = "idle"
      /\ Read(r) /\ Cursor(r) /\ task[r] # "none" /\ Finished(s) /\ Shows(s) /\ Ordered(s)
  BY NoSessionAssumption, GeneratorsAssumption
  DEF GatewayInv, Transcribed, Placed, Read, BeginRender, Attach, TypeOK, RegistryTypeOK
<1>2. r \in queues
  BY <1>1, Streams
<1>3. /\ UNCHANGED <<task, delivered, owner, shown, current>>
      /\ reader'[r] = [run |-> r, at |-> "waiting"]
      /\ \A x \in Runs \ {r} : reader'[x] = reader[x]
      /\ served'[s] = Append(served[s], r) /\ \A z \in Sessions \ {s} : served'[z] = served[z]
      /\ place'[s] = "rendering" /\ \A z \in Sessions \ {s} : place'[z] = place[z]
  BY <1>1, <1>2 DEF BeginRender, Attach, Goto, TypeOK
<1>4. /\ served[s] \in Seq(Runs) /\ Len(served[s]) \in Nat
      /\ DOMAIN served[s] = 1..Len(served[s])
      /\ \A i \in DOMAIN served[s] : served[s][i] \in Runs
  BY <1>1, ServedRuns
<1>5. /\ served'[s] # <<>> /\ Last(served'[s]) = r /\ Len(served'[s]) = Len(served[s]) + 1
      /\ DOMAIN served'[s] = 1..(Len(served[s]) + 1) /\ served'[s][Len(served[s]) + 1] = r
      /\ \A i \in DOMAIN served[s] : served'[s][i] = served[s][i]
  BY <1>1, <1>3, <1>4 DEF Last
<1>6. Read(r)' /\ Cursor(r)'
  <2>1. Read(r)'
    BY <1>1, <1>3, NoSessionAssumption DEF Read
  <2>2. OnItsWay(r)' = OnItsWay(r)
    BY <1>1, <1>3 DEF OnItsWay
  <2> QED BY <1>1, <1>3, <2>1, <2>2, CursorKept
<1>7. Placed(s)'
  BY <1>1, <1>3, <1>5 DEF Placed
<1>8. Finished(s)'
  <2>1. ASSUME NEW i \in DOMAIN served[s]
        PROVE  owner[served[s][i]] = s /\ reader'[served[s][i]].at = "finished"
    BY <1>1, <1>3, <1>4 DEF Finished
  <2> QED BY <1>1, <1>3, <1>4, <1>5, <2>1 DEF Finished
<1>9. Shows(s)' /\ Ordered(s)'
  BY <1>1, <1>3, ShowsKept, OrderedKept
<1> HIDE DEF r
<1> QED BY <1>1, <1>3, <1>6, <1>7, <1>8, <1>9, RenderStep DEF r

LEMMA TakeStep ==
  ASSUME GatewayInv, NEW s \in Sessions, TakeEvent(s), RegistryInv'
  PROVE  Transcribed'
<1> DEFINE r == current[s]
<1>1. /\ TypeOK /\ reader \in [Runs -> [run : Runs \cup {NoRun}, at : ReaderStates]]
      /\ place[s] = "rendering" /\ r \in Runs /\ owner[r] = s /\ reader[r].at = "waiting"
      /\ served[s] # <<>> /\ Last(served[s]) = r /\ reader[r].run = r
      /\ Read(r) /\ Cursor(r) /\ Finished(s) /\ Shows(s) /\ Ordered(s)
      /\ delivered \in [Runs -> Seq(Events)] /\ delivered'[r] \in Seq(Events)
  <2>1. place[s] = "rendering"
    BY DEF TakeEvent
  <2>2. r \in Runs /\ delivered' \in [Runs -> Seq(Events)]
    BY <2>1, Rendering DEF RegistryInv, RegistryTypeOK
  <2> QED BY <2>1, <2>2, Rendering
<1>2. PICK e : /\ delivered'[r] = Append(delivered[r], e)
               /\ \A x \in Runs \ {r} : delivered'[x] = delivered[x]
  BY <1>1 DEF TakeEvent, GetEvent
<1>3. /\ UNCHANGED <<task, owner, served, shown, current>>
      /\ reader'[r].at = "working" /\ reader'[r].run = r
      /\ \A x \in Runs \ {r} : reader'[x] = reader[x]
      /\ place'[s] = "sending" /\ \A z \in Sessions \ {s} : place'[z] = place[z]
  BY <1>1 DEF TakeEvent, GetEvent, MoveReader, Goto, TypeOK, history
<1>4. /\ Len(delivered'[r]) = Len(delivered[r]) + 1 /\ Len(delivered[r]) \in Nat
      /\ \A n \in DOMAIN delivered[r] :
           n \in DOMAIN delivered'[r] /\ delivered'[r][n] = delivered[r][n]
  <2>1. delivered[r] \in Seq(Events)
    BY <1>1
  <2> QED BY <1>2, <2>1
<1>5. Read(r)'
  BY <1>1, <1>3 DEF Read
<1>6. Cursor(r)'
  <2>1. ShownOf(s, r, Len(shown[s])) \in Nat
    BY <1>1, ShownCount
  <2>2. ShownOf(s, r, Len(shown[s])) = Len(delivered[r])
    BY <1>1, <2>1 DEF Cursor, OnItsWay
  <2>3. ShownOf(s, r, Len(shown[s]))' = ShownOf(s, r, Len(shown[s]))
    BY <1>3 DEF ShownOf
  <2>4. OnItsWay(r)' = 1
    BY <1>3 DEF OnItsWay
  <2> QED BY <1>1, <1>3, <1>4, <2>2, <2>3, <2>4 DEF Cursor
<1>7. Placed(s)'
  BY <1>1, <1>3 DEF Placed
<1>8. Finished(s)'
  <2>1. \A i \in DOMAIN served[s] : served[s][i] \in Runs
    BY <1>1, ServedRuns
  <2> QED BY <1>1, <1>3, <2>1 DEF Finished
<1>9. Shows(s)' /\ Ordered(s)'
  <2>1. \A x \in Runs : \A n \in DOMAIN delivered[x] :
          n \in DOMAIN delivered'[x] /\ delivered'[x][n] = delivered[x][n]
    BY <1>2, <1>4
  <2> QED BY <1>1, <1>3, <2>1, ShowsKept, OrderedKept
<1> HIDE DEF r
<1> QED BY <1>1, <1>2, <1>3, <1>5, <1>6, <1>7, <1>8, <1>9, RenderStep DEF r

LEMMA FinishStep ==
  ASSUME GatewayInv, NEW s \in Sessions, Finish(s)
  PROVE  Transcribed'
<1>0. place[s] = "rendering" /\ current[s] \in Runs
  BY Rendering DEF Finish
<1> PICK r \in Runs : r = current[s]
  BY <1>0
<1>1. /\ TypeOK /\ reader \in [Runs -> [run : Runs \cup {NoRun}, at : ReaderStates]]
      /\ place[s] = "rendering" /\ r \in Runs /\ owner[r] = s /\ reader[r].at = "waiting"
      /\ served[s] # <<>> /\ Last(served[s]) = r /\ reader[r].run = r /\ task[r] # "none"
      /\ Read(r) /\ Cursor(r) /\ Finished(s) /\ Shows(s) /\ Ordered(s)
  BY <1>0, Rendering
<1>2. r \in queues
  BY <1>1, Streams
<1>3. /\ UNCHANGED <<task, owner, served, shown, delivered>>
      /\ reader'[r].at = "finished" /\ reader'[r].run = r
      /\ \A x \in Runs \ {r} : reader'[x] = reader[x]
      /\ place'[s] = "listening"
      /\ \A z \in Sessions \ {s} : place'[z] = place[z] /\ current'[z] = current[z]
  BY <1>1, <1>2 DEF Finish, GetSentinel, MoveReader, Goto, TypeOK
<1>4. Read(r)' /\ Cursor(r)'
  <2>1. Read(r)'
    BY <1>1, <1>3 DEF Read
  <2>2. OnItsWay(r)' = OnItsWay(r)
    BY <1>1, <1>3 DEF OnItsWay
  <2> QED BY <1>1, <1>3, <2>1, <2>2, CursorKept
<1>5. Placed(s)'
  BY <1>3 DEF Placed
<1>6. Finished(s)'
  <2>1. /\ \A i \in DOMAIN served[s] : served[s][i] \in Runs
        /\ DOMAIN served[s] = 1..Len(served[s]) /\ Len(served[s]) \in Nat
        /\ served[s][Len(served[s])] = r
    BY <1>1, ServedRuns DEF Last
  <2>2. \A i \in DOMAIN served[s] : i < Len(served[s]) \/ served[s][i] = r
    BY <2>1
  <2> QED BY <1>1, <1>3, <2>1, <2>2 DEF Finished
<1>7. Shows(s)' /\ Ordered(s)'
  BY <1>1, <1>3, ShowsKept, OrderedKept
<1>8. \A z \in Sessions \ {s} : UNCHANGED <<place[z], current[z], served[z], shown[z]>>
  BY <1>3
<1> QED BY <1>0, <1>1, <1>3, <1>4, <1>5, <1>6, <1>7, <1>8, RenderStep

LEMMA LeaveStep ==
  ASSUME GatewayInv, NEW s \in Sessions, NoticeSending(s)
  PROVE  Transcribed'
<1> DEFINE r == current[s]
<1>1. /\ TypeOK /\ reader \in [Runs -> [run : Runs \cup {NoRun}, at : ReaderStates]]
      /\ place[s] = "sending" /\ r \in Runs /\ owner[r] = s /\ reader[r].at = "working"
      /\ reader[r].run = r /\ Read(r) /\ Cursor(r) /\ Finished(s) /\ Shows(s) /\ Ordered(s)
  <2>1. place[s] = "sending"
    BY DEF NoticeSending
  <2> QED BY <2>1, Rendering
<1>2. /\ UNCHANGED <<task, owner, served, shown, delivered, current>>
      /\ reader'[r].at = "abandoned" /\ reader'[r].run = r
      /\ \A x \in Runs \ {r} : reader'[x] = reader[x]
      /\ place'[s] = "closed" /\ \A z \in Sessions \ {s} : place'[z] = place[z]
  BY <1>1 DEF NoticeSending, Abandon, MoveReader, Goto, TypeOK, history
<1>3. Read(r)' /\ Cursor(r)'
  <2>1. Read(r)'
    BY <1>1, <1>2 DEF Read
  <2>2. OnItsWay(r)' = OnItsWay(r)
    BY <1>1, <1>2 DEF OnItsWay
  <2> QED BY <1>1, <1>2, <2>1, <2>2, CursorKept
<1>4. Placed(s)' /\ Finished(s)'
  <2>1. \A i \in DOMAIN served[s] : served[s][i] \in Runs
    BY <1>1, ServedRuns
  <2> QED BY <1>1, <1>2, <2>1 DEF Placed, Finished
<1>5. Shows(s)' /\ Ordered(s)'
  BY <1>1, <1>2, ShowsKept, OrderedKept
<1> HIDE DEF r
<1> QED BY <1>1, <1>2, <1>3, <1>4, <1>5, RenderStep DEF r

LEMMA SendStep ==
  ASSUME GatewayInv, NEW s \in Sessions, SendEvent(s)
  PROVE  Transcribed'
<1>0. place[s] = "sending" /\ current[s] \in Runs
  BY Rendering DEF SendEvent
<1> PICK r \in Runs : r = current[s]
  BY <1>0
<1>1. /\ TypeOK /\ reader \in [Runs -> [run : Runs \cup {NoRun}, at : ReaderStates]]
      /\ owner[r] = s /\ reader[r].at = "working" /\ reader[r].run = r
      /\ served[s] # <<>> /\ Last(served[s]) = r
      /\ Read(r) /\ Cursor(r) /\ Finished(s) /\ Shows(s) /\ Ordered(s)
      /\ delivered \in [Runs -> Seq(Events)] /\ shown[s] \in Seq(Runs \X Events)
      /\ shown \in [Sessions -> Seq(Runs \X Events)]
  <2>1. TypeOK
    BY DEF GatewayInv
  <2>2. /\ delivered \in [Runs -> Seq(Events)] /\ shown[s] \in Seq(Runs \X Events)
        /\ shown \in [Sessions -> Seq(Runs \X Events)]
        /\ reader \in [Runs -> [run : Runs \cup {NoRun}, at : ReaderStates]]
    BY <2>1, GeneratorsAssumption DEF TypeOK, RegistryTypeOK
  <2> QED BY <1>0, <2>1, <2>2, Rendering
<1> PICK n \in Nat : n = Len(shown[s])
  BY <1>1, ShownCount
<1> PICK m \in Nat : m = Len(delivered[r])
  BY <1>1
<1>2. ShownOf(s, r, n) + 1 = m /\ ShownOf(s, r, n) \in Nat
  <2>1. ShownOf(s, r, n) \in Nat
    BY <1>1, ShownCount
  <2> QED BY <1>1, <2>1 DEF Cursor, OnItsWay
<1> PICK e \in Events : e = LastDelivered(r) /\ e = delivered[r][m] /\ m \in DOMAIN delivered[r]
  <2>1. delivered[r] \in Seq(Events) /\ delivered[r] # <<>>
    BY <1>1, <1>2
  <2>2. m \in DOMAIN delivered[r]
    BY <1>2, <2>1
  <2> QED BY <2>1, <2>2, LastShown
<1>3. e = LastDelivered(r) /\ e = delivered[r][m] /\ m \in DOMAIN delivered[r]
  OBVIOUS
<1>4. /\ UNCHANGED <<task, owner, served, delivered, current>>
      /\ reader'[r].at = "waiting" /\ reader'[r].run = r
      /\ \A x \in Runs \ {r} : reader'[x] = reader[x]
      /\ place'[s] = "rendering" /\ \A z \in Sessions \ {s} : place'[z] = place[z]
      /\ shown'[s] = Append(shown[s], <<r, e>>)
      /\ \A z \in Sessions \ {s} : shown'[z] = shown[z]
  BY <1>1 DEF SendEvent, AskEvent, MoveReader, Goto, TypeOK
<1>5. /\ Len(shown'[s]) = n + 1 /\ DOMAIN shown'[s] = 1..(n + 1)
      /\ shown'[s][n + 1] = <<r, e>> /\ \A i \in 1..n : shown'[s][i] = shown[s][i]
      /\ DOMAIN shown[s] = 1..n
  BY <1>1, <1>3, <1>4
<1>6. /\ \A x \in Runs, i \in 1..n : ShownOf(s, x, i)' = ShownOf(s, x, i)
      /\ ShownOf(s, r, n + 1)' = m
  <2>1. PICK x \in Runs \X Events : x = <<r, e>>
    BY <1>3
  <2>2. /\ \A y \in Runs, i \in 0..n : CountOf(shown'[s], y, i) = CountOf(shown[s], y, i)
        /\ CountOf(shown'[s], r, n + 1) = CountOf(shown[s], r, n) + 1
    <3>1. PICK q \in Seq(Runs \X Events) : q = shown[s] /\ Len(q) = n
      BY <1>1
    <3>2. shown'[s] = Append(q, x) /\ x[1] = r
      BY <1>4, <2>1, <3>1
    <3>3. ASSUME NEW y \in Runs, NEW i \in 0..n
          PROVE  CountOf(Append(q, x), y, i) = CountOf(q, y, i)
      BY <2>1, <3>1, CountStays
    <3>4. CountOf(Append(q, x), r, n + 1) = CountOf(q, r, n) + 1
      BY <2>1, <3>1, <3>2, CountAppend
    <3> QED BY <3>1, <3>2, <3>3, <3>4
  <2>3. ASSUME NEW y \in Runs, NEW i \in 1..n PROVE ShownOf(s, y, i)' = ShownOf(s, y, i)
    <3>1. CountOf(shown'[s], y, i) = CountOf(shown[s], y, i)
      BY <2>2
    <3> QED BY <3>1 DEF ShownOf, CountOf
  <2>4. ShownOf(s, r, n + 1)' = CountOf(shown'[s], r, n + 1)
    BY DEF ShownOf, CountOf
  <2>5. ShownOf(s, r, n) = CountOf(shown[s], r, n)
    BY DEF ShownOf, CountOf
  <2> QED BY <1>2, <2>2, <2>3, <2>4, <2>5
<1>7. Read(r)'
  BY <1>1, <1>4 DEF Read
<1>8. Cursor(r)'
  <2>1. OnItsWay(r)' = 0
    BY <1>4 DEF OnItsWay
  <2>2. ShownOf(s, r, Len(shown[s]))' = m
    BY <1>5, <1>6
  <2> QED BY <1>1, <1>2, <1>4, <2>1, <2>2 DEF Cursor
<1>9. Placed(s)' /\ Finished(s)'
  <2>1. \A i \in DOMAIN served[s] : served[s][i] \in Runs
    BY <1>1, ServedRuns
  <2> QED BY <1>0, <1>1, <1>4, <2>1 DEF Placed, Finished
<1>10. Shows(s)'
  <2> SUFFICES ASSUME NEW i \in 1..(n + 1)
               PROVE  LET x == shown'[s][i][1]
                          k == CountOf(shown'[s], x, i)
                      IN owner[x] = s /\ k \in DOMAIN delivered[x]
                         /\ shown'[s][i][2] = delivered[x][k]
    <3>1. UNCHANGED <<owner, delivered>> /\ DOMAIN shown'[s] = 1..(n + 1)
      BY <1>4, <1>5
    <3> QED BY <3>1, Zenon DEF Shows, ShownOf, CountOf
  <2> PICK x : x = shown'[s][i][1]
    OBVIOUS
  <2> PICK k : k = CountOf(shown'[s], x, i)
    OBVIOUS
  <2>1. ASSUME i = n + 1
        PROVE  owner[x] = s /\ k \in DOMAIN delivered[x] /\ shown'[s][i][2] = delivered[x][k]
    <3>1. x = r /\ shown'[s][i][2] = e
      BY <1>5, <2>1
    <3>2. k = m
      <4>1. CountOf(shown'[s], r, n + 1) = m
        BY <1>6 DEF ShownOf, CountOf
      <4> QED BY <2>1, <3>1, <4>1
    <3> QED BY <1>1, <1>3, <3>1, <3>2
  <2>2. ASSUME i \in 1..n
        PROVE  owner[x] = s /\ k \in DOMAIN delivered[x] /\ shown'[s][i][2] = delivered[x][k]
    <3>1. shown[s][i] \in Runs \X Events
      BY <1>1, <1>5, <2>2, ElementOfSeq
    <3>2. x \in Runs /\ x = shown[s][i][1] /\ shown'[s][i] = shown[s][i]
      BY <1>5, <2>2, <3>1
    <3>3. k = ShownOf(s, x, i)
      <4>1. ShownOf(s, x, i)' = ShownOf(s, x, i)
        BY <1>6, <2>2, <3>2
      <4> QED BY <4>1 DEF ShownOf, CountOf
    <3> QED BY <1>1, <1>5, <2>2, <3>2, <3>3 DEF Shows
  <2>3. owner[x] = s /\ k \in DOMAIN delivered[x] /\ shown'[s][i][2] = delivered[x][k]
    BY <2>1, <2>2
  <2> QED BY <2>3
<1>11. Ordered(s)'
  <2>1. /\ DOMAIN served[s] = 1..Len(served[s]) /\ Len(served[s]) \in Nat
        /\ Len(served[s]) \in DOMAIN served[s] /\ served[s][Len(served[s])] = r
    BY <1>1, ServedRuns DEF Last
  <2>2. ASSUME NEW i \in 1..(n + 1)
        PROVE  \E a \in DOMAIN served[s] : served[s][a] = shown'[s][i][1]
    <3>1. CASE i \in 1..n
      <4>1. \E a \in DOMAIN served[s] : served[s][a] = shown[s][i][1]
        BY <1>1, <1>5, <3>1 DEF Ordered
      <4>2. shown'[s][i] = shown[s][i]
        BY <1>5, <3>1
      <4> QED BY <4>1, <4>2
    <3>2. CASE i = n + 1
      <4>1. shown'[s][i][1] = r
        BY <1>5, <3>2
      <4> QED BY <2>1, <4>1
    <3> QED BY <3>1, <3>2
  <2>3. ASSUME NEW i \in 1..(n + 1), NEW j \in 1..(n + 1), i < j
        PROVE  \E a, b \in DOMAIN served[s] :
                 a <= b /\ served[s][a] = shown'[s][i][1] /\ served[s][b] = shown'[s][j][1]
    <3>1. CASE j \in 1..n
      <4>1. i \in 1..n
        BY <2>3, <3>1
      <4>2. \E a, b \in DOMAIN served[s] :
              a <= b /\ served[s][a] = shown[s][i][1] /\ served[s][b] = shown[s][j][1]
        <5>1. Ordered(s) /\ i \in DOMAIN shown[s] /\ j \in DOMAIN shown[s]
          BY <1>1, <1>5, <3>1, <4>1
        <5> QED BY <2>3, <5>1 DEF Ordered
      <4>3. shown'[s][i] = shown[s][i] /\ shown'[s][j] = shown[s][j]
        BY <1>5, <3>1, <4>1
      <4> QED BY <4>2, <4>3
    <3>2. CASE j = n + 1
      <4>1. PICK a \in DOMAIN served[s] : served[s][a] = shown'[s][i][1]
        BY <2>2
      <4>2. a <= Len(served[s]) /\ shown'[s][j][1] = r
        BY <1>5, <2>1, <3>2
      <4> QED BY <2>1, <4>1, <4>2
    <3> QED BY <1>2, <3>1, <3>2
  <2>4. UNCHANGED served[s] /\ DOMAIN shown'[s] = 1..(n + 1)
    BY <1>4, <1>5
  <2>5. \A i \in 1..(n + 1) : \E a \in DOMAIN served[s] : served[s][a] = shown'[s][i][1]
    BY <2>2
  <2>6. \A i, j \in 1..(n + 1) : i < j =>
          \E a, b \in DOMAIN served[s] :
            a <= b /\ served[s][a] = shown'[s][i][1] /\ served[s][b] = shown'[s][j][1]
    BY <2>3
  <2> QED BY <2>4, <2>5, <2>6 DEF Ordered
<1>12. \A z \in Sessions \ {s} : UNCHANGED <<place[z], current[z], served[z], shown[z]>>
  BY <1>4
<1> QED BY <1>0, <1>1, <1>3, <1>4, <1>7, <1>8, <1>9, <1>10, <1>11, <1>12, RenderStep

\* What a task puts on its queue is not delivered yet.
LEMMA TasksStep ==
  ASSUME GatewayInv, NEW t \in Runs, TaskSteps(t)
  PROVE  Transcribed'
<1>1. TypeOK /\ Transcribed
  BY DEF GatewayInv
<1>2. /\ UNCHANGED <<reader, delivered, owner, served, shown, place, current>>
      /\ \A x \in Runs : task'[x] = "none" <=> task[x] = "none"
  BY <1>1 DEF TaskSteps, TaskStep, TaskBegins, TaskDropped, Emit, RuntimeReturns, RuntimeRaises,
              TaskCancelled, EndWith, TypeOK, RegistryTypeOK, handler, history
<1>3. ASSUME NEW r \in Runs PROVE Read(r)' /\ Cursor(r)'
  BY <1>1, <1>2, CursorKept DEF Transcribed, Read, OnItsWay
<1>4. ASSUME NEW z \in Sessions PROVE Placed(z)' /\ Finished(z)' /\ Shows(z)' /\ Ordered(z)'
  BY <1>1, <1>2, ShowsKept, OrderedKept DEF Transcribed, Placed, Finished
<1> QED BY <1>3, <1>4 DEF Transcribed

LEMMA GatewayInductive == GatewayInv /\ [Next]_vars => GatewayInv'
<1> SUFFICES ASSUME GatewayInv, [Next]_vars PROVE GatewayInv'
  OBVIOUS
<1>1. RegistryInv'
  BY StepsOfRegistry, RegistryInductive DEF GatewayInv
<1>2. TypeOK' /\ \A s \in Sessions : Counted(s)'
  BY <1>1, TypeStep, CountedStep
<1>3. place \in [Sessions -> Places]
  BY DEF GatewayInv, TypeOK
<1>4. ASSUME NEW s \in Sessions,
             Receive(s) \/ Refuse(s) \/ RenderRefusal(s) \/ NoticeIdle(s) \/ ChainFails(s)
      PROVE  Transcribed'
  <2>1. UNCHANGED <<registryVars, owner, served, shown, current>>
    BY <1>4 DEF Receive, Refuse, RenderRefusal, NoticeIdle, ChainFails, history
  <2>2. /\ \A z \in Sessions \ {s} : UNCHANGED place[z]
        /\ \/ place'[s] = "closed"
           \/ /\ place[s] \in {"listening", "admitting", "refusing"}
              /\ place'[s] \in {"listening", "admitting", "refusing"}
    BY <1>3, <1>4 DEF Receive, Refuse, RenderRefusal, NoticeIdle, ChainFails, Goto
  <2> QED BY <2>1, <2>2, QuietStep
<1>5. ASSUME NEW s \in Sessions, Disconnect(s) PROVE Transcribed'
  BY <1>5, QuietStep DEF Disconnect, handler, history
<1>6. ASSUME UNCHANGED vars PROVE Transcribed'
  <2>1. /\ UNCHANGED <<task, reader, delivered, owner, served, shown, current, place>>
        /\ TypeOK /\ Transcribed
    BY <1>6 DEF vars, handler, history, registryVars, GatewayInv
  <2>2. ASSUME NEW r \in Runs PROVE Read(r)' /\ Cursor(r)'
    BY <2>1 DEF Transcribed, Read, Cursor, ShownOf, OnItsWay
  <2>3. ASSUME NEW z \in Sessions PROVE Placed(z)' /\ Finished(z)' /\ Shows(z)' /\ Ordered(z)'
    BY <2>1, ShowsKept, OrderedKept DEF Transcribed, Placed, Finished
  <2> QED BY <2>2, <2>3 DEF Transcribed
<1>7. Transcribed'
  BY <1>1, <1>4, <1>5, <1>6, AdmitStep, BeginStep, TakeStep, SendStep, FinishStep, LeaveStep,
     TasksStep DEF Next, HandlerStep
<1> QED BY <1>1, <1>2, <1>7 DEF GatewayInv

LEMMA GatewayInitial == Init => GatewayInv
<1> SUFFICES ASSUME Init PROVE GatewayInv
  OBVIOUS
<1>1. RegistryInv
  BY RegistryInitial DEF Init
<1>2. TypeOK
  BY <1>1, MessagesAssumption DEF Init, TypeOK, RegistryInv, Places
<1>3. \A s \in Sessions : Counted(s)
  BY DEF Init, Counted
<1>4. \A r \in Runs : Read(r) /\ Cursor(r)
  BY GeneratorsAssumption, NoSessionAssumption DEF Init, RegistryInit, Read, Cursor
<1>5. \A s \in Sessions : Placed(s) /\ Finished(s) /\ Shows(s) /\ Ordered(s)
  BY DEF Init, Placed, Finished, Shows, Ordered
<1> QED BY <1>1, <1>2, <1>3, <1>4, <1>5 DEF GatewayInv, Transcribed

-----------------------------------------------------------------------------
(* The theorems.                                                            *)

\* In every behaviour of the sockets, handlers and tasks: the invariant of the
\* registry, and the cursors that tie the transcripts to it.
THEOREM GatewayCorrect == Spec => []GatewayInv
BY GatewayInitial, GatewayInductive, PTL DEF Spec

\* ws_chat and the adapters it drives are a client the run registry allows: what
\* holds of the registry holds in the gateway.
THEOREM GatewayUsesOrchestrator == Spec => UsesOrchestrator
<1>1. Init => RegistryInit
  BY DEF Init
<1>2. GatewayInv /\ [Next]_vars => [RegistryNext]_registryVars
  BY StepsOfRegistry
<1> QED BY <1>1, <1>2, GatewayCorrect, PTL DEF Spec, UsesOrchestrator, RegistrySpec

\* What a client is sent is faithful: the events of its own runs, each stream
\* from its beginning and in order, one run after the other, none cut short by
\* the next; for any number of sockets that come and go.
THEOREM GatewayTranscripts == Spec => []TranscriptIsFaithful
<1>1. GatewayInv => TranscriptIsFaithful
  <2> SUFFICES ASSUME GatewayInv, NEW s \in Sessions
               PROVE  /\ \A i \in DOMAIN shown[s] :
                           LET r == shown[s][i][1]
                               n == ShownOf(s, r, i)
                           IN owner[r] = s /\ n \in DOMAIN produced[r]
                              /\ shown[s][i][2] = produced[r][n]
                      /\ \A i \in 1..(Len(served[s]) - 1) :
                           LET r == served[s][i]
                           IN task[r] = "ended"
                              /\ ShownOf(s, r, Len(shown[s])) = Len(produced[r])
                      /\ \A i, j \in DOMAIN shown[s] : i < j =>
                           \E a, b \in DOMAIN served[s] :
                             a <= b /\ served[s][a] = shown[s][i][1]
                             /\ served[s][b] = shown[s][j][1]
    BY DEF TranscriptIsFaithful
  <2>1. TypeOK /\ Transcribed
    BY DEF GatewayInv
  <2>2. ASSUME NEW i \in DOMAIN shown[s]
        PROVE  LET r == shown[s][i][1]
                   n == ShownOf(s, r, i)
               IN owner[r] = s /\ n \in DOMAIN produced[r] /\ shown[s][i][2] = produced[r][n]
    <3>1. shown[s][i][1] \in Runs
      <4>1. shown[s] \in Seq(Runs \X Events)
        BY <2>1 DEF TypeOK
      <4>2. shown[s][i] \in Runs \X Events
        BY <4>1, ElementOfSeq, LenProperties
      <4> QED BY <4>2
    <3> QED BY <2>1, <3>1, Streams DEF Transcribed, Shows
  <2>3. ASSUME NEW i \in 1..(Len(served[s]) - 1)
        PROVE  LET r == served[s][i]
               IN task[r] = "ended" /\ ShownOf(s, r, Len(shown[s])) = Len(produced[r])
    <3>1. PICK r \in Runs : r = served[s][i] /\ i \in DOMAIN served[s] /\ i < Len(served[s])
      BY <2>1, ServedRuns
    <3>2. owner[r] = s /\ reader[r].at = "finished" /\ Cursor(r)
      BY <2>1, <3>1 DEF Transcribed, Finished
    <3>3. task[r] = "ended" /\ delivered[r] = produced[r]
      BY <3>2, Streams
    <3>4. ShownOf(s, r, Len(shown[s])) = Len(delivered[r])
      <4>1. OnItsWay(r) = 0
        BY <3>2 DEF OnItsWay
      <4>2. ShownOf(s, r, Len(shown[s])) \in Nat
        BY <2>1, ShownCount
      <4> QED BY <3>2, <4>1, <4>2 DEF Cursor
    <3> QED BY <3>1, <3>3, <3>4
  <2>4. Ordered(s)
    BY <2>1 DEF Transcribed
  <2> QED BY <2>2, <2>3, <2>4 DEF Ordered
<1> QED BY <1>1, GatewayCorrect, PTL
=============================================================================
