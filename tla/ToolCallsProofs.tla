---------------------------- MODULE ToolCallsProofs ----------------------------
(***************************************************************************)
(* Theorems about Approvals and ToolCalls, for any requests, approvers,    *)
(* ttl and clock, and for any tenants, servers, tools, tasks and edits.    *)
(*                                                                         *)
(* Approvals: only a pending request is decided or expired, and it stops   *)
(* being pending when it is, so the one who did it is the only one who was *)
(* told.  A new deadline lies after now and so after every sweep; a sweep  *)
(* leaves pending only what is due after it.                               *)
(*                                                                         *)
(* ToolCalls: a task carries the connection of its own key from the await  *)
(* it got it at to the await it uses it at, and what entitled it was       *)
(* witnessed before.  Two tasks on the way to one key are a race from the  *)
(* moment the second of them sets out, so a connection that is replaced    *)
(* belongs to a key that was raced for.                                    *)
(***************************************************************************)
EXTENDS ToolCalls, FiniteSetTheorems, TLAPS

USE DEF Statuses, Final, Sweeper

-----------------------------------------------------------------------------
\* Nothing is requested, decided or swept at first.
LEMMA ApprovalsInitIInv == ApprovalsInit => ApprovalsIInv
BY TimeAssumption
DEF ApprovalsInit, ApprovalsIInv, ApprovalsTypeOK, OneOutcome, ExpiryIsExact

\* A new request is pending and due later than every sweep so far.
LEMMA CreateStep ==
  ASSUME ApprovalsIInv, NEW r \in Requests, Create(r)
  PROVE  ApprovalsIInv'
<1> USE TimeAssumption DEF ApprovalsIInv, Create
<1>1. ApprovalsTypeOK'
  BY DEF ApprovalsTypeOK
<1>2. \A q \in Requests : status'[q] = IF q = r THEN "pending" ELSE status[q]
  BY DEF ApprovalsTypeOK
<1>3. \A q \in Requests : expires_at'[q] = IF q = r THEN now + Ttl ELSE expires_at[q]
  BY DEF ApprovalsTypeOK
<1>4. swept < now + Ttl
  BY DEF ApprovalsTypeOK
<1>5. OneOutcome'
  BY <1>2 DEF OneOutcome
<1>6. ExpiryIsExact'
  BY <1>2, <1>3, <1>4 DEF ExpiryIsExact
<1>7. \A p \in Approvers : approver'[p].at = "decide" =>
        /\ approver'[p].request \in Requests
        /\ approver'[p].outcome \in {"approved", "denied"}
        /\ status'[approver'[p].request] # "none"
  BY <1>2
<1>8. QED
  BY <1>1, <1>2, <1>3, <1>4, <1>5, <1>6, <1>7

\* resolve() has found the request and changed nothing.
LEMMA GetRequestStep ==
  ASSUME ApprovalsIInv, NEW p \in Approvers, NEW r \in Requests,
         NEW outcome \in {"approved", "denied"}, GetRequest(p, r, outcome)
  PROVE  ApprovalsIInv'
BY DEF ApprovalsIInv, GetRequest, ApprovalsTypeOK, OneOutcome, ExpiryIsExact

\* decide() tells one approver about a pending request, or changes nothing.
LEMMA DecideStep ==
  ASSUME ApprovalsIInv, NEW p \in Approvers, Decide(p)
  PROVE  ApprovalsIInv'
<1> DEFINE r == approver[p].request
<1> DEFINE outcome == approver[p].outcome
<1>1. r \in Requests /\ outcome \in {"approved", "denied"}
  BY DEF ApprovalsIInv, Decide
<1>2. approver' \in [Approvers -> [at : {"get", "decide", "done"},
                                   request : Requests \cup {NoRequest}, outcome : Statuses]]
  BY DEF ApprovalsIInv, ApprovalsTypeOK, Decide
<1>3. \A q \in Approvers : approver'[q].at = "decide" => approver'[q] = approver[q]
  BY DEF ApprovalsIInv, ApprovalsTypeOK, Decide
<1>4. CASE Decidable(r)
  <2>1. /\ \A q \in Requests : status'[q] = IF q = r THEN outcome ELSE status[q]
        /\ \A q \in Requests : told'[q] = IF q = r THEN told[q] \cup {<<p, outcome>>}
                                          ELSE told[q]
        /\ status[r] = "pending" /\ told[r] = {}
    BY <1>1, <1>4 DEF ApprovalsIInv, ApprovalsTypeOK, Decide, Decidable
  <2>2. ApprovalsTypeOK'
    BY <1>1, <1>2, <1>4 DEF ApprovalsIInv, ApprovalsTypeOK, Decide
  <2>3. OneOutcome'
    <3>1. /\ \A d \in told'[r] : d = <<p, outcome>>
          /\ told'[r] # {} /\ status'[r] = outcome
      BY <1>1, <2>1
    <3>2. ASSUME NEW q \in Requests \ {r}
          PROVE  told'[q] = told[q] /\ status'[q] = status[q]
      BY <2>1
    <3>3. \A q \in Requests : \A d \in told'[q] : d[2] = status'[q]
      BY <3>1, <3>2 DEF ApprovalsIInv, OneOutcome
    <3>4. \A q \in Requests : \A d, e \in told'[q] : d = e
      BY <3>1, <3>2 DEF ApprovalsIInv, OneOutcome
    <3>5. \A q \in Requests : status'[q] \in Final => told'[q] # {}
      BY <3>1, <3>2 DEF ApprovalsIInv, OneOutcome
    <3>6. QED
      BY <3>3, <3>4, <3>5 DEF OneOutcome
  <2>4. ExpiryIsExact'
    BY <1>1, <2>1 DEF ApprovalsIInv, ExpiryIsExact, Decide
  <2>5. \A q \in Requests : status'[q] \in {"none", "pending"} => told'[q] = {}
    BY <1>1, <2>1 DEF ApprovalsIInv
  <2>6. \A q \in Approvers : approver'[q].at = "decide" =>
          /\ approver'[q].request \in Requests
          /\ approver'[q].outcome \in {"approved", "denied"}
          /\ status'[approver'[q].request] # "none"
    BY <1>1, <1>3, <2>1 DEF ApprovalsIInv
  <2>7. QED
    BY <2>2, <2>3, <2>4, <2>5, <2>6 DEF ApprovalsIInv
<1>5. CASE ~ Decidable(r)
  <2>1. UNCHANGED <<status, told, now, expires_at, swept>>
    BY <1>5 DEF Decide
  <2>2. QED
    BY <1>2, <1>3, <2>1 DEF ApprovalsIInv, ApprovalsTypeOK, OneOutcome, ExpiryIsExact
<1>6. QED
  BY <1>4, <1>5

\* A sweep expires all that is due, and tells of it.
LEMMA ExpireStep ==
  ASSUME ApprovalsIInv, ExpireOverdue
  PROVE  ApprovalsIInv'
<1>1. ApprovalsTypeOK'
  BY DEF ApprovalsIInv, ApprovalsTypeOK, ExpireOverdue
<1>2. ASSUME NEW r \in Requests, IsOverdue(r)
      PROVE  /\ status'[r] = "expired" /\ told'[r] = {<<"sweeper", "expired">>}
             /\ expires_at'[r] <= swept'
  BY <1>2 DEF ApprovalsIInv, ApprovalsTypeOK, ExpireOverdue, IsOverdue
<1>3. ASSUME NEW r \in Requests, ~ IsOverdue(r)
      PROVE  /\ status'[r] = status[r] /\ told'[r] = told[r]
             /\ status'[r] = "pending" => swept' < expires_at'[r]
             /\ status'[r] = "expired" => expires_at'[r] <= swept'
  BY <1>3 DEF ApprovalsIInv, ApprovalsTypeOK, ExpiryIsExact, ExpireOverdue, IsOverdue
<1>4. OneOutcome'
  <2>1. SUFFICES ASSUME NEW r \in Requests
                 PROVE  /\ \A d \in told'[r] : d[2] = status'[r]
                        /\ \A d, e \in told'[r] : d = e
                        /\ status'[r] \in Final => told'[r] # {}
    BY DEF OneOutcome
  <2>2. CASE IsOverdue(r)
    <3>1. status'[r] = "expired" /\ told'[r] = {<<"sweeper", "expired">>}
      BY <1>2, <2>2
    <3>2. \A d \in told'[r] : d = <<"sweeper", "expired">>
      BY <3>1
    <3>3. <<"sweeper", "expired">> \in told'[r]
      BY <3>1
    <3>4. QED
      BY <3>1, <3>2, <3>3
  <2>3. CASE ~ IsOverdue(r)
    BY <1>3, <2>3 DEF ApprovalsIInv, OneOutcome
  <2>4. QED
    BY <2>2, <2>3
<1>5. ExpiryIsExact'
  BY <1>2, <1>3 DEF ExpiryIsExact
<1>6. \A p \in Approvers : approver'[p].at = "decide" =>
        /\ approver'[p].request \in Requests
        /\ approver'[p].outcome \in {"approved", "denied"}
        /\ status'[approver'[p].request] # "none"
  BY <1>2, <1>3 DEF ApprovalsIInv, ExpireOverdue
<1>7. QED
  BY <1>1, <1>2, <1>3, <1>4, <1>5, <1>6 DEF ApprovalsIInv

\* Every step of the approval store preserves the inductive invariant.
LEMMA ApprovalsNextIInv ==
  ApprovalsIInv /\ [ApprovalsNext \/ \E r \in Requests : Create(r)]_approvalVars
    => ApprovalsIInv'
<1> SUFFICES ASSUME ApprovalsIInv,
                    [ApprovalsNext \/ \E r \in Requests : Create(r)]_approvalVars
             PROVE  ApprovalsIInv'
  OBVIOUS
<1>1. CASE AdvanceTime
  <2>1. now' \in 0..MaxTime /\ swept' \in 0..now'
    BY <1>1, TimeAssumption DEF AdvanceTime, ApprovalsIInv, ApprovalsTypeOK
  <2>2. /\ status' = status /\ expires_at' = expires_at /\ approver' = approver
        /\ told' = told /\ swept' = swept
    BY <1>1 DEF AdvanceTime
  <2>3. ApprovalsTypeOK'
    BY <2>1, <2>2 DEF ApprovalsIInv, ApprovalsTypeOK
  <2>4. QED
    BY <2>2, <2>3 DEF ApprovalsIInv, OneOutcome, ExpiryIsExact
<1>2. CASE UNCHANGED approvalVars
  BY <1>2 DEF approvalVars, ApprovalsIInv, ApprovalsTypeOK, OneOutcome, ExpiryIsExact
<1>3. QED
  BY <1>1, <1>2, CreateStep, GetRequestStep, DecideStep, ExpireStep DEF ApprovalsNext

-----------------------------------------------------------------------------
\* The inductive invariant holds in every reachable state of the store.
THEOREM ApprovalsInvariance == ApprovalsSpec => []ApprovalsIInv
BY ApprovalsInitIInv, ApprovalsNextIInv, PTL DEF ApprovalsSpec

\* A request has one outcome, and the one who was told of it is its author.
THEOREM OneWinner == ApprovalsSpec => []OneOutcome
<1>1. ApprovalsIInv => OneOutcome
  BY DEF ApprovalsIInv
<1>2. QED
  BY <1>1, ApprovalsInvariance, PTL

\* What a sweep left pending was not overdue then; nothing expires early.
THEOREM ExactExpiry == ApprovalsSpec => []ExpiryIsExact
<1>1. ApprovalsIInv => ExpiryIsExact
  BY DEF ApprovalsIInv
<1>2. QED
  BY <1>1, ApprovalsInvariance, PTL

\* No step changes a decision once it is made.
THEOREM FinalDecision == ApprovalsSpec => DecisionIsFinal
<1> DEFINE Stays == \A r \in Requests : status[r] \in Final => status'[r] = status[r]
<1>1. ASSUME ApprovalsIInv, [ApprovalsNext \/ \E r \in Requests : Create(r)]_approvalVars
      PROVE  [Stays]_approvalVars
  <2> SUFFICES ASSUME NEW r \in Requests, status[r] \in Final,
                      ApprovalsNext \/ \E q \in Requests : Create(q)
               PROVE  status'[r] = status[r]
    BY <1>1
  <2> USE DEF ApprovalsIInv, ApprovalsTypeOK
  <2>1. CASE \E q \in Requests : Create(q)
    BY <1>1, <2>1 DEF Create
  <2>2. CASE \E p \in Approvers : Decide(p)
    BY <1>1, <2>2 DEF Decide, Decidable
  <2>3. CASE \E p \in Approvers, q \in Requests, o \in {"approved", "denied"} :
               GetRequest(p, q, o)
    BY <2>3 DEF GetRequest
  <2>4. CASE ExpireOverdue
    BY <1>1, <2>4 DEF ExpireOverdue, IsOverdue
  <2>5. CASE AdvanceTime
    BY <2>5 DEF AdvanceTime
  <2>6. QED
    BY <2>1, <2>2, <2>3, <2>4, <2>5 DEF ApprovalsNext
<1>2. QED
  BY <1>1, ApprovalsInvariance, PTL DEF ApprovalsSpec, DecisionIsFinal

-----------------------------------------------------------------------------
(* Tool calls: the inductive invariant.                                     *)

\* What a task carries over its awaits.
Carried(c) ==
  LET call == task[c] IN
  /\ call.at \in {"policy", "checkpoint", "call"} => call.op = "call"
  /\ call.at = "list" => call.op = "catalog"
  /\ call.at \in {"connecting", "call", "list"} => KeyOf(call) \in Configured
  /\ call.at \in {"call", "list"} =>
       call.conn \in DOMAIN opened /\ opened[call.conn] = KeyOf(call)
  /\ call.at \in {"connecting", "list"} /\ call.op = "catalog" =>
       call.left \subseteq ServersOf(call.tenant)

\* What it was entitled to at the moment it was asked, it stays witnessed for.
Entitled(c) ==
  LET call == task[c] IN
  /\ call.op = "call" =>
       /\ call.at \in {"configs", "connecting", "call"} => permitted[c]
       /\ call.at \in {"connecting", "call"} => <<call.server, call.tool>> \in listed[c]
  /\ call.op = "catalog" /\ call.at \in {"connecting", "list"} =>
       \A s \in ServersOf(call.tenant) :
         {s} \X call.config[<<call.tenant, s>>] \subseteq listed[c]

\* What a task did.
Done(c) ==
  /\ ran[c] # NoConn => /\ task[c].at = "done"
                        /\ opened[ran[c]] = KeyOf(task[c])
                        /\ permitted[c]
                        /\ <<task[c].server, task[c].tool>> \in listed[c]
  /\ offered[c] \subseteq listed[c]

\* The dictionary holds for a key a connection of that key; close_all visits
\* keys that are there and closes what it finds.
PoolKeyed ==
  /\ \A k \in DOMAIN pool : opened[pool[k]] = k
  /\ closer.at = "closing" =>
       \A k \in closer.visited : k \in DOMAIN pool /\ (pool[k] \in closed \/ k \in raced)

\* Whoever connects for a key that is in the dictionary, or beside another, is
\* in a race.
Racing ==
  \A c \in Tasks : task[c].at = "connecting" =>
    \/ KeyOf(task[c]) \in raced
    \/ /\ KeyOf(task[c]) \notin DOMAIN pool
       /\ \A d \in Tasks \ {c} :
            ~ (task[d].at = "connecting" /\ KeyOf(task[d]) = KeyOf(task[c]))

ToolInv ==
  /\ TypeOK
  /\ \A c \in Tasks : Carried(c) /\ Entitled(c) /\ Done(c)
  /\ PoolKeyed
  /\ Racing
  /\ NoConnectionLost

-----------------------------------------------------------------------------
(* Tool calls and approvals.                                                *)

\* A step of the tool calls is, for the approvals, the creation of a request,
\* a step of their own or none.
LEMMA ApprovalsStep ==
  ASSUME [Next]_vars
  PROVE  [ApprovalsNext \/ \E r \in Requests : Create(r)]_approvalVars
<1>1. ASSUME NEW c \in Tasks, NEW tier \in {"read", "write", "high_risk"}, HandleCall(c, tier)
      PROVE  UNCHANGED approvalVars
  BY <1>1 DEF HandleCall, Begin
<1>2. ASSUME NEW c \in Tasks, Catalog(c) \/ Evaluate(c) \/ PoolStep(c) \/ Fail(c)
      PROVE  UNCHANGED approvalVars
  BY <1>2 DEF Catalog, Begin, Evaluate, PoolStep, ReadConfigs, Connected, CallTool,
              ReadAllConfigs, ListTools, Fail
<1>3. ASSUME NEW c \in Tasks, Checkpoint(c) PROVE \E r \in Requests : Create(r)
  BY <1>3 DEF Checkpoint, Tasks
<1>4. CASE StartClose \/ CloseNext \/ CloseEnd \/ CloseRaises
  BY <1>4 DEF StartClose, CloseNext, CloseEnd, CloseRaises
<1>5. CASE \E k \in Configured, tools \in SUBSET Tools : SetAllowed(k, tools)
  BY <1>5 DEF SetAllowed
<1>6. CASE UNCHANGED vars
  BY <1>6 DEF vars
<1>7. QED
  BY <1>1, <1>2, <1>3, <1>4, <1>5, <1>6 DEF Next, Step

\* Whatever the tool calls do, the approvals behave as they do by themselves
\* (saap/langflow_components/logic/hitl_checkpoint.py).
THEOREM ToolCallsUseApprovals == Spec => ApprovalsSpec
<1>1. Init => ApprovalsInit
  BY DEF Init
<1>2. QED
  BY <1>1, ApprovalsStep, PTL DEF Spec, ApprovalsSpec

-----------------------------------------------------------------------------
(* Tool calls: what a step does to the task that takes it.                  *)

\* Two calls that differ in where they stand and in their connection only.
SameCall(a, b) ==
  /\ a.op = b.op /\ a.tenant = b.tenant /\ a.server = b.server /\ a.tool = b.tool
  /\ a.tier = b.tier /\ a.config = b.config /\ a.left = b.left

\* The step is one of task c.
OnlyTask(c) == \A d \in Tasks \ {c} : task'[d] = task[d]

\* A task that has not begun, begins or ends is a task.
LEMMA NoTaskType == NoTask \in Task
<1>1. /\ (CHOOSE t \in Tenants : TRUE) \in Tenants
      /\ (CHOOSE s \in Servers : TRUE) \in Servers
      /\ (CHOOSE x \in Tools : TRUE) \in Tools
  BY NonEmptyAssumption
<1>2. [k \in Configured |-> {}] \in AllowLists
  BY DEF AllowLists
<1>3. QED
  BY <1>1, <1>2 DEF NoTask, Task, Places

\* A task that moves is a task, and is the same call.
LEMMA MoveType ==
  ASSUME NEW call \in Task, NEW place \in Places
  PROVE  /\ [call EXCEPT !.at = place] \in Task
         /\ SameCall([call EXCEPT !.at = place], call)
         /\ [call EXCEPT !.at = place].at = place
  BY DEF Task, SameCall

\* One more connection.
LEMMA OneMore ==
  ASSUME NEW s \in Seq(Configured), NEW k \in Configured
  PROVE  /\ Append(s, k) \in Seq(Configured)
         /\ DOMAIN Append(s, k) = DOMAIN s \cup {Len(s) + 1}
         /\ Len(s) + 1 \notin DOMAIN s /\ Append(s, k)[Len(s) + 1] = k
         /\ \A i \in DOMAIN s : Append(s, k)[i] = s[i]
  OBVIOUS

\* A task that ends.
LEMMA FinishEffect ==
  ASSUME TypeOK, NEW c \in Tasks, Finish(c)
  PROVE  task' \in [Tasks -> Task] /\ OnlyTask(c) /\ task'[c].at = "done"
<1>1. [NoTask EXCEPT !.at = "done"] \in Task /\ [NoTask EXCEPT !.at = "done"].at = "done"
  BY NoTaskType DEF Task, Places
<1>2. QED
  BY <1>1 DEF TypeOK, Finish, OnlyTask

\* A task that is routed has a connection of its key, or goes to open one.
LEMMA RouteEffect ==
  ASSUME TypeOK, NEW c \in Tasks, NEW call \in Task, NEW then \in {"call", "list"},
         Route(c, call, then)
  PROVE  /\ task' \in [Tasks -> Task] /\ OnlyTask(c) /\ SameCall(task'[c], call)
         /\ \/ /\ KeyOf(call) \in DOMAIN pool /\ task'[c].at = then
               /\ task'[c].conn = pool[KeyOf(call)] /\ raced' = raced
            \/ /\ KeyOf(call) \notin DOMAIN pool /\ task'[c].at = "connecting"
               /\ raced' = IF \E d \in Tasks \ {c} : /\ task[d].at = "connecting"
                                                     /\ KeyOf(task[d]) = KeyOf(call)
                             THEN raced \cup {KeyOf(call)} ELSE raced
<1>1. task \in [Tasks -> Task] /\ then \in Places /\ "connecting" \in Places
  BY DEF TypeOK, Places
<1>2. CASE KeyOf(call) \in DOMAIN pool
  <2>1. PICK conn \in Nat \cup {NoConn} : conn = pool[KeyOf(call)]
    BY <1>2 DEF TypeOK
  <2> DEFINE next == [call EXCEPT !.at = then, !.conn = conn]
  <2>2. next \in Task /\ SameCall(next, call) /\ next.at = then /\ next.conn = conn
    BY <1>1, <2>1 DEF Task, SameCall
  <2>3. task' = [task EXCEPT ![c] = next] /\ raced' = raced
    BY <1>2, <2>1 DEF Route
  <2> HIDE DEF next
  <2>4. QED
    BY <1>1, <1>2, <2>1, <2>2, <2>3 DEF OnlyTask
<1>3. CASE KeyOf(call) \notin DOMAIN pool
  <2> DEFINE next == [call EXCEPT !.at = "connecting"]
  <2>1. next \in Task /\ SameCall(next, call) /\ next.at = "connecting"
    BY <1>1, MoveType
  <2>2. task' = [task EXCEPT ![c] = next]
        /\ raced' = IF \E d \in Tasks \ {c} : /\ task[d].at = "connecting"
                                              /\ KeyOf(task[d]) = KeyOf(call)
                      THEN raced \cup {KeyOf(call)} ELSE raced
    BY <1>3 DEF Route
  <2> HIDE DEF next
  <2>3. QED
    BY <1>1, <1>3, <2>1, <2>2 DEF OnlyTask
<1>4. QED
  BY <1>2, <1>3

-----------------------------------------------------------------------------
(* Tool calls: type correctness.                                            *)

\* The part of the types that the steps themselves are about.
StepTypes ==
  /\ edits \in 0..MaxEdits /\ allowed \in AllowLists
  /\ DOMAIN pool \subseteq Configured
  /\ \A k \in DOMAIN pool : pool[k] \in DOMAIN opened
  /\ quarantined \in [Configured -> SUBSET Tools]
  /\ opened \in Seq(Configured) /\ closed \subseteq DOMAIN opened
  /\ task \in [Tasks -> Task]
  /\ closer \in [at : {"idle", "closing", "done"}, size : Nat, visited : SUBSET Configured]
  /\ ran \in [Tasks -> DOMAIN opened \cup {NoConn}]
  /\ offered \in [Tasks -> SUBSET (Servers \X Tools)]
  /\ raced \subseteq Configured

\* What a task that begins is.
LEMMA BeginEffect ==
  ASSUME TypeOK, NEW c \in Tasks,
         Catalog(c) \/ \E tier \in {"read", "write", "high_risk"} : HandleCall(c, tier)
  PROVE  /\ task[c].at = "idle" /\ task' \in [Tasks -> Task] /\ OnlyTask(c)
         /\ \/ task'[c].at = "policy" /\ task'[c].op = "call"
            \/ task'[c].at = "configs" /\ task'[c].op = "catalog"
         /\ UNCHANGED <<config, conns, closer, history>>
<1>1. CASE Catalog(c)
  <2>1. PICK t \in Tenants :
          Begin(c, [NoTask EXCEPT !.at = "configs", !.op = "catalog", !.tenant = t])
    BY <1>1 DEF Catalog
  <2> DEFINE first == [NoTask EXCEPT !.at = "configs", !.op = "catalog", !.tenant = t]
  <2>2. first \in Task /\ first.at = "configs" /\ first.op = "catalog"
    BY NoTaskType DEF Task, Places
  <2> HIDE DEF first
  <2>3. QED
    BY <2>1, <2>2 DEF Begin, OnlyTask, TypeOK, first
<1>2. ASSUME NEW tier \in {"read", "write", "high_risk"}, HandleCall(c, tier)
      PROVE  /\ task[c].at = "idle" /\ task' \in [Tasks -> Task] /\ OnlyTask(c)
             /\ task'[c].at = "policy" /\ task'[c].op = "call"
             /\ UNCHANGED <<config, conns, closer, history>>
  <2>1. PICK t \in Tenants, s \in Servers, x \in Tools :
          Begin(c, [NoTask EXCEPT !.at = "policy", !.tenant = t, !.server = s, !.tool = x,
                                  !.tier = tier])
    BY <1>2 DEF HandleCall
  <2> DEFINE first == [NoTask EXCEPT !.at = "policy", !.tenant = t, !.server = s, !.tool = x,
                                     !.tier = tier]
  <2>2. first \in Task /\ first.at = "policy" /\ first.op = "call"
    BY NoTaskType DEF Task, Places, NoTask
  <2> HIDE DEF first
  <2>3. QED
    BY <2>1, <2>2 DEF Begin, OnlyTask, TypeOK, first
<1>3. QED
  BY <1>1, <1>2

\* A call that is routed keeps what else a step leaves alone.
LEMMA StepTypesKept ==
  ASSUME TypeOK, task' \in [Tasks -> Task], raced' \subseteq Configured,
         UNCHANGED <<config, conns, closer, ran, offered>>
  PROVE  StepTypes'
BY DEF TypeOK, StepTypes, config, conns

\* A new connection goes under the key of the task that opened it.
LEMMA ConnectedEffect ==
  ASSUME TypeOK, NEW c \in Tasks, KeyOf(task[c]) \in Configured, Connected(c)
  PROVE  LET key == KeyOf(task[c])
             conn == Len(opened) + 1
         IN
         /\ task[c].at = "connecting"
         /\ task' \in [Tasks -> Task] /\ OnlyTask(c) /\ SameCall(task'[c], task[c])
         /\ task'[c].at = IF task[c].op = "call" THEN "call" ELSE "list"
         /\ task'[c].conn = conn
         /\ opened' \in Seq(Configured) /\ DOMAIN opened' = DOMAIN opened \cup {conn}
         /\ conn \notin DOMAIN opened /\ opened'[conn] = key
         /\ \A i \in DOMAIN opened : opened'[i] = opened[i]
         /\ DOMAIN pool' = DOMAIN pool \cup {key} /\ pool'[key] = conn
         /\ \A k \in DOMAIN pool \ {key} : pool'[k] = pool[k]
<1> DEFINE key == KeyOf(task[c])
<1> DEFINE conn == Len(opened) + 1
<1>1. /\ opened \in Seq(Configured) /\ task \in [Tasks -> Task] /\ task[c] \in Task
      /\ key = <<task[c].tenant, task[c].server>> /\ key \in Configured
  BY DEF TypeOK, KeyOf
<1>2. opened' = Append(opened, key) /\ task[c].at = "connecting"
  BY <1>1 DEF Connected
<1>3. /\ opened' \in Seq(Configured) /\ DOMAIN opened' = DOMAIN opened \cup {conn}
      /\ conn \notin DOMAIN opened /\ opened'[conn] = key
      /\ \A i \in DOMAIN opened : opened'[i] = opened[i]
  <2> HIDE DEF key
  <2>1. QED
    BY <1>1, <1>2, OneMore
<1>4. /\ DOMAIN pool' = DOMAIN pool \cup {key} /\ pool'[key] = conn
      /\ \A k \in DOMAIN pool \ {key} : pool'[k] = pool[k]
  BY DEF Connected
<1>5. PICK place \in {"call", "list"} : place = IF task[c].op = "call" THEN "call" ELSE "list"
  OBVIOUS
<1>6. PICK n \in Nat \cup {NoConn} : n = conn
  BY <1>1
<1>7. task' = [task EXCEPT ![c] = [task[c] EXCEPT !.at = place, !.conn = n]]
  <2>1. task' = [task EXCEPT ![c].conn = conn,
                             ![c].at = IF task[c].op = "call" THEN "call" ELSE "list"]
    BY DEF Connected
  <2>2. QED
    BY <1>1, <1>5, <1>6, <2>1 DEF Task
<1>8. /\ task' \in [Tasks -> Task] /\ OnlyTask(c) /\ SameCall(task'[c], task[c])
      /\ task'[c].at = place /\ task'[c].conn = conn
  <2> DEFINE next == [task[c] EXCEPT !.at = place, !.conn = n]
  <2>1. next \in Task /\ SameCall(next, task[c]) /\ next.at = place /\ next.conn = n
    BY <1>1 DEF Places, Task, SameCall
  <2> HIDE DEF next
  <2>2. QED
    BY <1>1, <1>6, <1>7, <2>1 DEF OnlyTask, next
<1>9. QED
  BY <1>2, <1>3, <1>4, <1>5, <1>8

\* A call that has run is over.
LEMMA CallEffect ==
  ASSUME TypeOK, NEW c \in Tasks, CallTool(c)
  PROVE  /\ task[c].at = "call" /\ task' \in [Tasks -> Task] /\ OnlyTask(c)
         /\ SameCall(task'[c], task[c]) /\ task'[c].at = "done"
<1>1. task \in [Tasks -> Task] /\ task[c] \in Task
  BY DEF TypeOK
<1> DEFINE next == [task[c] EXCEPT !.at = "done", !.conn = NoConn]
<1>2. task' = [task EXCEPT ![c] = next] /\ task[c].at = "call"
  <2>1. task' = [task EXCEPT ![c].at = "done", ![c].conn = NoConn] /\ task[c].at = "call"
    BY DEF CallTool
  <2>2. QED
    BY <1>1, <2>1 DEF Task
<1>3. next \in Task /\ SameCall(next, task[c]) /\ next.at = "done"
  BY <1>1 DEF Task, Places, SameCall
<1> HIDE DEF next
<1>4. QED
  BY <1>1, <1>2, <1>3 DEF OnlyTask

\* No step of a task, of close_all or of an operator leaves these types.
LEMMA StepTypesStep ==
  ASSUME TypeOK, \A c \in Tasks : Carried(c), Step
  PROVE  StepTypes'
<1> DEFINE Stay == UNCHANGED <<config, conns, closer, ran, offered>>
<1>1. ASSUME NEW c \in Tasks,
             Catalog(c) \/ \E tier \in {"read", "write", "high_risk"} : HandleCall(c, tier)
      PROVE  StepTypes'
  BY <1>1, BeginEffect, StepTypesKept DEF TypeOK, history
<1>2. ASSUME NEW c \in Tasks, Finish(c), raced' = raced, Stay
      PROVE  StepTypes'
  BY <1>2, FinishEffect, StepTypesKept DEF TypeOK
<1>3. ASSUME NEW c \in Tasks, NEW place \in Places, raced' = raced, Stay,
             task' = [task EXCEPT ![c].at = place]
      PROVE  StepTypes'
  <2> DEFINE next == [task[c] EXCEPT !.at = place]
  <2>1. next \in Task
    BY MoveType DEF TypeOK
  <2> HIDE DEF next
  <2>2. task' \in [Tasks -> Task]
    BY <1>3, <2>1 DEF TypeOK, next
  <2>3. QED
    BY <1>3, <2>2, StepTypesKept DEF TypeOK
<1>4. ASSUME NEW c \in Tasks, NEW call \in Task, NEW then \in {"call", "list"},
             Route(c, call, then), KeyOf(call) \in Configured
      PROVE  task' \in [Tasks -> Task] /\ raced' \subseteq Configured
  <2>1. raced \subseteq Configured
    BY DEF TypeOK
  <2>2. QED
    BY <1>4, <2>1, RouteEffect
<1>5. ASSUME NEW c \in Tasks, NEW call \in Task, NEW servers \in SUBSET ServersOf(call.tenant),
             Visit(c, call, servers)
      PROVE  task' \in [Tasks -> Task] /\ raced' \subseteq Configured
  <2>1. PICK s \in servers : Route(c, [call EXCEPT !.server = s, !.left = servers \ {s}], "list")
    BY <1>5 DEF Visit
  <2> DEFINE next == [call EXCEPT !.server = s, !.left = servers \ {s}]
  <2>2. next \in Task /\ KeyOf(next) \in Configured
    BY DEF Task, ServersOf, KeyOf
  <2> HIDE DEF next
  <2>3. QED
    BY <1>4, <2>1, <2>2 DEF next
<1>6. ASSUME NEW c \in Tasks, Evaluate(c) PROVE StepTypes'
  <2>1. Stay /\ raced' = raced
    BY <1>6 DEF Evaluate, history
  <2>2. Finish(c) \/ \E place \in Places : task' = [task EXCEPT ![c].at = place]
    BY <1>6 DEF Evaluate, Places
  <2>3. QED
    BY <1>2, <1>3, <2>1, <2>2
<1>7. ASSUME NEW c \in Tasks, Checkpoint(c) \/ Fail(c) PROVE StepTypes'
  BY <1>2, <1>7 DEF Checkpoint, Fail, history
<1>8. ASSUME NEW c \in Tasks, ReadConfigs(c) PROVE StepTypes'
  <2>1. Stay
    BY <1>8 DEF ReadConfigs
  <2>2. CASE Finish(c) /\ UNCHANGED raced
    BY <1>2, <2>1, <2>2
  <2>3. CASE OnList(task[c]) /\ Route(c, task[c], "call")
    <3>1. task[c] \in Task /\ KeyOf(task[c]) \in Configured
      BY <2>3 DEF TypeOK, OnList
    <3>2. QED
      BY <1>4, <2>1, <2>3, <3>1, StepTypesKept
  <2>4. QED
    BY <1>8, <2>2, <2>3 DEF ReadConfigs
<1>9. ASSUME NEW c \in Tasks, ReadAllConfigs(c) PROVE StepTypes'
  <2> DEFINE call == [task[c] EXCEPT !.config = allowed]
  <2>1. call \in Task /\ call.tenant = task[c].tenant
    <3>1. task[c] \in Task /\ allowed \in AllowLists
      BY DEF TypeOK
    <3>2. QED
      BY <3>1 DEF Task
  <2>2. Visit(c, call, ServersOf(call.tenant)) /\ Stay
    BY <1>9, <2>1 DEF ReadAllConfigs
  <2> HIDE DEF call
  <2>3. QED
    BY <1>5, <2>1, <2>2, StepTypesKept
<1>10. ASSUME NEW c \in Tasks, NEW live \in SUBSET Tools, ListTools(c, live)
       PROVE  StepTypes'
  <2>1. /\ task[c] \in Task /\ task[c].at = "list" /\ task[c].op = "catalog"
        /\ KeyOf(task[c]) \in Configured /\ task[c].left \subseteq ServersOf(task[c].tenant)
    BY <1>10 DEF TypeOK, ListTools, Carried
  <2>2. task' \in [Tasks -> Task] /\ raced' \subseteq Configured
    <3>1. CASE Finish(c) /\ UNCHANGED raced
      BY <3>1, FinishEffect DEF TypeOK
    <3>2. CASE Visit(c, task[c], task[c].left)
      BY <1>5, <2>1, <3>2
    <3>3. QED
      BY <1>10, <3>1, <3>2 DEF ListTools
  <2>3. quarantined' \in [Configured -> SUBSET Tools]
    BY <1>10, <2>1 DEF ListTools, TypeOK
  <2>4. offered' \in [Tasks -> SUBSET (Servers \X Tools)]
    <3>1. {task[c].server} \X Offers(task[c], live) \subseteq Servers \X Tools
      BY <2>1 DEF Offers, Task
    <3>2. QED
      BY <1>10, <3>1 DEF ListTools, TypeOK
  <2>5. UNCHANGED <<edits, allowed, pool, opened, closed, closer, ran>>
    BY <1>10 DEF ListTools, config
  <2>6. QED
    BY <2>2, <2>3, <2>4, <2>5 DEF TypeOK, StepTypes
<1>11. ASSUME NEW c \in Tasks, Connected(c) PROVE StepTypes'
  <2>1. KeyOf(task[c]) \in Configured
    BY <1>11 DEF Connected, Carried
  <2>2. /\ task' \in [Tasks -> Task] /\ opened' \in Seq(Configured)
        /\ DOMAIN opened \subseteq DOMAIN opened'
        /\ DOMAIN pool' \subseteq Configured /\ \A k \in DOMAIN pool' : pool'[k] \in DOMAIN opened'
    <3>1. DOMAIN pool \subseteq Configured /\ \A k \in DOMAIN pool : pool[k] \in DOMAIN opened
      BY DEF TypeOK
    <3> DEFINE key == KeyOf(task[c])
    <3> DEFINE conn == Len(opened) + 1
    <3>2. /\ task' \in [Tasks -> Task] /\ opened' \in Seq(Configured)
          /\ DOMAIN opened' = DOMAIN opened \cup {conn}
          /\ DOMAIN pool' = DOMAIN pool \cup {key} /\ pool'[key] = conn
          /\ \A k \in DOMAIN pool \ {key} : pool'[k] = pool[k]
      BY <1>11, <2>1, ConnectedEffect
    <3> HIDE DEF key, conn
    <3>3. key \in Configured
      BY <2>1 DEF key
    <3>4. QED
      BY <3>1, <3>2, <3>3
  <2>3. UNCHANGED <<edits, allowed, quarantined, closed, closer, ran, offered, raced>>
    BY <1>11 DEF Connected, config, history
  <2>4. QED
    BY <2>2, <2>3 DEF TypeOK, StepTypes
<1>12. ASSUME NEW c \in Tasks, CallTool(c) PROVE StepTypes'
  <2>1. task' \in [Tasks -> Task]
    BY <1>12, CallEffect
  <2>2. ran' \in [Tasks -> DOMAIN opened \cup {NoConn}]
    BY <1>12 DEF CallTool, TypeOK, Carried
  <2>3. UNCHANGED <<config, conns, closer, offered, raced>>
    BY <1>12 DEF CallTool
  <2>4. QED
    BY <2>1, <2>2, <2>3 DEF TypeOK, StepTypes, config, conns
<1>13. CASE StartClose
  <2>1. Cardinality(DOMAIN pool) \in Nat
    BY ConfiguredAssumption, FS_Subset, FS_CardinalityType DEF TypeOK
  <2>2. QED
    BY <1>13, <2>1 DEF StartClose, TypeOK, StepTypes, config, conns, history
<1>14. CASE CloseNext
  <2>1. PICK k \in DOMAIN pool : /\ closed' = closed \cup {pool[k]}
                                 /\ closer' = [closer EXCEPT !.visited = @ \cup {k}]
    BY <1>14 DEF CloseNext
  <2>2. UNCHANGED <<config, pool, quarantined, opened, task, history>>
    BY <1>14 DEF CloseNext
  <2>3. QED
    BY <2>1, <2>2 DEF TypeOK, StepTypes, config, history
<1>15. CASE CloseEnd
  BY <1>15 DEF CloseEnd, TypeOK, StepTypes, config, history
<1>16. CASE CloseRaises
  BY <1>16 DEF CloseRaises, TypeOK, StepTypes, config, conns, history
<1>17. CASE \E k \in Configured, tools \in SUBSET Tools : SetAllowed(k, tools)
  BY <1>17, EditsAssumption DEF SetAllowed, TypeOK, StepTypes, AllowLists, conns, history
<1>18. CASE ApprovalsNext /\ UNCHANGED <<config, conns, task, closer, history>>
  BY <1>18 DEF TypeOK, StepTypes, config, conns, history
<1>19. QED
  BY <1>1, <1>6, <1>7, <1>8, <1>9, <1>10, <1>11, <1>12, <1>13, <1>14, <1>15, <1>16, <1>17, <1>18
     DEF Step, PoolStep

-----------------------------------------------------------------------------
(* Tool calls: what is witnessed.                                           *)

\* A call that goes on witnesses more; one that ran or offered keeps it.
LEMMA Witnessed ==
  ASSUME Observe, NEW c \in Tasks
  PROVE  /\ Running(c) =>
              /\ listed[c] \subseteq listed'[c]
              /\ permitted[c] => permitted'[c]
              /\ Allows(task'[c], now') => permitted'[c]
              /\ \A s \in ServersOf(task'[c].tenant) :
                   {s} \X allowed'[<<task'[c].tenant, s>>] \subseteq listed'[c]
         /\ ~ Running(c) /\ ran'[c] # NoConn =>
              listed'[c] = listed[c] /\ (permitted[c] => permitted'[c])
         /\ ~ Running(c) /\ offered'[c] # {} => listed'[c] = listed[c]
  BY DEF Observe

\* All types again, after a step and its observation.
LEMMA TypeStep ==
  ASSUME TypeOK, StepTypes', Observe, ApprovalsTypeOK'
  PROVE  TypeOK'
<1>1. listed' \in [Tasks -> SUBSET (Servers \X Tools)]
  <2>1. ASSUME NEW c \in Tasks, NEW s \in ServersOf(task'[c].tenant)
        PROVE  {s} \X allowed'[<<task'[c].tenant, s>>] \subseteq Servers \X Tools
    BY DEF StepTypes, AllowLists, ServersOf
  <2>2. ASSUME NEW c \in Tasks
        PROVE  UNION {{s} \X allowed'[<<task'[c].tenant, s>>] : s \in ServersOf(task'[c].tenant)}
                 \subseteq Servers \X Tools
    BY <2>1
  <2>3. listed \in [Tasks -> SUBSET (Servers \X Tools)]
    BY DEF TypeOK
  <2>4. QED
    BY <2>2, <2>3 DEF Observe
<1>2. permitted' \in [Tasks -> BOOLEAN]
  BY DEF Observe, TypeOK
<1>3. QED
  BY <1>1, <1>2 DEF TypeOK, StepTypes

\* What a task carries, is entitled to and did.
TaskInv(c) == Carried(c) /\ Entitled(c) /\ Done(c)

\* No connection becomes another's.
OpenedStay == \A i \in DOMAIN opened : i \in DOMAIN opened' /\ opened'[i] = opened[i]

\* A step of others leaves a task what it has.
LEMMA Bystander ==
  ASSUME TypeOK, NEW c \in Tasks, TaskInv(c), Observe, OpenedStay,
         task'[c] = task[c], ran'[c] = ran[c], offered'[c] = offered[c]
  PROVE  TaskInv(c)'
<1>1. ran[c] \in DOMAIN opened \cup {NoConn}
  BY DEF TypeOK
<1>2. Carried(c)'
  BY DEF TaskInv, Carried, OpenedStay, KeyOf, ServersOf
<1>3. Entitled(c)'
  BY Witnessed DEF TaskInv, Entitled, ServersOf, Running
<1>4. Done(c)'
  BY <1>1, Witnessed DEF TaskInv, Done, OpenedStay, KeyOf, Running
<1>5. QED
  BY <1>2, <1>3, <1>4 DEF TaskInv

\* A task that has not run anything yet keeps what it offered.
LEMMA StillOffered ==
  ASSUME NEW c \in Tasks, TaskInv(c), task[c].at # "done", Observe,
         ran'[c] = ran[c], offered'[c] = offered[c]
  PROVE  Done(c)'
  BY Witnessed DEF TaskInv, Done

\* A task that ends without having run anything.
LEMMA TaskFinishes ==
  ASSUME TypeOK, NEW c \in Tasks, TaskInv(c), task[c].at # "done", Finish(c), Observe,
         ran'[c] = ran[c], offered'[c] = offered[c]
  PROVE  TaskInv(c)'
<1>1. task'[c].at = "done"
  BY FinishEffect
<1>2. Done(c)'
  BY StillOffered
<1>3. QED
  BY <1>1, <1>2 DEF TaskInv, Carried, Entitled

\* A task that begins.
LEMMA TaskBegins ==
  ASSUME TypeOK, NEW c \in Tasks, TaskInv(c), Observe,
         Catalog(c) \/ \E tier \in {"read", "write", "high_risk"} : HandleCall(c, tier)
  PROVE  TaskInv(c)'
<1>1. /\ task[c].at = "idle" /\ ran' = ran /\ offered' = offered
      /\ \/ task'[c].at = "policy" /\ task'[c].op = "call"
         \/ task'[c].at = "configs" /\ task'[c].op = "catalog"
  BY BeginEffect DEF history
<1>2. Done(c)'
  BY <1>1, StillOffered
<1>3. QED
  BY <1>1, <1>2 DEF TaskInv, Carried, Entitled

\* The policy guard's answer: allowed now, as the observation sees.
LEMMA TaskEvaluated ==
  ASSUME TypeOK, NEW c \in Tasks, TaskInv(c), Observe, Evaluate(c)
  PROVE  TaskInv(c)'
<1>1. /\ task[c].at = "policy" /\ ran' = ran /\ offered' = offered /\ now' = now
      /\ task[c].op = "call" /\ task \in [Tasks -> Task]
  BY DEF Evaluate, history, approvalVars, TaskInv, Carried, TypeOK
<1>2. Done(c)'
  BY <1>1, StillOffered
<1>3. CASE Finish(c)
  BY <1>1, <1>3, TaskFinishes
<1>4. CASE Decision(task[c]) = "allow" /\ task' = [task EXCEPT ![c].at = "configs"]
  <2>1. task'[c].at = "configs" /\ SameCall(task'[c], task[c])
    BY <1>1, <1>4, MoveType DEF Places
  <2>2. Allows(task[c], now)
    BY <1>4 DEF Decision
  <2>3. permitted'[c]
    BY <1>1, <2>1, <2>2, Witnessed DEF Allows, SameCall, Running
  <2>4. QED
    BY <1>1, <1>2, <2>1, <2>3 DEF TaskInv, Carried, Entitled, SameCall
<1>5. CASE task' = [task EXCEPT ![c].at = "checkpoint"]
  <2>1. task'[c].at = "checkpoint" /\ SameCall(task'[c], task[c])
    BY <1>1, <1>5, MoveType DEF Places
  <2>2. QED
    BY <1>1, <1>2, <2>1 DEF TaskInv, Carried, Entitled, SameCall
<1>6. QED
  BY <1>3, <1>4, <1>5 DEF Evaluate

\* A call whose tool is on the list now is routed to its key.
LEMMA TaskReadsConfigs ==
  ASSUME TypeOK, NEW c \in Tasks, TaskInv(c), PoolKeyed, Observe, ReadConfigs(c)
  PROVE  TaskInv(c)'
<1>1. /\ task[c].at = "configs" /\ task[c].op = "call" /\ ran' = ran /\ offered' = offered
      /\ opened' = opened /\ allowed' = allowed /\ task[c] \in Task
  BY DEF ReadConfigs, config, conns, TypeOK
<1>2. Done(c)'
  BY <1>1, StillOffered
<1>3. CASE Finish(c)
  BY <1>1, <1>3, TaskFinishes
<1>4. CASE OnList(task[c]) /\ Route(c, task[c], "call")
  <2>1. SameCall(task'[c], task[c])
        /\ \/ /\ KeyOf(task[c]) \in DOMAIN pool /\ task'[c].at = "call"
              /\ task'[c].conn = pool[KeyOf(task[c])]
           \/ task'[c].at = "connecting"
    BY <1>1, <1>4, RouteEffect
  <2>2. KeyOf(task[c]) \in Configured /\ task[c].tool \in allowed[KeyOf(task[c])]
    BY <1>4 DEF OnList
  <2>3. Carried(c)'
    BY <1>1, <2>1, <2>2 DEF Carried, SameCall, KeyOf, TypeOK, PoolKeyed
  <2>4. permitted[c]
    BY <1>1 DEF TaskInv, Entitled
  <2>5. permitted'[c] /\ {task[c].server} \X allowed'[KeyOf(task[c])] \subseteq listed'[c]
    <3>1. task[c].server \in ServersOf(task'[c].tenant)
      BY <1>1, <2>1, <2>2 DEF ServersOf, SameCall, KeyOf, Task
    <3>2. Running(c)
      BY <2>1 DEF Running
    <3>3. QED
      BY <2>1, <2>4, <3>1, <3>2, Witnessed DEF SameCall, KeyOf
  <2>6. Entitled(c)'
    BY <1>1, <2>1, <2>2, <2>5 DEF Entitled, SameCall
  <2>7. QED
    BY <1>2, <2>3, <2>6 DEF TaskInv
<1>5. QED
  BY <1>3, <1>4 DEF ReadConfigs

\* The connection that was opened for a task is of its key.
LEMMA TaskConnected ==
  ASSUME TypeOK, NEW c \in Tasks, TaskInv(c), Observe, Connected(c)
  PROVE  TaskInv(c)'
<1>1. /\ task[c].at = "connecting" /\ ran' = ran /\ offered' = offered /\ task[c] \in Task
      /\ KeyOf(task[c]) \in Configured
  BY DEF Connected, history, TypeOK, TaskInv, Carried
<1>2. /\ SameCall(task'[c], task[c])
      /\ task'[c].at = IF task[c].op = "call" THEN "call" ELSE "list"
      /\ task'[c].conn \in DOMAIN opened' /\ opened'[task'[c].conn] = KeyOf(task[c])
  BY <1>1, ConnectedEffect
<1>3. Done(c)'
  BY <1>1, StillOffered
<1>4. task[c].op \in {"call", "catalog"}
  BY <1>1 DEF Task
<1>5. Carried(c)'
  BY <1>1, <1>2, <1>4 DEF TaskInv, Carried, SameCall, KeyOf, ServersOf
<1>6. Entitled(c)'
  <2>1. Running(c)
    BY <1>2 DEF Running
  <2>2. listed[c] \subseteq listed'[c] /\ (permitted[c] => permitted'[c])
    BY <2>1, Witnessed
  <2>3. QED
    BY <1>1, <1>2, <1>4, <2>2 DEF TaskInv, Entitled, SameCall, ServersOf
<1>7. QED
  BY <1>3, <1>5, <1>6 DEF TaskInv

\* The tool runs on the connection the task carries.
LEMMA TaskCalls ==
  ASSUME TypeOK, NEW c \in Tasks, TaskInv(c), Observe, CallTool(c)
  PROVE  TaskInv(c)'
<1>1. /\ task[c].at = "call" /\ task'[c].at = "done" /\ SameCall(task'[c], task[c])
      /\ offered' = offered /\ opened' = opened /\ ran'[c] = task[c].conn
  BY CallEffect DEF CallTool, TypeOK, conns
<1>2. /\ task[c].op = "call" /\ opened[task[c].conn] = KeyOf(task[c]) /\ permitted[c]
      /\ <<task[c].server, task[c].tool>> \in listed[c] /\ offered[c] \subseteq listed[c]
  BY <1>1 DEF TaskInv, Carried, Entitled, Done
<1>3. ran'[c] # NoConn
  BY <1>1, NoConnAssumption DEF TaskInv, Carried, TypeOK
<1>4. listed'[c] = listed[c] /\ permitted'[c]
  BY <1>1, <1>2, <1>3, Witnessed DEF Running
<1>5. QED
  BY <1>1, <1>2, <1>4 DEF TaskInv, Carried, Entitled, Done, SameCall, KeyOf

\* A catalog goes to the next of its servers with the lists it has read.
LEMMA TaskVisits ==
  ASSUME TypeOK, NEW c \in Tasks, NEW call \in Task, call.op = "catalog",
         NEW servers \in SUBSET ServersOf(call.tenant),
         Visit(c, call, servers), PoolKeyed, opened' = opened,
         Observe, task[c].at \in {"configs", "list"}, Done(c)', 
         \A s \in ServersOf(call.tenant) :
           {s} \X call.config[<<call.tenant, s>>] \subseteq listed'[c]
  PROVE  TaskInv(c)'
<1>1. PICK s \in servers : Route(c, [call EXCEPT !.server = s, !.left = servers \ {s}], "list")
  BY DEF Visit
<1> DEFINE next == [call EXCEPT !.server = s, !.left = servers \ {s}]
<1>2. /\ next \in Task /\ next.op = "catalog" /\ next.tenant = call.tenant
      /\ next.config = call.config /\ next.server = s /\ next.left \subseteq servers
  BY DEF Task, ServersOf
<1>3. KeyOf(next) \in Configured
  BY <1>2 DEF ServersOf, KeyOf
<1> HIDE DEF next
<1>4. /\ SameCall(task'[c], next)
      /\ \/ /\ KeyOf(next) \in DOMAIN pool /\ task'[c].at = "list"
            /\ task'[c].conn = pool[KeyOf(next)]
         \/ task'[c].at = "connecting"
  BY <1>1, <1>2, RouteEffect DEF next
<1>5. KeyOf(next) \in DOMAIN pool =>
        pool[KeyOf(next)] \in DOMAIN opened /\ opened[pool[KeyOf(next)]] = KeyOf(next)
  BY DEF TypeOK, PoolKeyed
<1>6. Carried(c)'
  BY <1>2, <1>3, <1>4, <1>5 DEF Carried, SameCall, KeyOf, ServersOf
<1>7. Entitled(c)'
  BY <1>2, <1>4 DEF Entitled, SameCall, ServersOf
<1>8. QED
  BY <1>6, <1>7 DEF TaskInv

LEMMA TaskReadsAllConfigs ==
  ASSUME TypeOK, NEW c \in Tasks, TaskInv(c), PoolKeyed, Observe, ReadAllConfigs(c)
  PROVE  TaskInv(c)'
<1> DEFINE call == [task[c] EXCEPT !.config = allowed]
<1>1. /\ task[c].at = "configs" /\ task[c].op = "catalog" /\ ran' = ran /\ offered' = offered
      /\ opened' = opened /\ allowed' = allowed
      /\ task[c] \in Task /\ allowed \in AllowLists
      /\ Visit(c, call, ServersOf(task[c].tenant))
  BY DEF ReadAllConfigs, config, conns, TypeOK
<1>2. /\ call \in Task /\ call.op = "catalog" /\ call.tenant = task[c].tenant
      /\ call.config = allowed
  BY <1>1 DEF Task
<1> HIDE DEF call
<1>3. Done(c)'
  BY <1>1, StillOffered
<1>4. task'[c].at \in {"connecting", "list"} /\ task'[c].tenant = task[c].tenant
  <2>1. PICK s \in ServersOf(call.tenant) :
          Route(c, [call EXCEPT !.server = s, !.left = ServersOf(call.tenant) \ {s}], "list")
    BY <1>1, <1>2 DEF Visit
  <2> DEFINE next == [call EXCEPT !.server = s, !.left = ServersOf(call.tenant) \ {s}]
  <2>2. next \in Task /\ next.tenant = call.tenant
    BY <1>2 DEF Task, ServersOf
  <2> HIDE DEF next
  <2>3. QED
    BY <1>2, <2>1, <2>2, RouteEffect DEF SameCall, next
<1>5. \A s \in ServersOf(call.tenant) :
        {s} \X call.config[<<call.tenant, s>>] \subseteq listed'[c]
  <2>1. Running(c)
    BY <1>4 DEF Running
  <2>2. QED
    BY <1>1, <1>2, <1>4, <2>1, Witnessed
<1>6. QED
  BY <1>1, <1>2, <1>3, <1>5, TaskVisits

\* What is offered was on the lists that were read.
LEMMA TaskLists ==
  ASSUME TypeOK, NEW c \in Tasks, TaskInv(c), PoolKeyed, Observe,
         NEW live \in SUBSET Tools, ListTools(c, live)
  PROVE  TaskInv(c)'
<1> DEFINE call == task[c]
<1>1. /\ call.at = "list" /\ call.op = "catalog" /\ call \in Task /\ opened' = opened
      /\ ran' = ran /\ KeyOf(call) \in Configured /\ call.left \subseteq ServersOf(call.tenant)
      /\ offered'[c] = offered[c] \cup ({call.server} \X Offers(call, live))
  BY DEF ListTools, TypeOK, TaskInv, Carried
<1>2. ran[c] = NoConn /\ offered[c] \subseteq listed[c]
  BY <1>1 DEF TaskInv, Done
<1>3. \A s \in ServersOf(call.tenant) :
        {s} \X call.config[<<call.tenant, s>>] \subseteq listed[c]
  BY <1>1 DEF TaskInv, Entitled
<1>4. {call.server} \X Offers(call, live) \subseteq listed[c]
  <2>1. call.server \in ServersOf(call.tenant) /\ KeyOf(call) = <<call.tenant, call.server>>
    BY <1>1 DEF ServersOf, KeyOf, Task
  <2>2. {call.server} \X call.config[KeyOf(call)] \subseteq listed[c]
    BY <1>3, <2>1
  <2>3. Offers(call, live) \subseteq call.config[KeyOf(call)]
    BY DEF Offers
  <2>4. QED
    BY <2>2, <2>3
<1>5. offered'[c] \subseteq listed[c]
  BY <1>1, <1>2, <1>4
<1>6. Done(c)'
  BY <1>1, <1>2, <1>5, Witnessed DEF Done
<1>7. CASE Finish(c)
  <2>1. task'[c].at = "done"
    BY <1>7, FinishEffect
  <2>2. QED
    BY <1>6, <2>1 DEF TaskInv, Carried, Entitled
<1>8. CASE Visit(c, call, call.left)
  <2>1. Running(c)
    <3>1. PICK s \in call.left :
            Route(c, [call EXCEPT !.server = s, !.left = call.left \ {s}], "list")
      BY <1>8 DEF Visit
    <3>2. [call EXCEPT !.server = s, !.left = call.left \ {s}] \in Task
      BY <1>1 DEF Task, ServersOf
    <3>3. task'[c].at \in {"connecting", "list"}
      BY <3>1, <3>2, RouteEffect
    <3>4. QED
      BY <3>3 DEF Running
  <2>2. \A s \in ServersOf(call.tenant) :
          {s} \X call.config[<<call.tenant, s>>] \subseteq listed'[c]
    BY <1>3, <2>1, Witnessed
  <2>3. QED
    BY <1>1, <1>6, <1>8, <2>2, TaskVisits
<1>9. QED
  BY <1>7, <1>8 DEF ListTools

-----------------------------------------------------------------------------
(* Tool calls: the pool.                                                    *)

\* A step in which nobody sets out for a connection or gets one.
LEMMA RacingKept ==
  ASSUME Racing, raced \subseteq raced', DOMAIN pool' \subseteq DOMAIN pool,
         \A d \in Tasks : task'[d].at = "connecting" =>
           task[d].at = "connecting" /\ KeyOf(task'[d]) = KeyOf(task[d])
  PROVE  Racing'
  BY DEF Racing

\* A step that leaves the connections and close_all alone.
LEMMA PoolKept ==
  ASSUME TypeOK, PoolKeyed, NoConnectionLost, raced \subseteq raced',
         UNCHANGED <<pool, opened, closed, closer>>
  PROVE  PoolKeyed' /\ NoConnectionLost'
  BY DEF PoolKeyed, NoConnectionLost

\* A task that sets out for a connection finds those on the same way.
LEMMA RouteRaces ==
  ASSUME TypeOK, Racing, NEW c \in Tasks, NEW call \in Task, NEW then \in {"call", "list"},
         Route(c, call, then), pool' = pool
  PROVE  Racing' /\ raced \subseteq raced'
<1>1. /\ OnlyTask(c) /\ SameCall(task'[c], call)
      /\ \/ task'[c].at = then /\ raced' = raced
         \/ /\ KeyOf(call) \notin DOMAIN pool /\ task'[c].at = "connecting"
            /\ raced' = IF \E d \in Tasks \ {c} : /\ task[d].at = "connecting"
                                                  /\ KeyOf(task[d]) = KeyOf(call)
                          THEN raced \cup {KeyOf(call)} ELSE raced
  BY RouteEffect
<1>2. KeyOf(task'[c]) = KeyOf(call)
  BY <1>1 DEF SameCall, KeyOf
<1>3. raced \subseteq raced'
  BY <1>1
<1>4. CASE task'[c].at = then
  <2>1. \A d \in Tasks : task'[d].at = "connecting" => task'[d] = task[d]
    BY <1>1, <1>4 DEF OnlyTask
  <2>2. QED
    BY <1>3, <2>1, RacingKept
<1>5. CASE /\ KeyOf(call) \notin DOMAIN pool /\ task'[c].at = "connecting"
           /\ raced' = IF \E d \in Tasks \ {c} : /\ task[d].at = "connecting"
                                                 /\ KeyOf(task[d]) = KeyOf(call)
                         THEN raced \cup {KeyOf(call)} ELSE raced
  <2> SUFFICES ASSUME NEW e \in Tasks, task'[e].at = "connecting", KeyOf(task'[e]) \notin raced'
               PROVE  /\ KeyOf(task'[e]) \notin DOMAIN pool
                      /\ \A d \in Tasks \ {e} : ~ (/\ task'[d].at = "connecting"
                                                   /\ KeyOf(task'[d]) = KeyOf(task'[e]))
    BY <1>3 DEF Racing
  <2>1. CASE e = c
    BY <1>1, <1>2, <1>5, <2>1 DEF OnlyTask
  <2>2. CASE e # c
    <3>1. task'[e] = task[e] /\ KeyOf(task[e]) \notin raced
      BY <1>1, <1>3, <2>2 DEF OnlyTask
    <3>2. KeyOf(task[e]) # KeyOf(call)
      BY <1>5, <2>2, <3>1
    <3>3. QED
      BY <1>1, <1>2, <2>2, <3>1, <3>2 DEF OnlyTask, Racing
  <2>3. QED
    BY <2>1, <2>2
<1>6. QED
  BY <1>1, <1>3, <1>4, <1>5

\* A connection that replaces another, or that others are on the way to, is of
\* a key that was raced for.
LEMMA ConnectedRaces ==
  ASSUME TypeOK, PoolKeyed, Racing, NoConnectionLost, NEW c \in Tasks,
         KeyOf(task[c]) \in Configured, Connected(c)
  PROVE  Racing' /\ PoolKeyed' /\ NoConnectionLost'
<1>1. PICK key \in Configured : key = KeyOf(task[c])
  OBVIOUS
<1>2. PICK conn : conn = Len(opened) + 1
  OBVIOUS
<1>3. /\ task[c].at = "connecting" /\ OnlyTask(c) /\ task'[c].at \in {"call", "list"}
      /\ DOMAIN opened' = DOMAIN opened \cup {conn}
      /\ conn \notin DOMAIN opened /\ opened'[conn] = key
      /\ \A i \in DOMAIN opened : opened'[i] = opened[i]
      /\ DOMAIN pool' = DOMAIN pool \cup {key} /\ pool'[key] = conn
      /\ \A k \in DOMAIN pool \ {key} : pool'[k] = pool[k]
  BY <1>1, <1>2, ConnectedEffect
<1>4. raced' = raced /\ closed' = closed /\ closer' = closer
  BY DEF Connected, history
<1>5. /\ DOMAIN pool \subseteq Configured /\ \A k \in DOMAIN pool : pool[k] \in DOMAIN opened
      /\ closed \subseteq DOMAIN opened
  BY DEF TypeOK
<1>6. key \in DOMAIN pool => key \in raced
  BY <1>1, <1>3 DEF Racing
<1>7. Racing'
  <2> SUFFICES ASSUME NEW e \in Tasks, task'[e].at = "connecting", KeyOf(task'[e]) \notin raced
               PROVE  /\ KeyOf(task'[e]) \notin DOMAIN pool'
                      /\ \A d \in Tasks \ {e} : ~ (/\ task'[d].at = "connecting"
                                                   /\ KeyOf(task'[d]) = KeyOf(task'[e]))
    BY <1>4 DEF Racing
  <2>1. e # c /\ task'[e] = task[e]
    BY <1>3 DEF OnlyTask
  <2>2. KeyOf(task[e]) # key
    BY <1>1, <1>3, <1>4, <2>1 DEF Racing
  <2>3. QED
    BY <1>3, <2>1, <2>2 DEF Racing, OnlyTask
<1>8. PoolKeyed'
  <2>1. \A k \in DOMAIN pool' : opened'[pool'[k]] = k
    BY <1>3, <1>5 DEF PoolKeyed
  <2>2. ASSUME closer.at = "closing", NEW k \in closer.visited
        PROVE  k \in DOMAIN pool' /\ (pool'[k] \in closed \/ k \in raced)
    BY <1>3, <1>6, <2>2 DEF PoolKeyed
  <2>3. QED
    BY <1>4, <2>1, <2>2 DEF PoolKeyed
<1>9. NoConnectionLost'
  <2> SUFFICES ASSUME NEW i \in DOMAIN opened' \ closed, opened'[i] \notin raced
               PROVE  opened'[i] \in DOMAIN pool' /\ pool'[opened'[i]] = i
    BY <1>4 DEF NoConnectionLost
  <2>1. CASE i = conn
    BY <1>3, <2>1
  <2>2. CASE i # conn
    <3>1. /\ i \in DOMAIN opened \ closed /\ opened'[i] = opened[i]
          /\ opened[i] \in DOMAIN pool /\ pool[opened[i]] = i
      BY <1>3, <2>2 DEF NoConnectionLost
    <3>2. opened[i] # key
      BY <1>6, <3>1
    <3>3. QED
      BY <1>3, <3>1, <3>2
  <2>3. QED
    BY <2>1, <2>2
<1>10. QED
  BY <1>7, <1>8, <1>9

\* close_all: a connection is closed while its key stays, and the dictionary
\* is cleared of what was closed or raced for.
LEMMA CloserStep ==
  ASSUME TypeOK, PoolKeyed, Racing, NoConnectionLost,
         StartClose \/ CloseNext \/ CloseEnd \/ CloseRaises
  PROVE  Racing' /\ PoolKeyed' /\ NoConnectionLost' /\ UNCHANGED <<task, opened, history>>
<1>1. UNCHANGED <<task, opened, history>>
  BY DEF StartClose, CloseNext, CloseEnd, CloseRaises, conns
<1>2. raced' = raced
  BY <1>1 DEF history
<1>3. CASE StartClose
  <2>1. UNCHANGED <<pool, closed>> /\ closer'.visited = {}
    BY <1>3 DEF StartClose, conns
  <2>2. QED
    BY <1>1, <1>2, <2>1 DEF Racing, PoolKeyed, NoConnectionLost
<1>4. CASE CloseNext
  <2>1. PICK k \in DOMAIN pool : /\ closed' = closed \cup {pool[k]}
                                 /\ closer' = [closer EXCEPT !.visited = @ \cup {k}]
    BY <1>4 DEF CloseNext
  <2>2. /\ pool' = pool /\ closer.at = "closing"
        /\ closer'.at = "closing" /\ closer'.visited = closer.visited \cup {k}
    BY <1>4, <2>1 DEF CloseNext, TypeOK
  <2>3. PoolKeyed'
    BY <1>1, <1>2, <2>1, <2>2 DEF PoolKeyed
  <2>4. Racing' /\ NoConnectionLost'
    BY <1>1, <1>2, <2>1, <2>2 DEF Racing, NoConnectionLost
  <2>5. QED
    BY <1>1, <2>3, <2>4
<1>5. CASE CloseEnd
  <2>1. /\ closer.at = "closing" /\ DOMAIN pool \subseteq closer.visited
        /\ DOMAIN pool' = {} /\ closed' = closed /\ closer'.at = "done"
    BY <1>5 DEF CloseEnd, TypeOK
  <2>2. PoolKeyed' /\ Racing'
    BY <1>1, <1>2, <2>1 DEF PoolKeyed, Racing
  <2>3. NoConnectionLost'
    BY <1>1, <1>2, <2>1 DEF PoolKeyed, NoConnectionLost
  <2>4. QED
    BY <1>1, <2>2, <2>3
<1>6. CASE CloseRaises
  <2>1. UNCHANGED <<pool, closed>> /\ closer'.at = "done"
    BY <1>6 DEF CloseRaises, conns, TypeOK
  <2>2. QED
    BY <1>1, <1>2, <2>1 DEF Racing, PoolKeyed, NoConnectionLost
<1>7. QED
  BY <1>3, <1>4, <1>5, <1>6

-----------------------------------------------------------------------------
(* Tool calls: the invariant is inductive.                                  *)

\* At first nothing is open and nobody calls.
LEMMA ToolInit == Init => ToolInv
<1> SUFFICES ASSUME Init PROVE ToolInv
  OBVIOUS
<1>1. NoTask \in Task /\ NoTask.at = "idle" /\ NoTask.op = "call"
  BY NoTaskType DEF NoTask
<1>2. TypeOK
  <2>1. ApprovalsTypeOK
    BY ApprovalsInitIInv DEF Init, ApprovalsIInv
  <2>2. edits \in 0..MaxEdits /\ allowed \in AllowLists
    BY EditsAssumption, FirstListsAssumption DEF Init, AllowLists
  <2>3. pool = [k \in {} |-> NoConn] /\ DOMAIN pool = {}
    BY DEF Init
  <2>4. opened = <<>> /\ opened \in Seq(Configured) /\ DOMAIN opened = {}
    BY DEF Init
  <2>5. task \in [Tasks -> Task]
    BY <1>1 DEF Init
  <2>6. QED
    BY <2>1, <2>2, <2>3, <2>4, <2>5 DEF Init, TypeOK
<1>3. ASSUME NEW c \in Tasks PROVE TaskInv(c)
  BY <1>1 DEF Init, TaskInv, Carried, Entitled, Done
<1>4. PoolKeyed /\ Racing /\ NoConnectionLost
  BY <1>1 DEF Init, PoolKeyed, Racing, NoConnectionLost
<1>5. QED
  BY <1>2, <1>3, <1>4 DEF ToolInv, TaskInv

\* A step of one task, seen from the others.
LEMMA OthersStep ==
  ASSUME ToolInv, NEW c \in Tasks, Observe, OnlyTask(c), OpenedStay,
         \A d \in Tasks \ {c} : ran'[d] = ran[d] /\ offered'[d] = offered[d],
         TaskInv(c)'
  PROVE  \A d \in Tasks : TaskInv(d)'
<1> SUFFICES ASSUME NEW d \in Tasks, d # c PROVE TaskInv(d)'
  OBVIOUS
<1>1. TaskInv(d) /\ task'[d] = task[d] /\ ran'[d] = ran[d] /\ offered'[d] = offered[d]
  BY DEF ToolInv, OnlyTask, TaskInv
<1>2. QED
  BY <1>1, Bystander DEF ToolInv

\* What is left of the invariant when the types are taken care of.
Rest == (\A c \in Tasks : TaskInv(c)) /\ PoolKeyed /\ Racing /\ NoConnectionLost

\* A task that moves, but not to a connection, leaves the pool as it is.
LEMMA QuietTask ==
  ASSUME ToolInv, NEW c \in Tasks, Observe, OnlyTask(c), TaskInv(c)',
         task'[c].at # "connecting", UNCHANGED <<pool, opened, closed, closer, raced>>,
         \A d \in Tasks \ {c} : ran'[d] = ran[d] /\ offered'[d] = offered[d]
  PROVE  Rest'
<1>1. \A d \in Tasks : TaskInv(d)'
  BY OthersStep DEF OpenedStay
<1>2. Racing'
  BY RacingKept DEF ToolInv, OnlyTask
<1>3. PoolKeyed' /\ NoConnectionLost'
  BY PoolKept DEF ToolInv
<1>4. QED
  BY <1>1, <1>2, <1>3 DEF Rest

\* A task that is routed.
LEMMA RoutedTask ==
  ASSUME ToolInv, NEW c \in Tasks, Observe, TaskInv(c)',
         NEW call \in Task, NEW then \in {"call", "list"}, Route(c, call, then),
         UNCHANGED <<pool, opened, closed, closer>>,
         \A d \in Tasks \ {c} : ran'[d] = ran[d] /\ offered'[d] = offered[d]
  PROVE  Rest'
<1>1. OnlyTask(c) /\ Racing' /\ raced \subseteq raced'
  BY RouteEffect, RouteRaces DEF ToolInv
<1>2. \A d \in Tasks : TaskInv(d)'
  BY <1>1, OthersStep DEF OpenedStay
<1>3. PoolKeyed' /\ NoConnectionLost'
  BY <1>1, PoolKept DEF ToolInv
<1>4. QED
  BY <1>1, <1>2, <1>3 DEF Rest

LEMMA VisitedTask ==
  ASSUME ToolInv, NEW c \in Tasks, Observe, TaskInv(c)',
         NEW call \in Task, NEW servers \in SUBSET Servers, Visit(c, call, servers),
         UNCHANGED <<pool, opened, closed, closer>>,
         \A d \in Tasks \ {c} : ran'[d] = ran[d] /\ offered'[d] = offered[d]
  PROVE  Rest'
<1>1. PICK s \in servers : Route(c, [call EXCEPT !.server = s, !.left = servers \ {s}], "list")
  BY DEF Visit
<1> DEFINE next == [call EXCEPT !.server = s, !.left = servers \ {s}]
<1>2. next \in Task
  BY DEF Task
<1> HIDE DEF next
<1>3. Route(c, next, "list")
  BY <1>1 DEF next
<1>4. QED
  BY <1>2, <1>3, RoutedTask

\* Every step, one kind after the other.
LEMMA RestStep ==
  ASSUME ToolInv, Step, Observe
  PROVE  Rest'
<1>0. TypeOK /\ PoolKeyed /\ Racing /\ NoConnectionLost /\ \A c \in Tasks : TaskInv(c)
  BY DEF ToolInv, TaskInv
<1>1. ASSUME NEW c \in Tasks,
             Catalog(c) \/ \E tier \in {"read", "write", "high_risk"} : HandleCall(c, tier)
      PROVE  Rest'
  <2>1. /\ OnlyTask(c) /\ task'[c].at # "connecting"
        /\ UNCHANGED <<config, conns, closer, history>>
    BY <1>0, <1>1, BeginEffect
  <2>2. TaskInv(c)'
    BY <1>0, <1>1, TaskBegins
  <2>3. QED
    BY <2>1, <2>2, QuietTask DEF conns, history
<1>2. ASSUME NEW c \in Tasks, Evaluate(c) PROVE Rest'
  <2>1. TaskInv(c)' /\ UNCHANGED <<conns, closer, history>>
    BY <1>0, <1>2, TaskEvaluated DEF Evaluate
  <2>2. OnlyTask(c) /\ task'[c].at # "connecting"
    <3>1. CASE Finish(c)
      BY <1>0, <3>1, FinishEffect
    <3>2. ASSUME NEW place \in {"configs", "checkpoint"}, task' = [task EXCEPT ![c].at = place]
          PROVE  OnlyTask(c) /\ task'[c].at # "connecting"
      <4>1. task \in [Tasks -> Task] /\ place \in Places
        BY <1>0 DEF TypeOK, Places
      <4>2. QED
        BY <3>2, <4>1, MoveType DEF OnlyTask
    <3>3. QED
      BY <1>2, <3>1, <3>2 DEF Evaluate
  <2>3. QED
    BY <2>1, <2>2, QuietTask DEF conns, history
<1>3. ASSUME NEW c \in Tasks, Checkpoint(c) \/ Fail(c) PROVE Rest'
  <2>1. Finish(c) /\ UNCHANGED <<conns, closer, history>> /\ task[c].at # "done"
    BY <1>3 DEF Checkpoint, Fail
  <2>2. OnlyTask(c) /\ task'[c].at # "connecting"
    BY <1>0, <2>1, FinishEffect
  <2>3. TaskInv(c)'
    BY <1>0, <2>1, TaskFinishes DEF history
  <2>4. QED
    BY <2>1, <2>2, <2>3, QuietTask DEF conns, history
<1>4. ASSUME NEW c \in Tasks, ReadConfigs(c) PROVE Rest'
  <2>1. TaskInv(c)' /\ UNCHANGED <<conns, closer, ran, offered>>
    BY <1>0, <1>4, TaskReadsConfigs DEF ReadConfigs
  <2>2. CASE Finish(c) /\ UNCHANGED raced
    BY <1>0, <2>1, <2>2, FinishEffect, QuietTask DEF conns
  <2>3. CASE Route(c, task[c], "call")
    <3>1. task[c] \in Task
      BY <1>0 DEF TypeOK
    <3>2. QED
      BY <2>1, <2>3, <3>1, RoutedTask DEF conns
  <2>4. QED
    BY <1>4, <2>2, <2>3 DEF ReadConfigs
<1>5. ASSUME NEW c \in Tasks, Connected(c) PROVE Rest'
  <2>1. TaskInv(c)' /\ KeyOf(task[c]) \in Configured /\ UNCHANGED <<ran, offered>>
    BY <1>0, <1>5, TaskConnected DEF Connected, TaskInv, Carried, history
  <2>2. OnlyTask(c) /\ OpenedStay
    BY <1>0, <1>5, <2>1, ConnectedEffect DEF OpenedStay
  <2>3. \A d \in Tasks : TaskInv(d)'
    BY <2>1, <2>2, OthersStep
  <2>4. QED
    BY <1>0, <1>5, <2>1, <2>3, ConnectedRaces DEF Rest
<1>6. ASSUME NEW c \in Tasks, CallTool(c) PROVE Rest'
  <2>1. TaskInv(c)' /\ OnlyTask(c) /\ task'[c].at # "connecting"
    BY <1>0, <1>6, TaskCalls, CallEffect
  <2>2. /\ UNCHANGED <<conns, closer, offered, raced>>
        /\ \A d \in Tasks \ {c} : ran'[d] = ran[d]
    BY <1>0, <1>6 DEF CallTool, TypeOK
  <2>3. QED
    BY <2>1, <2>2, QuietTask DEF conns
<1>7. ASSUME NEW c \in Tasks, ReadAllConfigs(c) PROVE Rest'
  <2> DEFINE call == [task[c] EXCEPT !.config = allowed]
  <2>1. TaskInv(c)' /\ UNCHANGED <<conns, closer, ran, offered>>
    BY <1>0, <1>7, TaskReadsAllConfigs DEF ReadAllConfigs
  <2>2. call \in Task
    <3>1. task[c] \in Task /\ allowed \in AllowLists
      BY <1>0 DEF TypeOK
    <3>2. QED
      BY <3>1 DEF Task
  <2>3. Visit(c, call, ServersOf(task[c].tenant)) /\ ServersOf(task[c].tenant) \in SUBSET Servers
    BY <1>7 DEF ReadAllConfigs, ServersOf
  <2> HIDE DEF call
  <2>4. QED
    BY <2>1, <2>2, <2>3, VisitedTask DEF conns
<1>8. ASSUME NEW c \in Tasks, NEW live \in SUBSET Tools, ListTools(c, live) PROVE Rest'
  <2>1. /\ TaskInv(c)' /\ UNCHANGED <<pool, opened, closed, closer, ran>>
        /\ \A d \in Tasks \ {c} : offered'[d] = offered[d]
    BY <1>0, <1>8, TaskLists DEF ListTools, TypeOK
  <2>2. CASE Finish(c) /\ UNCHANGED raced
    BY <1>0, <2>1, <2>2, FinishEffect, QuietTask
  <2>3. CASE Visit(c, task[c], task[c].left)
    <3>1. task[c] \in Task /\ task[c].left \in SUBSET Servers
      BY <1>0 DEF TypeOK, Task
    <3>2. QED
      BY <2>1, <2>3, <3>1, VisitedTask
  <2>4. QED
    BY <1>8, <2>2, <2>3 DEF ListTools
<1>9. ASSUME UNCHANGED <<task, opened, history>>, PoolKeyed', Racing', NoConnectionLost'
      PROVE  Rest'
  <2>1. ASSUME NEW d \in Tasks PROVE TaskInv(d)'
    <3>1. OpenedStay /\ task'[d] = task[d] /\ ran'[d] = ran[d] /\ offered'[d] = offered[d]
      BY <1>9 DEF OpenedStay, history
    <3>2. QED
      BY <1>0, <3>1, Bystander
  <2>2. QED
    BY <1>9, <2>1 DEF Rest
<1>10. CASE StartClose \/ CloseNext \/ CloseEnd \/ CloseRaises
  BY <1>0, <1>9, <1>10, CloserStep
<1>11. CASE \/ \E k \in Configured, tools \in SUBSET Tools : SetAllowed(k, tools)
            \/ (ApprovalsNext /\ UNCHANGED <<config, conns, task, closer, history>>)
  <2>1. UNCHANGED <<conns, task, closer, history>>
    BY <1>11 DEF SetAllowed
  <2>2. PoolKeyed' /\ NoConnectionLost'
    BY <1>0, <2>1, PoolKept DEF conns, history
  <2>3. Racing'
    BY <1>0, <2>1 DEF Racing, conns, history
  <2>4. QED
    BY <1>9, <2>1, <2>2, <2>3 DEF conns
<1>12. QED
  BY <1>1, <1>2, <1>3, <1>4, <1>5, <1>6, <1>7, <1>8, <1>10, <1>11 DEF Step, PoolStep

\* With the approvals' own invariant, the invariant of the tool calls is
\* preserved by every step.
LEMMA ToolStep == ToolInv /\ ApprovalsIInv' /\ [Next]_vars => ToolInv'
<1> SUFFICES ASSUME ToolInv, ApprovalsIInv', [Next]_vars PROVE ToolInv'
  OBVIOUS
<1>1. CASE Next
  <2>1. StepTypes'
    BY <1>1, StepTypesStep DEF ToolInv, Next
  <2>2. TypeOK'
    BY <1>1, <2>1, TypeStep DEF ToolInv, Next, ApprovalsIInv
  <2>3. Rest'
    BY <1>1, RestStep DEF Next
  <2>4. QED
    BY <2>2, <2>3 DEF ToolInv, Rest, TaskInv
<1>2. CASE UNCHANGED vars
  <2>1. TypeOK'
    BY <1>2 DEF vars, config, conns, history, ToolInv, TypeOK, ApprovalsIInv
  <2>2. \A c \in Tasks : (Carried(c) /\ Entitled(c) /\ Done(c))'
    BY <1>2 DEF vars, config, conns, history, ToolInv, Carried, Entitled, Done
  <2>3. PoolKeyed' /\ Racing' /\ NoConnectionLost'
    BY <1>2 DEF vars, config, conns, history, ToolInv, PoolKeyed, Racing, NoConnectionLost
  <2>4. QED
    BY <2>1, <2>2, <2>3 DEF ToolInv
<1>3. QED
  BY <1>1, <1>2

-----------------------------------------------------------------------------
(* Tool calls: what follows.                                                *)

\* The types and the rest of the invariant hold in every reachable state.
THEOREM ToolCallsInvariance == Spec => [](ToolInv /\ ApprovalsIInv)
<1>1. Spec => []ApprovalsIInv
  BY ToolCallsUseApprovals, ApprovalsInvariance, PTL
<1>2. QED
  BY <1>1, ToolInit, ToolStep, PTL DEF Spec

\* However tasks race to open, overwrite and close connections, a tool runs on
\* a connection of its own tenant and server (saap/core/mcp.py).
THEOREM TenantsIsolated == Spec => []TenantIsolation
<1>1. ToolInv => TenantIsolation
  BY DEF ToolInv, Done, PoolKeyed, TenantIsolation, KeyOf
<1>2. QED
  BY <1>1, ToolCallsInvariance, PTL

\* Only what the policy and the allow-list let through during the call's own
\* life runs or is offered (mcp_toolkit.py, policy.py).
THEOREM CallsEntitled == Spec => []OnlyEntitledCallsRun
<1>1. ToolInv => OnlyEntitledCallsRun
  BY DEF ToolInv, Done, OnlyEntitledCallsRun
<1>2. QED
  BY <1>1, ToolCallsInvariance, PTL

\* An open connection that close_all() will not find is of a key that two
\* tasks were connecting for at once (saap/core/mcp.py).
THEOREM ConnectionsKept == Spec => []NoConnectionLost
<1>1. ToolInv => NoConnectionLost
  BY DEF ToolInv
<1>2. QED
  BY <1>1, ToolCallsInvariance, PTL

\* The requests the tool calls make have one outcome each, and expire exactly
\* (saap/langflow_components/logic/hitl_checkpoint.py).
THEOREM ToolCallsDecided == Spec => [](OneOutcome /\ ExpiryIsExact)
<1>1. ApprovalsIInv => OneOutcome /\ ExpiryIsExact
  BY DEF ApprovalsIInv
<1>2. QED
  BY <1>1, ToolCallsInvariance, PTL

\* And no tool call changes a decision once it is made.
THEOREM ToolCallsFinal == Spec => DecisionIsFinal
  BY ToolCallsUseApprovals, FinalDecision, PTL
=============================================================================
