------------------------------- MODULE ToolCalls -------------------------------
(***************************************************************************)
(* Tool calls of the agents: MCPToolkitLogic (saap/langflow_components),   *)
(* the policy guard that judges a call, and MCPClientPool                  *)
(* (saap/core/mcp.py), the pool that runs it.  A call that needs a human   *)
(* becomes a request of Approvals.                                         *)
(*                                                                         *)
(* A task is one running handle_call() or catalog(); what it does between  *)
(* two awaits is one action.  All tasks of a process share one pool.       *)
(***************************************************************************)
EXTENDS Approvals, Sequences, FiniteSets

CONSTANTS
  Tenants, Servers, Tools,
  Configured,   \* the <<tenant, server>> pairs with an MCPServerConfig
  WriteTools,   \* allowed_write_tools: the tools that may write at all
  BusinessTime, \* the times within business hours
  FirstLists,   \* the allow-lists a deployment may start with
  NoConn,       \* no connection
  MaxEdits      \* bound: how often operators edit an allow-list

Tasks == Requests   \* a task makes at most one request, named as the task

ASSUME ToolsAssumption == WriteTools \subseteq Tools
ASSUME ConfiguredAssumption ==
  Configured \subseteq Tenants \X Servers /\ IsFiniteSet(Configured)
ASSUME NonEmptyAssumption == Tenants # {} /\ Servers # {} /\ Tools # {}
ASSUME FirstListsAssumption == FirstLists \subseteq [Configured -> SUBSET Tools]
ASSUME EditsAssumption == MaxEdits \in Nat
ASSUME NoConnAssumption == NoConn \notin Nat

VARIABLES
  allowed,       \* allowed[k]: the allow-list of the MCPServerConfig of k
  edits,         \* how often operators have edited one
  pool,          \* _connections: a function from keys to connections
  quarantined,   \* _quarantined
  opened,        \* the keys connections were opened for; a connection is its index
  closed,        \* the connections that were closed
  task,          \* task[c]: what the call does and the await it stands at
  closer,        \* close_all(): where it stands, its first size, the keys visited
  ran,           \* history: ran[c]: the connection c's tool ran on
  offered,       \* history: offered[c]: the tools c's catalog has gathered so far
  listed,        \* history: listed[c]: tools on the tenant's allow-list since c began
  permitted,     \* history: permitted[c]: the policy allowed c at some moment
  raced          \* history: keys two tasks were connecting for at once

conns == <<pool, quarantined, opened, closed>>
config == <<allowed, edits>>
history == <<ran, offered, raced>>
vars == <<approvalVars, config, conns, task, closer, history, listed, permitted>>

-----------------------------------------------------------------------------
AllowLists == [Configured -> SUBSET Tools]

Places == {"idle", "policy", "configs", "connecting", "call", "list", "checkpoint", "done"}

Task == [at : Places,
         op : {"call", "catalog"}, tenant : Tenants, server : Servers, tool : Tools,
         tier : {"read", "write", "high_risk"}, config : AllowLists, left : SUBSET Servers,
         conn : Nat \cup {NoConn}]

TypeOK ==
  /\ ApprovalsTypeOK
  /\ edits \in 0..MaxEdits
  /\ allowed \in AllowLists
  /\ DOMAIN pool \subseteq Configured
  /\ \A k \in DOMAIN pool : pool[k] \in DOMAIN opened
  /\ quarantined \in [Configured -> SUBSET Tools]
  /\ opened \in Seq(Configured)
  /\ closed \subseteq DOMAIN opened
  /\ task \in [Tasks -> Task]
  /\ closer \in [at : {"idle", "closing", "done"}, size : Nat, visited : SUBSET Configured]
  /\ ran \in [Tasks -> DOMAIN opened \cup {NoConn}]
  /\ \A f \in {offered, listed} : f \in [Tasks -> SUBSET (Servers \X Tools)]
  /\ permitted \in [Tasks -> BOOLEAN]
  /\ raced \subseteq Configured

NoTask ==
  [at |-> "idle", op |-> "call", tenant |-> CHOOSE t \in Tenants : TRUE,
   server |-> CHOOSE s \in Servers : TRUE, tool |-> CHOOSE x \in Tools : TRUE,
   tier |-> "read", config |-> [k \in Configured |-> {}], left |-> {}, conn |-> NoConn]

Init ==
  /\ ApprovalsInit
  /\ edits = 0
  /\ allowed \in FirstLists
  /\ pool = [k \in {} |-> NoConn]
  /\ quarantined = [k \in Configured |-> {}]
  /\ opened = <<>>
  /\ closed = {}
  /\ task = [c \in Tasks |-> NoTask]
  /\ closer = [at |-> "idle", size |-> 0, visited |-> {}]
  /\ ran = [c \in Tasks |-> NoConn]
  /\ offered = [c \in Tasks |-> {}]
  /\ listed = [c \in Tasks |-> {}]
  /\ permitted = [c \in Tasks |-> FALSE]
  /\ raced = {}

-----------------------------------------------------------------------------
(* MCPToolkitLogic.handle_call and the policy guard.                        *)

Begin(c, first) ==
  /\ task[c].at = "idle"
  /\ task' = [task EXCEPT ![c] = first]
  /\ UNCHANGED <<approvalVars, config, conns, closer, history>>

\* The agent proposes a call; the risk tier comes with the call.
HandleCall(c, tier) ==
  \E t \in Tenants, s \in Servers, x \in Tools :
    Begin(c, [NoTask EXCEPT !.at = "policy", !.tenant = t, !.server = s, !.tool = x,
                            !.tier = tier])

Allows(call, time) ==
  \/ call.tier = "read"
  \/ (call.tier = "write" /\ call.tool \in WriteTools /\ time \in BusinessTime)

Decision(call) ==
  CASE call.tier = "high_risk" -> "require_human"
    [] Allows(call, now) -> "allow"
    [] OTHER -> "deny"

Finish(c) == task' = [task EXCEPT ![c] = [NoTask EXCEPT !.at = "done"]]

Evaluate(c) ==
  /\ task[c].at = "policy"
  /\ CASE Decision(task[c]) = "allow" -> task' = [task EXCEPT ![c].at = "configs"]
       [] Decision(task[c]) = "deny" -> Finish(c)
       [] OTHER -> task' = [task EXCEPT ![c].at = "checkpoint"]
  /\ UNCHANGED <<approvalVars, config, conns, closer, history>>

\* The outcome "pending_approval" reaches the HITLCheckpoint node.
Checkpoint(c) ==
  /\ task[c].at = "checkpoint"
  /\ Create(c)
  /\ Finish(c)
  /\ UNCHANGED <<config, conns, closer, history>>

-----------------------------------------------------------------------------
(* MCPClientPool.                                                           *)

\* Mutant: connections are kept by server alone.
KeyOfServer(call) == <<CHOOSE t \in Tenants : TRUE, call.server>>

KeyOf(call) == <<call.tenant, call.server>>

\* _connection_for up to its await: take the connection that is there, or go
\* and open one.
Route(c, call, then) ==
  IF KeyOf(call) \in DOMAIN pool
    THEN /\ task' = [task EXCEPT ![c] = [call EXCEPT !.at = then,
                                                     !.conn = pool[KeyOf(call)]]]
         /\ UNCHANGED raced
    ELSE /\ task' = [task EXCEPT ![c] = [call EXCEPT !.at = "connecting"]]
         /\ raced' = IF \E d \in Tasks \ {c} : /\ task[d].at = "connecting"
                                               /\ KeyOf(task[d]) = KeyOf(call)
                       THEN raced \cup {KeyOf(call)} ELSE raced

OnList(call) == KeyOf(call) \in Configured /\ call.tool \in allowed[KeyOf(call)]

\* dispatch: the configs are read afresh; a tool off the list is refused.
ReadConfigs(c) ==
  /\ task[c].op = "call" /\ task[c].at = "configs"
  /\ IF OnList(task[c])
       THEN Route(c, task[c], "call")
       ELSE Finish(c) /\ UNCHANGED raced
  /\ UNCHANGED <<approvalVars, config, conns, closer, ran, offered>>

\* The factory returns: the connection goes into the dictionary, whatever is
\* there by now.
Connected(c) ==
  LET conn == Len(opened) + 1
      key == KeyOf(task[c])
  IN
  /\ task[c].at = "connecting"
  /\ opened' = Append(opened, <<task[c].tenant, task[c].server>>)
  /\ pool' = [k \in DOMAIN pool \cup {key} |-> IF k = key THEN conn ELSE pool[k]]
  /\ task' = [task EXCEPT ![c].conn = conn,
                          ![c].at = IF task[c].op = "call" THEN "call" ELSE "list"]
  /\ UNCHANGED <<approvalVars, config, quarantined, closed, closer, history>>

\* The server runs the tool; whether its answer arrives changes nothing here.
CallTool(c) ==
  /\ task[c].at = "call"
  /\ ran' = [ran EXCEPT ![c] = task[c].conn]
  /\ task' = [task EXCEPT ![c].at = "done", ![c].conn = NoConn]
  /\ UNCHANGED <<approvalVars, config, conns, closer, offered, raced>>

\* catalog: the configs are read once, then it goes from server to server.
Catalog(c) ==
  \E t \in Tenants :
    Begin(c, [NoTask EXCEPT !.at = "configs", !.op = "catalog", !.tenant = t])

Visit(c, call, servers) ==
  \E s \in servers : Route(c, [call EXCEPT !.server = s, !.left = servers \ {s}], "list")

ServersOf(t) == {s \in Servers : <<t, s>> \in Configured}

ReadAllConfigs(c) ==
  /\ task[c].op = "catalog" /\ task[c].at = "configs"
  /\ Visit(c, [task[c] EXCEPT !.config = allowed], ServersOf(task[c].tenant))
  /\ UNCHANGED <<approvalVars, config, conns, closer, ran, offered>>

\* Mutant: everything the server lists is offered.
OffersLive(call, live) == live

Offers(call, live) == live \cap call.config[KeyOf(call)]

\* The server lists whatever it has by now.
ListTools(c, live) ==
  LET call == task[c] IN
  /\ call.at = "list"
  /\ quarantined' = [quarantined EXCEPT ![KeyOf(call)] = live \ call.config[KeyOf(call)]]
  /\ offered' = [offered EXCEPT ![c] = @ \cup ({call.server} \X Offers(call, live))]
  /\ IF call.left = {}
       THEN Finish(c) /\ UNCHANGED raced
       ELSE Visit(c, call, call.left)
  /\ UNCHANGED <<approvalVars, config, pool, opened, closed, closer, ran>>

\* A store, the factory or the server raises.
Fail(c) ==
  /\ task[c].at \in {"policy", "configs", "connecting", "call", "list"}
  /\ Finish(c)
  /\ UNCHANGED <<approvalVars, config, conns, closer, history>>

-----------------------------------------------------------------------------
(* close_all: a loop over the dictionary that awaits each close().          *)

StartClose ==
  /\ closer.at = "idle"
  /\ closer' = [at |-> "closing", size |-> Cardinality(DOMAIN pool), visited |-> {}]
  /\ UNCHANGED <<approvalVars, config, conns, task, history>>

\* Python ends the loop with a RuntimeError if the dictionary has grown.
Ungrown == Cardinality(DOMAIN pool) = closer.size

\* The insertion order of the keys is left open.
CloseNext ==
  /\ closer.at = "closing"
  /\ Ungrown
  /\ \E k \in DOMAIN pool \ closer.visited :
       /\ closed' = closed \cup {pool[k]}
       /\ closer' = [closer EXCEPT !.visited = @ \cup {k}]
  /\ UNCHANGED <<approvalVars, config, pool, quarantined, opened, task, history>>

\* Mutant: the pool is cleared although the loop has not seen all of it.
CloseEndEarly ==
  /\ closer.at = "closing"
  /\ Cardinality(closer.visited) = closer.size
  /\ pool' = [k \in {} |-> NoConn]
  /\ closer' = [closer EXCEPT !.at = "done"]
  /\ UNCHANGED <<approvalVars, config, quarantined, opened, closed, task, history>>

CloseEnd ==
  /\ closer.at = "closing"
  /\ Ungrown
  /\ DOMAIN pool \subseteq closer.visited
  /\ pool' = [k \in {} |-> NoConn]
  /\ closer' = [closer EXCEPT !.at = "done"]
  /\ UNCHANGED <<approvalVars, config, quarantined, opened, closed, task, history>>

\* The loop raises, by itself or because a close() did: the dictionary keeps
\* what it holds, closed or not.
CloseRaises ==
  /\ closer.at = "closing"
  /\ ~ Ungrown \/ closer.visited # {}
  /\ closer' = [closer EXCEPT !.at = "done"]
  /\ UNCHANGED <<approvalVars, config, conns, task, history>>

-----------------------------------------------------------------------------
(* The environment: operators edit allow-lists.                             *)

SetAllowed(k, tools) ==
  /\ edits < MaxEdits
  /\ tools # allowed[k]
  /\ allowed' = [allowed EXCEPT ![k] = tools]
  /\ edits' = edits + 1
  /\ UNCHANGED <<approvalVars, conns, task, closer, history>>

-----------------------------------------------------------------------------
Running(c) == task'[c].at \notin {"idle", "done"}

\* What the running calls witness; it is kept for those that ran or offered.
Observe ==
  /\ listed' = [c \in Tasks |->
       IF Running(c) THEN listed[c] \cup UNION {{s} \X allowed'[<<task'[c].tenant, s>>] :
                                               s \in ServersOf(task'[c].tenant)}
       ELSE IF ran'[c] = NoConn /\ offered'[c] = {} THEN {} ELSE listed[c]]
  /\ permitted' = [c \in Tasks |->
       IF Running(c) THEN permitted[c] \/ Allows(task'[c], now')
       ELSE permitted[c] /\ ran'[c] # NoConn]

PoolStep(c) ==
  \/ ReadConfigs(c) \/ Connected(c) \/ CallTool(c) \/ ReadAllConfigs(c)
  \/ \E live \in SUBSET Tools : ListTools(c, live)

Step ==
  \/ \E c \in Tasks :
       \/ \E tier \in {"read", "write", "high_risk"} : HandleCall(c, tier)
       \/ Catalog(c) \/ Evaluate(c) \/ Checkpoint(c) \/ PoolStep(c) \/ Fail(c)
  \/ StartClose \/ CloseNext \/ CloseEnd \/ CloseRaises
  \/ \E k \in Configured, tools \in SUBSET Tools : SetAllowed(k, tools)
  \/ (ApprovalsNext /\ UNCHANGED <<config, conns, task, closer, history>>)

Next == Step /\ Observe

Spec == Init /\ [][Next]_vars

-----------------------------------------------------------------------------
(* Safety.                                                                  *)

\* Isolation: a tool runs only on a connection that was opened for the call's
\* own tenant and server, and the dictionary never holds another tenant's,
\* however tasks race to open, overwrite and close connections.
TenantIsolation ==
  /\ \A c \in Tasks : ran[c] # NoConn => opened[ran[c]] = <<task[c].tenant, task[c].server>>
  /\ \A k \in DOMAIN pool : opened[pool[k]] = k

\* A call that ran was entitled: the policy allowed it at some moment of its
\* life, and its tool was on its tenant's allow-list at some moment of its
\* life; a high-risk call never runs and no withdrawn entry lives on.  The
\* same holds of what a catalog offers, whatever the servers list.
OnlyEntitledCallsRun ==
  \A c \in Tasks :
    /\ ran[c] # NoConn => /\ permitted[c]
                          /\ <<task[c].server, task[c].tool>> \in listed[c]
    /\ offered[c] \subseteq listed[c]

\* No connection is lost: one that is open is in the dictionary, where
\* close_all finds it, unless two tasks raced to open it.
NoConnectionLost ==
  \A conn \in DOMAIN opened \ closed :
    \/ opened[conn] \in raced
    \/ opened[conn] \in DOMAIN pool /\ pool[opened[conn]] = conn
=============================================================================
