----------------------------- MODULE FlowLinter -----------------------------
(***************************************************************************)
(* The flow linter (tools/flow_linter/linter.py): five rules over the      *)
(* graph of an exported canvas.  Two of them search the graph, depth first *)
(* with a stack and a visited set; the loop is modelled step by step.      *)
(* Rules that look at one node at a time are evaluated at once.  A flow    *)
(* carries what the rules read: the type of each node, the edges and the   *)
(* nodes whose checksum is not the pinned one.  Edges may form cycles.     *)
(***************************************************************************)
EXTENDS FiniteSets, Naturals

CONSTANTS
  Nodes,      \* ids of canvas nodes
  Flows,      \* the exported flows: [type, edges, drifted]
  Pinned,     \* component types the pin file has a checksum for
  Nothing     \* no flow, search or node

ASSUME FlowAssumption ==
  /\ Nothing \notin Flows /\ IsFiniteSet(Nodes)
  /\ \A f \in Flows :
       /\ DOMAIN f.type = Nodes
       /\ f.edges \subseteq Nodes \X Nodes
       /\ f.drifted \subseteq Nodes

VARIABLES
  flow,       \* the flow being linted
  searches,   \* the searches rules 2 and 3 have not made yet
  search,     \* the search under way
  visited, stack,
  findings    \* pairs of a rule and the node it names

linterVars == <<flow, searches, search, visited, stack, findings>>

LLMTypes == {"ModelRouterLLM", "Agent", "AgentComponent"}
RawTypes == {"HTTPRequest", "APIRequest", "PythonREPL", "PythonCodeTool",
             "CustomComponent", "Webhook"}
SealedTypes == {"ComplianceIngress", "GroundedResponder", "MCPToolkit",
                "HITLCheckpoint", "AuditClose"}

NodesOfType(f, types) == {n \in Nodes : f.type[n] \in types}
Successors(f, n) == {m \in Nodes : <<n, m>> \in f.edges}
Predecessors(f, n) == {m \in Nodes : <<m, n>> \in f.edges}

-----------------------------------------------------------------------------
(* The rules that need no search.                                           *)

\* Rule 1: nothing, several, or one that is not an entry.
IngressFindings(f) ==
  LET entries == NodesOfType(f, {"ComplianceIngress"}) IN
    IF entries = {} THEN {<<"missing_compliance_ingress", Nothing>>}
    ELSE IF Cardinality(entries) > 1 THEN {<<"multiple_compliance_ingress", Nothing>>}
    ELSE {<<"compliance_ingress_not_entry", n>> : n \in {m \in entries : Predecessors(f, m) # {}}}

\* Rules 4 and 5.
RawFindings(f) == {<<"disallowed_component", n>> : n \in NodesOfType(f, RawTypes)}
ChecksumFindings(f) ==
  {<<"sealed_checksum_mismatch", n>> :
     n \in NodesOfType(f, SealedTypes \cap Pinned) \cap f.drifted}

\* Rule 2: one search per LLM and output, which a GroundedResponder stops, and
\* which ought to find nothing.  Rule 3: one per tool, for any AuditClose.
OutputSearch(f, l, o) ==
  [rule |-> "ungrounded_output_path", start |-> l, targets |-> {o},
   mustPass |-> NodesOfType(f, {"GroundedResponder"})]
ToolSearch(f, t) ==
  [rule |-> "tool_path_missing_audit_close", start |-> t,
   targets |-> NodesOfType(f, {"AuditClose"}), mustPass |-> {}]
OutputSearches(f) ==
  {OutputSearch(f, l, o) : l \in NodesOfType(f, LLMTypes), o \in NodesOfType(f, {"ChatOutput"})}
ToolSearches(f) == {ToolSearch(f, t) : t \in NodesOfType(f, {"MCPToolkit"})}
SearchesOf(f) == OutputSearches(f) \cup ToolSearches(f)

ASSUME SearchAssumption == \A f \in Flows : Nothing \notin SearchesOf(f)

-----------------------------------------------------------------------------
LinterInit ==
  /\ flow = Nothing /\ searches = {} /\ search = Nothing
  /\ visited = {} /\ stack = {} /\ findings = {}

\* lint_flow() of one exported flow.
LintFlow(f) ==
  /\ flow = Nothing
  /\ flow' = f
  /\ searches' = SearchesOf(f)
  /\ findings' = IngressFindings(f) \cup RawFindings(f) \cup ChecksumFindings(f)
  /\ UNCHANGED <<search, visited, stack>>

\* Mutant: one visited set serves all searches of a lint.
StartSearchOnce(q) ==
  /\ search = Nothing /\ q \in searches
  /\ search' = q /\ searches' = searches \ {q}
  /\ stack' = {q.start}
  /\ UNCHANGED <<flow, findings, visited>>

\* _exists_bypassing_path() or _can_reach_any() is called.
StartSearch(q) ==
  /\ search = Nothing /\ q \in searches
  /\ search' = q /\ searches' = searches \ {q}
  /\ visited' = {} /\ stack' = {q.start}
  /\ UNCHANGED <<flow, findings>>

\* One turn of the loop: a node that is no target and was not seen before is
\* expanded, except into nodes that must be passed.  The order of the stack is
\* that of the edge list, which may be any.
Visit(n) ==
  /\ search # Nothing /\ n \in stack /\ n \notin search.targets
  /\ IF n \in visited
     THEN stack' = stack \ {n} /\ UNCHANGED visited
     ELSE /\ stack' = (stack \ {n}) \cup (Successors(flow, n) \ search.mustPass)
          /\ visited' = visited \cup {n}
  /\ UNCHANGED <<flow, searches, search, findings>>

\* Rule 2 reports what it found, rule 3 what it did not find.
EndSearch(found) ==
  /\ search' = Nothing
  /\ findings' = IF found <=> search.rule = "ungrounded_output_path"
                 THEN findings \cup {<<search.rule, search.start>>}
                 ELSE findings
  /\ UNCHANGED <<flow, searches, visited, stack>>

\* A target comes off the stack, or the stack is empty.
Found ==
  /\ search # Nothing /\ stack \cap search.targets # {}
  /\ EndSearch(TRUE)

NotFound ==
  /\ search # Nothing /\ stack = {}
  /\ EndSearch(FALSE)

LinterNext ==
  \/ \E f \in Flows : LintFlow(f)
  \/ \E q \in searches : StartSearch(q)
  \/ \E n \in Nodes : Visit(n)
  \/ Found
  \/ NotFound

-----------------------------------------------------------------------------
(* What a report means.                                                     *)

Linted == flow # Nothing /\ searches = {} /\ search = Nothing

\* main(): the exit code for one flow.
LinterExit == IF findings = {} THEN 0 ELSE 1

\* A walk from a node to some target that keeps off the nodes in `avoid`
\* (its first node excepted): every set that is closed under such steps and
\* holds the first node meets the targets.
Walk(f, from, targets, avoid) ==
  \A C \in SUBSET Nodes :
    /\ from \in C
    /\ \A n \in C \ targets : Successors(f, n) \ avoid \subseteq C
    => C \cap targets # {}

\* The five rules as the linter applies them (linter.py:146-233).  Rule 3 is what
\* its finding says, "no path from tool-bearing component ... to any AuditClose
\* node".  The module's docstring asks for more, "Every path from a tool-bearing
\* component (`MCPToolkit`) reaches an `AuditClose` node" (linter.py:12-13): a flow
\* with a second path from a tool that nothing audits satisfies this definition.
RulesHold(f) ==
  /\ \E n \in Nodes : NodesOfType(f, {"ComplianceIngress"}) = {n} /\ Predecessors(f, n) = {}
  /\ \A l \in NodesOfType(f, LLMTypes), o \in NodesOfType(f, {"ChatOutput"}) :
       ~ Walk(f, l, {o}, NodesOfType(f, {"GroundedResponder"}))
  /\ \A t \in NodesOfType(f, {"MCPToolkit"}) : Walk(f, t, NodesOfType(f, {"AuditClose"}), {})
  /\ \A n \in Nodes : /\ f.type[n] \notin RawTypes
                      /\ f.type[n] \in SealedTypes \cap Pinned => n \notin f.drifted

\* The two searches are exact on every graph, cycles and several LLMs, outputs and
\* tools included: a node is named for an ungrounded output exactly if it is an
\* LLM with some path to an output that passes no responder, and for a missing
\* audit exactly if it is a tool that no path leads from to an AuditClose; and
\* the linter exits with 0 exactly if its rules hold.  What it does not tell is
\* whether each path from a tool is audited: one that is suffices.
LintIsExact ==
  Linted =>
    /\ LinterExit = 0 <=> RulesHold(flow)
    /\ \A n \in Nodes :
         /\ <<"ungrounded_output_path", n>> \in findings <=>
              /\ flow.type[n] \in LLMTypes
              /\ Walk(flow, n, NodesOfType(flow, {"ChatOutput"}),
                      NodesOfType(flow, {"GroundedResponder"}))
         /\ <<"tool_path_missing_audit_close", n>> \in findings <=>
              /\ flow.type[n] = "MCPToolkit"
              /\ ~ Walk(flow, n, NodesOfType(flow, {"AuditClose"}), {})
=============================================================================
