---------------------------- MODULE MCComponents ----------------------------
(***************************************************************************)
(* The components that share no state with another, checked in one run: a  *)
(* behaviour picks a part of the system, and only that part takes steps.   *)
(* The values of the constants are in the .cfg file or below.              *)
(***************************************************************************)
EXTENDS FlowLinter, PiiMasking, Chunker, Retrieval, Monitors,
        Channels, Provisioning, McpServers, ModelStreams, ReleaseGates,
        Listening, TLC

VARIABLE part

Parts == {"linter", "pii", "chunker", "retrieval", "audit", "monitor", "whatsapp",
          "webhook", "provisioning", "servers", "streams", "gate", "suite", "registry",
          "listening"}

\* Only part p takes a step.
Only(p) ==
  /\ part = p /\ UNCHANGED part
  /\ IF p = "linter" THEN TRUE ELSE UNCHANGED linterVars
  /\ IF p = "pii" THEN TRUE ELSE UNCHANGED piiVars
  /\ IF p = "chunker" THEN TRUE ELSE UNCHANGED chunkerVars
  /\ IF p = "retrieval" THEN TRUE ELSE UNCHANGED retrievalVars
  /\ IF p = "audit" THEN TRUE ELSE UNCHANGED auditVars
  /\ IF p = "monitor" THEN TRUE ELSE UNCHANGED monitorVars
  /\ IF p \in {"whatsapp", "webhook"} THEN TRUE ELSE UNCHANGED channelVars
  /\ IF p = "provisioning" THEN TRUE ELSE UNCHANGED provisionVars
  /\ IF p = "servers" THEN TRUE ELSE UNCHANGED mcpServerVars
  /\ IF p = "streams" THEN TRUE ELSE UNCHANGED modelStreamVars
  /\ IF p \in {"gate", "suite", "registry"} THEN TRUE ELSE UNCHANGED releaseVars
  /\ IF p = "listening" THEN TRUE ELSE UNCHANGED listeningVars

ComponentsInit ==
  /\ part \in Parts
  /\ LinterInit /\ PiiInit /\ ChunkerInit /\ RetrievalInit /\ AuditInit
  /\ MonitorInit /\ ChannelInit /\ ProvisioningInit /\ McpServersInit
  /\ ModelStreamsInit /\ ReleaseInit /\ ListeningInit
  \* Only the stream needs to choose.
  /\ part # "streams" => provider = "ollama"

\* The actions of each part's own Next.
ComponentsNext ==
  \/ Only("linter") /\ \E f \in Flows : LintFlow(f)
  \/ Only("linter") /\ \E q \in searches : StartSearch(q)
  \/ Only("linter") /\ \E n \in Nodes : Visit(n)
  \/ Only("linter") /\ Found
  \/ Only("linter") /\ NotFound
  \/ Only("pii") /\ \E E \in Analyses : Mask(E)
  \/ Only("pii") /\ \E e \in todo : MaskNext(e)
  \/ Only("pii") /\ Translate
  \/ Only("pii") /\ \E e \in todo : ProtectNext(e)
  \/ Only("pii") /\ \E k \in 0..Len(text) : ProviderReturns(k)
  \/ Only("pii") /\ \E e \in todo : RestoreNext(e)
  \/ Only("pii") /\ ResolveForTool
  \/ Only("pii") /\ \E e \in todo : ResolveNext(e)
  \/ Only("pii") /\ DestroyAll
  \/ Only("chunker") /\ \E n \in 1..DocumentWords, isHeading \in BOOLEAN :
       TakeBlock(n, isHeading)
  \/ Only("chunker") /\ Cut
  \/ Only("chunker") /\ Fits
  \/ Only("chunker") /\ EndDocument
  \/ Only("retrieval") /\ \E kind \in {"qdrant", "pgvector"}, perTenant \in BOOLEAN :
       Configure(kind, perTenant)
  \/ Only("retrieval") /\ \E t \in Tasks, tenant \in Tenants, chunk \in Chunks :
       StartUpsert(t, tenant, chunk)
  \/ Only("retrieval") /\ \E t \in Tasks, tenant \in Tenants, filter \in Filters :
       StartRetrieve(t, tenant, filter)
  \/ Only("retrieval") /\ \E t \in Tasks : Ensure(t)
  \/ Only("retrieval") /\ \E t \in Tasks : Create(t)
  \/ Only("retrieval") /\ \E t \in Tasks : ExecuteFails(t)
  \/ Only("retrieval") /\ \E t \in Tasks : ExecuteUpsert(t)
  \/ Only("retrieval") /\ \E t \in Tasks : ExecuteSearch(t)
  \/ Only("retrieval") /\ \E t \in Tasks : Commit(t)
  \/ Only("retrieval") /\ \E t \in Tasks : Fail(t)
  \/ Only("retrieval") /\ \E t \in Tasks, sentences \in Drafts : Draft(t, sentences)
  \/ Only("retrieval") /\ \E t \in Tasks : VerifySentence(t)
  \/ Only("retrieval") /\ \E t \in Tasks : Respond(t)
  \/ Only("retrieval") /\ \E t \in Tasks : Return(t)
  \/ Only("audit") /\ \E tenant \in AuditTenants, payload \in Payloads :
       AppendToTrail(tenant, payload)
  \/ Only("audit") /\ \E tenant \in AuditTenants :
       \E i \in DOMAIN trail[tenant] : \E row \in ChangesOf(tenant, i) :
       Overwrite(tenant, i, row)
  \/ Only("audit") /\ \E tenant \in AuditTenants :
       \E i \in DOMAIN trail[tenant], field \in UnhashedFields :
       OverwriteUnhashed(tenant, i, field)
  \/ Only("audit") /\ \E tenant \in AuditTenants : \E i \in DOMAIN trail[tenant] :
       LoseRow(tenant, i)
  \/ Only("audit") /\ \E tenant \in AuditTenants : CheckChain(tenant)
  \/ Only("audit") /\ \E tenant \in AuditTenants : BuildEvidencePack(tenant)
  \/ Only("monitor") /\ Resolve
  \/ Only("monitor") /\ PassTime
  \/ Only("whatsapp") /\ \E room \in Rooms, sender \in Users : Write(room, sender)
  \/ Only("whatsapp") /\ \E room \in Rooms : RegisterRoom(room)
  \/ Only("whatsapp") /\ Listen
  \/ Only("whatsapp") /\ TakeMessage
  \/ Only("whatsapp") /\ OnOwnMessage
  \/ Only("whatsapp") /\ ResolveRoom
  \/ Only("whatsapp") /\ PutInbound
  \/ Only("whatsapp") /\ \E kinds \in {<<"token", "final">>, <<"error">>} : YieldInbound(kinds)
  \/ Only("whatsapp") /\ \E a \in answering : RenderEvent(a)
  \/ Only("webhook") /\ \E client \in Clients, s \in Secrets : Post(client, s)
  \/ Only("webhook") /\ \E client \in Clients, s \in Secrets : Rotate(client, s)
  \/ Only("webhook") /\ ResolveClient
  \/ Only("webhook") /\ Verify
  \/ Only("provisioning") /\ \E o \in Operators, b \in Blueprints : BeginCall(o, "plan", b)
  \/ Only("provisioning") /\ \E o \in Operators, b \in Blueprints : BeginCall(o, "apply", b)
  \/ Only("provisioning") /\ \E o \in Operators : BeginCall(o, "destroy", Absent)
  \/ Only("provisioning") /\ \E o \in Operators : ProvisionNext(o)
  \/ Only("provisioning") /\ \E o \in Operators, worked \in BOOLEAN : ProvisionRaises(o, worked)
  \/ Only("provisioning") /\ \E o \in Operators : ProvisionReturns(o)
  \/ Only("provisioning") /\ \E n \in Resources : ChangeByHand(n)
  \/ Only("servers") /\ \E a \in Agents, s \in Slots \cup {NoSuchSlot}, arrives \in BOOLEAN :
       BookSlot(a, s, arrives)
  \/ Only("servers") /\ \E a \in Agents, s \in Slots \cup {NoSuchSlot}, arrives \in BOOLEAN :
       CancelSlot(a, s, arrives)
  \/ Only("servers") /\ \E a \in Agents : CreateContact(a)
  \/ Only("servers") /\ \E a \in Agents : \E k \in 1..contacts + 1 : LogActivity(a, k)
  \/ Only("streams") /\ \E tag \in ModelTags \cup {DefaultModel} : SetOverride(tag)
  \/ Only("streams") /\ \E ok \in BOOLEAN : Route(ok)
  \/ Only("streams") /\ \E reply \in {"text", "blank", "malformed"} : Generate(reply)
  \/ Only("streams") /\ \E kind \in Lines : ServerSends(kind)
  \/ Only("streams") /\ \E how \in {"closed", "broken"} : ServerStops(how)
  \/ Only("streams") /\ ReadEndMark
  \/ Only("streams") /\ ReadLine
  \/ Only("streams") /\ AskMore
  \/ Only("streams") /\ EndOfStream
  \/ Only("streams") /\ BreakOfStream
  \/ Only("streams") /\ ConsumerLeaves
  \/ Only("gate") /\ \E strict \in BOOLEAN, installed \in UpTo(MaxInstalled, Distribution) :
       StartScan(strict, installed)
  \/ Only("gate") /\ ScanNext
  \/ Only("gate") /\ ExitGate
  \/ Only("suite") /\ \E goldens \in UpTo(MaxGoldens, Goldens) : StartSuite(goldens)
  \/ Only("suite") /\ \E outcome \in Outcomes : Replay(outcome)
  \/ Only("suite") /\ ReplayRaises
  \/ Only("suite") /\ EndSuite
  \/ Only("registry") /\ \E k \in PluginKeys, license \in Licenses : Register(k, license)
  \/ Only("registry") /\ \E k \in PluginKeys, works \in BOOLEAN : ResolvePlugin(k, works)
  \/ Only("listening") /\ \E t \in ListeningTurns, speech \in BOOLEAN : HearFrame(t, speech)
  \/ Only("listening") /\ \E t \in ListeningTurns, words \in BOOLEAN : Transcribed(t, words)
  \/ Only("listening") /\ \E t \in ListeningTurns : OddFrame(t)
  \/ Only("listening") /\ \E t \in ListeningTurns : EndFrames(t)
  \/ Only("listening") /\ ResetVAD

componentsVars ==
  <<part, linterVars, piiVars, chunkerVars, retrievalVars, auditVars, monitorVars,
    channelVars, provisionVars, mcpServerVars, modelStreamVars, releaseVars, listeningVars>>

\* The callers of a part can be interchanged, and so can the tenants; the same
\* values serve in all parts.
Interchangeable == Permutations(Tasks) \cup Permutations(Tenants)

ComponentsSpec == ComponentsInit /\ [][ComponentsNext]_componentsVars

-----------------------------------------------------------------------------
(* Values of constants.                                                     *)

\* Six typings of four nodes: the canvas as it ought to be, an LLM past the
\* responder, a tool beside a raw component, two outputs, two tools, and one
\* without an entry; with every subset of eight edges.
CONSTANTS n1, n2, n3, n4
MCNodes == {n1, n2, n3, n4}
Typing(a, b, c, d) == (n1 :> a) @@ (n2 :> b) @@ (n3 :> c) @@ (n4 :> d)
MCTypings == {
  Typing("ComplianceIngress", "Agent", "GroundedResponder", "ChatOutput"),
  Typing("ComplianceIngress", "Agent", "ModelRouterLLM", "ChatOutput"),
  Typing("ComplianceIngress", "MCPToolkit", "AuditClose", "PythonREPL"),
  Typing("ComplianceIngress", "Agent", "ChatOutput", "ChatOutput"),
  Typing("ComplianceIngress", "MCPToolkit", "MCPToolkit", "AuditClose"),
  Typing("Agent", "GroundedResponder", "ChatOutput", "ChatInput")}
MCEdges == {<<n1, n2>>, <<n2, n3>>, <<n2, n4>>, <<n3, n4>>,
            <<n3, n2>>, <<n1, n3>>, <<n2, n1>>, <<n4, n1>>}
MCFlows == [type : MCTypings, edges : SUBSET MCEdges, drifted : {{}}]
             \cup [type : MCTypings, edges : SUBSET {<<n1, n2>>, <<n2, n3>>, <<n3, n4>>},
                   drifted : {{n1}, {n2}}]

\* Recognizers of which the token pattern knows all but ICD10, and all that any
\* two of their matches can be.
MCRecognizers == <<"IN_UPI_VPA", "IN_PHONE", "ICD10">>
MCSpans == {e \in Entity : e.start < e.end}
MCAnalyses ==
  {{}} \cup {E \in {{e, f} : e, f \in MCSpans} :
              \A e, f \in E : e # f /\ e.type = f.type => ~ Overlap(e, f)}

\* No filter, or one that a single chunk matches.
MCFilters == {Chunks, {CHOOSE c \in Chunks : TRUE}}

MCContained ==
  [l \in Licenses |-> CASE l = "MIT"      -> {"MIT"}
                        [] l = "AGPL-3.0" -> {"AGPL-3.0", "GPL-3.0"}
                        [] l = "LGPL-2.1" -> {"LGPL"}
                        [] OTHER          -> {}]
ToolCall(name, args) == [name |-> name, args |-> args]
MCGoldens == {
  [contains |-> {"hi"}, avoids |-> {}, calls |-> <<>>, grounded |-> AnyValue],
  [contains |-> {}, avoids |-> {"hi"}, calls |-> <<ToolCall("book", AnyValue)>>, grounded |-> "yes"],
  [contains |-> {}, avoids |-> {}, grounded |-> AnyValue,
   calls |-> <<ToolCall("book", "x"), ToolCall("log", AnyValue)>>]}
MCOutcomes == [
  says : SUBSET {"hi"}, grounded : {"yes", "no"},
  calls : {<<>>, <<ToolCall("book", "x")>>, <<ToolCall("book", "x"), ToolCall("log", "y")>>,
           <<ToolCall("log", "y"), ToolCall("book", "x")>>,
           <<ToolCall("book", "y"), ToolCall("log", "y")>>}]
=============================================================================
