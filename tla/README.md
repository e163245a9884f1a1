# SAAP in TLA+

Models, model checks and proofs for the Python services of this repository:
an agent platform that answers chat and voice users under a compliance chain,
runs campaigns, calls tools over MCP with human approval, ingests documents and
erases them again.  Everything here is translated from the code under `src/`;
paths below are relative to it.

The hard part of this code is not any one function.  Nearly every operation is
an `async def` with several awaits over shared state (a registry, a pool, a
vector store, a table that several replicas poll), and at each await something
else runs, fails or goes away.  That is what the models keep.  Prompts, tool
arguments, embeddings, wire formats and signatures are left out or are members of
small sets; a text is a sequence of positions where offsets or boundaries matter.

## 1. The system

| component | code | state it keeps | operations | correct when |
|---|---|---|---|---|
| campaign scheduler | `saap/scheduler/flow_scheduler.py` | rows of `campaign_enrollments` (state, version, next_action_at) | tick: due, claim, has_consent, dispatch, complete / fail | no campaign is started twice, none without consent, due rows are settled |
| run registry | `saap/gateway/orchestrator.py` | `_queues`, `_tasks` | start, `_drive`, events, cancel | every stream is delivered in order and in full, ends, and the run is forgotten then |
| compliance chain | `saap/compliance/chain.py`, `consent.py`, `pii.py`, `policy.py`, `rate_limit.py`, `audit.py` | rate counters, audit rows, the envelope | wrap; run_before / run_after for the canvas | wrap() runs no refused request and the canvas gets nothing of one but the refusal, personal text leaves masked, the audit trail tells what happened |
| chat gateway | `saap/gateway/app.py`, `webchat.py`, `saap/compliance/runtime.py` | one handler per WebSocket | ws_chat, render, start through the chain | each client sees its own runs, whole and in order; no message stays unanswered |
| ingestion | `saap/ingest/pipeline.py`, `saap/plugins/memory/*` | vector store, lineage rows | sync_source, delete_source | lineage and store agree, repeated syncs store nothing twice |
| erasure | `saap/compliance/erasure.py` | audit rows, certificates, token vault | erase | a certificate is true |
| MCP tools | `saap/core/mcp.py`, `saap/langflow_components/logic/mcp_toolkit.py` | `_connections`, `_quarantined`, the allow-lists | handle_call, catalog, dispatch, close_all | tenants are isolated, only entitled calls run, no connection leaks |
| approvals | `saap/langflow_components/logic/hitl_checkpoint.py` | `_requests`, `_status` | checkpoint, resolve, expire_overdue | a request has one outcome |
| voice session | `saap/voice/session_runtime.py`, `saap/plugins/voice/piper` | barge-in flag, `is_speaking` | run_turn, notify_barge_in | no audio after a barge-in |
| listening | `saap/plugins/voice/silero`, `faster_whisper` | the detector's speech flag, an utterance buffer | process_frame, reset, stream | speech edges reported once; a transcript covers its own turn |
| PII masking, translation | `saap/compliance/pii.py`, `saap/core/i18n.py` | the token vault | mask, translate, resolve_for_tool, destroy | detected text unreadable to the model, tokens survive translation and resolve to what they stood for |
| vector stores, RAG | `saap/plugins/memory/*`, `saap/core/memory.py`, `saap/langflow_components` | tables or collections, the cache of those known to exist | upsert, search, answer, verify_grounding, respond | a tenant is answered from its own documents, grounded or not at all |
| chunker | `saap/ingest/pipeline.py` | words not yet flushed | chunk | nothing lost, overlap kept, headings respected |
| model streams, runtimes | `saap/core/llm.py`, `saap/plugins/llm/*`, `saap/gateway/langflow_runtime.py`, `dev_runtime.py` | the router's override | route, generate, stream, run | what a consumer gets is what the server sent, once, with one end |
| MCP servers | `mcp-servers/calendar`, `mcp-servers/twenty-crm` | slots, contacts, activities | book, cancel, create, log | one principal per slot, also when requests are repeated |
| other channels | `saap/gateway/webhook.py`, `matrix_whatsapp.py` | an inbound queue, rooms, secrets | listen, render, authenticate | no message lost, answered to oneself or signed with a foreign secret |
| audit trail, monitoring | `saap/compliance/audit.py`, `breach.py`, `evidence_pack.py` | hash chain, sliding window | append, verify, build pack, record | tampering with what is hashed shows; the alert fires at the threshold |
| provisioner | `saap/tenancy/provisioner.py` | external resources | plan, apply, destroy | a retry converges |
| flow linter | `tools/flow_linter/linter.py` | none | lint | a flow passes exactly if the rules, as they are coded, hold of its paths |
| release gates, plugins | `tools/license_gate`, `tools/eval_harness`, `saap/core/registry.py` | registrations and instances | scan, replay, register, resolve | no denied license ships, verdicts tell what was replayed |

`PROJECT.json` lists the rest of the parts (registries filled at start-up, HTTP
clients, data classes, DDL) with the reason each is left out.

**How they interact.**  `ws_chat` hands each message to `InterceptedRuntime`,
which passes it through the chain; the chain's inner call is `start()` of the
run registry, whose background task drives the Langflow runtime and fills the
queue that the WebSocket handler drains.  On the canvas the same chain runs in
two halves, as the first and the last node of a flow; the graph between them is not in the
repository.  Inside a flow the agent's
tool calls go through the policy guard to the MCP pool, or become approval
requests.  The scheduler starts flows from the side, from a table that all
replicas share.  Ingestion and erasure share the vector store and know nothing
of each other.  The audit log and the token vault are written by the chain and
by erasure.  The linter, the license gate and the golden transcripts stand
between a change and its deployment and meet the running system only through the
plugin registry.

**What is hard.**  Races of replicas (claim), of tasks on one event loop
(registry, pool, approvals), and of jobs on one source; a task cancelled before
its first step; a socket that dies in the middle of a stream; a store that fails
halfway through the chain; a crash between two awaits; decisions that race the
clock; state read before an await and used after it; offsets into a text that has
changed; calls repeated because a reply was lost; a call of several steps that
stops after some of them.  `PROJECT.json` lists each
such hazard at its line with the properties that would catch it.

## 2. The modules

| module | models | composed with |
|---|---|---|
| `CampaignDispatch` | what the scheduler promises: a campaign is sent at most once and its outcome is final | |
| `FlowScheduler` | the scheduler | implements `CampaignDispatch` by a refinement mapping |
| `FlowSchedulerProofs` | theorems about it | |
| `InProcessOrchestrator` | the run registry | |
| `InProcessOrchestratorProofs` | theorems about it | |
| `Gateway` | the chat gateway | extends `InProcessOrchestrator`, one generator per run, and is shown to use it as it is specified |
| `GatewayProofs` | theorems about it | extends `InProcessOrchestratorProofs` |
| `ComplianceChain` | the chain and the five interceptors `gateway/app.py` installs | |
| `ComplianceChainProofs` | theorems about it | |
| `SourceErasure` | ingestion, erasure and the vector stores they share | |
| `SourceErasureProofs` | theorems about it | |
| `Approvals` | the approval store and its callers | |
| `ToolCalls` | toolkit, policy guard and connection pool | extends `Approvals`: a call that needs a human becomes a request |
| `ToolCallsProofs` | theorems about `Approvals` and `ToolCalls` | |
| `VoiceSession` | turns of a voice session and the threads that synthesize for them | |
| `VoiceSessionProofs` | theorems about it | |
| `PiiMasking` | masking, protected translation, resolution, shredding | |
| `Chunker` | the chunker, block by block | |
| `Retrieval` | two vector stores and what is answered from them | |
| `ModelStreams` | a streamed answer from the model server to the consumer | |
| `Listening` | speech detection and transcription of concurrent turns | |
| `McpServers` | calendar and CRM under callers who repeat themselves | |
| `Channels` | WhatsApp adapter and webhook authentication | |
| `AuditTrail`, `VaultMonitor` | the hash chain and its checks; alerts on vault reads | |
| `Monitors` | both, as `breach.py` has them | extends the two |
| `Provisioning` | plan, apply and destroy of several operators | |
| `ComponentsProofs` | theorems about `Chunker`, `Retrieval`, `McpServers`, `Channels`, `Provisioning`, `ReleaseGates`, `ModelStreams`, `Listening`, `FlowLinter`, `Monitors` and `PiiMasking` | extends these, which share no state |
| `FlowLinter` | the linter's rules and graph searches | |
| `ReleaseGates` | license gate, golden transcripts, plugin registry | |
| `MCServices` | | extends `FlowScheduler` and `MCComplianceChain` |
| `MCStreams` | | extends `VoiceSession` and `InProcessOrchestrator` |
| `MCComponents` | | extends the modules from `PiiMasking` to `ReleaseGates` |
| other `MC...` | values of constants that a `.cfg` cannot write, and symmetry sets | |

The convention throughout: what a coroutine does between two awaits is one
action; the variable that says where a coroutine stands (`pc`, `phase`, `place`,
`job[j].at`, `task[c].at`) has one value per await.  Variables marked
"history" in a declaration belong to no code; properties are stated with them.
Operators whose comment begins with "Mutant" are wrong variants of the
definition that follows them, each a bug one could plausibly write there; no
specification uses them.  They record, for every property, a change of the code
that the property catches.

### FlowScheduler

`rows` is the table, `batch[s]` the rest of the `due()` snapshot that replica `s`
is working through, `claimed[s]` the object `claim()` returned.  `ClaimWins` and
`ClaimLoses` are the compare-and-swap on the version column.  `CheckConsent`,
`DispatchArrives`, `DispatchRaises`, `DispatchReturns` and `Settle` are the body
of the loop.  The POST to the campaign flow is two steps, since it may arrive
and its answer be lost: the code takes both failures for the same.
`Abort` is an exception nobody catches or a cancelled tick, `Crash` and `Restart`
are the process.  `consent` is the consent registry, changed at any time.

### InProcessOrchestrator and Gateway

`queues` and `tasks` are the keys of the two dictionaries; `queueOf[r]` is the queue
object, which readers hold on to after its key is gone.  `task[r]` follows the
asyncio life cycle, where a task that is cancelled before its first step is
dropped without entering its `try`.  A reader of `events()` waits, works on an
event, or has gone: past the sentinel, through a `KeyError`, or because its caller
left.  In `Gateway` the handler of session `s` walks through `listening`,
`admitting` (the before stages), `unwinding` (the after stages), `rendering` and
`sending`.  `events(r)` is called once for each run, by the handler that renders it,
so the generators are the runs (`GeneratorsAssumption`) and consumer `r` of the
registry is the generator of run `r`.  The decision of the chain is left open there;
`ComplianceChain` models it.

### ComplianceChain

A request takes the path `wrap` or the path `canvas`.  `ran[q]` and `todo[q]` are
the interceptors passed and those still to unwind; the same list drives both
paths.  Each interceptor is modelled by what its `before()` and `after()` do to the
shared state: the fixed window of the rate limiter (`Counted`), the policy guard's
decision by risk tier and business hours (`Evaluate`), the audit rows, the masked
content.  Two ways of failing are kept apart, as in the code: a
`ComplianceViolation` unwinds and answers, any other exception unwinds nothing
and reaches the caller.  A violation (`Violate`) means different things on the two
paths: `wrap()` unwinds at once, `run_before()` returns the envelope, refusal text and
flag, to the graph.  No node reads the flag, so the graph may run its nodes for the
refused envelope (`InnerReturns`) or send it straight to its output (`HardStop`); both
are allowed, and either way `run_after()` unwinds what ran if `AuditClose` is reached.

### SourceErasure

A job is one call of `sync_source`, `delete_source` or `erase`, and stands at one of its
awaits.  A document is the sequence of chunk texts that loader, parser and chunker make
of it; equal texts have equal content hashes.  A chunk carries the moment it was stored
and its place in the document, which is what makes its id fresh; `stamp` counts those
moments, the upserts and the tokens, up to `MaxStamp`.  `backend` picks one of the two
vector stores: pgvector's DELETE reports what it removed, Qdrant counts first and
deletes then.  `disturbed[u]` records that two jobs overlapped on `u` or one died on it;
properties that the code does not keep under overlap say so.

### ToolCalls and Approvals

A task is one `handle_call` or `catalog`.  `Evaluate` is the policy guard,
`ReadConfigs` the allow-list check of `dispatch`, `Route` and `Connected` the two
halves of `_connection_for`, with the race between them that opens two connections
for one key; `close_all` iterates the dictionary while others add to it, and Python
raises then.  Approvals: `resolve` is `GetRequest` and `Decide`, with an await in
between where another approver or the sweep may come first.

### VoiceSession

A turn is one `run_turn()`.  `at[t]` says where it stands: listening, awaiting the
dialog (`asking`), awaiting a chunk of the thread (`getting`), at its yield, or left
there by a caller who dropped the generator.  `thread[t]` and `queue[t]` are
`PiperTTS`'s worker and the queue that ends in its sentinel; `orphan[t]` is the
executor thread that a cancelled turn leaves behind in a blocking `q.get`.
`speaking` and `barge_in` are the two flags that all turns of a session share;
nothing in the code keeps a turn from starting while another one speaks, so turns
overlap.  Four histories make the promises exact: who was speaking when a barge-in
was accepted (`barged`), after whose barge-in another turn began to speak and
cleared the flag (`overruled`), who dropped something (`dropped`), and who was
speaking when another turn ended (`undercut`).  Voice activity detection and
recognition are reduced to whether an utterance was heard (`Listening` has the
rest); the latency ledger is left out.

### PiiMasking

A text is a sequence of characters that know where they come from: the n-th of
the original, the j-th of the token minted for an entity, or the sentinel that stands
for that token.  Each loop of the code is a stage, each of its iterations an action,
and `todo` holds the entities it still has to treat:

- `Mask` analyzes the text, and `MaskNext` replaces one span after the other from the
  right, by offsets into the original, and puts its token into the vault;
- `Translate` looks for tokens by the pattern, `ProtectNext` puts a sentinel where one
  stands, `ProviderReturns` is the answer of the translator, which may have lost any one
  item, and `RestoreNext` puts a token back or fails closed when its sentinel is gone;
- `ResolveForTool` looks for tokens again and `ResolveNext` puts back what the vault
  knows of them.

`DestroyAll` comes between two of these calls or while the translator is awaited; the
loops themselves never await.  A translator that repeats or invents sentinels is left
out, and so are texts that look like tokens before they are masked.

Which spans the recognizers find is free, except that one regular expression never
overlaps itself.  Two recognizers may overlap.  What comes back is then another matter:
that half of `MaskingIsReversible` (`ComesBackWhole`) excepts the case, and the run
`pii_overlap` shows why; the other half (`TokensOnce`) does not.  `ICD10` has digits in
its name, which the token pattern does not allow; such tokens are masked but neither
protected nor resolved.

### Chunker

Words are positions, so a run of words is an interval.  `TakeBlock` is one
iteration of the loop over blocks, `Cut` and `Fits` the inner loop, `EndDocument`
the last flush.  `headings` remembers where sections began.

### Retrieval

A task is one `upsert` or one question.  `Ensure` and `Create` are `_ensure_collection`
and `_ensure_table` with their cache, which a pgvector task fills before its transaction
commits (`Commit`, `Fail`); until then its table exists for nobody else, and a second
`CREATE TABLE` of the same name waits for it.  `Draft`, `VerifySentence` and `Respond`
are the grounded answer, one verifier call per sentence.  Vectors are left out:
similarity may choose any rows, at most `Limit`.

### ModelStreams

Server, client and consumer each take steps of their own: the server sends lines
and stops or breaks off, the client reads, the consumer asks on or leaves.
`Route` reads the tenant's override, which may change while the answer streams.

### Listening

`HearFrame` is one frame through `process_frame` and into the buffer of the turn
that pulled it, `Transcribed` the transcription that a full interval triggers,
`EndFrames` the flush.  `OddFrame` is a last frame of half a sample, at which
`numpy.frombuffer` raises.  All turns share one detector.

### McpServers

A request is one step, since the handlers have no await between check and write;
`arrives` is whether the caller learns the reply.  `told[a]` is what agent `a` got to
know, `journal` (history) what the servers did.

### Channels

`timeline` is the homeserver's room timeline, replies of the adapter included,
which come back as echoes.  Every `listen()` registers a further callback, and
every message goes to all of them; a callback registered while a message is being handed
out may or may not still get it (`Listen`), since that is up to the client library.  A
webhook is authenticated in two steps, between
which its client's secret may be replaced.

### AuditTrail and VaultMonitor

The hash of a row is the sequence of everything hashed into it, which makes SHA-256
collision-free and otherwise leaves it as it is.  `row_id` and `created_at` are stored
but not hashed; `unhashed` keeps them apart and records whether they still are what
`append()` made them.  `Overwrite` changes one hashed field of a stored row,
`OverwriteUnhashed` one of the others, `LoseRow` removes a row; `CheckChain` is the
detector and `BuildEvidencePack` the report.  `Resolve` of `VaultMonitor` is one call
through the monitor, with its pruning; `recent` is the deque `_recent_calls`, kept as
the set of the calls whose times are in it, so that two calls at one time are two.

### Provisioning

`built[n]` is what provisioner `n` has built.  An operator's call awaits one
provisioner after the other, upwards to apply and downwards to destroy, and any of
them may raise before or after its work.  `quiet` records that nobody with another
aim touched the resources since the call began, `contested` that such calls
overlapped.

### FlowLinter

A flow is its typed nodes, its edges and the nodes with a drifted checksum.
`LintFlow` evaluates the rules about single nodes and queues the searches that the
two path rules need; `StartSearch`, `Visit`, `Found` and `NotFound` are the loop of
the depth-first search, whose stack is a set because the code pushes successors in
the order of the edge list, which may be any.  `RulesHold` defines the rules by
walks instead of by search, as they are coded: no path from an LLM to an output avoids
every responder, and some path from a tool reaches an `AuditClose`.  The second is less
than the module's docstring promises (`linter.py:12-13`, "Every path").

### ReleaseGates

`gate` is a scan of the installed distributions, `suite` a replay of golden
transcripts, and `plugins` the plugin registry.  A license text matters to the gate
by the policy entries it contains as substrings, to the registry as a whole.

### MCComponents, MCServices and MCStreams

The parts of `MCComponents` share no state.  Its initial states pick one of them,
and `Only(p)` leaves the variables of all others as they are: the run explores the
sum of their state spaces, and every part is checked with everything it can do.
`MCStreams` does the same with the voice session and the run registry, `MCServices`
with the scheduler and the compliance chain.  The initial states of `MCServices` hold one
of each pair that differs only in which request or enrollment is which.

## 3. What is checked

`tlc -workers 2 -config X.cfg M`; each run takes from a second to about three minutes.

| run | question | result |
|---|---|---|
| `services` | do racing replicas start a campaign once, with consent, and settle every due row; does the scheduler implement `CampaignDispatch`; are the chain's stages an onion, is what the flow gets screened, personal text masked, the budget kept, are the audit rows right, is every request answered | holds |
| `scheduler_crash` | is a row that a crash left in progress retried (`migrations/versions/0001_initial_schema.py:64-66`) | no: `due()` selects pending rows only |
| `streams` | is a run's stream delivered in order, in full, to its end, and forgotten exactly then; does a barge-in silence its turn and no other, does `is_speaking` tell, is speech whole, do turns end and threads return | holds |
| `orchestrator_cancel` | does the stream of a cancelled run end (`saap/core/flow.py:60`) | no: a task cancelled before its first step never puts its sentinel |
| `chain_refusals` | does a refused request have an audit row (`saap/compliance/audit.py:5-8`) | no: the recorder is the last interceptor |
| `chain_hard_stop` | is a refused request a hard stop for the components behind the chain (`saap/compliance/chain.py:134-136`) | no: on the canvas it is an envelope with a flag that no component reads |
| `gateway` | does each client see its own runs whole and in order, is every message answered and every run released unless its session ends; is the registry used as specified | holds |
| `erasure` | do store and lineage agree, does every chunk add up, are certificates true | holds |
| `erasure_figure` | is the figure of a certificate what its erasure removed (`saap/plugins/memory/qdrant/__init__.py:145-146`) | no: Qdrant counts and deletes in two calls |
| `tools` | are tenants isolated, only entitled calls run, no connection lost, each approval decided once | holds |
| `components` | do the parts from `PiiMasking` to `ReleaseGates` in the table of modules do what each of them promises | holds |
| `pii_overlap` | does the model see placeholders only (`saap/compliance/pii.py:1`) | no: a span inside another shifts the end of the outer one |

What the passing properties say is written above each of them in the modules.
The ones worth knowing first:

- `AtMostOnceDispatch`, `DispatchNeedsLiveConsent`, `DueIsSettled`:
  the scheduler's promise, for racing replicas, revoked consent, lost answers and
  a crash.  `DueIsSettled` excepts rows whose tick died; `scheduler_crash` shows
  why it must.
- `StreamIsFifo`, `ForgottenWhenRead`: the registry also when two readers share one
  run.
- `OnionOrder`, `AuditTellsOutcome`: one description of both paths of the chain,
  for every place where it may refuse or fail.
- `FlowGetsScreened`: what the flow is given has passed all five interceptors, or is
  the mere refusal of a canvas request.  That such a request does not run at all is
  not so; `chain_hard_stop` shows it.
- `TranscriptIsFaithful`, `EveryRunReleased`: the only run left behind is
  that of a dead session.  Such a run is never cancelled and its queue stays for
  the life of the process.
- `LineageTellsStore`: what is stored is recorded, what is recorded is stored (but
  for what an erasure took), and no text is stored more often than one document has
  it, however often a source is edited, deleted and synced; for sources on which no
  calls overlapped or died.
- `DeletionsAddUp`: every chunk ever stored is still there or in exactly one
  figure, also when erasures overlap.  `CertificateHolds` is the promise to the
  person whose data it was.
- `TenantIsolation`, `OnlyEntitledCallsRun`: for calls that race with edited
  allow-lists, opened, overwritten and closed connections.
- `BargeInSilences`, `SpeechIsWhole`: a barge-in takes effect at the next chunk, and
  on the turn it was meant for.  The first excepts turns after whose barge-in another
  turn began to speak: the flag is shared, and the code clears it then.
- `MaskingIsReversible`: each token stands in one place of a text, always; and what was
  masked is unreadable through any translation until the tool, and whole there, for
  spans that do not overlap.
- `ChunksCoverDocument`: also that a phrase one word longer than the overlap is whole
  in some chunk, wherever the cuts fall.
- `AnswersStayWithTenant`: searches miss nothing that was there when they began, and
  answers rest on chunks of their own tenant, with tables created by two tasks at
  once and transactions that roll back.
- `StreamIsFaithful`: one final event, the last, with exactly the text delivered,
  and none after an error.
- `BookingsAreExact`, `RetryConverges`: calls repeated after a lost reply or a
  failure halfway.
- `InboundIsFifo`, `ListeningIsExact`: order and completeness through shared queues
  and a shared detector.
- `LintIsExact`, `ReleaseIsExact`, `MonitorsAreExact`: a checker's verdict against a
  definition of what its code checks, both ways: nothing missed, nothing reported for
  nothing.  Where its documentation promises more the definition says what the code
  does: a tool with one audited path passes the linter whatever its other paths are,
  and an overwritten `row_id` or `created_at` never raises an alert (see the
  disagreements below).  `LintIsExact` speaks of a lint that has ended; each step of a
  search takes a node it never expanded or removes one from the stack, so it does end.
- `NoConnectionLost` and `ExpiryIsExact` leave two things the code does unjudged: the
  connection lost in a race for one key, and a decision after `expires_at` that comes
  before the sweep.

Each module also states its type invariant.  Those of the scheduler, the registry, the
gateway, the chain, erasure, the tools and approvals, the voice session, the chunker and
the PII vault are proved (section 4); the others are kept in the modules as
documentation of the state, and can be added to any `.cfg`.

### Bounds

| run | instance | why it is enough |
|---|---|---|
| `services`, scheduler | 2 interchangeable rows, 2 replicas, clock 0..1, one crash or abort | every race is between two replicas over one row; the second row gives a batch something to go on with; a row is due at once, later, or never |
| `streams`, registry | 2 runs, 2 readers (both may share a run), 2 events and the error | 2 events distinguish order from loss; one sentinel and two readers are the contended case |
| `streams`, voice | 2 turns, 2 sentences and 2 chunks each | two turns overlap in every way; a barge-in falls before, between and after chunks and between sentences |
| `services`, chain | 2 interchangeable requests of all kinds, limit 1, window 2, a day of 3 ticks with 1 business tick, clock 0..2, stores of two interceptors may fail | two requests fill and exceed a budget of 1; the clock reaches the instant at which a window expires |
| `chain_refusals`, `chain_hard_stop` | 1 request of all kinds | one refused request is enough |
| `gateway` | 2 sessions, 2 runs, 1 event and the error, 2 messages each | one session can serve two runs in turn, or two sessions one each |
| `erasure` | 1 source, 2 overlapping jobs, 3 documents over two texts and an excluded one (one document repeats a text), 2 upserts or tokens, one erasure, one death | all stores are keyed by source and the code never relates two; overlap is between two jobs |
| `tools` | 2 tenants, 2 servers, 3 configured pairs, 1 tool, 2 calls, 2 approvers, 1 edit, ttl 1, clock 0..1 | a tenant with two servers, a server with two tenants and an unconfigured pair all occur |
| `pii_overlap` | a text of 5 characters, two recognizers, tokens of 2 | a span strictly inside another, with a token longer or shorter than what it replaces |

The parts of `components`:

| part | instance | why it is enough |
|---|---|---|
| linter | 4 nodes, 6 typings, every subset of 8 edges; drifted checksums on paths | cycles, two LLMs, two outputs, two tools and a missing entry all occur; a path and a detour around a sealed node need 4 nodes |
| masking | 4 characters, tokens of 2, 3 entity types, up to 2 spans anywhere | tokens shorter, as long and longer than what they replace; one type that the pattern does not know |
| chunker | up to 9 words, target 4, overlap 2 | a section is cut three times; the proofs cover the rest |
| retrieval | 2 tenants, 2 tasks, 2 chunks, limit 1, 1 sentence per answer, 1 call that raises | two tasks create one table, one of them may roll back; more matches than the limit |
| audit trail, monitor | 2 tenants, 2 rows each, 2 payloads, 1 hashed field changed, 1 unhashed field changed per tenant at a time; threshold 2, window 2, 5 reads, clock 0..6 | a changed row is the first or the last; reads leave the window one by one and at once |
| channels | 2 rooms, 1 user, 2 messages, 2 calls of `listen()`, before, between and during messages; 2 clients, 2 secrets | an echo, an unknown room, a second message and its copy for the second callback queue up behind one another; a secret is replaced before, during and after a check |
| provisioning | 2 provisioners, 2 blueprints, 2 operators, 3 calls, 1 change by hand | a call fails before, between or after, and is repeated while another is under way |
| MCP servers | 2 agents, 1 slot and a missing one, 3 requests | book, book again, cancel in every order of two callers |
| model streams | 3 lines, 2 models, 3 protocols | text before, on and behind the end mark |
| release gates | up to 2 of 3 packages, 5 licenses; up to 2 of 3 transcripts; 2 plugins, 4 calls | a text that contains another entry, unknown text and an override; the second of two replays raises; register, resolve, register, resolve |
| listening | 2 turns, partial every 2 frames, 4 frames each | a turn has two partials, the second of which must have grown; one turn ends in the middle of speech and the other goes on with the detector |

`CHECK_DEADLOCK FALSE` stands where the system may stop: all runs read, all requests
answered, all rows settled, all messages spent, all turns over.  The symmetry sets (jobs
in `SourceErasure`, calls in `ToolCalls`, tasks and tenants in `MCComponents`) are used
in runs with invariants only.

### Fairness

Weak fairness only, and only of what the program does by itself.

- Scheduler: the clock advances, `tick` is called again and again (its loop is
  external), an awaited call returns or raises, a dead replica is restarted.
  Nothing is assumed of consent, crashes or aborts.
- Registry and gateway: the event loop runs every task that is ready, the
  runtime's stream is finite, a handler goes on when what it awaits is there.
  Nothing is assumed of clients or of `cancel`.
- Chain: every awaited call of a request returns or raises.  Nothing is assumed of
  `Close`: no code makes a canvas flow reach its AuditClose node.
- Voice: the loop and the threads run, the dialog's answer and a sentence's audio
  are finite, and a caller who was given a chunk asks on, closes the generator or
  drops it, whereupon the loop finalizes it.  Nothing is assumed of listening or of
  barge-ins.
- `streams` joins the fairness of the registry and of the voice session, `services`
  that of the scheduler and of the chain, each condition restricted to the part that
  takes steps.
- Erasure, tools and the parts of `components`: safety only, no fairness.

### Disagreements with what the repository says

The six violation runs above, each with the quoted line in `PROJECT.json`.
Noted while modelling and not given a run of their own:

- `erase()` leaves the lineage rows of the source, so a later sync of the same
  content skips every chunk (`LineageTellsStore` excepts erased sources;
  `erasure.py:3` says "every retained artifact").
- A crash between `upsert` and `record` makes the next sync store the chunks again
  (`pipeline.py:209` says "Idempotent"); an overlapping sync and delete can leave
  lineage without chunks; a changed document leaves the chunks it no longer has;
  a sync that loaded before an erasure stores the content after it.
- `PIIMaskingInterceptor.resolve_for_tool` is documented as called by
  `MCPClientPool.dispatch` (`pii.py:253`); nothing calls it.
- A token of the recognizer `ICD10` does not match the pattern
  `<[A-Z_]+_[0-9a-f]{8}>` of `pii.py:260` and `i18n.py:29`: it is neither protected in
  translation nor resolved.
- A decision after `expires_at` still wins if the sweep has not come by
  (`hitl_checkpoint.py:68`; `flow.py:92` speaks of auto-deny on expiry).
- No code dispatches an approved call.
- `_connection_for` leaks a connection when two tasks open one key at once;
  `close_all` raises when the dictionary grows under it and leaves closed
  connections in the pool.
- Voice turns that overlap share both flags: the second clears a barge-in into the
  first, and the first to end lowers `is_speaking` under the other, whose audience
  can then not barge in any more (`notify_barge_in` looks at it first).
- Linter rule 3 is documented for every path from a tool and searches for one
  (`linter.py:12-13` and `195`).  A tool with an audited path and another that ends
  anywhere passes; `RulesHold` is what the code does, and `LintIsExact` holds of that.
- `verify_chain()` is documented to raise on "any row edited after the fact, no matter
  how the edit was made" (`audit.py:90-92`).  `compute_row_hash` leaves out `row_id` and
  `created_at` (`audit.py:41-45`): a row with another time passes, and so does the
  evidence pack.  `TamperingShows` has a check raise for hashed fields only, and
  `OverwriteUnhashed` changes the others under it; rows lost at the end leave no
  trace either.
- The license gate looks for policy entries as substrings, so `GPL-3.0` of its deny list
  rejects the allow-listed `AGPL-3.0`, which the plugin registry accepts
  (`saap/core/registry.py:27` says "Kept in sync").
- A golden transcript with no expected tool calls accepts any calls, so none can say
  that nothing must be called.
- `PgVectorStore` caches a table as existing before its transaction commits; after a
  rollback every later call on it fails until the process restarts.  The two stores
  do not treat a metadata filter alike.
- The verifier of a sentence is shown the whole context, not the chunk the sentence
  cites (`saap/core/memory.py:150-152`).
- SPII is excluded chunk by chunk after chunking, not block by block before it
  (`saap/ingest/pipeline.py:65-66`).
- `VaultAccessMonitor` says "fixed-window" (`breach.py:95`); its window slides.
- A last audio frame of an odd number of bytes raises and the utterance is lost; the
  detector is never reset between turns, so a turn may begin in speech.
- An overlap as large as the target makes the chunker loop; `ChunkerAssumption`
  excludes it.

## 4. What is proved

All theorems are checked by TLAPS from the modules' named assumptions on constants
and nothing else; they hold for any set of rows, replicas, runs, sessions, requests,
tenants, sources, jobs and approvers, any clock bound and any number of faults, and any
document.  The assumptions say that bounds are natural numbers, that `NoRun`, `NoTime`
and their like are none of the values they stand in for, that a limiter's window and an
approval's deadline are longer than nothing, that a write tool is a tool, and that the
gateway opens one generator per run; TLC evaluates them in every run.

**FlowSchedulerProofs.**  `AtMostOnceDispatch` is not inductive: a state in which
two replicas hold one row satisfies it and the next step breaks it.  `IInv` adds
what makes it so:

- a replica that holds a row holds a snapshot (`HolderHasRow`), the row is in
  progress, still at the version it claimed, and nobody else holds it
  (`HolderOwnsRow`): a row leaves `pending` only by a claim, which raises the
  version, and only the holder changes it after that;
- the dispatch count of a held row follows from where its holder stands
  (`DispatchFollowsHolder`);
- a row nobody has claimed was not sent, one recorded done was sent once
  (`StateMatchesDispatch`).

`IInvInit` and `IInvNext` (one lemma per action) give `Invariance`, and from it
`TypeCorrectness`, `AtMostOnce`, `StateTruth`, `Ownership` and `Finality`.
`LiveConsent` needs a second invariant, `ConsentInv`, that carries the consent
witnessed since the claim to the dispatch.  `Refinement` shows that every step
maps to a step or a stutter of `CampaignDispatch`; a settle under a version that
no longer matches would map to neither, and `HolderOwnsRow` excludes it.

**InProcessOrchestratorProofs.**  `StreamIsFifo` compares what was delivered with
what was produced and does not say what is between them.  `RegistryInv` does
(`Content`): while the task lives, what was produced is what was delivered and then the
queue; once it has ended and until the run is forgotten, the queue ends in the one
sentinel; and then nothing is left.  `Registered` ties the two dictionaries to the
task's life and to the one reader that took the sentinel.  Lemmas about sequences
(`MoveHead`, `EndingQueue`, `AppendToRest`) say what `put` and `get` do to that
equation.  `RegistryStreams` and `RegistryForgets` follow, for any number of
consumers that share a run.

**GatewayProofs.**  `StepsOfRegistry` shows that each of the gateway's actions is a step
of the registry or leaves it alone, hence `GatewayUsesOrchestrator`, and the
registry's theorems hold of it.  `TranscriptIsFaithful` needs a cursor: what a socket was
shown of a run is what the registry delivered of it, less the event that is on its way
(`Cursor`, `Shows`); a handler stands where its generator does (`Placed`); and every run
a session has begun but the last is finished (`Finished`), so the streams follow one
another (`Ordered`).

**ComplianceChainProofs.**  `ChainInv` tells one story per request: the phase, the
`before()` calls passed and the `after()` calls still due say what the whole trace is,
step by step (`Progress`, `IsShape`), what the request has been granted (`Guarded`: with
its first call its consent, with its second the mask; with a refusal its text is gone),
what may be on its way into the flow or back from it (`Admissible`: five calls passed,
or a refusal on the canvas) and which rows the audit log has of it (`Audited`).  A
canvas request that was refused may or may not have entered the flow, so a request on
the way out has either of two traces (`WentOut`).  `OnionOrder`, `FlowGetsScreened`,
`RawNeverLeaves` and `AuditTellsOutcome` are read off that story.  `WindowBudget` rests
on `Budget`: the counter of a window never lags behind those it let pass, and a new
window begins only after the old has expired, so no window is used twice.

**SourceErasureProofs.**  Three invariants over `Shapes`, which says what a job's
record holds at each of its awaits.  `Certified`: the moments of the store only grow, so
what an erasure removed of the time before it began stays removed, from the delete to
the signature and for ever after.  `Lineages`: a source that was never disturbed has at
most one job, and where that job stands says how far the lineage and the chunks are
apart (`Followed`), and how often a text is stored (`Multiplicity`).  `Figures`: the
chunks ever stored are the chunks there and those that the figures number, and each
step moves one such set of numbers (`OneMoreNumbered`, `HeldMoves`, `RowAudited`), so
that cardinalities add up without a sum over data.

**ToolCallsProofs.**  Of the approvals, `ApprovalsIInv` says that nobody was told an
outcome of a request that is still pending, and that an approver between its two
awaits remembers a request that exists.  Only a pending request is decided or expired,
and the step that does so makes it final, so the one told is the only one
(`OneWinner`); a new deadline lies after every sweep so far (`ExactExpiry`); no step
changes a final status (`FinalDecision`).  `ToolCallsUseApprovals` shows step by step
that the tool calls with their approvals implement `ApprovalsSpec`.  Of the calls,
`ToolInv` says that a task carries the connection of its own key from the await that
returned it to the await that uses it (`Carried`), that what entitles it was witnessed
during its own life (`Entitled`), that the pool maps a key to a connection of that key
(`PoolKeyed`), and that two tasks on the way to one key have been a race since the second
set out (`Racing`): so a connection that was replaced belongs to a key that was
raced for, which is `NoConnectionLost`.

**VoiceSessionProofs.**  `IInv` says of the flags (`FlagInv`) that a raised barge-in
was meant for every turn that speaks, and that it stays raised for an interrupted
turn until another turn begins to speak, so that only interrupted turns ever drop a
sentence or a chunk; of the audio (`AudioInv`) that the queue of
a turn in a sentence holds exactly the chunks synthesized and not yet heard, with
the sentinel behind them once the thread has ended (`HoldsRest`), and that a turn
between sentences has nothing outstanding.  Four lemmas about sequences (`TakeChunk`,
`TakeEnd`, `AddChunk`, `AddEnd`) say that the operations on the queue keep
`HoldsRest`; the flags are proved over five kinds of step instead of nineteen
actions (`FlagSteps`).  `SpeakingFlag`, `WholeSpeech` and `Silence` follow.

**ComponentsProofs.**  Eleven components, each with an inductive invariant of its own.

*Chunker.*  `ChunksCoverDocument` speaks of finished documents.
`ChunkerInv` says what the buffer owes meanwhile: it begins in the current section
(`HeldIsCurrent`), holds at least the overlap unless a section has just begun
(`OverlapHeld`), and every short enough phrase read so far is in a chunk or begins
in the buffer (`CoveredOrHeld`); at the end of a block fewer words than the target are
left (`HeldFits`), so the last flush is a legal chunk.  `ChunkerCoverage` follows for
every document, target and overlap below it.

*Retrieval.*  Every row lies in its tenant's collection (`RowsInPlace`), so a search
matches exactly the rows of its tenant and filter whether tenants share a collection
or not (`MatchesOwn`).  Rows only grow here, hence what a search found and what it could
expect stay so until it is answered (`FoundOwn`), and an answer under verification has
passed only what its chunks say (`PassedGrounded`).  `OperationStep` reduces each action to
the record of its one task.

*Provisioning.*  A call that was left alone has done or told what it wants of every
resource it passed (`DoneAsTold`); as long as no two aims overlapped, all who write at
one time write the same, and what exists is downward closed (`OneAim`).
`OthersAfterWork` and `AimAfterWork` say what one write does to the calls of others and
to the tower of resources, for a provisioner that succeeds and one that raises after
its work.  The bound `CallsMade` is never expanded.

*McpServers.*  `Succeeded` of the journal is the only history there is, so the invariant
ties the servers' state to it: a slot is held by whoever booked it after the last
cancellation (`HeldByLast`), two bookings have a cancellation between them
(`OneAtATime`), a reply holds as long as it is not overtaken (`ReplyHolds`), and a timeline
is the successes of its contact in order (`Timeline`).  `ExecuteFacts` says once how a
request makes the journal longer.

*Channels.*  `Queued` counts how often a message is in the queue: as often as callbacks
existed, and the one being handed out at most as often as callbacks had it. A callback
that joins while a message is handed out adds one to both sides or to the callbacks
only.  `Answered` counts replies: those sent and those still to come are no more than
the inbound events of the room, so rendering moves one from the second number to the
first.  `Signed` keeps the secret a webhook is checked with among those its client had
meanwhile.

*ReleaseGates.*  Three parts that never meet.  A verdict was given at the first place of
each name among the distributions scanned, and an exit code follows from the verdicts
(`Scanning`).  The results of the suite are those of its transcripts, one by one
(`Replayed`); `FailuresAreExact` shows that the list of failures is empty exactly if the
outcome is as its transcript asks, call by call.  What the registry handed out for a key
is one instance from one registration to the next (`HandedOutOnce`), which relates every
two entries of the history.

*ModelStreams.*  The events are told by their positions: those that are tokens carry the
texts of the lines read, each once and in order (`TokensExact`), the reader never passes
an end mark (`ReadSoFar`), and a final event is the last and joins what lies before it
(`FinalsExact`).  The invariant keeps `taken` apart from what the server has written
meanwhile, so it holds for a client arbitrarily far behind.

*Listening.*  The detector's state is a function of the frames it heard, and what it
returned are the edges among them (`Detecting`), although all turns share it and any of
them may `reset()` it.  A turn's last partial that was due ended on a whole interval
(`Paced`, where whole multiples are written with `\E`, and `IntervalFacts` leads from
there to `%`).

*FlowLinter.*  A finding is there exactly for the searches that were made and should have
one (`FindingsSoFar`).  For the search under way `SearchSound` says both halves: every set
of nodes that a walk to the targets cannot leave contains what was visited and stacked
(so what is found can be reached), and what was visited leads only to what was visited or
is on the stack (so with an empty stack the visited nodes are such a set, and a target
outside it cannot be reached).  `WalkToOne` joins the searches for each output to the one
promise about all outputs; `LintExact` adds the finding of a tool from which nothing
leads to an `AuditClose`.  The nodes of a flow are assumed to be finitely many.

*AuditTrail.*  Everything here is about the hashed fields; the others do not occur in
what a check computes.  The chain holds up to a row exactly as far as the trail is what
was appended (`ChainTells`, for every prefix).  A hash is at least as long as its row's
place and, in what was appended, at most (`HashLengths`): so a row that moved up because
another was lost never fits, whatever is appended behind it.  A row changed in one field
loses its own hash (`ChangedRow`).  `MonitorsExact` joins this with the next.

*VaultMonitor.*  What has been pruned lies outside the window of every later call
(`MonitorInv`), so the alerts are those of the full history.  For a window of no length
the property must count the call itself, as the code does by appending before it
compares.

*PiiMasking.*  What a chain of substitutions makes of a text is told by one boundary and
not by a fold.  While the loop of `_mask()` runs there is a place `b` up to which the
text is still the original, every span to come ends before it, and every span done
begins behind it and has its token there (`UntouchedUpTo`): so the stale offsets of the
next span are right, and this is where spans that overlap, or a loop from the left,
would break it.  From then on the invariant says per loop which of its tokens are
whole (`ProtectStage`, `RestoreStage`, `ResolveStage`) and whose characters the text
still lacks (`Unread`).  `SpliceKeeps` and its neighbours say once what a substitution
leaves alone: an occurrence of another token lies wholly before or wholly behind it,
since no two tokens share a character.  Two substitutions may not join what was apart
either, and that needs no assumption about spans: `OnceInv` says of every text, also
when spans overlap and tokens were cut, that each character of a token stands in one
place and that no entity has a token and a sentinel at one time, so a form put in
takes the place of all there was of its entity (`FormStep`).  `MaskingReversible` joins
the two invariants, for texts of any length, tokens of any width and any recognizers.

**Only model-checked.**  The liveness properties: `DueIsSettled`, `StreamEnds`,
`SpeechEnds`, `EveryRequestAnswered`, `EveryMessageAnswered` and `EveryRunReleased`
(TLAPS has no rule for `ENABLED` here).  Every safety invariant, action property and
refinement that a passing run checks is stated by a theorem.  Where a module with theorems
uses a recursive definition it is only in a bound (`FromUsers` of `Channels`, `CallsMade`
of `Provisioning`) and no proof expands it.  `TamperingShows` says nothing of a trail in
which two fields were overwritten: with the payload and the hash of its last row both
changed a trail is consistent again, the chain has no key.  Nor do the theorems about
monitors and linter say that the documentation is met: they say what the code detects.

## 5. What is not modelled

- **By choice**: token decoding and claim mapping of the gateway's authentication,
  HTTP clients, similarity search, audio signal processing, rendering, DDL, Rego and
  compose files: one-shot I/O or arithmetic without state.  The vertical packs are
  such arithmetic, billing is one HTTP call per event, the SQL guard a filter on the
  text of a query.  Data classes, protocols and test doubles have no behaviour of
  their own.
- **Without a caller or a body**: `resume()` raises `NotImplementedError`;
  `set_pipeline_stage` of the CRM server overwrites a field nobody reads;
  `upsert_flow()` and `health()` are single requests.
- **Left open**: what the runtime's stream contains, what tools answer, in which
  order a dictionary lists its keys, when consent, documents and allow-lists
  change.  The models allow all of it.

## 6. Plan

Everything planned is there: the models, the runs, and a theorem for every safety
property of a passing run.  What could be added is, of the audit trail, what a change of
two fields can and cannot hide, and a translator that repeats a sentinel.
