---------------------------- MODULE ModelStreams ----------------------------
(***************************************************************************)
(* A streamed answer, line by line from the model server to the consumer   *)
(* of a run: the Ollama and vLLM providers under DirectOllamaRuntime, and  *)
(* LangflowRuntime (saap/plugins/llm, saap/gateway).  The server may stop  *)
(* or break after any line and the consumer may leave at any event.  The   *)
(* model is the one the router finds when the call is made                 *)
(* (saap/core/llm.py): an override may be set while it streams.            *)
(***************************************************************************)
EXTENDS Naturals, Sequences

CONSTANTS
  ModelTags,     \* model tags a tenant may pin
  DefaultModel,  \* the deployment's default_models[profile]
  MaxLines       \* bound on the lines of an answer

ASSUME LinesAssumption == MaxLines \in Nat

VARIABLES
  override,  \* TenantModelPolicy of the tenant: a tag, or DefaultModel for none
  model,     \* the model the call was made with
  provider,  \* "ollama", "vllm" or "langflow"
  line,      \* history: the lines the server has sent
  taken,     \* how many of them the client has read
  server,    \* "silent", "streaming", "closed" or "broken"
  stream,    \* where the generator is
  emitted    \* the events handed to the consumer

modelStreamVars == <<override, model, provider, line, taken, server, stream, emitted>>

Providers == {"ollama", "vllm", "langflow"}
\* A line with text, one to be skipped, one that is no JSON, and the end mark
\* of each protocol: Ollama's may carry the last text.
Lines == {"text", "blank", "malformed", "done", "text and done"}

ModelStreamsInit ==
  /\ override = DefaultModel /\ model = DefaultModel
  /\ provider \in Providers
  /\ line = <<>> /\ taken = 0
  /\ server = "silent" /\ stream = "created" /\ emitted = <<>>

HasText(kind) == kind \in {"text", "text and done"}

\* A row of TenantModelPolicy.
SetOverride(tag) ==
  /\ tag # override
  /\ override' = tag
  /\ UNCHANGED <<model, provider, line, taken, server, stream, emitted>>

\* route(), unless the flow has its own model, and the request: raise_for_status() may raise.
Route(accepted) ==
  /\ stream = "created"
  /\ model' = IF provider = "langflow" THEN model ELSE override
  /\ server' = IF accepted THEN "streaming" ELSE "closed"
  /\ stream' = IF accepted THEN "reading" ELSE "raised"
  /\ UNCHANGED <<override, provider, line, taken, emitted>>

\* generate(): one request and one reply, whose text may be missing, or an
\* error of the server, of the connection or of the reply's JSON.
Generate(reply) ==
  /\ stream = "created" /\ provider # "langflow"
  /\ model' = override
  /\ IF reply \in {"text", "blank"}
     THEN /\ stream' = "completed"
          /\ emitted' = <<[kind |-> "completion", text |-> IF HasText(reply) THEN <<1>> ELSE <<>>]>>
     ELSE stream' = "raised" /\ UNCHANGED emitted
  /\ UNCHANGED <<override, provider, line, taken, server>>

ServerSends(kind) ==
  /\ server = "streaming" /\ Len(line) < MaxLines
  /\ kind = "text and done" => provider = "ollama"
  /\ line' = Append(line, kind)
  /\ UNCHANGED <<override, model, provider, taken, server, stream, emitted>>

ServerStops(how) ==
  /\ server = "streaming"
  /\ server' = how
  /\ UNCHANGED <<override, model, provider, line, taken, stream, emitted>>

-----------------------------------------------------------------------------
EndMark(kind) == provider # "langflow" /\ kind \in {"done", "text and done"}

TokenEvent(n) == [kind |-> "token", text |-> <<n>>]
Joined(tokens) == [k \in DOMAIN tokens |-> Head(tokens[k].text)]

\* DirectOllamaRuntime's last event, after tokens only, is their text in one;
\* LangflowRuntime has none of its own.
Finished(events) ==
  IF provider = "langflow" THEN events
  ELSE Append(events, [kind |-> "final", text |-> Joined(events)])

\* Mutant: the end mark is looked for before the text of its line.
EndsBeforeText ==
  LET kind == line[taken + 1] IN
  /\ stream = "reading" /\ taken < Len(line)
  /\ taken' = taken + 1
  /\ EndMark(kind)
  /\ emitted' = Finished(emitted) /\ stream' = "ended"
  /\ UNCHANGED <<override, model, provider, line, server>>

\* The mark ends the stream, after the text of its line.
ReadEndMark ==
  LET kind == line[taken + 1] IN
  /\ stream = "reading" /\ taken < Len(line)
  /\ taken' = taken + 1
  /\ EndMark(kind)
  /\ IF HasText(kind)
     THEN emitted' = Append(emitted, TokenEvent(taken')) /\ stream' = "last text"
     ELSE emitted' = Finished(emitted) /\ stream' = "ended"
  /\ UNCHANGED <<override, model, provider, line, server>>

\* _parse_event(): Langflow's "end" is an event like any other, with a text of
\* the server's; a line that cannot be parsed is dropped.  Other events, which
\* keep their kind and pass, are left out.
LineEvents(kind, n) ==
  IF HasText(kind) THEN <<TokenEvent(n)>>
  ELSE IF kind = "done" THEN <<[kind |-> "final", text |-> <<>>]>>
  ELSE <<>>

\* Every other line: one that cannot be parsed raises in a provider.
ReadLine ==
  LET kind == line[taken + 1] IN
  /\ stream = "reading" /\ taken < Len(line)
  /\ taken' = taken + 1
  /\ ~ EndMark(kind)
  /\ emitted' = emitted \o LineEvents(kind, taken')
  /\ stream' = IF kind = "malformed" /\ provider # "langflow" THEN "raised"
               ELSE IF LineEvents(kind, taken') # <<>> THEN "yielded"
               ELSE "reading"
  /\ UNCHANGED <<override, model, provider, line, server>>

\* The consumer asks for the next event.
AskMore ==
  /\ \/ stream = "yielded" /\ stream' = "reading" /\ UNCHANGED emitted
     \/ stream = "last text" /\ stream' = "ended" /\ emitted' = Finished(emitted)
  /\ UNCHANGED <<override, model, provider, line, taken, server>>

\* A server that closes the connection has finished, as far as anyone can tell.
EndOfStream ==
  /\ stream = "reading" /\ taken = Len(line) /\ server = "closed"
  /\ emitted' = Finished(emitted) /\ stream' = "ended"
  /\ UNCHANGED <<override, model, provider, line, taken, server>>

BreakOfStream ==
  /\ stream = "reading" /\ taken = Len(line) /\ server = "broken"
  /\ stream' = "raised"
  /\ UNCHANGED <<override, model, provider, line, taken, server, emitted>>

ConsumerLeaves ==
  /\ stream \in {"yielded", "last text", "reading"}
  /\ stream' = "left"
  /\ UNCHANGED <<override, model, provider, line, taken, server, emitted>>

ModelStreamsNext ==
  \/ \E tag \in ModelTags \cup {DefaultModel} : SetOverride(tag)
  \/ \E accepted \in BOOLEAN : Route(accepted)
  \/ \E reply \in {"text", "blank", "malformed"} : Generate(reply)
  \/ \E kind \in Lines : ServerSends(kind)
  \/ \E how \in {"closed", "broken"} : ServerStops(how)
  \/ ReadEndMark \/ ReadLine \/ AskMore \/ EndOfStream \/ BreakOfStream \/ ConsumerLeaves

-----------------------------------------------------------------------------
Finals == {k \in DOMAIN emitted : emitted[k].kind = "final"}
Tokens == {k \in DOMAIN emitted : emitted[k].kind = "token"}
Marks == {n \in DOMAIN line : EndMark(line[n])}

\* The consumer of a run gets the texts of the lines, each once and in order.
\* A provider's answer has one final event, its last, which repeats exactly
\* those texts, and only when the answer is over: never after an error, never
\* while a text is missing that the server sent before its end mark or before
\* it closed the connection, and with nothing of what came after the mark.
StreamIsFaithful ==
  /\ {emitted[k].text : k \in Tokens} = {<<n>> : n \in {m \in 1..taken : HasText(line[m])}}
  /\ \A j, k \in Tokens : j < k => Head(emitted[j].text) < Head(emitted[k].text)
  /\ \A m \in Marks : taken <= m
  /\ provider # "langflow" =>
       /\ stream = "ended" <=> Finals # {}
       /\ \A k \in Finals :
            /\ k = Len(emitted) /\ Tokens = 1..k - 1
            /\ emitted[k].text = Joined(SubSeq(emitted, 1, k - 1))
            /\ \A n \in DOMAIN line : HasText(line[n]) /\ taken < n => \E m \in Marks : m < n
=============================================================================
