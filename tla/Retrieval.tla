----------------------------- MODULE Retrieval -----------------------------
(***************************************************************************)
(* Vector stores and what is answered from them: QdrantStore and           *)
(* PgVectorStore (saap/plugins/memory), RAGService (saap/core/memory.py)   *)
(* and GroundedResponderLogic.  Tasks of several tenants share one store   *)
(* object.  Each await is a step; a pgvector operation is one transaction. *)
(* A chunk is its own text and fact; a sentence of an answer claims one.   *)
(* Deletion by source is modelled in SourceErasure.                        *)
(***************************************************************************)
EXTENDS FiniteSets, Naturals, Sequences

CONSTANTS
  Tenants, Tasks,
  Chunks,        \* chunks that may be stored; uuid4() makes their ids unique
  Filters,       \* metadata filters, as the chunks they match; Chunks is none
  Limit,         \* k: rows a search returns and a reranker keeps
  Sentences,     \* bound on the sentences of an answer
  Answers,       \* bound on the answers under way at once
  StoreFaults,   \* bound on calls of the database that raise
  Shared         \* SHARED_COLLECTION, SHARED_TABLE

ASSUME RetrievalAssumption ==
  /\ Limit \in Nat \ {0} /\ Sentences \in Nat /\ Answers \in Nat /\ StoreFaults \in Nat
  /\ Filters \subseteq SUBSET Chunks /\ Shared \notin Tenants

VARIABLES
  deployed,      \* the store: [kind, perTenant], or Shared before it is configured
  ensured,       \* _ensured
  collections,   \* collections, or committed tables, of the database
  rows,          \* committed rows
  op,            \* what each task is doing
  storeFaults    \* calls that raised so far

retrievalVars == <<deployed, ensured, collections, rows, op, storeFaults>>

NoOp == [step |-> "idle"]
TableRow == [name : Tenants \cup {Shared}, tenant : Tenants, chunk : Chunks]
Postgres == deployed.kind = "pgvector"
CollectionName(tenant) == IF deployed.perTenant THEN tenant ELSE Shared
Name(t) == CollectionName(op[t].tenant)
At(t, step) == op[t].step = step
GoTo(t, step) == op' = [op EXCEPT ![t].step = step]
Stored == {r.chunk : r \in rows}
Own(tenant) == {r.chunk : r \in {s \in rows : s.tenant = tenant}}

\* Tasks at work, and those that created a table and did not commit.
Busy == {t \in Tasks : ~ At(t, "idle")}
Creating(name) == {t \in Busy : Name(t) = name /\ op[t].created}

-----------------------------------------------------------------------------
RetrievalInit ==
  /\ deployed = Shared /\ ensured = {} /\ collections = {} /\ rows = {}
  /\ op = [t \in Tasks |-> NoOp]
  /\ storeFaults = 0

Configure(kind, perTenant) ==
  /\ deployed = Shared
  /\ deployed' = [kind |-> kind, perTenant |-> perTenant]
  /\ UNCHANGED <<ensured, collections, rows, op, storeFaults>>

\* upsert() of one chunk, and RAGRetrieverLogic.retrieve() of one question;
\* `known` is what the tenant could expect to find.
StartUpsert(t, tenant, chunk) ==
  /\ deployed # Shared /\ At(t, "idle")
  /\ chunk \notin Stored /\ \A u \in Busy : op[u].chunks # {chunk}
  /\ op' = [op EXCEPT ![t] =
       [step |-> "ensure", do |-> "upsert", tenant |-> tenant, chunks |-> {chunk},
        created |-> FALSE]]
  /\ UNCHANGED <<deployed, ensured, collections, rows, storeFaults>>

StartRetrieve(t, tenant, filter) ==
  /\ deployed # Shared /\ At(t, "idle")
  /\ op' = [op EXCEPT ![t] =
       [step |-> "ensure", do |-> "search", tenant |-> tenant, chunks |-> {},
        created |-> FALSE, filter |-> filter,
        known |-> Own(tenant)]]
  /\ UNCHANGED <<deployed, ensured, collections, rows, storeFaults>>

\* The cached name, or the question whether the collection exists.
Ensure(t) ==
  /\ At(t, "ensure")
  /\ GoTo(t, IF Name(t) \in ensured \cup collections THEN "execute" ELSE "missing")
  /\ ensured' = IF Name(t) \in collections THEN ensured \cup {Name(t)} ELSE ensured
  /\ UNCHANGED <<deployed, collections, rows, storeFaults>>

\* It is created, unless another task did so since, which is an error.  A
\* table is seen by others after the commit; two creations wait for each
\* other.  The name is cached at once in both.
Create(t) ==
  /\ At(t, "missing") /\ Creating(Name(t)) = {}
  /\ IF Name(t) \in collections
     THEN op' = [op EXCEPT ![t] = NoOp] /\ UNCHANGED <<ensured, collections>>
     ELSE /\ ensured' = ensured \cup {Name(t)}
          /\ collections' = IF Postgres THEN collections ELSE collections \cup {Name(t)}
          /\ op' = [op EXCEPT ![t].step = "execute", ![t].created = Postgres]
  /\ UNCHANGED <<deployed, rows, storeFaults>>

Visible(t) == Name(t) \in collections \/ op[t].created

\* A name that is cached before the transaction that creates it commits, or
\* after it was rolled back, leads to a table that is not there.
ExecuteFails(t) ==
  /\ At(t, "execute") /\ ~ Visible(t)
  /\ op' = [op EXCEPT ![t] = NoOp]
  /\ UNCHANGED <<deployed, ensured, collections, rows, storeFaults>>

NewRow(t, chunk) == [name |-> Name(t), tenant |-> op[t].tenant, chunk |-> chunk]

\* Qdrant has the points at once, a transaction when it commits.
ExecuteUpsert(t) ==
  /\ At(t, "execute") /\ Visible(t) /\ op[t].do = "upsert"
  /\ IF Postgres
     THEN GoTo(t, "commit") /\ UNCHANGED rows
     ELSE /\ rows' = rows \cup {NewRow(t, c) : c \in op[t].chunks}
          /\ op' = [op EXCEPT ![t] = NoOp]
  /\ UNCHANGED <<deployed, ensured, collections, storeFaults>>

\* Mutant: conditions of the caller replace the tenant's.
MatchesUnlessFiltered(t, row) ==
  /\ row.name = Name(t)
  /\ IF op[t].filter # Chunks THEN row.chunk \in op[t].filter
     ELSE ~ deployed.perTenant => row.tenant = op[t].tenant

\* _tenant_filter() and the conditions of the caller.
Matches(t, row) ==
  /\ row.name = Name(t)
  /\ ~ deployed.perTenant => row.tenant = op[t].tenant
  /\ row.chunk \in op[t].filter

Best(found) == {S \in SUBSET found : \/ S = found /\ Cardinality(S) <= Limit
                                     \/ Cardinality(S) = Limit}

\* The rows nearest to the query, whichever these are.
ExecuteSearch(t) ==
  /\ At(t, "execute") /\ Visible(t) /\ op[t].do = "search"
  /\ \E S \in Best({r.chunk : r \in {s \in rows : Matches(t, s)}}) :
       op' = [op EXCEPT ![t].chunks = S, ![t].step = IF Postgres THEN "commit" ELSE "found"]
  /\ UNCHANGED <<deployed, ensured, collections, rows, storeFaults>>

\* The end of `async with engine.begin()`.
Commit(t) ==
  /\ At(t, "commit")
  /\ collections' = IF op[t].created THEN collections \cup {Name(t)} ELSE collections
  /\ IF op[t].do = "upsert"
     THEN /\ rows' = rows \cup {NewRow(t, c) : c \in op[t].chunks}
          /\ op' = [op EXCEPT ![t] = NoOp]
     ELSE op' = [op EXCEPT ![t].step = "found", ![t].created = FALSE] /\ UNCHANGED rows
  /\ UNCHANGED <<deployed, ensured, storeFaults>>

\* A call raises: the transaction is rolled back, the cache is not.
Fail(t) ==
  /\ \E step \in {"ensure", "missing", "execute", "commit"} : At(t, step)
  /\ storeFaults < StoreFaults /\ storeFaults' = storeFaults + 1
  /\ op' = [op EXCEPT ![t] = NoOp]
  /\ UNCHANGED <<deployed, ensured, collections, rows>>

-----------------------------------------------------------------------------
(* The answer.                                                              *)

Answering(t) == \E step \in {"verifying", "answered", "fallback"} : At(t, step)

\* The model drafts sentences, with or without a citation marker, on anything.
Draft(t, sentences) ==
  /\ At(t, "found") /\ Cardinality({u \in Tasks : Answering(u)}) < Answers
  /\ op' = [op EXCEPT ![t] =
       [step |-> "verifying", tenant |-> @.tenant, created |-> FALSE, chunks |-> @.chunks,
        draft |-> sentences, checked |-> 0, flagged |-> 0]]
  /\ UNCHANGED <<deployed, ensured, collections, rows, storeFaults>>

\* The structural check, then the verifier, which may also answer rubbish.
Flagged(sentence, supported) == ~ sentence.marked \/ ~ supported

\* _pack_citations(): all chunks found, in one context.
Packed(t) == op[t].chunks

\* One turn of verify_grounding().  The verifier is shown the whole context;
\* it is taken to say yes only to what some chunk of it says.
VerifySentence(t) ==
  /\ At(t, "verifying") /\ op[t].checked < Len(op[t].draft)
  /\ \E supported \in BOOLEAN :
       LET sentence == op[t].draft[op[t].checked + 1] IN
         /\ supported => sentence.claim \in Packed(t)
         /\ op' = [op EXCEPT ![t].checked = @ + 1,
                             ![t].flagged = @ + (IF Flagged(sentence, supported) THEN 1 ELSE 0)]
  /\ UNCHANGED <<deployed, ensured, collections, rows, storeFaults>>

\* respond(): the whole answer or the fallback text.
Respond(t) ==
  /\ At(t, "verifying") /\ op[t].checked = Len(op[t].draft)
  /\ GoTo(t, IF op[t].flagged = 0 THEN "answered" ELSE "fallback")
  /\ UNCHANGED <<deployed, ensured, collections, rows, storeFaults>>

Return(t) ==
  /\ At(t, "answered") \/ At(t, "fallback")
  /\ op' = [op EXCEPT ![t] = NoOp]
  /\ UNCHANGED <<deployed, ensured, collections, rows, storeFaults>>

Drafts == UNION {[1..n -> [marked : BOOLEAN, claim : Chunks]] : n \in 0..Sentences}

RetrievalNext ==
  \/ \E kind \in {"qdrant", "pgvector"}, perTenant \in BOOLEAN : Configure(kind, perTenant)
  \/ \E t \in Tasks :
       \/ \E tenant \in Tenants, chunk \in Chunks : StartUpsert(t, tenant, chunk)
       \/ \E tenant \in Tenants, filter \in Filters : StartRetrieve(t, tenant, filter)
       \/ Ensure(t) \/ Create(t) \/ ExecuteFails(t) \/ ExecuteUpsert(t) \/ ExecuteSearch(t)
       \/ Commit(t) \/ Fail(t)
       \/ \E sentences \in Drafts : Draft(t, sentences)
       \/ VerifySentence(t) \/ Respond(t) \/ Return(t)

-----------------------------------------------------------------------------
\* (1) A search finds rows of its tenant that match the filter, all that were
\* there when it began unless there are more than it may return; in a
\* shared collection and in one per tenant, whoever else creates it, writes,
\* fails or reads meanwhile.
SearchesStayWithTenant ==
  /\ \A t \in Tasks : At(t, "found") =>
       /\ op[t].chunks \subseteq Own(op[t].tenant) \cap op[t].filter
       /\ Cardinality(op[t].chunks) < Limit => op[t].known \cap op[t].filter \subseteq op[t].chunks
  /\ deployed # Shared /\ ~ Postgres => ensured \subseteq collections

\* (2) An answer leaves only if each of its sentences says what a stored chunk of
\* the asking tenant says; the fallback only if some sentence is in doubt.
RepliesAreGrounded ==
  \A t \in Tasks :
    /\ At(t, "answered") =>
         \A i \in DOMAIN op[t].draft :
           op[t].draft[i].marked /\ op[t].draft[i].claim \in Own(op[t].tenant)
    /\ At(t, "fallback") => op[t].draft # <<>>

\* What a tenant is told comes from its own documents: (1) and (2).
AnswersStayWithTenant == SearchesStayWithTenant /\ RepliesAreGrounded
=============================================================================
