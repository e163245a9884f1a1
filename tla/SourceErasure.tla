----------------------------- MODULE SourceErasure -----------------------------
(***************************************************************************)
(* Ingestion against erasure: IngestionPipeline (saap/ingest/pipeline.py), *)
(* ErasureService (saap/compliance/erasure.py) and the vector store they   *)
(* share (saap/plugins/memory).                                            *)
(*                                                                         *)
(* A job is one running call of sync_source, delete_source or erase; each  *)
(* awaited call on a store is an action, and nothing in the code keeps two *)
(* jobs of one source apart.  A chunk is its text, the moment it was       *)
(* stored and its place in the document; equal texts have equal content    *)
(* hashes, so a text stands for its hash as well.                          *)
(***************************************************************************)
EXTENDS Naturals, Sequences, FiniteSets, FiniteSetsExt

CONSTANTS
  Sources,        \* a tenant's sources: what a (tenant, source_uri) pair names
  Texts,          \* chunk texts
  Excluded,       \* texts the classifier tags with an excluded data class
  Documents,      \* what the chunker can make of a source: sequences of texts
  Jobs,           \* running calls
  Backends,       \* the vector stores deployed: of "pgvector" and "qdrant"
  NoSource,       \* a job that is not running
  MaxStamp,       \* bound: upserts made and tokens issued
  MaxErasures,    \* bound: rows of kind "erasure"
  MaxFaults       \* bound: jobs that die

ASSUME TextsAssumption == Excluded \subseteq Texts /\ Documents \subseteq Seq(Texts)
ASSUME NoSourceAssumption == NoSource \notin Sources
ASSUME BackendsAssumption == Backends \subseteq {"pgvector", "qdrant"}
ASSUME BoundsAssumption == MaxStamp \in Nat /\ MaxErasures \in Nat /\ MaxFaults \in Nat

VARIABLES
  backend,       \* the vector store of this deployment
  document,      \* document[u]: what load, parse and chunk of u would give now
  store,         \* the vector store: a set of chunks
  lineage,       \* lineage[u]: the content hashes recorded for u
  tokens,        \* the tokens of the TokenVault, each by its moment
  audit,         \* the rows of kind "erasure", in order
  certificates,  \* the certificates issued
  job,           \* job[j]: what the call does and where it stands
  stamp,         \* the moment: counts the upserts and the tokens so far
  upserted,      \* history: chunks ever stored of u
  reported,      \* history: chunks delete_source reported as deleted from u
  lost,          \* history: chunks of u whose deleting job died unreported
  faults,        \* how many jobs have died
  disturbed,     \* history: two jobs worked on u at once, or one died on it
  erased         \* history: u was erased and its lineage not cleared since

stores == <<backend, store, lineage, tokens, audit, certificates>>
history == <<upserted, reported, lost, disturbed, erased>>
vars == <<document, stores, job, stamp, history, faults>>

-----------------------------------------------------------------------------
Chunk == [source : Sources, text : Texts \ Excluded, stamp : Nat, place : Nat]
Row == [source : Sources, chunks_deleted : Nat]
Certificate == [source : Sources, chunks_deleted : Nat, row : Nat \ {0}, since : Nat,
                removed : Nat]

\* The await a call stands at.
Places == {"idle", "hashes", "upsert", "record", "count", "delete", "shred", "clear",
           "append", "sign"}

Job == [op : {"none", "sync", "delete", "erase"}, source : Sources \cup {NoSource},
        at : Places, chunks : Seq(Texts), left : SUBSET Nat, deleted : Nat,
        removed : Nat, since : Nat, row : Nat]

Idle == [op |-> "none", source |-> NoSource, at |-> "idle", chunks |-> <<>>,
         left |-> {}, deleted |-> 0, removed |-> 0, since |-> 0, row |-> 0]

TypeOK ==
  /\ backend \in Backends
  /\ document \in [Sources -> Documents]
  /\ store \subseteq Chunk
  /\ lineage \in [Sources -> SUBSET (Texts \ Excluded)]
  /\ tokens \subseteq Nat
  /\ audit \in Seq(Row)
  /\ certificates \subseteq Certificate
  /\ job \in [Jobs -> Job]
  /\ stamp \in 0..MaxStamp
  /\ faults \in 0..MaxFaults
  /\ \A f \in {upserted, reported, lost} : f \in [Sources -> Nat]
  /\ \A f \in {disturbed, erased} : f \in [Sources -> BOOLEAN]

Init ==
  /\ backend \in Backends
  /\ document \in [Sources -> Documents]
  /\ store = {}
  /\ lineage = [u \in Sources |-> {}]
  /\ tokens = {}
  /\ audit = <<>>
  /\ certificates = {}
  /\ job = [j \in Jobs |-> Idle]
  /\ stamp = 0
  /\ faults = 0
  /\ upserted = [u \in Sources |-> 0]
  /\ reported = [u \in Sources |-> 0]
  /\ lost = [u \in Sources |-> 0]
  /\ disturbed = [u \in Sources |-> FALSE]
  /\ erased = [u \in Sources |-> FALSE]

ChunksOf(u) == {c \in store : c.source = u}
TextsOf(u) == {c.text : c \in ChunksOf(u)}
JobsOn(u) == {j \in Jobs : job[j].source = u}

-----------------------------------------------------------------------------
\* A call begins; it disturbs a call on the same source that is under way.
Begin(j, u, first) ==
  /\ job[j] = Idle
  /\ job' = [job EXCEPT ![j] = first]
  /\ disturbed' = [disturbed EXCEPT ![u] = @ \/ JobsOn(u) # {}]
  /\ UNCHANGED <<document, stores, stamp, upserted, reported, lost, erased, faults>>

Step(j, next) == job' = [job EXCEPT ![j] = next]

-----------------------------------------------------------------------------
(* sync_source.                                                             *)

\* load, parse and chunk: the content as it is now.
StartSync(j, u) ==
  Begin(j, u, [Idle EXCEPT !.op = "sync", !.source = u, !.at = "hashes",
                           !.chunks = document[u]])

\* The chunks that are neither excluded nor recorded already, by their places.
\* The hashes are read once: a text that occurs twice in a new document is
\* stored twice.
NewChunks(j) ==
  {i \in DOMAIN job[j].chunks :
     job[j].chunks[i] \notin Excluded \cup lineage[job[j].source]}

ReadHashes(j) ==
  /\ job[j].at = "hashes"
  /\ Step(j, IF NewChunks(j) = {} THEN Idle
             ELSE [job[j] EXCEPT !.at = "upsert", !.left = NewChunks(j)])
  /\ UNCHANGED <<document, stores, stamp, history, faults>>

\* embed returns and one upsert stores all chunks, each under a fresh id.
Upsert(j) ==
  LET u == job[j].source
      left == job[j].left
  IN
  /\ job[j].at = "upsert"
  /\ stamp < MaxStamp
  /\ stamp' = stamp + 1
  /\ store' = store \cup {[source |-> u, text |-> job[j].chunks[i], stamp |-> stamp + 1,
                            place |-> i] : i \in left}
  /\ upserted' = [upserted EXCEPT ![u] = @ + Cardinality(left)]
  /\ Step(j, [job[j] EXCEPT !.at = "record"])
  /\ UNCHANGED <<backend, document, lineage, tokens, audit, certificates, reported, lost,
                 disturbed, erased, faults>>

\* The chunk whose lineage row is recorded next.
FirstLeft(j) == Min(job[j].left)

\* Mutant: only the first chunk of a sync gets its lineage row.
RecordFirst(j) ==
  /\ job[j].at = "record"
  /\ lineage' = [lineage EXCEPT ![job[j].source] = @ \cup {job[j].chunks[FirstLeft(j)]}]
  /\ Step(j, Idle)
  /\ UNCHANGED <<backend, document, store, tokens, audit, certificates, stamp, history,
                 faults>>

\* The lineage rows are recorded one by one.
Record(j) ==
  /\ job[j].at = "record"
  /\ lineage' = [lineage EXCEPT ![job[j].source] = @ \cup {job[j].chunks[FirstLeft(j)]}]
  /\ Step(j, IF job[j].left = {FirstLeft(j)} THEN Idle
             ELSE [job[j] EXCEPT !.left = @ \ {FirstLeft(j)}])
  /\ UNCHANGED <<backend, document, store, tokens, audit, certificates, stamp, history,
                 faults>>

-----------------------------------------------------------------------------
(* delete_by_source, for delete_source and for erase.                       *)

FirstOfDelete == IF backend = "qdrant" THEN "count" ELSE "delete"

StartDelete(j, u) ==
  Begin(j, u, [Idle EXCEPT !.op = "delete", !.source = u, !.at = FirstOfDelete])

StartErase(j, u) ==
  /\ Len(audit) + Cardinality({i \in Jobs : job[i].op = "erase"}) < MaxErasures
  /\ Begin(j, u, [Idle EXCEPT !.op = "erase", !.source = u, !.at = FirstOfDelete,
                              !.since = stamp])

\* Qdrant counts the points first.
Count(j) ==
  /\ job[j].at = "count"
  /\ Step(j, [job[j] EXCEPT !.at = "delete",
                            !.deleted = Cardinality(ChunksOf(job[j].source))])
  /\ UNCHANGED <<document, stores, stamp, history, faults>>

\* Mutant: pgvector's figure is not read from the status of its DELETE.
FigureUnread(j, removed) == job[j].deleted

\* pgvector reports what its DELETE removed, Qdrant what it counted before.
Figure(j, removed) == IF backend = "qdrant" THEN job[j].deleted ELSE removed

\* Mutant: a DELETE that leaves the newest chunk of the source behind.
DoomedButLast(u) == {c \in ChunksOf(u) : \E d \in ChunksOf(u) : d.stamp > c.stamp}

\* The filter of the DELETE.
Doomed(u) == ChunksOf(u)

Delete(j) ==
  LET u == job[j].source
      removed == Cardinality(Doomed(u))
  IN
  /\ job[j].at = "delete"
  /\ store' = store \ Doomed(u)
  /\ erased' = [erased EXCEPT ![u] = @ \/ job[j].op = "erase"]
  /\ Step(j, [job[j] EXCEPT !.at = IF job[j].op = "erase" THEN "shred" ELSE "clear",
                            !.deleted = Figure(j, removed), !.removed = removed])
  /\ UNCHANGED <<backend, document, lineage, tokens, audit, certificates, stamp,
                 upserted, reported, lost, disturbed, faults>>

\* erase resumes and destroys every token, whatever source it came from.
Shred(j) ==
  /\ job[j].at = "shred"
  /\ tokens' = {}
  /\ Step(j, [job[j] EXCEPT !.at = "append"])
  /\ UNCHANGED <<backend, document, store, lineage, audit, certificates, stamp, history,
                 faults>>

\* clear_source; delete_source returns its figure.
Clear(j) ==
  LET u == job[j].source IN
  /\ job[j].at = "clear"
  /\ lineage' = [lineage EXCEPT ![u] = {}]
  /\ reported' = [reported EXCEPT ![u] = @ + job[j].deleted]
  /\ erased' = [erased EXCEPT ![u] = FALSE]
  /\ Step(j, Idle)
  /\ UNCHANGED <<backend, document, store, tokens, audit, certificates, stamp, upserted,
                 lost, disturbed, faults>>

\* erase: the row that closes the deletion.
AppendRow(j) ==
  /\ job[j].at = "append"
  /\ audit' = Append(audit, [source |-> job[j].source, chunks_deleted |-> job[j].deleted])
  /\ Step(j, [job[j] EXCEPT !.at = "sign", !.row = Len(audit) + 1])
  /\ UNCHANGED <<backend, document, store, lineage, tokens, certificates, stamp, history,
                 faults>>

\* The certificate cites the row append() returned.
Sign(j) ==
  /\ job[j].at = "sign"
  /\ certificates' = certificates \cup
       {[source |-> job[j].source, chunks_deleted |-> job[j].deleted, row |-> job[j].row,
         since |-> job[j].since, removed |-> job[j].removed]}
  /\ Step(j, Idle)
  /\ UNCHANGED <<backend, document, store, lineage, tokens, audit, stamp, history,
                 faults>>

-----------------------------------------------------------------------------
(* The environment.                                                         *)

\* A store, the loader or the embedder raises, or the process dies: the call
\* ends where it stands.  A deletion that was not reported yet is lost.
Die(j) ==
  LET u == job[j].source IN
  /\ job[j].at # "idle"
  /\ faults < MaxFaults
  /\ faults' = faults + 1
  /\ disturbed' = [disturbed EXCEPT ![u] = TRUE]
  /\ lost' = IF job[j].at \in {"shred", "clear", "append"}
               THEN [lost EXCEPT ![u] = @ + job[j].deleted] ELSE lost
  /\ Step(j, Idle)
  /\ UNCHANGED <<document, stores, stamp, upserted, reported, erased>>

\* The source's content changes.
Edit(u) ==
  /\ document' \in [Sources -> Documents]
  /\ \A v \in Sources \ {u} : document'[v] = document[v]
  /\ document'[u] # document[u]
  /\ UNCHANGED <<stores, job, stamp, history, faults>>

\* A message is masked somewhere: the vault gets a token.
Tokenize ==
  /\ stamp < MaxStamp
  /\ stamp' = stamp + 1
  /\ tokens' = tokens \cup {stamp + 1}
  /\ UNCHANGED <<backend, document, store, lineage, audit, certificates, job, history,
                 faults>>

-----------------------------------------------------------------------------
Work(j) ==
  \/ ReadHashes(j) \/ Upsert(j) \/ Record(j)
  \/ Count(j) \/ Delete(j) \/ Shred(j) \/ Clear(j) \/ AppendRow(j) \/ Sign(j)

Next ==
  \/ \E j \in Jobs : Work(j) \/ Die(j) \/
       \E u \in Sources : StartSync(j, u) \/ StartDelete(j, u) \/ StartErase(j, u)
  \/ \E u \in Sources : Edit(u)
  \/ Tokenize

Spec == Init /\ [][Next]_vars

-----------------------------------------------------------------------------
(* Safety.                                                                  *)

Occurrences(text, doc) == Cardinality({i \in DOMAIN doc : doc[i] = text})

\* On a source none of whose calls has died or met another, however often it
\* is edited, deleted, erased and synced again: no text is stored more often
\* than it can occur in one document, and while no call is at work its lineage
\* is exact.  What is stored is recorded, so a sync skips only what is there,
\* and nothing else is recorded but what an erasure, which does not clear the
\* lineage, took away.
LineageTellsStore ==
  \A u \in Sources : ~ disturbed[u] =>
    /\ \A text \in TextsOf(u) :
         \E doc \in Documents :
           Cardinality({c \in ChunksOf(u) : c.text = text}) <= Occurrences(text, doc)
    /\ JobsOn(u) = {} =>
         /\ TextsOf(u) \subseteq lineage[u]
         /\ ~ erased[u] => lineage[u] = TextsOf(u)

\* The deletions of u in the audit log, and those a job has still to report;
\* <<i, k>> is the k-th chunk of the figure i tells.
RowsOf(u) == {i \in DOMAIN audit : audit[i].source = u}
HeldBy(u) == {j \in JobsOn(u) : job[j].at \in {"shred", "clear", "append"}}
ChunksAudited(u) == UNION {{i} \X (1..audit[i].chunks_deleted) : i \in RowsOf(u)}
ChunksHeld(u) == UNION {{j} \X (1..job[j].deleted) : j \in HeldBy(u)}

\* Every chunk that ever entered the store is still there or in exactly one
\* deletion's figure: audited, reported, on its way to be, or lost with its
\* job; also when erasures and syncs of one source overlap (pgvector, whose DELETE
\* tells what it removed).
DeletionsAddUp ==
  backend = "pgvector" => \A u \in Sources :
    upserted[u] = Cardinality(ChunksOf(u)) + reported[u] + lost[u]
                  + Cardinality(ChunksAudited(u)) + Cardinality(ChunksHeld(u))

\* A certificate is true: it has its own audit row with the same figure, and
\* nothing of the source that was stored before the erasure began is left, nor
\* any token the vault held then.
CertificateHolds ==
  \A c \in certificates :
    /\ c.row \in DOMAIN audit
    /\ audit[c.row] = [source |-> c.source, chunks_deleted |-> c.chunks_deleted]
    /\ \A d \in certificates : d.row = c.row => d = c
    /\ \A chunk \in ChunksOf(c.source) : chunk.stamp > c.since
    /\ \A token \in tokens : token > c.since

\* qdrant/__init__.py:145-146 counts before it deletes "so the erasure job can
\* log an exact figure in its signed certificate": the figure of a certificate
\* is the number of chunks its erasure removed.
CertificateIsExact == \A c \in certificates : c.chunks_deleted = c.removed
=============================================================================
