--------------------------- MODULE ComponentsProofs ---------------------------
(***************************************************************************)
(* Theorems about the components that share no state with another, each    *)
(* for any value of its constants: the chunker, the vector stores and what *)
(* is answered from them, the provisioner, the servers behind the MCP pool,*)
(* the inbound channels, the release gates, the model streams, the detector*)
(* of speech, the monitor of the vault, the flow linter, the audit trail   *)
(* and the masking of personal data.  Each has an inductive invariant of   *)
(* its own.                                                                *)
(***************************************************************************)
EXTENDS Chunker, Retrieval, Provisioning, McpServers, Channels,
        ReleaseGates, ModelStreams, Listening, FlowLinter, Monitors, PiiMasking,
        SequenceTheorems, FiniteSetTheorems, TLAPS

-----------------------------------------------------------------------------
(* The chunker: what is not in a chunk yet is still held.                   *)

\* The words held begin in the current section, and every chunk lies in what
\* was read.
HeldIsCurrent ==
  /\ \A h \in headings : h <= chunkFrom
  /\ \A c \in chunks : c[1] < c[2] /\ c[2] <= chunkTo

\* After a cut the overlap is held, unless a new section began.
OverlapHeld ==
  chunkFrom = 0 \/ chunkFrom \in headings \/ chunkTo - chunkFrom >= OverlapWords

\* What is not in a chunk yet is still held.
CoveredOrHeld ==
  \A i, j \in 0..chunkTo :
    i < j /\ j - i <= OverlapWords + 1 /\ OneSection(i, j)
      => chunkFrom <= i \/ \E c \in chunks : c[1] <= i /\ j <= c[2]

\* When the loop has ended fewer words than the target are held.
HeldFits == chunkStage = "reading" => chunkTo - chunkFrom < Target

\* After the end there is nothing left to flush.
AllCovered ==
  chunkStage = "done" =>
    \A i, j \in 0..chunkTo :
      i < j /\ j - i <= OverlapWords + 1 /\ OneSection(i, j)
        => \E c \in chunks : c[1] <= i /\ j <= c[2]

ChunkerInv ==
  ChunkerTypeOK /\ ChunksAreSections /\ HeldIsCurrent /\ OverlapHeld
  /\ CoveredOrHeld /\ HeldFits /\ AllCovered

-----------------------------------------------------------------------------
LEMMA ChunkerInitial == ChunkerInit => ChunkerInv
  BY ChunkerAssumption, SMT
  DEF ChunkerInit, ChunkerInv, ChunkerTypeOK, ChunksAreSections, HeldIsCurrent, OverlapHeld,
      CoveredOrHeld, HeldFits, AllCovered, Positions, OneSection

\* The numbers a state is made of.
LEMMA Numbers ==
  ASSUME ChunkerInv
  PROVE  /\ Target \in Int /\ OverlapWords \in Int /\ 0 <= OverlapWords /\ OverlapWords < Target
         /\ DocumentWords \in Int
         /\ chunkFrom \in Int /\ chunkTo \in Int
         /\ 0 <= chunkFrom /\ chunkFrom <= chunkTo /\ chunkTo <= DocumentWords
         /\ \A h \in headings : h \in Int
         /\ \A c \in chunks : c[1] \in Int /\ c[2] \in Int
  BY ChunkerAssumption DEF ChunkerInv, ChunkerTypeOK, Positions

\* A flush of the words from..to: the chunk is a section and no chunk is lost.
LEMMA HeadingStep ==
  ASSUME ChunkerInv, NEW n \in 1..DocumentWords, TakeBlock(n, TRUE), chunkFrom < chunkTo
  PROVE  ChunkerInv'
<1>1. /\ chunkStage = "reading" /\ chunkTo + n <= DocumentWords
      /\ chunks' = chunks \cup {<<chunkFrom, chunkTo>>} /\ chunkFrom' = chunkTo
      /\ headings' = headings \cup {chunkTo}
      /\ chunkTo' = chunkTo + n /\ chunkStage' = "cutting"
  BY DEF TakeBlock
<1>2. ChunkerTypeOK'
  BY <1>1, Numbers DEF ChunkerInv, ChunkerTypeOK, Positions
<1>3. ChunksAreSections'
  <2>1. \A c \in chunks : /\ c[1] < c[2] /\ c[2] - c[1] <= Target /\ c[2] <= chunkTo
                           /\ OneSection(c[1], c[2])
    BY DEF ChunkerInv, ChunksAreSections, HeldIsCurrent
  <2>2. chunkTo - chunkFrom < Target /\ OneSection(chunkFrom, chunkTo)
    BY <1>1 DEF ChunkerInv, HeldFits, HeldIsCurrent, OneSection
  <2> QED
    BY <1>1, <2>1, <2>2, Numbers DEF ChunksAreSections, OneSection
<1>4. HeldIsCurrent'
  <2>1. (\A h \in headings : h <= chunkFrom) /\ \A c \in chunks : c[1] < c[2] /\ c[2] <= chunkTo
    BY DEF ChunkerInv, HeldIsCurrent
  <2> QED
    BY <1>1, <2>1, Numbers DEF HeldIsCurrent
<1>5. OverlapHeld'
  BY <1>1 DEF OverlapHeld
<1>6. CoveredOrHeld'
  <2> SUFFICES ASSUME NEW i \in 0..chunkTo', NEW j \in 0..chunkTo',
                      i < j, j - i <= OverlapWords + 1, OneSection(i, j)', ~ (chunkTo <= i)
               PROVE  \E c \in chunks' : c[1] <= i /\ j <= c[2]
    BY <1>1 DEF CoveredOrHeld
  <2>1. j <= chunkTo /\ OneSection(i, j)
    BY <1>1, Numbers DEF OneSection
  <2>2. CASE chunkFrom <= i
    <3>1. <<chunkFrom, chunkTo>> \in chunks'
      BY <1>1
    <3> WITNESS <<chunkFrom, chunkTo>> \in chunks'
    <3> QED
      BY <2>1, <2>2
  <2>3. CASE ~ (chunkFrom <= i)
    <3>1. i \in 0..chunkTo /\ j \in 0..chunkTo
      BY <1>1, <2>1, Numbers
    <3> QED
      BY <1>1, <2>1, <2>3, <3>1 DEF ChunkerInv, CoveredOrHeld
  <2> QED
    BY <2>2, <2>3
<1>7. HeldFits' /\ AllCovered'
  BY <1>1 DEF HeldFits, AllCovered
<1> QED
  BY <1>2, <1>3, <1>4, <1>5, <1>6, <1>7 DEF ChunkerInv

\* A block that flushes nothing: the runs that end in it begin in the words
\* held, because the overlap of the last cut is among them.
LEMMA BlockStep ==
  ASSUME ChunkerInv, NEW n \in 1..DocumentWords, NEW isHeading \in BOOLEAN,
         TakeBlock(n, isHeading), ~ (isHeading /\ chunkFrom < chunkTo)
  PROVE  ChunkerInv'
<1>1. /\ chunkStage = "reading" /\ chunkTo + n <= DocumentWords
      /\ chunks' = chunks /\ chunkFrom' = chunkFrom
      /\ headings \subseteq headings' /\ headings' \subseteq headings \cup {chunkTo}
      /\ chunkTo' = chunkTo + n /\ chunkStage' = "cutting"
  BY DEF TakeBlock
<1>2. isHeading => chunkFrom = chunkTo
  BY Numbers
<1>3. \A h \in headings' : h \in Int /\ h <= chunkFrom
  <2>1. \A h \in headings : h <= chunkFrom
    BY DEF ChunkerInv, HeldIsCurrent
  <2> QED
    BY <1>2, <2>1, Numbers DEF TakeBlock
<1>4. ChunkerTypeOK'
  <2>1. headings' \subseteq Positions
    BY <1>1, Numbers DEF ChunkerInv, ChunkerTypeOK, Positions
  <2> QED
    BY <1>1, <2>1, Numbers DEF ChunkerInv, ChunkerTypeOK, Positions
<1>5. ChunksAreSections'
  <2>1. \A c \in chunks : /\ c[1] < c[2] /\ c[2] - c[1] <= Target /\ c[2] <= chunkTo
                           /\ OneSection(c[1], c[2])
    BY DEF ChunkerInv, ChunksAreSections, HeldIsCurrent
  <2> QED
    BY <1>1, <2>1, Numbers DEF ChunksAreSections, OneSection
<1>6. HeldIsCurrent'
  <2>1. \A c \in chunks : c[1] < c[2] /\ c[2] <= chunkTo
    BY DEF ChunkerInv, HeldIsCurrent
  <2> QED
    BY <1>1, <1>3, <2>1, Numbers DEF HeldIsCurrent
<1>7. OverlapHeld'
  BY <1>1, Numbers DEF ChunkerInv, OverlapHeld
<1>8. CoveredOrHeld'
  <2> SUFFICES ASSUME NEW i \in 0..chunkTo', NEW j \in 0..chunkTo',
                      i < j, j - i <= OverlapWords + 1, OneSection(i, j)', ~ (chunkFrom <= i)
               PROVE  \E c \in chunks : c[1] <= i /\ j <= c[2]
    BY <1>1 DEF CoveredOrHeld
  <2>1. OneSection(i, j) /\ i \in Int /\ j \in Int /\ 0 <= i
    BY <1>1, Numbers DEF OneSection
  <2>2. CASE j <= chunkTo
    <3>1. i \in 0..chunkTo /\ j \in 0..chunkTo
      BY <2>1, <2>2, Numbers
    <3> QED
      BY <2>1, <3>1 DEF ChunkerInv, CoveredOrHeld
  <2>3. CASE ~ (j <= chunkTo)
    <3>1. chunkFrom \notin headings
      BY <2>1, <2>3, Numbers DEF OneSection
    <3>2. chunkTo - chunkFrom >= OverlapWords
      BY <2>1, <3>1, Numbers DEF ChunkerInv, OverlapHeld
    <3> QED
      BY <2>1, <2>3, <3>2, Numbers
  <2> QED
    BY <2>2, <2>3
<1>9. HeldFits' /\ AllCovered'
  BY <1>1 DEF HeldFits, AllCovered
<1> QED
  BY <1>4, <1>5, <1>6, <1>7, <1>8, <1>9 DEF ChunkerInv

\* A cut: a run that does not begin in the words kept ends in the chunk.
LEMMA CutStep ==
  ASSUME ChunkerInv, Cut
  PROVE  ChunkerInv'
<1>1. /\ chunkStage = "cutting" /\ chunkTo - chunkFrom >= Target
      /\ chunks' = chunks \cup {<<chunkFrom, chunkFrom + Target>>}
      /\ chunkFrom' = chunkFrom + Target - OverlapWords
      /\ chunkTo' = chunkTo /\ headings' = headings /\ chunkStage' = chunkStage
  BY DEF Cut
<1>2. ChunkerTypeOK'
  BY <1>1, Numbers DEF ChunkerInv, ChunkerTypeOK, Positions
<1>3. ChunksAreSections'
  <2>1. \A c \in chunks : c[1] < c[2] /\ c[2] - c[1] <= Target /\ OneSection(c[1], c[2])
    BY DEF ChunkerInv, ChunksAreSections
  <2>2. OneSection(chunkFrom, chunkFrom + Target)
    BY DEF ChunkerInv, HeldIsCurrent, OneSection
  <2> QED
    BY <1>1, <2>1, <2>2, Numbers DEF ChunksAreSections, OneSection
<1>4. HeldIsCurrent'
  <2>1. (\A h \in headings : h <= chunkFrom) /\ \A c \in chunks : c[1] < c[2] /\ c[2] <= chunkTo
    BY DEF ChunkerInv, HeldIsCurrent
  <2> QED
    BY <1>1, <2>1, Numbers DEF HeldIsCurrent
<1>5. OverlapHeld'
  BY <1>1, Numbers DEF OverlapHeld
<1>6. CoveredOrHeld'
  <2> SUFFICES ASSUME NEW i \in 0..chunkTo, NEW j \in 0..chunkTo,
                      i < j, j - i <= OverlapWords + 1, OneSection(i, j),
                      ~ (chunkFrom + Target - OverlapWords <= i)
               PROVE  \E c \in chunks' : c[1] <= i /\ j <= c[2]
    BY <1>1 DEF CoveredOrHeld, OneSection
  <2>1. CASE chunkFrom <= i
    <3>1. j <= chunkFrom + Target
      BY Numbers
    <3>2. <<chunkFrom, chunkFrom + Target>> \in chunks'
      BY <1>1
    <3> WITNESS <<chunkFrom, chunkFrom + Target>> \in chunks'
    <3> QED
      BY <2>1, <3>1
  <2>2. CASE ~ (chunkFrom <= i)
    BY <1>1, <2>2 DEF ChunkerInv, CoveredOrHeld
  <2> QED
    BY <2>1, <2>2
<1>7. HeldFits' /\ AllCovered'
  BY <1>1 DEF HeldFits, AllCovered
<1> QED
  BY <1>2, <1>3, <1>4, <1>5, <1>6, <1>7 DEF ChunkerInv

LEMMA FitsStep ==
  ASSUME ChunkerInv, Fits
  PROVE  ChunkerInv'
<1>1. /\ UNCHANGED <<chunkFrom, chunkTo, headings, chunks>>
      /\ chunkTo - chunkFrom < Target /\ chunkStage' = "reading"
  BY DEF Fits
<1> QED
  BY <1>1 DEF ChunkerInv, ChunkerTypeOK, ChunksAreSections, HeldIsCurrent, OverlapHeld,
     CoveredOrHeld, HeldFits, AllCovered, OneSection

\* The end: what is still held becomes the last chunk.
LEMMA EndDocumentStep ==
  ASSUME ChunkerInv, EndDocument
  PROVE  ChunkerInv'
<1>1. /\ chunkStage = "reading" /\ chunkStage' = "done"
      /\ chunks' = IF chunkFrom < chunkTo THEN chunks \cup {<<chunkFrom, chunkTo>>} ELSE chunks
      /\ chunkFrom' = chunkFrom /\ chunkTo' = chunkTo /\ headings' = headings
  BY DEF EndDocument
<1>2. ChunkerTypeOK'
  BY <1>1, Numbers DEF ChunkerInv, ChunkerTypeOK, Positions
<1>3. ChunksAreSections'
  <2>1. \A c \in chunks : c[1] < c[2] /\ c[2] - c[1] <= Target /\ OneSection(c[1], c[2])
    BY DEF ChunkerInv, ChunksAreSections
  <2>2. chunkTo - chunkFrom < Target /\ OneSection(chunkFrom, chunkTo)
    BY <1>1 DEF ChunkerInv, HeldFits, HeldIsCurrent, OneSection
  <2> QED
    BY <1>1, <2>1, <2>2, Numbers DEF ChunksAreSections, OneSection
<1>4. HeldIsCurrent' /\ OverlapHeld' /\ HeldFits'
  BY <1>1, Numbers DEF ChunkerInv, HeldIsCurrent, OverlapHeld, HeldFits
<1>5. ASSUME NEW i \in 0..chunkTo, NEW j \in 0..chunkTo,
             i < j, j - i <= OverlapWords + 1, OneSection(i, j)
      PROVE  \E c \in chunks' : c[1] <= i /\ j <= c[2]
  <2>1. CASE chunkFrom <= i
    <3>1. <<chunkFrom, chunkTo>> \in chunks'
      BY <1>1, <1>5, <2>1, Numbers
    <3>2. j <= chunkTo
      BY <1>5
    <3> WITNESS <<chunkFrom, chunkTo>> \in chunks'
    <3> QED
      BY <2>1, <3>2
  <2>2. CASE ~ (chunkFrom <= i)
    BY <1>1, <1>5, <2>2 DEF ChunkerInv, CoveredOrHeld
  <2> QED
    BY <2>1, <2>2
<1>6. CoveredOrHeld' /\ AllCovered'
  BY <1>1, <1>5 DEF CoveredOrHeld, AllCovered, OneSection
<1> QED
  BY <1>2, <1>3, <1>4, <1>6 DEF ChunkerInv

-----------------------------------------------------------------------------
\* The inductive invariant holds in every reachable state, for any target,
\* overlap below it and document.
THEOREM ChunkerInvariance == ChunkerSpec => []ChunkerInv
<1>1. ChunkerInv /\ [ChunkerNext]_chunkerVars => ChunkerInv'
  <2> SUFFICES ASSUME ChunkerInv, [ChunkerNext]_chunkerVars PROVE ChunkerInv'
    OBVIOUS
  <2>1. ASSUME NEW n \in 1..DocumentWords, NEW isHeading \in BOOLEAN, TakeBlock(n, isHeading)
        PROVE  ChunkerInv'
    BY <2>1, HeadingStep, BlockStep
  <2>2. CASE Cut
    BY <2>2, CutStep
  <2>3. CASE Fits
    BY <2>3, FitsStep
  <2>4. CASE EndDocument
    BY <2>4, EndDocumentStep
  <2>5. CASE UNCHANGED chunkerVars
    BY <2>5 DEF chunkerVars, ChunkerInv, ChunkerTypeOK, ChunksAreSections, HeldIsCurrent,
       OverlapHeld, CoveredOrHeld, HeldFits, AllCovered, OneSection
  <2> QED
    BY <2>1, <2>2, <2>3, <2>4, <2>5 DEF ChunkerNext
<1> QED
  BY <1>1, ChunkerInitial, PTL DEF ChunkerSpec

\* Every phrase of at most one word more than the overlap is whole in some
\* chunk of its section, and no chunk is too long or crosses a heading.
THEOREM ChunkerCoverage == ChunkerSpec => []ChunksCoverDocument
<1>1. ChunkerInv => ChunksCoverDocument
  BY DEF ChunkerInv, ChunksCoverDocument, AllCovered
<1> QED
  BY <1>1, ChunkerInvariance, PTL

-----------------------------------------------------------------------------
(* Retrieval: what each task knows is in the rows.                          *)

Upserting == [step : {"ensure", "missing", "execute", "commit"}, do : {"upsert"}, tenant : Tenants,
              chunks : SUBSET Chunks, created : BOOLEAN]
Searching == [step : {"ensure", "missing", "execute", "commit", "found"}, do : {"search"},
              tenant : Tenants, chunks : SUBSET Chunks, created : BOOLEAN,
              filter : SUBSET Chunks, known : SUBSET Chunks]
Replying == [step : {"verifying", "answered", "fallback"}, tenant : Tenants, created : BOOLEAN,
             chunks : SUBSET Chunks, draft : Seq([marked : BOOLEAN, claim : Chunks]),
             checked : Nat, flagged : Nat]
Operations == {NoOp} \cup Upserting \cup Searching \cup Replying

\* The search o expects rows of its tenant, and has found such rows, all of
\* them unless these are as many as it may return.
FoundOwn(o) ==
  /\ o.known \subseteq Own(o.tenant)
  /\ o.step \in {"commit", "found"} =>
       /\ o.chunks \subseteq Own(o.tenant) \cap o.filter
       /\ Cardinality(o.chunks) < Limit => o.known \cap o.filter \subseteq o.chunks

\* The answer o has passed no sentence so far that its chunks do not support.
PassedGrounded(o) ==
  /\ o.chunks \subseteq Own(o.tenant)
  /\ o.flagged <= o.checked /\ o.checked <= Len(o.draft)
  /\ o.flagged = 0 => \A i \in 1..o.checked : o.draft[i].marked /\ o.draft[i].claim \in o.chunks
  /\ o.step = "answered" => o.flagged = 0 /\ o.checked = Len(o.draft)
  /\ o.step = "fallback" => o.flagged # 0

Right(o) == (o \in Searching => FoundOwn(o)) /\ (o \in Replying => PassedGrounded(o))

\* The collection of a row is that of its tenant.
RowsInPlace == rows \subseteq TableRow /\ \A r \in rows : r.name = CollectionName(r.tenant)

\* A name in Qdrant's cache is a collection.
CacheRight == deployed # Shared /\ ~ Postgres => ensured \subseteq collections

RetrievalInv ==
  /\ op \in [Tasks -> Operations] /\ \A t \in Tasks : Right(op[t])
  /\ RowsInPlace /\ CacheRight
  /\ deployed = Shared => rows = {} /\ ensured = {} /\ \A t \in Tasks : op[t] = NoOp

RetrievalSpec == RetrievalInit /\ [][RetrievalNext]_retrievalVars

LEMMA RetrievalInitial == RetrievalInit => RetrievalInv
  BY DEF RetrievalInit, RetrievalInv, Right, RowsInPlace, CacheRight, NoOp, Operations,
         Searching, Replying

\* Rows are only added here.
LEMMA OwnGrows ==
  ASSUME rows \subseteq rows'
  PROVE  \A tenant : Own(tenant) \subseteq Own(tenant)'
  BY DEF Own

LEMMA OperationStep ==
  ASSUME RetrievalInv, deployed # Shared, NEW t \in Tasks, NEW next \in Operations,
         op' = [op EXCEPT ![t] = next], Right(next)', rows \subseteq rows', RowsInPlace',
         UNCHANGED deployed, CacheRight'
  PROVE  RetrievalInv'
<1>1. /\ op' \in [Tasks -> Operations] /\ op'[t] = next
      /\ \A u \in Tasks : u # t => op'[u] = op[u]
  BY DEF RetrievalInv
<1>2. ASSUME NEW u \in Tasks PROVE Right(op[u])'
  <2>1. CASE u = t
    BY <1>1, <2>1 DEF Right, FoundOwn, PassedGrounded
  <2>2. CASE u # t
    <3>1. Right(op[u]) /\ op'[u] = op[u] /\ op[u] \in Operations
      BY <1>1, <2>2 DEF RetrievalInv
    <3>2. op[u] \in Searching => FoundOwn(op[u])'
      BY <3>1, OwnGrows DEF Right, FoundOwn, Searching
    <3>3. op[u] \in Replying => PassedGrounded(op[u])'
      BY <3>1, OwnGrows DEF Right, PassedGrounded, Replying
    <3> QED BY <3>1, <3>2, <3>3 DEF Right
  <2> QED BY <2>1, <2>2
<1> QED BY <1>1, <1>2 DEF RetrievalInv

\* A step that writes no rows.
LEMMA QuietStep ==
  ASSUME RetrievalInv, deployed # Shared, NEW t \in Tasks, NEW next \in Operations,
         op' = [op EXCEPT ![t] = next], Right(next), UNCHANGED <<rows, deployed>>, CacheRight'
  PROVE  RetrievalInv'
<1>1. Right(next)' /\ RowsInPlace'
  BY DEF RetrievalInv, Right, FoundOwn, PassedGrounded, Own, RowsInPlace, CollectionName
<1> QED BY <1>1, OperationStep

LEMMA CacheKept ==
  ASSUME RetrievalInv, UNCHANGED <<deployed, ensured>>, collections \subseteq collections'
  PROVE  CacheRight'
  BY DEF RetrievalInv, CacheRight, Postgres

\* What a task at a step is doing.
LEMMA AtStep ==
  ASSUME RetrievalInv, NEW t \in Tasks, ~ At(t, "idle")
  PROVE  /\ deployed # Shared /\ Right(op[t]) /\ op[t].tenant \in Tenants /\ op[t].chunks \subseteq Chunks
         /\ op[t] \in Upserting \cup Searching \cup Replying
         /\ (\E s \in {"ensure", "missing", "execute", "commit"} : At(t, s)) =>
              op[t] \in Upserting \cup Searching
         /\ At(t, "found") => op[t] \in Searching
         /\ (\E s \in {"verifying", "answered", "fallback"} : At(t, s)) => op[t] \in Replying
<1>1. op[t] \in Operations /\ Right(op[t]) /\ op[t] # NoOp /\ deployed # Shared
  BY DEF RetrievalInv, At, NoOp
<1>2. op[t] \in Upserting \cup Searching \cup Replying
  BY <1>1 DEF Operations
<1> QED BY <1>1, <1>2 DEF Upserting, Searching, Replying, At

LEMMA NoOpRight == NoOp \in Operations /\ Right(NoOp) /\ Right(NoOp)'
  BY DEF NoOp, Operations, Right, Searching, Replying

LEMMA ConfigureStep ==
  ASSUME RetrievalInv, NEW kind, NEW perTenant, Configure(kind, perTenant)
  PROVE  RetrievalInv'
<1>1. rows = {} /\ ensured = {} /\ UNCHANGED <<ensured, collections, rows, op>> /\ \A t \in Tasks : op[t] = NoOp
  BY DEF Configure, RetrievalInv
<1>2. \A t \in Tasks : Right(op[t])'
  BY <1>1, NoOpRight DEF Right, NoOp, Searching, Replying
<1> QED BY <1>1, <1>2 DEF RetrievalInv, RowsInPlace, CacheRight

LEMMA StartUpsertStep ==
  ASSUME RetrievalInv, NEW t \in Tasks, NEW tenant \in Tenants, NEW chunk \in Chunks,
         StartUpsert(t, tenant, chunk)
  PROVE  RetrievalInv'
<1>1. PICK next : next = [step |-> "ensure", do |-> "upsert", tenant |-> tenant,
                          chunks |-> {chunk}, created |-> FALSE]
  OBVIOUS
<1>2. /\ deployed # Shared /\ op' = [op EXCEPT ![t] = next]
      /\ UNCHANGED <<deployed, ensured, collections, rows>>
  BY <1>1 DEF StartUpsert
<1>3. next \in Operations /\ Right(next)
  BY <1>1 DEF Operations, Upserting, Right, Searching, Replying
<1> QED BY <1>2, <1>3, QuietStep, CacheKept

LEMMA StartRetrieveStep ==
  ASSUME RetrievalInv, NEW t \in Tasks, NEW tenant \in Tenants, NEW filter \in Filters,
         StartRetrieve(t, tenant, filter)
  PROVE  RetrievalInv'
<1>1. PICK next : next = [step |-> "ensure", do |-> "search", tenant |-> tenant, chunks |-> {},
                          created |-> FALSE, filter |-> filter, known |-> Own(tenant)]
  OBVIOUS
<1>2. /\ deployed # Shared /\ op' = [op EXCEPT ![t] = next]
      /\ UNCHANGED <<deployed, ensured, collections, rows>>
  BY <1>1 DEF StartRetrieve
<1>3. Own(tenant) \subseteq Chunks /\ filter \subseteq Chunks
  BY RetrievalAssumption DEF RetrievalInv, RowsInPlace, Own, TableRow
<1>4. next \in Operations
  BY <1>1, <1>3 DEF Operations, Searching
<1>5. Right(next)
  BY <1>1 DEF Right, FoundOwn, Replying
<1> QED BY <1>2, <1>4, <1>5, QuietStep, CacheKept

\* The steps before the query.
LEMMA EnsureStep == ASSUME RetrievalInv, NEW t \in Tasks, Ensure(t) PROVE RetrievalInv'
<1>1. PICK s : s = IF Name(t) \in ensured \cup collections THEN "execute" ELSE "missing"
  OBVIOUS
<1>2. PICK next : next = [op[t] EXCEPT !.step = s]
  OBVIOUS
<1>3. /\ At(t, "ensure") /\ op' = [op EXCEPT ![t] = next] /\ UNCHANGED <<deployed, collections, rows>>
      /\ ensured' = IF Name(t) \in collections THEN ensured \cup {Name(t)} ELSE ensured
  BY <1>1, <1>2 DEF Ensure, GoTo
<1>4. /\ deployed # Shared /\ Right(op[t]) /\ op[t] \in Upserting \cup Searching
      /\ s \in {"execute", "missing"}
  BY <1>1, <1>3, AtStep DEF At
<1>5. next \in Operations /\ Right(next)
  BY <1>2, <1>4 DEF Operations, Upserting, Searching, Replying, Right, FoundOwn
<1>6. CacheRight'
  BY <1>3 DEF RetrievalInv, CacheRight, Postgres
<1> QED BY <1>3, <1>4, <1>5, <1>6, QuietStep

LEMMA CreateStep == ASSUME RetrievalInv, NEW t \in Tasks, Create(t) PROVE RetrievalInv'
<1>1. At(t, "missing") /\ UNCHANGED <<deployed, rows>>
  BY DEF Create
<1>2. /\ deployed # Shared /\ Right(op[t]) /\ op[t] \in Upserting \cup Searching
  BY <1>1, AtStep DEF At
<1>3. CASE Name(t) \in collections
  <2>1. op' = [op EXCEPT ![t] = NoOp] /\ UNCHANGED <<ensured, collections>>
    BY <1>3 DEF Create
  <2> QED BY <1>1, <1>2, <2>1, NoOpRight, QuietStep, CacheKept
<1>4. CASE Name(t) \notin collections
  <2>1. PICK next : next = [op[t] EXCEPT !.step = "execute", !.created = Postgres]
    OBVIOUS
  <2>2. /\ op' = [op EXCEPT ![t] = next] /\ ensured' = ensured \cup {Name(t)}
        /\ collections' = IF Postgres THEN collections ELSE collections \cup {Name(t)}
    BY <1>4, <2>1 DEF Create
  <2>3. CacheRight'
    BY <1>1, <2>2 DEF RetrievalInv, CacheRight, Postgres
  <2>4. Postgres \in BOOLEAN
    BY DEF Postgres
  <2>5. next \in Operations /\ Right(next)
    BY <1>2, <2>1, <2>4 DEF Operations, Upserting, Searching, Replying, Right, FoundOwn
  <2> QED BY <1>1, <1>2, <2>2, <2>3, <2>5, QuietStep
<1> QED BY <1>3, <1>4

\* A task gives up, or has returned what it had.
LEMMA GiveUpStep ==
  ASSUME RetrievalInv, NEW t \in Tasks, ExecuteFails(t) \/ Fail(t) \/ Return(t)
  PROVE  RetrievalInv'
<1>1. /\ op' = [op EXCEPT ![t] = NoOp] /\ UNCHANGED <<deployed, ensured, collections, rows>>
      /\ ~ At(t, "idle")
  BY DEF ExecuteFails, Fail, Return, At
<1> QED BY <1>1, AtStep, NoOpRight, QuietStep, CacheKept

\* The rows an upsert adds are its tenant's, in the tenant's collection.
LEMMA NewRows ==
  ASSUME RetrievalInv, NEW t \in Tasks, ~ At(t, "idle"), UNCHANGED deployed,
         rows' = rows \cup {NewRow(t, c) : c \in op[t].chunks}
  PROVE  RowsInPlace' /\ rows \subseteq rows'
<1>1. \A c \in op[t].chunks : NewRow(t, c) \in TableRow /\ NewRow(t, c).name = CollectionName(NewRow(t, c).tenant)
  BY AtStep DEF NewRow, TableRow, Name, CollectionName
<1> QED BY <1>1 DEF RetrievalInv, RowsInPlace, CollectionName

LEMMA ExecuteUpsertStep ==
  ASSUME RetrievalInv, NEW t \in Tasks, ExecuteUpsert(t)
  PROVE  RetrievalInv'
<1>1. At(t, "execute") /\ op[t].do = "upsert" /\ UNCHANGED <<deployed, ensured, collections>>
  BY DEF ExecuteUpsert
<1>2. deployed # Shared /\ op[t] \in Upserting /\ ~ At(t, "idle")
  BY <1>1, AtStep DEF At, Searching
<1>3. CASE Postgres
  <2>1. PICK next : next = [op[t] EXCEPT !.step = "commit"]
    OBVIOUS
  <2>2. op' = [op EXCEPT ![t] = next] /\ UNCHANGED rows
    BY <1>3, <2>1 DEF ExecuteUpsert, GoTo
  <2>3. next \in Operations /\ Right(next)
    BY <1>2, <2>1 DEF Operations, Upserting, Searching, Replying, Right
  <2> QED BY <1>1, <1>2, <2>2, <2>3, QuietStep, CacheKept
<1>4. CASE ~ Postgres
  <2>1. op' = [op EXCEPT ![t] = NoOp] /\ rows' = rows \cup {NewRow(t, c) : c \in op[t].chunks}
    BY <1>4 DEF ExecuteUpsert
  <2> QED BY <1>1, <1>2, <2>1, NoOpRight, NewRows, OperationStep, CacheKept
<1> QED BY <1>3, <1>4

\* A search finds rows of its tenant, whether or not tenants share a collection.
LEMMA MatchesOwn ==
  ASSUME RetrievalInv, NEW t \in Tasks, NEW r \in rows
  PROVE  Matches(t, r) <=> r.tenant = op[t].tenant /\ r.chunk \in op[t].filter
  BY RetrievalAssumption DEF RetrievalInv, RowsInPlace, Matches, Name, CollectionName

LEMMA ExecuteSearchStep ==
  ASSUME RetrievalInv, NEW t \in Tasks, ExecuteSearch(t)
  PROVE  RetrievalInv'
<1> DEFINE matching == {r.chunk : r \in {s \in rows : Matches(t, s)}}
<1>1. /\ At(t, "execute") /\ op[t].do = "search" /\ UNCHANGED <<deployed, ensured, collections, rows>>
      /\ \E S \in Best(matching) :
           op' = [op EXCEPT ![t].chunks = S, ![t].step = IF Postgres THEN "commit" ELSE "found"]
  BY DEF ExecuteSearch
<1>2. PICK S \in Best(matching) :
        op' = [op EXCEPT ![t].chunks = S, ![t].step = IF Postgres THEN "commit" ELSE "found"]
  BY <1>1
<1>3. deployed # Shared /\ op[t] \in Searching /\ Right(op[t]) /\ op[t].tenant \in Tenants
  BY <1>1, AtStep DEF At, Upserting
<1>4. matching = Own(op[t].tenant) \cap op[t].filter
  BY MatchesOwn DEF Own
<1>5. S \subseteq matching /\ (S = matching \/ Cardinality(S) = Limit)
  BY <1>2 DEF Best
<1>6. PICK step : step = IF Postgres THEN "commit" ELSE "found"
  OBVIOUS
<1>7. PICK next : next = [op[t] EXCEPT !.chunks = S, !.step = step]
  OBVIOUS
<1>8. op' = [op EXCEPT ![t] = next]
  BY <1>2, <1>6, <1>7 DEF RetrievalInv
<1> HIDE DEF matching
<1>9. next \in Searching
  BY <1>3, <1>4, <1>5, <1>6, <1>7 DEF Searching
<1>10. FoundOwn(next)
  <2>1. op[t].known \subseteq Own(op[t].tenant)
    BY <1>3 DEF Right, FoundOwn
  <2>2. Cardinality(S) < Limit => S = matching
    BY <1>5, RetrievalAssumption
  <2> QED BY <1>3, <1>4, <1>5, <1>7, <2>1, <2>2 DEF FoundOwn, Searching
<1>11. next \in Operations /\ Right(next)
  BY <1>9, <1>10 DEF Operations, Right, Searching, Replying
<1> QED BY <1>1, <1>3, <1>8, <1>11, QuietStep, CacheKept

LEMMA CommitStep == ASSUME RetrievalInv, NEW t \in Tasks, Commit(t) PROVE RetrievalInv'
<1>1. /\ At(t, "commit") /\ UNCHANGED <<deployed, ensured>> /\ collections \subseteq collections'
  BY DEF Commit
<1>2. /\ deployed # Shared /\ Right(op[t]) /\ op[t] \in Upserting \cup Searching /\ ~ At(t, "idle")
  BY <1>1, AtStep DEF At
<1>3. CASE op[t].do = "upsert"
  <2>1. op' = [op EXCEPT ![t] = NoOp] /\ rows' = rows \cup {NewRow(t, c) : c \in op[t].chunks}
    BY <1>3 DEF Commit
  <2> QED BY <1>1, <1>2, <2>1, NoOpRight, NewRows, OperationStep, CacheKept
<1>4. CASE op[t].do # "upsert"
  <2>1. PICK next : next = [op[t] EXCEPT !.step = "found", !.created = FALSE]
    OBVIOUS
  <2>2. op' = [op EXCEPT ![t] = next] /\ UNCHANGED rows
    BY <1>4, <2>1 DEF Commit, RetrievalInv
  <2>3. op[t] \in Searching
    BY <1>2, <1>4 DEF Upserting
  <2>4. next \in Searching
    BY <2>1, <2>3 DEF Searching
  <2>5. FoundOwn(next)
    BY <1>1, <1>2, <2>1, <2>3 DEF Right, FoundOwn, Searching, At
  <2>6. next \in Operations /\ Right(next)
    BY <2>4, <2>5 DEF Operations, Right, Searching, Replying
  <2> QED BY <1>1, <1>2, <2>2, <2>6, QuietStep, CacheKept
<1> QED BY <1>3, <1>4

LEMMA DraftStep ==
  ASSUME RetrievalInv, NEW t \in Tasks, NEW sentences \in Drafts, Draft(t, sentences)
  PROVE  RetrievalInv'
<1>1. PICK next : next = [step |-> "verifying", tenant |-> op[t].tenant, created |-> FALSE,
                          chunks |-> op[t].chunks, draft |-> sentences, checked |-> 0, flagged |-> 0]
  OBVIOUS
<1>2. /\ At(t, "found") /\ op' = [op EXCEPT ![t] = next]
      /\ UNCHANGED <<deployed, ensured, collections, rows>>
  BY <1>1 DEF Draft
<1>3. deployed # Shared /\ op[t] \in Searching /\ Right(op[t])
  BY <1>2, AtStep DEF At
<1>4. sentences \in Seq([marked : BOOLEAN, claim : Chunks])
  <2> DEFINE D == [marked : BOOLEAN, claim : Chunks]
  <2>1. PICK n \in 0..Sentences : sentences \in [1..n -> D]
    BY DEF Drafts
  <2>2. n \in Nat
    BY RetrievalAssumption
  <2> HIDE DEF D
  <2>3. sentences \in Seq(D)
    BY <2>1, <2>2
  <2> QED BY <2>3 DEF D
<1>5. next \in Replying
  <2>1. op[t].tenant \in Tenants /\ op[t].chunks \in SUBSET Chunks
    BY <1>3 DEF Searching
  <2> QED BY <1>1, <1>4, <2>1 DEF Replying
<1>6. PassedGrounded(next)
  <2>1. op[t].chunks \subseteq Own(op[t].tenant)
    BY <1>2, <1>3 DEF Right, FoundOwn, At
  <2>2. Len(sentences) \in Nat
    BY <1>4, LenProperties
  <2> QED BY <1>1, <2>1, <2>2 DEF PassedGrounded
<1>7. next \in Operations /\ Right(next)
  BY <1>5, <1>6 DEF Operations, Right, Searching, Replying
<1> QED BY <1>2, <1>3, <1>7, QuietStep, CacheKept

LEMMA VerifySentenceStep ==
  ASSUME RetrievalInv, NEW t \in Tasks, VerifySentence(t)
  PROVE  RetrievalInv'
<1> DEFINE o == op[t]
           sentence == o.draft[o.checked + 1]
<1>1. /\ At(t, "verifying") /\ o.checked < Len(o.draft)
      /\ UNCHANGED <<deployed, ensured, collections, rows>>
  BY DEF VerifySentence
<1>2. PICK more \in {0, 1} :
        /\ op' = [op EXCEPT ![t].checked = @ + 1, ![t].flagged = @ + more]
        /\ more = 0 => sentence.marked /\ sentence.claim \in o.chunks
  <2>1. PICK supported \in BOOLEAN :
          /\ supported => sentence.claim \in o.chunks
          /\ op' = [op EXCEPT ![t].checked = @ + 1,
                              ![t].flagged = @ + (IF Flagged(sentence, supported) THEN 1 ELSE 0)]
    BY DEF VerifySentence, Packed
  <2>2. PICK more : more = IF Flagged(sentence, supported) THEN 1 ELSE 0
    OBVIOUS
  <2>3. more = 0 => sentence.marked /\ sentence.claim \in o.chunks
    BY <2>1, <2>2 DEF Flagged
  <2>4. op' = [op EXCEPT ![t].checked = @ + 1, ![t].flagged = @ + more]
    BY <2>1, <2>2
  <2> HIDE DEF sentence
  <2> QED BY <2>2, <2>3, <2>4
<1>3. PICK next : next = [o EXCEPT !.checked = @ + 1, !.flagged = @ + more]
  OBVIOUS
<1>4. op' = [op EXCEPT ![t] = next]
  BY <1>2, <1>3 DEF RetrievalInv
<1>5. deployed # Shared /\ o \in Replying /\ Right(o)
  BY <1>1, AtStep DEF At
<1>6. /\ o.checked \in Nat /\ o.flagged \in Nat /\ Len(o.draft) \in Nat /\ PassedGrounded(o)
      /\ o.step = "verifying"
  BY <1>1, <1>5, LenProperties DEF Replying, Right, At
<1>7. next \in Replying
  <2>1. o.checked + 1 \in Nat /\ o.flagged + more \in Nat
    BY <1>6
  <2>2. next = [o EXCEPT !.checked = o.checked + 1, !.flagged = o.flagged + more]
    BY <1>3
  <2> HIDE DEF o
  <2> DEFINE D == Seq([marked : BOOLEAN, claim : Chunks])
  <2>3. o \in [step : {"verifying", "answered", "fallback"}, tenant : Tenants, created : BOOLEAN,
               chunks : SUBSET Chunks, draft : D, checked : Nat, flagged : Nat]
    BY <1>5 DEF Replying
  <2> HIDE DEF D
  <2>4. next \in [step : {"verifying", "answered", "fallback"}, tenant : Tenants, created : BOOLEAN,
                  chunks : SUBSET Chunks, draft : D, checked : Nat, flagged : Nat]
    BY <2>1, <2>2, <2>3
  <2> QED BY <2>4 DEF Replying, D
<1>8. /\ next.checked = o.checked + 1 /\ next.flagged = o.flagged + more /\ next.draft = o.draft
      /\ next.chunks = o.chunks /\ next.tenant = o.tenant /\ next.step = o.step
  BY <1>3, <1>5 DEF Replying
<1> HIDE DEF o
<1>9. PassedGrounded(next)
  <2>1. ASSUME next.flagged = 0, NEW i \in 1..next.checked
        PROVE  next.draft[i].marked /\ next.draft[i].claim \in next.chunks
    <3>1. o.flagged = 0 /\ more = 0
      BY <1>2, <1>6, <1>8, <2>1
    <3>2. i \in 1..o.checked \/ i = o.checked + 1
      BY <1>6, <1>8
    <3> QED BY <1>2, <1>6, <1>8, <3>1, <3>2 DEF PassedGrounded
  <2> QED BY <1>1, <1>2, <1>6, <1>8, <2>1 DEF PassedGrounded
<1>10. next \in Operations /\ Right(next)
  BY <1>7, <1>9 DEF Operations, Right, Searching, Replying
<1> QED BY <1>1, <1>4, <1>5, <1>10, QuietStep, CacheKept

LEMMA RespondStep == ASSUME RetrievalInv, NEW t \in Tasks, Respond(t) PROVE RetrievalInv'
<1>1. PICK s : s = IF op[t].flagged = 0 THEN "answered" ELSE "fallback"
  OBVIOUS
<1>2. PICK next : next = [op[t] EXCEPT !.step = s]
  OBVIOUS
<1>3. /\ At(t, "verifying") /\ op[t].checked = Len(op[t].draft) /\ op' = [op EXCEPT ![t] = next]
      /\ UNCHANGED <<deployed, ensured, collections, rows>>
  BY <1>1, <1>2 DEF Respond, GoTo
<1>4. deployed # Shared /\ op[t] \in Replying /\ Right(op[t])
  BY <1>3, AtStep DEF At
<1>5. next \in Operations
  BY <1>1, <1>2, <1>4 DEF Operations, Replying
<1>6. Right(next)
  BY <1>1, <1>2, <1>3, <1>4 DEF Right, PassedGrounded, Replying, Searching
<1> QED BY <1>3, <1>4, <1>5, <1>6, QuietStep, CacheKept

\* The rows are where they belong and the tasks know what is theirs.
THEOREM RetrievalCorrect == RetrievalSpec => []RetrievalInv
<1>1. RetrievalInv /\ [RetrievalNext]_retrievalVars => RetrievalInv'
  <2> SUFFICES ASSUME RetrievalInv, [RetrievalNext]_retrievalVars PROVE RetrievalInv'
    OBVIOUS
  <2>1. CASE UNCHANGED retrievalVars
    BY <2>1 DEF retrievalVars, RetrievalInv, Right, FoundOwn, PassedGrounded, Own, RowsInPlace,
       CollectionName, CacheRight, Postgres
  <2>2. ASSUME NEW kind \in {"qdrant", "pgvector"}, NEW perTenant \in BOOLEAN,
               Configure(kind, perTenant)
        PROVE  RetrievalInv'
    BY <2>2, ConfigureStep
  <2>3. ASSUME NEW t \in Tasks,
               \/ \E tenant \in Tenants, chunk \in Chunks : StartUpsert(t, tenant, chunk)
               \/ \E tenant \in Tenants, filter \in Filters : StartRetrieve(t, tenant, filter)
               \/ Ensure(t) \/ Create(t) \/ ExecuteFails(t) \/ ExecuteUpsert(t)
               \/ ExecuteSearch(t) \/ Commit(t) \/ Fail(t)
               \/ \E sentences \in Drafts : Draft(t, sentences)
               \/ VerifySentence(t) \/ Respond(t) \/ Return(t)
        PROVE  RetrievalInv'
    BY <2>3, StartUpsertStep, StartRetrieveStep, EnsureStep, CreateStep, GiveUpStep,
       ExecuteUpsertStep, ExecuteSearchStep, CommitStep, DraftStep, VerifySentenceStep, RespondStep
  <2> QED BY <2>1, <2>2, <2>3 DEF RetrievalNext
<1> QED BY <1>1, RetrievalInitial, PTL DEF RetrievalSpec

\* Whoever else creates the collection, writes, fails or reads meanwhile, in a
\* shared collection or in one per tenant, a search finds what its tenant
\* stored, and what leaves as an answer is in it (saap/plugins/memory,
\* saap/core/memory.py).
THEOREM AnswersStay == RetrievalSpec => []AnswersStayWithTenant
<1>1. RetrievalInv => AnswersStayWithTenant
  <2> SUFFICES ASSUME RetrievalInv PROVE AnswersStayWithTenant
    OBVIOUS
  <2>1. ASSUME NEW t \in Tasks, At(t, "found")
        PROVE  /\ op[t].chunks \subseteq Own(op[t].tenant) \cap op[t].filter
               /\ Cardinality(op[t].chunks) < Limit =>
                    op[t].known \cap op[t].filter \subseteq op[t].chunks
    BY <2>1, AtStep DEF At, Right, FoundOwn
  <2>2. ASSUME NEW t \in Tasks, At(t, "answered"), NEW i \in DOMAIN op[t].draft
        PROVE  op[t].draft[i].marked /\ op[t].draft[i].claim \in Own(op[t].tenant)
    <3>1. op[t] \in Replying /\ PassedGrounded(op[t])
      BY <2>2, AtStep DEF At, Right
    <3>2. DOMAIN op[t].draft = 1..Len(op[t].draft)
      BY <3>1, LenProperties DEF Replying
    <3> QED BY <2>2, <3>1, <3>2 DEF PassedGrounded, At
  <2>3. ASSUME NEW t \in Tasks, At(t, "fallback") PROVE op[t].draft # <<>>
    <3>1. op[t] \in Replying /\ PassedGrounded(op[t])
      BY <2>3, AtStep DEF At, Right
    <3>2. op[t].flagged \in Nat /\ op[t].checked \in Nat /\ op[t].flagged # 0
      BY <2>3, <3>1 DEF Replying, PassedGrounded, At
    <3> QED BY <3>1, <3>2 DEF PassedGrounded
  <2> QED BY <2>1, <2>2, <2>3 DEF AnswersStayWithTenant, SearchesStayWithTenant, RepliesAreGrounded,
          RetrievalInv, CacheRight
<1> QED BY <1>1, RetrievalCorrect, PTL

-----------------------------------------------------------------------------
(* Provisioning: a call that was left alone has done what it says it did,   *)
(* and as long as no two aims overlap, all who write at one time write the  *)
(* same.                                                                    *)

Call == [kind : {"none", "plan", "apply", "destroy"}, blueprint : Blueprints \cup {Absent},
         done : 0..Provisioners, changed : Seq(BOOLEAN), at : {"running", "returned", "raised"},
         calls : Nat, quiet : BOOLEAN]

\* What a call's record says by itself.
Called(j) ==
  /\ j \in Call
  /\ j.kind \in {"plan", "apply"} => j.blueprint \in Blueprints
  /\ j.kind \in {"none", "destroy"} => j.blueprint = Absent
  /\ j.at = "running" => j.kind # "none"
  /\ Len(j.changed) = j.done
  /\ j.at = "returned" /\ j.kind # "none" => j.done = Provisioners

\* A call left alone has done, or told, what it wants of the resources b.
DoneAsTold(j, b) ==
  j.quiet /\ j.kind # "none" =>
    /\ j.kind # "plan" => \A n \in Done(j) : b[n] = Wanted(j)
    /\ j.kind = "plan" => \A n \in Done(j) : j.changed[n] <=> b[n] # Wanted(j)

\* All who write now write the same, upwards from what is there or downwards.
OneAim ==
  /\ \A o, p \in Operators : Writes(call[o]) /\ Writes(call[p]) => Goal(call[o]) = Goal(call[p])
  /\ \A o \in Operators : Writes(call[o]) =>
       \A n \in Done(call[o]) : built[n] = Absent <=> call[o].kind = "destroy"
  /\ \A n \in Resources : built[n] # Absent => \A m \in 1..n : built[m] # Absent

ProvisioningInv ==
  /\ built \in [Resources -> Blueprints \cup {Absent, ByHand}]
  /\ DOMAIN call = Operators
  /\ contested \in BOOLEAN
  /\ \A o \in Operators : Called(call[o]) /\ DoneAsTold(call[o], built)
  /\ ~ contested => OneAim

ProvisioningSpec == ProvisioningInit /\ [][ProvisioningNext]_provisionVars

LEMMA ProvisioningInitial == ProvisioningInit => ProvisioningInv
<1> SUFFICES ASSUME ProvisioningInit PROVE ProvisioningInv
  OBVIOUS
<1>1. NoCall \in Call
  <2>1. <<>> \in Seq(BOOLEAN) /\ 0 \in 0..Provisioners
    BY ProvisioningAssumption
  <2> QED BY <2>1 DEF NoCall, Call
<1>2. \A o \in Operators : Called(call[o]) /\ DoneAsTold(call[o], built) /\ ~ Writes(call[o])
  <2>1. Called(NoCall) /\ DoneAsTold(NoCall, built) /\ ~ Writes(NoCall)
    BY <1>1 DEF NoCall, Called, DoneAsTold, Writes
  <2> QED BY <2>1 DEF ProvisioningInit
<1>3. OneAim
  BY <1>2 DEF OneAim, ProvisioningInit
<1> QED BY <1>2, <1>3 DEF ProvisioningInv, ProvisioningInit

\* The resource a running call turns to, and what it has passed then.
LEMMA TurnFacts ==
  ASSUME NEW j, Called(j), j.done < Provisioners
  PROVE  /\ Turn(j) \in Resources /\ Turn(j) \notin Done(j) /\ Done(j) \subseteq Resources
         /\ \A next : next.kind = j.kind /\ next.done = j.done + 1
                     => Done(next) = Done(j) \cup {Turn(j)}
         /\ j.kind # "destroy" => Turn(j) = j.done + 1 /\ Done(j) = 1..j.done
         /\ j.kind = "destroy" => /\ Done(j) = (Turn(j) + 1)..Provisioners
<1>1. j.done \in Nat /\ Provisioners \in Nat
  BY ProvisioningAssumption DEF Called, Call
<1>2. CASE j.kind = "destroy"
  BY <1>1, <1>2 DEF Turn, Done, Resources
<1>3. CASE j.kind # "destroy"
  BY <1>1, <1>3 DEF Turn, Done, Resources
<1> QED BY <1>2, <1>3

\* A provisioner's work is what its call wants, told to all who want
\* something else.
Works(o) ==
  /\ built' = [built EXCEPT ![Turn(call[o])] = Wanted(call[o])]
  /\ \A p \in Operators \ {o} : call'[p] = Written(o)[p]

\* What that work does to the other calls.
LEMMA OthersAfterWork ==
  ASSUME ProvisioningInv, NEW o \in Operators, Writes(call[o]), call[o].done < Provisioners,
         Works(o), NEW p \in Operators, p # o
  PROVE  /\ Called(call'[p]) /\ DoneAsTold(call'[p], built')
         /\ Writes(call'[p]) = Writes(call[p]) /\ Goal(call'[p]) = Goal(call[p])
         /\ Done(call'[p]) = Done(call[p]) /\ call'[p].kind = call[p].kind
<1> DEFINE j == call[o]
           k == call[p]
<1>1. /\ Called(j) /\ Called(k) /\ DoneAsTold(k, built) /\ j.kind \in {"apply", "destroy"}
      /\ built \in [Resources -> Blueprints \cup {Absent, ByHand}]
  BY DEF ProvisioningInv, Writes
<1>2. Turn(j) \in Resources
  BY <1>1, TurnFacts
<1>3. CASE Goal(k) = Goal(j)
  <2>1. call'[p] = k
    BY <1>3 DEF Works, Written
  <2>2. Wanted(k) = Wanted(j) /\ k.kind = j.kind
    BY <1>3 DEF Goal, Wanted
  <2>3. \A n \in Done(k) : k.quiet => built'[n] = Wanted(k)
    <3>1. Done(k) \subseteq Resources
      BY DEF Done
    <3> QED BY <1>1, <1>2, <2>2, <3>1 DEF Works, DoneAsTold
  <2> QED BY <1>1, <2>1, <2>2, <2>3 DEF DoneAsTold
<1>4. CASE Goal(k) # Goal(j)
  <2>1. call'[p] = [k EXCEPT !.quiet = FALSE]
    BY <1>4 DEF Works, Written
  <2>2. [k EXCEPT !.quiet = FALSE] \in Call
    BY <1>1 DEF Called, Call
  <2>3. /\ call'[p].kind = k.kind /\ call'[p].blueprint = k.blueprint /\ call'[p].done = k.done
        /\ call'[p].changed = k.changed /\ call'[p].at = k.at /\ call'[p].quiet = FALSE
    BY <1>1, <2>1 DEF Called, Call
  <2>4. Called(call'[p])
    BY <1>1, <2>1, <2>2, <2>3 DEF Called
  <2> QED BY <2>3, <2>4 DEF DoneAsTold, Writes, Goal, Done
<1> QED BY <1>3, <1>4

\* The work keeps the resources in order, if nobody with another aim is at it.
LEMMA AimAfterWork ==
  ASSUME ProvisioningInv, NEW o \in Operators, Writes(call[o]), call[o].done < Provisioners,
         Works(o), ~ contested,
         call'[o].kind = call[o].kind, call'[o].blueprint = call[o].blueprint,
         \/ call'[o].done = call[o].done + 1
         \/ call'[o].done = call[o].done /\ ~ Writes(call'[o])
  PROVE  OneAim'
<1> DEFINE j == call[o]
           n == Turn(j)
           up == j.kind # "destroy"
<1>1. /\ Called(j) /\ j.kind \in {"apply", "destroy"} /\ OneAim
      /\ built \in [Resources -> Blueprints \cup {Absent, ByHand}]
      /\ Provisioners \in Nat /\ j.done \in Nat
  BY ProvisioningAssumption DEF ProvisioningInv, Writes, Called, Call
<1>2. /\ n \in Resources /\ n \notin Done(j)
      /\ up => n = j.done + 1 /\ Done(j) = 1..j.done
      /\ ~ up => Done(j) = (n + 1)..Provisioners
      /\ call'[o].done = j.done + 1 => Done(call'[o]) = Done(j) \cup {n}
  BY <1>1, TurnFacts
<1>3. /\ built' = [built EXCEPT ![n] = Wanted(j)]
      /\ up => Wanted(j) # Absent
      /\ ~ up => Wanted(j) = Absent
  BY <1>1, ProvisioningAssumption DEF Works, Wanted, Called
<1>4. \A m \in Resources : m # n => built'[m] = built[m]
  BY <1>1, <1>3
<1>5. built'[n] = Wanted(j)
  BY <1>1, <1>2, <1>3
<1>6. ASSUME NEW p \in Operators, Writes(call'[p])
      PROVE  /\ Goal(call'[p]) = Goal(j) /\ call'[p].kind = j.kind
             /\ \A m \in Done(call'[p]) : built'[m] = Absent <=> call'[p].kind = "destroy"
  <2>1. CASE p = o
    <3>1. call'[p].done = j.done + 1 /\ Goal(call'[p]) = Goal(j)
      BY <1>6, <2>1 DEF Goal
    <3>2. \A m \in Done(j) : m \in Resources /\ (built[m] = Absent <=> ~ up)
      BY <1>1 DEF OneAim, Done
    <3> QED BY <1>2, <1>3, <1>4, <1>5, <2>1, <3>1, <3>2
  <2>2. CASE p # o
    <3>1. /\ Writes(call[p]) /\ Goal(call'[p]) = Goal(call[p]) /\ Done(call'[p]) = Done(call[p])
          /\ call'[p].kind = call[p].kind
      BY <1>6, <2>2, OthersAfterWork
    <3>2. Goal(call[p]) = Goal(j)
      BY <1>1, <3>1 DEF OneAim
    <3>3. call[p].kind = j.kind
      BY <3>2 DEF Goal
    <3>4. \A m \in Done(call[p]) : m \in Resources /\ (built[m] = Absent <=> ~ up)
      BY <1>1, <3>1, <3>3 DEF OneAim, Done
    <3> QED BY <1>3, <1>4, <1>5, <3>1, <3>2, <3>3, <3>4
  <2> QED BY <2>1, <2>2
<1>7. \A a \in Resources : built'[a] # Absent => \A m \in 1..a : built'[m] # Absent
  <2> SUFFICES ASSUME NEW a \in Resources, built'[a] # Absent, NEW m \in 1..a
               PROVE  built'[m] # Absent
    OBVIOUS
  <2>0. m \in Resources /\ m \in Nat /\ a \in Nat /\ m <= a
    BY <1>1 DEF Resources
  <2>1. CASE up
    <3>1. CASE m = n
      BY <1>3, <1>5, <2>1, <3>1
    <3>2. CASE m # n /\ a = n
      <4>1. m \in Done(j)
        BY <1>1, <1>2, <2>0, <2>1, <3>2
      <4>2. built[m] # Absent
        BY <1>1, <2>1, <4>1 DEF OneAim
      <4> QED BY <1>4, <2>0, <3>2, <4>2
    <3>3. CASE m # n /\ a # n
      BY <1>1, <1>4, <2>0, <3>3 DEF OneAim
    <3> QED BY <3>1, <3>2, <3>3
  <2>2. CASE ~ up
    <3>1. a # n
      BY <1>3, <1>5, <2>2
    <3>2. built[a] # Absent
      BY <1>4, <3>1
    <3>3. a \notin Done(j)
      BY <1>1, <2>2, <3>2 DEF OneAim
    <3>4. a < n
      BY <1>1, <1>2, <2>0, <2>2, <3>1, <3>3 DEF Resources
    <3>5. m # n
      BY <1>2, <2>0, <3>4 DEF Resources
    <3>6. built[m] # Absent
      BY <1>1, <3>2 DEF OneAim
    <3> QED BY <1>4, <2>0, <3>5, <3>6
  <2> QED BY <2>1, <2>2
<1> QED BY <1>6, <1>7 DEF OneAim

\* A call begins: what another running call may not want as well is contested.
LEMMA BeginCallStep ==
  ASSUME ProvisioningInv, NEW o \in Operators, NEW kind \in {"plan", "apply", "destroy"},
         NEW blueprint \in Blueprints \cup {Absent}, BeginCall(o, kind, blueprint)
  PROVE  ProvisioningInv'
<1> DEFINE new == [NoCall EXCEPT !.kind = kind, !.blueprint = blueprint, !.at = "running",
                               !.calls = call[o].calls + 1]
<1>1. /\ call' = [call EXCEPT ![o] = new] /\ built' = built
      /\ kind = "destroy" <=> blueprint = Absent
      /\ contested' = (contested \/ \E p \in Operators \ {o} :
           Writes(new) /\ Writes(call[p]) /\ Goal(call[p]) # Goal(new))
  BY DEF BeginCall
<1>2. /\ Called(new) /\ new.done = 0 /\ new.kind = kind /\ new.blueprint = blueprint
      /\ new.at = "running" /\ new.quiet = TRUE
  <2>1. <<>> \in Seq(BOOLEAN) /\ 0 \in 0..Provisioners /\ Len(<<>>) = 0
    BY ProvisioningAssumption
  <2>2. call[o].calls + 1 \in Nat
    BY DEF ProvisioningInv, Called, Call
  <2> DEFINE asked == call[o].calls + 1
  <2>3. new = [NoCall EXCEPT !.kind = kind, !.blueprint = blueprint, !.at = "running",
                           !.calls = asked]
    OBVIOUS
  <2> HIDE DEF asked, new
  <2>4. /\ new \in Call /\ new.kind = kind /\ new.blueprint = blueprint /\ new.done = 0
        /\ new.at = "running" /\ new.quiet = TRUE /\ new.changed = <<>>
    BY <2>1, <2>2, <2>3 DEF Call, NoCall, asked
  <2> QED BY <1>1, <2>1, <2>4 DEF Called
<1>3. Done(new) = {}
  BY <1>2, ProvisioningAssumption DEF Done, Resources
<1> HIDE DEF new
<1>4. \A p \in Operators : call'[p] = IF p = o THEN new ELSE call[p]
  BY <1>1 DEF ProvisioningInv
<1>5. DoneAsTold(new, built)
  BY <1>3 DEF DoneAsTold
<1>6. ASSUME ~ contested' PROVE OneAim'
  <2>1. OneAim /\ ~ contested
    BY <1>1, <1>6 DEF ProvisioningInv
  <2>2. \A p \in Operators : p # o /\ Writes(new) /\ Writes(call[p]) => Goal(call[p]) = Goal(new)
    BY <1>1, <1>6
  <2> QED BY <1>1, <1>3, <1>4, <2>1, <2>2 DEF OneAim
<1>7. contested' \in BOOLEAN /\ DOMAIN call' = Operators
  BY <1>1 DEF ProvisioningInv
<1> QED BY <1>1, <1>2, <1>4, <1>5, <1>6, <1>7 DEF ProvisioningInv

\* The record of a call after a provisioner has done its part.
After(j, c) == [j EXCEPT !.done = @ + 1, !.changed = Append(@, c)]

LEMMA NextRecord ==
  ASSUME ProvisioningInv, NEW o \in Operators, call[o].at = "running",
         call[o].done < Provisioners, NEW c \in BOOLEAN
  PROVE  LET next == After(call[o], c) IN
         /\ Called(next) /\ next.kind = call[o].kind /\ next.blueprint = call[o].blueprint
         /\ next.done = call[o].done + 1 /\ next.at = "running" /\ next.quiet = call[o].quiet
         /\ next.changed[call[o].done + 1] = c
         /\ \A i \in 1..call[o].done : next.changed[i] = call[o].changed[i]
<1> DEFINE j == call[o]
           next == After(j, c)
<1>1. /\ Called(j) /\ j.done \in Nat /\ j.changed \in Seq(BOOLEAN) /\ Len(j.changed) = j.done
      /\ j \in Call
  BY ProvisioningAssumption DEF ProvisioningInv, Called, Call
<1>2. j.done + 1 \in 0..Provisioners
  BY <1>1, ProvisioningAssumption
<1>3. /\ Append(j.changed, c) \in Seq(BOOLEAN) /\ Len(Append(j.changed, c)) = j.done + 1
      /\ Append(j.changed, c)[j.done + 1] = c
      /\ \A i \in 1..j.done : Append(j.changed, c)[i] = j.changed[i]
  BY <1>1, AppendProperties
<1> DEFINE answer == Append(j.changed, c)
           count == j.done + 1
<1>4. next = [j EXCEPT !.done = count, !.changed = answer]
  BY DEF After
<1> HIDE DEF answer, count, next
<1>5. /\ next \in Call /\ next.kind = j.kind /\ next.blueprint = j.blueprint
      /\ next.done = count /\ next.at = "running" /\ next.quiet = j.quiet
      /\ next.changed = answer
  BY <1>1, <1>2, <1>3, <1>4 DEF Call, answer, count
<1>6. Called(next)
  BY <1>1, <1>3, <1>5 DEF Called, answer, count
<1> QED BY <1>3, <1>5, <1>6 DEF answer, count, next

LEMMA ProvisionNextStep ==
  ASSUME ProvisioningInv, NEW o \in Operators, ProvisionNext(o)
  PROVE  ProvisioningInv'
<1> DEFINE j == call[o]
           n == Turn(j)
           c == built[n] # Wanted(j)
           next == After(j, c)
<1>1. /\ j.at = "running" /\ j.done < Provisioners /\ contested' = contested
      /\ Called(j) /\ DoneAsTold(j, built) /\ j.kind \in {"plan", "apply", "destroy"}
      /\ built \in [Resources -> Blueprints \cup {Absent, ByHand}]
  BY DEF ProvisionNext, ProvisioningInv, Called, Call
<1>2. /\ Called(next) /\ next.kind = j.kind /\ next.blueprint = j.blueprint
      /\ next.done = j.done + 1 /\ next.at = "running" /\ next.quiet = j.quiet
      /\ next.changed[j.done + 1] = c
      /\ \A i \in 1..j.done : next.changed[i] = j.changed[i]
  <2>1. c \in BOOLEAN
    OBVIOUS
  <2> HIDE DEF c
  <2> QED BY <1>1, <2>1, NextRecord DEF next
<1>3. Wanted(next) = Wanted(j) /\ Goal(next) = Goal(j) /\ (Writes(next) <=> Writes(j))
  BY <1>1, <1>2 DEF Wanted, Goal, Writes
<1>4. /\ n \in Resources /\ n \notin Done(j) /\ Done(next) = Done(j) \cup {n}
      /\ j.kind # "destroy" => n = j.done + 1 /\ Done(j) = 1..j.done
      /\ Done(j) \subseteq Resources
  <2>1. Done(j) \subseteq Resources
    BY DEF Done
  <2> HIDE DEF n, next
  <2>2. /\ Turn(j) \in Resources /\ Turn(j) \notin Done(j) /\ Done(next) = Done(j) \cup {Turn(j)}
        /\ j.kind # "destroy" => Turn(j) = j.done + 1 /\ Done(j) = 1..j.done
    BY <1>1, <1>2, TurnFacts
  <2> QED BY <2>1, <2>2 DEF n
<1>5. CASE Writes(j)
  <2>1. Works(o) /\ call' = [Written(o) EXCEPT ![o] = next]
    <3>1. built' = [built EXCEPT ![n] = Wanted(j)] /\ call' = [Written(o) EXCEPT ![o] = next]
      BY <1>5 DEF ProvisionNext, After
    <3>2. \A p \in Operators \ {o} : call'[p] = Written(o)[p]
      BY <3>1 DEF Written
    <3> QED BY <3>1, <3>2 DEF Works
  <2>2. call'[o] = next /\ DOMAIN call' = Operators
    BY <2>1 DEF Written
  <2> HIDE DEF next
  <2>3. Wanted(j) \in Blueprints \cup {Absent}
    BY <1>1, <1>5 DEF Wanted, Writes, Called
  <2>4. built' \in [Resources -> Blueprints \cup {Absent, ByHand}] /\ built'[n] = Wanted(j)
        /\ \A m \in Done(j) : built'[m] = built[m]
    BY <1>1, <1>4, <2>1, <2>3 DEF Works
  <2>5. DoneAsTold(next, built')
    BY <1>1, <1>2, <1>3, <1>4, <1>5, <2>4 DEF DoneAsTold, Writes
  <2>6. \A p \in Operators : Called(call'[p]) /\ DoneAsTold(call'[p], built')
    BY <1>1, <1>2, <1>5, <2>1, <2>2, <2>5, OthersAfterWork
  <2>7. ~ contested => OneAim'
    BY <1>1, <1>2, <1>5, <2>1, <2>2, AimAfterWork
  <2> QED BY <1>1, <2>2, <2>4, <2>6, <2>7 DEF ProvisioningInv
<1>6. CASE ~ Writes(j)
  <2>1. built' = built /\ call' = [call EXCEPT ![o] = next]
    BY <1>6 DEF ProvisionNext, After
  <2>2. /\ call'[o] = next /\ DOMAIN call' = Operators
        /\ \A p \in Operators : p # o => call'[p] = call[p]
    BY <2>1 DEF ProvisioningInv
  <2>3. j.kind = "plan"
    BY <1>1, <1>6 DEF Writes
  <2> HIDE DEF next
  <2>4. DoneAsTold(next, built)
    <3>1. ASSUME j.quiet, NEW m \in Done(next)
          PROVE  next.changed[m] <=> built[m] # Wanted(j)
      <4>1. CASE m = n
        BY <1>2, <1>4, <2>3, <4>1
      <4>2. CASE m # n
        <5>1. m \in Done(j) /\ m \in 1..j.done
          BY <1>4, <2>3, <4>2
        <5>2. j.changed[m] <=> built[m] # Wanted(j)
          BY <1>1, <2>3, <3>1, <5>1 DEF DoneAsTold
        <5> QED BY <1>2, <5>1, <5>2
      <4> QED BY <4>1, <4>2
    <3> QED BY <1>2, <1>3, <2>3, <3>1 DEF DoneAsTold
  <2>5. ~ contested => OneAim'
    BY <1>3, <1>6, <2>1, <2>2 DEF OneAim, ProvisioningInv
  <2> QED BY <1>1, <1>2, <2>1, <2>2, <2>4, <2>5 DEF ProvisioningInv
<1> QED BY <1>5, <1>6

LEMMA ProvisionRaisesStep ==
  ASSUME ProvisioningInv, NEW o \in Operators, NEW worked \in BOOLEAN,
         ProvisionRaises(o, worked)
  PROVE  ProvisioningInv'
<1> DEFINE j == call[o]
           next == [j EXCEPT !.at = "raised"]
<1>1. /\ j.at = "running" /\ j.done < Provisioners /\ contested' = contested
      /\ Called(j) /\ DoneAsTold(j, built)
      /\ built \in [Resources -> Blueprints \cup {Absent, ByHand}]
  BY DEF ProvisionRaises, ProvisioningInv
<1>2. /\ Called(next) /\ next.kind = j.kind /\ next.blueprint = j.blueprint
      /\ next.done = j.done /\ next.at = "raised" /\ next.quiet = j.quiet
      /\ next.changed = j.changed
  <2>1. /\ next \in Call /\ next.kind = j.kind /\ next.blueprint = j.blueprint
        /\ next.done = j.done /\ next.changed = j.changed
    BY <1>1 DEF Called, Call
  <2> QED BY <1>1, <2>1 DEF Called, Call
<1>3. Wanted(next) = Wanted(j) /\ Done(next) = Done(j) /\ ~ Writes(next)
  BY <1>2 DEF Wanted, Done, Writes
<1>4. CASE worked
  <2>0. Writes(j)
    BY <1>4 DEF ProvisionRaises
  <2>1. Works(o) /\ call' = [Written(o) EXCEPT ![o] = next]
    <3>1. /\ built' = [built EXCEPT ![Turn(j)] = Wanted(j)]
          /\ call' = [Written(o) EXCEPT ![o].at = "raised"]
      BY <1>4 DEF ProvisionRaises
    <3>2. Written(o)[o] = j /\ DOMAIN Written(o) = Operators
      BY DEF Written
    <3>3. call' = [Written(o) EXCEPT ![o] = next]
      BY <3>1, <3>2
    <3>4. \A p \in Operators \ {o} : call'[p] = Written(o)[p]
      BY <3>2, <3>3
    <3> QED BY <3>1, <3>3, <3>4 DEF Works
  <2>2. call'[o] = next /\ DOMAIN call' = Operators
    BY <2>1 DEF Written
  <2> HIDE DEF next
  <2>3. Turn(j) \in Resources /\ Turn(j) \notin Done(j) /\ Done(j) \subseteq Resources
    BY <1>1, TurnFacts
  <2>4. Wanted(j) \in Blueprints \cup {Absent}
    BY <1>1, <2>0 DEF Wanted, Writes, Called
  <2>5. built' \in [Resources -> Blueprints \cup {Absent, ByHand}]
        /\ \A m \in Done(j) : built'[m] = built[m]
    BY <1>1, <2>1, <2>3, <2>4 DEF Works
  <2>6. DoneAsTold(next, built')
    BY <1>1, <1>2, <1>3, <2>5 DEF DoneAsTold
  <2>7. \A p \in Operators : Called(call'[p]) /\ DoneAsTold(call'[p], built')
    BY <1>1, <1>2, <2>0, <2>1, <2>2, <2>6, OthersAfterWork
  <2>8. ~ contested => OneAim'
    BY <1>1, <1>2, <1>3, <2>0, <2>1, <2>2, AimAfterWork
  <2> QED BY <1>1, <2>2, <2>5, <2>7, <2>8 DEF ProvisioningInv
<1>5. CASE ~ worked
  <2>1. built' = built /\ call' = [call EXCEPT ![o] = next]
    BY <1>5 DEF ProvisionRaises
  <2>2. /\ call'[o] = next /\ DOMAIN call' = Operators
        /\ \A p \in Operators : p # o => call'[p] = call[p]
    BY <2>1 DEF ProvisioningInv
  <2> HIDE DEF next
  <2>3. DoneAsTold(next, built)
    BY <1>1, <1>2, <1>3 DEF DoneAsTold
  <2>4. ~ contested => OneAim'
    BY <1>3, <2>1, <2>2 DEF OneAim, ProvisioningInv
  <2> QED BY <1>1, <1>2, <2>1, <2>2, <2>3, <2>4 DEF ProvisioningInv
<1> QED BY <1>4, <1>5

LEMMA ProvisionReturnsStep ==
  ASSUME ProvisioningInv, NEW o \in Operators, ProvisionReturns(o)
  PROVE  ProvisioningInv'
<1> DEFINE j == call[o]
           next == [j EXCEPT !.at = "returned"]
<1>1. /\ j.done = Provisioners /\ contested' = contested /\ built' = built
      /\ Called(j) /\ DoneAsTold(j, built) /\ call' = [call EXCEPT ![o] = next]
  BY DEF ProvisionReturns, ProvisioningInv
<1>2. /\ Called(next) /\ next.kind = j.kind /\ next.blueprint = j.blueprint
      /\ next.done = j.done /\ next.at = "returned" /\ next.quiet = j.quiet
      /\ next.changed = j.changed
  <2>1. /\ next \in Call /\ next.kind = j.kind /\ next.blueprint = j.blueprint
        /\ next.done = j.done /\ next.changed = j.changed
    BY <1>1 DEF Called, Call
  <2> QED BY <1>1, <2>1 DEF Called, Call
<1>3. Wanted(next) = Wanted(j) /\ Done(next) = Done(j) /\ ~ Writes(next)
  BY <1>2 DEF Wanted, Done, Writes
<1>4. /\ call'[o] = next /\ DOMAIN call' = Operators
      /\ \A p \in Operators : p # o => call'[p] = call[p]
  BY <1>1 DEF ProvisioningInv
<1> HIDE DEF next
<1>5. DoneAsTold(next, built)
  BY <1>1, <1>2, <1>3 DEF DoneAsTold
<1>6. ~ contested => OneAim'
  BY <1>1, <1>3, <1>4 DEF OneAim, ProvisioningInv
<1> QED BY <1>1, <1>2, <1>4, <1>5, <1>6 DEF ProvisioningInv

\* What is changed by hand stays there, and nobody counts on it any more.
LEMMA ChangeByHandStep ==
  ASSUME ProvisioningInv, NEW n \in Resources, ChangeByHand(n)
  PROVE  ProvisioningInv'
<1>1. /\ built[n] \in Blueprints /\ built' = [built EXCEPT ![n] = ByHand]
      /\ contested' = contested
      /\ built \in [Resources -> Blueprints \cup {Absent, ByHand}]
  BY DEF ChangeByHand, ProvisioningInv
<1>2. ASSUME NEW o \in Operators
      PROVE  /\ Called(call'[o]) /\ call'[o].quiet = FALSE
             /\ Writes(call'[o]) = Writes(call[o]) /\ Goal(call'[o]) = Goal(call[o])
             /\ Done(call'[o]) = Done(call[o]) /\ call'[o].kind = call[o].kind
  <2>1. call'[o] = [call[o] EXCEPT !.quiet = FALSE] /\ Called(call[o])
    BY DEF ChangeByHand, ProvisioningInv
  <2>2. /\ call'[o] \in Call /\ call'[o].kind = call[o].kind
        /\ call'[o].blueprint = call[o].blueprint /\ call'[o].done = call[o].done
        /\ call'[o].changed = call[o].changed /\ call'[o].at = call[o].at /\ call'[o].quiet = FALSE
    BY <2>1 DEF Called, Call
  <2> QED BY <2>1, <2>2 DEF Called, Writes, Goal, Done
<1>3. built' \in [Resources -> Blueprints \cup {Absent, ByHand}]
      /\ \A m \in Resources : built'[m] = Absent <=> built[m] = Absent
  BY <1>1, ProvisioningAssumption
<1>4. ~ contested => OneAim'
  <2> SUFFICES ASSUME OneAim PROVE OneAim'
    BY DEF ProvisioningInv
  <2>1. \A o \in Operators : Done(call[o]) \subseteq Resources
    BY DEF Done
  <2>2. \A a \in Resources : 1..a \subseteq Resources
    BY ProvisioningAssumption DEF Resources
  <2> QED BY <1>2, <1>3, <2>1, <2>2 DEF OneAim
<1>5. DOMAIN call' = Operators
  BY DEF ChangeByHand
<1> QED BY <1>1, <1>2, <1>3, <1>4, <1>5 DEF ProvisioningInv, DoneAsTold

\* In every behaviour, with any number of operators and provisioners that fail.
THEOREM ProvisioningCorrect == ProvisioningSpec => []ProvisioningInv
<1>1. ProvisioningInv /\ [ProvisioningNext]_provisionVars => ProvisioningInv'
  <2> SUFFICES ASSUME ProvisioningInv, [ProvisioningNext]_provisionVars PROVE ProvisioningInv'
    OBVIOUS
  <2>1. CASE UNCHANGED provisionVars
    BY <2>1 DEF provisionVars, ProvisioningInv, OneAim
  <2>2. ASSUME NEW o \in Operators, NEW b \in Blueprints,
               BeginCall(o, "plan", b) \/ BeginCall(o, "apply", b)
        PROVE  ProvisioningInv'
    BY <2>2, BeginCallStep
  <2>3. ASSUME NEW o \in Operators, BeginCall(o, "destroy", Absent)
        PROVE  ProvisioningInv'
    BY <2>3, BeginCallStep
  <2> QED BY <2>1, <2>2, <2>3, ProvisionNextStep, ProvisionRaisesStep, ProvisionReturnsStep,
             ChangeByHandStep DEF ProvisioningNext
<1> QED BY <1>1, ProvisioningInitial, PTL DEF ProvisioningSpec

\* A repeated call of the provisioner converges, whatever failed before and
\* whoever else is at work, and a plan tells the truth
\* (saap/tenancy/provisioner.py).
THEOREM RetriesConverge == ProvisioningSpec => []RetryConverges
<1>1. ProvisioningInv => RetryConverges
  <2> SUFFICES ASSUME ProvisioningInv PROVE RetryConverges
    OBVIOUS
  <2>1. ASSUME NEW o \in Operators, call[o].at = "returned", call[o].kind # "none"
        PROVE  Done(call[o]) = Resources
    <3>1. call[o].done = Provisioners /\ Provisioners \in Nat
      BY <2>1, ProvisioningAssumption DEF ProvisioningInv, Called
    <3> QED BY <3>1 DEF Done, Resources
  <2> QED BY <2>1 DEF ProvisioningInv, OneAim, DoneAsTold, RetryConverges
<1> QED BY <1>1, ProvisioningCorrect, PTL

-----------------------------------------------------------------------------
(* MCP servers: slots and timelines are what the journal says of them.      *)

Entry == [agent : Agents, tool : {"book_slot", "cancel_slot", "create_contact", "log_activity"},
          on : Slots \cup {NoSuchSlot} \cup Nat, ok : BOOLEAN]

ServersTyped ==
  /\ bookedBy \in [Slots -> Agents \cup {NobodyHas}]
  /\ contacts \in Nat
  /\ activities \in Seq(Seq(Nat)) /\ Len(activities) = contacts
  /\ journal \in Seq(Entry)
  /\ told \in [Agents -> SUBSET Nat]

Books(s) == Succeeded("book_slot", s)
Cancels(s) == Succeeded("cancel_slot", s)

\* A slot is held by the last who booked it, unless it was cancelled since.
HeldByLast(s) ==
  /\ bookedBy[s] # NobodyHas =>
       \E n \in Books(s) : journal[n].agent = bookedBy[s] /\ \A k \in Cancels(s) : k < n
  /\ bookedBy[s] = NobodyHas => \A n \in Books(s) : \E k \in Cancels(s) : n < k

OneAtATime(s) ==
  \A m, n \in Books(s) : m < n => \E k \in Cancels(s) : m < k /\ k < n

\* What the reply n told its agent a stays true.
ReplyHolds(a, n) ==
  /\ n \in DOMAIN journal /\ journal[n].agent = a
  /\ journal[n].tool = "book_slot" /\ journal[n].on \in Slots =>
       IF journal[n].ok
       THEN bookedBy[journal[n].on] = a \/ \E k \in Cancels(journal[n].on) : k > n
       ELSE \E m \in Books(journal[n].on) :
              m < n /\ \A k \in Cancels(journal[n].on) : k < m \/ k > n

\* The timeline of contact k.
Timeline(k) ==
  /\ {activities[k][i] : i \in DOMAIN activities[k]} = Succeeded("log_activity", k)
  /\ \A i, j \in DOMAIN activities[k] : i < j => activities[k][i] < activities[k][j]

ServersInv ==
  /\ ServersTyped
  /\ \A s \in Slots : HeldByLast(s) /\ OneAtATime(s)
  /\ \A a \in Agents : \A n \in told[a] : ReplyHolds(a, n)
  /\ \A k \in 1..contacts : Timeline(k)
  /\ \A n \in DOMAIN journal :
       journal[n].tool = "log_activity" /\ journal[n].ok => journal[n].on \in 1..contacts

McpServersSpec == McpServersInit /\ [][McpServersNext]_mcpServerVars

LEMMA ServersInitial == McpServersInit => ServersInv
<1> SUFFICES ASSUME McpServersInit PROVE ServersInv
  OBVIOUS
<1>1. /\ journal = <<>> /\ activities = <<>> /\ contacts = 0
      /\ \A tool, on : Succeeded(tool, on) = {}
  BY DEF McpServersInit, Succeeded
<1>2. ServersTyped
  BY <1>1 DEF McpServersInit, ServersTyped
<1> QED BY <1>1, <1>2 DEF McpServersInit, ServersInv, HeldByLast, OneAtATime, Books, Cancels

\* A request adds one entry to the journal, and with it to one set of
\* successes, if it succeeds.
Grew(a, tool, on, ok) ==
  LET new == Len(journal) + 1 IN
  /\ new \in Nat /\ journal' \in Seq(Entry) /\ DOMAIN journal' = 1..new
  /\ DOMAIN journal = 1..Len(journal)
  /\ \A n \in 1..Len(journal) : journal'[n] = journal[n]
  /\ journal'[new].agent = a /\ journal'[new].tool = tool /\ journal'[new].on = on
  /\ (ok => journal'[new].ok = TRUE) /\ (~ ok => journal'[new].ok = FALSE)
  /\ told' \in [Agents -> SUBSET Nat]
  /\ \A b \in Agents : \A n \in told'[b] : n \in told[b] \/ (b = a /\ n = new)
  /\ \A t, x : Succeeded(t, x)' =
       IF t = tool /\ x = on /\ ok THEN Succeeded(t, x) \cup {new} ELSE Succeeded(t, x)
  /\ \A t, x : Succeeded(t, x) \subseteq 1..Len(journal)

\* Whatever it asked and whether it succeeded, nothing else of the past changes.
Longer(a) ==
  LET new == Len(journal) + 1 IN
  /\ Len(journal) \in Nat /\ DOMAIN journal' = 1..new /\ DOMAIN journal = 1..Len(journal)
  /\ \A n \in 1..Len(journal) : journal'[n] = journal[n]
  /\ \A b \in Agents : \A n \in told'[b] : n \in told[b] \/ (b = a /\ n = new)
  /\ \A t, x : /\ Succeeded(t, x) \subseteq Succeeded(t, x)'
               /\ Succeeded(t, x)' \subseteq Succeeded(t, x) \cup {new}

Tools == {"book_slot", "cancel_slot", "create_contact", "log_activity"}

LEMMA ExecuteFacts ==
  ASSUME ServersInv, NEW a \in Agents, NEW tool \in Tools,
         NEW on \in Slots \cup {NoSuchSlot} \cup Nat, NEW ok \in BOOLEAN, NEW arrives \in BOOLEAN,
         Execute(a, tool, on, ok, arrives)
  PROVE  Grew(a, tool, on, ok) /\ Longer(a)
<1> DEFINE new == Len(journal) + 1
           entry == [agent |-> a, tool |-> tool, on |-> on, ok |-> ok]
<1>1. journal \in Seq(Entry) /\ entry \in Entry /\ Len(journal) \in Nat
  BY DEF ServersInv, ServersTyped, Entry, Tools
<1>2. journal' = Append(journal, entry)
  BY DEF Execute
<1>3. /\ journal' \in Seq(Entry) /\ Len(journal') = new /\ journal'[new] = entry
      /\ \A n \in 1..Len(journal) : journal'[n] = journal[n]
      /\ DOMAIN journal = 1..Len(journal) /\ DOMAIN journal' = 1..new
  <2> HIDE DEF entry
  <2> QED BY <1>1, <1>2, AppendProperties
<1>4. told' = [told EXCEPT ![a] = @ \cup {new}] \/ told' = told
  BY <1>3 DEF Execute
<1>5. told \in [Agents -> SUBSET Nat]
  BY DEF ServersInv, ServersTyped
<1>6. \A t, x : Succeeded(t, x)' =
        IF t = tool /\ x = on /\ ok THEN Succeeded(t, x) \cup {new} ELSE Succeeded(t, x)
  BY <1>1, <1>3 DEF Succeeded
<1>7. \A t, x : Succeeded(t, x) \subseteq 1..Len(journal)
  BY <1>3 DEF Succeeded
<1>8. /\ told' \in [Agents -> SUBSET Nat]
      /\ \A b \in Agents : \A n \in told'[b] : n \in told[b] \/ (b = a /\ n = new)
  BY <1>1, <1>4, <1>5
<1>9. /\ journal'[new].agent = a /\ journal'[new].tool = tool /\ journal'[new].on = on
      /\ (ok => journal'[new].ok = TRUE) /\ (~ ok => journal'[new].ok = FALSE)
  BY <1>3
<1>10. Grew(a, tool, on, ok)
  BY <1>1, <1>3, <1>6, <1>7, <1>8, <1>9 DEF Grew
<1>11. Longer(a)
  BY <1>1, <1>3, <1>6, <1>8 DEF Longer
<1> QED BY <1>10, <1>11

\* The timelines of the CRM do not depend on the calendar.
LEMMA TimelinesKept ==
  ASSUME ServersInv, NEW a, NEW tool, NEW on, NEW ok, Grew(a, tool, on, ok),
         tool # "log_activity", UNCHANGED <<activities, contacts>>
  PROVE  /\ \A k \in 1..contacts' : Timeline(k)'
         /\ \A n \in DOMAIN journal' :
              journal'[n].tool = "log_activity" /\ journal'[n].ok => journal'[n].on \in 1..contacts'
<1>1. \A k \in 1..contacts : Timeline(k)'
  BY DEF ServersInv, Timeline, Grew
<1>2. ASSUME NEW n \in DOMAIN journal', journal'[n].tool = "log_activity", journal'[n].ok
      PROVE  journal'[n].on \in 1..contacts'
  <2>1. n \in 1..Len(journal) \/ n = Len(journal) + 1
    BY DEF Grew
  <2>2. n # Len(journal) + 1
    BY <1>2 DEF Grew
  <2> QED BY <1>2, <2>1, <2>2 DEF ServersInv, Grew
<1> QED BY <1>1, <1>2

\* What agents were told stays true, whoever books or cancels next.
LEMMA RepliesKept ==
  ASSUME ServersInv, NEW a, Longer(a),
         \A s \in Slots : \/ bookedBy'[s] = bookedBy[s]
                         \/ bookedBy[s] = NobodyHas
                         \/ Len(journal) + 1 \in Cancels(s)',
         NEW b \in Agents, NEW n \in told[b]
  PROVE  ReplyHolds(b, n)'
<1>1. /\ ReplyHolds(b, n) /\ n \in 1..Len(journal) /\ journal'[n] = journal[n]
      /\ n \in DOMAIN journal' /\ Len(journal) \in Nat /\ b # NobodyHas
  <2>1. ReplyHolds(b, n) /\ Len(journal) \in Nat /\ b # NobodyHas
    BY SlotsAssumption DEF ServersInv, ServersTyped
  <2>2. n \in 1..Len(journal)
    BY <2>1 DEF ReplyHolds, Longer
  <2> QED BY <2>1, <2>2 DEF Longer
<1>2. SUFFICES ASSUME journal[n].tool = "book_slot", journal[n].on \in Slots
               PROVE  LET s == journal[n].on IN
                      IF journal[n].ok
                      THEN bookedBy'[s] = b \/ \E k \in Cancels(s)' : k > n
                      ELSE \E m \in Books(s)' : m < n /\ \A k \in Cancels(s)' : k < m \/ k > n
  BY <1>1 DEF ReplyHolds, Books, Cancels
<1> DEFINE s == journal[n].on
<1>3. /\ Books(s) \subseteq Books(s)' /\ Cancels(s) \subseteq Cancels(s)'
      /\ \A k \in Cancels(s)' : k \in Cancels(s) \/ k > n
      /\ Len(journal) + 1 > n
  BY <1>1 DEF Longer, Books, Cancels
<1>4. CASE journal[n].ok
  BY <1>1, <1>2, <1>3, <1>4 DEF ReplyHolds
<1>5. CASE ~ journal[n].ok
  <2>1. PICK m \in Books(s) : m < n /\ \A k \in Cancels(s) : k < m \/ k > n
    BY <1>1, <1>2, <1>5 DEF ReplyHolds
  <2> QED BY <1>3, <1>5, <2>1
<1> QED BY <1>4, <1>5

\* A request about a slot: the slots it is not about stay as they are.
LEMMA OtherSlotsKept ==
  ASSUME ServersInv, NEW a, NEW tool, NEW on, NEW ok \in BOOLEAN, Grew(a, tool, on, ok),
         NEW s \in Slots, bookedBy'[s] = bookedBy[s],
         on # s \/ ~ ok \/ tool \notin {"book_slot", "cancel_slot"}
  PROVE  HeldByLast(s)' /\ OneAtATime(s)'
<1>1. Books(s)' = Books(s) /\ Cancels(s)' = Cancels(s)
  BY DEF Grew, Books, Cancels
<1>2. Books(s) \subseteq 1..Len(journal) /\ \A n \in Books(s) : journal'[n] = journal[n]
  BY DEF Grew, Books
<1> QED BY <1>1, <1>2 DEF ServersInv, HeldByLast, OneAtATime

LEMMA BookSlotStep ==
  ASSUME ServersInv, NEW a \in Agents, NEW s \in Slots \cup {NoSuchSlot}, NEW arrives \in BOOLEAN,
         BookSlot(a, s, arrives)
  PROVE  ServersInv'
<1> DEFINE free == s \in Slots /\ bookedBy[s] = NobodyHas
           new == Len(journal) + 1
<1>1. /\ bookedBy' = IF free THEN [bookedBy EXCEPT ![s] = a] ELSE bookedBy
      /\ UNCHANGED <<contacts, activities>> /\ free \in BOOLEAN
  BY DEF BookSlot
<1>2. Grew(a, "book_slot", s, free) /\ Longer(a)
  BY <1>1, ExecuteFacts DEF BookSlot, Tools
<1>3. /\ bookedBy \in [Slots -> Agents \cup {NobodyHas}] /\ Len(journal) \in Nat
      /\ NobodyHas \notin Agents /\ NoSuchSlot \notin Slots
  BY SlotsAssumption DEF ServersInv, ServersTyped
<1>4. /\ \A t \in Slots : t # s \/ ~ free => bookedBy'[t] = bookedBy[t]
      /\ free => bookedBy'[s] = a
  BY <1>1, <1>3
<1>5. ServersTyped'
  BY <1>1, <1>2, <1>3 DEF ServersInv, ServersTyped, Grew
<1>6. ASSUME free PROVE HeldByLast(s)' /\ OneAtATime(s)'
  <2>1. /\ Books(s)' = Books(s) \cup {new} /\ Cancels(s)' = Cancels(s)
        /\ Books(s) \subseteq 1..Len(journal) /\ Cancels(s) \subseteq 1..Len(journal)
        /\ journal'[new].agent = a
    BY <1>2, <1>6 DEF Grew, Books, Cancels
  <2>2. \A n \in Books(s) : \E k \in Cancels(s) : n < k
    BY <1>6 DEF ServersInv, HeldByLast
  <2>3. HeldByLast(s)'
    BY <1>3, <1>4, <1>6, <2>1 DEF HeldByLast
  <2>4. ASSUME NEW m \in Books(s)', NEW n \in Books(s)', m < n
        PROVE  \E k \in Cancels(s)' : m < k /\ k < n
    <3>1. CASE n = new
      BY <1>3, <2>1, <2>2, <2>4, <3>1
    <3>2. CASE n # new
      BY <1>3, <1>6, <2>1, <2>4, <3>2 DEF ServersInv, OneAtATime
    <3> QED BY <3>1, <3>2
  <2> QED BY <2>3, <2>4 DEF OneAtATime
<1>7. \A t \in Slots : HeldByLast(t)' /\ OneAtATime(t)'
  BY <1>1, <1>2, <1>4, <1>6, OtherSlotsKept
<1>8. ASSUME NEW b \in Agents, NEW n \in told'[b] PROVE ReplyHolds(b, n)'
  <2>1. CASE n \in told[b]
    <3>1. \A t \in Slots : bookedBy'[t] = bookedBy[t] \/ bookedBy[t] = NobodyHas
      BY <1>4
    <3> QED BY <1>2, <2>1, <3>1, RepliesKept
  <2>2. CASE b = a /\ n = new
    <3>1. /\ n \in DOMAIN journal'
          /\ journal'[n].agent = a /\ journal'[n].tool = "book_slot" /\ journal'[n].on = s
      BY <1>2, <1>3, <2>2 DEF Grew
    <3>2. ASSUME s \in Slots, ~ free
          PROVE  \E m \in Books(s)' : m < n /\ \A k \in Cancels(s)' : k < m \/ k > n
      <4>1. PICK m \in Books(s) : \A k \in Cancels(s) : k < m
        BY <3>2 DEF ServersInv, HeldByLast
      <4>2. Books(s)' = Books(s) /\ Cancels(s)' = Cancels(s) /\ Books(s) \subseteq 1..Len(journal)
        BY <1>2, <3>2 DEF Grew, Books, Cancels
      <4> QED BY <1>3, <2>2, <4>1, <4>2
    <3>3. CASE free
      <4>1. bookedBy'[s] = a /\ s \in Slots /\ b = a
        BY <1>4, <2>2, <3>3
      <4>2. journal'[n].ok = TRUE
        BY <1>2, <2>2, <3>3 DEF Grew
      <4> QED BY <3>1, <4>1, <4>2 DEF ReplyHolds
    <3>4. CASE ~ free
      <4>1. journal'[n].ok = FALSE
        BY <1>2, <2>2, <3>4 DEF Grew
      <4> QED BY <2>2, <3>1, <3>2, <3>4, <4>1 DEF ReplyHolds, Books, Cancels
    <3> QED BY <3>3, <3>4
  <2> QED BY <1>2, <1>8, <2>1, <2>2 DEF Longer
<1>9. /\ \A k \in 1..contacts' : Timeline(k)'
      /\ \A n \in DOMAIN journal' :
           journal'[n].tool = "log_activity" /\ journal'[n].ok => journal'[n].on \in 1..contacts'
  BY <1>1, <1>2, TimelinesKept
<1> QED BY <1>5, <1>7, <1>8, <1>9 DEF ServersInv

LEMMA CancelSlotStep ==
  ASSUME ServersInv, NEW a \in Agents, NEW s \in Slots \cup {NoSuchSlot}, NEW arrives \in BOOLEAN,
         CancelSlot(a, s, arrives)
  PROVE  ServersInv'
<1> DEFINE booked == s \in Slots /\ bookedBy[s] # NobodyHas
           new == Len(journal) + 1
<1>1. /\ bookedBy' = IF booked THEN [bookedBy EXCEPT ![s] = NobodyHas] ELSE bookedBy
      /\ UNCHANGED <<contacts, activities>> /\ booked \in BOOLEAN
  BY DEF CancelSlot
<1>2. Grew(a, "cancel_slot", s, booked) /\ Longer(a)
  BY <1>1, ExecuteFacts DEF CancelSlot, Tools
<1>3. /\ bookedBy \in [Slots -> Agents \cup {NobodyHas}] /\ Len(journal) \in Nat
      /\ NobodyHas \notin Agents /\ NoSuchSlot \notin Slots
  BY SlotsAssumption DEF ServersInv, ServersTyped
<1>4. /\ \A t \in Slots : t # s \/ ~ booked => bookedBy'[t] = bookedBy[t]
      /\ booked => bookedBy'[s] = NobodyHas
  BY <1>1, <1>3
<1>5. ServersTyped'
  BY <1>1, <1>2, <1>3 DEF ServersInv, ServersTyped, Grew
<1>6. ASSUME booked PROVE HeldByLast(s)' /\ OneAtATime(s)'
  <2>1. /\ Books(s)' = Books(s) /\ Cancels(s)' = Cancels(s) \cup {new}
        /\ Books(s) \subseteq 1..Len(journal)
    BY <1>2, <1>6 DEF Grew, Books, Cancels
  <2>2. HeldByLast(s)'
    <3>1. bookedBy'[s] = NobodyHas /\ new \in Cancels(s)' /\ \A n \in Books(s)' : n < new
      BY <1>3, <1>4, <1>6, <2>1
    <3> QED BY <3>1 DEF HeldByLast
  <2>3. OneAtATime(s)'
    BY <1>6, <2>1 DEF ServersInv, OneAtATime
  <2> QED BY <2>2, <2>3
<1>7. \A t \in Slots : HeldByLast(t)' /\ OneAtATime(t)'
  BY <1>1, <1>2, <1>4, <1>6, OtherSlotsKept
<1>8. ASSUME NEW b \in Agents, NEW n \in told'[b] PROVE ReplyHolds(b, n)'
  <2>1. CASE n \in told[b]
    <3>1. booked => new \in Cancels(s)'
      BY <1>2 DEF Grew, Cancels
    <3>2. \A t \in Slots : bookedBy'[t] = bookedBy[t] \/ new \in Cancels(t)'
      BY <1>4, <3>1
    <3> QED BY <1>2, <2>1, <3>2, RepliesKept
  <2>2. CASE b = a /\ n = new
    <3>1. /\ n \in DOMAIN journal'
          /\ journal'[n].agent = a /\ journal'[n].tool = "cancel_slot"
      BY <1>2, <1>3, <2>2 DEF Grew
    <3> QED BY <2>2, <3>1 DEF ReplyHolds
  <2> QED BY <1>2, <1>8, <2>1, <2>2 DEF Longer
<1>9. /\ \A k \in 1..contacts' : Timeline(k)'
      /\ \A n \in DOMAIN journal' :
           journal'[n].tool = "log_activity" /\ journal'[n].ok => journal'[n].on \in 1..contacts'
  BY <1>1, <1>2, TimelinesKept
<1> QED BY <1>5, <1>7, <1>8, <1>9 DEF ServersInv

\* The slots do not depend on the CRM.
LEMMA SlotsKept ==
  ASSUME ServersInv, NEW a \in Agents, NEW tool \in {"create_contact", "log_activity"},
         NEW on, NEW ok \in BOOLEAN, Grew(a, tool, on, ok), Longer(a), UNCHANGED bookedBy
  PROVE  /\ \A s \in Slots : HeldByLast(s)' /\ OneAtATime(s)'
         /\ \A b \in Agents : \A n \in told'[b] : ReplyHolds(b, n)'
<1>1. \A s \in Slots : HeldByLast(s)' /\ OneAtATime(s)'
  BY OtherSlotsKept
<1>2. ASSUME NEW b \in Agents, NEW n \in told'[b] PROVE ReplyHolds(b, n)'
  <2>1. CASE n \in told[b]
    BY <2>1, RepliesKept
  <2>2. CASE b = a /\ n = Len(journal) + 1
    <3>1. /\ n \in DOMAIN journal'
          /\ journal'[n].agent = a /\ journal'[n].tool = tool
      BY <2>2 DEF Grew
    <3> QED BY <2>2, <3>1 DEF ReplyHolds
  <2> QED BY <1>2, <2>1, <2>2 DEF Longer
<1> QED BY <1>1, <1>2

LEMMA CreateContactStep ==
  ASSUME ServersInv, NEW a \in Agents, CreateContact(a)
  PROVE  ServersInv'
<1> DEFINE k == contacts + 1
<1>1. /\ contacts' = k /\ activities' = Append(activities, <<>>) /\ UNCHANGED bookedBy
      /\ Execute(a, "create_contact", k, TRUE, TRUE)
  BY DEF CreateContact
<1>2. /\ contacts \in Nat /\ activities \in Seq(Seq(Nat)) /\ Len(activities) = contacts
      /\ <<>> \in Seq(Nat)
  BY DEF ServersInv, ServersTyped
<1>3. Grew(a, "create_contact", k, TRUE) /\ Longer(a)
  <2>1. k \in Slots \cup {NoSuchSlot} \cup Nat
    BY <1>2
  <2> HIDE DEF k
  <2> QED BY <1>1, <2>1, ExecuteFacts DEF Tools
<1>4. /\ activities' \in Seq(Seq(Nat)) /\ Len(activities') = k /\ activities'[k] = <<>>
      /\ \A i \in 1..contacts : activities'[i] = activities[i]
  BY <1>1, <1>2, AppendProperties
<1>5. ServersTyped'
  BY <1>1, <1>2, <1>3, <1>4 DEF ServersInv, ServersTyped, Grew
<1>6. \A x : Succeeded("log_activity", x)' = Succeeded("log_activity", x)
  BY <1>3 DEF Grew
<1>7. ASSUME NEW i \in 1..contacts' PROVE Timeline(i)'
  <2>1. CASE i = k
    <3>1. Succeeded("log_activity", k) = {}
      BY <1>2 DEF ServersInv, Succeeded
    <3> QED BY <1>4, <1>6, <2>1, <3>1 DEF Timeline
  <2>2. CASE i # k
    <3>1. i \in 1..contacts
      BY <1>1, <1>2, <2>2
    <3> QED BY <1>4, <1>6, <3>1 DEF ServersInv, Timeline
  <2> QED BY <2>1, <2>2
<1>8. ASSUME NEW n \in DOMAIN journal', journal'[n].tool = "log_activity", journal'[n].ok
      PROVE  journal'[n].on \in 1..contacts'
  <2>1. n \in 1..Len(journal)
    BY <1>3, <1>8 DEF Grew
  <2>2. journal[n].on \in 1..contacts /\ journal'[n] = journal[n]
    BY <1>3, <1>8, <2>1 DEF ServersInv, Grew
  <2> QED BY <1>1, <1>2, <2>2
<1>9. /\ \A s \in Slots : HeldByLast(s)' /\ OneAtATime(s)'
      /\ \A b \in Agents : \A n \in told'[b] : ReplyHolds(b, n)'
  BY <1>1, <1>3, SlotsKept
<1> QED BY <1>5, <1>7, <1>8, <1>9 DEF ServersInv

LEMMA LogActivityStep ==
  ASSUME ServersInv, NEW a \in Agents, NEW k \in 1..contacts + 1, LogActivity(a, k)
  PROVE  ServersInv'
<1> DEFINE known == k \in 1..contacts
           new == Len(journal) + 1
<1>1. /\ known => activities' = [activities EXCEPT ![k] = Append(activities[k], new)]
      /\ ~ known => activities' = activities
      /\ UNCHANGED <<bookedBy, contacts>>
  BY DEF LogActivity
<1>2. /\ contacts \in Nat /\ activities \in Seq(Seq(Nat)) /\ Len(activities) = contacts
      /\ Len(journal) \in Nat /\ k \in Nat
  <2>1. /\ contacts \in Nat /\ activities \in Seq(Seq(Nat)) /\ Len(activities) = contacts
        /\ journal \in Seq(Entry)
    BY DEF ServersInv, ServersTyped
  <2> QED BY <2>1
<1>3. Grew(a, "log_activity", k, known) /\ Longer(a)
  <2>1. known \in BOOLEAN
    OBVIOUS
  <2>2. k \in Slots \cup {NoSuchSlot} \cup Nat /\ "log_activity" \in Tools
    BY <1>2 DEF Tools
  <2> QED BY <2>1, <2>2, ExecuteFacts DEF LogActivity
<1>4. /\ activities' \in Seq(Seq(Nat)) /\ Len(activities') = contacts
      /\ \A i \in 1..contacts : i # k \/ ~ known => activities'[i] = activities[i]
      /\ known => /\ activities[k] \in Seq(Nat)
                  /\ activities'[k] = Append(activities[k], new)
  <2>1. CASE known
    <3>1. activities[k] \in Seq(Nat) /\ Append(activities[k], new) \in Seq(Nat)
      BY <1>2, <2>1
    <3> DEFINE longer == Append(activities[k], new)
    <3>2. activities' = [activities EXCEPT ![k] = longer] /\ longer \in Seq(Nat) /\ k \in 1..Len(activities)
      BY <1>1, <1>2, <2>1, <3>1
    <3> HIDE DEF longer
    <3>3. activities' \in Seq(Seq(Nat)) /\ Len(activities') = Len(activities)
      BY <1>2, <3>2
    <3>4. \A i \in 1..contacts : activities'[i] = IF i = k THEN longer ELSE activities[i]
      BY <1>2, <3>2
    <3> QED BY <1>2, <2>1, <3>1, <3>3, <3>4 DEF longer
  <2>2. CASE ~ known
    BY <1>1, <1>2, <2>2
  <2> QED BY <2>1, <2>2
<1>5. ServersTyped'
  BY <1>1, <1>2, <1>3, <1>4 DEF ServersInv, ServersTyped, Grew
<1>6. \A x : Succeeded("log_activity", x)' =
        IF x = k /\ known THEN Succeeded("log_activity", x) \cup {new}
        ELSE Succeeded("log_activity", x)
  BY <1>3 DEF Grew
<1>7. ASSUME NEW i \in 1..contacts' PROVE Timeline(i)'
  <2>1. Timeline(i) /\ i \in 1..contacts
    BY <1>1 DEF ServersInv
  <2>2. CASE i = k /\ known
    <3> DEFINE old == activities[k]
    <3>1. /\ old \in Seq(Nat) /\ activities'[k] = Append(old, new)
      BY <1>4, <2>2
    <3>2. /\ {old[m] : m \in 1..Len(old)} = Succeeded("log_activity", k)
          /\ \A m, n \in 1..Len(old) : m < n => old[m] < old[n]
      <4>1. DOMAIN old = 1..Len(old) /\ Timeline(k)
        BY <2>1, <2>2, <3>1, LenProperties
      <4> QED BY <4>1 DEF Timeline
    <3>3. \A m \in 1..Len(old) : old[m] \in 1..Len(journal)
      <4>1. Succeeded("log_activity", k) \subseteq 1..Len(journal)
        BY <1>3 DEF Grew
      <4> HIDE DEF old
      <4> QED BY <3>2, <4>1
    <3>4. /\ DOMAIN activities'[k] = 1..(Len(old) + 1) /\ activities'[k][Len(old) + 1] = new
          /\ \A m \in 1..Len(old) : activities'[k][m] = old[m]
          /\ Len(old) \in Nat
      <4>1. new \in Nat
        BY <1>2
      <4> HIDE DEF old, new
      <4> QED BY <3>1, <4>1, AppendProperties, LenProperties
    <3> HIDE DEF old
    <3>5. {activities'[k][m] : m \in DOMAIN activities'[k]}
            = {old[m] : m \in 1..Len(old)} \cup {new}
      <4> HIDE DEF new
      <4> QED BY <3>4
    <3>6. \A m, n \in DOMAIN activities'[k] : m < n => activities'[k][m] < activities'[k][n]
      <4> SUFFICES ASSUME NEW m \in 1..Len(old) + 1, NEW n \in 1..Len(old) + 1, m < n
                   PROVE  activities'[k][m] < activities'[k][n]
        BY <3>4
      <4>1. m \in 1..Len(old)
        BY <3>4
      <4>2. CASE n = Len(old) + 1
        <5>1. old[m] \in 1..Len(journal) /\ activities'[k][m] = old[m] /\ activities'[k][n] = new
          BY <3>3, <3>4, <4>1, <4>2
        <5> QED BY <1>2, <5>1
      <4>3. CASE n # Len(old) + 1
        BY <3>2, <3>4, <4>1, <4>3
      <4> QED BY <4>2, <4>3
    <3> QED BY <1>6, <2>2, <3>2, <3>5, <3>6 DEF Timeline
  <2>3. CASE ~ (i = k /\ known)
    <3>1. activities'[i] = activities[i] /\ Succeeded("log_activity", i)' = Succeeded("log_activity", i)
      BY <1>4, <1>6, <2>1, <2>3
    <3> QED BY <2>1, <3>1 DEF Timeline
  <2> QED BY <2>2, <2>3
<1>8. ASSUME NEW n \in DOMAIN journal', journal'[n].tool = "log_activity", journal'[n].ok
      PROVE  journal'[n].on \in 1..contacts'
  <2>1. CASE n = new
    <3>1. known /\ journal'[n].on = k
      BY <1>3, <1>8, <2>1 DEF Grew
    <3> QED BY <1>1, <3>1
  <2>2. CASE n # new
    <3>1. n \in 1..Len(journal)
      BY <1>2, <1>3, <2>2 DEF Grew
    <3>2. journal'[n] = journal[n] /\ n \in DOMAIN journal
      BY <1>3, <3>1 DEF Grew
    <3> QED BY <1>1, <1>8, <3>2 DEF ServersInv
  <2> QED BY <2>1, <2>2
<1>9. /\ \A s \in Slots : HeldByLast(s)' /\ OneAtATime(s)'
      /\ \A b \in Agents : \A n \in told'[b] : ReplyHolds(b, n)'
  <2>1. known \in BOOLEAN
    OBVIOUS
  <2> QED BY <1>1, <1>3, <2>1, SlotsKept
<1> QED BY <1>5, <1>7, <1>8, <1>9 DEF ServersInv

\* What the servers keep is what the journal of their requests says.
THEOREM ServersCorrect == McpServersSpec => []ServersInv
<1>1. ServersInv /\ [McpServersNext]_mcpServerVars => ServersInv'
  <2> SUFFICES ASSUME ServersInv, [McpServersNext]_mcpServerVars PROVE ServersInv'
    OBVIOUS
  <2>1. CASE UNCHANGED mcpServerVars
    BY <2>1 DEF mcpServerVars, ServersInv, ServersTyped, HeldByLast, OneAtATime, Books, Cancels,
       Succeeded, ReplyHolds, Timeline
  <2> QED BY <2>1, BookSlotStep, CancelSlotStep, CreateContactStep, LogActivityStep
          DEF McpServersNext
<1> QED BY <1>1, ServersInitial, PTL DEF McpServersSpec

\* Whatever replies were lost and whatever was asked twice, a slot has one
\* holder, agents were told the truth, and timelines are complete and in order
\* (mcp-servers/calendar/store.py, mcp-servers/twenty-crm/store.py).
THEOREM BookingsExact == McpServersSpec => []BookingsAreExact
<1>1. ServersInv => BookingsAreExact
  BY DEF ServersInv, OneAtATime, ReplyHolds, Timeline, Books, Cancels, BookingsAreExact
<1> QED BY <1>1, ServersCorrect, PTL

-----------------------------------------------------------------------------
(* Channels: what the queue holds, and how far the current message has been *)
(* handed out.                                                              *)

Message == [room : Rooms, sender : Users \cup {OwnUser}]
Renderings == {<<"token", "final">>, <<"final">>, <<"error">>}

\* What came out of the queue, then what is in it.
All == inbound \o inbox

ChannelTyped ==
  /\ timeline \in Seq(Message) /\ mapped \subseteq Rooms /\ callbacks \in Nat
  /\ handing \in [message : Nat, left : Nat, known : BOOLEAN]
  /\ inbox \in Seq(Nat) /\ inbound \in Seq(Nat)
  /\ answering \subseteq [n : Nat, room : Rooms, events : Renderings] /\ IsFiniteSet(answering)

\* A callback waits to put only what a user wrote in a room of a tenant.
Handing ==
  /\ handing.message <= Len(timeline)
  /\ handing.message = 0 => handing.left = 0
  /\ handing.known => /\ handing.left > 0 /\ handing.message # 0
                      /\ Handed.sender # OwnUser /\ Handed.room \in mapped

Times(n) == {i \in DOMAIN All : All[i] = n}

\* The message being handed out is in the queue at most once for each callback
\* that is not still to have it.
Queued ==
  /\ \A i \in DOMAIN All : /\ All[i] \in 1..handing.message
                           /\ timeline[All[i]].sender # OwnUser /\ timeline[All[i]].room \in mapped
  /\ \A i, j \in DOMAIN All : i < j => All[i] <= All[j]
  /\ \A n \in Nat : Cardinality(Times(n)) <= callbacks
  /\ Cardinality(Times(handing.message)) + handing.left <= callbacks

Replies(room) == {n \in DOMAIN timeline : timeline[n] = [room |-> room, sender |-> OwnUser]}
Pending(room) == {a \in answering : a.room = room}
Heard(room) == {i \in DOMAIN inbound : timeline[inbound[i]].room = room}

\* Every reply, sent or to come, was caused by an inbound event of its room.
Answered ==
  \A room \in Rooms :
    Cardinality(Replies(room)) + Cardinality(Pending(room)) <= Cardinality(Heard(room))

\* A secret may have been chosen from no secrets.
AnySecret == Secrets \cup {CHOOSE s \in Secrets : TRUE}
Posted == [stage : {"resolving", "verifying"}, client : Clients, signed : Secrets,
           live : SUBSET AnySecret, known : AnySecret]

\* The secret a request is checked with was its client's while it was checked.
Signed ==
  /\ secret \in [Clients -> AnySecret]
  /\ posts # Nobody => posts \in Posted /\ {posts.known, secret[posts.client]} \subseteq posts.live
  /\ \A p \in accepted : p.signed \in p.live

ChannelInv == ChannelTyped /\ Handing /\ Queued /\ Answered /\ Signed

ChannelSpec == ChannelInit /\ [][WhatsAppNext \/ WebhookNext]_channelVars

LEMMA ChannelFacts ==
  ASSUME ChannelTyped
  PROVE  /\ All \in Seq(Nat) /\ DOMAIN All = 1..Len(All) /\ Len(All) \in Nat
         /\ DOMAIN timeline = 1..Len(timeline) /\ Len(timeline) \in Nat
         /\ DOMAIN inbound = 1..Len(inbound) /\ Len(inbound) \in Nat
         /\ \A i \in 1..Len(inbound) : i \in DOMAIN All /\ All[i] = inbound[i]
         /\ callbacks \in Nat /\ handing.left \in Nat /\ handing.message \in Nat
<1>1. /\ inbound \in Seq(Nat) /\ inbox \in Seq(Nat) /\ timeline \in Seq(Message)
      /\ Len(inbox) \in Nat /\ Len(inbound) \in Nat
  BY LenProperties DEF ChannelTyped
<1>2. /\ All \in Seq(Nat) /\ Len(All) = Len(inbound) + Len(inbox)
      /\ \A i \in 1..Len(inbound) + Len(inbox) :
           All[i] = IF i <= Len(inbound) THEN inbound[i] ELSE inbox[i - Len(inbound)]
  BY <1>1, ConcatProperties DEF All
<1>3. DOMAIN All = 1..Len(All) /\ Len(All) \in Nat
  BY <1>2, LenProperties
<1>4. /\ DOMAIN timeline = 1..Len(timeline) /\ Len(timeline) \in Nat
      /\ DOMAIN inbound = 1..Len(inbound)
  BY <1>1, LenProperties
<1>5. callbacks \in Nat /\ handing.left \in Nat /\ handing.message \in Nat
  BY DEF ChannelTyped
<1> HIDE DEF All
<1> QED BY <1>1, <1>2, <1>3, <1>4, <1>5

LEMMA ChannelCounts ==
  ASSUME ChannelTyped
  PROVE  /\ \A n : IsFiniteSet(Times(n)) /\ Cardinality(Times(n)) \in Nat
         /\ \A room : /\ IsFiniteSet(Replies(room)) /\ Cardinality(Replies(room)) \in Nat
                      /\ IsFiniteSet(Pending(room)) /\ Cardinality(Pending(room)) \in Nat
                      /\ IsFiniteSet(Heard(room)) /\ Cardinality(Heard(room)) \in Nat
<1>1. /\ IsFiniteSet(1..Len(All)) /\ IsFiniteSet(1..Len(timeline)) /\ IsFiniteSet(1..Len(inbound))
      /\ IsFiniteSet(answering)
  <2>1. 1 \in Int /\ Len(All) \in Int /\ Len(timeline) \in Int /\ Len(inbound) \in Int
    BY ChannelFacts
  <2>2. IsFiniteSet(answering)
    BY DEF ChannelTyped
  <2> QED BY <2>1, <2>2, FS_Interval
<1>2. /\ \A n : Times(n) \in SUBSET (1..Len(All))
      /\ \A room : /\ Replies(room) \in SUBSET (1..Len(timeline)) /\ Pending(room) \in SUBSET answering
                   /\ Heard(room) \in SUBSET (1..Len(inbound))
  BY ChannelFacts DEF Times, Replies, Pending, Heard
<1>3. /\ \A n : IsFiniteSet(Times(n))
      /\ \A room : IsFiniteSet(Replies(room)) /\ IsFiniteSet(Pending(room)) /\ IsFiniteSet(Heard(room))
  BY <1>1, <1>2, FS_Subset
<1> QED BY <1>3, FS_CardinalityType

LEMMA ChannelInitial == ChannelInit => ChannelInv
<1> SUFFICES ASSUME ChannelInit PROVE ChannelInv
  OBVIOUS
<1>1. /\ timeline = <<>> /\ mapped = {} /\ callbacks = 0 /\ inbox = <<>> /\ inbound = <<>>
      /\ answering = {} /\ handing = [message |-> 0, left |-> 0, known |-> FALSE]
      /\ posts = Nobody /\ accepted = {}
  BY DEF ChannelInit, Fresh
<1>2. ChannelTyped
  BY <1>1, FS_EmptySet DEF ChannelTyped
<1>3. Handing
  BY <1>1 DEF Handing
<1>4. /\ All = <<>> /\ \A n : Times(n) = {}
      /\ \A room : Replies(room) = {} /\ Pending(room) = {}
  BY <1>1 DEF All, Times, Replies, Pending
<1>5. Queued
  <2>1. DOMAIN All = {} /\ (\A n : Cardinality(Times(n)) = 0) /\ handing.left = 0
    BY <1>1, <1>4, FS_EmptySet
  <2> QED BY <1>1, <2>1 DEF Queued
<1>6. Answered
  BY <1>2, <1>4, FS_EmptySet, ChannelCounts DEF Answered
<1>7. Signed
  BY <1>1 DEF ChannelInit, Signed, AnySecret
<1> QED BY <1>2, <1>3, <1>5, <1>6, <1>7 DEF ChannelInv

\* A message is added to the timeline, by a user or by the adapter.
LEMMA TimelineGrows ==
  ASSUME ChannelTyped, Handing, Queued, NEW m \in Message, timeline' = Append(timeline, m),
         UNCHANGED <<mapped, callbacks, handing, inbox, inbound>>
  PROVE  /\ timeline' \in Seq(Message) /\ Handing' /\ Queued'
         /\ \A room : /\ Heard(room)' = Heard(room)
                      /\ Replies(room)' =
                           IF m = [room |-> room, sender |-> OwnUser]
                           THEN Replies(room) \cup {Len(timeline) + 1} ELSE Replies(room)
<1>1. /\ timeline' \in Seq(Message) /\ Len(timeline') = Len(timeline) + 1
      /\ \A n \in 1..Len(timeline) : timeline'[n] = timeline[n]
      /\ timeline'[Len(timeline) + 1] = m /\ DOMAIN timeline' = 1..Len(timeline) + 1
  <2>1. timeline \in Seq(Message)
    BY DEF ChannelTyped
  <2> HIDE DEF Message
  <2> QED BY <2>1, AppendProperties, LenProperties
<1>2. All' = All /\ (\A n : Times(n)' = Times(n))
  BY DEF All, Times
<1>3. Handing'
  BY <1>1, ChannelFacts DEF Handing, Handed
<1>4. \A i \in DOMAIN All : All[i] \in 1..Len(timeline)
  BY ChannelFacts DEF Queued, Handing
<1>5. Queued'
  BY <1>1, <1>2, <1>4 DEF Queued
<1>6. ASSUME NEW room
      PROVE  /\ Heard(room)' = Heard(room)
             /\ Replies(room)' = IF m = [room |-> room, sender |-> OwnUser]
                                 THEN Replies(room) \cup {Len(timeline) + 1} ELSE Replies(room)
  <2>1. \A i \in DOMAIN inbound : timeline'[inbound[i]] = timeline[inbound[i]]
    BY <1>1, <1>4, ChannelFacts
  <2>2. Heard(room)' = Heard(room)
    BY <2>1 DEF Heard
  <2> DEFINE reply == [room |-> room, sender |-> OwnUser]
  <2>3. /\ \A n \in 1..Len(timeline) : timeline'[n] = reply <=> timeline[n] = reply
        /\ DOMAIN timeline = 1..Len(timeline) /\ Len(timeline) \in Nat
    BY <1>1, ChannelFacts
  <2> HIDE DEF reply
  <2>4. {n \in DOMAIN timeline' : timeline'[n] = reply}
          = IF m = reply THEN {n \in DOMAIN timeline : timeline[n] = reply} \cup {Len(timeline) + 1}
            ELSE {n \in DOMAIN timeline : timeline[n] = reply}
    BY <1>1, <2>3
  <2> QED BY <2>2, <2>4 DEF Replies, reply
<1> QED BY <1>1, <1>3, <1>5, <1>6

LEMMA WriteStep ==
  ASSUME ChannelInv, NEW room \in Rooms, NEW sender \in Users, Write(room, sender)
  PROVE  ChannelInv'
<1> DEFINE m == [room |-> room, sender |-> sender]
<1>1. /\ timeline' = Append(timeline, m) /\ m \in Message /\ \A r : m # [room |-> r, sender |-> OwnUser]
      /\ UNCHANGED <<mapped, callbacks, handing, inbox, inbound, answering, secret, posts, accepted>>
  BY ChannelAssumption DEF Write, Message, webhookVars
<1>2. ChannelTyped /\ Handing /\ Queued /\ Answered /\ Signed
  BY DEF ChannelInv
<1> HIDE DEF m
<1>3. /\ timeline' \in Seq(Message) /\ Handing' /\ Queued'
      /\ \A r : Heard(r)' = Heard(r) /\ Replies(r)' = Replies(r)
  BY <1>1, <1>2, TimelineGrows
<1>4. ChannelTyped' /\ Answered' /\ Signed'
  BY <1>1, <1>2, <1>3 DEF ChannelTyped, Answered, Pending, Signed
<1> QED BY <1>3, <1>4 DEF ChannelInv

\* A step that only hands out, or registers a room or a callback, leaves the
\* replies alone.
LEMMA RepliesAlone ==
  ASSUME ChannelInv, UNCHANGED <<timeline, inbound, answering, secret, posts, accepted>>
  PROVE  Answered' /\ Signed'
  BY DEF ChannelInv, Answered, Signed, Replies, Pending, Heard

\* ... and the queue, if it only goes on.
LEMMA HandingOnly ==
  ASSUME ChannelInv, UNCHANGED <<timeline, inbox, inbound, answering, secret, posts, accepted>>,
         mapped \subseteq mapped', mapped' \subseteq Rooms,
         callbacks' \in Nat, callbacks <= callbacks',
         handing' \in [message : Nat, left : Nat, known : BOOLEAN], Handing',
         \/ /\ handing'.message = handing.message
            /\ handing'.left + callbacks <= handing.left + callbacks'
         \/ handing'.message > handing.message /\ handing'.left <= callbacks'
  PROVE  ChannelInv'
<1>1. ChannelTyped /\ Queued
  BY DEF ChannelInv
<1>2. ChannelTyped'
  BY <1>1 DEF ChannelTyped
<1>3. All' = All /\ \A n : Times(n)' = Times(n)
  BY DEF All, Times
<1>4. /\ \A n : Cardinality(Times(n)) \in Nat
      /\ callbacks \in Nat /\ callbacks' \in Nat /\ handing.left \in Nat /\ handing'.left \in Nat
      /\ handing.message \in Nat /\ handing'.message \in Nat
  BY <1>1, ChannelCounts DEF ChannelTyped
<1>5. handing'.message > handing.message => Times(handing'.message) = {}
  BY <1>1, <1>4 DEF Queued, Times
<1>6. Cardinality(Times(handing'.message)) + handing'.left <= callbacks'
  <2>1. CASE handing'.message > handing.message /\ handing'.left <= callbacks'
    <3>1. Cardinality(Times(handing'.message)) = 0
      BY <1>5, <2>1, FS_EmptySet
    <3> QED BY <1>4, <2>1, <3>1
  <2>2. CASE /\ handing'.message = handing.message
             /\ handing'.left + callbacks <= handing.left + callbacks'
    <3>1. Cardinality(Times(handing.message)) + handing.left <= callbacks
      BY <1>1 DEF Queued
    <3> QED BY <1>4, <2>2, <3>1
  <2> QED BY <2>1, <2>2
<1>7. \A i \in DOMAIN All : All[i] \in 1..handing'.message
  BY <1>1, <1>4 DEF Queued
<1>8. Queued'
  BY <1>1, <1>3, <1>4, <1>6, <1>7 DEF Queued
<1> QED BY <1>2, <1>8, RepliesAlone DEF ChannelInv

\* What a callback that had the message leaves behind.
LEMMA HandedOverFacts ==
  ASSUME ChannelInv, HandedOver, handing.left > 0, UNCHANGED <<timeline, mapped, callbacks>>
  PROVE  /\ handing' \in [message : Nat, left : Nat, known : BOOLEAN]
         /\ handing'.message = handing.message /\ handing'.left = handing.left - 1
         /\ Handing' /\ handing.message # 0
<1>1. /\ handing \in [message : Nat, left : Nat, known : BOOLEAN] /\ callbacks \in Nat
      /\ Handing
  BY DEF ChannelInv, ChannelTyped
<1>2. /\ handing' \in [message : Nat, left : Nat, known : BOOLEAN]
      /\ handing'.message = handing.message /\ handing'.left = handing.left - 1
      /\ handing'.known = FALSE
  <2>1. handing' = [message |-> handing.message, left |-> handing.left - 1, known |-> FALSE]
    BY <1>1 DEF HandedOver
  <2>2. handing.message \in Nat /\ handing.left - 1 \in Nat
    BY <1>1
  <2> QED BY <2>1, <2>2
<1>3. handing.message # 0
  BY <1>1 DEF Handing
<1>4. Handing'
  BY <1>1, <1>2, <1>3 DEF Handing
<1> QED BY <1>2, <1>3, <1>4

LEMMA RegisterRoomStep ==
  ASSUME ChannelInv, NEW room \in Rooms, RegisterRoom(room)
  PROVE  ChannelInv'
<1>1. /\ mapped' = mapped \cup {room}
      /\ UNCHANGED <<timeline, callbacks, handing, inbox, inbound, answering, secret, posts, accepted>>
  BY DEF RegisterRoom, webhookVars
<1>2. Handing' /\ mapped' \subseteq Rooms
  BY <1>1 DEF ChannelInv, ChannelTyped, Handing, Handed
<1> QED BY <1>1, <1>2, HandingOnly DEF ChannelInv, ChannelTyped

LEMMA ListenStep == ASSUME ChannelInv, Listen PROVE ChannelInv'
<1>1. /\ callbacks' = callbacks + 1
      /\ \/ handing' = handing
         \/ handing.left > 0 /\ handing' = [handing EXCEPT !.left = @ + 1]
      /\ UNCHANGED <<timeline, mapped, inbox, inbound, answering, secret, posts, accepted>>
  BY DEF Listen, webhookVars
<1>2. /\ handing \in [message : Nat, left : Nat, known : BOOLEAN] /\ callbacks \in Nat
      /\ Handing /\ mapped \subseteq Rooms
  BY DEF ChannelInv, ChannelTyped
<1>3. /\ handing' \in [message : Nat, left : Nat, known : BOOLEAN]
      /\ handing'.message = handing.message /\ handing'.known = handing.known
      /\ \/ handing'.left = handing.left
         \/ handing.left > 0 /\ handing'.left = handing.left + 1
  BY <1>1, <1>2
<1>4. Handing'
  BY <1>1, <1>2, <1>3 DEF Handing, Handed
<1>5. handing'.left + callbacks <= handing.left + callbacks'
  BY <1>1, <1>2, <1>3
<1> QED BY <1>1, <1>2, <1>3, <1>4, <1>5, HandingOnly

LEMMA TakeMessageStep == ASSUME ChannelInv, TakeMessage PROVE ChannelInv'
<1>1. /\ handing.message < Len(timeline)
      /\ handing' = [message |-> handing.message + 1, left |-> callbacks, known |-> FALSE]
      /\ UNCHANGED <<timeline, mapped, callbacks, inbox, inbound, answering, secret, posts, accepted>>
  BY DEF TakeMessage, Fresh, webhookVars
<1>2. /\ handing.message \in Nat /\ callbacks \in Nat /\ Len(timeline) \in Nat /\ mapped \subseteq Rooms
  BY ChannelFacts DEF ChannelInv, ChannelTyped
<1>3. /\ handing' \in [message : Nat, left : Nat, known : BOOLEAN]
      /\ handing'.message = handing.message + 1 /\ handing'.left = callbacks /\ handing'.known = FALSE
  BY <1>1, <1>2
<1>4. Handing'
  BY <1>1, <1>2, <1>3 DEF Handing
<1> QED BY <1>1, <1>2, <1>3, <1>4, HandingOnly

LEMMA OnOwnMessageStep == ASSUME ChannelInv, OnOwnMessage PROVE ChannelInv'
<1>1. /\ handing.left > 0 /\ HandedOver
      /\ UNCHANGED <<timeline, mapped, callbacks, inbox, inbound, answering, secret, posts, accepted>>
  BY DEF OnOwnMessage, webhookVars
<1>2. callbacks \in Nat /\ handing.left \in Nat /\ mapped \subseteq Rooms
  BY DEF ChannelInv, ChannelTyped
<1> QED BY <1>1, <1>2, HandedOverFacts, HandingOnly

LEMMA ResolveRoomStep == ASSUME ChannelInv, ResolveRoom PROVE ChannelInv'
<1>1. /\ handing.left > 0 /\ Handed.sender # OwnUser
      /\ UNCHANGED <<timeline, mapped, callbacks, inbox, inbound, answering, secret, posts, accepted>>
      /\ \/ Handed.room \in mapped /\ handing' = [handing EXCEPT !.known = TRUE]
         \/ HandedOver
  BY DEF ResolveRoom, webhookVars
<1>2. /\ callbacks \in Nat /\ handing.left \in Nat /\ mapped \subseteq Rooms /\ Handing
      /\ handing \in [message : Nat, left : Nat, known : BOOLEAN]
  BY DEF ChannelInv, ChannelTyped
<1>3. CASE HandedOver
  BY <1>1, <1>2, <1>3, HandedOverFacts, HandingOnly
<1>4. CASE Handed.room \in mapped /\ handing' = [handing EXCEPT !.known = TRUE]
  <2>1. /\ handing' \in [message : Nat, left : Nat, known : BOOLEAN]
        /\ handing'.message = handing.message /\ handing'.left = handing.left
    BY <1>2, <1>4
  <2>2. Handing'
    BY <1>1, <1>2, <1>4, <2>1 DEF Handing, Handed
  <2> QED BY <1>1, <1>2, <2>1, <2>2, HandingOnly
<1> QED BY <1>1, <1>3, <1>4

\* A set with one more element has at most one more; one less is one less.
LEMMA OneMore ==
  ASSUME NEW S, NEW x, IsFiniteSet(S)
  PROVE  /\ IsFiniteSet(S \cup {x}) /\ Cardinality(S) \in Nat /\ Cardinality(S \cup {x}) \in Nat
         /\ Cardinality(S \cup {x}) <= Cardinality(S) + 1
         /\ x \notin S => Cardinality(S \cup {x}) = Cardinality(S) + 1
         /\ IsFiniteSet(S \ {x}) /\ Cardinality(S \ {x}) \in Nat
         /\ x \in S => Cardinality(S \ {x}) + 1 = Cardinality(S)
<1>1. /\ IsFiniteSet(S \cup {x}) /\ IsFiniteSet(S \ {x})
      /\ Cardinality(S \cup {x}) = IF x \in S THEN Cardinality(S) ELSE Cardinality(S) + 1
      /\ Cardinality(S \ {x}) = IF x \in S THEN Cardinality(S) - 1 ELSE Cardinality(S)
  BY FS_AddElement, FS_RemoveElement
<1>2. Cardinality(S) \in Nat /\ Cardinality(S \cup {x}) \in Nat /\ Cardinality(S \ {x}) \in Nat
  BY <1>1, FS_CardinalityType
<1> QED BY <1>1, <1>2

LEMMA PutInboundStep == ASSUME ChannelInv, PutInbound PROVE ChannelInv'
<1>0. PICK n : n = handing.message
  OBVIOUS
<1> DEFINE new == Len(All) + 1
<1>1. /\ handing.left > 0 /\ handing.known /\ HandedOver /\ inbox' = Append(inbox, n)
      /\ UNCHANGED <<timeline, mapped, callbacks, inbound, answering, secret, posts, accepted>>
  BY <1>0 DEF PutInbound, webhookVars
<1>2. ChannelTyped /\ Handing /\ Queued
  BY DEF ChannelInv
<1>3. /\ handing' \in [message : Nat, left : Nat, known : BOOLEAN]
      /\ handing'.message = n /\ handing'.left = handing.left - 1 /\ Handing' /\ n # 0
  BY <1>0, <1>1, HandedOverFacts
<1>4. /\ callbacks \in Nat /\ handing.left \in Nat /\ n \in Nat
      /\ inbox \in Seq(Nat) /\ inbound \in Seq(Nat)
  BY <1>0, <1>2 DEF ChannelTyped
<1>5. ChannelTyped'
  <2>1. inbox' \in Seq(Nat)
    BY <1>1, <1>4, AppendProperties
  <2> QED BY <1>1, <1>2, <1>3, <2>1 DEF ChannelTyped
<1>6. All' = Append(All, n) /\ All \in Seq(Nat)
  <2>1. (inbound \o Append(inbox, n)) = Append(inbound \o inbox, n)
    BY <1>4
  <2> QED BY <1>1, <1>2, <2>1, ChannelFacts DEF All
<1>7. /\ DOMAIN All' = 1..new /\ DOMAIN All = 1..Len(All) /\ Len(All) \in Nat
      /\ All'[new] = n /\ \A i \in 1..Len(All) : All'[i] = All[i]
  BY <1>4, <1>6, AppendProperties, LenProperties
<1>8. \A k : Times(k)' = IF k = n THEN Times(k) \cup {new} ELSE Times(k)
  BY <1>7 DEF Times
<1>9. /\ \A k \in Nat : Cardinality(Times(k)') <= callbacks
      /\ Cardinality(Times(n)') + handing.left <= callbacks + 1 /\ Cardinality(Times(n)') \in Nat
  <2>1. \A k : IsFiniteSet(Times(k)) /\ Cardinality(Times(k)) \in Nat
    BY <1>2, ChannelCounts
  <2>2. /\ \A k \in Nat : Cardinality(Times(k)) <= callbacks
        /\ Cardinality(Times(n)) + handing.left <= callbacks
    BY <1>0, <1>2 DEF Queued
  <2>3. /\ Cardinality(Times(n) \cup {new}) <= Cardinality(Times(n)) + 1
        /\ Cardinality(Times(n) \cup {new}) \in Nat
    <3> HIDE DEF new
    <3> QED BY <2>1, OneMore
  <2>7. Times(n)' = Times(n) \cup {new}
    BY <1>8
  <2>8. Cardinality(Times(n) \cup {new}) + handing.left <= callbacks + 1
    <3>1. /\ Cardinality(Times(n)) \in Nat /\ Cardinality(Times(n)) + handing.left <= callbacks
          /\ handing.left \in Nat /\ callbacks \in Nat
      BY <1>4, <2>1, <2>2
    <3> HIDE DEF new
    <3> QED BY <2>3, <3>1
  <2>4. Cardinality(Times(n)') + handing.left <= callbacks + 1
    BY <2>7, <2>8
  <2>5. \A k \in Nat : k # n => Times(k)' = Times(k)
    BY <1>8
  <2>6. \A k \in Nat : k # n => Cardinality(Times(k)') <= callbacks
    BY <2>2, <2>5
  <2>9. ASSUME NEW k \in Nat PROVE Cardinality(Times(k)') <= callbacks
    <3>1. CASE k = n
      <4>1. Cardinality(Times(k)') + handing.left <= callbacks + 1 /\ Cardinality(Times(k)') \in Nat
        BY <2>3, <2>4, <2>7, <3>1
      <4> QED BY <1>1, <1>4, <4>1
    <3> QED BY <2>6, <3>1
  <2> QED BY <2>3, <2>4, <2>7, <2>9
<1>10. Queued'
  <2>1. /\ \A i \in DOMAIN All : All[i] \in 1..n
        /\ \A i \in DOMAIN All : timeline[All[i]].sender # OwnUser /\ timeline[All[i]].room \in mapped
        /\ \A i, j \in DOMAIN All : i < j => All[i] <= All[j]
        /\ timeline[n].sender # OwnUser /\ timeline[n].room \in mapped
    BY <1>0, <1>1, <1>2 DEF Queued, Handing, Handed
  <2>2. \A i \in DOMAIN All' : All'[i] \in 1..n /\ timeline[All'[i]].sender # OwnUser
                               /\ timeline[All'[i]].room \in mapped
    <3> SUFFICES ASSUME NEW i \in 1..new
                 PROVE  All'[i] \in 1..n /\ timeline[All'[i]].sender # OwnUser
                          /\ timeline[All'[i]].room \in mapped
      BY <1>7
    <3>1. CASE i = new
      BY <1>3, <1>4, <1>7, <2>1, <3>1
    <3>2. CASE i # new
      <4>1. i \in 1..Len(All)
        BY <1>7, <3>2
      <4> QED BY <1>7, <2>1, <4>1
    <3> QED BY <3>1, <3>2
  <2>3. \A i, j \in DOMAIN All' : i < j => All'[i] <= All'[j]
    <3> SUFFICES ASSUME NEW i \in 1..new, NEW j \in 1..new, i < j
                 PROVE  All'[i] <= All'[j]
      BY <1>7
    <3>1. i \in 1..Len(All) /\ All'[i] = All[i] /\ All[i] \in 1..n
      BY <1>7, <2>1
    <3>2. CASE j = new
      BY <1>4, <1>7, <3>1, <3>2
    <3>3. CASE j # new
      <4>1. j \in 1..Len(All)
        BY <1>7, <3>3
      <4> QED BY <1>7, <2>1, <3>1, <4>1
    <3> QED BY <3>2, <3>3
  <2>4. Cardinality(Times(handing.message))' + handing'.left <= callbacks'
    <3>1. Cardinality(Times(n)') \in Nat /\ Cardinality(Times(n)') + handing.left <= callbacks + 1
      BY <1>9
    <3>2. Cardinality(Times(handing.message))' = Cardinality(Times(n)')
      BY <1>3 DEF Times
    <3> QED BY <1>1, <1>3, <1>4, <3>1, <3>2
  <2> QED BY <1>1, <1>3, <1>9, <2>2, <2>3, <2>4 DEF Queued
<1> QED BY <1>1, <1>3, <1>5, <1>10, RepliesAlone DEF ChannelInv

LEMMA YieldInboundStep ==
  ASSUME ChannelInv, NEW kinds \in {<<"token", "final">>, <<"error">>}, YieldInbound(kinds)
  PROVE  ChannelInv'
<1> DEFINE h == Head(inbox)
           new == Len(inbound) + 1
           r0 == timeline[h].room
           a == [n |-> Len(inbound'), room |-> r0, events |-> kinds]
<1>1. /\ inbox # <<>> /\ inbox' = Tail(inbox) /\ inbound' = Append(inbound, h)
      /\ answering' = answering \cup {a}
      /\ UNCHANGED <<timeline, mapped, callbacks, handing, secret, posts, accepted>>
  BY DEF YieldInbound, webhookVars
<1>2. ChannelTyped /\ Handing /\ Queued /\ Answered /\ Signed
  BY DEF ChannelInv
<1>3. /\ inbox \in Seq(Nat) /\ inbound \in Seq(Nat) /\ inbox' \in Seq(Nat) /\ h \in Nat
      /\ inbound' \in Seq(Nat) /\ Len(inbound') = new /\ Len(inbound) \in Nat
      /\ Len(inbox) \in Nat /\ Len(inbox) > 0 /\ Len(inbox') = Len(inbox) - 1
      /\ \A i \in 1..Len(inbox') : inbox'[i] = inbox[i + 1]
      /\ h = inbox[1]
      /\ DOMAIN inbound' = 1..new /\ inbound'[new] = h
      /\ \A i \in 1..Len(inbound) : inbound'[i] = inbound[i]
  <2>1. inbox \in Seq(Nat) /\ inbound \in Seq(Nat)
    BY <1>2 DEF ChannelTyped
  <2>2. /\ inbox' \in Seq(Nat) /\ h \in Nat /\ Len(inbox) \in Nat /\ Len(inbox) > 0
        /\ Len(inbox') = Len(inbox) - 1 /\ h = inbox[1]
        /\ \A i \in 1..Len(inbox') : inbox'[i] = inbox[i + 1]
    BY <1>1, <2>1, HeadTailProperties, LenProperties, EmptySeq
  <2> HIDE DEF h
  <2>3. /\ inbound' \in Seq(Nat) /\ Len(inbound') = new /\ Len(inbound) \in Nat
        /\ DOMAIN inbound' = 1..new /\ inbound'[new] = h
        /\ \A i \in 1..Len(inbound) : inbound'[i] = inbound[i]
    BY <1>1, <2>1, <2>2, AppendProperties, LenProperties
  <2> QED BY <2>1, <2>2, <2>3
<1>4. All' = All
  <2>1. inbound \in Seq(Nat) /\ inbox \in Seq(Nat) /\ inbox # <<>>
    BY <1>1, <1>3
  <2>2. Append(inbound, Head(inbox)) \o Tail(inbox) = inbound \o inbox
    BY <2>1
  <2> QED BY <1>1, <2>2 DEF All
<1>5. h \in 1..Len(timeline) /\ r0 \in Rooms
  <2>1. new \in DOMAIN All /\ All[new] = h
    <3>2. /\ All \in Seq(Nat) /\ Len(All) = Len(inbound) + Len(inbox)
          /\ \A i \in 1..Len(inbound) + Len(inbox) :
               All[i] = IF i <= Len(inbound) THEN inbound[i] ELSE inbox[i - Len(inbound)]
      BY <1>3, ConcatProperties DEF All
    <3>3. new \in 1..Len(inbound) + Len(inbox) /\ ~ new <= Len(inbound) /\ new - Len(inbound) = 1
      BY <1>3
    <3>4. DOMAIN All = 1..Len(All)
      BY <3>2, LenProperties
    <3> QED BY <1>3, <3>2, <3>3, <3>4
  <2>2. h \in 1..Len(timeline)
    BY <1>2, <2>1, ChannelFacts DEF Queued, Handing
  <2> HIDE DEF h
  <2>3. timeline[h] \in Message
    BY <1>2, <2>2, ElementOfSeq DEF ChannelTyped
  <2> QED BY <2>2, <2>3 DEF Message
<1>6. a \in [n : Nat, room : Rooms, events : Renderings]
  <2> HIDE DEF h, r0
  <2> QED BY <1>3, <1>5 DEF Renderings
<1> HIDE DEF h, r0
<1>7. a.room = r0
  OBVIOUS
<1> HIDE DEF a
<1>8. ChannelTyped'
  BY <1>1, <1>2, <1>3, <1>6, FS_AddElement DEF ChannelTyped
<1>9. Handing'
  BY <1>1, <1>2 DEF Handing, Handed
<1>10. Queued'
  <2>1. \A n : Times(n)' = Times(n)
    BY <1>4 DEF Times
  <2> QED BY <1>1, <1>2, <1>4, <2>1 DEF Queued
<1>11. Answered'
  <2> SUFFICES ASSUME NEW room \in Rooms
               PROVE  Cardinality(Replies(room)') + Cardinality(Pending(room)')
                        <= Cardinality(Heard(room)')
    BY DEF Answered
  <2>1. /\ Replies(room)' = Replies(room)
        /\ Pending(room)' = IF room = r0 THEN Pending(room) \cup {a} ELSE Pending(room)
    BY <1>1, <1>7 DEF Replies, Pending
  <2>2. Heard(room)' = (IF room = r0 THEN Heard(room) \cup {new} ELSE Heard(room)) /\ new \notin Heard(room)
    <3>1. DOMAIN inbound = 1..Len(inbound)
      BY <1>2, ChannelFacts
    <3> QED BY <1>1, <1>3, <3>1 DEF Heard, r0
  <2>3. /\ IsFiniteSet(Pending(room)) /\ IsFiniteSet(Heard(room))
        /\ Cardinality(Replies(room)) \in Nat
        /\ Cardinality(Replies(room)) + Cardinality(Pending(room)) <= Cardinality(Heard(room))
    BY <1>2, ChannelCounts DEF Answered
  <2>4. /\ Cardinality(Pending(room) \cup {a}) <= Cardinality(Pending(room)) + 1
        /\ Cardinality(Heard(room) \cup {new}) = Cardinality(Heard(room)) + 1
        /\ Cardinality(Pending(room)) \in Nat /\ Cardinality(Heard(room)) \in Nat
        /\ Cardinality(Pending(room) \cup {a}) \in Nat
    BY <2>2, <2>3, OneMore
  <2> HIDE DEF new
  <2> QED BY <2>1, <2>2, <2>3, <2>4
<1>12. Signed'
  BY <1>1, <1>2 DEF Signed
<1> QED BY <1>8, <1>9, <1>10, <1>11, <1>12 DEF ChannelInv

LEMMA RenderEventStep ==
  ASSUME ChannelInv, NEW a \in answering, RenderEvent(a)
  PROVE  ChannelInv'
<1> DEFINE final == Head(a.events) = "final"
           m == [room |-> a.room, sender |-> OwnUser]
           rest == [a EXCEPT !.events = Tail(@)]
<1>1. /\ timeline' = IF final THEN Append(timeline, m) ELSE timeline
      /\ answering' = (answering \ {a}) \cup (IF Len(a.events) = 1 THEN {} ELSE {rest})
      /\ UNCHANGED <<mapped, callbacks, handing, inbox, inbound, secret, posts, accepted>>
  BY DEF RenderEvent, webhookVars
<1>2. ChannelTyped /\ Handing /\ Queued /\ Answered /\ Signed
  BY DEF ChannelInv
<1>3. a \in [n : Nat, room : Rooms, events : Renderings] /\ m \in Message
  BY <1>2 DEF ChannelTyped, Message
\* A final event is the last of its run.
<1>4. /\ final => answering' = answering \ {a}
      /\ ~ final => \/ answering' = answering \ {a}
                    \/ answering' = (answering \ {a}) \cup {rest}
      /\ Len(a.events) # 1 => /\ rest \in [n : Nat, room : Rooms, events : Renderings]
                              /\ rest.room = a.room
  <2>1. a.events = <<"error">> \/ a.events = <<"final">> \/ a.events = <<"token", "final">>
    BY <1>3 DEF Renderings
  <2>2. CASE a.events = <<"token", "final">>
    <3>1. Len(a.events) = 2 /\ Head(a.events) = "token" /\ Tail(a.events) = <<"final">>
      BY <2>2
    <3>2. rest = [a EXCEPT !.events = <<"final">>]
      BY <3>1
    <3> QED BY <1>1, <1>3, <3>1, <3>2 DEF Renderings
  <2>3. CASE a.events = <<"error">> \/ a.events = <<"final">>
    <3>1. Len(a.events) = 1
      BY <2>3
    <3> QED BY <1>1, <3>1
  <2> QED BY <2>1, <2>2, <2>3
<1> HIDE DEF final, rest
<1>5. /\ timeline' \in Seq(Message) /\ Handing' /\ Queued'
      /\ \A room : /\ Heard(room)' = Heard(room)
                   /\ Replies(room)' = IF final /\ room = a.room
                                       THEN Replies(room) \cup {Len(timeline) + 1} ELSE Replies(room)
  <2>1. CASE final
    <3>1. \A room : m = [room |-> room, sender |-> OwnUser] <=> room = a.room
      OBVIOUS
    <3> HIDE DEF m
    <3> QED BY <1>1, <1>2, <1>3, <2>1, <3>1, TimelineGrows
  <2>2. CASE ~ final
    BY <1>1, <1>2, <2>2 DEF ChannelTyped, Handing, Handed, Queued, All, Times, Heard, Replies
  <2> QED BY <2>1, <2>2
<1>6. ChannelTyped'
  <2>1. IsFiniteSet(answering) /\ answering \subseteq [n : Nat, room : Rooms, events : Renderings]
    BY <1>2 DEF ChannelTyped
  <2>2. IsFiniteSet(answering \ {a}) /\ IsFiniteSet((answering \ {a}) \cup {rest})
    BY <2>1, OneMore
  <2>3. IsFiniteSet(answering')
    BY <1>4, <2>2
  <2>4. answering' \subseteq [n : Nat, room : Rooms, events : Renderings]
    BY <1>1, <1>4, <2>1
  <2> QED BY <1>1, <1>2, <1>5, <2>3, <2>4 DEF ChannelTyped
<1>7. Answered'
  <2> SUFFICES ASSUME NEW room \in Rooms
               PROVE  Cardinality(Replies(room)') + Cardinality(Pending(room)')
                        <= Cardinality(Heard(room)')
    BY DEF Answered
  <2> DEFINE less == Pending(room) \ {a}
             new == Len(timeline) + 1
  <2>1. /\ IsFiniteSet(Pending(room)) /\ IsFiniteSet(Replies(room)) /\ IsFiniteSet(less)
        /\ Cardinality(Replies(room)) \in Nat /\ Cardinality(Pending(room)) \in Nat
        /\ Cardinality(Heard(room)) \in Nat /\ Cardinality(less) \in Nat
        /\ Cardinality(Replies(room)) + Cardinality(Pending(room)) <= Cardinality(Heard(room))
    BY <1>2, ChannelCounts, OneMore DEF Answered
  <2>2. CASE room # a.room
    <3>1. Pending(room)' = Pending(room) /\ Replies(room)' = Replies(room)
      BY <1>1, <1>4, <1>5, <2>2 DEF Pending
    <3> QED BY <1>5, <2>1, <3>1
  <2>3. CASE room = a.room /\ final
    <3>1. Pending(room)' = less /\ Replies(room)' = Replies(room) \cup {new} /\ a \in Pending(room)
      BY <1>4, <1>5, <2>3 DEF Pending
    <3>2. Cardinality(less) + 1 = Cardinality(Pending(room))
      BY <2>1, <3>1, OneMore
    <3>3. /\ Cardinality(Replies(room) \cup {new}) <= Cardinality(Replies(room)) + 1
          /\ Cardinality(Replies(room) \cup {new}) \in Nat
      <4> HIDE DEF new
      <4> QED BY <2>1, OneMore
    <3> HIDE DEF less, new
    <3> QED BY <1>5, <2>1, <3>1, <3>2, <3>3
  <2>4. CASE room = a.room /\ ~ final
    <3>1. /\ Pending(room)' = less \/ Pending(room)' = less \cup {rest}
          /\ Replies(room)' = Replies(room) /\ a \in Pending(room)
      BY <1>1, <1>4, <1>5, <2>4 DEF Pending
    <3>2. Cardinality(less) + 1 = Cardinality(Pending(room))
      BY <2>1, <3>1, OneMore
    <3>3. Cardinality(less \cup {rest}) <= Cardinality(less) + 1 /\ Cardinality(less \cup {rest}) \in Nat
      <4> HIDE DEF less
      <4> QED BY <2>1, OneMore
    <3> HIDE DEF less
    <3>4. Cardinality(Pending(room)') <= Cardinality(Pending(room))
      <4>1. CASE Pending(room)' = less
        BY <2>1, <3>2, <4>1
      <4>2. CASE Pending(room)' = less \cup {rest}
        BY <2>1, <3>2, <3>3, <4>2
      <4> QED BY <3>1, <4>1, <4>2
    <3>5. Cardinality(Pending(room)') \in Nat
      BY <2>1, <3>1, <3>3
    <3>6. Replies(room)' = Replies(room) /\ Heard(room)' = Heard(room)
      BY <1>5, <3>1
    <3> QED BY <2>1, <3>4, <3>5, <3>6
  <2> QED BY <2>2, <2>3, <2>4
<1>8. Signed'
  BY <1>1, <1>2 DEF Signed
<1> QED BY <1>5, <1>6, <1>7, <1>8 DEF ChannelInv

\* The webhook does not touch the rooms.
LEMMA RoomsAlone ==
  ASSUME ChannelInv, UNCHANGED matrixVars
  PROVE  ChannelTyped' /\ Handing' /\ Queued' /\ Answered'
  BY DEF ChannelInv, matrixVars, ChannelTyped, Handing, Handed, Queued, All, Times, Answered,
         Replies, Pending, Heard

LEMMA WebhookStep ==
  ASSUME ChannelInv, WebhookNext
  PROVE  ChannelInv'
<1>1. /\ Signed /\ UNCHANGED matrixVars
      /\ \A c \in Clients : secret[c] \in AnySecret
  BY DEF ChannelInv, WebhookNext, Post, Rotate, ResolveClient, Verify, Signed
<1>2. ASSUME NEW client \in Clients, NEW s \in Secrets, Post(client, s) PROVE Signed'
  BY <1>1, <1>2 DEF Post, Signed, Posted
<1>3. ASSUME NEW client \in Clients, NEW s \in Secrets, Rotate(client, s) PROVE Signed'
  <2>1. s \in AnySecret /\ secret' = [secret EXCEPT ![client] = s] /\ accepted' = accepted
    BY <1>3 DEF Rotate, AnySecret
  <2>2. CASE posts # Nobody /\ posts.client = client
    <3>1. posts \in Posted /\ posts' = [posts EXCEPT !.live = @ \cup {s}]
      BY <1>1, <1>3, <2>2 DEF Rotate, Signed
    <3>2. /\ posts' \in Posted /\ posts'.live = posts.live \cup {s} /\ posts'.known = posts.known
          /\ posts'.client = client
      BY <2>1, <2>2, <3>1 DEF Posted
    <3> QED BY <1>1, <2>1, <2>2, <3>2 DEF Signed
  <2>3. CASE ~ (posts # Nobody /\ posts.client = client)
    <3>1. posts' = posts
      BY <1>3, <2>3 DEF Rotate
    <3> QED BY <1>1, <2>1, <2>3, <3>1 DEF Signed, Posted
  <2> QED BY <2>2, <2>3
<1>4. ASSUME ResolveClient PROVE Signed'
  <2>1. /\ posts \in Posted /\ secret[posts.client] \in posts.live
        /\ posts' = [posts EXCEPT !.stage = "verifying", !.known = secret[posts.client]]
        /\ UNCHANGED <<secret, accepted>>
    BY <1>1, <1>4 DEF ResolveClient, Signed
  <2>2. posts.client \in Clients /\ secret[posts.client] \in AnySecret
    BY <1>1, <2>1 DEF Posted
  <2>3. /\ posts' \in Posted /\ posts'.live = posts.live /\ posts'.client = posts.client
        /\ posts'.known = secret[posts.client]
    BY <2>1, <2>2 DEF Posted
  <2> QED BY <1>1, <2>1, <2>3 DEF Signed
<1>5. ASSUME Verify PROVE Signed'
  BY <1>1, <1>5 DEF Verify, Signed
<1>6. Signed'
  BY <1>2, <1>3, <1>4, <1>5 DEF WebhookNext
<1> QED BY <1>1, <1>6, RoomsAlone DEF ChannelInv

\* The queue, the handing out, the replies and the signatures are as said above.
THEOREM ChannelsCorrect == ChannelSpec => []ChannelInv
<1>1. ChannelInv /\ [WhatsAppNext \/ WebhookNext]_channelVars => ChannelInv'
  <2> SUFFICES ASSUME ChannelInv, [WhatsAppNext \/ WebhookNext]_channelVars PROVE ChannelInv'
    OBVIOUS
  <2>1. CASE UNCHANGED channelVars
    <3>1. UNCHANGED matrixVars /\ Signed'
      BY <2>1 DEF channelVars, webhookVars, ChannelInv, Signed
    <3> QED BY <3>1, RoomsAlone DEF ChannelInv
  <2>2. CASE WhatsAppNext
    BY <2>2, WriteStep, RegisterRoomStep, ListenStep, TakeMessageStep, OnOwnMessageStep,
       ResolveRoomStep, PutInboundStep, YieldInboundStep, RenderEventStep DEF WhatsAppNext
  <2> QED BY <2>1, <2>2, WebhookStep
<1> QED BY <1>1, ChannelInitial, PTL DEF ChannelSpec

\* However messages, echoes, callbacks, late answers and secrets that change
\* interleave, what comes out of the queue is what users wrote in rooms of
\* tenants, in order, once for each callback; no room gets an answer nobody
\* asked for; and an accepted webhook was signed with a secret of its client
\* (saap/gateway/matrix_whatsapp.py, saap/gateway/webhook.py).
THEOREM InboundFifo == ChannelSpec => []InboundIsFifo
<1>1. ChannelInv => InboundIsFifo
  <2> SUFFICES ASSUME ChannelInv PROVE InboundIsFifo
    OBVIOUS
  <2>1. ChannelTyped /\ Handing /\ Queued /\ Answered /\ Signed
    BY DEF ChannelInv
  <2>2. \A n \in DOMAIN timeline : Cardinality(Times(n)) <= callbacks
    BY <2>1, ChannelFacts DEF Queued
  <2>3. \A room \in Rooms : Cardinality(Replies(room)) <= Cardinality(Heard(room))
    BY <2>1, ChannelCounts DEF Answered
  <2> QED BY <2>1, <2>2, <2>3 DEF InboundIsFifo, Queued, Signed, Times, Replies, Heard, All
<1> QED BY <1>1, ChannelsCorrect, PTL

-----------------------------------------------------------------------------
(* The release gates: what was scanned, replayed and handed out so far.     *)

\* A name is imported from where it is first installed.
FirstOfName(i) == \A j \in 1..i - 1 : gate.installed[j].name # gate.installed[i].name
VerdictOn(i) == [name |-> gate.installed[i].name, verdict |-> Classify(gate.installed[i])]

Verdicts == [name : Packages, verdict : {"allow", "deny", "review", "unknown"}]
GateState == [strict : BOOLEAN, installed : Seq(Distribution), scanned : Nat,
              verdicts : SUBSET Verdicts, exit : {"none", "scanning", "passed", "failed"}]

\* What was scanned has the verdict of its first place, and nothing else has one.
Scanning ==
  /\ gate \in GateState
  /\ gate.scanned <= Len(gate.installed)
  /\ \A v \in gate.verdicts : \E i \in 1..gate.scanned : FirstOfName(i) /\ v = VerdictOn(i)
  /\ \A i \in 1..gate.scanned : FirstOfName(i) => VerdictOn(i) \in gate.verdicts
  /\ \A i \in 1..gate.scanned :
       \E j \in 1..i : FirstOfName(j) /\ gate.installed[j].name = gate.installed[i].name
  /\ gate.exit \in {"passed", "failed"} =>
       /\ gate.scanned = Len(gate.installed)
       /\ gate.exit = "failed" <=>
            Having("deny") # {} \/ (gate.strict /\ Having("unknown") # {})

SuiteState == [goldens : Seq(Goldens), outcomes : Seq(Outcomes), results : Seq(BOOLEAN),
               at : {"none", "running", "raised", "returned"}]

\* Each result is that of its transcript and its replay.
Replayed ==
  /\ suite \in SuiteState
  /\ Len(suite.results) <= Len(suite.goldens)
  /\ suite.at \in {"none", "running", "returned"} => Len(suite.outcomes) = Len(suite.results)
  /\ suite.at = "raised" => suite.results = <<>>
  /\ suite.at = "returned" => Len(suite.results) = Len(suite.goldens)
  /\ \A i \in DOMAIN suite.results :
       suite.results[i] = (Failures(suite.goldens[i], suite.outcomes[i]) = {})

RegistersIn(h, k, i, j) == \E m \in i..j : h[m].what = "registered" /\ h[m].key = k

\* What was handed out for a key is the same up to the next registration.
PastExact(h, j) ==
  h[j].what = "resolved" =>
    /\ h[j].id <= j /\ RegistersIn(h, h[j].key, 1, j)
    /\ \A i \in 1..j : h[i].what = "resolved" /\ h[i].key = h[j].key =>
         (h[i].id = h[j].id <=> ~ RegistersIn(h, h[j].key, i, j))

\* The instance of a key is what was handed out since its last registration.
KeyExact(h, k, plugin) ==
  /\ plugin # Unregistered =>
       plugin.license \in RuntimeAllowed /\ RegistersIn(h, k, 1, Len(h))
  /\ plugin.instance <= Len(h)
  /\ \A i \in DOMAIN h : h[i].what = "resolved" /\ h[i].key = k =>
       IF plugin.instance = 0 THEN RegistersIn(h, k, i, Len(h))
       ELSE h[i].id = plugin.instance <=> ~ RegistersIn(h, k, i, Len(h))

Entries == [what : {"registered", "rejected", "resolved", "raised"}, key : PluginKeys, id : Nat]
PluginState == [license : Licenses, number : Nat, instance : Nat]

HandedOutOnce ==
  /\ plugins \in [PluginKeys -> PluginState] /\ given \in Seq(Entries)
  /\ \A k \in PluginKeys : KeyExact(given, k, plugins[k])
  /\ \A j \in DOMAIN given : PastExact(given, j)

ReleaseInv == Scanning /\ Replayed /\ HandedOutOnce

ReleaseSpec == ReleaseInit /\ [][GateNext \/ SuiteNext \/ RegistryNext]_releaseVars

LEMMA UpToIsSeq == ASSUME NEW n \in Nat, NEW S, NEW s \in UpTo(n, S) PROVE s \in Seq(S)
  BY SeqDef DEF UpTo

LEMMA ReleaseInitial == ReleaseInit => ReleaseInv
<1> SUFFICES ASSUME ReleaseInit PROVE ReleaseInv
  OBVIOUS
<1>1. Scanning
  BY DEF ReleaseInit, Scanning, NoGate, GateState
<1>2. Replayed
  BY DEF ReleaseInit, Replayed, NoSuite, SuiteState
<1>3. HandedOutOnce
  <2>1. plugins = [k \in PluginKeys |-> Unregistered] /\ given = <<>>
    BY DEF ReleaseInit
  <2>2. Unregistered \in PluginState /\ Unregistered.instance = 0
    BY ReleaseAssumption DEF Unregistered, PluginState
  <2> QED BY <2>1, <2>2 DEF HandedOutOnce, KeyExact
<1> QED BY <1>1, <1>2, <1>3 DEF ReleaseInv

\* Each of the three changes its own variables only.
LEMMA GateAlone ==
  ASSUME Scanning, UNCHANGED gate PROVE Scanning'
<1>1. \A i : FirstOfName(i)' = FirstOfName(i) /\ VerdictOn(i)' = VerdictOn(i)
  BY DEF FirstOfName, VerdictOn
<1>2. \A w : Having(w)' = Having(w)
  BY DEF Having
<1> QED BY <1>1, <1>2 DEF Scanning

LEMMA SuiteAlone ==
  ASSUME Replayed, UNCHANGED suite PROVE Replayed'
  BY DEF Replayed

LEMMA RegistryAlone ==
  ASSUME HandedOutOnce, UNCHANGED <<plugins, given>> PROVE HandedOutOnce'
  BY DEF HandedOutOnce

LEMMA ScanNextStep == ASSUME Scanning, ScanNext PROVE Scanning'
<1> DEFINE n == gate.scanned + 1
           d == gate.installed[n]
           seen == \E v \in gate.verdicts : v.name = d.name
           new == [name |-> d.name, verdict |-> Classify(d)]
<1>1. /\ gate.exit = "scanning" /\ gate.scanned < Len(gate.installed)
      /\ gate' = [gate EXCEPT !.scanned = n,
                    !.verdicts = IF seen THEN gate.verdicts ELSE gate.verdicts \cup {new}]
  BY DEF ScanNext
<1>2. /\ gate.installed \in Seq(Distribution) /\ gate.scanned \in Nat /\ n \in 1..Len(gate.installed)
      /\ d \in Distribution
  BY <1>1, ElementOfSeq DEF Scanning, GateState
<1>3. new \in Verdicts
  BY <1>2 DEF Classify, Distribution, Verdicts
<1>4. /\ gate'.installed = gate.installed /\ gate'.scanned = n /\ gate'.exit = "scanning"
      /\ gate'.strict = gate.strict
      /\ gate'.verdicts = IF seen THEN gate.verdicts ELSE gate.verdicts \cup {new}
      /\ gate' \in GateState
  <2> HIDE DEF new, seen, n, d
  <2>1. gate \in GateState /\ n \in Nat
    BY <1>2 DEF Scanning
  <2>2. (IF seen THEN gate.verdicts ELSE gate.verdicts \cup {new}) \in SUBSET Verdicts
    BY <1>3, <2>1 DEF GateState
  <2> QED BY <1>1, <2>1, <2>2 DEF GateState
<1>5. /\ \A i \in 1..Len(gate.installed) : FirstOfName(i)' = FirstOfName(i) /\ VerdictOn(i)' = VerdictOn(i)
      /\ VerdictOn(n) = new
  BY <1>4 DEF FirstOfName, VerdictOn
<1>6. 1..n = 1..gate.scanned \cup {n} /\ \A i \in 1..n : i \in 1..Len(gate.installed)
  BY <1>2
<1>7. \A v \in gate.verdicts : \E i \in 1..gate.scanned :
         FirstOfName(i) /\ v = VerdictOn(i) /\ v.name = gate.installed[i].name
  BY DEF Scanning, VerdictOn
<1>8. seen => /\ ~ FirstOfName(n)
              /\ \E j \in 1..n : FirstOfName(j) /\ gate.installed[j].name = d.name
  <2> SUFFICES ASSUME seen
               PROVE  /\ ~ FirstOfName(n)
                      /\ \E j \in 1..n : FirstOfName(j) /\ gate.installed[j].name = d.name
    OBVIOUS
  <2>1. PICK v \in gate.verdicts : v.name = d.name
    OBVIOUS
  <2>2. PICK i \in 1..gate.scanned : FirstOfName(i) /\ v.name = gate.installed[i].name
    BY <1>7
  <2>3. i \in 1..n - 1 /\ i \in 1..n /\ gate.installed[i].name = d.name
    BY <1>2, <2>1, <2>2
  <2> QED BY <2>2, <2>3 DEF FirstOfName
<1>9. ~ seen => FirstOfName(n)
  <2> SUFFICES ASSUME ~ seen, NEW i \in 1..n - 1, gate.installed[i].name = gate.installed[n].name
               PROVE  FALSE
    BY DEF FirstOfName
  <2>1. i \in 1..gate.scanned
    BY <1>2
  <2>2. PICK j \in 1..i : FirstOfName(j) /\ gate.installed[j].name = gate.installed[i].name
    BY <2>1 DEF Scanning
  <2>3. j \in 1..gate.scanned
    BY <1>2, <2>1, <2>2
  <2>4. VerdictOn(j) \in gate.verdicts /\ VerdictOn(j).name = d.name
    BY <2>2, <2>3 DEF Scanning, VerdictOn
  <2> QED BY <2>4
<1> HIDE DEF new, seen, n, d
<1>10. \A v \in gate'.verdicts : \E i \in 1..gate'.scanned : FirstOfName(i)' /\ v = VerdictOn(i)'
  BY <1>4, <1>5, <1>6, <1>7, <1>9
<1>11. \A i \in 1..gate'.scanned : FirstOfName(i)' => VerdictOn(i)' \in gate'.verdicts
  BY <1>4, <1>5, <1>6, <1>8 DEF Scanning
<1>12. ASSUME NEW i \in 1..gate'.scanned
       PROVE  \E j \in 1..i : FirstOfName(j)' /\ gate'.installed[j].name = gate'.installed[i].name
  <2>1. CASE i \in 1..gate.scanned
    <3>1. PICK j \in 1..i : FirstOfName(j) /\ gate.installed[j].name = gate.installed[i].name
      BY <2>1 DEF Scanning
    <3>2. j \in 1..Len(gate.installed)
      BY <1>2, <1>6, <2>1, <3>1
    <3> QED BY <1>4, <1>5, <3>1, <3>2
  <2>2. CASE i = n
    <3>1. \E j \in 1..n : FirstOfName(j) /\ gate.installed[j].name = gate.installed[n].name
      BY <1>2, <1>8, <1>9 DEF d
    <3> QED BY <1>4, <1>5, <1>6, <2>2, <3>1
  <2> QED BY <1>4, <1>6, <2>1, <2>2
<1>13. gate'.scanned <= Len(gate'.installed)
  BY <1>2, <1>4
<1> QED BY <1>4, <1>10, <1>11, <1>12, <1>13 DEF Scanning

LEMMA GateStep == ASSUME Scanning, GateNext PROVE Scanning'
<1>1. ASSUME NEW strict \in BOOLEAN, NEW installed \in UpTo(MaxInstalled, Distribution),
             StartScan(strict, installed)
      PROVE  Scanning'
  <2>1. installed \in Seq(Distribution)
    BY UpToIsSeq, ReleaseAssumption
  <2>2. gate' = [strict |-> strict, installed |-> installed, scanned |-> 0, verdicts |-> {},
                 exit |-> "scanning"]
    BY <1>1 DEF StartScan, NoGate
  <2>3. gate' \in GateState /\ gate'.scanned = 0 /\ gate'.verdicts = {} /\ gate'.exit = "scanning"
        /\ Len(gate'.installed) \in Nat
    BY <2>1, <2>2 DEF GateState
  <2> QED BY <2>3 DEF Scanning
<1>2. ASSUME ExitGate PROVE Scanning'
  <2>1. /\ gate.exit = "scanning" /\ gate.scanned = Len(gate.installed)
        /\ \E e \in {"passed", "failed"} :
             /\ gate' = [gate EXCEPT !.exit = e]
             /\ e = "failed" <=> Having("deny") # {} \/ (gate.strict /\ Having("unknown") # {})
    BY <1>2 DEF ExitGate
  <2>2. PICK e \in {"passed", "failed"} :
             /\ gate' = [gate EXCEPT !.exit = e]
             /\ e = "failed" <=> Having("deny") # {} \/ (gate.strict /\ Having("unknown") # {})
    BY <2>1
  <2>3. /\ gate'.exit = e /\ gate'.installed = gate.installed /\ gate'.scanned = gate.scanned
        /\ gate'.verdicts = gate.verdicts /\ gate'.strict = gate.strict
        /\ gate' \in GateState
    BY <2>2 DEF Scanning, GateState
  <2>4. \A v : Having(v)' = Having(v)
    BY <2>3 DEF Having
  <2>5. \A i : FirstOfName(i)' = FirstOfName(i) /\ VerdictOn(i)' = VerdictOn(i)
    BY <2>3 DEF FirstOfName, VerdictOn
  <2>6. gate'.exit = "failed" <=> Having("deny")' # {} \/ (gate'.strict /\ Having("unknown")' # {})
    BY <2>2, <2>3, <2>4
  <2> QED BY <2>1, <2>3, <2>5, <2>6 DEF Scanning
<1> QED BY <1>1, <1>2, ScanNextStep DEF GateNext

LEMMA SuiteStep == ASSUME Replayed, SuiteNext PROVE Replayed'
<1>1. ASSUME NEW goldens \in UpTo(MaxGoldens, Goldens), StartSuite(goldens) PROVE Replayed'
  <2>1. goldens \in Seq(Goldens)
    BY UpToIsSeq, ReleaseAssumption
  <2>2. suite' = [goldens |-> goldens, outcomes |-> <<>>, results |-> <<>>, at |-> "running"]
    BY <1>1 DEF StartSuite, NoSuite
  <2>3. suite' \in SuiteState
    BY <2>1, <2>2 DEF SuiteState
  <2> QED BY <2>1, <2>2, <2>3 DEF Replayed
<1>2. ASSUME NEW outcome \in Outcomes, Replay(outcome) PROVE Replayed'
  <2> DEFINE n == Len(suite.results) + 1
             passed == (Failures(suite.goldens[n], outcome) = {})
  <2>1. /\ suite.at = "running" /\ Len(suite.results) < Len(suite.goldens)
        /\ suite' = [suite EXCEPT !.results = Append(@, passed), !.outcomes = Append(@, outcome)]
    BY <1>2 DEF Replay
  <2>2. /\ suite.results \in Seq(BOOLEAN) /\ suite.outcomes \in Seq(Outcomes)
        /\ Len(suite.outcomes) = Len(suite.results) /\ suite.goldens \in Seq(Goldens)
    BY <2>1 DEF Replayed, SuiteState
  <2> HIDE DEF passed
  <2>3. passed \in BOOLEAN
    BY DEF passed
  <2>4. /\ suite'.results = Append(suite.results, passed) /\ suite'.outcomes = Append(suite.outcomes, outcome)
        /\ suite'.goldens = suite.goldens /\ suite'.at = "running"
        /\ suite' \in SuiteState
    <3>1. Append(suite.results, passed) \in Seq(BOOLEAN) /\ Append(suite.outcomes, outcome) \in Seq(Outcomes)
      BY <2>2, <2>3
    <3> QED BY <2>1, <3>1 DEF Replayed, SuiteState
  <2>5. ASSUME NEW i \in DOMAIN suite'.results
        PROVE  suite'.results[i] = (Failures(suite'.goldens[i], suite'.outcomes[i]) = {})
    <3>1. CASE i = n
      <4>1. suite'.results[i] = passed /\ suite'.outcomes[i] = outcome
        BY <2>2, <2>3, <2>4, <3>1
      <4> QED BY <2>4, <3>1, <4>1 DEF passed
    <3>2. CASE i \in DOMAIN suite.results
      <4>1. suite'.results[i] = suite.results[i] /\ suite'.outcomes[i] = suite.outcomes[i]
        BY <2>2, <2>3, <2>4, <3>2
      <4> QED BY <2>4, <3>2, <4>1 DEF Replayed
    <3>3. i = n \/ i \in DOMAIN suite.results
      BY <2>2, <2>3, <2>4
    <3> QED BY <3>1, <3>2, <3>3
  <2>6. Len(suite'.results) <= Len(suite'.goldens) /\ Len(suite'.outcomes) = Len(suite'.results)
    BY <2>1, <2>2, <2>3, <2>4
  <2> QED BY <2>4, <2>5, <2>6 DEF Replayed
<1>3. ASSUME ReplayRaises PROVE Replayed'
  <2>1. suite' = [suite EXCEPT !.at = "raised", !.results = <<>>]
    BY <1>3 DEF ReplayRaises
  <2>2. /\ suite'.results = <<>> /\ suite'.at = "raised" /\ suite'.goldens = suite.goldens
        /\ suite' \in SuiteState
        /\ suite.goldens \in Seq(Goldens)
    <3>1. <<>> \in Seq(BOOLEAN) /\ suite \in SuiteState
      BY DEF Replayed
    <3> QED BY <2>1, <3>1 DEF SuiteState
  <2> QED BY <2>2 DEF Replayed
<1>4. ASSUME EndSuite PROVE Replayed'
  <2>1. /\ suite.at = "running" /\ Len(suite.results) = Len(suite.goldens)
        /\ suite' = [suite EXCEPT !.at = "returned"]
    BY <1>4 DEF EndSuite
  <2>2. /\ suite'.results = suite.results /\ suite'.at = "returned" /\ suite'.goldens = suite.goldens
        /\ suite'.outcomes = suite.outcomes
        /\ suite' \in SuiteState
    BY <2>1 DEF Replayed, SuiteState
  <2> QED BY <2>1, <2>2 DEF Replayed
<1> QED BY <1>1, <1>2, <1>3, <1>4 DEF SuiteNext

\* One more entry of the history leaves what it says of those before it.
LEMMA HistoryGrows ==
  ASSUME NEW h \in Seq(Entries), NEW e \in Entries
  PROVE  LET n == Len(h) + 1
             g == Append(h, e)
         IN /\ g \in Seq(Entries) /\ n \in Nat \ {0} /\ Len(h) \in Nat /\ Len(g) = n
            /\ DOMAIN h = 1..Len(h) /\ DOMAIN g = 1..n /\ g[n] = e
            /\ \A i \in DOMAIN h : g[i] = h[i] /\ h[i] \in Entries
            /\ \A k : \A i \in Nat \ {0}, j \in 0..Len(h) : RegistersIn(g, k, i, j) <=> RegistersIn(h, k, i, j)
            /\ \A k : \A i \in 1..n :
                 RegistersIn(g, k, i, n) <=> (RegistersIn(h, k, i, Len(h)) \/ (e.key = k /\ e.what = "registered"))
<1> DEFINE n == Len(h) + 1
           g == Append(h, e)
<1>1. /\ g \in Seq(Entries) /\ n \in Nat \ {0} /\ Len(h) \in Nat /\ Len(g) = n
      /\ DOMAIN h = 1..Len(h) /\ DOMAIN g = 1..n /\ g[n] = e
      /\ \A i \in DOMAIN h : g[i] = h[i]
  OBVIOUS
<1>2. \A i \in DOMAIN h : h[i] \in Entries
  BY ElementOfSeq
<1> HIDE DEF g
<1>3. ASSUME NEW k, NEW i \in Nat \ {0}, NEW j \in 0..Len(h)
      PROVE  RegistersIn(g, k, i, j) <=> RegistersIn(h, k, i, j)
  <2>1. \A m \in i..j : g[m] = h[m]
    BY <1>1
  <2> QED BY <2>1 DEF RegistersIn
<1>4. ASSUME NEW k, NEW i \in 1..n
      PROVE  RegistersIn(g, k, i, n) <=> (RegistersIn(h, k, i, Len(h)) \/ (e.key = k /\ e.what = "registered"))
  <2>1. i..n = (i..Len(h)) \cup {n} /\ \A m \in i..Len(h) : g[m] = h[m]
    BY <1>1
  <2> QED BY <1>1, <2>1 DEF RegistersIn
<1> QED BY <1>1, <1>2, <1>3, <1>4 DEF g

\* What is left to show when an entry is made about a key.
LEMMA EntryMade ==
  ASSUME HandedOutOnce, NEW e \in Entries, given' = Append(given, e),
         plugins' \in [PluginKeys -> PluginState],
         \A q \in PluginKeys \ {e.key} : plugins'[q] = plugins[q],
         KeyExact(given', e.key, plugins'[e.key]), PastExact(given', Len(given) + 1)
  PROVE  HandedOutOnce'
<1> DEFINE h == given
           g == given'
           n == Len(h) + 1
<1>1. /\ h \in Seq(Entries) /\ g \in Seq(Entries) /\ n \in Nat \ {0} /\ Len(h) \in Nat /\ Len(g) = n
      /\ DOMAIN h = 1..Len(h) /\ DOMAIN g = 1..n /\ g[n] = e
      /\ \A i \in DOMAIN h : g[i] = h[i] /\ h[i] \in Entries
      /\ \A k : \A i \in Nat \ {0}, j \in 0..Len(h) : RegistersIn(g, k, i, j) <=> RegistersIn(h, k, i, j)
      /\ \A k : \A i \in 1..n :
           RegistersIn(g, k, i, n) <=> (RegistersIn(h, k, i, Len(h)) \/ (e.key = k /\ e.what = "registered"))
  BY HistoryGrows DEF HandedOutOnce
<1>2. /\ \A j \in DOMAIN h : PastExact(h, j)
      /\ \A k \in PluginKeys : KeyExact(h, k, plugins[k]) /\ plugins[k].instance \in Nat
  BY DEF HandedOutOnce, PluginState
<1> HIDE DEF h, g
<1>3. ASSUME NEW j \in DOMAIN h PROVE PastExact(g, j)
  <2>1. j \in Nat \ {0} /\ j \in 0..Len(h) /\ \A i \in 1..j : i \in DOMAIN h /\ i \in Nat \ {0}
    BY <1>1
  <2>2. PastExact(h, j)
    BY <1>2
  <2>3. \A k : \A i \in 1..j : RegistersIn(g, k, i, j) <=> RegistersIn(h, k, i, j)
    BY <1>1, <2>1
  <2>4. \A i \in 1..j : g[i] = h[i]
    BY <1>1, <2>1
  <2> QED BY <2>1, <2>2, <2>3, <2>4 DEF PastExact
<1>4. ASSUME NEW k \in PluginKeys \ {e.key} PROVE KeyExact(g, k, plugins[k])
  <2>1. \A i \in 1..n : RegistersIn(g, k, i, Len(g)) <=> RegistersIn(h, k, i, Len(h))
    BY <1>1
  <2>2. KeyExact(h, k, plugins[k]) /\ plugins[k].instance \in Nat /\ 1 \in 1..n
    BY <1>1, <1>2
  <2>3. plugins[k].instance <= Len(g)
    BY <1>1, <2>2 DEF KeyExact
  <2>4. \A i \in DOMAIN g : g[i].key = k => i \in DOMAIN h /\ g[i] = h[i] /\ i \in 1..n
    BY <1>1
  <2> QED BY <2>1, <2>2, <2>3, <2>4 DEF KeyExact
<1>5. \A j \in DOMAIN g : PastExact(g, j)
  BY <1>1, <1>3 DEF g, h
<1>6. \A k \in PluginKeys : KeyExact(g, k, plugins'[k])
  BY <1>4 DEF g
<1> QED BY <1>1, <1>5, <1>6 DEF g, HandedOutOnce

LEMMA NothingHandedOut ==
  ASSUME HandedOutOnce, NEW what \in {"rejected", "raised"}, NEW k \in PluginKeys,
         Note(what, k, 0), plugins' = plugins
  PROVE  HandedOutOnce'
<1> DEFINE e == [what |-> what, key |-> k, id |-> 0]
           n == Len(given) + 1
<1>1. given' = Append(given, e) /\ given \in Seq(Entries) /\ e \in Entries
      /\ e.key = k /\ e.what \notin {"resolved", "registered"}
  BY DEF HandedOutOnce, Note, Entries
<1> HIDE DEF e
<1>2. /\ n \in Nat \ {0} /\ Len(given') = n /\ DOMAIN given = 1..Len(given) /\ DOMAIN given' = 1..n
      /\ Len(given) \in Nat /\ given'[n] = e
      /\ \A i \in DOMAIN given : given'[i] = given[i]
      /\ \A i \in 1..n : RegistersIn(given', k, i, n) <=> RegistersIn(given, k, i, Len(given))
  BY <1>1, HistoryGrows
<1>3. PastExact(given', n)
  BY <1>1, <1>2 DEF PastExact
<1>4. KeyExact(given', k, plugins[k])
  <2>1. KeyExact(given, k, plugins[k]) /\ plugins[k].instance \in Nat
    BY DEF HandedOutOnce, PluginState
  <2>2. plugins[k].instance <= Len(given') /\ 1 \in 1..n
    BY <1>2, <2>1 DEF KeyExact
  <2>3. \A i \in DOMAIN given' : given'[i].what = "resolved" =>
           i \in DOMAIN given /\ given'[i] = given[i] /\ i \in 1..n
    BY <1>1, <1>2
  <2> QED BY <1>2, <2>1, <2>2, <2>3 DEF KeyExact
<1> QED BY <1>1, <1>3, <1>4, EntryMade DEF HandedOutOnce

LEMMA RegisterStep ==
  ASSUME HandedOutOnce, NEW k \in PluginKeys, NEW license \in Licenses, Register(k, license)
  PROVE  HandedOutOnce'
<1> DEFINE n == Len(given) + 1
           p == plugins[k]
           e == [what |-> "registered", key |-> k, id |-> p.number + 1]
<1>1. CASE license \in RuntimeAllowed
  <2>1. p.number + 1 \in Nat
    BY DEF HandedOutOnce, PluginState
  <2>2. /\ plugins' = [plugins EXCEPT ![k] =
              [license |-> license, number |-> p.number + 1, instance |-> 0]]
        /\ Note("registered", k, p.number + 1)
    BY <1>1 DEF Register, HandedOutOnce
  <2>3. /\ plugins' \in [PluginKeys -> PluginState]
        /\ plugins'[k].instance = 0 /\ plugins'[k].license = license
        /\ \A q \in PluginKeys \ {k} : plugins'[q] = plugins[q]
    <3> HIDE DEF p
    <3> QED BY <2>1, <2>2 DEF HandedOutOnce, PluginState
  <2> HIDE DEF p
  <2>4. given' = Append(given, e) /\ given \in Seq(Entries) /\ e \in Entries
        /\ e.key = k /\ e.what = "registered"
    BY <2>1, <2>2 DEF HandedOutOnce, Note, Entries
  <2> HIDE DEF e
  <2>5. /\ n \in Nat \ {0} /\ Len(given') = n /\ DOMAIN given' = 1..n /\ given'[n] = e
        /\ \A i \in 1..n : RegistersIn(given', k, i, n)
    BY <2>4, HistoryGrows
  <2>6. PastExact(given', n)
    BY <2>4, <2>5 DEF PastExact
  <2>7. KeyExact(given', k, plugins'[k])
    BY <1>1, <2>3, <2>5 DEF KeyExact
  <2> QED BY <2>3, <2>4, <2>6, <2>7, EntryMade
<1>2. CASE license \notin RuntimeAllowed
  <2>1. plugins' = plugins /\ Note("rejected", k, 0)
    BY <1>2 DEF Register
  <2> QED BY <2>1, NothingHandedOut
<1> QED BY <1>1, <1>2

LEMMA ResolvePluginStep ==
  ASSUME HandedOutOnce, NEW k \in PluginKeys, NEW works \in BOOLEAN, ResolvePlugin(k, works)
  PROVE  HandedOutOnce'
<1> DEFINE n == Len(given) + 1
           first == plugins[k].instance = 0
           id == IF first THEN n ELSE plugins[k].instance
           e == [what |-> "resolved", key |-> k, id |-> id]
<1>1. CASE plugins[k] = Unregistered \/ (first /\ ~ works)
  <2>1. plugins' = plugins /\ Note("raised", k, 0)
    BY <1>1 DEF ResolvePlugin
  <2> QED BY <2>1, NothingHandedOut
<1>2. CASE ~ (plugins[k] = Unregistered \/ (first /\ ~ works))
  <2>1. /\ plugins' = [plugins EXCEPT ![k].instance = id]
        /\ plugins[k] \in PluginState /\ Len(given) \in Nat /\ given \in Seq(Entries)
    BY <1>2 DEF ResolvePlugin, HandedOutOnce
  <2>2. id \in Nat /\ id # 0
    BY <2>1 DEF PluginState
  <2> HIDE DEF first
  <2>3. /\ plugins' \in [PluginKeys -> PluginState]
        /\ plugins'[k].instance = id /\ plugins'[k].license = plugins[k].license
        /\ \A q \in PluginKeys \ {k} : plugins'[q] = plugins[q]
    <3> HIDE DEF id
    <3> QED BY <2>1, <2>2 DEF HandedOutOnce, PluginState
  <2>4. Note("resolved", k, id)
    BY <1>2, <2>3 DEF ResolvePlugin, first
  <2> HIDE DEF id
  <2>5. given' = Append(given, e) /\ e \in Entries /\ e.key = k /\ e.what = "resolved" /\ e.id = id
    BY <2>2, <2>4 DEF Note, Entries
  <2> HIDE DEF e
  <2>6. /\ n \in Nat \ {0} /\ Len(given') = n /\ DOMAIN given' = 1..n /\ DOMAIN given = 1..Len(given)
        /\ given'[n] = e
        /\ \A i \in DOMAIN given : given'[i] = given[i] /\ given[i] \in Entries
        /\ \A i \in 1..n : RegistersIn(given', k, i, n) <=> RegistersIn(given, k, i, Len(given))
    BY <2>1, <2>5, HistoryGrows
  <2>7. KeyExact(given, k, plugins[k]) /\ \A i \in DOMAIN given : PastExact(given, i) /\ given[i].id \in Nat
    BY <2>6 DEF HandedOutOnce, Entries
  <2>8. id <= n /\ (first => id = n) /\ (~ first => id = plugins[k].instance)
    BY <2>1, <2>7 DEF KeyExact, id, PluginState
  \* The same instance as an earlier one exactly if nothing was registered since.
  <2>9. ASSUME NEW i \in 1..n, given'[i].what = "resolved", given'[i].key = k
        PROVE  given'[i].id = id <=> ~ RegistersIn(given', k, i, n)
    <3>1. CASE i = n
      <4>1. ~ RegistersIn(given, k, n, Len(given))
        BY <2>1 DEF RegistersIn
      <4> QED BY <2>5, <2>6, <3>1, <4>1
    <3>2. CASE i \in DOMAIN given
      <4>1. given'[i] = given[i] /\ (RegistersIn(given', k, i, n) <=> RegistersIn(given, k, i, Len(given)))
        BY <2>6, <3>2
      <4>2. CASE first
        <5>1. RegistersIn(given, k, i, Len(given))
          BY <2>7, <2>9, <3>2, <4>1, <4>2 DEF KeyExact, first
        <5>2. given[i].id <= i /\ given[i].id \in Nat /\ i < n /\ i \in Nat
          BY <2>1, <2>6, <2>7, <2>9, <3>2, <4>1 DEF PastExact
        <5>3. given[i].id # id
          BY <2>6, <2>8, <4>2, <5>2
        <5> QED BY <4>1, <5>1, <5>3
      <4>3. CASE ~ first
        BY <2>7, <2>8, <2>9, <3>2, <4>1, <4>3 DEF KeyExact, first
      <4> QED BY <4>2, <4>3
    <3> QED BY <2>1, <2>6, <3>1, <3>2
  <2>10. plugins[k].license \in RuntimeAllowed /\ RegistersIn(given', k, 1, n)
    <3>1. RegistersIn(given, k, 1, Len(given)) /\ plugins[k].license \in RuntimeAllowed /\ 1 \in 1..n
      BY <1>2, <2>6, <2>7 DEF KeyExact
    <3> QED BY <2>6, <3>1
  <2> HIDE DEF n
  <2>11. PastExact(given', n)
    BY <2>5, <2>6, <2>8, <2>9, <2>10 DEF PastExact
  <2>12. KeyExact(given', k, plugins'[k])
    BY <2>2, <2>3, <2>6, <2>8, <2>9, <2>10 DEF KeyExact
  <2> QED BY <2>3, <2>5, <2>11, <2>12, EntryMade DEF n
<1> QED BY <1>1, <1>2

\* The gate, the suite and the registry each remember what they ought to.
THEOREM ReleaseCorrect == ReleaseSpec => []ReleaseInv
<1>1. ReleaseInv /\ [GateNext \/ SuiteNext \/ RegistryNext]_releaseVars => ReleaseInv'
  <2> SUFFICES ASSUME ReleaseInv, [GateNext \/ SuiteNext \/ RegistryNext]_releaseVars
               PROVE  ReleaseInv'
    OBVIOUS
  <2>1. CASE UNCHANGED releaseVars
    <3>1. UNCHANGED gate /\ UNCHANGED suite /\ UNCHANGED <<plugins, given>>
      BY <2>1 DEF releaseVars
    <3> QED BY <3>1, GateAlone, SuiteAlone, RegistryAlone DEF ReleaseInv
  <2>2. CASE GateNext
    <3>1. UNCHANGED suite /\ UNCHANGED <<plugins, given>>
      BY <2>2 DEF GateNext, StartScan, ScanNext, ExitGate
    <3> QED BY <2>2, <3>1, GateStep, SuiteAlone, RegistryAlone DEF ReleaseInv
  <2>3. CASE SuiteNext
    <3>1. UNCHANGED gate /\ UNCHANGED <<plugins, given>>
      BY <2>3 DEF SuiteNext, StartSuite, Replay, ReplayRaises, EndSuite
    <3> QED BY <2>3, <3>1, GateAlone, SuiteStep, RegistryAlone DEF ReleaseInv
  <2>4. CASE RegistryNext
    <3>1. UNCHANGED gate /\ UNCHANGED suite
      BY <2>4 DEF RegistryNext, Register, ResolvePlugin
    <3>2. HandedOutOnce'
      BY <2>4, RegisterStep, ResolvePluginStep DEF RegistryNext, ReleaseInv
    <3> QED BY <3>1, <3>2, GateAlone, SuiteAlone DEF ReleaseInv
  <2> QED BY <2>1, <2>2, <2>3, <2>4
<1> QED BY <1>1, ReleaseInitial, PTL DEF ReleaseSpec

\* The rules of evaluate() fail none exactly if the replay did what was asked.
LEMMA FailuresAreExact ==
  ASSUME NEW golden \in Goldens, NEW outcome \in Outcomes
  PROVE  Failures(golden, outcome) = {} <=> Meets(outcome, golden)
<1> DEFINE asked == golden.calls
           made == outcome.calls
           same == Len(asked) = Len(made)
           wrongName(i) == asked[i].name # made[i].name
           wrongArgs(i) == asked[i].args \notin {AnyValue, made[i].args}
           As(i) == IF i \in DOMAIN asked /\ asked[i].args = AnyValue
                    THEN [made[i] EXCEPT !.args = AnyValue] ELSE made[i]
<1>1. /\ Len(asked) \in Nat /\ DOMAIN asked = 1..Len(asked) /\ asked = [i \in 1..Len(asked) |-> asked[i]]
      /\ Len(made) \in Nat /\ DOMAIN made = 1..Len(made)
      /\ \A i \in DOMAIN asked : asked[i] = [name |-> asked[i].name, args |-> asked[i].args]
      /\ \A i \in DOMAIN made : made[i] = [name |-> made[i].name, args |-> made[i].args]
  <2>1. ASSUME NEW e \in Goldens \cup Outcomes
        PROVE  /\ Len(e.calls) \in Nat /\ DOMAIN e.calls = 1..Len(e.calls)
               /\ e.calls = [i \in 1..Len(e.calls) |-> e.calls[i]]
               /\ \A i \in DOMAIN e.calls :
                    e.calls[i] = [name |-> e.calls[i].name, args |-> e.calls[i].args]
    <3> DEFINE called == {e.calls[i] : i \in DOMAIN e.calls}
               C == {[name |-> c.name, args |-> c.args] : c \in called}
    <3>1. e.calls \in Seq(C)
      BY ReleaseAssumption
    <3>2. \A x \in C : x = [name |-> x.name, args |-> x.args]
      OBVIOUS
    <3> HIDE DEF C
    <3>3. Len(e.calls) \in Nat /\ DOMAIN e.calls = 1..Len(e.calls) /\ e.calls \in [1..Len(e.calls) -> C]
      BY <3>1, LenProperties
    <3> QED BY <3>2, <3>3
  <2> QED BY <2>1
<1>2. Failures(golden, outcome) = {} <=>
        /\ golden.contains \subseteq outcome.says /\ golden.avoids \cap outcome.says = {}
        /\ golden.grounded \in {AnyValue, outcome.grounded}
        /\ asked # <<>> => same
        /\ same => \A i \in DOMAIN asked : ~ wrongName(i) /\ ~ wrongArgs(i)
  BY DEF Failures
<1>3. ASSUME same, NEW i \in DOMAIN asked
      PROVE  asked[i] = As(i) <=> ~ wrongName(i) /\ ~ wrongArgs(i)
  BY <1>1, <1>3
<1>4. asked = <<>> <=> Len(asked) = 0
  BY <1>1
<1>5. asked # <<>> =>
        (asked = [i \in DOMAIN made |-> As(i)] <=> same /\ \A i \in DOMAIN asked : asked[i] = As(i))
  <2> HIDE DEF As
  <2>1. same <=> DOMAIN asked = DOMAIN made
    BY <1>1
  <2> QED BY <1>1, <2>1
<1>6. asked = <<>> => \A i \in DOMAIN asked : ~ wrongName(i) /\ ~ wrongArgs(i)
  OBVIOUS
<1> QED BY <1>2, <1>3, <1>5, <1>6 DEF Meets

\* For any policy, transcripts and registrations: a build passes exactly if no
\* imported package names a denied license; a suite tells the truth of every
\* replay; and a plugin is handed out as it was last registered, with a license
\* that is allowed (tools/license_gate, tools/eval_harness, saap/core/registry.py).
THEOREM ReleaseExact == ReleaseSpec => []ReleaseIsExact
<1>1. ReleaseInv => ReleaseIsExact
  <2> SUFFICES ASSUME ReleaseInv PROVE ReleaseIsExact
    OBVIOUS
  <2>1. ASSUME gate.exit \in {"passed", "failed"}
        PROVE  gate.exit = "passed" <=>
                 \A i \in DOMAIN gate.installed :
                   LET p == gate.installed[i].name
                       entries == Contained[Imported(p).license]
                   IN \/ p \in Overridden
                      \/ entries \cap Deny = {} /\ (gate.strict => entries # {})
    <3> DEFINE Fine(d) == \/ d.name \in Overridden
                          \/ Contained[d.license] \cap Deny = {} /\ (gate.strict => Contained[d.license] # {})
               Bad(d) == Classify(d) = "deny" \/ (gate.strict /\ Classify(d) = "unknown")
    <3>1. /\ Scanning /\ gate.installed \in Seq(Distribution) /\ gate.scanned = Len(gate.installed)
          /\ DOMAIN gate.installed = 1..gate.scanned /\ gate.scanned \in Nat
      BY <2>1 DEF ReleaseInv, Scanning, GateState
    <3>2. \A i \in 1..gate.scanned : gate.installed[i] \in Distribution
      BY <3>1, ElementOfSeq
    <3>3. ASSUME NEW i \in 1..gate.scanned, FirstOfName(i)
          PROVE  Imported(gate.installed[i].name) = gate.installed[i]
      <4> DEFINE places == {j \in DOMAIN gate.installed : gate.installed[j].name = gate.installed[i].name}
      <4>1. i \in places /\ \A j \in places : i <= j
        BY <3>1, <3>3 DEF FirstOfName
      <4>2. \A j \in places : (\A m \in places : j <= m) => j = i
        BY <3>1, <4>1
      <4> QED BY <4>1, <4>2 DEF Imported
    <3>4. \A d \in Distribution : Fine(d) <=> ~ Bad(d)
      BY ReleaseAssumption DEF Classify, Distribution
    <3>5. gate.exit = "passed" <=> \A i \in 1..gate.scanned : FirstOfName(i) => ~ Bad(gate.installed[i])
      <4>1. \A w \in {"deny", "unknown"} : Having(w) # {} <=>
              \E i \in 1..gate.scanned : FirstOfName(i) /\ Classify(gate.installed[i]) = w
        <5> TAKE w \in {"deny", "unknown"}
        <5>1. ASSUME Having(w) # {}
              PROVE  \E i \in 1..gate.scanned : FirstOfName(i) /\ Classify(gate.installed[i]) = w
          <6>1. PICK v \in gate.verdicts : v.verdict = w
            BY <5>1 DEF Having
          <6>2. PICK i \in 1..gate.scanned : FirstOfName(i) /\ v = VerdictOn(i)
            BY <3>1 DEF Scanning
          <6> QED BY <6>1, <6>2 DEF VerdictOn
        <5>2. ASSUME NEW i \in 1..gate.scanned, FirstOfName(i), Classify(gate.installed[i]) = w
              PROVE  Having(w) # {}
          <6>1. VerdictOn(i) \in gate.verdicts /\ VerdictOn(i).verdict = w
            BY <3>1, <5>2 DEF Scanning, VerdictOn
          <6> QED BY <6>1 DEF Having
        <5> QED BY <5>1, <5>2
      <4>2. gate.exit = "failed" <=> Having("deny") # {} \/ (gate.strict /\ Having("unknown") # {})
        BY <2>1, <3>1 DEF Scanning
      <4> QED BY <2>1, <4>1, <4>2
    <3> HIDE DEF Bad
    <3>6. gate.exit = "passed" <=> \A i \in 1..gate.scanned : FirstOfName(i) => Fine(gate.installed[i])
      BY <3>2, <3>4, <3>5
    <3>7. \A i \in 1..gate.scanned : \E j \in 1..gate.scanned :
            FirstOfName(j) /\ gate.installed[j].name = gate.installed[i].name
      BY <3>1 DEF Scanning
    <3>8. (\A i \in 1..gate.scanned : FirstOfName(i) => Fine(gate.installed[i]))
            <=> \A i \in 1..gate.scanned :
                  LET p == gate.installed[i].name
                      entries == Contained[Imported(p).license]
                  IN p \in Overridden \/ (entries \cap Deny = {} /\ (gate.strict => entries # {}))
      BY <3>3, <3>7
    <3> HIDE DEF Fine
    <3> QED BY <3>1, <3>6, <3>8
  <2>2. ASSUME NEW i \in DOMAIN suite.results
        PROVE  suite.results[i] = Meets(suite.outcomes[i], suite.goldens[i])
    <3>1. /\ suite.results \in Seq(BOOLEAN) /\ suite.goldens \in Seq(Goldens) /\ suite.outcomes \in Seq(Outcomes)
          /\ Len(suite.results) <= Len(suite.goldens)
          /\ suite.results # <<>> => Len(suite.outcomes) = Len(suite.results)
      BY DEF ReleaseInv, Replayed, SuiteState
    <3>2. i \in 1..Len(suite.goldens) /\ i \in 1..Len(suite.outcomes)
      BY <3>1
    <3>3. suite.goldens[i] \in Goldens /\ suite.outcomes[i] \in Outcomes
      BY <3>1, <3>2, ElementOfSeq
    <3>4. suite.results[i] = (Failures(suite.goldens[i], suite.outcomes[i]) = {})
      BY DEF ReleaseInv, Replayed
    <3>5. Meets(suite.outcomes[i], suite.goldens[i]) \in BOOLEAN
      BY DEF Meets
    <3> QED BY <3>3, <3>4, <3>5, FailuresAreExact
  <2>3. suite.at = "returned" => Len(suite.results) = Len(suite.goldens)
    BY DEF ReleaseInv, Replayed
  <2>4. /\ \A j \in DOMAIN given : given[j].what = "resolved" =>
             /\ RegisteredBetween(1, j)
             /\ \A i \in 1..j : given[i].what = "resolved" /\ given[i].key = given[j].key =>
                  (given[i].id = given[j].id <=> ~ RegisteredBetween(i, j))
        /\ \A k \in PluginKeys : plugins[k] # Unregistered => plugins[k].license \in RuntimeAllowed
    BY DEF ReleaseInv, HandedOutOnce, KeyExact, PastExact, RegistersIn, RegisteredBetween
  <2> QED BY <2>1, <2>2, <2>3, <2>4 DEF ReleaseIsExact
<1> QED BY <1>1, ReleaseCorrect, PTL

-----------------------------------------------------------------------------
(* Model streams: how far the client has read, and what it made of it.      *)

StreamEvents == [kind : {"token", "final", "completion"}, text : Seq(Nat)]

\* The tokens so far are the texts of the lines taken.
TokensExact ==
  /\ line \in Seq(Lines) /\ taken \in Nat /\ taken <= Len(line) /\ emitted \in Seq(StreamEvents)
  /\ \A k \in Tokens : \E n \in 1..taken : HasText(line[n]) /\ emitted[k].text = <<n>>
  /\ \A n \in 1..taken : HasText(line[n]) => \E k \in Tokens : emitted[k].text = <<n>>
  /\ \A j, k \in Tokens : j < k => Head(emitted[j].text) < Head(emitted[k].text)

\* How far the client has read, by the state of its generator.
ReadSoFar ==
  /\ stream \in {"created", "reading", "yielded", "last text", "ended", "raised", "left", "completed"}
  /\ stream = "created" => emitted = <<>> /\ taken = 0
  /\ stream = "completed" => taken = 0 /\ Tokens = {} /\ Finals = {}
  /\ \A m \in Marks : taken <= m
  /\ stream \in {"created", "reading", "yielded"} => taken \notin Marks
  /\ stream = "last text" => taken \in Marks
  /\ stream = "ended" /\ provider # "langflow" =>
       \/ taken \in Marks
       \/ taken = Len(line) /\ server = "closed"

FinalsExact ==
  provider # "langflow" =>
    /\ stream \notin {"ended", "completed"} => Tokens = DOMAIN emitted
    /\ stream = "ended" =>
         /\ emitted # <<>> /\ Finals = {Len(emitted)} /\ Tokens = 1..Len(emitted) - 1
         /\ emitted[Len(emitted)].text = Joined(SubSeq(emitted, 1, Len(emitted) - 1))

StreamInv == TokensExact /\ ReadSoFar /\ FinalsExact

StreamSpec == ModelStreamsInit /\ [][ModelStreamsNext]_modelStreamVars

\* One more event.
LEMMA EventFacts ==
  ASSUME NEW s \in Seq(StreamEvents), NEW e \in StreamEvents
  PROVE  LET g == Append(s, e)
         IN /\ g \in Seq(StreamEvents) /\ Len(s) \in Nat /\ Len(g) = Len(s) + 1
            /\ DOMAIN s = 1..Len(s) /\ DOMAIN g = 1..Len(s) + 1 /\ g[Len(s) + 1] = e
            /\ \A i \in DOMAIN s : g[i] = s[i] /\ s[i] \in StreamEvents
            /\ SubSeq(g, 1, Len(g) - 1) = s /\ s \o <<e>> = g
<1>1. /\ Append(s, e) \in Seq(StreamEvents) /\ Len(s) \in Nat /\ Len(Append(s, e)) = Len(s) + 1
      /\ DOMAIN s = 1..Len(s) /\ DOMAIN Append(s, e) = 1..Len(s) + 1 /\ Append(s, e)[Len(s) + 1] = e
      /\ \A i \in DOMAIN s : Append(s, e)[i] = s[i]
  OBVIOUS
<1>2. \A i \in DOMAIN s : s[i] \in StreamEvents
  BY ElementOfSeq
<1>3. SubSeq(Append(s, e), 1, Len(s)) = s /\ s \o <<e>> = Append(s, e)
  OBVIOUS
<1> QED BY <1>1, <1>2, <1>3

\* A line is taken that says nothing.
LEMMA SilentLine ==
  ASSUME StreamInv, taken < Len(line), ~ HasText(line[taken + 1]),
         taken' = taken + 1, UNCHANGED <<line, emitted>>
  PROVE  TokensExact'
<1>1. /\ taken \in Nat /\ taken' \in Nat /\ 1..taken' = 1..taken \cup {taken + 1} /\ Len(line) \in Nat
      /\ Tokens' = Tokens
  BY DEF StreamInv, TokensExact, Tokens
<1>2. /\ line \in Seq(Lines) /\ taken' <= Len(line) /\ emitted \in Seq(StreamEvents)
      /\ \A k \in Tokens : \E n \in 1..taken : HasText(line[n]) /\ emitted[k].text = <<n>>
      /\ \A n \in 1..taken : HasText(line[n]) => \E k \in Tokens : emitted[k].text = <<n>>
      /\ \A j, k \in Tokens : j < k => Head(emitted[j].text) < Head(emitted[k].text)
  BY <1>1 DEF StreamInv, TokensExact
<1>3. \A k \in Tokens : \E n \in 1..taken' : HasText(line[n]) /\ emitted[k].text = <<n>>
  BY <1>1, <1>2
<1>4. \A n \in 1..taken' : HasText(line[n]) => \E k \in Tokens : emitted[k].text = <<n>>
  BY <1>1, <1>2
<1> QED BY <1>1, <1>2, <1>3, <1>4 DEF TokensExact

\* A line is taken that has a text.
LEMMA SpokenLine ==
  ASSUME StreamInv, taken < Len(line), HasText(line[taken + 1]),
         taken' = taken + 1, line' = line, emitted' = Append(emitted, TokenEvent(taken'))
  PROVE  TokensExact' /\ Tokens' = Tokens \cup {Len(emitted) + 1} /\ Len(emitted') = Len(emitted) + 1
<1> DEFINE e == TokenEvent(taken')
           n == taken + 1
           g == Append(emitted, e)
<1>1. /\ taken \in Nat /\ n \in Nat /\ 1..n = 1..taken \cup {n} /\ Len(line) \in Nat
      /\ emitted \in Seq(StreamEvents) /\ line \in Seq(Lines)
  BY DEF StreamInv, TokensExact
<1>2. e \in StreamEvents /\ e.kind = "token" /\ e.text = <<n>> /\ Head(<<n>>) = n
  BY <1>1 DEF TokenEvent, StreamEvents
<1> HIDE DEF e
<1>3. /\ g \in Seq(StreamEvents) /\ Len(emitted) \in Nat /\ Len(g) = Len(emitted) + 1
      /\ DOMAIN emitted = 1..Len(emitted) /\ DOMAIN g = 1..Len(emitted) + 1 /\ g[Len(emitted) + 1] = e
      /\ \A i \in DOMAIN emitted : g[i] = emitted[i]
  BY <1>1, <1>2, EventFacts
<1>4. emitted' = g
  BY DEF e
<1> HIDE DEF g
<1>5. Tokens' = Tokens \cup {Len(emitted) + 1} /\ Len(emitted) + 1 \notin Tokens
  BY <1>2, <1>3, <1>4 DEF Tokens
<1>6. \A k \in Tokens : /\ emitted'[k] = emitted[k] /\ k \in Nat /\ k < Len(emitted) + 1
                        /\ Head(emitted[k].text) \in 1..taken
  <2> TAKE k \in Tokens
  <2>1. k \in DOMAIN emitted
    BY DEF Tokens
  <2>2. PICK m \in 1..taken : emitted[k].text = <<m>>
    BY DEF StreamInv, TokensExact
  <2>3. Head(<<m>>) = m
    OBVIOUS
  <2> QED BY <1>3, <1>4, <2>1, <2>2, <2>3
<1>7. \A k \in Tokens' : \E m \in 1..taken' : HasText(line'[m]) /\ emitted'[k].text = <<m>>
  <2> TAKE k \in Tokens'
  <2>1. CASE k \in Tokens
    <3>1. PICK m \in 1..taken : HasText(line[m]) /\ emitted[k].text = <<m>>
      BY <2>1 DEF StreamInv, TokensExact
    <3>2. m \in 1..taken'
      BY <1>1
    <3> QED BY <1>6, <2>1, <3>1, <3>2
  <2>2. CASE k = Len(emitted) + 1
    <3>1. emitted'[k].text = <<n>> /\ HasText(line'[n]) /\ n \in 1..taken'
      BY <1>1, <1>2, <1>3, <1>4, <2>2
    <3> QED BY <3>1
  <2> QED BY <1>5, <2>1, <2>2
<1>8. \A m \in 1..taken' : HasText(line'[m]) => \E k \in Tokens' : emitted'[k].text = <<m>>
  BY <1>1, <1>2, <1>3, <1>4, <1>5, <1>6 DEF StreamInv, TokensExact
<1>9. \A j, k \in Tokens' : j < k => Head(emitted'[j].text) < Head(emitted'[k].text)
  <2> SUFFICES ASSUME NEW j \in Tokens', NEW k \in Tokens', j < k
               PROVE  Head(emitted'[j].text) < Head(emitted'[k].text)
    OBVIOUS
  <2>1. j \in Tokens
    BY <1>3, <1>5, <1>6
  <2>2. CASE k \in Tokens
    BY <1>6, <2>1, <2>2 DEF StreamInv, TokensExact
  <2>3. CASE k = Len(emitted) + 1
    <3>1. emitted'[k] = e /\ Head(e.text) = n
      BY <1>2, <1>3, <1>4, <2>3
    <3>2. emitted'[j] = emitted[j] /\ Head(emitted[j].text) \in 1..taken
      BY <1>6, <2>1
    <3>3. Head(emitted[j].text) < n
      BY <1>1, <3>2
    <3> HIDE DEF n
    <3> QED BY <3>1, <3>2, <3>3
  <2> QED BY <1>5, <2>2, <2>3
<1>10. taken' \in Nat /\ taken' <= Len(line')
  BY <1>1
<1>11. line' \in Seq(Lines) /\ emitted' \in Seq(StreamEvents)
  BY <1>1, <1>3, <1>4
<1> QED BY <1>3, <1>4, <1>5, <1>7, <1>8, <1>9, <1>10, <1>11 DEF TokensExact

\* The last event of a provider's answer, perhaps with a mark that has no text.
Finishes ==
  /\ stream \in {"reading", "last text"} /\ stream' = "ended"
  /\ emitted' = Finished(emitted) /\ UNCHANGED <<line, provider>>
  /\ taken' \in Nat /\ taken' <= Len(line)
  /\ taken' = taken \/ (taken' = taken + 1 /\ ~ HasText(line[taken']))

LEMMA FinishedStep ==
  ASSUME StreamInv, Finishes
  PROVE  TokensExact' /\ FinalsExact'
<1>0. /\ taken \in Nat /\ (taken' = taken \/ taken' = taken + 1) /\ emitted \in Seq(StreamEvents)
      /\ 1..taken' = 1..taken \cup (IF taken' = taken THEN {} ELSE {taken'})
  <2>1. taken \in Nat /\ (taken' = taken \/ taken' = taken + 1) /\ emitted \in Seq(StreamEvents)
    BY DEF StreamInv, TokensExact, Finishes
  <2>2. 1..taken + 1 = 1..taken \cup {taken + 1}
    BY <2>1
  <2> QED BY <2>1, <2>2
<1>1. CASE provider = "langflow"
  <2>1. emitted' = emitted /\ Tokens' = Tokens /\ UNCHANGED <<line, provider>>
    BY <1>1 DEF Finished, Tokens, Finishes
  <2>2. TokensExact'
    <3>1. CASE taken' = taken
      BY <2>1, <3>1 DEF StreamInv, TokensExact
    <3>2. CASE taken' # taken
      BY <1>0, <2>1, <3>2, SilentLine DEF StreamInv, TokensExact, Finishes
    <3> QED BY <3>1, <3>2
  <2> QED BY <1>1, <2>1, <2>2 DEF FinalsExact
<1>2. CASE provider # "langflow"
  <2> DEFINE e == [kind |-> "final", text |-> Joined(emitted)]
             n == Len(emitted) + 1
  <2>1. Tokens = DOMAIN emitted
    BY <1>2 DEF StreamInv, FinalsExact, Finishes
  <2>2. Joined(emitted) \in Seq(Nat)
    <3>1. /\ \A k \in DOMAIN emitted : Head(emitted[k].text) \in Nat
          /\ DOMAIN emitted = 1..Len(emitted) /\ Len(emitted) \in Nat
      <4>1. \A k \in Tokens : Head(emitted[k].text) \in Nat
        <5> TAKE k \in Tokens
        <5>1. PICK m \in 1..taken : emitted[k].text = <<m>>
          BY DEF StreamInv, TokensExact
        <5>2. Head(<<m>>) = m /\ m \in Nat
          BY <1>0
        <5> QED BY <5>1, <5>2
      <4>2. DOMAIN emitted = 1..Len(emitted) /\ Len(emitted) \in Nat
        BY <1>0
      <4> QED BY <2>1, <4>1, <4>2
    <3>2. Joined(emitted) \in [1..Len(emitted) -> Nat]
      BY <3>1 DEF Joined
    <3> QED BY <3>1, <3>2, SeqDef
  <2>3. e \in StreamEvents /\ e.kind = "final" /\ e.text = Joined(emitted) /\ emitted' = Append(emitted, e)
    BY <1>2, <2>2 DEF StreamEvents, Finished, Finishes
  <2> HIDE DEF e
  <2>4. /\ emitted' \in Seq(StreamEvents) /\ Len(emitted) \in Nat /\ Len(emitted') = n
        /\ DOMAIN emitted = 1..Len(emitted) /\ DOMAIN emitted' = 1..n /\ emitted'[n] = e
        /\ \A i \in DOMAIN emitted : emitted'[i] = emitted[i]
        /\ SubSeq(emitted', 1, Len(emitted') - 1) = emitted
    <3> DEFINE g == Append(emitted, e)
    <3>1. /\ g \in Seq(StreamEvents) /\ Len(emitted) \in Nat /\ Len(g) = n
          /\ DOMAIN emitted = 1..Len(emitted) /\ DOMAIN g = 1..n /\ g[n] = e
          /\ \A i \in DOMAIN emitted : g[i] = emitted[i]
          /\ SubSeq(g, 1, Len(g) - 1) = emitted
      BY <1>0, <2>3, EventFacts
    <3>2. emitted' = g
      BY <2>3
    <3> HIDE DEF g
    <3> QED BY <3>1, <3>2
  <2>5. Tokens' = Tokens /\ Finals' = {n} /\ Tokens = 1..n - 1 /\ emitted' # <<>>
    <3>1. \A i \in 1..n - 1 : emitted[i].kind = "token" /\ emitted'[i] = emitted[i]
      BY <2>1, <2>4 DEF Tokens
    <3>2. 1..n = 1..n - 1 \cup {n} /\ n \notin 1..n - 1 /\ n - 1 = Len(emitted)
      BY <2>4
    <3>3. Tokens = 1..n - 1 /\ emitted' # <<>>
      BY <2>1, <2>4, <3>2
    <3> HIDE DEF n
    <3> QED BY <2>3, <2>4, <3>1, <3>2, <3>3 DEF Tokens, Finals
  <2>6. FinalsExact'
    BY <2>3, <2>4, <2>5 DEF FinalsExact, Finishes
  <2>7. /\ line \in Seq(Lines)
        /\ \A k \in Tokens : \E m \in 1..taken : HasText(line[m]) /\ emitted[k].text = <<m>>
        /\ \A m \in 1..taken : HasText(line[m]) => \E k \in Tokens : emitted[k].text = <<m>>
        /\ \A j, k \in Tokens : j < k => Head(emitted[j].text) < Head(emitted[k].text)
    BY DEF StreamInv, TokensExact
  <2>8. \A k \in Tokens : emitted'[k] = emitted[k]
    BY <2>1, <2>4
  <2>9. \A k \in Tokens : \E m \in 1..taken' : HasText(line[m]) /\ emitted'[k].text = <<m>>
    <3> TAKE k \in Tokens
    <3>1. PICK m \in 1..taken : HasText(line[m]) /\ emitted[k].text = <<m>>
      BY <2>7
    <3>2. m \in 1..taken'
      BY <1>0
    <3> QED BY <2>8, <3>1, <3>2
  <2>10. \A m \in 1..taken' : HasText(line[m]) => \E k \in Tokens : emitted'[k].text = <<m>>
    <3> SUFFICES ASSUME NEW m \in 1..taken', HasText(line[m])
                 PROVE  \E k \in Tokens : emitted'[k].text = <<m>>
      OBVIOUS
    <3>1. m \in 1..taken
      BY <1>0 DEF Finishes
    <3> QED BY <2>7, <2>8, <3>1
  <2>11. \A j, k \in Tokens : j < k => Head(emitted'[j].text) < Head(emitted'[k].text)
    BY <2>7, <2>8
  <2>12. line' = line /\ taken' \in Nat /\ taken' <= Len(line)
    BY DEF Finishes
  <2> QED BY <2>4, <2>5, <2>6, <2>7, <2>9, <2>10, <2>11, <2>12 DEF TokensExact
<1> QED BY <1>1, <1>2

\* The server sends or stops, the policy changes: nothing that was read changes.
ServerActs ==
  \/ UNCHANGED <<line, server>>
  \/ server = "streaming" /\ line' = line
  \/ server = "streaming" /\ UNCHANGED server /\ \E kind \in Lines : line' = Append(line, kind)

LEMMA ServerStep ==
  ASSUME StreamInv, UNCHANGED <<provider, taken, stream, emitted>>, ServerActs
  PROVE  StreamInv'
<1>0. line \in Seq(Lines) /\ taken \in Nat /\ taken <= Len(line)
  BY DEF StreamInv, TokensExact
<1>1. /\ line' \in Seq(Lines)
      /\ Len(line) <= Len(line') /\ Len(line) \in Nat /\ Len(line') \in Nat
      /\ DOMAIN line = 1..Len(line) /\ DOMAIN line' = 1..Len(line')
      /\ \A n \in 1..Len(line) : line'[n] = line[n]
  <2>1. CASE line' = line
    BY <1>0, <2>1
  <2>2. ASSUME NEW kind \in Lines, line' = Append(line, kind) PROVE <1>1!1
    BY <1>0, <2>2
  <2> QED BY <2>1, <2>2 DEF ServerActs
<1>2. Tokens' = Tokens /\ Finals' = Finals /\ FinalsExact'
  BY DEF Tokens, Finals, StreamInv, FinalsExact
<1>3. TokensExact'
  <2>1. \A n \in 1..taken : line'[n] = line[n]
    BY <1>0, <1>1
  <2>2. taken' <= Len(line') /\ emitted' \in Seq(StreamEvents)
    BY <1>0, <1>1 DEF StreamInv, TokensExact
  <2>3. /\ \A k \in Tokens : \E n \in 1..taken : HasText(line'[n]) /\ emitted[k].text = <<n>>
        /\ \A n \in 1..taken : HasText(line'[n]) => \E k \in Tokens : emitted[k].text = <<n>>
        /\ \A j, k \in Tokens : j < k => Head(emitted[j].text) < Head(emitted[k].text)
    BY <2>1 DEF StreamInv, TokensExact
  <2> QED BY <1>0, <1>1, <1>2, <2>2, <2>3 DEF TokensExact
<1>4. /\ Marks \subseteq Marks' /\ \A m \in Marks' \ Marks : m \in Nat /\ Len(line) < m
  <2>1. \A n \in 1..Len(line) : n \in Marks <=> n \in Marks'
    <3>1. \A n \in 1..Len(line) : n \in DOMAIN line /\ n \in DOMAIN line' /\ line'[n] = line[n]
      BY <1>1
    <3> QED BY <3>1 DEF Marks, EndMark
  <2>2. Marks \subseteq 1..Len(line) /\ Marks' \subseteq 1..Len(line')
    BY <1>1 DEF Marks
  <2> QED BY <1>1, <2>1, <2>2
<1>5. /\ \A m \in Marks : taken <= m
      /\ \A m \in Marks' : taken <= m
      /\ taken \notin Marks => taken \notin Marks'
  <2>1. \A m \in Marks : taken <= m
    BY DEF StreamInv, ReadSoFar
  <2>2. \A m \in Marks' \ Marks : taken <= m /\ taken # m
    BY <1>0, <1>1, <1>4
  <2> QED BY <1>0, <2>1, <2>2
<1>6. (server' = server /\ line' = line) \/ server = "streaming"
  BY DEF ServerActs
<1>7. ReadSoFar'
  BY <1>2, <1>4, <1>5, <1>6 DEF StreamInv, ReadSoFar
<1> QED BY <1>2, <1>3, <1>7 DEF StreamInv

LEMMA ReadEndMarkStep == ASSUME StreamInv, ReadEndMark PROVE StreamInv'
<1>1. /\ stream = "reading" /\ taken < Len(line) /\ taken' = taken + 1 /\ taken \in Nat
      /\ EndMark(line[taken']) /\ provider # "langflow" /\ Len(line) \in Nat
      /\ UNCHANGED <<line, server, provider>> /\ DOMAIN line = 1..Len(line)
  <2>1. /\ stream = "reading" /\ taken < Len(line) /\ taken' = taken + 1
        /\ EndMark(line[taken + 1]) /\ UNCHANGED <<line, server, provider>>
    BY DEF ReadEndMark
  <2>2. taken \in Nat /\ Len(line) \in Nat /\ DOMAIN line = 1..Len(line)
    BY DEF StreamInv, TokensExact
  <2>3. provider # "langflow"
    BY <2>1 DEF EndMark
  <2> QED BY <2>1, <2>2, <2>3
<1>2. Marks' = Marks /\ taken' \in Marks /\ taken' \in Nat /\ taken' <= Len(line)
  <2>1. taken' \in DOMAIN line /\ taken' \in Nat /\ taken' <= Len(line)
    BY <1>1
  <2>2. Marks' = Marks
    BY <1>1 DEF Marks, EndMark
  <2> QED BY <1>1, <2>1, <2>2 DEF Marks
<1>3. \A m \in Marks : taken' <= m
  <2>1. \A m \in Marks : taken <= m /\ m # taken /\ m \in Nat
    BY <1>1 DEF StreamInv, ReadSoFar, Marks
  <2> QED BY <1>1, <2>1
<1>4. CASE HasText(line[taken'])
  <2>1. emitted' = Append(emitted, TokenEvent(taken')) /\ stream' = "last text"
    BY <1>1, <1>4 DEF ReadEndMark
  <2>2. TokensExact' /\ Tokens' = Tokens \cup {Len(emitted) + 1} /\ Len(emitted') = Len(emitted) + 1
    BY <1>1, <1>4, <2>1, SpokenLine
  <2>3. FinalsExact'
    <3>1. Tokens = 1..Len(emitted) /\ Len(emitted) \in Nat /\ DOMAIN emitted' = 1..Len(emitted')
      BY <1>1, <2>2 DEF StreamInv, FinalsExact, TokensExact
    <3>2. Tokens' = DOMAIN emitted'
      BY <2>2, <3>1
    <3> QED BY <2>1, <3>2 DEF FinalsExact
  <2>4. ReadSoFar'
    BY <1>2, <1>3, <2>1 DEF ReadSoFar
  <2> QED BY <2>2, <2>3, <2>4 DEF StreamInv
<1>5. CASE ~ HasText(line[taken'])
  <2>1. emitted' = Finished(emitted) /\ stream' = "ended"
    BY <1>1, <1>5 DEF ReadEndMark
  <2>2. TokensExact' /\ FinalsExact'
    BY <1>1, <1>2, <1>5, <2>1, FinishedStep DEF Finishes
  <2>3. ReadSoFar'
    BY <1>2, <1>3, <2>1 DEF ReadSoFar
  <2> QED BY <2>2, <2>3 DEF StreamInv
<1> QED BY <1>4, <1>5

LEMMA ReadLineStep == ASSUME StreamInv, ReadLine PROVE StreamInv'
<1> DEFINE kind == line[taken + 1]
           e == [kind |-> "final", text |-> <<>>]
<1>1. /\ stream = "reading" /\ taken < Len(line) /\ taken' = taken + 1 /\ taken \in Nat
      /\ ~ EndMark(kind) /\ kind \in Lines /\ Len(line) \in Nat /\ DOMAIN line = 1..Len(line)
      /\ UNCHANGED <<line, server, provider>> /\ emitted \in Seq(StreamEvents)
      /\ emitted' = emitted \o LineEvents(kind, taken')
      /\ stream' \in {"raised", "yielded", "reading"}
  <2>1. line \in Seq(Lines) /\ taken + 1 \in 1..Len(line)
    BY DEF ReadLine, StreamInv, TokensExact
  <2> QED BY <2>1, ElementOfSeq DEF ReadLine, StreamInv, TokensExact
<1>2. Marks' = Marks /\ taken' \notin Marks
  BY <1>1 DEF Marks, EndMark
<1>3. \A m \in Marks : taken' <= m
  <2>1. \A m \in Marks : taken <= m /\ m # taken /\ m \in Nat
    BY <1>1 DEF StreamInv, ReadSoFar, Marks
  <2> QED BY <1>1, <2>1
<1>4. ReadSoFar'
  BY <1>1, <1>2, <1>3 DEF ReadSoFar
<1>5. CASE HasText(kind)
  <2>1. emitted' = Append(emitted, TokenEvent(taken'))
    <3>1. TokenEvent(taken') \in StreamEvents
      BY <1>1 DEF TokenEvent, StreamEvents
    <3>2. LineEvents(kind, taken') = <<TokenEvent(taken')>>
      BY <1>5 DEF LineEvents
    <3> DEFINE e1 == TokenEvent(taken')
    <3> HIDE DEF e1
    <3>3. emitted' = emitted \o <<e1>>
      BY <1>1, <3>2 DEF e1
    <3>4. emitted \o <<e1>> = Append(emitted, e1)
      BY <1>1, <3>1, EventFacts DEF e1
    <3> QED BY <3>3, <3>4 DEF e1
  <2>2. TokensExact' /\ Tokens' = Tokens \cup {Len(emitted) + 1} /\ Len(emitted') = Len(emitted) + 1
    BY <1>1, <1>5, <2>1, SpokenLine
  <2>3. FinalsExact'
    <3>1. provider # "langflow" =>
            Tokens = 1..Len(emitted) /\ Len(emitted) \in Nat /\ DOMAIN emitted' = 1..Len(emitted')
      BY <1>1, <2>2 DEF StreamInv, FinalsExact, TokensExact
    <3>2. provider # "langflow" => Tokens' = DOMAIN emitted'
      BY <2>2, <3>1
    <3> QED BY <1>1, <3>2 DEF FinalsExact
  <2> QED BY <1>4, <2>2, <2>3 DEF StreamInv
<1>6. CASE ~ HasText(kind) /\ kind # "done"
  <2>1. emitted' = emitted
    BY <1>1, <1>6 DEF LineEvents
  <2>2. TokensExact'
    BY <1>1, <1>6, <2>1, SilentLine
  <2>3. FinalsExact'
    BY <1>1, <2>1 DEF StreamInv, FinalsExact, Tokens
  <2> QED BY <1>4, <2>2, <2>3 DEF StreamInv
\* Langflow's end is an event like another.
<1>7. CASE ~ HasText(kind) /\ kind = "done"
  <2>1. provider = "langflow"
    BY <1>1, <1>7 DEF EndMark
  <2>2. e \in StreamEvents /\ emitted' = Append(emitted, e) /\ e.kind # "token"
    BY <1>1, <1>7 DEF LineEvents, StreamEvents
  <2> HIDE DEF e
  <2>3. /\ emitted' \in Seq(StreamEvents) /\ DOMAIN emitted = 1..Len(emitted)
        /\ DOMAIN emitted' = 1..Len(emitted) + 1 /\ emitted'[Len(emitted) + 1] = e
        /\ Len(emitted) \in Nat /\ \A i \in DOMAIN emitted : emitted'[i] = emitted[i]
    <3> DEFINE g == Append(emitted, e)
    <3>1. /\ g \in Seq(StreamEvents) /\ DOMAIN emitted = 1..Len(emitted)
          /\ DOMAIN g = 1..Len(emitted) + 1 /\ g[Len(emitted) + 1] = e
          /\ Len(emitted) \in Nat /\ \A i \in DOMAIN emitted : g[i] = emitted[i]
      BY <1>1, <2>2, EventFacts
    <3>2. emitted' = g
      BY <2>2
    <3> HIDE DEF g
    <3> QED BY <3>1, <3>2
  <2>4. Tokens' = Tokens /\ \A k \in Tokens : emitted'[k] = emitted[k]
    BY <2>2, <2>3 DEF Tokens
  <2>5. TokensExact'
    <3>1. /\ 1..taken' = 1..taken \cup {taken + 1} /\ taken' \in Nat /\ taken' <= Len(line)
          /\ line \in Seq(Lines) /\ ~ HasText(line[taken + 1])
      BY <1>1, <1>7 DEF StreamInv, TokensExact
    <3>2. /\ \A k \in Tokens : \E m \in 1..taken : HasText(line[m]) /\ emitted[k].text = <<m>>
          /\ \A m \in 1..taken : HasText(line[m]) => \E k \in Tokens : emitted[k].text = <<m>>
          /\ \A j, k \in Tokens : j < k => Head(emitted[j].text) < Head(emitted[k].text)
      BY DEF StreamInv, TokensExact
    <3>3. \A k \in Tokens : \E m \in 1..taken' : HasText(line[m]) /\ emitted'[k].text = <<m>>
      BY <2>4, <3>1, <3>2
    <3>4. \A m \in 1..taken' : HasText(line[m]) => \E k \in Tokens : emitted'[k].text = <<m>>
      BY <2>4, <3>1, <3>2
    <3>5. \A j, k \in Tokens : j < k => Head(emitted'[j].text) < Head(emitted'[k].text)
      BY <2>4, <3>2
    <3>6. line' = line
      BY <1>1
    <3> QED BY <2>3, <2>4, <3>1, <3>3, <3>4, <3>5, <3>6 DEF TokensExact
  <2>6. FinalsExact'
    BY <1>1, <2>1 DEF FinalsExact
  <2> QED BY <1>4, <2>5, <2>6 DEF StreamInv
<1> QED BY <1>5, <1>6, <1>7

LEMMA StreamEnds ==
  ASSUME StreamInv, AskMore \/ EndOfStream PROVE StreamInv'
<1>1. UNCHANGED <<line, taken, server, provider>> /\ Marks' = Marks
  BY DEF AskMore, EndOfStream, Marks, EndMark
<1>2. CASE stream = "yielded"
  <2>1. stream' = "reading" /\ UNCHANGED emitted
    BY <1>2 DEF AskMore, EndOfStream
  <2>2. Tokens' = Tokens /\ Finals' = Finals
    BY <2>1 DEF Tokens, Finals
  <2> QED BY <1>1, <1>2, <2>1, <2>2 DEF StreamInv, TokensExact, ReadSoFar, FinalsExact
<1>3. CASE stream # "yielded"
  <2>1. /\ stream' = "ended" /\ emitted' = Finished(emitted) /\ stream \in {"reading", "last text"}
        /\ stream = "reading" => taken = Len(line) /\ server = "closed"
    BY <1>3 DEF AskMore, EndOfStream
  <2>2. taken' = taken /\ taken' \in Nat /\ taken' <= Len(line)
    BY <1>1 DEF StreamInv, TokensExact
  <2>3. TokensExact' /\ FinalsExact'
    BY <1>1, <2>1, <2>2, FinishedStep DEF Finishes
  <2>4. ReadSoFar'
    BY <1>1, <2>1 DEF StreamInv, ReadSoFar
  <2> QED BY <2>3, <2>4 DEF StreamInv
<1> QED BY <1>2, <1>3

\* The request, a generator that raises, and a consumer that leaves.
LEMMA StreamTurns ==
  ASSUME StreamInv, UNCHANGED <<line, taken, provider, emitted>>,
         \/ stream = "created" /\ stream' \in {"reading", "raised"}
         \/ stream \in {"yielded", "last text", "reading"} /\ stream' \in {"raised", "left"}
  PROVE  StreamInv'
<1>1. Tokens' = Tokens /\ Finals' = Finals /\ Marks' = Marks
  BY DEF Tokens, Finals, Marks, EndMark
<1> QED BY <1>1 DEF StreamInv, TokensExact, ReadSoFar, FinalsExact

LEMMA GenerateStep ==
  ASSUME StreamInv, NEW reply \in {"text", "blank", "malformed"}, Generate(reply)
  PROVE  StreamInv'
<1>1. CASE reply = "malformed"
  BY <1>1, StreamTurns DEF Generate
<1>2. CASE reply # "malformed"
  <2> DEFINE e == [kind |-> "completion", text |-> IF HasText(reply) THEN <<1>> ELSE <<>>]
  <2>1. /\ emitted' = <<e>> /\ e \in StreamEvents /\ stream' = "completed" /\ taken = 0
        /\ e.kind = "completion" /\ UNCHANGED <<line, taken, provider, server>>
    BY <1>2 DEF Generate, StreamInv, ReadSoFar, StreamEvents
  <2> HIDE DEF e
  <2>2. emitted' \in Seq(StreamEvents) /\ Tokens' = {} /\ Finals' = {}
    <3>1. emitted' \in Seq(StreamEvents) /\ DOMAIN emitted' = {1} /\ emitted'[1] = e
      BY <2>1
    <3> QED BY <2>1, <3>1 DEF Tokens, Finals
  <2>3. TokensExact'
    BY <2>1, <2>2 DEF StreamInv, TokensExact
  <2>4. Marks' = Marks
    BY <2>1 DEF Marks, EndMark
  <2> QED BY <2>1, <2>2, <2>3, <2>4 DEF StreamInv, ReadSoFar, FinalsExact
<1> QED BY <1>1, <1>2

\* What has been read and what has been handed out agree in every state.
THEOREM StreamsCorrect == StreamSpec => []StreamInv
<1>1. ModelStreamsInit => StreamInv
  <2> SUFFICES ASSUME ModelStreamsInit PROVE StreamInv
    OBVIOUS
  <2>1. /\ line = <<>> /\ emitted = <<>> /\ taken = 0 /\ stream = "created"
        /\ DOMAIN line = {} /\ DOMAIN emitted = {} /\ Len(line) = 0
        /\ line \in Seq(Lines) /\ emitted \in Seq(StreamEvents)
    BY DEF ModelStreamsInit
  <2>2. Tokens = {} /\ Finals = {} /\ Marks = {}
    BY <2>1 DEF Tokens, Finals, Marks
  <2> QED BY <2>1, <2>2 DEF StreamInv, TokensExact, ReadSoFar, FinalsExact
<1>2. StreamInv /\ [ModelStreamsNext]_modelStreamVars => StreamInv'
  <2> SUFFICES ASSUME StreamInv, [ModelStreamsNext]_modelStreamVars PROVE StreamInv'
    OBVIOUS
  <2>1. ASSUME NEW tag \in ModelTags \cup {DefaultModel}, SetOverride(tag) PROVE StreamInv'
    BY <2>1, ServerStep DEF SetOverride, ServerActs
  <2>2. ASSUME NEW routed \in BOOLEAN, Route(routed) PROVE StreamInv'
    BY <2>2, StreamTurns DEF Route
  <2>3. ASSUME NEW kind \in Lines, ServerSends(kind) PROVE StreamInv'
    BY <2>3, ServerStep DEF ServerSends, ServerActs
  <2>4. ASSUME NEW how \in {"closed", "broken"}, ServerStops(how) PROVE StreamInv'
    BY <2>4, ServerStep DEF ServerStops, ServerActs
  <2>5. CASE BreakOfStream \/ ConsumerLeaves
    BY <2>5, StreamTurns DEF BreakOfStream, ConsumerLeaves
  <2>6. CASE UNCHANGED modelStreamVars
    BY <2>6, ServerStep DEF modelStreamVars, ServerActs
  <2> QED BY <2>1, <2>2, <2>3, <2>4, <2>5, <2>6, GenerateStep, ReadEndMarkStep, ReadLineStep,
             StreamEnds DEF ModelStreamsNext
<1> QED BY <1>1, <1>2, PTL DEF StreamSpec

\* For answers of any length, wherever the server stops or breaks and the
\* consumer leaves: the consumer gets each text once and in order, and a
\* provider's answer ends with one final event, which repeats them, and only
\* when nothing is missing (saap/plugins/llm, saap/gateway).
THEOREM StreamFaithful == StreamSpec => []StreamIsFaithful
<1>1. StreamInv => StreamIsFaithful
  <2> SUFFICES ASSUME StreamInv PROVE StreamIsFaithful
    OBVIOUS
  <2>1. {emitted[k].text : k \in Tokens} = {<<n>> : n \in {m \in 1..taken : HasText(line[m])}}
    BY DEF StreamInv, TokensExact
  <2>2. /\ \A j, k \in Tokens : j < k => Head(emitted[j].text) < Head(emitted[k].text)
        /\ \A m \in Marks : taken <= m
    BY DEF StreamInv, TokensExact, ReadSoFar
  <2>3. ASSUME provider # "langflow"
        PROVE  /\ stream = "ended" <=> Finals # {}
               /\ \A k \in Finals :
                    /\ k = Len(emitted) /\ Tokens = 1..k - 1
                    /\ emitted[k].text = Joined(SubSeq(emitted, 1, k - 1))
                    /\ \A n \in DOMAIN line : HasText(line[n]) /\ taken < n => \E m \in Marks : m < n
    <3>1. CASE stream = "ended"
      <4>1. /\ Finals = {Len(emitted)} /\ Tokens = 1..Len(emitted) - 1
            /\ emitted[Len(emitted)].text = Joined(SubSeq(emitted, 1, Len(emitted) - 1))
        BY <2>3, <3>1 DEF StreamInv, FinalsExact
      <4>2. taken \in Marks \/ taken = Len(line)
        BY <2>3, <3>1 DEF StreamInv, ReadSoFar
      <4>3. \A n \in DOMAIN line : n \in Nat /\ n <= Len(line)
        BY DEF StreamInv, TokensExact
      <4> QED BY <3>1, <4>1, <4>2, <4>3 DEF StreamInv, TokensExact
    <3>2. CASE stream = "completed"
      BY <3>2 DEF StreamInv, ReadSoFar
    <3>3. CASE stream \notin {"ended", "completed"}
      <4>1. Tokens = DOMAIN emitted
        BY <2>3, <3>3 DEF StreamInv, FinalsExact
      <4>2. Finals = {}
        BY <4>1 DEF Tokens, Finals
      <4> QED BY <3>3, <4>2
    <3> QED BY <3>1, <3>2, <3>3
  <2> QED BY <2>1, <2>2, <2>3 DEF StreamIsFaithful
<1> QED BY <1>1, StreamsCorrect, PTL

-----------------------------------------------------------------------------
(* Listening: the detector by the frames it heard, each turn by its own.    *)

PartialText == [frames : Nat, final : BOOLEAN]
LTurn == [at : {"frames", "partial", "final", "done", "raised"}, buffer : Nat, since : Nat,
         partials : Seq(PartialText), utterance : Nat]

\* The detector knows how many frames passed and whether the last was speech,
\* and what it returned are the edges among them.
Detecting ==
  /\ heard \in Seq(BOOLEAN) /\ vadEvents \in Seq([kind : {"speech_start", "speech_end"}, timestamp : Nat])
  /\ vad = [speaking |-> heard # <<>> /\ heard[Len(heard)], elapsed |-> Len(heard)]
  /\ {vadEvents[k].timestamp : k \in DOMAIN vadEvents} = Edges
  /\ \A k \in DOMAIN vadEvents :
       /\ k > 1 => vadEvents[k - 1].timestamp < vadEvents[k].timestamp
       /\ vadEvents[k].kind = IF heard[vadEvents[k].timestamp] THEN "speech_start" ELSE "speech_end"

Intervals(n) == \E q \in Nat : n = q * Interval

\* The frames up to the last partial that was due are whole intervals, and all
\* partials lie among them.
Paced(h) ==
  /\ h.since <= h.buffer /\ Intervals(h.buffer - h.since)
  /\ h.at = "frames" => h.since < Interval
  /\ h.at = "partial" => h.since = Interval
  /\ h.utterance # 0 => h.utterance = h.buffer /\ h.at = "done"
  /\ \A i \in DOMAIN h.partials :
       /\ h.partials[i].final => i = Len(h.partials) /\ h.at = "done"
       /\ ~ h.partials[i].final =>
            /\ Intervals(h.partials[i].frames) /\ h.partials[i].frames <= h.buffer - h.since
            /\ i > 1 => h.partials[i - 1].frames < h.partials[i].frames

ListeningInv ==
  Detecting /\ hearing \in [ListeningTurns -> LTurn] /\ \A t \in ListeningTurns : Paced(hearing[t])

ListeningSpec == ListeningInit /\ [][ListeningNext]_listeningVars

LEMMA IntervalFacts ==
  /\ Intervals(0)
  /\ \A n \in Nat : Intervals(n) => Intervals(n + Interval) /\ n % Interval = 0
<1>1. Interval \in Nat \ {0}
  BY ListeningAssumption
<1>2. Intervals(0)
  BY <1>1 DEF Intervals
<1>3. ASSUME NEW n \in Nat, Intervals(n) PROVE Intervals(n + Interval) /\ n % Interval = 0
  <2>1. PICK q \in Nat : n = q * Interval
    BY <1>3 DEF Intervals
  <2>2. n + Interval = (q + 1) * Interval /\ q + 1 \in Nat
    BY <1>1, <2>1
  <2>3. (q * Interval) % Interval = 0
    BY <1>1
  <2> QED BY <2>1, <2>2, <2>3 DEF Intervals
<1> QED BY <1>2, <1>3

\* A turn that changes alone leaves the detector and the other turns as they are.
LEMMA OneTurn ==
  ASSUME ListeningInv, NEW t \in ListeningTurns, NEW h \in LTurn, Paced(h),
         hearing' = [hearing EXCEPT ![t] = h]
  PROVE  /\ hearing' \in [ListeningTurns -> LTurn]
         /\ \A u \in ListeningTurns : Paced(hearing'[u])
  BY DEF ListeningInv

LEMMA HearFrameStep ==
  ASSUME ListeningInv, NEW t \in ListeningTurns, NEW speech \in BOOLEAN, HearFrame(t, speech)
  PROVE  ListeningInv'
<1>1. hearing[t] \in LTurn /\ Paced(hearing[t]) /\ Interval \in Nat \ {0} /\ Detecting
  BY ListeningAssumption DEF ListeningInv
<1>2. Detecting'
  <2>1. /\ heard' = Append(heard, speech) /\ vad' = [speaking |-> speech, elapsed |-> Len(heard) + 1]
        /\ vadEvents' = vadEvents \o Transition(heard # <<>> /\ heard[Len(heard)], speech, Len(heard) + 1)
    BY <1>1 DEF HearFrame, Detecting
  <2>2. /\ heard' \in Seq(BOOLEAN) /\ Len(heard') = Len(heard) + 1 /\ heard'[Len(heard) + 1] = speech
        /\ \A n \in DOMAIN heard : heard'[n] = heard[n]
        /\ heard' # <<>> /\ DOMAIN heard = 1..Len(heard) /\ DOMAIN heard' = 1..Len(heard) + 1
        /\ Len(heard) \in Nat /\ (heard = <<>> <=> Len(heard) = 0)
    BY <1>1, <2>1 DEF Detecting
  <2>3. vad' = [speaking |-> heard' # <<>> /\ heard'[Len(heard')], elapsed |-> Len(heard')]
    BY <2>1, <2>2
  <2> DEFINE n == Len(heard) + 1
             before == heard # <<>> /\ heard[Len(heard)]
             e == [kind |-> IF speech THEN "speech_start" ELSE "speech_end", timestamp |-> n]
  <2>4. Edges' = Edges \cup (IF speech = before THEN {} ELSE {n})
    <3>1. before = (n > 1 /\ heard'[n - 1])
      BY <1>1, <2>2 DEF Detecting
    <3> QED BY <2>2, <3>1 DEF Edges
  <2>5. \A k \in DOMAIN vadEvents : vadEvents[k].timestamp \in 1..Len(heard)
    BY <1>1, <2>2 DEF Detecting, Edges
  <2>6. CASE speech = before
    <3>1. vadEvents' = vadEvents
      BY <1>1, <2>1, <2>6 DEF Transition, Detecting
    <3> QED BY <1>1, <2>2, <2>3, <2>4, <2>5, <2>6, <3>1 DEF Detecting
  <2>7. CASE speech # before
    <3>1. /\ vadEvents' = Append(vadEvents, e)
          /\ e \in [kind : {"speech_start", "speech_end"}, timestamp : Nat]
      BY <1>1, <2>1, <2>2, <2>7 DEF Transition, Detecting
    <3>2. /\ vadEvents' \in Seq([kind : {"speech_start", "speech_end"}, timestamp : Nat])
          /\ DOMAIN vadEvents' = 1..Len(vadEvents) + 1 /\ DOMAIN vadEvents = 1..Len(vadEvents)
          /\ vadEvents'[Len(vadEvents) + 1] = e /\ Len(vadEvents) \in Nat
          /\ \A k \in DOMAIN vadEvents : vadEvents'[k] = vadEvents[k]
      BY <1>1, <3>1 DEF Detecting
    <3>3. {vadEvents'[k].timestamp : k \in DOMAIN vadEvents'} = Edges'
      <4>1. {vadEvents'[k].timestamp : k \in DOMAIN vadEvents'}
              = {vadEvents[k].timestamp : k \in DOMAIN vadEvents} \cup {n}
        BY <3>2
      <4> QED BY <1>1, <2>4, <2>7, <4>1 DEF Detecting
    <3>4. ASSUME NEW k \in DOMAIN vadEvents'
          PROVE  /\ k > 1 => vadEvents'[k - 1].timestamp < vadEvents'[k].timestamp
                 /\ vadEvents'[k].kind = IF heard'[vadEvents'[k].timestamp]
                                         THEN "speech_start" ELSE "speech_end"
      <4>1. CASE k = Len(vadEvents) + 1
        BY <2>2, <2>5, <3>2, <4>1
      <4>2. CASE k \in DOMAIN vadEvents
        <5>1. vadEvents'[k] = vadEvents[k] /\ heard'[vadEvents[k].timestamp] = heard[vadEvents[k].timestamp]
          BY <2>2, <2>5, <3>2, <4>2
        <5>2. k > 1 => vadEvents'[k - 1] = vadEvents[k - 1]
          BY <3>2, <4>2
        <5> QED BY <1>1, <4>2, <5>1, <5>2 DEF Detecting
      <4> QED BY <3>2, <4>1, <4>2
    <3> QED BY <2>2, <2>3, <3>2, <3>3, <3>4 DEF Detecting
  <2> QED BY <2>6, <2>7
<1> DEFINE h == [hearing[t] EXCEPT !.buffer = @ + 1, !.since = @ + 1,
                   !.at = IF PartialDue(hearing[t].since + 1) THEN "partial" ELSE @]
<1>3. hearing' = [hearing EXCEPT ![t] = h] /\ hearing[t].at = "frames"
  BY DEF HearFrame
<1>4. h \in LTurn /\ Paced(h)
  <2>1. /\ h \in LTurn /\ h.buffer = hearing[t].buffer + 1 /\ h.since = hearing[t].since + 1
        /\ h.partials = hearing[t].partials /\ h.utterance = hearing[t].utterance
        /\ h.at = IF h.since >= Interval THEN "partial" ELSE "frames"
    <3>1. hearing[t].buffer + 1 \in Nat /\ hearing[t].since + 1 \in Nat
      BY <1>1 DEF LTurn
    <3>2. PartialDue(hearing[t].since + 1) <=> hearing[t].since + 1 >= Interval
      BY DEF PartialDue
    <3> HIDE DEF PartialDue
    <3> QED BY <1>1, <1>3, <3>1, <3>2 DEF LTurn
  <2>2. h.buffer - h.since = hearing[t].buffer - hearing[t].since
    BY <1>1, <2>1 DEF LTurn
  <2> HIDE DEF h
  <2>3. /\ hearing[t].buffer \in Nat /\ hearing[t].since \in Nat /\ hearing[t].utterance \in Nat
        /\ hearing[t].partials \in Seq(PartialText)
    BY <1>1 DEF LTurn
  <2>4. Paced(h)
    <3>1. /\ h.since <= h.buffer /\ Intervals(h.buffer - h.since)
          /\ h.at = "frames" => h.since < Interval
          /\ h.at = "partial" => h.since = Interval
          /\ h.utterance = 0
      BY <1>1, <1>3, <2>1, <2>2, <2>3 DEF Paced
    <3>2. \A i \in DOMAIN h.partials :
            /\ ~ h.partials[i].final
            /\ Intervals(h.partials[i].frames) /\ h.partials[i].frames <= h.buffer - h.since
            /\ i > 1 => h.partials[i - 1].frames < h.partials[i].frames
      BY <1>1, <1>3, <2>1, <2>2 DEF Paced
    <3> QED BY <3>1, <3>2 DEF Paced
  <2> QED BY <2>1, <2>4
<1> QED BY <1>2, <1>3, <1>4, OneTurn DEF ListeningInv

LEMMA TranscribedStep ==
  ASSUME ListeningInv, NEW t \in ListeningTurns, NEW words \in BOOLEAN, Transcribed(t, words)
  PROVE  ListeningInv'
<1> DEFINE h == hearing[t]
           partial == [frames |-> h.buffer, final |-> h.at = "final"]
           g == [at        |-> IF partial.final THEN "done" ELSE "frames",
                 buffer    |-> h.buffer,
                 since     |-> IF partial.final THEN h.since ELSE 0,
                 partials  |-> IF words THEN Append(h.partials, partial) ELSE h.partials,
                 utterance |-> IF words /\ partial.final THEN partial.frames ELSE h.utterance]
<1>1. h \in LTurn /\ Paced(h) /\ Interval \in Nat \ {0} /\ Detecting
  BY ListeningAssumption DEF ListeningInv
<1>2. hearing' = [hearing EXCEPT ![t] = g] /\ h.at \in {"partial", "final"}
  BY DEF Transcribed
<1>3. Detecting'
  BY <1>1 DEF Transcribed, Detecting, Edges
<1>4. g \in LTurn /\ Paced(g)
  <2>1. /\ partial \in PartialText /\ h.partials \in Seq(PartialText)
        /\ h.buffer \in Nat /\ h.since \in Nat /\ h.utterance \in Nat
    BY <1>1 DEF LTurn, PartialText
  <2>2. Append(h.partials, partial) \in Seq(PartialText)
    BY <2>1
  <2>3. g \in LTurn
    BY <2>1, <2>2 DEF LTurn
  <2>4. /\ h.at = "partial" => Intervals(h.buffer) /\ h.buffer - h.since < h.buffer
        /\ \A i \in DOMAIN h.partials : ~ h.partials[i].final
    <3>1. \A i \in DOMAIN h.partials : ~ h.partials[i].final
      BY <1>1, <1>2 DEF Paced
    <3>2. ASSUME h.at = "partial" PROVE Intervals(h.buffer) /\ h.buffer - h.since < h.buffer
      <4> HIDE DEF h
      <4>1. h.since = Interval /\ h.since <= h.buffer /\ Intervals(h.buffer - h.since)
        BY <1>1, <3>2 DEF Paced
      <4>2. h.buffer - h.since \in Nat /\ (h.buffer - h.since) + Interval = h.buffer
        BY <1>1, <2>1, <4>1
      <4>3. Intervals((h.buffer - h.since) + Interval)
        BY <4>1, <4>2, IntervalFacts
      <4> QED BY <1>1, <2>1, <4>1, <4>2, <4>3
    <3> QED BY <3>1, <3>2
  <2>5. /\ g.at = IF h.at = "final" THEN "done" ELSE "frames"
        /\ g.buffer = h.buffer /\ g.since = IF h.at = "final" THEN h.since ELSE 0
        /\ g.partials = IF words THEN Append(h.partials, partial) ELSE h.partials
        /\ g.utterance = IF words /\ h.at = "final" THEN h.buffer ELSE h.utterance
        /\ partial.frames = h.buffer /\ partial.final = (h.at = "final")
    OBVIOUS
  <2>6. /\ g.since <= g.buffer /\ Intervals(g.buffer - g.since)
        /\ g.at = "frames" => g.since < Interval
        /\ g.at # "partial"
        /\ g.utterance # 0 => g.utterance = g.buffer /\ g.at = "done"
        /\ h.buffer - h.since <= g.buffer - g.since
    <3>1. h.buffer - 0 = h.buffer
      BY <2>1
    <3> HIDE DEF g, h, partial
    <3> QED BY <1>1, <1>2, <2>1, <2>4, <2>5, <3>1 DEF Paced
  <2>7. ASSUME NEW i \in DOMAIN g.partials
        PROVE  /\ g.partials[i].final => i = Len(g.partials) /\ g.at = "done"
               /\ ~ g.partials[i].final =>
                    /\ Intervals(g.partials[i].frames) /\ g.partials[i].frames <= g.buffer - g.since
                    /\ i > 1 => g.partials[i - 1].frames < g.partials[i].frames
    <3> HIDE DEF g, h, partial
    <3>1. \A k \in DOMAIN h.partials :
             /\ ~ h.partials[k].final /\ Intervals(h.partials[k].frames)
             /\ h.partials[k].frames <= h.buffer - h.since /\ h.partials[k].frames \in Nat
             /\ k > 1 => h.partials[k - 1].frames < h.partials[k].frames
      <4>1. \A k \in DOMAIN h.partials : h.partials[k] \in PartialText
        BY <2>1, ElementOfSeq
      <4>2. \A k \in DOMAIN h.partials : h.partials[k].frames \in Nat
        BY <4>1 DEF PartialText
      <4> QED BY <1>1, <2>4, <4>2 DEF Paced
    <3>2. g.since \in Nat /\ g.buffer \in Nat /\ g.buffer - g.since \in Int /\ h.buffer - h.since \in Int
      BY <2>1, <2>5
    <3>3. CASE ~ words
      <4>1. g.partials = h.partials
        BY <2>5, <3>3
      <4> QED BY <2>6, <3>1, <3>2, <4>1
    <3>4. CASE words
      <4>1. /\ g.partials = Append(h.partials, partial)
            /\ Len(g.partials) = Len(h.partials) + 1 /\ Len(h.partials) \in Nat
            /\ DOMAIN g.partials = 1..Len(h.partials) + 1 /\ DOMAIN h.partials = 1..Len(h.partials)
            /\ g.partials[Len(h.partials) + 1] = partial
            /\ \A k \in DOMAIN h.partials : g.partials[k] = h.partials[k]
        BY <2>1, <2>5, <3>4
      <4>2. CASE i = Len(h.partials) + 1
        <5>1. CASE h.at = "final"
          BY <2>5, <4>1, <4>2, <5>1
        <5>2. CASE h.at = "partial"
          <6>1. ~ partial.final /\ Intervals(partial.frames) /\ partial.frames = g.buffer - g.since
            <7>1. g.buffer - g.since = h.buffer /\ h.at # "final"
              BY <2>1, <2>5, <5>2
            <7> QED BY <2>4, <2>5, <5>2, <7>1
          <6>2. i > 1 => g.partials[i - 1].frames < partial.frames
            <7> SUFFICES ASSUME i > 1 PROVE g.partials[i - 1].frames < partial.frames
              OBVIOUS
            <7>1. i - 1 \in DOMAIN h.partials /\ g.partials[i - 1] = h.partials[i - 1]
              BY <4>1, <4>2
            <7>2. partial.frames = h.buffer /\ h.buffer - h.since < h.buffer
              BY <2>4, <2>5, <5>2
            <7> QED BY <2>1, <3>1, <3>2, <7>1, <7>2
          <6> QED BY <2>1, <2>5, <4>1, <4>2, <6>1, <6>2
        <5> QED BY <1>2, <5>1, <5>2
      <4>3. CASE i \in DOMAIN h.partials
        <5>1. i > 1 => i - 1 \in DOMAIN h.partials
          BY <4>1, <4>3
        <5> QED BY <2>6, <3>1, <3>2, <4>1, <4>3, <5>1
      <4> QED BY <4>1, <4>2, <4>3
    <3> QED BY <3>3, <3>4
  <2> HIDE DEF g
  <2> QED BY <2>3, <2>6, <2>7 DEF Paced
<1> HIDE DEF g
<1> QED BY <1>2, <1>3, <1>4, OneTurn DEF ListeningInv

LEMMA TurnEndsStep ==
  ASSUME ListeningInv, NEW t \in ListeningTurns, OddFrame(t) \/ EndFrames(t)
  PROVE  ListeningInv'
<1>1. hearing[t] \in LTurn /\ Paced(hearing[t]) /\ Detecting
  BY DEF ListeningInv
<1>2. Detecting'
  <2>1. UNCHANGED <<vad, heard, vadEvents>>
    BY DEF OddFrame, EndFrames
  <2> QED BY <1>1, <2>1 DEF Detecting, Edges
<1>3. PICK at \in {"raised", "done", "final"} :
        /\ hearing[t].at = "frames" /\ hearing' = [hearing EXCEPT ![t] = [hearing[t] EXCEPT !.at = at]]
  BY DEF OddFrame, EndFrames
<1> DEFINE h == [hearing[t] EXCEPT !.at = at]
<1>4. h \in LTurn /\ Paced(h)
  <2>1. /\ h \in LTurn /\ h.at = at /\ h.buffer = hearing[t].buffer /\ h.since = hearing[t].since
        /\ h.partials = hearing[t].partials /\ h.utterance = hearing[t].utterance
    BY <1>1 DEF LTurn
  <2> HIDE DEF h
  <2> QED BY <1>1, <1>3, <2>1 DEF Paced
<1> HIDE DEF h
<1> QED BY <1>2, <1>3, <1>4, OneTurn DEF ListeningInv, h

\* What detector and turns remember holds whatever frames interleave.
THEOREM ListeningCorrect == ListeningSpec => []ListeningInv
<1>1. ListeningInit => ListeningInv
  <2> SUFFICES ASSUME ListeningInit PROVE ListeningInv
    OBVIOUS
  <2>1. Detecting
    <3>1. /\ vad = [speaking |-> FALSE, elapsed |-> 0] /\ heard = <<>> /\ vadEvents = <<>>
      BY DEF ListeningInit
    <3>2. DOMAIN heard = {} /\ DOMAIN vadEvents = {} /\ Len(heard) = 0
      BY <3>1
    <3>3. Edges = {} /\ {vadEvents[k].timestamp : k \in DOMAIN vadEvents} = {}
      BY <3>2 DEF Edges
    <3>4. /\ heard \in Seq(BOOLEAN)
         /\ vadEvents \in Seq([kind : {"speech_start", "speech_end"}, timestamp : Nat])
      BY <3>1
    <3>5. vad = [speaking |-> heard # <<>> /\ heard[Len(heard)], elapsed |-> Len(heard)]
      BY <3>1, <3>2
    <3> QED BY <3>2, <3>3, <3>4, <3>5 DEF Detecting
  <2>2. hearing \in [ListeningTurns -> LTurn]
    BY DEF ListeningInit, LTurn
  <2>3. ASSUME NEW t \in ListeningTurns PROVE Paced(hearing[t])
    BY IntervalFacts, ListeningAssumption DEF ListeningInit, Paced
  <2> QED BY <2>1, <2>2, <2>3 DEF ListeningInv
<1>2. ListeningInv /\ [ListeningNext]_listeningVars => ListeningInv'
  <2> SUFFICES ASSUME ListeningInv, [ListeningNext]_listeningVars PROVE ListeningInv'
    OBVIOUS
  <2>1. CASE ResetVAD
    <3>1. Detecting'
      <4>1. /\ vad' = [speaking |-> FALSE, elapsed |-> 0] /\ heard' = <<>> /\ vadEvents' = <<>>
        BY <2>1 DEF ResetVAD
      <4>2. DOMAIN heard' = {} /\ DOMAIN vadEvents' = {} /\ Len(heard') = 0
        BY <4>1
      <4>3. Edges' = {} /\ {vadEvents'[k].timestamp : k \in DOMAIN vadEvents'} = {}
        BY <4>2 DEF Edges
      <4>4. /\ heard' \in Seq(BOOLEAN)
           /\ vadEvents' \in Seq([kind : {"speech_start", "speech_end"}, timestamp : Nat])
        BY <4>1
      <4>5. vad' = [speaking |-> heard' # <<>> /\ heard'[Len(heard')], elapsed |-> Len(heard')]
        BY <4>1, <4>2
      <4> QED BY <4>2, <4>3, <4>4, <4>5 DEF Detecting
    <3> QED BY <2>1, <3>1 DEF ResetVAD, ListeningInv
  <2>2. CASE UNCHANGED listeningVars
    <3>1. UNCHANGED <<vad, heard, vadEvents, hearing>>
      BY <2>2 DEF listeningVars
    <3>2. Detecting'
      BY <3>1 DEF ListeningInv, Detecting, Edges
    <3> QED BY <3>1, <3>2 DEF ListeningInv
  <2> QED BY <2>1, <2>2, HearFrameStep, TranscribedStep, TurnEndsStep DEF ListeningNext
<1> QED BY <1>1, <1>2, PTL DEF ListeningSpec

\* Whatever the two models answer and however turns interleave, end and fail,
\* the detector reports each edge of speech once, in order and at its frame;
\* partials fall on the interval and grow; and a turn's utterance covers all of
\* its frames (saap/plugins/voice).
THEOREM ListeningExact == ListeningSpec => []ListeningIsExact
<1>1. ListeningInv => ListeningIsExact
  <2> SUFFICES ASSUME ListeningInv PROVE ListeningIsExact
    OBVIOUS
  <2>1. ASSUME NEW t \in ListeningTurns, hearing[t].at = "partial"
        PROVE  hearing[t].buffer % Interval = 0
    <3>1. /\ hearing[t].buffer \in Nat /\ hearing[t].since = Interval /\ Interval <= hearing[t].buffer
          /\ Intervals(hearing[t].buffer - Interval) /\ Interval \in Nat
      BY <2>1, ListeningAssumption DEF ListeningInv, LTurn, Paced
    <3>2. /\ hearing[t].buffer - Interval \in Nat
          /\ (hearing[t].buffer - Interval) + Interval = hearing[t].buffer
      BY <3>1
    <3> QED BY <3>1, <3>2, IntervalFacts
  <2>2. ASSUME NEW t \in ListeningTurns, NEW i \in DOMAIN hearing[t].partials
        PROVE  /\ ~ hearing[t].partials[i].final => hearing[t].partials[i].frames % Interval = 0
               /\ hearing[t].partials[i].final => i = Len(hearing[t].partials)
               /\ i > 1 /\ ~ hearing[t].partials[i].final =>
                    hearing[t].partials[i - 1].frames < hearing[t].partials[i].frames
    <3>1. hearing[t].partials \in Seq(PartialText) /\ Paced(hearing[t])
      BY DEF ListeningInv, LTurn
    <3>2. hearing[t].partials[i] \in PartialText
      BY <3>1, ElementOfSeq
    <3>3. hearing[t].partials[i].frames \in Nat
      BY <3>2 DEF PartialText
    <3> QED BY <3>1, <3>3, IntervalFacts DEF Paced
  <2>3. \A t \in ListeningTurns :
          /\ hearing[t].utterance \in {0, hearing[t].buffer}
          /\ hearing[t].utterance # 0 => hearing[t].at = "done"
    BY DEF ListeningInv, Paced
  <2> QED BY <2>1, <2>2, <2>3 DEF ListeningInv, Detecting, ListeningIsExact
<1> QED BY <1>1, ListeningCorrect, PTL

-----------------------------------------------------------------------------
(* The vault monitor: nothing that still counts was pruned.                 *)

\* Only what can matter no more was pruned.
MonitorInv ==
  /\ clock \in Nat /\ calls \in Seq(Nat) /\ \A n \in DOMAIN calls : calls[n] <= clock
  /\ recent \subseteq DOMAIN calls
  /\ \A n \in DOMAIN calls \ recent : calls[n] + Window <= clock
  /\ alerts \subseteq DOMAIN calls /\ AlertsAreExact

MonitorSpec == MonitorInit /\ [][MonitorNext]_monitorVars

LEMMA ResolveStep == ASSUME MonitorInv, Resolve PROVE MonitorInv'
<1> DEFINE n == Len(calls) + 1
           InWindow(s, i) == {m \in 1..i : m = i \/ s[i] < s[m] + Window}
<1>1. /\ clock \in Nat /\ calls \in Seq(Nat) /\ calls' = Append(calls, clock) /\ clock' = clock
      /\ recent' = Pruned(recent) \cup {n} /\ Window \in Nat
      /\ alerts' = IF Cardinality(recent') > Threshold THEN alerts \cup {n} ELSE alerts
  BY MonitorAssumption DEF MonitorInv, Resolve
<1>2. /\ calls' \in Seq(Nat) /\ n \in Nat /\ Len(calls') = n /\ calls'[n] = clock
      /\ DOMAIN calls = 1..Len(calls) /\ DOMAIN calls' = 1..n /\ Len(calls) \in Nat
      /\ \A m \in 1..Len(calls) : calls'[m] = calls[m] /\ calls[m] \in Nat
  BY <1>1
<1>3. recent' = InWindow(calls', n)
  <2>1. n \in recent' /\ n \in InWindow(calls', n) /\ recent' \subseteq 1..n
    BY <1>1, <1>2 DEF MonitorInv, Pruned
  <2>2. ASSUME NEW m \in 1..Len(calls) PROVE m \in recent' <=> m \in InWindow(calls', n)
    <3>1. m \in recent' <=> m \in recent /\ clock - calls[m] < Window
      BY <1>1, <1>2 DEF Pruned
    <3>2. m \in InWindow(calls', n) <=> clock < calls[m] + Window
      BY <1>2
    <3>3. m \notin recent => calls[m] + Window <= clock
      BY <1>2 DEF MonitorInv
    <3> QED BY <1>1, <1>2, <3>1, <3>2, <3>3
  <2>3. \A m : m \in InWindow(calls', n) => m \in 1..n
    OBVIOUS
  <2>4. \A m : m \in 1..n <=> m = n \/ m \in 1..Len(calls)
    BY <1>2
  <2> HIDE DEF InWindow
  <2>5. \A m : m \in recent' <=> m \in InWindow(calls', n)
    BY <2>1, <2>2, <2>3, <2>4
  <2> QED BY <2>5
<1>4. ASSUME NEW i \in 1..Len(calls) PROVE InWindow(calls', i) = InWindow(calls, i)
  BY <1>2
<1>5. ASSUME NEW i \in 1..n PROVE i \in alerts' <=> Cardinality(InWindow(calls', i)) > Threshold
  <2>1. CASE i = n
    <3>1. n \notin alerts
      BY <1>2 DEF MonitorInv
    <3> HIDE DEF InWindow
    <3> QED BY <1>1, <1>3, <2>1, <3>1
  <2>2. CASE i \in 1..Len(calls)
    <3>1. i \in alerts <=> Cardinality(InWindow(calls, i)) > Threshold
      BY <1>2, <2>2 DEF MonitorInv, AlertsAreExact
    <3>2. i # n /\ (i \in alerts' <=> i \in alerts)
      BY <1>1, <1>2, <2>2
    <3> HIDE DEF InWindow
    <3> QED BY <1>4, <2>2, <3>1, <3>2
  <2> QED BY <1>2, <2>1, <2>2
<1>6. ASSUME NEW i \in 1..n \ recent' PROVE calls'[i] + Window <= clock'
  BY <1>1, <1>2, <1>3
<1>7. recent' \subseteq 1..n /\ alerts' \subseteq 1..n /\ \A i \in 1..n : calls'[i] <= clock'
  BY <1>1, <1>2 DEF MonitorInv, Pruned
<1> QED BY <1>1, <1>2, <1>5, <1>6, <1>7 DEF MonitorInv, AlertsAreExact

\* At whatever times calls come, an alert is raised for exactly those which are
\* one too many in their window (saap/compliance/breach.py).
THEOREM AlertsExact == MonitorSpec => []AlertsAreExact
<1>1. MonitorInit => MonitorInv
  BY DEF MonitorInit, MonitorInv, AlertsAreExact
<1>2. MonitorInv /\ [MonitorNext]_monitorVars => MonitorInv'
  <2> SUFFICES ASSUME MonitorInv, [MonitorNext]_monitorVars PROVE MonitorInv'
    OBVIOUS
  <2>1. CASE PassTime
    <3>1. clock \in Nat /\ clock' = clock + 1 /\ UNCHANGED <<recent, calls, alerts>> /\ Window \in Nat
      BY <2>1, MonitorAssumption DEF PassTime, MonitorInv
    <3>2. \A n \in DOMAIN calls : calls[n] \in Nat
      BY DEF MonitorInv
    <3> QED BY <3>1, <3>2 DEF MonitorInv, AlertsAreExact
  <2>2. CASE UNCHANGED monitorVars
    BY <2>2 DEF monitorVars, MonitorInv, AlertsAreExact
  <2> QED BY <2>1, <2>2, ResolveStep DEF MonitorNext
<1>3. MonitorInv => AlertsAreExact
  BY DEF MonitorInv
<1> QED BY <1>1, <1>2, <1>3, PTL DEF MonitorSpec

-----------------------------------------------------------------------------
(* The flow linter: the search visits what a walk can reach and no more.    *)

\* What has been found by looking at single nodes.
NodeFindings(f) == IngressFindings(f) \cup RawFindings(f) \cup ChecksumFindings(f)

\* A search ends in a finding exactly if it should.
Amiss(q) ==
  q.rule = "ungrounded_output_path" <=> Walk(flow, q.start, q.targets, q.mustPass)

\* The findings are those of the nodes and of the searches that were made.
FindingsSoFar ==
  IF flow = Nothing THEN searches = {} /\ search = Nothing
  ELSE /\ flow \in Flows /\ searches \subseteq SearchesOf(flow)
       /\ search # Nothing => search \in SearchesOf(flow) \ searches
       /\ findings = NodeFindings(flow) \cup
            {<<q.rule, q.start>> : q \in {p \in SearchesOf(flow) \ searches : p # search /\ Amiss(p)}}

\* A set of nodes that a walk to the targets cannot leave.
Closed(C, q) ==
  q.start \in C /\ \A n \in C \ q.targets : Successors(flow, n) \ q.mustPass \subseteq C

\* What was visited leads nowhere but to the stack, and every closed set has
\* all of it unless it has a target.
SearchSound ==
  search # Nothing =>
    /\ visited \subseteq Nodes /\ stack \subseteq Nodes
    /\ visited \cap search.targets = {} /\ search.start \in visited \cup stack
    /\ \A n \in visited : Successors(flow, n) \ search.mustPass \subseteq visited \cup stack
    /\ \A C \in SUBSET Nodes :
         Closed(C, search) => visited \cup stack \subseteq C \/ C \cap search.targets # {}

LinterInv == FindingsSoFar /\ SearchSound

LinterSpec == LinterInit /\ [][LinterNext]_linterVars

LEMMA SearchFacts ==
  ASSUME FindingsSoFar, search # Nothing
  PROVE  /\ flow \in Flows /\ flow # Nothing /\ search \in SearchesOf(flow) \ searches
         /\ search.start \in Nodes /\ search.targets \subseteq Nodes
         /\ search.rule \in {"ungrounded_output_path", "tool_path_missing_audit_close"}
BY DEF FindingsSoFar, SearchesOf, OutputSearches, ToolSearches, OutputSearch, ToolSearch, NodesOfType

LEMMA EndSearchStep ==
  ASSUME LinterInv, search # Nothing, NEW reached \in BOOLEAN, EndSearch(reached),
         UNCHANGED <<flow, searches, visited, stack>>,
         reached <=> Walk(flow, search.start, search.targets, search.mustPass)
  PROVE  LinterInv'
<1>1. FindingsSoFar /\ search' = Nothing
  BY DEF LinterInv, EndSearch
<1>2. /\ flow # Nothing /\ search \in SearchesOf(flow) \ searches /\ flow \in Flows
  BY <1>1, SearchFacts
<1>3. \A q \in SearchesOf(flow) : q # Nothing
  BY <1>2, SearchAssumption
<1>4. findings' = IF Amiss(search) THEN findings \cup {<<search.rule, search.start>>} ELSE findings
  BY DEF EndSearch, Amiss
<1>5. \A q : Amiss(q)' = Amiss(q)
  BY DEF Amiss
<1>6. NodeFindings(flow)' = NodeFindings(flow) /\ SearchesOf(flow)' = SearchesOf(flow)
  OBVIOUS
<1>7. findings' = NodeFindings(flow) \cup
         {<<q.rule, q.start>> : q \in {p \in SearchesOf(flow) \ searches : Amiss(p)}}
  <2>1. findings = NodeFindings(flow) \cup
          {<<q.rule, q.start>> : q \in {p \in SearchesOf(flow) \ searches : p # search /\ Amiss(p)}}
    BY <1>1, <1>2 DEF FindingsSoFar
  <2> DEFINE S == {p \in SearchesOf(flow) \ searches : Amiss(p)}
  <2>2. CASE Amiss(search)
    <3>1. S = {p \in SearchesOf(flow) \ searches : p # search /\ Amiss(p)} \cup {search}
      BY <1>2, <2>2
    <3> QED BY <1>4, <2>1, <2>2, <3>1
  <2>3. CASE ~ Amiss(search)
    <3>1. S = {p \in SearchesOf(flow) \ searches : p # search /\ Amiss(p)}
      BY <2>3
    <3> QED BY <1>4, <2>1, <2>3, <3>1
  <2> QED BY <2>2, <2>3
<1>8. FindingsSoFar'
  <2>1. {p \in SearchesOf(flow) \ searches : p # search /\ Amiss(p)}'
          = {p \in SearchesOf(flow) \ searches : Amiss(p)}
    BY <1>1, <1>3, <1>5
  <2> QED BY <1>1, <1>2, <1>7, <2>1 DEF FindingsSoFar
<1> QED BY <1>1, <1>8 DEF LinterInv, SearchSound

LEMMA VisitStep == ASSUME LinterInv, NEW n \in Nodes, Visit(n) PROVE LinterInv'
<1>1. /\ search # Nothing /\ n \in stack /\ n \notin search.targets
      /\ UNCHANGED <<flow, searches, search, findings>>
  BY DEF Visit
<1>2. FindingsSoFar'
  <2>1. \A q : Amiss(q)' = Amiss(q)
    BY <1>1 DEF Amiss
  <2> QED BY <1>1, <2>1 DEF LinterInv, FindingsSoFar
<1>3. Successors(flow, n) \subseteq Nodes
  BY DEF Successors
<1>4. CASE n \in visited
  <2>1. visited' = visited /\ stack' = stack \ {n} /\ visited' \cup stack' = visited \cup stack
    BY <1>4 DEF Visit
  <2>2. SearchSound'
    BY <1>1, <2>1 DEF LinterInv, SearchSound, Closed
  <2> QED BY <1>2, <2>2 DEF LinterInv
<1>5. CASE n \notin visited
  <2>1. /\ visited' = visited \cup {n}
        /\ stack' = (stack \ {n}) \cup (Successors(flow, n) \ search.mustPass)
    BY <1>5 DEF Visit
  <2>2. visited' \cup stack' = visited \cup stack \cup (Successors(flow, n) \ search.mustPass)
    BY <1>1, <2>1
  <2>3. /\ visited' \subseteq Nodes /\ stack' \subseteq Nodes
        /\ visited' \cap search.targets = {} /\ search.start \in visited' \cup stack'
    BY <1>1, <1>3, <2>1 DEF LinterInv, SearchSound
  <2>4. \A m \in visited' : Successors(flow, m) \ search.mustPass \subseteq visited' \cup stack'
    BY <1>1, <2>1, <2>2 DEF LinterInv, SearchSound
  <2>5. ASSUME NEW C \in SUBSET Nodes, Closed(C, search)
        PROVE  visited' \cup stack' \subseteq C \/ C \cap search.targets # {}
    <3>1. visited \cup stack \subseteq C \/ C \cap search.targets # {}
      BY <1>1, <2>5 DEF LinterInv, SearchSound
    <3>2. n \in C => Successors(flow, n) \ search.mustPass \subseteq C
      BY <1>1, <2>5 DEF Closed
    <3> QED BY <1>1, <2>2, <3>1, <3>2
  <2>6. SearchSound'
    BY <1>1, <2>3, <2>4, <2>5 DEF SearchSound, Closed
  <2> QED BY <1>2, <2>6 DEF LinterInv
<1> QED BY <1>4, <1>5

\* The search tells whether there is a walk.
LEMMA SearchEnds == ASSUME LinterInv, Found \/ NotFound PROVE LinterInv'
<1>1. search # Nothing /\ UNCHANGED <<flow, searches, visited, stack>>
  BY DEF Found, NotFound, EndSearch
<1>2. SearchSound /\ FindingsSoFar
  BY DEF LinterInv
<1> DEFINE W == Walk(flow, search.start, search.targets, search.mustPass)
<1>3. W <=> \A C \in SUBSET Nodes : Closed(C, search) => C \cap search.targets # {}
  BY DEF Walk, Closed
<1>4. CASE Found
  <2>1. stack \cap search.targets # {} /\ EndSearch(TRUE)
    BY <1>4 DEF Found
  <2>2. W
    BY <1>1, <1>2, <1>3, <2>1 DEF SearchSound
  <2> QED BY <1>1, <2>1, <2>2, EndSearchStep
<1>5. CASE NotFound
  <2>1. stack = {} /\ EndSearch(FALSE)
    BY <1>5 DEF NotFound
  <2>2. visited \in SUBSET Nodes /\ Closed(visited, search) /\ visited \cap search.targets = {}
    BY <1>1, <1>2, <2>1 DEF SearchSound, Closed
  <2>3. ~ W
    BY <1>3, <2>2
  <2> QED BY <1>1, <2>1, <2>3, EndSearchStep
<1> QED BY <1>4, <1>5

LEMMA StartSearchStep == ASSUME LinterInv, NEW q \in searches, StartSearch(q) PROVE LinterInv'
<1>1. /\ search = Nothing /\ search' = q /\ searches' = searches \ {q}
      /\ visited' = {} /\ stack' = {q.start} /\ UNCHANGED <<flow, findings>>
  BY DEF StartSearch
<1>2. FindingsSoFar
  BY DEF LinterInv
<1>3. flow # Nothing /\ flow \in Flows /\ searches \subseteq SearchesOf(flow)
  BY <1>2 DEF FindingsSoFar
<1>4. FindingsSoFar'
  <2>1. \A p : Amiss(p)' = Amiss(p)
    BY <1>1 DEF Amiss
  <2>2. {p \in SearchesOf(flow) \ searches : p # search /\ Amiss(p)}'
          = {p \in SearchesOf(flow) \ searches : p # search /\ Amiss(p)}
    <3>1. \A p \in SearchesOf(flow) : p # Nothing
      BY <1>3, SearchAssumption
    <3> QED BY <1>1, <1>3, <2>1, <3>1
  <2> QED BY <1>1, <1>2, <1>3, <2>2 DEF FindingsSoFar
<1>5. q.start \in Nodes
  BY <1>3 DEF SearchesOf, OutputSearches, ToolSearches, OutputSearch, ToolSearch, NodesOfType
<1>6. SearchSound'
  BY <1>1, <1>5 DEF SearchSound, Closed
<1> QED BY <1>4, <1>6 DEF LinterInv

LEMMA LintFlowStep == ASSUME LinterInv, NEW f \in Flows, LintFlow(f) PROVE LinterInv'
<1>1. /\ flow = Nothing /\ flow' = f /\ searches' = SearchesOf(f) /\ UNCHANGED <<search, visited, stack>>
      /\ findings' = NodeFindings(f) /\ f # Nothing
  BY FlowAssumption DEF LintFlow, NodeFindings
<1>2. search = Nothing
  BY <1>1 DEF LinterInv, FindingsSoFar
<1>3. FindingsSoFar'
  <2>1. {p \in SearchesOf(flow) \ searches : p # search /\ Amiss(p)}' = {}
    BY <1>1
  <2> QED BY <1>1, <1>2, <2>1 DEF FindingsSoFar
<1> QED BY <1>1, <1>2, <1>3 DEF LinterInv, SearchSound

\* A lint has found what its nodes and its searches so far warrant, and a
\* search has visited nothing that its walks do not reach.
THEOREM LinterCorrect == LinterSpec => []LinterInv
<1>1. LinterInit => LinterInv
  BY DEF LinterInit, LinterInv, FindingsSoFar, SearchSound
<1>2. LinterInv /\ [LinterNext]_linterVars => LinterInv'
  <2> SUFFICES ASSUME LinterInv, [LinterNext]_linterVars PROVE LinterInv'
    OBVIOUS
  <2>1. CASE UNCHANGED linterVars
    <3>1. \A p : Amiss(p)' = Amiss(p)
      BY <2>1 DEF Amiss, linterVars
    <3>2. UNCHANGED <<flow, searches, search, visited, stack, findings>>
      BY <2>1 DEF linterVars
    <3> QED BY <3>1, <3>2 DEF LinterInv, FindingsSoFar, SearchSound, Closed
  <2> QED BY <2>1, LintFlowStep, StartSearchStep, VisitStep, SearchEnds DEF LinterNext
<1> QED BY <1>1, <1>2, PTL DEF LinterSpec

-----------------------------------------------------------------------------
\* What is in every set that holds the first node and the steps off `avoid`.
Reached(f, from, avoid, m) ==
  \A C \in SUBSET Nodes :
    from \in C /\ (\A n \in C : Successors(f, n) \ avoid \subseteq C) => m \in C

LEMMA WalksReach ==
  ASSUME NEW f, NEW from \in Nodes, NEW targets, NEW avoid
  PROVE  Walk(f, from, targets, avoid) <=> \E m \in targets : m \in Nodes /\ Reached(f, from, avoid, m)
<1>1. ASSUME Walk(f, from, targets, avoid)
      PROVE  \E m \in targets : m \in Nodes /\ Reached(f, from, avoid, m)
  <2> DEFINE R == {m \in Nodes : Reached(f, from, avoid, m)}
  <2>1. R \in SUBSET Nodes /\ from \in R
    BY DEF Reached
  <2>2. \A n \in R : Successors(f, n) \ avoid \subseteq R
    BY DEF Reached, Successors
  <2>3. R \cap targets # {}
    BY <1>1, <2>1, <2>2 DEF Walk
  <2> QED BY <2>3
<1>2. ASSUME NEW m \in targets, m \in Nodes, Reached(f, from, avoid, m)
      PROVE  Walk(f, from, targets, avoid)
  <2> SUFFICES ASSUME NEW C \in SUBSET Nodes, from \in C, C \cap targets = {},
                      \A n \in C \ targets : Successors(f, n) \ avoid \subseteq C
               PROVE  FALSE
    BY DEF Walk
  <2>1. \A n \in C : Successors(f, n) \ avoid \subseteq C
    OBVIOUS
  <2> QED BY <1>2, <2>1 DEF Reached
<1> QED BY <1>1, <1>2

LEMMA WalkToOne ==
  ASSUME NEW f, NEW from \in Nodes, NEW targets, NEW avoid
  PROVE  Walk(f, from, targets, avoid) <=> \E o \in targets : Walk(f, from, {o}, avoid)
<1>1. \A o : Walk(f, from, {o}, avoid) <=> \E m \in {o} : m \in Nodes /\ Reached(f, from, avoid, m)
  BY WalksReach
<1> QED BY <1>1, WalksReach

\* The rules about single nodes.
LEMMA NodeRules ==
  ASSUME NEW f \in Flows
  PROVE  NodeFindings(f) = {} <=>
           /\ \E n \in Nodes : NodesOfType(f, {"ComplianceIngress"}) = {n} /\ Predecessors(f, n) = {}
           /\ \A n \in Nodes : /\ f.type[n] \notin RawTypes
                               /\ f.type[n] \in SealedTypes \cap Pinned => n \notin f.drifted
<1> DEFINE entries == NodesOfType(f, {"ComplianceIngress"})
<1>1. IsFiniteSet(entries) /\ entries \subseteq Nodes
  BY FlowAssumption, FS_Subset DEF NodesOfType
<1>2. /\ Cardinality(entries) \in Nat
      /\ Cardinality(entries) = 0 <=> entries = {}
      /\ Cardinality(entries) = 1 <=> \E n : entries = {n}
  BY <1>1, FS_CardinalityType, FS_EmptySet, FS_Singleton
<1>3. IngressFindings(f) = {} <=> \E n \in Nodes : entries = {n} /\ Predecessors(f, n) = {}
  <2> HIDE DEF entries
  <2>1. CASE entries = {}
    BY <2>1 DEF IngressFindings, entries
  <2>2. CASE Cardinality(entries) > 1
    <3>1. entries # {} /\ ~ \E n : entries = {n}
      BY <1>2, <2>2
    <3>2. IngressFindings(f) # {}
      BY <2>2, <3>1 DEF IngressFindings, entries
    <3> QED BY <3>1, <3>2
  <2>3. CASE entries # {} /\ ~ Cardinality(entries) > 1
    <3>1. PICK n : entries = {n}
      BY <1>2, <2>3
    <3>2. IngressFindings(f) =
            {<<"compliance_ingress_not_entry", k>> : k \in {m \in entries : Predecessors(f, m) # {}}}
      BY <2>3 DEF IngressFindings, entries
    <3>3. IngressFindings(f) = {} <=> Predecessors(f, n) = {}
      BY <3>1, <3>2
    <3> QED BY <1>1, <3>1, <3>3
  <2> QED BY <2>1, <2>2, <2>3
<1>4. RawFindings(f) = {} <=> \A n \in Nodes : f.type[n] \notin RawTypes
  BY DEF RawFindings, NodesOfType
<1>5. ChecksumFindings(f) = {} <=> \A n \in Nodes : f.type[n] \in SealedTypes \cap Pinned => n \notin f.drifted
  BY DEF ChecksumFindings, NodesOfType
<1> HIDE DEF entries
<1> QED BY <1>3, <1>4, <1>5 DEF NodeFindings, entries

\* The searches find what there is, however the edges run: an LLM is named
\* exactly if some path from it to an output passes no responder, a tool exactly
\* if no path from it leads to an AuditClose, and the exit code is 0 exactly if
\* the rules hold as the linter applies them.
THEOREM LintExact == LinterSpec => []LintIsExact
<1>1. LinterInv => LintIsExact
  <2> SUFFICES ASSUME LinterInv, Linted PROVE LintIsExact
    BY DEF LintIsExact
  <2> DEFINE llms == NodesOfType(flow, LLMTypes)
             outputs == NodesOfType(flow, {"ChatOutput"})
             grounded == NodesOfType(flow, {"GroundedResponder"})
             tools == NodesOfType(flow, {"MCPToolkit"})
             closes == NodesOfType(flow, {"AuditClose"})
             amiss == {q \in SearchesOf(flow) : Amiss(q)}
             reports == {<<q.rule, q.start>> : q \in amiss}
  <2>1. /\ flow \in Flows /\ searches = {} /\ search = Nothing
        /\ findings = NodeFindings(flow) \cup reports
    <3>1. flow # Nothing /\ searches = {} /\ search = Nothing
      BY DEF Linted
    <3>2. /\ flow \in Flows
          /\ findings = NodeFindings(flow) \cup
               {<<q.rule, q.start>> : q \in {p \in SearchesOf(flow) \ searches : p # search /\ Amiss(p)}}
      BY <3>1 DEF LinterInv, FindingsSoFar
    <3>3. {p \in SearchesOf(flow) \ searches : p # search /\ Amiss(p)} = amiss
      BY <3>1, <3>2, SearchAssumption
    <3> QED BY <3>1, <3>2, <3>3
  <2>2. /\ \A q \in OutputSearches(flow) : \E l \in llms, o \in outputs :
             q.start = l /\ (Amiss(q) <=> Walk(flow, l, {o}, grounded))
        /\ \A l \in llms, o \in outputs : \E q \in OutputSearches(flow) :
             q.start = l /\ (Amiss(q) <=> Walk(flow, l, {o}, grounded))
    <3>1. \A l, o : /\ OutputSearch(flow, l, o).start = l
                    /\ Amiss(OutputSearch(flow, l, o)) <=> Walk(flow, l, {o}, grounded)
      BY DEF Amiss, OutputSearch
    <3>2. OutputSearches(flow) = {OutputSearch(flow, l, o) : l \in llms, o \in outputs}
      BY DEF OutputSearches
    <3> HIDE DEF grounded, llms, outputs
    <3>3. ASSUME NEW l \in llms, NEW o \in outputs
          PROVE  \E q \in OutputSearches(flow) : q.start = l /\ (Amiss(q) <=> Walk(flow, l, {o}, grounded))
      <4>1. OutputSearch(flow, l, o) \in OutputSearches(flow)
        BY <3>2
      <4> QED BY <3>1, <4>1
    <3>4. ASSUME NEW q \in OutputSearches(flow)
          PROVE  \E l \in llms, o \in outputs : q.start = l /\ (Amiss(q) <=> Walk(flow, l, {o}, grounded))
      <4>1. PICK l \in llms, o \in outputs : q = OutputSearch(flow, l, o)
        BY <3>2
      <4> QED BY <3>1, <4>1
    <3> QED BY <3>3, <3>4
  <2>3. /\ \A q \in ToolSearches(flow) : \E t \in tools :
             q.start = t /\ (Amiss(q) <=> ~ Walk(flow, t, closes, {}))
        /\ \A t \in tools : \E q \in ToolSearches(flow) :
             q.start = t /\ (Amiss(q) <=> ~ Walk(flow, t, closes, {}))
    <3>1. \A t : /\ ToolSearch(flow, t).start = t
                 /\ Amiss(ToolSearch(flow, t)) <=> ~ Walk(flow, t, closes, {})
      BY DEF Amiss, ToolSearch
    <3>2. ToolSearches(flow) = {ToolSearch(flow, t) : t \in tools}
      BY DEF ToolSearches
    <3> HIDE DEF closes, tools
    <3> QED BY <3>1, <3>2
  <2> HIDE DEF llms, outputs, tools, grounded, closes
  <2>4. (\A q \in OutputSearches(flow) : ~ Amiss(q))
          <=> \A l \in llms, o \in outputs : ~ Walk(flow, l, {o}, grounded)
    BY <2>2
  <2>5. (\A q \in ToolSearches(flow) : ~ Amiss(q)) <=> \A t \in tools : Walk(flow, t, closes, {})
    BY <2>3
  <2>6. reports = {} <=> /\ \A q \in OutputSearches(flow) : ~ Amiss(q)
                         /\ \A q \in ToolSearches(flow) : ~ Amiss(q)
    BY DEF SearchesOf
  <2>7. LinterExit = 0 <=> RulesHold(flow)
    BY <2>1, <2>4, <2>5, <2>6, NodeRules DEF LinterExit, RulesHold, llms, outputs, tools, grounded, closes
  <2>8. ASSUME NEW n \in Nodes
        PROVE  <<"ungrounded_output_path", n>> \in findings <=>
                 flow.type[n] \in LLMTypes /\ Walk(flow, n, outputs, grounded)
    <3>1. <<"ungrounded_output_path", n>> \notin NodeFindings(flow)
      BY DEF NodeFindings, IngressFindings, RawFindings, ChecksumFindings
    <3>2. <<"ungrounded_output_path", n>> \in reports
            <=> \E q \in OutputSearches(flow) : q.start = n /\ Amiss(q)
      BY DEF SearchesOf, OutputSearches, ToolSearches, OutputSearch, ToolSearch
    <3>3. (\E q \in OutputSearches(flow) : q.start = n /\ Amiss(q))
            <=> n \in llms /\ \E o \in outputs : Walk(flow, n, {o}, grounded)
      <4>1. ASSUME NEW q \in OutputSearches(flow), q.start = n, Amiss(q)
            PROVE  n \in llms /\ \E o \in outputs : Walk(flow, n, {o}, grounded)
        <5>1. PICK l \in llms, o \in outputs : q.start = l /\ (Amiss(q) <=> Walk(flow, l, {o}, grounded))
          BY <2>2
        <5> QED BY <4>1, <5>1
      <4>2. ASSUME n \in llms, NEW o \in outputs, Walk(flow, n, {o}, grounded)
            PROVE  \E q \in OutputSearches(flow) : q.start = n /\ Amiss(q)
        BY <2>2, <4>2
      <4> QED BY <4>1, <4>2
    <3>4. n \in llms <=> flow.type[n] \in LLMTypes
      BY DEF llms, NodesOfType
    <3> QED BY <2>1, <3>1, <3>2, <3>3, <3>4, WalkToOne
  <2>9. ASSUME NEW n \in Nodes
        PROVE  <<"tool_path_missing_audit_close", n>> \in findings <=>
                 flow.type[n] = "MCPToolkit" /\ ~ Walk(flow, n, closes, {})
    <3>1. <<"tool_path_missing_audit_close", n>> \notin NodeFindings(flow)
      BY DEF NodeFindings, IngressFindings, RawFindings, ChecksumFindings
    <3>2. <<"tool_path_missing_audit_close", n>> \in reports
            <=> \E q \in ToolSearches(flow) : q.start = n /\ Amiss(q)
      BY DEF SearchesOf, OutputSearches, ToolSearches, OutputSearch, ToolSearch
    <3>3. (\E q \in ToolSearches(flow) : q.start = n /\ Amiss(q))
            <=> n \in tools /\ ~ Walk(flow, n, closes, {})
      <4>1. ASSUME NEW q \in ToolSearches(flow), q.start = n, Amiss(q)
            PROVE  n \in tools /\ ~ Walk(flow, n, closes, {})
        <5>1. PICK t \in tools : q.start = t /\ (Amiss(q) <=> ~ Walk(flow, t, closes, {}))
          BY <2>3
        <5> QED BY <4>1, <5>1
      <4>2. ASSUME n \in tools, ~ Walk(flow, n, closes, {})
            PROVE  \E q \in ToolSearches(flow) : q.start = n /\ Amiss(q)
        BY <2>3, <4>2
      <4> QED BY <4>1, <4>2
    <3>4. n \in tools <=> flow.type[n] = "MCPToolkit"
      BY DEF tools, NodesOfType
    <3> QED BY <2>1, <3>1, <3>2, <3>3, <3>4
  <2> QED BY <2>7, <2>8, <2>9 DEF LintIsExact, outputs, grounded, closes
<1> QED BY <1>1, LinterCorrect, PTL

-----------------------------------------------------------------------------
(* The audit trail: the chain holds as far as nothing was changed.          *)

Hashes == Seq(AuditTenants \X Payloads)
TrailRow == [tenant : AuditTenants, payload : Payloads, prev : Hashes, hash : Hashes]

TrailTypes ==
  /\ trail \in [AuditTenants -> Seq(TrailRow)] /\ appended \in [AuditTenants -> Seq(TrailRow)]
  /\ changes \in Nat
  /\ \A t \in AuditTenants : Len(trail[t]) <= Len(appended[t])

\* The hash of a row is that of its own fields.
OwnHash(row) == row.hash = RowHash(row.prev, row.tenant, row.payload)

\* A hash is as long as the chain it stands for, which may have lost entries since.
HashLengths(t) ==
  /\ \A i \in DOMAIN trail[t] : i <= Len(trail[t][i].hash) /\ Len(trail[t][i].hash) <= Len(appended[t])
  /\ \A j \in DOMAIN appended[t] : Len(appended[t][j].hash) <= j /\ OwnHash(appended[t][j])

\* A row follows on the one before it, and entries are those that were appended.
Linked(entries, i) ==
  LET expected == IF i = 1 THEN Genesis ELSE entries[i - 1].hash IN
    entries[i].hash = RowHash(expected, entries[i].tenant, entries[i].payload) /\ entries[i].prev = expected
LinkedTo(t, m) == \A i \in 1..m : Linked(trail[t], i)
AsAppended(t, m) == m <= Len(appended[t]) /\ \A i \in 1..m : trail[t][i] = appended[t][i]

\* The chain holds up to a row exactly as far as the trail is what was appended.
ChainTells(t) == \A m \in 0..Len(trail[t]) : LinkedTo(t, m) <=> AsAppended(t, m)

TrailInv ==
  /\ TrailTypes
  /\ changes <= 1 => \A t \in AuditTenants : HashLengths(t) /\ ChainTells(t)
  /\ changes = 0 => \A t \in AuditTenants : \A i \in DOMAIN trail[t] : OwnHash(trail[t][i])
  /\ TamperingShows

LEMMA LinkedAlike ==
  ASSUME NEW r, NEW s, NEW m \in Nat, \A k \in 1..m : r[k] = s[k]
  PROVE  \A k \in 1..m : Linked(r, k) <=> Linked(s, k)
<1> SUFFICES ASSUME NEW k \in 1..m PROVE Linked(r, k) <=> Linked(s, k)
  OBVIOUS
<1>1. r[k] = s[k] /\ (k # 1 => r[k - 1] = s[k - 1])
  OBVIOUS
<1> QED BY <1>1 DEF Linked

LEMMA RowTaken ==
  ASSUME NEW S, NEW s \in Seq(S), NEW i \in 1..Len(s)
  PROVE  /\ RemoveAt(s, i) \in Seq(S) /\ Len(RemoveAt(s, i)) = Len(s) - 1
         /\ \A k \in 1..Len(s) - 1 : RemoveAt(s, i)[k] = IF k < i THEN s[k] ELSE s[k + 1]
<1> DEFINE a == SubSeq(s, 1, i - 1)
           b == SubSeq(s, i + 1, Len(s))
<1>1. /\ a \in Seq(S) /\ b \in Seq(S) /\ Len(a) = i - 1 /\ Len(b) = Len(s) - i
      /\ \A k \in 1..i - 1 : a[k] = s[k]
      /\ \A k \in 1..Len(s) - i : b[k] = s[i + 1 + k - 1]
  BY SubSeqProperties
<1>2. RemoveAt(s, i) = a \o b
  BY DEF RemoveAt
<1> HIDE DEF a, b
<1>3. /\ a \o b \in Seq(S) /\ Len(a \o b) = Len(s) - 1
      /\ \A k \in 1..Len(s) - 1 : (a \o b)[k] = IF k <= Len(a) THEN a[k] ELSE b[k - Len(a)]
  <2>1. Len(a) + Len(b) = Len(s) - 1
    BY <1>1
  <2>2. /\ a \o b \in Seq(S) /\ Len(a \o b) = Len(a) + Len(b)
        /\ \A k \in 1..Len(a) + Len(b) : (a \o b)[k] = IF k <= Len(a) THEN a[k] ELSE b[k - Len(a)]
    BY <1>1, ConcatProperties
  <2> QED BY <2>1, <2>2
<1>4. ASSUME NEW k \in 1..Len(s) - 1 PROVE (a \o b)[k] = IF k < i THEN s[k] ELSE s[k + 1]
  <2>1. CASE k < i
    BY <1>1, <1>3, <2>1
  <2>2. CASE ~ k < i
    <3>1. (a \o b)[k] = b[k - (i - 1)] /\ k - (i - 1) \in 1..Len(s) - i
      BY <1>1, <1>3, <2>2
    <3>2. i + 1 + (k - (i - 1)) - 1 = k + 1
      OBVIOUS
    <3> QED BY <1>1, <2>2, <3>1, <3>2
  <2> QED BY <2>1, <2>2
<1> QED BY <1>2, <1>3, <1>4

LEMMA TrailFacts ==
  ASSUME TrailTypes, NEW t \in AuditTenants
  PROVE  /\ trail[t] \in Seq(TrailRow) /\ appended[t] \in Seq(TrailRow)
         /\ Len(trail[t]) \in Nat /\ DOMAIN trail[t] = 1..Len(trail[t])
         /\ Len(trail[t]) <= Len(appended[t]) /\ DOMAIN appended[t] = 1..Len(appended[t])
         /\ \A k \in DOMAIN trail[t] :
              trail[t][k] \in TrailRow /\ trail[t][k].hash \in Hashes /\ Len(trail[t][k].hash) \in Nat
<1>1. trail[t] \in Seq(TrailRow) /\ appended[t] \in Seq(TrailRow)
  BY DEF TrailTypes
<1>2. \A k \in DOMAIN trail[t] : trail[t][k] \in TrailRow
  BY <1>1, ElementOfSeq
<1>3. \A r \in TrailRow : r.hash \in Hashes /\ Len(r.hash) \in Nat
  BY DEF TrailRow, Hashes
<1> QED BY <1>1, <1>2, <1>3 DEF TrailTypes

LEMMA TrailInitial == AuditInit => TrailInv
<1> SUFFICES ASSUME AuditInit PROVE TrailInv
  OBVIOUS
<1>1. /\ \A t \in AuditTenants : trail[t] = <<>> /\ appended[t] = <<>>
      /\ trail \in [AuditTenants -> Seq(TrailRow)] /\ appended = trail
  BY DEF AuditInit
<1>2. ASSUME NEW t \in AuditTenants
      PROVE HashLengths(t) /\ ChainTells(t) /\ \A i \in DOMAIN trail[t] : OwnHash(trail[t][i])
  BY <1>1 DEF HashLengths, ChainTells, LinkedTo, AsAppended
<1> QED BY <1>1, <1>2 DEF AuditInit, TrailInv, TrailTypes, TamperingShows, NoVerdict

LEMMA WhatChecksFind ==
  ASSUME TrailInv, NEW t \in AuditTenants
  PROVE  /\ Verified(trail[t]) <=> LinkedTo(t, Len(trail[t]))
         /\ Intact(t) <=> AsAppended(t, Len(trail[t]))
<1>1. trail[t] \in Seq(TrailRow) /\ appended[t] \in Seq(TrailRow) /\ Len(trail[t]) <= Len(appended[t])
  BY DEF TrailInv, TrailTypes
<1>2. Verified(trail[t]) <=> LinkedTo(t, Len(trail[t]))
  <2>1. ASSUME NEW r \in Seq(TrailRow) PROVE Verified(r) <=> \A i \in 1..Len(r) : Linked(r, i)
    BY DEF Verified, Linked
  <2> QED BY <1>1, <2>1 DEF LinkedTo
<1>3. Intact(t) <=> AsAppended(t, Len(trail[t]))
  <2> DEFINE n == Len(trail[t])
  <2>1. n \in Nat /\ SubSeq(trail[t], 1, n) \in Seq(TrailRow) /\ SubSeq(appended[t], 1, n) \in Seq(TrailRow)
    BY <1>1
  <2>2. /\ Len(SubSeq(trail[t], 1, n)) = n /\ Len(SubSeq(appended[t], 1, n)) = n
        /\ \A i \in 1..n : SubSeq(trail[t], 1, n)[i] = trail[t][i] /\ SubSeq(appended[t], 1, n)[i] = appended[t][i]
    BY <1>1
  <2>3. SubSeq(trail[t], 1, n) = SubSeq(appended[t], 1, n)
          <=> \A i \in 1..n : SubSeq(trail[t], 1, n)[i] = SubSeq(appended[t], 1, n)[i]
    BY <2>1, <2>2, SeqEqual
  <2> QED BY <1>1, <2>2, <2>3 DEF Intact, IsPrefix, AsAppended
<1> QED BY <1>2, <1>3

LEMMA CheckStep ==
  ASSUME TrailInv, NEW t \in AuditTenants, CheckChain(t) \/ BuildEvidencePack(t)
  PROVE  TrailInv'
<1>1. UNCHANGED <<trail, appended, changes>>
  BY DEF CheckChain, BuildEvidencePack
<1>2. \E b : verdict' = [by |-> b, raised |-> ~ Verified(trail[t]), due |-> ~ Intact(t)]
  BY DEF CheckChain, BuildEvidencePack, Checked
<1>3. changes <= 1 => (Verified(trail[t]) <=> Intact(t))
  <2>1. changes <= 1 => (LinkedTo(t, Len(trail[t])) <=> AsAppended(t, Len(trail[t])))
    <3>1. Len(trail[t]) \in 0..Len(trail[t])
      BY DEF TrailInv, TrailTypes
    <3> QED BY <3>1 DEF TrailInv, ChainTells
  <2> QED BY <2>1, WhatChecksFind
<1>4. TamperingShows'
  <2>1. Verified(trail[t]) \in BOOLEAN /\ Intact(t) \in BOOLEAN
    BY DEF Verified, Intact, IsPrefix
  <2>2. changes <= 1 => (~ Verified(trail[t])) = (~ Intact(t))
    BY <1>3, <2>1
  <2> QED BY <1>1, <1>2, <2>2 DEF TamperingShows
<1> QED BY <1>1, <1>4
     DEF TrailInv, TrailTypes, HashLengths, ChainTells, LinkedTo, AsAppended

\* A step that touches one trail and leaves the verdict alone.
LEMMA OneTrail ==
  ASSUME TrailInv, NEW t \in AuditTenants, NEW entries \in Seq(TrailRow), NEW made \in Seq(TrailRow),
         trail' = [trail EXCEPT ![t] = entries], appended' = [appended EXCEPT ![t] = made],
         changes' \in Nat, changes <= changes', verdict' = verdict, Len(entries) <= Len(made),
         changes' <= 1 => HashLengths(t)' /\ ChainTells(t)',
         changes' = 0 => \A i \in DOMAIN entries : OwnHash(entries[i])
  PROVE  TrailInv'
<1>1. /\ trail'[t] = entries /\ appended'[t] = made
      /\ \A u \in AuditTenants \ {t} : trail'[u] = trail[u] /\ appended'[u] = appended[u]
  BY DEF TrailInv, TrailTypes
<1>2. TrailTypes'
  BY <1>1 DEF TrailInv, TrailTypes
<1>3. ASSUME NEW u \in AuditTenants, changes' <= 1 PROVE HashLengths(u)' /\ ChainTells(u)'
  <2>1. CASE u = t
    BY <1>3, <2>1
  <2>2. CASE u # t
    <3>1. trail'[u] = trail[u] /\ appended'[u] = appended[u]
      BY <1>1, <2>2
    <3>2. HashLengths(u) /\ ChainTells(u)
      BY <1>3 DEF TrailInv, TrailTypes
    <3> QED BY <3>1, <3>2 DEF HashLengths, ChainTells, LinkedTo, AsAppended
  <2> QED BY <2>1, <2>2
<1>4. changes' = 0 => \A u \in AuditTenants : \A i \in DOMAIN trail'[u] : OwnHash(trail'[u][i])
  BY <1>1 DEF TrailInv, TrailTypes
<1>5. TamperingShows'
  BY DEF TrailInv, TrailTypes, TamperingShows
<1> QED BY <1>2, <1>3, <1>4, <1>5 DEF TrailInv

LEMMA AppendStep ==
  ASSUME TrailInv, NEW t \in AuditTenants, NEW p \in Payloads, AppendToTrail(t, p)
  PROVE  TrailInv'
<1> DEFINE old == trail[t]
           n == Len(trail[t])
           row == [tenant |-> t, payload |-> p, prev |-> LastHash(t), hash |-> RowHash(LastHash(t), t, p)]
           base == IF Intact(t) THEN trail[t] ELSE appended[t]
<1>1. /\ trail' = [trail EXCEPT ![t] = Append(old, row)]
      /\ appended' = [appended EXCEPT ![t] = Append(base, row)]
      /\ changes' = changes /\ verdict' = verdict
  BY DEF AppendToTrail
<1>2. /\ old \in Seq(TrailRow) /\ appended[t] \in Seq(TrailRow) /\ n \in Nat /\ changes \in Nat
      /\ n <= Len(appended[t]) /\ DOMAIN old = 1..n
  BY DEF TrailInv, TrailTypes
<1>3. LastHash(t) \in Hashes /\ LastHash(t) = IF n = 0 THEN <<>> ELSE old[n].hash
  <2>1. n # 0 => old[n] \in TrailRow
    BY <1>2
  <2> QED BY <1>2, <2>1 DEF LastHash, Genesis, Last, Hashes, TrailRow
<1>4. row \in TrailRow /\ OwnHash(row) /\ Len(row.hash) = Len(LastHash(t)) + 1 /\ Len(LastHash(t)) \in Nat
  <2>1. ASSUME NEW h \in Hashes
        PROVE  RowHash(h, t, p) \in Hashes /\ Len(RowHash(h, t, p)) = Len(h) + 1 /\ Len(h) \in Nat
    BY DEF RowHash, Hashes
  <2> QED BY <1>3, <2>1 DEF TrailRow, OwnHash
<1>5. base \in Seq(TrailRow) /\ n <= Len(base) /\ Len(base) \in Nat
  BY <1>2
<1> DEFINE entries == Append(old, row)
           made == Append(base, row)
<1>6. /\ entries \in Seq(TrailRow) /\ made \in Seq(TrailRow)
      /\ Len(entries) = n + 1 /\ Len(made) = Len(base) + 1
      /\ entries[n + 1] = row /\ made[Len(base) + 1] = row
      /\ \A i \in 1..n : entries[i] = old[i]
      /\ \A i \in 1..Len(base) : made[i] = base[i]
  <2>1. ASSUME NEW s \in Seq(TrailRow), NEW r \in TrailRow
        PROVE  /\ Append(s, r) \in Seq(TrailRow) /\ Len(Append(s, r)) = Len(s) + 1
               /\ Append(s, r)[Len(s) + 1] = r /\ \A i \in 1..Len(s) : Append(s, r)[i] = s[i]
    OBVIOUS
  <2> HIDE DEF row, base
  <2> QED BY <1>2, <1>4, <1>5, <2>1
<1>7. trail'[t] = entries /\ appended'[t] = made
  BY <1>1 DEF TrailInv, TrailTypes
<1> HIDE DEF row, base, entries, made
<1>8. Intact(t) => base = old
  BY DEF base
<1>9. ~ Intact(t) => base = appended[t]
  BY DEF base
<1>10. ASSUME changes <= 1 PROVE HashLengths(t)' /\ ChainTells(t)'
  <2>1. HashLengths(t) /\ ChainTells(t) /\ n \in 0..n
    BY <1>2, <1>10 DEF TrailInv
  <2>2. LinkedTo(t, n) <=> AsAppended(t, n)
    BY <2>1 DEF ChainTells
  <2>3. Intact(t) <=> AsAppended(t, n)
    BY WhatChecksFind
  <2>4. n <= Len(LastHash(t)) /\ Len(LastHash(t)) <= Len(base)
    <3>1. CASE n = 0
      BY <1>3, <1>5, <3>1
    <3>2. CASE n # 0
      <4>1. n \in DOMAIN old /\ LastHash(t) = old[n].hash
        BY <1>2, <1>3, <3>2
      <4>2. n <= Len(old[n].hash) /\ Len(old[n].hash) <= Len(appended[t])
        BY <2>1, <4>1 DEF HashLengths
      <4>3. Intact(t) => Len(old[n].hash) <= n
        <5>1. Intact(t) => old[n] = appended[t][n] /\ n \in DOMAIN appended[t]
          BY <1>2, <2>3, <4>1 DEF AsAppended
        <5> QED BY <2>1, <5>1 DEF HashLengths
      <4> QED BY <4>1, <4>2, <4>3, <1>5, <1>8, <1>9
    <3> QED BY <3>1, <3>2
  <2>5. HashLengths(t)'
    <3>1. ASSUME NEW i \in DOMAIN entries
          PROVE  i <= Len(entries[i].hash) /\ Len(entries[i].hash) <= Len(made)
      <4>1. CASE i = n + 1
        BY <1>4, <1>6, <2>4, <4>1
      <4>2. CASE i # n + 1
        <5>1. i \in 1..n /\ entries[i] = old[i]
          BY <1>2, <1>6, <4>2
        <5>2. /\ i <= Len(old[i].hash) /\ Len(old[i].hash) <= Len(appended[t]) /\ Len(old[i].hash) \in Nat
          <6>1. old[i] \in TrailRow
            BY <1>2, <5>1
          <6> QED BY <1>2, <2>1, <5>1, <6>1 DEF HashLengths, TrailRow, Hashes
        <5>3. Intact(t) => Len(old[i].hash) <= n
          <6>1. Intact(t) => old[i] = appended[t][i] /\ i \in DOMAIN appended[t]
            BY <1>2, <2>3, <5>1 DEF AsAppended
          <6> QED BY <1>2, <2>1, <5>1, <5>2, <6>1 DEF HashLengths
        <5> QED BY <1>2, <1>5, <1>6, <1>8, <1>9, <5>1, <5>2, <5>3
      <4> QED BY <4>1, <4>2
    <3>2. ASSUME NEW j \in DOMAIN made
          PROVE  Len(made[j].hash) <= j /\ OwnHash(made[j])
      <4>1. CASE j = Len(base) + 1
        BY <1>4, <1>5, <1>6, <2>4, <4>1
      <4>2. CASE j # Len(base) + 1
        <5>1. j \in 1..Len(base) /\ made[j] = base[j]
          BY <1>5, <1>6, <4>2
        <5>2. base[j] = appended[t][j] /\ j \in DOMAIN appended[t]
          BY <1>2, <1>8, <1>9, <2>3, <5>1 DEF AsAppended
        <5> QED BY <2>1, <5>1, <5>2 DEF HashLengths
      <4> QED BY <4>1, <4>2
    <3> QED BY <1>7, <3>1, <3>2 DEF HashLengths
  <2>6. ASSUME NEW m \in 0..Len(entries)
        PROVE  LinkedTo(t, m)' <=> AsAppended(t, m)'
    <3>1. \A i \in 1..n : Linked(entries, i) <=> Linked(old, i)
      BY <1>2, <1>6, LinkedAlike
    <3>2. Linked(entries, n + 1)
      <4>1. entries[n + 1].prev = LastHash(t) /\ entries[n + 1].hash = RowHash(LastHash(t), t, p)
            /\ entries[n + 1].tenant = t /\ entries[n + 1].payload = p
        BY <1>6 DEF row
      <4>2. n # 0 => entries[(n + 1) - 1].hash = LastHash(t)
        BY <1>2, <1>3, <1>6
      <4> QED BY <1>2, <1>3, <4>1, <4>2 DEF Linked, Genesis
    <3>3. CASE m <= n
      <4>1. LinkedTo(t, m)' <=> LinkedTo(t, m)
        BY <1>2, <1>7, <3>1, <3>3 DEF LinkedTo
      <4>2. AsAppended(t, m)' <=> AsAppended(t, m)
        <5>1. AsAppended(t, m)' <=> \A i \in 1..m : old[i] = made[i]
          <6>1. AsAppended(t, m)' <=> m <= Len(made) /\ \A i \in 1..m : entries[i] = made[i]
            BY <1>7 DEF AsAppended
          <6>2. m <= Len(made) /\ \A i \in 1..m : entries[i] = old[i]
            BY <1>2, <1>5, <1>6, <3>3
          <6> QED BY <6>1, <6>2
        <5>2. \A i \in 1..m : made[i] = base[i]
          BY <1>2, <1>5, <1>6, <3>3
        <5>3. CASE Intact(t)
          BY <1>2, <1>8, <2>3, <3>3, <5>1, <5>2, <5>3 DEF AsAppended
        <5>4. CASE ~ Intact(t)
          BY <1>2, <1>9, <3>3, <5>1, <5>2, <5>4 DEF AsAppended
        <5> QED BY <5>3, <5>4
      <4> QED BY <1>2, <2>1, <3>3, <4>1, <4>2 DEF ChainTells
    <3>4. CASE m = n + 1
      <4>1. LinkedTo(t, m)' <=> LinkedTo(t, n)
        BY <1>2, <1>7, <3>1, <3>2, <3>4 DEF LinkedTo
      <4>2. Intact(t) => AsAppended(t, m)'
        BY <1>2, <1>6, <1>7, <1>8, <3>4 DEF AsAppended
      <4>3. ~ Intact(t) => ~ AsAppended(t, m)'
        <5> SUFFICES ASSUME ~ Intact(t), AsAppended(t, m)' PROVE FALSE
          OBVIOUS
        <5>1. \A i \in 1..n : entries[i] = made[i]
          BY <1>2, <1>7, <3>4 DEF AsAppended
        <5>2. \A i \in 1..n : old[i] = appended[t][i]
          <6>1. \A i \in 1..n : made[i] = base[i]
            BY <1>2, <1>5, <1>6
          <6>2. \A i \in 1..n : entries[i] = old[i]
            BY <1>6
          <6> QED BY <1>9, <5>1, <6>1, <6>2
        <5> QED BY <1>2, <2>3, <5>2 DEF AsAppended
      <4> QED BY <2>2, <2>3, <4>1, <4>2, <4>3
    <3> QED BY <1>2, <1>6, <3>3, <3>4
  <2> QED BY <1>7, <2>5, <2>6 DEF ChainTells
<1>11. ASSUME changes = 0, NEW i \in DOMAIN entries PROVE OwnHash(entries[i])
  BY <1>2, <1>4, <1>6, <1>11 DEF TrailInv
<1>12. Len(entries) <= Len(made)
  BY <1>2, <1>5, <1>6
<1>13. trail' = [trail EXCEPT ![t] = entries] /\ appended' = [appended EXCEPT ![t] = made]
  BY <1>1 DEF entries, made
<1>14. /\ changes' \in Nat /\ changes <= changes' /\ verdict' = verdict
       /\ changes' <= 1 => HashLengths(t)' /\ ChainTells(t)'
       /\ changes' = 0 => \A i \in DOMAIN entries : OwnHash(entries[i])
  BY <1>1, <1>2, <1>10, <1>11
<1> QED BY <1>6, <1>12, <1>13, <1>14, OneTrail

LEMMA LoseRowStep ==
  ASSUME TrailInv, NEW t \in AuditTenants, NEW i \in DOMAIN trail[t], LoseRow(t, i)
  PROVE  TrailInv'
<1> DEFINE old == trail[t]
           n == Len(trail[t])
           entries == RemoveAt(old, i)
<1>1. /\ trail' = [trail EXCEPT ![t] = entries] /\ UNCHANGED <<appended, changes, verdict>>
  BY DEF LoseRow
<1>2. /\ old \in Seq(TrailRow) /\ appended[t] \in Seq(TrailRow) /\ n \in Nat /\ changes \in Nat
      /\ n <= Len(appended[t]) /\ DOMAIN old = 1..n /\ i \in 1..n
  BY DEF TrailInv, TrailTypes
<1>3. /\ entries \in Seq(TrailRow) /\ Len(entries) = n - 1
      /\ \A k \in 1..n - 1 : entries[k] = IF k < i THEN old[k] ELSE old[k + 1]
  BY <1>2, RowTaken
<1>4. trail'[t] = entries /\ appended'[t] = appended[t]
  BY <1>1 DEF TrailInv, TrailTypes
<1> HIDE DEF entries
<1>5. ASSUME changes <= 1 PROVE HashLengths(t)' /\ ChainTells(t)'
  <2>1. HashLengths(t) /\ ChainTells(t)
    BY <1>5 DEF TrailInv
  <2>2. \A k \in 1..n : Len(old[k].hash) \in Nat /\ k <= Len(old[k].hash) /\ Len(old[k].hash) <= Len(appended[t])
    <3>1. \A k \in 1..n : Len(old[k].hash) \in Nat
      BY <1>2, TrailFacts DEF TrailInv
    <3> QED BY <1>2, <2>1, <3>1 DEF HashLengths
  <2>3. \A k \in 1..n - 1 : k <= Len(entries[k].hash) /\ Len(entries[k].hash) <= Len(appended[t])
    <3> TAKE k \in 1..n - 1
    <3>1. k \in 1..n /\ k + 1 \in 1..n
      BY <1>2
    <3>2. CASE k < i
      BY <1>3, <2>2, <3>1, <3>2
    <3>3. CASE ~ k < i
      <4>1. entries[k] = old[k + 1]
        BY <1>3, <3>3
      <4>2. k + 1 <= Len(entries[k].hash) /\ Len(entries[k].hash) \in Nat /\ Len(entries[k].hash) <= Len(appended[t])
        BY <2>2, <3>1, <4>1
      <4> QED BY <1>2, <4>2
    <3> QED BY <3>2, <3>3
  <2>4. HashLengths(t)'
    BY <1>2, <1>3, <1>4, <2>1, <2>3 DEF HashLengths
  <2>5. ASSUME NEW m \in 0..Len(entries)
        PROVE  LinkedTo(t, m)' <=> AsAppended(t, m)'
    <3>1. CASE m < i
      <4>1. \A k \in 1..m : entries[k] = old[k] /\ (Linked(entries, k) <=> Linked(old, k))
        <5>1. \A k \in 1..m : entries[k] = old[k]
          BY <1>2, <1>3, <3>1
        <5>2. m \in Nat
          BY <1>2, <1>3
        <5> QED BY <5>1, <5>2, LinkedAlike
      <4>2. (LinkedTo(t, m)' <=> LinkedTo(t, m)) /\ (AsAppended(t, m)' <=> AsAppended(t, m))
        BY <1>4, <4>1 DEF LinkedTo, AsAppended
      <4> QED BY <1>2, <1>3, <2>1, <3>1, <4>2 DEF ChainTells
    <3>2. CASE m >= i
      <4>1. i \in 1..m /\ i \in 1..n - 1 /\ entries[i] = old[i + 1] /\ i + 1 \in 1..n /\ Len(entries[i].hash) >= i + 1
        BY <1>2, <1>3, <2>2, <3>2
      <4>2. ~ AsAppended(t, m)'
        <5> SUFFICES ASSUME AsAppended(t, m)' PROVE FALSE
          OBVIOUS
        <5>1. entries[i] = appended[t][i] /\ i \in DOMAIN appended[t]
          BY <1>2, <1>4, <4>1 DEF AsAppended
        <5>2. Len(appended[t][i].hash) <= i
          BY <2>1, <5>1 DEF HashLengths
        <5>3. Len(entries[i].hash) \in Nat
          BY <2>2, <4>1
        <5> QED BY <1>2, <4>1, <5>1, <5>2, <5>3
      <4>3. ~ LinkedTo(t, m)'
        <5> SUFFICES ASSUME LinkedTo(t, m)' PROVE FALSE
          OBVIOUS
        <5>1. \A k \in 1..m : Linked(entries, k)
          BY <1>4 DEF LinkedTo
        <5>2. \A k \in 1..i - 1 : Linked(old, k)
          <6>1. \A k \in 1..i - 1 : k \in 1..m /\ (Linked(entries, k) <=> Linked(old, k))
            <7>1. ASSUME NEW k \in 1..i - 1 PROVE k \in 1..m /\ entries[k] = old[k]
              <8>1. k \in 1..m /\ k \in 1..n - 1 /\ k < i
                BY <1>2, <4>1
              <8> QED BY <1>3, <8>1
            <7>2. i - 1 \in Nat
              BY <1>2
            <7> QED BY <7>1, <7>2, LinkedAlike
          <6> QED BY <5>1, <6>1
        <5>3. AsAppended(t, i - 1)
          <6>1. LinkedTo(t, i - 1) /\ i - 1 \in 0..n
            BY <1>2, <5>2 DEF LinkedTo
          <6> QED BY <2>1, <6>1 DEF ChainTells
        <5> DEFINE before == IF i = 1 THEN Genesis ELSE entries[i - 1].hash
        <5>4. Len(before) <= i - 1 /\ before \in Hashes
          <6>1. CASE i = 1
            BY <6>1 DEF Genesis, Hashes
          <6>2. CASE i # 1
            <7>1. i - 1 \in 1..n /\ i - 1 \in 1..n - 1 /\ entries[i - 1] = old[i - 1]
              BY <1>2, <1>3, <4>1, <6>2
            <7>2. old[i - 1] = appended[t][i - 1] /\ i - 1 \in DOMAIN appended[t]
              BY <1>2, <5>3, <7>1 DEF AsAppended
            <7>3. Len(appended[t][i - 1].hash) <= i - 1
              BY <2>1, <7>2 DEF HashLengths
            <7>4. old[i - 1] \in TrailRow
              BY <1>2, <7>1
            <7> QED BY <6>2, <7>1, <7>2, <7>3, <7>4 DEF TrailRow
          <6> QED BY <6>1, <6>2
        <5>5. entries[i] \in TrailRow
          BY <1>3, <4>1
        <5>6. entries[i].hash = Append(before, <<entries[i].tenant, entries[i].payload>>)
          BY <4>1, <5>1 DEF Linked, RowHash
        <5>7. Len(entries[i].hash) = Len(before) + 1 /\ Len(before) \in Nat
          <6> HIDE DEF before
          <6> QED BY <5>4, <5>5, <5>6 DEF Hashes, TrailRow
        <5> HIDE DEF before
        <5> QED BY <1>2, <4>1, <5>4, <5>7
      <4> QED BY <4>2, <4>3
    <3> QED BY <1>2, <1>3, <3>1, <3>2
  <2> QED BY <1>4, <2>4, <2>5 DEF ChainTells
<1>6. ASSUME changes = 0, NEW k \in DOMAIN entries PROVE OwnHash(entries[k])
  <2>1. \A j \in 1..n : OwnHash(old[j])
    BY <1>2, <1>6 DEF TrailInv
  <2>2. k \in 1..n - 1 /\ k \in 1..n /\ k + 1 \in 1..n
    BY <1>2, <1>3
  <2> QED BY <1>3, <2>1, <2>2
<1>7. appended' = [appended EXCEPT ![t] = appended[t]] /\ Len(entries) <= Len(appended[t])
  BY <1>1, <1>2, <1>3 DEF TrailInv, TrailTypes
<1>8. trail' = [trail EXCEPT ![t] = entries] /\ changes' = changes /\ verdict' = verdict
  BY <1>1 DEF entries
<1>9. /\ changes' \in Nat /\ changes <= changes'
      /\ changes' <= 1 => HashLengths(t)' /\ ChainTells(t)'
      /\ changes' = 0 => \A k \in DOMAIN entries : OwnHash(entries[k])
  BY <1>2, <1>5, <1>6, <1>8
<1> QED BY <1>2, <1>3, <1>7, <1>8, <1>9, OneTrail

\* A row with its own hash that was changed in one field has it no longer.
LEMMA ChangedRow ==
  ASSUME TrailInv, NEW t \in AuditTenants, NEW i \in DOMAIN trail[t],
         NEW row \in ChangesOf(t, i)
  PROVE  /\ row \in TrailRow
         /\ OwnHash(trail[t][i]) =>
              /\ Len(row.hash) = Len(trail[t][i].hash)
              /\ row = trail[t][i] \/ ~ OwnHash(row)
<1> DEFINE old == trail[t][i]
<1>1. old \in TrailRow
  BY DEF TrailInv, TrailTypes
<1> HIDE DEF old
<1>2. /\ old = [tenant |-> old.tenant, payload |-> old.payload, prev |-> old.prev, hash |-> old.hash]
      /\ old.tenant \in AuditTenants /\ old.payload \in Payloads /\ old.prev \in Hashes /\ old.hash \in Hashes
  BY <1>1 DEF TrailRow
<1>3. OwnHash(old) =>
        /\ old.hash = Append(old.prev, <<old.tenant, old.payload>>) /\ Len(old.hash) = Len(old.prev) + 1
        /\ Len(old.prev) \in Nat
  BY <1>2 DEF OwnHash, RowHash, Hashes
<1>4. ASSUME NEW h \in Hashes, NEW g \in Hashes, NEW x \in AuditTenants \X Payloads, NEW y \in AuditTenants \X Payloads,
             Append(h, x) = Append(g, y)
      PROVE  h = g /\ x = y
  <2>1. Append(h, x) \in Hashes /\ Append(g, y) \in Hashes
    BY DEF Hashes
  <2>2. Len(h) = Len(g)
    BY <1>4 DEF Hashes
  <2>3. x = y
    BY <1>4, <2>2 DEF Hashes
  <2>4. \A k \in 1..Len(h) : h[k] = Append(h, x)[k] /\ g[k] = Append(g, y)[k]
    BY <2>2 DEF Hashes
  <2>5. h = g
    BY <1>4, <2>2, <2>4, SeqEqual DEF Hashes
  <2> QED BY <2>3, <2>5
<1>5. CASE \E p \in Payloads : row = [old EXCEPT !.payload = p]
  <2>1. PICK p \in Payloads : row = [old EXCEPT !.payload = p]
    BY <1>5
  <2>2. row = [tenant |-> old.tenant, payload |-> p, prev |-> old.prev, hash |-> old.hash]
    BY <1>2, <2>1
  <2>3. OwnHash(old) /\ OwnHash(row) => p = old.payload
    BY <1>2, <1>3, <1>4, <2>2 DEF OwnHash, RowHash
  <2> QED BY <1>2, <2>2, <2>3 DEF TrailRow, old
<1>6. CASE \E u \in AuditTenants : row = [old EXCEPT !.tenant = u]
  <2>1. PICK u \in AuditTenants : row = [old EXCEPT !.tenant = u]
    BY <1>6
  <2>2. row = [tenant |-> u, payload |-> old.payload, prev |-> old.prev, hash |-> old.hash]
    BY <1>2, <2>1
  <2>3. OwnHash(old) /\ OwnHash(row) => u = old.tenant
    BY <1>2, <1>3, <1>4, <2>2 DEF OwnHash, RowHash
  <2> QED BY <1>2, <2>2, <2>3 DEF TrailRow, old
<1>7. CASE \E u \in AuditTenants, p \in Payloads : row = [old EXCEPT !.hash = Append(old.prev, <<u, p>>)]
  <2>1. PICK u \in AuditTenants, p \in Payloads : row = [old EXCEPT !.hash = Append(old.prev, <<u, p>>)]
    BY <1>7
  <2>2. row = [tenant |-> old.tenant, payload |-> old.payload, prev |-> old.prev,
               hash |-> Append(old.prev, <<u, p>>)]
    BY <1>2, <2>1
  <2>3. /\ Append(old.prev, <<u, p>>) \in Hashes
        /\ OwnHash(old) => Len(Append(old.prev, <<u, p>>)) = Len(old.hash)
    BY <1>2, <1>3 DEF Hashes
  <2>4. OwnHash(old) /\ OwnHash(row) => row.hash = old.hash
    BY <1>2, <1>3, <2>2 DEF OwnHash, RowHash
  <2> QED BY <1>2, <2>2, <2>3, <2>4 DEF TrailRow, old
<1>8. CASE row \in {[old EXCEPT !.prev = old.hash], [old EXCEPT !.prev = Genesis]}
  <2>1. PICK h \in Hashes : row = [tenant |-> old.tenant, payload |-> old.payload, prev |-> h, hash |-> old.hash]
    <3>1. Genesis \in Hashes
      BY DEF Genesis, Hashes
    <3>2. CASE row = [old EXCEPT !.prev = old.hash]
      BY <1>2, <3>2
    <3>3. CASE row = [old EXCEPT !.prev = Genesis]
      BY <1>2, <3>1, <3>3
    <3> QED BY <1>8, <3>2, <3>3
  <2>2. OwnHash(old) /\ OwnHash(row) => h = old.prev
    BY <1>2, <1>3, <1>4, <2>1 DEF OwnHash, RowHash
  <2> QED BY <1>2, <2>1, <2>2 DEF TrailRow, old
<1> QED BY <1>5, <1>6, <1>7, <1>8 DEF ChangesOf, old

\* Nothing that is hashed changes.
LEMMA OverwriteUnhashedStep ==
  ASSUME TrailInv, NEW t \in AuditTenants, NEW i \in DOMAIN trail[t], NEW f \in UnhashedFields,
         OverwriteUnhashed(t, i, f)
  PROVE  TrailInv'
<1>1. UNCHANGED <<trail, appended, changes, verdict>>
  BY DEF OverwriteUnhashed
<1> QED BY <1>1
     DEF TrailInv, TrailTypes, HashLengths, ChainTells, LinkedTo, AsAppended, TamperingShows

LEMMA OverwriteStep ==
  ASSUME TrailInv, NEW t \in AuditTenants, NEW i \in DOMAIN trail[t], NEW row \in ChangesOf(t, i),
         Overwrite(t, i, row)
  PROVE  TrailInv'
<1> DEFINE old == trail[t]
           n == Len(trail[t])
           entries == [old EXCEPT ![i] = row]
<1>1. /\ trail' = [trail EXCEPT ![t] = entries] /\ UNCHANGED <<appended, verdict>> /\ changes' = changes + 1
  BY DEF Overwrite
<1>2. /\ old \in Seq(TrailRow) /\ appended[t] \in Seq(TrailRow) /\ n \in Nat /\ changes \in Nat
      /\ n <= Len(appended[t]) /\ DOMAIN old = 1..n /\ i \in 1..n
  BY DEF TrailInv, TrailTypes
<1>3. row \in TrailRow
  BY ChangedRow
<1>4. /\ entries \in Seq(TrailRow) /\ Len(entries) = n /\ entries[i] = row
      /\ \A k \in 1..n : k # i => entries[k] = old[k]
  BY <1>2, <1>3
<1>5. trail'[t] = entries /\ appended'[t] = appended[t]
  BY <1>1 DEF TrailInv, TrailTypes
<1> HIDE DEF entries
<1>6. ASSUME changes' <= 1 PROVE HashLengths(t)' /\ ChainTells(t)'
  <2>1. changes = 0 /\ OwnHash(old[i]) /\ HashLengths(t) /\ ChainTells(t)
    BY <1>1, <1>2, <1>6 DEF TrailInv
  <2>2. Len(row.hash) = Len(old[i].hash) /\ (row = old[i] \/ ~ OwnHash(row))
    BY <2>1, ChangedRow
  <2>3. HashLengths(t)'
    <3>1. \A k \in 1..n : Len(entries[k].hash) = Len(old[k].hash)
      BY <1>4, <2>2
    <3>2. \A k \in 1..n : k <= Len(entries[k].hash) /\ Len(entries[k].hash) <= Len(appended[t])
      BY <1>2, <2>1, <3>1 DEF HashLengths
    <3>3. DOMAIN entries = 1..n
      BY <1>4
    <3> QED BY <1>5, <2>1, <3>2, <3>3 DEF HashLengths
  <2>4. ASSUME NEW m \in 0..Len(entries)
        PROVE  LinkedTo(t, m)' <=> AsAppended(t, m)'
    <3>1. CASE m < i \/ row = old[i]
      <4>1. \A k \in 1..m : entries[k] = old[k] /\ (Linked(entries, k) <=> Linked(old, k))
        <5>1. \A k \in 1..m : entries[k] = old[k]
          BY <1>2, <1>4, <3>1
        <5>2. m \in Nat
          BY <1>2, <1>4
        <5> QED BY <5>1, <5>2, LinkedAlike
      <4>2. (LinkedTo(t, m)' <=> LinkedTo(t, m)) /\ (AsAppended(t, m)' <=> AsAppended(t, m))
        BY <1>5, <4>1 DEF LinkedTo, AsAppended
      <4> QED BY <1>2, <1>4, <2>1, <4>2 DEF ChainTells
    <3>2. CASE m >= i /\ ~ OwnHash(row)
      <4>1. i \in 1..m
        BY <1>2, <3>2
      <4>2. ~ Linked(entries, i)
        BY <1>4, <3>2 DEF Linked, OwnHash
      <4>3. entries[i] # appended[t][i]
        <5>1. i \in DOMAIN appended[t]
          BY <1>2
        <5> QED BY <1>4, <2>1, <3>2, <5>1 DEF HashLengths
      <4> QED BY <1>5, <4>1, <4>2, <4>3 DEF LinkedTo, AsAppended
    <3> QED BY <1>2, <1>4, <2>2, <3>1, <3>2
  <2> QED BY <1>5, <2>3, <2>4 DEF ChainTells
<1>7. appended' = [appended EXCEPT ![t] = appended[t]] /\ Len(entries) <= Len(appended[t])
  BY <1>1, <1>2, <1>4 DEF TrailInv, TrailTypes
<1>8. changes' \in Nat /\ changes <= changes' /\ changes' # 0
  BY <1>1, <1>2
<1>9. trail' = [trail EXCEPT ![t] = entries] /\ verdict' = verdict
  BY <1>1 DEF entries
<1> QED BY <1>2, <1>4, <1>6, <1>7, <1>8, <1>9, OneTrail

\* The chain holds exactly as far as what is hashed is what was appended, however
\* often entries are lost and the trail grows again, through one change, and
\* through any overwriting of what is not hashed.
THEOREM TrailCorrect == AuditSpec => []TrailInv
<1>1. TrailInv /\ [AuditNext]_auditVars => TrailInv'
  <2> SUFFICES ASSUME TrailInv, [AuditNext]_auditVars PROVE TrailInv'
    OBVIOUS
  <2>1. CASE UNCHANGED auditVars
    BY <2>1 DEF auditVars, TrailInv, TrailTypes, HashLengths, ChainTells, LinkedTo, AsAppended, TamperingShows
  <2> QED BY <2>1, AppendStep, OverwriteStep, OverwriteUnhashedStep, LoseRowStep, CheckStep
       DEF AuditNext
<1> QED BY <1>1, TrailInitial, PTL DEF AuditSpec

\* A check of the chain raises exactly for a trail whose hashed fields are not
\* what was appended, less entries at its end; row_id and created_at do not
\* matter to it.
THEOREM TamperingIsSeen == AuditSpec => []TamperingShows
<1>1. TrailInv => TamperingShows
  BY DEF TrailInv
<1> QED BY <1>1, TrailCorrect, PTL

\* Both monitors, each through whatever happens to the other.
THEOREM MonitorsExact == AuditSpec /\ MonitorSpec => []MonitorsAreExact
<1>1. AuditSpec => []TamperingShows
  BY TamperingIsSeen
<1>2. MonitorSpec => []AlertsAreExact
  BY AlertsExact
<1>3. TamperingShows /\ AlertsAreExact => MonitorsAreExact
  BY DEF MonitorsAreExact
<1> QED BY <1>1, <1>2, <1>3, PTL

-----------------------------------------------------------------------------
(* PII masking: what the loops have not reached stays, what they have holds.  *)

\* In s no character of an entity of E is readable.
Unread(s, E) ==
  \A i \in DOMAIN s : s[i][1] = Raw => \A e \in E : ~ (e.start < s[i][2] /\ s[i][2] <= e.end)

\* As far as b the text is still the original; what the loop of _mask() has
\* done lies behind, in the text as in the original.
UntouchedUpTo(b) ==
  /\ b <= Len(text)
  /\ \A i \in 1..b : text[i] = <<Raw, i>>
  /\ \A i \in b + 1 .. Len(text) : text[i][1] = Raw => text[i][2] > b
  /\ \A e \in todo : e.end <= b
  /\ \A e \in found \ todo :
       /\ b <= e.start
       /\ \E i \in b + 1 .. Len(text) : Occurs(text, i, VaultToken(e))

\* The entities a loop has treated whose tokens the pattern knows.
Treated == {e \in found \ todo : e.type \in Matched}

MaskStage ==
  stage = "mask" =>
    /\ \E b \in 0..TextLength : UntouchedUpTo(b)
    /\ Unread(text, found \ todo)

ProtectStage ==
  stage = "protect" =>
    /\ Unread(text, found)
    /\ \A e \in found : e.type \in Matched =>
         Holds(text, IF e \in todo THEN VaultToken(e) ELSE Sentinel(e))

RestoreStage ==
  /\ stage \in {"restore", "lost"} => Unread(text, found)
  /\ stage = "restore" => \A e \in Treated : Holds(text, VaultToken(e))

ResolveStage ==
  stage = "resolve" =>
    /\ \A e \in todo : e.type \in Matched /\ Holds(text, VaultToken(e))
    /\ \A e \in Treated \cap vault : Holds(text, Slice(Original, e.start, e.end))
    /\ Unread(text, found \ (Treated \cap vault))

\* The vault knows the tokens minted so far, or none any more.
VaultKnows ==
  IF stage = "mask" /\ todo # {} THEN vault = found \ todo ELSE vault \in {{}, found}

Character == (Entity \cup {Raw}) \X Nat

PiiTypeOK ==
  /\ found \in Analyses \cup {{}}
  /\ text \in Seq(Character)
  /\ todo \in SUBSET found /\ vault \in SUBSET found
  /\ stage \in {"received", "mask", "protect", "restore", "lost", "resolve"}

PiiInv ==
  /\ PiiTypeOK
  /\ stage = "received" => text = Original /\ found = {}
  /\ VaultKnows
  /\ Disjoint(found) => MaskStage /\ ProtectStage /\ RestoreStage /\ ResolveStage

-----------------------------------------------------------------------------
\* s[start:end], with end no further than the text.
LEMMA SliceFacts ==
  ASSUME NEW S, NEW s \in Seq(S), NEW a \in Nat, NEW c \in Nat
  PROVE  /\ Slice(s, a, c) \in Seq(S)
         /\ a <= c /\ c <= Len(s) =>
              /\ Len(Slice(s, a, c)) = c - a
              /\ \A k \in 1..c - a : Slice(s, a, c)[k] = s[a + k]
<1> DEFINE z == IF c > Len(s) THEN Len(s) ELSE c
<1>1. Len(s) \in Nat /\ z \in Int /\ z <= Len(s) /\ a + 1 \in 1..a + 1 /\ Slice(s, a, c) = SubSeq(s, a + 1, z)
  BY DEF Slice
<1>2. \A i \in a + 1 .. z : s[i] \in S
  BY <1>1
<1>3. SubSeq(s, a + 1, z) \in Seq(S)
  BY <1>1, <1>2, SubSeqProperties
<1>4. ASSUME a <= c, c <= Len(s)
      PROVE  Len(SubSeq(s, a + 1, z)) = c - a /\ \A k \in 1..c - a : SubSeq(s, a + 1, z)[k] = s[a + k]
  <2>1. z = c
    BY <1>1, <1>4
  <2> QED BY <1>1, <1>4, <2>1, SMT
<1> QED BY <1>1, <1>3, <1>4

\* z is what stands in s from a to c.
IsSlice(z, s, a, c) == Len(z) = c - a /\ \A k \in 1..c - a : z[k] = s[a + k]

LEMMA SliceIs ==
  ASSUME NEW S, NEW s \in Seq(S), NEW a \in Nat, NEW c \in Nat, a <= c, c <= Len(s)
  PROVE  Slice(s, a, c) \in Seq(S) /\ IsSlice(Slice(s, a, c), s, a, c)
BY SliceFacts DEF IsSlice

LEMMA SpliceTyped ==
  ASSUME NEW S, NEW s \in Seq(S), NEW a \in Nat, NEW c \in Nat, NEW new \in Seq(S)
  PROVE  Splice(s, a, c, new) \in Seq(S)
<1>1. /\ Slice(s, 0, a) \in Seq(S) /\ Slice(s, c, Len(s)) \in Seq(S)
  BY SliceFacts, 0 \in Nat, Len(s) \in Nat
<1> QED BY <1>1, ConcatProperties DEF Splice

\* What stands where in r = s[:a] + new + s[c:].
IsSplice(r, s, a, c, new) ==
  /\ Len(r) = Len(s) - (c - a) + Len(new)
  /\ \A i \in 1..a : r[i] = s[i]
  /\ \A k \in 1..Len(new) : r[a + k] = new[k]
  /\ \A i \in c + 1 .. Len(s) : r[i - c + a + Len(new)] = s[i]

LEMMA SpliceFacts ==
  ASSUME NEW S, NEW s \in Seq(S), NEW a \in Nat, NEW c \in Nat, a <= c, c <= Len(s), NEW new \in Seq(S)
  PROVE  Splice(s, a, c, new) \in Seq(S) /\ IsSplice(Splice(s, a, c, new), s, a, c, new)
<1> DEFINE left == Slice(s, 0, a)
           right == Slice(s, c, Len(s))
           r == Splice(s, a, c, new)
<1>0. Len(s) \in Nat /\ Len(new) \in Nat /\ 0 \in Nat /\ 0 <= a /\ a <= Len(s) /\ Len(s) <= Len(s)
  OBVIOUS
<1>1. left \in Seq(S) /\ Len(left) = a /\ \A k \in 1..a : left[k] = s[k]
  <2>1. left \in Seq(S) /\ IsSlice(left, s, 0, a)
    BY <1>0, SliceIs, Zenon
  <2>2. a - 0 = a /\ \A k \in 1..a : 0 + k = k
    OBVIOUS
  <2> HIDE DEF left
  <2> QED BY <2>1, <2>2 DEF IsSlice
<1>2. right \in Seq(S) /\ Len(right) = Len(s) - c /\ \A k \in 1..Len(s) - c : right[k] = s[c + k]
  <2>1. right \in Seq(S) /\ IsSlice(right, s, c, Len(s))
    BY <1>0, SliceIs, Zenon
  <2> HIDE DEF right
  <2> QED BY <2>1 DEF IsSlice
<1>3. r = left \o new \o right
  BY DEF Splice
<1> HIDE DEF left, right, r
<1>4. /\ left \o new \in Seq(S) /\ Len(left \o new) = a + Len(new)
      /\ \A i \in 1..a : (left \o new)[i] = s[i]
      /\ \A k \in 1..Len(new) : (left \o new)[a + k] = new[k]
  <2>1. /\ left \o new \in Seq(S) /\ Len(left \o new) = a + Len(new)
        /\ \A i \in 1..a + Len(new) :
             (left \o new)[i] = IF i <= a THEN left[i] ELSE new[i - a]
    BY <1>1, ConcatProperties
  <2>2. ASSUME NEW i \in 1..a PROVE (left \o new)[i] = s[i]
    <3>1. i \in 1..a + Len(new) /\ i <= a
      BY <1>0
    <3> QED BY <1>1, <2>1, <3>1
  <2>3. ASSUME NEW k \in 1..Len(new) PROVE (left \o new)[a + k] = new[k]
    <3>1. a + k \in 1..a + Len(new) /\ ~ a + k <= a /\ (a + k) - a = k
      BY <1>0
    <3> QED BY <2>1, <3>1
  <2> QED BY <2>1, <2>2, <2>3
<1>5. /\ r \in Seq(S) /\ Len(r) = a + Len(new) + (Len(s) - c)
      /\ \A i \in 1..a + Len(new) : r[i] = (left \o new)[i]
      /\ \A k \in 1..Len(s) - c : r[a + Len(new) + k] = s[c + k]
  <2> DEFINE front == left \o new
             n == a + Len(new)
             m == Len(s) - c
  <2>1. front \in Seq(S) /\ Len(front) = n /\ r = front \o right /\ right \in Seq(S) /\ Len(right) = m
    BY <1>2, <1>3, <1>4
  <2>2. n \in Nat /\ m \in Nat
    BY <1>0
  <2> HIDE DEF front, n
  <2>6. /\ front \o right \in Seq(S) /\ Len(front \o right) = Len(front) + Len(right)
        /\ \A i \in 1..Len(front) + Len(right) :
             (front \o right)[i] = IF i <= Len(front) THEN front[i] ELSE right[i - Len(front)]
    BY <2>1, ConcatProperties
  <2> HIDE DEF m
  <2>3. /\ r \in Seq(S) /\ Len(r) = n + m
        /\ \A i \in 1..n + m : r[i] = IF i <= n THEN front[i] ELSE right[i - n]
    BY <2>1, <2>6
  <2>4. ASSUME NEW i \in 1..n PROVE r[i] = front[i]
    <3>1. i \in 1..n + m /\ i <= n
      BY <2>2
    <3> QED BY <2>3, <3>1
  <2>5. ASSUME NEW k \in 1..Len(s) - c PROVE r[n + k] = s[c + k]
    <3>1. n + k \in 1..n + m /\ ~ n + k <= n /\ (n + k) - n = k
      BY <2>2 DEF m
    <3> QED BY <1>2, <2>3, <3>1
  <2> QED BY <2>3, <2>4, <2>5 DEF front, n, m
<1>6. \A i \in c + 1 .. Len(s) : r[i - c + a + Len(new)] = s[i]
  <2> TAKE i \in c + 1 .. Len(s)
  <2>1. i - c \in 1..Len(s) - c /\ c + (i - c) = i /\ a + Len(new) + (i - c) = i - c + a + Len(new)
    BY <1>0
  <2> QED BY <1>5, <2>1
<1>7. \A k \in 1..Len(new) : r[a + k] = new[k]
  <2> TAKE k \in 1..Len(new)
  <2>1. a + k \in 1..a + Len(new)
    BY <1>0
  <2> QED BY <1>4, <1>5, <2>1
<1>8. \A i \in 1..a : r[i] = s[i]
  <2> TAKE i \in 1..a
  <2>1. i \in 1..a + Len(new)
    BY <1>0
  <2> QED BY <1>4, <1>5, <2>1
<1>9. Len(r) = Len(s) - (c - a) + Len(new)
  BY <1>0, <1>5
<1>10. IsSplice(r, s, a, c, new)
  BY <1>6, <1>7, <1>8, <1>9 DEF IsSplice
<1> QED BY <1>5, <1>10 DEF r

Among(x, s, first, last) == \E i \in first..last : x = s[i]

\* Every character comes from `new` or from outside the part replaced, in order.
LEMMA SpliceOrigin ==
  ASSUME NEW S, NEW s \in Seq(S), NEW a \in Nat, NEW c \in Nat, a <= c, c <= Len(s), NEW new \in Seq(S),
         NEW j \in 1..Len(Splice(s, a, c, new))
  PROVE  \/ j <= a /\ Among(Splice(s, a, c, new)[j], s, 1, a)
         \/ j > a /\ Among(Splice(s, a, c, new)[j], new, 1, Len(new))
         \/ j > a /\ Among(Splice(s, a, c, new)[j], s, c + 1, Len(s))
<1> DEFINE r == Splice(s, a, c, new)
<1>1. /\ Len(r) = Len(s) - (c - a) + Len(new)
      /\ \A i \in 1..a : r[i] = s[i]
      /\ \A k \in 1..Len(new) : r[a + k] = new[k]
      /\ \A i \in c + 1 .. Len(s) : r[i - c + a + Len(new)] = s[i]
  <2>1. IsSplice(r, s, a, c, new)
    BY SpliceFacts, Zenon
  <2> QED BY <2>1 DEF IsSplice
<1>2. Len(s) \in Nat /\ Len(new) \in Nat
  OBVIOUS
<1> HIDE DEF r
<1>3. j \in 1..Len(r)
  BY DEF r
<1>4. CASE j <= a
  <2>1. j \in 1..a
    BY <1>2, <1>3, <1>4
  <2>2. Among(r[j], s, 1, a)
    BY <1>1, <2>1 DEF Among
  <2> QED BY <1>4, <2>2 DEF r
<1>5. CASE j > a /\ j <= a + Len(new)
  <2>1. j - a \in 1..Len(new) /\ a + (j - a) = j
    BY <1>1, <1>2, <1>3, <1>5
  <2> QED BY <1>1, <1>5, <2>1 DEF Among, r
<1>6. CASE j > a + Len(new)
  <2>1. /\ j - a - Len(new) + c \in c + 1 .. Len(s)
        /\ (j - a - Len(new) + c) - c + a + Len(new) = j /\ j > a
    BY <1>1, <1>2, <1>3, <1>6
  <2> QED BY <1>1, <2>1 DEF Among, r
<1>7. j \in Int /\ (j <= a \/ (j > a /\ j <= a + Len(new)) \/ j > a + Len(new))
  BY <1>2, <1>3
<1> QED BY <1>4, <1>5, <1>6, <1>7

\* What stands clear of the part replaced still stands.
LEMMA SpliceKeeps ==
  ASSUME NEW S, NEW s \in Seq(S), NEW a \in Nat, NEW c \in Nat, a <= c, c <= Len(s), NEW new \in Seq(S),
         NEW sub \in Seq(S), NEW i \in 1..Len(s), Occurs(s, i, sub)
  PROVE  /\ i > c => \E j \in a + 1 .. Len(Splice(s, a, c, new)) : Occurs(Splice(s, a, c, new), j, sub)
         /\ i + Len(sub) <= a + 1 /\ Len(sub) > 0 =>
              \E j \in 1..Len(Splice(s, a, c, new)) : Occurs(Splice(s, a, c, new), j, sub)
<1> DEFINE r == Splice(s, a, c, new)
<1>1. /\ Len(r) = Len(s) - (c - a) + Len(new)
      /\ \A h \in 1..a : r[h] = s[h]
      /\ \A h \in c + 1 .. Len(s) : r[h - c + a + Len(new)] = s[h]
  <2>1. IsSplice(r, s, a, c, new)
    BY SpliceFacts, Zenon
  <2> QED BY <2>1 DEF IsSplice
<1>2. Len(s) \in Nat /\ Len(new) \in Nat /\ Len(sub) \in Nat /\ DOMAIN sub = 1..Len(sub)
  OBVIOUS
<1>3. i + Len(sub) <= Len(s) + 1 /\ \A k \in 1..Len(sub) : s[i + k - 1] = sub[k]
  BY <1>2 DEF Occurs
<1> HIDE DEF r
<1>4. ASSUME i > c
      PROVE  \E j \in a + 1 .. Len(r) : Occurs(r, j, sub)
  <2> DEFINE j == i - c + a + Len(new)
  <2>1. j \in a + 1 .. Len(r) /\ j + Len(sub) <= Len(r) + 1
    BY <1>1, <1>2, <1>3, <1>4
  <2>2. \A k \in 1..Len(sub) : r[j + k - 1] = sub[k]
    <3> TAKE k \in 1..Len(sub)
    <3>1. i + k - 1 \in c + 1 .. Len(s) /\ (i + k - 1) - c + a + Len(new) = j + k - 1
      BY <1>2, <1>3, <1>4
    <3> QED BY <1>1, <1>3, <3>1
  <2> QED BY <1>2, <2>1, <2>2 DEF Occurs
<1>5. ASSUME i + Len(sub) <= a + 1, Len(sub) > 0
      PROVE  \E j \in 1..Len(r) : Occurs(r, j, sub)
  <2>1. i \in 1..Len(r) /\ i + Len(sub) <= Len(r) + 1
    BY <1>1, <1>2, <1>3, <1>5
  <2>2. \A k \in 1..Len(sub) : r[i + k - 1] = sub[k]
    <3> TAKE k \in 1..Len(sub)
    <3>1. i + k - 1 \in 1..a
      BY <1>2, <1>3, <1>5
    <3> QED BY <1>1, <1>3, <3>1
  <2> QED BY <1>2, <2>1, <2>2 DEF Occurs
<1> QED BY <1>4, <1>5 DEF r

\* What was put in stands there.
LEMMA SpliceHolds ==
  ASSUME NEW S, NEW s \in Seq(S), NEW a \in Nat, NEW c \in Nat, a <= c, c <= Len(s), NEW new \in Seq(S),
         Len(new) > 0
  PROVE  \E j \in a + 1 .. Len(Splice(s, a, c, new)) : Occurs(Splice(s, a, c, new), j, new)
<1> DEFINE r == Splice(s, a, c, new)
<1>1. /\ Len(r) = Len(s) - (c - a) + Len(new)
      /\ \A k \in 1..Len(new) : r[a + k] = new[k]
  <2>1. IsSplice(r, s, a, c, new)
    BY SpliceFacts, Zenon
  <2> QED BY <2>1 DEF IsSplice
<1>2. Len(s) \in Nat /\ Len(new) \in Nat /\ DOMAIN new = 1..Len(new)
  OBVIOUS
<1> HIDE DEF r
<1>3. a + 1 \in a + 1 .. Len(r) /\ a + 1 + Len(new) <= Len(r) + 1
  BY <1>1, <1>2
<1>4. \A k \in 1..Len(new) : r[a + 1 + k - 1] = new[k]
  <2> TAKE k \in 1..Len(new)
  <2>1. a + 1 + k - 1 = a + k
    BY <1>2
  <2> QED BY <1>1, <2>1
<1> QED BY <1>2, <1>3, <1>4 DEF Occurs, r

\* One of two runs that share no character is replaced: the other stays, what
\* replaces it is there, and every character is new or was there before.
IsReplaced(r, s, sub, new, S) ==
  /\ Holds(r, new)
  /\ \A j \in DOMAIN r :
       \/ \E k \in DOMAIN new : r[j] = new[k]
       \/ \E i \in DOMAIN s : r[j] = s[i]
  /\ \A other \in Seq(S) :
       /\ Len(other) > 0 /\ Holds(s, other)
       /\ \A k \in DOMAIN sub, m \in DOMAIN other : sub[k] # other[m]
       => Holds(r, other)

LEMMA ReplacedFacts ==
  ASSUME NEW S, NEW s \in Seq(S), NEW sub \in Seq(S), NEW new \in Seq(S), Len(sub) > 0, Len(new) > 0,
         Holds(s, sub)
  PROVE  Replaced(s, sub, new) \in Seq(S) /\ IsReplaced(Replaced(s, sub, new), s, sub, new, S)
<1> DEFINE p == CHOOSE i \in DOMAIN s : Occurs(s, i, sub)
           c == p - 1 + Len(sub)
           r == Splice(s, p - 1, c, new)
<1>1. Replaced(s, sub, new) = r
  BY DEF Replaced
<1>2. p \in DOMAIN s /\ Occurs(s, p, sub)
  BY DEF Holds
<1> HIDE DEF p
<1>3. /\ DOMAIN s = 1..Len(s) /\ DOMAIN sub = 1..Len(sub) /\ DOMAIN new = 1..Len(new)
      /\ Len(s) \in Nat /\ Len(sub) \in Nat /\ Len(new) \in Nat
  OBVIOUS
<1>4. p + Len(sub) <= Len(s) + 1 /\ \A k \in 1..Len(sub) : s[p + k - 1] = sub[k]
  BY <1>2, <1>3 DEF Occurs
<1>5. p \in Nat /\ p - 1 \in Nat /\ c \in Nat /\ p - 1 <= c /\ c <= Len(s) /\ (p - 1) + 1 = p
  BY <1>2, <1>3, <1>4
<1> DEFINE a == p - 1
<1>6. a \in Nat /\ c \in Nat /\ a <= c /\ c <= Len(s) /\ r = Splice(s, a, c, new)
  BY <1>5
<1>7. a + 1 = p /\ c = a + Len(sub)
  BY <1>3, <1>5
<1> HIDE DEF a, c, r
<1>8. r \in Seq(S)
  BY <1>6, SpliceFacts, Zenon
<1>9. DOMAIN r = 1..Len(r) /\ Len(r) \in Nat
  BY <1>8
<1>10. Holds(r, new)
  <2>1. PICK j \in a + 1 .. Len(r) : Occurs(r, j, new)
    BY <1>6, SpliceHolds
  <2>2. j \in DOMAIN r
    BY <1>6, <1>9, <2>1
  <2> QED BY <2>1, <2>2 DEF Holds
<1>11. ASSUME NEW j \in DOMAIN r
       PROVE  \/ \E k \in DOMAIN new : r[j] = new[k]
              \/ \E i \in DOMAIN s : r[j] = s[i]
  <2>1. j \in 1..Len(Splice(s, a, c, new))
    BY <1>6, <1>9, <1>11
  <2>2. \/ Among(Splice(s, a, c, new)[j], s, 1, a)
        \/ Among(Splice(s, a, c, new)[j], new, 1, Len(new))
        \/ Among(Splice(s, a, c, new)[j], s, c + 1, Len(s))
    BY <1>6, <2>1, SpliceOrigin
  <2>3. c + 1 .. Len(s) \subseteq 1..Len(s) /\ 1..a \subseteq 1..Len(s)
    BY <1>3, <1>6
  <2> QED BY <1>3, <1>6, <2>2, <2>3 DEF Among
<1>12. ASSUME NEW other \in Seq(S), Len(other) > 0, Holds(s, other),
              \A k \in DOMAIN sub, m \in DOMAIN other : sub[k] # other[m]
       PROVE  Holds(r, other)
  <2>1. PICK q \in DOMAIN s : Occurs(s, q, other)
    BY <1>12 DEF Holds
  <2>2. Len(other) \in Nat /\ DOMAIN other = 1..Len(other)
    OBVIOUS
  <2>3. q \in 1..Len(s) /\ \A m \in 1..Len(other) : s[q + m - 1] = other[m]
    BY <1>3, <2>1, <2>2 DEF Occurs
  <2>4. q + Len(other) <= p \/ q > c
    <3> SUFFICES ASSUME q + Len(other) > p, q <= c
                 PROVE  FALSE
      BY <1>3, <1>5, <2>2, <2>3
    <3>0. p \in Nat /\ q \in Nat /\ p < q + Len(other) /\ q < p + Len(sub)
      BY <1>3, <1>5, <1>6, <1>7, <2>2, <2>3
    <3>3. PICK x \in Nat : p <= x /\ q <= x /\ x < p + Len(sub) /\ x < q + Len(other)
      <4>1. CASE p <= q
        <5>1. q \in Nat /\ p <= q /\ q <= q /\ q < p + Len(sub) /\ q < q + Len(other)
          BY <1>12, <2>2, <3>0, <4>1
        <5> QED BY <5>1
      <4>2. CASE q < p
        <5>1. p \in Nat /\ p <= p /\ q <= p /\ p < p + Len(sub) /\ p < q + Len(other)
          BY <1>3, <3>0, <4>2
        <5> QED BY <5>1
      <4> QED BY <3>0, <4>1, <4>2
    <3>1. /\ x - p + 1 \in 1..Len(sub) /\ x - q + 1 \in 1..Len(other)
          /\ p + (x - p + 1) - 1 = x /\ q + (x - q + 1) - 1 = x
      BY <1>3, <2>2, <3>0, <3>3
    <3>2. s[x] = sub[x - p + 1] /\ s[x] = other[x - q + 1]
      BY <1>4, <2>3, <3>1
    <3> QED BY <1>3, <1>12, <2>2, <3>1, <3>2
  <2>5. CASE q > c
    <3>1. PICK j \in a + 1 .. Len(r) : Occurs(r, j, other)
      BY <1>6, <2>1, <2>3, <2>5, SpliceKeeps
    <3>2. j \in DOMAIN r
      BY <1>6, <1>9, <3>1
    <3> QED BY <3>1, <3>2 DEF Holds
  <2>6. CASE q + Len(other) <= p
    <3>1. q + Len(other) <= a + 1
      BY <1>7, <2>6
    <3>2. \E j \in 1..Len(r) : Occurs(r, j, other)
      BY <1>6, <1>12, <2>1, <2>3, <3>1, SpliceKeeps
    <3> QED BY <1>9, <3>2 DEF Holds
  <2> QED BY <2>4, <2>5, <2>6
<1>13. IsReplaced(r, s, sub, new, S)
  BY <1>10, <1>11, <1>12 DEF IsReplaced
<1> QED BY <1>1, <1>8, <1>13

-----------------------------------------------------------------------------
\* An entity that was found, its token and its sentinel.
LEMMA EntityFacts ==
  ASSUME PiiTypeOK, NEW e \in found
  PROVE  /\ e \in Entity /\ e # Raw
         /\ e.start \in Nat /\ e.end \in Nat /\ e.start < e.end /\ e.end <= TextLength
         /\ VaultToken(e) \in Seq(Character) /\ Len(VaultToken(e)) = TokenWidth /\ TokenWidth \in Nat \ {0}
         /\ \A j \in 1..TokenWidth : VaultToken(e)[j] = <<e, j>>
         /\ Sentinel(e) \in Seq(Character) /\ Len(Sentinel(e)) = 1 /\ Sentinel(e)[1] = <<e, 0>>
<1>1. TokenWidth \in Nat \ {0} /\ TextLength \in Nat
  BY PiiAssumption
<1>2. e \in Entity /\ e.start < e.end
  BY PiiAssumption DEF PiiTypeOK
<1>3. e.start \in Nat /\ e.end \in Nat /\ e.end <= TextLength
  BY <1>1, <1>2 DEF Entity
<1>4. e # Raw
  <2>1. Raw.start = 0 /\ Raw.end = 0
    BY DEF Raw
  <2> QED BY <1>2, <2>1
<1>5. /\ VaultToken(e) \in Seq(Character) /\ Len(VaultToken(e)) = TokenWidth
      /\ \A j \in 1..TokenWidth : VaultToken(e)[j] = <<e, j>>
  <2>1. \A j \in 1..TokenWidth : <<e, j>> \in Character
    BY <1>1, <1>2 DEF Character
  <2> QED BY <1>1, <2>1, SMT DEF VaultToken
<1>6. Sentinel(e) \in Seq(Character) /\ Len(Sentinel(e)) = 1 /\ Sentinel(e)[1] = <<e, 0>>
  BY <1>2 DEF Sentinel, Character
<1> QED BY <1>1, <1>2, <1>3, <1>4, <1>5, <1>6

\* Tokens and sentinels of two entities share no character.
LEMMA TokensApart ==
  ASSUME PiiTypeOK, NEW e \in found, NEW f \in found
  PROVE  /\ \A k \in DOMAIN VaultToken(e), m \in DOMAIN Sentinel(f) : VaultToken(e)[k] # Sentinel(f)[m]
         /\ \A k \in DOMAIN Sentinel(f), m \in DOMAIN VaultToken(e) : Sentinel(f)[k] # VaultToken(e)[m]
         /\ e # f =>
              /\ \A k \in DOMAIN VaultToken(e), m \in DOMAIN VaultToken(f) : VaultToken(e)[k] # VaultToken(f)[m]
              /\ \A k \in DOMAIN Sentinel(e), m \in DOMAIN Sentinel(f) : Sentinel(e)[k] # Sentinel(f)[m]
<1>1. /\ DOMAIN VaultToken(e) = 1..TokenWidth /\ \A j \in 1..TokenWidth : VaultToken(e)[j] = <<e, j>>
      /\ DOMAIN Sentinel(e) = {1} /\ Sentinel(e)[1] = <<e, 0>>
  BY DEF VaultToken, Sentinel
<1>2. /\ DOMAIN VaultToken(f) = 1..TokenWidth /\ \A j \in 1..TokenWidth : VaultToken(f)[j] = <<f, j>>
      /\ DOMAIN Sentinel(f) = {1} /\ Sentinel(f)[1] = <<f, 0>>
  BY DEF VaultToken, Sentinel
<1>3. \A j \in 1..TokenWidth : <<e, j>> # <<f, 0>>
  OBVIOUS
<1> QED BY <1>1, <1>2, <1>3

\* What an entity stands for, character by character.
LEMMA OriginalFacts ==
  /\ Original \in Seq(Character) /\ Len(Original) = TextLength /\ TextLength \in Nat
  /\ \A n \in 1..TextLength : Original[n] = <<Raw, n>>
<1>1. TextLength \in Nat
  BY PiiAssumption
<1>2. \A n \in 1..TextLength : <<Raw, n>> \in Character
  BY <1>1 DEF Character
<1> QED BY <1>1, <1>2, SMT DEF Original

LEMMA SpanFacts ==
  ASSUME PiiTypeOK, NEW e \in found
  PROVE  /\ Slice(Original, e.start, e.end) \in Seq(Character)
         /\ Len(Slice(Original, e.start, e.end)) = e.end - e.start
         /\ \A k \in 1..e.end - e.start : Slice(Original, e.start, e.end)[k] = <<Raw, e.start + k>>
<1>1. e.start \in Nat /\ e.end \in Nat /\ e.start < e.end /\ e.end <= TextLength
  BY EntityFacts
<1> DEFINE a == e.start
           c == e.end
<1>2. a \in Nat /\ c \in Nat /\ a <= c /\ c <= Len(Original) /\ Original \in Seq(Character)
  BY <1>1, OriginalFacts
<1> HIDE DEF a, c
<1>3. /\ Slice(Original, a, c) \in Seq(Character) /\ Len(Slice(Original, a, c)) = c - a
      /\ \A k \in 1..c - a : Slice(Original, a, c)[k] = Original[a + k]
  BY <1>2, SliceFacts
<1>4. \A k \in 1..c - a : a + k \in 1..TextLength
  BY <1>2, OriginalFacts
<1>5. \A k \in 1..c - a : Slice(Original, a, c)[k] = <<Raw, a + k>>
  BY <1>3, <1>4, OriginalFacts
<1> QED BY <1>3, <1>5 DEF a, c

\* Characters that are not raw, or were there before, leave the text unread.
LEMMA StaysUnread ==
  ASSUME NEW s, NEW r, NEW E, Unread(s, E),
         \A j \in DOMAIN r : r[j][1] # Raw \/ \E i \in DOMAIN s : r[j] = s[i]
  PROVE  Unread(r, E)
  BY DEF Unread

LEMMA UnreadFewer ==
  ASSUME NEW s, NEW E, NEW F, F \subseteq E, Unread(s, E)
  PROVE  Unread(s, F)
  BY DEF Unread

-----------------------------------------------------------------------------
LEMMA PiiInitial == PiiInit => PiiInv
<1> SUFFICES ASSUME PiiInit PROVE PiiInv
  OBVIOUS
<1>1. PiiTypeOK
  BY OriginalFacts DEF PiiInit, PiiTypeOK
<1> QED
  BY <1>1 DEF PiiInit, PiiInv, VaultKnows, MaskStage, ProtectStage, RestoreStage, ResolveStage

\* After the loop of _mask() every token is there and nothing is readable.
LEMMA AllMasked ==
  ASSUME PiiInv, Disjoint(found), stage = "mask", todo = {}
  PROVE  Unread(text, found) /\ \A e \in found : Holds(text, VaultToken(e))
<1>1. MaskStage /\ text \in Seq(Character) /\ found \ todo = found
  BY DEF PiiInv, PiiTypeOK
<1>2. PICK b \in 0..TextLength : UntouchedUpTo(b)
  BY <1>1 DEF MaskStage
<1>3. TextLength \in Nat /\ Len(text) \in Nat /\ DOMAIN text = 1..Len(text)
  BY <1>1, OriginalFacts
<1>4. ASSUME NEW e \in found PROVE Holds(text, VaultToken(e))
  <2>1. PICK i \in b + 1 .. Len(text) : Occurs(text, i, VaultToken(e))
    BY <1>1, <1>2 DEF UntouchedUpTo
  <2>2. i \in DOMAIN text
    BY <1>2, <1>3
  <2> QED BY <2>1, <2>2 DEF Holds
<1> QED BY <1>1, <1>4 DEF MaskStage

LEMMA MaskStep == ASSUME PiiInv, NEW E \in Analyses, Mask(E) PROVE PiiInv'
<1>1. /\ PiiTypeOK /\ stage = "received" /\ text = Original /\ found = {} /\ vault \in SUBSET found
      /\ found' = E /\ todo' = E /\ stage' = "mask" /\ text' = text /\ vault' = vault
  BY DEF PiiInv, PiiTypeOK, Mask
<1>2. vault' = {} /\ found' \ todo' = {}
  BY <1>1
<1>3. PiiTypeOK'
  BY <1>1, <1>2 DEF PiiTypeOK
<1>4. VaultKnows'
  BY <1>1, <1>2 DEF VaultKnows
<1>5. MaskStage'
  <2>1. text' = Original /\ Len(Original) = TextLength /\ TextLength \in Nat
    BY <1>1, OriginalFacts
  <2>2. \A e \in E : e.end <= TextLength
    <3> TAKE e \in E
    <3>1. e \in Entity
      BY PiiAssumption
    <3> QED BY <2>1, <3>1 DEF Entity
  <2>3. \A i \in 1..TextLength : text'[i] = <<Raw, i>>
    BY <2>1, OriginalFacts
  <2>4. UntouchedUpTo(TextLength)'
    BY <1>1, <1>2, <2>1, <2>2, <2>3 DEF UntouchedUpTo
  <2>5. TextLength \in 0..TextLength
    BY <2>1
  <2>6. Unread(text', found' \ todo')
    BY <1>2 DEF Unread
  <2> QED BY <2>4, <2>5, <2>6 DEF MaskStage
<1> QED
  BY <1>1, <1>3, <1>4, <1>5 DEF PiiInv, ProtectStage, RestoreStage, ResolveStage

\* The first of the entities left is replaced; what is left lies before it.
LEMMA FirstIsLast ==
  ASSUME PiiTypeOK, Disjoint(found), NEW e \in todo, \A f \in todo \ {e} : Precedes(e, f)
  PROVE  \A f \in todo \ {e} : f.end <= e.start
<1> TAKE f \in todo \ {e}
<1>1. e \in found /\ f \in found /\ e # f
  BY DEF PiiTypeOK
<1>2. /\ e.start \in Nat /\ e.end \in Nat /\ e.start < e.end
      /\ f.start \in Nat /\ f.end \in Nat /\ f.start < f.end
  BY <1>1, EntityFacts
<1>3. f.start <= e.start
  <2>1. e.start > f.start \/ e.start = f.start
    BY DEF Precedes
  <2> QED BY <1>2, <2>1
<1>4. ~ (e.start < f.end /\ f.start < e.end)
  BY <1>1 DEF Disjoint, Overlap
<1> QED BY <1>2, <1>3, <1>4

LEMMA MaskNextStage ==
  ASSUME PiiInv, Disjoint(found), NEW e \in todo, MaskNext(e)
  PROVE  MaskStage'
<1> DEFINE a == e.start
           c == e.end
           new == VaultToken(e)
           r == text'
<1>1. /\ PiiTypeOK /\ MaskStage /\ stage = "mask" /\ e \in found /\ text \in Seq(Character)
      /\ r = Splice(text, a, c, new) /\ todo' = todo \ {e} /\ found' = found
  BY DEF PiiInv, PiiTypeOK, MaskNext
<1>2. PICK b \in 0..TextLength : UntouchedUpTo(b)
  BY <1>1 DEF MaskStage
<1>3. Unread(text, found \ todo)
  BY <1>1 DEF MaskStage
<1>4. /\ e # Raw /\ a \in Nat /\ c \in Nat /\ a < c /\ new \in Seq(Character)
      /\ Len(new) = TokenWidth /\ TokenWidth \in Nat \ {0} /\ \A j \in 1..TokenWidth : new[j] = <<e, j>>
  BY <1>1, EntityFacts
<1>5. /\ b <= Len(text) /\ c <= b
      /\ \A i \in 1..b : text[i] = <<Raw, i>>
      /\ \A i \in b + 1 .. Len(text) : text[i][1] = Raw => text[i][2] > b
      /\ \A f \in found \ todo : b <= f.start /\ \E i \in b + 1 .. Len(text) : Occurs(text, i, VaultToken(f))
  BY <1>2 DEF UntouchedUpTo
<1>6. \A f \in todo \ {e} : f.end <= a
  BY <1>1, FirstIsLast DEF MaskNext
<1>7. \A f \in found : f.start \in Nat /\ f.end \in Nat /\ VaultToken(f) \in Seq(Character)
  BY <1>1, EntityFacts
<1>8. b \in Nat /\ Len(text) \in Nat /\ DOMAIN text = 1..Len(text) /\ TextLength \in Nat /\ b <= TextLength
  BY <1>1, <1>2, OriginalFacts
<1>9. found' \ todo' = (found \ todo) \cup {e}
  BY <1>1
<1> HIDE DEF a, c, new, r
<1>10. a <= c /\ c <= Len(text)
  BY <1>4, <1>5, <1>8
<1>11. /\ Len(r) = Len(text) - (c - a) + Len(new)
       /\ \A i \in 1..a : r[i] = text[i]
  <2>1. IsSplice(r, text, a, c, new)
    BY <1>1, <1>4, <1>10, SpliceFacts, Zenon
  <2> QED BY <2>1 DEF IsSplice
<1>12. r \in Seq(Character) /\ DOMAIN r = 1..Len(r) /\ Len(r) \in Nat
  <2>1. r \in Seq(Character)
    BY <1>1, <1>4, <1>10, SpliceFacts, Zenon
  <2> QED BY <2>1
<1>13. a <= Len(r) /\ a \in 0..TextLength
  BY <1>4, <1>5, <1>8, <1>11
\* A raw character beyond a is one the text had beyond c.
<1>14. ASSUME NEW j \in 1..Len(r), r[j][1] = Raw
       PROVE  \/ j <= a /\ r[j][2] = j
              \/ j > a /\ r[j][2] > c /\ (r[j][2] <= b \/ \E i \in DOMAIN text : r[j] = text[i])
  <2>1. j \in 1..Len(Splice(text, a, c, new))
    BY <1>1
  <2>2. \/ j <= a /\ Among(r[j], text, 1, a)
        \/ j > a /\ Among(r[j], new, 1, Len(new))
        \/ j > a /\ Among(r[j], text, c + 1, Len(text))
    BY <1>1, <1>4, <1>10, <2>1, SpliceOrigin
  <2>3. CASE j <= a
    <3>1. j \in 1..a /\ j \in 1..b
      BY <1>4, <1>5, <1>8, <2>3
    <3>2. r[j] = <<Raw, j>>
      BY <1>5, <1>11, <3>1
    <3> QED BY <2>3, <3>2
  <2>4. ~ Among(r[j], new, 1, Len(new))
    BY <1>4, <1>14 DEF Among
  <2>5. CASE j > a /\ Among(r[j], text, c + 1, Len(text))
    <3>1. PICK i \in c + 1 .. Len(text) : r[j] = text[i]
      BY <2>5 DEF Among
    <3>2. CASE i <= b
      <4>1. i \in 1..b
        BY <1>4, <1>8, <3>2
      <4>2. r[j][2] = i
        BY <1>5, <3>1, <4>1
      <4> QED BY <1>4, <1>8, <2>5, <3>2, <4>2
    <3>3. CASE i > b
      <4>1. i \in b + 1 .. Len(text) /\ i \in DOMAIN text
        BY <1>4, <1>8, <3>3
      <4>2. r[j][2] > b /\ r[j][2] \in Nat
        <5>1. text[i] \in Character /\ text[i][2] > b
          BY <1>1, <1>5, <1>14, <3>1, <4>1
        <5> QED BY <3>1, <5>1 DEF Character
      <4>3. r[j][2] > c
        BY <1>4, <1>5, <1>8, <4>2
      <4> QED BY <2>5, <3>1, <4>1, <4>3
    <3> QED BY <1>4, <1>8, <3>2, <3>3
  <2> QED BY <2>2, <2>3, <2>4, <2>5
<1>15. ASSUME NEW f \in found \ todo
       PROVE  \E i \in a + 1 .. Len(r) : Occurs(r, i, VaultToken(f))
  <2>1. PICK i \in b + 1 .. Len(text) : Occurs(text, i, VaultToken(f))
    BY <1>5
  <2>2. i > c /\ i \in 1..Len(text)
    BY <1>4, <1>5, <1>8
  <2> QED BY <1>1, <1>4, <1>7, <1>10, <2>1, <2>2, SpliceKeeps
<1>16. \E i \in a + 1 .. Len(r) : Occurs(r, i, new)
  <2>1. Len(new) > 0
    BY <1>4
  <2> QED BY <1>1, <1>4, <1>10, <2>1, SpliceHolds
<1>17. UntouchedUpTo(a)'
  <2>1. \A i \in 1..a : r[i] = <<Raw, i>>
    <3> TAKE i \in 1..a
    <3>1. i \in 1..b
      BY <1>4, <1>5, <1>8
    <3> QED BY <1>5, <1>11, <3>1
  <2>2. \A i \in a + 1 .. Len(r) : r[i][1] = Raw => r[i][2] > a
    <3> SUFFICES ASSUME NEW i \in a + 1 .. Len(r), r[i][1] = Raw PROVE r[i][2] > a
      OBVIOUS
    <3>1. i \in 1..Len(r) /\ i > a
      BY <1>4, <1>12
    <3>2. r[i] \in Character
      BY <1>12, <3>1
    <3>3. r[i][2] > c /\ r[i][2] \in Nat
      BY <1>4, <1>14, <3>1, <3>2 DEF Character
    <3> QED BY <1>4, <3>3
  <2>3. \A f \in todo' : f.end <= a
    BY <1>1, <1>6
  <2>4. \A f \in found' \ todo' : a <= f.start
    <3>1. a <= e.start
      BY <1>4 DEF a
    <3>2. \A f \in found \ todo : a <= f.start
      BY <1>4, <1>5, <1>7, <1>8
    <3> QED BY <1>9, <3>1, <3>2
  <2>5. \A f \in found' \ todo' : \E i \in a + 1 .. Len(r) : Occurs(r, i, VaultToken(f))
    BY <1>9, <1>15, <1>16 DEF new
  <2> QED BY <1>13, <2>1, <2>2, <2>3, <2>4, <2>5 DEF UntouchedUpTo, r
<1>18. Unread(r, found' \ todo')
  <2> SUFFICES ASSUME NEW j \in 1..Len(r), r[j][1] = Raw, NEW f \in found' \ todo',
                      f.start < r[j][2], r[j][2] <= f.end
               PROVE  FALSE
    BY <1>12 DEF Unread
  <2>1. r[j] \in Character /\ r[j][2] \in Nat
    BY <1>12 DEF Character
  <2>2. CASE f = e
    <3>1. a < r[j][2] /\ r[j][2] <= c
      BY <2>2 DEF a, c
    <3> QED BY <1>4, <1>14, <2>1, <3>1
  <2>3. CASE f \in found \ todo
    <3>1. b <= f.start /\ f.start \in Nat
      BY <1>5, <1>7, <2>3
    <3>2. ~ r[j][2] <= b
      BY <1>8, <2>1, <3>1
    <3>3. PICK i \in DOMAIN text : r[j] = text[i]
      BY <1>4, <1>5, <1>8, <1>14, <2>1, <3>2
    <3> QED BY <1>3, <2>3, <3>3 DEF Unread
  <2> QED BY <1>9, <2>2, <2>3
<1> QED BY <1>1, <1>13, <1>17, <1>18 DEF MaskStage, r

LEMMA MaskNextStep == ASSUME PiiInv, NEW e \in todo, MaskNext(e) PROVE PiiInv'
<1>1. /\ PiiTypeOK /\ VaultKnows /\ stage = "mask" /\ stage' = "mask"
      /\ found' = found /\ todo' = todo \ {e} /\ vault' = vault \cup {e} /\ e \in found
      /\ text' = Splice(text, e.start, e.end, VaultToken(e))
  BY DEF PiiInv, PiiTypeOK, MaskNext
<1>2. vault = found \ todo
  BY <1>1 DEF VaultKnows
<1>3. VaultKnows'
  BY <1>1, <1>2 DEF VaultKnows
<1>4. text' \in Seq(Character)
  <2>1. text \in Seq(Character) /\ e.start \in Nat /\ e.end \in Nat /\ VaultToken(e) \in Seq(Character)
    BY <1>1, EntityFacts DEF PiiTypeOK
  <2> QED BY <1>1, <2>1, SpliceTyped
<1>5. PiiTypeOK'
  BY <1>1, <1>4 DEF PiiTypeOK
<1>6. Disjoint(found) => MaskStage'
  BY MaskNextStage
<1> QED
  BY <1>1, <1>3, <1>5, <1>6 DEF PiiInv, ProtectStage, RestoreStage, ResolveStage, Disjoint

LEMMA TranslateStep == ASSUME PiiInv, Translate PROVE PiiInv'
<1>1. /\ PiiTypeOK /\ VaultKnows /\ stage = "mask" /\ todo = {} /\ stage' = "protect"
      /\ todo' = TokensIn(text) /\ found' = found /\ text' = text /\ vault' = vault
  BY DEF PiiInv, Translate
<1>2. PiiTypeOK'
  BY <1>1 DEF PiiTypeOK, TokensIn
<1>3. VaultKnows'
  BY <1>1 DEF VaultKnows
<1>4. Disjoint(found) => ProtectStage'
  <2> SUFFICES ASSUME Disjoint(found) PROVE ProtectStage'
    OBVIOUS
  <2>1. Unread(text, found) /\ \A e \in found : Holds(text, VaultToken(e))
    BY <1>1, AllMasked
  <2>2. \A e \in found : e.type \in Matched => e \in todo'
    BY <1>1, <2>1 DEF TokensIn
  <2> QED BY <1>1, <2>1, <2>2 DEF ProtectStage
<1> QED
  BY <1>1, <1>2, <1>3, <1>4 DEF PiiInv, MaskStage, RestoreStage, ResolveStage, Disjoint

\* A run that a text does not hold is not replaced.
LEMMA NotReplaced == ASSUME NEW s, NEW sub, NEW new, ~ Holds(s, sub) PROVE Replaced(s, sub, new) = s
  BY DEF Replaced

LEMMA ProtectNextStage ==
  ASSUME PiiInv, Disjoint(found), NEW e \in todo, ProtectNext(e)
  PROVE  ProtectStage'
<1>1. /\ PiiTypeOK /\ ProtectStage /\ stage = "protect" /\ e \in found /\ text \in Seq(Character)
      /\ text' = Replaced(text, VaultToken(e), Sentinel(e)) /\ todo' = todo \ {e} /\ found' = found
  BY DEF PiiInv, PiiTypeOK, ProtectNext
<1>2. /\ Unread(text, found)
      /\ \A f \in found : f.type \in Matched =>
           Holds(text, IF f \in todo THEN VaultToken(f) ELSE Sentinel(f))
  BY <1>1 DEF ProtectStage
<1>3. /\ VaultToken(e) \in Seq(Character) /\ Len(VaultToken(e)) > 0
      /\ Sentinel(e) \in Seq(Character) /\ Len(Sentinel(e)) > 0
      /\ e # Raw /\ DOMAIN Sentinel(e) = {1} /\ Sentinel(e)[1] = <<e, 0>>
  BY <1>1, EntityFacts DEF Sentinel
<1>4. CASE ~ Holds(text, VaultToken(e))
  <2>1. text' = text
    BY <1>1, <1>4, NotReplaced
  <2>2. ~ e.type \in Matched
    BY <1>1, <1>2, <1>4
  <2>3. ASSUME NEW f \in found, f.type \in Matched
        PROVE  Holds(text, IF f \in todo' THEN VaultToken(f) ELSE Sentinel(f))
    <3>1. f # e
      BY <2>2, <2>3
    <3>2. f \in todo' <=> f \in todo
      BY <1>1, <3>1
    <3> QED BY <1>2, <2>3, <3>2
  <2> QED BY <1>1, <1>2, <2>1, <2>3 DEF ProtectStage
<1>5. CASE Holds(text, VaultToken(e))
  <2> DEFINE r == Replaced(text, VaultToken(e), Sentinel(e))
  <2>1. /\ Holds(r, Sentinel(e))
        /\ \A j \in DOMAIN r :
             \/ \E k \in DOMAIN Sentinel(e) : r[j] = Sentinel(e)[k]
             \/ \E i \in DOMAIN text : r[j] = text[i]
        /\ \A other \in Seq(Character) :
             /\ Len(other) > 0 /\ Holds(text, other)
             /\ \A k \in DOMAIN VaultToken(e), m \in DOMAIN other : VaultToken(e)[k] # other[m]
             => Holds(r, other)
    <3>1. IsReplaced(r, text, VaultToken(e), Sentinel(e), Character)
      BY <1>1, <1>3, <1>5, ReplacedFacts, Zenon
    <3> QED BY <3>1 DEF IsReplaced
  <2>2. text' = r
    BY <1>1
  <2> HIDE DEF r
  <2>3. Unread(r, found)
    <3>1. \A j \in DOMAIN r : r[j][1] # Raw \/ \E i \in DOMAIN text : r[j] = text[i]
      BY <1>3, <2>1
    <3> QED BY <1>2, <3>1, StaysUnread
  <2>4. ASSUME NEW f \in found, f.type \in Matched
        PROVE  Holds(r, IF f \in todo' THEN VaultToken(f) ELSE Sentinel(f))
    <3>1. /\ VaultToken(f) \in Seq(Character) /\ Len(VaultToken(f)) > 0
          /\ Sentinel(f) \in Seq(Character) /\ Len(Sentinel(f)) > 0
      BY <1>1, EntityFacts
    <3>2. CASE f = e
      BY <1>1, <2>1, <3>2
    <3>3. CASE f # e /\ f \in todo
      <4>1. Holds(text, VaultToken(f)) /\ f \in todo'
        BY <1>1, <1>2, <2>4, <3>3
      <4>2. \A k \in DOMAIN VaultToken(e), m \in DOMAIN VaultToken(f) : VaultToken(e)[k] # VaultToken(f)[m]
        BY <1>1, <3>3, TokensApart
      <4> QED BY <2>1, <3>1, <4>1, <4>2
    <3>4. CASE f # e /\ f \notin todo
      <4>1. Holds(text, Sentinel(f)) /\ f \notin todo'
        BY <1>1, <1>2, <2>4, <3>4
      <4>2. \A k \in DOMAIN VaultToken(e), m \in DOMAIN Sentinel(f) : VaultToken(e)[k] # Sentinel(f)[m]
        BY <1>1, TokensApart
      <4> QED BY <2>1, <3>1, <4>1, <4>2
    <3> QED BY <3>2, <3>3, <3>4
  <2> QED BY <1>1, <2>2, <2>3, <2>4 DEF ProtectStage
<1> QED BY <1>4, <1>5

\* What a loop of str.replace() leaves well-typed.
LEMMA ReplacedTyped ==
  ASSUME NEW S, NEW s \in Seq(S), NEW sub \in Seq(S), NEW new \in Seq(S), Len(sub) > 0, Len(new) > 0
  PROVE  Replaced(s, sub, new) \in Seq(S)
<1>1. CASE Holds(s, sub)
  BY <1>1, ReplacedFacts
<1>2. CASE ~ Holds(s, sub)
  BY <1>2, NotReplaced
<1> QED BY <1>1, <1>2

LEMMA ProtectNextStep == ASSUME PiiInv, NEW e \in todo, ProtectNext(e) PROVE PiiInv'
<1>1. /\ PiiTypeOK /\ VaultKnows /\ stage = "protect" /\ stage' = "protect"
      /\ found' = found /\ todo' = todo \ {e} /\ vault' = vault /\ e \in found
      /\ text' = Replaced(text, VaultToken(e), Sentinel(e)) /\ text \in Seq(Character)
  BY DEF PiiInv, PiiTypeOK, ProtectNext
<1>2. text' \in Seq(Character)
  <2>1. /\ VaultToken(e) \in Seq(Character) /\ Len(VaultToken(e)) > 0
        /\ Sentinel(e) \in Seq(Character) /\ Len(Sentinel(e)) > 0
    BY <1>1, EntityFacts
  <2> QED BY <1>1, <2>1, ReplacedTyped
<1>3. PiiTypeOK'
  BY <1>1, <1>2 DEF PiiTypeOK
<1>4. VaultKnows'
  BY <1>1 DEF VaultKnows
<1>5. Disjoint(found) => ProtectStage'
  BY ProtectNextStage
<1> QED
  BY <1>1, <1>3, <1>4, <1>5 DEF PiiInv, MaskStage, RestoreStage, ResolveStage, Disjoint

LEMMA ProviderReturnsStep == ASSUME PiiInv, NEW k \in 0..Len(text), ProviderReturns(k) PROVE PiiInv'
<1>1. /\ PiiTypeOK /\ VaultKnows /\ stage = "protect" /\ todo = {} /\ stage' = "restore"
      /\ found' = found /\ vault' = vault /\ text \in Seq(Character)
      /\ text' = IF k = 0 THEN text ELSE Splice(text, k - 1, k, <<>>)
      /\ todo' = {e \in found : Holds(text, Sentinel(e))}
  BY DEF PiiInv, PiiTypeOK, ProviderReturns
<1>2. /\ text' \in Seq(Character)
      /\ \A j \in DOMAIN text' : \E i \in DOMAIN text : text'[j] = text[i]
  <2>1. CASE k = 0
    BY <1>1, <2>1
  <2>2. CASE k # 0
    <3> DEFINE a == k - 1
               none == <<>>
               r == Splice(text, a, k, none)
    <3>1. a \in Nat /\ k \in Nat /\ a <= k /\ k <= Len(text) /\ Len(text) \in Nat /\ DOMAIN text = 1..Len(text)
      BY <1>1, <2>2
    <3>2. none \in Seq(Character) /\ Len(none) = 0
      OBVIOUS
    <3>3. text' = r
      BY <1>1, <2>2
    <3> HIDE DEF a, none
    <3>4. r \in Seq(Character)
      BY <1>1, <3>1, <3>2, SpliceTyped
    <3>5. ASSUME NEW j \in DOMAIN r PROVE \E i \in DOMAIN text : r[j] = text[i]
      <4>1. j \in 1..Len(Splice(text, a, k, none))
        BY <3>4, <3>5
      <4>2. \/ Among(r[j], text, 1, a)
            \/ Among(r[j], none, 1, Len(none))
            \/ Among(r[j], text, k + 1, Len(text))
        BY <1>1, <3>1, <3>2, <4>1, SpliceOrigin
      <4>3. 1..a \subseteq DOMAIN text /\ k + 1 .. Len(text) \subseteq DOMAIN text /\ 1..Len(none) = {}
        BY <3>1, <3>2
      <4> QED BY <4>2, <4>3 DEF Among
    <3> QED BY <3>3, <3>4, <3>5
  <2> QED BY <2>1, <2>2
<1>3. PiiTypeOK'
  BY <1>1, <1>2 DEF PiiTypeOK
<1>4. VaultKnows'
  BY <1>1 DEF VaultKnows
<1>5. Disjoint(found) => RestoreStage'
  <2> SUFFICES ASSUME Disjoint(found) PROVE RestoreStage'
    OBVIOUS
  <2>1. ProtectStage
    BY DEF PiiInv
  <2>2. Unread(text, found) /\ \A e \in found : e.type \in Matched => Holds(text, Sentinel(e))
    BY <1>1, <2>1 DEF ProtectStage
  <2>3. Unread(text', found)
    BY <1>2, <2>2, StaysUnread
  <2>4. Treated' = {}
    BY <1>1, <2>2 DEF Treated
  <2> QED BY <1>1, <2>3, <2>4 DEF RestoreStage
<1> QED
  BY <1>1, <1>3, <1>4, <1>5 DEF PiiInv, MaskStage, ProtectStage, ResolveStage, Disjoint

LEMMA RestoreNextStage ==
  ASSUME PiiInv, Disjoint(found), NEW e \in todo, RestoreNext(e)
  PROVE  RestoreStage'
<1>1. /\ PiiTypeOK /\ RestoreStage /\ stage = "restore" /\ e \in found /\ text \in Seq(Character) /\ found' = found
  BY DEF PiiInv, PiiTypeOK, RestoreNext
<1>2. Unread(text, found) /\ \A f \in Treated : Holds(text, VaultToken(f))
  BY <1>1 DEF RestoreStage
<1>3. CASE ~ Holds(text, Sentinel(e))
  BY <1>1, <1>2, <1>3 DEF RestoreNext, RestoreStage
<1>4. CASE Holds(text, Sentinel(e))
  <2> DEFINE r == Replaced(text, Sentinel(e), VaultToken(e))
  <2>1. text' = r /\ todo' = todo \ {e} /\ stage' = "restore"
    BY <1>1, <1>4 DEF RestoreNext
  <2>2. /\ VaultToken(e) \in Seq(Character) /\ Len(VaultToken(e)) > 0
        /\ Sentinel(e) \in Seq(Character) /\ Len(Sentinel(e)) > 0
        /\ e # Raw /\ DOMAIN VaultToken(e) = 1..TokenWidth
        /\ \A j \in 1..TokenWidth : VaultToken(e)[j] = <<e, j>>
    BY <1>1, EntityFacts DEF VaultToken
  <2>3. /\ Holds(r, VaultToken(e))
        /\ \A j \in DOMAIN r :
             \/ \E k \in DOMAIN VaultToken(e) : r[j] = VaultToken(e)[k]
             \/ \E i \in DOMAIN text : r[j] = text[i]
        /\ \A other \in Seq(Character) :
             /\ Len(other) > 0 /\ Holds(text, other)
             /\ \A k \in DOMAIN Sentinel(e), m \in DOMAIN other : Sentinel(e)[k] # other[m]
             => Holds(r, other)
    <3>1. IsReplaced(r, text, Sentinel(e), VaultToken(e), Character)
      BY <1>1, <1>4, <2>2, ReplacedFacts, Zenon
    <3> QED BY <3>1 DEF IsReplaced
  <2> HIDE DEF r
  <2>4. Unread(r, found)
    <3>1. \A j \in DOMAIN r : r[j][1] # Raw \/ \E i \in DOMAIN text : r[j] = text[i]
      BY <2>2, <2>3
    <3> QED BY <1>2, <3>1, StaysUnread
  <2>5. ASSUME NEW f \in Treated' PROVE Holds(r, VaultToken(f))
    <3>1. f \in found /\ (f = e \/ f \in Treated)
      BY <1>1, <2>1 DEF Treated
    <3>2. CASE f = e
      BY <2>3, <3>2
    <3>3. CASE f # e
      <4>1. Holds(text, VaultToken(f)) /\ VaultToken(f) \in Seq(Character) /\ Len(VaultToken(f)) > 0
        BY <1>1, <1>2, <3>1, <3>3, EntityFacts
      <4>2. \A k \in DOMAIN Sentinel(e), m \in DOMAIN VaultToken(f) : Sentinel(e)[k] # VaultToken(f)[m]
        BY <1>1, <3>1, TokensApart
      <4> QED BY <2>3, <4>1, <4>2
    <3> QED BY <3>2, <3>3
  <2> QED BY <1>1, <2>1, <2>4, <2>5 DEF RestoreStage
<1> QED BY <1>3, <1>4

LEMMA RestoreNextStep == ASSUME PiiInv, NEW e \in todo, RestoreNext(e) PROVE PiiInv'
<1>1. /\ PiiTypeOK /\ VaultKnows /\ stage = "restore" /\ stage' \in {"restore", "lost"}
      /\ found' = found /\ todo' \in SUBSET todo /\ vault' = vault /\ e \in found /\ text \in Seq(Character)
      /\ text' = text \/ text' = Replaced(text, Sentinel(e), VaultToken(e))
  BY DEF PiiInv, PiiTypeOK, RestoreNext
<1>2. text' \in Seq(Character)
  <2>1. /\ VaultToken(e) \in Seq(Character) /\ Len(VaultToken(e)) > 0
        /\ Sentinel(e) \in Seq(Character) /\ Len(Sentinel(e)) > 0
    BY <1>1, EntityFacts
  <2> QED BY <1>1, <2>1, ReplacedTyped
<1>3. PiiTypeOK'
  BY <1>1, <1>2 DEF PiiTypeOK
<1>4. VaultKnows'
  BY <1>1 DEF VaultKnows
<1>5. Disjoint(found) => RestoreStage'
  BY RestoreNextStage
<1> QED
  BY <1>1, <1>3, <1>4, <1>5 DEF PiiInv, MaskStage, ProtectStage, ResolveStage, Disjoint

LEMMA ResolveForToolStep == ASSUME PiiInv, ResolveForTool PROVE PiiInv'
<1>1. /\ PiiTypeOK /\ VaultKnows /\ stage \in {"mask", "restore"} /\ todo = {} /\ stage' = "resolve"
      /\ todo' = TokensIn(text) /\ found' = found /\ text' = text /\ vault' = vault
  BY DEF PiiInv, ResolveForTool
<1>2. PiiTypeOK'
  BY <1>1 DEF PiiTypeOK, TokensIn
<1>3. VaultKnows'
  BY <1>1 DEF VaultKnows
<1>4. Disjoint(found) => ResolveStage'
  <2> SUFFICES ASSUME Disjoint(found) PROVE ResolveStage'
    OBVIOUS
  <2>1. Unread(text, found) /\ \A e \in found : e.type \in Matched => Holds(text, VaultToken(e))
    <3>1. CASE stage = "mask"
      BY <1>1, <3>1, AllMasked
    <3>2. CASE stage = "restore"
      BY <1>1, <3>2 DEF PiiInv, RestoreStage, Treated
    <3> QED BY <1>1, <3>1, <3>2
  <2>2. Treated' = {}
    BY <1>1, <2>1 DEF Treated, TokensIn
  <2>3. Unread(text', found' \ (Treated' \cap vault'))
    BY <1>1, <2>1, UnreadFewer
  <2>4. \A e \in todo' : e.type \in Matched /\ Holds(text', VaultToken(e))
    BY <1>1 DEF TokensIn
  <2> QED BY <2>2, <2>3, <2>4 DEF ResolveStage
<1> QED
  BY <1>1, <1>2, <1>3, <1>4 DEF PiiInv, MaskStage, ProtectStage, RestoreStage, Disjoint

LEMMA ResolveNextStage ==
  ASSUME PiiInv, Disjoint(found), NEW e \in todo, ResolveNext(e)
  PROVE  ResolveStage'
<1> DEFINE Back(f) == Slice(Original, f.start, f.end)
<1>1. /\ PiiTypeOK /\ ResolveStage /\ stage = "resolve" /\ stage' = "resolve" /\ e \in found
      /\ text \in Seq(Character) /\ todo' = todo \ {e} /\ found' = found /\ vault' = vault /\ todo \subseteq found
      /\ text' = IF e \in vault THEN Replaced(text, VaultToken(e), Back(e)) ELSE text
  BY DEF PiiInv, PiiTypeOK, ResolveNext
<1>2. /\ \A f \in todo : f.type \in Matched /\ Holds(text, VaultToken(f))
      /\ \A f \in Treated \cap vault : Holds(text, Back(f))
      /\ Unread(text, found \ (Treated \cap vault))
  BY <1>1 DEF ResolveStage
<1>3. Treated' = Treated \cup {e}
  BY <1>1, <1>2 DEF Treated
<1>4. CASE e \notin vault
  <2>1. Treated' \cap vault = Treated \cap vault /\ text' = text
    BY <1>1, <1>3, <1>4
  <2> QED BY <1>1, <1>2, <2>1 DEF ResolveStage
<1>5. CASE e \in vault
  <2> DEFINE r == Replaced(text, VaultToken(e), Back(e))
  <2>1. \A f \in found : /\ f.start \in Nat /\ f.end \in Nat /\ f.start < f.end /\ f # Raw
                         /\ VaultToken(f) \in Seq(Character) /\ Len(VaultToken(f)) > 0
                         /\ Back(f) \in Seq(Character) /\ Len(Back(f)) = f.end - f.start /\ Len(Back(f)) > 0
                         /\ DOMAIN Back(f) = 1..f.end - f.start
                         /\ \A k \in 1..f.end - f.start : Back(f)[k] = <<Raw, f.start + k>>
    <3> TAKE f \in found
    <3>1. /\ f.start \in Nat /\ f.end \in Nat /\ f.start < f.end /\ f # Raw
          /\ VaultToken(f) \in Seq(Character) /\ Len(VaultToken(f)) > 0
      BY <1>1, EntityFacts
    <3>2. /\ Back(f) \in Seq(Character) /\ Len(Back(f)) = f.end - f.start
          /\ \A k \in 1..f.end - f.start : Back(f)[k] = <<Raw, f.start + k>>
      BY <1>1, SpanFacts
    <3> HIDE DEF Back
    <3> QED BY <3>1, <3>2
  <2> HIDE DEF Back
  <2>2. /\ Holds(r, Back(e))
        /\ \A j \in DOMAIN r :
             \/ \E k \in DOMAIN Back(e) : r[j] = Back(e)[k]
             \/ \E i \in DOMAIN text : r[j] = text[i]
        /\ \A other \in Seq(Character) :
             /\ Len(other) > 0 /\ Holds(text, other)
             /\ \A k \in DOMAIN VaultToken(e), m \in DOMAIN other : VaultToken(e)[k] # other[m]
             => Holds(r, other)
    <3>1. IsReplaced(r, text, VaultToken(e), Back(e), Character)
      BY <1>1, <1>2, <2>1, ReplacedFacts, Zenon
    <3> QED BY <3>1 DEF IsReplaced
  <2>3. text' = r
    BY <1>1, <1>5
  <2> HIDE DEF r
  <2>4. ASSUME NEW f \in todo' PROVE f.type \in Matched /\ Holds(r, VaultToken(f))
    <3>1. f \in found /\ f \in todo /\ f # e
      BY <1>1
    <3>2. \A k \in DOMAIN VaultToken(e), m \in DOMAIN VaultToken(f) : VaultToken(e)[k] # VaultToken(f)[m]
      BY <1>1, <3>1, TokensApart
    <3> QED BY <1>2, <2>1, <2>2, <3>1, <3>2
  <2>5. ASSUME NEW f \in Treated' \cap vault PROVE Holds(r, Back(f))
    <3>1. CASE f = e
      BY <2>2, <3>1
    <3>2. CASE f # e
      <4>1. f \in Treated \cap vault /\ f \in found
        BY <1>3, <3>2 DEF Treated
      <4>2. \A k \in DOMAIN VaultToken(e), m \in DOMAIN Back(f) : VaultToken(e)[k] # Back(f)[m]
        <5> TAKE k \in DOMAIN VaultToken(e), m \in DOMAIN Back(f)
        <5>1. VaultToken(e)[k] = <<e, k>>
          BY DEF VaultToken
        <5>2. Back(f)[m] = <<Raw, f.start + m>>
          BY <2>1, <4>1
        <5> QED BY <1>1, <2>1, <5>1, <5>2
      <4> QED BY <1>2, <2>1, <2>2, <4>1, <4>2
    <3> QED BY <3>1, <3>2
  <2>6. Unread(r, found \ (Treated' \cap vault))
    <3> SUFFICES ASSUME NEW j \in DOMAIN r, r[j][1] = Raw, NEW f \in found \ (Treated' \cap vault),
                        f.start < r[j][2], r[j][2] <= f.end
                 PROVE  FALSE
      BY DEF Unread
    <3>1. f \in found /\ f \in found \ (Treated \cap vault) /\ f # e
      BY <1>3, <1>5
    <3>2. CASE \E i \in DOMAIN text : r[j] = text[i]
      BY <1>2, <3>1, <3>2 DEF Unread
    <3>3. CASE \E k \in DOMAIN Back(e) : r[j] = Back(e)[k]
      <4>4. DOMAIN Back(e) = 1..e.end - e.start /\ \A k \in 1..e.end - e.start : Back(e)[k] = <<Raw, e.start + k>>
        BY <1>1, <2>1
      <4>1. PICK k \in 1..e.end - e.start : r[j] = <<Raw, e.start + k>>
        BY <3>3, <4>4
      <4>2. e.start < r[j][2] /\ r[j][2] <= e.end /\ r[j][2] \in Nat
        BY <1>1, <2>1, <4>1
      <4>3. e.start < f.end /\ f.start < e.end
        BY <1>1, <2>1, <3>1, <4>2
      <4> QED BY <1>1, <3>1, <4>3 DEF Disjoint, Overlap
    <3> QED BY <2>2, <3>2, <3>3
  <2> QED BY <1>1, <2>3, <2>4, <2>5, <2>6 DEF ResolveStage, Back
<1> QED BY <1>4, <1>5

LEMMA ResolveNextStep == ASSUME PiiInv, NEW e \in todo, ResolveNext(e) PROVE PiiInv'
<1>1. /\ PiiTypeOK /\ VaultKnows /\ stage = "resolve" /\ stage' = "resolve"
      /\ found' = found /\ todo' = todo \ {e} /\ vault' = vault /\ e \in found /\ text \in Seq(Character)
      /\ text' = text \/ text' = Replaced(text, VaultToken(e), Slice(Original, e.start, e.end))
  BY DEF PiiInv, PiiTypeOK, ResolveNext
<1>2. text' \in Seq(Character)
  <2>1. VaultToken(e) \in Seq(Character) /\ Len(VaultToken(e)) > 0
    BY <1>1, EntityFacts
  <2>2. Slice(Original, e.start, e.end) \in Seq(Character) /\ Len(Slice(Original, e.start, e.end)) > 0
    BY <1>1, EntityFacts, SpanFacts
  <2> QED BY <1>1, <2>1, <2>2, ReplacedTyped
<1>3. PiiTypeOK'
  BY <1>1, <1>2 DEF PiiTypeOK
<1>4. VaultKnows'
  BY <1>1 DEF VaultKnows
<1>5. Disjoint(found) => ResolveStage'
  BY ResolveNextStage
<1> QED
  BY <1>1, <1>3, <1>4, <1>5 DEF PiiInv, MaskStage, ProtectStage, RestoreStage, Disjoint

LEMMA DestroyAllStep == ASSUME PiiInv, DestroyAll PROVE PiiInv'
<1>1. /\ stage \in {"mask", "protect", "restore"} /\ todo = {} /\ vault' = {}
      /\ found' = found /\ text' = text /\ stage' = stage /\ todo' = todo
  BY DEF DestroyAll
<1>2. PiiTypeOK' /\ VaultKnows'
  BY <1>1 DEF PiiInv, PiiTypeOK, VaultKnows
<1>3. (Disjoint(found) => MaskStage /\ ProtectStage /\ RestoreStage)'
  BY <1>1 DEF PiiInv, MaskStage, ProtectStage, RestoreStage, UntouchedUpTo, Treated, Disjoint
<1> QED BY <1>1, <1>2, <1>3 DEF PiiInv, ResolveStage

LEMMA PiiStep == PiiInv /\ [PiiNext]_piiVars => PiiInv'
<1> SUFFICES ASSUME PiiInv, [PiiNext]_piiVars PROVE PiiInv'
  OBVIOUS
<1>1. CASE \E E \in Analyses : Mask(E)
  BY <1>1, MaskStep
<1>2. CASE \E e \in todo : MaskNext(e)
  BY <1>2, MaskNextStep
<1>3. CASE Translate
  BY <1>3, TranslateStep
<1>4. CASE \E e \in todo : ProtectNext(e)
  BY <1>4, ProtectNextStep
<1>5. CASE \E k \in 0..Len(text) : ProviderReturns(k)
  BY <1>5, ProviderReturnsStep
<1>6. CASE \E e \in todo : RestoreNext(e)
  BY <1>6, RestoreNextStep
<1>7. CASE ResolveForTool
  BY <1>7, ResolveForToolStep
<1>8. CASE \E e \in todo : ResolveNext(e)
  BY <1>8, ResolveNextStep
<1>9. CASE DestroyAll
  BY <1>9, DestroyAllStep
<1>10. CASE UNCHANGED piiVars
  <2>1. found' = found /\ text' = text /\ vault' = vault /\ stage' = stage /\ todo' = todo
    BY <1>10 DEF piiVars
  <2> QED
    BY <2>1 DEF PiiInv, PiiTypeOK, VaultKnows, MaskStage, ProtectStage, RestoreStage, ResolveStage,
                UntouchedUpTo, Treated, Disjoint
<1> QED
  BY <1>1, <1>2, <1>3, <1>4, <1>5, <1>6, <1>7, <1>8, <1>9, <1>10 DEF PiiNext

LEMMA PiiImplies == PiiInv /\ Disjoint(found) => ComesBackWhole
<1> SUFFICES ASSUME PiiInv, Disjoint(found) PROVE ComesBackWhole
  OBVIOUS
<1>1. /\ PiiTypeOK /\ VaultKnows /\ text \in Seq(Character) /\ TextLength \in Nat /\ vault \subseteq found
      /\ MaskStage /\ ProtectStage /\ RestoreStage /\ ResolveStage
  BY OriginalFacts DEF PiiInv, PiiTypeOK
<1>2. ASSUME NEW E \in SUBSET found, Unread(text, E), NEW n \in Leaked
      PROVE  \E e \in found \ E : e.start < n /\ n <= e.end
  <2>1. PICK i \in DOMAIN text : text[i] = <<Raw, n>>
    BY DEF Leaked, ToSet
  <2>2. PICK e \in found : e.start < n /\ n <= e.end
    BY DEF Leaked
  <2>3. e \notin E
    BY <1>2, <2>1, <2>2 DEF Unread
  <2> QED BY <2>2, <2>3
<1>3. AsMasked => Leaked = {}
  <2>1. AsMasked => Unread(text, found)
    BY <1>1, AllMasked DEF AsMasked, ProtectStage, RestoreStage
  <2> QED BY <1>2, <2>1
<1>4. todo = {} => vault \in {{}, found}
  BY <1>1 DEF VaultKnows
<1>5. ASSUME stage \in {"mask", "restore"}, todo = {}
      PROVE  \A e \in found : e.type \in Matched => Holds(text, VaultToken(e))
  BY <1>1, <1>5, AllMasked DEF RestoreStage, Treated
<1>6. ASSUME stage = "resolve", todo = {}
      PROVE  /\ Leaked = UNION {e.start + 1 .. e.end : e \in {f \in vault : f.type \in Matched}}
             /\ \A e \in vault : e.type \in Matched => Holds(text, Slice(Original, e.start, e.end))
  <2> DEFINE Back == {f \in vault : f.type \in Matched}
  <2>1. Treated \cap vault = Back /\ Back \subseteq found
    BY <1>1, <1>6 DEF Treated
  <2>2. Unread(text, found \ Back) /\ \A e \in Back : Holds(text, Slice(Original, e.start, e.end))
    BY <1>1, <1>6, <2>1 DEF ResolveStage
  <2>3. \A e \in found : e.start \in Nat /\ e.end \in Nat /\ e.start < e.end /\ e.end <= TextLength
    BY <1>1, EntityFacts
  <2> HIDE DEF Back
  <2>4. ASSUME NEW n \in Leaked PROVE \E e \in Back : n \in e.start + 1 .. e.end
    <3>1. PICK e \in found \ (found \ Back) : e.start < n /\ n <= e.end
      BY <1>2, <2>2
    <3>2. e \in Back /\ e \in found /\ n \in Nat
      BY <1>1, <3>1 DEF Leaked
    <3> QED BY <2>3, <3>1, <3>2
  <2>5. ASSUME NEW e \in Back, NEW n \in e.start + 1 .. e.end PROVE n \in Leaked
    <3>1. e \in found /\ e.start \in Nat /\ e.end \in Nat /\ e.start < e.end /\ e.end <= TextLength
      BY <2>1, <2>3
    <3>2. PICK i \in DOMAIN text : Occurs(text, i, Slice(Original, e.start, e.end))
      BY <2>2 DEF Holds
    <3> DEFINE k == n - e.start
               sub == Slice(Original, e.start, e.end)
    <3>3. k \in 1..e.end - e.start /\ e.start + k = n
      BY <3>1
    <3>4. /\ sub \in Seq(Character) /\ Len(sub) = e.end - e.start
          /\ \A m \in 1..e.end - e.start : sub[m] = <<Raw, e.start + m>>
      BY <1>1, <3>1, SpanFacts
    <3>5. Occurs(text, i, sub)
      BY <3>2
    <3> HIDE DEF k, sub
    <3>6. sub[k] = <<Raw, n>> /\ k \in DOMAIN sub /\ DOMAIN text = 1..Len(text) /\ Len(text) \in Nat
      BY <1>1, <3>3, <3>4
    <3>7. text[i + k - 1] = <<Raw, n>> /\ i + Len(sub) <= Len(text) + 1
      BY <3>5, <3>6 DEF Occurs
    <3>8. i + k - 1 \in DOMAIN text
      BY <3>1, <3>2, <3>3, <3>4, <3>6, <3>7
    <3>9. n \in 1..TextLength /\ e.start < n /\ n <= e.end
      BY <1>1, <3>1
    <3> QED BY <3>1, <3>7, <3>8, <3>9 DEF Leaked, ToSet
  <2>6. Leaked = UNION {e.start + 1 .. e.end : e \in Back}
    BY <2>4, <2>5
  <2> QED BY <2>2, <2>6 DEF Back
<1> QED BY <1>3, <1>4, <1>5, <1>6 DEF ComesBackWhole

-----------------------------------------------------------------------------
(* PII masking: every token stands in one place, overlapping spans or not.  *)

\* Characters of tokens and sentinels stand in one place each.
Distinct(s) == \A i, j \in DOMAIN s : s[i][1] # Raw /\ s[i] = s[j] => i = j

\* No entity has a sentinel and token characters at one time.
OneForm(s) ==
  \A e \in found, i, j \in DOMAIN s : s[i] = <<e, 0>> /\ s[j][1] = e => s[j][2] = 0

\* What is not raw is a token character or a sentinel of an entity found, and
\* while the loop of _mask() runs, a token character of one it has treated.
Minted(s) ==
  \A i \in DOMAIN s : s[i][1] # Raw => s[i][1] \in found /\ s[i][2] \in 0..TokenWidth
MintedSoFar ==
  stage \in {"received", "mask"} =>
    \A i \in DOMAIN text : text[i][1] # Raw => text[i][1] \in found \ todo /\ text[i][2] # 0

OnceInv == Distinct(text) /\ OneForm(text) /\ Minted(text) /\ MintedSoFar

\* Where a character of a spliced text is from.
LEMMA SplicePlaces ==
  ASSUME NEW S, NEW s \in Seq(S), NEW a \in Nat, NEW c \in Nat, a <= c, c <= Len(s), NEW new \in Seq(S),
         NEW r, r \in Seq(S), IsSplice(r, s, a, c, new), NEW j \in DOMAIN r
  PROVE  \/ j \in 1..a /\ j \in DOMAIN s /\ r[j] = s[j]
         \/ j - a \in 1..Len(new) /\ r[j] = new[j - a]
         \/ j - a - Len(new) + c \in c + 1 .. Len(s) /\ r[j] = s[j - a - Len(new) + c]
<1>1. /\ Len(r) = Len(s) - (c - a) + Len(new)
      /\ \A i \in 1..a : r[i] = s[i]
      /\ \A k \in 1..Len(new) : r[a + k] = new[k]
      /\ \A i \in c + 1 .. Len(s) : r[i - c + a + Len(new)] = s[i]
  BY DEF IsSplice
<1>2. Len(s) \in Nat /\ Len(new) \in Nat /\ j \in 1..Len(r) /\ DOMAIN s = 1..Len(s) /\ Len(r) \in Nat
  OBVIOUS
<1>3. CASE j <= a
  <2>1. j \in 1..a /\ j \in 1..Len(s)
    BY <1>2, <1>3
  <2> QED BY <1>1, <1>2, <2>1
<1>4. CASE j > a /\ j <= a + Len(new)
  <2>1. j - a \in 1..Len(new) /\ a + (j - a) = j
    BY <1>2, <1>4
  <2> QED BY <1>1, <2>1
<1>5. CASE j > a + Len(new)
  <2>1. /\ j - a - Len(new) + c \in c + 1 .. Len(s)
        /\ (j - a - Len(new) + c) - c + a + Len(new) = j
    BY <1>1, <1>2, <1>5
  <2> QED BY <1>1, <2>1
<1>6. j <= a \/ (j > a /\ j <= a + Len(new)) \/ j > a + Len(new)
  BY <1>2
<1> QED BY <1>3, <1>4, <1>5, <1>6

\* Characters stay distinct if what is put in is new to what stays.
LEMMA SpliceDistinct ==
  ASSUME NEW S, NEW s \in Seq(S), NEW a \in Nat, NEW c \in Nat, a <= c, c <= Len(s), NEW new \in Seq(S),
         Distinct(s), Distinct(new),
         \A k \in DOMAIN new, i \in DOMAIN s : new[k][1] # Raw /\ new[k] = s[i] => i > a /\ i <= c
  PROVE  Distinct(Splice(s, a, c, new))
<1> DEFINE r == Splice(s, a, c, new)
           Left(j) == j \in 1..a /\ j \in DOMAIN s /\ r[j] = s[j]
           Put(j) == j - a \in 1..Len(new) /\ r[j] = new[j - a]
           Back(j) == j - a - Len(new) + c \in c + 1 .. Len(s) /\ r[j] = s[j - a - Len(new) + c]
<1>1. r \in Seq(S) /\ IsSplice(r, s, a, c, new)
  BY SpliceFacts, Zenon
<1> HIDE DEF r
<1>2. \A j \in DOMAIN r : Left(j) \/ Put(j) \/ Back(j)
  BY <1>1, SplicePlaces
<1>3. /\ DOMAIN s = 1..Len(s) /\ Len(s) \in Nat /\ DOMAIN new = 1..Len(new) /\ Len(new) \in Nat
      /\ DOMAIN r = 1..Len(r) /\ Len(r) \in Nat
  BY <1>1
<1>4. \A i, j \in DOMAIN s : s[i][1] # Raw /\ s[i] = s[j] => i = j
  BY DEF Distinct
<1>5. \A i, j \in DOMAIN new : new[i][1] # Raw /\ new[i] = new[j] => i = j
  BY DEF Distinct
<1>6. ASSUME NEW i \in DOMAIN r, NEW j \in DOMAIN r, r[i][1] # Raw, r[i] = r[j]
      PROVE  i = j
  <2>1. CASE Left(i) /\ Left(j)
    BY <1>4, <1>6, <2>1
  <2>2. CASE Put(i) /\ Put(j)
    <3>1. i - a = j - a
      BY <1>3, <1>5, <1>6, <2>2
    <3> QED BY <1>3, <3>1
  <2>3. CASE Back(i) /\ Back(j)
    <3>1. /\ j - a - Len(new) + c \in DOMAIN s /\ i - a - Len(new) + c \in DOMAIN s
      BY <1>3, <2>3
    <3>2. i - a - Len(new) + c = j - a - Len(new) + c
      BY <1>4, <1>6, <2>3, <3>1
    <3> QED BY <1>3, <3>2
  <2>4. ASSUME NEW x \in DOMAIN r, NEW y \in DOMAIN r, r[x] = r[y], r[x][1] # Raw, Left(x), Back(y)
        PROVE  FALSE
    <3>1. y - a - Len(new) + c \in DOMAIN s /\ x # y - a - Len(new) + c
      BY <1>3, <2>4
    <3> QED BY <1>4, <2>4, <3>1
  <2>5. ASSUME NEW x \in DOMAIN r, NEW y \in DOMAIN r, r[x] = r[y], r[x][1] # Raw, Put(x), Left(y) \/ Back(y)
        PROVE  FALSE
    <3>1. x - a \in DOMAIN new
      BY <1>3, <2>5
    <3>2. CASE Left(y)
      <4>1. y \in DOMAIN s /\ ~ y > a /\ new[x - a] = s[y] /\ new[x - a][1] # Raw
        BY <2>5, <3>2
      <4> QED BY <3>1, <4>1
    <3>3. CASE Back(y)
      <4> DEFINE z == y - a - Len(new) + c
      <4>1. z \in DOMAIN s /\ ~ z <= c /\ new[x - a] = s[z] /\ new[x - a][1] # Raw
        BY <1>3, <2>5, <3>3
      <4> QED BY <3>1, <4>1
    <3> QED BY <2>5, <3>2, <3>3
  <2> HIDE DEF Left, Put, Back
  <2> QED BY <1>2, <1>6, <2>1, <2>2, <2>3, <2>4, <2>5
<1> QED BY <1>6 DEF Distinct, r

\* Offsets beyond the text are as good as its end.
Clamped(s, a, c, new) ==
  \E b, d \in Nat : b <= d /\ d <= Len(s) /\ Splice(s, a, c, new) = Splice(s, b, d, new)

LEMMA SpliceClamped ==
  ASSUME NEW S, NEW s \in Seq(S), NEW a \in Nat, NEW c \in Nat, a <= c, NEW new \in Seq(S)
  PROVE  Clamped(s, a, c, new)
<1> DEFINE L == Len(s)
           b == IF a > L THEN L ELSE a
           d == IF c > L THEN L ELSE c
<1>1. L \in Nat
  OBVIOUS
<1>2. b \in Nat /\ d \in Nat /\ b <= d /\ d <= L
  BY <1>1
<1>3. Slice(s, 0, a) = Slice(s, 0, b)
  BY <1>1 DEF Slice
<1>4. Slice(s, c, L) = Slice(s, d, L)
  <2>1. CASE c <= L
    BY <1>1, <2>1
  <2>2. CASE c > L
    <3>1. d = L
      BY <2>2
    <3>2. SubSeq(s, c + 1, L) = <<>> /\ SubSeq(s, L + 1, L) = <<>>
      BY <1>1, <2>2
    <3> QED BY <1>1, <3>1, <3>2 DEF Slice
  <2> QED BY <1>1, <2>1, <2>2
<1> HIDE DEF b, d
<1> QED BY <1>2, <1>3, <1>4 DEF Splice, Clamped

\* Each character of a spliced text is an old one from outside or a new one.
FromOutside(r, s, a, c, new) ==
  \A j \in DOMAIN r : \/ \E i \in DOMAIN s : (i <= a \/ i > c) /\ r[j] = s[i]
                      \/ \E k \in DOMAIN new : r[j] = new[k]

LEMMA SpliceSources ==
  ASSUME NEW S, NEW s \in Seq(S), NEW a \in Nat, NEW c \in Nat, a <= c, c <= Len(s), NEW new \in Seq(S)
  PROVE  FromOutside(Splice(s, a, c, new), s, a, c, new)
<1> DEFINE r == Splice(s, a, c, new)
<1>1. r \in Seq(S) /\ IsSplice(r, s, a, c, new)
  BY SpliceFacts, Zenon
<1>2. DOMAIN s = 1..Len(s) /\ DOMAIN new = 1..Len(new) /\ Len(s) \in Nat /\ Len(new) \in Nat
  OBVIOUS
<1> HIDE DEF r
<1>3. ASSUME NEW j \in DOMAIN r
      PROVE  \/ \E i \in DOMAIN s : (i <= a \/ i > c) /\ r[j] = s[i]
             \/ \E k \in DOMAIN new : r[j] = new[k]
  <2>1. \/ j \in 1..a /\ j \in DOMAIN s /\ r[j] = s[j]
        \/ j - a \in 1..Len(new) /\ r[j] = new[j - a]
        \/ j - a - Len(new) + c \in c + 1 .. Len(s) /\ r[j] = s[j - a - Len(new) + c]
    BY <1>1, SplicePlaces
  <2>2. CASE j \in 1..a /\ j \in DOMAIN s /\ r[j] = s[j]
    BY <2>2
  <2>3. CASE j - a \in 1..Len(new) /\ r[j] = new[j - a]
    BY <1>2, <2>3
  <2>4. CASE j - a - Len(new) + c \in c + 1 .. Len(s) /\ r[j] = s[j - a - Len(new) + c]
    <3> DEFINE i == j - a - Len(new) + c
    <3>1. i \in c + 1 .. Len(s) /\ r[j] = s[i]
      BY <2>4
    <3> HIDE DEF i
    <3>2. i \in DOMAIN s /\ i > c
      BY <1>2, <3>1
    <3> QED BY <3>1, <3>2
  <2> QED BY <2>1, <2>2, <2>3, <2>4
<1>4. FromOutside(r, s, a, c, new)
  BY <1>3 DEF FromOutside
<1> QED BY <1>4 DEF r

\* A form of e is put where all there was of e stood.
LEMMA FormPut ==
  ASSUME PiiTypeOK, Distinct(text), OneForm(text), Minted(text), NEW e \in found,
         NEW a \in Nat, NEW c \in Nat, a <= c, c <= Len(text),
         \A i \in DOMAIN text : text[i][1] = e => i > a /\ i <= c,
         NEW new, new = VaultToken(e) \/ new = Sentinel(e)
  PROVE  /\ Distinct(Splice(text, a, c, new))
         /\ \A f \in found, i, j \in DOMAIN Splice(text, a, c, new) :
              Splice(text, a, c, new)[i] = <<f, 0>> /\ Splice(text, a, c, new)[j][1] = f
                => Splice(text, a, c, new)[j][2] = 0
         /\ \A i \in DOMAIN Splice(text, a, c, new) :
              Splice(text, a, c, new)[i][1] # Raw =>
                Splice(text, a, c, new)[i][1] \in found /\ Splice(text, a, c, new)[i][2] \in 0..TokenWidth
<1> DEFINE r == Splice(text, a, c, new)
<1>1. text \in Seq(Character) /\ TokenWidth \in Nat \ {0} /\ e # Raw
  BY EntityFacts DEF PiiTypeOK
<1>2. new \in Seq(Character)
  BY EntityFacts
<1>3. /\ \A k \in DOMAIN new : new[k][1] = e /\ new[k][2] \in 0..TokenWidth
      /\ \A k, m \in DOMAIN new : new[k] = new[m] => k = m
      /\ \A k, m \in DOMAIN new : new[k][2] = 0 => new[m][2] = 0
  <2>1. CASE new = VaultToken(e)
    <3>1. DOMAIN new = 1..TokenWidth /\ \A k \in 1..TokenWidth : new[k] = <<e, k>>
      BY <2>1 DEF VaultToken
    <3> QED BY <1>1, <3>1
  <2>2. CASE new = Sentinel(e)
    <3>1. DOMAIN new = {1} /\ new[1] = <<e, 0>>
      BY <2>2 DEF Sentinel
    <3> QED BY <1>1, <3>1
  <2> QED BY <2>1, <2>2
<1>4. \A j \in DOMAIN r :
        \/ \E i \in DOMAIN text : (i <= a \/ i > c) /\ r[j] = text[i]
        \/ \E k \in DOMAIN new : r[j] = new[k]
  <2>1. text \in Seq(Character)
    BY <1>1
  <2>2. FromOutside(r, text, a, c, new)
    BY <1>2, <2>1, SpliceSources, Zenon
  <2> HIDE DEF r
  <2> QED BY <2>2 DEF FromOutside
<1>5. Distinct(new)
  BY <1>3 DEF Distinct
<1>6. Distinct(r)
  <2>1. \A k \in DOMAIN new, i \in DOMAIN text : new[k][1] # Raw /\ new[k] = text[i] => i > a /\ i <= c
    BY <1>3
  <2> QED BY <1>1, <1>2, <1>5, <2>1, SpliceDistinct
<1>7. \A i \in DOMAIN text : i <= a \/ i > c => text[i][1] # e
  <2>1. DOMAIN text \subseteq Nat
    BY <1>1
  <2> QED BY <2>1
<1> HIDE DEF r
<1>8. ASSUME NEW f \in found, NEW i \in DOMAIN r, NEW j \in DOMAIN r, r[i] = <<f, 0>>, r[j][1] = f
      PROVE  r[j][2] = 0
  <2>1. r[i][1] = f /\ r[i][2] = 0
    BY <1>8
  <2>2. CASE f = e
    <3>1. PICK k \in DOMAIN new : r[i] = new[k]
      BY <1>4, <1>7, <2>1, <2>2
    <3>2. PICK m \in DOMAIN new : r[j] = new[m]
      BY <1>4, <1>7, <1>8, <2>2
    <3> QED BY <1>3, <2>1, <3>1, <3>2
  <2>3. CASE f # e
    <3>1. PICK x \in DOMAIN text : r[i] = text[x]
      BY <1>3, <1>4, <2>1, <2>3
    <3>2. PICK y \in DOMAIN text : r[j] = text[y]
      BY <1>3, <1>4, <1>8, <2>3
    <3> QED BY <1>8, <3>1, <3>2 DEF OneForm
  <2> QED BY <2>2, <2>3
<1>9. ASSUME NEW j \in DOMAIN r, r[j][1] # Raw
      PROVE  r[j][1] \in found /\ r[j][2] \in 0..TokenWidth
  <2>1. CASE \E i \in DOMAIN text : r[j] = text[i]
    BY <1>9, <2>1 DEF Minted
  <2>2. CASE \E k \in DOMAIN new : r[j] = new[k]
    BY <1>3, <2>2
  <2> QED BY <1>4, <2>1, <2>2
<1> QED BY <1>6, <1>8, <1>9 DEF r

\* Replaced() at the place it finds.
LEMMA ReplacedAt ==
  ASSUME NEW S, NEW s \in Seq(S), NEW sub \in Seq(S), NEW new, Holds(s, sub)
  PROVE  \E p \in DOMAIN s :
           /\ Occurs(s, p, sub) /\ p - 1 \in Nat /\ p - 1 + Len(sub) \in Nat
           /\ p - 1 <= p - 1 + Len(sub) /\ p - 1 + Len(sub) <= Len(s)
           /\ Replaced(s, sub, new) = Splice(s, p - 1, p - 1 + Len(sub), new)
<1> DEFINE p == CHOOSE i \in DOMAIN s : Occurs(s, i, sub)
<1>1. Replaced(s, sub, new) = Splice(s, p - 1, p - 1 + Len(sub), new)
  BY DEF Replaced
<1>2. p \in DOMAIN s /\ Occurs(s, p, sub)
  BY DEF Holds
<1> HIDE DEF p
<1>3. DOMAIN s = 1..Len(s) /\ Len(s) \in Nat /\ Len(sub) \in Nat /\ p + Len(sub) <= Len(s) + 1
  BY <1>2 DEF Occurs
<1>4. /\ p - 1 \in Nat /\ p - 1 + Len(sub) \in Nat
      /\ p - 1 <= p - 1 + Len(sub) /\ p - 1 + Len(sub) <= Len(s)
  BY <1>2, <1>3
<1> QED BY <1>1, <1>2, <1>4

\* All there is of an entity stands in its token, or in its sentinel.
LEMMA TokenIsAll ==
  ASSUME PiiTypeOK, OnceInv, NEW e \in found, NEW p \in DOMAIN text, Occurs(text, p, VaultToken(e))
  PROVE  \A i \in DOMAIN text : text[i][1] = e => i > p - 1 /\ i <= p - 1 + Len(VaultToken(e))
<1> SUFFICES ASSUME NEW i \in DOMAIN text, text[i][1] = e
             PROVE  i > p - 1 /\ i <= p - 1 + Len(VaultToken(e))
  OBVIOUS
<1>1. /\ text \in Seq(Character) /\ TokenWidth \in Nat \ {0} /\ e # Raw
      /\ Len(VaultToken(e)) = TokenWidth /\ \A m \in 1..TokenWidth : VaultToken(e)[m] = <<e, m>>
      /\ DOMAIN VaultToken(e) = 1..TokenWidth
  BY EntityFacts DEF PiiTypeOK, VaultToken
<1>2. \A m \in 1..TokenWidth : text[p + m - 1] = <<e, m>>
  BY <1>1 DEF Occurs
<1>3. /\ DOMAIN text = 1..Len(text) /\ Len(text) \in Nat /\ p \in Nat /\ p >= 1
      /\ p + TokenWidth <= Len(text) + 1
  BY <1>1 DEF Occurs
<1>4. text[i] = <<e, text[i][2]>> /\ text[i][2] \in 0..TokenWidth
  BY <1>1 DEF OnceInv, Minted, Character
<1>5. CASE text[i][2] = 0
  <2>1. 1 \in 1..TokenWidth /\ p + 1 - 1 = p
    BY <1>1, <1>3
  <2>2. text[p] = <<e, 1>>
    BY <1>2, <2>1
  <2>3. text[p][1] = e /\ text[p][2] = 1
    BY <2>2
  <2> QED BY <1>4, <1>5, <2>3 DEF OnceInv, OneForm
<1>6. CASE text[i][2] # 0
  <2> DEFINE m == text[i][2]
  <2>1. m \in 1..TokenWidth
    BY <1>1, <1>4, <1>6
  <2>2. text[p + m - 1] = text[i]
    BY <1>2, <1>4, <2>1
  <2> HIDE DEF m
  <2>3. p + m - 1 \in DOMAIN text
    BY <1>1, <1>3, <2>1
  <2>4. i = p + m - 1
    BY <1>1, <2>2, <2>3 DEF OnceInv, Distinct
  <2> QED BY <1>1, <1>3, <2>1, <2>4
<1> QED BY <1>5, <1>6

LEMMA SentinelIsAll ==
  ASSUME PiiTypeOK, OnceInv, NEW e \in found, NEW p \in DOMAIN text, Occurs(text, p, Sentinel(e))
  PROVE  \A i \in DOMAIN text : text[i][1] = e => i > p - 1 /\ i <= p - 1 + Len(Sentinel(e))
<1> SUFFICES ASSUME NEW i \in DOMAIN text, text[i][1] = e
             PROVE  i > p - 1 /\ i <= p - 1 + Len(Sentinel(e))
  OBVIOUS
<1>1. text \in Seq(Character) /\ e # Raw /\ Len(Sentinel(e)) = 1 /\ DOMAIN Sentinel(e) = {1} /\ Sentinel(e)[1] = <<e, 0>>
  BY EntityFacts DEF PiiTypeOK, Sentinel
<1>2. p \in Nat
  BY <1>1
<1>3. text[p] = <<e, 0>>
  <2>1. p + 1 - 1 = p
    BY <1>2
  <2> QED BY <1>1, <2>1 DEF Occurs
<1>4. text[i][2] = 0 /\ text[i] = <<e, text[i][2]>>
  BY <1>1, <1>3 DEF OnceInv, OneForm, Character
<1>5. i = p
  BY <1>1, <1>3, <1>4 DEF OnceInv, Distinct
<1> QED BY <1>1, <1>2, <1>5

LEMMA OnceInitial == PiiInit => OnceInv
<1> SUFFICES ASSUME PiiInit PROVE OnceInv
  OBVIOUS
<1>1. text = Original /\ found = {} /\ DOMAIN Original = 1..TextLength
  BY DEF PiiInit, Original
<1>2. \A i \in DOMAIN text : text[i][1] = Raw
  BY <1>1 DEF Original
<1> QED BY <1>1, <1>2 DEF OnceInv, Distinct, OneForm, Minted, MintedSoFar

LEMMA MaskOnce == ASSUME PiiInv, NEW E \in Analyses, Mask(E) PROVE OnceInv'
<1>1. text' = Original /\ found' = E
  BY DEF PiiInv, Mask
<1>2. \A i \in DOMAIN text' : text'[i][1] = Raw
  BY <1>1 DEF Original
<1>3. \A e \in E : e # Raw
  <2> TAKE e \in E
  <2>1. e.start < e.end /\ Raw.start = 0 /\ Raw.end = 0
    BY PiiAssumption DEF Raw
  <2> QED BY <2>1
<1>4. (Distinct(text) /\ Minted(text) /\ MintedSoFar)'
  BY <1>2 DEF Distinct, Minted, MintedSoFar
<1>5. (OneForm(text))'
  <2>1. \A e \in found', i \in DOMAIN text' : text'[i] # <<e, 0>>
    <3> SUFFICES ASSUME NEW e \in found', NEW i \in DOMAIN text', text'[i] = <<e, 0>> PROVE FALSE
      OBVIOUS
    <3>1. text'[i][1] = e
      OBVIOUS
    <3> QED BY <1>1, <1>2, <1>3, <3>1
  <2> QED BY <2>1 DEF OneForm
<1> QED BY <1>4, <1>5 DEF OnceInv

\* A step that puts a form of e where all there was of e stood.
LEMMA FormStep ==
  ASSUME PiiTypeOK, OnceInv, NEW e \in found, found' = found, NEW a \in Nat, NEW c \in Nat,
         a <= c, c <= Len(text), \A i \in DOMAIN text : text[i][1] = e => i > a /\ i <= c,
         NEW new, new = VaultToken(e) \/ new = Sentinel(e), text' = Splice(text, a, c, new)
  PROVE  (Distinct(text) /\ OneForm(text) /\ Minted(text))'
<1>1. Distinct(text) /\ OneForm(text) /\ Minted(text)
  BY DEF OnceInv
<1> DEFINE r == Splice(text, a, c, new)
<1>2. /\ Distinct(r)
      /\ \A f \in found, i, j \in DOMAIN r : r[i] = <<f, 0>> /\ r[j][1] = f => r[j][2] = 0
      /\ \A i \in DOMAIN r : r[i][1] # Raw => r[i][1] \in found /\ r[i][2] \in 0..TokenWidth
  BY <1>1, FormPut
<1>3. text' = r
  OBVIOUS
<1> HIDE DEF r
<1> QED BY <1>2, <1>3 DEF Distinct, OneForm, Minted

LEMMA MaskNextOnce == ASSUME PiiInv, OnceInv, NEW e \in todo, MaskNext(e) PROVE OnceInv'
<1>1. /\ PiiTypeOK /\ stage = "mask" /\ e \in found /\ text \in Seq(Character) /\ found' = found
      /\ todo' = todo \ {e} /\ text' = Splice(text, e.start, e.end, VaultToken(e))
  BY DEF PiiInv, PiiTypeOK, MaskNext
<1>2. /\ e.start \in Nat /\ e.end \in Nat /\ e.start <= e.end /\ e # Raw
      /\ VaultToken(e) \in Seq(Character) /\ TokenWidth \in Nat \ {0}
      /\ DOMAIN VaultToken(e) = 1..TokenWidth /\ \A k \in 1..TokenWidth : VaultToken(e)[k] = <<e, k>>
  <2>1. /\ e.start \in Nat /\ e.end \in Nat /\ e.start < e.end /\ e # Raw
        /\ VaultToken(e) \in Seq(Character) /\ TokenWidth \in Nat \ {0}
    BY <1>1, EntityFacts
  <2>2. DOMAIN VaultToken(e) = 1..TokenWidth /\ \A k \in 1..TokenWidth : VaultToken(e)[k] = <<e, k>>
    BY DEF VaultToken
  <2>3. e.start <= e.end
    BY <2>1
  <2> QED BY <2>1, <2>2, <2>3
<1>3. PICK a \in Nat, c \in Nat : a <= c /\ c <= Len(text) /\ text' = Splice(text, a, c, VaultToken(e))
  <2> DEFINE from == e.start
             to == e.end
             new == VaultToken(e)
  <2>1. from \in Nat /\ to \in Nat /\ from <= to /\ new \in Seq(Character) /\ text' = Splice(text, from, to, new)
    BY <1>1, <1>2
  <2> HIDE DEF from, to, new
  <2>2. text \in Seq(Character)
    BY <1>1
  <2>3. Clamped(text, from, to, new)
    BY <2>1, <2>2, SpliceClamped, Zenon
  <2> QED BY <2>1, <2>3 DEF new, Clamped
<1>4. \A i \in DOMAIN text : text[i][1] # Raw => text[i][1] \in found \ todo /\ text[i][2] # 0
  BY <1>1 DEF OnceInv, MintedSoFar
<1>5. \A i \in DOMAIN text : text[i][1] # e
  BY <1>2, <1>4
<1>6. (Distinct(text) /\ OneForm(text) /\ Minted(text))'
  BY <1>1, <1>3, <1>5, FormStep
<1>7. MintedSoFar'
  <2> SUFFICES ASSUME NEW j \in DOMAIN text', text'[j][1] # Raw
               PROVE  text'[j][1] \in found' \ todo' /\ text'[j][2] # 0
    BY DEF MintedSoFar
  <2>1. \/ \E i \in DOMAIN text : text'[j] = text[i]
        \/ \E k \in DOMAIN VaultToken(e) : text'[j] = VaultToken(e)[k]
    <3>1. text \in Seq(Character) /\ VaultToken(e) \in Seq(Character)
      BY <1>1, <1>2
    <3>2. FromOutside(text', text, a, c, VaultToken(e))
      BY <1>3, <3>1, SpliceSources, Zenon
    <3> QED BY <3>2 DEF FromOutside
  <2>2. CASE \E i \in DOMAIN text : text'[j] = text[i]
    BY <1>1, <1>4, <2>2
  <2>3. CASE \E k \in DOMAIN VaultToken(e) : text'[j] = VaultToken(e)[k]
    BY <1>1, <1>2, <2>3
  <2> QED BY <2>1, <2>2, <2>3
<1> QED BY <1>6, <1>7 DEF OnceInv

LEMMA ProtectNextOnce == ASSUME PiiInv, OnceInv, NEW e \in todo, ProtectNext(e) PROVE OnceInv'
<1>1. /\ PiiTypeOK /\ stage' = "protect" /\ e \in found /\ text \in Seq(Character) /\ found' = found
      /\ text' = Replaced(text, VaultToken(e), Sentinel(e))
  BY DEF PiiInv, PiiTypeOK, ProtectNext
<1>2. MintedSoFar'
  BY <1>1 DEF MintedSoFar
<1>3. CASE ~ Holds(text, VaultToken(e))
  <2>1. text' = text
    BY <1>1, <1>3, NotReplaced
  <2> QED BY <1>1, <1>2, <2>1 DEF OnceInv, Distinct, OneForm, Minted
<1>4. CASE Holds(text, VaultToken(e))
  <2>1. VaultToken(e) \in Seq(Character)
    BY <1>1, EntityFacts
  <2> DEFINE n == Len(VaultToken(e))
  <2>2. PICK p \in DOMAIN text :
          /\ Occurs(text, p, VaultToken(e)) /\ p - 1 \in Nat /\ p - 1 + n \in Nat
          /\ p - 1 <= p - 1 + n /\ p - 1 + n <= Len(text)
          /\ text' = Splice(text, p - 1, p - 1 + n, Sentinel(e))
    BY <1>1, <1>4, <2>1, ReplacedAt
  <2>3. \A i \in DOMAIN text : text[i][1] = e => i > p - 1 /\ i <= p - 1 + n
    BY <1>1, <2>2, TokenIsAll
  <2>4. (Distinct(text) /\ OneForm(text) /\ Minted(text))'
    BY <1>1, <2>2, <2>3, FormStep
  <2> QED BY <1>2, <2>4 DEF OnceInv
<1> QED BY <1>3, <1>4

LEMMA ProviderReturnsOnce ==
  ASSUME PiiInv, OnceInv, NEW k \in 0..Len(text), ProviderReturns(k) PROVE OnceInv'
<1>1. /\ PiiTypeOK /\ stage' = "restore" /\ found' = found /\ text \in Seq(Character)
      /\ text' = IF k = 0 THEN text ELSE Splice(text, k - 1, k, <<>>)
  BY DEF PiiInv, PiiTypeOK, ProviderReturns
<1>2. MintedSoFar'
  BY <1>1 DEF MintedSoFar
<1>3. CASE k = 0
  BY <1>1, <1>2, <1>3 DEF OnceInv, Distinct, OneForm, Minted
<1>4. CASE k # 0
  <2> DEFINE a == k - 1
             none == <<>>
             r == Splice(text, a, k, none)
  <2>1. a \in Nat /\ k \in Nat /\ a <= k /\ k <= Len(text) /\ none \in Seq(Character) /\ DOMAIN none = {}
    BY <1>1, <1>4
  <2>2. text' = r
    BY <1>1, <1>4
  <2> HIDE DEF a, none
  <2>3. Distinct(text) /\ Distinct(none)
    BY <2>1 DEF OnceInv, Distinct
  <2>4. \A x \in DOMAIN none, i \in DOMAIN text : none[x][1] # Raw /\ none[x] = text[i] => i > a /\ i <= k
    BY <2>1
  <2>5. Distinct(r)
    BY <1>1, <2>1, <2>3, <2>4, SpliceDistinct
  <2>6. FromOutside(r, text, a, k, none)
    <3>1. text \in Seq(Character)
      BY <1>1
    <3> QED BY <2>1, <3>1, SpliceSources, Zenon
  <2> HIDE DEF r
  <2>7. \A j \in DOMAIN r : \E i \in DOMAIN text : r[j] = text[i]
    BY <2>1, <2>6 DEF FromOutside
  <2>8. OneForm(r) /\ Minted(r)
    <3>1. OneForm(text) /\ Minted(text)
      BY DEF OnceInv
    <3>2. OneForm(r)
      <4> SUFFICES ASSUME NEW e \in found, NEW i \in DOMAIN r, NEW j \in DOMAIN r, r[i] = <<e, 0>>, r[j][1] = e
                   PROVE  r[j][2] = 0
        BY DEF OneForm
      <4>1. PICK x \in DOMAIN text : r[i] = text[x]
        BY <2>7
      <4>2. PICK y \in DOMAIN text : r[j] = text[y]
        BY <2>7
      <4> QED BY <3>1, <4>1, <4>2 DEF OneForm
    <3>3. Minted(r)
      BY <2>7, <3>1 DEF Minted
    <3> QED BY <3>2, <3>3
  <2>9. found' = found
    BY <1>1
  <2>10. (OneForm(text))'
    BY <2>2, <2>8, <2>9 DEF OneForm
  <2>11. (Minted(text))'
    BY <2>2, <2>8, <2>9 DEF Minted
  <2> QED BY <1>2, <2>2, <2>5, <2>10, <2>11 DEF OnceInv
<1> QED BY <1>3, <1>4

LEMMA RestoreNextOnce == ASSUME PiiInv, OnceInv, NEW e \in todo, RestoreNext(e) PROVE OnceInv'
<1>1. /\ PiiTypeOK /\ stage' \in {"restore", "lost"} /\ e \in found /\ text \in Seq(Character) /\ found' = found
  BY DEF PiiInv, PiiTypeOK, RestoreNext
<1>2. MintedSoFar'
  BY <1>1 DEF MintedSoFar
<1>3. CASE ~ Holds(text, Sentinel(e))
  <2>1. text' = text
    BY <1>3 DEF RestoreNext
  <2> QED BY <1>1, <1>2, <2>1 DEF OnceInv, Distinct, OneForm, Minted
<1>4. CASE Holds(text, Sentinel(e))
  <2>1. Sentinel(e) \in Seq(Character) /\ text' = Replaced(text, Sentinel(e), VaultToken(e))
    BY <1>1, <1>4, EntityFacts DEF RestoreNext
  <2> DEFINE n == Len(Sentinel(e))
  <2>2. PICK p \in DOMAIN text :
          /\ Occurs(text, p, Sentinel(e)) /\ p - 1 \in Nat /\ p - 1 + n \in Nat
          /\ p - 1 <= p - 1 + n /\ p - 1 + n <= Len(text)
          /\ text' = Splice(text, p - 1, p - 1 + n, VaultToken(e))
    BY <1>1, <1>4, <2>1, ReplacedAt
  <2>3. \A i \in DOMAIN text : text[i][1] = e => i > p - 1 /\ i <= p - 1 + n
    BY <1>1, <2>2, SentinelIsAll
  <2>4. (Distinct(text) /\ OneForm(text) /\ Minted(text))'
    BY <1>1, <2>2, <2>3, FormStep
  <2> QED BY <1>2, <2>4 DEF OnceInv
<1> QED BY <1>3, <1>4

LEMMA ResolveNextOnce == ASSUME PiiInv, OnceInv, NEW e \in todo, ResolveNext(e) PROVE OnceInv'
<1> DEFINE new == Slice(Original, e.start, e.end)
<1>1. /\ PiiTypeOK /\ stage' = "resolve" /\ e \in found /\ text \in Seq(Character) /\ found' = found
      /\ text' = text \/ text' = Replaced(text, VaultToken(e), new)
  BY DEF PiiInv, PiiTypeOK, ResolveNext
<1>2. MintedSoFar'
  BY <1>1 DEF MintedSoFar
<1>3. CASE text' = text
  BY <1>1, <1>2, <1>3 DEF OnceInv, Distinct, OneForm, Minted
<1>4. CASE text' # text
  <2>1. VaultToken(e) \in Seq(Character)
    BY <1>1, EntityFacts
  <2>2. Holds(text, VaultToken(e)) /\ text' = Replaced(text, VaultToken(e), new)
    BY <1>1, <1>4, NotReplaced
  <2>3. new \in Seq(Character) /\ \A k \in DOMAIN new : new[k][1] = Raw
    <3>1. /\ new \in Seq(Character) /\ Len(new) = e.end - e.start
          /\ \A k \in 1..e.end - e.start : new[k] = <<Raw, e.start + k>>
      BY <1>1, SpanFacts
    <3> HIDE DEF new
    <3>2. DOMAIN new = 1..e.end - e.start
      BY <3>1
    <3> QED BY <3>1, <3>2
  <2> HIDE DEF new
  <2>4. PICK p \in DOMAIN text :
          /\ p - 1 \in Nat /\ p - 1 + Len(VaultToken(e)) \in Nat
          /\ p - 1 <= p - 1 + Len(VaultToken(e)) /\ p - 1 + Len(VaultToken(e)) <= Len(text)
          /\ text' = Splice(text, p - 1, p - 1 + Len(VaultToken(e)), new)
    BY <1>1, <2>1, <2>2, ReplacedAt
  <2>5. PICK a \in Nat, c \in Nat : a <= c /\ c <= Len(text) /\ text' = Splice(text, a, c, new)
    BY <2>4
  <2> DEFINE r == Splice(text, a, c, new)
  <2>6. Distinct(text) /\ OneForm(text) /\ Minted(text)
    BY DEF OnceInv
  <2>7. Distinct(r)
    <3>1. Distinct(new)
      BY <2>3 DEF Distinct
    <3>2. \A k \in DOMAIN new, i \in DOMAIN text : new[k][1] # Raw /\ new[k] = text[i] => i > a /\ i <= c
      BY <2>3
    <3> QED BY <1>1, <2>3, <2>5, <2>6, <3>1, <3>2, SpliceDistinct
  <2>8. \A j \in DOMAIN r : \/ \E i \in DOMAIN text : (i <= a \/ i > c) /\ r[j] = text[i]
                            \/ \E k \in DOMAIN new : r[j] = new[k]
    <3>1. text \in Seq(Character) /\ new \in Seq(Character)
      BY <1>1, <2>3
    <3>2. FromOutside(r, text, a, c, new)
      BY <2>5, <3>1, SpliceSources, Zenon
    <3> HIDE DEF r
    <3> QED BY <3>2 DEF FromOutside
  <2> HIDE DEF r
  <2>9. \A j \in DOMAIN r : r[j][1] = Raw \/ \E i \in DOMAIN text : r[j] = text[i]
    BY <2>3, <2>8
  <2>10. OneForm(r)
    <3> SUFFICES ASSUME NEW f \in found, NEW i \in DOMAIN r, NEW j \in DOMAIN r, r[i] = <<f, 0>>, r[j][1] = f
                 PROVE  r[j][2] = 0
      BY DEF OneForm
    <3>1. f # Raw /\ r[i][1] = f
      BY <1>1, EntityFacts
    <3>2. PICK x \in DOMAIN text : r[i] = text[x]
      BY <2>9, <3>1
    <3>3. PICK y \in DOMAIN text : r[j] = text[y]
      BY <2>9, <3>1
    <3> QED BY <2>6, <3>2, <3>3 DEF OneForm
  <2>11. Minted(r)
    BY <2>6, <2>9 DEF Minted
  <2>12. text' = r
    BY <2>5 DEF r
  <2>13. (OneForm(text))'
    BY <1>1, <2>10, <2>12 DEF OneForm
  <2>14. (Minted(text))'
    BY <1>1, <2>11, <2>12 DEF Minted
  <2> QED BY <1>2, <2>7, <2>12, <2>13, <2>14 DEF OnceInv
<1> QED BY <1>3, <1>4

LEMMA OnceStep == PiiInv /\ OnceInv /\ [PiiNext]_piiVars => OnceInv'
<1> SUFFICES ASSUME PiiInv, OnceInv, [PiiNext]_piiVars PROVE OnceInv'
  OBVIOUS
<1>1. CASE \E E \in Analyses : Mask(E)
  BY <1>1, MaskOnce
<1>2. CASE \E e \in todo : MaskNext(e)
  BY <1>2, MaskNextOnce
<1>3. CASE \E e \in todo : ProtectNext(e)
  BY <1>3, ProtectNextOnce
<1>4. CASE \E k \in 0..Len(text) : ProviderReturns(k)
  BY <1>4, ProviderReturnsOnce
<1>5. CASE \E e \in todo : RestoreNext(e)
  BY <1>5, RestoreNextOnce
<1>6. CASE \E e \in todo : ResolveNext(e)
  BY <1>6, ResolveNextOnce
<1>7. CASE Translate \/ ResolveForTool \/ DestroyAll \/ UNCHANGED piiVars
  <2>1. /\ found' = found /\ text' = text
        /\ stage' \in {"received", "mask"} => stage' = stage /\ todo' = todo
    BY <1>7 DEF Translate, ResolveForTool, DestroyAll, piiVars
  <2>2. MintedSoFar'
    BY <2>1 DEF OnceInv, MintedSoFar
  <2> QED BY <2>1, <2>2 DEF OnceInv, Distinct, OneForm, Minted
<1> QED BY <1>1, <1>2, <1>3, <1>4, <1>5, <1>6, <1>7 DEF PiiNext

LEMMA OnceImplies == PiiTypeOK /\ OnceInv => TokensOnce
<1> SUFFICES ASSUME PiiTypeOK, OnceInv, NEW e \in found, NEW i \in DOMAIN text, NEW j \in DOMAIN text,
                    \/ Occurs(text, i, VaultToken(e)) /\ Occurs(text, j, VaultToken(e))
                    \/ Occurs(text, i, Sentinel(e)) /\ Occurs(text, j, Sentinel(e))
             PROVE  i = j
  BY DEF TokensOnce
<1>1. /\ e # Raw /\ text \in Seq(Character) /\ 1 \in DOMAIN VaultToken(e) /\ 1 \in DOMAIN Sentinel(e)
      /\ VaultToken(e)[1] = <<e, 1>> /\ Sentinel(e)[1] = <<e, 0>>
  BY EntityFacts DEF PiiTypeOK, VaultToken, Sentinel
<1>2. i + 1 - 1 = i /\ j + 1 - 1 = j
  BY <1>1
<1>3. text[i] = text[j] /\ text[i][1] = e
  BY <1>1, <1>2 DEF Occurs
<1> QED BY <1>1, <1>3 DEF OnceInv, Distinct

\* What a text went through between the vault's two ends comes back, and nothing
\* shows before, each token standing in one place: for texts of any length,
\* tokens of any width and whatever any number of recognizers find in them
\* (pii.py:229-267, i18n.py:64-82).
THEOREM MaskingReversible == PiiInit /\ [][PiiNext]_piiVars => []MaskingIsReversible
<1>1. PiiInit => PiiInv /\ OnceInv
  BY PiiInitial, OnceInitial
<1>2. PiiInv /\ OnceInv /\ [PiiNext]_piiVars => (PiiInv /\ OnceInv)'
  BY PiiStep, OnceStep
<1>3. PiiInv /\ OnceInv => MaskingIsReversible
  BY PiiImplies, OnceImplies DEF MaskingIsReversible, PiiInv
<1> QED BY <1>1, <1>2, <1>3, PTL
=============================================================================
