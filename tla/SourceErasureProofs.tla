-------------------------- MODULE SourceErasureProofs --------------------------
(***************************************************************************)
(* Theorems about SourceErasure, for any sources, texts, documents, jobs,  *)
(* stores and bounds.                                                      *)
(*                                                                         *)
(* Three arguments share the shape of a job's record.  A certificate: the  *)
(* moments of what is stored only grow, so what an erasure removed of the  *)
(* time before it began stays removed.  The lineage: a source that was     *)
(* never disturbed has one job, and where that job stands says how far its *)
(* lineage and its chunks are apart.  The figures: every deletion's figure *)
(* is a set of numbered chunks, and each step moves one such set.          *)
(***************************************************************************)
EXTENDS SourceErasure, FiniteSetTheorems, FunctionTheorems, SequenceTheorems, NaturalsInduction, WellFoundedInduction, TLAPS

-----------------------------------------------------------------------------
(* The record of a job.                                                     *)

Shaped(b) ==
  /\ b \in Job
  /\ b.at = "idle" => b = Idle
  /\ b.at # "idle" => b.source \in Sources
  /\ b.at \in {"hashes", "upsert", "record"} => b.op = "sync" /\ b.chunks \in Documents
  /\ b.at \in {"upsert", "record"} => b.left # {}
  /\ b.left \subseteq DOMAIN b.chunks
  /\ \A i \in b.left : b.chunks[i] \notin Excluded
  /\ b.at \in {"count", "delete"} => b.op \in {"delete", "erase"}
  /\ b.at = "clear" => b.op = "delete"
  /\ b.at \in {"shred", "append", "sign"} => b.op = "erase"
  /\ b.op = "erase" => b.since <= stamp
  /\ b.at = "sign" => b.row # 0

LEMMA IdleShaped == ASSUME TypeOK PROVE Shaped(Idle)
<1>1. <<>> \in Seq(Texts) /\ stamp \in Nat
  BY BoundsAssumption DEF TypeOK
<1> QED BY <1>1 DEF Shaped, Idle, Job, Places

\* The chunks of a source can be counted.
LEMMA StoreFinite ==
  ASSUME IsFiniteSet(store), NEW u
  PROVE  IsFiniteSet(ChunksOf(u)) /\ Cardinality(ChunksOf(u)) \in Nat
<1>1. ChunksOf(u) \in SUBSET store
  BY DEF ChunksOf
<1> QED BY <1>1, FS_Subset, FS_CardinalityType

Shapes ==
  /\ TypeOK
  /\ IsFiniteSet(store)
  /\ \A j \in Jobs : Shaped(job[j])

LEMMA InitShapes == Init => Shapes
<1> SUFFICES ASSUME Init PROVE Shapes
  OBVIOUS
<1>1. Idle \in Job
  BY DEF Idle, Job, Places
<1>2. TypeOK
  <2>1. 0 \in 0..MaxStamp /\ 0 \in 0..MaxFaults
    BY BoundsAssumption
  <2>2. job \in [Jobs -> Job]
    BY <1>1 DEF Init
  <2>3. audit \in Seq(Row)
    BY DEF Init
  <2> QED BY <2>1, <2>2, <2>3 DEF Init, TypeOK
<1>3. \A j \in Jobs : Shaped(job[j])
  BY <1>2, IdleShaped DEF Init
<1> QED BY <1>2, <1>3, FS_EmptySet DEF Init, Shapes

\* What a step of a job j makes of its record.
LEMMA NextRecord ==
  ASSUME Shapes, NEW j \in Jobs,
         Work(j) \/ Die(j) \/ \E u \in Sources : StartSync(j, u) \/ StartDelete(j, u) \/ StartErase(j, u)
  PROVE  \E next : job' = [job EXCEPT ![j] = next] /\ Shaped(next)
<1> DEFINE b == job[j]
<1>1. /\ b \in Job /\ Shaped(b) /\ TypeOK /\ IsFiniteSet(store) /\ stamp \in Nat
      /\ b.op \in {"none", "sync", "delete", "erase"} /\ b.source \in Sources \cup {NoSource}
      /\ b.at \in Places /\ b.chunks \in Seq(Texts) /\ b.left \in SUBSET Nat
      /\ b.deleted \in Nat /\ b.removed \in Nat /\ b.since \in Nat /\ b.row \in Nat
  <2>1. b \in Job /\ Shaped(b) /\ TypeOK /\ IsFiniteSet(store) /\ stamp \in Nat
    BY BoundsAssumption DEF Shapes, TypeOK
  <2> QED BY <2>1 DEF Job
<1>2. Shaped(Idle)
  BY <1>1, IdleShaped
<1>3. ASSUME NEW u \in Sources, StartSync(j, u)
      PROVE  \E next : job' = [job EXCEPT ![j] = next] /\ Shaped(next)
  <2>1. document[u] \in Documents /\ document[u] \in Seq(Texts)
    BY <1>1, TextsAssumption DEF TypeOK
  <2>2. Shaped([Idle EXCEPT !.op = "sync", !.source = u, !.at = "hashes",
                            !.chunks = document[u]])
    <3> DEFINE text == document[u]
    <3>1. text \in Seq(Texts) /\ text \in Documents
      BY <2>1, Zenon
    <3> HIDE DEF text
    <3>2. Shaped([Idle EXCEPT !.op = "sync", !.source = u, !.at = "hashes", !.chunks = text])
      BY <3>1 DEF Shaped, Idle, Job, Places
    <3> QED BY <3>2 DEF text
  <2> QED BY <1>3, <2>2 DEF StartSync, Begin
<1>4. ASSUME NEW u \in Sources, StartDelete(j, u) \/ StartErase(j, u)
      PROVE  \E next : job' = [job EXCEPT ![j] = next] /\ Shaped(next)
  <2>1. FirstOfDelete \in {"count", "delete"} /\ <<>> \in Seq(Texts)
    BY DEF FirstOfDelete
  <2>2. Shaped([Idle EXCEPT !.op = "delete", !.source = u, !.at = FirstOfDelete])
    BY <2>1 DEF Shaped, Idle, Job, Places
  <2>3. Shaped([Idle EXCEPT !.op = "erase", !.source = u, !.at = FirstOfDelete,
                            !.since = stamp])
    <3> DEFINE at == FirstOfDelete
    <3>1. at \in {"count", "delete"} /\ stamp \in Nat /\ stamp <= stamp
      BY <1>1, <2>1
    <3> HIDE DEF at
    <3>2. Shaped([Idle EXCEPT !.op = "erase", !.source = u, !.at = at, !.since = stamp])
      BY <2>1, <3>1 DEF Shaped, Idle, Job, Places
    <3> QED BY <3>2 DEF at
  <2> QED BY <1>4, <2>2, <2>3 DEF StartDelete, StartErase, Begin
<1>5. CASE ReadHashes(j)
  <2>1. NewChunks(j) \subseteq DOMAIN b.chunks /\ \A i \in NewChunks(j) : b.chunks[i] \notin Excluded
    BY DEF NewChunks
  <2>2. DOMAIN b.chunks \subseteq Nat
    BY <1>1, LenProperties
  <2>3. b.at = "hashes"
    BY <1>5 DEF ReadHashes
  <2>4. NewChunks(j) # {} => Shaped([b EXCEPT !.at = "upsert", !.left = NewChunks(j)])
    BY <1>1, <2>1, <2>2, <2>3 DEF Shaped, Job, Places
  <2> QED BY <1>2, <1>5, <2>4 DEF ReadHashes, Step
<1>6. CASE Upsert(j)
  <2>1. b.at = "upsert"
    BY <1>6 DEF Upsert
  <2>2. Shaped([b EXCEPT !.at = "record"])
    BY <1>1, <2>1 DEF Shaped, Job, Places
  <2> QED BY <1>6, <2>2 DEF Upsert, Step
<1>7. CASE Record(j)
  <2>1. b.at = "record"
    BY <1>7 DEF Record
  <2>2. b.left # {FirstLeft(j)} => Shaped([b EXCEPT !.left = @ \ {FirstLeft(j)}])
    <3> DEFINE rest == b.left \ {FirstLeft(j)}
    <3>1. rest \subseteq b.left /\ (b.left # {FirstLeft(j)} /\ b.left # {} => rest # {})
      OBVIOUS
    <3>2. [b EXCEPT !.left = @ \ {FirstLeft(j)}] = [b EXCEPT !.left = rest]
      BY <1>1 DEF Shaped, Job
    <3> HIDE DEF rest
    <3> QED BY <1>1, <2>1, <3>1, <3>2 DEF Shaped, Job, Places
  <2> QED BY <1>2, <1>7, <2>2 DEF Record, Step
<1>8. CASE Count(j)
  <2>1. b.at = "count" /\ Cardinality(ChunksOf(b.source)) \in Nat
    BY <1>1, <1>8, StoreFinite DEF Count
  <2>2. Shaped([b EXCEPT !.at = "delete", !.deleted = Cardinality(ChunksOf(b.source))])
    BY <1>1, <2>1 DEF Shaped, Job, Places
  <2> QED BY <1>8, <2>2 DEF Count, Step
<1>9. CASE Delete(j)
  <2> DEFINE removed == Cardinality(Doomed(b.source))
             at == IF b.op = "erase" THEN "shred" ELSE "clear"
  <2>1. b.at = "delete" /\ removed \in Nat /\ Figure(j, removed) \in Nat
    BY <1>1, <1>9, StoreFinite DEF Delete, Doomed, Figure
  <2>2. job' = [job EXCEPT ![j] = [b EXCEPT !.at = at, !.deleted = Figure(j, removed),
                                            !.removed = removed]]
    BY <1>9 DEF Delete, Step
  <2>3. at \in {"shred", "clear"} /\ (at = "shred" <=> b.op = "erase") /\ b.op \in {"delete", "erase"}
    BY <1>1, <2>1 DEF Shaped
  <2> HIDE DEF removed, at
  <2>4. Shaped([b EXCEPT !.at = at, !.deleted = Figure(j, removed), !.removed = removed])
    BY <1>1, <2>1, <2>3 DEF Shaped, Job, Places
  <2> QED BY <2>2, <2>4
<1>10. CASE Shred(j)
  <2>1. b.at = "shred"
    BY <1>10 DEF Shred
  <2>2. Shaped([b EXCEPT !.at = "append"])
    BY <1>1, <2>1 DEF Shaped, Job, Places
  <2> QED BY <1>10, <2>2 DEF Shred, Step
<1>11. CASE Clear(j) \/ Sign(j) \/ Die(j)
  BY <1>2, <1>11 DEF Clear, Sign, Die, Step
<1>12. CASE AppendRow(j)
  <2>1. b.at = "append" /\ Len(audit) + 1 \in Nat /\ Len(audit) + 1 # 0
    <3>1. b.at = "append"
      BY <1>12 DEF AppendRow
    <3>2. Len(audit) \in Nat
      BY <1>1, LenProperties DEF TypeOK
    <3> QED BY <3>1, <3>2
  <2>2. Shaped([b EXCEPT !.at = "sign", !.row = Len(audit) + 1])
    BY <1>1, <2>1 DEF Shaped, Job, Places
  <2> QED BY <1>12, <2>2 DEF AppendRow, Step
<1> QED BY <1>3, <1>4, <1>5, <1>6, <1>7, <1>8, <1>9, <1>10, <1>11, <1>12 DEF Work

\* The moment never runs backwards.
LEMMA StampGrows ==
  ASSUME TypeOK, [Next]_vars
  PROVE  stamp \in Nat /\ stamp' \in 0..MaxStamp /\ stamp <= stamp'
<1>1. stamp \in 0..MaxStamp /\ stamp \in Nat /\ MaxStamp \in Nat
  BY BoundsAssumption DEF TypeOK
<1>2. stamp' = stamp \/ (stamp < MaxStamp /\ stamp' = stamp + 1)
  <2>1. ASSUME NEW j \in Jobs, Work(j) \/ Die(j)
        PROVE  stamp' = stamp \/ (stamp < MaxStamp /\ stamp' = stamp + 1)
    BY <2>1 DEF Work, ReadHashes, Upsert, Record, Count, Delete, Shred, Clear, AppendRow, Sign, Die
  <2>2. ASSUME NEW j \in Jobs, NEW u \in Sources,
               StartSync(j, u) \/ StartDelete(j, u) \/ StartErase(j, u)
        PROVE  stamp' = stamp
    BY <2>2 DEF StartSync, StartDelete, StartErase, Begin
  <2>3. (Tokenize => stamp < MaxStamp /\ stamp' = stamp + 1)
        /\ \A u \in Sources : Edit(u) => stamp' = stamp
    BY DEF Tokenize, Edit
  <2> QED BY <2>1, <2>2, <2>3 DEF Next, vars
<1> QED BY <1>1, <1>2

LEMMA RecordsStep ==
  ASSUME Shapes, [Next]_vars
  PROVE  job' \in [Jobs -> Job] /\ \A k \in Jobs : Shaped(job[k])'
<1>1. stamp \in Nat /\ stamp' \in Nat /\ stamp <= stamp' /\ job \in [Jobs -> Job]
  BY StampGrows, BoundsAssumption DEF Shapes, TypeOK
<1>2. ASSUME NEW b, Shaped(b), NEW k \in Jobs, job'[k] = b PROVE b \in Job /\ Shaped(job[k])'
  <2>1. b.since \in Nat
    BY <1>2 DEF Shaped, Job
  <2> QED BY <1>1, <1>2, <2>1 DEF Shaped
<1>3. CASE job' = job
  BY <1>1, <1>2, <1>3 DEF Shapes
<1>4. ASSUME NEW j \in Jobs, NEW next, job' = [job EXCEPT ![j] = next], Shaped(next)
      PROVE  job' \in [Jobs -> Job] /\ \A k \in Jobs : Shaped(job[k])'
  <2>1. next \in Job
    BY <1>4 DEF Shaped
  <2>2. job' \in [Jobs -> Job]
    BY <1>1, <1>4, <2>1
  <2>3. ASSUME NEW k \in Jobs PROVE Shaped(job[k])'
    <3>1. job'[k] = IF k = j THEN next ELSE job[k]
      BY <1>1, <1>4
    <3> QED BY <1>2, <1>4, <3>1 DEF Shapes
  <2> QED BY <2>2, <2>3
<1>5. \/ job' = job
      \/ \E j \in Jobs : Work(j) \/ Die(j)
           \/ \E u \in Sources : StartSync(j, u) \/ StartDelete(j, u) \/ StartErase(j, u)
  BY DEF Next, vars, Edit, Tokenize
<1> QED BY <1>3, <1>4, <1>5, NextRecord

\* What a job has in its hands.
LEMMA JobFacts ==
  ASSUME Shapes, NEW j \in Jobs, job[j].at # "idle"
  PROVE  /\ job[j].source \in Sources /\ job[j].at \in Places
         /\ job[j].chunks \in Seq(Texts) /\ DOMAIN job[j].chunks = 1..Len(job[j].chunks)
         /\ Len(job[j].chunks) \in Nat
         /\ job[j].left \subseteq DOMAIN job[j].chunks
         /\ IsFiniteSet(job[j].left) /\ Cardinality(job[j].left) \in Nat
         /\ \A i \in job[j].left : job[j].chunks[i] \in Texts \ Excluded
         /\ job[j].deleted \in Nat /\ job[j].removed \in Nat /\ job[j].since \in Nat
         /\ job[j].row \in Nat
<1>1. job[j] \in Job /\ Shaped(job[j])
  BY DEF Shapes, Shaped
<1>2. job[j].chunks \in Seq(Texts) /\ DOMAIN job[j].chunks = 1..Len(job[j].chunks)
      /\ Len(job[j].chunks) \in Nat /\ job[j].left \subseteq DOMAIN job[j].chunks
  BY <1>1, LenProperties DEF Job, Shaped
<1>3. \A i \in job[j].left : job[j].chunks[i] \in Texts \ Excluded
  BY <1>1, <1>2, ElementOfSeq DEF Shaped
<1>4. IsFiniteSet(job[j].left) /\ Cardinality(job[j].left) \in Nat
  <2>1. IsFiniteSet(1..Len(job[j].chunks))
    BY <1>2, FS_Interval
  <2> QED BY <1>2, <2>1, FS_Subset, FS_CardinalityType
<1> QED BY <1>1, <1>2, <1>3, <1>4 DEF Shaped, Job

LEMMA LeastNatural ==
  ASSUME NEW S \in SUBSET Nat, S # {}
  PROVE  \E n \in S : \A m \in S : n <= m
<1> DEFINE R == OpToRel(<, Nat)
<1>1. IsWellFoundedOn(R, Nat)
  BY NatLessThanWellFounded, Zenon
<1>2. \A x, y \in Nat : x < y => <<x, y>> \in R
  BY Zenon DEF OpToRel
<1> HIDE DEF R
<1>3. PICK n \in S : \A y \in S : ~ (<<y, n>> \in R)
  BY <1>1, WFMin
<1>4. ASSUME NEW m \in S PROVE n <= m
  <2>1. n \in Nat /\ m \in Nat
    OBVIOUS
  <2>2. ~ m < n
    BY <1>2, <1>3, <2>1, Zenon
  <2> QED BY <2>1, <2>2
<1> QED BY <1>4

\* The place whose lineage row comes next is one that is left.
LEMMA FirstIsLeft ==
  ASSUME Shapes, NEW j \in Jobs, job[j].at = "record"
  PROVE  FirstLeft(j) \in job[j].left
<1>1. job[j].left \in SUBSET Nat /\ job[j].left # {}
  BY DEF Shapes, Shaped, Job
<1>2. \E m \in job[j].left : \A k \in job[j].left : m <= k
  BY <1>1, LeastNatural
<1> QED BY <1>2 DEF FirstLeft, Min

\* What an upsert stores.
Stored(j) ==
  {[source |-> job[j].source, text |-> job[j].chunks[i], stamp |-> stamp + 1, place |-> i] :
     i \in job[j].left}

LEMMA StoredFacts ==
  ASSUME Shapes, NEW j \in Jobs, job[j].at = "upsert"
  PROVE  /\ IsFiniteSet(Stored(j)) /\ Cardinality(Stored(j)) = Cardinality(job[j].left)
         /\ Stored(j) \subseteq Chunk
         /\ \A c \in Stored(j) : c.source = job[j].source /\ c.stamp = stamp + 1
<1>1. /\ job[j].source \in Sources /\ IsFiniteSet(job[j].left) /\ stamp + 1 \in Nat
      /\ \A i \in job[j].left : job[j].chunks[i] \in Texts \ Excluded /\ i \in Nat
  <2>1. stamp + 1 \in Nat
    BY BoundsAssumption DEF Shapes, TypeOK
  <2> QED BY <2>1, JobFacts
<1> DEFINE new(i) == [source |-> job[j].source, text |-> job[j].chunks[i],
                      stamp |-> stamp + 1, place |-> i]
           f == [i \in job[j].left |-> new(i)]
<1>2. f \in Bijection(job[j].left, Stored(j))
  <2>1. f \in [job[j].left -> Stored(j)]
    BY DEF Stored
  <2>2. \A i, k \in job[j].left : f[i] = f[k] => i = k
    <3>1. \A i \in job[j].left : f[i].place = i
      OBVIOUS
    <3> HIDE DEF f
    <3> QED BY <3>1
  <2>3. \A c \in Stored(j) : \E i \in job[j].left : f[i] = c
    BY DEF Stored
  <2> HIDE DEF f
  <2> QED BY <2>1, <2>2, <2>3, Fun_IsBij
<1>3. ExistsBijection(job[j].left, Stored(j))
  BY <1>2 DEF ExistsBijection
<1>4. IsFiniteSet(Stored(j)) /\ Cardinality(Stored(j)) = Cardinality(job[j].left)
  BY <1>1, <1>3, FS_Bijection
<1> QED BY <1>1, <1>4 DEF Stored, Chunk

LEMMA UpsertStores ==
  ASSUME Shapes, NEW j \in Jobs, Upsert(j)
  PROVE  job[j].at = "upsert" /\ store' = store \cup Stored(j)
BY DEF Upsert, Stored

\* A step of a job, by itself.
Acts(j) ==
  Work(j) \/ Die(j)
    \/ \E u \in Sources : StartSync(j, u) \/ StartDelete(j, u) \/ StartErase(j, u)

LEMMA StepKinds ==
  ASSUME [Next]_vars
  PROVE  \/ \E j \in Jobs : Acts(j)
         \/ UNCHANGED <<stores, job, history, faults, stamp>>
            /\ (document' = document \/ \E u \in Sources : Edit(u))
         \/ Tokenize
BY DEF Next, vars, Edit, Acts

\* What a call's start and its work leave alone.
LEMMA StartLeaves ==
  ASSUME NEW j \in Jobs, NEW u \in Sources,
         StartSync(j, u) \/ StartDelete(j, u) \/ StartErase(j, u)
  PROVE  UNCHANGED <<document, stores, stamp, upserted, reported, lost, erased, faults>>
BY DEF StartSync, StartDelete, StartErase, Begin

LEMMA WorkLeaves ==
  ASSUME NEW j \in Jobs, Work(j)
  PROVE  UNCHANGED <<backend, document, lost, disturbed, faults>>
<1>1. CASE ReadHashes(j) \/ Upsert(j) \/ Record(j) \/ Count(j)
  BY <1>1 DEF ReadHashes, Upsert, Record, Count, stores, history
<1>2. CASE Delete(j) \/ Shred(j) \/ Clear(j)
  BY <1>2 DEF Delete, Shred, Clear, history
<1>3. CASE AppendRow(j) \/ Sign(j)
  BY <1>3 DEF AppendRow, Sign, history
<1> QED BY <1>1, <1>2, <1>3 DEF Work

\* The deployment's store is never another.
LEMMA SameBackend == ASSUME [Next]_vars PROVE backend' = backend
<1>1. ASSUME NEW j \in Jobs, Acts(j) PROVE backend' = backend
  <2>1. CASE Work(j)
    BY <2>1, WorkLeaves
  <2>2. CASE Die(j)
    BY <2>2 DEF Die, stores
  <2> QED BY <1>1, <2>1, <2>2, StartLeaves DEF Acts, stores
<1>2. CASE Tokenize
  BY <1>2 DEF Tokenize
<1> QED BY <1>1, <1>2, StepKinds DEF stores

LEMMA CountersTyped ==
  ASSUME Shapes, [Next]_vars
  PROVE  /\ \A f \in {upserted', reported', lost'} : f \in [Sources -> Nat]
         /\ \A f \in {disturbed', erased'} : f \in [Sources -> BOOLEAN]
<1>1. /\ upserted \in [Sources -> Nat] /\ reported \in [Sources -> Nat]
      /\ lost \in [Sources -> Nat] /\ disturbed \in [Sources -> BOOLEAN]
      /\ erased \in [Sources -> BOOLEAN]
  BY DEF Shapes, TypeOK
<1>2. upserted' \in [Sources -> Nat]
  <2>1. CASE \E j \in Jobs : Upsert(j)
    <3>1. PICK j \in Jobs : Upsert(j)
      BY <2>1
    <3>2. job[j].at = "upsert"
      BY <3>1 DEF Upsert
    <3>3. job[j].source \in Sources /\ Cardinality(job[j].left) \in Nat
      BY <3>2, JobFacts
    <3>4. upserted' = [upserted EXCEPT ![job[j].source] = @ + Cardinality(job[j].left)]
      BY <3>1 DEF Upsert
    <3> QED BY <1>1, <3>3, <3>4
  <2>2. CASE upserted' = upserted
    BY <1>1, <2>2
  <2> QED BY <2>1, <2>2, StepKinds DEF Acts, Work, ReadHashes, Record, Count, Delete, Shred,
             Clear, AppendRow, Sign, Die, StartSync, StartDelete, StartErase, Begin, Tokenize,
             history
<1>3. reported' \in [Sources -> Nat]
  <2>1. CASE \E j \in Jobs : Clear(j)
    <3>1. PICK j \in Jobs : Clear(j)
      BY <2>1
    <3>2. job[j].at = "clear"
      BY <3>1 DEF Clear
    <3>3. job[j].source \in Sources /\ job[j].deleted \in Nat
      BY <3>2, JobFacts
    <3>4. reported' = [reported EXCEPT ![job[j].source] = @ + job[j].deleted]
      BY <3>1 DEF Clear
    <3> QED BY <1>1, <3>3, <3>4
  <2>2. CASE reported' = reported
    BY <1>1, <2>2
  <2> QED BY <2>1, <2>2, StepKinds DEF Acts, Work, ReadHashes, Upsert, Record, Count, Delete,
             Shred, AppendRow, Sign, Die, StartSync, StartDelete, StartErase, Begin, Tokenize,
             history
<1>4. lost' \in [Sources -> Nat]
  <2>1. CASE \E j \in Jobs : Die(j)
    <3>1. PICK j \in Jobs : Die(j)
      BY <2>1
    <3>2. job[j].source \in Sources /\ job[j].deleted \in Nat
      BY <3>1, JobFacts DEF Die
    <3>3. lost' = lost \/ lost' = [lost EXCEPT ![job[j].source] = @ + job[j].deleted]
      BY <3>1 DEF Die
    <3> QED BY <1>1, <3>2, <3>3
  <2>2. CASE lost' = lost
    BY <1>1, <2>2
  <2> QED BY <2>1, <2>2, StepKinds DEF Acts, Work, ReadHashes, Upsert, Record, Count, Delete,
             Shred, Clear, AppendRow, Sign, StartSync, StartDelete, StartErase, Begin, Tokenize,
             history
<1>5. disturbed' \in [Sources -> BOOLEAN] /\ erased' \in [Sources -> BOOLEAN]
  <2>1. \/ disturbed' = disturbed
        \/ \E u \in Sources, d \in BOOLEAN : disturbed' = [disturbed EXCEPT ![u] = d]
        \/ \E u, d : disturbed' = [disturbed EXCEPT ![u] = d] /\ d = TRUE
    <3>1. ASSUME NEW j \in Jobs, NEW u \in Sources, NEW first, Begin(j, u, first)
          PROVE  \E d \in BOOLEAN : disturbed' = [disturbed EXCEPT ![u] = d]
      <4>1. (disturbed[u] \/ JobsOn(u) # {}) \in BOOLEAN
        OBVIOUS
      <4> QED BY <3>1, <4>1 DEF Begin
    <3>2. ASSUME NEW j \in Jobs, Die(j)
          PROVE  \E u, d : disturbed' = [disturbed EXCEPT ![u] = d] /\ d = TRUE
      BY <3>2 DEF Die
    <3>3. CASE Tokenize
      BY <3>3 DEF Tokenize, history
    <3>4. ASSUME NEW j \in Jobs, NEW u \in Sources,
                 StartSync(j, u) \/ StartDelete(j, u) \/ StartErase(j, u)
          PROVE  \E d \in BOOLEAN : disturbed' = [disturbed EXCEPT ![u] = d]
      BY <3>1, <3>4 DEF StartSync, StartDelete, StartErase
    <3> QED BY <3>2, <3>3, <3>4, StepKinds, WorkLeaves DEF Acts, history
  <2>2. \/ erased' = erased
        \/ \E u, d : erased' = [erased EXCEPT ![u] = d] /\ d \in BOOLEAN
    <3>1. ASSUME NEW j \in Jobs, Delete(j)
          PROVE  \E u, d : erased' = [erased EXCEPT ![u] = d] /\ d \in BOOLEAN
      <4>1. (erased[job[j].source] \/ job[j].op = "erase") \in BOOLEAN
        OBVIOUS
      <4> QED BY <3>1, <4>1 DEF Delete
    <3>2. ASSUME NEW j \in Jobs, Clear(j)
          PROVE  \E u, d : erased' = [erased EXCEPT ![u] = d] /\ d \in BOOLEAN
      BY <3>2 DEF Clear
    <3>3. ASSUME NEW j \in Jobs,
                 ReadHashes(j) \/ Upsert(j) \/ Record(j) \/ Count(j) \/ Shred(j) \/ AppendRow(j) \/ Sign(j)
          PROVE  erased' = erased
      BY <3>3 DEF ReadHashes, Upsert, Record, Count, Shred, AppendRow, Sign, history
    <3>4. ASSUME NEW j \in Jobs, Die(j) PROVE erased' = erased
      BY <3>4 DEF Die
    <3>5. CASE Tokenize
      BY <3>5 DEF Tokenize, history
    <3> QED BY <3>1, <3>2, <3>3, <3>4, <3>5, StepKinds, StartLeaves DEF Acts, Work, history
  <2> QED BY <1>1, <2>1, <2>2
<1> QED BY <1>2, <1>3, <1>4, <1>5

LEMMA StoresTyped ==
  ASSUME Shapes, [Next]_vars
  PROVE  /\ store' \subseteq Chunk /\ IsFiniteSet(store')
         /\ lineage' \in [Sources -> SUBSET (Texts \ Excluded)]
         /\ tokens' \subseteq Nat /\ audit' \in Seq(Row) /\ certificates' \subseteq Certificate
<1>1. /\ store \subseteq Chunk /\ IsFiniteSet(store) /\ audit \in Seq(Row)
      /\ lineage \in [Sources -> SUBSET (Texts \ Excluded)] /\ tokens \subseteq Nat
      /\ certificates \subseteq Certificate /\ stamp + 1 \in Nat
  BY BoundsAssumption DEF Shapes, TypeOK
<1>2. CASE \E j \in Jobs : Upsert(j)
  <2>1. PICK j \in Jobs : Upsert(j)
    BY <1>2
  <2>2. store' = store \cup Stored(j) /\ Stored(j) \subseteq Chunk /\ IsFiniteSet(Stored(j))
    BY <2>1, UpsertStores, StoredFacts
  <2>3. IsFiniteSet(store')
    BY <1>1, <2>2, FS_Union
  <2> QED BY <1>1, <2>1, <2>2, <2>3 DEF Upsert
<1>3. CASE \E j \in Jobs : Record(j)
  <2>1. PICK j \in Jobs : Record(j)
    BY <1>3
  <2>2. job[j].chunks[FirstLeft(j)] \in Texts \ Excluded /\ job[j].source \in Sources
    BY <2>1, JobFacts, FirstIsLeft DEF Record
  <2>3. lineage' = [lineage EXCEPT ![job[j].source] =
                      lineage[job[j].source] \cup {job[j].chunks[FirstLeft(j)]}]
    BY <2>1 DEF Record
  <2>4. lineage' \in [Sources -> SUBSET (Texts \ Excluded)]
    <3>1. lineage[job[j].source] \cup {job[j].chunks[FirstLeft(j)]} \subseteq Texts \ Excluded
      BY <1>1, <2>2
    <3> QED BY <1>1, <2>2, <2>3, <3>1
  <2> QED BY <1>1, <2>1, <2>4 DEF Record
<1>4. CASE \E j \in Jobs : Delete(j)
  <2>1. PICK j \in Jobs : Delete(j)
    BY <1>4
  <2>2. IsFiniteSet(store') /\ store' \subseteq Chunk
    BY <1>1, <2>1, FS_Difference DEF Delete
  <2> QED BY <1>1, <2>1, <2>2 DEF Delete
<1>5. CASE \E j \in Jobs : AppendRow(j)
  <2>1. PICK j \in Jobs : AppendRow(j)
    BY <1>5
  <2>2. [source |-> job[j].source, chunks_deleted |-> job[j].deleted] \in Row
    BY <2>1, JobFacts DEF AppendRow, Row
  <2>3. audit' \in Seq(Row)
    BY <1>1, <2>1, <2>2, AppendProperties DEF AppendRow
  <2> QED BY <1>1, <2>1, <2>3 DEF AppendRow
<1>6. CASE \E j \in Jobs : ReadHashes(j) \/ Count(j) \/ Die(j)
             \/ \E u \in Sources : StartSync(j, u) \/ StartDelete(j, u) \/ StartErase(j, u)
  <2>1. UNCHANGED stores
    BY <1>6, StartLeaves DEF ReadHashes, Count, Die
  <2> QED BY <1>1, <2>1 DEF stores
<1>9. CASE \E j \in Jobs : Shred(j) \/ Clear(j)
  BY <1>1, <1>9 DEF Shred, Clear
<1>8. CASE \E j \in Jobs : Sign(j)
  <2>1. PICK j \in Jobs : Sign(j)
    BY <1>8
  <2>2. job[j].at = "sign" /\ job[j].row # 0
    BY <2>1 DEF Sign, Shapes, Shaped
  <2>3. [source |-> job[j].source, chunks_deleted |-> job[j].deleted, row |-> job[j].row,
         since |-> job[j].since, removed |-> job[j].removed] \in Certificate
    BY <2>2, JobFacts DEF Certificate
  <2>4. certificates' \subseteq Certificate
    BY <1>1, <2>1, <2>3 DEF Sign
  <2> QED BY <1>1, <2>1, <2>4 DEF Sign
<1>7. CASE Tokenize \/ UNCHANGED <<stores, job, history, faults, stamp>>
  BY <1>1, <1>7 DEF Tokenize, stores
<1> QED BY <1>2, <1>3, <1>4, <1>5, <1>6, <1>7, <1>8, <1>9, StepKinds DEF Acts, Work

LEMMA ShapesStep ==
  ASSUME Shapes, [Next]_vars
  PROVE  Shapes'
<1>1. backend' = backend
  BY SameBackend
<1>2. document' \in [Sources -> Documents]
  <2>1. ASSUME NEW j \in Jobs, Acts(j) PROVE document' = document
    <3>1. CASE Die(j)
      BY <3>1 DEF Die
    <3> QED BY <2>1, <3>1, WorkLeaves, StartLeaves DEF Acts
  <2>2. document' = document \/ document' \in [Sources -> Documents]
    BY <2>1, StepKinds DEF Edit, Tokenize
  <2> QED BY <2>2 DEF Shapes, TypeOK
<1>3. faults' \in 0..MaxFaults
  <2>1. faults \in 0..MaxFaults /\ MaxFaults \in Nat
    BY BoundsAssumption DEF Shapes, TypeOK
  <2>2. faults' = faults \/ (faults < MaxFaults /\ faults' = faults + 1)
    <3>1. ASSUME NEW j \in Jobs, Acts(j)
          PROVE  faults' = faults \/ (faults < MaxFaults /\ faults' = faults + 1)
      <4>1. CASE Die(j)
        BY <4>1 DEF Die
      <4> QED BY <3>1, <4>1, WorkLeaves, StartLeaves DEF Acts
    <3> QED BY <3>1, StepKinds DEF Tokenize
  <2> QED BY <2>1, <2>2
<1>4. stamp' \in 0..MaxStamp
  BY StampGrows DEF Shapes
<1>5. backend' \in Backends
  BY <1>1 DEF Shapes, TypeOK
<1>6. TypeOK'
  BY <1>2, <1>3, <1>4, <1>5, RecordsStep, StoresTyped, CountersTyped DEF TypeOK
<1> QED BY <1>6, RecordsStep, StoresTyped DEF Shapes

-----------------------------------------------------------------------------
(* Certificates.                                                            *)

\* What has been done for the certificate of the erasure b.
Cleared(b) ==
  /\ b.at \in {"shred", "append", "sign"} =>
       \A chunk \in store : chunk.source = b.source => chunk.stamp > b.since
  /\ b.at \in {"append", "sign"} => \A token \in tokens : token > b.since
  /\ b.at = "sign" =>
       /\ b.row \in 1..Len(audit)
       /\ audit[b.row] = [source |-> b.source, chunks_deleted |-> b.deleted]
       /\ \A c \in certificates : c.row # b.row

\* What is stored was stored by now, and every certificate has a row of its own.
Certified ==
  /\ \A chunk \in store : chunk.stamp <= stamp
  /\ \A token \in tokens : token <= stamp
  /\ \A j \in Jobs : Cleared(job[j])
  /\ \A j, k \in Jobs :
       job[j].at = "sign" /\ job[k].at = "sign" /\ job[j].row = job[k].row => j = k
  /\ \A c \in certificates : c.since <= stamp /\ c.row \in 1..Len(audit)
  /\ CertificateHolds

\* A step changes the record of the job that takes it, and no other.
LEMMA OneMoves ==
  ASSUME Shapes, NEW j \in Jobs, NEW next, job' = [job EXCEPT ![j] = next]
  PROVE  job'[j] = next /\ \A k \in Jobs : k # j => job'[k] = job[k]
BY DEF Shapes, TypeOK

LEMMA CertifiedStep ==
  ASSUME Shapes, Certified, [Next]_vars
  PROVE  Certified'
<1>1. /\ store \subseteq Chunk /\ audit \in Seq(Row) /\ tokens \subseteq Nat
      /\ certificates \subseteq Certificate /\ stamp \in Nat /\ Len(audit) \in Nat
      /\ DOMAIN audit = 1..Len(audit)
      /\ \A chunk \in store : chunk.stamp \in Nat
      /\ \A c \in certificates : c.since \in Nat /\ c.row \in Nat
  <2>1. store \subseteq Chunk /\ audit \in Seq(Row) /\ tokens \subseteq Nat
        /\ certificates \subseteq Certificate /\ stamp \in Nat
    BY BoundsAssumption DEF Shapes, TypeOK
  <2> QED BY <2>1, LenProperties DEF Chunk, Certificate
<1>2. \A j \in Jobs : job[j] \in Job /\ Shaped(job[j]) /\ Cleared(job[j])
  BY DEF Shapes, Shaped, Certified
<1>3. \A j \in Jobs : job[j].since \in Nat /\ job[j].row \in Nat
  BY <1>2 DEF Job
<1>s. /\ \A j \in Jobs : job[j].at \in {"shred", "append", "sign"} => stamp + 1 > job[j].since
      /\ \A c \in certificates : stamp + 1 > c.since
  <2>1. \A j \in Jobs : job[j].at \in {"shred", "append", "sign"} => job[j].since <= stamp
    BY <1>2 DEF Shaped
  <2>2. \A c \in certificates : c.since <= stamp
    BY DEF Certified
  <2> QED BY <1>1, <1>3, <2>1, <2>2
\* Steps that leave stores, vault, log and certificates alone.
<1>4. ASSUME UNCHANGED <<store, tokens, audit, certificates, stamp>>,
             \A j \in Jobs : Cleared(job[j])',
             \A j, k \in Jobs :
               job'[j].at = "sign" /\ job'[k].at = "sign" /\ job'[j].row = job'[k].row => j = k
      PROVE  Certified'
  BY <1>4 DEF Certified, CertificateHolds, ChunksOf
<1>5. ASSUME NEW j \in Jobs, NEW next, job' = [job EXCEPT ![j] = next],
             next.at \notin {"shred", "append", "sign"},
             UNCHANGED <<store, tokens, audit, certificates, stamp>>
      PROVE  Certified'
  <2>1. job'[j] = next /\ \A k \in Jobs : k # j => job'[k] = job[k]
    BY <1>5, OneMoves
  <2>2. \A k \in Jobs : Cleared(job[k])'
    BY <1>2, <1>5, <2>1 DEF Cleared
  <2>3. \A k, l \in Jobs :
          job'[k].at = "sign" /\ job'[l].at = "sign" /\ job'[k].row = job'[l].row => k = l
    BY <1>5, <2>1 DEF Certified
  <2> QED BY <1>4, <1>5, <2>2, <2>3
<1>6. Idle.at = "idle"
  BY DEF Idle
<1>7. ASSUME NEW j \in Jobs, NEW u \in Sources, StartSync(j, u) \/ StartDelete(j, u) \/ StartErase(j, u)
      PROVE  Certified'
  <2>1. FirstOfDelete \in {"count", "delete"}
    BY DEF FirstOfDelete
  <2>2. PICK next : Begin(j, u, next) /\ next.at \in {"hashes", "count", "delete"}
    <3>1. CASE StartSync(j, u)
      <4>1. [Idle EXCEPT !.op = "sync", !.source = u, !.at = "hashes",
                         !.chunks = document[u]].at = "hashes"
        BY DEF Idle
      <4> QED BY <3>1, <4>1 DEF StartSync
    <3>2. CASE StartDelete(j, u)
      <4>1. [Idle EXCEPT !.op = "delete", !.source = u, !.at = FirstOfDelete].at = FirstOfDelete
        BY DEF Idle
      <4> QED BY <2>1, <3>2, <4>1 DEF StartDelete
    <3>3. CASE StartErase(j, u)
      <4>1. [Idle EXCEPT !.op = "erase", !.source = u, !.at = FirstOfDelete,
                         !.since = stamp].at = FirstOfDelete
        BY DEF Idle
      <4> QED BY <2>1, <3>3, <4>1 DEF StartErase
    <3> QED BY <1>7, <3>1, <3>2, <3>3
  <2> QED BY <1>5, <2>2 DEF Begin, stores
<1>8. ASSUME NEW j \in Jobs, ReadHashes(j) \/ Count(j) \/ Record(j) \/ Clear(j) \/ Die(j)
      PROVE  Certified'
  <2>1. PICK next : job' = [job EXCEPT ![j] = next] /\ next.at \in {"idle", "upsert", "delete", "record"}
    <3>1. CASE ReadHashes(j)
      <4>1. [job[j] EXCEPT !.at = "upsert", !.left = NewChunks(j)].at = "upsert"
        BY <1>2 DEF Job
      <4> QED BY <1>6, <3>1, <4>1 DEF ReadHashes, Step
    <3>2. CASE Count(j)
      <4>1. [job[j] EXCEPT !.at = "delete",
                           !.deleted = Cardinality(ChunksOf(job[j].source))].at = "delete"
        BY <1>2 DEF Job
      <4> QED BY <3>2, <4>1 DEF Count, Step
    <3>3. CASE Record(j)
      <4>1. [job[j] EXCEPT !.left = @ \ {FirstLeft(j)}].at = job[j].at
        BY <1>2 DEF Job
      <4> QED BY <1>6, <3>3, <4>1 DEF Record, Step
    <3>4. CASE Clear(j) \/ Die(j)
      BY <1>6, <3>4 DEF Clear, Die, Step
    <3> QED BY <1>8, <3>1, <3>2, <3>3, <3>4
  <2> QED BY <1>5, <1>8, <2>1 DEF ReadHashes, Count, Record, Clear, Die, stores
<1>9. ASSUME NEW j \in Jobs, Upsert(j) PROVE Certified'
  <2>1. /\ store' = store \cup Stored(j) /\ stamp' = stamp + 1
        /\ \A c \in Stored(j) : c.stamp = stamp + 1
        /\ UNCHANGED <<tokens, audit, certificates>>
        /\ job' = [job EXCEPT ![j] = [job[j] EXCEPT !.at = "record"]]
    BY <1>9, UpsertStores, StoredFacts DEF Upsert, Step
  <2>2. job'[j].at = "record" /\ \A k \in Jobs : k # j => job'[k] = job[k]
    <3> DEFINE next == [job[j] EXCEPT !.at = "record"]
    <3>1. next.at = "record"
      BY <1>2 DEF Job
    <3>2. job' = [job EXCEPT ![j] = next]
      BY <2>1
    <3> HIDE DEF next
    <3> QED BY <3>1, <3>2, OneMoves
  <2>3. \A c \in store' : c \in store \/ c.stamp = stamp + 1
    BY <2>1
  <2>4. \A k \in Jobs : Cleared(job[k])'
    <3>1. ASSUME NEW k \in Jobs, k # j PROVE Cleared(job[k])'
      <4>1. job[k].at \in {"shred", "append", "sign"} =>
              \A chunk \in store' : chunk.source = job[k].source => chunk.stamp > job[k].since
        <5>1. job[k].at \in {"shred", "append", "sign"} =>
                \A chunk \in store : chunk.source = job[k].source => chunk.stamp > job[k].since
          BY <1>2 DEF Cleared
        <5> QED BY <1>s, <2>3, <5>1
      <4> QED BY <1>2, <2>1, <2>2, <3>1, <4>1 DEF Cleared
    <3>2. Cleared(job[j])'
      BY <2>2 DEF Cleared
    <3> QED BY <3>1, <3>2
  <2>5. \A c \in certificates : \A chunk \in store' : chunk.source = c.source => chunk.stamp > c.since
    <3>1. \A c \in certificates : \A chunk \in store : chunk.source = c.source => chunk.stamp > c.since
      BY DEF Certified, CertificateHolds, ChunksOf
    <3> QED BY <1>s, <2>3, <3>1
  <2>6. CertificateHolds'
    BY <2>1, <2>5 DEF Certified, CertificateHolds, ChunksOf
  <2>7. \A k, l \in Jobs :
          job'[k].at = "sign" /\ job'[l].at = "sign" /\ job'[k].row = job'[l].row => k = l
    BY <2>2 DEF Certified
  <2>8. (\A c \in store' : c.stamp <= stamp') /\ (\A t \in tokens' : t <= stamp')
        /\ \A c \in certificates' : c.since <= stamp' /\ c.row \in 1..Len(audit')
    BY <1>1, <2>1, <2>3 DEF Certified
  <2> QED BY <2>4, <2>6, <2>7, <2>8 DEF Certified
<1>10. ASSUME NEW j \in Jobs, Delete(j) PROVE Certified'
  <2>1. /\ store' \subseteq store /\ UNCHANGED <<tokens, audit, certificates, stamp>>
        /\ \A c \in store' : c.source # job[j].source
        /\ job[j].at = "delete"
    BY <1>1, <1>10 DEF Delete, Doomed, ChunksOf
  <2>2. PICK next : /\ job' = [job EXCEPT ![j] = next] /\ next.at \in {"shred", "clear"}
                    /\ next.source = job[j].source
    <3> DEFINE next == [job[j] EXCEPT !.at = IF job[j].op = "erase" THEN "shred" ELSE "clear",
                          !.deleted = Figure(j, Cardinality(Doomed(job[j].source))),
                          !.removed = Cardinality(Doomed(job[j].source))]
    <3>1. next.at \in {"shred", "clear"} /\ next.source = job[j].source
      BY <1>2 DEF Job
    <3>2. job' = [job EXCEPT ![j] = next]
      BY <1>10 DEF Delete, Step
    <3> HIDE DEF next
    <3> QED BY <3>1, <3>2
  <2>3. job'[j] = next /\ \A k \in Jobs : k # j => job'[k] = job[k]
    BY <2>2, OneMoves
  <2>4. \A k \in Jobs : Cleared(job[k])'
    <3>1. ASSUME NEW k \in Jobs, k # j PROVE Cleared(job[k])'
      BY <1>2, <2>1, <2>3, <3>1 DEF Cleared
    <3>2. Cleared(job[j])'
      BY <2>1, <2>2, <2>3 DEF Cleared
    <3> QED BY <3>1, <3>2
  <2>5. \A k, l \in Jobs :
          job'[k].at = "sign" /\ job'[l].at = "sign" /\ job'[k].row = job'[l].row => k = l
    BY <2>2, <2>3 DEF Certified
  <2> QED BY <2>1, <2>4, <2>5 DEF Certified, CertificateHolds, ChunksOf
<1>11. ASSUME NEW j \in Jobs, Shred(j) PROVE Certified'
  <2>1. /\ tokens' = {} /\ UNCHANGED <<store, audit, certificates, stamp>> /\ job[j].at = "shred"
        /\ job' = [job EXCEPT ![j] = [job[j] EXCEPT !.at = "append"]]
    BY <1>11 DEF Shred, Step, history
  <2>2. /\ job'[j].at = "append" /\ job'[j].source = job[j].source /\ job'[j].since = job[j].since
        /\ \A k \in Jobs : k # j => job'[k] = job[k]
    <3> DEFINE next == [job[j] EXCEPT !.at = "append"]
    <3>1. next.at = "append" /\ next.source = job[j].source /\ next.since = job[j].since
      BY <1>2 DEF Job
    <3>2. job' = [job EXCEPT ![j] = next]
      BY <2>1
    <3> HIDE DEF next
    <3> QED BY <3>1, <3>2, OneMoves
  <2>3. \A k \in Jobs : Cleared(job[k])'
    <3>1. ASSUME NEW k \in Jobs, k # j PROVE Cleared(job[k])'
      BY <1>2, <2>1, <2>2, <3>1 DEF Cleared
    <3>2. Cleared(job[j])'
      BY <1>2, <2>1, <2>2 DEF Cleared
    <3> QED BY <3>1, <3>2
  <2>4. \A k, l \in Jobs :
          job'[k].at = "sign" /\ job'[l].at = "sign" /\ job'[k].row = job'[l].row => k = l
    BY <2>2 DEF Certified
  <2> QED BY <2>1, <2>3, <2>4 DEF Certified, CertificateHolds, ChunksOf
<1>12. ASSUME NEW j \in Jobs, AppendRow(j) PROVE Certified'
  <2> DEFINE row == [source |-> job[j].source, chunks_deleted |-> job[j].deleted]
             n == Len(audit) + 1
  <2>1. /\ audit' = Append(audit, row) /\ job[j].at = "append"
        /\ UNCHANGED <<store, tokens, certificates, stamp>>
        /\ job' = [job EXCEPT ![j] = [job[j] EXCEPT !.at = "sign", !.row = n]]
    BY <1>12 DEF AppendRow, Step, history
  <2>2. row \in Row
    BY <2>1, JobFacts DEF Row
  <2>3. /\ job'[j].at = "sign" /\ job'[j].source = job[j].source /\ job'[j].since = job[j].since
        /\ job'[j].row = n /\ job'[j].deleted = job[j].deleted
        /\ \A k \in Jobs : k # j => job'[k] = job[k]
    <3> DEFINE next == [job[j] EXCEPT !.at = "sign", !.row = n]
    <3>1. /\ next.at = "sign" /\ next.source = job[j].source /\ next.since = job[j].since
          /\ next.row = n /\ next.deleted = job[j].deleted
      BY <1>2 DEF Job
    <3>2. job' = [job EXCEPT ![j] = next]
      BY <2>1
    <3> HIDE DEF next
    <3> QED BY <3>1, <3>2, OneMoves
  <2>4. row = [source |-> job'[j].source, chunks_deleted |-> job'[j].deleted]
    BY <2>3
  <2> HIDE DEF row
  <2>5. /\ Len(audit') = n /\ n \in Nat /\ audit'[n] = row
        /\ \A i \in 1..Len(audit) : audit'[i] = audit[i] /\ i \in 1..n /\ i # n
        /\ DOMAIN audit' = 1..n
    <3>1. audit' \in Seq(Row) /\ Len(audit') = n /\ audit'[n] = row /\ n \in Nat
          /\ \A i \in 1..Len(audit) : audit'[i] = audit[i]
      BY <1>1, <2>1, <2>2, AppendProperties
    <3> QED BY <1>1, <3>1, LenProperties
  <2> HIDE DEF n
  <2>6. \A k \in Jobs : Cleared(job[k])'
    <3>1. ASSUME NEW k \in Jobs, k # j PROVE Cleared(job[k])'
      <4>1. job[k].at = "sign" => job[k].row \in 1..Len(audit')
              /\ audit'[job[k].row] = [source |-> job[k].source, chunks_deleted |-> job[k].deleted]
        BY <1>2, <2>5 DEF Cleared
      <4> QED BY <1>2, <2>1, <2>3, <3>1, <4>1 DEF Cleared
    <3>2. Cleared(job[j])'
      <4>1. \A c \in certificates : c.row # n
        BY <2>5 DEF Certified
      <4>2. n \in 1..n
        BY <1>1, <2>5 DEF n
      <4>3. /\ \A chunk \in store : chunk.source = job[j].source => chunk.stamp > job[j].since
            /\ \A token \in tokens : token > job[j].since
        BY <1>2, <2>1 DEF Cleared
      <4> QED BY <2>1, <2>3, <2>4, <2>5, <4>1, <4>2, <4>3 DEF Cleared
    <3> QED BY <3>1, <3>2
  <2>7. \A k, l \in Jobs :
          job'[k].at = "sign" /\ job'[l].at = "sign" /\ job'[k].row = job'[l].row => k = l
    <3>1. \A k \in Jobs : k # j /\ job[k].at = "sign" => job[k].row # n
      BY <1>2, <2>5 DEF Cleared
    <3> QED BY <2>3, <3>1 DEF Certified
  <2>8. CertificateHolds'
    <3>1. \A c \in certificates : c.row \in DOMAIN audit' /\ audit'[c.row] = audit[c.row]
      BY <2>5 DEF Certified
    <3> QED BY <2>1, <3>1 DEF Certified, CertificateHolds, ChunksOf
  <2>9. \A c \in certificates' : c.since <= stamp' /\ c.row \in 1..Len(audit')
    BY <2>1, <2>5 DEF Certified
  <2> QED BY <2>1, <2>6, <2>7, <2>8, <2>9 DEF Certified
<1>13. ASSUME NEW j \in Jobs, Sign(j) PROVE Certified'
  <2> DEFINE b == job[j]
             new == [source |-> b.source, chunks_deleted |-> b.deleted, row |-> b.row,
                     since |-> b.since, removed |-> b.removed]
  <2>1. /\ certificates' = certificates \cup {new} /\ b.at = "sign"
        /\ UNCHANGED <<store, tokens, audit, stamp>>
        /\ job' = [job EXCEPT ![j] = Idle]
    BY <1>13 DEF Sign, Step, history
  <2>2. /\ job'[j].at = "idle" /\ \A k \in Jobs : k # j => job'[k] = job[k]
    BY <1>6, <2>1, OneMoves
  <2>3. /\ new.row = b.row /\ new.since = b.since /\ new.source = b.source
        /\ new.chunks_deleted = b.deleted
    OBVIOUS
  <2>4. /\ Cleared(b) /\ b.since <= stamp /\ \A c \in certificates : c.row # b.row
    BY <1>2, <2>1 DEF Cleared, Shaped
  <2> HIDE DEF new
  <2>5. \A k \in Jobs : Cleared(job[k])'
    <3>1. ASSUME NEW k \in Jobs, k # j PROVE Cleared(job[k])'
      <4>1. job[k].at = "sign" => job[k].row # b.row
        BY <2>1, <3>1 DEF Certified
      <4> QED BY <1>2, <2>1, <2>2, <2>3, <3>1, <4>1 DEF Cleared
    <3>2. Cleared(job[j])'
      BY <2>2 DEF Cleared
    <3> QED BY <3>1, <3>2
  <2>6. CertificateHolds'
    <3>1. ASSUME NEW c \in certificates'
          PROVE  /\ c.row \in DOMAIN audit
                 /\ audit[c.row] = [source |-> c.source, chunks_deleted |-> c.chunks_deleted]
                 /\ \A d \in certificates' : d.row = c.row => d = c
                 /\ \A chunk \in store : chunk.source = c.source => chunk.stamp > c.since
                 /\ \A token \in tokens : token > c.since
      <4>1. CASE c \in certificates
        BY <2>1, <2>3, <2>4, <4>1 DEF Certified, CertificateHolds, ChunksOf
      <4>2. CASE c = new
        <5>1. \A d \in certificates' : d.row = new.row => d = new
          BY <2>1, <2>3, <2>4
        <5> QED BY <1>1, <2>1, <2>3, <2>4, <4>2, <5>1 DEF Cleared
      <4> QED BY <2>1, <4>1, <4>2
    <3> QED BY <2>1, <3>1 DEF CertificateHolds, ChunksOf
  <2>7. \A c \in certificates' : c.since <= stamp' /\ c.row \in 1..Len(audit')
    BY <2>1, <2>3, <2>4 DEF Certified, Cleared
  <2>8. \A k, l \in Jobs :
          job'[k].at = "sign" /\ job'[l].at = "sign" /\ job'[k].row = job'[l].row => k = l
    BY <2>2 DEF Certified
  <2> QED BY <2>1, <2>5, <2>6, <2>7, <2>8 DEF Certified
<1>14. CASE Tokenize
  <2>1. /\ stamp' = stamp + 1 /\ tokens' = tokens \cup {stamp + 1} /\ job' = job
        /\ UNCHANGED <<store, audit, certificates>>
    BY <1>14 DEF Tokenize
  <2>2. \A k \in Jobs : Cleared(job[k])'
    <3>1. ASSUME NEW k \in Jobs PROVE Cleared(job[k])'
      <4>1. job[k].at \in {"append", "sign"} => \A token \in tokens' : token > job[k].since
        <5>1. job[k].at \in {"append", "sign"} => \A token \in tokens : token > job[k].since
          BY <1>2 DEF Cleared
        <5> QED BY <1>s, <2>1, <5>1
      <4> QED BY <1>2, <2>1, <4>1 DEF Cleared
    <3> QED BY <3>1
  <2>3. \A c \in certificates : \A token \in tokens' : token > c.since
    <3>1. \A c \in certificates : \A token \in tokens : token > c.since
      BY DEF Certified, CertificateHolds
    <3> QED BY <1>s, <2>1, <3>1
  <2>4. CertificateHolds'
    BY <2>1, <2>3 DEF Certified, CertificateHolds, ChunksOf
  <2>5. (\A c \in store' : c.stamp <= stamp') /\ (\A t \in tokens' : t <= stamp')
        /\ \A c \in certificates' : c.since <= stamp' /\ c.row \in 1..Len(audit')
    BY <1>1, <2>1 DEF Certified
  <2> QED BY <2>1, <2>2, <2>4, <2>5 DEF Certified
<1>15. CASE UNCHANGED <<stores, job, history, faults, stamp>>
  <2>1. \A k \in Jobs : Cleared(job[k])'
    BY <1>2, <1>15 DEF Cleared, stores
  <2> QED BY <1>4, <1>15, <2>1 DEF Certified, stores
<1> QED BY <1>7, <1>8, <1>9, <1>10, <1>11, <1>12, <1>13, <1>14, <1>15, StepKinds DEF Acts, Work

-----------------------------------------------------------------------------
(* The lineage.                                                             *)

TextsLeft(b) == {b.chunks[i] : i \in b.left}
Multiplicity(u) ==
  \A text \in TextsOf(u) : \E doc \in Documents :
    Cardinality({c \in ChunksOf(u) : c.text = text}) <= Occurrences(text, doc)

Settled(u) == TextsOf(u) \subseteq lineage[u] /\ (~ erased[u] => lineage[u] \subseteq TextsOf(u))

\* How far lineage and chunks of u are apart while the job b is at work on it.
Stands(u, b) ==
  /\ b.at = "upsert" =>
       \A i \in b.left : b.chunks[i] \notin lineage[u]
  /\ IF b.at = "record"
       THEN TextsLeft(b) \subseteq TextsOf(u) /\ TextsOf(u) \subseteq lineage[u] \cup TextsLeft(b)
       ELSE TextsOf(u) \subseteq lineage[u]
  /\ b.at # "clear" /\ ~ erased[u] => lineage[u] \subseteq TextsOf(u)
  /\ b.at \in {"shred", "clear", "append", "sign"} => TextsOf(u) = {}
  /\ b.at \in {"shred", "append", "sign"} => erased[u]

Followed(u) ==
  /\ \A j, k \in JobsOn(u) : j = k
  /\ Multiplicity(u)
  /\ \A j \in JobsOn(u) : Stands(u, job[j])
  /\ JobsOn(u) = {} => Settled(u)

Lineages == \A u \in Sources : ~ disturbed[u] => Followed(u)

\* The only job of an undisturbed source moves to the record next.
LEMMA MovesOn ==
  ASSUME Shapes, NEW u \in Sources, NEW j \in Jobs, NEW next,
         job' = [job EXCEPT ![j] = next], JobsOn(u) \subseteq {j},
         Multiplicity(u)',
         \/ next.source = u /\ Stands(u, next)'
         \/ next = Idle /\ Settled(u)'
  PROVE  Followed(u)'
<1>1. job'[j] = next /\ \A k \in Jobs : k # j => job'[k] = job[k]
  BY OneMoves
<1>2. Idle.source # u
  BY NoSourceAssumption DEF Idle
<1>3. \A k \in Jobs : job'[k].source = u => k = j
  BY <1>1 DEF JobsOn
<1>4. JobsOn(u)' = {k \in Jobs : job'[k].source = u}
  BY DEF JobsOn
<1>5. CASE next.source = u /\ Stands(u, next)'
  <2>1. JobsOn(u)' = {j}
    BY <1>1, <1>3, <1>4, <1>5
  <2> QED BY <1>1, <1>5, <2>1 DEF Followed
<1>6. CASE next = Idle /\ Settled(u)'
  <2>1. JobsOn(u)' = {}
    BY <1>1, <1>2, <1>3, <1>4, <1>6
  <2> QED BY <1>6, <2>1 DEF Followed
<1> QED BY <1>5, <1>6

\* A step that has nothing to do with u.
LEMMA StaysFollowed ==
  ASSUME NEW u \in Sources, Followed(u), UNCHANGED lineage[u], UNCHANGED erased[u],
         ChunksOf(u)' = ChunksOf(u),
         \A k \in Jobs : job[k].source = u \/ job'[k].source = u => job'[k] = job[k]
  PROVE  Followed(u)'
<1>1. JobsOn(u)' = JobsOn(u) /\ \A k \in JobsOn(u) : job'[k] = job[k]
  BY DEF JobsOn
<1>2. TextsOf(u)' = TextsOf(u)
  BY DEF TextsOf
<1>3. Multiplicity(u)'
  BY <1>2 DEF Followed, Multiplicity, Occurrences
<1>4. \A k \in JobsOn(u) : Stands(u, job[k])'
  BY <1>1, <1>2 DEF Followed, Stands, TextsLeft
<1>5. JobsOn(u) = {} => Settled(u)'
  BY <1>2 DEF Followed, Settled
<1> QED BY <1>1, <1>3, <1>4, <1>5 DEF Followed

\* The copies of a new text are those that its document holds.
LEMMA UpsertKeepsMultiplicity ==
  ASSUME Shapes, NEW j \in Jobs, NEW u \in Sources, job[j].source = u, Upsert(j),
         Multiplicity(u), Stands(u, job[j])
  PROVE  Multiplicity(u)' /\ TextsOf(u)' = TextsOf(u) \cup TextsLeft(job[j])
<1> DEFINE doc == job[j].chunks
<1>1. /\ job[j].at = "upsert" /\ store' = store \cup Stored(j)
      /\ \A c \in Stored(j) : c.source = u
      /\ \A c \in Stored(j) : c.place \in job[j].left /\ doc[c.place] = c.text
      /\ \A i \in job[j].left : \E c \in Stored(j) : c.text = doc[i]
      /\ \A c, d \in Stored(j) : c.place = d.place => c = d
  <2>1. job[j].at = "upsert" /\ store' = store \cup Stored(j)
        /\ \A c \in Stored(j) : c.source = u
    BY UpsertStores, StoredFacts
  <2>2. \A c \in Stored(j) : c.place \in job[j].left /\ doc[c.place] = c.text
    BY DEF Stored
  <2>3. ASSUME NEW i \in job[j].left PROVE \E c \in Stored(j) : c.text = doc[i]
    <3> DEFINE c == [source |-> job[j].source, text |-> doc[i], stamp |-> stamp + 1,
                     place |-> i]
    <3>1. c \in Stored(j) /\ c.text = doc[i]
      BY DEF Stored
    <3> HIDE DEF c
    <3> QED BY <3>1
  <2>4. \A c, d \in Stored(j) : c.place = d.place => c = d
    BY DEF Stored
  <2> QED BY <2>1, <2>2, <2>3, <2>4
<1>2. /\ doc \in Documents /\ job[j].left \subseteq DOMAIN doc
      /\ IsFiniteSet(DOMAIN doc)
  <2>1. doc \in Documents /\ DOMAIN doc = 1..Len(doc) /\ Len(doc) \in Nat
        /\ job[j].left \subseteq DOMAIN doc
    BY <1>1, JobFacts DEF Shapes, Shaped
  <2>2. PICK n \in Nat : DOMAIN doc = 1..n
    BY <2>1
  <2>3. IsFiniteSet(1..n)
    BY FS_Interval
  <2> HIDE DEF doc
  <2> QED BY <2>1, <2>2, <2>3
<1>3. /\ TextsOf(u) \subseteq lineage[u]
      /\ \A i \in job[j].left : doc[i] \notin lineage[u]
  BY <1>1 DEF Stands
<1>4. ChunksOf(u)' = ChunksOf(u) \cup Stored(j)
  BY <1>1 DEF ChunksOf
<1>5. TextsOf(u)' = TextsOf(u) \cup TextsLeft(job[j])
  <2>1. TextsOf(u)' = {c.text : c \in ChunksOf(u) \cup Stored(j)}
    BY <1>4 DEF TextsOf
  <2>2. \A c \in Stored(j) : c.text \in TextsLeft(job[j])
    BY <1>1 DEF TextsLeft
  <2>3. \A t \in TextsLeft(job[j]) : \E c \in Stored(j) : c.text = t
    BY <1>1 DEF TextsLeft
  <2> QED BY <2>1, <2>2, <2>3 DEF TextsOf
<1>6. ASSUME NEW text \in TextsOf(u)'
      PROVE  \E d \in Documents :
               Cardinality({c \in ChunksOf(u)' : c.text = text}) <= Occurrences(text, d)
  <2>1. CASE text \in TextsOf(u)
    <3>1. \A c \in Stored(j) : c.text # text
      BY <1>1, <1>3, <2>1
    <3>2. {c \in ChunksOf(u)' : c.text = text} = {c \in ChunksOf(u) : c.text = text}
      BY <1>4, <3>1
    <3> QED BY <2>1, <3>2 DEF Multiplicity
  <2>2. CASE text \notin TextsOf(u)
    <3> DEFINE S == {c \in Stored(j) : c.text = text}
               T == {i \in DOMAIN doc : doc[i] = text}
               f == [c \in S |-> c.place]
    <3>1. {c \in ChunksOf(u)' : c.text = text} = S
      <4>1. \A c \in ChunksOf(u) : c.text # text
        BY <2>2 DEF TextsOf
      <4> QED BY <1>4, <4>1
    <3>2. f \in [S -> T] /\ \A c, d \in S : f[c] = f[d] => c = d
      BY <1>1, <1>2
    <3>3. IsFiniteSet(T)
      <4>1. T \in SUBSET DOMAIN doc
        OBVIOUS
      <4> QED BY <1>2, <4>1, FS_Subset
    <3> HIDE DEF S, f, T
    <3>4. f \in Injection(S, T)
      BY <3>2, Fun_IsInj
    <3>5. Cardinality(S) <= Cardinality(T)
      BY <3>3, <3>4, FS_Injection
    <3> QED BY <1>2, <3>1, <3>5 DEF Occurrences, T
  <2> QED BY <2>1, <2>2
<1> QED BY <1>5, <1>6 DEF Multiplicity

LEMMA ActsFollowed ==
  ASSUME Shapes, NEW j \in Jobs, NEW u \in Sources, job[j].source = u, Followed(u),
         ~ disturbed'[u], Work(j) \/ Die(j)
  PROVE  Followed(u)'
<1> DEFINE b == job[j]
<1>1. /\ b \in Job /\ Shaped(b) /\ Stands(u, b) /\ Multiplicity(u)
      /\ JobsOn(u) \subseteq {j}
      /\ lineage \in [Sources -> SUBSET (Texts \ Excluded)] /\ erased \in [Sources -> BOOLEAN]
  BY DEF Followed, JobsOn, Shapes, Shaped, TypeOK
<1>2. ASSUME UNCHANGED store PROVE Multiplicity(u)' /\ TextsOf(u)' = TextsOf(u)
  <2>1. ChunksOf(u)' = ChunksOf(u)
    BY <1>2 DEF ChunksOf
  <2> QED BY <1>1, <2>1 DEF Multiplicity, TextsOf, Occurrences
<1>3. CASE ReadHashes(j)
  <2>0. b.at = "hashes" /\ UNCHANGED <<store, lineage, erased>>
    BY <1>3 DEF ReadHashes, stores, history
  <2>1. Settled(u) /\ Settled(u)'
    BY <1>1, <1>2, <2>0 DEF Stands, Settled
  <2>2. PICK next : /\ job' = [job EXCEPT ![j] = Idle] \/ job' = [job EXCEPT ![j] = next]
                    /\ next.at = "upsert" /\ next.source = u
                    /\ \A i \in next.left : next.chunks[i] \notin lineage[u]
    <3> DEFINE after == [b EXCEPT !.at = "upsert", !.left = NewChunks(j)]
    <3>1. job' = [job EXCEPT ![j] = Idle] \/ job' = [job EXCEPT ![j] = after]
      BY <1>3 DEF ReadHashes, Step
    <3>2. /\ after.at = "upsert" /\ after.source = u
          /\ \A i \in after.left : after.chunks[i] \notin lineage[u]
      BY <1>1 DEF Job, NewChunks
    <3> HIDE DEF after
    <3> QED BY <3>1, <3>2
  <2>4. Stands(u, next)'
    BY <1>2, <2>0, <2>1, <2>2 DEF Stands, Settled, TextsLeft
  <2> QED BY <1>1, <1>2, <2>0, <2>1, <2>2, <2>4, MovesOn
<1>4. CASE Upsert(j)
  <2>0. b.at = "upsert" /\ UNCHANGED <<lineage, erased>>
    BY <1>4 DEF Upsert
  <2>1. Multiplicity(u)' /\ TextsOf(u)' = TextsOf(u) \cup TextsLeft(b)
    BY <1>1, <1>4, UpsertKeepsMultiplicity
  <2>2. PICK next : /\ job' = [job EXCEPT ![j] = next]
                    /\ next.at = "record" /\ next.source = u /\ TextsLeft(next) = TextsLeft(b)
    <3> DEFINE after == [b EXCEPT !.at = "record"]
    <3>1. job' = [job EXCEPT ![j] = after]
      BY <1>4 DEF Upsert, Step
    <3>2. after.at = "record" /\ after.source = u /\ TextsLeft(after) = TextsLeft(b)
      BY <1>1 DEF Job, TextsLeft
    <3> HIDE DEF after
    <3> QED BY <3>1, <3>2
  <2>3. /\ TextsOf(u) \subseteq lineage'[u]
        /\ ~ erased'[u] => lineage'[u] \subseteq TextsOf(u)
    BY <1>1, <2>0 DEF Stands
  <2>4. Stands(u, next)'
    <3>1. TextsLeft(next)' = TextsLeft(next)
      BY DEF TextsLeft
    <3> QED BY <2>1, <2>2, <2>3, <3>1 DEF Stands
  <2> QED BY <1>1, <2>1, <2>2, <2>4, MovesOn
<1>5. CASE Record(j)
  <2> DEFINE t == b.chunks[FirstLeft(j)]
  <2>0. b.at = "record" /\ UNCHANGED <<store, erased>> /\ FirstLeft(j) \in b.left
        /\ lineage'[u] = lineage[u] \cup {t}
    BY <1>1, <1>5, FirstIsLeft DEF Record, history
  <2>1. /\ TextsLeft(b) \subseteq TextsOf(u) /\ TextsOf(u) \subseteq lineage[u] \cup TextsLeft(b)
        /\ ~ erased[u] => lineage[u] \subseteq TextsOf(u)
        /\ t \in TextsLeft(b)
    BY <1>1, <2>0 DEF Stands, TextsLeft
  <2>2. CASE b.left = {FirstLeft(j)}
    <3>1. job' = [job EXCEPT ![j] = Idle]
      BY <1>5, <2>2 DEF Record, Step
    <3>2. TextsLeft(b) = {t}
      BY <2>2 DEF TextsLeft
    <3>3. Settled(u)'
      BY <1>2, <2>0, <2>1, <3>2 DEF Settled
    <3> QED BY <1>1, <1>2, <2>0, <3>1, <3>3, MovesOn
  <2>3. CASE b.left # {FirstLeft(j)}
    <3>1. PICK next : /\ job' = [job EXCEPT ![j] = next]
                      /\ next.at = "record" /\ next.source = u /\ next.chunks = b.chunks
                      /\ next.left = b.left \ {FirstLeft(j)}
      <4> DEFINE after == [b EXCEPT !.left = @ \ {FirstLeft(j)}]
      <4>1. job' = [job EXCEPT ![j] = after]
        BY <1>5, <2>3 DEF Record, Step
      <4>2. /\ after.at = "record" /\ after.source = u /\ after.chunks = b.chunks
            /\ after.left = b.left \ {FirstLeft(j)}
        BY <1>1, <2>0 DEF Job
      <4> HIDE DEF after
      <4> QED BY <4>1, <4>2
    <3>2. /\ \A x \in TextsLeft(next) : x \in TextsLeft(b)
          /\ \A x \in TextsLeft(b) : x = t \/ x \in TextsLeft(next)
      BY <3>1 DEF TextsLeft
    <3> HIDE DEF t
    <3>3. /\ TextsLeft(next) \subseteq TextsOf(u)
          /\ TextsOf(u) \subseteq lineage'[u] \cup TextsLeft(next)
          /\ ~ erased[u] => lineage'[u] \subseteq TextsOf(u)
      BY <2>0, <2>1, <3>2
    <3>4. Stands(u, next)'
      <4>1. TextsLeft(next)' = TextsLeft(next)
        BY DEF TextsLeft
      <4> QED BY <1>2, <2>0, <3>1, <3>3, <4>1 DEF Stands
    <3> QED BY <1>1, <1>2, <2>0, <3>1, <3>4, MovesOn
  <2> QED BY <2>2, <2>3
<1>6. CASE Count(j)
  <2>0. b.at = "count" /\ UNCHANGED <<store, lineage, erased>>
    BY <1>6 DEF Count, stores, history
  <2>1. PICK next : job' = [job EXCEPT ![j] = next] /\ next.at = "delete" /\ next.source = u
    <3> DEFINE after == [b EXCEPT !.at = "delete", !.deleted = Cardinality(ChunksOf(u))]
    <3>1. job' = [job EXCEPT ![j] = after]
      BY <1>6 DEF Count, Step
    <3>2. after.at = "delete" /\ after.source = u
      BY <1>1 DEF Job
    <3> HIDE DEF after
    <3> QED BY <3>1, <3>2
  <2>2. Stands(u, next)'
    BY <1>1, <1>2, <2>0, <2>1 DEF Stands, TextsLeft
  <2> QED BY <1>1, <1>2, <2>0, <2>1, <2>2, MovesOn
<1>7. CASE Delete(j)
  <2>0. /\ b.at = "delete" /\ UNCHANGED lineage
        /\ store' = store \ ChunksOf(u) /\ erased'[u] = (erased[u] \/ b.op = "erase")
    BY <1>1, <1>7 DEF Delete, Doomed
  <2>1. PICK next : /\ job' = [job EXCEPT ![j] = next] /\ next.source = u
                    /\ next.at = IF b.op = "erase" THEN "shred" ELSE "clear"
    <3> DEFINE after == [b EXCEPT !.at = IF b.op = "erase" THEN "shred" ELSE "clear",
                                  !.deleted = Figure(j, Cardinality(Doomed(u))),
                                  !.removed = Cardinality(Doomed(u))]
    <3>1. job' = [job EXCEPT ![j] = after]
      BY <1>7 DEF Delete, Step
    <3>2. after.source = u /\ after.at = IF b.op = "erase" THEN "shred" ELSE "clear"
      BY <1>1 DEF Job
    <3> HIDE DEF after
    <3> QED BY <3>1, <3>2
  <2>2. TextsOf(u)' = {}
    BY <2>0 DEF TextsOf, ChunksOf
  <2>3. Stands(u, next)'
    BY <1>1, <2>0, <2>1, <2>2 DEF Stands, TextsLeft
  <2>4. Multiplicity(u)'
    BY <2>2 DEF Multiplicity
  <2> QED BY <1>1, <2>0, <2>1, <2>3, <2>4, MovesOn
<1>8. CASE Shred(j) \/ AppendRow(j)
  <2>0. PICK next : /\ job' = [job EXCEPT ![j] = next] /\ next.at \in {"append", "sign"}
                    /\ next.source = u /\ b.at \in {"shred", "append"}
    <3>1. /\ [b EXCEPT !.at = "append"].at = "append" /\ [b EXCEPT !.at = "append"].source = u
          /\ [b EXCEPT !.at = "sign", !.row = Len(audit) + 1].at = "sign"
          /\ [b EXCEPT !.at = "sign", !.row = Len(audit) + 1].source = u
      BY <1>1 DEF Job
    <3> QED BY <1>8, <3>1 DEF Shred, AppendRow, Step
  <2>1. UNCHANGED <<store, lineage, erased>>
    BY <1>8 DEF Shred, AppendRow, history
  <2>2. Stands(u, next)'
    BY <1>1, <1>2, <2>0, <2>1 DEF Stands, TextsLeft
  <2> QED BY <1>1, <1>2, <2>0, <2>1, <2>2, MovesOn
<1>9. CASE Clear(j) \/ Sign(j)
  <2>0. /\ job' = [job EXCEPT ![j] = Idle] /\ UNCHANGED store
        /\ \/ b.at = "clear" /\ lineage'[u] = {}
           \/ b.at = "sign" /\ UNCHANGED <<lineage, erased>>
    BY <1>1, <1>9 DEF Clear, Sign, Step, history
  <2>1. Settled(u)'
    BY <1>1, <1>2, <2>0 DEF Stands, Settled
  <2> QED BY <1>1, <1>2, <2>0, <2>1, MovesOn
<1>10. CASE Die(j)
  <2>1. disturbed'[u] = TRUE
    BY <1>10 DEF Die, Shapes, TypeOK
  <2> QED BY <2>1
<1> QED BY <1>3, <1>4, <1>5, <1>6, <1>7, <1>8, <1>9, <1>10 DEF Work

\* A disturbance is never forgotten.
LEMMA DisturbedStays ==
  ASSUME Shapes, NEW j \in Jobs, Work(j) \/ Die(j), NEW u \in Sources, ~ disturbed'[u]
  PROVE  ~ disturbed[u]
<1>1. CASE UNCHANGED disturbed
  BY <1>1
<1>2. CASE Die(j)
  <2>1. job[j].source \in Sources
    BY <1>2, JobFacts DEF Die
  <2> QED BY <1>2, <2>1 DEF Die, Shapes, TypeOK
<1>3. CASE Work(j)
  BY <1>1, <1>3, WorkLeaves
<1> QED BY <1>2, <1>3

\* A job's step leaves the other sources alone.
LEMMA ActsElsewhere ==
  ASSUME Shapes, NEW j \in Jobs, Work(j) \/ Die(j), NEW u \in Sources, job[j].source # u
  PROVE  /\ UNCHANGED lineage[u] /\ UNCHANGED erased[u] /\ ChunksOf(u)' = ChunksOf(u)
         /\ job'[j].source # u /\ \A k \in Jobs : k # j => job'[k] = job[k]
<1> DEFINE b == job[j]
<1>1. /\ b \in Job /\ TypeOK /\ Idle.source # u
      /\ lineage \in [Sources -> SUBSET (Texts \ Excluded)] /\ erased \in [Sources -> BOOLEAN]
  BY NoSourceAssumption DEF Shapes, TypeOK, Idle
<1>2. ASSUME NEW next, Step(j, next), next.source # u
      PROVE  job'[j].source # u /\ \A k \in Jobs : k # j => job'[k] = job[k]
  BY <1>2, OneMoves DEF Step
<1>3. ASSUME UNCHANGED store PROVE ChunksOf(u)' = ChunksOf(u)
  BY <1>3 DEF ChunksOf
<1>4. CASE ReadHashes(j)
  <2>1. [b EXCEPT !.at = "upsert", !.left = NewChunks(j)].source # u
    BY <1>1 DEF Job
  <2> QED BY <1>1, <1>2, <1>3, <1>4, <2>1 DEF ReadHashes, stores, history
<1>5. CASE Upsert(j)
  <2>1. [b EXCEPT !.at = "record"].source # u
    BY <1>1 DEF Job
  <2>2. ChunksOf(u)' = ChunksOf(u)
    <3>1. store' = store \cup Stored(j) /\ \A c \in Stored(j) : c.source # u
      BY <1>5, UpsertStores, StoredFacts
    <3> QED BY <3>1 DEF ChunksOf
  <2> QED BY <1>2, <1>5, <2>1, <2>2 DEF Upsert
<1>6. CASE Record(j)
  <2>1. [b EXCEPT !.left = @ \ {FirstLeft(j)}].source # u
    BY <1>1 DEF Job
  <2>2. UNCHANGED lineage[u]
    BY <1>1, <1>6 DEF Record
  <2> QED BY <1>1, <1>2, <1>3, <1>6, <2>1, <2>2 DEF Record, history
<1>7. CASE Count(j)
  <2>1. [b EXCEPT !.at = "delete", !.deleted = Cardinality(ChunksOf(b.source))].source # u
    BY <1>1 DEF Job
  <2> QED BY <1>2, <1>3, <1>7, <2>1 DEF Count, stores, history
<1>8. CASE Delete(j)
  <2> DEFINE removed == Cardinality(Doomed(b.source))
  <2>1. [b EXCEPT !.at = IF b.op = "erase" THEN "shred" ELSE "clear",
                  !.deleted = Figure(j, removed), !.removed = removed].source # u
    BY <1>1 DEF Job
  <2>2. store' = store \ ChunksOf(b.source) /\ UNCHANGED lineage /\ erased'[u] = erased[u]
    BY <1>1, <1>8 DEF Delete, Doomed
  <2>3. ChunksOf(u)' = ChunksOf(u)
    BY <2>2 DEF ChunksOf
  <2> QED BY <1>2, <1>8, <2>1, <2>2, <2>3 DEF Delete
<1>9. CASE Shred(j) \/ AppendRow(j)
  <2>1. /\ [b EXCEPT !.at = "append"].source # u
        /\ [b EXCEPT !.at = "sign", !.row = Len(audit) + 1].source # u
    BY <1>1 DEF Job
  <2> QED BY <1>2, <1>3, <1>9, <2>1 DEF Shred, AppendRow, history
<1>10. CASE Clear(j)
  <2>1. UNCHANGED lineage[u] /\ UNCHANGED erased[u]
    BY <1>1, <1>10 DEF Clear
  <2> QED BY <1>1, <1>2, <1>3, <1>10, <2>1 DEF Clear
<1>11. CASE Sign(j) \/ Die(j)
  BY <1>1, <1>2, <1>3, <1>11 DEF Sign, Die, history, stores
<1> QED BY <1>4, <1>5, <1>6, <1>7, <1>8, <1>9, <1>10, <1>11 DEF Work

\* A call that begins on a source where none is under way.
LEMMA BeginsFollowed ==
  ASSUME Shapes, Lineages, NEW j \in Jobs, NEW v \in Sources, NEW first,
         Begin(j, v, first), first.source = v, first.at \in {"hashes", "count", "delete"}
  PROVE  Lineages'
<1> SUFFICES ASSUME NEW u \in Sources, ~ disturbed'[u]
             PROVE  Followed(u)'
  BY DEF Lineages
<1>1. /\ job[j] = Idle /\ job' = [job EXCEPT ![j] = first]
      /\ UNCHANGED <<store, lineage, erased>>
      /\ disturbed' = [disturbed EXCEPT ![v] = @ \/ JobsOn(v) # {}]
      /\ disturbed \in [Sources -> BOOLEAN]
  BY DEF Begin, stores, Shapes, TypeOK
<1>2. Followed(u) /\ ChunksOf(u)' = ChunksOf(u) /\ TextsOf(u)' = TextsOf(u)
  <2>1. ~ disturbed[u] /\ ChunksOf(u)' = ChunksOf(u)
    BY <1>1 DEF ChunksOf
  <2> QED BY <2>1 DEF Lineages, TextsOf
<1>3. CASE u = v
  <2>1. JobsOn(u) = {}
    BY <1>1, <1>3
  <2>2. Settled(u) /\ Settled(u)' /\ Multiplicity(u)'
    BY <1>1, <1>2, <2>1 DEF Followed, Settled, Multiplicity, Occurrences
  <2>3. Stands(u, first)'
    BY <1>1, <1>2, <2>2 DEF Stands, Settled
  <2> QED BY <1>1, <1>3, <2>1, <2>2, <2>3, MovesOn
<1>4. CASE u # v
  <2>1. job'[j] = first /\ \A k \in Jobs : k # j => job'[k] = job[k]
    BY <1>1, OneMoves
  <2>2. \A k \in Jobs : job[k].source = u \/ job'[k].source = u => job'[k] = job[k]
    BY <1>1, <1>4, <2>1, NoSourceAssumption DEF Idle
  <2> QED BY <1>1, <1>2, <2>2, StaysFollowed
<1> QED BY <1>3, <1>4

LEMMA LineagesStep ==
  ASSUME Shapes, Lineages, [Next]_vars
  PROVE  Lineages'
<1>1. ASSUME NEW j \in Jobs, Work(j) \/ Die(j) PROVE Lineages'
  <2> SUFFICES ASSUME NEW u \in Sources, ~ disturbed'[u]
               PROVE  Followed(u)'
    BY DEF Lineages
  <2>1. Followed(u)
    BY <1>1, DisturbedStays DEF Lineages
  <2>2. CASE job[j].source = u
    BY <1>1, <2>1, <2>2, ActsFollowed
  <2>3. CASE job[j].source # u
    BY <1>1, <2>1, <2>3, ActsElsewhere, StaysFollowed
  <2> QED BY <2>2, <2>3
<1>2. ASSUME NEW j \in Jobs, NEW u \in Sources, StartSync(j, u) PROVE Lineages'
  <2>1. PICK first : /\ Begin(j, u, first) /\ first.source = u
                     /\ first.at \in {"hashes", "count", "delete"}
    <3> DEFINE begun == [Idle EXCEPT !.op = "sync", !.source = u, !.at = "hashes",
                                     !.chunks = document[u]]
    <3>1. begun.source = u /\ begun.at = "hashes"
      BY DEF Idle
    <3>2. Begin(j, u, begun)
      BY <1>2 DEF StartSync
    <3> HIDE DEF begun
    <3> QED BY <3>1, <3>2
  <2> QED BY <2>1, BeginsFollowed
<1>3. ASSUME NEW j \in Jobs, NEW u \in Sources, StartDelete(j, u) \/ StartErase(j, u)
      PROVE  Lineages'
  <2>1. PICK first : /\ Begin(j, u, first) /\ first.source = u
                     /\ first.at \in {"hashes", "count", "delete"}
    <3> DEFINE deletion == [Idle EXCEPT !.op = "delete", !.source = u, !.at = FirstOfDelete]
               erasure == [Idle EXCEPT !.op = "erase", !.source = u, !.at = FirstOfDelete,
                                       !.since = stamp]
    <3>1. /\ deletion.source = u /\ deletion.at \in {"count", "delete"}
          /\ erasure.source = u /\ erasure.at \in {"count", "delete"}
      BY DEF Idle, FirstOfDelete
    <3>2. Begin(j, u, deletion) \/ Begin(j, u, erasure)
      BY <1>3 DEF StartDelete, StartErase
    <3> HIDE DEF deletion, erasure
    <3> QED BY <3>1, <3>2
  <2> QED BY <2>1, BeginsFollowed
<1>4. ASSUME UNCHANGED <<store, lineage, job, disturbed, erased>> PROVE Lineages'
  <2> SUFFICES ASSUME NEW u \in Sources, ~ disturbed'[u]
               PROVE  Followed(u)'
    BY DEF Lineages
  <2>1. Followed(u) /\ ChunksOf(u)' = ChunksOf(u)
    BY <1>4 DEF Lineages, ChunksOf
  <2> QED BY <1>4, <2>1, StaysFollowed
<1>5. CASE UNCHANGED <<stores, job, history, faults, stamp>>
  BY <1>4, <1>5 DEF stores, history
<1>6. CASE Tokenize
  BY <1>4, <1>6 DEF Tokenize, history
<1> QED BY <1>1, <1>2, <1>3, <1>5, <1>6, StepKinds DEF Acts

-----------------------------------------------------------------------------
(* The figures.                                                             *)

\* f[k] numbered chunks for each k of S.
Numbered(S, f) == UNION {{k} \X (1..f[k]) : k \in S}

LEMMA OneMoreNumbered ==
  ASSUME NEW S, NEW f, NEW k, k \notin S, f[k] \in Nat,
         IsFiniteSet(Numbered(S, f)) \/ IsFiniteSet(Numbered(S \cup {k}, f))
  PROVE  /\ IsFiniteSet(Numbered(S, f)) /\ IsFiniteSet(Numbered(S \cup {k}, f))
         /\ Cardinality(Numbered(S, f)) \in Nat
         /\ Cardinality(Numbered(S \cup {k}, f)) = Cardinality(Numbered(S, f)) + f[k]
<1> DEFINE A == Numbered(S, f)
           B == {k} \X (1..f[k])
           C == Numbered(S \cup {k}, f)
<1>1. C = A \cup B /\ A \cap B = {}
  BY DEF Numbered
<1>2. IsFiniteSet(B) /\ Cardinality(B) = f[k]
  <2> DEFINE I == 1..f[k]
             One == {k}
  <2>1. IsFiniteSet(I) /\ Cardinality(I) = f[k]
    <3> PICK n \in Nat : n = f[k]
      OBVIOUS
    <3>1. 1 \in Int /\ n \in Int
      OBVIOUS
    <3>2. IsFiniteSet(1..n) /\ Cardinality(1..n) = IF 1 > n THEN 0 ELSE n - 1 + 1
      BY <3>1, FS_Interval, Zenon
    <3> QED BY <3>2
  <2>2. IsFiniteSet(One) /\ Cardinality(One) = 1
    BY FS_Singleton
  <2> HIDE DEF I, One
  <2>3. IsFiniteSet(One \X I) /\ Cardinality(One \X I) = Cardinality(One) * Cardinality(I)
    BY <2>1, <2>2, FS_Product
  <2> QED BY <2>1, <2>2, <2>3 DEF I, One
<1> HIDE DEF A, B, C
<1>3. IsFiniteSet(A) \/ IsFiniteSet(C)
  BY DEF A, C
<1>4. IsFiniteSet(A)
  <2>1. CASE IsFiniteSet(C)
    <3>1. A \in SUBSET C
      BY <1>1
    <3> QED BY <2>1, <3>1, FS_Subset
  <2> QED BY <1>3, <2>1
<1>5. /\ IsFiniteSet(A \cup B)
      /\ Cardinality(A \cup B) = Cardinality(A) + Cardinality(B) - Cardinality(A \cap B)
  BY <1>2, <1>4, FS_Union
<1>6. Cardinality(A \cap B) = 0 /\ Cardinality(A) \in Nat
  BY <1>1, <1>4, FS_EmptySet, FS_CardinalityType
<1>7. /\ IsFiniteSet(A) /\ IsFiniteSet(C) /\ Cardinality(A) \in Nat
      /\ Cardinality(C) = Cardinality(A) + f[k]
  BY <1>1, <1>2, <1>4, <1>5, <1>6
<1> QED BY <1>7 DEF A, C

LEMMA SameNumbered ==
  ASSUME NEW S, NEW f, NEW g, \A k \in S : f[k] = g[k]
  PROVE  Numbered(S, f) = Numbered(S, g)
<1>1. {{k} \X (1..f[k]) : k \in S} = {{k} \X (1..g[k]) : k \in S}
  OBVIOUS
<1> QED BY <1>1 DEF Numbered

\* What the job b holds of the deletions of u.
Holds(u, b) ==
  IF b.source = u /\ b.at \in {"shred", "clear", "append"} THEN b.deleted ELSE 0

LEMMA HeldMoves ==
  ASSUME Shapes, NEW u \in Sources, NEW j \in Jobs, NEW next, next \in Job,
         job' = [job EXCEPT ![j] = next], IsFiniteSet(ChunksHeld(u))
  PROVE  /\ IsFiniteSet(ChunksHeld(u)')
         /\ Cardinality(ChunksHeld(u)) \in Nat /\ Cardinality(ChunksHeld(u)') \in Nat
         /\ Holds(u, job[j]) \in Nat /\ Holds(u, next) \in Nat
         /\ Cardinality(ChunksHeld(u)') + Holds(u, job[j])
              = Cardinality(ChunksHeld(u)) + Holds(u, next)
<1> DEFINE before == [k \in Jobs |-> job[k].deleted]
           after == [k \in Jobs |-> job'[k].deleted]
           H == HeldBy(u)
           G == {k \in Jobs : job'[k].source = u /\ job'[k].at \in {"shred", "clear", "append"}}
           E == H \ {j}
<1>1. job'[j] = next /\ (\A k \in Jobs : k # j => job'[k] = job[k])
  BY OneMoves
<1>2. job[j] \in Job /\ job[j].deleted \in Nat /\ next.deleted \in Nat
      /\ before[j] = job[j].deleted /\ after[j] = next.deleted
  BY <1>1 DEF Shapes, Shaped, Job
<1>3. ChunksHeld(u) = Numbered(H, before)
  <2>1. H \subseteq Jobs
    BY DEF HeldBy, JobsOn
  <2>2. {{k} \X (1..job[k].deleted) : k \in H} = {{k} \X (1..before[k]) : k \in H}
    BY <2>1
  <2> QED BY <2>2 DEF ChunksHeld, Numbered
<1>4. ChunksHeld(u)' = Numbered(G, after)
  <2>1. HeldBy(u)' = G
    BY DEF HeldBy, JobsOn
  <2>2. {{k} \X (1..job'[k].deleted) : k \in G} = {{k} \X (1..after[k]) : k \in G}
    OBVIOUS
  <2> QED BY <2>1, <2>2 DEF ChunksHeld, Numbered
<1>5. H = (IF j \in H THEN E \cup {j} ELSE E) /\ G = (IF j \in G THEN E \cup {j} ELSE E)
      /\ j \notin E /\ (j \in H <=> job[j].source = u /\ job[j].at \in {"shred", "clear", "append"})
      /\ (j \in G <=> next.source = u /\ next.at \in {"shred", "clear", "append"})
  BY <1>1 DEF HeldBy, JobsOn
<1>6. \A k \in E : before[k] = after[k]
  BY <1>1 DEF HeldBy, JobsOn
<1> HIDE DEF before, after, H, G, E
<1>7. Numbered(E, before) = Numbered(E, after)
  BY <1>6, SameNumbered
<1>8. IsFiniteSet(Numbered(H, before))
  BY <1>3
<1>9. /\ IsFiniteSet(Numbered(E, before)) /\ Cardinality(Numbered(E, before)) \in Nat
      /\ j \in H => Cardinality(Numbered(H, before))
                      = Cardinality(Numbered(E, before)) + job[j].deleted
      /\ j \notin H => Numbered(H, before) = Numbered(E, before)
  <2>1. CASE j \in H
    BY <1>2, <1>5, <1>8, <2>1, OneMoreNumbered
  <2>2. CASE j \notin H
    BY <1>5, <1>8, <2>2, FS_CardinalityType
  <2> QED BY <2>1, <2>2
<1>10. /\ IsFiniteSet(Numbered(G, after))
       /\ j \in G => Cardinality(Numbered(G, after))
                       = Cardinality(Numbered(E, after)) + next.deleted
       /\ j \notin G => Numbered(G, after) = Numbered(E, after)
  <2>1. IsFiniteSet(Numbered(E, after))
    BY <1>7, <1>9
  <2>2. CASE j \in G
    BY <1>2, <1>5, <2>1, <2>2, OneMoreNumbered
  <2>3. CASE j \notin G
    BY <1>5, <2>1, <2>3
  <2> QED BY <2>2, <2>3
<1>11. /\ Holds(u, job[j]) = (IF j \in H THEN job[j].deleted ELSE 0)
       /\ Holds(u, next) = (IF j \in G THEN next.deleted ELSE 0)
  BY <1>5 DEF Holds
<1> QED BY <1>2, <1>3, <1>4, <1>7, <1>9, <1>10, <1>11

\* A row adds its figure to those of its source.
LEMMA RowAudited ==
  ASSUME NEW u \in Sources, NEW row, row \in Row, audit \in Seq(Row),
         audit' = Append(audit, row), IsFiniteSet(ChunksAudited(u))
  PROVE  /\ IsFiniteSet(ChunksAudited(u)') /\ Cardinality(ChunksAudited(u)) \in Nat
         /\ Cardinality(ChunksAudited(u)')
              = Cardinality(ChunksAudited(u)) + IF row.source = u THEN row.chunks_deleted ELSE 0
<1> DEFINE n == Len(audit) + 1
           before == [i \in DOMAIN audit |-> audit[i].chunks_deleted]
           after == [i \in DOMAIN audit' |-> audit'[i].chunks_deleted]
           R == RowsOf(u)
           Q == {i \in DOMAIN audit' : audit'[i].source = u}
<1>1. /\ Len(audit) \in Nat /\ DOMAIN audit = 1..Len(audit) /\ DOMAIN audit' = 1..n
      /\ audit'[n] = row /\ n \notin DOMAIN audit
      /\ \A i \in DOMAIN audit : audit'[i] = audit[i]
  BY LenProperties, AppendProperties
<1>2. ChunksAudited(u) = Numbered(R, before)
  <2>1. {{i} \X (1..audit[i].chunks_deleted) : i \in R} = {{i} \X (1..before[i]) : i \in R}
    BY DEF RowsOf
  <2> QED BY <2>1 DEF ChunksAudited, Numbered
<1>3. ChunksAudited(u)' = Numbered(Q, after)
  <2>1. RowsOf(u)' = Q
    BY DEF RowsOf
  <2>2. {{i} \X (1..audit'[i].chunks_deleted) : i \in Q} = {{i} \X (1..after[i]) : i \in Q}
    OBVIOUS
  <2> QED BY <2>1, <2>2 DEF ChunksAudited, Numbered
<1>4. /\ Q = IF row.source = u THEN R \cup {n} ELSE R
      /\ n \notin R /\ n \in DOMAIN audit'
  BY <1>1 DEF RowsOf
<1>5. \A i \in R : before[i] = after[i]
  BY <1>1 DEF RowsOf
<1>6. after[n] = row.chunks_deleted /\ row.chunks_deleted \in Nat
  BY <1>1, <1>4 DEF Row
<1> HIDE DEF before, after, R, Q, n
<1>7. Numbered(R, before) = Numbered(R, after)
  BY <1>5, SameNumbered
<1>8. IsFiniteSet(Numbered(R, after)) /\ Cardinality(Numbered(R, after)) \in Nat
  BY <1>2, <1>7, FS_CardinalityType
<1>9. CASE row.source = u
  <2>1. /\ IsFiniteSet(Numbered(R \cup {n}, after))
        /\ Cardinality(Numbered(R \cup {n}, after)) = Cardinality(Numbered(R, after)) + after[n]
    BY <1>4, <1>6, <1>8, OneMoreNumbered
  <2> QED BY <1>2, <1>3, <1>4, <1>6, <1>7, <1>8, <1>9, <2>1
<1>10. CASE row.source # u
  BY <1>2, <1>3, <1>4, <1>7, <1>8, <1>10
<1> QED BY <1>9, <1>10

\* What became of the chunks of u, but for those that a job still holds.
Accounted(u) ==
  Cardinality(ChunksOf(u)) + reported[u] + lost[u] + Cardinality(ChunksAudited(u))

\* The figures of u add up, and are figures.
Figured(u) ==
  /\ IsFiniteSet(ChunksAudited(u)) /\ IsFiniteSet(ChunksHeld(u))
  /\ upserted[u] = Accounted(u) + Cardinality(ChunksHeld(u))

Figures == backend = "pgvector" => \A u \in Sources : Figured(u)

LEMMA Counts ==
  ASSUME Shapes, NEW u \in Sources
  PROVE  /\ upserted[u] \in Nat /\ reported[u] \in Nat /\ lost[u] \in Nat
         /\ Cardinality(ChunksOf(u)) \in Nat /\ IsFiniteSet(ChunksOf(u))
  BY StoreFinite DEF Shapes, TypeOK

\* A step of the job j that gives one place what it takes from another.
LEMMA Rebalances ==
  ASSUME Shapes, Shapes', NEW u \in Sources, NEW j \in Jobs, NEW next, next \in Job,
         job' = [job EXCEPT ![j] = next], Figured(u), IsFiniteSet(ChunksAudited(u)'),
         upserted'[u] + Accounted(u) + Holds(u, job[j])
           = upserted[u] + Accounted(u)' + Holds(u, next)
  PROVE  Figured(u)'
<1>1. /\ upserted[u] \in Nat /\ upserted'[u] \in Nat
      /\ Accounted(u) \in Nat /\ Accounted(u)' \in Nat
  <2>1. /\ reported[u] \in Nat /\ lost[u] \in Nat /\ Cardinality(ChunksOf(u)) \in Nat
        /\ reported'[u] \in Nat /\ lost'[u] \in Nat /\ Cardinality(ChunksOf(u)') \in Nat
    <3>1. IsFiniteSet(ChunksOf(u)')
      <4>1. ChunksOf(u)' \in SUBSET store'
        BY DEF ChunksOf
      <4> QED BY <4>1, FS_Subset DEF Shapes
    <3> QED BY <3>1, Counts, FS_CardinalityType DEF Shapes, TypeOK
  <2>2. Cardinality(ChunksAudited(u)) \in Nat /\ Cardinality(ChunksAudited(u)') \in Nat
    BY FS_CardinalityType DEF Figured
  <2>3. Accounted(u) \in Nat /\ Accounted(u)' \in Nat
    BY <2>1, <2>2 DEF Accounted
  <2> QED BY <2>3 DEF Shapes, TypeOK
<1>2. /\ IsFiniteSet(ChunksHeld(u)')
      /\ Cardinality(ChunksHeld(u)) \in Nat /\ Cardinality(ChunksHeld(u)') \in Nat
      /\ Holds(u, job[j]) \in Nat /\ Holds(u, next) \in Nat
      /\ Cardinality(ChunksHeld(u)') + Holds(u, job[j])
           = Cardinality(ChunksHeld(u)) + Holds(u, next)
  BY HeldMoves DEF Figured
<1>3. upserted[u] = Accounted(u) + Cardinality(ChunksHeld(u))
  BY DEF Figured
<1>4. upserted'[u] = Accounted(u)' + Cardinality(ChunksHeld(u)')
  BY <1>1, <1>2, <1>3
<1> QED BY <1>2, <1>4 DEF Figured

\* What an upsert stores is new: nothing in the store has its moment.
LEMMA UpsertCounts ==
  ASSUME Shapes, Certified, NEW j \in Jobs, Upsert(j), NEW u \in Sources
  PROVE  Cardinality(ChunksOf(u)')
           = Cardinality(ChunksOf(u))
             + IF job[j].source = u THEN Cardinality(job[j].left) ELSE 0
<1> DEFINE C == ChunksOf(u)
           S == Stored(j)
<1>1. /\ store' = store \cup S /\ IsFiniteSet(S)
      /\ Cardinality(S) = Cardinality(job[j].left)
      /\ \A c \in S : c.source = job[j].source /\ c.stamp = stamp + 1
      /\ Cardinality(S) \in Nat
  BY UpsertStores, StoredFacts, FS_CardinalityType
<1>2. IsFiniteSet(C) /\ Cardinality(C) \in Nat
  BY Counts
<1>3. CASE job[j].source = u
  <2>1. ChunksOf(u)' = C \cup S
    BY <1>1, <1>3 DEF ChunksOf
  <2>2. C \cap S = {}
    <3>1. \A c \in store : c.stamp <= stamp /\ c.stamp \in Nat
      BY DEF Certified, Shapes, TypeOK, Chunk
    <3>2. stamp \in Nat
      BY BoundsAssumption DEF Shapes, TypeOK
    <3> QED BY <1>1, <3>1, <3>2 DEF ChunksOf
  <2> HIDE DEF C, S
  <2>3. Cardinality(C \cup S) = Cardinality(C) + Cardinality(S) - Cardinality(C \cap S)
    BY <1>1, <1>2, FS_Union
  <2>4. Cardinality(C \cap S) = 0
    BY <2>2, FS_EmptySet
  <2> QED BY <1>1, <1>2, <1>3, <2>1, <2>3, <2>4 DEF C, S
<1>4. CASE job[j].source # u
  <2>1. ChunksOf(u)' = C
    BY <1>1, <1>4 DEF ChunksOf
  <2> QED BY <1>2, <1>4, <2>1
<1> QED BY <1>3, <1>4

LEMMA ActsFigured ==
  ASSUME Shapes, Shapes', Certified, NEW j \in Jobs, Acts(j), backend = "pgvector",
         NEW u \in Sources, Figured(u)
  PROVE  Figured(u)'
<1> DEFINE b == job[j]
<1>1. /\ b \in Job /\ Shaped(b) /\ Idle \in Job /\ Holds(u, Idle) = 0
      /\ upserted \in [Sources -> Nat] /\ reported \in [Sources -> Nat]
      /\ lost \in [Sources -> Nat] /\ upserted[u] \in Nat /\ reported[u] \in Nat
      /\ lost[u] \in Nat /\ b.deleted \in Nat
      /\ Cardinality(ChunksOf(u)) \in Nat /\ IsFiniteSet(ChunksAudited(u))
      /\ Cardinality(ChunksAudited(u)) \in Nat /\ Accounted(u) \in Nat
  <2>1. Idle \in Job /\ Holds(u, Idle) = 0
    BY DEF Idle, Job, Places, Holds
  <2>2. b \in Job /\ Shaped(b) /\ b.deleted \in Nat
    BY DEF Shapes, Shaped, Job
  <2>3. /\ IsFiniteSet(ChunksAudited(u)) /\ Cardinality(ChunksAudited(u)) \in Nat
        /\ Cardinality(ChunksOf(u)) \in Nat /\ reported[u] \in Nat /\ lost[u] \in Nat
    BY Counts, FS_CardinalityType DEF Figured
  <2>4. Accounted(u) \in Nat
    BY <2>3 DEF Accounted
  <2> QED BY <2>1, <2>2, <2>3, <2>4 DEF Shapes, TypeOK
<1>2. ASSUME UNCHANGED store PROVE ChunksOf(u)' = ChunksOf(u)
  BY <1>2 DEF ChunksOf
<1>3. ASSUME UNCHANGED audit PROVE ChunksAudited(u)' = ChunksAudited(u)
  BY <1>3 DEF ChunksAudited, RowsOf
\* Nothing of a figure moves.
<1>4. ASSUME UNCHANGED <<store, audit, upserted, reported, lost>>,
             NEW next, next \in Job, job' = [job EXCEPT ![j] = next],
             Holds(u, next) = Holds(u, b)
      PROVE  Figured(u)'
  <2>1. Holds(u, b) \in Nat
    BY <1>1 DEF Holds
  <2>2. Accounted(u)' = Accounted(u)
    BY <1>2, <1>3, <1>4 DEF Accounted
  <2> QED BY <1>1, <1>3, <1>4, <2>1, <2>2, Rebalances
<1>5. ASSUME NEW v \in Sources, StartSync(j, v) \/ StartDelete(j, v) \/ StartErase(j, v)
      PROVE  Figured(u)'
  <2>1. PICK first : /\ Begin(j, v, first) /\ first \in Job
                     /\ first.at \in {"hashes", "count", "delete"}
    <3> DEFINE sync == [Idle EXCEPT !.op = "sync", !.source = v, !.at = "hashes",
                                    !.chunks = document[v]]
               deletion == [Idle EXCEPT !.op = "delete", !.source = v, !.at = FirstOfDelete]
               erasure == [Idle EXCEPT !.op = "erase", !.source = v, !.at = FirstOfDelete,
                                       !.since = stamp]
    <3>1. /\ sync.at = "hashes" /\ deletion.at \in {"count", "delete"}
          /\ erasure.at \in {"count", "delete"}
      BY DEF Idle, FirstOfDelete
    <3>2. Begin(j, v, sync) \/ Begin(j, v, deletion) \/ Begin(j, v, erasure)
      BY <1>5 DEF StartSync, StartDelete, StartErase
    <3>3. job'[j] = sync \/ job'[j] = deletion \/ job'[j] = erasure
      BY <3>2 DEF Begin, Shapes, TypeOK
    <3> HIDE DEF sync, deletion, erasure
    <3>4. PICK first \in {sync, deletion, erasure} : Begin(j, v, first)
      BY <3>2
    <3>5. first = job'[j]
      BY <3>4, OneMoves DEF Begin
    <3>6. job'[j] \in Job
      BY DEF Shapes, TypeOK
    <3> QED BY <3>1, <3>4, <3>5, <3>6
  <2>2. /\ UNCHANGED <<store, audit, upserted, reported, lost>>
        /\ job' = [job EXCEPT ![j] = first] /\ b.at = "idle"
    BY <2>1 DEF Begin, stores, Idle
  <2>3. Holds(u, first) = 0 /\ Holds(u, b) = 0
    BY <2>1, <2>2 DEF Holds
  <2> QED BY <1>4, <2>1, <2>2, <2>3
<1>6. CASE ReadHashes(j) \/ Record(j) \/ Count(j) \/ Sign(j)
  <2>1. UNCHANGED <<store, audit, upserted, reported, lost>>
    BY <1>6 DEF ReadHashes, Record, Count, Sign, stores, history
  <2>2. b.at \in {"hashes", "record", "count", "sign"}
    BY <1>6 DEF ReadHashes, Record, Count, Sign
  <2>3. PICK next : job' = [job EXCEPT ![j] = next]
                    /\ next.at \in {"upsert", "record", "delete", "idle"}
    <3> DEFINE upsert == [b EXCEPT !.at = "upsert", !.left = NewChunks(j)]
               record == [b EXCEPT !.left = @ \ {FirstLeft(j)}]
               delete == [b EXCEPT !.at = "delete", !.deleted = Cardinality(ChunksOf(b.source))]
    <3>1. upsert.at = "upsert" /\ record.at = b.at /\ delete.at = "delete" /\ Idle.at = "idle"
      BY <1>1 DEF Job, Idle
    <3>2. \/ job' = [job EXCEPT ![j] = upsert] \/ job' = [job EXCEPT ![j] = Idle]
          \/ Record(j) /\ job' = [job EXCEPT ![j] = record]
          \/ job' = [job EXCEPT ![j] = delete]
      BY <1>6 DEF ReadHashes, Record, Count, Sign, Step
    <3>3. Record(j) => b.at = "record"
      BY DEF Record
    <3> HIDE DEF upsert, record, delete
    <3> QED BY <3>1, <3>2, <3>3
  <2>4. next \in Job
    BY <2>3, OneMoves DEF Shapes, TypeOK
  <2>5. Holds(u, next) = 0 /\ Holds(u, b) = 0
    BY <2>2, <2>3 DEF Holds
  <2> QED BY <1>4, <2>1, <2>3, <2>4, <2>5
<1>7. CASE Shred(j)
  <2>1. PICK next : /\ job' = [job EXCEPT ![j] = next] /\ next \in Job
                    /\ next.at = "append" /\ next.source = b.source /\ next.deleted = b.deleted
    <3> DEFINE after == [b EXCEPT !.at = "append"]
    <3>1. after.at = "append" /\ after.source = b.source /\ after.deleted = b.deleted
      BY <1>1 DEF Job
    <3>2. job' = [job EXCEPT ![j] = after]
      BY <1>7 DEF Shred, Step
    <3>3. after \in Job
      BY <1>1 DEF Job, Places
    <3> HIDE DEF after
    <3> QED BY <3>1, <3>2, <3>3
  <2>2. b.at = "shred" /\ UNCHANGED <<store, audit, upserted, reported, lost>>
    BY <1>7 DEF Shred, history
  <2>3. Holds(u, next) = Holds(u, b)
    BY <2>1, <2>2 DEF Holds
  <2> QED BY <1>4, <2>1, <2>2, <2>3
<1>8. CASE Upsert(j)
  <2>1. PICK next : job' = [job EXCEPT ![j] = next] /\ next \in Job /\ next.at = "record"
    <3> DEFINE after == [b EXCEPT !.at = "record"]
    <3>1. after \in Job /\ after.at = "record" /\ job' = [job EXCEPT ![j] = after]
      BY <1>1, <1>8 DEF Job, Places, Upsert, Step
    <3> HIDE DEF after
    <3> QED BY <3>1
  <2> DEFINE added == IF b.source = u THEN Cardinality(b.left) ELSE 0
  <2>2. b.at = "upsert" /\ UNCHANGED <<audit, reported, lost>>
        /\ upserted'[u] = upserted[u] + added
    BY <1>1, <1>8 DEF Upsert
  <2>3. added \in Nat
    BY <2>2, JobFacts
  <2>4. Cardinality(ChunksOf(u)') = Cardinality(ChunksOf(u)) + added
    BY <1>8, UpsertCounts
  <2>5. Holds(u, b) = 0 /\ Holds(u, next) = 0
    BY <2>1, <2>2 DEF Holds
  <2> HIDE DEF added
  <2>6. Accounted(u)' = Accounted(u) + added
    BY <1>1, <1>3, <2>2, <2>3, <2>4 DEF Accounted
  <2>7. upserted'[u] + Accounted(u) + Holds(u, b) = upserted[u] + Accounted(u)' + Holds(u, next)
    BY <1>1, <2>2, <2>3, <2>5, <2>6
  <2> QED BY <1>1, <1>3, <2>1, <2>2, <2>7, Rebalances
<1>9. CASE Delete(j)
  <2> DEFINE removed == Cardinality(ChunksOf(b.source))
  <2>0. b.at = "delete" /\ b.source \in Sources /\ removed \in Nat
    BY <1>9, JobFacts, Counts DEF Delete
  <2>1. PICK next : /\ job' = [job EXCEPT ![j] = next] /\ next \in Job
                    /\ next.at \in {"shred", "clear"} /\ next.source = b.source
                    /\ next.deleted = removed
    <3> DEFINE after == [b EXCEPT !.at = IF b.op = "erase" THEN "shred" ELSE "clear",
                                  !.deleted = Figure(j, Cardinality(Doomed(b.source))),
                                  !.removed = Cardinality(Doomed(b.source))]
    <3>1. job' = [job EXCEPT ![j] = after]
      BY <1>9 DEF Delete, Step
    <3>2. /\ after.at \in {"shred", "clear"} /\ after.source = b.source
          /\ after.deleted = Cardinality(ChunksOf(b.source))
      BY <1>1 DEF Job, Figure, Doomed
    <3> HIDE DEF after
    <3>3. after \in Job
      BY <3>1, OneMoves DEF Shapes, TypeOK
    <3> QED BY <3>1, <3>2, <3>3
  <2>2. UNCHANGED <<audit, upserted, reported, lost>> /\ store' = store \ ChunksOf(b.source)
    BY <1>9 DEF Delete, Doomed
  <2>3. CASE b.source = u
    <3>1. ChunksOf(u)' = {}
      BY <2>2, <2>3 DEF ChunksOf
    <3>2. Cardinality(ChunksOf(u)') = 0
      BY <3>1, FS_EmptySet
    <3>3. Holds(u, b) = 0 /\ Holds(u, next) = Cardinality(ChunksOf(u))
      BY <2>0, <2>1, <2>3 DEF Holds
    <3>4. Accounted(u)' + Cardinality(ChunksOf(u)) = Accounted(u)
      BY <1>1, <1>3, <2>2, <3>2 DEF Accounted
    <3>5. upserted'[u] + Accounted(u) + Holds(u, b) = upserted[u] + Accounted(u)' + Holds(u, next)
      <4>1. Accounted(u)' \in Nat
        BY <1>1, <1>3, <2>2, <3>2 DEF Accounted
      <4> QED BY <1>1, <2>2, <3>3, <3>4, <4>1
    <3> QED BY <1>1, <1>3, <2>1, <2>2, <3>5, Rebalances
  <2>4. CASE b.source # u
    <3>1. ChunksOf(u)' = ChunksOf(u)
      BY <2>2, <2>4 DEF ChunksOf
    <3>2. Holds(u, b) = 0 /\ Holds(u, next) = 0
      BY <2>1, <2>4 DEF Holds
    <3>3. Accounted(u)' = Accounted(u)
      BY <1>3, <2>2, <3>1 DEF Accounted
    <3> QED BY <1>1, <1>3, <2>1, <2>2, <3>2, <3>3, Rebalances
  <2> QED BY <2>3, <2>4
<1>10. CASE Clear(j)
  <2>1. /\ job' = [job EXCEPT ![j] = Idle] /\ UNCHANGED <<store, audit, upserted, lost>>
        /\ b.at = "clear"
        /\ reported'[u] = reported[u] + IF b.source = u THEN b.deleted ELSE 0
    BY <1>1, <1>10 DEF Clear, Step
  <2>2. Holds(u, b) = (IF b.source = u THEN b.deleted ELSE 0) /\ Holds(u, b) \in Nat
    BY <1>1, <2>1 DEF Holds
  <2>3. Accounted(u)' = Accounted(u) + Holds(u, b)
    BY <1>1, <1>2, <1>3, <2>1, <2>2 DEF Accounted
  <2>4. upserted'[u] + Accounted(u) + Holds(u, b) = upserted[u] + Accounted(u)' + Holds(u, Idle)
    BY <1>1, <2>1, <2>2, <2>3
  <2> QED BY <1>1, <1>3, <2>1, <2>4, Rebalances
<1>11. CASE AppendRow(j)
  <2>0. b.at = "append" /\ b.source \in Sources
    BY <1>11, JobFacts DEF AppendRow
  <2>1. PICK next : job' = [job EXCEPT ![j] = next] /\ next.at = "sign"
    <3> DEFINE after == [b EXCEPT !.at = "sign", !.row = Len(audit) + 1]
    <3>1. after.at = "sign" /\ job' = [job EXCEPT ![j] = after]
      BY <1>1, <1>11 DEF Job, AppendRow, Step
    <3> HIDE DEF after
    <3> QED BY <3>1
  <2>2. next \in Job
    BY <2>1, OneMoves DEF Shapes, TypeOK
  <2>3. PICK row \in Row : /\ audit' = Append(audit, row)
                           /\ row.source = b.source /\ row.chunks_deleted = b.deleted
    <3> DEFINE r == [source |-> b.source, chunks_deleted |-> b.deleted]
    <3>1. r \in Row /\ r.source = b.source /\ r.chunks_deleted = b.deleted
      BY <1>1, <2>0 DEF Row
    <3>2. audit' = Append(audit, r)
      BY <1>11 DEF AppendRow
    <3> HIDE DEF r
    <3> QED BY <3>1, <3>2
  <2>4. /\ IsFiniteSet(ChunksAudited(u)')
        /\ Cardinality(ChunksAudited(u)')
             = Cardinality(ChunksAudited(u)) + IF row.source = u THEN row.chunks_deleted ELSE 0
    <3>1. audit \in Seq(Row)
      BY DEF Shapes, TypeOK
    <3> QED BY <1>1, <2>3, <3>1, RowAudited
  <2>5. UNCHANGED <<store, upserted, reported, lost>>
    BY <1>11 DEF AppendRow, history
  <2>6. /\ Holds(u, b) = (IF b.source = u THEN b.deleted ELSE 0) /\ Holds(u, b) \in Nat
        /\ Holds(u, next) = 0
    BY <1>1, <2>0, <2>1 DEF Holds
  <2>7. Accounted(u)' = Accounted(u) + Holds(u, b)
    BY <1>1, <1>2, <2>3, <2>4, <2>5, <2>6 DEF Accounted
  <2>8. upserted'[u] + Accounted(u) + Holds(u, b) = upserted[u] + Accounted(u)' + Holds(u, next)
    BY <1>1, <2>5, <2>6, <2>7
  <2> QED BY <2>1, <2>2, <2>4, <2>8, Rebalances
<1>12. CASE Die(j)
  <2>1. /\ job' = [job EXCEPT ![j] = Idle] /\ UNCHANGED <<store, audit, upserted, reported>>
        /\ lost'[u] = lost[u] + Holds(u, b)
    BY <1>1, <1>12 DEF Die, Step, stores, Holds
  <2>2. Holds(u, b) \in Nat
    BY <1>1 DEF Holds
  <2>3. Accounted(u)' = Accounted(u) + Holds(u, b)
    BY <1>1, <1>2, <1>3, <2>1, <2>2 DEF Accounted
  <2>4. upserted'[u] + Accounted(u) + Holds(u, b) = upserted[u] + Accounted(u)' + Holds(u, Idle)
    BY <1>1, <2>1, <2>2, <2>3
  <2> QED BY <1>1, <1>3, <2>1, <2>4, Rebalances
<1> QED BY <1>5, <1>6, <1>7, <1>8, <1>9, <1>10, <1>11, <1>12 DEF Acts, Work

LEMMA FiguresStep ==
  ASSUME Shapes, Shapes', Certified, Figures, [Next]_vars
  PROVE  Figures'
<1> SUFFICES ASSUME backend' = "pgvector", NEW u \in Sources
             PROVE  Figured(u)'
  BY DEF Figures
<1>1. backend' = backend
  BY SameBackend
<1>2. backend = "pgvector" /\ Figured(u)
  BY <1>1 DEF Figures
<1>3. ASSUME UNCHANGED <<store, audit, job, upserted, reported, lost>> PROVE Figured(u)'
  <2>1. /\ ChunksOf(u)' = ChunksOf(u) /\ ChunksAudited(u)' = ChunksAudited(u)
        /\ ChunksHeld(u)' = ChunksHeld(u)
    BY <1>3 DEF ChunksOf, ChunksAudited, RowsOf, ChunksHeld, HeldBy, JobsOn
  <2> QED BY <1>2, <1>3, <2>1 DEF Figured, Accounted
<1> QED BY <1>2, <1>3, StepKinds, ActsFigured DEF Tokenize, stores, history

-----------------------------------------------------------------------------
(* The theorems.                                                            *)

ErasureInv == Shapes /\ Certified /\ Lineages /\ Figures

LEMMA InitErasure == Init => ErasureInv
<1> SUFFICES ASSUME Init PROVE ErasureInv
  OBVIOUS
<1>1. Shapes
  BY InitShapes
<1>2. /\ store = {} /\ tokens = {} /\ audit = <<>> /\ certificates = {}
      /\ \A j \in Jobs : job[j] = Idle /\ job[j].at = "idle" /\ job[j].source = NoSource
  BY DEF Init, Idle
<1>3. Certified
  BY <1>2 DEF Certified, Cleared, CertificateHolds
<1>4. \A u \in Sources : ChunksOf(u) = {} /\ TextsOf(u) = {} /\ JobsOn(u) = {} /\ RowsOf(u) = {}
  BY <1>2, NoSourceAssumption DEF ChunksOf, TextsOf, JobsOn, RowsOf
<1>5. Lineages
  BY <1>4 DEF Lineages, Followed, Multiplicity, Settled, Init
<1>6. Figures
  <2> SUFFICES ASSUME NEW u \in Sources PROVE Figured(u)
    BY DEF Figures
  <2>1. ChunksAudited(u) = {} /\ ChunksHeld(u) = {} /\ ChunksOf(u) = {}
    BY <1>4 DEF ChunksAudited, ChunksHeld, HeldBy
  <2>2. IsFiniteSet({}) /\ Cardinality({}) = 0
    BY FS_EmptySet
  <2> QED BY <2>1, <2>2 DEF Figured, Accounted, Init
<1> QED BY <1>1, <1>3, <1>5, <1>6 DEF ErasureInv

\* In every behaviour, with any number of overlapping calls, jobs that die and
\* edits: every job's record is shaped by where it stands, and the three
\* arguments below hold.
THEOREM ErasureCorrect == Spec => []ErasureInv
<1>1. Init => ErasureInv
  BY InitErasure
<1>2. ErasureInv /\ [Next]_vars => ErasureInv'
  BY ShapesStep, CertifiedStep, LineagesStep, FiguresStep DEF ErasureInv
<1> QED BY <1>1, <1>2, PTL DEF Spec

\* The state is what erasure.py and pipeline.py say they keep, whatever the
\* order in which their calls interleave.
THEOREM ErasureTyped == Spec => []TypeOK
<1>1. ErasureInv => TypeOK
  BY DEF ErasureInv, Shapes
<1> QED BY <1>1, ErasureCorrect, PTL

\* A certificate that ErasureService.erase signed stays true, also while other
\* jobs ingest and erase: it has its own audit row, nothing of the source stored
\* before the erasure began is left, and no token of that time.
THEOREM CertificatesHold == Spec => []CertificateHolds
<1>1. ErasureInv => CertificateHolds
  BY DEF ErasureInv, Certified
<1> QED BY <1>1, ErasureCorrect, PTL

\* What sync_source skips is stored: on a source whose calls did not overlap or
\* die, the lineage is exact between calls, up to an erasure, and no text is
\* stored more often than a document holds it.
THEOREM LineageExact == Spec => []LineageTellsStore
<1>1. ErasureInv => LineageTellsStore
  <2> SUFFICES ASSUME ErasureInv, NEW u \in Sources, ~ disturbed[u]
               PROVE  /\ \A text \in TextsOf(u) : \E doc \in Documents :
                           Cardinality({c \in ChunksOf(u) : c.text = text})
                             <= Occurrences(text, doc)
                      /\ JobsOn(u) = {} =>
                           /\ TextsOf(u) \subseteq lineage[u]
                           /\ ~ erased[u] => lineage[u] = TextsOf(u)
    BY DEF LineageTellsStore
  <2> QED BY DEF ErasureInv, Lineages, Followed, Multiplicity, Settled
<1> QED BY <1>1, ErasureCorrect, PTL

\* On pgvector no chunk is counted twice or forgotten by the figures of
\* delete_by_source, whichever deletions and syncs of a source overlap or die.
THEOREM FiguresAddUp == Spec => []DeletionsAddUp
<1>1. ErasureInv => DeletionsAddUp
  <2> SUFFICES ASSUME ErasureInv, backend = "pgvector", NEW u \in Sources
               PROVE  upserted[u] = Cardinality(ChunksOf(u)) + reported[u] + lost[u]
                                    + Cardinality(ChunksAudited(u)) + Cardinality(ChunksHeld(u))
    BY DEF DeletionsAddUp
  <2> QED BY DEF ErasureInv, Figures, Figured, Accounted
<1> QED BY <1>1, ErasureCorrect, PTL
=============================================================================
