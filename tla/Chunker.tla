------------------------------- MODULE Chunker -------------------------------
(***************************************************************************)
(* StructureAwareChunker.chunk() of one document (saap/ingest/pipeline.py).*)
(* Words are positions 1, 2, ... of the document; the words i+1..j are the *)
(* interval <<i, j>>, and current_words is the interval from chunkFrom to  *)
(* chunkTo.  A section begins at each heading.                             *)
(***************************************************************************)
EXTENDS Integers

CONSTANTS
  Target,         \* target_words
  OverlapWords,   \* int(target_words * overlap_ratio)
  DocumentWords   \* bound on the words of the document

\* A ratio below one; with a larger one the inner loop would not end.
ASSUME ChunkerAssumption ==
  /\ Target \in Nat \ {0} /\ DocumentWords \in Nat
  /\ OverlapWords \in Nat /\ OverlapWords < Target

VARIABLES
  chunkFrom, chunkTo,  \* current_words
  headings,            \* where sections begin
  chunks,              \* the intervals flushed
  chunkStage           \* "reading" blocks, "cutting" the words held, or "done"

chunkerVars == <<chunkFrom, chunkTo, headings, chunks, chunkStage>>

Positions == 0..DocumentWords

ChunkerTypeOK ==
  /\ chunkFrom \in Positions /\ chunkTo \in Positions /\ chunkFrom <= chunkTo
  /\ headings \subseteq Positions
  /\ chunks \subseteq Positions \X Positions
  /\ chunkStage \in {"reading", "cutting", "done"}

ChunkerInit ==
  /\ chunkFrom = 0 /\ chunkTo = 0
  /\ headings = {} /\ chunks = {} /\ chunkStage = "reading"

\* A block of n words (PlainTextParser drops empty paragraphs).  A heading
\* flushes the words held.
TakeBlock(n, isHeading) ==
  /\ chunkStage = "reading" /\ chunkTo + n <= DocumentWords
  /\ IF isHeading /\ chunkFrom < chunkTo
     THEN chunks' = chunks \cup {<<chunkFrom, chunkTo>>} /\ chunkFrom' = chunkTo
     ELSE UNCHANGED <<chunks, chunkFrom>>
  /\ headings' = IF isHeading THEN headings \cup {chunkTo} ELSE headings
  /\ chunkTo' = chunkTo + n
  /\ chunkStage' = "cutting"

\* Mutant: the overlap is not kept.
CutWithoutOverlap ==
  /\ chunkStage = "cutting" /\ chunkTo - chunkFrom >= Target
  /\ chunks' = chunks \cup {<<chunkFrom, chunkFrom + Target>>}
  /\ chunkFrom' = chunkFrom + Target
  /\ UNCHANGED <<chunkTo, headings, chunkStage>>

\* One turn of the inner loop.
Cut ==
  /\ chunkStage = "cutting" /\ chunkTo - chunkFrom >= Target
  /\ chunks' = chunks \cup {<<chunkFrom, chunkFrom + Target>>}
  /\ chunkFrom' = chunkFrom + Target - OverlapWords
  /\ UNCHANGED <<chunkTo, headings, chunkStage>>

Fits ==
  /\ chunkStage = "cutting" /\ chunkTo - chunkFrom < Target
  /\ chunkStage' = "reading"
  /\ UNCHANGED <<chunkFrom, chunkTo, headings, chunks>>

EndDocument ==
  /\ chunkStage = "reading"
  /\ chunks' = IF chunkFrom < chunkTo THEN chunks \cup {<<chunkFrom, chunkTo>>} ELSE chunks
  /\ chunkStage' = "done"
  /\ UNCHANGED <<chunkFrom, chunkTo, headings>>

ChunkerNext ==
  \/ \E n \in 1..DocumentWords, isHeading \in BOOLEAN : TakeBlock(n, isHeading)
  \/ Cut
  \/ Fits
  \/ EndDocument

ChunkerSpec == ChunkerInit /\ [][ChunkerNext]_chunkerVars

-----------------------------------------------------------------------------
\* No heading falls inside the words i+1..j.
OneSection(i, j) == \A h \in headings : h <= i \/ j <= h

\* No chunk is longer than the target or crosses a heading.
ChunksAreSections ==
  \A c \in chunks : c[1] < c[2] /\ c[2] - c[1] <= Target /\ OneSection(c[1], c[2])

\* What is at most a word longer than the overlap stays together in some
\* chunk of its section, however many times the section is cut; so no word is
\* lost, and a phrase that a cut tears apart is whole in the next chunk.
ChunksCoverDocument ==
  /\ ChunksAreSections
  /\ chunkStage = "done" =>
       \A i, j \in 0..chunkTo :
         i < j /\ j - i <= OverlapWords + 1 /\ OneSection(i, j)
           => \E c \in chunks : c[1] <= i /\ j <= c[2]
=============================================================================
