-------------------------- MODULE KnowledgeProofs ---------------------------
(***************************************************************************)
(* Proofs about the knowledge service.                                      *)
(*                                                                         *)
(* Shared collections: what is searched is whole, what is called embedded   *)
(* is, and readers are told no untruth, for any number of sources, reads    *)
(* and faults.  What a source shows follows from how far its ingest has     *)
(* come (IngestKeeps) and from what a backfill has counted (FillKeeps).     *)
(*                                                                         *)
(* Entries: files mirror entries, for any number of writers, writes,        *)
(* attempts and faults.                                                     *)
(***************************************************************************)
EXTENDS SharedKnowledge, KnowledgeEntries, FiniteSetTheorems, TLAPS

\* A row that was not created yet, or is gone, holds nothing; of a document's
\* chunks only the second statement of create_chunks leaves some without a vector.
RowsKeep ==
    \A s \in Sources :
        /\ src[s].st = "none" => src[s] = NoSource
        /\ src[s].st = "gone" => src[s] = Gone
        /\ src[s].vec \subseteq src[s].rows
        /\ Missing(s) # {} => src[s].rows = Chunks

\* How far ingest_source has come says what it has stored.
IngestKeeps ==
    /\ ing.pc = "source" => Own.st = "none"
    /\ ing.pc \notin {"idle", "source"} => Own.st \in {"pending", "gone"}
    /\ Alive =>
        /\ ing.pc \in {"job", "run", "fetch", "doc"} => Own.rows = {} /\ Own.doc = "none"
        /\ ing.pc \in {"embed", "with"} => Own.rows = {} /\ Own.doc = "pending"
        /\ ing.pc \in {"without", "status", "completed", "active"} => Vectors \subseteq Own.vec
        /\ ing.pc \in {"status", "completed", "active"} => Own.rows = Chunks
        /\ ing.pc = "active" => Own.job = "completed"

\* A backfill is at a document whose chunks are all stored, and what it has
\* counted still holds: vectors only come, unless all goes.
FillKeeps ==
    /\ bf.pc \in {"embed", "count", "status"} =>
          src[bf.s].st = "gone" \/ src[bf.s].rows = Chunks
    /\ bf.pc = "status" /\ bf.count = "embedded" =>
          src[bf.s].st = "gone" \/ src[bf.s].vec = Chunks

\* A search that may see the collection is known to; what it finds was active.
FindKeeps ==
    /\ find.pc = "idle" => find.found = {}
    /\ find.pc # "idle" /\ Sees(find.who) => find.seen
    /\ \A s \in find.found \cup hits : src[s].st \in {"active", "gone"}

\* A graph under way holds what its queries would return now.
Hits(u) == IF Sees(u) THEN {s \in hits : src[s].rows # {}} ELSE {}
GraphKeeps ==
    /\ graph.pc \in {"hits", "total", "drawn"} => graph.srcs \in Page(With(graph.who))
    /\ graph.pc \in {"total", "drawn"} => graph.hits \in Page(Hits(graph.who))
    /\ graph.pc = "drawn" => graph.total = Total

SharedInv ==
    /\ TypeOK /\ RowsKeep /\ IngestKeeps /\ FillKeeps /\ FindKeeps /\ GraphKeeps
    /\ ActiveIsWhole /\ EmbeddedIsTrue /\ FoundIsVisible
-----------------------------------------------------------------------------
(* Types.                                                                   *)

\* The sizes of sets of chunks, and the status they stand for.
LEMMA ChunkCount ==
    ASSUME NEW v \in SUBSET Chunks
    PROVE  /\ StatusFor(Cardinality(v)) \in {"pending", "partial", "embedded"}
           /\ StatusFor(Cardinality(v)) = "embedded" => v = Chunks
<1>1. v \in {{}, {1}, {2}, {1, 2}}
  BY DEF Chunks
<1>2. Cardinality({}) = 0 /\ Cardinality({1}) = 1 /\ Cardinality({2}) = 1
  BY FS_EmptySet, FS_Singleton
<1>3. v = {} \/ v = {1} \/ v = {2} \/ v = Chunks
  BY <1>1 DEF Chunks
<1>4. StatusFor(0) = "pending" /\ StatusFor(1) = "partial"
  BY DEF StatusFor
<1>5. StatusFor(Cardinality(v)) \in {"pending", "partial", "embedded"}
  BY DEF StatusFor
<1>6. CASE v = {}
  BY <1>2, <1>4, <1>5, <1>6
<1>7. CASE v = {1} \/ v = {2}
  BY <1>2, <1>4, <1>5, <1>7
<1>8. QED
  BY <1>3, <1>5, <1>6, <1>7

\* There are at most N sources in a set of them.
LEMMA SourceCount ==
    ASSUME NEW S \in SUBSET Sources
    PROVE  IsFiniteSet(S) /\ Cardinality(S) \in 0..N
<1>1. IsFiniteSet(Sources) /\ Cardinality(Sources) = N
  <2>1. IsFiniteSet(1..N) /\ Cardinality(1..N) = N
    BY SharedAssumption, FS_Interval
  <2>2. QED
    BY <2>1 DEF Sources
<1>2. IsFiniteSet(S) /\ Cardinality(S) <= N
  BY <1>1, FS_Subset
<1>3. Cardinality(S) \in Nat
  BY <1>2, FS_CardinalityType
<1>4. QED
  BY <1>2, <1>3, SharedAssumption

\* The values for "nothing there" have the types of their variables.
LEMMA NothingTypes ==
    /\ NoSource \in Rows /\ Gone \in Rows /\ NoIngest \in Ingests /\ NoFill \in Fills
    /\ NoFind \in Finds /\ NoGraph \in Graphs
<1>1. NoSource \in Rows /\ Gone \in Rows
  BY DEF Rows, NoSource, Gone
<1>2. 1 \in Sources /\ "owner" \in Users
  BY SharedAssumption DEF Sources, Users
<1>3. NoIngest \in Ingests /\ NoFill \in Fills
  BY <1>2, SharedAssumption DEF NoIngest, Ingests, NoFill, Fills
<1>4. NoFind \in Finds /\ NoGraph \in Graphs
  BY <1>2, SharedAssumption DEF NoFind, Finds, NoGraph, Graphs
<1>5. QED
  BY <1>1, <1>3, <1>4

\* What the statements make of the rows of a source are rows.
LEMMA RowTypes ==
    ASSUME NEW r \in Rows
    PROVE  /\ \A x \in {"pending", "active", "error"} : [r EXCEPT !.st = x] \in Rows
           /\ \A x \in {"pending", "running", "completed", "failed"} : [r EXCEPT !.job = x] \in Rows
           /\ \A x \in {"none", "pending", "partial", "embedded"} : [r EXCEPT !.doc = x] \in Rows
           /\ \A v \in SUBSET Chunks : /\ [r EXCEPT !.rows = v] \in Rows
                                       /\ [r EXCEPT !.vec = v] \in Rows
                                       /\ [r EXCEPT !.rows = v, !.vec = v] \in Rows
  BY DEF Rows

\* A failed statement, a restart, a search and a backfill are counted.
LEMMA CountTypes == ASSUME TypeOK, Fault \/ Read PROVE used' \in Bounds
  BY SharedAssumption DEF TypeOK, Fault, Read, Bounds

\* The row of an ingest is a source's.
LEMMA OwnTypes == ASSUME TypeOK PROVE Own \in Rows /\ ing.s \in Sources
  BY DEF TypeOK, Own, Ingests
\* An UPDATE of an ingest's row keeps the table's type.
LEMMA PutTypes ==
    ASSUME TypeOK, NEW r \in Rows, Put(r)
    PROVE  src' \in [Sources -> Rows] /\ graph' \in Graphs
  BY NothingTypes DEF TypeOK, Put, Written
\* So does going on to the next statement.
LEMMA ToTypes ==
    ASSUME TypeOK, NEW pc \in {"job", "run", "fetch", "doc", "embed", "with", "without", "status",
                               "completed", "active", "failed", "error"}, To(pc)
    PROVE  ing' \in Ingests
  BY DEF TypeOK, To, Ingests

\* Redirects are counted within their bound.
LEMMA FetchTypes ==
    ASSUME TypeOK
    PROVE  /\ [ing EXCEPT !.pc = "doc", !.n = 0] \in Ingests
           /\ ing.n < MaxRedirects => [ing EXCEPT !.n = @ + 1] \in Ingests
<1>1. [ing EXCEPT !.pc = "doc", !.n = 0] \in Ingests
  <2>1. 0 \in 0..2 /\ ing \in Ingests
    BY DEF TypeOK
  <2>2. QED
    BY <2>1 DEF Ingests
<1>2. ASSUME ing.n < MaxRedirects PROVE [ing EXCEPT !.n = @ + 1] \in Ingests
  <2>1. ing.n \in Nat
    BY SharedAssumption DEF TypeOK, Ingests
  <2>2. ing.n + 1 \in 0..MaxRedirects
    BY <1>2, <2>1, SharedAssumption
  <2>3. QED
    BY <2>2 DEF TypeOK, Ingests
<1>3. QED
  BY <1>1, <1>2

\* Every statement of ingest_source keeps the types.
LEMMA IngestTypes == ASSUME TypeOK, Ingest PROVE TypeOK'
<1> USE NothingTypes, OwnTypes, RowTypes, PutTypes, ToTypes, CountTypes DEF Others, Throws
<1>1. CASE CreateSource
  <2>1. [src[ing.s] EXCEPT !.st = "pending"] \in Rows
    BY DEF TypeOK
  <2>2. src' \in [Sources -> Rows]
    BY <1>1, <2>1 DEF CreateSource, TypeOK
  <2>3. QED
    BY <1>1, <2>2 DEF CreateSource, TypeOK, Written
<1>2. CASE CreateJob
  BY <1>2 DEF CreateJob, TypeOK
<1>3. CASE RunJob
  BY <1>3 DEF RunJob, TypeOK
<1>4. CASE Fetch
  <2>1. ing' \in Ingests
    BY <1>4, FetchTypes DEF Fetch, Follows, HopRefused
  <2>2. QED
    BY <1>4, <2>1 DEF Fetch, HopRefused, TypeOK
<1>5. CASE CreateDocument
  BY <1>5 DEF CreateDocument, TypeOK
<1>6. CASE Embed
  <2>1. \A n \in 0..2 : [ing EXCEPT !.n = n, !.pc = IF n > 0 THEN "with" ELSE "without"] \in Ingests
    BY DEF TypeOK, Ingests
  <2>2. QED
    BY <1>6, <2>1 DEF Embed, TypeOK
<1>7. CASE InsertWith
  <2>1. Vectors \in SUBSET Chunks
    BY DEF Vectors
  <2>2. QED
    BY <1>7, <2>1 DEF InsertWith, TypeOK
<1>8. CASE InsertWithout
  BY <1>8 DEF InsertWithout, SecondFails, TypeOK
<1>9. CASE SetStatus
  <2>1. StatusFor(ing.n) \in {"none", "pending", "partial", "embedded"}
    BY DEF StatusFor
  <2>2. QED
    BY <1>9, <2>1 DEF SetStatus, TypeOK
<1>10. CASE CompleteJob
  BY <1>10 DEF CompleteJob, TypeOK
<1>11. CASE Activate
  BY <1>11 DEF Activate, TypeOK
<1>12. CASE FailJob
  BY <1>12 DEF FailJob, NextTry, TypeOK
<1>13. CASE FailSource
  BY <1>13 DEF FailSource, TypeOK
<1>14. QED
  BY <1>1, <1>2, <1>3, <1>4, <1>5, <1>6, <1>7, <1>8, <1>9, <1>10, <1>11, <1>12, <1>13 DEF Ingest

\* Every statement keeps the columns and the handlers in their types.
LEMMA SharedTypes == ASSUME TypeOK, [Next]_vars PROVE TypeOK'
<1> USE NothingTypes
<1>1. CASE UNCHANGED vars
  BY <1>1 DEF vars, TypeOK
<1>2. CASE CreateCollection \/ UpdateCollection
  <2>1. find' \in Finds
    <3>1. \A b \in BOOLEAN : [find EXCEPT !.seen = b] \in Finds
      BY DEF TypeOK, Finds
    <3>2. QED
      BY <1>2, <3>1 DEF CreateCollection, UpdateCollection, Shown
  <2>2. QED
    BY <1>2, <2>1 DEF CreateCollection, UpdateCollection, Written, TypeOK
<1>3. CASE DeleteCollection
  BY <1>3 DEF DeleteCollection, Written, TypeOK
<1>4. ASSUME NEW s \in Sources, DeleteSource(s) PROVE TypeOK'
  BY <1>4 DEF DeleteSource, Written, TypeOK
<1>5. ASSUME NEW s \in Sources, Begin(s) PROVE TypeOK'
  <2>1. [NoIngest EXCEPT !.pc = "source", !.s = s] \in Ingests
    BY DEF Ingests
  <2>2. QED
    BY <1>5, <2>1 DEF Begin, Others, TypeOK
<1>6. CASE Ingest
  BY <1>6, IngestTypes
<1>7. CASE BackfillBegin
  <2>1. [NoFill EXCEPT !.pc = "next", !.todo = {s \in Sources : Missing(s) # {}}] \in Fills
    BY DEF Fills
  <2>2. QED
    BY <1>7, <2>1, CountTypes DEF BackfillBegin, Rest, Written, TypeOK
<1>8. CASE BackfillNext
  <2>1. \A s \in bf.todo : s \in Sources /\ Missing(s) \in SUBSET Chunks
    BY DEF TypeOK, Fills, Missing, Rows
  <2>2. \A s \in bf.todo :
          [bf EXCEPT !.todo = @ \ {s}, !.s = s, !.miss = Missing(s),
                     !.pc = IF Missing(s) = {} THEN "next" ELSE "embed"] \in Fills
    BY <2>1 DEF TypeOK, Fills
  <2>3. QED
    BY <1>8, <2>2 DEF BackfillNext, Rest, TypeOK
<1>9. CASE BackfillEmbed
  <2>1. bf.s \in Sources /\ src[bf.s].vec \in SUBSET Chunks /\ src[bf.s].rows \in SUBSET Chunks
    BY DEF TypeOK, Fills, Rows
  <2>2. [bf EXCEPT !.pc = "count", !.miss = {}] \in Fills
    BY DEF TypeOK, Fills
  <2>3. \A v \in SUBSET Chunks : [src[bf.s] EXCEPT !.vec = v] \in Rows
    BY <2>1, RowTypes DEF TypeOK
  <2>4. QED
    BY <1>9, <2>1, <2>2, <2>3 DEF BackfillEmbed, Rest, Written, TypeOK
<1>10. CASE BackfillCount
  <2>1. src[bf.s].vec \in SUBSET Chunks
    BY DEF TypeOK, Fills, Rows
  <2>2. \A c \in {"pending", "partial", "embedded"} : [bf EXCEPT !.pc = "status", !.count = c] \in Fills
    BY DEF TypeOK, Fills
  <2>3. QED
    BY <1>10, <2>1, <2>2, ChunkCount DEF BackfillCount, Rest, TypeOK
<1>11. CASE BackfillStatus
  <2>1. bf.s \in Sources /\ bf.count \in {"none", "pending", "partial", "embedded"}
        /\ src[bf.s].doc \in {"none", "pending", "partial", "embedded"}
    BY DEF TypeOK, Fills, Rows
  <2>2. [bf EXCEPT !.pc = "next", !.count = "none"] \in Fills
    BY DEF TypeOK, Fills
  <2>3. \A x \in {"none", "pending", "partial", "embedded"} : [src[bf.s] EXCEPT !.doc = x] \in Rows
    BY <2>1, RowTypes DEF TypeOK
  <2>4. QED
    BY <1>11, <2>1, <2>2, <2>3 DEF BackfillStatus, Rest, Written, TypeOK
<1>12. ASSUME NEW u \in Users, FindBegin(u) PROVE TypeOK'
  <2>1. Sees(u) \in BOOLEAN
    BY DEF Sees, Exists
  <2>2. \A b \in BOOLEAN : [NoFind EXCEPT !.pc = "fts", !.who = u, !.seen = b] \in Finds
    BY DEF Finds
  <2>3. [NoFind EXCEPT !.pc = "fts", !.who = u, !.seen = Sees(u)] \in Finds
    BY <2>1, <2>2, Zenon
  <2>4. find' \in Finds
    BY <1>12, <2>3, Zenon DEF FindBegin
  <2>5. Read /\ Written /\ UNCHANGED <<col, src, ing, bf, hits, lost>>
    BY <1>12, Zenon DEF FindBegin
  <2>6. QED
    BY <2>4, <2>5, CountTypes DEF Written, TypeOK
<1>13. CASE FindWords
  <2>1. \A f \in SUBSET Sources, pc \in {"vec", "record"} : [find EXCEPT !.pc = pc, !.found = f] \in Finds
    BY DEF TypeOK, Finds
  <2>2. With(find.who) \in SUBSET Sources
    BY DEF With, Active
  <2>3. find' \in Finds
    <3>1. PICK f \in {{}, With(find.who)}, pc \in {"vec", "record"} :
             find' = [find EXCEPT !.pc = pc, !.found = f]
      BY <1>13 DEF FindWords
    <3>2. f \in SUBSET Sources
      BY <2>2
    <3>3. QED
      BY <2>1, <3>1, <3>2
  <2>4. QED
    BY <1>13, <2>3 DEF FindWords, TypeOK
<1>14. CASE FindNear
  <2>1. \A f \in SUBSET Sources : [find EXCEPT !.pc = "record", !.found = @ \cup f] \in Finds
    BY DEF TypeOK, Finds
  <2>2. NearTo(find.who) \in SUBSET Sources
    BY DEF NearTo, Active
  <2>3. find' \in Finds
    BY <1>14, <2>1, <2>2 DEF FindNear
  <2>4. QED
    BY <1>14, <2>3 DEF FindNear, TypeOK
<1>15. CASE FindRecord
  <2>1. find.found \in SUBSET Sources
    BY DEF TypeOK, Finds
  <2>2. QED
    BY <1>15, <2>1 DEF FindRecord, Written, TypeOK
<1>16. ASSUME NEW u \in Users, GraphBegin(u) PROVE TypeOK'
  <2>1. [NoGraph EXCEPT !.pc = "srcs", !.who = u] \in Graphs
    BY DEF Graphs
  <2>2. QED
    BY <1>16, <2>1 DEF GraphBegin, TypeOK
<1>17. CASE GraphRead
  <2>1. Total \in 0..N
    BY SourceCount, SharedAssumption DEF Total, Active
  <2>2. \A S \in SUBSET Sources : Page(S) \subseteq SUBSET Sources
    BY DEF Page
  <2>3. With(graph.who) \in SUBSET Sources /\ Hits(graph.who) \in SUBSET Sources
    BY DEF With, Active, Hits, TypeOK
  <2>4. /\ \A p \in SUBSET Sources : [graph EXCEPT !.pc = "hits", !.srcs = p] \in Graphs
        /\ \A p \in SUBSET Sources : [graph EXCEPT !.pc = "total", !.hits = p] \in Graphs
        /\ \A n \in 0..N : [graph EXCEPT !.pc = "drawn", !.total = n] \in Graphs
    BY DEF TypeOK, Graphs
  <2>5. QED
    BY <1>17, <2>1, <2>2, <2>3, <2>4 DEF GraphRead, Hits, TypeOK
<1>18. CASE Restart
  BY <1>18, CountTypes, OwnTypes DEF Restart, TypeOK
<1>19. QED
  BY <1>1, <1>2, <1>3, <1>4, <1>5, <1>6, <1>7, <1>8, <1>9, <1>10, <1>11, <1>12, <1>13, <1>14, <1>15,
     <1>16, <1>17, <1>18 DEF Next
-----------------------------------------------------------------------------
(* What is stored.                                                          *)

RowStored == TypeOK /\ RowsKeep /\ IngestKeeps /\ FillKeeps /\ ActiveIsWhole /\ EmbeddedIsTrue

\* What was active is active or gone.
StaysFound == \A s \in Sources : src[s].st \in {"active", "gone"} => src'[s].st \in {"active", "gone"}

\* An ingest's statement changes its own row only, which is pending, and takes
\* nothing away: if the new row is in order, all that is stored is.
LEMMA OwnStep ==
    ASSUME RowStored, ing.pc \notin {"idle", "source"}, NEW r \in Rows, Put(r), UNCHANGED bf,
           Alive => /\ r.st \in {"pending", "active", "error"}
                    /\ Own.rows \subseteq r.rows /\ Own.vec \subseteq r.vec /\ r.vec \subseteq r.rows
                    /\ r.rows \ r.vec # {} => r.rows = Chunks
                    /\ r.st = "active" => r.rows = Chunks /\ r.job = "completed"
                    /\ r.doc = "embedded" => r.vec = Chunks
    PROVE  RowsKeep' /\ FillKeeps' /\ ActiveIsWhole' /\ EmbeddedIsTrue' /\ StaysFound
<1>1. ing.s \in Sources /\ Own \in Rows /\ Own.st \in {"pending", "gone"}
  BY OwnTypes DEF RowStored, IngestKeeps
<1>2. /\ \A s \in Sources : s # ing.s => src'[s] = src[s]
      /\ src'[ing.s] = IF Alive THEN r ELSE Own
  BY <1>1 DEF Put, Own, RowStored, TypeOK
<1>3. ~Alive => UNCHANGED src
  BY <1>1 DEF Put, Own, RowStored, TypeOK
<1>4. CASE ~Alive
  BY <1>3, <1>4 DEF RowStored, RowsKeep, Missing, FillKeeps, ActiveIsWhole, Active, EmbeddedIsTrue, StaysFound
<1>5. CASE Alive
  <2>1. RowsKeep'
    BY <1>2, <1>5 DEF RowStored, RowsKeep, Missing
  <2>2. FillKeeps'
    <3>1. bf.s \in Sources /\ r.rows \subseteq Chunks /\ r.vec \subseteq Chunks
      BY DEF RowStored, TypeOK, Fills, Rows
    <3>2. CASE bf.s # ing.s
      BY <1>2, <3>1, <3>2 DEF RowStored, FillKeeps
    <3>3. CASE bf.s = ing.s
      <4>1. /\ bf.pc \in {"embed", "count", "status"} => Own.rows = Chunks
            /\ bf.pc = "status" /\ bf.count = "embedded" => Own.vec = Chunks
        BY <1>5, <3>3 DEF RowStored, FillKeeps, Own, Alive
      <4>2. QED
        BY <1>2, <1>5, <3>1, <3>3, <4>1 DEF FillKeeps
    <3>4. QED
      BY <3>2, <3>3
  <2>3. ActiveIsWhole'
    BY <1>2, <1>5 DEF RowStored, ActiveIsWhole, Active
  <2>4. EmbeddedIsTrue'
    BY <1>2, <1>5 DEF RowStored, EmbeddedIsTrue
  <2>5. StaysFound
    BY <1>1, <1>2, <1>5 DEF StaysFound, Own, Alive
  <2>6. QED
    BY <2>1, <2>2, <2>3, <2>4, <2>5
<1>6. QED
  BY <1>4, <1>5

\* A statement that failed, or found no row, changes nothing that is stored.
LEMMA IdleStep ==
    ASSUME RowStored, UNCHANGED <<src, bf>>
    PROVE  RowsKeep' /\ FillKeeps' /\ ActiveIsWhole' /\ EmbeddedIsTrue' /\ StaysFound
  BY DEF RowStored, RowsKeep, Missing, FillKeeps, ActiveIsWhole, Active, EmbeddedIsTrue, StaysFound

\* Where an ingest goes next, and what its row is then.
LEMMA OwnNext ==
    ASSUME TypeOK, NEW r \in Rows, Put(r), NEW pc, To(pc)
    PROVE  ing'.pc = pc /\ Vectors' = Vectors /\ Own' = IF Alive THEN r ELSE Own
<1>1. ing'.pc = pc /\ ing'.s = ing.s /\ ing'.n = ing.n /\ ing.s \in Sources
  BY DEF TypeOK, To, Ingests
<1>2. QED
  BY <1>1 DEF TypeOK, Put, Own, Vectors

\* ingest_source stores and marks in the order that keeps what is stored whole.
LEMMA IngestStored == ASSUME RowStored, Ingest PROVE RowStored' /\ StaysFound
<1>t. TypeOK /\ TypeOK'
  BY IngestTypes DEF RowStored
<1>o. ing.s \in Sources /\ Own \in Rows
  BY OwnTypes DEF RowStored
<1>p. ing.pc \notin {"idle", "source"} /\ Alive =>
         /\ Own.st = "pending" /\ Own.vec \subseteq Own.rows
         /\ Own.rows \ Own.vec # {} => Own.rows = Chunks
         /\ Own.doc = "embedded" => Own.vec = Chunks
  BY <1>o DEF Own, Alive, RowStored, IngestKeeps, RowsKeep, Missing, EmbeddedIsTrue
<1>k. ASSUME UNCHANGED src, Throws \/ NextTry, ing.pc \notin {"idle", "source"} PROVE IngestKeeps'
  <2>1. ing'.pc \in {"failed", "error"} /\ ing'.s = ing.s
    BY <1>k DEF Throws, NextTry, To, RowStored, TypeOK, Ingests
  <2>2. QED
    BY <1>k, <2>1 DEF IngestKeeps, Own, Alive, RowStored
<1>n. ASSUME ing' = NoIngest PROVE IngestKeeps'
  BY <1>n DEF IngestKeeps, NoIngest
<1>f. ASSUME UNCHANGED <<src, bf>>, IngestKeeps' PROVE RowStored' /\ StaysFound
  BY <1>t, <1>f, IdleStep DEF RowStored
<1>1. CASE CreateSource
  <2> DEFINE r == [src[ing.s] EXCEPT !.st = "pending"]
  <2>1. CASE Exists
    <3>1. src[ing.s] = NoSource
      BY <1>1, <1>o DEF CreateSource, RowStored, IngestKeeps, RowsKeep, Own
    <3>2. /\ src'[ing.s] = r /\ \A s \in Sources : s # ing.s => src'[s] = src[s]
          /\ r.st = "pending" /\ r.rows = {} /\ r.vec = {} /\ r.doc = "none"
      BY <1>1, <1>o, <1>t, <2>1, <3>1 DEF CreateSource, TypeOK, Rows, NoSource
    <3>3. ing'.pc = "job" /\ ing'.s = ing.s /\ UNCHANGED bf
      BY <1>1, <1>t, <2>1 DEF CreateSource, To, TypeOK, Ingests, Others
    <3> HIDE DEF r
    <3>4. RowsKeep' /\ ActiveIsWhole' /\ EmbeddedIsTrue'
      BY <3>2 DEF RowStored, RowsKeep, Missing, ActiveIsWhole, Active, EmbeddedIsTrue
    <3>5. FillKeeps'
      <4>1. bf.pc \in {"embed", "count", "status"} => bf.s # ing.s
        BY <3>1 DEF RowStored, FillKeeps, NoSource, Chunks
      <4>2. bf.s \in Sources
        BY <1>t DEF TypeOK, Fills
      <4>3. QED
        BY <3>2, <3>3, <4>1, <4>2 DEF RowStored, FillKeeps
    <3>6. IngestKeeps'
      BY <3>2, <3>3 DEF IngestKeeps, Own, Alive
    <3>7. StaysFound
      BY <3>1, <3>2 DEF StaysFound, NoSource
    <3>8. QED
      BY <1>t, <3>4, <3>5, <3>6, <3>7 DEF RowStored
  <2>2. CASE ~Exists
    BY <1>1, <1>n, <1>f, <2>2 DEF CreateSource, Others
  <2>3. QED
    BY <2>1, <2>2
<1>2. CASE CreateJob
  <2> DEFINE r == [Own EXCEPT !.job = "pending"]
  <2>1. /\ r \in Rows /\ r.st = Own.st /\ r.job = "pending" /\ r.doc = Own.doc
        /\ r.rows = Own.rows /\ r.vec = Own.vec
    BY <1>o DEF Rows
  <2>2. CASE Put(r) /\ Alive /\ To("run")
    <3> HIDE DEF r
    <3>1. RowsKeep' /\ FillKeeps' /\ ActiveIsWhole' /\ EmbeddedIsTrue' /\ StaysFound
      BY <1>2, <1>p, <2>1, <2>2, OwnStep DEF CreateJob, Others, RowStored, IngestKeeps
    <3>2. IngestKeeps'
      BY <1>2, <1>t, <1>p, <2>1, <2>2, OwnNext DEF CreateJob, RowStored, IngestKeeps, Alive
    <3>3. QED
      BY <1>t, <3>1, <3>2 DEF RowStored
  <2>3. CASE ing' = NoIngest /\ UNCHANGED src
    BY <1>2, <1>n, <1>f, <2>3 DEF CreateJob, Others
  <2>4. QED
    BY <1>2, <2>2, <2>3 DEF CreateJob
<1>3. CASE RunJob
  <2> DEFINE r == [Own EXCEPT !.job = "running"]
  <2>1. /\ r \in Rows /\ r.st = Own.st /\ r.job = "running" /\ r.doc = Own.doc
        /\ r.rows = Own.rows /\ r.vec = Own.vec
    BY <1>o DEF Rows
  <2>2. CASE Put(r) /\ To("fetch")
    <3> HIDE DEF r
    <3>1. RowsKeep' /\ FillKeeps' /\ ActiveIsWhole' /\ EmbeddedIsTrue' /\ StaysFound
      BY <1>3, <1>p, <2>1, <2>2, OwnStep DEF RunJob, Others, RowStored, IngestKeeps
    <3>2. IngestKeeps'
      BY <1>3, <1>t, <1>p, <2>1, <2>2, OwnNext DEF RunJob, RowStored, IngestKeeps, Alive
    <3>3. QED
      BY <1>t, <3>1, <3>2 DEF RowStored
  <2>3. CASE Throws
    BY <1>3, <1>k, <1>f, <2>3 DEF RunJob, Others, Throws
  <2>4. QED
    BY <1>3, <2>2, <2>3 DEF RunJob
<1>4. CASE Fetch
  <2>1. CASE Throws
    BY <1>4, <1>k, <1>f, <2>1 DEF Fetch, Others, Throws
  <2>2. CASE ~Throws
    <3>1. ing'.pc \in {"fetch", "doc"} /\ ing'.s = ing.s /\ UNCHANGED <<src, bf>>
      BY <1>4, <1>t, <2>2 DEF Fetch, HopRefused, Others, TypeOK, Ingests
    <3>2. IngestKeeps'
      BY <1>4, <3>1 DEF Fetch, IngestKeeps, Own, Alive, RowStored
    <3>3. QED
      BY <1>f, <3>1, <3>2
  <2>3. QED
    BY <2>1, <2>2
<1>5. CASE CreateDocument
  <2> DEFINE r == [Own EXCEPT !.doc = "pending"]
  <2>1. /\ r \in Rows /\ r.st = Own.st /\ r.job = Own.job /\ r.doc = "pending"
        /\ r.rows = Own.rows /\ r.vec = Own.vec
    BY <1>o DEF Rows
  <2>2. CASE Put(r) /\ Alive /\ To("embed")
    <3> HIDE DEF r
    <3>1. RowsKeep' /\ FillKeeps' /\ ActiveIsWhole' /\ EmbeddedIsTrue' /\ StaysFound
      BY <1>5, <1>p, <2>1, <2>2, OwnStep DEF CreateDocument, Others, RowStored, IngestKeeps
    <3>2. IngestKeeps'
      BY <1>5, <1>t, <1>p, <2>1, <2>2, OwnNext DEF CreateDocument, RowStored, IngestKeeps, Alive
    <3>3. QED
      BY <1>t, <3>1, <3>2 DEF RowStored
  <2>3. CASE Throws
    BY <1>5, <1>k, <1>f, <2>3 DEF CreateDocument, Others, Throws
  <2>4. QED
    BY <1>5, <2>2, <2>3 DEF CreateDocument
<1>6. CASE Embed
  <2>1. /\ ing'.s = ing.s /\ UNCHANGED <<src, bf>>
        /\ ing'.pc = "with" \/ (ing'.pc = "without" /\ ing'.n = 0)
    BY <1>6, <1>t DEF Embed, Others, TypeOK, Ingests
  <2>2. ing'.n = 0 => Vectors' = {}
    BY DEF Vectors, Chunks
  <2>3. IngestKeeps'
    BY <1>6, <2>1, <2>2 DEF Embed, IngestKeeps, Own, Alive, RowStored
  <2>4. QED
    BY <1>f, <2>1, <2>3
<1>7. CASE InsertWith
  <2> DEFINE r == [Own EXCEPT !.rows = Vectors, !.vec = Vectors]
  <2>0. Vectors \in SUBSET Chunks
    BY DEF Vectors
  <2>1. /\ r \in Rows /\ r.st = Own.st /\ r.job = Own.job /\ r.doc = Own.doc
        /\ r.rows = Vectors /\ r.vec = Vectors
    BY <1>o, <2>0 DEF Rows
  <2>s. Own.rows \subseteq Chunks /\ Own.vec \subseteq Chunks
    BY <1>o DEF Rows
  <2>2. CASE Put(r) /\ Alive /\ ((Vectors = Chunks /\ To("status")) \/ To("without"))
    <3> HIDE DEF r
    <3>1. RowsKeep' /\ FillKeeps' /\ ActiveIsWhole' /\ EmbeddedIsTrue' /\ StaysFound
      BY <1>7, <1>p, <2>1, <2>0, <2>s, <2>2, OwnStep DEF InsertWith, Others, RowStored, IngestKeeps
    <3>2. IngestKeeps'
      BY <1>7, <1>t, <1>p, <2>1, <2>0, <2>s, <2>2, OwnNext DEF InsertWith, RowStored, IngestKeeps, Alive
    <3>3. QED
      BY <1>t, <3>1, <3>2 DEF RowStored
  <2>3. CASE Throws
    BY <1>7, <1>k, <1>f, <2>3 DEF InsertWith, Others, Throws
  <2>4. QED
    BY <1>7, <2>2, <2>3 DEF InsertWith
<1>8. CASE InsertWithout
  <2> DEFINE r == [Own EXCEPT !.rows = Chunks]
  <2>1. /\ r \in Rows /\ r.st = Own.st /\ r.job = Own.job /\ r.doc = Own.doc
        /\ r.rows = Chunks /\ r.vec = Own.vec
    BY <1>o DEF Rows
  <2>s. Own.rows \subseteq Chunks /\ Own.vec \subseteq Chunks
    BY <1>o DEF Rows
  <2>2. CASE Put(r) /\ Alive /\ To("status")
    <3> HIDE DEF r
    <3>1. RowsKeep' /\ FillKeeps' /\ ActiveIsWhole' /\ EmbeddedIsTrue' /\ StaysFound
      BY <1>8, <1>p, <2>1, <2>s, <2>2, OwnStep DEF InsertWithout, Others, RowStored, IngestKeeps
    <3>2. IngestKeeps'
      BY <1>8, <1>t, <1>p, <2>1, <2>s, <2>2, OwnNext DEF InsertWithout, RowStored, IngestKeeps, Alive
    <3>3. QED
      BY <1>t, <3>1, <3>2 DEF RowStored
  <2>3. CASE Throws
    BY <1>8, <1>k, <1>f, <2>3 DEF InsertWithout, Others, Throws
  <2>4. QED
    BY <1>8, <2>2, <2>3 DEF InsertWithout, SecondFails
<1>9. CASE SetStatus
  <2> DEFINE r == [Own EXCEPT !.doc = StatusFor(ing.n)]
  <2>0. StatusFor(ing.n) \in {"none", "pending", "partial", "embedded"}
    BY DEF StatusFor
  <2>1. /\ r \in Rows /\ r.st = Own.st /\ r.job = Own.job /\ r.doc = StatusFor(ing.n)
        /\ r.rows = Own.rows /\ r.vec = Own.vec
    BY <1>o, <2>0 DEF Rows
  <2>s. Alive => Vectors \subseteq Own.vec /\ (StatusFor(ing.n) = "embedded" => Own.vec = Chunks)
    <3>1. StatusFor(ing.n) = "embedded" => ing.n = 2
      BY DEF StatusFor
    <3>2. ing.n = 2 => Vectors = Chunks
      BY DEF Vectors, Chunks
    <3>3. Own.vec \subseteq Chunks
      BY <1>o DEF Rows
    <3>4. QED
      BY <1>9, <3>1, <3>2, <3>3 DEF SetStatus, RowStored, IngestKeeps
  <2>2. CASE Put(r) /\ To("completed")
    <3> HIDE DEF r
    <3>1. RowsKeep' /\ FillKeeps' /\ ActiveIsWhole' /\ EmbeddedIsTrue' /\ StaysFound
      BY <1>9, <1>p, <2>1, <2>0, <2>s, <2>2, OwnStep DEF SetStatus, Others, RowStored, IngestKeeps
    <3>2. IngestKeeps'
      BY <1>9, <1>t, <1>p, <2>1, <2>0, <2>s, <2>2, OwnNext DEF SetStatus, RowStored, IngestKeeps, Alive
    <3>3. QED
      BY <1>t, <3>1, <3>2 DEF RowStored
  <2>3. CASE Throws
    BY <1>9, <1>k, <1>f, <2>3 DEF SetStatus, Others, Throws
  <2>4. QED
    BY <1>9, <2>2, <2>3 DEF SetStatus
<1>10. CASE CompleteJob
  <2> DEFINE r == [Own EXCEPT !.job = "completed"]
  <2>1. /\ r \in Rows /\ r.st = Own.st /\ r.job = "completed" /\ r.doc = Own.doc
        /\ r.rows = Own.rows /\ r.vec = Own.vec
    BY <1>o DEF Rows
  <2>2. CASE Put(r) /\ To("active")
    <3> HIDE DEF r
    <3>1. RowsKeep' /\ FillKeeps' /\ ActiveIsWhole' /\ EmbeddedIsTrue' /\ StaysFound
      BY <1>10, <1>p, <2>1, <2>2, OwnStep DEF CompleteJob, Others, RowStored, IngestKeeps
    <3>2. IngestKeeps'
      BY <1>10, <1>t, <1>p, <2>1, <2>2, OwnNext DEF CompleteJob, RowStored, IngestKeeps, Alive
    <3>3. QED
      BY <1>t, <3>1, <3>2 DEF RowStored
  <2>3. CASE Throws
    BY <1>10, <1>k, <1>f, <2>3 DEF CompleteJob, Others, Throws
  <2>4. QED
    BY <1>10, <2>2, <2>3 DEF CompleteJob
<1>11. CASE Activate
  <2> DEFINE r == [Own EXCEPT !.st = "active"]
  <2>1. /\ r \in Rows /\ r.st = "active" /\ r.job = Own.job /\ r.doc = Own.doc
        /\ r.rows = Own.rows /\ r.vec = Own.vec
    BY <1>o DEF Rows
  <2>2. CASE Put(r) /\ ing' = NoIngest
    <3> HIDE DEF r
    <3>1. RowsKeep' /\ FillKeeps' /\ ActiveIsWhole' /\ EmbeddedIsTrue' /\ StaysFound
      BY <1>11, <1>p, <2>1, <2>2, OwnStep DEF Activate, Others, RowStored, IngestKeeps
    <3>2. IngestKeeps'
      BY <1>n, <2>2
    <3>3. QED
      BY <1>t, <3>1, <3>2 DEF RowStored
  <2>3. CASE Throws
    BY <1>11, <1>k, <1>f, <2>3 DEF Activate, Others, Throws
  <2>4. QED
    BY <1>11, <2>2, <2>3 DEF Activate
<1>12. CASE FailJob
  <2> DEFINE r == [Own EXCEPT !.job = "failed"]
  <2>1. /\ r \in Rows /\ r.st = Own.st /\ r.job = "failed" /\ r.doc = Own.doc
        /\ r.rows = Own.rows /\ r.vec = Own.vec
    BY <1>o DEF Rows
  <2>2. CASE Put(r) /\ To("error")
    <3> HIDE DEF r
    <3>1. RowsKeep' /\ FillKeeps' /\ ActiveIsWhole' /\ EmbeddedIsTrue' /\ StaysFound
      BY <1>12, <1>p, <2>1, <2>2, OwnStep DEF FailJob, Others, RowStored, IngestKeeps
    <3>2. IngestKeeps'
      BY <1>12, <1>t, <1>p, <2>1, <2>2, OwnNext DEF FailJob, RowStored, IngestKeeps, Alive
    <3>3. QED
      BY <1>t, <3>1, <3>2 DEF RowStored
  <2>3. CASE NextTry /\ UNCHANGED src
    BY <1>12, <1>k, <1>f, <2>3 DEF FailJob, Others
  <2>4. QED
    BY <1>12, <2>2, <2>3 DEF FailJob
<1>13. CASE FailSource
  <2> DEFINE r == [Own EXCEPT !.st = "error"]
  <2>1. /\ r \in Rows /\ r.st = "error" /\ r.job = Own.job /\ r.doc = Own.doc
        /\ r.rows = Own.rows /\ r.vec = Own.vec
    BY <1>o DEF Rows
  <2>2. CASE Put(r) /\ ing' = NoIngest
    <3> HIDE DEF r
    <3>1. RowsKeep' /\ FillKeeps' /\ ActiveIsWhole' /\ EmbeddedIsTrue' /\ StaysFound
      BY <1>13, <1>p, <2>1, <2>2, OwnStep DEF FailSource, Others, RowStored, IngestKeeps
    <3>2. IngestKeeps'
      BY <1>n, <2>2
    <3>3. QED
      BY <1>t, <3>1, <3>2 DEF RowStored
  <2>3. CASE UNCHANGED src
    BY <1>13, <1>n, <1>f, <2>3 DEF FailSource, Others
  <2>4. QED
    BY <1>13, <2>2, <2>3 DEF FailSource
<1>14. QED
  BY <1>1, <1>2, <1>3, <1>4, <1>5, <1>6, <1>7, <1>8, <1>9, <1>10, <1>11, <1>12, <1>13 DEF Ingest

\* Deletion empties rows, a backfill adds vectors to rows that have their chunks.
LEMMA StoredStep == ASSUME RowStored, [Next]_vars PROVE RowStored' /\ StaysFound
<1>t. TypeOK /\ TypeOK'
  BY SharedTypes DEF RowStored
<1>o. ing.s \in Sources /\ bf.s \in Sources /\ bf.todo \in SUBSET Sources
  BY <1>t DEF TypeOK, Ingests, Fills
<1>g. NoSource.st = "none" /\ Gone.st = "gone" /\ Gone.vec = {} /\ Gone.rows = {} /\ Gone.doc = "none"
  BY DEF NoSource, Gone
<1>q. ASSUME UNCHANGED <<src, ing, bf>> PROVE RowStored' /\ StaysFound
  <2>1. IngestKeeps'
    BY <1>q DEF RowStored, IngestKeeps, Own, Alive, Vectors
  <2>2. QED
    BY <1>t, <1>q, <2>1, IdleStep DEF RowStored
<1>d. ASSUME UNCHANGED <<ing, bf>>,
             \A s \in Sources : src'[s] = src[s] \/ (src'[s] = Gone /\ src[s].st # "none")
      PROVE  RowStored' /\ StaysFound
  <2>1. RowsKeep'
    BY <1>d, <1>g DEF RowStored, RowsKeep, Missing
  <2>2. IngestKeeps'
    <3>1. Vectors' = Vectors /\ (Own' = Own \/ (Own' = Gone /\ Own.st # "none"))
      BY <1>d, <1>o DEF Vectors, Own
    <3>2. CASE Own' = Own
      BY <1>d, <3>1, <3>2 DEF RowStored, IngestKeeps, Alive
    <3>3. CASE Own' = Gone /\ Own.st # "none"
      BY <1>d, <1>g, <3>3 DEF RowStored, IngestKeeps, Alive
    <3>4. QED
      BY <3>1, <3>2, <3>3
  <2>3. FillKeeps'
    BY <1>d, <1>g, <1>o DEF RowStored, FillKeeps
  <2>4. ActiveIsWhole' /\ EmbeddedIsTrue' /\ StaysFound
    BY <1>d, <1>g DEF RowStored, ActiveIsWhole, Active, EmbeddedIsTrue, StaysFound
  <2>5. QED
    BY <1>t, <2>1, <2>2, <2>3, <2>4 DEF RowStored
\* of a document that a backfill is at, only vectors and status change
<1>b. ASSUME UNCHANGED ing, FillKeeps', bf.pc \in {"embed", "status"},
             \A s \in Sources : s # bf.s => src'[s] = src[s],
             src'[bf.s].st = src[bf.s].st, src'[bf.s].job = src[bf.s].job,
             src'[bf.s].rows = src[bf.s].rows,
             src[bf.s].vec \subseteq src'[bf.s].vec, src'[bf.s].vec \subseteq src[bf.s].rows,
             src[bf.s].st = "gone" => src'[bf.s] = src[bf.s],
             src'[bf.s].doc = "embedded" => src'[bf.s].vec = Chunks
      PROVE  RowStored' /\ StaysFound
  <2>1. src[bf.s].st = "gone" \/ src[bf.s].rows = Chunks
    BY <1>b DEF RowStored, FillKeeps
  <2>2. src[bf.s].st # "none"
    BY <1>o, <2>1 DEF RowStored, RowsKeep, NoSource, Chunks
  <2>3. RowsKeep'
    BY <1>b, <1>o, <2>1, <2>2 DEF RowStored, RowsKeep, Missing
  <2>4. ActiveIsWhole' /\ EmbeddedIsTrue' /\ StaysFound
    BY <1>b, <1>o DEF RowStored, ActiveIsWhole, Active, EmbeddedIsTrue, StaysFound
  <2>5. IngestKeeps'
    <3>1. Vectors' = Vectors
      BY <1>b DEF Vectors
    <3>2. CASE bf.s # ing.s
      <4>1. Own' = Own
        BY <1>b, <1>o, <3>2 DEF Own
      <4>2. QED
        BY <1>b, <3>1, <4>1 DEF RowStored, IngestKeeps, Alive
    <3>3. CASE bf.s = ing.s
      <4>1. /\ Own'.st = Own.st /\ Own'.job = Own.job /\ Own'.rows = Own.rows
            /\ Own.vec \subseteq Own'.vec /\ (Own.st = "gone" \/ Own.rows = Chunks)
        BY <1>b, <2>1, <3>3 DEF Own
      <4>2. Chunks # {}
        BY DEF Chunks
      <4>3. QED
        BY <1>b, <3>1, <4>1, <4>2 DEF RowStored, IngestKeeps, Alive
    <3>4. QED
      BY <3>2, <3>3
  <2>6. QED
    BY <1>t, <1>b, <2>3, <2>4, <2>5 DEF RowStored
<1>1. CASE UNCHANGED vars
  BY <1>1, <1>q DEF vars
<1>2. CASE CreateCollection \/ UpdateCollection
  BY <1>2, <1>q DEF CreateCollection, UpdateCollection
<1>3. CASE DeleteCollection
  BY <1>3, <1>d DEF DeleteCollection
<1>4. ASSUME NEW s \in Sources, DeleteSource(s) PROVE RowStored' /\ StaysFound
  BY <1>4, <1>d, <1>t DEF DeleteSource, TypeOK
<1>5. ASSUME NEW s \in Sources, Begin(s) PROVE RowStored' /\ StaysFound
  <2>1. ing'.pc = "source" /\ ing'.s = s
    BY <1>5 DEF Begin, NoIngest
  <2>2. IngestKeeps'
    BY <1>5, <2>1 DEF Begin, IngestKeeps, Own
  <2>3. QED
    BY <1>5, <1>t, <2>2, IdleStep DEF Begin, Others, RowStored
<1>6. CASE Ingest
  BY <1>6, IngestStored
<1>7. CASE BackfillBegin \/ BackfillNext
  <2>1. UNCHANGED <<src, ing>>
    BY <1>7 DEF BackfillBegin, BackfillNext, Rest
  <2>2. IngestKeeps'
    BY <2>1 DEF RowStored, IngestKeeps, Own, Alive, Vectors
  <2>3. RowsKeep' /\ ActiveIsWhole' /\ EmbeddedIsTrue' /\ StaysFound
    BY <2>1 DEF RowStored, RowsKeep, Missing, ActiveIsWhole, Active, EmbeddedIsTrue, StaysFound
  <2>4. FillKeeps'
    <3>1. CASE bf'.pc \in {"idle", "next"}
      BY <3>1 DEF FillKeeps
    <3>2. CASE bf'.pc \notin {"idle", "next"}
      <4>a. BackfillBegin => bf'.pc = "next"
        BY DEF BackfillBegin, NoFill
      <4>b. NoFill.pc = "idle"
        BY DEF NoFill
      <4>c. BackfillNext /\ bf' # NoFill
        BY <1>7, <3>2, <4>a, <4>b
      <4>1. PICK s \in bf.todo : bf' = [bf EXCEPT !.todo = @ \ {s}, !.s = s, !.miss = Missing(s),
                                           !.pc = IF Missing(s) = {} THEN "next" ELSE "embed"]
        BY <4>c DEF BackfillNext
      <4>2. bf'.s = s /\ bf'.pc = "embed" /\ Missing(s) # {}
        BY <1>t, <3>2, <4>1 DEF TypeOK, Fills
      <4>3. src[s].rows = Chunks
        BY <1>o, <4>2 DEF RowStored, RowsKeep
      <4>4. QED
        BY <2>1, <4>2, <4>3 DEF FillKeeps
    <3>3. QED
      BY <3>1, <3>2
  <2>5. QED
    BY <1>t, <2>2, <2>3, <2>4 DEF RowStored
<1>8. CASE BackfillEmbed
  <2>1. PICK got \in SUBSET bf.miss :
           src' = [src EXCEPT ![bf.s].vec = @ \cup (got \cap src[bf.s].rows)]
    BY <1>8 DEF BackfillEmbed
  <2>2. bf'.pc = "count" /\ bf'.s = bf.s
    BY <1>8, <1>t DEF BackfillEmbed, TypeOK, Fills
  <2>3. /\ \A s \in Sources : s # bf.s => src'[s] = src[s]
        /\ src'[bf.s] = [src[bf.s] EXCEPT !.vec = @ \cup (got \cap src[bf.s].rows)]
        /\ src[bf.s] \in Rows
    BY <1>o, <1>t, <2>1 DEF TypeOK
  <2>4. /\ src'[bf.s].st = src[bf.s].st /\ src'[bf.s].job = src[bf.s].job
        /\ src'[bf.s].doc = src[bf.s].doc
        /\ src'[bf.s].rows = src[bf.s].rows /\ src[bf.s].rows \subseteq Chunks
        /\ src'[bf.s].vec = src[bf.s].vec \cup (got \cap src[bf.s].rows)
    BY <2>3 DEF Rows
  <2>5. src[bf.s].vec \subseteq src[bf.s].rows /\ (src[bf.s].doc = "embedded" => src[bf.s].vec = Chunks)
    BY <1>o DEF RowStored, RowsKeep, EmbeddedIsTrue
  <2>6. src[bf.s].st = "gone" => src'[bf.s] = src[bf.s]
    <3>1. SUFFICES ASSUME src[bf.s].st = "gone" PROVE src'[bf.s] = src[bf.s]
      OBVIOUS
    <3>2. src[bf.s].rows = {} /\ src[bf.s].vec = {}
      BY <1>o, <1>g, <3>1 DEF RowStored, RowsKeep
    <3>3. src'[bf.s] = [src[bf.s] EXCEPT !.vec = src[bf.s].vec]
      BY <2>3, <3>2
    <3>4. QED
      BY <2>3, <3>3 DEF Rows
  <2>7. FillKeeps'
    BY <1>8, <2>2, <2>4 DEF BackfillEmbed, RowStored, FillKeeps
  <2>8. QED
    BY <1>8, <1>b, <2>3, <2>4, <2>5, <2>6, <2>7 DEF BackfillEmbed, Rest
<1>9. CASE BackfillCount
  <2>1. bf'.pc = "status" /\ bf'.s = bf.s
        /\ bf'.count = IF src[bf.s].rows = {} THEN "embedded" ELSE StatusFor(Cardinality(src[bf.s].vec))
    BY <1>9, <1>t DEF BackfillCount, TypeOK, Fills
  <2>2. src[bf.s].vec \in SUBSET Chunks
    BY <1>o, <1>t DEF TypeOK, Rows
  <2>3. bf'.count = "embedded" => src[bf.s].rows = {} \/ src[bf.s].vec = Chunks
    BY <2>1, <2>2, ChunkCount
  <2>4. Chunks # {}
    BY DEF Chunks
  <2>5. UNCHANGED <<src, ing>>
    BY <1>9 DEF BackfillCount, Rest
  <2>6. FillKeeps'
    BY <1>9, <2>1, <2>3, <2>4, <2>5 DEF BackfillCount, RowStored, FillKeeps
  <2>7. IngestKeeps'
    BY <2>5 DEF RowStored, IngestKeeps, Own, Alive, Vectors
  <2>8. RowsKeep' /\ ActiveIsWhole' /\ EmbeddedIsTrue' /\ StaysFound
    BY <2>5 DEF RowStored, RowsKeep, Missing, ActiveIsWhole, Active, EmbeddedIsTrue, StaysFound
  <2>9. QED
    BY <1>t, <2>6, <2>7, <2>8 DEF RowStored
<1>10. CASE BackfillStatus
  <2>1. bf'.pc = "next"
    BY <1>10, <1>t DEF BackfillStatus, TypeOK, Fills
  <2>2. /\ \A s \in Sources : s # bf.s => src'[s] = src[s]
        /\ src'[bf.s] = [src[bf.s] EXCEPT !.doc = IF @ = "none" THEN @ ELSE bf.count]
        /\ src[bf.s] \in Rows
    BY <1>10, <1>o, <1>t DEF BackfillStatus, TypeOK
  <2>3. /\ src'[bf.s].st = src[bf.s].st /\ src'[bf.s].job = src[bf.s].job
        /\ src'[bf.s].doc = (IF src[bf.s].doc = "none" THEN "none" ELSE bf.count)
        /\ src'[bf.s].rows = src[bf.s].rows /\ src'[bf.s].vec = src[bf.s].vec
    BY <2>2 DEF Rows
  <2>4. src[bf.s].vec \subseteq src[bf.s].rows
    BY <1>o DEF RowStored, RowsKeep
  <2>5. src[bf.s].st = "gone" => src[bf.s].doc = "none" /\ src'[bf.s] = src[bf.s]
    <3>1. SUFFICES ASSUME src[bf.s].st = "gone" PROVE src[bf.s].doc = "none" /\ src'[bf.s] = src[bf.s]
      OBVIOUS
    <3>2. src[bf.s].doc = "none"
      BY <1>o, <1>g, <3>1 DEF RowStored, RowsKeep
    <3>3. src'[bf.s] = [src[bf.s] EXCEPT !.doc = src[bf.s].doc]
      BY <2>2, <3>2
    <3>4. QED
      BY <2>2, <3>2, <3>3 DEF Rows
  <2>6. src'[bf.s].doc = "embedded" => src'[bf.s].vec = Chunks
    BY <1>10, <2>3, <2>5 DEF BackfillStatus, RowStored, FillKeeps
  <2>7. FillKeeps'
    BY <2>1 DEF FillKeeps
  <2>8. QED
    BY <1>10, <1>b, <2>2, <2>3, <2>4, <2>5, <2>6, <2>7 DEF BackfillStatus, Rest
<1>11. CASE FindWords \/ FindNear \/ FindRecord \/ GraphRead
  BY <1>11, <1>q DEF FindWords, FindNear, FindRecord, GraphRead
<1>12. ASSUME NEW u \in Users, FindBegin(u) \/ GraphBegin(u) PROVE RowStored' /\ StaysFound
  BY <1>12, <1>q DEF FindBegin, GraphBegin
<1>13. CASE Restart
  <2>1. UNCHANGED src /\ ing'.pc = "idle" /\ bf'.pc = "idle"
    BY <1>13 DEF Restart, NoIngest, NoFill
  <2>2. RowsKeep' /\ ActiveIsWhole' /\ EmbeddedIsTrue' /\ StaysFound
    BY <2>1 DEF RowStored, RowsKeep, Missing, ActiveIsWhole, Active, EmbeddedIsTrue, StaysFound
  <2>3. IngestKeeps' /\ FillKeeps'
    BY <2>1 DEF IngestKeeps, FillKeeps
  <2>4. QED
    BY <1>t, <2>2, <2>3 DEF RowStored
<1>14. QED
  BY <1>1, <1>2, <1>3, <1>4, <1>5, <1>6, <1>7, <1>8, <1>9, <1>10, <1>11, <1>12, <1>13 DEF Next
-----------------------------------------------------------------------------
(* What is read.                                                            *)

\* A search that is under way knows whether its requester may see the collection,
\* also when that changes between its two queries.
LEMMA FindStep ==
    ASSUME TypeOK, FindKeeps, FoundIsVisible, [Next]_vars, StaysFound
    PROVE  FindKeeps' /\ FoundIsVisible'
<1>f. find \in Finds /\ find.found \in SUBSET Sources /\ hits \in SUBSET Sources
  BY DEF TypeOK, Finds
<1>g. \A S \in SUBSET Sources : (\A s \in S : src[s].st \in {"active", "gone"})
                               => (\A s \in S : src'[s].st \in {"active", "gone"})
  BY DEF StaysFound
<1>q. ASSUME UNCHANGED <<find, hits>>, col' = col \/ col' = "gone" PROVE FindKeeps' /\ FoundIsVisible'
  BY <1>f, <1>g, <1>q DEF FindKeeps, FoundIsVisible, Sees, Exists
<1>n. NoFind.pc = "idle" /\ NoFind.found = {}
  BY DEF NoFind
<1>1. CASE UNCHANGED vars
  BY <1>1, <1>q DEF vars
<1>2. CASE CreateCollection \/ UpdateCollection
  <2>1. /\ find'.pc = find.pc /\ find'.who = find.who /\ find'.found = find.found /\ UNCHANGED hits
        /\ find'.seen = (find.pc # "idle" /\ (find.seen \/ find.who = "owner" \/ col' = "shared"))
    BY <1>2, <1>f DEF CreateCollection, UpdateCollection, Shown, Finds
  <2>2. FindKeeps'
    <3>1. find'.pc # "idle" /\ Sees(find.who)' => find'.seen
      BY <2>1 DEF Sees, Exists
    <3>2. \A s \in find'.found \cup hits' : src'[s].st \in {"active", "gone"}
      BY <1>f, <1>g, <2>1 DEF FindKeeps
    <3>3. QED
      BY <2>1, <3>1, <3>2 DEF FindKeeps, Sees, Exists
  <2>3. FoundIsVisible'
    BY <2>1 DEF FindKeeps, FoundIsVisible
  <2>4. QED
    BY <2>2, <2>3
<1>3. CASE DeleteCollection
  BY <1>3, <1>q DEF DeleteCollection
<1>4. ASSUME NEW s \in Sources, DeleteSource(s) \/ Begin(s) PROVE FindKeeps' /\ FoundIsVisible'
  BY <1>4, <1>q DEF DeleteSource, Begin, Others
<1>5. CASE Ingest
  BY <1>5, <1>q DEF Ingest, Others, CreateSource, CreateJob, RunJob, Fetch, CreateDocument, Embed,
     InsertWith, InsertWithout, SetStatus, CompleteJob, Activate, FailJob, FailSource
<1>6. CASE BackfillBegin \/ BackfillNext \/ BackfillEmbed \/ BackfillCount \/ BackfillStatus
  BY <1>6, <1>q DEF BackfillBegin, BackfillNext, BackfillEmbed, BackfillCount, BackfillStatus, Rest
<1>7. ASSUME NEW u \in Users, FindBegin(u) PROVE FindKeeps' /\ FoundIsVisible'
  <2>1. find'.pc = "fts" /\ find'.who = u /\ find'.found = {} /\ find'.seen = Sees(u)
    BY <1>7 DEF FindBegin, NoFind
  <2>2. UNCHANGED <<col, hits>>
    BY <1>7 DEF FindBegin
  <2>3. Sees(find.who)' => find'.seen
    <3>1. Sees(find.who)' => Sees(u)
      BY <2>1, <2>2 DEF Sees, Exists
    <3>2. Sees(u) => find'.seen
      BY <2>1
    <3>3. QED
      BY <3>1, <3>2
  <2>4. \A s \in find'.found \cup hits' : src'[s].st \in {"active", "gone"}
    BY <1>f, <1>g, <2>1, <2>2 DEF FindKeeps
  <2>5. QED
    BY <2>1, <2>3, <2>4 DEF FindKeeps, FoundIsVisible
<1>8. CASE FindWords
  <2>1. PICK f \in {{}, With(find.who)}, pc \in {"vec", "record"} :
           find' = [find EXCEPT !.pc = pc, !.found = f]
    BY <1>8 DEF FindWords
  <2>2. find'.pc # "idle" /\ find'.who = find.who /\ find'.found = f /\ find'.seen = find.seen
    BY <1>f, <2>1 DEF Finds
  <2>3. UNCHANGED <<col, src, hits>>
    BY <1>8 DEF FindWords
  <2>4. f # {} => Sees(find.who) /\ f = Active
    BY DEF With
  <2>5. find.pc # "idle" /\ (Sees(find.who) => find.seen)
    BY <1>8 DEF FindWords, FindKeeps
  <2>6. \A s \in f : src[s].st \in {"active", "gone"}
    BY <2>4 DEF Active
  <2>7. QED
    BY <2>2, <2>3, <2>4, <2>5, <2>6 DEF FindKeeps, FoundIsVisible, Sees, Exists
<1>9. CASE FindNear
  <2>1. PICK f \in {{}, NearTo(find.who)} : find' = [find EXCEPT !.pc = "record", !.found = @ \cup f]
    BY <1>9 DEF FindNear
  <2>2. /\ find'.pc # "idle" /\ find'.who = find.who /\ find'.found = find.found \cup f
        /\ find'.seen = find.seen
    BY <1>f, <2>1 DEF Finds
  <2>3. UNCHANGED <<col, src, hits>>
    BY <1>9 DEF FindNear
  <2>4. f # {} => Sees(find.who) /\ f \subseteq Active
    BY DEF NearTo
  <2>5. find.pc # "idle" /\ (Sees(find.who) => find.seen)
    BY <1>9 DEF FindNear, FindKeeps
  <2>6. \A s \in f : src[s].st \in {"active", "gone"}
    BY <2>4 DEF Active
  <2>7. QED
    BY <2>2, <2>3, <2>4, <2>5, <2>6 DEF FindKeeps, FoundIsVisible, Sees, Exists
<1>10. CASE FindRecord
  <2>1. find' = NoFind /\ hits' = hits \cup find.found
    BY <1>10 DEF FindRecord
  <2>2. \A s \in hits' : src'[s].st \in {"active", "gone"}
    BY <1>f, <1>g, <2>1 DEF FindKeeps
  <2>3. QED
    BY <1>n, <2>1, <2>2 DEF FindKeeps, FoundIsVisible
<1>11. CASE GraphRead \/ \E u \in Users : GraphBegin(u)
  BY <1>11, <1>q DEF GraphRead, GraphBegin
<1>12. CASE Restart
  <2>1. find' = NoFind /\ UNCHANGED hits
    BY <1>12 DEF Restart
  <2>2. \A s \in hits' : src'[s].st \in {"active", "gone"}
    BY <1>f, <1>g, <2>1 DEF FindKeeps
  <2>3. QED
    BY <1>n, <2>1, <2>2 DEF FindKeeps, FoundIsVisible
<1>13. QED
  BY <1>1, <1>2, <1>3, <1>4, <1>5, <1>6, <1>7, <1>8, <1>9, <1>10, <1>11, <1>12 DEF Next

\* Whatever writes drops the graph under way, and the rest leaves alone what the
\* graph's queries read.
LEMMA GraphStep == ASSUME TypeOK, GraphKeeps, [Next]_vars PROVE GraphKeeps'
<1>n. ASSUME Written PROVE GraphKeeps'
  BY <1>n DEF Written, NoGraph, GraphKeeps
<1>q. ASSUME UNCHANGED <<col, src, hits, graph>> PROVE GraphKeeps'
  BY <1>q DEF GraphKeeps, Page, With, Hits, Active, Sees, Exists, Total
<1>1. CASE UNCHANGED vars
  BY <1>1, <1>q DEF vars
<1>2. CASE CreateCollection \/ UpdateCollection \/ DeleteCollection
  BY <1>2, <1>n DEF CreateCollection, UpdateCollection, DeleteCollection
<1>3. ASSUME NEW s \in Sources, DeleteSource(s) \/ Begin(s) PROVE GraphKeeps'
  BY <1>3, <1>n, <1>q DEF DeleteSource, Begin, Others
<1>4. CASE Ingest
  BY <1>4, <1>n, <1>q DEF Ingest, Others, Put, Throws, HopRefused, SecondFails, CreateSource, CreateJob, RunJob,
     Fetch, CreateDocument, Embed, InsertWith, InsertWithout, SetStatus, CompleteJob, Activate, FailJob, FailSource
<1>5. CASE BackfillBegin \/ BackfillNext \/ BackfillEmbed \/ BackfillCount \/ BackfillStatus
  BY <1>5, <1>n, <1>q DEF BackfillBegin, BackfillNext, BackfillEmbed, BackfillCount, BackfillStatus, Rest
<1>6. ASSUME NEW u \in Users, FindBegin(u) PROVE GraphKeeps'
  BY <1>6, <1>n DEF FindBegin
<1>7. CASE FindWords \/ FindNear \/ FindRecord
  BY <1>7, <1>n, <1>q DEF FindWords, FindNear, FindRecord
<1>8. ASSUME NEW u \in Users, GraphBegin(u) PROVE GraphKeeps'
  BY <1>8 DEF GraphBegin, NoGraph, GraphKeeps
<1>9. CASE GraphRead
  <2>1. UNCHANGED <<col, src, hits>>
    BY <1>9 DEF GraphRead
  <2>2. /\ \A u \in Users : Page(With(u))' = Page(With(u)) /\ Page(Hits(u))' = Page(Hits(u))
        /\ graph.who \in Users /\ graph \in Graphs
    BY <2>1 DEF Page, With, Hits, Active, Sees, Exists, TypeOK, Graphs
  <2>3. ASSUME NEW p, p \in Page(With(graph.who)), graph' = [graph EXCEPT !.pc = "hits", !.srcs = p]
        PROVE  GraphKeeps'
    <3>1. graph'.pc = "hits" /\ graph'.who = graph.who /\ graph'.srcs = p
      BY <2>2, <2>3 DEF Graphs
    <3>2. QED
      BY <2>2, <2>3, <3>1 DEF GraphKeeps
  <2>4. ASSUME NEW p, p \in Page(Hits(graph.who)), graph.pc = "hits",
               graph' = [graph EXCEPT !.pc = "total", !.hits = p]
        PROVE  GraphKeeps'
    <3>1. graph'.pc = "total" /\ graph'.who = graph.who /\ graph'.srcs = graph.srcs /\ graph'.hits = p
      BY <2>2, <2>4 DEF Graphs
    <3>2. QED
      BY <2>2, <2>4, <3>1 DEF GraphKeeps
  <2>5. ASSUME graph.pc = "total", graph' = [graph EXCEPT !.pc = "drawn", !.total = Total]
        PROVE  GraphKeeps'
    <3>1. /\ graph'.pc = "drawn" /\ graph'.who = graph.who /\ graph'.srcs = graph.srcs
          /\ graph'.hits = graph.hits /\ graph'.total = Total
      BY <2>2, <2>5 DEF Graphs
    <3>2. Total' = Total
      BY <2>1, <3>1 DEF Total, Sees, Exists, Active
    <3>3. QED
      BY <2>2, <2>5, <3>1, <3>2 DEF GraphKeeps
  <2>6. QED
    BY <1>9, <2>3, <2>4, <2>5 DEF GraphRead, Hits
<1>10. CASE Restart
  BY <1>10, <1>n DEF Restart, Written
<1>11. QED
  BY <1>1, <1>2, <1>3, <1>4, <1>5, <1>6, <1>7, <1>8, <1>9, <1>10 DEF Next
-----------------------------------------------------------------------------
(* The theorems.                                                            *)

\* SharedInv is inductive.
LEMMA SharedInductive ==
    /\ Init => SharedInv
    /\ SharedInv /\ [Next]_vars => SharedInv'
<1>1. Init => TypeOK
  BY NothingTypes, SharedAssumption DEF Init, TypeOK, Bounds
<1>2. Init => RowsKeep /\ IngestKeeps /\ FillKeeps /\ ActiveIsWhole /\ EmbeddedIsTrue
  <2>1. NoSource.st = "none" /\ NoSource.rows = {} /\ NoSource.vec = {} /\ NoSource.doc = "none"
    BY DEF NoSource
  <2>2. NoIngest.pc = "idle" /\ NoFill.pc = "idle"
    BY DEF NoIngest, NoFill
  <2>3. QED
    BY <2>1, <2>2 DEF Init, RowsKeep, Missing, IngestKeeps, FillKeeps, ActiveIsWhole, Active, EmbeddedIsTrue
<1>3. Init => FindKeeps /\ GraphKeeps /\ FoundIsVisible
  BY DEF Init, NoFind, NoGraph, FindKeeps, GraphKeeps, FoundIsVisible
<1>4. SharedInv /\ [Next]_vars => SharedInv'
  BY StoredStep, FindStep, GraphStep DEF SharedInv, RowStored
<1>5. QED
  BY <1>1, <1>2, <1>3, <1>4 DEF SharedInv

\* The rows, the handlers and the counters of the knowledge service keep to
\* their types.
THEOREM SharedTypeCorrect == Spec => []TypeOK
<1>1. SharedInv => TypeOK
  BY DEF SharedInv
<1>2. QED
  BY SharedInductive, <1>1, PTL DEF Spec

\* A source that can be searched has all its chunks and a completed job, whatever
\* failed, was deleted or was filled in during its ingest.
THEOREM SearchedSourceIsWhole == Spec => []ActiveIsWhole
<1>1. SharedInv => ActiveIsWhole
  BY DEF SharedInv
<1>2. QED
  BY SharedInductive, <1>1, PTL DEF Spec

\* No document is called embedded while a chunk of it has no vector, however
\* backfills and ingests interleave.
THEOREM EmbeddedHasItsVectors == Spec => []EmbeddedIsTrue
<1>1. SharedInv => EmbeddedIsTrue
  BY DEF SharedInv
<1>2. QED
  BY SharedInductive, <1>1, PTL DEF Spec

\* Searches show nothing that was hidden all along; graphs that do not say so
\* hide nothing.
THEOREM ReadersAreToldTheTruth == Spec => []ReadsAreTrue
<1>1. SharedInv => ReadsAreTrue
  <2> SUFFICES ASSUME SharedInv PROVE GraphIsWhole
    BY DEF SharedInv, ReadsAreTrue
  <2> SUFFICES ASSUME graph.pc = "drawn", ~Truncated
               PROVE  graph.srcs = With(graph.who) /\ graph.hits \subseteq graph.srcs
    BY DEF GraphIsWhole
  <2> DEFINE W == With(graph.who)
  <2>1. /\ graph.srcs \in Page(W) /\ graph.hits \in Page(Hits(graph.who)) /\ graph.total = Total
        /\ hits \in SUBSET Sources
    BY DEF SharedInv, GraphKeeps, TypeOK
  <2>2. W \in SUBSET Sources /\ Cardinality(W) \in 0..N
    BY SourceCount DEF With, Active
  <2>3. Total = Cardinality(W)
    BY FS_EmptySet DEF Total, With
  <2>4. graph.srcs = W
    <3>1. Cardinality(graph.srcs) \in 0..N
      BY <2>1, <2>2, SourceCount DEF Page
    <3>2. Cardinality(graph.srcs) >= Cardinality(W)
      BY <2>1, <2>2, <2>3, <3>1, SharedAssumption DEF Truncated
    <3>3. QED
      BY <2>1, <2>2, <3>2, SharedAssumption DEF Page
  <2>5. \A s \in hits : src[s].rows # {} => s \in Active
    BY <2>1 DEF SharedInv, FindKeeps, RowsKeep, Active, Gone, NoSource
  <2>6. Hits(graph.who) \subseteq W
    BY <2>5 DEF Hits, With
  <2>7. graph.hits \subseteq Hits(graph.who)
    BY <2>1 DEF Page
  <2>8. QED
    BY <2>4, <2>6, <2>7
<1>2. QED
  BY SharedInductive, <1>1, PTL DEF Spec
-----------------------------------------------------------------------------
(* The entries.                                                             *)

\* There is no file without a row, and whoever works on a file or is about to
\* say "synced" has made a row, or a file, first.
MirrorKeeps ==
    /\ file # NoFile => row.status # "none"
    /\ rec.pc \in {"entry", "promote", "written", "set aside", "attempt", "rows"} => row.status # "none"
    /\ rec.pc \in {"promote", "written"} => file # NoFile
    /\ rec.pc \in {"entry", "written", "attempt"} => rec.att = row.att
    /\ rec.pc \in {"written", "attempt"} => rec.att < MaxAttempts
    /\ \A w \in Writers : /\ req[w].pc \in {"write", "mark"} => row.status # "none"
                          /\ req[w].pc = "mark" => file # NoFile

\* Nobody has stored a body that is not in the file yet.
NoneWrites == \A w \in Writers : req[w].pc # "write"

\* Of a body that is in no doubt: one request at most is at its file; as long as
\* it is not there nothing says "synced", and the reconciler is not at the entry;
\* then there is its file, or none.
ContentKeeps ==
    ~doubt =>
        /\ \A v, w \in Writers : AtFile(v) /\ AtFile(w) => v = w
        /\ \A w \in Writers : req[w].pc = "write" => req[w].body = row.body /\ row.sync # "synced"
        /\ (NoneWrites => file \in {NoFile, row.body})
        /\ (rec.pc \in {"entry", "promote", "written"} => NoneWrites)
        /\ (rec.pc = "entry" => rec.body = row.body)

EntriesInv == EntriesTypeOK /\ MirrorKeeps /\ ContentKeeps /\ SyncedHasFile /\ NoFalseOrphan
-----------------------------------------------------------------------------
(* Types.                                                                   *)

\* A body is not the file that is missing, and bodies can be joined.
LEMMA BodyTypes ==
    /\ {} \in Bodies /\ NoFile \notin Bodies
    /\ \A a, b \in Bodies : a \cup b \in Bodies
  BY DEF Bodies, NoFile

\* The values for "nothing there" have the types of their variables.
LEMMA NoEntryTypes ==
    /\ Idle \in Requests /\ AtRest \in Passes /\ [AtRest EXCEPT !.pc = "disk"] \in Passes
    /\ [AtRest EXCEPT !.pc = "rows"] \in Passes
<1>1. Idle \in Requests
  BY BodyTypes DEF Idle, Requests
<1>2. 0 \in 0..MaxAttempts
  BY EntriesAssumption
<1>3. \A pc \in {"rest", "disk", "rows"} : [pc |-> pc, body |-> {}, att |-> 0] \in Passes
  BY <1>2, BodyTypes DEF Passes
<1>4. QED
  BY <1>1, <1>3 DEF AtRest

\* A fault is counted.
LEMMA FailureTypes == ASSUME EntriesTypeOK, Failure PROVE uses' \in EntriesBounds
  BY EntriesAssumption DEF EntriesTypeOK, Failure, EntriesBounds

\* A statement that stores a body leaves a row, a request and perhaps a doubt.
LEMMA StoredTypes ==
    ASSUME EntriesTypeOK, NEW w \in Writers, Stored(w)
    PROVE  /\ row' \in Entries /\ doubt' \in BOOLEAN /\ req' \in [Writers -> Requests]
           /\ row'.status = "active" /\ row'.sync = "pending" /\ row'.body = req[w].body
           /\ row'.att = row.att
           /\ req'[w].pc = "write" /\ req'[w].body = req[w].body
           /\ \A v \in Writers : v # w => req'[v] = req[v]
<1>1. req[w] \in Requests /\ row \in Entries
  BY DEF EntriesTypeOK
<1>2. req[w].body \in Bodies
  BY <1>1 DEF Requests
<1>3. row' \in Entries /\ row'.status = "active" /\ row'.sync = "pending" /\ row'.body = req[w].body
      /\ row'.att = row.att
  BY <1>1, <1>2 DEF Stored, Unsynced, Entries
<1>4. /\ [req[w] EXCEPT !.pc = "write"] \in Requests
      /\ [req[w] EXCEPT !.pc = "write"].pc = "write"
      /\ [req[w] EXCEPT !.pc = "write"].body = req[w].body
  BY <1>1 DEF Requests
<1>5. /\ req' \in [Writers -> Requests] /\ req'[w].pc = "write" /\ req'[w].body = req[w].body
      /\ \A v \in Writers : v # w => req'[v] = req[v]
  BY <1>4 DEF Stored, EntriesTypeOK
<1>6. doubt' \in BOOLEAN
  BY DEF Stored, Crossing
<1>7. QED
  BY <1>3, <1>5, <1>6

\* A request that begins: its body is the next write.
LEMMA RequestTypes ==
    ASSUME EntriesTypeOK, NEW w \in Writers, NEW pc \in {"read", "insert", "update"}, Request(w, pc)
    PROVE  /\ req' \in [Writers -> Requests] /\ uses' \in EntriesBounds
           /\ req'[w].pc = pc
           /\ \A v \in Writers : v # w => req'[v] = req[v]
<1>1. uses' \in EntriesBounds /\ uses'.writes \in 1..MaxWrites
  BY EntriesAssumption DEF EntriesTypeOK, Request, EntriesBounds
<1>2. {uses'.writes} \in Bodies
  BY <1>1 DEF Bodies
<1>3. \A b \in BOOLEAN : [pc |-> pc, body |-> {uses'.writes}, append |-> b] \in Requests
  BY <1>2 DEF Requests
<1>4. [pc |-> pc, body |-> {uses'.writes}, append |-> pc = "read"] \in Requests
  <2>1. (pc = "read") \in BOOLEAN
    OBVIOUS
  <2>2. QED
    BY <1>3, <2>1, Zenon
<1>5. DEFINE q == [pc |-> pc, body |-> {uses'.writes}, append |-> pc = "read"]
<1>6. q.pc = pc
  OBVIOUS
<1>7. req' = [req EXCEPT ![w] = q] /\ q \in Requests
  BY <1>4, Zenon DEF Request
<1> HIDE DEF q
<1>8. QED
  BY <1>1, <1>6, <1>7 DEF EntriesTypeOK

\* What a journal append becomes once it has read the entry.
LEMMA ReadTypes ==
    ASSUME EntriesTypeOK, NEW w \in Writers, JournalRead(w)
    PROVE  /\ req' \in [Writers -> Requests]
           /\ req'[w].pc \in {"update", "insert"}
           /\ \A v \in Writers : v # w => req'[v] = req[v]
<1>1. req[w] \in Requests /\ row.body \in Bodies
  BY DEF EntriesTypeOK, Entries
<1> DEFINE u == [req[w] EXCEPT !.pc = "update", !.body = Appended(row.body, req[w].body)]
           i == [req[w] EXCEPT !.pc = "insert"]
<1>2. Appended(row.body, req[w].body) \in Bodies
  BY <1>1, BodyTypes DEF Appended, Requests
<1>3. u \in Requests /\ u.pc = "update"
  BY <1>1, <1>2 DEF Requests
<1>4. i \in Requests /\ i.pc = "insert"
  BY <1>1 DEF Requests
<1>5. req' = [req EXCEPT ![w] = IF row.status = "active" THEN u ELSE i]
  BY DEF JournalRead, EntriesTypeOK
<1> HIDE DEF u, i
<1>6. QED
  BY <1>3, <1>4, <1>5 DEF EntriesTypeOK

\* The types, and the bound on attempts that the reconciler's two steps keep.
LEMMA EntriesTypes == ASSUME EntriesTypeOK, MirrorKeeps, [EntriesNext]_entriesVars PROVE EntriesTypeOK'
<1> USE NoEntryTypes, FailureTypes
<1>1. CASE UNCHANGED entriesVars
  BY <1>1 DEF entriesVars, EntriesTypeOK
<1>2. ASSUME NEW w \in Writers, NEW pc \in {"read", "insert", "update"}, Request(w, pc) PROVE EntriesTypeOK'
  BY <1>2, RequestTypes DEF Request, EntriesTypeOK
<1>3. ASSUME NEW w \in Writers, JournalRead(w) PROVE EntriesTypeOK'
  BY <1>3, ReadTypes DEF JournalRead, EntriesTypeOK
<1>4. ASSUME NEW w \in Writers, Insert(w) PROVE EntriesTypeOK'
  <2>1. CASE Stored(w)
    BY <1>4, <2>1, StoredTypes DEF Insert, EntriesTypeOK
  <2>2. CASE ~Stored(w)
    <3>1. Conflict(req[w]) \subseteq Requests
      BY DEF Conflict, EntriesTypeOK, Requests
    <3>2. req' \in [Writers -> Requests]
      BY <1>4, <2>2, <3>1 DEF Insert, EntriesTypeOK
    <3>3. QED
      BY <1>4, <2>2, <3>2 DEF Insert, EntriesTypeOK
  <2>3. QED
    BY <2>1, <2>2
<1>5. ASSUME NEW w \in Writers, Update(w) PROVE EntriesTypeOK'
  <2>1. CASE Stored(w)
    BY <1>5, <2>1, StoredTypes DEF Update, EntriesTypeOK
  <2>2. CASE ~Stored(w)
    BY <1>5, <2>2 DEF Update, EntriesTypeOK
  <2>3. QED
    BY <2>1, <2>2
<1>6. ASSUME NEW w \in Writers, Write(w) PROVE EntriesTypeOK'
  <2>1. [req[w] EXCEPT !.pc = "mark"] \in Requests /\ req[w].body \in Bodies
    BY DEF EntriesTypeOK, Requests
  <2>2. req' \in [Writers -> Requests] /\ file' \in Bodies \cup {NoFile}
    BY <1>6, <2>1 DEF Write, WriteFailed, EntriesTypeOK
  <2>3. QED
    BY <1>6, <2>2 DEF Write, EntriesTypeOK
<1>7. ASSUME NEW w \in Writers, Mark(w) PROVE EntriesTypeOK'
  <2>1. [row EXCEPT !.sync = "synced"] \in Entries
    BY DEF EntriesTypeOK, Entries
  <2>2. QED
    BY <1>7, <2>1 DEF Mark, EntriesTypeOK
<1>8. CASE Archive
  <2>1. [row EXCEPT !.status = "archived"] \in Entries
    BY DEF EntriesTypeOK, Entries
  <2>2. QED
    BY <1>8, <2>1 DEF Archive, EntriesTypeOK
<1>9. CASE Pending
  <2>1. [AtRest EXCEPT !.pc = "entry", !.body = row.body, !.att = row.att] \in Passes
    BY DEF EntriesTypeOK, Entries, Passes
  <2>2. QED
    BY <1>9, <2>1 DEF Pending, EntriesTypeOK
<1>10. CASE Entry
  <2>1. /\ \A pc \in {"promote", "written", "set aside", "attempt"} : [rec EXCEPT !.pc = pc] \in Passes
        /\ rec.body \in Bodies
    BY DEF EntriesTypeOK, Passes
  <2>2. QED
    BY <1>10, <2>1 DEF Entry, EntriesTypeOK
<1>11. CASE Conclude
  <2>1. Concluded \in Entries
    <3>1. CASE rec.pc \in {"promote", "written"}
      BY <3>1 DEF Concluded, EntriesTypeOK, Entries
    <3>2. CASE rec.pc = "set aside"
      BY <3>2 DEF Concluded, SetAside, EntriesTypeOK, Entries
    <3>3. CASE rec.pc = "attempt"
      <4>1. row.att + 1 \in 0..MaxAttempts
        BY <3>3, EntriesAssumption DEF MirrorKeeps, EntriesTypeOK, Entries
      <4>2. QED
        BY <3>3, <4>1 DEF Concluded, EntriesTypeOK, Entries
    <3>4. QED
      BY <1>11, <3>1, <3>2, <3>3 DEF Conclude
  <2>2. QED
    BY <1>11, <2>1 DEF Conclude, EntriesTypeOK
<1>12. CASE Disk \/ OrphanRows
  BY <1>12 DEF Disk, OrphanRows, EntriesTypeOK
<1>13. CASE PassFails \/ ServiceRestarts
  BY <1>13 DEF PassFails, ServiceRestarts, EntriesTypeOK
<1>14. CASE AttemptFails
  <2>1. [rec EXCEPT !.pc = "attempt"] \in Passes
    BY DEF EntriesTypeOK, Passes
  <2>2. QED
    BY <1>14, <2>1 DEF AttemptFails, EntriesTypeOK
<1>15. QED
  BY <1>1, <1>2, <1>3, <1>4, <1>5, <1>6, <1>7, <1>8, <1>9, <1>10, <1>11, <1>12, <1>13, <1>14 DEF EntriesNext, Reconcile
-----------------------------------------------------------------------------
(* The invariant, action by action.                                         *)

\* Steps of the requests.
LEMMA WriterStep ==
    ASSUME EntriesInv, NEW w \in Writers,
           \/ \E pc \in {"read", "insert", "update"} : Request(w, pc)
           \/ JournalRead(w) \/ Insert(w) \/ Update(w) \/ Write(w) \/ Mark(w)
    PROVE  MirrorKeeps' /\ ContentKeeps' /\ SyncedHasFile' /\ NoFalseOrphan'
<1> USE DEF EntriesInv
<1>t. req[w] \in Requests /\ row \in Entries /\ doubt \in BOOLEAN
  BY DEF EntriesTypeOK
<1>i. Idle.pc = "idle"
  BY DEF Idle
<1>s. ASSUME UNCHANGED <<row, file, quarantine, rec>>, ~doubt' => ~doubt,
             \A v \in Writers : v # w => req'[v] = req[v],
             req'[w].pc \notin {"write", "mark"},
             req[w].pc = "write" => doubt' \/ file = NoFile
      PROVE  MirrorKeeps' /\ ContentKeeps' /\ SyncedHasFile' /\ NoFalseOrphan'
  <2>1. MirrorKeeps' /\ SyncedHasFile' /\ NoFalseOrphan'
    BY <1>s DEF MirrorKeeps, SyncedHasFile, NoFalseOrphan
  <2>2. ASSUME ~doubt'
        PROVE  /\ \A u, v \in Writers : AtFile(u)' /\ AtFile(v)' => u = v
               /\ \A v \in Writers : req'[v].pc = "write" => req'[v].body = row'.body /\ row'.sync # "synced"
               /\ (NoneWrites' => file' \in {NoFile, row'.body})
               /\ (rec'.pc \in {"entry", "promote", "written"} => NoneWrites')
               /\ (rec'.pc = "entry" => rec'.body = row'.body)
    <3>1. /\ \A u, v \in Writers : AtFile(u) /\ AtFile(v) => u = v
          /\ \A v \in Writers : req[v].pc = "write" => req[v].body = row.body /\ row.sync # "synced"
          /\ (NoneWrites => file \in {NoFile, row.body})
          /\ (rec.pc \in {"entry", "promote", "written"} => NoneWrites)
          /\ (rec.pc = "entry" => rec.body = row.body)
      BY <1>s, <2>2 DEF ContentKeeps
    <3>2. \A v \in Writers : AtFile(v)' => AtFile(v) /\ v # w
      BY <1>s DEF AtFile
    <3>3. \A v \in Writers : req'[v].pc = "write" => req[v].pc = "write" /\ req'[v] = req[v]
      BY <1>s
    <3>4. NoneWrites' => NoneWrites \/ file = NoFile
      BY <1>s, <2>2 DEF NoneWrites
    <3>5. NoneWrites => NoneWrites'
      BY <3>3 DEF NoneWrites
    <3>6. QED
      BY <1>s, <3>1, <3>2, <3>3, <3>4, <3>5
  <2>3. QED
    BY <2>1, <2>2 DEF ContentKeeps
<1>1. ASSUME NEW pc \in {"read", "insert", "update"}, Request(w, pc)
      PROVE  MirrorKeeps' /\ ContentKeeps' /\ SyncedHasFile' /\ NoFalseOrphan'
  <2>1. UNCHANGED <<row, file, quarantine, rec, doubt>> /\ req[w].pc = "idle"
    BY <1>1, Zenon DEF Request
  <2>2. /\ req'[w].pc \in {"read", "insert", "update"}
        /\ \A v \in Writers : v # w => req'[v] = req[v]
    BY <1>1, RequestTypes
  <2>3. QED
    BY <1>s, <2>1, <2>2
<1>2. CASE JournalRead(w)
  <2>1. UNCHANGED <<row, file, quarantine, rec, doubt>> /\ req[w].pc = "read"
    BY <1>2 DEF JournalRead
  <2>2. QED
    BY <1>2, <2>1, <1>s, ReadTypes
<1>3. ASSUME Stored(w), UNCHANGED <<file, quarantine, rec>>
      PROVE  MirrorKeeps' /\ ContentKeeps' /\ SyncedHasFile' /\ NoFalseOrphan'
  <2>1. /\ row'.status = "active" /\ row'.sync = "pending" /\ row'.body = req[w].body /\ row'.att = row.att
        /\ req'[w].pc = "write" /\ req'[w].body = req[w].body
        /\ \A v \in Writers : v # w => req'[v] = req[v]
    BY <1>3, StoredTypes
  <2>2. MirrorKeeps' /\ SyncedHasFile' /\ NoFalseOrphan'
    BY <1>3, <2>1 DEF MirrorKeeps, SyncedHasFile, NoFalseOrphan
  <2>3. ASSUME ~doubt' PROVE ~Crossing(w)
    BY <1>3, <2>3 DEF Stored
  <2>4. ASSUME ~doubt' PROVE \A v \in Writers : AtFile(v)' => v = w
    BY <2>1, <2>3, <2>4 DEF Crossing, AtFile
  <2>5. ASSUME ~doubt' PROVE rec'.pc \notin {"entry", "promote", "written"}
    BY <1>3, <2>3, <2>5 DEF Crossing
  <2>6. ~NoneWrites'
    BY <2>1 DEF NoneWrites
  <2>7. \A v \in Writers : req'[v].pc = "write" => AtFile(v)'
    BY DEF AtFile
  <2>8. QED
    BY <2>1, <2>2, <2>4, <2>5, <2>6, <2>7 DEF ContentKeeps
<1>4. CASE Insert(w)
  <2>1. CASE Stored(w)
    BY <1>3, <1>4, <2>1 DEF Insert
  <2>2. CASE req' \in {[req EXCEPT ![w] = q] : q \in Conflict(req[w])} /\ UNCHANGED <<row, doubt>>
    <3>1. PICK q \in Conflict(req[w]) : req' = [req EXCEPT ![w] = q]
      BY <2>2
    <3>2. q = Idle \/ q = [req[w] EXCEPT !.pc = "update"]
      BY DEF Conflict
    <3>3. q.pc \in {"idle", "update"}
      BY <1>i, <1>t, <3>2 DEF Requests
    <3>4. req'[w] = q /\ \A v \in Writers : v # w => req'[v] = req[v]
      BY <3>1 DEF EntriesTypeOK
    <3>5. QED
      BY <1>4, <1>s, <2>2, <3>3, <3>4 DEF Insert
  <2>3. QED
    BY <1>4, <2>1, <2>2 DEF Insert
<1>d. ASSUME req' = [req EXCEPT ![w] = Idle]
      PROVE  req'[w].pc = "idle" /\ \A v \in Writers : v # w => req'[v] = req[v]
  <2>1. req'[w] = Idle /\ \A v \in Writers : v # w => req'[v] = req[v]
    BY <1>d DEF EntriesTypeOK
  <2>2. QED
    BY <1>i, <2>1
<1>5. CASE Update(w)
  <2>1. CASE Stored(w)
    BY <1>3, <1>5, <2>1 DEF Update
  <2>2. CASE req' = [req EXCEPT ![w] = Idle] /\ UNCHANGED <<row, doubt>>
    BY <1>5, <1>d, <1>s, <2>2 DEF Update
  <2>3. QED
    BY <1>5, <2>1, <2>2 DEF Update
<1>6. CASE Write(w)
  <2>0. req[w].pc = "write" /\ UNCHANGED <<row, quarantine, rec>>
    BY <1>6 DEF Write
  <2>1. CASE file' = req[w].body /\ req' = [req EXCEPT ![w].pc = "mark"] /\ UNCHANGED doubt
    <3>1. file' # NoFile
      BY <1>t, <2>1, BodyTypes DEF Requests
    <3>2. /\ req'[w].pc = "mark" /\ \A v \in Writers : v # w => req'[v] = req[v]
      BY <1>t, <2>1 DEF EntriesTypeOK, Requests
    <3>3. MirrorKeeps' /\ SyncedHasFile' /\ NoFalseOrphan'
      BY <2>0, <3>1, <3>2 DEF MirrorKeeps, SyncedHasFile, NoFalseOrphan
    <3>4. \A v \in Writers : AtFile(v)' <=> AtFile(v)
      BY <2>0, <3>2 DEF AtFile
    <3>5. ASSUME ~doubt PROVE NoneWrites' /\ req[w].body = row.body /\ ~NoneWrites
      <4>1. \A v \in Writers : AtFile(v) /\ AtFile(w) => v = w
        BY <3>5 DEF ContentKeeps
      <4>2. AtFile(w) /\ \A v \in Writers : req[v].pc = "write" => AtFile(v)
        BY <2>0 DEF AtFile
      <4>3. NoneWrites'
        BY <3>2, <4>1, <4>2 DEF NoneWrites
      <4>4. req[w].body = row.body
        BY <2>0, <3>5 DEF ContentKeeps
      <4>5. QED
        BY <2>0, <4>3, <4>4 DEF NoneWrites
    <3>6. ASSUME ~doubt' PROVE rec.pc \notin {"entry", "promote", "written"}
      BY <2>1, <3>5, <3>6 DEF ContentKeeps
    <3>7. ASSUME ~doubt' PROVE \A v \in Writers : req'[v].pc # "write"
      BY <2>1, <3>5, <3>7 DEF NoneWrites
    <3>8. ASSUME ~doubt' PROVE \A u, v \in Writers : AtFile(u)' /\ AtFile(v)' => u = v
      BY <2>1, <3>4, <3>8 DEF ContentKeeps
    <3>9. ContentKeeps'
      BY <2>0, <2>1, <3>5, <3>6, <3>7, <3>8 DEF ContentKeeps
    <3>10. QED
      BY <3>3, <3>9
  <2>2. CASE UNCHANGED file /\ req' = [req EXCEPT ![w] = Idle] /\ doubt' = (doubt \/ Lost(w))
    <3>1. doubt' \/ file = NoFile
      BY <2>0, <2>2 DEF Lost
    <3>2. ~doubt' => ~doubt
      BY <2>2
    <3>3. QED
      BY <1>d, <1>s, <2>0, <2>2, <3>1, <3>2
  <2>3. QED
    BY <1>6, <2>1, <2>2 DEF Write, WriteFailed
<1>7. CASE Mark(w)
  <2>1. /\ row'.status = row.status /\ row'.body = row.body /\ row'.att = row.att
        /\ req[w].pc = "mark" /\ file # NoFile
    BY <1>7 DEF Mark, EntriesTypeOK, Entries, MirrorKeeps
  <2>2. UNCHANGED <<file, quarantine, rec, doubt>> /\ req' = [req EXCEPT ![w] = Idle]
    BY <1>7 DEF Mark
  <2>3. MirrorKeeps' /\ SyncedHasFile' /\ NoFalseOrphan'
    BY <1>d, <2>1, <2>2 DEF MirrorKeeps, SyncedHasFile, NoFalseOrphan
  <2>4. \A v \in Writers : AtFile(v)' => AtFile(v) /\ v # w
    BY <1>d, <2>2 DEF AtFile
  <2>5. ASSUME ~doubt PROVE NoneWrites /\ NoneWrites'
    <3>1. \A v \in Writers : AtFile(v) /\ AtFile(w) => v = w
      BY <2>5 DEF ContentKeeps
    <3>2. AtFile(w) /\ \A v \in Writers : req[v].pc = "write" => AtFile(v)
      BY <2>1 DEF AtFile
    <3>3. QED
      BY <1>d, <2>1, <2>2, <3>1, <3>2 DEF NoneWrites
  <2>6. ASSUME ~doubt' PROVE \A u, v \in Writers : AtFile(u)' /\ AtFile(v)' => u = v
    BY <2>2, <2>4, <2>6 DEF ContentKeeps
  <2>7. ASSUME ~doubt' PROVE \A v \in Writers : req'[v].pc # "write"
    BY <2>2, <2>5, <2>7 DEF NoneWrites
  <2>8. ASSUME ~doubt' PROVE file \in {NoFile, row.body} /\ (rec.pc = "entry" => rec.body = row.body)
    BY <2>2, <2>5, <2>8 DEF ContentKeeps
  <2>9. ContentKeeps'
    BY <2>1, <2>2, <2>5, <2>6, <2>7, <2>8 DEF ContentKeeps
  <2>10. QED
    BY <2>3, <2>9
<1>8. QED
  BY <1>1, <1>2, <1>4, <1>5, <1>6, <1>7

\* Steps of the reconciler, the archive and the ends of handlers.
LEMMA ReconcilerStep ==
    ASSUME EntriesInv, Archive \/ Reconcile \/ AttemptFails \/ PassFails \/ ServiceRestarts
    PROVE  MirrorKeeps' /\ ContentKeeps' /\ SyncedHasFile' /\ NoFalseOrphan'
<1> USE DEF EntriesInv
<1>t. row \in Entries /\ rec \in Passes /\ AtRest.pc = "rest" /\ Idle.pc = "idle"
  BY DEF EntriesTypeOK, AtRest, Idle
<1>k. ASSUME UNCHANGED <<req, doubt>>, row'.body = row.body, row'.sync = "synced" => row.sync = "synced" \/ (doubt \/ NoneWrites),
             file' = file \/ (rec.pc = "entry" /\ file' = rec.body),
             rec'.pc \in {"entry", "promote", "written"} => rec.pc \in {"entry", "promote", "written"},
             rec'.pc = "entry" => rec.pc = "entry" /\ rec'.body = rec.body
      PROVE  ContentKeeps'
  <2>1. NoneWrites' = NoneWrites /\ \A w \in Writers : AtFile(w)' = AtFile(w)
    BY <1>k DEF NoneWrites, AtFile
  <2>2. ASSUME ~doubt
        PROVE  /\ \A u, v \in Writers : AtFile(u) /\ AtFile(v) => u = v
               /\ \A v \in Writers : req[v].pc = "write" => req[v].body = row.body /\ row'.sync # "synced"
               /\ (NoneWrites => file' \in {NoFile, row.body})
               /\ (rec'.pc \in {"entry", "promote", "written"} => NoneWrites)
               /\ (rec'.pc = "entry" => rec'.body = row.body)
    <3>1. /\ \A u, v \in Writers : AtFile(u) /\ AtFile(v) => u = v
          /\ \A v \in Writers : req[v].pc = "write" => req[v].body = row.body /\ row.sync # "synced"
          /\ (NoneWrites => file \in {NoFile, row.body})
          /\ (rec.pc \in {"entry", "promote", "written"} => NoneWrites)
          /\ (rec.pc = "entry" => rec.body = row.body)
      BY <2>2 DEF ContentKeeps
    <3>2. \A v \in Writers : req[v].pc = "write" => row'.sync # "synced"
      BY <1>k, <2>2, <3>1 DEF NoneWrites
    <3>3. QED
      BY <1>k, <3>1, <3>2
  <2>3. QED
    BY <1>k, <2>1, <2>2 DEF ContentKeeps
<1>a. ASSUME UNCHANGED <<row, file, quarantine, req, doubt>>, rec'.pc \in {"rest", "disk"}
      PROVE  MirrorKeeps' /\ ContentKeeps' /\ SyncedHasFile' /\ NoFalseOrphan'
  <2>1. MirrorKeeps' /\ SyncedHasFile' /\ NoFalseOrphan'
    BY <1>a DEF MirrorKeeps, SyncedHasFile, NoFalseOrphan
  <2>2. QED
    BY <1>a, <1>k, <2>1
<1>1. CASE Archive
  <2>1. row'.status = "archived" /\ row'.body = row.body /\ row'.att = row.att /\ row'.sync = row.sync
    BY <1>1, <1>t DEF Archive, Entries
  <2>2. UNCHANGED <<file, quarantine, req, rec, doubt>>
    BY <1>1 DEF Archive
  <2>3. MirrorKeeps' /\ SyncedHasFile' /\ NoFalseOrphan'
    BY <2>1, <2>2 DEF MirrorKeeps, SyncedHasFile, NoFalseOrphan
  <2>4. QED
    BY <1>k, <2>1, <2>2, <2>3
<1>2. CASE Pending
  <2>0. UNCHANGED <<row, file, quarantine, req>>
    BY <1>2 DEF Pending
  <2>1. CASE row.status # "none" /\ row.sync = "pending"
    <3>1. rec'.pc = "entry" /\ rec'.att = row.att /\ rec'.body = row.body
      BY <1>2, <2>1 DEF Pending, AtRest
    <3>2. MirrorKeeps' /\ SyncedHasFile' /\ NoFalseOrphan'
      BY <2>0, <2>1, <3>1 DEF MirrorKeeps, SyncedHasFile, NoFalseOrphan
    <3>3. ASSUME ~doubt' PROVE ~doubt /\ NoneWrites
      BY <1>2, <3>1, <3>3 DEF Pending, NoneWrites
    <3>4. NoneWrites' = NoneWrites /\ \A w \in Writers : AtFile(w)' = AtFile(w)
      BY <2>0 DEF NoneWrites, AtFile
    <3>5. ASSUME ~doubt'
          PROVE  /\ \A u, v \in Writers : AtFile(u) /\ AtFile(v) => u = v
                 /\ file \in {NoFile, row.body}
                 /\ \A v \in Writers : req[v].pc # "write"
      BY <3>3, <3>5 DEF ContentKeeps, NoneWrites
    <3>6. ContentKeeps'
      BY <2>0, <3>1, <3>3, <3>4, <3>5 DEF ContentKeeps
    <3>7. QED
      BY <3>2, <3>6
  <2>2. CASE ~(row.status # "none" /\ row.sync = "pending")
    <3>1. rec'.pc = "disk"
      BY <1>2, <2>2 DEF Pending, AtRest
    <3>2. doubt' = (doubt \/ FALSE)
      BY <1>2, <3>1 DEF Pending
    <3>3. doubt' = doubt
      BY <3>2 DEF EntriesTypeOK
    <3>4. QED
      BY <2>0, <1>a, <3>1, <3>3
  <2>3. QED
    BY <2>1, <2>2
<1>3. CASE Entry
  <2>0. UNCHANGED <<row, req, doubt>> /\ rec.pc = "entry"
    BY <1>3 DEF Entry
  <2>1. /\ rec'.pc \in {"promote", "written", "set aside", "attempt"} /\ rec'.att = rec.att
        /\ rec'.pc \in {"written", "attempt"} => ~Spent(rec.att)
        /\ file' = file \/ file' = rec.body
        /\ rec'.pc \in {"promote", "written"} => file' = rec.body \/ (file # NoFile /\ file' = file)
        /\ quarantine' = quarantine \/ quarantine' = quarantine \cup {"entry"}
        /\ file # NoFile => file' # NoFile
    BY <1>3, <1>t DEF Entry, Passes
  <2>2. rec.body # NoFile
    <3>1. rec.body \in Bodies
      BY <1>t DEF Passes
    <3>2. QED
      BY <3>1, BodyTypes
  <2>3. rec'.pc \in {"written", "attempt"} => rec.att < MaxAttempts
    <3>1. rec.att \in 0..MaxAttempts
      BY <1>t DEF Passes
    <3>2. ~Spent(rec.att) => rec.att < MaxAttempts
      BY <3>1, EntriesAssumption DEF Spent
    <3>3. QED
      BY <2>1, <3>2
  <2>4. MirrorKeeps' /\ SyncedHasFile' /\ NoFalseOrphan'
    BY <2>0, <2>1, <2>2, <2>3 DEF MirrorKeeps, SyncedHasFile, NoFalseOrphan
  <2>5. QED
    BY <1>k, <2>0, <2>1, <2>4
<1>4. CASE Conclude
  <2>1. /\ row'.status = row.status /\ row'.body = row.body
        /\ row'.sync = "synced" => rec.pc \in {"promote", "written"} \/ row.sync = "synced"
    <3>1. CASE rec.pc \in {"promote", "written"}
      BY <1>4, <1>t, <3>1 DEF Conclude, Concluded, Entries
    <3>2. CASE rec.pc = "set aside"
      BY <1>4, <1>t, <3>2 DEF Conclude, Concluded, SetAside, Entries
    <3>3. CASE rec.pc = "attempt"
      BY <1>4, <1>t, <3>3 DEF Conclude, Concluded, Entries
    <3>4. QED
      BY <1>4, <3>1, <3>2, <3>3 DEF Conclude
  <2>2. rec'.pc = "disk" /\ UNCHANGED <<file, quarantine, req, doubt>>
    BY <1>4 DEF Conclude, AtRest
  <2>3. MirrorKeeps' /\ SyncedHasFile' /\ NoFalseOrphan'
    BY <2>1, <2>2 DEF MirrorKeeps, SyncedHasFile, NoFalseOrphan
  <2>4. rec.pc \in {"promote", "written"} => doubt \/ NoneWrites
    BY DEF ContentKeeps
  <2>5. QED
    BY <1>k, <2>1, <2>2, <2>3, <2>4
<1>5. CASE Disk
  <2>1. rec'.pc = "rest" \/ (rec'.pc = "rows" /\ file # NoFile)
    BY <1>5, <1>t DEF Disk, Look, AtRest
  <2>2. CASE rec'.pc = "rest"
    BY <1>5, <1>a, <2>2 DEF Disk
  <2>3. CASE rec'.pc = "rows" /\ file # NoFile
    <3>1. UNCHANGED <<row, file, quarantine, req, doubt>>
      BY <1>5 DEF Disk
    <3>2. MirrorKeeps' /\ SyncedHasFile' /\ NoFalseOrphan'
      BY <2>3, <3>1 DEF MirrorKeeps, SyncedHasFile, NoFalseOrphan
    <3>3. QED
      BY <1>k, <2>3, <3>1, <3>2
  <2>4. QED
    BY <2>1, <2>2, <2>3
<1>6. CASE OrphanRows
  <2>1. ~Look(2)
    BY <1>6 DEF OrphanRows, Look, MirrorKeeps
  <2>2. QED
    BY <1>6, <1>a, <1>t, <2>1 DEF OrphanRows
<1>7. CASE PassFails
  BY <1>7, <1>a, <1>t DEF PassFails
<1>8. CASE AttemptFails
  <2>1. /\ UNCHANGED <<row, file, quarantine, req, doubt>> /\ rec.pc = "written"
        /\ rec'.pc = "attempt" /\ rec'.att = rec.att
    BY <1>8, <1>t DEF AttemptFails, Passes
  <2>2. MirrorKeeps' /\ SyncedHasFile' /\ NoFalseOrphan'
    BY <2>1 DEF MirrorKeeps, SyncedHasFile, NoFalseOrphan
  <2>3. QED
    BY <1>k, <2>1, <2>2
<1>9. CASE ServiceRestarts
  <2>1. /\ UNCHANGED <<row, file, quarantine>> /\ rec'.pc = "rest"
        /\ \A w \in Writers : req'[w].pc = "idle"
        /\ doubt' = (doubt \/ \E w \in Writers : Lost(w))
    BY <1>9, <1>t DEF ServiceRestarts
  <2>2. MirrorKeeps' /\ SyncedHasFile' /\ NoFalseOrphan'
    BY <2>1 DEF MirrorKeeps, SyncedHasFile, NoFalseOrphan
  <2>3. ASSUME ~doubt' PROVE file \in {NoFile, row.body}
    <3>1. ~doubt /\ (NoneWrites \/ file = NoFile)
      BY <2>1, <2>3 DEF Lost, NoneWrites
    <3>2. QED
      BY <3>1 DEF ContentKeeps
  <2>4. \A w \in Writers : ~AtFile(w)' /\ req'[w].pc # "write"
    BY <2>1 DEF AtFile
  <2>5. ContentKeeps'
    BY <2>1, <2>3, <2>4 DEF ContentKeeps
  <2>6. QED
    BY <2>2, <2>5
<1>10. QED
  BY <1>1, <1>2, <1>3, <1>4, <1>5, <1>6, <1>7, <1>8, <1>9 DEF Reconcile
-----------------------------------------------------------------------------
(* The theorems.                                                            *)

\* EntriesInv is inductive.
LEMMA EntriesInductive ==
    /\ EntriesInit => EntriesInv
    /\ EntriesInv /\ [EntriesNext]_entriesVars => EntriesInv'
<1>1. ASSUME EntriesInit PROVE EntriesInv
  <2>1. EntriesTypeOK
    <3>1. [status |-> "none", sync |-> "pending", body |-> {}, att |-> 0] \in Entries
      BY BodyTypes, EntriesAssumption DEF Entries
    <3>3. [writes |-> 0, faults |-> 0] \in EntriesBounds
      BY EntriesAssumption DEF EntriesBounds
    <3>4. QED
      BY <1>1, <3>1, <3>3, NoEntryTypes DEF EntriesInit, EntriesTypeOK
  <2>2. MirrorKeeps /\ ContentKeeps /\ SyncedHasFile /\ NoFalseOrphan
    BY <1>1 DEF EntriesInit, Idle, AtRest, AtFile, MirrorKeeps, ContentKeeps, SyncedHasFile, NoFalseOrphan
  <2>3. QED
    BY <2>1, <2>2 DEF EntriesInv
<1>2. ASSUME EntriesInv, [EntriesNext]_entriesVars PROVE EntriesInv'
  <2>1. EntriesTypeOK'
    BY <1>2, EntriesTypes DEF EntriesInv
  <2>2. CASE UNCHANGED entriesVars
    <3>1. NoneWrites' = NoneWrites /\ \A w \in Writers : AtFile(w)' = AtFile(w)
      BY <2>2 DEF entriesVars, NoneWrites, AtFile
    <3>2. QED
      BY <1>2, <2>1, <2>2, <3>1 DEF entriesVars, EntriesInv, MirrorKeeps, ContentKeeps, SyncedHasFile, NoFalseOrphan
  <2>3. CASE EntriesNext
    BY <1>2, <2>1, <2>3, WriterStep, ReconcilerStep DEF EntriesNext, EntriesInv
  <2>4. QED
    BY <1>2, <2>2, <2>3
<1>3. QED
  BY <1>1, <1>2

\* The row, the file and the requests keep to their types; a row's attempts stay
\* within the reconciler's limit.
THEOREM EntriesTypeCorrect == EntriesSpec => []EntriesTypeOK
<1>1. EntriesInv => EntriesTypeOK
  BY DEF EntriesInv
<1>2. QED
  BY EntriesInductive, <1>1, PTL DEF EntriesSpec

\* An entry that says "synced" has a file, and of a body that met nobody on its
\* way there and was not kept out by a failed write, the file is that body; the
\* reconciler quarantines no file of an entry.
THEOREM FilesMirrorEntries == EntriesSpec => []MirrorIsTrue
<1>1. EntriesInv => MirrorIsTrue
  <2>1. ASSUME EntriesInv, row.sync = "synced", ~doubt PROVE file = row.body
    BY <2>1 DEF EntriesInv, ContentKeeps, NoneWrites, SyncedHasFile
  <2>2. QED
    BY <2>1 DEF EntriesInv, MirrorIsTrue, SyncedIsCurrent
<1>2. QED
  BY EntriesInductive, <1>1, PTL DEF EntriesSpec
=============================================================================
