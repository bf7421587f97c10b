-------------------------- MODULE SharedKnowledge ---------------------------
(***************************************************************************)
(* A collection of shared knowledge: its sources are taken in (ingest.py),  *)
(* their missing vectors filled in later (backfill_embeddings), searched    *)
(* (hybrid_search_chunks) and drawn (knowledge_graph) by its owner and by   *)
(* somebody else, while it is hidden, shown and deleted.  The API in front  *)
(* (routes/shared-knowledge.ts) looks the collection up before it calls.    *)
(*                                                                         *)
(* A statement of the database is a step, and an await a step boundary.  A  *)
(* document has two chunks; texts, scores and vectors are left out.         *)
(***************************************************************************)
EXTENDS Naturals, FiniteSets

CONSTANTS
    N,            \* sources
    Limit,        \* of a page of the graph
    MaxRedirects, \* web_page_fetcher.py: 3
    MaxReads,     \* bound: searches and backfills
    MaxFaults     \* bound: failed statements and restarts

ASSUME SharedAssumption ==
    /\ N \in Nat \ {0} /\ Limit \in Nat \ {0} /\ MaxRedirects \in Nat
    /\ MaxReads \in Nat /\ MaxFaults \in Nat

VARIABLES col, src, ing, bf, find, hits, graph, lost, used
vars == <<col, src, ing, bf, find, hits, graph, lost, used>>
-----------------------------------------------------------------------------
Sources == 1..N
Chunks == {1, 2}
Users == {"owner", "other"}
NoSource == [st |-> "none", job |-> "none", doc |-> "none", rows |-> {}, vec |-> {}]
Gone == [NoSource EXCEPT !.st = "gone"]
NoIngest == [pc |-> "idle", s |-> 1, n |-> 0]
NoFill == [pc |-> "idle", s |-> 1, todo |-> {}, miss |-> {}, count |-> "none"]
NoFind == [pc |-> "idle", who |-> "owner", found |-> {}, seen |-> FALSE]
NoGraph == [pc |-> "idle", who |-> "owner", srcs |-> {}, hits |-> {}, total |-> 0]

Rows == [st: {"none", "pending", "active", "error", "gone"},
         job: {"none", "pending", "running", "completed", "failed"},
         doc: {"none", "pending", "partial", "embedded"},       \* embedding_status
         rows: SUBSET Chunks, vec: SUBSET Chunks]
Ingests == [pc: {"idle", "source", "job", "run", "fetch", "doc", "embed", "with", "without",
                 "status", "completed", "active", "failed", "error"},
            s: Sources,
            n: 0..MaxRedirects \cup 0..2]                       \* redirects, then vectors
Fills == [pc: {"idle", "next", "embed", "count", "status"}, s: Sources, todo: SUBSET Sources,
          miss: SUBSET Chunks, count: {"none", "pending", "partial", "embedded"}]
Finds == [pc: {"idle", "fts", "vec", "record"}, who: Users, found: SUBSET Sources,
          seen: BOOLEAN]                    \* history: the requester could see the collection
Graphs == [pc: {"idle", "srcs", "hits", "total", "drawn"}, who: Users,
           srcs: SUBSET Sources, hits: SUBSET Sources, total: 0..N]
Bounds == [reads: 0..MaxReads, faults: 0..MaxFaults]

TypeOK ==
    /\ col \in {"none", "private", "shared", "gone"}
    /\ src \in [Sources -> Rows]
    /\ ing \in Ingests /\ bf \in Fills /\ find \in Finds /\ graph \in Graphs
    /\ hits \in SUBSET Sources
    /\ lost \in SUBSET Sources              \* history: a fault hit what only it could record
    /\ used \in Bounds

Init ==
    /\ col = "none" /\ src = [s \in Sources |-> NoSource]
    /\ ing = NoIngest /\ bf = NoFill /\ find = NoFind /\ hits = {} /\ graph = NoGraph
    /\ lost = {} /\ used = [reads |-> 0, faults |-> 0]

Exists == col \in {"private", "shared"}
Sees(u) == Exists /\ (u = "owner" \/ col = "shared")
Fault == used.faults < MaxFaults /\ used' = [used EXCEPT !.faults = @ + 1]
Read == Exists /\ used.reads < MaxReads /\ used' = [used EXCEPT !.reads = @ + 1]
\* of a graph that met a write nothing is claimed; a search or a backfill writes
\* as it ends, so a graph is not followed beside one either (bound)
Written == graph' = NoGraph
-----------------------------------------------------------------------------
(* Collections and sources come and go.                                     *)

\* history: a search that is under way could see it
Shown == find' = [find EXCEPT !.seen = find.pc # "idle" /\ (@ \/ find.who = "owner" \/ col' = "shared")]
CreateCollection ==
    /\ col = "none" /\ col' \in {"private", "shared"}
    /\ Shown /\ Written /\ UNCHANGED <<src, ing, bf, hits, lost, used>>
UpdateCollection ==
    /\ Exists /\ col' \in {"private", "shared"} \ {col}
    /\ Shown /\ Written /\ UNCHANGED <<src, ing, bf, hits, lost, used>>
\* ON DELETE CASCADE: sources, jobs, documents and chunks
DeleteCollection ==
    /\ Exists /\ col' = "gone"
    /\ src' = [s \in Sources |-> IF src[s].st = "none" THEN src[s] ELSE Gone]
    /\ Written /\ UNCHANGED <<ing, bf, find, hits, lost, used>>
DeleteSource(s) ==
    /\ src[s].st \in {"pending", "active", "error"}
    /\ src' = [src EXCEPT ![s] = Gone]
    /\ Written /\ UNCHANGED <<col, ing, bf, find, hits, lost, used>>
-----------------------------------------------------------------------------
(* ingest_source, one at a time.                                            *)

Own == src[ing.s]
Alive == Own.st # "gone"
Others == UNCHANGED <<col, bf, find, hits>>
To(pc) == ing' = [ing EXCEPT !.pc = pc]
\* an UPDATE of a row that is gone finds none, and an INSERT below it fails
Put(r) == src' = [src EXCEPT ![ing.s] = IF Alive THEN r ELSE @] /\ Written
\* inside the try
Throws == To("failed") /\ UNCHANGED <<src, graph, lost>>

\* POST /sources: the API looks the collection up
Begin(s) ==
    /\ ing.pc = "idle" /\ Exists
    /\ src[s].st = "none" /\ \A r \in 1..(s - 1) : src[r].st # "none"
    /\ ing' = [NoIngest EXCEPT !.pc = "source", !.s = s]
    /\ Others /\ UNCHANGED <<src, graph, lost, used>>
CreateSource ==
    /\ ing.pc = "source"
    /\ IF Exists THEN src' = [src EXCEPT ![ing.s].st = "pending"] /\ Written /\ To("job")
       ELSE ing' = NoIngest /\ UNCHANGED <<src, graph>>
    /\ Others /\ UNCHANGED <<lost, used>>
\* before the try: a failure leaves a source and nothing to say why
CreateJob ==
    /\ ing.pc = "job"
    /\ \/ Alive /\ Put([Own EXCEPT !.job = "pending"]) /\ To("run") /\ UNCHANGED <<lost, used>>
       \/ ~Alive /\ ing' = NoIngest /\ UNCHANGED <<src, graph, lost, used>>
       \/ Alive /\ Fault /\ ing' = NoIngest /\ lost' = lost \cup {ing.s} /\ UNCHANGED <<src, graph>>
    /\ Others
RunJob ==
    /\ ing.pc = "run"
    /\ \/ Put([Own EXCEPT !.job = "running"]) /\ To("fetch") /\ UNCHANGED <<lost, used>>
       \/ Fault /\ Throws
    /\ Others
\* fetch_and_extract for a page, then the chunks; of too much text, or of none,
\* nothing is stored
Follows(n) == n < MaxRedirects
\* a scheme, a host or an address that is not allowed, at any hop and again when
\* the connection is made
HopRefused == Throws
Fetch ==
    /\ ing.pc = "fetch"
    /\ \/ ing' = [ing EXCEPT !.pc = "doc", !.n = 0] /\ UNCHANGED <<src, graph, lost>>
       \/ Follows(ing.n) /\ ing' = [ing EXCEPT !.n = @ + 1] /\ UNCHANGED <<src, graph, lost>>
       \/ HopRefused
    /\ Others /\ UNCHANGED used
CreateDocument ==
    /\ ing.pc = "doc"
    /\ \/ Alive /\ Put([Own EXCEPT !.doc = "pending"]) /\ To("embed") /\ UNCHANGED <<lost, used>>
       \/ ~Alive /\ Throws /\ UNCHANGED used
       \/ Fault /\ Throws
    /\ Others
\* generate_embeddings: of the router or of LiteLLM, for all chunks, some or none
Embed ==
    /\ ing.pc = "embed"
    /\ \E n \in 0..2 : ing' = [ing EXCEPT !.n = n, !.pc = IF n > 0 THEN "with" ELSE "without"]
    /\ Others /\ UNCHANGED <<src, graph, lost, used>>
\* create_chunks: those with a vector, then the others, in two statements
Vectors == {c \in Chunks : c <= ing.n}
InsertWith ==
    /\ ing.pc = "with"
    /\ \/ /\ Alive /\ Put([Own EXCEPT !.rows = Vectors, !.vec = Vectors])
          /\ To(IF Vectors = Chunks THEN "status" ELSE "without") /\ UNCHANGED <<lost, used>>
       \/ ~Alive /\ Throws /\ UNCHANGED used
       \/ Fault /\ Throws
    /\ Others
\* Mut: what cannot be stored is left out
MutLeaveOut == To("status") /\ UNCHANGED <<src, graph, lost>>
SecondFails == Throws
InsertWithout ==
    /\ ing.pc = "without"
    /\ \/ Alive /\ Put([Own EXCEPT !.rows = Chunks]) /\ To("status") /\ UNCHANGED <<lost, used>>
       \/ ~Alive /\ Throws /\ UNCHANGED used
       \/ Fault /\ SecondFails
    /\ Others
\* embedding_status_for
\* Mut: some count as all
MutSome(n) == IF n = 0 THEN "pending" ELSE "embedded"
StatusFor(n) == CASE n = 2 -> "embedded" [] n = 0 -> "pending" [] OTHER -> "partial"
SetStatus ==
    /\ ing.pc = "status"
    /\ \/ Put([Own EXCEPT !.doc = StatusFor(ing.n)]) /\ To("completed") /\ UNCHANGED <<lost, used>>
       \/ Fault /\ Throws
    /\ Others
CompleteJob ==
    /\ ing.pc = "completed"
    /\ \/ Put([Own EXCEPT !.job = "completed"]) /\ To("active") /\ UNCHANGED <<lost, used>>
       \/ Fault /\ Throws
    /\ Others
Activate ==
    /\ ing.pc = "active"
    /\ \/ Put([Own EXCEPT !.st = "active"]) /\ ing' = NoIngest /\ UNCHANGED <<lost, used>>
       \/ Fault /\ Throws
    /\ Others
\* except: the job, then the source, each in a try of its own
\* Mut: one try
MutOneTry == ing' = NoIngest
NextTry == To("error")
FailJob ==
    /\ ing.pc = "failed"
    /\ \/ Put([Own EXCEPT !.job = "failed"]) /\ To("error") /\ UNCHANGED used
       \/ Fault /\ NextTry /\ UNCHANGED <<src, graph>>
    /\ Others /\ UNCHANGED lost
FailSource ==
    /\ ing.pc = "error" /\ ing' = NoIngest
    /\ \/ Put([Own EXCEPT !.st = "error"]) /\ UNCHANGED <<lost, used>>
       \/ Fault /\ lost' = lost \cup {ing.s} /\ UNCHANGED <<src, graph>>
    /\ Others
Ingest == CreateSource \/ CreateJob \/ RunJob \/ Fetch \/ CreateDocument \/ Embed \/ InsertWith
          \/ InsertWithout \/ SetStatus \/ CompleteJob \/ Activate \/ FailJob \/ FailSource
-----------------------------------------------------------------------------
(* backfill_embeddings.                                                     *)

Missing(s) == src[s].rows \ src[s].vec
Rest == UNCHANGED <<col, ing, find, hits, lost>>
BackfillBegin ==
    /\ bf.pc = "idle" /\ Read
    /\ bf' = [NoFill EXCEPT !.pc = "next", !.todo = {s \in Sources : Missing(s) # {}}]
    /\ Written /\ Rest /\ UNCHANGED src
BackfillNext ==
    /\ bf.pc = "next"
    /\ bf' \in IF bf.todo = {} THEN {NoFill}
               ELSE {[bf EXCEPT !.todo = @ \ {s}, !.s = s, !.miss = Missing(s),
                                !.pc = IF Missing(s) = {} THEN "next" ELSE "embed"] : s \in bf.todo}
    /\ Rest /\ UNCHANGED <<src, graph, used>>
\* the first vectors go to the first chunks, those that are still there
BackfillEmbed ==
    /\ bf.pc = "embed"
    /\ \E got \in SUBSET bf.miss :
          /\ \A c \in got, d \in bf.miss : d < c => d \in got
          /\ src' = [src EXCEPT ![bf.s].vec = @ \cup (got \cap src[bf.s].rows)]
          /\ bf' = [bf EXCEPT !.pc = "count", !.miss = {}]
    /\ Written /\ Rest /\ UNCHANGED used
\* recompute_document_embedding_status: the chunks are counted, then the status
\* is set; of a document that is gone, neither matters
BackfillCount ==
    /\ bf.pc = "count"
    /\ bf' = [bf EXCEPT !.pc = "status", !.count = IF src[bf.s].rows = {} THEN "embedded"
                                                  ELSE StatusFor(Cardinality(src[bf.s].vec))]
    /\ Rest /\ UNCHANGED <<src, graph, used>>
BackfillStatus ==
    /\ bf.pc = "status"
    /\ src' = [src EXCEPT ![bf.s].doc = IF @ = "none" THEN @ ELSE bf.count]
    /\ bf' = [bf EXCEPT !.pc = "next", !.count = "none"]
    /\ Written /\ Rest /\ UNCHANGED used
-----------------------------------------------------------------------------
(* A search: words, then vectors, then the record of it.                    *)

Active == {s \in Sources : src[s].st = "active"}
\* Mut: the scope is the first query's
MutUnscoped(u) == {s \in Active : src[s].vec # {}}
NearTo(u) == IF Sees(u) THEN {s \in Active : src[s].vec # {}} ELSE {}
With(u) == IF Sees(u) THEN Active ELSE {}
FindBegin(u) ==
    /\ find.pc = "idle" /\ Read
    /\ find' = [NoFind EXCEPT !.pc = "fts", !.who = u, !.seen = Sees(u)]
    /\ Written /\ UNCHANGED <<col, src, ing, bf, hits, lost>>
FindWords ==
    /\ find.pc = "fts"
    /\ \E f \in {{}, With(find.who)}, pc \in {"vec", "record"} :      \* no vector for the query
          find' = [find EXCEPT !.pc = pc, !.found = f]
    /\ UNCHANGED <<col, src, ing, bf, hits, graph, lost, used>>
FindNear ==
    /\ find.pc = "vec"
    /\ \E f \in {{}, NearTo(find.who)} : find' = [find EXCEPT !.pc = "record", !.found = @ \cup f]
    /\ UNCHANGED <<col, src, ing, bf, hits, graph, lost, used>>
FindRecord ==
    /\ find.pc = "record"
    /\ hits' = hits \cup find.found /\ find' = NoFind
    /\ Written /\ UNCHANGED <<col, src, ing, bf, lost, used>>
-----------------------------------------------------------------------------
(* knowledge_graph: its queries are in no transaction.                      *)

Page(S) == IF Cardinality(S) <= Limit THEN {S} ELSE {p \in SUBSET S : Cardinality(p) = Limit}
Total == IF Sees(graph.who) THEN Cardinality(Active) ELSE 0
GraphBegin(u) ==
    /\ graph.pc = "idle" /\ Exists /\ find.pc = "idle" /\ bf.pc = "idle"
    /\ graph' = [NoGraph EXCEPT !.pc = "srcs", !.who = u]
    /\ UNCHANGED <<col, src, ing, bf, find, hits, lost, used>>
GraphRead ==
    /\ \/ /\ graph.pc = "srcs"
          /\ \E p \in Page(With(graph.who)) : graph' = [graph EXCEPT !.pc = "hits", !.srcs = p]
       \/ /\ graph.pc = "hits"
          /\ \E p \in Page(IF Sees(graph.who) THEN {s \in hits : src[s].rows # {}} ELSE {}) :
                graph' = [graph EXCEPT !.pc = "total", !.hits = p]
       \/ graph.pc = "total" /\ graph' = [graph EXCEPT !.pc = "drawn", !.total = Total]
    /\ UNCHANGED <<col, src, ing, bf, find, hits, lost, used>>
Truncated == Cardinality(graph.srcs) < graph.total
-----------------------------------------------------------------------------
\* the service stops between two statements: nothing takes an ingest up again
Restart ==
    /\ Fault
    /\ ing' = NoIngest /\ bf' = NoFill /\ find' = NoFind /\ graph' = NoGraph
    /\ lost' = IF ing.pc \in {"idle", "source"} THEN lost ELSE lost \cup {ing.s}
    /\ UNCHANGED <<col, src, hits>>
Next ==
    \/ CreateCollection \/ UpdateCollection \/ DeleteCollection
    \/ \E s \in Sources : DeleteSource(s) \/ Begin(s)
    \/ Ingest
    \/ BackfillBegin \/ BackfillNext \/ BackfillEmbed \/ BackfillCount \/ BackfillStatus
    \/ \E u \in Users : FindBegin(u) \/ GraphBegin(u)
    \/ FindWords \/ FindNear \/ FindRecord \/ GraphRead
    \/ Restart

\* An ingest is a request that runs to its end.
Spec == Init /\ [][Next]_vars /\ WF_vars(Ingest)
-----------------------------------------------------------------------------
(* Properties.                                                              *)

\* ingest.py: a source that can be searched is whole: every chunk is stored and
\* its job says "completed".
ActiveIsWhole == \A s \in Active : src[s].rows = Chunks /\ src[s].job = "completed"

\* shared_store.py: a document says "embedded" only if every chunk has its
\* vector, also when a backfill runs during its ingest.
EmbeddedIsTrue == \A s \in Sources : src[s].doc = "embedded" => src[s].vec = Chunks

\* ingest.py: every ingest ends with the source active, in error or deleted,
\* whatever statement failed, if it was not the one that says so.
IngestIsSettled == \A s \in Sources : (src[s].st = "pending") ~> (src[s].st # "pending" \/ s \in lost)

\* shared_store.py: a search finds nothing of a collection that its requester
\* could not see while it ran, neither by words nor by vectors.
FoundIsVisible == find.found # {} => find.seen

\* knowledge_graph: unless something was written meanwhile, a graph that is not
\* called truncated shows every source, and a hit on it is no dangling edge.
GraphIsWhole ==
    (graph.pc = "drawn" /\ ~Truncated) =>
        graph.srcs = With(graph.who) /\ graph.hits \subseteq graph.srcs

\* shared_store.py: readers who take several queries are told no untruth when
\* others write between them: a search shows nothing hidden and a graph hides
\* nothing (the two parts above).
ReadsAreTrue == FoundIsVisible /\ GraphIsWhole
=============================================================================
