--------------------------- MODULE KnowledgeGraph ---------------------------
(***************************************************************************)
(* The graph of one knowledge base in FalkorDB, from the Markdown of a     *)
(* document to the passages a search finds: the last three handlers of the *)
(* saga (or the worker that consolidates), the removal of documents and of *)
(* the whole base, and the blue/green swap of a file's old version by its  *)
(* new one.                                                                *)
(*                                                                         *)
(* A query of FalkorDB is atomic, a use case is not: every query, file and *)
(* append is a step of its own.  A document has one ingestion at a time;   *)
(* DocumentStream has those that overlap, GraphJobs the parents in flight. *)
(***************************************************************************)
EXTENDS Chunker

CONSTANTS
    Texts,         \* what the new version may say: sequences of blocks
    OldText,       \* what the old version says
    Extracted(_),  \* the entities that the model finds in the i-th parent
    Modes,         \* how parents are extracted: TRUE by workers, FALSE by the saga
    MaxIncidents   \* bound on what happens besides the ingestion of the new version

ASSUME ModesAssumption == Modes \subseteq BOOLEAN
ASSUME IncidentsAssumption == MaxIncidents \in Nat
ASSUME TextsAssumption == \A t \in Texts \cup {OldText} : IsText(t)

Versions == {"old", "new"}
NoChunks == [parents |-> <<>>, children |-> <<>>]
EmptyGraph == [documents |-> {}, parents |-> {}, children |-> {}, next |-> {},
               entities |-> {}, relations |-> {}, mentions |-> {}]

VARIABLES
    text,      \* the Markdown of each version
    files,     \* what the storage has of each version: "markdown", "chunks",
               \* "checkpoints" of its parents, "subgraph"
    chunks,    \* the chunks file of each version, as last written
    streaming, \* a stream queue is configured
    graph,     \* nodes and edges; a parent is <<v, i>>, a child <<v, i, j>>
    status,    \* of each DocumentAggregate
    current,   \* coroutines whose loaded aggregate has the latest version; an ingestion
               \* is named by its document
    ingest,    \* per version: where the ingestion is, and its variables
    removal,   \* per caller of DeleteDocumentUseCase: where it is, and what it deletes
    base,      \* the knowledge base: "active", "graph", "rows", "deleted"
    incidents, \* what has happened, each at most once: "reprocess" of the old version,
               \* "delete" by a user, "purge" of the base, "fault" of FalkorDB
    removed,   \* versions whose subgraph was removed and not stored again
    left       \* versions whose removal FalkorDB refused, or that were stored again after it

storage == <<text, files, chunks, streaming>>
history == <<removed, left>>
vars == <<storage, graph, status, current, ingest, removal, base, incidents, history>>

Callers == {"user", "swap"}
Idle == [at |-> "idle", job |-> "none", parent |-> 0, found |-> TRUE, then |-> "idle"]

Incident(kind) ==
    /\ kind \notin incidents /\ Cardinality(incidents) < MaxIncidents
    /\ incidents' = incidents \cup {kind}
NoRemoval == [at |-> "idle", version |-> "old"]
-----------------------------------------------------------------------------
(* The aggregates. *)

Holders(v) == {v} \cup {c \in Callers : removal[c].version = v}

Load(h) == current' = current \cup {h}
Outdated(v) == current' = current \ Holders(v)

\* save: nothing is recorded on a deleted document, everybody else's copy is outdated by
\* what is.  Refused to a holder with an outdated copy.
Record(v, s) ==
    IF status[v] = "DELETED" THEN UNCHANGED <<status, current>>
    ELSE status' = [status EXCEPT ![v] = s] /\ Outdated(v)

At(v, place) == ingest[v].at = place
Goto(v, place) == ingest' = [ingest EXCEPT ![v].at = place]
End(v) == ingest' = [ingest EXCEPT ![v] = Idle]

\* _record_failure_safely, on a copy loaded anew.
Fail(v) == Record(v, "FAILED") /\ End(v)
-----------------------------------------------------------------------------
(* handle_document_parsed. *)

\* The document is loaded, its Markdown read and chunked, the chunks file written.
Chunk(v) ==
    /\ At(v, "parsed")
    /\ IF "markdown" \in files[v]
         THEN /\ Load(v)
              /\ chunks' = [chunks EXCEPT ![v] = Chunks(text[v])]
              /\ files' = [files EXCEPT ![v] = @ \cup {"chunks"}]
              /\ Goto(v, "chunking")
              /\ UNCHANGED status
         ELSE Fail(v) /\ UNCHANGED <<files, chunks>>
    /\ UNCHANGED <<text, streaming, graph, removal, base, incidents, history>>

MarkChunked(v) ==
    /\ At(v, "chunking")
    /\ IF v \notin current THEN Fail(v)
       ELSE Record(v, "CHUNKED")
            /\ IF status[v] = "DELETED" THEN End(v) ELSE Goto(v, "chunked")
    /\ UNCHANGED <<storage, graph, removal, base, incidents, history>>
-----------------------------------------------------------------------------
(* handle_document_chunked. *)

\* Without its knowledge base the handler raises outside its try block.
LoadChunks(v) ==
    /\ At(v, "chunked")
    /\ IF base = "deleted" THEN End(v) /\ UNCHANGED <<status, current, chunks>>
       ELSE IF "chunks" \in files[v]
         THEN Load(v) /\ Goto(v, "document") /\ UNCHANGED <<status, chunks>>
       ELSE IF "markdown" \in files[v]
         THEN /\ Load(v) /\ Goto(v, "document")
              /\ chunks' = [chunks EXCEPT ![v] = Chunks(text[v])]
              /\ UNCHANGED status
       ELSE Fail(v) /\ UNCHANGED chunks
    /\ UNCHANGED <<text, files, streaming, graph, removal, base, incidents, history>>

ParentsOf(v) == {<<v, i>> : i \in DOMAIN chunks[v].parents}
Numbered(v, i) == {<<v, i, j>> : j \in DOMAIN chunks[v].children[i]}
ChildrenIn(v) == UNION {Numbered(v, i) : i \in DOMAIN chunks[v].parents}
Successions(v) == {s \in ParentsOf(v) \X ParentsOf(v) : s[2][2] = s[1][2] + 1}

\* store_structural_document: the four queries one after the other.
StoreDocument(v) ==
    /\ At(v, "document")
    /\ graph' = [graph EXCEPT !.documents = @ \cup {v}]
    /\ Goto(v, "parents")
    /\ left' = IF v \in removed THEN left \cup {v} ELSE left
    /\ removed' = removed \ {v}
    /\ UNCHANGED <<storage, status, current, removal, base, incidents>>

\* Mutant: the parents are merged without the MATCH of their document.
Attachable_Always(v) == TRUE
\* MATCH (d:Document {id: $doc_id}): without a document no rows, and no parents.
Attachable(v) == v \in graph.documents

StoreParents(v) ==
    /\ At(v, "parents")
    /\ graph' = IF Attachable(v)
                  THEN [graph EXCEPT !.parents = @ \cup ParentsOf(v)] ELSE graph
    /\ Goto(v, "children")
    /\ UNCHANGED <<storage, status, current, removal, base, incidents, history>>

StoreChildren(v) ==
    /\ At(v, "children")
    /\ graph' = [graph EXCEPT !.children = @ \cup
                    {c \in ChildrenIn(v) : <<c[1], c[2]>> \in graph.parents}]
    /\ Goto(v, "next")
    /\ UNCHANGED <<storage, status, current, removal, base, incidents, history>>

StoreNext(v) ==
    /\ At(v, "next")
    /\ graph' = [graph EXCEPT !.next = @ \cup
                    {s \in Successions(v) : {s[1], s[2]} \subseteq graph.parents}]
    /\ Goto(v, "extract")
    /\ UNCHANGED <<storage, status, current, removal, base, incidents, history>>

\* The parents are extracted into their checkpoints, by the workers up to the barrier or
\* by gather.  The saga goes on with what it has in memory, one parent after the other.
\* Without a parent no task is published, and no worker ever consolidates.
Extract(v) ==
    LET parents == chunks[v].parents IN
    /\ At(v, "extract")
    /\ files' = IF parents = <<>> THEN files
                ELSE [files EXCEPT ![v] = @ \cup {"checkpoints"}]
    /\ ingest' = [ingest EXCEPT ![v] =
          IF parents = <<>> THEN IF streaming THEN Idle ELSE [@ EXCEPT !.at = "extracting"]
          ELSE IF streaming THEN [@ EXCEPT !.at = "gather", !.job = "merged"]
          ELSE [@ EXCEPT !.at = "nodes", !.job = "parent", !.parent = 1]]
    /\ UNCHANGED <<text, chunks, streaming, graph, status, current, removal, base, incidents,
                   history>>

\* The worker that consolidates reads the checkpoints of all parents; a parent without
\* one is skipped.
Gather(v) ==
    /\ At(v, "gather")
    /\ ingest' = [ingest EXCEPT ![v].at = "nodes", ![v].found = "checkpoints" \in files[v]]
    /\ UNCHANGED <<storage, graph, status, current, removal, base, incidents, history>>
-----------------------------------------------------------------------------
(* store_graph: the nodes, then the edges between nodes that are there. *)

Graph(entities) == [entities |-> entities,
                    relations |-> {r \in entities \X entities : r[1] # r[2]}]
GraphOf(v) ==
    LET each == {Graph(Extracted(i)) : i \in DOMAIN chunks[v].parents} IN
    [entities |-> UNION {g.entities : g \in each}, relations |-> UNION {g.relations : g \in each}]
Stored(v) ==
    IF ingest[v].job = "parent" THEN Graph(Extracted(ingest[v].parent))
    ELSE IF ingest[v].found THEN GraphOf(v) ELSE Graph({})

StoreNodes(v) ==
    /\ At(v, "nodes")
    /\ graph' = [graph EXCEPT !.entities = @ \cup Stored(v).entities]
    /\ Goto(v, "edges")
    /\ UNCHANGED <<storage, status, current, removal, base, incidents, history>>

\* Where each job goes on.
StoreEdges(v) ==
    /\ At(v, "edges")
    /\ graph' = [graph EXCEPT !.relations = @ \cup
                    {r \in Stored(v).relations : {r[1], r[2]} \subseteq graph.entities}]
    /\ Goto(v, CASE ingest[v].job = "parent" -> "mentions"
                 [] ingest[v].job = "merged" -> "subgraph"
                 [] ingest[v].job = "combined" -> "indexing")
    /\ UNCHANGED <<storage, status, current, removal, base, incidents, history>>

\* store_parent_mentions, after store_graph for the same parent.  Only the saga calls it.
StoreMentions(v) ==
    LET p == <<v, ingest[v].parent>> IN
    /\ At(v, "mentions")
    /\ graph' = IF p \in graph.parents
                  THEN [graph EXCEPT !.mentions = @ \cup
                           {<<p, e>> : e \in Extracted(p[2]) \cap graph.entities}]
                  ELSE graph
    /\ ingest' = [ingest EXCEPT ![v] =
          IF p[2] = Len(chunks[v].parents) THEN [@ EXCEPT !.at = "extracting"]
          ELSE [@ EXCEPT !.at = "nodes", !.parent = p[2] + 1]]
    /\ UNCHANGED <<storage, status, current, removal, base, incidents, history>>

\* The end of handle_document_chunked without a stream queue: mark_graph_extracted on the
\* copy loaded before everything else.
MarkExtracted(v) ==
    /\ At(v, "extracting")
    /\ IF v \notin current THEN Fail(v)
       ELSE Record(v, "GRAPH_EXTRACTED")
            /\ IF status[v] = "DELETED" THEN End(v) ELSE Goto(v, "extracted")
    /\ UNCHANGED <<storage, graph, removal, base, incidents, history>>

\* handle_graph_extracted: the graph comes with the event or from the subgraph file, and
\* is empty without one.
LoadGraph(v) ==
    /\ At(v, "extracted")
    /\ Load(v)
    /\ ingest' = [ingest EXCEPT ![v].job = "combined",
          ![v].at = IF streaming /\ "subgraph" \notin files[v] THEN "indexing" ELSE "nodes"]
    /\ UNCHANGED <<storage, graph, status, removal, base, incidents, history>>
-----------------------------------------------------------------------------
(* DocumentKnowledgeIndexed, and the swap it causes before its publisher goes on. *)

\* Mutant: the handler deletes the document of the event.
Superseded_Itself(v) == {v}
\* metadata.replaces_doc_id of the event.
Superseded(v) == IF v = "new" THEN {"old"} ELSE {}

Published(v, then) ==
    /\ ingest' = [ingest EXCEPT ![v].at = IF Superseded(v) = {} THEN then ELSE "swap",
                                ![v].then = then]
    /\ removal' = IF Superseded(v) = {} THEN removal
                  ELSE [removal EXCEPT !["swap"] =
                           [at |-> "begin", version |-> CHOOSE u \in Superseded(v) : TRUE]]

\* handle_graph_extracted; it ends with the event.
MarkIndexed(v) ==
    /\ At(v, "indexing")
    /\ IF v \notin current THEN Fail(v) /\ UNCHANGED removal
       ELSE Record(v, "INDEXED")
            /\ IF status[v] = "DELETED" THEN End(v) /\ UNCHANGED removal
               ELSE Published(v, "idle")
    /\ UNCHANGED <<storage, graph, base, incidents, history>>

SaveSubgraph(v) ==
    /\ At(v, "subgraph")
    /\ files' = [files EXCEPT ![v] = @ \cup {"subgraph"}]
    /\ Goto(v, "consolidated")
    /\ UNCHANGED <<text, chunks, streaming, graph, status, current, removal, base, incidents,
                   history>>

\* The worker loads the aggregate just before it marks it extracted and indexed.
MarkConsolidated(v) ==
    /\ At(v, "consolidated")
    /\ Record(v, "INDEXED")
    /\ IF status[v] = "DELETED" THEN Goto(v, "announce") /\ UNCHANGED removal
       ELSE Published(v, "announce")
    /\ UNCHANGED <<storage, graph, base, incidents, history>>

\* Then it publishes the event once more, also for a deleted document.  The handler that
\* GraphExtracted has started comes after it.
Announce(v) ==
    /\ At(v, "announce")
    /\ Published(v, IF status[v] = "DELETED" THEN "idle" ELSE "extracted")
    /\ UNCHANGED <<storage, graph, status, current, base, incidents, history>>

\* The publisher goes on; what the swap raises, it raises.  The handler of GraphExtracted
\* was started before.
SwapReturns(v) ==
    /\ At(v, "swap") /\ removal["swap"].at \in {"idle", "raised"}
    /\ removal' = [removal EXCEPT !["swap"] = NoRemoval]
    /\ IF removal["swap"].at = "idle"
         THEN /\ IF ingest[v].then = "idle" THEN End(v) ELSE Goto(v, ingest[v].then)
              /\ UNCHANGED <<status, current>>
         ELSE IF ingest[v].job = "combined" THEN Fail(v)
         ELSE /\ IF ingest[v].then = "idle" THEN End(v) ELSE Goto(v, "extracted")
              /\ UNCHANGED <<status, current>>
    /\ UNCHANGED <<storage, graph, base, incidents, history>>
-----------------------------------------------------------------------------
(* DeleteDocumentUseCase. *)

Leave(c) == removal' = [removal EXCEPT ![c] = NoRemoval]

UserDeletes(v) ==
    /\ removal["user"].at = "idle" /\ Incident("delete")
    /\ removal' = [removal EXCEPT !["user"] = [at |-> "begin", version |-> v]]
    /\ UNCHANGED <<storage, graph, status, current, ingest, base, history>>

\* The knowledge base must be there; the document is loaded and its raw file, processed
\* files and checkpoints are removed.
BeginRemoval(c) ==
    /\ removal[c].at = "begin"
    /\ IF base = "deleted" THEN Leave(c) /\ UNCHANGED <<current, files>>
       ELSE /\ Load(c) /\ removal' = [removal EXCEPT ![c].at = "graph"]
            /\ files' = [files EXCEPT ![removal[c].version] = @ \ {"checkpoints"}]
    /\ UNCHANGED <<text, chunks, streaming, graph, status, ingest, base, incidents, history>>

\* Mutant: the children of the parents are forgotten.
Subgraph_NoChildren(v) == {<<v>>} \cup {p \in graph.parents : p[1] = v}
\* MATCH (d:Document) with its parents and children.
Subgraph(v) ==
    IF v \notin graph.documents THEN {}
    ELSE {<<v>>} \cup {p \in graph.parents : p[1] = v}
                 \cup {c \in graph.children : c[1] = v /\ <<v, c[2]>> \in graph.parents}

\* Mutant: DELETE, which leaves the edges.
Detached_WithEdges(nodes) ==
    [graph EXCEPT !.documents = {d \in @ : <<d>> \notin nodes},
                  !.parents = @ \ nodes, !.children = @ \ nodes]
\* Mutant: the entities that the passages mention go with them.
Detached_WithEntities(nodes) ==
    LET gone == {m[2] : m \in {l \in graph.mentions : l[1] \in nodes}} IN
    [graph EXCEPT !.documents = {d \in @ : <<d>> \notin nodes},
                  !.parents = @ \ nodes, !.children = @ \ nodes,
                  !.next = {s \in @ : {s[1], s[2]} \cap nodes = {}},
                  !.entities = @ \ gone,
                  !.relations = {r \in @ : {r[1], r[2]} \cap gone = {}},
                  !.mentions = {m \in @ : m[1] \notin nodes /\ m[2] \notin gone}]
\* DETACH DELETE takes the edges of the nodes with them.
Detached(nodes) ==
    [graph EXCEPT !.documents = {d \in @ : <<d>> \notin nodes},
                  !.parents = @ \ nodes, !.children = @ \ nodes,
                  !.next = {s \in @ : {s[1], s[2]} \cap nodes = {}},
                  !.mentions = {m \in @ : m[1] \notin nodes}]

RemoveSubgraph(c) ==
    LET v == removal[c].version IN
    /\ removal[c].at = "graph"
    /\ removal' = [removal EXCEPT ![c].at = "aggregate"]
    /\ \/ /\ graph' = Detached(Subgraph(v))
          /\ removed' = removed \cup {v} /\ left' = left \ {v}
          /\ UNCHANGED incidents
       \* An exception is only logged.
       \/ /\ Incident("fault")
          /\ left' = left \cup {v}
          /\ UNCHANGED <<graph, removed>>
    /\ UNCHANGED <<storage, status, current, ingest, base>>

\* The aggregate last, and the row after it.  When the append is refused, the files and
\* the graph are gone all the same.
DeleteAggregate(c) ==
    LET v == removal[c].version IN
    /\ removal[c].at = "aggregate"
    /\ IF c \notin current
         THEN /\ removal' = [removal EXCEPT ![c] =
                    IF c = "swap" THEN [@ EXCEPT !.at = "raised"] ELSE NoRemoval]
              /\ UNCHANGED <<status, current>>
         ELSE Record(v, "DELETED") /\ Leave(c)
    /\ UNCHANGED <<storage, graph, ingest, base, incidents, history>>
-----------------------------------------------------------------------------
(* DeleteKnowledgeBaseUseCase. *)

BeginPurge ==
    /\ base = "active" /\ Incident("purge")
    /\ files' = [v \in Versions |-> {}]
    /\ base' = "graph"
    /\ UNCHANGED <<text, chunks, streaming, graph, status, current, ingest, removal, history>>

PurgeGraph ==
    /\ base = "graph" /\ base' = "rows"
    /\ graph' = EmptyGraph
    /\ UNCHANGED <<storage, status, current, ingest, removal, incidents, history>>

\* The event of the knowledge base and its rows; the documents' streams stay.
PurgeRows ==
    /\ base = "rows" /\ base' = "deleted"
    /\ UNCHANGED <<storage, graph, status, current, ingest, removal, incidents, history>>
-----------------------------------------------------------------------------
(* Other causes. *)

\* The old version is parsed again, to the same Markdown.
Reprocess ==
    /\ At("old", "idle") /\ status["old"] # "DELETED" /\ base # "deleted"
    /\ Incident("reprocess")
    /\ Record("old", "PARSED")
    /\ Goto("old", "parsed")
    /\ UNCHANGED <<storage, graph, removal, base, history>>

\* A query raises inside the try block of a handler, or of a task, which is delivered
\* again or not: the document is left as it is then.
Queries == {"document", "parents", "children", "next", "nodes", "edges", "mentions"}
QueryRaises(v) ==
    /\ ingest[v].at \in Queries /\ Incident("fault")
    /\ IF ingest[v].job = "merged" THEN End(v) /\ UNCHANGED <<status, current>> ELSE Fail(v)
    /\ UNCHANGED <<storage, graph, removal, base, history>>
-----------------------------------------------------------------------------
\* The old version is indexed, the new one has been parsed.
OldChunks == Chunks(OldText)
Init ==
    /\ text \in {[v \in Versions |-> IF v = "old" THEN OldText ELSE t] : t \in Texts}
    /\ streaming \in Modes
    /\ files = [v \in Versions |->
                  IF v = "old" THEN {"markdown", "chunks", "subgraph"} ELSE {"markdown"}]
    /\ chunks = [v \in Versions |-> IF v = "old" THEN OldChunks ELSE NoChunks]
    /\ graph = [documents |-> {"old"},
                parents |-> ParentsOf("old"),
                children |-> ChildrenIn("old"),
                next |-> Successions("old"),
                entities |-> GraphOf("old").entities,
                relations |-> GraphOf("old").relations,
                mentions |-> IF streaming THEN {}
                             ELSE {m \in ParentsOf("old") \X GraphOf("old").entities :
                                      m[2] \in Extracted(m[1][2])}]
    /\ status = [v \in Versions |-> IF v = "old" THEN "INDEXED" ELSE "PARSED"]
    /\ current = {}
    /\ ingest = [v \in Versions |-> IF v = "old" THEN Idle ELSE [Idle EXCEPT !.at = "parsed"]]
    /\ removal = [c \in Callers |-> NoRemoval]
    /\ base = "active"
    /\ incidents = {}
    /\ removed = {} /\ left = {}

Next ==
    \/ \E v \in Versions :
          \/ Chunk(v) \/ MarkChunked(v) \/ LoadChunks(v)
          \/ StoreDocument(v) \/ StoreParents(v) \/ StoreChildren(v) \/ StoreNext(v)
          \/ Extract(v) \/ Gather(v) \/ StoreNodes(v) \/ StoreEdges(v) \/ StoreMentions(v)
          \/ MarkExtracted(v) \/ LoadGraph(v) \/ MarkIndexed(v)
          \/ SaveSubgraph(v) \/ MarkConsolidated(v) \/ Announce(v) \/ SwapReturns(v)
          \/ UserDeletes(v) \/ QueryRaises(v)
    \/ \E c \in Callers : BeginRemoval(c) \/ RemoveSubgraph(c) \/ DeleteAggregate(c)
    \/ BeginPurge \/ PurgeGraph \/ PurgeRows
    \/ Reprocess

Spec == Init /\ [][Next]_vars
-----------------------------------------------------------------------------
(* Properties. *)

Places == {"idle", "parsed", "chunking", "chunked", "document", "parents", "children",
           "next", "extract", "gather", "nodes", "edges", "mentions", "extracting",
           "extracted", "indexing", "subgraph", "consolidated", "announce", "swap"}
Entities == UNION {Extracted(i) : i \in UNION {DOMAIN chunks[v].parents : v \in Versions}}

TypeOK ==
    /\ DOMAIN text = Versions /\ DOMAIN chunks = Versions /\ streaming \in Modes
    /\ files \in [Versions -> SUBSET {"markdown", "chunks", "checkpoints", "subgraph"}]
    /\ graph.documents \subseteq Versions
    /\ graph.parents \subseteq ParentsOf("old") \cup ParentsOf("new")
    /\ graph.children \subseteq ChildrenIn("old") \cup ChildrenIn("new")
    /\ graph.next \subseteq graph.parents \X graph.parents
    /\ graph.entities \subseteq Entities
    /\ graph.relations \subseteq graph.entities \X graph.entities
    /\ graph.mentions \subseteq graph.parents \X graph.entities
    /\ status \in [Versions -> {"PARSED", "CHUNKED", "GRAPH_EXTRACTED", "INDEXED", "FAILED",
                                "DELETED"}]
    /\ current \subseteq Versions \cup Callers
    /\ ingest \in [Versions -> [at : Places, job : {"none", "parent", "merged", "combined"},
                                parent : Nat, found : BOOLEAN, then : Places]]
    /\ removal \in [Callers -> [at : {"idle", "begin", "graph", "aggregate", "raised"},
                                version : Versions]]
    /\ base \in {"active", "graph", "rows", "deleted"}
    /\ removed \subseteq Versions /\ left \subseteq Versions

\* A chunks file is the text of its document, cut into parents and children without a
\* gap, whatever headings, tables, oversized blocks and repeated sentences there are.
\* Of their sizes nothing is said: the code adds up tokens that are rounded down, counts
\* no white space between blocks or the parts of a block, and cuts no child within a line,
\* a table row or a word, so that both limits of the documentation are exceeded.
ChunksAreTheText ==
    \A v \in Versions : "chunks" \in files[v] =>
        /\ PartitionOf(text[v], chunks[v])
        /\ \A i \in DOMAIN chunks[v].parents :
              Covers(chunks[v].children[i], Sentences(chunks[v].parents[i]))

\* query_hybrid for one child that the vector index finds: its parent, and the parents
\* that mention an entity that this one mentions.
Seed(c) == {p \in graph.parents : p = <<c[1], c[2]>>}
Passages(c) ==
    Seed(c) \cup {q \in graph.parents : \E p \in Seed(c), e \in graph.entities :
                                           {<<p, e>>, <<q, e>>} \subseteq graph.mentions}

\* Every child a search can hit leads to a passage, every passage names its document, and
\* its neighbours are passages of the same document: also while documents are stored and
\* removed query by query.
AnswersNameTheirDocument ==
    \A c \in graph.children :
        /\ Seed(c) # {}
        /\ \A p \in Passages(c) :
              /\ p[1] \in graph.documents
              /\ \A s \in graph.next : p \in {s[1], s[2]} =>
                    {s[1], s[2]} \subseteq graph.parents /\ s[1][1] = s[2][1]

Searchable(v) ==
    /\ v \in graph.documents
    /\ ParentsOf(v) \subseteq graph.parents /\ ChildrenIn(v) \subseteq graph.children
    /\ Successions(v) \subseteq graph.next

\* What is INDEXED can be found, and its entities and relations with it, linked from the
\* parents they were found in, however the other version is stored, failed or removed at
\* the same time; except while it is being removed, after a removal that did not come to
\* its end, and in a base that is deleted.  The workers link no parent to its entities.
IndexedIsSearchable ==
    \A v \in Versions :
        status[v] = "INDEXED" /\ v \notin removed \cup left /\ base = "active"
          /\ (\A c \in Callers : removal[c].at # "idle" => removal[c].version # v)
        => /\ Searchable(v)
           /\ GraphOf(v).entities \subseteq graph.entities
           /\ GraphOf(v).relations \subseteq graph.relations
           /\ streaming \/ \A p \in ParentsOf(v) : \A e \in Extracted(p[2]) :
                 <<p, e>> \in graph.mentions

\* Blue/green: while nobody deletes anything by hand, one version of the file can be found
\* at any time, although the swap has several steps, is repeated and may fail.
OneVersionSearchable ==
    base = "active" /\ "delete" \notin incidents => \E v \in Versions : Searchable(v)

\* Nothing of a deleted document is found, and no handler that was storing it when it was
\* removed brings a part of it back.  Exempt is what FalkorDB refused to remove, and what is
\* stored from its Document query on after the removal: there the code does bring all of it
\* back, searchable.  Entities belong to the base, and no removal takes them away.
Nodes(v) == {n \in {<<d>> : d \in graph.documents} \cup graph.parents \cup graph.children :
                n[1] = v}
DeletedIsGone ==
    \A v \in Versions : status[v] = "DELETED" /\ v \notin left => Nodes(v) = {}
=============================================================================
