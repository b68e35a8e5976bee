------------------------ MODULE KnowledgeGraphProofs ------------------------
(***************************************************************************)
(* What KnowledgeGraph promises, for any texts, any sizes of chunks, any   *)
(* entities in them and any number of incidents.                           *)
(*                                                                         *)
(* None of its properties is inductive.  That an indexed document is found *)
(* rests on what each place of an ingestion has stored already (StageInv), *)
(* as long as nothing removes the subgraph (Disturbed); that a deleted one *)
(* is gone, on who is about to mark it deleted (RemovalInv); that one      *)
(* version of a file is found at any time, on the swap deleting the old    *)
(* version only while the publisher of the new one waits for it (SwapInv). *)
(* A query finds only whole passages because every node of the graph hangs *)
(* on those above it (ShapeInv).                                           *)
(*                                                                         *)
(* Lemmas about types come first, then those of each part of IInv, one for *)
(* each kind of step that can disturb it.                                  *)
(***************************************************************************)
EXTENDS KnowledgeGraph, ChunkerProofs

\* The types of TypeOK, by kind of state.
Fields == {"documents", "parents", "children", "next", "entities", "relations", "mentions"}
Rows == [at : Places, job : {"none", "parent", "merged", "combined"},
         parent : Nat, found : BOOLEAN, then : Places]
Removals == [at : {"idle", "begin", "graph", "aggregate", "raised"}, version : Versions]
Statuses == {"PARSED", "CHUNKED", "GRAPH_EXTRACTED", "INDEXED", "FAILED", "DELETED"}
StoreOK ==
    /\ DOMAIN text = Versions /\ DOMAIN chunks = Versions /\ streaming \in Modes
    /\ files \in [Versions -> SUBSET {"markdown", "chunks", "checkpoints", "subgraph"}]
RowsOK ==
    /\ status \in [Versions -> Statuses] /\ current \subseteq Versions \cup Callers
    /\ ingest \in [Versions -> Rows] /\ removal \in [Callers -> Removals]
    /\ base \in {"active", "graph", "rows", "deleted"}
    /\ removed \subseteq Versions /\ left \subseteq Versions
GraphOK ==
    /\ DOMAIN graph = Fields
    /\ graph.documents \subseteq Versions
    /\ graph.parents \subseteq ParentsOf("old") \cup ParentsOf("new")
    /\ graph.children \subseteq ChildrenIn("old") \cup ChildrenIn("new")
    /\ graph.next \subseteq graph.parents \X graph.parents
    /\ graph.entities \subseteq Entities
    /\ graph.relations \subseteq graph.entities \X graph.entities
    /\ graph.mentions \subseteq graph.parents \X graph.entities

LEMMA Types == StoreOK /\ RowsOK /\ GraphOK => TypeOK
  BY DEF StoreOK, RowsOK, GraphOK, TypeOK, Rows, Removals, Statuses

\* The chunks of the version have been made; they stay the same.
Cut(v) == chunks[v] = Chunks(text[v])
AfterGraph == {"extracting", "extracted", "indexing", "subgraph", "consolidated", "announce",
               "swap"}
AfterNext == AfterGraph \cup {"extract", "gather", "nodes", "edges", "mentions"}
AfterChildren == AfterNext \cup {"next"}
AfterParents == AfterChildren \cup {"children"}
AfterDocument == AfterParents \cup {"parents"}
AfterChunks == AfterDocument \cup {"document", "chunked", "chunking"}

CutInv ==
    /\ \A v \in Versions : text[v] \in Texts \cup {OldText}
    /\ \A v \in Versions : chunks[v] = NoChunks \/ Cut(v)
    /\ Cut("old")
    /\ \A v \in Versions :
          "chunks" \in files[v] \/ status[v] = "INDEXED" \/ ingest[v].at \in AfterChunks => Cut(v)

\* What the variables of an ingestion are at each of its places.
InGraph(v) == ingest[v].at \in {"nodes", "edges", "mentions"}
IngestOK(row, v) ==
    /\ row.at \in {"nodes", "edges"} => row.job # "none"
    /\ row.at = "gather" => row.job = "merged"
    /\ row.at = "mentions" => row.job = "parent"
    /\ row.at \in {"nodes", "edges", "mentions"} /\ row.job = "parent" =>
          row.parent \in DOMAIN chunks[v].parents
    /\ row.at = "swap" => row.then \in {"idle", "announce", "extracted"}
    /\ row.at \in {"gather", "nodes", "edges"} /\ row.job = "merged" => streaming
IngestInv == \A v \in Versions : IngestOK(ingest[v], v)

\* Every node hangs on those above it.
ShapeInv ==
    /\ \A p \in graph.parents : p[1] \in graph.documents
    /\ \A c \in graph.children : <<c[1], c[2]>> \in graph.parents
    /\ \A s \in graph.next : s[1][1] = s[2][1]
\* A version is marked deleted only by who has removed its subgraph, or could not.
RemovalInv ==
    /\ removed \cap graph.documents = {}
    /\ \A v \in Versions : status[v] = "DELETED" => v \in removed \cup left
    /\ \A c \in Callers : removal[c].at \in {"aggregate", "raised"} =>
                             removal[c].version \in removed \cup left

\* The subgraph of the version has been removed, or is about to be.
Disturbed(v) ==
    \/ v \in removed \cup left \/ base # "active"
    \/ \E c \in Callers : removal[c].at = "graph" /\ removal[c].version = v
EntitiesIn(v) == GraphOf(v).entities \subseteq graph.entities
RelationsIn(v) == GraphOf(v).relations \subseteq graph.relations
Linked(v, i) == streaming \/ \A e \in Extracted(i) : <<<<v, i>>, e>> \in graph.mentions
GraphDone(v) ==
    EntitiesIn(v) /\ RelationsIn(v) /\ \A i \in DOMAIN chunks[v].parents : Linked(v, i)
ParentDone(v, i) ==
    /\ Extracted(i) \subseteq graph.entities
    /\ Graph(Extracted(i)).relations \subseteq graph.relations
    /\ Linked(v, i)
\* What each place of an ingestion has stored: the structure of the document, and the
\* entities of its parents.
StageOK(v) ==
    /\ ingest[v].at \in AfterDocument => v \in graph.documents
    /\ ingest[v].at \in AfterParents => ParentsOf(v) \subseteq graph.parents
    /\ ingest[v].at \in AfterChildren => ChildrenIn(v) \subseteq graph.children
    /\ ingest[v].at \in AfterNext => Successions(v) \subseteq graph.next
ExtractOK(v) ==
    /\ InGraph(v) /\ ingest[v].job = "parent" =>
          \A i \in 1..ingest[v].parent - 1 : ParentDone(v, i)
    /\ ingest[v].at \in {"edges", "mentions"} /\ ingest[v].job = "parent" =>
          Extracted(ingest[v].parent) \subseteq graph.entities
    /\ At(v, "mentions") => Graph(Extracted(ingest[v].parent)).relations \subseteq graph.relations
    /\ At(v, "gather") => "checkpoints" \in files[v]
    /\ InGraph(v) /\ ingest[v].job = "merged" => ingest[v].found
    /\ At(v, "edges") /\ ingest[v].job = "merged" => EntitiesIn(v)
    /\ ingest[v].at \in AfterGraph => GraphDone(v)
    /\ InGraph(v) /\ ingest[v].job = "combined" => GraphDone(v)
Complete(v) == Searchable(v) /\ GraphDone(v)
StageInv == \A v \in Versions : ~Disturbed(v) =>
    StageOK(v) /\ ExtractOK(v) /\ (v = "old" \/ status[v] = "INDEXED" => Complete(v))

\* The publisher of the new version waits for the swap.
Waits == removal["swap"].at # "idle" => At("new", "swap")
\* Who deletes what, and what the swap relies on.
DeletersInv ==
    /\ removal["swap"].version = "old"
    /\ removal["user"].at # "idle" => "delete" \in incidents
    /\ "delete" \notin incidents => "new" \notin removed \cup left
Replaced == removal["swap"].at # "idle" \/ "old" \in removed \cup left
SwapInv ==
    /\ Waits /\ DeletersInv
    /\ base = "active" /\ "delete" \notin incidents /\ Replaced => Cut("new") /\ Searchable("new")
-----------------------------------------------------------------------------
(* Types. *)

LEMMA StoreStep ==
    ASSUME StoreOK, RowsOK, [Next]_vars
    PROVE  StoreOK'
  <1> USE DEF StoreOK, RowsOK
  <1>1. ASSUME NEW v \in Versions, Chunk(v) PROVE StoreOK'
    BY <1>1 DEF Chunk
  <1>2. ASSUME NEW v \in Versions, LoadChunks(v) PROVE StoreOK'
    BY <1>2 DEF LoadChunks
  <1>3. ASSUME NEW v \in Versions, Extract(v) \/ SaveSubgraph(v) PROVE StoreOK'
    BY <1>3 DEF Extract, SaveSubgraph
  <1>4. ASSUME NEW c \in Callers, BeginRemoval(c) PROVE StoreOK'
    BY <1>4 DEF BeginRemoval
  <1>5. CASE BeginPurge
    BY <1>5 DEF BeginPurge
  <1>6. CASE UNCHANGED storage
    BY <1>6 DEF storage
  <1> QED BY <1>1, <1>2, <1>3, <1>4, <1>5, <1>6
          DEF Next, vars, MarkChunked, StoreDocument, StoreParents, StoreChildren, StoreNext, Gather,
              StoreNodes, StoreEdges, StoreMentions, MarkExtracted, LoadGraph, MarkIndexed,
              MarkConsolidated, Announce, SwapReturns, UserDeletes, QueryRaises, RemoveSubgraph,
              DeleteAggregate, PurgeGraph, PurgeRows, Reprocess

ChunksStayed ==
    /\ text' = text
    /\ \A v \in Versions : chunks'[v] = chunks[v] \/ (chunks[v] = NoChunks /\ chunks'[v] = Chunks(text[v]))
LEMMA ChunksStay ==
    ASSUME StoreOK, CutInv, [Next]_vars
    PROVE  ChunksStayed
  <1> USE DEF ChunksStayed, CutInv, StoreOK, Cut
  <1>1. ASSUME NEW v \in Versions, Chunk(v) PROVE ChunksStayed
    BY <1>1 DEF Chunk
  <1>2. ASSUME NEW v \in Versions, LoadChunks(v) PROVE ChunksStayed
    BY <1>2 DEF LoadChunks
  <1>3. CASE UNCHANGED <<text, chunks>>
    BY <1>3
  <1> QED BY <1>1, <1>2, <1>3
          DEF Next, vars, storage, MarkChunked, StoreDocument, StoreParents, StoreChildren, StoreNext,
              Gather, StoreNodes, StoreEdges, StoreMentions, MarkExtracted, LoadGraph, MarkIndexed,
              MarkConsolidated, Announce, SwapReturns, UserDeletes, QueryRaises, RemoveSubgraph,
              DeleteAggregate, PurgeGraph, PurgeRows, Reprocess, Extract, SaveSubgraph, BeginRemoval,
              BeginPurge

LEMMA CutStays ==
    ASSUME CutInv, ChunksStayed, NEW v \in Versions, Cut(v)
    PROVE  chunks'[v] = chunks[v] /\ Cut(v)'
  BY DEF CutInv, ChunksStayed, Cut

\* Before the chunks are made the version has no passages.
LEMMA NoPassages ==
    ASSUME NEW v \in Versions, chunks[v] = NoChunks
    PROVE  /\ DOMAIN chunks[v].parents = {}
           /\ ParentsOf(v) = {} /\ ChildrenIn(v) = {} /\ Successions(v) = {}
  <1>1. DOMAIN chunks[v].parents = {}
    BY DEF NoChunks
  <1> QED BY <1>1 DEF ParentsOf, ChildrenIn, Successions

LEMMA PassagesGrow ==
    ASSUME ChunksStayed
    PROVE  /\ \A v \in Versions : ParentsOf(v) \subseteq ParentsOf(v)'
           /\ \A v \in Versions : ChildrenIn(v) \subseteq ChildrenIn(v)'
           /\ Entities \subseteq Entities'
  <1>1. ASSUME NEW v \in Versions
        PROVE  /\ DOMAIN chunks[v].parents \subseteq DOMAIN chunks'[v].parents
               /\ ParentsOf(v) \subseteq ParentsOf(v)' /\ ChildrenIn(v) \subseteq ChildrenIn(v)'
    <2>1. CASE chunks[v] = NoChunks
      BY <2>1, NoPassages
    <2>2. CASE chunks'[v] = chunks[v]
      BY <2>2 DEF ParentsOf, ChildrenIn, Numbered
    <2> QED BY <2>1, <2>2 DEF ChunksStayed
  <1>2. Entities \subseteq Entities'
    BY <1>1 DEF Entities
  <1> QED BY <1>1, <1>2

LEMMA GraphSteps ==
    ASSUME [Next]_vars
    PROVE  \/ UNCHANGED graph
           \/ \E v \in Versions :
                 \/ StoreDocument(v) \/ StoreParents(v) \/ StoreChildren(v) \/ StoreNext(v)
                 \/ StoreNodes(v) \/ StoreEdges(v) \/ StoreMentions(v)
           \/ \E c \in Callers : RemoveSubgraph(c)
           \/ PurgeGraph
  BY DEF Next, vars, storage, MarkChunked, Chunk, LoadChunks,
              Gather, MarkExtracted, LoadGraph, MarkIndexed,
              MarkConsolidated, Announce, SwapReturns, UserDeletes, QueryRaises,
              DeleteAggregate, PurgeRows, Reprocess, Extract, SaveSubgraph, BeginRemoval,
              BeginPurge

\* What the queries store, and what they leave alone.
Only(fields) == DOMAIN graph' = Fields /\ \A f \in Fields \ fields : graph'[f] = graph[f]
LEMMA StoreFields ==
    ASSUME DOMAIN graph = Fields, NEW v \in Versions
    PROVE  /\ StoreDocument(v) =>
                 Only({"documents"}) /\ graph'.documents = graph.documents \cup {v}
           /\ StoreParents(v) =>
                 /\ Only({"parents"})
                 /\ graph'.parents = IF Attachable(v) THEN graph.parents \cup ParentsOf(v)
                                     ELSE graph.parents
           /\ StoreChildren(v) =>
                 /\ Only({"children"})
                 /\ graph'.children = graph.children \cup
                       {c \in ChildrenIn(v) : <<c[1], c[2]>> \in graph.parents}
           /\ StoreNext(v) =>
                 /\ Only({"next"})
                 /\ graph'.next = graph.next \cup
                       {s \in Successions(v) : {s[1], s[2]} \subseteq graph.parents}
           /\ StoreNodes(v) =>
                 Only({"entities"}) /\ graph'.entities = graph.entities \cup Stored(v).entities
           /\ StoreEdges(v) =>
                 /\ Only({"relations"})
                 /\ graph'.relations = graph.relations \cup
                       {r \in Stored(v).relations : {r[1], r[2]} \subseteq graph.entities}
           /\ StoreMentions(v) =>
                 /\ Only({"mentions"})
                 /\ graph'.mentions = IF <<v, ingest[v].parent>> \in graph.parents
                       THEN graph.mentions \cup {<<<<v, ingest[v].parent>>, e>> :
                                e \in Extracted(ingest[v].parent) \cap graph.entities}
                       ELSE graph.mentions
  <1>1. StoreDocument(v) =>
                 Only({"documents"}) /\ graph'.documents = graph.documents \cup {v}
    BY DEF StoreDocument, Only, Fields
  <1>2. StoreParents(v) =>
                 /\ Only({"parents"})
                 /\ graph'.parents = IF Attachable(v) THEN graph.parents \cup ParentsOf(v)
                                     ELSE graph.parents
    BY DEF StoreParents, Only, Fields
  <1>3. StoreChildren(v) =>
                 /\ Only({"children"})
                 /\ graph'.children = graph.children \cup
                       {c \in ChildrenIn(v) : <<c[1], c[2]>> \in graph.parents}
    BY DEF StoreChildren, Only, Fields
  <1>4. StoreNext(v) =>
                 /\ Only({"next"})
                 /\ graph'.next = graph.next \cup
                       {s \in Successions(v) : {s[1], s[2]} \subseteq graph.parents}
    BY DEF StoreNext, Only, Fields
  <1>5. StoreNodes(v) =>
                 Only({"entities"}) /\ graph'.entities = graph.entities \cup Stored(v).entities
    BY DEF StoreNodes, Only, Fields
  <1>6. StoreEdges(v) =>
                 /\ Only({"relations"})
                 /\ graph'.relations = graph.relations \cup
                       {r \in Stored(v).relations : {r[1], r[2]} \subseteq graph.entities}
    BY DEF StoreEdges, Only, Fields
  <1>7. StoreMentions(v) =>
                 /\ Only({"mentions"})
                 /\ graph'.mentions = IF <<v, ingest[v].parent>> \in graph.parents
                       THEN graph.mentions \cup {<<<<v, ingest[v].parent>>, e>> :
                                e \in Extracted(ingest[v].parent) \cap graph.entities}
                       ELSE graph.mentions
    <2> DEFINE p == <<v, ingest[v].parent>>
    <2>1. p[2] = ingest[v].parent
      OBVIOUS
    <2>2. StoreMentions(v) => graph' = IF p \in graph.parents
                  THEN [graph EXCEPT !.mentions = graph.mentions \cup
                           {<<p, e>> : e \in Extracted(ingest[v].parent) \cap graph.entities}]
                  ELSE graph
      BY <2>1 DEF StoreMentions
    <2> HIDE DEF p
    <2>3. StoreMentions(v) => /\ Only({"mentions"})
                 /\ graph'.mentions = IF p \in graph.parents
                       THEN graph.mentions \cup {<<p, e>> :
                                e \in Extracted(ingest[v].parent) \cap graph.entities}
                       ELSE graph.mentions
      BY <2>2 DEF Only, Fields
    <2> QED BY <2>3 DEF p
  <1> QED BY <1>1, <1>2, <1>3, <1>4, <1>5, <1>6, <1>7

LEMMA DetachedFields ==
    ASSUME DOMAIN graph = Fields, NEW nodes, graph' = Detached(nodes)
    PROVE  /\ DOMAIN graph' = Fields
           /\ graph'.documents = {d \in graph.documents : <<d>> \notin nodes}
           /\ graph'.parents = graph.parents \ nodes /\ graph'.children = graph.children \ nodes
           /\ graph'.next = {s \in graph.next : {s[1], s[2]} \cap nodes = {}}
           /\ graph'.mentions = {m \in graph.mentions : m[1] \notin nodes}
           /\ graph'.entities = graph.entities /\ graph'.relations = graph.relations
  BY DEF Detached, Fields

LEMMA PurgedFields ==
    ASSUME PurgeGraph
    PROVE  DOMAIN graph' = Fields /\ \A f \in Fields : graph'[f] = {}
  BY DEF PurgeGraph, EmptyGraph, Fields

LEMMA GraphOfTyped ==
    ASSUME NEW v \in Versions
    PROVE  /\ \A i \in DOMAIN chunks[v].parents : Extracted(i) \subseteq Entities
           /\ GraphOf(v).entities = UNION {Extracted(i) : i \in DOMAIN chunks[v].parents}
           /\ GraphOf(v).relations =
                 UNION {Graph(Extracted(i)).relations : i \in DOMAIN chunks[v].parents}
           /\ GraphOf(v).entities \subseteq Entities
  <1>1. \A i \in DOMAIN chunks[v].parents : Extracted(i) \subseteq Entities
    BY DEF Entities
  <1>2. \A i : Graph(Extracted(i)).entities = Extracted(i)
    BY DEF Graph
  <1>3. GraphOf(v).entities = UNION {Extracted(i) : i \in DOMAIN chunks[v].parents}
    BY <1>2 DEF GraphOf
  <1>4. GraphOf(v).relations =
                 UNION {Graph(Extracted(i)).relations : i \in DOMAIN chunks[v].parents}
    BY DEF GraphOf
  <1> QED BY <1>1, <1>3, <1>4

LEMMA StoredTyped ==
    ASSUME RowsOK, IngestInv, NEW v \in Versions, ingest[v].at \in {"nodes", "edges"}
    PROVE  Stored(v).entities \subseteq Entities
  <1>1. CASE ingest[v].job = "parent"
    <2>1. Stored(v).entities = Extracted(ingest[v].parent)
      BY <1>1 DEF Stored, Graph
    <2> QED BY <1>1, <2>1, GraphOfTyped DEF IngestInv, IngestOK
  <1>2. CASE ingest[v].job # "parent" /\ ingest[v].found
    BY <1>2, GraphOfTyped DEF Stored
  <1>3. CASE ingest[v].job # "parent" /\ ~ingest[v].found
    BY <1>3 DEF Stored, Graph
  <1> QED BY <1>1, <1>2, <1>3 DEF RowsOK

LEMMA GraphStep ==
    ASSUME RowsOK, GraphOK, IngestInv, ChunksStayed, [Next]_vars
    PROVE  GraphOK'
  <1>0. /\ DOMAIN graph = Fields /\ graph.documents \subseteq Versions
        /\ graph.parents \subseteq ParentsOf("old")' \cup ParentsOf("new")'
        /\ graph.children \subseteq ChildrenIn("old")' \cup ChildrenIn("new")'
        /\ graph.next \subseteq graph.parents \X graph.parents
        /\ graph.entities \subseteq Entities' /\ Entities \subseteq Entities'
        /\ graph.relations \subseteq graph.entities \X graph.entities
        /\ graph.mentions \subseteq graph.parents \X graph.entities
    BY PassagesGrow DEF GraphOK, Versions
  <1>1. CASE UNCHANGED graph
    BY <1>0, <1>1 DEF GraphOK
  <1>2. ASSUME NEW v \in Versions, StoreDocument(v) PROVE GraphOK'
    <2>1. Only({"documents"}) /\ graph'.documents = graph.documents \cup {v}
      BY <1>0, <1>2, StoreFields
    <2> QED BY <1>0, <2>1 DEF GraphOK, Only, Fields
  <1>3. ASSUME NEW v \in Versions, StoreParents(v) PROVE GraphOK'
    <2>1. Only({"parents"}) /\ graph'.parents \subseteq graph.parents \cup ParentsOf(v)
          /\ graph.parents \subseteq graph'.parents
      BY <1>0, <1>3, StoreFields
    <2>2. ParentsOf(v) \subseteq ParentsOf("old")' \cup ParentsOf("new")'
      BY PassagesGrow DEF Versions
    <2> QED BY <1>0, <2>1, <2>2 DEF GraphOK, Only, Fields
  <1>4. ASSUME NEW v \in Versions, StoreChildren(v) PROVE GraphOK'
    <2>1. Only({"children"}) /\ graph'.children \subseteq graph.children \cup ChildrenIn(v)
      BY <1>0, <1>4, StoreFields
    <2>2. ChildrenIn(v) \subseteq ChildrenIn("old")' \cup ChildrenIn("new")'
      BY PassagesGrow DEF Versions
    <2> QED BY <1>0, <2>1, <2>2 DEF GraphOK, Only, Fields
  <1>5. ASSUME NEW v \in Versions, StoreNext(v) PROVE GraphOK'
    <2>1. Only({"next"}) /\ graph'.next = graph.next \cup
                       {s \in Successions(v) : {s[1], s[2]} \subseteq graph.parents}
      BY <1>0, <1>5, StoreFields
    <2>2. graph'.next \subseteq graph.parents \X graph.parents
      BY <1>0, <2>1 DEF Successions
    <2> QED BY <1>0, <2>1, <2>2 DEF GraphOK, Only, Fields
  <1>6. ASSUME NEW v \in Versions, StoreNodes(v) PROVE GraphOK'
    <2>1. Only({"entities"}) /\ graph'.entities = graph.entities \cup Stored(v).entities
      BY <1>0, <1>6, StoreFields
    <2>2. Stored(v).entities \subseteq Entities
      BY <1>6, StoredTyped DEF StoreNodes, At
    <2> QED BY <1>0, <2>1, <2>2 DEF GraphOK, Only, Fields
  <1>7. ASSUME NEW v \in Versions, StoreEdges(v) PROVE GraphOK'
    <2>1. Only({"relations"}) /\ graph'.relations = graph.relations \cup
                       {r \in Stored(v).relations : {r[1], r[2]} \subseteq graph.entities}
      BY <1>0, <1>7, StoreFields
    <2>2. \A r \in Stored(v).relations : r = <<r[1], r[2]>>
      BY DEF Stored, GraphOf, Graph
    <2>3. graph'.relations \subseteq graph.entities \X graph.entities
      BY <1>0, <2>1, <2>2
    <2> QED BY <1>0, <2>1, <2>3 DEF GraphOK, Only, Fields
  <1>8. ASSUME NEW v \in Versions, StoreMentions(v) PROVE GraphOK'
    <2>1. Only({"mentions"})
          /\ graph'.mentions = IF <<v, ingest[v].parent>> \in graph.parents
                       THEN graph.mentions \cup {<<<<v, ingest[v].parent>>, e>> :
                                e \in Extracted(ingest[v].parent) \cap graph.entities}
                       ELSE graph.mentions
      BY <1>0, <1>8, StoreFields
    <2>2. graph'.mentions \subseteq graph.parents \X graph.entities
      BY <1>0, <2>1
    <2> QED BY <1>0, <2>1, <2>2 DEF GraphOK, Only, Fields
  <1>9. ASSUME NEW c \in Callers, RemoveSubgraph(c) PROVE GraphOK'
    <2>1. CASE graph' = graph
      BY <1>0, <2>1 DEF GraphOK
    <2>2. CASE graph' = Detached(Subgraph(removal[c].version))
      <3> DEFINE nodes == Subgraph(removal[c].version)
      <3>1. graph' = Detached(nodes)
        BY <2>2
      <3> HIDE DEF nodes
      <3>2. /\ DOMAIN graph' = Fields
            /\ graph'.documents = {d \in graph.documents : <<d>> \notin nodes}
            /\ graph'.parents = graph.parents \ nodes /\ graph'.children = graph.children \ nodes
            /\ graph'.next = {s \in graph.next : {s[1], s[2]} \cap nodes = {}}
            /\ graph'.mentions = {m \in graph.mentions : m[1] \notin nodes}
            /\ graph'.entities = graph.entities /\ graph'.relations = graph.relations
        BY <1>0, <3>1, DetachedFields
      <3>3. graph'.next \subseteq graph'.parents \X graph'.parents
        BY <1>0, <3>2
      <3>4. graph'.mentions \subseteq graph'.parents \X graph'.entities
        BY <1>0, <3>2
      <3> QED BY <1>0, <3>2, <3>3, <3>4 DEF GraphOK
    <2> QED BY <1>9, <2>1, <2>2 DEF RemoveSubgraph
  <1>10. CASE PurgeGraph
    BY <1>10, PurgedFields DEF GraphOK, Fields
  <1> QED BY <1>1, <1>2, <1>3, <1>4, <1>5, <1>6, <1>7, <1>8, <1>9, <1>10, GraphSteps

LEMMA RecordTyped ==
    ASSUME RowsOK, NEW v \in Versions, NEW s \in Statuses, Record(v, s)
    PROVE  status' \in [Versions -> Statuses] /\ current' \subseteq Versions \cup Callers
  BY DEF Record, RowsOK, Outdated

Moved(v, row) ==
    /\ ingest' \in [Versions -> Rows] /\ ingest'[v] = row
    /\ \A u \in Versions \ {v} : ingest'[u] = ingest[u]

\* The fields of a row that a step sets.
LEMMA SetRow ==
    ASSUME NEW row \in Rows, NEW at \in Places
    PROVE  /\ [row EXCEPT !.at = at] \in Rows
           /\ \A job \in {"parent", "merged", "combined"} :
                 [row EXCEPT !.at = at, !.job = job] \in Rows
           /\ \A n \in Nat : [row EXCEPT !.at = at, !.parent = n] \in Rows
           /\ \A b \in BOOLEAN : [row EXCEPT !.at = at, !.found = b] \in Rows
           /\ \A then \in Places : [row EXCEPT !.at = at, !.then = then] \in Rows
           /\ \A n \in Nat : [row EXCEPT !.at = at, !.job = "parent", !.parent = n] \in Rows
  BY DEF Rows

LEMMA MovedTyped ==
    ASSUME RowsOK, NEW v \in Versions, NEW row \in Rows, ingest' = [ingest EXCEPT ![v] = row]
    PROVE  Moved(v, row)
  BY DEF RowsOK, Moved

LEMMA GotoTyped ==
    ASSUME RowsOK, NEW v \in Versions, NEW place \in Places, Goto(v, place)
    PROVE  Moved(v, [ingest[v] EXCEPT !.at = place])
  <1>1. ingest[v] \in Rows
    BY DEF RowsOK
  <1>2. [ingest[v] EXCEPT !.at = place] \in Rows
    BY <1>1, SetRow
  <1>3. ingest' = [ingest EXCEPT ![v] = [ingest[v] EXCEPT !.at = place]]
    BY DEF Goto
  <1> QED BY <1>2, <1>3, MovedTyped

LEMMA EndTyped ==
    ASSUME RowsOK, NEW v \in Versions, End(v)
    PROVE  Moved(v, Idle)
  <1>1. Idle \in Rows
    BY DEF Idle, Rows, Places
  <1> QED BY <1>1, MovedTyped DEF End

LEMMA FailTyped ==
    ASSUME RowsOK, NEW v \in Versions, Fail(v)
    PROVE  /\ status' \in [Versions -> Statuses] /\ current' \subseteq Versions \cup Callers
           /\ Moved(v, Idle)
  BY RecordTyped, EndTyped DEF Fail, Statuses

\* Two fields of a row at once.
LEMMA TwoFields ==
    ASSUME RowsOK, NEW v \in Versions, NEW at \in Places, NEW b
    PROVE  /\ [ingest EXCEPT ![v].at = at, ![v].then = b]
                 = [ingest EXCEPT ![v] = [ingest[v] EXCEPT !.at = at, !.then = b]]
           /\ [ingest EXCEPT ![v].at = at, ![v].found = b]
                 = [ingest EXCEPT ![v] = [ingest[v] EXCEPT !.at = at, !.found = b]]
  <1>1. ingest \in [Versions -> Rows]
    BY DEF RowsOK
  <1>2. [ingest EXCEPT ![v].at = at, ![v].then = b]
                 = [ingest EXCEPT ![v] = [ingest[v] EXCEPT !.at = at, !.then = b]]
    BY <1>1
  <1>3. [ingest EXCEPT ![v].at = at, ![v].found = b]
                 = [ingest EXCEPT ![v] = [ingest[v] EXCEPT !.at = at, !.found = b]]
    BY <1>1
  <1> QED BY <1>2, <1>3

LEMMA JobFields ==
    ASSUME RowsOK, NEW v \in Versions, NEW at \in Places,
           ingest' = [ingest EXCEPT ![v].job = "combined", ![v].at = at]
    PROVE  ingest' = [ingest EXCEPT ![v] = [ingest[v] EXCEPT !.at = at, !.job = "combined"]]
  <1>1. ingest \in [Versions -> Rows]
    BY DEF RowsOK
  <1>2. \A row \in Rows : [[row EXCEPT !.job = "combined"] EXCEPT !.at = at]
                          = [[row EXCEPT !.at = at] EXCEPT !.job = "combined"]
    BY DEF Rows
  <1> QED BY <1>1, <1>2

LEMMA RowFields ==
    ASSUME NEW row \in Rows, NEW at
    PROVE  /\ [row EXCEPT !.at = at].at = at /\ [row EXCEPT !.at = at].job = row.job
           /\ [row EXCEPT !.at = at].parent = row.parent
           /\ [row EXCEPT !.at = at].found = row.found
           /\ [row EXCEPT !.at = at].then = row.then
  BY DEF Rows

LEMMA PublishedTyped ==
    ASSUME RowsOK, NEW v \in Versions, NEW then \in {"idle", "announce", "extracted"},
           Published(v, then)
    PROVE  /\ v = "new" =>
                 /\ Moved(v, [ingest[v] EXCEPT !.at = "swap", !.then = then])
                 /\ removal' = [removal EXCEPT !["swap"] = [at |-> "begin", version |-> "old"]]
           /\ v = "old" =>
                 /\ Moved(v, [ingest[v] EXCEPT !.at = then, !.then = then]) /\ removal' = removal
           /\ removal' \in [Callers -> Removals]
  <1>0. ingest[v] \in Rows /\ then \in Places /\ "swap" \in Places /\ removal \in [Callers -> Removals]
    BY DEF RowsOK, Places
  <1>1. CASE v = "new"
    <2>1. Superseded(v) = {"old"} /\ (CHOOSE u \in {"old"} : TRUE) = "old"
      BY <1>1 DEF Superseded
    <2>2. ingest' = [ingest EXCEPT ![v].at = "swap", ![v].then = then]
      BY <2>1 DEF Published
    <2>3. Moved(v, [ingest[v] EXCEPT !.at = "swap", !.then = then])
      <3>1. [ingest[v] EXCEPT !.at = "swap", !.then = then] \in Rows
        BY <1>0, SetRow
      <3>2. ingest' = [ingest EXCEPT ![v] = [ingest[v] EXCEPT !.at = "swap", !.then = then]]
        BY <1>0, <2>2, TwoFields
      <3> QED BY <3>1, <3>2, MovedTyped
    <2>4. removal' = [removal EXCEPT !["swap"] = [at |-> "begin", version |-> "old"]]
      BY <2>1 DEF Published
    <2>5. removal' \in [Callers -> Removals]
      BY <1>0, <2>4 DEF Removals, Versions
    <2> QED BY <1>1, <2>3, <2>4, <2>5
  <1>2. CASE v = "old"
    <2>1. Superseded(v) = {}
      BY <1>2 DEF Superseded
    <2>2. ingest' = [ingest EXCEPT ![v].at = then, ![v].then = then] /\ removal' = removal
      BY <2>1 DEF Published
    <2>3. Moved(v, [ingest[v] EXCEPT !.at = then, !.then = then])
      <3>1. [ingest[v] EXCEPT !.at = then, !.then = then] \in Rows
        BY <1>0, SetRow
      <3>2. ingest' = [ingest EXCEPT ![v] = [ingest[v] EXCEPT !.at = then, !.then = then]]
        BY <1>0, <2>2, TwoFields
      <3> QED BY <3>1, <3>2, MovedTyped
    <2> QED BY <1>0, <1>2, <2>2, <2>3
  <1> QED BY <1>1, <1>2 DEF Versions
-----------------------------------------------------------------------------
(* Where an ingestion goes. *)

To(v, place) == Moved(v, [ingest[v] EXCEPT !.at = place])
Stops(v) == Moved(v, Idle)

LEMMA SimpleMoves ==
    ASSUME RowsOK, NEW v \in Versions
    PROVE  /\ Chunk(v) => To(v, "chunking") \/ Stops(v)
           /\ MarkChunked(v) => To(v, "chunked") \/ Stops(v)
           /\ LoadChunks(v) => To(v, "document") \/ Stops(v)
           /\ StoreDocument(v) => To(v, "parents")
           /\ StoreParents(v) => To(v, "children")
           /\ StoreChildren(v) => To(v, "next")
           /\ StoreNext(v) => To(v, "extract")
           /\ StoreNodes(v) => To(v, "edges")
           /\ MarkExtracted(v) => To(v, "extracted") \/ Stops(v)
           /\ SaveSubgraph(v) => To(v, "consolidated")
           /\ QueryRaises(v) => Stops(v)
  <1>1. Fail(v) => Stops(v)
    BY FailTyped DEF Stops
  <1>2. End(v) => Stops(v)
    BY EndTyped DEF Stops
  <1>3. /\ Goto(v, "chunking") => To(v, "chunking")
        /\ Goto(v, "chunked") => To(v, "chunked")
        /\ Goto(v, "document") => To(v, "document")
        /\ Goto(v, "parents") => To(v, "parents")
        /\ Goto(v, "children") => To(v, "children")
        /\ Goto(v, "next") => To(v, "next")
    BY GotoTyped DEF To, Places
  <1>4. /\ Goto(v, "extract") => To(v, "extract")
        /\ Goto(v, "edges") => To(v, "edges")
        /\ Goto(v, "extracted") => To(v, "extracted")
        /\ Goto(v, "consolidated") => To(v, "consolidated")
    BY GotoTyped DEF To, Places
  <1>5. Chunk(v) => To(v, "chunking") \/ Stops(v)
    BY <1>1, <1>3 DEF Chunk
  <1>6. MarkChunked(v) => To(v, "chunked") \/ Stops(v)
    BY <1>1, <1>2, <1>3 DEF MarkChunked
  <1>7. LoadChunks(v) => To(v, "document") \/ Stops(v)
    BY <1>1, <1>2, <1>3 DEF LoadChunks
  <1>8. MarkExtracted(v) => To(v, "extracted") \/ Stops(v)
    BY <1>1, <1>2, <1>4 DEF MarkExtracted
  <1>9. QueryRaises(v) => Stops(v)
    BY <1>1, <1>2 DEF QueryRaises
  <1>10. /\ StoreDocument(v) => To(v, "parents")
         /\ StoreParents(v) => To(v, "children")
         /\ StoreChildren(v) => To(v, "next")
    BY <1>3 DEF StoreDocument, StoreParents, StoreChildren
  <1>11. /\ StoreNext(v) => To(v, "extract")
         /\ StoreNodes(v) => To(v, "edges")
         /\ SaveSubgraph(v) => To(v, "consolidated")
    BY <1>4 DEF StoreNext, StoreNodes, SaveSubgraph
  <1> QED BY <1>5, <1>6, <1>7, <1>8, <1>9, <1>10, <1>11

LEMMA ExtractMoves ==
    ASSUME RowsOK, NEW v \in Versions, Extract(v)
    PROVE  \/ Stops(v)
           \/ /\ streaming /\ chunks[v].parents # <<>>
              /\ Moved(v, [ingest[v] EXCEPT !.at = "gather", !.job = "merged"])
           \/ ~streaming /\ chunks[v].parents = <<>> /\ To(v, "extracting")
           \/ /\ ~streaming /\ chunks[v].parents # <<>>
              /\ Moved(v, [ingest[v] EXCEPT !.at = "nodes", !.job = "parent", !.parent = 1])
  <1>1. ingest[v] \in Rows /\ {"gather", "nodes", "extracting"} \subseteq Places /\ 1 \in Nat
    BY DEF RowsOK, Places
  <1>0. CASE streaming /\ chunks[v].parents = <<>>
    <2>1. ingest' = [ingest EXCEPT ![v] = Idle]
      BY <1>0 DEF Extract
    <2>2. Idle \in Rows
      BY DEF Idle, Rows, Places
    <2> QED BY <2>1, <2>2, MovedTyped DEF Stops
  <1>2. CASE streaming /\ chunks[v].parents # <<>>
    <2>1. [ingest[v] EXCEPT !.at = "gather", !.job = "merged"] \in Rows
      BY <1>1, SetRow
    <2>2. ingest' = [ingest EXCEPT ![v] = [ingest[v] EXCEPT !.at = "gather", !.job = "merged"]]
      BY <1>2 DEF Extract
    <2> QED BY <1>2, <2>1, <2>2, MovedTyped
  <1>3. CASE ~streaming /\ chunks[v].parents = <<>>
    <2>1. [ingest[v] EXCEPT !.at = "extracting"] \in Rows
      BY <1>1, SetRow
    <2>2. ingest' = [ingest EXCEPT ![v] = [ingest[v] EXCEPT !.at = "extracting"]]
      BY <1>3 DEF Extract
    <2> QED BY <1>3, <2>1, <2>2, MovedTyped DEF To
  <1>4. CASE ~streaming /\ chunks[v].parents # <<>>
    <2>1. [ingest[v] EXCEPT !.at = "nodes", !.job = "parent", !.parent = 1] \in Rows
      BY <1>1, SetRow
    <2>2. ingest' = [ingest EXCEPT ![v] =
                       [ingest[v] EXCEPT !.at = "nodes", !.job = "parent", !.parent = 1]]
      BY <1>4 DEF Extract
    <2> QED BY <1>4, <2>1, <2>2, MovedTyped
  <1> QED BY <1>0, <1>2, <1>3, <1>4

LEMMA GatherMoves ==
    ASSUME RowsOK, NEW v \in Versions, Gather(v)
    PROVE  \E b \in BOOLEAN : /\ b <=> "checkpoints" \in files[v]
                              /\ Moved(v, [ingest[v] EXCEPT !.at = "nodes", !.found = b])
  <1>1. ingest[v] \in Rows /\ "nodes" \in Places
    BY DEF RowsOK, Places
  <1> DEFINE b == "checkpoints" \in files[v]
  <1>2. b \in BOOLEAN
    OBVIOUS
  <1>3. ingest' = [ingest EXCEPT ![v].at = "nodes", ![v].found = b]
    BY DEF Gather
  <1>4. b <=> "checkpoints" \in files[v]
    OBVIOUS
  <1> HIDE DEF b
  <1>5. [ingest[v] EXCEPT !.at = "nodes", !.found = b] \in Rows
    BY <1>1, <1>2, SetRow
  <1>6. ingest' = [ingest EXCEPT ![v] = [ingest[v] EXCEPT !.at = "nodes", !.found = b]]
    BY <1>1, <1>3, TwoFields
  <1>7. Moved(v, [ingest[v] EXCEPT !.at = "nodes", !.found = b])
    BY <1>5, <1>6, MovedTyped
  <1> QED BY <1>2, <1>4, <1>7

LEMMA StoreEdgesMoves ==
    ASSUME RowsOK, IngestInv, NEW v \in Versions, StoreEdges(v)
    PROVE  \/ ingest[v].job = "parent" /\ To(v, "mentions")
           \/ ingest[v].job = "merged" /\ To(v, "subgraph")
           \/ ingest[v].job = "combined" /\ To(v, "indexing")
  <1>1. /\ ingest[v].job = "parent" => Goto(v, "mentions")
        /\ ingest[v].job = "merged" => Goto(v, "subgraph")
        /\ ingest[v].job = "combined" => Goto(v, "indexing")
    BY DEF StoreEdges
  <1>2. ingest[v].job \in {"parent", "merged", "combined"}
    BY DEF StoreEdges, At, RowsOK, Rows, IngestInv, IngestOK
  <1> QED BY <1>1, <1>2, GotoTyped DEF To, Places

LEMMA StoreMentionsMoves ==
    ASSUME RowsOK, NEW v \in Versions, StoreMentions(v)
    PROVE  \/ ingest[v].parent = Len(chunks[v].parents) /\ To(v, "extracting")
           \/ /\ ingest[v].parent # Len(chunks[v].parents)
              /\ Moved(v, [ingest[v] EXCEPT !.at = "nodes", !.parent = ingest[v].parent + 1])
  <1>1. /\ ingest[v] \in Rows /\ {"nodes", "extracting"} \subseteq Places
        /\ ingest[v].parent + 1 \in Nat
    BY DEF RowsOK, Places, Rows
  <1>2. <<v, ingest[v].parent>>[2] = ingest[v].parent
    OBVIOUS
  <1>3. /\ [ingest[v] EXCEPT !.at = "extracting"] \in Rows
        /\ [ingest[v] EXCEPT !.at = "nodes", !.parent = ingest[v].parent + 1] \in Rows
    BY <1>1, SetRow
  <1>4. CASE ingest[v].parent = Len(chunks[v].parents)
    <2>1. ingest' = [ingest EXCEPT ![v] = [ingest[v] EXCEPT !.at = "extracting"]]
      BY <1>2, <1>4 DEF StoreMentions
    <2> QED BY <1>3, <1>4, <2>1, MovedTyped DEF To
  <1>5. CASE ingest[v].parent # Len(chunks[v].parents)
    <2>1. ingest' = [ingest EXCEPT ![v] =
                        [ingest[v] EXCEPT !.at = "nodes", !.parent = ingest[v].parent + 1]]
      BY <1>2, <1>5 DEF StoreMentions
    <2> QED BY <1>3, <1>5, <2>1, MovedTyped
  <1> QED BY <1>4, <1>5

LEMMA LoadGraphMoves ==
    ASSUME RowsOK, NEW v \in Versions, LoadGraph(v)
    PROVE  \E place \in {"indexing", "nodes"} :
              Moved(v, [ingest[v] EXCEPT !.at = place, !.job = "combined"])
  <1>1. ingest[v] \in Rows /\ {"indexing", "nodes"} \subseteq Places
    BY DEF RowsOK, Places
  <1>2. PICK place \in {"indexing", "nodes"} :
           ingest' = [ingest EXCEPT ![v].job = "combined", ![v].at = place]
    BY DEF LoadGraph
  <1>3. [ingest[v] EXCEPT !.at = place, !.job = "combined"] \in Rows
    BY <1>1, SetRow
  <1>4. ingest' = [ingest EXCEPT ![v] = [ingest[v] EXCEPT !.at = place, !.job = "combined"]]
    <2>1. place \in Places
      BY <1>1
    <2> QED BY <1>2, <2>1, JobFields
  <1>5. Moved(v, [ingest[v] EXCEPT !.at = place, !.job = "combined"])
    BY <1>3, <1>4, MovedTyped
  <1> QED BY <1>5

LEMMA MarkMoves ==
    ASSUME RowsOK, NEW v \in Versions
    PROVE  /\ MarkIndexed(v) =>
                 \/ Stops(v) /\ UNCHANGED removal
                 \/ Published(v, "idle") /\ status' = [status EXCEPT ![v] = "INDEXED"]
           /\ MarkConsolidated(v) =>
                 \/ To(v, "announce") /\ UNCHANGED <<removal, status>> /\ status[v] = "DELETED"
                 \/ Published(v, "announce") /\ status' = [status EXCEPT ![v] = "INDEXED"]
           /\ Announce(v) =>
                 /\ \E then \in {"idle", "extracted"} : Published(v, then)
                 /\ UNCHANGED status
  <1>1. Fail(v) => Stops(v)
    BY FailTyped DEF Stops
  <1>2. End(v) => Stops(v)
    BY EndTyped DEF Stops
  <1>3. Goto(v, "announce") => To(v, "announce")
    BY GotoTyped DEF To, Places
  <1>4. MarkIndexed(v) =>
                 \/ Stops(v) /\ UNCHANGED removal
                 \/ Published(v, "idle") /\ status' = [status EXCEPT ![v] = "INDEXED"]
    BY <1>1, <1>2 DEF MarkIndexed, Record
  <1>5. MarkConsolidated(v) =>
                 \/ To(v, "announce") /\ UNCHANGED <<removal, status>> /\ status[v] = "DELETED"
                 \/ Published(v, "announce") /\ status' = [status EXCEPT ![v] = "INDEXED"]
    BY <1>3 DEF MarkConsolidated, Record
  <1>6. Announce(v) =>
                 /\ \E then \in {"idle", "extracted"} : Published(v, then)
                 /\ UNCHANGED status
    BY DEF Announce
  <1> QED BY <1>4, <1>5, <1>6

LEMMA SwapMoves ==
    ASSUME RowsOK, IngestInv, NEW v \in Versions, SwapReturns(v)
    PROVE  Stops(v) \/ To(v, "announce") \/ To(v, "extracted")
  <1>1. ingest[v].then \in {"idle", "announce", "extracted"}
    BY DEF SwapReturns, At, IngestInv, IngestOK
  <1>2. Fail(v) => Stops(v)
    BY FailTyped DEF Stops
  <1>3. End(v) => Stops(v)
    BY EndTyped DEF Stops
  <1>4. /\ Goto(v, "announce") => To(v, "announce")
        /\ Goto(v, "extracted") => To(v, "extracted")
    BY GotoTyped DEF To, Places
  <1> QED BY <1>1, <1>2, <1>3, <1>4 DEF SwapReturns

LEMMA IngestSteps ==
    ASSUME [Next]_vars
    PROVE  \/ UNCHANGED ingest
           \/ \E v \in Versions :
                 \/ Chunk(v) \/ MarkChunked(v) \/ LoadChunks(v)
                 \/ StoreDocument(v) \/ StoreParents(v) \/ StoreChildren(v) \/ StoreNext(v)
                 \/ Extract(v) \/ Gather(v) \/ StoreNodes(v) \/ StoreEdges(v) \/ StoreMentions(v)
                 \/ MarkExtracted(v) \/ LoadGraph(v) \/ MarkIndexed(v)
                 \/ SaveSubgraph(v) \/ MarkConsolidated(v) \/ Announce(v) \/ SwapReturns(v)
                 \/ QueryRaises(v)
           \/ Reprocess
  BY DEF Next, vars, UserDeletes, BeginRemoval, RemoveSubgraph, DeleteAggregate, BeginPurge,
         PurgeGraph, PurgeRows

LEMMA Streams ==
    ASSUME [Next]_vars
    PROVE  streaming' = streaming
  BY DEF Next, vars, storage, MarkChunked, StoreDocument, StoreParents, StoreChildren, StoreNext,
         Gather, StoreNodes, StoreEdges, StoreMentions, MarkExtracted, LoadGraph, MarkIndexed,
         MarkConsolidated, Announce, SwapReturns, UserDeletes, QueryRaises, RemoveSubgraph,
         DeleteAggregate, PurgeGraph, PurgeRows, Reprocess, Extract, SaveSubgraph, BeginRemoval,
         BeginPurge, Chunk, LoadChunks

LEMMA ChunkedParents ==
    ASSUME NEW t \in Texts \cup {OldText}
    PROVE  \E S : Chunks(t).parents \in Seq(S)
  <1>1. Parents(t) \in Seq(Range(Parents(t)))
    BY TextsAssumption, ChunksWhole
  <1>2. Chunks(t).parents = Parents(t)
    BY DEF Chunks
  <1> QED BY <1>1, <1>2

LEMMA Numbering ==
    ASSUME CutInv, NEW v \in Versions
    PROVE  /\ Len(chunks[v].parents) \in Nat
           /\ DOMAIN chunks[v].parents = 1..Len(chunks[v].parents)
  <1>1. CASE chunks[v] = NoChunks
    BY <1>1 DEF NoChunks
  <1>2. CASE Cut(v)
    <2>1. PICK S : chunks[v].parents \in Seq(S)
      BY <1>2, ChunkedParents DEF CutInv, Cut
    <2> QED BY <2>1
  <1> QED BY <1>1, <1>2 DEF CutInv

LEMMA IngestMoved ==
    ASSUME IngestInv, ChunksStayed, streaming' = streaming, NEW v \in Versions,
           NEW row \in Rows, Moved(v, row), IngestOK(row, v)
    PROVE  IngestInv'
  <1>1. ASSUME NEW u \in Versions
        PROVE  DOMAIN chunks[u].parents \subseteq DOMAIN chunks'[u].parents
    <2>1. CASE chunks[u] = NoChunks
      BY <2>1, NoPassages
    <2> QED BY <2>1 DEF ChunksStayed
  <1>2. ASSUME NEW u \in Versions
        PROVE  IngestOK(ingest[u], u)'
    <2>1. CASE u = v
      <3>1. ingest'[u] = row
        BY <2>1 DEF Moved
      <3> QED BY <1>1, <2>1, <3>1 DEF IngestOK
    <2>2. CASE u # v
      <3>1. ingest'[u] = ingest[u] /\ IngestOK(ingest[u], u)
        BY <2>2 DEF Moved, IngestInv
      <3> QED BY <1>1, <3>1 DEF IngestOK
    <2> QED BY <2>1, <2>2
  <1> QED BY <1>2 DEF IngestInv

LEMMA IngestKept ==
    ASSUME IngestInv, ChunksStayed, streaming' = streaming, UNCHANGED ingest
    PROVE  IngestInv'
  <1>1. ASSUME NEW u \in Versions
        PROVE  DOMAIN chunks[u].parents \subseteq DOMAIN chunks'[u].parents
    <2>1. CASE chunks[u] = NoChunks
      BY <2>1, NoPassages
    <2> QED BY <2>1 DEF ChunksStayed
  <1>2. ASSUME NEW u \in Versions
        PROVE  IngestOK(ingest[u], u)'
    <2>1. IngestOK(ingest[u], u)
      BY DEF IngestInv
    <2> QED BY <1>1, <2>1 DEF IngestOK
  <1> QED BY <1>2 DEF IngestInv

LEMMA ToIngest ==
    ASSUME RowsOK, IngestInv, ChunksStayed, streaming' = streaming, NEW v \in Versions,
           NEW place \in Places \ {"gather", "nodes", "edges", "mentions", "swap"}, To(v, place)
    PROVE  IngestInv'
  <1> DEFINE row == [ingest[v] EXCEPT !.at = place]
  <1>0. ingest[v] \in Rows /\ place \in Places
    BY DEF RowsOK
  <1>1. row \in Rows /\ row.at = place
    <2>1. row \in Rows
      BY <1>0, SetRow
    <2>2. row.at = place
      BY <1>0, RowFields
    <2> QED BY <2>1, <2>2
  <1>2. Moved(v, row)
    BY DEF To
  <1> HIDE DEF row
  <1>3. IngestOK(row, v)
    BY <1>1 DEF IngestOK
  <1> QED BY <1>1, <1>2, <1>3, IngestMoved

LEMMA StopsIngest ==
    ASSUME IngestInv, ChunksStayed, streaming' = streaming, NEW v \in Versions, Stops(v)
    PROVE  IngestInv'
  <1>1. Idle \in Rows /\ IngestOK(Idle, v)
    BY DEF Idle, Rows, Places, IngestOK
  <1> QED BY <1>1, IngestMoved DEF Stops

LEMMA PublishedIngest ==
    ASSUME RowsOK, IngestInv, ChunksStayed, streaming' = streaming, NEW v \in Versions,
           NEW then \in {"idle", "announce", "extracted"}, Published(v, then)
    PROVE  IngestInv'
  <1>0. ingest[v] \in Rows /\ then \in Places /\ "swap" \in Places
    BY DEF RowsOK, Places
  <1>1. PICK place \in {"swap", then} : Moved(v, [ingest[v] EXCEPT !.at = place, !.then = then])
    BY PublishedTyped DEF Versions
  <1> DEFINE row == [ingest[v] EXCEPT !.at = place, !.then = then]
  <1>2. row \in Rows
    BY <1>0, SetRow
  <1>3. row.at = place /\ row.then = then
    BY <1>0 DEF Rows
  <1>4. Moved(v, row)
    BY <1>1
  <1> HIDE DEF row
  <1>5. IngestOK(row, v)
    BY <1>3 DEF IngestOK
  <1> QED BY <1>2, <1>4, <1>5, IngestMoved

LEMMA IngestStep ==
    ASSUME RowsOK, CutInv, IngestInv, ChunksStayed, [Next]_vars
    PROVE  IngestInv'
  <1>0. streaming' = streaming
    BY Streams
  <1>1. CASE UNCHANGED ingest
    BY <1>0, <1>1, IngestKept
  <1>2. ASSUME NEW v \in Versions,
               \/ Chunk(v) \/ MarkChunked(v) \/ LoadChunks(v)
               \/ StoreDocument(v) \/ StoreParents(v) \/ StoreChildren(v) \/ StoreNext(v)
               \/ MarkExtracted(v) \/ SaveSubgraph(v) \/ QueryRaises(v)
        PROVE  IngestInv'
    <2>1. CASE Stops(v)
      BY <1>0, <2>1, StopsIngest
    <2>2. ASSUME NEW place \in {"chunking", "chunked", "document", "parents", "children", "next",
                                "extract", "extracted", "consolidated"}, To(v, place)
          PROVE  IngestInv'
      BY <1>0, <2>2, ToIngest DEF Places
    <2> QED BY <1>2, <2>1, <2>2, SimpleMoves
  <1>3. ASSUME NEW v \in Versions, StoreNodes(v) PROVE IngestInv'
    <2> DEFINE row == [ingest[v] EXCEPT !.at = "edges"]
    <2>1. Moved(v, row)
      BY <1>3, SimpleMoves DEF To
    <2>2. row \in Rows
      BY SetRow DEF RowsOK, Places
    <2>3. row.at = "edges" /\ row.job = ingest[v].job /\ row.parent = ingest[v].parent
      BY RowFields DEF RowsOK
    <2>4. ingest[v].at = "nodes" /\ IngestOK(ingest[v], v)
      BY <1>3 DEF StoreNodes, At, IngestInv
    <2> HIDE DEF row
    <2>5. IngestOK(row, v)
      BY <2>3, <2>4 DEF IngestOK
    <2> QED BY <1>0, <2>1, <2>2, <2>5, IngestMoved
  <1>4. ASSUME NEW v \in Versions, Extract(v) PROVE IngestInv'
    <2>0. ingest[v] \in Rows
      BY DEF RowsOK
    <2>1. CASE To(v, "extracting")
      BY <1>0, <2>1, ToIngest DEF Places
    <2>2. CASE streaming /\ Moved(v, [ingest[v] EXCEPT !.at = "gather", !.job = "merged"])
      <3> DEFINE row == [ingest[v] EXCEPT !.at = "gather", !.job = "merged"]
      <3>1. row \in Rows
        BY <2>0, SetRow DEF Places
      <3>2. row.at = "gather" /\ row.job = "merged"
        BY <2>0 DEF Rows
      <3>3. Moved(v, row)
        BY <2>2
      <3> HIDE DEF row
      <3>4. IngestOK(row, v)
        BY <2>2, <3>2 DEF IngestOK
      <3> QED BY <1>0, <3>1, <3>3, <3>4, IngestMoved
    <2>3. CASE /\ chunks[v].parents # <<>>
               /\ Moved(v, [ingest[v] EXCEPT !.at = "nodes", !.job = "parent", !.parent = 1])
      <3> DEFINE row == [ingest[v] EXCEPT !.at = "nodes", !.job = "parent", !.parent = 1]
      <3>1. row \in Rows
        BY <2>0, SetRow DEF Places
      <3>2. row.at = "nodes" /\ row.job = "parent" /\ row.parent = 1
        BY <2>0 DEF Rows
      <3>3. Moved(v, row)
        BY <2>3
      <3> HIDE DEF row
      <3>4. 1 \in DOMAIN chunks[v].parents
        <4>1. chunks[v] # NoChunks
          BY <2>3 DEF NoChunks
        <4>2. chunks[v].parents = Chunks(text[v]).parents /\ text[v] \in Texts \cup {OldText}
          BY <4>1 DEF CutInv, Cut
        <4>3. PICK S : chunks[v].parents \in Seq(S)
          BY <4>2, ChunkedParents
        <4>4. Len(chunks[v].parents) # 0
          BY <2>3, <4>3, EmptySeq
        <4> QED BY <4>4, Numbering
      <3>5. IngestOK(row, v)
        BY <3>2, <3>4 DEF IngestOK
      <3> QED BY <1>0, <3>1, <3>3, <3>5, IngestMoved
    <2>4. CASE Stops(v)
      BY <1>0, <2>4, StopsIngest
    <2> QED BY <1>4, <2>1, <2>2, <2>3, <2>4, ExtractMoves
  <1>5. ASSUME NEW v \in Versions, Gather(v) PROVE IngestInv'
    <2>0. ingest[v] \in Rows /\ ingest[v].at = "gather" /\ IngestOK(ingest[v], v)
      BY <1>5 DEF RowsOK, Gather, At, IngestInv
    <2>1. PICK b \in BOOLEAN : Moved(v, [ingest[v] EXCEPT !.at = "nodes", !.found = b])
      BY <1>5, GatherMoves
    <2> DEFINE row == [ingest[v] EXCEPT !.at = "nodes", !.found = b]
    <2>2. row \in Rows
      BY <2>0, SetRow DEF Places
    <2>3. row.at = "nodes" /\ row.job = ingest[v].job
      BY <2>0 DEF Rows
    <2>4. Moved(v, row)
      BY <2>1
    <2> HIDE DEF row
    <2>5. IngestOK(row, v)
      BY <2>0, <2>3 DEF IngestOK
    <2> QED BY <1>0, <2>2, <2>4, <2>5, IngestMoved
  <1>6. ASSUME NEW v \in Versions, StoreEdges(v) PROVE IngestInv'
    <2>1. CASE To(v, "subgraph") \/ To(v, "indexing")
      BY <1>0, <2>1, ToIngest DEF Places
    <2>2. CASE ingest[v].job = "parent" /\ To(v, "mentions")
      <3> DEFINE row == [ingest[v] EXCEPT !.at = "mentions"]
      <3>1. row \in Rows
        BY SetRow DEF RowsOK, Places
      <3>2. row.at = "mentions" /\ row.job = ingest[v].job /\ row.parent = ingest[v].parent
        BY RowFields DEF RowsOK
      <3>3. Moved(v, row)
        BY <2>2 DEF To
      <3>4. ingest[v].at = "edges" /\ IngestOK(ingest[v], v)
        BY <1>6 DEF StoreEdges, At, IngestInv
      <3> HIDE DEF row
      <3>5. IngestOK(row, v)
        BY <2>2, <3>2, <3>4 DEF IngestOK
      <3> QED BY <1>0, <3>1, <3>3, <3>5, IngestMoved
    <2> QED BY <1>6, <2>1, <2>2, StoreEdgesMoves
  <1>7. ASSUME NEW v \in Versions, StoreMentions(v) PROVE IngestInv'
    <2>0. ingest[v] \in Rows /\ ingest[v].at = "mentions" /\ IngestOK(ingest[v], v)
      BY <1>7 DEF RowsOK, StoreMentions, At, IngestInv
    <2>1. CASE To(v, "extracting")
      BY <1>0, <2>1, ToIngest DEF Places
    <2>2. CASE /\ ingest[v].parent # Len(chunks[v].parents)
               /\ Moved(v, [ingest[v] EXCEPT !.at = "nodes", !.parent = ingest[v].parent + 1])
      <3> DEFINE row == [ingest[v] EXCEPT !.at = "nodes", !.parent = ingest[v].parent + 1]
      <3>0. ingest[v].parent + 1 \in Nat
        BY <2>0 DEF Rows
      <3>1. row \in Rows
        BY <2>0, <3>0, SetRow DEF Places
      <3>2. row.at = "nodes" /\ row.job = ingest[v].job /\ row.parent = ingest[v].parent + 1
        BY <2>0 DEF Rows
      <3>3. Moved(v, row)
        BY <2>2
      <3> HIDE DEF row
      <3>4. ingest[v].job = "parent" /\ ingest[v].parent \in DOMAIN chunks[v].parents
        BY <2>0 DEF IngestOK
      <3>5. ingest[v].parent + 1 \in DOMAIN chunks[v].parents
        BY <2>2, <3>4, Numbering
      <3>6. IngestOK(row, v)
        BY <3>2, <3>4, <3>5 DEF IngestOK
      <3> QED BY <1>0, <3>1, <3>3, <3>6, IngestMoved
    <2> QED BY <1>7, <2>1, <2>2, StoreMentionsMoves
  <1>8. ASSUME NEW v \in Versions, LoadGraph(v) PROVE IngestInv'
    <2>0. ingest[v] \in Rows
      BY DEF RowsOK
    <2>1. PICK place \in {"indexing", "nodes"} :
             Moved(v, [ingest[v] EXCEPT !.at = place, !.job = "combined"])
      BY <1>8, LoadGraphMoves
    <2> DEFINE row == [ingest[v] EXCEPT !.at = place, !.job = "combined"]
    <2>2. place \in Places
      BY DEF Places
    <2>3. row \in Rows
      BY <2>0, <2>2, SetRow
    <2>4. row.at = place /\ row.job = "combined"
      BY <2>0 DEF Rows
    <2>5. Moved(v, row)
      BY <2>1
    <2> HIDE DEF row
    <2>6. IngestOK(row, v)
      BY <2>4 DEF IngestOK
    <2> QED BY <1>0, <2>3, <2>5, <2>6, IngestMoved
  <1>9. ASSUME NEW v \in Versions, MarkIndexed(v) \/ MarkConsolidated(v) \/ Announce(v)
        PROVE  IngestInv'
    <2>1. CASE Stops(v)
      BY <1>0, <2>1, StopsIngest
    <2>2. CASE To(v, "announce")
      BY <1>0, <2>2, ToIngest DEF Places
    <2>3. ASSUME NEW then \in {"idle", "announce", "extracted"}, Published(v, then)
          PROVE  IngestInv'
      BY <1>0, <2>3, PublishedIngest
    <2> QED BY <1>9, <2>1, <2>2, <2>3, MarkMoves
  <1>10. ASSUME NEW v \in Versions, SwapReturns(v) PROVE IngestInv'
    <2>1. CASE Stops(v)
      BY <1>0, <2>1, StopsIngest
    <2>2. CASE To(v, "announce") \/ To(v, "extracted")
      BY <1>0, <2>2, ToIngest DEF Places
    <2> QED BY <1>10, <2>1, <2>2, SwapMoves
  <1>11. CASE Reprocess
    <2>1. To("old", "parsed")
      BY <1>11, GotoTyped DEF Reprocess, To, Places, Versions
    <2> QED BY <1>0, <2>1, ToIngest DEF Places, Versions
  <1> QED BY <1>1, <1>2, <1>3, <1>4, <1>5, <1>6, <1>7, <1>8, <1>9, <1>10, <1>11, IngestSteps
-----------------------------------------------------------------------------
(* The rows stay rows. *)

LEMMA IngestTyped ==
    ASSUME RowsOK, IngestInv, [Next]_vars
    PROVE  ingest' \in [Versions -> Rows]
  <1>1. CASE UNCHANGED ingest
    BY <1>1 DEF RowsOK
  <1>2. ASSUME NEW v \in Versions,
               \/ Chunk(v) \/ MarkChunked(v) \/ LoadChunks(v)
               \/ StoreDocument(v) \/ StoreParents(v) \/ StoreChildren(v) \/ StoreNext(v)
               \/ StoreNodes(v) \/ MarkExtracted(v) \/ SaveSubgraph(v) \/ QueryRaises(v)
        PROVE  ingest' \in [Versions -> Rows]
    BY <1>2, SimpleMoves DEF To, Stops, Moved
  <1>3. ASSUME NEW v \in Versions,
               Extract(v) \/ Gather(v) \/ StoreEdges(v) \/ StoreMentions(v) \/ LoadGraph(v)
        PROVE  ingest' \in [Versions -> Rows]
    BY <1>3, ExtractMoves, GatherMoves, StoreEdgesMoves, StoreMentionsMoves, LoadGraphMoves
       DEF To, Stops, Moved
  <1>4. ASSUME NEW v \in Versions, MarkIndexed(v) \/ MarkConsolidated(v) \/ Announce(v)
        PROVE  ingest' \in [Versions -> Rows]
    <2>1. ASSUME NEW then \in {"idle", "announce", "extracted"}, Published(v, then)
          PROVE  ingest' \in [Versions -> Rows]
      BY <2>1, PublishedTyped DEF Moved, Versions
    <2> QED BY <1>4, <2>1, MarkMoves DEF To, Stops, Moved
  <1>5. ASSUME NEW v \in Versions, SwapReturns(v) PROVE ingest' \in [Versions -> Rows]
    BY <1>5, SwapMoves DEF To, Stops, Moved
  <1>6. CASE Reprocess
    BY <1>6, GotoTyped DEF Reprocess, Moved, Places, Versions
  <1> QED BY <1>1, <1>2, <1>3, <1>4, <1>5, <1>6, IngestSteps

StatusTyped == status' \in [Versions -> Statuses] /\ current' \subseteq Versions \cup Callers
LEMMA StatusStep ==
    ASSUME RowsOK, [Next]_vars
    PROVE  StatusTyped
  <1>1. CASE UNCHANGED <<status, current>>
    BY <1>1 DEF StatusTyped, RowsOK
  <1>2. ASSUME NEW v \in Versions, Fail(v) PROVE StatusTyped
    BY <1>2, FailTyped DEF StatusTyped
  <1>3. ASSUME NEW h \in Versions \cup Callers, Load(h), UNCHANGED status PROVE StatusTyped
    BY <1>3 DEF StatusTyped, RowsOK, Load
  <1>4. ASSUME NEW v \in Versions, NEW s \in Statuses, Record(v, s) PROVE StatusTyped
    BY <1>4, RecordTyped DEF StatusTyped
  <1>5. ASSUME NEW v \in Versions, Chunk(v) \/ LoadChunks(v) \/ LoadGraph(v) PROVE StatusTyped
    BY <1>1, <1>2, <1>3, <1>5 DEF Chunk, LoadChunks, LoadGraph
  <1>6. ASSUME NEW v \in Versions, MarkChunked(v) \/ MarkExtracted(v) PROVE StatusTyped
    BY <1>2, <1>4, <1>6 DEF MarkChunked, MarkExtracted, Statuses
  <1>7. ASSUME NEW v \in Versions, MarkIndexed(v) \/ MarkConsolidated(v) PROVE StatusTyped
    BY <1>2, <1>4, <1>7 DEF MarkIndexed, MarkConsolidated, Statuses
  <1>8. ASSUME NEW v \in Versions, SwapReturns(v) \/ QueryRaises(v) PROVE StatusTyped
    BY <1>1, <1>2, <1>8 DEF SwapReturns, QueryRaises
  <1>9. ASSUME NEW c \in Callers, BeginRemoval(c) PROVE StatusTyped
    BY <1>1, <1>3, <1>9 DEF BeginRemoval
  <1>10. ASSUME NEW c \in Callers, DeleteAggregate(c) PROVE StatusTyped
    <2>1. removal[c].version \in Versions
      BY DEF RowsOK, Removals
    <2> QED BY <1>1, <1>4, <1>10, <2>1 DEF DeleteAggregate, Statuses
  <1>11. CASE Reprocess
    BY <1>4, <1>11 DEF Reprocess, Statuses, Versions
  <1> QED BY <1>1, <1>5, <1>6, <1>7, <1>8, <1>9, <1>10, <1>11
      DEF Next, vars, StoreDocument, StoreParents, StoreChildren, StoreNext, Extract, Gather,
          StoreNodes, StoreEdges, StoreMentions, SaveSubgraph, Announce, UserDeletes,
          RemoveSubgraph, BeginPurge, PurgeGraph, PurgeRows

LEMMA RemovalRows ==
    ASSUME NEW r \in Removals
    PROVE  /\ r.version \in Versions /\ [r EXCEPT !.at = "graph"] \in Removals
           /\ [r EXCEPT !.at = "aggregate"] \in Removals /\ [r EXCEPT !.at = "raised"] \in Removals
           /\ NoRemoval \in Removals /\ NoRemoval.at = "idle" /\ NoRemoval.version = "old"
           /\ \A v \in Versions : [at |-> "begin", version |-> v] \in Removals
           /\ \A place : /\ [r EXCEPT !.at = place].at = place
                         /\ [r EXCEPT !.at = place].version = r.version
  BY DEF Removals, NoRemoval, Versions

LEMMA RemovalMoves ==
    ASSUME removal \in [Callers -> Removals], NEW c \in Callers
    PROVE  /\ BeginRemoval(c) =>
                 \/ base = "deleted" /\ removal' = [removal EXCEPT ![c] = NoRemoval]
                 \/ base # "deleted"
                    /\ removal' = [removal EXCEPT ![c] = [removal[c] EXCEPT !.at = "graph"]]
           /\ RemoveSubgraph(c) =>
                 removal' = [removal EXCEPT ![c] = [removal[c] EXCEPT !.at = "aggregate"]]
           /\ DeleteAggregate(c) =>
                 \/ removal' = [removal EXCEPT ![c] = NoRemoval]
                 \/ removal' = [removal EXCEPT ![c] = [removal[c] EXCEPT !.at = "raised"]]
                    /\ c = "swap"
  <1>1. BeginRemoval(c) =>
                 \/ base = "deleted" /\ removal' = [removal EXCEPT ![c] = NoRemoval]
                 \/ base # "deleted"
                    /\ removal' = [removal EXCEPT ![c] = [removal[c] EXCEPT !.at = "graph"]]
    BY DEF BeginRemoval, Leave
  <1>2. RemoveSubgraph(c) =>
                 removal' = [removal EXCEPT ![c] = [removal[c] EXCEPT !.at = "aggregate"]]
    BY DEF RemoveSubgraph
  <1>3. DeleteAggregate(c) =>
                 \/ removal' = [removal EXCEPT ![c] = NoRemoval]
                 \/ removal' = [removal EXCEPT ![c] = [removal[c] EXCEPT !.at = "raised"]]
                    /\ c = "swap"
    BY DEF DeleteAggregate, Leave
  <1> QED BY <1>1, <1>2, <1>3

LEMMA RemovalTyped ==
    ASSUME RowsOK, [Next]_vars
    PROVE  removal' \in [Callers -> Removals]
  <1>0. removal \in [Callers -> Removals]
    BY DEF RowsOK
  <1>1. CASE UNCHANGED removal
    BY <1>0, <1>1
  <1>2. ASSUME NEW v \in Versions, MarkIndexed(v) \/ MarkConsolidated(v) \/ Announce(v)
        PROVE  removal' \in [Callers -> Removals]
    <2>1. ASSUME NEW then \in {"idle", "announce", "extracted"}, Published(v, then)
          PROVE  removal' \in [Callers -> Removals]
      BY <2>1, PublishedTyped
    <2> QED BY <1>1, <1>2, <2>1, MarkMoves
  <1>3. ASSUME NEW v \in Versions, UserDeletes(v) \/ SwapReturns(v)
        PROVE  removal' \in [Callers -> Removals]
    BY <1>0, <1>3, RemovalRows DEF UserDeletes, SwapReturns
  <1>4. ASSUME NEW c \in Callers, BeginRemoval(c) PROVE removal' \in [Callers -> Removals]
    <2>1. removal[c] \in Removals /\ NoRemoval \in Removals
          /\ [removal[c] EXCEPT !.at = "graph"] \in Removals
      BY <1>0, RemovalRows
    <2>2. \/ removal' = [removal EXCEPT ![c] = NoRemoval]
          \/ removal' = [removal EXCEPT ![c] = [removal[c] EXCEPT !.at = "graph"]]
      BY <1>0, <1>4, RemovalMoves
    <2> QED BY <1>0, <2>1, <2>2
  <1>5. ASSUME NEW c \in Callers, RemoveSubgraph(c) PROVE removal' \in [Callers -> Removals]
    BY <1>0, <1>5, RemovalRows DEF RemoveSubgraph
  <1>6. ASSUME NEW c \in Callers, DeleteAggregate(c) PROVE removal' \in [Callers -> Removals]
    <2>1. removal[c] \in Removals /\ NoRemoval \in Removals
          /\ [removal[c] EXCEPT !.at = "raised"] \in Removals
      BY <1>0, RemovalRows
    <2>2. \/ removal' = [removal EXCEPT ![c] = NoRemoval]
          \/ removal' = [removal EXCEPT ![c] = [removal[c] EXCEPT !.at = "raised"]]
      BY <1>0, <1>6, RemovalMoves
    <2> QED BY <1>0, <2>1, <2>2
  <1> QED BY <1>1, <1>2, <1>3, <1>4, <1>5, <1>6
      DEF Next, vars, Chunk, MarkChunked, LoadChunks, StoreDocument, StoreParents, StoreChildren,
          StoreNext, Extract, Gather, StoreNodes, StoreEdges, StoreMentions, MarkExtracted,
          LoadGraph, SaveSubgraph, QueryRaises, BeginPurge, PurgeGraph, PurgeRows, Reprocess

LEMMA RowsStep ==
    ASSUME RowsOK, IngestInv, [Next]_vars
    PROVE  RowsOK'
  <1>1. ingest' \in [Versions -> Rows] /\ removal' \in [Callers -> Removals] /\ StatusTyped
    BY IngestTyped, RemovalTyped, StatusStep
  <1>2. base' \in {"active", "graph", "rows", "deleted"}
    <2>1. CASE UNCHANGED base
      BY <2>1 DEF RowsOK
    <2>2. CASE BeginPurge \/ PurgeGraph \/ PurgeRows
      BY <2>2 DEF BeginPurge, PurgeGraph, PurgeRows
    <2> QED BY <2>1, <2>2
        DEF Next, vars, Chunk, MarkChunked, LoadChunks, StoreDocument, StoreParents,
           StoreChildren, StoreNext, Extract, Gather, StoreNodes, StoreEdges, StoreMentions,
           MarkExtracted, LoadGraph, MarkIndexed, SaveSubgraph, MarkConsolidated, Announce,
           SwapReturns, UserDeletes, QueryRaises, BeginRemoval, RemoveSubgraph, DeleteAggregate,
           Reprocess
  <1>3. removed' \subseteq Versions /\ left' \subseteq Versions
    <2>1. CASE UNCHANGED history
      BY <2>1 DEF history, RowsOK
    <2>2. ASSUME NEW v \in Versions, StoreDocument(v)
          PROVE  removed' \subseteq Versions /\ left' \subseteq Versions
      BY <2>2 DEF StoreDocument, RowsOK
    <2>3. ASSUME NEW c \in Callers, RemoveSubgraph(c)
          PROVE  removed' \subseteq Versions /\ left' \subseteq Versions
      <3>1. removal[c].version \in Versions
        BY DEF RowsOK, Removals
      <3> QED BY <2>3, <3>1 DEF RemoveSubgraph, RowsOK
    <2> QED BY <2>1, <2>2, <2>3
        DEF Next, vars, Chunk, MarkChunked, LoadChunks, StoreParents,
           StoreChildren, StoreNext, Extract, Gather, StoreNodes, StoreEdges, StoreMentions,
           MarkExtracted, LoadGraph, MarkIndexed, SaveSubgraph, MarkConsolidated, Announce,
           SwapReturns, UserDeletes, QueryRaises, BeginRemoval, DeleteAggregate,
           BeginPurge, PurgeGraph, PurgeRows, Reprocess
  <1> QED BY <1>1, <1>2, <1>3 DEF RowsOK, StatusTyped
-----------------------------------------------------------------------------
(* Chunks. *)

LEMMA FilesStep ==
    ASSUME StoreOK, RowsOK, [Next]_vars, NEW v \in Versions, "chunks" \in files'[v]
    PROVE  "chunks" \in files[v] \/ (Chunk(v) /\ "markdown" \in files[v])
  <1>0. files \in [Versions -> SUBSET {"markdown", "chunks", "checkpoints", "subgraph"}]
    BY DEF StoreOK
  <1>1. CASE UNCHANGED files
    BY <1>1
  <1>2. ASSUME NEW u \in Versions, Chunk(u)
        PROVE  "chunks" \in files[v] \/ (Chunk(v) /\ "markdown" \in files[v])
    BY <1>0, <1>2 DEF Chunk
  <1>3. ASSUME NEW u \in Versions, Extract(u) \/ SaveSubgraph(u)
        PROVE  "chunks" \in files[v]
    BY <1>0, <1>3 DEF Extract, SaveSubgraph
  <1>4. ASSUME NEW c \in Callers, BeginRemoval(c)
        PROVE  "chunks" \in files[v]
    BY <1>0, <1>4 DEF BeginRemoval
  <1>5. CASE BeginPurge
    BY <1>5 DEF BeginPurge
  <1> QED BY <1>1, <1>2, <1>3, <1>4, <1>5
        DEF Next, vars, storage, MarkChunked, LoadChunks, StoreDocument, StoreParents,
           StoreChildren, StoreNext, Gather, StoreNodes, StoreEdges, StoreMentions,
           MarkExtracted, LoadGraph, MarkIndexed, MarkConsolidated, Announce,
           SwapReturns, UserDeletes, QueryRaises, RemoveSubgraph, DeleteAggregate,
           PurgeGraph, PurgeRows, Reprocess

\* Who has moved, and from where.
LEMMA WhoMoves ==
    ASSUME RowsOK, IngestInv, [Next]_vars, NEW v \in Versions
    PROVE  \/ ingest'[v] = ingest[v] \/ ingest[v].at \in AfterChunks
           \/ ingest'[v].at \in {"parsed", "idle"}
           \/ (Chunk(v) /\ To(v, "chunking"))
  <1> DEFINE Goal == \/ ingest'[v] = ingest[v] \/ ingest[v].at \in AfterChunks
                     \/ ingest'[v].at \in {"parsed", "idle"}
                     \/ (Chunk(v) /\ To(v, "chunking"))
  <1>1. CASE UNCHANGED ingest
    BY <1>1
  <1>2. ASSUME NEW u \in Versions, u # v,
               \/ Chunk(u) \/ MarkChunked(u) \/ LoadChunks(u)
               \/ StoreDocument(u) \/ StoreParents(u) \/ StoreChildren(u) \/ StoreNext(u)
               \/ StoreNodes(u) \/ MarkExtracted(u) \/ SaveSubgraph(u) \/ QueryRaises(u)
        PROVE  Goal
    BY <1>2, SimpleMoves DEF To, Stops, Moved
  <1>3. ASSUME NEW u \in Versions, u # v,
               Extract(u) \/ Gather(u) \/ StoreEdges(u) \/ StoreMentions(u) \/ LoadGraph(u)
        PROVE  Goal
    BY <1>3, ExtractMoves, GatherMoves, StoreEdgesMoves, StoreMentionsMoves, LoadGraphMoves
       DEF To, Stops, Moved
  <1>4. ASSUME NEW u \in Versions, u # v, MarkIndexed(u) \/ MarkConsolidated(u) \/ Announce(u)
        PROVE  Goal
    <2>1. ASSUME NEW then \in {"idle", "announce", "extracted"}, Published(u, then)
          PROVE  Goal
      BY <1>4, <2>1, PublishedTyped DEF Moved, Versions
    <2> QED BY <1>4, <2>1, MarkMoves DEF To, Stops, Moved
  <1>5. ASSUME NEW u \in Versions, u # v, SwapReturns(u) PROVE Goal
    BY <1>5, SwapMoves DEF To, Stops, Moved
  <1>6. CASE Reprocess
    <2>1. Moved("old", [ingest["old"] EXCEPT !.at = "parsed"])
      BY <1>6, GotoTyped DEF Reprocess, Places, Versions
    <2>2. [ingest["old"] EXCEPT !.at = "parsed"].at = "parsed"
      BY RowFields DEF RowsOK, Versions
    <2> QED BY <2>1, <2>2 DEF Moved
  <1>7. CASE Chunk(v)
    <2>1. CASE Stops(v)
      BY <2>1 DEF Stops, Moved, Idle
    <2> QED BY <1>7, <2>1, SimpleMoves
  <1>8. CASE \/ MarkChunked(v) \/ LoadChunks(v)
             \/ StoreDocument(v) \/ StoreParents(v) \/ StoreChildren(v) \/ StoreNext(v)
             \/ Extract(v) \/ Gather(v) \/ StoreNodes(v) \/ StoreEdges(v) \/ StoreMentions(v)
    BY <1>8 DEF MarkChunked, LoadChunks, StoreDocument, StoreParents, StoreChildren, StoreNext,
       Extract, Gather, StoreNodes, StoreEdges, StoreMentions, At,
       AfterChunks, AfterDocument, AfterParents, AfterChildren, AfterNext
  <1>9. CASE \/ MarkExtracted(v) \/ LoadGraph(v) \/ MarkIndexed(v)
             \/ SaveSubgraph(v) \/ MarkConsolidated(v) \/ Announce(v) \/ SwapReturns(v)
             \/ QueryRaises(v)
    BY <1>9 DEF MarkExtracted, LoadGraph, MarkIndexed, SaveSubgraph, MarkConsolidated, Announce,
       SwapReturns, QueryRaises, Queries, At,
       AfterChunks, AfterDocument, AfterParents, AfterChildren, AfterNext, AfterGraph
  <1> QED BY <1>1, <1>2, <1>3, <1>4, <1>5, <1>6, <1>7, <1>8, <1>9, IngestSteps

LEMMA StatusIndexed ==
    ASSUME RowsOK, [Next]_vars, NEW v \in Versions, status'[v] = "INDEXED"
    PROVE  status[v] = "INDEXED" \/ (ingest[v].at \in {"indexing", "consolidated"} /\ status' = [status EXCEPT ![v] = "INDEXED"])
  <1> DEFINE Goal == \/ status[v] = "INDEXED"
                     \/ (ingest[v].at \in {"indexing", "consolidated"} /\ status' = [status EXCEPT ![v] = "INDEXED"])
  <1>0. status \in [Versions -> Statuses]
    BY DEF RowsOK
  <1>1. CASE UNCHANGED status
    BY <1>1
  <1>2. ASSUME NEW u \in Versions, NEW s \in Statuses \ {"INDEXED"}, Record(u, s) PROVE Goal
    BY <1>0, <1>2 DEF Record
  <1>3. ASSUME NEW u \in Versions, Fail(u) PROVE Goal
    BY <1>2, <1>3 DEF Fail, Statuses
  <1>4. ASSUME NEW u \in Versions, Chunk(u) \/ MarkChunked(u) \/ LoadChunks(u) \/ MarkExtracted(u)
               \/ SwapReturns(u) \/ QueryRaises(u)
        PROVE  Goal
    BY <1>1, <1>2, <1>3, <1>4 DEF Chunk, MarkChunked, LoadChunks, MarkExtracted, SwapReturns,
       QueryRaises, Statuses
  <1>5. ASSUME NEW u \in Versions, MarkIndexed(u) \/ MarkConsolidated(u) PROVE Goal
    <2>1. CASE Record(u, "INDEXED")
      <3>1. CASE u # v
        BY <1>0, <2>1, <3>1 DEF Record
      <3>2. CASE u = v
        BY <1>0, <1>1, <1>5, <2>1, <3>2 DEF Record, MarkIndexed, MarkConsolidated, At
      <3> QED BY <3>1, <3>2
    <2> QED BY <1>3, <1>5, <2>1 DEF MarkIndexed, MarkConsolidated
  <1>6. ASSUME NEW c \in Callers, DeleteAggregate(c) PROVE Goal
    <2>1. removal[c].version \in Versions
      BY DEF RowsOK, Removals
    <2> QED BY <1>1, <1>2, <1>6, <2>1 DEF DeleteAggregate, Statuses
  <1>7. CASE Reprocess
    BY <1>2, <1>7 DEF Reprocess, Statuses, Versions
  <1> QED BY <1>1, <1>4, <1>5, <1>6, <1>7
      DEF Next, vars, StoreDocument, StoreParents, StoreChildren, StoreNext, Extract, Gather,
          StoreNodes, StoreEdges, StoreMentions, LoadGraph, SaveSubgraph, Announce, UserDeletes,
          BeginRemoval, RemoveSubgraph, BeginPurge, PurgeGraph, PurgeRows

LEMMA CutStep ==
    ASSUME StoreOK, RowsOK, CutInv, IngestInv, ChunksStayed, [Next]_vars
    PROVE  CutInv'
  <1>1. \A v \in Versions : (text[v] \in Texts \cup {OldText})'
    BY DEF CutInv, ChunksStayed
  <1>2. \A v \in Versions : (chunks[v] = NoChunks \/ Cut(v))'
    BY DEF CutInv, ChunksStayed, Cut
  <1>3. Cut("old")'
    BY CutStays DEF CutInv, Versions
  <1>4. ASSUME NEW v \in Versions,
               ("chunks" \in files[v] \/ status[v] = "INDEXED" \/ ingest[v].at \in AfterChunks)'
        PROVE  Cut(v)'
    <2>1. CASE Cut(v)
      BY <2>1, CutStays
    <2>2. CASE Chunk(v) /\ "markdown" \in files[v]
      BY <2>2 DEF Chunk, Cut, StoreOK, ChunksStayed
    <2>3. CASE Chunk(v) /\ To(v, "chunking") /\ "markdown" \notin files[v]
      <3>1. Moved(v, Idle)
        BY <2>3, FailTyped DEF Chunk
      <3>2. [ingest[v] EXCEPT !.at = "chunking"].at = "chunking"
        BY RowFields DEF RowsOK
      <3> QED BY <2>3, <3>1, <3>2 DEF To, Moved, Idle
    <2>4. CASE "chunks" \in files'[v]
      BY <2>1, <2>2, <2>4, FilesStep DEF CutInv
    <2>5. CASE status'[v] = "INDEXED"
      <3>1. status[v] = "INDEXED" \/ ingest[v].at \in AfterChunks
        BY <2>5, StatusIndexed DEF AfterChunks, AfterDocument, AfterParents, AfterChildren,
           AfterNext, AfterGraph
      <3> QED BY <2>1, <3>1 DEF CutInv
    <2>6. CASE ingest'[v].at \in AfterChunks
      <3>1. ingest'[v].at \notin {"parsed", "idle"}
        BY <2>6 DEF AfterChunks, AfterDocument, AfterParents, AfterChildren, AfterNext, AfterGraph
      <3>2. ingest[v].at \in AfterChunks \/ (Chunk(v) /\ To(v, "chunking"))
        BY <2>6, <3>1, WhoMoves
      <3> QED BY <2>1, <2>2, <2>3, <3>2 DEF CutInv
    <2> QED BY <1>4, <2>4, <2>5, <2>6
  <1> QED BY <1>1, <1>2, <1>3, <1>4 DEF CutInv
-----------------------------------------------------------------------------
(* The shape of the graph. *)

LEMMA PassageNames ==
    ASSUME NEW v \in Versions
    PROVE  /\ \A p \in ParentsOf(v) : p[1] = v /\ p = <<p[1], p[2]>>
           /\ \A c \in ChildrenIn(v) : c[1] = v
           /\ \A s \in Successions(v) : s[1] \in ParentsOf(v) /\ s[2] \in ParentsOf(v)
  BY DEF ParentsOf, ChildrenIn, Numbered, Successions

LEMMA SubgraphNames ==
    ASSUME NEW v
    PROVE  /\ \A n \in Subgraph(v) : n[1] = v
           /\ v \in graph.documents => <<v>> \in Subgraph(v)
           /\ v \in graph.documents => \A p \in graph.parents : p[1] = v => p \in Subgraph(v)
           /\ v \in graph.documents => \A c \in graph.children :
                 c[1] = v /\ <<v, c[2]>> \in graph.parents => c \in Subgraph(v)
  <1> DEFINE parts == {c \in graph.children : c[1] = v /\ <<v, c[2]>> \in graph.parents}
  <1>1. Subgraph(v) = IF v \notin graph.documents THEN {}
                      ELSE {<<v>>} \cup {p \in graph.parents : p[1] = v} \cup parts
    BY DEF Subgraph
  <1>2. \A c \in parts : c[1] = v
    OBVIOUS
  <1>3. \A c \in graph.children : c[1] = v /\ <<v, c[2]>> \in graph.parents => c \in parts
    OBVIOUS
  <1>4. <<v>>[1] = v
    OBVIOUS
  <1> HIDE DEF parts
  <1> QED BY <1>1, <1>2, <1>3, <1>4

\* A removal takes all of the version, and nothing else.
LEMMA Detachment ==
    ASSUME GraphOK, ShapeInv, NEW v \in Versions, graph' = Detached(Subgraph(v))
    PROVE  /\ DOMAIN graph' = Fields /\ graph'.documents = graph.documents \ {v}
           /\ graph'.parents = {p \in graph.parents : p[1] # v}
           /\ graph'.children = {c \in graph.children : c[1] # v}
           /\ graph'.next = {s \in graph.next : s[1][1] # v /\ s[2][1] # v}
           /\ graph'.mentions = {m \in graph.mentions : m[1][1] # v}
           /\ graph'.entities = graph.entities /\ graph'.relations = graph.relations
  <1> DEFINE nodes == Subgraph(v)
  <1>1. graph' = Detached(nodes) /\ DOMAIN graph = Fields
    BY DEF GraphOK
  <1>2. /\ \A n \in nodes : n[1] = v
        /\ v \in graph.documents => <<v>> \in nodes
        /\ v \in graph.documents => \A p \in graph.parents : p[1] = v => p \in nodes
        /\ v \in graph.documents => \A c \in graph.children :
                 c[1] = v /\ <<v, c[2]>> \in graph.parents => c \in nodes
    BY SubgraphNames
  <1> HIDE DEF nodes
  <1>3. /\ DOMAIN graph' = Fields
        /\ graph'.documents = {d \in graph.documents : <<d>> \notin nodes}
        /\ graph'.parents = graph.parents \ nodes /\ graph'.children = graph.children \ nodes
        /\ graph'.next = {s \in graph.next : {s[1], s[2]} \cap nodes = {}}
        /\ graph'.mentions = {m \in graph.mentions : m[1] \notin nodes}
        /\ graph'.entities = graph.entities /\ graph'.relations = graph.relations
    BY <1>1, DetachedFields
  <1>4. \A d : <<d>>[1] = d
    OBVIOUS
  <1>5. graph'.documents = graph.documents \ {v}
    BY <1>2, <1>3, <1>4
  <1>6. \A p \in graph.parents : p \in nodes <=> p[1] = v
    BY <1>2 DEF ShapeInv
  <1>7. \A c \in graph.children : c \in nodes <=> c[1] = v
    <2> SUFFICES ASSUME NEW c \in graph.children, c[1] = v PROVE c \in nodes
      BY <1>2
    <2>1. <<c[1], c[2]>> \in graph.parents
      BY DEF ShapeInv
    <2>2. <<c[1], c[2]>>[1] = v
      OBVIOUS
    <2>3. v \in graph.documents
      BY <2>1, <2>2 DEF ShapeInv
    <2> QED BY <1>2, <2>1, <2>3
  <1>8. /\ graph'.parents = {p \in graph.parents : p[1] # v}
        /\ graph'.children = {c \in graph.children : c[1] # v}
    BY <1>3, <1>6, <1>7
  <1>9. graph'.next = {s \in graph.next : s[1][1] # v /\ s[2][1] # v}
    <2>1. \A s \in graph.next : s[1] \in graph.parents /\ s[2] \in graph.parents
      BY DEF GraphOK
    <2> QED BY <1>3, <1>6, <2>1
  <1>10. graph'.mentions = {m \in graph.mentions : m[1][1] # v}
    <2>1. \A m \in graph.mentions : m[1] \in graph.parents
      BY DEF GraphOK
    <2> QED BY <1>3, <1>6, <2>1
  <1> QED BY <1>3, <1>5, <1>8, <1>9, <1>10

LEMMA ShapeStep ==
    ASSUME RowsOK, GraphOK, ShapeInv, [Next]_vars
    PROVE  ShapeInv'
  <1>0. DOMAIN graph = Fields
    BY DEF GraphOK
  <1>1. CASE UNCHANGED graph
    BY <1>1 DEF ShapeInv
  <1>2. ASSUME NEW v \in Versions, StoreDocument(v) PROVE ShapeInv'
    <2>1. Only({"documents"}) /\ graph'.documents = graph.documents \cup {v}
      BY <1>0, <1>2, StoreFields
    <2> QED BY <2>1 DEF ShapeInv, Only, Fields
  <1>3. ASSUME NEW v \in Versions, StoreParents(v) PROVE ShapeInv'
    <2>1. Only({"parents"})
          /\ graph'.parents = IF Attachable(v) THEN graph.parents \cup ParentsOf(v)
                              ELSE graph.parents
      BY <1>0, <1>3, StoreFields
    <2>2. \A p \in graph'.parents : p[1] \in graph.documents
      BY <2>1, PassageNames DEF ShapeInv, Attachable
    <2>3. graph.parents \subseteq graph'.parents
      BY <2>1
    <2> QED BY <2>1, <2>2, <2>3 DEF ShapeInv, Only, Fields
  <1>4. ASSUME NEW v \in Versions, StoreChildren(v) PROVE ShapeInv'
    <2>1. Only({"children"}) /\ graph'.children = graph.children \cup
             {c \in ChildrenIn(v) : <<c[1], c[2]>> \in graph.parents}
      BY <1>0, <1>4, StoreFields
    <2>2. \A c \in graph'.children : <<c[1], c[2]>> \in graph.parents
      BY <2>1 DEF ShapeInv
    <2> QED BY <2>1, <2>2 DEF ShapeInv, Only, Fields
  <1>5. ASSUME NEW v \in Versions, StoreNext(v) PROVE ShapeInv'
    <2>1. Only({"next"}) /\ graph'.next = graph.next \cup
                       {s \in Successions(v) : {s[1], s[2]} \subseteq graph.parents}
      BY <1>0, <1>5, StoreFields
    <2>2. \A s \in graph'.next : s[1][1] = s[2][1]
      BY <2>1, PassageNames DEF ShapeInv
    <2> QED BY <2>1, <2>2 DEF ShapeInv, Only, Fields
  <1>6. ASSUME NEW v \in Versions, StoreNodes(v) \/ StoreEdges(v) \/ StoreMentions(v)
        PROVE  ShapeInv'
    <2>1. Only({"entities", "relations", "mentions"})
      BY <1>0, <1>6, StoreFields DEF Only
    <2> QED BY <2>1 DEF ShapeInv, Only, Fields
  <1>7. ASSUME NEW c \in Callers, RemoveSubgraph(c) PROVE ShapeInv'
    <2>1. CASE graph' = graph
      BY <2>1 DEF ShapeInv
    <2>2. CASE graph' = Detached(Subgraph(removal[c].version))
      <3> DEFINE v == removal[c].version
      <3>1. v \in Versions
        BY DEF RowsOK, Removals
      <3>2. /\ graph'.documents = graph.documents \ {v}
            /\ graph'.parents = {p \in graph.parents : p[1] # v}
            /\ graph'.children = {e \in graph.children : e[1] # v}
            /\ graph'.next \subseteq graph.next
        BY <2>2, <3>1, Detachment
      <3> HIDE DEF v
      <3>3. \A e \in graph'.children : <<e[1], e[2]>> \in graph'.parents
        <4> SUFFICES ASSUME NEW e \in graph'.children PROVE <<e[1], e[2]>> \in graph'.parents
          OBVIOUS
        <4>1. <<e[1], e[2]>> \in graph.parents /\ e[1] # v
          BY <3>2 DEF ShapeInv
        <4>2. <<e[1], e[2]>>[1] = e[1]
          OBVIOUS
        <4> QED BY <3>2, <4>1, <4>2
      <3> QED BY <3>2, <3>3 DEF ShapeInv
    <2> QED BY <1>7, <2>1, <2>2 DEF RemoveSubgraph
  <1>8. CASE PurgeGraph
    BY <1>8, PurgedFields DEF ShapeInv, Fields
  <1> QED BY <1>1, <1>2, <1>3, <1>4, <1>5, <1>6, <1>7, <1>8, GraphSteps

LEMMA RemovalsOut ==
    ASSUME RowsOK, GraphOK, ShapeInv, removed \cap graph.documents = {}, [Next]_vars
    PROVE  (removed \cap graph.documents = {})'
  <1>0. DOMAIN graph = Fields
    BY DEF GraphOK
  <1>1. CASE UNCHANGED <<graph, history>>
    BY <1>1 DEF history
  <1>2. ASSUME NEW v \in Versions, StoreDocument(v) PROVE (removed \cap graph.documents = {})'
    <2>1. graph'.documents = graph.documents \cup {v} /\ removed' = removed \ {v}
      BY <1>0, <1>2, StoreFields DEF StoreDocument
    <2> QED BY <2>1
  <1>3. ASSUME NEW v \in Versions, \/ StoreParents(v) \/ StoreChildren(v) \/ StoreNext(v)
                                   \/ StoreNodes(v) \/ StoreEdges(v) \/ StoreMentions(v)
        PROVE  (removed \cap graph.documents = {})'
    <2>1. Only(Fields \ {"documents"})
      BY <1>0, <1>3, StoreFields DEF Only, Fields
    <2>2. removed' = removed
      BY <1>3 DEF StoreParents, StoreChildren, StoreNext, StoreNodes, StoreEdges, StoreMentions,
         history
    <2> QED BY <2>1, <2>2 DEF Only, Fields
  <1>4. ASSUME NEW c \in Callers, RemoveSubgraph(c) PROVE (removed \cap graph.documents = {})'
    <2>1. CASE graph' = graph /\ removed' = removed
      BY <2>1
    <2>2. CASE graph' = Detached(Subgraph(removal[c].version))
               /\ removed' = removed \cup {removal[c].version}
      <3>1. graph'.documents = graph.documents \ {removal[c].version}
        BY <2>2, Detachment DEF RowsOK, Removals
      <3> QED BY <2>2, <3>1
    <2> QED BY <1>4, <2>1, <2>2 DEF RemoveSubgraph
  <1>5. CASE PurgeGraph
    BY <1>5, PurgedFields DEF Fields
  <1> QED BY <1>1, <1>2, <1>3, <1>4, <1>5
      DEF Next, vars, Chunk, MarkChunked, LoadChunks, Extract, Gather, MarkExtracted, LoadGraph,
          MarkIndexed, SaveSubgraph, MarkConsolidated, Announce, SwapReturns, UserDeletes,
          QueryRaises, BeginRemoval, DeleteAggregate, BeginPurge, PurgeRows, Reprocess
-----------------------------------------------------------------------------
(* What is deleted has been removed. *)

LEMMA RemovedStays ==
    ASSUME [Next]_vars
    PROVE  removed \cup left \subseteq removed' \cup left'
  <1>1. CASE UNCHANGED history
    BY <1>1 DEF history
  <1>2. ASSUME NEW v \in Versions, StoreDocument(v)
        PROVE  removed \cup left \subseteq removed' \cup left'
    BY <1>2 DEF StoreDocument
  <1>3. ASSUME NEW c \in Callers, RemoveSubgraph(c)
        PROVE  removed \cup left \subseteq removed' \cup left'
    BY <1>3 DEF RemoveSubgraph
  <1> QED BY <1>1, <1>2, <1>3
      DEF Next, vars, Chunk, MarkChunked, LoadChunks, StoreParents, StoreChildren, StoreNext,
          Extract, Gather, StoreNodes, StoreEdges, StoreMentions, MarkExtracted, LoadGraph,
          MarkIndexed, SaveSubgraph, MarkConsolidated, Announce, SwapReturns, UserDeletes,
          QueryRaises, BeginRemoval, DeleteAggregate, BeginPurge, PurgeGraph, PurgeRows, Reprocess

\* The steps of a removal, and of who starts one.
LEMMA RemovalSteps ==
    ASSUME RowsOK, [Next]_vars
    PROVE  \/ UNCHANGED removal
           \/ \E c \in Callers : BeginRemoval(c) \/ RemoveSubgraph(c) \/ DeleteAggregate(c)
           \/ \E v \in Versions :
                 /\ UserDeletes(v)
                 /\ removal' = [removal EXCEPT !["user"] = [at |-> "begin", version |-> v]]
           \/ /\ MarkIndexed("new") \/ MarkConsolidated("new") \/ Announce("new")
              /\ removal' = [removal EXCEPT !["swap"] = [at |-> "begin", version |-> "old"]]
           \/ removal["swap"].at \in {"idle", "raised"}
              /\ removal' = [removal EXCEPT !["swap"] = NoRemoval]
  <1> DEFINE Goal ==
           \/ UNCHANGED removal
           \/ \E c \in Callers : BeginRemoval(c) \/ RemoveSubgraph(c) \/ DeleteAggregate(c)
           \/ \E v \in Versions :
                 /\ UserDeletes(v)
                 /\ removal' = [removal EXCEPT !["user"] = [at |-> "begin", version |-> v]]
           \/ /\ MarkIndexed("new") \/ MarkConsolidated("new") \/ Announce("new")
              /\ removal' = [removal EXCEPT !["swap"] = [at |-> "begin", version |-> "old"]]
           \/ removal["swap"].at \in {"idle", "raised"}
              /\ removal' = [removal EXCEPT !["swap"] = NoRemoval]
  <1>1. ASSUME NEW v \in Versions, MarkIndexed(v) \/ MarkConsolidated(v) \/ Announce(v)
        PROVE  Goal
    <2>1. ASSUME NEW then \in {"idle", "announce", "extracted"}, Published(v, then)
          PROVE  Goal
      BY <1>1, <2>1, PublishedTyped DEF Versions
    <2> QED BY <1>1, <2>1, MarkMoves
  <1>2. ASSUME NEW v \in Versions, UserDeletes(v) PROVE Goal
    BY <1>2 DEF UserDeletes
  <1>3. ASSUME NEW v \in Versions, SwapReturns(v) PROVE Goal
    BY <1>3 DEF SwapReturns
  <1> QED BY <1>1, <1>2, <1>3
      DEF Next, vars, Chunk, MarkChunked, LoadChunks, StoreDocument, StoreParents, StoreChildren,
          StoreNext, Extract, Gather, StoreNodes, StoreEdges, StoreMentions, MarkExtracted,
          LoadGraph, SaveSubgraph, QueryRaises, BeginPurge, PurgeGraph, PurgeRows, Reprocess

LEMMA StatusDeleted ==
    ASSUME RowsOK, [Next]_vars, NEW v \in Versions, status'[v] = "DELETED"
    PROVE  \/ status[v] = "DELETED"
           \/ \E c \in Callers : removal[c].at = "aggregate" /\ removal[c].version = v
  <1> DEFINE Goal == \/ status[v] = "DELETED"
                     \/ \E c \in Callers : removal[c].at = "aggregate" /\ removal[c].version = v
  <1>0. status \in [Versions -> Statuses]
    BY DEF RowsOK
  <1>1. CASE UNCHANGED status
    BY <1>1
  <1>2. ASSUME NEW u \in Versions, NEW s \in Statuses \ {"DELETED"}, Record(u, s) PROVE Goal
    BY <1>0, <1>2 DEF Record
  <1>3. ASSUME NEW u \in Versions, Fail(u) PROVE Goal
    BY <1>2, <1>3 DEF Fail, Statuses
  <1>4. ASSUME NEW u \in Versions, Chunk(u) \/ MarkChunked(u) \/ LoadChunks(u) \/ MarkExtracted(u)
               \/ MarkIndexed(u) \/ MarkConsolidated(u) \/ SwapReturns(u) \/ QueryRaises(u)
        PROVE  Goal
    BY <1>1, <1>2, <1>3, <1>4 DEF Chunk, MarkChunked, LoadChunks, MarkExtracted, MarkIndexed,
       MarkConsolidated, SwapReturns, QueryRaises, Statuses
  <1>5. ASSUME NEW c \in Callers, DeleteAggregate(c) PROVE Goal
    <2>1. removal[c].at = "aggregate"
      BY <1>5 DEF DeleteAggregate
    <2>2. CASE removal[c].version = v
      BY <2>1, <2>2
    <2>3. CASE removal[c].version # v /\ Record(removal[c].version, "DELETED")
      BY <1>0, <2>3 DEF Record
    <2> QED BY <1>1, <1>5, <2>2, <2>3 DEF DeleteAggregate
  <1>6. CASE Reprocess
    BY <1>2, <1>6 DEF Reprocess, Statuses, Versions
  <1> QED BY <1>1, <1>4, <1>5, <1>6
      DEF Next, vars, StoreDocument, StoreParents, StoreChildren, StoreNext, Extract, Gather,
          StoreNodes, StoreEdges, StoreMentions, LoadGraph, SaveSubgraph, Announce, UserDeletes,
          BeginRemoval, RemoveSubgraph, BeginPurge, PurgeGraph, PurgeRows

LEMMA RemovalStep ==
    ASSUME RowsOK, GraphOK, ShapeInv, RemovalInv, [Next]_vars
    PROVE  RemovalInv'
  <1>1. (removed \cap graph.documents = {})'
    BY RemovalsOut DEF RemovalInv
  <1>2. ASSUME NEW v \in Versions, status'[v] = "DELETED" PROVE v \in removed' \cup left'
    BY <1>2, StatusDeleted, RemovedStays DEF RemovalInv
  <1>3. ASSUME NEW c \in Callers, removal'[c].at \in {"aggregate", "raised"}
        PROVE  removal'[c].version \in removed' \cup left'
    <2> DEFINE Goal == removal'[c].version \in removed' \cup left'
    <2>0. /\ removal \in [Callers -> Removals] /\ removal[c] \in Removals
          /\ NoRemoval.at = "idle" /\ "swap" \in Callers /\ "user" \in Callers
      BY RemovalRows DEF RowsOK, Callers
    <2>1. CASE removal'[c] = removal[c]
      BY <1>3, <2>1, RemovedStays DEF RemovalInv
    <2>2. CASE RemoveSubgraph(c)
      <3>1. removal'[c] = [removal[c] EXCEPT !.at = "aggregate"]
        BY <2>0, <2>2, RemovalMoves
      <3>2. removal'[c].version = removal[c].version
        BY <2>0, <3>1, RemovalRows
      <3> QED BY <2>2, <3>2 DEF RemoveSubgraph
    <2>3. CASE DeleteAggregate(c)
      <3>1. removal[c].at = "aggregate"
        BY <2>3 DEF DeleteAggregate
      <3>2. removal'[c] = NoRemoval \/ removal'[c] = [removal[c] EXCEPT !.at = "raised"]
        BY <2>0, <2>3, RemovalMoves
      <3>3. CASE removal'[c] = NoRemoval
        BY <1>3, <2>0, <3>3
      <3>4. CASE removal'[c] = [removal[c] EXCEPT !.at = "raised"]
        <4>1. removal'[c].version = removal[c].version
          BY <2>0, <3>4, RemovalRows
        <4> QED BY <3>1, <4>1, RemovedStays DEF RemovalInv
      <3> QED BY <3>2, <3>3, <3>4
    <2>4. CASE BeginRemoval(c)
      <3>1. removal'[c] = NoRemoval \/ removal'[c] = [removal[c] EXCEPT !.at = "graph"]
        BY <2>0, <2>4, RemovalMoves
      <3>2. removal'[c].at \in {"idle", "graph"}
        BY <2>0, <3>1, RemovalRows
      <3> QED BY <1>3, <3>2
    <2>5. ASSUME NEW d \in Callers, d # c,
                 BeginRemoval(d) \/ RemoveSubgraph(d) \/ DeleteAggregate(d)
          PROVE  removal'[c] = removal[c]
      BY <2>0, <2>5, RemovalMoves
    <2>6. ASSUME NEW d \in Callers, NEW row, row.at \in {"begin", "idle"},
                 removal' = [removal EXCEPT ![d] = row]
          PROVE  Goal
      BY <1>3, <2>0, <2>1, <2>6
    <2> QED BY <2>0, <2>1, <2>2, <2>3, <2>4, <2>5, <2>6, RemovalSteps
  <1> QED BY <1>1, <1>2, <1>3 DEF RemovalInv
-----------------------------------------------------------------------------
(* What a step leaves of a version. *)

\* An ingestion moves by its own steps.
LEMMA OwnSteps ==
    ASSUME RowsOK, IngestInv, [Next]_vars, NEW v \in Versions
    PROVE  \/ ingest'[v] = ingest[v]
           \/ Chunk(v) \/ MarkChunked(v) \/ LoadChunks(v)
           \/ StoreDocument(v) \/ StoreParents(v) \/ StoreChildren(v) \/ StoreNext(v)
           \/ Extract(v) \/ Gather(v) \/ StoreNodes(v) \/ StoreEdges(v) \/ StoreMentions(v)
           \/ MarkExtracted(v) \/ LoadGraph(v) \/ MarkIndexed(v)
           \/ SaveSubgraph(v) \/ MarkConsolidated(v) \/ Announce(v) \/ SwapReturns(v)
           \/ QueryRaises(v) \/ (v = "old" /\ Reprocess)
  <1>1. CASE UNCHANGED ingest
    BY <1>1
  <1>2. ASSUME NEW u \in Versions, u # v,
               \/ Chunk(u) \/ MarkChunked(u) \/ LoadChunks(u)
               \/ StoreDocument(u) \/ StoreParents(u) \/ StoreChildren(u) \/ StoreNext(u)
               \/ StoreNodes(u) \/ MarkExtracted(u) \/ SaveSubgraph(u) \/ QueryRaises(u)
        PROVE  ingest'[v] = ingest[v]
    BY <1>2, SimpleMoves DEF To, Stops, Moved
  <1>3. ASSUME NEW u \in Versions, u # v,
               Extract(u) \/ Gather(u) \/ StoreEdges(u) \/ StoreMentions(u) \/ LoadGraph(u)
        PROVE  ingest'[v] = ingest[v]
    <2>1. ASSUME NEW row, Moved(u, row) PROVE ingest'[v] = ingest[v]
      BY <1>3, <2>1 DEF Moved
    <2>2. Extract(u) => \E row : Moved(u, row)
      BY ExtractMoves DEF To, Stops
    <2>3. Gather(u) => \E row : Moved(u, row)
      BY GatherMoves
    <2>4. StoreEdges(u) => \E row : Moved(u, row)
      BY StoreEdgesMoves DEF To
    <2>5. StoreMentions(u) => \E row : Moved(u, row)
      BY StoreMentionsMoves DEF To
    <2>6. LoadGraph(u) => \E row : Moved(u, row)
      BY LoadGraphMoves
    <2> QED BY <1>3, <2>1, <2>2, <2>3, <2>4, <2>5, <2>6
  <1>4. ASSUME NEW u \in Versions, u # v, MarkIndexed(u) \/ MarkConsolidated(u) \/ Announce(u)
        PROVE  ingest'[v] = ingest[v]
    <2>1. ASSUME NEW then \in {"idle", "announce", "extracted"}, Published(u, then)
          PROVE  ingest'[v] = ingest[v]
      BY <1>4, <2>1, PublishedTyped DEF Moved, Versions
    <2> QED BY <1>4, <2>1, MarkMoves DEF To, Stops, Moved
  <1>5. ASSUME NEW u \in Versions, u # v, SwapReturns(u) PROVE ingest'[v] = ingest[v]
    BY <1>5, SwapMoves DEF To, Stops, Moved
  <1>6. CASE Reprocess /\ v # "old"
    <2>1. Moved("old", [ingest["old"] EXCEPT !.at = "parsed"])
      BY <1>6, GotoTyped DEF Reprocess, Places, Versions
    <2> QED BY <1>6, <2>1 DEF Moved
  <1> QED BY <1>1, <1>2, <1>3, <1>4, <1>5, <1>6, IngestSteps

LEMMA WaitStep ==
    ASSUME RowsOK, IngestInv, Waits, [Next]_vars
    PROVE  Waits'
  <1>0. removal \in [Callers -> Removals] /\ "swap" \in Callers /\ "user" \in Callers
        /\ "new" \in Versions /\ NoRemoval.at = "idle"
    BY RemovalRows DEF RowsOK, Callers, Versions
  <1>1. CASE MarkIndexed("new") \/ MarkConsolidated("new") \/ Announce("new")
    <2>1. ASSUME NEW then \in {"idle", "announce", "extracted"}, Published("new", then)
          PROVE  Waits'
      <3>1. Moved("new", [ingest["new"] EXCEPT !.at = "swap", !.then = then])
        BY <2>1, PublishedTyped DEF Versions
      <3>2. [ingest["new"] EXCEPT !.at = "swap", !.then = then].at = "swap"
        BY <1>0 DEF RowsOK, Rows
      <3> QED BY <3>1, <3>2 DEF Moved, Waits, At
    <2>2. CASE UNCHANGED removal
      BY <1>1, <2>2 DEF Waits, MarkIndexed, MarkConsolidated, Announce, At
    <2> QED BY <1>0, <1>1, <2>1, <2>2, MarkMoves
  <1>2. CASE SwapReturns("new")
    BY <1>0, <1>2 DEF SwapReturns, Waits
  <1>3. ASSUME ingest'["new"] = ingest["new"] PROVE Waits'
    <2>1. CASE UNCHANGED removal
      BY <1>3, <2>1 DEF Waits, At
    <2>2. CASE removal'["swap"].at = "idle" \/ removal["swap"].at # "idle"
      BY <1>3, <2>2 DEF Waits, At
    <2>3. CASE removal' = [removal EXCEPT !["swap"] = NoRemoval]
      BY <1>0, <2>2, <2>3
    <2>4. ASSUME NEW row, removal' = [removal EXCEPT !["user"] = row] PROVE Waits'
      BY <1>0, <1>3, <2>4 DEF Waits, At
    <2>5. ASSUME NEW c \in Callers, BeginRemoval(c) \/ RemoveSubgraph(c) \/ DeleteAggregate(c)
          PROVE  Waits'
      <3>1. CASE c = "swap"
        BY <2>2, <2>5, <3>1 DEF BeginRemoval, RemoveSubgraph, DeleteAggregate
      <3>2. CASE c # "swap"
        <4>1. removal'["swap"] = removal["swap"]
          BY <1>0, <2>5, <3>2, RemovalMoves
        <4> QED BY <1>3, <4>1 DEF Waits, At
      <3> QED BY <3>1, <3>2
    <2> QED BY <1>1, <2>1, <2>3, <2>4, <2>5, RemovalSteps
  <1>4. CASE UNCHANGED removal /\ ~At("new", "swap")
    BY <1>4 DEF Waits
  <1>5. CASE \/ Chunk("new") \/ MarkChunked("new") \/ LoadChunks("new")
             \/ StoreDocument("new") \/ StoreParents("new") \/ StoreChildren("new")
             \/ StoreNext("new") \/ Extract("new") \/ Gather("new") \/ StoreNodes("new")
             \/ StoreEdges("new") \/ StoreMentions("new")
    BY <1>4, <1>5 DEF Chunk, MarkChunked, LoadChunks, StoreDocument, StoreParents, StoreChildren,
       StoreNext, Extract, Gather, StoreNodes, StoreEdges, StoreMentions, At
  <1>6. CASE MarkExtracted("new") \/ LoadGraph("new") \/ SaveSubgraph("new") \/ QueryRaises("new")
    BY <1>4, <1>6 DEF MarkExtracted, LoadGraph, SaveSubgraph, QueryRaises, Queries, At
  <1> QED BY <1>0, <1>1, <1>2, <1>3, <1>5, <1>6, OwnSteps

\* What has happened to a version stays so.
LEMMA DisturbedStays ==
    ASSUME RowsOK, IngestInv, Waits, [Next]_vars, NEW v \in Versions, Disturbed(v)
    PROVE  Disturbed(v)'
  <1>1. CASE v \in removed \cup left
    BY <1>1, RemovedStays DEF Disturbed
  <1>2. CASE base # "active"
    <2>1. base' # "active"
      BY <1>2 DEF Next, vars, Chunk, MarkChunked, LoadChunks, StoreDocument, StoreParents,
           StoreChildren, StoreNext, Extract, Gather, StoreNodes, StoreEdges, StoreMentions,
           MarkExtracted, LoadGraph, MarkIndexed, SaveSubgraph, MarkConsolidated, Announce,
           SwapReturns, UserDeletes, QueryRaises, BeginRemoval, RemoveSubgraph, DeleteAggregate,
           Reprocess, BeginPurge, PurgeGraph, PurgeRows
    <2> QED BY <2>1 DEF Disturbed
  <1>3. ASSUME NEW c \in Callers, removal[c].at = "graph", removal[c].version = v
        PROVE  Disturbed(v)'
    <2>0. removal \in [Callers -> Removals]
      BY DEF RowsOK
    <2>1. CASE removal'[c] = removal[c]
      BY <1>3, <2>1 DEF Disturbed
    <2>2. CASE RemoveSubgraph(c)
      BY <1>3, <2>2 DEF RemoveSubgraph, Disturbed
    <2>3. CASE BeginRemoval(c) \/ DeleteAggregate(c)
      BY <1>3, <2>3 DEF BeginRemoval, DeleteAggregate
    <2>4. ASSUME NEW d \in Callers, d # c,
                 BeginRemoval(d) \/ RemoveSubgraph(d) \/ DeleteAggregate(d)
          PROVE  removal'[c] = removal[c]
      BY <2>0, <2>4, RemovalMoves
    <2>5. ASSUME NEW d \in Callers, NEW row, removal' = [removal EXCEPT ![d] = row],
                 removal[d].at # "graph"
          PROVE  removal'[c] = removal[c]
      BY <1>3, <2>0, <2>5
    <2>6. ASSUME NEW u \in Versions, UserDeletes(u)
          PROVE  removal["user"].at # "graph"
      BY <2>6 DEF UserDeletes
    <2>7. ASSUME MarkIndexed("new") \/ MarkConsolidated("new") \/ Announce("new")
          PROVE  removal["swap"].at # "graph"
      BY <2>7 DEF MarkIndexed, MarkConsolidated, Announce, Waits, At
    <2> QED BY <2>1, <2>2, <2>3, <2>4, <2>5, <2>6, <2>7, RemovalSteps DEF Callers
  <1> QED BY <1>1, <1>2, <1>3 DEF Disturbed

LEMMA CheckpointsStay ==
    ASSUME StoreOK, RowsOK, [Next]_vars, NEW v \in Versions, ~Disturbed(v)',
           "checkpoints" \in files[v]
    PROVE  "checkpoints" \in files'[v]
  <1>0. /\ files \in [Versions -> SUBSET {"markdown", "chunks", "checkpoints", "subgraph"}]
        /\ removal \in [Callers -> Removals]
    BY DEF StoreOK, RowsOK
  <1>1. CASE UNCHANGED files
    BY <1>1
  <1>2. ASSUME NEW u \in Versions, Chunk(u) \/ Extract(u) \/ SaveSubgraph(u)
        PROVE  "checkpoints" \in files'[v]
    BY <1>0, <1>2 DEF Chunk, Extract, SaveSubgraph
  <1>3. ASSUME NEW c \in Callers, BeginRemoval(c)
        PROVE  "checkpoints" \in files'[v]
    <2>1. CASE removal[c].version # v
      BY <1>0, <1>1, <1>3, <2>1 DEF BeginRemoval
    <2>2. CASE removal[c].version = v /\ base # "deleted"
      <3>1. removal'[c] = [removal[c] EXCEPT !.at = "graph"]
        BY <1>0, <1>3, <2>2, RemovalMoves
      <3>2. removal'[c].at = "graph" /\ removal'[c].version = v
        BY <1>0, <2>2, <3>1, RemovalRows
      <3> QED BY <3>2 DEF Disturbed
    <2> QED BY <1>1, <1>3, <2>1, <2>2 DEF BeginRemoval
  <1>4. CASE BeginPurge
    BY <1>4 DEF BeginPurge, Disturbed
  <1> QED BY <1>1, <1>2, <1>3, <1>4
        DEF Next, vars, storage, MarkChunked, LoadChunks, StoreDocument, StoreParents,
           StoreChildren, StoreNext, Gather, StoreNodes, StoreEdges, StoreMentions,
           MarkExtracted, LoadGraph, MarkIndexed, MarkConsolidated, Announce,
           SwapReturns, UserDeletes, QueryRaises, RemoveSubgraph, DeleteAggregate,
           PurgeGraph, PurgeRows, Reprocess

\* A step that leaves a version undisturbed takes nothing of it.
Kept(v) ==
    /\ chunks'[v] = chunks[v] /\ streaming' = streaming
    /\ v \in graph.documents => v \in graph'.documents
    /\ \A p \in graph.parents : p[1] = v => p \in graph'.parents
    /\ \A c \in graph.children : c[1] = v => c \in graph'.children
    /\ \A s \in graph.next : s[1][1] = v => s \in graph'.next
    /\ \A m \in graph.mentions : m[1][1] = v => m \in graph'.mentions
    /\ graph.entities \subseteq graph'.entities /\ graph.relations \subseteq graph'.relations
LEMMA GraphKept ==
    ASSUME RowsOK, GraphOK, ShapeInv, [Next]_vars, NEW v \in Versions, ~Disturbed(v)',
           chunks'[v] = chunks[v]
    PROVE  Kept(v)
  <1>0. DOMAIN graph = Fields /\ streaming' = streaming
    BY Streams DEF GraphOK
  <1>1. CASE UNCHANGED graph
    BY <1>0, <1>1 DEF Kept
  <1>2. ASSUME NEW f \in Fields, Only({f}), graph[f] \subseteq graph'[f]
        PROVE  Kept(v)
    <2>1. \A g \in Fields : graph[g] \subseteq graph'[g]
      BY <1>2 DEF Only
    <2> QED BY <1>0, <2>1 DEF Kept, Fields
  <1>3. ASSUME NEW u \in Versions,
               StoreDocument(u) \/ StoreParents(u) \/ StoreChildren(u) \/ StoreNext(u)
        PROVE  \E f \in Fields : Only({f}) /\ graph[f] \subseteq graph'[f]
    <2>1. ASSUME StoreDocument(u) PROVE Only({"documents"}) /\ graph.documents \subseteq graph'.documents
      BY <1>0, <2>1, StoreFields
    <2>2. ASSUME StoreParents(u) PROVE Only({"parents"}) /\ graph.parents \subseteq graph'.parents
      BY <1>0, <2>2, StoreFields
    <2>3. ASSUME StoreChildren(u) PROVE Only({"children"}) /\ graph.children \subseteq graph'.children
      BY <1>0, <2>3, StoreFields
    <2>4. ASSUME StoreNext(u) PROVE Only({"next"}) /\ graph.next \subseteq graph'.next
      BY <1>0, <2>4, StoreFields
    <2> QED BY <1>3, <2>1, <2>2, <2>3, <2>4 DEF Fields
  <1>4. ASSUME NEW u \in Versions, StoreNodes(u) \/ StoreEdges(u) \/ StoreMentions(u)
        PROVE  \E f \in Fields : Only({f}) /\ graph[f] \subseteq graph'[f]
    <2>1. ASSUME StoreNodes(u) PROVE Only({"entities"}) /\ graph.entities \subseteq graph'.entities
      BY <1>0, <2>1, StoreFields
    <2>2. ASSUME StoreEdges(u) PROVE Only({"relations"}) /\ graph.relations \subseteq graph'.relations
      BY <1>0, <2>2, StoreFields
    <2>3. ASSUME StoreMentions(u) PROVE Only({"mentions"}) /\ graph.mentions \subseteq graph'.mentions
      BY <1>0, <2>3, StoreFields
    <2> QED BY <1>4, <2>1, <2>2, <2>3 DEF Fields
  <1>5. ASSUME NEW c \in Callers, RemoveSubgraph(c) PROVE Kept(v)
    <2>1. removal[c].version \in Versions
      BY DEF RowsOK, Removals
    <2>2. removal[c].version # v
      BY <1>5 DEF RemoveSubgraph, Disturbed
    <2>3. CASE graph' = Detached(Subgraph(removal[c].version))
      <3> DEFINE u == removal[c].version
      <3>1. /\ graph'.documents = graph.documents \ {u}
            /\ graph'.parents = {p \in graph.parents : p[1] # u}
            /\ graph'.children = {e \in graph.children : e[1] # u}
            /\ graph'.next = {s \in graph.next : s[1][1] # u /\ s[2][1] # u}
            /\ graph'.mentions = {m \in graph.mentions : m[1][1] # u}
            /\ graph'.entities = graph.entities /\ graph'.relations = graph.relations
        BY <2>1, <2>3, Detachment
      <3>2. u # v
        BY <2>2
      <3> HIDE DEF u
      <3>3. \A s \in graph.next : s[1][1] = v => s \in graph'.next
        BY <3>1, <3>2 DEF ShapeInv
      <3> QED BY <1>0, <3>1, <3>2, <3>3 DEF Kept
    <2> QED BY <1>1, <1>5, <2>3 DEF RemoveSubgraph
  <1>6. CASE PurgeGraph
    BY <1>6 DEF PurgeGraph, Disturbed
  <1> QED BY <1>1, <1>2, <1>3, <1>4, <1>5, <1>6, GraphSteps

LEMMA PartsKept ==
    ASSUME NEW v \in Versions, Kept(v)
    PROVE  /\ ParentsOf(v)' = ParentsOf(v) /\ ChildrenIn(v)' = ChildrenIn(v)
           /\ Successions(v)' = Successions(v) /\ GraphOf(v)' = GraphOf(v)
           /\ ParentsOf(v) \subseteq graph.parents => ParentsOf(v) \subseteq graph'.parents
           /\ ChildrenIn(v) \subseteq graph.children => ChildrenIn(v) \subseteq graph'.children
           /\ Successions(v) \subseteq graph.next => Successions(v) \subseteq graph'.next
           /\ \A i : Linked(v, i) => Linked(v, i)'
  <1>1. ParentsOf(v)' = ParentsOf(v)
    BY DEF Kept, ParentsOf
  <1>2. ChildrenIn(v)' = ChildrenIn(v)
    BY DEF Kept, ChildrenIn, Numbered
  <1>3. Successions(v)' = Successions(v)
    BY <1>1 DEF Successions
  <1>4. GraphOf(v)' = GraphOf(v)
    BY DEF Kept, GraphOf
  <1>5. /\ ParentsOf(v) \subseteq graph.parents => ParentsOf(v) \subseteq graph'.parents
        /\ ChildrenIn(v) \subseteq graph.children => ChildrenIn(v) \subseteq graph'.children
    BY PassageNames DEF Kept
  <1>6. Successions(v) \subseteq graph.next => Successions(v) \subseteq graph'.next
    BY PassageNames DEF Kept
  <1>7. ASSUME NEW i, Linked(v, i) PROVE Linked(v, i)'
    <2>1. CASE streaming
      BY <2>1 DEF Linked, Kept
    <2>2. ASSUME NEW e \in Extracted(i), <<<<v, i>>, e>> \in graph.mentions
          PROVE  <<<<v, i>>, e>> \in graph'.mentions
      <3>1. <<<<v, i>>, e>>[1][1] = v
        OBVIOUS
      <3> QED BY <2>2, <3>1 DEF Kept
    <2> QED BY <1>7, <2>1, <2>2 DEF Linked
  <1> QED BY <1>1, <1>2, <1>3, <1>4, <1>5, <1>6, <1>7

LEMMA CompleteKept ==
    ASSUME NEW v \in Versions, Kept(v)
    PROVE  /\ Searchable(v) => Searchable(v)'
           /\ EntitiesIn(v) => EntitiesIn(v)'
           /\ RelationsIn(v) => RelationsIn(v)'
           /\ GraphDone(v) => GraphDone(v)'
           /\ Complete(v) => Complete(v)'
           /\ \A i : ParentDone(v, i) => ParentDone(v, i)'
  <1>1. Searchable(v) => Searchable(v)'
    BY PartsKept DEF Searchable, Kept
  <1>2. (EntitiesIn(v) => EntitiesIn(v)') /\ (RelationsIn(v) => RelationsIn(v)')
    BY PartsKept DEF EntitiesIn, RelationsIn, Kept
  <1>3. GraphDone(v) => GraphDone(v)'
    <2>1. chunks'[v] = chunks[v]
      BY DEF Kept
    <2>2. \A i : Linked(v, i) => Linked(v, i)'
      BY PartsKept
    <2> QED BY <1>2, <2>1, <2>2 DEF GraphDone
  <1>4. ASSUME NEW i, ParentDone(v, i) PROVE ParentDone(v, i)'
    <2>1. Linked(v, i)'
      BY <1>4, PartsKept DEF ParentDone
    <2> QED BY <1>4, <2>1 DEF ParentDone, Kept, Graph
  <1> QED BY <1>1, <1>2, <1>3, <1>4 DEF Complete
-----------------------------------------------------------------------------
(* The stages of a version that is left alone. *)

\* A version that has no chunks yet is before its first query.
LEMMA StageUncut ==
    ASSUME RowsOK, CutInv, IngestInv, [Next]_vars, NEW v \in Versions, ~Cut(v)
    PROVE  /\ ingest'[v].at \notin AfterDocument
           /\ v = "new" /\ status'[v] # "INDEXED"
  <1>1. v = "new" /\ ingest[v].at \notin AfterChunks /\ status[v] # "INDEXED"
    BY DEF CutInv, Versions
  <1>2. ingest'[v].at \notin AfterDocument
    <2>1. CASE ingest'[v] = ingest[v]
      BY <1>1, <2>1 DEF AfterChunks
    <2>2. CASE ingest'[v].at \in {"parsed", "idle"}
      BY <2>2 DEF AfterDocument, AfterParents, AfterChildren, AfterNext, AfterGraph
    <2>3. CASE To(v, "chunking")
      <3>1. ingest'[v].at = "chunking"
        BY <2>3, RowFields DEF To, Moved, RowsOK
      <3> QED BY <3>1 DEF AfterDocument, AfterParents, AfterChildren, AfterNext, AfterGraph
    <2> QED BY <1>1, <2>1, <2>2, <2>3, WhoMoves
  <1>3. status'[v] # "INDEXED"
    BY <1>1, StatusIndexed DEF AfterChunks, AfterDocument, AfterParents, AfterChildren, AfterNext,
       AfterGraph
  <1> QED BY <1>1, <1>2, <1>3

Stages(v) == StageOK(v) /\ ExtractOK(v)
LEMMA StageBefore ==
    ASSUME NEW v \in Versions, ingest'[v].at \notin AfterDocument
    PROVE  Stages(v)'
  BY DEF Stages, StageOK, ExtractOK, InGraph, At, AfterDocument, AfterParents, AfterChildren, AfterNext, AfterGraph

LEMMA StageStays ==
    ASSUME NEW v \in Versions, Kept(v), Stages(v), ingest'[v] = ingest[v],
           "checkpoints" \in files[v] => "checkpoints" \in files'[v]
    PROVE  Stages(v)'
  <1>1. StageOK(v)'
    BY PartsKept DEF Stages, StageOK, Kept
  <1>2. \A i : ParentDone(v, i) => ParentDone(v, i)'
    BY CompleteKept
  <1>3. (EntitiesIn(v) => EntitiesIn(v)') /\ (GraphDone(v) => GraphDone(v)')
    BY CompleteKept
  <1>4. graph.entities \subseteq graph'.entities /\ graph.relations \subseteq graph'.relations
    BY DEF Kept
  <1>5. ExtractOK(v)
    BY DEF Stages
  <1>6. (InGraph(v) /\ ingest[v].job = "parent" =>
          \A i \in 1..ingest[v].parent - 1 : ParentDone(v, i))'
    BY <1>2, <1>5 DEF ExtractOK, InGraph
  <1>7. (ingest[v].at \in {"edges", "mentions"} /\ ingest[v].job = "parent" =>
          Extracted(ingest[v].parent) \subseteq graph.entities)'
    BY <1>4, <1>5 DEF ExtractOK
  <1>8. (At(v, "mentions") => Graph(Extracted(ingest[v].parent)).relations \subseteq graph.relations)'
    BY <1>4, <1>5 DEF ExtractOK, At, Graph
  <1>9. /\ (At(v, "gather") => "checkpoints" \in files[v])'
        /\ (InGraph(v) /\ ingest[v].job = "merged" => ingest[v].found)'
        /\ (At(v, "edges") /\ ingest[v].job = "merged" => EntitiesIn(v))'
        /\ (ingest[v].at \in AfterGraph => GraphDone(v))'
        /\ (InGraph(v) /\ ingest[v].job = "combined" => GraphDone(v))'
    BY <1>3, <1>5 DEF ExtractOK, At, InGraph
  <1>10. ExtractOK(v)'
    BY <1>6, <1>7, <1>8, <1>9 DEF ExtractOK
  <1> QED BY <1>1, <1>10 DEF Stages

\* The structure is stored before the entities.
LEMMA StageStructure ==
    ASSUME NEW v \in Versions, Kept(v), Stages(v), ingest[v].at \in AfterNext,
           ingest'[v].at \in AfterNext
    PROVE  StageOK(v)'
  <1>1. /\ v \in graph.documents /\ ParentsOf(v) \subseteq graph.parents
        /\ ChildrenIn(v) \subseteq graph.children /\ Successions(v) \subseteq graph.next
    BY DEF Stages, StageOK, AfterDocument, AfterParents, AfterChildren
  <1> QED BY <1>1, PartsKept DEF StageOK, Kept

LEMMA StageAfter ==
    ASSUME NEW v \in Versions, Kept(v), Stages(v), ingest[v].at \in AfterGraph,
           ingest'[v].at \in AfterGraph
    PROVE  Stages(v)'
  <1>1. StageOK(v)'
    BY StageStructure DEF AfterNext
  <1>2. GraphDone(v)'
    BY CompleteKept DEF Stages, ExtractOK
  <1>3. ingest'[v].at \notin {"nodes", "edges", "mentions", "gather"}
    BY DEF AfterGraph
  <1>4. ExtractOK(v)'
    BY <1>2, <1>3 DEF ExtractOK, InGraph, At
  <1> QED BY <1>1, <1>4 DEF Stages

\* The four queries of store_structural_document.
LEMMA StageDocument ==
    ASSUME GraphOK, RowsOK, NEW v \in Versions, Kept(v), Stages(v),
           StoreDocument(v) \/ StoreParents(v) \/ StoreChildren(v) \/ StoreNext(v)
    PROVE  Stages(v)'
  <1>0. DOMAIN graph = Fields /\ ingest[v] \in Rows
    BY DEF GraphOK, RowsOK
  <1> USE DEF AfterDocument, AfterParents, AfterChildren, AfterNext, AfterGraph
  <1>1. ASSUME NEW place, To(v, place) PROVE ingest'[v].at = place
    BY <1>0, <1>1, RowFields DEF To, Moved
  <1>2. CASE StoreDocument(v)
    <2>1. ingest'[v].at = "parents"
      BY <1>1, <1>2, SimpleMoves
    <2>2. v \in graph'.documents
      BY <1>0, <1>2, StoreFields
    <2> QED BY <2>1, <2>2 DEF Stages, StageOK, ExtractOK, InGraph, At
  <1>3. CASE StoreParents(v)
    <2>1. ingest'[v].at = "children"
      BY <1>1, <1>3, SimpleMoves
    <2>2. v \in graph.documents
      BY <1>3 DEF StoreParents, At, Stages, StageOK
    <2>3. ParentsOf(v) \subseteq graph'.parents
      BY <1>0, <1>3, <2>2, StoreFields DEF Attachable
    <2>4. (ParentsOf(v) \subseteq graph.parents)' /\ (v \in graph.documents)'
      BY <2>2, <2>3, PartsKept DEF Kept
    <2> QED BY <2>1, <2>4 DEF Stages, StageOK, ExtractOK, InGraph, At
  <1>4. CASE StoreChildren(v)
    <2>1. ingest'[v].at = "next"
      BY <1>1, <1>4, SimpleMoves
    <2>2. v \in graph.documents /\ ParentsOf(v) \subseteq graph.parents
      BY <1>4 DEF StoreChildren, At, Stages, StageOK
    <2>3. graph'.children = graph.children \cup
                       {c \in ChildrenIn(v) : <<c[1], c[2]>> \in graph.parents}
      BY <1>0, <1>4, StoreFields
    <2>4. \A c \in ChildrenIn(v) : <<c[1], c[2]>> \in ParentsOf(v)
      BY DEF ChildrenIn, Numbered, ParentsOf
    <2>5. ChildrenIn(v) \subseteq graph'.children
      BY <2>2, <2>3, <2>4
    <2>6. /\ (v \in graph.documents)' /\ (ParentsOf(v) \subseteq graph.parents)'
          /\ (ChildrenIn(v) \subseteq graph.children)'
      BY <2>2, <2>5, PartsKept DEF Kept
    <2> QED BY <2>1, <2>6 DEF Stages, StageOK, ExtractOK, InGraph, At
  <1>5. CASE StoreNext(v)
    <2>1. ingest'[v].at = "extract"
      BY <1>1, <1>5, SimpleMoves
    <2>2. v \in graph.documents /\ ParentsOf(v) \subseteq graph.parents
          /\ ChildrenIn(v) \subseteq graph.children
      BY <1>5 DEF StoreNext, At, Stages, StageOK
    <2>3. graph'.next = graph.next \cup
                       {s \in Successions(v) : {s[1], s[2]} \subseteq graph.parents}
      BY <1>0, <1>5, StoreFields
    <2>4. Successions(v) \subseteq graph'.next
      BY <2>2, <2>3, PassageNames
    <2>5. /\ (v \in graph.documents)' /\ (ParentsOf(v) \subseteq graph.parents)'
          /\ (ChildrenIn(v) \subseteq graph.children)' /\ (Successions(v) \subseteq graph.next)'
      BY <2>2, <2>4, PartsKept DEF Kept
    <2> QED BY <2>1, <2>5 DEF Stages, StageOK, ExtractOK, InGraph, At
  <1> QED BY <1>2, <1>3, <1>4, <1>5

LEMMA StageExtract ==
    ASSUME RowsOK, StoreOK, CutInv, NEW v \in Versions, Kept(v), Stages(v), Extract(v)
    PROVE  Stages(v)'
  <1>0. ingest[v] \in Rows /\ ingest[v].at = "extract"
    BY DEF RowsOK, Extract, At
  <1>1. ingest'[v].at \in AfterNext => StageOK(v)'
    BY <1>0, StageStructure DEF AfterNext
  <1>2. CASE /\ chunks[v].parents # <<>>
             /\ Moved(v, [ingest[v] EXCEPT !.at = "gather", !.job = "merged"])
    <2>1. ingest'[v].at = "gather"
      BY <1>0, <1>2 DEF Moved, Rows
    <2>2. "checkpoints" \in files'[v]
      BY <1>2 DEF Extract, StoreOK
    <2>3. ExtractOK(v)'
      BY <2>1, <2>2 DEF ExtractOK, InGraph, At, AfterGraph
    <2> QED BY <1>1, <2>1, <2>3 DEF Stages, AfterNext
  <1>3. CASE chunks[v].parents = <<>> /\ To(v, "extracting")
    <2>1. ingest'[v].at = "extracting"
      BY <1>0, <1>3, RowFields DEF To, Moved
    <2>2. DOMAIN chunks[v].parents = {}
      BY <1>3
    <2>3. GraphOf(v).entities = {} /\ GraphOf(v).relations = {}
      BY <2>2, GraphOfTyped
    <2>4. GraphDone(v)
      BY <2>2, <2>3 DEF GraphDone, EntitiesIn, RelationsIn
    <2>5. ExtractOK(v)'
      BY <2>1, <2>4, CompleteKept DEF ExtractOK, InGraph, At
    <2> QED BY <1>1, <2>1, <2>5 DEF Stages, AfterNext, AfterGraph
  <1>4. CASE Moved(v, [ingest[v] EXCEPT !.at = "nodes", !.job = "parent", !.parent = 1])
    <2>1. ingest'[v].at = "nodes" /\ ingest'[v].job = "parent" /\ ingest'[v].parent = 1
      BY <1>0, <1>4 DEF Moved, Rows
    <2>2. ExtractOK(v)'
      BY <2>1 DEF ExtractOK, InGraph, At, AfterGraph
    <2> QED BY <1>1, <2>1, <2>2 DEF Stages, AfterNext
  <1>5. CASE Stops(v)
    <2>1. ingest'[v].at = "idle"
      BY <1>5 DEF Stops, Moved, Idle
    <2> QED BY <2>1, StageBefore DEF AfterDocument, AfterParents, AfterChildren, AfterNext, AfterGraph
  <1> QED BY <1>2, <1>3, <1>4, <1>5, ExtractMoves

LEMMA StageGather ==
    ASSUME RowsOK, IngestInv, NEW v \in Versions, Kept(v), Stages(v), Gather(v)
    PROVE  Stages(v)'
  <1>0. ingest[v] \in Rows /\ ingest[v].at = "gather" /\ ingest[v].job = "merged"
    BY DEF RowsOK, Gather, At, IngestInv, IngestOK
  <1>1. "checkpoints" \in files[v]
    BY <1>0 DEF Stages, ExtractOK, At
  <1>2. PICK b \in BOOLEAN : /\ b <=> "checkpoints" \in files[v]
                             /\ Moved(v, [ingest[v] EXCEPT !.at = "nodes", !.found = b])
    BY GatherMoves
  <1>3. /\ ingest'[v].at = "nodes" /\ ingest'[v].job = "merged"
        /\ ingest'[v].found = b
    BY <1>0, <1>2 DEF Moved, Rows
  <1>4. b
    BY <1>1, <1>2
  <1>5. ExtractOK(v)'
    BY <1>3, <1>4 DEF ExtractOK, InGraph, At, AfterGraph
  <1> QED BY <1>0, <1>3, <1>5, StageStructure DEF Stages, AfterNext

LEMMA StageNodes ==
    ASSUME RowsOK, GraphOK, NEW v \in Versions, Kept(v), Stages(v), StoreNodes(v)
    PROVE  Stages(v)'
  <1>0. ingest[v] \in Rows /\ ingest[v].at = "nodes" /\ DOMAIN graph = Fields
    BY DEF RowsOK, StoreNodes, At, GraphOK
  <1>1. Moved(v, [ingest[v] EXCEPT !.at = "edges"])
    BY SimpleMoves DEF To
  <1>2. /\ ingest'[v].at = "edges" /\ ingest'[v].job = ingest[v].job
        /\ ingest'[v].parent = ingest[v].parent /\ ingest'[v].found = ingest[v].found
    BY <1>0, <1>1, RowFields DEF Moved
  <1>3. graph'.entities = graph.entities \cup Stored(v).entities
    BY <1>0, StoreFields
  <1>4. StageOK(v)'
    BY <1>0, <1>2, StageStructure DEF AfterNext
  <1>5. CASE ingest[v].job = "parent"
    <2>1. \A i \in 1..ingest[v].parent - 1 : ParentDone(v, i)'
      BY <1>0, <1>5, CompleteKept DEF Stages, ExtractOK, InGraph
    <2>2. Stored(v).entities = Extracted(ingest[v].parent)
      BY <1>5 DEF Stored, Graph
    <2> QED BY <1>2, <1>3, <1>4, <1>5, <2>1, <2>2 DEF Stages, ExtractOK, InGraph, At, AfterGraph
  <1>6. CASE ingest[v].job = "merged"
    <2>1. ingest[v].found
      BY <1>0, <1>6 DEF Stages, ExtractOK, InGraph
    <2>2. Stored(v) = GraphOf(v)
      BY <1>6, <2>1 DEF Stored
    <2>3. EntitiesIn(v)'
      BY <1>3, <2>2, PartsKept DEF EntitiesIn
    <2> QED BY <1>2, <1>4, <1>6, <2>1, <2>3 DEF Stages, ExtractOK, InGraph, At, AfterGraph
  <1>7. CASE ingest[v].job = "combined"
    <2>1. GraphDone(v)'
      BY <1>0, <1>7, CompleteKept DEF Stages, ExtractOK, InGraph
    <2> QED BY <1>2, <1>4, <1>7, <2>1 DEF Stages, ExtractOK, InGraph, At, AfterGraph
  <1>8. CASE ingest[v].job = "none"
    BY <1>2, <1>4, <1>8 DEF Stages, ExtractOK, InGraph, At, AfterGraph
  <1> QED BY <1>0, <1>5, <1>6, <1>7, <1>8 DEF Rows

LEMMA StageEdges ==
    ASSUME RowsOK, GraphOK, IngestInv, NEW v \in Versions, Kept(v), Stages(v), StoreEdges(v)
    PROVE  Stages(v)'
  <1>0. ingest[v] \in Rows /\ ingest[v].at = "edges" /\ DOMAIN graph = Fields
    BY DEF RowsOK, StoreEdges, At, GraphOK
  <1>1. ASSUME NEW place, To(v, place)
        PROVE  /\ ingest'[v].at = place /\ ingest'[v].job = ingest[v].job
               /\ ingest'[v].parent = ingest[v].parent /\ ingest'[v].found = ingest[v].found
    BY <1>0, <1>1, RowFields DEF To, Moved
  <1>2. graph'.relations = graph.relations \cup
                       {r \in Stored(v).relations : {r[1], r[2]} \subseteq graph.entities}
    BY <1>0, StoreFields
  <1>3. ingest'[v].at \in AfterNext => StageOK(v)'
    BY <1>0, StageStructure DEF AfterNext
  <1>4. CASE ingest[v].job = "parent" /\ To(v, "mentions")
    <2>0. ingest'[v].at = "mentions" /\ ingest'[v].job = "parent"
          /\ ingest'[v].parent = ingest[v].parent
      BY <1>1, <1>4
    <2>1. \A i \in 1..ingest[v].parent - 1 : ParentDone(v, i)'
      BY <1>0, <1>4, CompleteKept DEF Stages, ExtractOK, InGraph
    <2>2. Extracted(ingest[v].parent) \subseteq graph.entities
      BY <1>0, <1>4 DEF Stages, ExtractOK
    <2>3. Stored(v).relations = Graph(Extracted(ingest[v].parent)).relations
      BY <1>4 DEF Stored
    <2>4. Graph(Extracted(ingest[v].parent)).relations \subseteq graph'.relations
      BY <1>2, <2>2, <2>3 DEF Graph
    <2>5. Extracted(ingest[v].parent) \subseteq graph'.entities
      BY <2>2 DEF Kept
    <2>6. ExtractOK(v)'
      BY <2>0, <2>1, <2>4, <2>5 DEF ExtractOK, InGraph, At, AfterGraph, Graph
    <2> QED BY <1>3, <2>0, <2>6 DEF Stages, AfterNext
  <1>5. CASE ingest[v].job = "merged" /\ To(v, "subgraph")
    <2>0. ingest'[v].at = "subgraph"
      BY <1>1, <1>5
    <2>1. ingest[v].found /\ EntitiesIn(v)
      BY <1>0, <1>5 DEF Stages, ExtractOK, InGraph, At
    <2>2. Stored(v) = GraphOf(v)
      BY <1>5, <2>1 DEF Stored
    <2>3. \A r \in GraphOf(v).relations : {r[1], r[2]} \subseteq graph.entities
      <3>1. ASSUME NEW i \in DOMAIN chunks[v].parents, NEW r \in Graph(Extracted(i)).relations
            PROVE  r[1] \in GraphOf(v).entities /\ r[2] \in GraphOf(v).entities
        <4>1. r[1] \in Extracted(i) /\ r[2] \in Extracted(i)
          BY DEF Graph
        <4> QED BY <4>1, GraphOfTyped
      <3> QED BY <2>1, <3>1, GraphOfTyped DEF EntitiesIn
    <2>4. GraphOf(v).relations \subseteq graph'.relations
      BY <1>2, <2>2, <2>3
    <2>5. RelationsIn(v)' /\ EntitiesIn(v)'
      BY <2>1, <2>4, PartsKept, CompleteKept DEF RelationsIn
    <2>6. streaming'
      BY <1>0, <1>5 DEF IngestInv, IngestOK, Kept
    <2>7. GraphDone(v)'
      BY <2>5, <2>6 DEF GraphDone, Linked
    <2>8. ExtractOK(v)'
      BY <2>0, <2>7 DEF ExtractOK, InGraph, At
    <2> QED BY <1>3, <2>0, <2>8 DEF Stages, AfterNext, AfterGraph
  <1>6. CASE ingest[v].job = "combined" /\ To(v, "indexing")
    <2>0. ingest'[v].at = "indexing"
      BY <1>1, <1>6
    <2>1. GraphDone(v)'
      BY <1>0, <1>6, CompleteKept DEF Stages, ExtractOK, InGraph
    <2>2. ExtractOK(v)'
      BY <2>0, <2>1 DEF ExtractOK, InGraph, At
    <2> QED BY <1>3, <2>0, <2>2 DEF Stages, AfterNext, AfterGraph
  <1> QED BY <1>4, <1>5, <1>6, StoreEdgesMoves

LEMMA StageMentions ==
    ASSUME RowsOK, GraphOK, CutInv, IngestInv, NEW v \in Versions, Kept(v), Stages(v),
           StoreMentions(v)
    PROVE  Stages(v)'
  <1>0. /\ ingest[v] \in Rows /\ ingest[v].at = "mentions" /\ ingest[v].job = "parent"
        /\ ingest[v].parent \in DOMAIN chunks[v].parents /\ DOMAIN graph = Fields
    BY DEF RowsOK, StoreMentions, At, GraphOK, IngestInv, IngestOK
  <1>11. PICK n \in Nat : n = ingest[v].parent
    BY <1>0 DEF Rows
  <1>1. /\ Len(chunks[v].parents) \in Nat /\ n \in 1..Len(chunks[v].parents)
        /\ DOMAIN chunks[v].parents = 1..Len(chunks[v].parents)
    BY <1>0, <1>11, Numbering
  <1>2. /\ \A i \in 1..n - 1 : ParentDone(v, i)
        /\ Extracted(n) \subseteq graph.entities
        /\ Graph(Extracted(n)).relations \subseteq graph.relations
    BY <1>0, <1>11 DEF Stages, ExtractOK, InGraph, At
  <1>3. <<v, n>> \in graph.parents
    <2>1. ParentsOf(v) \subseteq graph.parents
      BY <1>0 DEF Stages, StageOK, AfterParents, AfterChildren, AfterNext
    <2> QED BY <1>0, <1>11, <2>1 DEF ParentsOf
  <1>4. graph'.mentions = graph.mentions \cup
               {<<<<v, n>>, e>> : e \in Extracted(n) \cap graph.entities}
    <2>1. <<v, ingest[v].parent>> \in graph.parents
      BY <1>11, <1>3
    <2>2. graph'.mentions = graph.mentions \cup
               {<<<<v, ingest[v].parent>>, e>> : e \in Extracted(ingest[v].parent) \cap graph.entities}
      BY <1>0, <2>1, StoreFields
    <2> QED BY <1>11, <2>2
  <1>5. \A e \in Extracted(n) : <<<<v, n>>, e>> \in graph'.mentions
    BY <1>2, <1>4
  <1>6. ParentDone(v, n)'
    <2>1. Linked(v, n)'
      BY <1>5 DEF Linked
    <2>2. Extracted(n) \subseteq graph'.entities /\ Graph(Extracted(n)).relations \subseteq graph'.relations
      BY <1>2 DEF Kept
    <2> QED BY <2>1, <2>2 DEF ParentDone, Graph
  <1>7. \A i \in 1..n : ParentDone(v, i)'
    <2>1. \A i \in 1..n - 1 : ParentDone(v, i)'
      BY <1>2, CompleteKept
    <2>2. \A i \in 1..n : i = n \/ i \in 1..n - 1
      BY <1>11
    <2> QED BY <1>6, <2>1, <2>2
  <1>8. ingest'[v].at \in AfterNext => StageOK(v)'
    BY <1>0, StageStructure DEF AfterNext
  <1>9. CASE n = Len(chunks[v].parents) /\ To(v, "extracting")
    <2>1. ingest'[v].at = "extracting"
      BY <1>0, <1>9, RowFields DEF To, Moved
    <2>2. \A i \in DOMAIN chunks[v].parents : ParentDone(v, i)'
      BY <1>1, <1>7, <1>9
    <2>3. EntitiesIn(v)' /\ RelationsIn(v)'
      <3>1. /\ GraphOf(v).entities \subseteq graph'.entities
            /\ GraphOf(v).relations \subseteq graph'.relations
        BY <2>2, GraphOfTyped DEF ParentDone, Graph
      <3> QED BY <3>1, PartsKept DEF EntitiesIn, RelationsIn
    <2>4. GraphDone(v)'
      BY <2>2, <2>3 DEF GraphDone, ParentDone, Kept
    <2>5. ExtractOK(v)'
      BY <2>1, <2>4 DEF ExtractOK, InGraph, At
    <2> QED BY <1>8, <2>1, <2>5 DEF Stages, AfterNext, AfterGraph
  <1>10. CASE Moved(v, [ingest[v] EXCEPT !.at = "nodes", !.parent = n + 1])
    <2>1. ingest'[v].at = "nodes" /\ ingest'[v].job = "parent" /\ ingest'[v].parent = n + 1
      BY <1>0, <1>10 DEF Moved, Rows
    <2>2. (n + 1) - 1 = n
      BY <1>11
    <2>3. ExtractOK(v)'
      BY <1>7, <2>1, <2>2 DEF ExtractOK, InGraph, At, AfterGraph
    <2> QED BY <1>8, <2>1, <2>3 DEF Stages, AfterNext
  <1> QED BY <1>11, <1>9, <1>10, StoreMentionsMoves

\* handle_graph_extracted goes on with the graph of the event, which is stored already.
LEMMA StageLoad ==
    ASSUME RowsOK, NEW v \in Versions, Kept(v), Stages(v), LoadGraph(v)
    PROVE  Stages(v)'
  <1>0. ingest[v] \in Rows /\ ingest[v].at = "extracted"
    BY DEF RowsOK, LoadGraph, At
  <1>1. PICK place \in {"indexing", "nodes"} :
              Moved(v, [ingest[v] EXCEPT !.at = place, !.job = "combined"])
    BY LoadGraphMoves
  <1>2. ingest'[v].at = place /\ ingest'[v].job = "combined"
    BY <1>0, <1>1 DEF Moved, Rows
  <1>3. GraphDone(v)'
    BY <1>0, CompleteKept DEF Stages, ExtractOK, AfterGraph
  <1>4. StageOK(v)'
    BY <1>0, <1>2, StageStructure DEF AfterNext, AfterGraph
  <1>5. ExtractOK(v)'
    BY <1>2, <1>3 DEF ExtractOK, InGraph, At
  <1> QED BY <1>4, <1>5 DEF Stages

\* Everything that follows leaves the graph of the version as it is.
LEMMA StageTail ==
    ASSUME RowsOK, IngestInv, NEW v \in Versions, Kept(v), Stages(v),
           \/ MarkExtracted(v) \/ MarkIndexed(v) \/ SaveSubgraph(v) \/ MarkConsolidated(v)
           \/ Announce(v) \/ SwapReturns(v)
    PROVE  Stages(v)'
  <1>0. ingest[v] \in Rows /\ ingest[v].at \in AfterGraph
    BY DEF RowsOK, MarkExtracted, MarkIndexed, SaveSubgraph, MarkConsolidated, Announce,
       SwapReturns, At, AfterGraph
  <1>1. ASSUME NEW place, To(v, place) PROVE ingest'[v].at = place
    BY <1>0, <1>1, RowFields DEF To, Moved
  <1>2. ASSUME Stops(v) PROVE ingest'[v].at = "idle"
    BY <1>2 DEF Stops, Moved, Idle
  <1>3. ASSUME NEW then \in {"idle", "announce", "extracted"}, Published(v, then)
        PROVE  ingest'[v].at \in {"idle", "announce", "extracted", "swap"}
    <2>1. PICK place \in {"swap", then} : Moved(v, [ingest[v] EXCEPT !.at = place, !.then = then])
      BY <1>3, PublishedTyped DEF Versions
    <2> QED BY <1>0, <2>1 DEF Moved, Rows
  <1>4. ingest'[v].at \in AfterGraph \cup {"idle"}
    <2>1. CASE MarkExtracted(v)
      BY <1>1, <1>2, <2>1, SimpleMoves DEF AfterGraph
    <2>2. CASE SaveSubgraph(v)
      BY <1>1, <2>2, SimpleMoves DEF AfterGraph
    <2>3. CASE MarkIndexed(v) \/ MarkConsolidated(v) \/ Announce(v)
      BY <1>1, <1>2, <1>3, <2>3, MarkMoves DEF AfterGraph
    <2>4. CASE SwapReturns(v)
      BY <1>1, <1>2, <2>4, SwapMoves DEF AfterGraph
    <2> QED BY <2>1, <2>2, <2>3, <2>4
  <1>5. CASE ingest'[v].at \in AfterGraph
    BY <1>0, <1>5, StageAfter
  <1>6. CASE ingest'[v].at = "idle"
    BY <1>6, StageBefore DEF AfterDocument, AfterParents, AfterChildren, AfterNext, AfterGraph
  <1> QED BY <1>4, <1>5, <1>6

LEMMA StageStep ==
    ASSUME StoreOK, RowsOK, GraphOK, CutInv, IngestInv, ShapeInv, Waits, StageInv,
           ChunksStayed, [Next]_vars
    PROVE  StageInv'
  <1> SUFFICES ASSUME NEW v \in Versions, ~Disturbed(v)'
               PROVE  /\ Stages(v)'
                      /\ v = "old" \/ status'[v] = "INDEXED" => Complete(v)'
    BY DEF StageInv, Stages
  <1>1. ~Disturbed(v)
    BY DisturbedStays
  <1>2. Stages(v) /\ (v = "old" \/ status[v] = "INDEXED" => Complete(v))
    BY <1>1 DEF StageInv, Stages
  <1>3. CASE ~Cut(v)
    BY <1>3, StageUncut, StageBefore
  <1>4. CASE Cut(v)
    <2>1. Kept(v)
      BY <1>4, CutStays, GraphKept
    <2>2. ASSUME v = "old" \/ status'[v] = "INDEXED" PROVE Complete(v)'
      <3>1. CASE v = "old" \/ status[v] = "INDEXED"
        BY <1>2, <2>1, <3>1, CompleteKept
      <3>2. CASE ingest[v].at \in {"indexing", "consolidated"}
        <4>1. Complete(v)
          BY <1>2, <3>2 DEF Stages, StageOK, ExtractOK, Complete, Searchable, AfterDocument,
             AfterParents, AfterChildren, AfterNext, AfterGraph
        <4> QED BY <2>1, <4>1, CompleteKept
      <3> QED BY <2>2, <3>1, <3>2, StatusIndexed
    <2>3. Stages(v)'
      <3>1. CASE ingest'[v] = ingest[v]
        BY <1>2, <2>1, <3>1, StageStays, CheckpointsStay
      <3>2. CASE Chunk(v) \/ MarkChunked(v) \/ LoadChunks(v) \/ QueryRaises(v)
        <4>1. \/ Stops(v)
              \/ \E place \in {"chunking", "chunked", "document"} : To(v, place)
          BY <3>2, SimpleMoves
        <4>2. ingest'[v].at \in {"idle", "chunking", "chunked", "document"}
          <5>1. ASSUME NEW place, To(v, place) PROVE ingest'[v].at = place
            BY <5>1, RowFields DEF To, Moved, RowsOK
          <5>2. Stops(v) => ingest'[v].at = "idle"
            BY DEF Stops, Moved, Idle
          <5> QED BY <4>1, <5>1, <5>2
        <4> QED BY <4>2, StageBefore DEF AfterDocument, AfterParents, AfterChildren, AfterNext,
                AfterGraph
      <3>3. CASE v = "old" /\ Reprocess
        <4>1. Moved("old", [ingest["old"] EXCEPT !.at = "parsed"])
          BY <3>3, GotoTyped DEF Reprocess, Places, Versions
        <4>2. ingest'[v].at = "parsed"
          BY <3>3, <4>1, RowFields DEF Moved, RowsOK
        <4> QED BY <4>2, StageBefore DEF AfterDocument, AfterParents, AfterChildren, AfterNext,
                AfterGraph
      <3>4. CASE StoreDocument(v) \/ StoreParents(v) \/ StoreChildren(v) \/ StoreNext(v)
        BY <1>2, <2>1, <3>4, StageDocument
      <3>5. CASE Extract(v) \/ Gather(v)
        BY <1>2, <2>1, <3>5, StageExtract, StageGather
      <3>6. CASE StoreNodes(v) \/ StoreEdges(v) \/ StoreMentions(v)
        BY <1>2, <2>1, <3>6, StageNodes, StageEdges, StageMentions
      <3>7. CASE LoadGraph(v)
        BY <1>2, <2>1, <3>7, StageLoad
      <3>8. CASE \/ MarkExtracted(v) \/ MarkIndexed(v) \/ SaveSubgraph(v) \/ MarkConsolidated(v)
                  \/ Announce(v) \/ SwapReturns(v)
        BY <1>2, <2>1, <3>8, StageTail
      <3> QED BY <3>1, <3>2, <3>3, <3>4, <3>5, <3>6, <3>7, <3>8, OwnSteps
    <2> QED BY <2>2, <2>3
  <1> QED BY <1>3, <1>4
-----------------------------------------------------------------------------
(* The swap. *)

LEMMA IncidentsGrow ==
    ASSUME [Next]_vars
    PROVE  incidents \subseteq incidents'
  <1>1. ASSUME NEW kind, Incident(kind) PROVE incidents \subseteq incidents'
    BY <1>1 DEF Incident
  <1>2. CASE UNCHANGED incidents
    BY <1>2
  <1>3. ASSUME NEW c \in Callers, RemoveSubgraph(c) PROVE incidents \subseteq incidents'
    BY <1>1, <1>2, <1>3 DEF RemoveSubgraph
  <1>4. CASE (\E v \in Versions : UserDeletes(v) \/ QueryRaises(v)) \/ BeginPurge \/ Reprocess
    BY <1>1, <1>4 DEF UserDeletes, QueryRaises, BeginPurge, Reprocess
  <1> QED BY <1>2, <1>3, <1>4
      DEF Next, vars, Chunk, MarkChunked, LoadChunks, StoreDocument, StoreParents,
          StoreChildren, StoreNext, Extract, Gather, StoreNodes, StoreEdges, StoreMentions,
          MarkExtracted, LoadGraph, MarkIndexed, SaveSubgraph, MarkConsolidated, Announce,
          SwapReturns, BeginRemoval, DeleteAggregate, PurgeGraph, PurgeRows

LEMMA BaseActive ==
    ASSUME [Next]_vars, base' = "active"
    PROVE  base = "active"
  BY DEF Next, vars, Chunk, MarkChunked, LoadChunks, StoreDocument, StoreParents,
     StoreChildren, StoreNext, Extract, Gather, StoreNodes, StoreEdges, StoreMentions,
     MarkExtracted, LoadGraph, MarkIndexed, SaveSubgraph, MarkConsolidated, Announce,
     SwapReturns, UserDeletes, QueryRaises, BeginRemoval, RemoveSubgraph, DeleteAggregate,
     Reprocess, BeginPurge, PurgeGraph, PurgeRows

LEMMA RemovedBy ==
    ASSUME [Next]_vars, NEW v \in removed' \cup left'
    PROVE  \/ v \in removed \cup left
           \/ \E c \in Callers : removal[c].at = "graph" /\ removal[c].version = v
  <1>1. CASE UNCHANGED history
    BY <1>1 DEF history
  <1>2. ASSUME NEW u \in Versions, StoreDocument(u) PROVE v \in removed \cup left
    BY <1>2 DEF StoreDocument
  <1>3. ASSUME NEW c \in Callers, RemoveSubgraph(c)
        PROVE  v \in removed \cup left \/ (removal[c].at = "graph" /\ removal[c].version = v)
    BY <1>3 DEF RemoveSubgraph
  <1> QED BY <1>1, <1>2, <1>3
      DEF Next, vars, Chunk, MarkChunked, LoadChunks, StoreParents, StoreChildren, StoreNext,
          Extract, Gather, StoreNodes, StoreEdges, StoreMentions, MarkExtracted, LoadGraph,
          MarkIndexed, SaveSubgraph, MarkConsolidated, Announce, SwapReturns, UserDeletes,
          QueryRaises, BeginRemoval, DeleteAggregate, BeginPurge, PurgeGraph, PurgeRows, Reprocess

LEMMA DeletersStep ==
    ASSUME RowsOK, DeletersInv, [Next]_vars
    PROVE  DeletersInv'
  <1>0. /\ removal \in [Callers -> Removals] /\ "swap" \in Callers /\ "user" \in Callers
        /\ NoRemoval.at = "idle" /\ NoRemoval.version = "old"
    BY RemovalRows DEF RowsOK, Callers
  <1>1. removal'["swap"].version = "old"
    <2>1. ASSUME NEW c \in Callers, BeginRemoval(c) \/ RemoveSubgraph(c) \/ DeleteAggregate(c)
          PROVE  removal'["swap"].version = "old"
      <3>1. CASE c # "swap"
        <4>1. removal'["swap"] = removal["swap"]
          BY <1>0, <2>1, <3>1, RemovalMoves
        <4> QED BY <4>1 DEF DeletersInv
      <3>2. CASE c = "swap"
        <4>1. \/ removal'["swap"] = NoRemoval
              \/ \E place : removal'["swap"] = [removal["swap"] EXCEPT !.at = place]
          <5>1. PICK row : /\ removal' = [removal EXCEPT !["swap"] = row]
                           /\ \/ row = NoRemoval
                              \/ \E place : row = [removal["swap"] EXCEPT !.at = place]
            BY <1>0, <2>1, <3>2, RemovalMoves
          <5>2. removal'["swap"] = row
            BY <1>0, <5>1
          <5> QED BY <5>1, <5>2
        <4>2. \A place : [removal["swap"] EXCEPT !.at = place].version = removal["swap"].version
          BY <1>0, RemovalRows
        <4> QED BY <1>0, <4>1, <4>2 DEF DeletersInv
      <3> QED BY <3>1, <3>2
    <2>2. ASSUME NEW row, removal' = [removal EXCEPT !["user"] = row]
          PROVE  removal'["swap"].version = "old"
      BY <1>0, <2>2 DEF DeletersInv
    <2>3. ASSUME NEW row, row.version = "old", removal' = [removal EXCEPT !["swap"] = row]
          PROVE  removal'["swap"].version = "old"
      BY <1>0, <2>3
    <2>4. [at |-> "begin", version |-> "old"].version = "old"
      OBVIOUS
    <2> QED BY <1>0, <2>1, <2>2, <2>3, <2>4, RemovalSteps DEF DeletersInv
  <1>2. removal'["user"].at # "idle" => "delete" \in incidents'
    <2>0. removal["user"].at # "idle" => "delete" \in incidents'
      BY IncidentsGrow DEF DeletersInv
    <2>1. ASSUME NEW c \in Callers, BeginRemoval(c) \/ RemoveSubgraph(c) \/ DeleteAggregate(c)
          PROVE  removal["user"].at # "idle" \/ removal'["user"] = removal["user"]
      <3>1. CASE c = "user"
        BY <2>1, <3>1 DEF BeginRemoval, RemoveSubgraph, DeleteAggregate
      <3>2. CASE c # "user"
        BY <1>0, <2>1, <3>2, RemovalMoves
      <3> QED BY <3>1, <3>2
    <2>2. ASSUME NEW v \in Versions, UserDeletes(v) PROVE "delete" \in incidents'
      BY <2>2 DEF UserDeletes, Incident
    <2>3. ASSUME NEW row, removal' = [removal EXCEPT !["swap"] = row]
          PROVE  removal'["user"] = removal["user"]
      BY <1>0, <2>3
    <2> QED BY <2>0, <2>1, <2>2, <2>3, RemovalSteps
  <1>3. "delete" \notin incidents' => "new" \notin removed' \cup left'
    <2> SUFFICES ASSUME "delete" \notin incidents', "new" \in removed' \cup left' PROVE FALSE
      OBVIOUS
    <2>1. "delete" \notin incidents
      BY IncidentsGrow
    <2>2. PICK c \in Callers : removal[c].at = "graph" /\ removal[c].version = "new"
      BY <2>1, RemovedBy DEF DeletersInv
    <2> QED BY <2>1, <2>2 DEF DeletersInv, Callers
  <1> QED BY <1>1, <1>2, <1>3 DEF DeletersInv

\* While nobody deletes by hand, nothing happens to the new version.
NewUndisturbedLaw == DeletersInv /\ base = "active" /\ "delete" \notin incidents => ~Disturbed("new")
LEMMA NewUndisturbed == NewUndisturbedLaw
  BY DEF NewUndisturbedLaw, DeletersInv, Disturbed, Callers

LEMMA SwapStep ==
    ASSUME StoreOK, RowsOK, GraphOK, CutInv, IngestInv, ShapeInv, StageInv, SwapInv,
           ChunksStayed, [Next]_vars
    PROVE  SwapInv'
  <1>1. Waits' /\ DeletersInv'
    BY WaitStep, DeletersStep DEF SwapInv
  <1>2. ASSUME base' = "active", "delete" \notin incidents', Replaced'
        PROVE  Cut("new")' /\ Searchable("new")'
    <2>0. "new" \in Versions
      BY DEF Versions
    <2>1. base = "active" /\ "delete" \notin incidents
      BY <1>2, BaseActive, IncidentsGrow
    <2>2. ~Disturbed("new")'
      <3>1. NewUndisturbedLaw'
        BY NewUndisturbed, PTL
      <3> QED BY <1>1, <1>2, <3>1 DEF NewUndisturbedLaw
    <2>3. ~Disturbed("new")
      BY <2>1, NewUndisturbed DEF NewUndisturbedLaw, SwapInv
    <2>4. Cut("new") /\ Searchable("new")
      <3>1. CASE Replaced
        BY <2>1, <3>1 DEF SwapInv
      <3>2. CASE ~Replaced
        <4>1. \A c \in Callers : removal[c].at # "graph"
          BY <2>1, <3>2 DEF Replaced, SwapInv, DeletersInv, Callers
        <4>2. "old" \notin removed' \cup left'
          BY <3>2, <4>1, RemovedBy DEF Replaced
        <4>3. removal'["swap"].at # "idle" /\ removal["swap"].at = "idle"
          BY <1>2, <3>2, <4>2 DEF Replaced
        <4>4. ingest["new"].at \in {"indexing", "consolidated", "announce"}
          <5>0. /\ removal \in [Callers -> Removals] /\ "swap" \in Callers /\ "user" \in Callers
                /\ NoRemoval.at = "idle"
            BY RemovalRows DEF RowsOK, Callers
          <5>1. ASSUME NEW c \in Callers,
                       BeginRemoval(c) \/ RemoveSubgraph(c) \/ DeleteAggregate(c)
                PROVE  FALSE
            <6>1. c # "swap"
              BY <4>3, <5>1 DEF BeginRemoval, RemoveSubgraph, DeleteAggregate
            <6>2. removal'["swap"] = removal["swap"]
              BY <5>0, <5>1, <6>1, RemovalMoves
            <6> QED BY <4>3, <6>2
          <5>2. ASSUME NEW row, removal' = [removal EXCEPT !["user"] = row] PROVE FALSE
            BY <4>3, <5>0, <5>2
          <5>3. removal' # [removal EXCEPT !["swap"] = NoRemoval]
            BY <4>3, <5>0
          <5>4. CASE MarkIndexed("new") \/ MarkConsolidated("new") \/ Announce("new")
            BY <5>4 DEF MarkIndexed, MarkConsolidated, Announce, At
          <5> QED BY <4>3, <5>1, <5>2, <5>3, <5>4, RemovalSteps
        <4>5. StageOK("new")
          BY <2>0, <2>3 DEF StageInv
        <4> QED BY <2>0, <4>4, <4>5 DEF CutInv, StageOK, Searchable, AfterChunks, AfterDocument,
                AfterParents, AfterChildren, AfterNext, AfterGraph
      <3> QED BY <3>1, <3>2
    <2>5. chunks'["new"] = chunks["new"] /\ Cut("new")'
      BY <2>0, <2>4, CutStays
    <2>6. Kept("new")
      BY <2>0, <2>2, <2>5, GraphKept
    <2> QED BY <2>0, <2>4, <2>5, <2>6, CompleteKept
  <1> QED BY <1>1, <1>2 DEF SwapInv
-----------------------------------------------------------------------------
(* The invariant of the specification. *)

IInv ==
    /\ StoreOK /\ RowsOK /\ GraphOK /\ CutInv /\ IngestInv
    /\ ShapeInv /\ RemovalInv /\ StageInv /\ SwapInv

LEMMA InitTypes ==
    ASSUME Init
    PROVE  StoreOK /\ RowsOK /\ CutInv /\ IngestInv /\ RemovalInv
  <1>0. Idle \in Rows /\ [Idle EXCEPT !.at = "parsed"] \in Rows
        /\ Idle.at = "idle" /\ [Idle EXCEPT !.at = "parsed"].at = "parsed"
        /\ NoRemoval \in Removals /\ NoRemoval.at = "idle" /\ NoRemoval.version = "old"
    BY DEF Idle, Rows, Places, Removals, NoRemoval, Versions
  <1>1. StoreOK
    BY DEF Init, StoreOK
  <1>2. \A v \in Versions : ingest[v] \in Rows /\ ingest[v].at \in {"idle", "parsed"}
    BY <1>0 DEF Init
  <1>3. RowsOK
    <2>1. ingest \in [Versions -> Rows] /\ removal \in [Callers -> Removals]
      BY <1>0, <1>2 DEF Init
    <2> QED BY <2>1 DEF Init, RowsOK, Statuses
  <1>4. CutInv
    <2>1. \A v \in Versions : text[v] \in Texts \cup {OldText}
      BY DEF Init
    <2>2. "old" \in Versions /\ chunks["old"] = Chunks(text["old"])
      BY DEF Init, OldChunks, Versions
    <2>3. \A v \in Versions : v # "old" => chunks[v] = NoChunks /\ "chunks" \notin files[v]
                                           /\ status[v] # "INDEXED"
      BY DEF Init
    <2>4. \A v \in Versions : ingest[v].at \notin AfterChunks
      BY <1>2 DEF AfterChunks, AfterDocument, AfterParents, AfterChildren, AfterNext, AfterGraph
    <2> QED BY <2>1, <2>2, <2>3, <2>4 DEF CutInv, Cut
  <1>5. IngestInv
    BY <1>2 DEF IngestInv, IngestOK
  <1>6. RemovalInv
    BY <1>0 DEF Init, RemovalInv
  <1> QED BY <1>1, <1>3, <1>4, <1>5, <1>6

LEMMA InitGraph ==
    ASSUME Init
    PROVE  /\ GraphOK /\ ShapeInv /\ Complete("old")
  <1>1. /\ DOMAIN graph = Fields /\ graph.documents = {"old"}
        /\ graph.parents = ParentsOf("old") /\ graph.children = ChildrenIn("old")
        /\ graph.next = Successions("old") /\ graph.entities = GraphOf("old").entities
        /\ graph.relations = GraphOf("old").relations
        /\ graph.mentions = IF streaming THEN {}
                            ELSE {m \in ParentsOf("old") \X GraphOf("old").entities :
                                      m[2] \in Extracted(m[1][2])}
    BY DEF Init, Fields
  <1>2. "old" \in Versions
    BY DEF Versions
  <1>3. GraphOK
    <2>1. graph.next \subseteq graph.parents \X graph.parents
      BY <1>1 DEF Successions
    <2>2. graph.relations \subseteq graph.entities \X graph.entities
      <3>1. ASSUME NEW i \in DOMAIN chunks["old"].parents, NEW r \in Graph(Extracted(i)).relations
            PROVE  r \in GraphOf("old").entities \X GraphOf("old").entities
        <4>1. r \in Extracted(i) \X Extracted(i)
          BY DEF Graph
        <4>2. Extracted(i) \subseteq GraphOf("old").entities
          BY <1>2, GraphOfTyped
        <4> QED BY <4>1, <4>2
      <3>2. \A r \in GraphOf("old").relations : r \in GraphOf("old").entities \X GraphOf("old").entities
        BY <1>2, <3>1, GraphOfTyped
      <3> QED BY <1>1, <3>2
    <2>3. graph.mentions \subseteq graph.parents \X graph.entities
      BY <1>1
    <2>4. graph.entities \subseteq Entities
      BY <1>1, <1>2, GraphOfTyped
    <2> QED BY <1>1, <1>2, <2>1, <2>2, <2>3, <2>4 DEF GraphOK
  <1>4. ShapeInv
    <2>1. \A c \in ChildrenIn("old") : <<c[1], c[2]>> \in ParentsOf("old")
      BY DEF ChildrenIn, Numbered, ParentsOf
    <2> QED BY <1>1, <1>2, <2>1, PassageNames DEF ShapeInv
  <1>5. Complete("old")
    <2>1. Searchable("old")
      BY <1>1 DEF Searchable
    <2>2. ASSUME NEW i \in DOMAIN chunks["old"].parents, ~streaming, NEW e \in Extracted(i)
          PROVE  <<<<"old", i>>, e>> \in graph.mentions
      <3>1. <<"old", i>> \in ParentsOf("old")
        BY DEF ParentsOf
      <3>2. e \in GraphOf("old").entities
        BY <1>2, GraphOfTyped
      <3> DEFINE m == <<<<"old", i>>, e>>
      <3>3. m \in ParentsOf("old") \X GraphOf("old").entities
        BY <3>1, <3>2
      <3>4. m[2] = e /\ m[1][2] = i
        OBVIOUS
      <3> HIDE DEF m
      <3>5. m \in graph.mentions
        BY <1>1, <2>2, <3>3, <3>4
      <3> QED BY <3>5 DEF m
    <2> QED BY <1>1, <2>1, <2>2 DEF Complete, GraphDone, EntitiesIn, RelationsIn, Linked
  <1> QED BY <1>3, <1>4, <1>5

LEMMA InitInv ==
    ASSUME Init
    PROVE  IInv
  <1>1. StoreOK /\ RowsOK /\ CutInv /\ IngestInv /\ RemovalInv /\ GraphOK /\ ShapeInv
    BY InitTypes, InitGraph
  <1>2. /\ \A c \in Callers : removal[c].at = "idle" /\ removal[c].version = "old"
        /\ removed = {} /\ left = {}
    BY DEF Init, NoRemoval
  <1>3. StageInv
    <2>1. \A v \in Versions : ingest[v].at \in {"idle", "parsed"}
      BY DEF Init, Idle
    <2>2. \A v \in Versions : StageOK(v) /\ ExtractOK(v)
      BY <2>1 DEF StageOK, ExtractOK, InGraph, At, AfterDocument, AfterParents, AfterChildren,
         AfterNext, AfterGraph
    <2>3. \A v \in Versions : v = "old" \/ status[v] = "INDEXED" => v = "old"
      BY DEF Init
    <2> QED BY <2>2, <2>3, InitGraph DEF StageInv
  <1>4. SwapInv
    BY <1>2 DEF SwapInv, Waits, DeletersInv, Replaced, Callers
  <1> QED BY <1>1, <1>3, <1>4 DEF IInv

LEMMA NextInv ==
    ASSUME IInv, [Next]_vars
    PROVE  IInv'
  <1>1. /\ StoreOK /\ RowsOK /\ GraphOK /\ CutInv /\ IngestInv
        /\ ShapeInv /\ RemovalInv /\ StageInv /\ SwapInv /\ Waits
    BY DEF IInv, SwapInv
  <1>2. ChunksStayed
    BY <1>1, ChunksStay
  <1>3. StoreOK' /\ RowsOK'
    BY <1>1, StoreStep, RowsStep
  <1>4. GraphOK' /\ CutInv' /\ IngestInv'
    BY <1>1, <1>2, GraphStep, CutStep, IngestStep
  <1>5. ShapeInv' /\ RemovalInv'
    BY <1>1, ShapeStep, RemovalStep
  <1>6. StageInv' /\ SwapInv'
    BY <1>1, <1>2, StageStep, SwapStep
  <1> QED BY <1>3, <1>4, <1>5, <1>6 DEF IInv

\* The inductive invariant holds of every run.
THEOREM Invariant == Spec => []IInv
  <1>1. Init => IInv
    BY InitInv
  <1>2. IInv /\ [Next]_vars => IInv'
    BY NextInv
  <1> QED BY <1>1, <1>2, PTL DEF Spec

\* Every variable has its type: the graph has edges only between nodes it has.
THEOREM TypeCorrect == Spec => []TypeOK
  <1>1. IInv => TypeOK
    BY Types DEF IInv
  <1> QED BY <1>1, Invariant, PTL

\* Whatever child a search finds, its parent, its document and the parents next to it are
\* in the graph and are of one version, at any moment of a purge, a removal or a store.
THEOREM AnswersAreWhole == Spec => []AnswersNameTheirDocument
  <1>1. ASSUME IInv PROVE AnswersNameTheirDocument
    <2>0. GraphOK /\ ShapeInv
      BY <1>1 DEF IInv
    <2>1. ASSUME NEW c \in graph.children PROVE Seed(c) # {}
      <3>1. <<c[1], c[2]>> \in graph.parents
        BY <2>0 DEF ShapeInv
      <3> QED BY <3>1 DEF Seed
    <2>2. ASSUME NEW c \in graph.children, NEW p \in Passages(c)
          PROVE  /\ p[1] \in graph.documents
                 /\ \A s \in graph.next : p \in {s[1], s[2]} =>
                       {s[1], s[2]} \subseteq graph.parents /\ s[1][1] = s[2][1]
      <3>1. p \in graph.parents
        BY DEF Passages, Seed
      <3>2. \A s \in graph.next : s[1] \in graph.parents /\ s[2] \in graph.parents
        BY <2>0 DEF GraphOK
      <3> QED BY <2>0, <3>1, <3>2 DEF ShapeInv
    <2> QED BY <2>1, <2>2 DEF AnswersNameTheirDocument
  <1> QED BY <1>1, Invariant, PTL

\* A version marked deleted has no node in the graph, whichever handler was between the
\* queries that store it when it was removed; unless FalkorDB refused the removal, or the
\* Document query came after it.  In the latter case the code stores all of it again.
THEOREM DeletedIsGoneForGood == Spec => []DeletedIsGone
  <1>1. ASSUME IInv PROVE DeletedIsGone
    <2>0. GraphOK /\ ShapeInv /\ RemovalInv
      BY <1>1 DEF IInv
    <2>1. ASSUME NEW v \in Versions, status[v] = "DELETED", v \notin left, NEW n \in Nodes(v)
          PROVE  FALSE
      <3>1. v \notin graph.documents
        BY <2>0, <2>1 DEF RemovalInv
      <3>2. n[1] = v
        BY DEF Nodes
      <3>3. CASE n \in {<<d>> : d \in graph.documents}
        <4>1. PICK d \in graph.documents : n = <<d>>
          BY <3>3
        <4>2. n[1] = d
          BY <4>1
        <4> QED BY <3>1, <3>2, <4>2
      <3>4. CASE n \in graph.parents
        BY <2>0, <3>1, <3>2, <3>4 DEF ShapeInv
      <3>5. CASE n \in graph.children
        <4>1. <<n[1], n[2]>> \in graph.parents
          BY <2>0, <3>5 DEF ShapeInv
        <4>2. <<n[1], n[2]>>[1] = n[1]
          OBVIOUS
        <4> QED BY <2>0, <3>1, <3>2, <4>1, <4>2 DEF ShapeInv
      <3> QED BY <3>3, <3>4, <3>5 DEF Nodes
    <2> QED BY <2>1 DEF DeletedIsGone
  <1> QED BY <1>1, Invariant, PTL

\* An indexed version that nobody has removed has every passage, succession, entity,
\* relation and (without workers) mention of its text in the graph.
THEOREM IndexedIsFound == Spec => []IndexedIsSearchable
  <1>1. ASSUME IInv PROVE IndexedIsSearchable
    <2>1. ASSUME NEW v \in Versions, status[v] = "INDEXED", v \notin removed \cup left,
                 base = "active",
                 \A c \in Callers : removal[c].at # "idle" => removal[c].version # v
          PROVE  /\ Searchable(v)
                 /\ GraphOf(v).entities \subseteq graph.entities
                 /\ GraphOf(v).relations \subseteq graph.relations
                 /\ streaming \/ \A p \in ParentsOf(v) : \A e \in Extracted(p[2]) :
                       <<p, e>> \in graph.mentions
      <3>1. ~Disturbed(v)
        BY <2>1 DEF Disturbed
      <3>2. Searchable(v) /\ GraphDone(v)
        BY <1>1, <2>1, <3>1 DEF IInv, StageInv, Complete
      <3>3. ASSUME ~streaming, NEW p \in ParentsOf(v), NEW e \in Extracted(p[2])
            PROVE  <<p, e>> \in graph.mentions
        <4>1. PICK i \in DOMAIN chunks[v].parents : p = <<v, i>>
          BY DEF ParentsOf
        <4>2. p[2] = i
          BY <4>1
        <4> QED BY <3>2, <3>3, <4>1, <4>2 DEF GraphDone, Linked
      <3> QED BY <3>2, <3>3 DEF GraphDone, EntitiesIn, RelationsIn
    <2> QED BY <2>1 DEF IndexedIsSearchable
  <1> QED BY <1>1, Invariant, PTL

\* While a file's old version is replaced by its new one, every moment has one of them
\* that is found, unless a user deletes or the base is purged.
THEOREM OneVersionIsFound == Spec => []OneVersionSearchable
  <1>1. ASSUME IInv PROVE OneVersionSearchable
    <2> SUFFICES ASSUME base = "active", "delete" \notin incidents
                 PROVE  \E v \in Versions : Searchable(v)
      BY DEF OneVersionSearchable
    <2>1. "old" \in Versions /\ "new" \in Versions
      BY DEF Versions
    <2>2. CASE Replaced
      BY <1>1, <2>1, <2>2 DEF IInv, SwapInv
    <2>3. CASE ~Replaced
      <3>1. ~Disturbed("old")
        BY <1>1, <2>3 DEF IInv, SwapInv, DeletersInv, Replaced, Disturbed, Callers
      <3> QED BY <1>1, <2>1, <3>1 DEF IInv, StageInv, Complete
    <2> QED BY <2>2, <2>3
  <1> QED BY <1>1, Invariant, PTL

\* Whatever is in a chunks file is the text of its document: the parents are the text, whole
\* and in order, and the children of each go through its sentences without a gap, but for a
\* last child that says what the one before says.  For any text and any sizes; it bounds
\* none of them, as the code does not.
THEOREM ChunksAreWhole == Spec => []ChunksAreTheText
  <1>1. ASSUME IInv PROVE ChunksAreTheText
    <2> SUFFICES ASSUME NEW v \in Versions, "chunks" \in files[v]
                 PROVE  /\ PartitionOf(text[v], chunks[v])
                        /\ \A i \in DOMAIN chunks[v].parents :
                              Covers(chunks[v].children[i], Sentences(chunks[v].parents[i]))
      BY DEF ChunksAreTheText
    <2>1. chunks[v] = Chunks(text[v]) /\ text[v] \in Texts \cup {OldText}
      BY <1>1 DEF IInv, CutInv, Cut
    <2> DEFINE t == text[v]
    <2>2. IsText(t)
      BY <2>1, TextsAssumption
    <2> HIDE DEF t
    <2>3. /\ PartitionOf(t, Chunks(t))
          /\ \A i \in DOMAIN Parents(t) : Covers(Chunks(t).children[i], Sentences(Parents(t)[i]))
      BY <2>2, ChunksWhole
    <2>4. Chunks(t).parents = Parents(t)
      BY DEF Chunks
    <2> QED BY <2>1, <2>3, <2>4 DEF t
  <1> QED BY <1>1, Invariant, PTL
=============================================================================
