--------------------------- MODULE KnowledgeBases ---------------------------
(***************************************************************************)
(* Knowledge bases and ontology templates: the use cases of the API that   *)
(* create and delete them and attach documents and data sources to a base, *)
(* over the base's event stream, its rows in PostgreSQL with their foreign *)
(* keys, and its raw files.                                                *)
(*                                                                         *)
(* A use case is a sequence of statements, each in a transaction of its    *)
(* own; calls interleave between any two.  What happens to a document      *)
(* after it is attached is in DocumentStream, ReadModel and                *)
(* KnowledgeGraph, which also has the graph that a deletion removes.       *)
(***************************************************************************)
EXTENDS Naturals, Sequences, FiniteSets

CONSTANTS
    Callers,                              \* concurrent calls of the API
    Bases, Templates, Documents, Sources, \* ids that uuid4 may give
    NameOf(_), VersionOf(_),              \* of the ontology of a template
    InlineNames,                          \* names of ontologies given in the request
    None,
    MaxDeletions,                         \* bound on the Deleted events of a stream
    MaxFaults                             \* bound on calls cut short

ASSUME DeletionsAssumption == MaxDeletions \in Nat
ASSUME FaultsAssumption == MaxFaults \in Nat

Inline == "inline"    \* the ontology of an event that came with the request
Absent == "absent"    \* no row

\* A UUID is neither NULL nor one of these marks.
ASSUME IdsAssumption ==
    /\ None \notin Bases \cup Templates \cup {Absent}
    /\ {Inline, Absent} \cap Templates = {}

VARIABLES
    templates, \* rows of ontology_templates
    streams,   \* events of each KnowledgeBaseAggregate: [type, ontology]
    rows,      \* knowledge_bases: Absent, or ontology_id
    documents, \* attached_documents: <<base, id>>
    sources,   \* knowledge_data_sources: <<base, id>>
    files,     \* raw files in the partition of a base: <<base, document>>
    calls,     \* per caller: where its call is, and the call's variables
    spent,     \* ids given out
    faults,
    disturbed, \* bases of which a call was cut short or overtaken by a deletion
    raced      \* bases whose template was deleted while they were linked to it

tables == <<templates, rows, documents, sources>>
history == <<faults, disturbed, raced>>
vars == <<tables, streams, files, calls, spent, history>>

NoCall == [at |-> "idle", base |-> None, template |-> None, name |-> None,
           item |-> None, version |-> 0]

Idle(c) == calls[c] = NoCall
At(c, place) == calls[c].at = place
Call(c, call) == calls' = [calls EXCEPT ![c] = call]
Goto(c, place) == calls' = [calls EXCEPT ![c].at = place]
End(c) == calls' = [calls EXCEPT ![c] = NoCall]
Fresh(id) == id \notin spent /\ spent' = spent \cup {id}
-----------------------------------------------------------------------------
(* KnowledgeBaseAggregate, replayed from its stream. *)

Created(ontology) == <<[type |-> "Created", ontology |-> ontology]>>
Deleted == <<[type |-> "Deleted", ontology |-> None]>>

\* A deletion archives the base for good.
Archived(k) == \E i \in DOMAIN streams[k] : streams[k][i].type = "Deleted"
Ontology(k) == IF streams[k] = <<>> THEN None ELSE streams[k][1].ontology
-----------------------------------------------------------------------------
(* Tables and their constraints. *)

\* ontology_templates.name is unique, whatever the version.
NameTaken(t) == \E u \in templates : NameOf(u) = NameOf(t)

\* Mutant: ontology_id without its foreign key.
Referable_Always(t) == TRUE
\* knowledge_bases.ontology_id references a template.
Referable(t) == t = None \/ t \in templates

\* ON DELETE SET NULL.
Unlinked(t) == [k \in Bases |-> IF rows[k] = t THEN None ELSE rows[k]]

\* What a query by name finds.
Named(name) ==
    LET found == {t \in templates : NameOf(t) = name} IN
    IF found = {} THEN None ELSE CHOOSE t \in found : TRUE

\* INSERT ... ON CONFLICT DO UPDATE with COALESCE: a link is never taken back.
Upserted(k, t) ==
    [rows EXCEPT ![k] = IF t = None /\ @ # Absent THEN @ ELSE t]

\* get_by_id finds the row, and reads it with the ontology of the template it is linked to
\* and with the base's documents.
Exists(k) == rows[k] # Absent
Of(k, items) == {i \in items : i[1] = k}
Base(k) == [ontology |-> IF rows[k] \in templates THEN rows[k] ELSE None,
            documents |-> Of(k, documents)]

\* Both tables in a transaction; the data sources go by ON DELETE CASCADE.
Purge(k) ==
    /\ rows' = [rows EXCEPT ![k] = Absent]
    /\ documents' = {d \in documents : d[1] # k}
    /\ sources' = {s \in sources : s[1] # k}
    /\ UNCHANGED templates
-----------------------------------------------------------------------------
(* CreateOntologyTemplateUseCase. *)

\* Refused when the name has this version already.
CheckTemplate(c, t) ==
    /\ Idle(c) /\ Fresh(t)
    /\ ~ \E u \in templates : NameOf(u) = NameOf(t) /\ VersionOf(u) = VersionOf(t)
    /\ Call(c, [NoCall EXCEPT !.at = "saveTemplate", !.template = t])
    /\ UNCHANGED <<tables, streams, files, history>>

\* Raises when the name is taken by another version.
SaveTemplate(c) ==
    LET t == calls[c].template IN
    /\ At(c, "saveTemplate") /\ End(c)
    /\ templates' = IF NameTaken(t) THEN templates ELSE templates \cup {t}
    /\ UNCHANGED <<rows, documents, sources, streams, files, spent, history>>
-----------------------------------------------------------------------------
(* DeleteOntologyTemplateUseCase. *)

\* Mutant: the count is not looked at.
Unused_Always(t) == TRUE
\* count_usages is 0; otherwise the call answers CONFLICT.
Unused(t) == \A k \in Bases : rows[k] # t

CountUsages(c, t) ==
    /\ Idle(c) /\ t \in templates /\ Unused(t)
    /\ Call(c, [NoCall EXCEPT !.at = "dropTemplate", !.template = t])
    /\ UNCHANGED <<tables, streams, files, spent, history>>

Creating == {"append", "project", "insert", "save", "upsert"}
CreatedFrom(t) == {calls[c].base : c \in {b \in Callers : /\ calls[b].at \in Creating
                                                          /\ calls[b].template = t}}

DropTemplate(c) ==
    LET t == calls[c].template IN
    /\ At(c, "dropTemplate") /\ End(c)
    /\ templates' = templates \ {t}
    /\ rows' = Unlinked(t)
    /\ raced' = raced \cup CreatedFrom(t)
    /\ UNCHANGED <<documents, sources, streams, files, spent, faults, disturbed>>
-----------------------------------------------------------------------------
(* CreateKnowledgeBaseUseCase. *)

\* The ontology is a template's, or comes with the request.
LoadOntology(c, k, t, name) ==
    /\ Idle(c) /\ Fresh(k)
    /\ Call(c, [NoCall EXCEPT !.at = "append", !.base = k, !.template = t, !.name = name])
    /\ UNCHANGED <<tables, streams, files, history>>

AppendCreated(c) ==
    LET k == calls[c].base  t == calls[c].template IN
    /\ At(c, "append") /\ Goto(c, "project")
    /\ streams' = [streams EXCEPT ![k] = Created(IF t = None THEN Inline ELSE t)]
    /\ UNCHANGED <<tables, files, spent, history>>

\* First the projector, then the use case itself: the template of that name is looked up
\* and the row is written with it, in two statements.
LookUpTemplate(c) ==
    /\ calls[c].at \in {"project", "save"}
    /\ calls' = [calls EXCEPT ![c].at = IF @ = "project" THEN "insert" ELSE "upsert",
                              ![c].item = Named(calls[c].name)]
    /\ UNCHANGED <<tables, streams, files, spent, history>>

WriteRow(c) ==
    LET k == calls[c].base  t == calls[c].item IN
    /\ calls[c].at \in {"insert", "upsert"}
    /\ IF Referable(t)
         THEN /\ rows' = Upserted(k, t)
              /\ IF At(c, "insert") THEN Goto(c, "save") ELSE End(c)
              /\ disturbed' = IF Archived(k) THEN disturbed \cup {k} ELSE disturbed
              /\ raced' = IF \E d \in Callers : /\ At(d, "dropTemplate")
                                                /\ calls[d].template = t
                            THEN raced \cup {k} ELSE raced
         ELSE \* The foreign key raises, through the event bus and the event store.
              /\ End(c)
              /\ disturbed' = disturbed \cup {k}
              /\ UNCHANGED <<rows, raced>>
    /\ UNCHANGED <<templates, documents, sources, streams, files, spent, faults>>
-----------------------------------------------------------------------------
(* DeleteKnowledgeBaseUseCase. *)

Deleting == {"appendDeleted", "projectDeleted", "deleteRows"}
InDeletion(k) == \E c \in Callers : calls[c].at \in Deleting /\ calls[c].base = k

\* Mutant: a partition that no file is in.
Partition_Bare(k) == {}
\* Everything under kb-<id>.
Partition(k) == {f \in files : f[1] = k}

\* The base is replayed from its stream, an archived one as well, and its files are
\* removed.  The id is known to a caller once the base was listed.
BeginDelete(c, k) ==
    /\ Idle(c) /\ streams[k] # <<>> /\ (Exists(k) \/ Archived(k))
    /\ Len(streams[k]) <= MaxDeletions
    /\ Call(c, [NoCall EXCEPT !.at = "appendDeleted", !.base = k, !.version = Len(streams[k])])
    /\ files' = files \ Partition(k)
    /\ UNCHANGED <<tables, streams, spent, history>>

\* A CONCURRENCY_ERROR is not caught.
AppendDeleted(c) ==
    LET k == calls[c].base IN
    /\ At(c, "appendDeleted")
    /\ IF Len(streams[k]) = calls[c].version
         THEN streams' = [streams EXCEPT ![k] = @ \o Deleted] /\ Goto(c, "projectDeleted")
         ELSE End(c) /\ UNCHANGED streams
    /\ UNCHANGED <<tables, files, spent, history>>

\* By the projector, then once more by the use case.
ProjectDeleted(c) ==
    /\ At(c, "projectDeleted") /\ Goto(c, "deleteRows")
    /\ Purge(calls[c].base)
    /\ UNCHANGED <<streams, files, spent, history>>

DeleteRows(c) ==
    /\ At(c, "deleteRows") /\ End(c)
    /\ Purge(calls[c].base)
    /\ UNCHANGED <<streams, files, spent, history>>
-----------------------------------------------------------------------------
(* AttachAndStoreDocumentUseCase and CreateDataSourceUseCase: the base's row is read, and *)
(* what is attached is written later.                                                     *)

CheckBase(c, k, item) ==
    /\ Idle(c) /\ Fresh(item) /\ Exists(k)
    /\ Call(c, [NoCall EXCEPT !.at = IF item \in Documents THEN "putFile" ELSE "saveSource",
                              !.base = k, !.item = item])
    /\ UNCHANGED <<tables, streams, files, history>>

PutFile(c) ==
    LET k == calls[c].base IN
    /\ At(c, "putFile") /\ Goto(c, "attach")
    /\ files' = files \cup {<<k, calls[c].item>>}
    /\ disturbed' = IF InDeletion(k) \/ Archived(k) THEN disturbed \cup {k} ELSE disturbed
    /\ UNCHANGED <<tables, streams, spent, faults, raced>>

\* The projection of DocumentAttached, within the append: without the base its foreign key
\* raises, and the call answers INTERNAL_ERROR.
AttachRow(c) ==
    LET k == calls[c].base IN
    /\ At(c, "attach") /\ End(c)
    /\ documents' = IF rows[k] = Absent THEN documents
                    ELSE documents \cup {<<k, calls[c].item>>}
    /\ UNCHANGED <<templates, rows, sources, streams, files, spent, history>>

SaveSource(c) ==
    LET k == calls[c].base IN
    /\ At(c, "saveSource") /\ End(c)
    /\ sources' = IF rows[k] = Absent THEN sources ELSE sources \cup {<<k, calls[c].item>>}
    /\ UNCHANGED <<templates, rows, documents, streams, files, spent, history>>
-----------------------------------------------------------------------------
\* A statement raises, or the process ends: the call stays where it is.
CallIsCut(c) ==
    /\ ~ Idle(c) /\ faults < MaxFaults
    /\ faults' = faults + 1
    /\ End(c)
    /\ disturbed' = disturbed \cup ({calls[c].base} \cap Bases)
    /\ UNCHANGED <<tables, streams, files, spent, raced>>
-----------------------------------------------------------------------------
\* What the routes of the API start.
OntologyRoutes(c) == \E t \in Templates : CheckTemplate(c, t) \/ CountUsages(c, t)

CreateBase(c, k) ==
    \/ \E t \in templates : LoadOntology(c, k, t, NameOf(t))
    \/ \E name \in InlineNames : LoadOntology(c, k, None, name)

KnowledgeRoutes(c) ==
    \E k \in Bases :
        \/ CreateBase(c, k) \/ BeginDelete(c, k)
        \/ \E d \in Documents : CheckBase(c, k, d)

SourceRoutes(c) == \E k \in Bases, s \in Sources : CheckBase(c, k, s)

Init ==
    /\ templates = {} /\ rows = [k \in Bases |-> Absent]
    /\ documents = {} /\ sources = {} /\ files = {}
    /\ streams = [k \in Bases |-> <<>>]
    /\ calls = [c \in Callers |-> NoCall]
    /\ spent = {} /\ faults = 0 /\ disturbed = {} /\ raced = {}

Next ==
    \E c \in Callers :
        \/ OntologyRoutes(c) \/ KnowledgeRoutes(c) \/ SourceRoutes(c)
        \/ SaveTemplate(c) \/ DropTemplate(c)
        \/ AppendCreated(c) \/ LookUpTemplate(c) \/ WriteRow(c)
        \/ AppendDeleted(c) \/ ProjectDeleted(c) \/ DeleteRows(c)
        \/ PutFile(c) \/ AttachRow(c) \/ SaveSource(c)
        \/ CallIsCut(c)

Spec == Init /\ [][Next]_vars
-----------------------------------------------------------------------------
(* Properties. *)

Places == {"idle", "saveTemplate", "dropTemplate", "putFile", "attach", "saveSource"}
             \cup Creating \cup Deleting

\* Types, unique names, and the foreign keys of the three tables.
TypeOK ==
    /\ templates \subseteq Templates
    /\ \A t, u \in templates : NameOf(t) = NameOf(u) => t = u
    /\ rows \in [Bases -> {Absent, None} \cup templates]
    /\ \A d \in documents \cup sources : d[1] \in Bases /\ rows[d[1]] # Absent
    /\ files \subseteq Bases \X Documents
    /\ \A c \in Callers : calls[c].at \in Places /\ calls[c].base \in Bases \cup {None}
    /\ \A k \in Bases : Len(streams[k]) <= MaxDeletions + 1
    /\ spent \subseteq Bases \cup Templates \cup Documents \cup Sources
    /\ faults \in 0..MaxFaults /\ disturbed \cup raced \subseteq Bases

\* GET /bases, and GET /bases/{id} with its fallback to the stream.
Listed == {k \in Bases : Exists(k)}
Found(k) == Exists(k) \/ (streams[k] # <<>> /\ ~ Archived(k))

Settled(k) == k \notin disturbed /\ \A c \in Callers : calls[c].base # k

\* When no call on a base is under way, what is stored of it in three places agrees: a
\* base is listed and found just if its stream says it was created and not deleted, its
\* documents are the files of its partition, and of a deleted base nothing is left.
\* Except after a call that was cut short, a creation that writes its row after the
\* deletion, and an upload that writes its file during the deletion or after it.
SettledBasesAgree ==
    \A k \in Bases : Settled(k) =>
        LET live == streams[k] # <<>> /\ ~ Archived(k) IN
        /\ k \in Listed <=> live
        /\ Found(k) <=> live
        /\ Of(k, files) = Base(k).documents
        /\ ~ live => Of(k, files) \cup Of(k, sources) = {}

\* "Garante integridade referencial" (delete_ontology_template_use_case.py:14): a base that
\* was created from a template is read with that template's ontology, never with another
\* one of the same name and never without; except when the template was deleted during
\* the creation, or by a call that had counted no usages before the base was linked.
OntologyIsKept ==
    \A k \in Bases :
        Exists(k) /\ Ontology(k) \in Templates /\ k \notin raced
            => Base(k).ontology = Ontology(k)
=============================================================================
