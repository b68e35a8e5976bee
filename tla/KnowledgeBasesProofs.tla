------------------------ MODULE KnowledgeBasesProofs ------------------------
(***************************************************************************)
(* What TLAPS proves about KnowledgeBases, for any number of callers,      *)
(* bases, templates and faults: the types with the foreign keys, that what *)
(* is stored of a base agrees when no call is under way, and that a base   *)
(* keeps the ontology it was created from.                                 *)
(***************************************************************************)
EXTENDS KnowledgeBases, TLAPS

(* The inductive invariant. *)

Names == {NameOf(t) : t \in Templates} \cup InlineNames \cup {None}
BaseEvents == [type : {"Created", "Deleted"}, ontology : Templates \cup {None, Inline}]
CallStates == [at : Places, base : Bases \cup {None}, template : Templates \cup {None},
               name : Names, item : Templates \cup Documents \cup Sources \cup {None},
               version : Nat]

TablesTyped ==
    /\ templates \subseteq Templates
    /\ \A t, u \in templates : NameOf(t) = NameOf(u) => t = u
    /\ rows \in [Bases -> {Absent, None} \cup templates]
    /\ documents \subseteq Bases \X Documents
    /\ sources \subseteq Bases \X Sources
    /\ \A d \in documents \cup sources : rows[d[1]] # Absent

OthersTyped ==
    /\ files \subseteq Bases \X Documents
    /\ spent \subseteq Bases \cup Templates \cup Documents \cup Sources
    /\ faults \in 0..MaxFaults
    /\ disturbed \subseteq Bases /\ raced \subseteq Bases

\* A base has a row only after its stream was begun, and its id was given out before.
StreamsTyped ==
    /\ streams \in [Bases -> Seq(BaseEvents)]
    /\ \A k \in Bases : Len(streams[k]) <= MaxDeletions + 1
    /\ \A k \in Bases : IF streams[k] = <<>> THEN rows[k] = Absent ELSE k \in spent

Written == {"project", "insert", "save", "upsert"}

\* What a call that creates a base relies on.
CreationStands(c) ==
    LET k == calls[c].base  t == calls[c].template IN
    calls[c].at \in Creating =>
        /\ k \in Bases /\ k \in spent
        /\ t # None => calls[c].name = NameOf(t)
        /\ calls[c].at = "append" => streams[k] = <<>>
        /\ calls[c].at \in Written =>
              /\ streams[k] # <<>>
              /\ Ontology(k) = IF t = None THEN Inline ELSE t
        /\ calls[c].at \in {"insert", "upsert"} => calls[c].item \in Templates \cup {None}

\* What a call that deletes a base relies on.
DeletionStands(c) ==
    LET k == calls[c].base IN
    calls[c].at \in Deleting =>
        /\ k \in Bases /\ streams[k] # <<>>
        /\ IF calls[c].at = "appendDeleted"
             THEN /\ calls[c].version <= MaxDeletions
                  /\ calls[c].version = Len(streams[k]) \/ Archived(k)
             ELSE Archived(k)

\* What the other calls rely on: a base that was there is there, or was deleted.
AttachmentStands(c) ==
    LET k == calls[c].base IN
    /\ calls[c].at \in {"putFile", "attach", "saveSource"} =>
          /\ k \in Bases /\ streams[k] # <<>>
          /\ Exists(k) \/ Archived(k)
    /\ calls[c].at \in {"putFile", "attach"} => calls[c].item \in Documents
    /\ calls[c].at = "saveSource" => calls[c].item \in Sources
    /\ calls[c].at \in {"saveTemplate", "dropTemplate"} => calls[c].template \in Templates

Stands(c) == CreationStands(c) /\ DeletionStands(c) /\ AttachmentStands(c)

\* A base is created by one call.
OneCreator ==
    \A c, d \in Callers :
        /\ calls[c].at \in Creating /\ calls[d].at \in Creating
        /\ calls[c].base = calls[d].base
        => c = d

CallsTyped ==
    /\ calls \in [Callers -> CallStates]
    /\ \A c \in Callers : Stands(c)
    /\ OneCreator

TypeInv == TablesTyped /\ OthersTyped /\ StreamsTyped /\ CallsTyped

\* What is under way on a base, as far as its row goes: the deletion that will remove it
\* and the creation that will write it.
RowIsDue(k) ==
    /\ Archived(k) /\ Exists(k)
          => \E c \in Callers : calls[c].at \in {"projectDeleted", "deleteRows"}
                                /\ calls[c].base = k
    /\ streams[k] # <<>> /\ ~Exists(k) /\ ~Archived(k)
          => \E c \in Callers : calls[c].at \in {"project", "insert"} /\ calls[c].base = k

\* A deletion has removed the files; before it a file is a document's or will be.
FilesAreDue(k) ==
    IF Archived(k) \/ InDeletion(k)
      THEN Of(k, files) = {}
      ELSE /\ Of(k, documents) \subseteq files
           /\ \A f \in Of(k, files) :
                 f \in documents \/ \E c \in Callers : /\ calls[c].at = "attach"
                                                       /\ f = <<calls[c].base, calls[c].item>>
           /\ \A c \in Callers : calls[c].at = "attach" /\ calls[c].base = k
                                 => <<k, calls[c].item>> \in files

AgreeInv == \A k \in Bases : k \notin disturbed => RowIsDue(k) /\ FilesAreDue(k)

\* The template of a creation is there, and found by its name; a template that was counted
\* as unused is not linked, except by a base that takes the loss; so a base is linked to
\* the template its stream names.
OntologyInv ==
    /\ \A c \in Callers :
          calls[c].at \in Creating /\ calls[c].template # None /\ calls[c].base \notin raced
          => /\ calls[c].template \in templates
             /\ calls[c].at \in {"insert", "upsert"} => calls[c].item = calls[c].template
    /\ \A c \in Callers, k \in Bases :
          calls[c].at = "dropTemplate" /\ rows[k] = calls[c].template => k \in raced
    /\ \A k \in Bases :
          Exists(k) /\ Ontology(k) \in Templates /\ k \notin raced
          => rows[k] = Ontology(k) /\ rows[k] \in templates

IInv == TypeInv /\ AgreeInv /\ OntologyInv

-----------------------------------------------------------------------------
(* Streams. *)

LEMMA CreatedStream ==
    ASSUME NEW o \in Templates \cup {None, Inline}
    PROVE  /\ Created(o) \in Seq(BaseEvents) /\ Len(Created(o)) = 1 /\ Created(o) # <<>>
           /\ Created(o)[1].ontology = o
           /\ \A i \in DOMAIN Created(o) : Created(o)[i].type # "Deleted"
  BY DEF Created, BaseEvents

LEMMA DeletedStream ==
    ASSUME NEW s \in Seq(BaseEvents), s # <<>>
    PROVE  /\ s \o Deleted \in Seq(BaseEvents) /\ Len(s \o Deleted) = Len(s) + 1
           /\ s \o Deleted # <<>> /\ (s \o Deleted)[1] = s[1]
           /\ \E i \in DOMAIN (s \o Deleted) : (s \o Deleted)[i].type = "Deleted"
  <1> DEFINE e == [type |-> "Deleted", ontology |-> None]
  <1>1. e \in BaseEvents /\ Deleted = <<e>>
    BY DEF BaseEvents, Deleted
  <1>2. s \o <<e>> \in Seq(BaseEvents) /\ Len(s \o <<e>>) = Len(s) + 1
    BY <1>1
  <1>3. (s \o <<e>>)[Len(s) + 1] = e /\ Len(s) + 1 \in DOMAIN (s \o <<e>>)
    BY <1>1, <1>2
  <1>4. (s \o <<e>>)[1] = s[1] /\ Len(s) > 0
    BY <1>1
  <1> QED BY <1>1, <1>2, <1>3, <1>4

-----------------------------------------------------------------------------
(* Calls. *)

LEMMA CallUpdated ==
    ASSUME TypeInv, NEW c \in Callers, NEW r \in CallStates, calls' = [calls EXCEPT ![c] = r]
    PROVE  /\ calls' \in [Callers -> CallStates]
           /\ calls'[c] = r
           /\ \A d \in Callers \ {c} : calls'[d] = calls[d]
  BY DEF TypeInv, CallsTyped

LEMMA NoCallTyped == NoCall \in CallStates
  BY DEF NoCall, CallStates, Places, Names

\* A call that goes on to a place.
LEMMA GoesOn ==
    ASSUME TypeInv, NEW c \in Callers, NEW place \in Places, Goto(c, place)
    PROVE  /\ [calls[c] EXCEPT !.at = place] \in CallStates
           /\ calls' = [calls EXCEPT ![c] = [calls[c] EXCEPT !.at = place]]
           /\ calls'[c].at = place
           /\ calls'[c].base = calls[c].base /\ calls'[c].template = calls[c].template
           /\ calls'[c].name = calls[c].name /\ calls'[c].item = calls[c].item
           /\ calls'[c].version = calls[c].version
           /\ \A d \in Callers \ {c} : calls'[d] = calls[d]
  <1>1. calls \in [Callers -> CallStates]
    BY DEF TypeInv, CallsTyped
  <1>2. calls[c] \in CallStates
    BY <1>1
  <1> QED BY <1>1, <1>2 DEF Goto, CallStates

\* Such a call keeps standing while no stream changes and rows go only after a deletion.
LEMMA StandsKept ==
    ASSUME NEW d \in Callers, Stands(d), calls'[d] = calls[d],
           streams' = streams, spent \subseteq spent',
           \A k \in Bases : rows'[k] = Absent => rows[k] = Absent \/ Archived(k)
    PROVE  Stands(d)'
  <1>1. CreationStands(d)'
    BY DEF Stands, CreationStands, Ontology
  <1>2. DeletionStands(d)'
    BY DEF Stands, DeletionStands, Archived
  <1>3. AttachmentStands(d)'
    BY DEF Stands, AttachmentStands, Archived, Exists
  <1> QED BY <1>1, <1>2, <1>3 DEF Stands

LEMMA CallsKept ==
    ASSUME TypeInv, NEW c \in Callers, NEW r \in CallStates,
           calls' = [calls EXCEPT ![c] = r],
           streams' = streams, spent \subseteq spent',
           \A k \in Bases : rows'[k] = Absent => rows[k] = Absent \/ Archived(k),
           Stands(c)',
           r.at \in Creating => \/ calls[c].at \in Creating /\ r.base = calls[c].base
                                \/ r.base \notin spent
    PROVE  CallsTyped'
  <1>1. /\ calls' \in [Callers -> CallStates] /\ calls'[c] = r
        /\ \A d \in Callers \ {c} : calls'[d] = calls[d]
    BY CallUpdated
  <1>2. \A d \in Callers : Stands(d)'
    <2> SUFFICES ASSUME NEW d \in Callers PROVE Stands(d)'
      OBVIOUS
    <2>1. CASE d = c
      BY <2>1
    <2>2. CASE d # c
      BY <1>1, <2>2, StandsKept DEF TypeInv, CallsTyped
    <2> QED BY <2>1, <2>2
  <1>3. \A d \in Callers : calls[d].at \in Creating => calls[d].base \in spent
    BY DEF TypeInv, CallsTyped, Stands, CreationStands
  <1>4. OneCreator'
    BY <1>1, <1>3 DEF TypeInv, CallsTyped, OneCreator
  <1> QED BY <1>1, <1>2, <1>4 DEF CallsTyped

LEMMA IdleStands ==
    ASSUME NEW c \in Callers, calls'[c] = NoCall
    PROVE  Stands(c)'
  BY DEF Stands, CreationStands, DeletionStands, AttachmentStands, NoCall, Creating, Deleting

\* A call that ends.
LEMMA CallEnds ==
    ASSUME TypeInv, NEW c \in Callers, End(c), streams' = streams, spent' = spent,
           \A k \in Bases : rows'[k] = Absent => rows[k] = Absent \/ Archived(k)
    PROVE  /\ CallsTyped'
           /\ calls'[c] = NoCall /\ \A d \in Callers \ {c} : calls'[d] = calls[d]
  <1>1. calls' = [calls EXCEPT ![c] = NoCall]
    BY DEF End
  <1>2. calls'[c] = NoCall /\ \A d \in Callers \ {c} : calls'[d] = calls[d]
    BY <1>1, NoCallTyped, CallUpdated
  <1>3. NoCall.at \notin Creating
    BY DEF NoCall, Creating
  <1>4. CallsTyped'
    BY <1>1, <1>2, <1>3, NoCallTyped, IdleStands, CallsKept
  <1> QED BY <1>2, <1>4

\* A call that stands at such a place is none that anything is due from.
Neutral == {"idle", "saveTemplate", "dropTemplate", "append", "save", "upsert",
            "putFile", "saveSource"}

\* A call that comes from and goes to such a place leaves the records of its base alone.
LEMMA NeutralAgrees ==
    ASSUME AgreeInv, NEW c \in Callers, \A d \in Callers \ {c} : calls'[d] = calls[d],
           calls[c].at \in Neutral, calls'[c].at \in Neutral,
           UNCHANGED <<rows, documents, streams, files>>, disturbed \subseteq disturbed'
    PROVE  AgreeInv'
  <1> SUFFICES ASSUME NEW k \in Bases, k \notin disturbed
               PROVE  RowIsDue(k)' /\ FilesAreDue(k)'
    BY DEF AgreeInv
  <1>1. RowIsDue(k) /\ FilesAreDue(k)
    BY DEF AgreeInv
  <1>2. RowIsDue(k)'
    BY <1>1 DEF RowIsDue, Archived, Exists, Neutral
  <1>3. InDeletion(k)' <=> InDeletion(k)
    BY DEF InDeletion, Deleting, Neutral
  <1>4. FilesAreDue(k)'
    BY <1>1, <1>3 DEF FilesAreDue, Archived, Of, Neutral
  <1> QED BY <1>2, <1>4

\* A base whose files, documents and attachments stay as they are.
LEMMA FilesKept ==
    ASSUME NEW b \in Bases, FilesAreDue(b),
           Archived(b)' <=> Archived(b), InDeletion(b)' <=> InDeletion(b),
           Of(b, files)' = Of(b, files), Of(b, documents)' = Of(b, documents),
           \A d \in Callers : /\ calls[d].at = "attach" \/ calls'[d].at = "attach"
                              /\ calls[d].base = b \/ calls'[d].base = b
                              => calls'[d] = calls[d]
    PROVE  FilesAreDue(b)'
  <1>1. CASE Archived(b) \/ InDeletion(b)
    BY <1>1 DEF FilesAreDue
  <1>2. CASE ~(Archived(b) \/ InDeletion(b))
    <2>1. Of(b, documents)' \subseteq files'
      <3>1. Of(b, documents) \subseteq Of(b, files)
        BY <1>2 DEF FilesAreDue, Of
      <3> QED BY <3>1 DEF Of
    <2>2. ASSUME NEW f \in Of(b, files)'
          PROVE  f \in documents' \/ \E d \in Callers : /\ calls'[d].at = "attach"
                                                        /\ f = <<calls'[d].base, calls'[d].item>>
      <3>1. f \in Of(b, files) /\ f[1] = b
        BY <2>2 DEF Of
      <3>2. CASE f \in documents
        <4>1. f \in Of(b, documents)
          BY <3>1, <3>2 DEF Of
        <4> QED BY <4>1 DEF Of
      <3>3. CASE f \notin documents
        <4>1. PICK d \in Callers : calls[d].at = "attach" /\ f = <<calls[d].base, calls[d].item>>
          BY <1>2, <3>1, <3>3 DEF FilesAreDue
        <4>2. calls'[d] = calls[d]
          BY <3>1, <4>1
        <4> QED BY <4>1, <4>2
      <3> QED BY <3>2, <3>3
    <2>3. ASSUME NEW d \in Callers, calls'[d].at = "attach", calls'[d].base = b
          PROVE  <<b, calls'[d].item>> \in files'
      <3>1. calls'[d] = calls[d]
        BY <2>3
      <3>2. <<b, calls[d].item>> \in files
        BY <1>2, <2>3, <3>1 DEF FilesAreDue
      <3> QED BY <3>1, <3>2 DEF Of
    <2> QED BY <1>2, <2>1, <2>2, <2>3 DEF FilesAreDue
  <1> QED BY <1>1, <1>2

-----------------------------------------------------------------------------
(* Templates. *)

LEMMA CheckTemplateStep ==
    ASSUME IInv, NEW c \in Callers, NEW t \in Templates, CheckTemplate(c, t)
    PROVE  IInv'
  <1> DEFINE r == [NoCall EXCEPT !.at = "saveTemplate", !.template = t]
  <1>1. r \in CallStates /\ r.at = "saveTemplate" /\ r.template = t /\ r.base = None
    BY DEF NoCall, CallStates, Places, Names
  <1>2. /\ calls' = [calls EXCEPT ![c] = r] /\ calls[c] = NoCall
        /\ spent' = spent \cup {t}
        /\ UNCHANGED <<templates, rows, documents, sources, streams, files, faults, disturbed, raced>>
    BY DEF CheckTemplate, Call, Idle, Fresh, tables, history
  <1>3. calls'[c] = r /\ \A d \in Callers \ {c} : calls'[d] = calls[d]
    BY <1>1, <1>2, CallUpdated DEF IInv
  <1>4. Stands(c)'
    BY <1>1, <1>3
       DEF Stands, CreationStands, DeletionStands, AttachmentStands, Creating, Deleting
  <1>5. CallsTyped'
    <2>1. r.at \notin Creating
      BY <1>1 DEF Creating
    <2> QED BY <1>1, <1>2, <1>4, <2>1, CallsKept DEF IInv
  <1>6. TablesTyped' /\ OthersTyped' /\ StreamsTyped'
    BY <1>2 DEF IInv, TypeInv, TablesTyped, OthersTyped, StreamsTyped
  <1>7. AgreeInv'
    BY <1>1, <1>2, <1>3, NeutralAgrees DEF IInv, NoCall, Neutral
  <1>8. OntologyInv'
    BY <1>1, <1>2, <1>3 DEF IInv, OntologyInv, Exists, Ontology, Creating, NoCall
  <1> QED BY <1>5, <1>6, <1>7, <1>8 DEF IInv, TypeInv

LEMMA SaveTemplateStep ==
    ASSUME IInv, NEW c \in Callers, SaveTemplate(c)
    PROVE  IInv'
  <1>1. /\ calls[c].at = "saveTemplate" /\ End(c)
        /\ templates \subseteq templates'
        /\ UNCHANGED <<rows, documents, sources, streams, files, spent, faults, disturbed, raced>>
    BY DEF SaveTemplate, At, history
  <1>2. calls[c].template \in Templates
    BY <1>1 DEF IInv, TypeInv, CallsTyped, Stands, AttachmentStands
  <1>3. CallsTyped' /\ calls'[c] = NoCall /\ \A d \in Callers \ {c} : calls'[d] = calls[d]
    BY <1>1, CallEnds DEF IInv
  <1>4. TablesTyped'
    <2>1. TablesTyped
      BY DEF IInv, TypeInv
    <2>2. templates' \subseteq Templates /\ \A t, u \in templates' : NameOf(t) = NameOf(u) => t = u
      BY <2>1, <1>2 DEF TablesTyped, SaveTemplate, NameTaken
    <2> QED BY <2>1, <2>2, <1>1 DEF TablesTyped
  <1>5. OthersTyped' /\ StreamsTyped'
    BY <1>1 DEF IInv, TypeInv, OthersTyped, StreamsTyped
  <1>6. AgreeInv'
    BY <1>1, <1>3, NeutralAgrees DEF IInv, NoCall, Neutral
  <1>7. OntologyInv'
    BY <1>1, <1>3 DEF IInv, OntologyInv, Exists, Ontology, Creating, NoCall
  <1> QED BY <1>3, <1>4, <1>5, <1>6, <1>7 DEF IInv, TypeInv

LEMMA CountUsagesStep ==
    ASSUME IInv, NEW c \in Callers, NEW t \in Templates, CountUsages(c, t)
    PROVE  IInv'
  <1> DEFINE r == [NoCall EXCEPT !.at = "dropTemplate", !.template = t]
  <1>1. r \in CallStates /\ r.at = "dropTemplate" /\ r.template = t /\ r.base = None
    BY DEF NoCall, CallStates, Places, Names
  <1>2. /\ calls' = [calls EXCEPT ![c] = r] /\ calls[c] = NoCall
        /\ UNCHANGED <<templates, rows, documents, sources, streams, files, spent, faults,
                       disturbed, raced>>
    BY DEF CountUsages, Call, Idle, tables, history
  <1>3. calls'[c] = r /\ \A d \in Callers \ {c} : calls'[d] = calls[d]
    BY <1>1, <1>2, CallUpdated DEF IInv
  <1>4. Stands(c)'
    BY <1>1, <1>3
       DEF Stands, CreationStands, DeletionStands, AttachmentStands, Creating, Deleting
  <1>5. CallsTyped'
    <2>1. r.at \notin Creating
      BY <1>1 DEF Creating
    <2> QED BY <1>1, <1>2, <1>4, <2>1, CallsKept DEF IInv
  <1>6. TablesTyped' /\ OthersTyped' /\ StreamsTyped'
    BY <1>2 DEF IInv, TypeInv, TablesTyped, OthersTyped, StreamsTyped
  <1>7. AgreeInv'
    BY <1>1, <1>2, <1>3, NeutralAgrees DEF IInv, NoCall, Neutral
  <1>8. OntologyInv'
    <2>1. \A k \in Bases : rows[k] # t
      BY DEF CountUsages, Unused
    <2> QED BY <1>1, <1>2, <1>3, <2>1 DEF IInv, OntologyInv, Exists, Ontology, Creating
  <1> QED BY <1>5, <1>6, <1>7, <1>8 DEF IInv, TypeInv

\* The bases that were created from the template, or linked to it since, take the loss.
LEMMA DropTemplateStep ==
    ASSUME IInv, NEW c \in Callers, DropTemplate(c)
    PROVE  IInv'
  <1> DEFINE t == calls[c].template
  <1>1. /\ calls[c].at = "dropTemplate" /\ End(c)
        /\ templates' = templates \ {t} /\ rows' = Unlinked(t)
        /\ raced' = raced \cup CreatedFrom(t)
        /\ UNCHANGED <<documents, sources, streams, files, spent, faults, disturbed>>
    BY DEF DropTemplate, At
  <1>2. t \in Templates /\ t # None /\ t # Absent
    BY <1>1, IdsAssumption DEF IInv, TypeInv, CallsTyped, Stands, AttachmentStands
  <1>3. None # Absent
    BY IdsAssumption
  <1>4. rows \in [Bases -> {Absent, None} \cup templates]
    BY DEF IInv, TypeInv, TablesTyped
  <1>5. /\ rows' \in [Bases -> {Absent, None} \cup templates']
        /\ \A k \in Bases : /\ rows'[k] = Absent <=> rows[k] = Absent
                            /\ rows[k] # t => rows'[k] = rows[k]
                            /\ rows'[k] # t
    BY <1>1, <1>2, <1>3, <1>4 DEF Unlinked
  <1>6. CallsTyped' /\ calls'[c] = NoCall /\ \A d \in Callers \ {c} : calls'[d] = calls[d]
    BY <1>1, <1>5, CallEnds DEF IInv
  <1>7. TablesTyped'
    <2>1. TablesTyped
      BY DEF IInv, TypeInv
    <2>2. \A d \in documents \cup sources : d[1] \in Bases
      BY <2>1 DEF TablesTyped
    <2> QED BY <1>1, <1>5, <2>1, <2>2 DEF TablesTyped
  <1>8. OthersTyped'
    <2>1. \A d \in Callers : calls[d].at \in Creating => calls[d].base \in Bases
      BY DEF IInv, TypeInv, CallsTyped, Stands, CreationStands
    <2>2. CreatedFrom(t) \subseteq Bases
      BY <2>1 DEF CreatedFrom
    <2> QED BY <1>1, <2>2 DEF IInv, TypeInv, OthersTyped
  <1>9. StreamsTyped'
    BY <1>1, <1>5 DEF IInv, TypeInv, StreamsTyped
  <1>10. AgreeInv'
    <2> SUFFICES ASSUME NEW k \in Bases, k \notin disturbed
                 PROVE  RowIsDue(k)' /\ FilesAreDue(k)'
      BY <1>1 DEF AgreeInv
    <2>1. RowIsDue(k) /\ FilesAreDue(k)
      BY DEF IInv, AgreeInv
    <2>2. RowIsDue(k)'
      BY <1>1, <1>5, <1>6, <2>1 DEF RowIsDue, Archived, Exists, NoCall
    <2>3. InDeletion(k)' <=> InDeletion(k)
      BY <1>1, <1>6 DEF InDeletion, Deleting, NoCall
    <2>4. FilesAreDue(k)'
      BY <1>1, <1>6, <2>1, <2>3 DEF FilesAreDue, Archived, Of, NoCall
    <2> QED BY <2>2, <2>4
  <1>11. OntologyInv'
    <2>1. OntologyInv
      BY DEF IInv
    <2>2. \A d \in Callers : calls'[d].at \in Creating => calls'[d] = calls[d]
      BY <1>6 DEF NoCall, Creating
    <2>3. \A d \in Callers : calls[d].at \in Creating /\ calls[d].template = t
                             => calls[d].base \in raced'
      BY <1>1 DEF CreatedFrom
    <2>4. \A k \in Bases : rows[k] = t => k \in raced
      BY <1>1, <2>1 DEF OntologyInv
    <2>5. ASSUME NEW d \in Callers,
                 calls'[d].at \in Creating, calls'[d].template # None,
                 calls'[d].base \notin raced'
          PROVE  /\ calls'[d].template \in templates'
                 /\ calls'[d].at \in {"insert", "upsert"} => calls'[d].item = calls'[d].template
      BY <1>1, <2>1, <2>2, <2>3, <2>5 DEF OntologyInv
    <2>6. ASSUME NEW d \in Callers, NEW k \in Bases, calls'[d].at = "dropTemplate",
                 rows'[k] = calls'[d].template
          PROVE  k \in raced'
      <3>1. d # c /\ calls'[d] = calls[d]
        BY <1>6, <2>6 DEF NoCall
      <3>2. calls[d].template \in Templates
        BY <2>6, <3>1 DEF IInv, TypeInv, CallsTyped, Stands, AttachmentStands
      <3>3. rows'[k] = rows[k]
        BY <1>1, <1>4, <2>6, <3>1, <3>2, IdsAssumption DEF Unlinked
      <3> QED BY <1>1, <2>1, <2>6, <3>1, <3>3 DEF OntologyInv
    <2>7. ASSUME NEW k \in Bases, rows'[k] # Absent, Ontology(k)' \in Templates, k \notin raced'
          PROVE  rows'[k] = Ontology(k)' /\ rows'[k] \in templates'
      <3>1. rows'[k] = rows[k] /\ rows[k] # t /\ Ontology(k)' = Ontology(k) /\ k \notin raced
        BY <1>1, <1>5, <2>4, <2>7 DEF Ontology
      <3> QED BY <1>1, <2>1, <2>7, <3>1 DEF OntologyInv, Exists
    <2> QED BY <2>5, <2>6, <2>7 DEF OntologyInv, Exists
  <1> QED BY <1>6, <1>7, <1>8, <1>9, <1>10, <1>11 DEF IInv, TypeInv

-----------------------------------------------------------------------------
(* Creation of a base. *)

LEMMA LoadOntologyStep ==
    ASSUME IInv, NEW c \in Callers, NEW k \in Bases,
           NEW t \in templates \cup {None}, NEW name \in Names,
           t # None => name = NameOf(t),
           LoadOntology(c, k, t, name)
    PROVE  IInv'
  <1> DEFINE r == [NoCall EXCEPT !.at = "append", !.base = k, !.template = t, !.name = name]
  <1>1. t \in Templates \cup {None}
    BY DEF IInv, TypeInv, TablesTyped
  <1>2. /\ r \in CallStates /\ r.at = "append" /\ r.base = k /\ r.template = t /\ r.name = name
        /\ r.item = None
    BY <1>1 DEF NoCall, CallStates, Places, Creating
  <1>3. /\ calls' = [calls EXCEPT ![c] = r] /\ calls[c] = NoCall
        /\ k \notin spent /\ spent' = spent \cup {k}
        /\ UNCHANGED <<templates, rows, documents, sources, streams, files, faults, disturbed, raced>>
    BY DEF LoadOntology, Call, Idle, Fresh, tables, history
  <1>4. calls'[c] = r /\ \A d \in Callers \ {c} : calls'[d] = calls[d]
    BY <1>2, <1>3, CallUpdated DEF IInv
  <1>5. streams[k] = <<>>
    BY <1>3 DEF IInv, TypeInv, StreamsTyped
  <1>6. Stands(c)'
    <2> HIDE DEF r
    <2>1. CreationStands(c)'
      BY <1>2, <1>3, <1>4, <1>5 DEF CreationStands, Written
    <2> QED BY <2>1, <1>2, <1>4 DEF Stands, DeletionStands, AttachmentStands, Deleting
  <1>7. CallsTyped'
    BY <1>2, <1>3, <1>6, CallsKept DEF IInv
  <1>8. TablesTyped' /\ OthersTyped' /\ StreamsTyped'
    BY <1>3 DEF IInv, TypeInv, TablesTyped, OthersTyped, StreamsTyped
  <1>9. AgreeInv'
    BY <1>2, <1>3, <1>4, NeutralAgrees DEF IInv, NoCall, Neutral
  <1>10. OntologyInv'
    BY <1>2, <1>3, <1>4 DEF IInv, OntologyInv, Exists, Ontology
  <1> QED BY <1>7, <1>8, <1>9, <1>10 DEF IInv, TypeInv

\* The stream of the base begins; the row is due from now on.
LEMMA AppendCreatedStep ==
    ASSUME IInv, NEW c \in Callers, AppendCreated(c)
    PROVE  IInv'
  <1>a. PICK k : k = calls[c].base OBVIOUS
  <1>b. PICK t : t = calls[c].template OBVIOUS
  <1>c. PICK o : o = IF t = None THEN Inline ELSE t OBVIOUS
  <1>1. /\ calls[c].at = "append" /\ Goto(c, "project")
        /\ streams' = [streams EXCEPT ![k] = Created(o)]
        /\ UNCHANGED <<templates, rows, documents, sources, files, spent, faults, disturbed, raced>>
    BY <1>a, <1>b, <1>c DEF AppendCreated, At, tables, history
  <1>2. k \in Bases /\ k \in spent /\ streams[k] = <<>> /\ t \in Templates \cup {None}
        /\ (t # None => calls[c].name = NameOf(t))
    BY <1>a, <1>b, <1>1
       DEF IInv, TypeInv, CallsTyped, Stands, CreationStands, Creating, CallStates
  <1>3. "project" \in Places
    BY DEF Places, Creating
  <1>4. /\ calls' \in [Callers -> CallStates]
        /\ calls'[c].at = "project" /\ calls'[c].base = k /\ calls'[c].template = t
        /\ calls'[c].name = calls[c].name /\ calls'[c].item = calls[c].item
        /\ \A d \in Callers \ {c} : calls'[d] = calls[d]
    <2>1. /\ [calls[c] EXCEPT !.at = "project"] \in CallStates
          /\ calls' = [calls EXCEPT ![c] = [calls[c] EXCEPT !.at = "project"]]
          /\ calls'[c].at = "project" /\ calls'[c].base = k /\ calls'[c].template = t
          /\ calls'[c].name = calls[c].name /\ calls'[c].item = calls[c].item
          /\ \A d \in Callers \ {c} : calls'[d] = calls[d]
      BY <1>a, <1>b, <1>1, <1>3, GoesOn DEF IInv
    <2> QED BY <2>1, CallUpdated DEF IInv
  <1>5. streams \in [Bases -> Seq(BaseEvents)]
    BY DEF IInv, TypeInv, StreamsTyped
  <1>6. o \in Templates \cup {None, Inline}
    BY <1>c, <1>2
  <1>7. /\ streams' \in [Bases -> Seq(BaseEvents)]
        /\ streams'[k] # <<>> /\ Len(streams'[k]) = 1 /\ Ontology(k)' = o
        /\ ~Archived(k)' /\ ~Archived(k)
        /\ \A b \in Bases \ {k} : streams'[b] = streams[b]
    <2>1. /\ Created(o) \in Seq(BaseEvents) /\ Len(Created(o)) = 1 /\ Created(o) # <<>>
          /\ Created(o)[1].ontology = o
          /\ \A i \in DOMAIN Created(o) : Created(o)[i].type # "Deleted"
      BY <1>6, CreatedStream
    <2>2. streams'[k] = Created(o) /\ \A b \in Bases \ {k} : streams'[b] = streams[b]
      BY <1>1, <1>2, <1>5
    <2>3. streams' \in [Bases -> Seq(BaseEvents)]
      BY <1>1, <1>2, <1>5, <2>1
    <2>4. ~Archived(k)
      BY <1>2 DEF Archived
    <2> QED BY <2>1, <2>2, <2>3, <2>4 DEF Ontology, Archived
  <1>8. rows[k] = Absent
    BY <1>2 DEF IInv, TypeInv, StreamsTyped
  <1>9. \A d \in Callers \ {c} : Stands(d)'
    <2> SUFFICES ASSUME NEW d \in Callers \ {c} PROVE Stands(d)'
      OBVIOUS
    <2>1. Stands(d) /\ calls'[d] = calls[d] /\ OneCreator
      BY <1>4 DEF IInv, TypeInv, CallsTyped
    <2>2. calls[d].at \in Creating => calls[d].base # k
      BY <1>a, <1>1, <2>1 DEF OneCreator, Creating
    <2>3. CreationStands(d)'
      BY <1>1, <1>7, <2>1, <2>2 DEF Stands, CreationStands, Ontology
    <2>4. DeletionStands(d)'
      BY <1>2, <1>7, <2>1 DEF Stands, DeletionStands, Archived
    <2>5. AttachmentStands(d)'
      BY <1>1, <1>2, <1>7, <2>1 DEF Stands, AttachmentStands, Archived, Exists
    <2> QED BY <2>3, <2>4, <2>5 DEF Stands
  <1>10. Stands(c)'
    BY <1>c, <1>1, <1>2, <1>4, <1>7
       DEF Stands, CreationStands, DeletionStands, AttachmentStands, Creating, Deleting, Written
  <1>11. CallsTyped'
    BY <1>a, <1>1, <1>4, <1>9, <1>10 DEF IInv, TypeInv, CallsTyped, OneCreator, Creating
  <1>12. TablesTyped' /\ OthersTyped'
    BY <1>1 DEF IInv, TypeInv, TablesTyped, OthersTyped
  <1>13. StreamsTyped'
    <2>1. 1 <= MaxDeletions + 1
      BY DeletionsAssumption
    <2>2. ASSUME NEW b \in Bases
          PROVE  /\ Len(streams'[b]) <= MaxDeletions + 1
                 /\ IF streams'[b] = <<>> THEN rows[b] = Absent ELSE b \in spent
      <3>1. CASE b = k
        BY <1>2, <1>7, <2>1, <3>1
      <3>2. CASE b # k
        BY <1>7, <3>2 DEF IInv, TypeInv, StreamsTyped
      <3> QED BY <3>1, <3>2
    <2> QED BY <1>1, <1>7, <2>2 DEF StreamsTyped
  <1>14. AgreeInv'
    <2> SUFFICES ASSUME NEW b \in Bases, b \notin disturbed
                 PROVE  RowIsDue(b)' /\ FilesAreDue(b)'
      BY <1>1 DEF AgreeInv
    <2>1. RowIsDue(b) /\ FilesAreDue(b)
      BY DEF IInv, AgreeInv
    <2>2. Archived(b)' <=> Archived(b)
      BY <1>7 DEF Archived
    <2>3. RowIsDue(b)'
      BY <1>a, <1>1, <1>4, <1>7, <2>1, <2>2 DEF RowIsDue, Exists
    <2>4. InDeletion(b)' <=> InDeletion(b)
      BY <1>1, <1>4 DEF InDeletion, Deleting
    <2>5. FilesAreDue(b)'
      BY <1>1, <1>4, <2>1, <2>2, <2>4 DEF FilesAreDue, Of
    <2> QED BY <2>3, <2>5
  <1>15. OntologyInv'
    BY <1>a, <1>b, <1>c, <1>1, <1>4, <1>7, <1>8 DEF IInv, OntologyInv, Exists, Ontology, Creating
  <1> QED BY <1>11, <1>12, <1>13, <1>14, <1>15 DEF IInv, TypeInv

LEMMA NamedIsTyped ==
    ASSUME TablesTyped, NEW name
    PROVE  Named(name) \in templates \cup {None}
  BY DEF Named

\* Names are unique, therefore the name of a template that is there finds it.
LEMMA NamedFinds ==
    ASSUME TablesTyped, NEW t \in templates
    PROVE  Named(NameOf(t)) = t
  BY DEF Named, TablesTyped

LEMMA LookUpTemplateStep ==
    ASSUME IInv, NEW c \in Callers, LookUpTemplate(c)
    PROVE  IInv'
  <1> DEFINE place == IF calls[c].at = "project" THEN "insert" ELSE "upsert"
             found == Named(calls[c].name)
             r == [calls[c] EXCEPT !.at = place, !.item = found]
  <1>1. /\ calls[c].at \in {"project", "save"}
        /\ UNCHANGED <<templates, rows, documents, sources, streams, files, spent, faults,
                       disturbed, raced>>
    BY DEF LookUpTemplate, tables, history
  <1>2. calls \in [Callers -> CallStates] /\ calls[c] \in CallStates /\ TablesTyped /\ Stands(c)
    BY DEF IInv, TypeInv, CallsTyped
  <1>3. found \in templates \cup {None} /\ found \in Templates \cup {None}
    BY <1>2, NamedIsTyped DEF TablesTyped
  <1>4. /\ place \in Places /\ place \in {"insert", "upsert"}
        /\ calls[c].at = "project" => place = "insert"
    BY DEF Places, Creating
  <1>5. /\ r \in CallStates /\ r.at = place /\ r.item = found
        /\ r.base = calls[c].base /\ r.template = calls[c].template /\ r.name = calls[c].name
    BY <1>2, <1>3, <1>4 DEF CallStates
  <1>6. calls' = [calls EXCEPT ![c] = r]
    BY <1>2 DEF LookUpTemplate
  <1>7. calls'[c] = r /\ \A d \in Callers \ {c} : calls'[d] = calls[d]
    BY <1>5, <1>6, CallUpdated DEF IInv
  <1>8. Stands(c)'
    <2>1. CreationStands(c)'
      BY <1>1, <1>2, <1>3, <1>5, <1>7 DEF Stands, CreationStands, Ontology, Creating, Written
    <2> QED BY <2>1, <1>5, <1>7 DEF Stands, DeletionStands, AttachmentStands, Deleting
  <1>9. CallsTyped'
    <2>1. calls[c].at \in Creating /\ r.base = calls[c].base
      BY <1>1, <1>5 DEF Creating
    <2> QED BY <1>1, <1>5, <1>6, <1>8, <2>1, CallsKept DEF IInv
  <1>10. TablesTyped' /\ OthersTyped' /\ StreamsTyped'
    BY <1>1 DEF IInv, TypeInv, TablesTyped, OthersTyped, StreamsTyped
  <1> HIDE DEF r, place, found
  <1>11. AgreeInv'
    <2> SUFFICES ASSUME NEW b \in Bases, b \notin disturbed
                 PROVE  RowIsDue(b)' /\ FilesAreDue(b)'
      BY <1>1 DEF AgreeInv
    <2>1. RowIsDue(b) /\ FilesAreDue(b)
      BY DEF IInv, AgreeInv
    <2>2. RowIsDue(b)'
      BY <1>1, <1>4, <1>5, <1>7, <2>1 DEF RowIsDue, Archived, Exists
    <2>3. InDeletion(b)' <=> InDeletion(b)
      BY <1>1, <1>4, <1>5, <1>7 DEF InDeletion, Deleting
    <2>4. FilesAreDue(b)'
      BY <1>1, <1>4, <1>5, <1>7, <2>1, <2>3 DEF FilesAreDue, Of, Archived
    <2> QED BY <2>2, <2>4
  <1>12. OntologyInv'
    <2>1. ASSUME calls[c].template # None, calls[c].base \notin raced
          PROVE  calls[c].template \in templates /\ found = calls[c].template
      <3>1. calls[c].template \in templates
        BY <1>1, <2>1 DEF IInv, OntologyInv, Creating
      <3>2. calls[c].name = NameOf(calls[c].template)
        BY <1>1, <1>2, <2>1 DEF Stands, CreationStands, Creating
      <3> QED BY <1>2, <3>1, <3>2, NamedFinds DEF found
    <2>2. ASSUME NEW d \in Callers,
                 calls'[d].at \in Creating, calls'[d].template # None,
                 calls'[d].base \notin raced
          PROVE  /\ calls'[d].template \in templates
                 /\ calls'[d].at \in {"insert", "upsert"} => calls'[d].item = calls'[d].template
      <3>1. CASE d = c
        BY <1>5, <1>7, <2>1, <2>2, <3>1
      <3>2. CASE d # c
        BY <1>7, <2>2, <3>2 DEF IInv, OntologyInv
      <3> QED BY <3>1, <3>2
    <2>3. \A d \in Callers : calls'[d].at = "dropTemplate" => calls'[d] = calls[d]
      BY <1>4, <1>5, <1>7
    <2> QED BY <1>1, <2>2, <2>3 DEF IInv, OntologyInv, Exists, Ontology
  <1> QED BY <1>9, <1>10, <1>11, <1>12 DEF IInv, TypeInv

\* The projector's write of the row, and the use case's own.
LEMMA WriteRowStep ==
    ASSUME IInv, NEW c \in Callers, WriteRow(c)
    PROVE  IInv'
  <1>a. PICK k : k = calls[c].base OBVIOUS
  <1>b. PICK t : t = calls[c].item OBVIOUS
  <1>1. /\ calls[c].at \in {"insert", "upsert"}
        /\ UNCHANGED <<templates, documents, sources, streams, files, spent, faults>>
    BY DEF WriteRow
  <1>2. Stands(c) /\ calls[c] \in CallStates
    BY DEF IInv, TypeInv, CallsTyped
  <1>3. /\ k \in Bases /\ k \in spent /\ streams[k] # <<>> /\ t \in Templates \cup {None}
        /\ Ontology(k) = IF calls[c].template = None THEN Inline ELSE calls[c].template
    BY <1>a, <1>b, <1>1, <1>2 DEF Stands, CreationStands, Creating, Written
  <1>4. CASE ~Referable(t)
    <2>1. End(c) /\ disturbed' = disturbed \cup {k} /\ UNCHANGED <<rows, raced>>
      BY <1>a, <1>b, <1>4 DEF WriteRow
    <2>2. CallsTyped' /\ calls'[c] = NoCall /\ \A d \in Callers \ {c} : calls'[d] = calls[d]
      BY <1>1, <2>1, CallEnds DEF IInv
    <2>3. TablesTyped' /\ OthersTyped' /\ StreamsTyped'
      BY <1>1, <1>3, <2>1 DEF IInv, TypeInv, TablesTyped, OthersTyped, StreamsTyped
    <2>4. AgreeInv'
      <3> SUFFICES ASSUME NEW b \in Bases, b \notin disturbed, b # k
                   PROVE  RowIsDue(b)' /\ FilesAreDue(b)'
        BY <2>1 DEF AgreeInv
      <3>1. RowIsDue(b) /\ FilesAreDue(b)
        BY DEF IInv, AgreeInv
      <3>2. RowIsDue(b)'
        BY <1>a, <1>1, <2>1, <2>2, <3>1 DEF RowIsDue, Archived, Exists
      <3>3. InDeletion(b)' <=> InDeletion(b)
        BY <1>1, <2>2 DEF InDeletion, Deleting, NoCall
      <3>4. /\ Archived(b)' <=> Archived(b)
            /\ Of(b, files)' = Of(b, files) /\ Of(b, documents)' = Of(b, documents)
            /\ \A d \in Callers : calls[d].at = "attach" \/ calls'[d].at = "attach"
                                 => calls'[d] = calls[d]
        BY <1>1, <2>2 DEF Archived, Of, NoCall
      <3>5. FilesAreDue(b)'
        BY <3>1, <3>3, <3>4, FilesKept
      <3> QED BY <3>2, <3>5
    <2>5. OntologyInv'
      BY <1>1, <2>1, <2>2 DEF IInv, OntologyInv, Exists, Ontology, Creating, NoCall
    <2> QED BY <2>2, <2>3, <2>4, <2>5 DEF IInv, TypeInv
  <1>5. CASE Referable(t)
    <2>1. /\ rows' = Upserted(k, t)
          /\ IF calls[c].at = "insert" THEN Goto(c, "save") ELSE End(c)
          /\ disturbed' = IF Archived(k) THEN disturbed \cup {k} ELSE disturbed
          /\ raced' = IF \E d \in Callers : calls[d].at = "dropTemplate" /\ calls[d].template = t
                        THEN raced \cup {k} ELSE raced
      BY <1>a, <1>b, <1>5 DEF WriteRow, At
    <2>2. t \in templates \cup {None} /\ t # Absent
      BY <1>3, <1>5, IdsAssumption DEF Referable
    <2>3. rows \in [Bases -> {Absent, None} \cup templates]
      BY DEF IInv, TypeInv, TablesTyped
    <2>4. /\ rows' \in [Bases -> {Absent, None} \cup templates]
          /\ rows'[k] # Absent
          /\ rows'[k] = t \/ rows'[k] = rows[k]
          /\ t # None => rows'[k] = t
          /\ \A b \in Bases \ {k} : rows'[b] = rows[b]
      BY <1>3, <2>1, <2>2, <2>3, IdsAssumption DEF Upserted
    <2>5. "save" \in Places
      BY DEF Places, Creating
    <2>6. /\ calls'[c].at \in {"save", "idle"}
          /\ calls[c].at = "insert" => /\ calls'[c].base = k
                                       /\ calls'[c].template = calls[c].template
                                       /\ calls'[c].name = calls[c].name
          /\ calls'[c].at = "save" => calls[c].at = "insert"
          /\ \A d \in Callers \ {c} : calls'[d] = calls[d]
          /\ CallsTyped'
      <3>1. CASE calls[c].at = "insert"
        <4>1. Goto(c, "save")
          BY <2>1, <3>1
        <4>2. /\ [calls[c] EXCEPT !.at = "save"] \in CallStates
              /\ calls' = [calls EXCEPT ![c] = [calls[c] EXCEPT !.at = "save"]]
              /\ calls'[c].at = "save"
              /\ calls'[c].base = calls[c].base /\ calls'[c].template = calls[c].template
              /\ calls'[c].name = calls[c].name
              /\ \A d \in Callers \ {c} : calls'[d] = calls[d]
          BY <4>1, <2>5, GoesOn DEF IInv
        <4>3. CreationStands(c)'
          BY <1>1, <1>2, <3>1, <4>2 DEF Stands, CreationStands, Creating, Written, Ontology
        <4>4. Stands(c)'
          BY <4>2, <4>3 DEF Stands, DeletionStands, AttachmentStands, Deleting
        <4>5. [calls[c] EXCEPT !.at = "save"].base = calls[c].base /\ calls[c].at \in Creating
          BY <1>1, <1>2 DEF CallStates, Creating
        <4>6. CallsTyped'
          BY <1>1, <2>4, <4>2, <4>4, <4>5, CallsKept DEF IInv
        <4> QED BY <1>a, <3>1, <4>2, <4>6
      <3>2. CASE calls[c].at # "insert"
        <4>1. CallsTyped' /\ calls'[c] = NoCall /\ \A d \in Callers \ {c} : calls'[d] = calls[d]
          BY <1>1, <2>1, <2>4, <3>2, CallEnds DEF IInv
        <4> QED BY <3>2, <4>1 DEF NoCall
      <3> QED BY <3>1, <3>2
    <2>7. TablesTyped'
      <3>1. TablesTyped
        BY DEF IInv, TypeInv
      <3>2. \A d \in documents \cup sources : d[1] \in Bases
        BY <3>1 DEF TablesTyped
      <3> QED BY <1>1, <2>4, <3>1, <3>2 DEF TablesTyped
    <2>8. OthersTyped' /\ StreamsTyped'
      BY <1>1, <1>3, <2>1, <2>4 DEF IInv, TypeInv, OthersTyped, StreamsTyped
    <2>9. AgreeInv'
      <3> SUFFICES ASSUME NEW b \in Bases, b \notin disturbed'
                   PROVE  RowIsDue(b)' /\ FilesAreDue(b)'
        BY DEF AgreeInv
      <3>0. b \notin disturbed /\ (b = k => ~Archived(k))
        BY <2>1
      <3>1. RowIsDue(b) /\ FilesAreDue(b)
        BY <3>0 DEF IInv, AgreeInv
      <3>2. RowIsDue(b)'
        <4>1. CASE b = k
          BY <1>1, <2>4, <3>0, <4>1 DEF RowIsDue, Archived, Exists
        <4>2. CASE b # k
          BY <1>a, <1>1, <2>4, <2>6, <3>1, <4>2 DEF RowIsDue, Archived, Exists
        <4> QED BY <4>1, <4>2
      <3>3. InDeletion(b)' <=> InDeletion(b)
        BY <1>1, <2>6 DEF InDeletion, Deleting
      <3>4. FilesAreDue(b)'
        BY <1>1, <2>6, <3>1, <3>3 DEF FilesAreDue, Of, Archived
      <3> QED BY <3>2, <3>4
    <2>10. OntologyInv'
      <3>1. ASSUME NEW d \in Callers,
                   calls'[d].at \in Creating, calls'[d].template # None,
                   calls'[d].base \notin raced'
            PROVE  /\ calls'[d].template \in templates
                   /\ calls'[d].at \in {"insert", "upsert"} => calls'[d].item = calls'[d].template
        <4>1. raced \subseteq raced'
          BY <2>1
        <4>2. CASE d = c
          BY <1>a, <1>1, <2>6, <3>1, <4>1, <4>2 DEF IInv, OntologyInv, Creating
        <4>3. CASE d # c
          BY <2>6, <3>1, <4>1, <4>3 DEF IInv, OntologyInv
        <4> QED BY <4>2, <4>3
      <3>2. ASSUME NEW d \in Callers, NEW b \in Bases, calls'[d].at = "dropTemplate",
                   rows'[b] = calls'[d].template
            PROVE  b \in raced'
        <4>1. calls'[d] = calls[d]
          BY <2>6, <3>2
        <4>2. rows[b] = calls[d].template => b \in raced
          BY <3>2, <4>1 DEF IInv, OntologyInv
        <4> QED BY <2>1, <2>4, <3>2, <4>1, <4>2
      <3>3. ASSUME NEW b \in Bases, rows'[b] # Absent, Ontology(b) \in Templates, b \notin raced'
            PROVE  rows'[b] = Ontology(b) /\ rows'[b] \in templates
        <4>1. b \notin raced
          BY <2>1, <3>3
        <4>2. CASE b = k
          <5>1. calls[c].template # None /\ Ontology(k) = calls[c].template
            BY <1>3, <3>3, <4>2, IdsAssumption
          <5>2. t = calls[c].template /\ t \in templates
            BY <1>a, <1>b, <1>1, <4>1, <4>2, <5>1 DEF IInv, OntologyInv, Creating
          <5> QED BY <2>4, <4>2, <5>1, <5>2
        <4>3. CASE b # k
          BY <2>4, <3>3, <4>1, <4>3 DEF IInv, OntologyInv, Exists
        <4> QED BY <4>2, <4>3
      <3> QED BY <1>1, <3>1, <3>2, <3>3 DEF OntologyInv, Exists, Ontology
    <2> QED BY <2>6, <2>7, <2>8, <2>9, <2>10 DEF IInv, TypeInv
  <1> QED BY <1>4, <1>5

-----------------------------------------------------------------------------
(* Deletion of a base. *)

\* From here on the base has no files, unless it is disturbed.
LEMMA BeginDeleteStep ==
    ASSUME IInv, NEW c \in Callers, NEW k \in Bases, BeginDelete(c, k)
    PROVE  IInv'
  <1> DEFINE r == [NoCall EXCEPT !.at = "appendDeleted", !.base = k,
                                 !.version = Len(streams[k])]
  <1>1. /\ calls[c] = NoCall /\ streams[k] # <<>> /\ Len(streams[k]) <= MaxDeletions
        /\ calls' = [calls EXCEPT ![c] = r] /\ files' = files \ Partition(k)
        /\ UNCHANGED <<templates, rows, documents, sources, streams, spent, faults,
                       disturbed, raced>>
    BY DEF BeginDelete, Call, Idle, tables, history
  <1>2. Len(streams[k]) \in Nat
    BY DEF IInv, TypeInv, StreamsTyped
  <1>3. /\ r \in CallStates /\ r.at = "appendDeleted" /\ r.base = k
        /\ r.version = Len(streams[k])
    BY <1>2 DEF NoCall, CallStates, Places, Deleting, Names
  <1>4. calls'[c] = r /\ \A d \in Callers \ {c} : calls'[d] = calls[d]
    BY <1>1, <1>3, CallUpdated DEF IInv
  <1> HIDE DEF r
  <1>5. Stands(c)'
    BY <1>1, <1>3, <1>4
       DEF Stands, CreationStands, DeletionStands, AttachmentStands, Creating
  <1>6. CallsTyped'
    <2>1. r.at \notin Creating
      BY <1>3 DEF Creating
    <2> QED BY <1>1, <1>3, <1>5, <2>1, CallsKept DEF IInv
  <1>7. TablesTyped' /\ OthersTyped' /\ StreamsTyped'
    BY <1>1 DEF IInv, TypeInv, TablesTyped, OthersTyped, StreamsTyped
  <1>8. AgreeInv'
    <2> SUFFICES ASSUME NEW b \in Bases, b \notin disturbed
                 PROVE  RowIsDue(b)' /\ FilesAreDue(b)'
      BY <1>1 DEF AgreeInv
    <2>1. RowIsDue(b) /\ FilesAreDue(b)
      BY DEF IInv, AgreeInv
    <2>2. RowIsDue(b)'
      BY <1>1, <1>4, <2>1 DEF RowIsDue, Archived, Exists, NoCall
    <2>3. CASE b = k
      <3>1. InDeletion(k)'
        BY <1>3, <1>4 DEF InDeletion, Deleting
      <3>2. Of(k, files)' = {}
        BY <1>1 DEF Of, Partition
      <3> QED BY <2>2, <2>3, <3>1, <3>2 DEF FilesAreDue
    <2>4. CASE b # k
      <3>1. InDeletion(b)' <=> InDeletion(b)
        BY <1>1, <1>3, <1>4, <2>4 DEF InDeletion, Deleting, NoCall
      <3>2. /\ Archived(b)' <=> Archived(b)
            /\ Of(b, files)' = Of(b, files) /\ Of(b, documents)' = Of(b, documents)
        BY <1>1, <2>4 DEF Archived, Of, Partition
      <3>3. \A d \in Callers : calls[d].at = "attach" \/ calls'[d].at = "attach"
                              => calls'[d] = calls[d]
        BY <1>1, <1>3, <1>4 DEF NoCall
      <3>4. FilesAreDue(b)'
        BY <2>1, <3>1, <3>2, <3>3, FilesKept
      <3> QED BY <2>2, <3>4
    <2> QED BY <2>3, <2>4
  <1>9. OntologyInv'
    BY <1>1, <1>3, <1>4 DEF IInv, OntologyInv, Exists, Ontology, Creating
  <1> QED BY <1>6, <1>7, <1>8, <1>9 DEF IInv, TypeInv

\* The base is archived from now on, and its row is due to go; or the call ends, because
\* another deletion archived it.
LEMMA AppendDeletedStep ==
    ASSUME IInv, NEW c \in Callers, AppendDeleted(c)
    PROVE  IInv'
  <1>a. PICK k : k = calls[c].base OBVIOUS
  <1>1. /\ calls[c].at = "appendDeleted"
        /\ UNCHANGED <<templates, rows, documents, sources, files, spent, faults, disturbed, raced>>
    BY DEF AppendDeleted, At, tables, history
  <1>2. /\ k \in Bases /\ streams[k] # <<>> /\ calls[c].version <= MaxDeletions
        /\ calls[c].version = Len(streams[k]) \/ Archived(k)
    BY <1>a, <1>1 DEF IInv, TypeInv, CallsTyped, Stands, DeletionStands, Deleting
  <1>3. CASE Len(streams[k]) # calls[c].version
    <2>1. End(c) /\ streams' = streams
      BY <1>a, <1>3 DEF AppendDeleted
    <2>2. CallsTyped' /\ calls'[c] = NoCall /\ \A d \in Callers \ {c} : calls'[d] = calls[d]
      BY <1>1, <2>1, CallEnds DEF IInv
    <2>3. TablesTyped' /\ OthersTyped' /\ StreamsTyped'
      BY <1>1, <2>1 DEF IInv, TypeInv, TablesTyped, OthersTyped, StreamsTyped
    <2>4. AgreeInv'
      <3> SUFFICES ASSUME NEW b \in Bases, b \notin disturbed
                   PROVE  RowIsDue(b)' /\ FilesAreDue(b)'
        BY <1>1 DEF AgreeInv
      <3>1. RowIsDue(b) /\ FilesAreDue(b)
        BY DEF IInv, AgreeInv
      <3>2. RowIsDue(b)'
        BY <1>1, <2>1, <2>2, <3>1 DEF RowIsDue, Archived, Exists
      <3>3. Archived(b)' <=> Archived(b)
        BY <2>1 DEF Archived
      <3>4. Archived(b) \/ (InDeletion(b)' <=> InDeletion(b))
        BY <1>a, <1>1, <1>2, <1>3, <2>2 DEF InDeletion, Deleting, NoCall
      <3>5. FilesAreDue(b)'
        BY <1>1, <2>2, <3>1, <3>3, <3>4 DEF FilesAreDue, Of, NoCall
      <3> QED BY <3>2, <3>5
    <2>5. OntologyInv'
      BY <1>1, <2>1, <2>2 DEF IInv, OntologyInv, Exists, Ontology, Creating, NoCall
    <2> QED BY <2>2, <2>3, <2>4, <2>5 DEF IInv, TypeInv
  <1>4. CASE Len(streams[k]) = calls[c].version
    <2>1. streams' = [streams EXCEPT ![k] = @ \o Deleted] /\ Goto(c, "projectDeleted")
      BY <1>a, <1>4 DEF AppendDeleted
    <2>2. streams \in [Bases -> Seq(BaseEvents)]
      BY DEF IInv, TypeInv, StreamsTyped
    <2>3. /\ streams' \in [Bases -> Seq(BaseEvents)]
          /\ streams'[k] = streams[k] \o Deleted
          /\ \A b \in Bases \ {k} : streams'[b] = streams[b]
      BY <1>2, <2>1, <2>2, DeletedStream
    <2>4. /\ Len(streams'[k]) = Len(streams[k]) + 1 /\ streams'[k] # <<>>
          /\ streams'[k][1] = streams[k][1] /\ Archived(k)'
      <3>1. streams[k] \in Seq(BaseEvents)
        BY <1>2, <2>2
      <3>2. \E i \in DOMAIN streams'[k] : streams'[k][i].type = "Deleted"
        BY <1>2, <2>3, <3>1, DeletedStream
      <3>3. /\ Len(streams'[k]) = Len(streams[k]) + 1 /\ streams'[k] # <<>>
            /\ streams'[k][1] = streams[k][1]
        BY <1>2, <2>3, <3>1, DeletedStream
      <3> QED BY <3>2, <3>3 DEF Archived
    <2>5. \A b \in Bases : /\ Ontology(b)' = Ontology(b)
                           /\ streams'[b] = <<>> <=> streams[b] = <<>>
                           /\ Archived(b) => Archived(b)'
                           /\ b # k => (Archived(b)' <=> Archived(b))
      <3> SUFFICES ASSUME NEW b \in Bases
                   PROVE  /\ Ontology(b)' = Ontology(b)
                          /\ streams'[b] = <<>> <=> streams[b] = <<>>
                          /\ Archived(b) => Archived(b)'
                          /\ b # k => (Archived(b)' <=> Archived(b))
        OBVIOUS
      <3>1. CASE b = k
        BY <1>2, <2>4, <3>1 DEF Ontology
      <3>2. CASE b # k
        BY <2>3, <3>2 DEF Ontology, Archived
      <3> QED BY <3>1, <3>2
    <2>6. "projectDeleted" \in Places
      BY DEF Places, Deleting
    <2>7. /\ [calls[c] EXCEPT !.at = "projectDeleted"] \in CallStates
          /\ calls' = [calls EXCEPT ![c] = [calls[c] EXCEPT !.at = "projectDeleted"]]
          /\ calls'[c].at = "projectDeleted" /\ calls'[c].base = k
          /\ \A d \in Callers \ {c} : calls'[d] = calls[d]
      BY <1>a, <2>1, <2>6, GoesOn DEF IInv
    <2>8. \A d \in Callers \ {c} : Stands(d)'
      <3> SUFFICES ASSUME NEW d \in Callers \ {c} PROVE Stands(d)'
        OBVIOUS
      <3>1. Stands(d) /\ calls'[d] = calls[d]
        BY <2>7 DEF IInv, TypeInv, CallsTyped
      <3>2. CreationStands(d)'
        BY <1>1, <2>5, <3>1 DEF Stands, CreationStands
      <3>3. DeletionStands(d)'
        <4> SUFFICES ASSUME calls[d].at \in Deleting
                     PROVE  DeletionStands(d)'
          BY <3>1 DEF DeletionStands
        <4>1. PICK b : b = calls[d].base OBVIOUS
        <4>2. /\ b \in Bases /\ streams[b] # <<>>
              /\ IF calls[d].at = "appendDeleted"
                   THEN /\ calls[d].version <= MaxDeletions
                        /\ calls[d].version = Len(streams[b]) \/ Archived(b)
                   ELSE Archived(b)
          BY <3>1, <4>1 DEF Stands, DeletionStands
        <4>3. streams'[b] # <<>> /\ (Archived(b) => Archived(b)')
          BY <2>5, <4>2
        <4>4. Len(streams'[b]) = Len(streams[b]) \/ Archived(b)'
          BY <2>3, <2>4, <4>2
        <4> QED BY <3>1, <4>1, <4>2, <4>3, <4>4 DEF DeletionStands
      <3>4. AttachmentStands(d)'
        BY <1>1, <2>5, <3>1 DEF Stands, AttachmentStands, Exists
      <3> QED BY <3>2, <3>3, <3>4 DEF Stands
    <2>9. Stands(c)'
      BY <1>2, <2>4, <2>7
         DEF Stands, CreationStands, DeletionStands, AttachmentStands, Creating
    <2>10. CallsTyped'
      <3>1. calls' \in [Callers -> CallStates]
        BY <2>7, CallUpdated DEF IInv
      <3>2. OneCreator'
        BY <2>7 DEF IInv, TypeInv, CallsTyped, OneCreator, Creating
      <3> QED BY <2>8, <2>9, <3>1, <3>2 DEF CallsTyped
    <2>11. TablesTyped' /\ OthersTyped'
      BY <1>1 DEF IInv, TypeInv, TablesTyped, OthersTyped
    <2>12. StreamsTyped'
      <3>1. Len(streams[k]) \in Nat /\ Len(streams[k]) <= MaxDeletions /\ MaxDeletions \in Nat
        BY <1>2, <1>4, <2>2, DeletionsAssumption
      <3>2. Len(streams'[k]) <= MaxDeletions + 1
        BY <2>4, <3>1
      <3>3. \A b \in Bases : Len(streams'[b]) <= MaxDeletions + 1
        BY <2>3, <3>2 DEF IInv, TypeInv, StreamsTyped
      <3> QED BY <1>1, <2>3, <2>5, <3>3 DEF IInv, TypeInv, StreamsTyped
    <2>13. AgreeInv'
      <3> SUFFICES ASSUME NEW b \in Bases, b \notin disturbed
                   PROVE  RowIsDue(b)' /\ FilesAreDue(b)'
        BY <1>1 DEF AgreeInv
      <3>1. RowIsDue(b) /\ FilesAreDue(b)
        BY DEF IInv, AgreeInv
      <3>2. CASE b = k
        <4>1. InDeletion(k)
          BY <1>a, <1>1 DEF InDeletion, Deleting
        <4>2. RowIsDue(k)'
          BY <2>4, <2>7 DEF RowIsDue
        <4>3. FilesAreDue(k)'
          BY <1>1, <2>4, <3>1, <3>2, <4>1 DEF FilesAreDue, Of
        <4> QED BY <3>2, <4>2, <4>3
      <3>3. CASE b # k
        <4>1. RowIsDue(b)'
          BY <1>1, <2>5, <2>7, <3>1, <3>3 DEF RowIsDue, Exists
        <4>2. InDeletion(b)' <=> InDeletion(b)
          BY <1>a, <1>1, <2>7, <3>3 DEF InDeletion, Deleting
        <4>3. FilesAreDue(b)'
          BY <1>1, <2>5, <2>7, <3>1, <3>3, <4>2 DEF FilesAreDue, Of
        <4> QED BY <4>1, <4>3
      <3> QED BY <3>2, <3>3
    <2>14. OntologyInv'
      BY <1>1, <2>5, <2>7 DEF IInv, OntologyInv, Exists, Creating
    <2> QED BY <2>10, <2>11, <2>12, <2>13, <2>14 DEF IInv, TypeInv
  <1> QED BY <1>3, <1>4

\* The rows go, by the projector and by the use case.
LEMMA PurgeStep ==
    ASSUME IInv, NEW c \in Callers, ProjectDeleted(c) \/ DeleteRows(c)
    PROVE  IInv'
  <1>a. PICK k : k = calls[c].base OBVIOUS
  <1>1. /\ calls[c].at \in {"projectDeleted", "deleteRows"}
        /\ rows' = [rows EXCEPT ![k] = Absent]
        /\ documents' = {d \in documents : d[1] # k}
        /\ sources' = {s \in sources : s[1] # k}
        /\ UNCHANGED <<templates, streams, files, spent, faults, disturbed, raced>>
    BY <1>a DEF ProjectDeleted, DeleteRows, Purge, At, history
  <1>2. k \in Bases /\ Archived(k)
    BY <1>a, <1>1 DEF IInv, TypeInv, CallsTyped, Stands, DeletionStands, Deleting
  <1>3. rows \in [Bases -> {Absent, None} \cup templates]
    BY DEF IInv, TypeInv, TablesTyped
  <1>4. /\ rows' \in [Bases -> {Absent, None} \cup templates]
        /\ rows'[k] = Absent /\ \A b \in Bases \ {k} : rows'[b] = rows[b]
        /\ \A b \in Bases : rows'[b] = Absent => rows[b] = Absent \/ Archived(b)
    BY <1>1, <1>2, <1>3
  <1>5. /\ calls'[c].at \in {"idle", "deleteRows"}
        /\ calls'[c].at = "deleteRows" => calls'[c].base = k
        /\ \A d \in Callers \ {c} : calls'[d] = calls[d]
        /\ CallsTyped'
    <2>1. CASE ProjectDeleted(c)
      <3>1. "deleteRows" \in Places /\ Goto(c, "deleteRows")
        BY <2>1 DEF Places, Deleting, ProjectDeleted
      <3>2. /\ [calls[c] EXCEPT !.at = "deleteRows"] \in CallStates
            /\ calls' = [calls EXCEPT ![c] = [calls[c] EXCEPT !.at = "deleteRows"]]
            /\ calls'[c].at = "deleteRows" /\ calls'[c].base = k
            /\ \A d \in Callers \ {c} : calls'[d] = calls[d]
        BY <1>a, <3>1, GoesOn DEF IInv
      <3>3. streams[k] # <<>>
        BY <1>2 DEF Archived
      <3>4. Stands(c)'
        BY <1>1, <1>2, <3>2, <3>3
           DEF Stands, CreationStands, DeletionStands, AttachmentStands, Creating, Archived
      <3>5. [calls[c] EXCEPT !.at = "deleteRows"].at \notin Creating
        BY DEF Creating, IInv, TypeInv, CallsTyped, CallStates
      <3>6. CallsTyped'
        BY <1>1, <1>4, <3>2, <3>4, <3>5, CallsKept DEF IInv
      <3> QED BY <3>2, <3>6
    <2>2. CASE DeleteRows(c)
      <3>1. End(c)
        BY <2>2 DEF DeleteRows
      <3> QED BY <1>1, <1>4, <3>1, CallEnds DEF IInv, NoCall
    <2> QED BY <2>1, <2>2
  <1>6. TablesTyped'
    <2>1. TablesTyped
      BY DEF IInv, TypeInv
    <2>2. \A d \in documents \cup sources : d[1] \in Bases
      BY <2>1 DEF TablesTyped
    <2>3. \A d \in documents' \cup sources' : rows'[d[1]] # Absent
      BY <1>1, <1>4, <2>1, <2>2 DEF TablesTyped
    <2> QED BY <1>1, <1>4, <2>1, <2>3 DEF TablesTyped
  <1>7. OthersTyped' /\ StreamsTyped'
    BY <1>1, <1>4 DEF IInv, TypeInv, OthersTyped, StreamsTyped
  <1>8. AgreeInv'
    <2> SUFFICES ASSUME NEW b \in Bases, b \notin disturbed
                 PROVE  RowIsDue(b)' /\ FilesAreDue(b)'
      BY <1>1 DEF AgreeInv
    <2>1. RowIsDue(b) /\ FilesAreDue(b)
      BY DEF IInv, AgreeInv
    <2>2. Archived(b)' <=> Archived(b)
      BY <1>1 DEF Archived
    <2>3. CASE b = k
      BY <1>1, <1>2, <1>4, <2>1, <2>2, <2>3 DEF RowIsDue, FilesAreDue, Exists, Of
    <2>4. CASE b # k
      <3>1. RowIsDue(b)'
        BY <1>a, <1>1, <1>4, <1>5, <2>1, <2>2, <2>4 DEF RowIsDue, Exists
      <3>2. InDeletion(b)' <=> InDeletion(b)
        BY <1>a, <1>1, <1>5, <2>4 DEF InDeletion, Deleting
      <3>3. Of(b, documents)' = Of(b, documents)
        BY <1>1, <2>4 DEF Of
      <3>4. \A f \in Of(b, files) : f \in documents' <=> f \in documents
        BY <1>1, <2>4 DEF Of
      <3>5. FilesAreDue(b)'
        BY <1>1, <1>5, <2>1, <2>2, <3>2, <3>3, <3>4 DEF FilesAreDue, Of
      <3> QED BY <3>1, <3>5
    <2> QED BY <2>3, <2>4
  <1>9. OntologyInv'
    <2>1. OntologyInv
      BY DEF IInv
    <2>2. \A d \in Callers : calls'[d].at \notin {"idle", "deleteRows"} => calls'[d] = calls[d]
      BY <1>5
    <2>3. ASSUME NEW d \in Callers, NEW b \in Bases, calls'[d].at = "dropTemplate",
                 rows'[b] = calls'[d].template
          PROVE  b \in raced
      <3>1. calls'[d] = calls[d]
        BY <2>2, <2>3
      <3>2. calls[d].template # Absent
        BY <2>3, <3>1, IdsAssumption DEF IInv, TypeInv, CallsTyped, Stands, AttachmentStands
      <3>3. rows'[b] = rows[b]
        BY <1>4, <2>3, <3>1, <3>2
      <3> QED BY <2>1, <2>3, <3>1, <3>3 DEF OntologyInv
    <2>4. ASSUME NEW b \in Bases, rows'[b] # Absent, Ontology(b) \in Templates, b \notin raced
          PROVE  rows'[b] = Ontology(b) /\ rows'[b] \in templates
      BY <1>4, <2>1, <2>4 DEF OntologyInv, Exists
    <2>5. ASSUME NEW d \in Callers,
                 calls'[d].at \in Creating, calls'[d].template # None,
                 calls'[d].base \notin raced
          PROVE  /\ calls'[d].template \in templates
                 /\ calls'[d].at \in {"insert", "upsert"} => calls'[d].item = calls'[d].template
      BY <2>1, <2>2, <2>5 DEF OntologyInv, Creating
    <2> QED BY <1>1, <2>3, <2>4, <2>5 DEF OntologyInv, Exists, Ontology
  <1> QED BY <1>5, <1>6, <1>7, <1>8, <1>9 DEF IInv, TypeInv

-----------------------------------------------------------------------------
(* Documents and data sources. *)

LEMMA CheckBaseStep ==
    ASSUME IInv, NEW c \in Callers, NEW k \in Bases, NEW item \in Documents \cup Sources,
           CheckBase(c, k, item)
    PROVE  IInv'
  <1> DEFINE place == IF item \in Documents THEN "putFile" ELSE "saveSource"
             r == [NoCall EXCEPT !.at = place, !.base = k, !.item = item]
  <1>1. /\ r \in CallStates /\ r.at = place /\ r.base = k /\ r.item = item
        /\ place \in {"putFile", "saveSource"}
    BY DEF NoCall, CallStates, Places, Names
  <1>2. /\ calls' = [calls EXCEPT ![c] = r] /\ calls[c] = NoCall /\ Exists(k)
        /\ spent' = spent \cup {item}
        /\ UNCHANGED <<templates, rows, documents, sources, streams, files, faults, disturbed, raced>>
    BY DEF CheckBase, Call, Idle, Fresh, tables, history
  <1>3. calls'[c] = r /\ \A d \in Callers \ {c} : calls'[d] = calls[d]
    BY <1>1, <1>2, CallUpdated DEF IInv
  <1>4. streams[k] # <<>>
    BY <1>2 DEF IInv, TypeInv, StreamsTyped, Exists
  <1>5. place = "saveSource" => item \in Sources
    OBVIOUS
  <1>6. place = "putFile" => item \in Documents
    OBVIOUS
  <1> HIDE DEF r, place
  <1>7. Stands(c)'
    <2>1. CreationStands(c)' /\ DeletionStands(c)'
      BY <1>1, <1>3 DEF CreationStands, DeletionStands, Creating, Deleting
    <2>2. AttachmentStands(c)'
      BY <1>1, <1>2, <1>3, <1>4, <1>5, <1>6 DEF AttachmentStands, Exists
    <2> QED BY <2>1, <2>2 DEF Stands
  <1>8. CallsTyped'
    <2>1. r.at \notin Creating
      BY <1>1 DEF Creating
    <2> QED BY <1>1, <1>2, <1>7, <2>1, CallsKept DEF IInv
  <1>9. TablesTyped' /\ OthersTyped' /\ StreamsTyped'
    BY <1>2 DEF IInv, TypeInv, TablesTyped, OthersTyped, StreamsTyped
  <1>10. AgreeInv'
    <2>1. calls[c].at \in Neutral /\ calls'[c].at \in Neutral
      BY <1>1, <1>2, <1>3 DEF NoCall, Neutral
    <2> QED BY <1>2, <1>3, <2>1, NeutralAgrees DEF IInv
  <1>11. OntologyInv'
    BY <1>1, <1>2, <1>3 DEF IInv, OntologyInv, Exists, Ontology, Creating
  <1> QED BY <1>8, <1>9, <1>10, <1>11 DEF IInv, TypeInv

\* The file waits for its document, unless it is late.
LEMMA PutFileStep ==
    ASSUME IInv, NEW c \in Callers, PutFile(c)
    PROVE  IInv'
  <1>a. PICK k : k = calls[c].base OBVIOUS
  <1>b. PICK f : f = <<k, calls[c].item>> OBVIOUS
  <1>1. /\ calls[c].at = "putFile" /\ Goto(c, "attach")
        /\ files' = files \cup {f}
        /\ disturbed' = IF InDeletion(k) \/ Archived(k) THEN disturbed \cup {k} ELSE disturbed
        /\ UNCHANGED <<templates, rows, documents, sources, streams, spent, faults, raced>>
    BY <1>a, <1>b DEF PutFile, At, tables
  <1>2. "attach" \in Places
    BY DEF Places
  <1>3. /\ [calls[c] EXCEPT !.at = "attach"] \in CallStates
        /\ calls' = [calls EXCEPT ![c] = [calls[c] EXCEPT !.at = "attach"]]
        /\ calls'[c].at = "attach" /\ calls'[c].base = k /\ calls'[c].item = calls[c].item
        /\ \A d \in Callers \ {c} : calls'[d] = calls[d]
    BY <1>a, <1>1, <1>2, GoesOn DEF IInv
  <1>4. AttachmentStands(c)
    BY DEF IInv, TypeInv, CallsTyped, Stands
  <1>5. k \in Bases /\ calls[c].item \in Documents /\ streams[k] # <<>>
        /\ (Exists(k) \/ Archived(k))
    BY <1>a, <1>1, <1>4 DEF AttachmentStands
  <1>6. Stands(c)'
    BY <1>1, <1>3, <1>5
       DEF Stands, CreationStands, DeletionStands, AttachmentStands, Creating, Deleting,
           Exists, Archived
  <1>7. CallsTyped'
    <2>1. [calls[c] EXCEPT !.at = "attach"].at \notin Creating
      BY DEF Creating, IInv, TypeInv, CallsTyped, CallStates
    <2> QED BY <1>1, <1>3, <1>6, <2>1, CallsKept DEF IInv
  <1>8. TablesTyped' /\ StreamsTyped'
    BY <1>1 DEF IInv, TypeInv, TablesTyped, StreamsTyped
  <1>9. OthersTyped'
    BY <1>b, <1>1, <1>5 DEF IInv, TypeInv, OthersTyped
  <1>10. AgreeInv'
    <2> SUFFICES ASSUME NEW b \in Bases, b \notin disturbed'
                 PROVE  RowIsDue(b)' /\ FilesAreDue(b)'
      BY DEF AgreeInv
    <2>1. RowIsDue(b) /\ FilesAreDue(b) /\ (b = k => ~InDeletion(k) /\ ~Archived(k))
      BY <1>1 DEF IInv, AgreeInv
    <2>2. RowIsDue(b)'
      BY <1>1, <1>3, <2>1 DEF RowIsDue, Archived, Exists
    <2>3. InDeletion(b)' <=> InDeletion(b)
      BY <1>1, <1>3 DEF InDeletion, Deleting
    <2>4. Archived(b)' <=> Archived(b)
      BY <1>1 DEF Archived
    <2>5. CASE b = k
      <3>1. Of(k, documents) \subseteq files'
        BY <1>1, <2>1, <2>5 DEF FilesAreDue
      <3>2. ASSUME NEW g \in Of(k, files)'
            PROVE  g \in documents \/ \E d \in Callers : /\ calls'[d].at = "attach"
                                                         /\ g = <<calls'[d].base, calls'[d].item>>
        <4>1. CASE g = f
          BY <1>b, <1>3, <4>1
        <4>2. CASE g # f
          <5>1. g \in Of(k, files)
            BY <1>1, <3>2, <4>2 DEF Of
          <5> QED BY <1>1, <1>3, <2>1, <2>5, <5>1 DEF FilesAreDue
        <4> QED BY <4>1, <4>2
      <3>3. Of(k, documents)' = Of(k, documents)
        BY <1>1 DEF Of
      <3>4. \A d \in Callers : calls'[d].at = "attach" /\ calls'[d].base = k
                              => <<k, calls'[d].item>> \in files'
        BY <1>b, <1>1, <1>3, <2>1, <2>5 DEF FilesAreDue
      <3>5. FilesAreDue(k)'
        BY <1>1, <2>1, <2>3, <2>4, <2>5, <3>1, <3>2, <3>3, <3>4 DEF FilesAreDue
      <3> QED BY <2>2, <2>5, <3>5
    <2>6. CASE b # k
      <3>1. Of(b, files)' = Of(b, files) /\ Of(b, documents)' = Of(b, documents)
        BY <1>b, <1>1, <2>6 DEF Of
      <3>2. \A d \in Callers : calls[d].base = b \/ calls'[d].base = b => calls'[d] = calls[d]
        BY <1>a, <1>3, <2>6
      <3>3. FilesAreDue(b)'
        BY <2>1, <2>3, <2>4, <3>1, <3>2, FilesKept
      <3> QED BY <2>2, <3>3
    <2> QED BY <2>5, <2>6
  <1>11. OntologyInv'
    BY <1>1, <1>3 DEF IInv, OntologyInv, Exists, Ontology, Creating
  <1> QED BY <1>7, <1>8, <1>9, <1>10, <1>11 DEF IInv, TypeInv

\* The document gets its row, unless the base is gone.
LEMMA AttachRowStep ==
    ASSUME IInv, NEW c \in Callers, AttachRow(c)
    PROVE  IInv'
  <1>a. PICK k : k = calls[c].base OBVIOUS
  <1>b. PICK f : f = <<k, calls[c].item>> OBVIOUS
  <1>1. /\ calls[c].at = "attach" /\ End(c)
        /\ documents' = IF rows[k] = Absent THEN documents ELSE documents \cup {f}
        /\ UNCHANGED <<templates, rows, sources, streams, files, spent, faults, disturbed, raced>>
    BY <1>a, <1>b DEF AttachRow, At, history
  <1>2. AttachmentStands(c)
    BY DEF IInv, TypeInv, CallsTyped, Stands
  <1>3. k \in Bases /\ calls[c].item \in Documents /\ (Exists(k) \/ Archived(k))
    BY <1>a, <1>1, <1>2 DEF AttachmentStands
  <1>4. CallsTyped' /\ calls'[c] = NoCall /\ \A d \in Callers \ {c} : calls'[d] = calls[d]
    BY <1>1, CallEnds DEF IInv
  <1>5. TablesTyped'
    <2>1. TablesTyped
      BY DEF IInv, TypeInv
    <2>2. f \in Bases \X Documents /\ f[1] = k
      BY <1>b, <1>3
    <2>3. documents' \subseteq Bases \X Documents
      BY <1>1, <2>1, <2>2 DEF TablesTyped
    <2>4. \A d \in documents' \cup sources : rows[d[1]] # Absent
      BY <1>1, <2>1, <2>2 DEF TablesTyped
    <2> QED BY <1>1, <2>1, <2>3, <2>4 DEF TablesTyped
  <1>6. OthersTyped' /\ StreamsTyped'
    BY <1>1 DEF IInv, TypeInv, OthersTyped, StreamsTyped
  <1>7. AgreeInv'
    <2> SUFFICES ASSUME NEW b \in Bases, b \notin disturbed
                 PROVE  RowIsDue(b)' /\ FilesAreDue(b)'
      BY <1>1 DEF AgreeInv
    <2>1. RowIsDue(b) /\ FilesAreDue(b)
      BY DEF IInv, AgreeInv
    <2>2. RowIsDue(b)'
      BY <1>1, <1>4, <2>1 DEF RowIsDue, Archived, Exists, NoCall
    <2>3. InDeletion(b)' <=> InDeletion(b)
      BY <1>1, <1>4 DEF InDeletion, Deleting, NoCall
    <2>4. (Archived(b)' <=> Archived(b)) /\ Of(b, files)' = Of(b, files)
      BY <1>1 DEF Archived, Of
    <2>5. CASE Archived(b) \/ InDeletion(b)
      BY <2>1, <2>2, <2>3, <2>4, <2>5 DEF FilesAreDue
    <2>6. CASE ~(Archived(b) \/ InDeletion(b))
      <3>1. /\ Of(b, documents) \subseteq files
            /\ \A g \in Of(b, files) :
                  g \in documents \/ \E d \in Callers : /\ calls[d].at = "attach"
                                                        /\ g = <<calls[d].base, calls[d].item>>
            /\ \A d \in Callers : calls[d].at = "attach" /\ calls[d].base = b
                                  => <<b, calls[d].item>> \in files
        BY <2>1, <2>6 DEF FilesAreDue
      <3>2. ASSUME NEW g \in Of(b, files)
            PROVE  g \in documents' \/ \E d \in Callers : /\ calls'[d].at = "attach"
                                                          /\ g = <<calls'[d].base, calls'[d].item>>
        <4>1. CASE g \in documents
          BY <1>1, <4>1
        <4>2. CASE g = f
          <5>1. g[1] = b /\ f[1] = k
            BY <1>b, <3>2 DEF Of
          <5>2. Exists(k)
            BY <1>3, <2>6, <4>2, <5>1
          <5> QED BY <1>1, <4>2, <5>2 DEF Exists
        <4>3. CASE g \notin documents /\ g # f
          <5>1. PICK d \in Callers : calls[d].at = "attach" /\ g = <<calls[d].base, calls[d].item>>
            BY <3>1, <3>2, <4>3
          <5>2. d # c
            BY <1>a, <1>b, <4>3, <5>1
          <5> QED BY <1>4, <5>1, <5>2
        <4> QED BY <4>1, <4>2, <4>3
      <3>3. Of(b, documents)' \subseteq files
        BY <1>a, <1>b, <1>1, <3>1 DEF Of
      <3>4. \A d \in Callers : calls'[d].at = "attach" /\ calls'[d].base = b
                              => <<b, calls'[d].item>> \in files
        BY <1>4, <3>1 DEF NoCall
      <3> QED BY <1>1, <2>2, <2>3, <2>4, <2>6, <3>2, <3>3, <3>4 DEF FilesAreDue
    <2> QED BY <2>5, <2>6
  <1>8. OntologyInv'
    BY <1>1, <1>4 DEF IInv, OntologyInv, Exists, Ontology, Creating, NoCall
  <1> QED BY <1>4, <1>5, <1>6, <1>7, <1>8 DEF IInv, TypeInv

LEMMA SaveSourceStep ==
    ASSUME IInv, NEW c \in Callers, SaveSource(c)
    PROVE  IInv'
  <1>a. PICK k : k = calls[c].base OBVIOUS
  <1>b. PICK s : s = <<k, calls[c].item>> OBVIOUS
  <1>1. /\ calls[c].at = "saveSource" /\ End(c)
        /\ sources' = IF rows[k] = Absent THEN sources ELSE sources \cup {s}
        /\ UNCHANGED <<templates, rows, documents, streams, files, spent, faults, disturbed, raced>>
    BY <1>a, <1>b DEF SaveSource, At, history
  <1>2. k \in Bases /\ calls[c].item \in Sources
    BY <1>a, <1>1 DEF IInv, TypeInv, CallsTyped, Stands, AttachmentStands
  <1>3. CallsTyped' /\ calls'[c] = NoCall /\ \A d \in Callers \ {c} : calls'[d] = calls[d]
    BY <1>1, CallEnds DEF IInv
  <1>4. TablesTyped'
    <2>1. TablesTyped
      BY DEF IInv, TypeInv
    <2>2. s \in Bases \X Sources /\ s[1] = k
      BY <1>b, <1>2
    <2>3. sources' \subseteq Bases \X Sources
      BY <1>1, <2>1, <2>2 DEF TablesTyped
    <2>4. \A d \in documents \cup sources' : rows[d[1]] # Absent
      BY <1>1, <2>1, <2>2 DEF TablesTyped
    <2> QED BY <1>1, <2>1, <2>3, <2>4 DEF TablesTyped
  <1>5. OthersTyped' /\ StreamsTyped'
    BY <1>1 DEF IInv, TypeInv, OthersTyped, StreamsTyped
  <1>6. AgreeInv'
    BY <1>1, <1>3, NeutralAgrees DEF IInv, NoCall, Neutral
  <1>7. OntologyInv'
    BY <1>1, <1>3 DEF IInv, OntologyInv, Exists, Ontology, Creating, NoCall
  <1> QED BY <1>3, <1>4, <1>5, <1>6, <1>7 DEF IInv, TypeInv

\* A call that is cut leaves what it has done, and its base counts as disturbed.
LEMMA CallIsCutStep ==
    ASSUME IInv, NEW c \in Callers, CallIsCut(c)
    PROVE  IInv'
  <1>1. /\ End(c) /\ faults < MaxFaults /\ faults' = faults + 1
        /\ disturbed' = disturbed \cup ({calls[c].base} \cap Bases)
        /\ UNCHANGED <<templates, rows, documents, sources, streams, files, spent, raced>>
    BY DEF CallIsCut, tables
  <1>2. CallsTyped' /\ calls'[c] = NoCall /\ \A d \in Callers \ {c} : calls'[d] = calls[d]
    BY <1>1, CallEnds DEF IInv
  <1>3. TablesTyped' /\ StreamsTyped'
    BY <1>1 DEF IInv, TypeInv, TablesTyped, StreamsTyped
  <1>4. OthersTyped'
    BY <1>1, FaultsAssumption DEF IInv, TypeInv, OthersTyped
  <1>5. AgreeInv'
    <2> SUFFICES ASSUME NEW b \in Bases, b \notin disturbed'
                 PROVE  RowIsDue(b)' /\ FilesAreDue(b)'
      BY DEF AgreeInv
    <2>1. RowIsDue(b) /\ FilesAreDue(b) /\ calls[c].base # b
      BY <1>1 DEF IInv, AgreeInv
    <2>2. RowIsDue(b)'
      BY <1>1, <1>2, <2>1 DEF RowIsDue, Archived, Exists
    <2>3. InDeletion(b)' <=> InDeletion(b)
      BY <1>2, <2>1 DEF InDeletion, Deleting, NoCall
    <2>4. \A f \in Of(b, files) : f # <<calls[c].base, calls[c].item>>
      BY <2>1 DEF Of
    <2>5. FilesAreDue(b)'
      BY <1>1, <1>2, <2>1, <2>3, <2>4 DEF FilesAreDue, Of, Archived, NoCall
    <2> QED BY <2>2, <2>5
  <1>6. OntologyInv'
    BY <1>1, <1>2 DEF IInv, OntologyInv, Exists, Ontology, Creating, NoCall
  <1> QED BY <1>2, <1>3, <1>4, <1>5, <1>6 DEF IInv, TypeInv

-----------------------------------------------------------------------------
(* The specification. *)

LEMMA InitInv == Init => IInv
  <1> SUFFICES ASSUME Init PROVE IInv
    OBVIOUS
  <1>1. \A c \in Callers : calls[c] = NoCall
    BY DEF Init
  <1>2. TablesTyped /\ OthersTyped
    BY FaultsAssumption DEF Init, TablesTyped, OthersTyped
  <1>3. StreamsTyped
    BY DeletionsAssumption DEF Init, StreamsTyped
  <1>4. CallsTyped
    <2>1. calls \in [Callers -> CallStates]
      BY NoCallTyped DEF Init
    <2> QED BY <1>1, <2>1
       DEF CallsTyped, Stands, CreationStands, DeletionStands, AttachmentStands, OneCreator,
           NoCall, Creating, Deleting
  <1>5. AgreeInv
    BY DEF Init, AgreeInv, RowIsDue, FilesAreDue, Archived, Of, NoCall
  <1>6. OntologyInv
    BY <1>1 DEF Init, OntologyInv, Exists, NoCall, Creating
  <1> QED BY <1>2, <1>3, <1>4, <1>5, <1>6 DEF IInv, TypeInv

LEMMA RoutesStep ==
    ASSUME IInv, NEW c \in Callers, OntologyRoutes(c) \/ KnowledgeRoutes(c) \/ SourceRoutes(c)
    PROVE  IInv'
  <1>1. CASE OntologyRoutes(c)
    BY <1>1, CheckTemplateStep, CountUsagesStep DEF OntologyRoutes
  <1>2. CASE SourceRoutes(c)
    BY <1>2, CheckBaseStep DEF SourceRoutes
  <1>3. CASE KnowledgeRoutes(c)
    <2>1. PICK k \in Bases : \/ CreateBase(c, k) \/ BeginDelete(c, k)
                             \/ \E d \in Documents : CheckBase(c, k, d)
      BY <1>3 DEF KnowledgeRoutes
    <2>2. CASE CreateBase(c, k)
      <3>1. CASE \E t \in templates : LoadOntology(c, k, t, NameOf(t))
        <4>1. PICK t \in templates : LoadOntology(c, k, t, NameOf(t))
          BY <3>1
        <4>2. NameOf(t) \in Names
          BY DEF Names, IInv, TypeInv, TablesTyped
        <4> QED BY <4>1, <4>2, LoadOntologyStep
      <3>2. CASE \E name \in InlineNames : LoadOntology(c, k, None, name)
        <4>1. PICK name \in InlineNames : LoadOntology(c, k, None, name)
          BY <3>2
        <4>2. name \in Names
          BY DEF Names
        <4> QED BY <4>1, <4>2, LoadOntologyStep
      <3> QED BY <2>2, <3>1, <3>2 DEF CreateBase
    <2>3. CASE BeginDelete(c, k)
      BY <2>3, BeginDeleteStep
    <2>4. CASE \E d \in Documents : CheckBase(c, k, d)
      BY <2>4, CheckBaseStep
    <2> QED BY <2>1, <2>2, <2>3, <2>4
  <1> QED BY <1>1, <1>2, <1>3

LEMMA StepInv ==
    ASSUME IInv, [Next]_vars
    PROVE  IInv'
  <1>1. CASE UNCHANGED vars
    <2>1. UNCHANGED <<templates, rows, documents, sources, streams, files, calls, spent,
                      faults, disturbed, raced>>
      BY <1>1 DEF vars, tables, history
    <2>2. TypeInv'
      BY <2>1 DEF IInv, TypeInv, TablesTyped, OthersTyped, StreamsTyped, CallsTyped, OneCreator,
         Stands, CreationStands, DeletionStands, AttachmentStands, Archived, Exists, Ontology
    <2>3. AgreeInv'
      BY <2>1 DEF IInv, AgreeInv, RowIsDue, FilesAreDue, Archived, Exists, InDeletion, Of
    <2>4. OntologyInv'
      BY <2>1 DEF IInv, OntologyInv, Exists, Ontology
    <2> QED BY <2>2, <2>3, <2>4 DEF IInv
  <1>2. CASE Next
    <2> SUFFICES ASSUME NEW c \in Callers,
                        \/ OntologyRoutes(c) \/ KnowledgeRoutes(c) \/ SourceRoutes(c)
                        \/ SaveTemplate(c) \/ DropTemplate(c)
                        \/ AppendCreated(c) \/ LookUpTemplate(c) \/ WriteRow(c)
                        \/ AppendDeleted(c) \/ ProjectDeleted(c) \/ DeleteRows(c)
                        \/ PutFile(c) \/ AttachRow(c) \/ SaveSource(c)
                        \/ CallIsCut(c)
                 PROVE  IInv'
      BY <1>2 DEF Next
    <2>1. CASE OntologyRoutes(c) \/ KnowledgeRoutes(c) \/ SourceRoutes(c)
      BY <2>1, RoutesStep
    <2>2. CASE SaveTemplate(c)
      BY <2>2, SaveTemplateStep
    <2>3. CASE DropTemplate(c)
      BY <2>3, DropTemplateStep
    <2>4. CASE AppendCreated(c)
      BY <2>4, AppendCreatedStep
    <2>5. CASE LookUpTemplate(c)
      BY <2>5, LookUpTemplateStep
    <2>6. CASE WriteRow(c)
      BY <2>6, WriteRowStep
    <2>7. CASE AppendDeleted(c)
      BY <2>7, AppendDeletedStep
    <2>8. CASE ProjectDeleted(c) \/ DeleteRows(c)
      BY <2>8, PurgeStep
    <2>9. CASE PutFile(c)
      BY <2>9, PutFileStep
    <2>10. CASE AttachRow(c)
      BY <2>10, AttachRowStep
    <2>11. CASE SaveSource(c)
      BY <2>11, SaveSourceStep
    <2>12. CASE CallIsCut(c)
      BY <2>12, CallIsCutStep
    <2> QED BY <2>1, <2>2, <2>3, <2>4, <2>5, <2>6, <2>7, <2>8, <2>9, <2>10, <2>11, <2>12
  <1> QED BY <1>1, <1>2

\* The inductive invariant holds in every reachable state.
THEOREM Invariance == Spec => []IInv
  <1>1. IInv /\ [Next]_vars => IInv'
    BY StepInv
  <1> QED BY InitInv, <1>1, PTL DEF Spec

\* Rows refer to rows: names of templates are unique, the template a base is linked to and
\* the base of every document and data source exist.
THEOREM TypeCorrect == Spec => []TypeOK
  <1>1. IInv => TypeOK
    <2> SUFFICES ASSUME IInv PROVE TypeOK
      OBVIOUS
    <2>1. TablesTyped /\ OthersTyped /\ StreamsTyped /\ calls \in [Callers -> CallStates]
      BY DEF IInv, TypeInv, CallsTyped
    <2>2. \A c \in Callers : calls[c].at \in Places /\ calls[c].base \in Bases \cup {None}
      BY <2>1 DEF CallStates
    <2>3. \A d \in documents \cup sources : d[1] \in Bases /\ rows[d[1]] # Absent
      BY <2>1 DEF TablesTyped
    <2> QED BY <2>1, <2>2, <2>3 DEF TypeOK, TablesTyped, OthersTyped, StreamsTyped
  <1> QED BY Invariance, <1>1, PTL

\* The stream of a base, its rows and its files agree whenever no call on it is under way.
THEOREM BasesAgree == Spec => []SettledBasesAgree
  <1>1. IInv => SettledBasesAgree
    <2> SUFFICES ASSUME IInv, NEW k \in Bases, Settled(k)
                 PROVE  LET live == streams[k] # <<>> /\ ~ Archived(k) IN
                        /\ k \in Listed <=> live
                        /\ Found(k) <=> live
                        /\ Of(k, files) = Base(k).documents
                        /\ ~ live => Of(k, files) \cup Of(k, sources) = {}
      BY DEF SettledBasesAgree
    <2>1. RowIsDue(k) /\ FilesAreDue(k) /\ \A c \in Callers : calls[c].base # k
      BY DEF IInv, AgreeInv, Settled
    <2>2. Archived(k) => ~Exists(k)
      BY <2>1 DEF RowIsDue
    <2>3. streams[k] # <<>> /\ ~Archived(k) => Exists(k)
      BY <2>1 DEF RowIsDue
    <2>4. streams[k] = <<>> => ~Exists(k)
      BY DEF IInv, TypeInv, StreamsTyped, Exists
    <2>5. ~Exists(k) => Of(k, documents) = {} /\ Of(k, sources) = {}
      BY DEF IInv, TypeInv, TablesTyped, Exists, Of
    <2>6. ~InDeletion(k)
      BY <2>1 DEF InDeletion
    <2>7. Of(k, files) = Of(k, documents)
      <3>1. CASE Archived(k)
        BY <2>1, <2>2, <2>5, <3>1 DEF FilesAreDue
      <3>2. CASE ~Archived(k)
        <4>1. Of(k, documents) \subseteq files
          BY <2>1, <2>6, <3>2 DEF FilesAreDue
        <4>2. \A f \in Of(k, files) :
                 f \in documents \/ \E c \in Callers : f = <<calls[c].base, calls[c].item>>
          BY <2>1, <2>6, <3>2 DEF FilesAreDue
        <4>3. \A f \in Of(k, files) : f \in documents
          BY <2>1, <4>2 DEF Of
        <4> QED BY <4>1, <4>3 DEF Of
      <3> QED BY <3>1, <3>2
    <2>8. Base(k).documents = Of(k, documents)
      BY DEF Base
    <2>9. k \in Listed <=> Exists(k)
      BY DEF Listed
    <2>10. Found(k) <=> Exists(k) \/ (streams[k] # <<>> /\ ~ Archived(k))
      BY DEF Found
    <2> QED BY <2>2, <2>3, <2>4, <2>5, <2>7, <2>8, <2>9, <2>10
  <1> QED BY Invariance, <1>1, PTL

\* A base created from a template is read with its ontology for as long as it exists, except
\* when the template's deletion raced its creation.
THEOREM KeepsOntology == Spec => []OntologyIsKept
  <1>1. IInv => OntologyIsKept
    BY DEF IInv, OntologyInv, OntologyIsKept, Base
  <1> QED BY Invariance, <1>1, PTL
=============================================================================
