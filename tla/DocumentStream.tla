--------------------------- MODULE DocumentStream ---------------------------
(***************************************************************************)
(* The event stream of one document and every coroutine that writes to it. *)
(*                                                                         *)
(* A document is event sourced: a writer loads the stream and replays it   *)
(* into an in-memory DocumentAggregate, works for a long time (parsing,    *)
(* LLM calls), marks the aggregate and saves it.  The save is an           *)
(* optimistic append in one PostgreSQL transaction; after the commit the   *)
(* same coroutine publishes the events on the in-process bus, which starts *)
(* the next saga handler as a background task.  Nothing but the version    *)
(* check stops two writers that loaded the same version.                   *)
(***************************************************************************)
EXTENDS Naturals, Sequences, FiniteSets

CONSTANTS
    Writers,       \* coroutines that may run at the same time
    NoWriter,      \* nobody holds the lock of the event_streams row
    Origins,       \* how the document may begin: "new", "legacy"
    Modes,         \* may chunk extraction go through Redis Streams
    MaxRaises,     \* bound on the exceptions raised by a step
    MaxCrashes,    \* bound on the times the process is killed and restarted
    MaxReprocess,  \* bound on the calls of ReprocessDocumentUseCase
    MaxDeletes     \* bound on the calls of DeleteDocumentUseCase

ASSUME WritersAssumption == NoWriter \notin Writers
ASSUME OriginsAssumption == Origins \subseteq {"new", "legacy"}
ASSUME ModesAssumption == Modes \subseteq BOOLEAN
ASSUME BoundsAssumption ==
    {MaxRaises, MaxCrashes, MaxReprocess, MaxDeletes} \subseteq Nat

VARIABLES
    log,           \* domain_events of the stream, ordered by event_version
    streamVersion, \* event_streams.version, 0 while the row does not exist
    rowLock,       \* writer whose transaction holds the row FOR UPDATE
    todo,          \* versions whose saga handler is a task not yet running
    jobs,          \* dispatched extractions whose consolidation is to come
    streaming,     \* the saga has a stream queue and a barrier
    origin,        \* "new": attach not called; "legacy": a row, no stream
    reprocesses,   \* calls of ReprocessDocumentUseCase so far
    deletes,       \* calls of DeleteDocumentUseCase so far
    raises,        \* exceptions raised by a step so far
    crashes,       \* restarts of the process so far
    conflicted,    \* a save was refused with CONCURRENCY_ERROR
    pc,            \* where each writer is
    op,            \* the code path each writer runs
    version,       \* version of the writer's aggregate before it is marked
    status,        \* status of the writer's aggregate before it is marked
    outbox         \* versions a writer committed and has not published

store == <<log, streamVersion, rowLock>>
requests == <<origin, reprocesses, deletes>>
queues == <<todo, jobs, streaming, requests>>
history == <<raises, crashes, conflicted>>
locals == <<op, version, status>>
vars == <<store, queues, history, pc, locals, outbox>>

-----------------------------------------------------------------------------
(* The aggregate. *)

\* The status each _apply_ handler sets, outright.
StatusOf == [Attached |-> "PENDING_UPLOAD", Stored |-> "UPLOADED",
             Parsed |-> "PARSED", Chunked |-> "CHUNKED",
             GraphExtracted |-> "GRAPH_EXTRACTED", Indexed |-> "INDEXED",
             Failed |-> "FAILED", Deleted |-> "DELETED"]
EventTypes == DOMAIN StatusOf
Statuses == {StatusOf[e] : e \in EventTypes} \cup {"NONE"}

\* Mutants: a saga that also listens to Indexed; one that forgets Parsed.
HandlerOf_Indexed == [Stored |-> "HandleStored", Parsed |-> "HandleParsed",
    Chunked |-> "HandleChunked", GraphExtracted |-> "HandleGraphExtracted",
    Indexed |-> "HandleGraphExtracted"]
HandlerOf_NoParsed == [Stored |-> "HandleStored", Chunked |-> "HandleChunked",
                       GraphExtracted |-> "HandleGraphExtracted"]

\* The background saga handler subscribed to an event.
HandlerOf == [Stored |-> "HandleStored", Parsed |-> "HandleParsed",
              Chunked |-> "HandleChunked", GraphExtracted |-> "HandleGraphExtracted"]
SagaHandlers ==
    {"HandleStored", "HandleParsed", "HandleChunked", "HandleGraphExtracted"}

\* The events each code path records with the mark_* methods.
Marks == [Attach |-> <<"Stored">>, Reprocess |-> <<"Stored">>,
          HandleStored |-> <<"Parsed">>, HandleParsed |-> <<"Chunked">>,
          HandleChunked |-> <<"GraphExtracted">>,
          HandleGraphExtracted |-> <<"Indexed">>,
          Consolidate |-> <<"GraphExtracted", "Indexed">>,
          RecordFailure |-> <<"Failed">>, Delete |-> <<"Deleted">>]
Ops == DOMAIN Marks

\* Replay of the first n events: every handler overwrites the status.
StatusAt(n) == IF n = 0 THEN "NONE" ELSE StatusOf[log[n]]

\* Mutant: mark_* without its DELETED guard.
Uncommitted_Deleted(o, s) ==
    (IF s = "NONE" THEN <<"Attached">> ELSE <<>>) \o Marks[o]

\* uncommitted_events after the code path marked its aggregate: create() comes
\* first when there was no stream, and no mark_* records on a DELETED one.
Uncommitted(o, s) ==
    IF s = "DELETED" THEN <<>>
    ELSE (IF s = "NONE" THEN <<"Attached">> ELSE <<>>) \o Marks[o]
-----------------------------------------------------------------------------
(* Starting a code path: get_by_id, then the long work. *)

SetLocals(w, place, o, n) ==
    /\ pc' = [pc EXCEPT ![w] = place]
    /\ op' = [op EXCEPT ![w] = o]
    /\ version' = [version EXCEPT ![w] = n]
    /\ status' = [status EXCEPT ![w] = StatusAt(n)]

Load(w, o) ==
    /\ SetLocals(w, "working", o, Len(log))
    /\ UNCHANGED <<store, history, outbox>>

\* The next await of the same code path; its end, where its variables die.
Goto(w, place) == pc' = [pc EXCEPT ![w] = place] /\ UNCHANGED locals
Return(w) == SetLocals(w, "idle", "none", 0)

\* A fresh uuid4: the stream cannot exist yet.
Attach(w) ==
    /\ pc[w] = "idle" /\ origin = "new"
    /\ origin' = "used"
    /\ Load(w, "Attach")
    /\ UNCHANGED <<todo, jobs, streaming, reprocesses, deletes>>

\* The HTTP route or the watchdog.  A row without a stream is re-created.
Reprocess(w) ==
    /\ pc[w] = "idle" /\ reprocesses < MaxReprocess
    /\ IF log = <<>> THEN origin = "legacy" ELSE StatusAt(Len(log)) # "DELETED"
    /\ reprocesses' = reprocesses + 1
    /\ Load(w, "Reprocess")
    /\ UNCHANGED <<todo, jobs, streaming, origin, deletes>>

Delete(w) ==
    /\ pc[w] = "idle" /\ deletes < MaxDeletes
    /\ log # <<>> /\ StatusAt(Len(log)) # "DELETED"
    /\ deletes' = deletes + 1
    /\ Load(w, "Delete")
    /\ UNCHANGED <<todo, jobs, streaming, origin, reprocesses>>

\* A row without a stream is removed and nothing is appended.
DeleteLegacyRow ==
    /\ deletes < MaxDeletes /\ log = <<>> /\ origin = "legacy"
    /\ origin' = "used" /\ deletes' = deletes + 1
    /\ UNCHANGED <<store, todo, jobs, streaming, reprocesses, history, pc, locals,
                   outbox>>

\* Mutant: the task of an event is started twice.
Taken_Twice(v) == todo
\* A handler task is created for one event and runs once.
Taken(v) == todo \ {v}

\* The background task of a saga handler gets to run.
Handle(w, v) ==
    /\ pc[w] = "idle" /\ v \in todo
    /\ todo' = Taken(v)
    /\ Load(w, HandlerOf[log[v]])
    /\ UNCHANGED <<jobs, streaming, requests>>

\* GraphJobWorker's winner of the barrier loads the document.
Consolidate(w) ==
    /\ pc[w] = "idle" /\ jobs > 0
    /\ jobs' = jobs - 1
    /\ Load(w, "Consolidate")
    /\ UNCHANGED <<todo, streaming, requests>>

\* _record_failure_safely reloads the document.
RecordFailure(w) ==
    /\ pc[w] = "failing"
    /\ Load(w, "RecordFailure")
    /\ UNCHANGED queues
-----------------------------------------------------------------------------
(* Ending a code path. *)

\* An exception: a saga handler records it, every other path only logs it,
\* swallows it or hands it to its caller.
Raise(w) == SetLocals(w, IF op[w] \in SagaHandlers THEN "failing" ELSE "idle", "none", 0)

\* A parser, LLM, storage, database or projector call fails.
Fault == raises < MaxRaises /\ raises' = raises + 1

\* A saga handler reads the document and its knowledge base before its try block:
\* what is raised there is logged and not recorded.
StepRaises(w) ==
    /\ pc[w] = "working"
    /\ Fault
    /\ Raise(w) \/ Return(w)
    /\ UNCHANGED <<store, queues, crashes, conflicted, outbox>>

\* With Redis handle_document_chunked publishes one task per parent and appends
\* nothing; the progress event it then publishes may raise.
Dispatches(w) == streaming /\ op[w] = "HandleChunked"

Dispatch(w) ==
    /\ pc[w] = "working" /\ Dispatches(w)
    /\ jobs' = jobs + 1
    /\ (Return(w) /\ UNCHANGED raises) \/ (Fault /\ Raise(w))
    /\ UNCHANGED <<store, todo, streaming, requests, crashes, conflicted, outbox>>
-----------------------------------------------------------------------------
(* save() and append_events(). *)

ReadyToSave(w) == pc[w] = "working" /\ ~Dispatches(w)

NothingToSave(w) ==
    /\ ReadyToSave(w) /\ Uncommitted(op[w], status[w]) = <<>>
    /\ Return(w)
    /\ UNCHANGED <<store, queues, history, outbox>>

\* SELECT version ... FOR UPDATE: waits for the row, if there is one.
RowFree(w) == streamVersion = 0 \/ rowLock \in {w, NoWriter}

CheckVersion(w) ==
    /\ ReadyToSave(w) /\ Uncommitted(op[w], status[w]) # <<>>
    /\ RowFree(w)
    /\ IF streamVersion = version[w]
         THEN /\ rowLock' = IF streamVersion = 0 THEN rowLock ELSE w
              /\ Goto(w, "appending")
              /\ UNCHANGED conflicted
         ELSE /\ Raise(w)
              /\ conflicted' = TRUE
              /\ UNCHANGED rowLock
    /\ UNCHANGED <<log, streamVersion, queues, raises, crashes, outbox>>

Unlock(w) == rowLock' = IF rowLock = w THEN NoWriter ELSE rowLock

\* Mutant: domain_events without its unique constraint.
Unique_Dropped(w) == TRUE

\* uq_domain_events_aggregate_version: none of the versions exists.
Unique(w) == version[w] + 1 > Len(log)

\* Upsert of the row and insert of the events, committed together.
Commit(w) ==
    LET events == Uncommitted(op[w], status[w]) IN
    /\ pc[w] = "appending" /\ RowFree(w) /\ Unique(w)
    /\ log' = log \o events
    /\ streamVersion' = version[w] + Len(events)
    /\ outbox' = [outbox EXCEPT ![w] = [i \in 1..Len(events) |-> version[w] + i]]
    /\ Unlock(w)
    /\ SetLocals(w, "publishing", op[w], 0)
    /\ UNCHANGED <<queues, history>>

\* The transaction is rolled back: the unique constraint or a database error.
Rollback(w) ==
    /\ pc[w] = "appending" /\ RowFree(w)
    /\ (~Unique(w) /\ UNCHANGED raises) \/ Fault
    /\ Unlock(w)
    /\ Raise(w)
    /\ UNCHANGED <<log, streamVersion, queues, crashes, conflicted, outbox>>

\* Mutant: handlers are looked up for any event.
Started_AnyEvent(v) == {v}
\* The saga handler tasks the bus creates for one event.
Started(v) == IF log[v] \in DOMAIN HandlerOf THEN {v} ELSE {}

\* The bus starts the handlers of one event; with no exception the next event
\* follows, and the writer is done after the last one.
Publish(w) ==
    LET v == Head(outbox[w]) IN
    /\ pc[w] = "publishing"
    /\ todo' = todo \cup Started(v)
    /\ \/ /\ outbox' = [outbox EXCEPT ![w] = Tail(@)]
          /\ IF Tail(outbox[w]) = <<>> THEN Return(w) ELSE Goto(w, "publishing")
          /\ UNCHANGED raises
       \/ /\ Fault
          /\ outbox' = [outbox EXCEPT ![w] = <<>>]
          /\ Raise(w)
    /\ UNCHANGED <<store, jobs, streaming, requests, crashes, conflicted>>

\* SIGKILL: PostgreSQL and Redis keep their data, the tasks are gone.
Crash ==
    /\ crashes < MaxCrashes /\ crashes' = crashes + 1
    /\ todo # {} \/ \E w \in Writers : pc[w] # "idle"
    /\ pc' = [w \in Writers |-> "idle"] /\ op' = [w \in Writers |-> "none"]
    /\ version' = [w \in Writers |-> 0] /\ status' = [w \in Writers |-> "NONE"]
    /\ outbox' = [w \in Writers |-> <<>>]
    /\ todo' = {} /\ rowLock' = NoWriter
    /\ UNCHANGED <<log, streamVersion, jobs, streaming, requests, raises, conflicted>>
-----------------------------------------------------------------------------
Init ==
    /\ log = <<>> /\ streamVersion = 0
    /\ jobs = 0 /\ streaming \in Modes
    /\ origin \in Origins /\ reprocesses = 0 /\ deletes = 0
    /\ raises = 0 /\ crashes = 0 /\ conflicted = FALSE
    /\ pc = [w \in Writers |-> "idle"] /\ op = [w \in Writers |-> "none"]
    /\ version = [w \in Writers |-> 0] /\ status = [w \in Writers |-> "NONE"]
    /\ outbox = [w \in Writers |-> <<>>]
    /\ todo = {} /\ rowLock = NoWriter

Request(w) == Attach(w) \/ Reprocess(w) \/ Delete(w)

Step(w) ==
    \/ \E v \in todo : Handle(w, v)
    \/ Consolidate(w) \/ RecordFailure(w) \/ Dispatch(w)
    \/ NothingToSave(w) \/ CheckVersion(w) \/ Commit(w) \/ Publish(w)

Next ==
    \/ \E w \in Writers : Request(w) \/ Step(w) \/ StepRaises(w) \/ Rollback(w)
    \/ DeleteLegacyRow \/ Crash

Spec == Init /\ [][Next]_vars

\* The event loop runs every task that can run; nobody is obliged to send
\* requests, and no call is obliged to raise.
Fairness == \A w \in Writers : WF_vars(Step(w))
FairSpec == Spec /\ Fairness
-----------------------------------------------------------------------------
(* Properties. *)

TypeOK ==
    /\ log \in Seq(EventTypes) /\ streamVersion \in Nat
    /\ rowLock \in Writers \cup {NoWriter}
    /\ todo \subseteq DOMAIN log /\ jobs \in Nat
    /\ \A v \in todo : log[v] \in DOMAIN HandlerOf
    /\ streaming \in Modes /\ origin \in {"new", "legacy", "used"}
    /\ reprocesses \in 0..MaxReprocess /\ deletes \in 0..MaxDeletes
    /\ raises \in 0..MaxRaises /\ crashes \in 0..MaxCrashes /\ conflicted \in BOOLEAN
    /\ pc \in [Writers -> {"idle", "working", "appending", "publishing", "failing"}]
    /\ op \in [Writers -> Ops \cup {"none"}]
    /\ version \in [Writers -> Nat] /\ status \in [Writers -> Statuses]
    /\ outbox \in [Writers -> Seq(Nat)]

\* event_streams.version counts exactly the rows of domain_events, although the
\* row cannot be locked before it exists and two writers may both create it
\* (append_events: FOR UPDATE, upsert and the unique constraint together).
VersionCountsEvents == streamVersion = Len(log)

\* No lost update: the events a writer appends were decided on the state the
\* document has at the moment of the commit, never on one that was overwritten
\* during the long work (append_events: FOR UPDATE, version check, constraint).
Appends(w) == pc[w] = "appending" /\ pc'[w] = "publishing"
NoLostUpdate ==
    [][\A w \in Writers : Appends(w) =>
          version[w] = Len(log) /\ status[w] = StatusAt(Len(log))]_vars

\* Nothing follows DocumentDeletedEvent, whichever handlers, workers or retries
\* were in flight when the document was deleted.
DeletedIsFinal == \A i \in DOMAIN log : log[i] = "Deleted" => i = Len(log)

\* The stream begins with DocumentAttachedEvent and is created only once, even
\* when two reprocess calls find the same row without a stream.
CreatedOnce == \A i \in DOMAIN log : log[i] = "Attached" <=> i = 1

\* A published event starts its saga handler once and a handler appends at most
\* its own event: no stage runs more often than the stage that triggers it, and
\* a GraphExtracted event brings two Indexed ones at most (worker and saga).
Occurrences(e) == Cardinality({i \in DOMAIN log : log[i] = e})
StagesAreCaused ==
    /\ Occurrences("Parsed") <= Occurrences("Stored")
    /\ Occurrences("Chunked") <= Occurrences("Parsed")
    /\ Occurrences("GraphExtracted") <= Occurrences("Chunked")
    /\ Occurrences("Indexed") <= 2 * Occurrences("GraphExtracted")

\* The stages of one ingestion hand over to each other without overlapping, also
\* across crashes: a save is refused for its version only where a reprocess, a
\* delete or the failure of an earlier step brought in a rival.
ConflictNeedsRival == conflicted => deletes + reprocesses + raises > 0

\* Every document that exists is eventually INDEXED, FAILED or DELETED.
Terminal == {"INDEXED", "FAILED", "DELETED"}
Settles == (log # <<>>) ~> (StatusAt(Len(log)) \in Terminal)
=============================================================================
