----------------------------- MODULE ReadModel -----------------------------
(***************************************************************************)
(* The row of one document in attached_documents, and who writes it.       *)
(*                                                                         *)
(* The projector applies each published event with one UPDATE; events of   *)
(* different coroutines reach PostgreSQL in any order.  IngestionWatchdogs *)
(* (one per process) look for rows that nobody has touched for a while,    *)
(* take a lease by a conditional UPDATE and reprocess the document, as a   *)
(* user may at any time; that starts another pass over the stages.  The    *)
(* passes are those of DocumentStream, reduced to the event each of them   *)
(* published last.  A legacy document is a row without a stream, until it  *)
(* is reprocessed.                                                         *)
(***************************************************************************)
EXTENDS Naturals, Sequences, FiniteSets

CONSTANTS
    Watchdogs,   \* IngestionWatchdogs, one per process
    Users,       \* calls of the reprocess route at the same time
    MaxAttempts, \* max_attempts
    Threshold,   \* threshold_minutes, in ticks
    MaxRuns,     \* bound on the passes over the stages
    MaxFlight,   \* bound on the events not yet projected
    MaxIncidents,\* bound on the exceptions raised, the processes killed and the
                 \* users' requests, together
    MaxClock     \* bound on time

ASSUME CallersAssumption == Watchdogs \cap Users = {}
ASSUME AttemptsAssumption == MaxAttempts \in Nat \ {0}
ASSUME ThresholdAssumption == Threshold \in Nat \ {0}
ASSUME BoundsAssumption == {MaxRuns, MaxFlight, MaxIncidents, MaxClock} \subseteq Nat
ASSUME RunsAssumption == MaxRuns # 0

Runs == 1..MaxRuns
Callers == Watchdogs \cup Users
Stages == {"Stored", "Parsed", "Chunked", "GraphExtracted", "Indexed"}
Events == Stages \cup {"Attached", "Progress", "Failed", "Deleted"}
Statuses == {"PENDING_UPLOAD", "UPLOADED", "PARSED", "CHUNKED", "GRAPH_EXTRACTED",
             "INDEXED", "FAILED", "PROCESSING", "RECOVERING"}
NoRow == [status |-> "none", at |-> 0, attempts |-> 0]

VARIABLES
    kb,        \* the knowledge base has a row (a foreign key needs it)
    row,       \* status, updated_at and recovery_attempt of the document
    clock,
    legacy,    \* the document began as a row without a stream
    stream,    \* its stream: "none", "live", or "deleted" at its end
    deletion,  \* DeleteDocument: "idle", "bus" before its event, "row" after it
    run,       \* per pass: the event it published last, or "idle", "over"
    flight,    \* events handed to the projector and not yet applied
    caller,    \* who reprocesses: where it is, and the row as it selected it
    leases,    \* the updated_at of each row that was leased, in order
    incidents  \* how many of them there were

world == <<kb, legacy, stream, deletion>>
vars == <<world, row, clock, run, flight, caller, leases, incidents>>

Incident == incidents < MaxIncidents /\ incidents' = incidents + 1
-----------------------------------------------------------------------------
(* KnowledgeBaseProjector. *)

\* Mutant: the UPDATE of progress writes the status the event names.
Projected_Progress(e, s) == IF e = "Progress" THEN "INGESTING" ELSE s

\* The status an UPDATE leaves: late Stored and Parsed events are fended off, the
\* later stages are not, and progress revives a failed document.
Projected(e, s) ==
    CASE e = "Stored" /\ s \in {"PENDING_UPLOAD", "FAILED"} -> "UPLOADED"
      [] e = "Progress" /\ s = "FAILED" -> "PROCESSING"
      [] e = "Parsed" /\ s \in {"PENDING_UPLOAD", "UPLOADED", "FAILED"} -> "PARSED"
      [] e = "Chunked" -> "CHUNKED"
      [] e = "GraphExtracted" -> "GRAPH_EXTRACTED"
      [] e = "Indexed" -> "INDEXED"
      [] e = "Failed" -> "FAILED"
      [] OTHER -> s

Write(status) == row' = [row EXCEPT !.status = status, !.at = clock]

Goto(r, place) == run' = [run EXCEPT ![r] = place]

\* INSERT ... ON CONFLICT leaves the status alone; without the knowledge base the
\* foreign key refuses it, and the pass that publishes it raises.
ProjectAttached(r) ==
    IF ~kb THEN Goto(r, "over") /\ UNCHANGED row
    ELSE /\ UNCHANGED run
         /\ IF row = NoRow
              THEN row' = [status |-> "PENDING_UPLOAD", at |-> clock, attempts |-> 0]
              ELSE Write(row.status)

\* Mutant: a missing row is inserted by the update, too.
ProjectUpdate_Upsert(e) ==
    row' = IF row = NoRow THEN [status |-> "UPLOADED", at |-> clock, attempts |-> 0]
           ELSE [row EXCEPT !.status = Projected(e, @), !.at = clock]
\* UPDATE ... WHERE id: nothing happens without a row.
ProjectUpdate(e) == IF row = NoRow THEN UNCHANGED row ELSE Write(Projected(e, row.status))

Project(r, e) ==
    /\ <<r, e>> \in flight
    /\ \/ e = "Attached" /\ ProjectAttached(r)
       \/ e = "Deleted" /\ row' = NoRow /\ UNCHANGED run
       \/ e \notin {"Attached", "Deleted"} /\ ProjectUpdate(e) /\ UNCHANGED run
    /\ flight' = flight \ {<<r, e>>}
    /\ UNCHANGED <<world, clock, caller, leases, incidents>>
-----------------------------------------------------------------------------
(* The passes over the stages. *)

Working(r) == run[r] \in Stages
NextStage(e) ==
    CASE e = "Stored" -> "Parsed" [] e = "Parsed" -> "Chunked"
      [] e = "Chunked" -> "GraphExtracted" [] e = "GraphExtracted" -> "Indexed"
\* save commits and publishes.
Publish(r, e) ==
    /\ Cardinality(flight) < MaxFlight
    /\ flight' = flight \cup {<<r, e>>}

\* Attached and Stored are committed by one save; Stored is published when Attached
\* has been projected, whatever became of the stream in between.
StoreAttached(r) ==
    /\ run[r] = "Attached" /\ <<r, "Attached">> \notin flight
    /\ Publish(r, "Stored") /\ Goto(r, "Stored")
    /\ UNCHANGED <<world, row, clock, caller, leases, incidents>>

\* A stage ends and its handler saves what it marked.
Advance(r) ==
    /\ Working(r) /\ run[r] # "Indexed" /\ stream = "live"
    /\ Publish(r, NextStage(run[r])) /\ Goto(r, NextStage(run[r]))
    /\ UNCHANGED <<world, row, clock, caller, leases, incidents>>

\* mark_* records nothing on a deleted document, and the pass ends.
MeetsDeletion(r) ==
    /\ Working(r) /\ stream = "deleted"
    /\ Goto(r, "over")
    /\ UNCHANGED <<world, row, clock, flight, caller, leases, incidents>>

\* Indexed comes from handle_graph_extracted and from the graph worker.
IndexedAgain(r) ==
    /\ run[r] = "Indexed" /\ <<r, "Indexed">> \notin flight
    /\ Publish(r, "Indexed") /\ Goto(r, "over")
    /\ UNCHANGED <<world, row, clock, caller, leases, incidents>>

\* A progress event; page workers outlive the failure of their stage.
ReportProgress(r) ==
    /\ Working(r) \/ run[r] = "failed"
    /\ <<r, "Progress">> \notin flight
    /\ Publish(r, "Progress")
    /\ IF run[r] = "failed" THEN Goto(r, "over") ELSE UNCHANGED run
    /\ UNCHANGED <<world, row, clock, caller, leases, incidents>>

\* _record_failure_safely.
Fails(r) ==
    /\ Working(r) /\ stream = "live" /\ Incident
    /\ Publish(r, "Failed") /\ Goto(r, "failed")
    /\ UNCHANGED <<world, row, clock, caller, leases>>

-----------------------------------------------------------------------------
(* DeleteDocumentUseCase: the event, then the row. *)

\* The id of a new document is known once its row is listed.
Known == legacy \/ row # NoRow \/ run[1] # "Attached"

\* delete() records nothing on a document that is deleted already.
DeleteDocument ==
    /\ deletion = "idle" /\ kb /\ stream # "none" /\ Known
    /\ stream' = "deleted" /\ deletion' = "row"
    /\ IF stream = "live" THEN Publish(0, "Deleted") ELSE UNCHANGED flight
    /\ UNCHANGED <<kb, legacy, row, clock, run, caller, leases, incidents>>

\* It found no stream but a listed row: the event is only published.
DeleteLegacy ==
    /\ deletion = "idle" /\ kb /\ stream = "none" /\ row # NoRow
    /\ deletion' = "bus"
    /\ UNCHANGED <<kb, legacy, stream, row, clock, run, flight, caller, leases, incidents>>

PublishDeleted ==
    /\ deletion = "bus"
    /\ deletion' = "row" /\ Publish(0, "Deleted")
    /\ UNCHANGED <<kb, legacy, stream, row, clock, run, caller, leases, incidents>>

\* delete_document of the repository, after the projection.
RemoveRow ==
    /\ deletion = "row" /\ <<0, "Deleted">> \notin flight
    /\ deletion' = "idle" /\ row' = NoRow
    /\ UNCHANGED <<kb, legacy, stream, clock, run, flight, caller, leases, incidents>>

\* KnowledgeBaseDeleted is projected: all rows go, the documents' streams stay.
DeleteKnowledgeBase ==
    /\ kb /\ kb' = FALSE /\ row' = NoRow
    /\ UNCHANGED <<legacy, stream, deletion, clock, run, flight, caller, leases, incidents>>
-----------------------------------------------------------------------------
(* IngestionWatchdog. *)

Recoverable == {"UPLOADED", "PARSED", "CHUNKED"}

\* WHERE status IN (...) AND updated_at < NOW() - threshold AND attempts are left.
Selected ==
    /\ row.status \in Recoverable
    /\ row.at + Threshold <= clock
    /\ row.attempts < MaxAttempts

Idle == [at |-> "idle", seen |-> NoRow]
Stand(w, place) ==
    caller' = [caller EXCEPT ![w] = IF place = "idle" THEN Idle ELSE [@ EXCEPT !.at = place]]

\* The SELECT.  The rows it returns are handled one after the other; this one's
\* turn may come much later.
Select(w) ==
    /\ caller[w].at = "idle" /\ Selected
    /\ caller' = [caller EXCEPT ![w] = [at |-> "lease", seen |-> row]]
    /\ UNCHANGED <<world, row, clock, run, flight, leases, incidents>>

\* Mutant: the lease compares the status alone.
Unchanged_StatusOnly(w) == row.status = caller[w].seen.status
\* WHERE status = $2 AND updated_at = $3.
Unchanged(w) ==
    row.status = caller[w].seen.status /\ row.at = caller[w].seen.at

\* UPDATE ... RETURNING id.
Lease(w) ==
    /\ caller[w].at = "lease"
    /\ IF Unchanged(w)
         THEN /\ row' = [status |-> "RECOVERING", at |-> clock,
                         attempts |-> row.attempts + 1]
              /\ leases' = Append(leases, row.at)
              /\ Stand(w, "reprocess")
         ELSE Stand(w, "idle") /\ UNCHANGED <<row, leases>>
    /\ UNCHANGED <<world, clock, run, flight, incidents>>

(* ReprocessDocumentUseCase, called by a watchdog or by a user. *)

Request(u) ==
    /\ caller[u].at = "idle" /\ Incident
    /\ Stand(u, "reprocess")
    /\ UNCHANGED <<world, row, clock, run, flight, leases>>

Begin(e) ==
    \E r \in Runs :
       /\ run[r] = "idle" /\ \A s \in Runs : s < r => run[s] # "idle"
       /\ Publish(r, e) /\ Goto(r, e)

\* It answers Ok: Stored is appended and published.
Reprocess(c) ==
    /\ caller[c].at = "reprocess" /\ kb /\ stream = "live"
    /\ Begin("Stored")
    /\ Stand(c, "idle")
    /\ UNCHANGED <<world, row, clock, leases, incidents>>

\* No stream, but the row is read ...
ReadLegacyRow(c) ==
    /\ caller[c].at = "reprocess" /\ kb /\ stream = "none" /\ row # NoRow
    /\ Stand(c, "create")
    /\ UNCHANGED <<world, row, clock, run, flight, leases, incidents>>

\* ... and the document is created from it, as an upload does, unless another call
\* has created it: then the version conflict is raised.
Recreate(c) ==
    /\ caller[c].at = "create"
    /\ IF stream = "none"
         THEN stream' = "live" /\ Begin("Attached")
         ELSE UNCHANGED <<stream, run, flight>>
    /\ Stand(c, "idle")
    /\ UNCHANGED <<kb, legacy, deletion, row, clock, leases, incidents>>

Refused == ~kb \/ stream = "deleted" \/ (stream = "none" /\ row = NoRow)

\* It answers Err; the watchdog marks the last attempt as failed.
ReprocessRefused(c) ==
    /\ caller[c].at = "reprocess" /\ Refused
    /\ Stand(c, IF c \in Watchdogs /\ caller[c].seen.attempts + 1 >= MaxAttempts
                  THEN "mark" ELSE "idle")
    /\ UNCHANGED <<world, row, clock, run, flight, leases, incidents>>

MarkFailed(w) ==
    /\ caller[w].at = "mark"
    /\ IF row = NoRow THEN UNCHANGED row ELSE Write("FAILED")
    /\ Stand(w, "idle")
    /\ UNCHANGED <<world, clock, run, flight, leases, incidents>>

\* A version conflict or a database error is raised: the loop starts over, the user
\* is told.
CallRaises(c) ==
    /\ caller[c].at # "idle" /\ Incident
    /\ Stand(c, "idle")
    /\ UNCHANGED <<world, row, clock, run, flight, leases>>

\* A process is killed: the call, and some of the passes, projections and deletions.
Crash(c) ==
    /\ Incident
    /\ Stand(c, "idle")
    /\ \E lost \in SUBSET (Runs \cup {0}) :
          /\ run' = [r \in Runs |->
                       IF r \in lost /\ run[r] # "idle" THEN "over" ELSE run[r]]
          /\ flight' = {f \in flight : f[1] \notin lost}
          /\ deletion' = IF 0 \in lost THEN "idle" ELSE deletion
    /\ UNCHANGED <<kb, legacy, stream, row, clock, leases>>

Tick == clock < MaxClock /\ clock' = clock + 1
        /\ UNCHANGED <<world, row, run, flight, caller, leases, incidents>>
-----------------------------------------------------------------------------
\* The document has just been attached, or it is a row that is older than streams.
Init ==
    /\ kb = TRUE /\ legacy \in BOOLEAN /\ clock = 0 /\ deletion = "idle"
    /\ IF legacy
         THEN /\ stream = "none"
              /\ row \in [status : {"UPLOADED", "FAILED"}, at : {0}, attempts : {0}]
              /\ run = [r \in Runs |-> "idle"] /\ flight = {}
         ELSE /\ stream = "live" /\ row = NoRow
              /\ run = [r \in Runs |-> IF r = 1 THEN "Attached" ELSE "idle"]
              /\ flight = {<<1, "Attached">>}
    /\ caller = [c \in Callers |-> Idle]
    /\ leases = <<>> /\ incidents = 0

\* What a call of ReprocessDocumentUseCase does next.
Answer(c) == Reprocess(c) \/ ReadLegacyRow(c) \/ Recreate(c) \/ ReprocessRefused(c)
Recover(w) == Select(w) \/ Lease(w) \/ Answer(w) \/ MarkFailed(w)
Work(r) == StoreAttached(r) \/ Advance(r) \/ MeetsDeletion(r)

Next ==
    \/ \E f \in flight : Project(f[1], f[2])
    \/ \E r \in Runs : Work(r) \/ IndexedAgain(r) \/ ReportProgress(r) \/ Fails(r)
    \/ DeleteDocument \/ DeleteLegacy \/ PublishDeleted \/ RemoveRow
    \/ DeleteKnowledgeBase
    \/ \E w \in Watchdogs : Recover(w)
    \/ \E u \in Users : Request(u) \/ Answer(u)
    \/ \E c \in Callers : CallRaises(c) \/ Crash(c)
    \/ Tick

Spec == Init /\ [][Next]_vars

\* The watchdog loop runs for ever, whatever its cycles raise, and the event loop
\* runs the passes and the projections.
FairSpec ==
    /\ Spec
    /\ \A w \in Watchdogs : WF_vars(Recover(w))
    /\ \A r \in Runs : WF_vars(Work(r))
    /\ \A r \in 0..MaxRuns, e \in Events : WF_vars(Project(r, e))
    /\ WF_vars(PublishDeleted) /\ WF_vars(RemoveRow)
-----------------------------------------------------------------------------
(* Properties. *)

Rows == [status : Statuses, at : 0..MaxClock, attempts : Nat] \cup {NoRow}

TypeOK ==
    /\ kb \in BOOLEAN /\ legacy \in BOOLEAN /\ row \in Rows
    /\ stream \in {"none", "live", "deleted"} /\ deletion \in {"idle", "bus", "row"}
    /\ clock \in 0..MaxClock
    /\ run \in [Runs -> Stages \cup {"Attached", "idle", "failed", "over"}]
    /\ flight \subseteq (0..MaxRuns) \X Events
    /\ caller \in [Callers -> [at : {"idle", "lease", "reprocess", "create", "mark"},
                               seen : Rows]]
    /\ leases \in Seq(0..MaxClock)
    /\ incidents \in 0..MaxIncidents

\* A stale row is leased to one watchdog: no two leases were taken on the same
\* updated_at, although both watchdogs may have selected it.
OneLeasePerStaleRow ==
    \A i, j \in DOMAIN leases : leases[i] = leases[j] => i = j

\* However selections, leases, heartbeats and passes interleave, a document is
\* recovered at most max_attempts times.
AttemptsBounded == row.attempts <= MaxAttempts

\* A document that was touched after it was selected is left alone: what is leased
\* was stale at that moment, not only when the watchdog looked.
LeasesOnlyStale ==
    [][\A w \in Watchdogs : Lease(w) /\ leases' # leases => row.at + Threshold <= clock]_vars

\* Late projections do not bring back the row of a deleted knowledge base, nor that
\* of a deleted document, unless it is a legacy one whose Attached event is still to be
\* projected: only Attached inserts, for any other document it is projected before
\* anybody can ask for the deletion, and the foreign key refuses it without the base.
\* In the exempt case the code does bring the row back: one call re-creates the
\* document, another deletes it, then the INSERT comes.
Recreating == legacy /\ \E f \in flight : f[2] = "Attached"
DeletedRowStaysAway ==
    [][(~kb \/ (stream = "deleted" /\ ~Recreating)) /\ row = NoRow => row' = NoRow]_vars

\* What SPEC-resilient-distributed-ingestion-engine.md:265 says of every document
\* with attempts left: one that nobody has touched for the threshold and that is
\* neither done nor failed is recovered, or goes on by itself.
Stagnant ==
    /\ stream = "live" /\ row # NoRow /\ row.status \notin {"INDEXED", "FAILED"}
    /\ row.at + Threshold <= clock /\ row.attempts < MaxAttempts
NobodyStagnates == Stagnant ~> ~Stagnant
=====
