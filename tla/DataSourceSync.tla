-------------------------- MODULE DataSourceSync --------------------------
(***************************************************************************)
(* A data source (a Google Drive folder), its runs, and the calls that     *)
(* work on them.                                                           *)
(*                                                                         *)
(* SyncDataSource asks the connector for what changed since the cursor and *)
(* attaches each file as a document; RetryFailedItems takes up the         *)
(* failures of an earlier run.  Both load the data source, work, and save  *)
(* it whole; both do the same with the row of the run, which               *)
(* DataSourceRunProjector increments meanwhile, as the documents attached  *)
(* end their ingestion.                                                    *)
(***************************************************************************)
EXTENDS Naturals, Sequences, FiniteSets

CONSTANTS
    Files,      \* files of the folder
    Nested,     \* those in a subfolder
    Base,       \* the last part of a file's name, which several files may share
    MaxCalls,   \* bound on the calls of sync and retry
    MaxChanges, \* bound on the changes of the folder
    MaxFaults   \* bound on documents that fail, exceptions, kills, conclusions
                \* announced again and deletions of the data source, together

ASSUME NestedAssumption == Nested \subseteq Files
ASSUME BaseAssumption == DOMAIN Base = Files
ASSUME BoundsAssumption ==
    {MaxCalls, MaxChanges, MaxFaults} \subseteq Nat

Calls == 1..MaxCalls
Terminal == {"COMPLETED", "PARTIALLY_FAILED", "FAILED"}

\* A cursor is a position in the folder's list of changes: everything before it
\* has been seen.  0 is None.
NoSource == [status |-> "ABSENT", cursor |-> 0, pending |-> 0]
NoDoc == <<0, 0>>
NoRun == [status |-> "ABSENT", total |-> 0, indexed |-> 0, failed |-> 0, summary |-> {}]

VARIABLES
    feed,      \* the file of each change of the folder
    source,    \* the row of the data source
    runs,      \* the row of the run that each sync created
    docs,      \* the documents attached: the call and the change of each
    open,      \* those whose ingestion has not ended
    call,      \* per call: where it is, and what it has loaded
    missed,    \* changes between a baseline's listing and its token
    raced,     \* a call saved the data source over another's SYNCING
    twice,     \* runs in which a file was counted twice
    abandoned, \* a call was killed, or failed where nothing is caught
    removed,   \* the data source was deleted
    torn,      \* runs whose sync has saved the data source but not the run
    early,     \* a retry read a run, or promoted a cursor past a run, whose sync had not
               \* saved its failures
    shadowed,  \* a failure was dropped for that of another file with its name
    faults     \* how much of the bound is used

lasting == <<torn, early, shadowed>>
history == <<missed, raced, twice, abandoned, removed, lasting>>
vars == <<feed, source, runs, docs, open, call, history, faults>>

Fault == faults < MaxFaults /\ faults' = faults + 1
-----------------------------------------------------------------------------
(* DataSourceRun: what each operation makes of a run. *)

\* _check_completion.
Checked(run) ==
    [run EXCEPT !.status =
        IF run.indexed + run.failed < run.total THEN @
        ELSE IF run.failed = 0 THEN "COMPLETED"
        ELSE IF run.indexed > 0 THEN "PARTIALLY_FAILED" ELSE "FAILED"]

\* The file_name of a failure: before a document exists Path(item.name).name, then, for
\* want of a name in the metadata, the document's id.
Name(item, doc) == IF doc = NoDoc THEN <<"file", Base[feed[item]]>> ELSE <<"doc", doc>>
Failure(item, doc) == [item |-> item, doc |-> doc, name |-> Name(item, doc)]

RecordFailed(run, f) ==
    Checked([run EXCEPT !.failed = @ + 1, !.summary = @ \cup {f}])

\* resolve_item_success: every failure of that name goes.
ResolveSuccess(run, name) ==
    LET left == {f \in run.summary : f.name # name} IN
    Checked([run EXCEPT !.summary = left, !.failed = Cardinality(left),
                        !.indexed = @ + 1])

\* Mutant: the last file but one completes the run.
Completes_Early(run) == run.indexed + run.failed + 2 >= run.total
\* The UPDATEs of the repository, which leave a finished run alone.
Completes(run) == run.total > 0 /\ run.indexed + run.failed + 1 >= run.total
CountIndexed(run) ==
    IF run.status \in Terminal \cup {"ABSENT"} THEN run
    ELSE [run EXCEPT !.indexed = @ + 1,
            !.status = IF ~Completes(run) THEN @
                       ELSE IF run.failed > 0 THEN "PARTIALLY_FAILED" ELSE "COMPLETED"]
CountFailed(run, f) ==
    IF run.status \in Terminal \cup {"ABSENT"} THEN run
    ELSE [run EXCEPT !.failed = @ + 1, !.summary = @ \cup {f},
            !.status = IF ~Completes(run) THEN @
                       ELSE IF run.indexed > 0 THEN "PARTIALLY_FAILED" ELSE "FAILED"]
-----------------------------------------------------------------------------
(* The start of a call. *)

Idle == [at |-> "idle", kind |-> "sync", run |-> 1, source |-> NoSource, copy |-> NoRun,
         todo |-> {}, listed |-> 0, next |-> 0]
At(c, place) == call[c].at = place
\* The call returns or dies: what it had loaded is gone.
End(c) == call' = [call EXCEPT ![c] = [Idle EXCEPT !.at = "done", !.run = call[c].run]]

\* execute, up to the checks that refuse the call.  Calls are numbered in the
\* order in which they load; a sync's run has its number.
SyncLoad(c) ==
    /\ At(c, "idle") /\ \A b \in Calls : b < c => ~At(b, "idle")
    /\ source.status \notin {"ABSENT", "DISABLED", "SYNCING"}
    /\ call' = [call EXCEPT ![c] =
          [Idle EXCEPT !.at = "start", !.run = c, !.source = source]]
    /\ UNCHANGED <<feed, source, runs, docs, open, history, faults>>

\* Mutant: retries do not look at the status.
Refuses_Nothing == FALSE
Refuses == source.status = "SYNCING"

RetryLoad(c, r) ==
    /\ At(c, "idle") /\ \A b \in Calls : b < c => ~At(b, "idle")
    /\ source.status # "ABSENT" /\ ~Refuses
    /\ runs[r].status # "ABSENT" /\ r # c
    /\ call' = [call EXCEPT ![c] =
          [Idle EXCEPT !.at = "loadrun", !.kind = "retry", !.run = r, !.source = source]]
    /\ UNCHANGED <<feed, source, runs, docs, open, history, faults>>

\* The sync of the run is at work, or died before it had saved the failures it found.
Unsaved(r) == ~At(r, "done") \/ r \in torn

\* The run is read after the data source; without failures there is nothing to do.
RetryLoadRun(c) ==
    LET run == runs[call[c].run] IN
    /\ At(c, "loadrun")
    /\ IF run.summary = {}
         THEN End(c)
         ELSE call' = [call EXCEPT ![c].at = "start", ![c].copy = run,
                                   ![c].todo = run.summary]
    /\ early' = (early \/ Unsaved(call[c].run))
    /\ UNCHANGED <<feed, source, runs, docs, open, missed, raced, twice, abandoned, removed,
                   torn, shadowed, faults>>

\* start_sync and save: the row is replaced whatever became of it.
Start(c) ==
    LET started == [call[c].source EXCEPT !.status = "SYNCING"] IN
    /\ At(c, "start")
    /\ source' = started
    /\ raced' = (raced \/ (source.status = "SYNCING" /\ call[c].source.status # "SYNCING"))
    /\ call' = [call EXCEPT ![c].at = IF call[c].kind = "sync" THEN "create" ELSE "mark",
                            ![c].source = started]
    /\ UNCHANGED <<feed, runs, docs, open, missed, twice, abandoned, removed, lasting, faults>>
-----------------------------------------------------------------------------
(* SyncDataSourceUseCase.  A run can be saved only while its data source exists. *)

SaveRun(r, run) == source.status # "ABSENT" /\ runs' = [runs EXCEPT ![r] = run]

CreateRun(c) ==
    /\ At(c, "create")
    /\ SaveRun(c, [NoRun EXCEPT !.status = "EXTRACTING"])
    /\ call' = [call EXCEPT ![c].at = "fetch", ![c].copy = runs'[c]]
    /\ UNCHANGED <<feed, source, docs, open, history, faults>>

LatestChanges == {p \in DOMAIN feed : \A q \in DOMAIN feed : q > p => feed[q] # feed[p]}

\* _execute_delta_sync: files whose parent is the folder itself.
Delta(cursor) == {p \in LatestChanges : p >= cursor /\ feed[p] \notin Nested}
FetchDelta(c) ==
    /\ At(c, "fetch") /\ call[c].source.cursor # 0
    /\ call' = [call EXCEPT ![c].at = "ingest", ![c].todo = Delta(call[c].source.cursor),
                            ![c].next = Len(feed) + 1]
    /\ UNCHANGED <<feed, source, runs, docs, open, history, faults>>

\* _execute_baseline_discovery lists the folder with its subfolders ...
ListFolder(c) ==
    /\ At(c, "fetch") /\ call[c].source.cursor = 0
    /\ call' = [call EXCEPT ![c].at = "token", ![c].todo = LatestChanges,
                            ![c].listed = Len(feed)]
    /\ UNCHANGED <<feed, source, runs, docs, open, history, faults>>

\* ... and then asks for the token of the next delta.
GetStartPageToken(c) ==
    /\ At(c, "token")
    /\ call' = [call EXCEPT ![c].at = "ingest", ![c].listed = 0,
                            ![c].next = Len(feed) + 1]
    /\ missed' = missed \cup (call[c].listed + 1 .. Len(feed))
    /\ UNCHANGED <<feed, source, runs, docs, open, raced, twice, abandoned, removed, lasting, faults>>

\* mark_ingesting and save.
MarkIngesting(c) ==
    LET n == Cardinality(call[c].todo)
        run == [call[c].copy EXCEPT
                  !.total = n, !.status = IF n = 0 THEN "COMPLETED" ELSE "INGESTING"] IN
    /\ At(c, "ingest")
    /\ SaveRun(c, run)
    /\ call' = [call EXCEPT ![c].at = "items", ![c].copy = run]
    /\ UNCHANGED <<feed, source, docs, open, history, faults>>

\* Mutant: a document is in flight that was not recorded.
AttachDoc_Unrecorded(c, item) == docs' = docs /\ open' = open \cup {<<c, item>>}
AttachDoc(c, item) == docs' = docs \cup {<<c, item>>} /\ open' = open \cup {<<c, item>>}
DocRun(d) == call[d[1]].run

\* _process_item: two at a time; as they share only the local run, in any order.
\* Downloads and attaches that are tried again count once.  The shortcut for a version
\* that is attached already never applies: it looks for the version in the metadata of the
\* base's documents, and the repository reads none into them.
ItemAttached(c, p) ==
    /\ At(c, "items") /\ p \in call[c].todo
    /\ AttachDoc(c, p)
    /\ call' = [call EXCEPT ![c].todo = @ \ {p}]
    /\ UNCHANGED <<feed, source, runs, history, faults>>

\* Too large, not downloaded or not attached: a failure of the local run.
LocalFailure(c, p) ==
    call' = [call EXCEPT ![c].todo = @ \ {p},
                         ![c].copy = RecordFailed(@, Failure(p, NoDoc))]
ItemFails(c, p) ==
    /\ At(c, "items") /\ p \in call[c].todo
    /\ LocalFailure(c, p)
    /\ UNCHANGED <<feed, source, runs, docs, open, history, faults>>

\* attach answers Err although the document was committed.
ItemFailsAttached(c, p) ==
    /\ At(c, "items") /\ p \in call[c].todo /\ Fault
    /\ AttachDoc(c, p) /\ LocalFailure(c, p)
    /\ twice' = twice \cup {c}
    /\ UNCHANGED <<feed, source, runs, missed, raced, abandoned, removed, lasting>>

\* The failures that join a run, first come: one for each name it does not have yet.
Joining(run, local) ==
    {new \in SUBSET local :
        /\ \A f \in new : \A g \in run.summary \cup (new \ {f}) : g.name # f.name
        /\ \A f \in local : \E g \in run.summary \cup new : g.name = f.name}
Merged(run, new) ==
    IF new = {} THEN run
    ELSE Checked([run EXCEPT !.failed = @ + Cardinality(new), !.summary = @ \cup new])

\* Some failure is not listed, nor another one of its file.
Unlisted(local, summary) ==
    \E f \in local : \A g \in summary : feed[g.item] # feed[f.item] \/ g.doc # NoDoc

\* The run is read again and the local failures join it.
MergeRun(c) ==
    LET run == runs[c]  local == call[c].copy.summary IN
    /\ At(c, "items") /\ call[c].todo = {}
    /\ \E new \in Joining(run, local) :
          LET copy == IF run = NoRun THEN call[c].copy ELSE Merged(run, new) IN
          /\ call' = [call EXCEPT ![c].at = "source", ![c].copy = copy]
          /\ shadowed' = (shadowed \/ Unlisted(local, copy.summary))
    /\ UNCHANGED <<feed, source, runs, docs, open, missed, raced, twice, abandoned, removed,
                   torn, early, faults>>

\* Mutant: the cursor advances all the same.
WithCursor_Always(s, run, next) == [s EXCEPT !.cursor = next, !.pending = 0]
\* A failure keeps the cursor and leaves the new one pending.
WithCursor(s, run, next) ==
    IF run.failed > 0 THEN [s EXCEPT !.pending = next]
    ELSE [s EXCEPT !.cursor = next, !.pending = 0]
SaveSource(c) ==
    LET s == [WithCursor(call[c].source, call[c].copy, call[c].next)
                EXCEPT !.status = "IDLE"] IN
    /\ At(c, "source") /\ call[c].kind = "sync"
    /\ source' = s
    /\ call' = [call EXCEPT ![c].at = "run", ![c].source = s]
    /\ torn' = torn \cup {c}
    /\ UNCHANGED <<feed, runs, docs, open, missed, raced, twice, abandoned, removed, early,
                   shadowed, faults>>

SaveRunWhole(c) ==
    /\ At(c, "run")
    /\ SaveRun(call[c].run, call[c].copy)
    /\ torn' = torn \ {c}
    /\ End(c)
    /\ UNCHANGED <<feed, source, docs, open, missed, raced, twice, abandoned, removed, early,
                   shadowed, faults>>
-----------------------------------------------------------------------------
(* RetryFailedDataSourceItemsUseCase. *)

MarkRetrying(c) ==
    /\ At(c, "mark")
    /\ SaveRun(call[c].run, [call[c].copy EXCEPT !.status = "INGESTING"])
    /\ call' = [call EXCEPT ![c].at = "retry", ![c].copy.status = "INGESTING"]
    /\ UNCHANGED <<feed, source, docs, open, history, faults>>

Resolve(c, f) ==
    LET left == ResolveSuccess(call[c].copy, f.name) IN
    /\ call' = [call EXCEPT ![c].todo = @ \ {f}, ![c].copy = left]
    /\ shadowed' = (shadowed \/ \E g \in call[c].copy.summary \ left.summary :
                                   g.doc = NoDoc /\ feed[g.item] # feed[f.item])

\* The document exists: its reprocess was accepted, and counts as indexed.
RetryReprocessed(c, f) ==
    /\ At(c, "retry") /\ f \in call[c].todo /\ f.doc # NoDoc
    /\ open' = open \cup {f.doc}
    /\ twice' = twice \cup {call[c].run}
    /\ Resolve(c, f)
    /\ UNCHANGED <<feed, source, runs, docs, missed, raced, abandoned, removed, torn, early,
                   faults>>

\* It does not: the file is downloaded and attached again.
RetryAttached(c, f) ==
    /\ At(c, "retry") /\ f \in call[c].todo /\ f.doc = NoDoc
    /\ AttachDoc(c, f.item)
    /\ twice' = twice \cup {call[c].run}
    /\ Resolve(c, f)
    /\ UNCHANGED <<feed, source, runs, missed, raced, abandoned, removed, torn, early, faults>>

\* Neither: the failure stays on the list.
RetryItemFails(c, f) ==
    /\ At(c, "retry") /\ f \in call[c].todo
    /\ call' = [call EXCEPT ![c].todo = @ \ {f}]
    /\ UNCHANGED <<feed, source, runs, docs, open, history, faults>>

\* The pending cursor is promoted when no failure of this run is left.
Promoted(s, run) ==
    IF run.failed = 0 /\ s.pending # 0 THEN [s EXCEPT !.cursor = s.pending, !.pending = 0]
    ELSE s
RetrySaveSource(c) ==
    LET s == [Promoted(call[c].source, call[c].copy) EXCEPT !.status = "IDLE"] IN
    /\ At(c, "retry") /\ call[c].todo = {}
    /\ source' = s
    /\ call' = [call EXCEPT ![c].at = "run", ![c].source = s]
    /\ early' = (early \/ (call[c].copy.failed = 0 /\ call[c].source.pending # 0 /\ torn # {}))
    /\ UNCHANGED <<feed, runs, docs, open, missed, raced, twice, abandoned, removed, torn,
                   shadowed, faults>>
-----------------------------------------------------------------------------
(* What goes wrong, and who else writes. *)

\* Mutant: the failure is not saved.
FailedSource_Unsaved(c) == source
FailedSource(c) == [call[c].source EXCEPT !.status = "FAILED"]

\* The try block raises (the connector, a save, an event): fail_sync and save.
InTry(c) == call[c].at \in {"fetch", "token", "ingest", "items", "source", "run", "retry"}
CallRaises(c) ==
    /\ InTry(c) /\ Fault
    /\ source' = FailedSource(c)
    /\ raced' = (raced \/ (At(c, "run") /\ source.status = "SYNCING"))
    /\ End(c)
    /\ UNCHANGED <<feed, runs, docs, open, missed, twice, abandoned, removed, lasting>>

\* A kill, or an exception outside the try block: SYNCING stays.
CallAbandoned(c) ==
    /\ call[c].at \notin {"idle", "done"} /\ Fault
    /\ abandoned' = TRUE
    /\ End(c)
    /\ UNCHANGED <<feed, source, runs, docs, open, missed, raced, twice, removed, lasting>>

\* The data source was deleted: the foreign key refuses the run, inside the try
\* block or before it.
RunRefused(c) ==
    /\ source.status = "ABSENT" /\ call[c].at \in {"create", "mark", "ingest", "run"}
    /\ IF InTry(c)
         THEN source' = FailedSource(c) /\ UNCHANGED abandoned
         ELSE UNCHANGED source /\ abandoned' = TRUE
    /\ End(c)
    /\ UNCHANGED <<feed, runs, docs, open, missed, raced, twice, removed, lasting, faults>>

\* DeleteDataSourceUseCase; the foreign key takes the runs with it.
DeleteSource ==
    /\ source.status # "ABSENT" /\ Fault
    /\ removed' = TRUE
    /\ source' = NoSource
    /\ runs' = [r \in Calls |-> NoRun]
    /\ UNCHANGED <<feed, docs, open, call, missed, raced, twice, abandoned, lasting>>

\* A document is Indexed or Failed; the projector counts it in the same step.
DocIndexed(d) ==
    /\ open' = open \ {d}
    /\ runs' = [runs EXCEPT ![DocRun(d)] = CountIndexed(@)]
    /\ UNCHANGED <<feed, source, docs, call, history, faults>>
DocFails(d) ==
    /\ Fault
    /\ open' = open \ {d}
    /\ runs' = [runs EXCEPT ![DocRun(d)] = CountFailed(@, Failure(d[2], d))]
    /\ UNCHANGED <<feed, source, docs, call, history>>

\* Indexed is announced by several coroutines.
DocIndexedAgain(d) ==
    /\ Fault
    /\ runs' = [runs EXCEPT ![DocRun(d)] = CountIndexed(@)]
    /\ twice' = twice \cup {DocRun(d)}
    /\ UNCHANGED <<feed, source, docs, open, call, missed, raced, abandoned, removed, lasting>>

\* A file is added or changed in the folder.
ChangeFile(f) ==
    /\ Len(feed) < MaxChanges
    /\ feed' = Append(feed, f)
    /\ UNCHANGED <<source, runs, docs, open, call, history, faults>>
-----------------------------------------------------------------------------
Init ==
    /\ feed = <<>>
    /\ source = [NoSource EXCEPT !.status = "IDLE"]
    /\ runs = [r \in Calls |-> NoRun]
    /\ docs = {} /\ open = {}
    /\ call = [c \in Calls |-> Idle]
    /\ missed = {} /\ raced = FALSE /\ twice = {} /\ abandoned = FALSE
    /\ torn = {} /\ early = FALSE /\ shadowed = FALSE
    /\ removed = FALSE /\ faults = 0

Proceed(c) ==
    \/ RetryLoadRun(c) \/ Start(c) \/ CreateRun(c) \/ FetchDelta(c) \/ ListFolder(c)
    \/ GetStartPageToken(c) \/ MarkIngesting(c) \/ MergeRun(c) \/ SaveSource(c)
    \/ SaveRunWhole(c) \/ MarkRetrying(c) \/ RetrySaveSource(c) \/ RunRefused(c)
    \/ \E p \in DOMAIN feed : ItemAttached(c, p)
    \/ \E f \in call[c].todo : At(c, "retry") /\ (RetryReprocessed(c, f) \/ RetryAttached(c, f))

Break(c) ==
    \/ CallRaises(c) \/ CallAbandoned(c)
    \/ \E p \in DOMAIN feed : ItemFails(c, p) \/ ItemFailsAttached(c, p)
    \/ At(c, "retry") /\ \E f \in call[c].todo : RetryItemFails(c, f)

\* What the routes of the API start; each waits for its call's result.
SyncRoute(c) == SyncLoad(c)
RetryRoute(c) == \E r \in Calls : RetryLoad(c, r)
DeleteRoute == DeleteSource

Next ==
    \/ \E c \in Calls : SyncRoute(c) \/ RetryRoute(c) \/ Proceed(c) \/ Break(c)
    \/ \E d \in open : DocIndexed(d) \/ DocFails(d)
    \/ \E d \in docs \ open : DocIndexedAgain(d)
    \/ DeleteRoute
    \/ \E f \in Files : ChangeFile(f)

Spec == Init /\ [][Next]_vars

\* A call that was started goes on: its awaits return or raise.
FairSpec == Spec /\ \A c \in Calls : WF_vars(Proceed(c))
-----------------------------------------------------------------------------
(* Properties. *)

SourceRows == [status : {"ABSENT", "IDLE", "SYNCING", "FAILED"},
               cursor : 0..MaxChanges + 1, pending : 0..MaxChanges + 1]
RunRows == [status : Terminal \cup {"ABSENT", "EXTRACTING", "INGESTING"}, total : Nat,
            indexed : Nat, failed : Nat, summary : SUBSET UNION {runs[r].summary : r \in Calls}]

TypeOK ==
    /\ feed \in Seq(Files)
    /\ source \in SourceRows
    /\ runs \in [Calls -> RunRows]
    /\ docs \subseteq Calls \X (1..MaxChanges) /\ open \subseteq docs
    /\ \A c \in Calls : call[c].kind \in {"sync", "retry"} /\ call[c].run \in Calls
    /\ missed \subseteq 1..MaxChanges /\ twice \subseteq Calls
    /\ raced \in BOOLEAN /\ abandoned \in BOOLEAN /\ removed \in BOOLEAN
    /\ torn \subseteq Calls /\ early \in BOOLEAN /\ shadowed \in BOOLEAN
    /\ faults \in 0..MaxFaults

\* The cursor passes no file that was neither attached nor left on a list of failures,
\* whichever syncs and retries failed, overlapped or promoted a pending cursor.  Not
\* promised: subfolders, and changes made during a baseline.
Attached(p) == \E d \in docs : d[2] = p
Retriable(p) ==
    \/ \E r \in Calls : \E f \in runs[r].summary : f.item = p
    \/ \E c \in Calls : call[c].at = "run" /\ \E f \in call[c].copy.summary : f.item = p
CursorWaitsForFailures ==
    removed \/
    \A p \in DOMAIN feed :
        p < source.cursor /\ feed[p] \notin Nested /\ p \notin missed =>
            \E q \in DOMAIN feed :
                q >= p /\ feed[q] = feed[p] /\ (Attached(q) \/ Retriable(q))

\* A retry that reads a run before its sync has saved the failures in it overwrites them;
\* and one that promotes a pending cursor before they are saved, or after the sync was
\* killed in between, passes them.  Failures are told apart by the last part of the
\* file's name, so that one file's may hide another's.  Otherwise the cursor waits.
CursorCoversFailures == early \/ shadowed \/ CursorWaitsForFailures

\* The status excludes a second call, except for one that had loaded the data source
\* before the first saved it.  A call gives the data source back before it saves its
\* run, so "run" is not excluded.
Active == {c \in Calls : call[c].at \notin {"idle", "loadrun", "start", "run", "done"}}
ExclusiveUnlessRaced ==
    raced \/ abandoned \/ removed \/ Cardinality(Active) <= 1

\* A run ends when all its files have ended, although the projector counts in the
\* database while the sync saves its copy whole.  A file announced twice breaks it.
CompletesWithAllFiles ==
    \A r \in Calls : runs[r].status \in Terminal /\ r \notin twice =>
        /\ \A d \in open : DocRun(d) # r
        /\ At(r, "items") => call[r].todo = {}

\* A data source does not stay SYNCING: every way out of the try blocks resets it.
SyncEnds == source.status = "SYNCING" ~> (source.status # "SYNCING" \/ abandoned)
=============================================================================
