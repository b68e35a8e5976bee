# A TLA+ model of the agentic-substrate ingestion pipeline

agentic-substrate turns uploaded files into a knowledge graph: a file is
parsed to Markdown, cut into chunks, embedded, its entities extracted by an
LLM, and everything indexed in FalkorDB. The pipeline is event sourced: a
document is a stream of events in PostgreSQL, and each stage is started by the
event the stage before it appended. Extraction is spread over workers through
Redis Streams and joined again by a counter; a watchdog recovers what is left
behind; folders are synchronised, and new versions of a file replace old ones.
This directory holds TLA+ modules of all this, TLC runs on small instances,
and TLAPS proofs for every instance. Paths below are relative to the
repository.

## 1. The system

| component | state it keeps | operations | what makes it correct | module |
|---|---|---|---|---|
| Event store `src/kernel/infrastructure/postgres_event_store.py`, tables of `migrations/versions/0002_*` | `event_streams.version`, rows of `domain_events` | `append_events`, `get_events` | appends of one stream are serialisable, although the first append has no row to lock | DocumentStream |
| Event bus `src/kernel/infrastructure/in_memory_event_bus.py` | subscribers | `publish` | every committed event reaches its subscribers | DocumentStream |
| Document aggregate and repository | status, version, uncommitted events | `create`, `mark_*`, `delete`, replay | deletion is final, creation happens once | DocumentStream |
| Ingestion saga `application/sagas/document_ingestion_saga_coordinator.py` | background tasks | one handler per stage, `_record_failure_safely` | stages hand over to each other; every document settles | DocumentStream, KnowledgeGraph |
| Graph workers, Redis stream, barrier, parent checkpoints | tasks, stream, pending entries, `total`, `completed`, one file per parent | `run_once`, `process_task`, claim, increment and check | at-least-once extraction, one winner who is the last | GraphJobs |
| Read model `infrastructure/projections/knowledge_base_projector.py` | `attached_documents` | one statement per event | late events bring no deleted row back, but for re-created legacy documents | ReadModel |
| Watchdog `application/workers/ingestion_watchdog.py` | `recovery_attempt` | scan, lease, reprocess, give up | one lease per stale row, only while it is stale, bounded attempts | ReadModel |
| Data source sync, retry, runs `use_cases/sync_data_source`, `retry_failed_data_source_items`, `handlers/data_source_run_projector.py`, Google Drive connector | status, cursor, pending cursor, run counters and failures | sync, retry, delete, count | the cursor passes no failed file, runs complete with all their files, SYNCING ends | DataSourceSync |
| Rate limiter `src/kernel/infrastructure/async_token_bucket_limiter.py` | two deques, a token counter | `acquire` | what is let through in any window keeps the quota; calls repeated without asking do not count | RateLimiter |
| OCR pages `infrastructure/adapters/parallel_vlm_document_parser.py`, `qwen_synthetic_toc_extractor.py`, checkpoint storages | page queue, results, files of pages and batches | page workers, resume | all pages, none paid for twice, the right section state | OcrPages |
| Chunker `infrastructure/chunking/` | none | pure | the chunks are the text | Chunker |
| Graph store `falkordb_graph_store_adapter.py`, delete, swap `handlers/blue_green_document_swap_handler.py` | the graph of a base | store and delete queries, swap | answers name their document, one version is searchable, a deletion amid a store leaves nothing | KnowledgeGraph |
| Knowledge bases and ontology templates, their use cases and tables | streams, four tables, raw files | create, delete, attach | three records of a base agree, a base keeps its ontology | KnowledgeBases |
| API gateway `src/api_gateway/controllers` | none | routes | start the use cases above | the `*Route(s)` of these modules |
| Query, search, MCP, LLM and embedding clients, frontend | none that is shared | read | not a subject of this project (section 5) | |

**How they interact.** One uvicorn process hosts the API, the saga, one graph
worker and the watchdog; more replicas are possible and share PostgreSQL, Redis,
FalkorDB and the storage directory. A use case or a saga handler saves an
aggregate; the save commits and then publishes on the in-process bus *in the
same coroutine*; the bus awaits the projectors and the swap handler, while the
saga's own handlers are started as background tasks. `handle_document_chunked`
writes the barrier and one message per parent to Redis; workers in any process
take them; the winner of the barrier appends the last events. `Indexed` is
announced up to three times; the swap and the run counters listen to it.

**What is hard.** Long work between load and save; a delete or a reprocess in
the middle of it; publication after the commit; two Redis calls, two SQL
statements or four graph queries where one is meant; rows that are saved whole
from an older copy; events applied out of order; messages delivered twice;
orphan workers that outlive the failure of their pass; and a process that may
be killed anywhere. `PROJECT.json` lists each of these at its line, with the
property that covers it.

## 2. Modules

### DocumentStream

One document's stream and all the coroutines that write to it.

* `Writers` are coroutines, not code: any of them may run any code path (`op`).
  `pc` says where it is: `working` is everything between `get_by_id` and
  `save`, `appending` is inside the transaction after the version check,
  `publishing` is the loop of the bus, `failing` is a saga handler's except
  clause before it reloads the document.
* `version` and `status` are those of the aggregate as loaded. What the code
  path then records is a function of them (`Uncommitted`), with the DELETED
  guard of every `mark_*` and the `create` that comes first without a stream.
* `append_events` is two steps, because PostgreSQL lets others in between:
  `CheckVersion` reads the version under `FOR UPDATE` (a row that does not exist
  yet cannot be locked), `Commit` upserts the row and inserts the events, and
  `Rollback` is the unique constraint or a database error.
* `Publish` hands one event to the bus. Its failing branch drops the rest of the
  list: that is what `asyncio.gather` without `return_exceptions` does.
* `jobs` counts dispatched extractions. That a dispatch is followed by one
  consolidation is here an assumption; `GraphJobs` says when it holds.
* A `legacy` document has a row in `attached_documents` and no stream;
  `ReprocessDocumentUseCase` re-creates it.

### GraphJobs

The scatter-gather of one document: the end of `handle_document_chunked`, the
Redis stream and its pending entries, the barrier, the checkpoint files, and
`GraphJobWorker`.

* Messages are pairs of a dispatch and a parent; a second `DocumentChunked`
  event (reprocess, watchdog) resets the barrier and publishes new ones.
* A worker takes a batch and runs one coroutine per message concurrently
  (`work[c][m]`); the next batch is taken when all have returned. The places of
  a coroutine are its awaits. The increment and the read of the total are two.
* A checkpoint file is absent, torn (opened for writing and not written, or
  half overwritten by a second writer) or whole.
* `Claim` may take any pending message: the 60 seconds are abstracted, so a
  message may also be claimed from a worker that is still at work on it, at most
  `MaxSlow` times.

### ScatterGather

The abstract specification: parts are finished in any order and merged once,
after the last. `GraphJobs` implements it, faults included, until the job is
`disturbed`: a message is delivered again, the document is dispatched anew, or the
saga was cut short before its last message (`CutShort`). From then on the
specification allows anything. In the mapping (`ImplementsScatterGather`) a part is
finished when its checkpoint is whole, merged when a consolidation is stored.
Section 4 proves the safety half of it.

### ReadModel

The row of one document in `attached_documents`, its writers and the watchdogs.

* `flight` holds the events that were published and whose UPDATE has not reached
  PostgreSQL: events of different coroutines are applied in any order. What each
  UPDATE makes of the status is `Projected`, CASE by CASE.
* `run` reduces a pass over the stages to the event it published last
  (`DocumentStream` has the detail). A pass may fail, be killed, meet a deletion,
  announce Indexed again, and report progress after its failure. Attached and
  Stored come from one save, and Stored is published when Attached has been
  projected (`StoreAttached`).
* `caller` holds the watchdogs and the users' calls of the reprocess route, which
  share `ReprocessDocumentUseCase`. With a stream it appends Stored (`Reprocess`);
  a `legacy` document is a row without a `stream`: its row is read
  (`ReadLegacyRow`) and, in a later step, the document is created anew and Attached
  published a second time (`Recreate`), unless another call was first.
* A watchdog selects the row, and at any later moment takes the lease with an
  UPDATE that compares status and `updated_at`; then it reprocesses, is refused,
  marks the row FAILED after the last attempt, or raises.
* `deletion` is `DeleteDocumentUseCase`: it appends Deleted, or only publishes it
  for a document that has no stream (`DeleteLegacy`), and removes the row when the
  event has been projected (`RemoveRow`); then it answers.
* `clock` counts in units in which the threshold is `Threshold`; `leases`
  records the `updated_at` of each row that was leased.

### DataSourceSync

A data source, its runs and the calls that work on them. A call is a sequence of
places between two awaits; what it has loaded (`source`, `copy`) is a copy, and
saving replaces the row whole, as `save` does.

* The folder is a list of changes (`feed`), a cursor is a position in it; the
  baseline lists the folder and asks for its start token in a second request.
* `CountIndexed` and `CountFailed` are the UPDATEs of the run repository,
  `RecordFailed`, `ResolveSuccess` and `Checked` the methods of the entity on the
  copy, `Joining` and `Merged` the merge at the end of a sync.
* Failures are told apart and resolved by name: before a document exists the last
  part of the file's name (`Base`), which two files of different folders may share,
  afterwards the document's id. The merge drops a failure whose name is listed.
* The history variables (`raced`, `twice`, `early`, `shadowed`, `abandoned`, `missed`,
  `removed`, `torn`) name the exceptions that the code does have, so that the properties
  promise everything else. `raced`: a call saved the data source over another's
  SYNCING, after loading it too early or when its run could not be saved. `early`: a retry
  read a run, or promoted a pending cursor past a run, whose sync had not saved
  the failures it found (`Unsaved`). `shadowed`: a failure was dropped for that of
  another file with its name.

### RateLimiter, OcrPages

`RateLimiter` is `acquire`: purge, check, append under the lock, or sleep until
the oldest call has left the window. Time is relative: a call has an age. Two
histories that the limiter does not read: `granted` is what it let through in the
last window, `called` what the provider sees, which is more, since callers ask once
and call the model up to three times (`CallAgain`, and `Times` for the batches of
the table of contents). `unasked` tells that a call was made which this limiter did
not let through: a repeated one, or one of the process before.

`OcrPages` instantiates its callers with the coroutines of the page pipeline: for
each pass one for the table of contents and one per page worker. Passes share
the files, the semaphore and the limiter. A worker that raises fails its pass at
once, its siblings go on; a later pass reads their files. Files are absent, torn
or whole; `batch` holds the checkpoints of the table of contents with the
rolling section state, `Lineage` is the definition of that state from the
headings (`SyntheticDocumentToc`).

### Chunker, KnowledgeGraph

`Chunker` gives the chunker as folds over blocks and pieces of text. A piece is a
run of words that no expression of the chunker separates: it has its text, its
characters, and what it `ends` (a word, a sentence, a line, a line before a blank or
indented one, its block). `Groups` and `Units` are what `re.split`, `splitlines` and
`split` make of pieces, given the ends they cut at. A large block is cut into
sentences, else lines, else words (`Splittable`); children are cut with another
expression (`Sentences`), which leaves tables, lists and code whole. Tokens are
characters divided by `PerToken` and rounded down for each block, and what joins
blocks, or units of a large block, is not counted; both as in the code. The last
child is dropped when its *text* is that of the one before.

Approximations: the white space behind a piece is one character (between blocks it
is two, so that parents are larger still), and of a sentence that ends before a
blank line the line break is not counted.

`KnowledgeGraph` composes it with the handlers from `Parsed` on, the graph query
by query, `DeleteDocument`, the deletion of the base, and the swap. There are
two versions of one file; the new one replaces the old one. `current` names the
coroutines whose loaded aggregate is still the latest version: anything appended
removes the others, and their append is refused. The consolidation of a worker
is in the same module because its writes interleave with deletions;
`GraphJobs` has the parents in flight. A document without a parent ends at
`Extract` when a stream queue is configured: no message, no consolidation.
`removed` names the versions whose subgraph was removed, `left` those that
FalkorDB refused to remove or that were stored again, Document query and all, after
their removal.

### KnowledgeBases

The use cases on bases and templates: every statement is a step, callers
interleave. `streams` is the aggregate's history, `rows`, `documents`, `sources`
and `templates` are the four tables with their foreign keys (`Referable`, ON
DELETE CASCADE in `Purge`, SET NULL in `Unlinked`), `files` the raw files. The
link of a base to its template is by *name* (`Named`), twice: by the projector,
then by the use case. Ids are given out once (`Fresh`).

### Other files

The `MC` modules give model values, symmetry sets and small inputs; the `Proofs`
modules hold the proofs. Definitions marked "Mutant" in a comment are plausible
bugs of the code, substituted for the definition that follows them to see that a
property notices.

## 3. Runs

| run | instance | states | shows |
|---|---|---|---|
| `DocumentStream_faults` | 2 writers, with and without Redis, new or legacy document, 1 delete, 1 exception, 1 restart, 1 reprocess | 1.1 M | types; nothing after the deletion; stages are caused; a version conflict needs a rival |
| `DocumentStream_settles` | 2 writers, legacy document, fair, no fault, 1 delete, 2 reprocesses | 0.2 M | serialisable appends from the first one on; every document settles |
| `GraphJobs_faults` | 2 workers, 3 parents, batches of 2, fair, 1 exception or kill | 0.14 M | complete unless disturbed; every message is acknowledged; refinement of ScatterGather |
| `GraphJobs_redispatch` | 2 workers, 2 parents, 2 dispatches, 1 exception or kill, 1 slow claim | 2.3 M | no message lost, one winner per barrier, while the barrier is reset |
| `ReadModel_watchdog` | 2 watchdogs, 1 user, 2 passes, 2 events in flight, 2 attempts, 1 incident (kill, exception or user's request), clock to 2, with a stream or legacy | 3.2 M | one lease per stale row, only while stale, bounded attempts; deleted rows stay away, unless a legacy document was being re-created |
| `DataSourceSync_calls` | 2 calls (sync or retry), 2 files of one name of which 1 nested, 2 changes, 1 fault, fair | 0.8 M | the cursor covers failures; exclusion; runs complete with all files; SYNCING ends |
| `OcrPages_passes` | 2 pages, 2 slots, 2 tries, 2 passes, quota 2 calls and 2 tokens, 1 fault, fair | 0.7 M | what is let through keeps the quota in every window, and so do the provider's calls until one is repeated; pages complete; no page paid twice; state of a resumed table of contents; passes end |
| `KnowledgeGraph_swap` | 5 texts, 2 characters a token, parents of 4, children of 2 and 1, with and without Redis, 2 of: reprocess, delete, purge, query failure | 0.8 M | chunks are the text; answers name their document; indexed is searchable; one version searchable; a deletion between the queries of a store leaves nothing |
| `KnowledgeBases_calls` | 3 callers, 1 base, 3 templates of one name in 2 versions, 1 document, 1 source, 2 deletions, 1 call cut short | 1.9 M | stream, rows and files agree at rest; ontologies are kept |

**Bounds.** Two writers give every pairwise race of load and save, and a writer
is reused for one code path after another, so a whole ingestion, a reprocess and
a delete fit in them. One exception may strike at any await and one restart at
any state. Three parents with batches of two give one worker that interleaves with
itself while another has the rest; two parents are the smallest number where "the
last" differs from "the first", and enough for a second dispatch. The logs
stay short because each event is caused by a request. Two watchdogs race for a
lease, and two attempts make "the last attempt" differ from the first; two
passes are the original one and a recovery whose events overtake each other, and
a clock of twice the threshold lets a lease itself become stale. A user's reprocess
shares its bound with the faults: it races with the deletion and with a watchdog
that has a lease. Two calls
race over every row of a data source, since each writes rows whole (that they
exclude each other is proved for any number), and two changes give one file that
fails and one that advances the cursor; the two have one name, which is the
harder case, also for retries. Two pages with a limit of one page's
tokens per window make workers wait for each other, and the second pass resumes
what the first left. The five texts give every way in which a parent is closed,
an empty document, blocks that must be split into sentences, lines and words, a
table, repeated sentences, and headings whose tokens round down. Three callers are a
creation, a deletion and an upload, or a creation
and the two halves of a template's deletion and re-creation.

**Deadlock** is not checked: all these components are idle when their bounded
work is done.

**Fairness.** In `DocumentStream` every step of a started coroutine and every
created background task is weakly fair: the asyncio loop runs what is ready,
`FOR UPDATE` is queued by PostgreSQL, and calls return. Requests, exceptions and
restarts are not fair. In `GraphJobs` the worker loop polls for ever, so reading
and claiming are weakly fair, claiming only of messages that nobody works on;
coroutines return. In `ReadModel` only the violation run `ReadModel_stagnant`
has fairness: the watchdog's loop polls for ever, the event loop runs passes,
projections and deletions; kills are not fair, and leave a document anywhere. In
`DataSourceSync` a call that was started goes on. In `OcrPages` something that can
go on does, be it a pass, a page worker or the clock; which one is not assumed,
nor an order in which the semaphore and the limiter serve.

### Where the documentation says more than the code does

Three runs end in a counterexample; each refutes a sentence of the repository.

* `GraphJobs_lost`: the winner of the barrier fails or is killed after it was counted,
  before the consolidation; redelivered, it passes the total, and no worker is told
  it is the last (`atomic_job_barrier.py:9`, "exatamente um worker"). If a task that
  is not the last is counted twice, the total is reached early instead: this is
  why `CompleteUnlessDisturbed` carries its condition.
* `DataSourceSync_cursor`: a sync saves the data source, IDLE with a pending
  cursor, before it saves the run that lists the failed file. A retry that reads
  the run in between does not know the failure, and promotes the pending cursor
  past it, against `SPEC-resilient-data-source-sync.md:240` ("Never": advance cursors
  while items failed). A second way of the same kind: a retry that started before
  promotes the pending cursor of a later sync, of which the data source is saved and
  the run is not, or never will be because the process was killed in between. Two
  calls do not show it; the proof did.
* `ReadModel_stagnant`: the watchdog selects rows that are UPLOADED, PARSED or CHUNKED.
  A document whose process was killed before Stored was projected (PENDING_UPLOAD), in a
  recovery before Chunked (RECOVERING), or after a late progress event (PROCESSING) is
  never looked at again, against
  `SPEC-resilient-distributed-ingestion-engine.md:265` ("Zero Documentos Zumbis").

Further differences that the modules contain, as exceptions of properties or as
steps, without a run of their own. Each of the first five breaks a sentence of the
documents in `src/`, and is why the property named with it promises less:

* Failures of equally named files: of two failed files of one name the run lists one, a
  retry resolves it, and the cursor passes the other, against
  `SPEC-resilient-data-source-sync.md:240`. It is `shadowed` in `CursorCoversFailures`,
  which excludes every way past a failed file but this one and the early retry above
  (`early`), as long as the data source is not deleted. Not counted are changes in
  nested folders, which only a baseline lists, and those `missed` between the listing of the
  baseline and its start token.
* The row of a re-created legacy document: a reprocess re-creates the document, a
  deletion appends Deleted, removes the row and answers, and only then the Attached of
  the re-creation is projected, by an INSERT. The row of a deleted document is back,
  against `SPEC-cascade-deletion-kbs-documents-and-ontologies.md:163`. It is
  `Recreating` in `DeletedRowStaysAway`.
* Repeated model calls: page workers and the table of contents ask the limiter once and
  call the model up to three times, as the graph extractor does, so that the provider
  sees more calls in a window than the quota.
  `SPEC-pydantic-ai-graph-extractor-and-rate-limiter.md:203` wants an `acquire` before
  every call, and line 214 no violation. It is `unasked` in `QuotaRespected`, which
  bounds what the limiter lets through without condition, and what the provider sees
  until such a call.
* Sizes of chunks: the tokens of blocks are added up, each rounded down, and the white
  space that joins blocks or the parts of a large block is not counted, so a parent
  exceeds the limit that `SPEC-markdown-structure-tolerant-chunker.md:138` promises for
  all; a table is one child, however many rows it has, against line 139.
  `ChunksAreTheText` bounds no parent, and a child only by one sentence.
* A store that begins after the deletion: `handle_document_chunked` has loaded the
  document when it is deleted; the subgraph that the deletion removes is not there yet,
  and then all of it is stored and found by searches, against
  `SPEC-cascade-deletion-kbs-documents-and-ontologies.md:163`. It is `left` in
  `DeletedIsGone`, which says what remains: when the deletion comes between the four
  queries, the ones that follow bring nothing back, because each of them matches what
  the one before has stored.
* `Publish` in `DocumentStream`: an exception of a subscriber between commit and
  publication leaves a document that no handler will take up, without a recorded
  failure; the watchdog finds it later.
* A kill while a checkpoint is written leaves a file that counts as done, of a
  parent (its message is acknowledged, every consolidation raises) or of a page
  (its truncated text is used: `spoiled`).
* The workers never link parents to entities; only the saga's own extraction
  calls `store_parent_mentions`. Hybrid search by shared concepts works for
  documents that were extracted without Redis.
* When a heading does not fit, the open parent is flushed with the path of that
  heading, although its text comes before it. Oversized tables and code blocks are split.
* `DeleteDocument` removes files and subgraph before its optimistic save; when
  the save is refused, a live document has lost them. In the swap the refusal
  reaches the new document's publisher. A worker announces Indexed also for a
  document that was deleted meanwhile, and the swap then deletes the old version,
  too. Entities and relations belong to the base: no deletion of a document removes
  them, and a worker stores them also after it.
* A base created with an inline ontology whose name is no template's is read back
  without an ontology, and its documents fail at `handle_document_chunked`. The
  link by name also makes a template of a second version impossible (the name is
  unique), and a template counted as unused may be linked before it is deleted.
* A base's creation that is overtaken by its deletion writes the row again; an
  upload during the deletion leaves its file.
* The idempotency gate of the sync never opens: no document read from
  PostgreSQL carries the metadata it looks at.

The single defences of `append_events` are redundant: without `FOR UPDATE`, or
without the version check, the unique constraint still refuses the second
writer; without the constraint the first append is unprotected. This is why the
mutant of the three serialisability properties drops the constraint.

## 4. Proofs

The theorems hold for every number of writers, workers, watchdogs, parents,
dispatches, passes, pages, quotas, texts, bases, templates, calls, files, users,
exceptions and restarts. They assume what the modules declare: `NoWriter` is no
writer; bounds are naturals, and positive where the code divides work by them
(`BatchSize`, `Threshold`, `MaxAttempts`, `MaxRuns`, the sizes of chunks and tokens,
slots and quotas); flags are Boolean; nested files are files, and every file has a
name (`BaseAssumption`); a text is a list of blocks that are not empty, whose pieces
have sizes and end something, the last piece of a block a sentence or the block
(`TextsAssumption`); watchdogs are not users, and the callers of the limiter are the
workers of the passes (`CallersAssumption`, in each of the two modules); a UUID is
none of the marks for NULL, an inline ontology and a missing row (`IdsAssumption`).

Every safety invariant and action property that a passing run checks is the
statement of a theorem.

**DocumentStreamProofs.** None of the properties is inductive by itself, because
a writer acts on what it loaded. `IInv` adds the facts that tie a writer's
variables to the log:

* `LoadedIsPast`: what a working writer holds is the status at a version the
  log had;
* `LockIsHeld`: a writer that passed the check of an existing row holds its lock,
  so at most one is inside the transaction;
* `AppendersChecked`: a writer in the transaction either checked the current
  version, or checked 0 when there was no row;
* `OutboxIsLogged`: what waits to be published is in the log.

A commit that passes the unique constraint then extends exactly the log its
writer loaded. From this follow `VersionIsLength`, `NothingLost` (the action
property `NoLostUpdate`), `DeletionIsFinal` (a writer that loaded DELETED has
nothing to append) and `CreationIsOnce`.

Two ways of counting what goes on with a document give the rest. For
`StagesCaused`, an occurrence of a trigger is waiting (an outbox or a task),
at work, dispatched, or used up by the event the stage ended with (`Caused`); an
event is in one outbox or in one task (`PublishedOnce`), so a step moves it once.
For `StagesAreSerial`, while there was no rival only one such thing goes on
at all (`OneAtATime`), and the writer at work has loaded the latest version.

**GraphJobsProofs.** Four layers, each resting on those before.

* `AtLeastOnce` (`NothingLost`): a published message is on the stream or pending
  until its parent has a file. The strengthening `FileExists` says that a
  coroutine past the extraction has a file behind it, so that an acknowledgement
  removes only messages whose parent has one; `WorkTyped` says that coroutines
  stand at known places.
* `OneWinner` is a counting argument. A task that drew the last number is going
  to win (`Due`); while a barrier is open and its last number was not drawn there
  is one `Chance`. `WinInv`: the winners, the tasks due to win and the chance are
  no more than the dispatches. Drawing the last number trades the chance for a
  due task, reading the total trades the due task for a winner, and only a
  dispatch adds to either side.
* `CompleteWhenCalm`. While nothing was delivered or dispatched twice, a message
  is on the stream once or with one worker (`Once`), and each place of a task
  says whether its file is absent, torn or whole (`AllStand`). `completed` then is
  at most the number of parents that have a whole file and no task that will
  still count them (`Counted`), so drawing the last number means that `Counted` is
  all of them.
* `RefinesScatterGather`: `Spec => Abstract!Spec`. `InitBarrier` is `Start`,
  `WriteCheckpoint` is `Finish`, `Store` is `Merge`; every step that disturbs the
  extraction is `Disturb`, and every other one, exceptions and kills included,
  changes nothing of the abstract state. A disturbance is never undone
  (`DisturbanceStays`), so a step that ends calm began calm. `MergeInv` adds that at
  most one task is between its victory and the store, and that before it nothing is
  indexed: it is the one winner that `WinInv` counts.

**ReadModelProofs.** The lease is safe because `updated_at` never goes back and
a lease writes it. `IInv` adds:

* `SelectedWasStale`: what a watchdog selected was in a recoverable status, stale
  by the clock and had attempts left; the row now is gone, equal to what was
  selected, or has a later `updated_at`, and then the conditional UPDATE fails;
* `LeasesAreOld`: the leased times increase, and lie before the clock and before
  the row's `updated_at`;
* `AttachedComesFirst`: of a document that had a stream from the start, Attached
  is published by the first pass alone, and while it is in flight there is no row and
  nothing was deleted. Of a legacy document this is false: its second Attached is
  what `Recreating` exempts. The deletion of its base is final, by the foreign key.

From this follow `OneLease`, `AttemptsAreBounded`, and the action properties
`StaleWhenLeased` and `DeletedStaysAway`.

**KnowledgeBasesProofs.** The types are the hard part: every call holds ids it
read in earlier statements, and the foreign keys only hold if what a call stands
on (`CreationStands`, `DeletionStands`, `AttachmentStands`) is still there. With
`TypeInv`:

* `RowIsDue` and `FilesAreDue`: a base whose stream and row differ has a creation
  or a deletion under way that will make them agree, and a file without a row an
  attachment; `SettledBasesAgree` says what remains when there is none;
* `OntologyInv`: the template a creation was given exists, is the one its name
  finds and is counted as used, except where `raced` names the base.

**DataSourceSyncProofs.** Rows are saved whole from copies, so each invariant
speaks of the rows and of the copies that calls hold.

* `CallsExclude`. `LoadedWhenFree` says that a call about to write SYNCING has
  loaded the data source while it was free, `Guarded` that there is one active
  call at most, and SYNCING in the row while there is. The proof needed `raced` to
  cover one more write than two calls show: a call that fails while saving its
  run writes FAILED over the SYNCING of another, and a third call may then start.
* `TypeCorrect`, from `TypesInv` (rows, copies and places) and `HistoryInv` (what
  the history variables say of them).
* `CursorWaits` (`CursorCoversFailures`). `Covered` says of a cursor that for
  each change before it, that change or a later one of the same file became a
  document or is a failure that a run lists (`Firm`); a pending cursor may also
  rest on failures that a sync is about to save (`Safe`).
  `SyncRow` and `RetryRow` say at each place of a call what its copies cover;
  a promotion then moves a cursor that is covered already. `CalmInv` is this,
  unless `early`, `shadowed` or `removed` names the exception.
* `RunsEndWhole` (`CompletesWithAllFiles`) counts. In every run, and every copy of
  one that a call holds, the files indexed, those failed and those whose documents
  are still open fit into the total (`Fits`), and an ended run has none open; but
  for runs in which an event was counted twice. The UPDATEs of the projector move
  a file from one of these to another.

**OcrPagesProofs.** `OcrInv` has, besides the types:

* `LimiterInv`: the limiter's events are the calls it let through, but for those that
  have left the window and stand at the front; `current` is the sum of their
  tokens; until a call is `unasked`, the calls that the provider sees are the same
  ones. Hence `QuotaIsRespected`, for any callers.
* `PlacesInv`: workers have pages that their pass has handed out, and no two of a
  pass the same.
* `BatchInv`: the saved batches of the table of contents are those of the first
  pages, and the state saved with each is the lineage of its page
  (`StateIsAlwaysLineage`), whichever pass wrote it.
* `FileInv` and `AnswersInv`, while passes do not overlap (`Alone`): a torn file is
  being written or was left by an interrupted write, and a page that was answered
  has a file or a worker about to open one: hence `NoTokensWasted`.
* `PagesInv`, under the same condition: what a pass has handed out is collected
  or with a worker of it: hence `PagesAreComplete`.

**ChunkerProofs, KnowledgeGraphProofs.** The chunker is folds. That a fold exists
(`FoldExists`) is shown by induction with a set of numbers in place of a
predicate; its values along the indices are a walk (`PackWalks`, `CutWalks` and
so on), and what is true of the chunker's loops is an invariant of their walks:

* `GroupsWhole`, `UnitsWhole`, `PartsWhole`: what is cut out of pieces, at whatever ends,
  is those pieces in a row, and nothing of it is empty;
* `Packed`: after each block, the text so far is that of the parents and of the
  open blocks. `PutBlockPacks` has a lemma for each way to take a block: in parts
  (`StackPacks`) or with others (`PutPacks`), after a flush (`FlushPacks`) or not;
* `CutWell`: after each sentence, the children are runs of the parent's sentences, each
  going on from the one before (`Line`), the last one ends here, and its length
  is never counted too small. Sentences carry their place, so that a child is
  found by its first one although a text may say the same twice. `ChildrenCover`
  adds the end: all sentences are covered, or the rest is dropped because its last
  run says what the child before says.

No bound on parents is proved, since there is none. `ChunksWhole` puts these together,
for any blocks and sizes, and `ChunksAreWhole` (`ChunksAreTheText`) says it of every
chunks file. `KnowledgeGraph`'s `IInv` says
of every document in the graph

* `CutInv`: what a chunks file and a store have are the chunks of its text;
* `ShapeInv`: each node hangs on the one above it, also while queries remove them
  one kind at a time: hence `AnswersAreWhole`;
* `StageInv`: at each place of the handlers, what the queries before it have
  stored is there, unless a deletion, a reprocess or a failure came between
  (`Disturbed`): hence `IndexedIsFound`;
* `RemovalInv`: what was removed, and not stored again from its Document query on, is
  not in the graph, and only a coroutine that removed the subgraph, or left it, marks
  a document as deleted: hence `DeletedIsGoneForGood`, with the exceptions in `left`;
* `SwapInv`: while nobody else deletes, the new version is searchable whole from
  the moment the swap sets out to remove the old one: hence `OneVersionIsFound`.

**Model-checked only.** Liveness and `ENABLED` are out of this prover's reach:
`Settles`, `AllAcknowledged`, `SyncEnds` and `ParseEnds`, and the fairness half of
`ImplementsScatterGather`.

## 5. Not modelled

* Contents of events, files and graphs; embeddings and LLM calls other than as
  steps that return or raise; Markdown normalisation, PDF rendering, audio.
* In `GraphJobs`: the 24-hour expiry of the barrier, several documents on one
  stream (a batch may mix documents, which only delays them), a reprocess that
  changes the number of parents, and a document without any text, for which no
  message is published (`KnowledgeGraph` has it).
* In `Chunker`: the exact white space between pieces (section 2), and what
  `AtomicBlockLexer` makes of a text; the texts are given as its blocks.
* Overlapping ingestions of one document on the graph: `KnowledgeGraph` has one
  at a time per version, `DocumentStream` has those that overlap.
* Paging, export formats and HTTP retries of the Google Drive connector; the
  retrying transport of the kernel, which no client is built with.
* Ranking, token budgets, global and local search, the MCP tools: they read.
* The list queues and the OCR worker: nothing is published to them.
* The wiring in `container.py`, error codes of the API, frontend and scripts.

## 6. Plan

Done: the modules of section 2, and the proofs of section 4. What would come next,
in order of importance:

1. The number of parents as a variable of `GraphJobs`, which changes between
   dispatches and may be zero.
2. An abstract specification of the read model: its status is one that the
   stream had, or that the watchdog wrote.
