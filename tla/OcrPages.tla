----------------------------- MODULE OcrPages -----------------------------
(***************************************************************************)
(* ParallelVlmDocumentParser on one PDF: the table of contents batch by    *)
(* batch, then the pages by a pool of workers, each page into a checkpoint *)
(* file that a later pass over the same document takes instead of asking   *)
(* the vision model again.                                                 *)
(*                                                                         *)
(* A pass is a call of parse_to_markdown by handle_document_stored.  When  *)
(* one of its workers raises, the pass fails at once; its other workers    *)
(* are not cancelled and go on with the pages that are left.  Passes share *)
(* the files, the semaphore and the rate limiter.                          *)
(***************************************************************************)
EXTENDS RateLimiter

CONSTANTS
    Total,     \* pages of the document
    Slots,     \* max_concurrency
    MaxTries,  \* max_retries
    Headings,  \* the documents: what heading begins each page, "none", "##" or "###"
    MaxPasses, \* bound on the passes
    MaxFaults  \* bound on the exceptions raised and on the kills of the process

ASSUME SizeAssumption == {Total, Slots, MaxTries} \subseteq Nat \ {0}
ASSUME HeadingsAssumption == Headings \subseteq [1..Total -> {"none", "##", "###"}]
ASSUME BoundsAssumption == {MaxPasses, MaxFaults} \subseteq Nat
ASSUME CallersAssumption == Callers = (1..MaxPasses) \X (0..Slots)

Pages == 1..Total
Passes == 1..MaxPasses
Workers == {w \in Callers : w[2] # 0 /\ w[2] <= Total}

\* What the limiter is asked for, in units of 500 tokens; a batch has one page.
PageEstimate == 3
BatchEstimate == 1

NoSection == [section |-> 0, subsection |-> 0]
NoResults == [p \in Pages |-> "missing"]
NoBatch == [level |-> "absent", state |-> NoSection]

VARIABLES
    file,      \* checkpoint of each page: "absent", "torn" (empty or cut off), "whole"
    heading,   \* the document
    batch,     \* checkpoint of each batch of the table of contents
    toc,       \* the file of the whole table exists
    pass,      \* per pass: where it is, its next page or batch, its TocBatchState
    worker,    \* per worker: where it is, its page, its failed tries
    pages,     \* page_results of each pass
    answers,   \* answers of the model for each page
    spoiled,   \* pages whose answer was not saved to the end
    overlapped,\* a pass began while workers of another were at work
    faults     \* how much of the bound is used

contents == <<heading, batch, toc>>
history == <<answers, spoiled, overlapped>>
vars == <<limiter, file, contents, pass, worker, pages, history, faults>>

Fault == faults < MaxFaults /\ faults' = faults + 1
Failing(n) == faults + n <= MaxFaults /\ faults' = faults + n
-----------------------------------------------------------------------------
(* A pass. *)

PassAt(r, place) == pass[r].at = place
Step(r, place) == pass' = [pass EXCEPT ![r].at = place]
Off == [at |-> "off", page |-> 0, tries |-> 0]
AtWork(w) == worker[w].at # "off"
Active == {"start", "cached", "toc", "ocr"}

\* handle_document_stored, for the first time or after a reprocess.
Begin(r) ==
    /\ PassAt(r, "idle") /\ \A s \in Passes : s < r => ~PassAt(s, "idle")
    /\ Step(r, "start")
    /\ overlapped' = (overlapped \/ (\E w \in Workers : AtWork(w))
                                 \/ (\E s \in Passes : pass[s].at \in Active))
    /\ UNCHANGED <<limiter, file, contents, worker, pages, answers, spoiled, faults>>

\* get_completed_pages counts the files, whatever is in them.
LookUp(r) ==
    /\ PassAt(r, "start")
    /\ pass' = [pass EXCEPT ![r].next = 1,
          ![r].at = IF \A p \in Pages : file[p] # "absent" THEN "cached" ELSE "toc"]
    /\ UNCHANGED <<limiter, file, contents, worker, pages, history, faults>>

\* What get_page returns for a file that exists.
Content(p) == IF file[p] = "whole" THEN "whole" ELSE "blank"

ReadCached(r) ==
    LET p == pass[r].next IN
    /\ PassAt(r, "cached")
    /\ pages' = [pages EXCEPT ![r][p] = Content(p)]
    /\ IF p = Total THEN Step(r, "parsed") ELSE pass' = [pass EXCEPT ![r].next = p + 1]
    /\ UNCHANGED <<limiter, file, contents, worker, history, faults>>

\* The queue is filled and the workers are created.
StartWorkers(r, place) ==
    /\ pass' = [pass EXCEPT ![r] = [at |-> place, next |-> 1, state |-> NoSection]]
    /\ worker' = [w \in Workers |->
                    IF w[1] = r THEN [Off EXCEPT !.at = "take"] ELSE worker[w]]

\* Mutant: the results are taken when the first worker returns.
Join_First(r) ==
    /\ PassAt(r, "ocr") /\ \E w \in Workers : w[1] = r /\ ~AtWork(w)
    /\ Step(r, "parsed")
    /\ UNCHANGED <<limiter, file, contents, worker, pages, history, faults>>
\* gather returns when the last worker has.
Join(r) ==
    /\ PassAt(r, "ocr") /\ \A w \in Workers : w[1] = r => ~AtWork(w)
    /\ Step(r, "parsed")
    /\ UNCHANGED <<limiter, file, contents, worker, pages, history, faults>>

\* A progress event, the storage or the renderer raises; no worker exists yet.
PassRaises(r) ==
    /\ pass[r].at \in {"start", "cached"} /\ Fault
    /\ Step(r, "failed")
    /\ UNCHANGED <<limiter, file, contents, worker, pages, history>>
-----------------------------------------------------------------------------
(* QwenSyntheticTocExtractor. *)

\* Mutant: the state that was saved with the batch is not taken over.
Restored_Not(r) == pass[r].state
Restored(r) == batch[pass[r].next].state

\* The state that is handed to the next batch; other levels leave it alone.
Updated(state, level, b) ==
    CASE level = "##" -> [section |-> b, subsection |-> 0]
      [] level = "###" -> [state EXCEPT !.subsection = b]
      [] OTHER -> state

\* After the last batch the table is saved and the pages follow.
NextBatch(r, state) ==
    IF pass[r].next = Total
      THEN toc' = TRUE /\ StartWorkers(r, "ocr")
      ELSE /\ pass' = [pass EXCEPT ![r].next = @ + 1, ![r].state = state]
           /\ UNCHANGED <<toc, worker>>

TocCached(r) ==
    /\ PassAt(r, "toc") /\ toc
    /\ StartWorkers(r, "ocr")
    /\ UNCHANGED <<limiter, file, contents, pages, history, faults>>

BatchCached(r) ==
    /\ PassAt(r, "toc") /\ batch[pass[r].next].level \notin {"absent", "torn"}
    /\ pass[r].next = 1 => ~toc
    /\ NextBatch(r, Restored(r))
    /\ UNCHANGED <<limiter, file, heading, batch, pages, history, faults>>

\* The limiter, the model at the last of n tries, and the checkpoint.
Untold(r) ==
    /\ PassAt(r, "toc") /\ batch[pass[r].next].level = "absent"
    /\ pass[r].next = 1 => ~toc
Asked(r, n) == Admit(<<r, 0>>, BatchEstimate, n)
BatchAnswered(r) ==
    LET b == pass[r].next
        level == heading[b]
        state == Updated(pass[r].state, level, b) IN
    /\ Untold(r)
    /\ \E n \in 1..MaxTries : Asked(r, n) /\ Failing(n - 1)
    /\ batch' = [batch EXCEPT ![b] = [level |-> level, state |-> state]]
    /\ NextBatch(r, state)
    /\ UNCHANGED <<file, heading, pages, history>>
BatchWaits(r) ==
    /\ Untold(r)
    /\ Wait(<<r, 0>>, BatchEstimate)
    /\ UNCHANGED <<file, contents, pass, worker, pages, history, faults>>

\* A batch that cannot be read, answered or saved: the pages do without the table.
\* The checkpoint is torn, the renderer or a progress event raises ...
TocFails(r) ==
    /\ PassAt(r, "toc")
    /\ IF batch[pass[r].next].level = "torn" THEN UNCHANGED faults ELSE Fault
    /\ StartWorkers(r, "ocr")
    /\ UNCHANGED <<limiter, file, heading, batch, toc, pages, history>>
\* ... or, after n tries, the model or the save.
BatchFails(r) ==
    /\ Untold(r)
    /\ \E n \in 1..MaxTries : Asked(r, n) /\ Failing(n)
    /\ \/ UNCHANGED batch
       \/ batch' = [batch EXCEPT ![pass[r].next].level = "torn"]
    /\ StartWorkers(r, "ocr")
    /\ UNCHANGED <<file, heading, toc, pages, history>>
-----------------------------------------------------------------------------
(* A worker, from one await to the next. *)

At(w, place) == worker[w].at = place
Goto(w, place) == worker' = [worker EXCEPT ![w].at = place]
Page(w) == worker[w].page

\* Mutant: the checkpoint is not looked for.
HasPage_Never(p) == FALSE
HasPage(p) == file[p] # "absent"

\* The page before is reported, the next one taken from the queue, its file looked
\* for.  An orphan finds its queue as its pass left it.
Take(w) ==
    LET p == pass[w[1]].next IN
    /\ At(w, "take")
    /\ IF p > Total
         THEN worker' = [worker EXCEPT ![w] = Off] /\ UNCHANGED pass
         ELSE /\ worker' = [worker EXCEPT ![w] =
                   [Off EXCEPT !.at = IF HasPage(p) THEN "read" ELSE "enter", !.page = p]]
              /\ pass' = [pass EXCEPT ![w[1]].next = p + 1]
    /\ UNCHANGED <<limiter, file, contents, pages, history, faults>>

\* Nobody reads the results of a pass that failed.
Done(w, content) ==
    /\ pages' = IF PassAt(w[1], "ocr") THEN [pages EXCEPT ![w[1]][Page(w)] = content] ELSE pages
    /\ worker' = [worker EXCEPT ![w] = [Off EXCEPT !.at = "take"]]

Read(w) ==
    /\ At(w, "read")
    /\ Done(w, Content(Page(w)))
    /\ UNCHANGED <<limiter, file, contents, pass, history, faults>>

\* The semaphore of the parser, which all passes share.
Holding == {w \in Workers : worker[w].at \in {"limit", "call", "open", "write"}}
Enter(w) ==
    /\ At(w, "enter") /\ Cardinality(Holding) < Slots
    /\ Goto(w, "limit")
    /\ UNCHANGED <<limiter, file, contents, pass, pages, history, faults>>

\* The limiter is asked once, before the tries.
Admitted(w) ==
    /\ At(w, "limit") /\ Admit(w, PageEstimate, 1) /\ Goto(w, "call")
    /\ UNCHANGED <<file, contents, pass, pages, history, faults>>
Waits(w) ==
    /\ At(w, "limit") /\ Wait(w, PageEstimate)
    /\ UNCHANGED <<file, contents, pass, worker, pages, history, faults>>

Answered(w) ==
    /\ At(w, "call") /\ Goto(w, "open")
    /\ answers' = [answers EXCEPT ![Page(w)] = @ + 1]
    /\ UNCHANGED <<limiter, file, contents, pass, pages, spoiled, overlapped, faults>>

\* save_page opens the file, which empties it, and writes.
OpenPage(w) ==
    /\ At(w, "open") /\ Goto(w, "write")
    /\ file' = [file EXCEPT ![Page(w)] = "torn"]
    /\ UNCHANGED <<limiter, contents, pass, pages, history, faults>>

\* Two answers differ in length: what another worker wrote since may stick out.
WritePage(w) ==
    /\ At(w, "write")
    /\ \E s \in IF file[Page(w)] = "whole" THEN {"whole", "torn"} ELSE {"whole"} :
          file' = [file EXCEPT ![Page(w)] = s]
    /\ Done(w, "whole")
    /\ UNCHANGED <<limiter, contents, pass, history, faults>>

\* gather raises what its first worker raises; the others go on.
Raise(w) ==
    /\ worker' = [worker EXCEPT ![w] = Off]
    /\ pass' = [pass EXCEPT ![w[1]].at = IF @ = "ocr" THEN "failed" ELSE @]
    /\ pages' = [pages EXCEPT ![w[1]] = NoResults]

\* The model or the save raises: the model is called again, three times at most, and the
\* limiter is not asked.  The sleep in between is short beside the window.
TryFails(w) ==
    /\ worker[w].at \in {"call", "open", "write"} /\ Fault
    /\ spoiled' = IF At(w, "call") THEN spoiled ELSE spoiled \cup {Page(w)}
    /\ IF worker[w].tries + 1 = MaxTries
         THEN Raise(w) /\ UNCHANGED limiter
         ELSE /\ worker' = [worker EXCEPT ![w].at = "call", ![w].tries = @ + 1]
              /\ CallAgain(PageEstimate)
              /\ UNCHANGED <<pass, pages>>
    /\ UNCHANGED <<file, contents, answers, overlapped>>

\* Outside the tries: the storage, the renderer, or the progress event of the last
\* page.
WorkerRaises(w) ==
    /\ worker[w].at \in {"take", "read", "limit"} /\ sleep[w] = 0 /\ Fault
    /\ Raise(w)
    /\ UNCHANGED <<limiter, file, contents, history>>

\* SIGKILL.  The limiter starts anew.
Crash ==
    /\ \E r \in Passes : pass[r].at \in Active
    /\ Fault /\ Reset
    /\ pass' = [r \in Passes |->
                  IF pass[r].at \in Active
                    THEN [at |-> "failed", next |-> 1, state |-> NoSection] ELSE pass[r]]
    /\ pages' = [r \in Passes |-> IF pass[r].at \in Active THEN NoResults ELSE pages[r]]
    /\ spoiled' = spoiled \cup {Page(w) : w \in {v \in Workers : worker[v].at \in {"open", "write"}}}
    /\ worker' = [w \in Workers |-> Off]
    /\ UNCHANGED <<file, contents, answers, overlapped>>
-----------------------------------------------------------------------------
Init ==
    /\ LimiterInit
    /\ file = [p \in Pages |-> "absent"]
    /\ heading \in Headings /\ batch = [b \in Pages |-> NoBatch] /\ toc = FALSE
    /\ pass = [r \in Passes |-> [at |-> "idle", next |-> 1, state |-> NoSection]]
    /\ worker = [w \in Workers |-> Off]
    /\ pages = [r \in Passes |-> NoResults]
    /\ answers = [p \in Pages |-> 0] /\ spoiled = {} /\ overlapped = FALSE
    /\ faults = 0

Proceed(r) ==
    \/ LookUp(r) \/ ReadCached(r) \/ TocCached(r) \/ BatchCached(r)
    \/ BatchAnswered(r) \/ BatchWaits(r) \/ Join(r)
    \/ PassAt(r, "toc") /\ batch[pass[r].next].level = "torn" /\ TocFails(r)

Work(w) ==
    \/ Take(w) \/ Read(w) \/ Enter(w) \/ Admitted(w) \/ Waits(w)
    \/ Answered(w) \/ OpenPage(w) \/ WritePage(w)

Run ==
    \/ \E r \in Passes : Proceed(r)
    \/ \E w \in Workers : Work(w)
    \/ Tick /\ UNCHANGED <<file, contents, pass, worker, pages, history, faults>>

Next ==
    \/ Run
    \/ \E r \in Passes : Begin(r) \/ PassRaises(r) \/ TocFails(r) \/ BatchFails(r)
    \/ \E w \in Workers : TryFails(w) \/ WorkerRaises(w)
    \/ Crash

Spec == Init /\ [][Next]_vars

\* Time passes and calls return: while something can go on, something does.  As every
\* pass is finite, it does not matter who comes first.
FairSpec == Spec /\ WF_vars(Run)
-----------------------------------------------------------------------------
(* Properties. *)

Sections == [section : 0..Total, subsection : 0..Total]

TypeOK ==
    /\ LimiterTypeOK
    /\ file \in [Pages -> {"absent", "torn", "whole"}]
    /\ batch \in [Pages -> [level : {"none", "##", "###", "absent", "torn"}, state : Sections]]
    /\ heading \in Headings /\ toc \in BOOLEAN
    /\ pass \in [Passes -> [at : Active \cup {"idle", "parsed", "failed"},
                            next : 1..Total + 1, state : Sections]]
    /\ worker \in [Workers -> [at : {"off", "take", "read", "enter", "limit", "call",
                                     "open", "write"},
                               page : 0..Total, tries : 0..MaxTries - 1]]
    /\ pages \in [Passes -> [Pages -> {"missing", "whole", "blank"}]]
    /\ answers \in [Pages -> Nat] /\ spoiled \subseteq Pages /\ overlapped \in BOOLEAN
    /\ faults \in 0..MaxFaults

\* A parsed document has all its pages, also when it is put together from files that
\* failed passes and killed processes left; except pages whose save was interrupted,
\* and when passes overlapped.
PagesComplete ==
    overlapped \/ \A r \in Passes : PassAt(r, "parsed") =>
        \A p \in Pages \ spoiled : pages[r][p] = "whole"

\* No tokens are spent twice: however passes fail and are repeated, a page is answered
\* once, unless its answer was not saved or passes overlapped.
ZeroTokenWaste == overlapped \/ \A p \in Pages \ spoiled : answers[p] <= 1

\* The lineage that SyntheticDocumentToc computes for a page, from all its headings.
Lineage(p) ==
    LET last(S) == IF S = {} THEN 0 ELSE Max(S)
        h2 == last({b \in 1..p : batch[b].level = "##"}) IN
    [section |-> h2, subsection |-> last({b \in h2 + 1..p : batch[b].level = "###"})]

\* The rolling state that is saved with each batch, and restored when a later pass takes
\* the batch up, is the lineage of its last page.
Readable(b) == batch[b].level \notin {"absent", "torn"}
StateIsLineage ==
    overlapped \/ \A b \in Pages :
        (\A a \in 1..b : Readable(a)) => batch[b].state = Lineage(b)

\* Every pass ends, although its workers wait for one another, for the semaphore and
\* for room in the window.
ParseEnds ==
    (\E r \in Passes : pass[r].at \in Active) ~> (\A r \in Passes : pass[r].at \notin Active)
=============================================================================
