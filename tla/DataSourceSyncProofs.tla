------------------------ MODULE DataSourceSyncProofs ------------------------
(***************************************************************************)
(* What TLAPS proves about DataSourceSync, for any number of calls, files, *)
(* changes and faults: the status of the data source excludes a second     *)
(* call; every variable keeps its type; the cursor waits for the failures  *)
(* that were saved; and a run ends with all its files.                     *)
(***************************************************************************)
EXTENDS DataSourceSync, FiniteSetTheorems, SequenceTheorems, WellFoundedInduction, TLAPS

-----------------------------------------------------------------------------
(* The status excludes a second call. *)

CallShape == {"at", "kind", "run", "source", "copy", "todo", "listed", "next"}
SourceShape == {"status", "cursor", "pending"}

\* The calls and the data sources they hold are records of these fields.
Shaped ==
    /\ DOMAIN call = Calls
    /\ \A c \in Calls : DOMAIN call[c] = CallShape /\ DOMAIN call[c].source = SourceShape
    /\ DOMAIN source = SourceShape

\* A call that is about to save SYNCING has not loaded it.
LoadedWhenFree ==
    \A c \in Calls : call[c].at \in {"loadrun", "start"} => call[c].source.status # "SYNCING"

Disrupted == raced \/ abandoned \/ removed

\* There is one active call at most, and the data source is SYNCING while there is.
Guarded ==
    /\ source.status = "ABSENT" => removed
    /\ Disrupted \/ /\ \A c \in Active : source.status = "SYNCING"
                    /\ \A c, d \in Active : c = d

ExclusionInv == Shaped /\ LoadedWhenFree /\ Guarded

-----------------------------------------------------------------------------
\* One call is replaced by another record.
LEMMA CallChanges ==
    ASSUME Shaped, NEW c \in Calls, NEW r, call' = [call EXCEPT ![c] = r]
    PROVE  DOMAIN call' = Calls /\ call'[c] = r /\ \A d \in Calls \ {c} : call'[d] = call[d]
  BY DEF Shaped

LEMMA CallEnds ==
    ASSUME Shaped, NEW c \in Calls, End(c)
    PROVE  /\ DOMAIN call' = Calls /\ \A d \in Calls \ {c} : call'[d] = call[d]
           /\ DOMAIN call'[c] = CallShape /\ DOMAIN call'[c].source = SourceShape
           /\ call'[c].at = "done"
  <1> DEFINE r == [Idle EXCEPT !.at = "done", !.run = call[c].run]
  <1>1. DOMAIN r = CallShape /\ DOMAIN r.source = SourceShape /\ r.at = "done"
    BY DEF Idle, NoSource, CallShape, SourceShape
  <1>2. call' = [call EXCEPT ![c] = r]
    BY DEF End
  <1> HIDE DEF r
  <1> QED BY <1>1, <1>2, CallChanges

\* A call that is active before and after, or neither before nor after, and a data source
\* that is not saved.
LEMMA StillGuarded ==
    ASSUME ExclusionInv, NEW c \in Calls,
           DOMAIN call' = Calls, \A d \in Calls \ {c} : call'[d] = call[d],
           DOMAIN call'[c] = CallShape, DOMAIN call'[c].source = SourceShape,
           call'[c].at \in {"loadrun", "start"} => call'[c].source.status # "SYNCING",
           c \in Active' => c \in Active,
           source' = source, Disrupted => Disrupted', removed => removed'
    PROVE  ExclusionInv'
  <1>1. Active' \subseteq Active
    BY DEF Active
  <1>2. Shaped' /\ LoadedWhenFree'
    BY DEF ExclusionInv, Shaped, LoadedWhenFree
  <1>3. Guarded'
    BY <1>1 DEF ExclusionInv, Guarded
  <1> QED BY <1>2, <1>3 DEF ExclusionInv

LEMMA SyncLoadStep ==
    ASSUME ExclusionInv, NEW c \in Calls, SyncLoad(c)
    PROVE  ExclusionInv'
  <1> DEFINE r == [Idle EXCEPT !.at = "start", !.run = c, !.source = source]
  <1>1. DOMAIN r = CallShape /\ r.source = source /\ r.at = "start"
    BY DEF Idle, CallShape
  <1>2. /\ call' = [call EXCEPT ![c] = r] /\ source.status # "SYNCING"
        /\ UNCHANGED <<source, raced, abandoned, removed>>
    BY DEF SyncLoad, history
  <1> HIDE DEF r
  <1>3. call'[c] = r /\ DOMAIN call' = Calls /\ \A d \in Calls \ {c} : call'[d] = call[d]
    BY <1>2, CallChanges DEF ExclusionInv
  <1>4. DOMAIN source = SourceShape /\ c \notin Active'
    BY <1>1, <1>3 DEF ExclusionInv, Shaped, Active
  <1> QED BY <1>1, <1>2, <1>3, <1>4, StillGuarded DEF Disrupted

LEMMA RetryLoadStep ==
    ASSUME ExclusionInv, NEW c \in Calls, NEW n \in Calls, RetryLoad(c, n)
    PROVE  ExclusionInv'
  <1> DEFINE r == [Idle EXCEPT !.at = "loadrun", !.kind = "retry", !.run = n, !.source = source]
  <1>1. DOMAIN r = CallShape /\ r.source = source /\ r.at = "loadrun"
    BY DEF Idle, CallShape
  <1>2. /\ call' = [call EXCEPT ![c] = r] /\ source.status # "SYNCING"
        /\ UNCHANGED <<source, raced, abandoned, removed>>
    BY DEF RetryLoad, Refuses, history
  <1> HIDE DEF r
  <1>3. call'[c] = r /\ DOMAIN call' = Calls /\ \A d \in Calls \ {c} : call'[d] = call[d]
    BY <1>2, CallChanges DEF ExclusionInv
  <1>4. DOMAIN source = SourceShape /\ c \notin Active'
    BY <1>1, <1>3 DEF ExclusionInv, Shaped, Active
  <1> QED BY <1>1, <1>2, <1>3, <1>4, StillGuarded DEF Disrupted

LEMMA RetryLoadRunStep ==
    ASSUME ExclusionInv, NEW c \in Calls, RetryLoadRun(c)
    PROVE  ExclusionInv'
  <1>1. call[c].at = "loadrun" /\ UNCHANGED <<source, raced, abandoned, removed>>
    BY DEF RetryLoadRun, At
  <1>2. CASE End(c)
    <2>1. /\ DOMAIN call' = Calls /\ \A d \in Calls \ {c} : call'[d] = call[d]
          /\ DOMAIN call'[c] = CallShape /\ DOMAIN call'[c].source = SourceShape
          /\ call'[c].at = "done"
      BY <1>2, CallEnds DEF ExclusionInv
    <2>2. c \notin Active'
      BY <2>1 DEF Active
    <2> QED BY <1>1, <2>1, <2>2, StillGuarded DEF Disrupted
  <1>3. CASE call' = [call EXCEPT ![c].at = "start", ![c].copy = runs[call[c].run],
                                  ![c].todo = runs[call[c].run].summary]
    <2>1. /\ DOMAIN call' = Calls /\ \A d \in Calls \ {c} : call'[d] = call[d]
          /\ DOMAIN call'[c] = CallShape /\ call'[c].source = call[c].source
          /\ call'[c].at = "start"
      BY <1>3 DEF ExclusionInv, Shaped, CallShape
    <2>2. c \notin Active'
      BY <2>1 DEF Active
    <2>3. DOMAIN call[c].source = SourceShape /\ call[c].source.status # "SYNCING"
      BY <1>1 DEF ExclusionInv, Shaped, LoadedWhenFree
    <2> QED BY <1>1, <2>1, <2>2, <2>3, StillGuarded DEF Disrupted
  <1> QED BY <1>2, <1>3 DEF RetryLoadRun

\* The data source is taken: no call was active, or it counts as raced.
LEMMA StartStep ==
    ASSUME ExclusionInv, NEW c \in Calls, Start(c)
    PROVE  ExclusionInv'
  <1> DEFINE started == [call[c].source EXCEPT !.status = "SYNCING"]
             place == IF call[c].kind = "sync" THEN "create" ELSE "mark"
  <1>1. /\ call[c].at = "start" /\ source' = started
        /\ call' = [call EXCEPT ![c].at = place, ![c].source = started]
        /\ raced' = (raced \/ (source.status = "SYNCING" /\ call[c].source.status # "SYNCING"))
        /\ UNCHANGED <<abandoned, removed>>
    BY DEF Start, At
  <1>2. /\ DOMAIN call[c].source = SourceShape /\ call[c].source.status # "SYNCING"
        /\ DOMAIN call = Calls /\ DOMAIN call[c] = CallShape
    BY <1>1 DEF ExclusionInv, Shaped, LoadedWhenFree
  <1>3. started.status = "SYNCING" /\ DOMAIN started = SourceShape
    BY <1>2 DEF SourceShape
  <1>4. place \in {"create", "mark"}
    OBVIOUS
  <1> HIDE DEF started, place
  <1>5. /\ DOMAIN call' = Calls /\ \A d \in Calls \ {c} : call'[d] = call[d]
        /\ DOMAIN call'[c] = CallShape /\ call'[c].source = started /\ call'[c].at = place
    BY <1>1, <1>2 DEF CallShape
  <1>6. Shaped' /\ LoadedWhenFree'
    BY <1>1, <1>3, <1>4, <1>5 DEF ExclusionInv, Shaped, LoadedWhenFree
  <1>7. Active' \subseteq Active \cup {c}
    BY <1>5 DEF Active
  <1>8. ASSUME raced' \/ abandoned \/ removed PROVE Guarded'
    <2>1. source'.status # "ABSENT"
      BY <1>1, <1>3
    <2>2. Disrupted'
      BY <1>1, <1>8, Zenon DEF Disrupted
    <2> QED BY <2>1, <2>2 DEF Guarded
  <1>9. ASSUME ~(raced' \/ abandoned \/ removed) PROVE Guarded'
    <2>1. source.status # "SYNCING" /\ ~Disrupted
      BY <1>1, <1>2, <1>9 DEF Disrupted
    <2>2. Active = {}
      BY <2>1 DEF ExclusionInv, Guarded
    <2>3. source'.status = "SYNCING" /\ \A b, d \in Active' : b = d
      BY <1>1, <1>3, <1>7, <2>2
    <2>4. source'.status # "ABSENT"
      BY <2>3
    <2> QED BY <2>3, <2>4 DEF Guarded
  <1> QED BY <1>6, <1>8, <1>9 DEF ExclusionInv

\* A call that works on, without saving the data source.
LEMMA WorkStep ==
    ASSUME ExclusionInv, NEW c \in Calls, NEW r, call' = [call EXCEPT ![c] = r],
           DOMAIN r = CallShape, r.source = call[c].source,
           call[c].at \notin {"idle", "loadrun", "start", "run", "done"},
           r.at \notin {"loadrun", "start"},
           UNCHANGED <<source, raced, abandoned, removed>>
    PROVE  ExclusionInv'
  <1>1. call'[c] = r /\ DOMAIN call' = Calls /\ \A d \in Calls \ {c} : call'[d] = call[d]
    BY CallChanges DEF ExclusionInv
  <1>2. c \in Active
    BY DEF Active
  <1>3. DOMAIN r.source = SourceShape
    BY DEF ExclusionInv, Shaped
  <1> QED BY <1>1, <1>2, <1>3, StillGuarded DEF Disrupted

LEMMA PlaceStep ==
    ASSUME ExclusionInv, NEW c \in Calls,
           \/ CreateRun(c) \/ FetchDelta(c) \/ ListFolder(c) \/ GetStartPageToken(c)
           \/ MarkIngesting(c) \/ MergeRun(c) \/ MarkRetrying(c)
    PROVE  ExclusionInv'
  <1>1. CASE CreateRun(c)
    <2> DEFINE r == [call[c] EXCEPT !.at = "fetch", !.copy = runs'[c]]
    <2>1. /\ call' = [call EXCEPT ![c] = r] /\ call[c].at = "create"
          /\ UNCHANGED <<source, raced, abandoned, removed>>
      BY <1>1 DEF CreateRun, At, history, lasting
    <2>2. DOMAIN r = CallShape /\ r.source = call[c].source /\ r.at = "fetch"
      BY <2>1 DEF ExclusionInv, Shaped, CallShape
    <2> HIDE DEF r
    <2> QED BY <2>1, <2>2, WorkStep
  <1>2. CASE FetchDelta(c)
    <2> DEFINE r == [call[c] EXCEPT !.at = "ingest", !.todo = Delta(call[c].source.cursor),
                                    !.next = Len(feed) + 1]
    <2>1. /\ call' = [call EXCEPT ![c] = r] /\ call[c].at = "fetch"
          /\ UNCHANGED <<source, raced, abandoned, removed>>
      BY <1>2 DEF FetchDelta, At, history, lasting
    <2>2. DOMAIN r = CallShape /\ r.source = call[c].source /\ r.at = "ingest"
      BY <2>1 DEF ExclusionInv, Shaped, CallShape
    <2> HIDE DEF r
    <2> QED BY <2>1, <2>2, WorkStep
  <1>3. CASE ListFolder(c)
    <2> DEFINE r == [call[c] EXCEPT !.at = "token", !.todo = LatestChanges, !.listed = Len(feed)]
    <2>1. /\ call' = [call EXCEPT ![c] = r] /\ call[c].at = "fetch"
          /\ UNCHANGED <<source, raced, abandoned, removed>>
      BY <1>3 DEF ListFolder, At, history, lasting
    <2>2. DOMAIN r = CallShape /\ r.source = call[c].source /\ r.at = "token"
      BY <2>1 DEF ExclusionInv, Shaped, CallShape
    <2> HIDE DEF r
    <2> QED BY <2>1, <2>2, WorkStep
  <1>4. CASE GetStartPageToken(c)
    <2> DEFINE r == [call[c] EXCEPT !.at = "ingest", !.listed = 0, !.next = Len(feed) + 1]
    <2>1. /\ call' = [call EXCEPT ![c] = r] /\ call[c].at = "token"
          /\ UNCHANGED <<source, raced, abandoned, removed>>
      BY <1>4 DEF GetStartPageToken, At, history, lasting
    <2>2. DOMAIN r = CallShape /\ r.source = call[c].source /\ r.at = "ingest"
      BY <2>1 DEF ExclusionInv, Shaped, CallShape
    <2> HIDE DEF r
    <2> QED BY <2>1, <2>2, WorkStep
  <1>5. CASE MarkIngesting(c)
    <2> DEFINE r == [call[c] EXCEPT !.at = "items",
                    !.copy = [@ EXCEPT !.total = Cardinality(call[c].todo),
                                       !.status = IF Cardinality(call[c].todo) = 0
                                                    THEN "COMPLETED" ELSE "INGESTING"]]
    <2>1. /\ call' = [call EXCEPT ![c] = r] /\ call[c].at = "ingest"
          /\ UNCHANGED <<source, raced, abandoned, removed>>
      BY <1>5 DEF MarkIngesting, At, history, lasting
    <2>2. DOMAIN r = CallShape /\ r.source = call[c].source /\ r.at = "items"
      BY <2>1 DEF ExclusionInv, Shaped, CallShape
    <2> HIDE DEF r
    <2> QED BY <2>1, <2>2, WorkStep
  <1>6. CASE MergeRun(c)
    <2>0. PICK y : call' = [call EXCEPT ![c].at = "source", ![c].copy = y]
      BY <1>6 DEF MergeRun
    <2> DEFINE r == [call[c] EXCEPT !.at = "source", !.copy = y]
    <2>1. /\ call' = [call EXCEPT ![c] = r] /\ call[c].at = "items"
          /\ UNCHANGED <<source, raced, abandoned, removed>>
      BY <1>6, <2>0 DEF MergeRun, At
    <2>2. DOMAIN r = CallShape /\ r.source = call[c].source /\ r.at = "source"
      BY <2>1 DEF ExclusionInv, Shaped, CallShape
    <2> HIDE DEF r
    <2> QED BY <2>1, <2>2, WorkStep
  <1>7. CASE MarkRetrying(c)
    <2> DEFINE r == [call[c] EXCEPT !.at = "retry", !.copy.status = "INGESTING"]
    <2>1. /\ call' = [call EXCEPT ![c] = r] /\ call[c].at = "mark"
          /\ UNCHANGED <<source, raced, abandoned, removed>>
      BY <1>7 DEF MarkRetrying, At, history, lasting
    <2>2. DOMAIN r = CallShape /\ r.source = call[c].source /\ r.at = "retry"
      BY <2>1 DEF ExclusionInv, Shaped, CallShape
    <2> HIDE DEF r
    <2> QED BY <2>1, <2>2, WorkStep
  <1> QED BY <1>1, <1>2, <1>3, <1>4, <1>5, <1>6, <1>7

LEMMA ItemStep ==
    ASSUME ExclusionInv, NEW c \in Calls, NEW p,
           ItemAttached(c, p) \/ ItemFails(c, p) \/ ItemFailsAttached(c, p)
    PROVE  ExclusionInv'
  <1>1. CASE ItemAttached(c, p)
    <2> DEFINE r == [call[c] EXCEPT !.todo = @ \ {p}]
    <2>1. /\ call' = [call EXCEPT ![c] = r] /\ call[c].at = "items"
          /\ UNCHANGED <<source, raced, abandoned, removed>>
      BY <1>1 DEF ItemAttached, At, history, lasting
    <2>2. DOMAIN r = CallShape /\ r.source = call[c].source /\ r.at = "items"
      BY <2>1 DEF ExclusionInv, Shaped, CallShape
    <2> HIDE DEF r
    <2> QED BY <2>1, <2>2, WorkStep
  <1>2. CASE ItemFails(c, p)
    <2> DEFINE r == [call[c] EXCEPT !.todo = @ \ {p}, !.copy = RecordFailed(@, Failure(p, NoDoc))]
    <2>1. /\ call' = [call EXCEPT ![c] = r] /\ call[c].at = "items"
          /\ UNCHANGED <<source, raced, abandoned, removed>>
      BY <1>2 DEF ItemFails, LocalFailure, At, history, lasting
    <2>2. DOMAIN r = CallShape /\ r.source = call[c].source /\ r.at = "items"
      BY <2>1 DEF ExclusionInv, Shaped, CallShape
    <2> HIDE DEF r
    <2> QED BY <2>1, <2>2, WorkStep
  <1>3. CASE ItemFailsAttached(c, p)
    <2> DEFINE r == [call[c] EXCEPT !.todo = @ \ {p}, !.copy = RecordFailed(@, Failure(p, NoDoc))]
    <2>1. /\ call' = [call EXCEPT ![c] = r] /\ call[c].at = "items"
          /\ UNCHANGED <<source, raced, abandoned, removed>>
      BY <1>3 DEF ItemFailsAttached, LocalFailure, At, history, lasting
    <2>2. DOMAIN r = CallShape /\ r.source = call[c].source /\ r.at = "items"
      BY <2>1 DEF ExclusionInv, Shaped, CallShape
    <2> HIDE DEF r
    <2> QED BY <2>1, <2>2, WorkStep
  <1> QED BY <1>1, <1>2, <1>3

LEMMA RetryItemStep ==
    ASSUME ExclusionInv, NEW c \in Calls, NEW f,
           RetryReprocessed(c, f) \/ RetryAttached(c, f) \/ RetryItemFails(c, f)
    PROVE  ExclusionInv'
  <1>1. CASE RetryReprocessed(c, f)
    <2> DEFINE r == [call[c] EXCEPT !.todo = @ \ {f}, !.copy = ResolveSuccess(@, f.name)]
    <2>1. /\ call' = [call EXCEPT ![c] = r] /\ call[c].at = "retry"
          /\ UNCHANGED <<source, raced, abandoned, removed>>
      BY <1>1 DEF RetryReprocessed, Resolve, At, history, lasting
    <2>2. DOMAIN r = CallShape /\ r.source = call[c].source /\ r.at = "retry"
      BY <2>1 DEF ExclusionInv, Shaped, CallShape
    <2> HIDE DEF r
    <2> QED BY <2>1, <2>2, WorkStep
  <1>2. CASE RetryAttached(c, f)
    <2> DEFINE r == [call[c] EXCEPT !.todo = @ \ {f}, !.copy = ResolveSuccess(@, f.name)]
    <2>1. /\ call' = [call EXCEPT ![c] = r] /\ call[c].at = "retry"
          /\ UNCHANGED <<source, raced, abandoned, removed>>
      BY <1>2 DEF RetryAttached, Resolve, At, history, lasting
    <2>2. DOMAIN r = CallShape /\ r.source = call[c].source /\ r.at = "retry"
      BY <2>1 DEF ExclusionInv, Shaped, CallShape
    <2> HIDE DEF r
    <2> QED BY <2>1, <2>2, WorkStep
  <1>3. CASE RetryItemFails(c, f)
    <2> DEFINE r == [call[c] EXCEPT !.todo = @ \ {f}]
    <2>1. /\ call' = [call EXCEPT ![c] = r] /\ call[c].at = "retry"
          /\ UNCHANGED <<source, raced, abandoned, removed>>
      BY <1>3 DEF RetryItemFails, At, history, lasting
    <2>2. DOMAIN r = CallShape /\ r.source = call[c].source /\ r.at = "retry"
      BY <2>1 DEF ExclusionInv, Shaped, CallShape
    <2> HIDE DEF r
    <2> QED BY <2>1, <2>2, WorkStep
  <1> QED BY <1>1, <1>2, <1>3

-----------------------------------------------------------------------------
(* The data source is given back. *)

\* A call that leaves its place saves the data source as another status, unless it was
\* disrupted.
LEMMA LeaveStep ==
    ASSUME ExclusionInv, NEW c \in Calls,
           DOMAIN call' = Calls, \A d \in Calls \ {c} : call'[d] = call[d],
           DOMAIN call'[c] = CallShape, DOMAIN call'[c].source = SourceShape,
           call'[c].at \in {"run", "done"},
           DOMAIN source' = SourceShape, source'.status \in {"IDLE", "FAILED"},
           Disrupted' \/ (~Disrupted /\ (c \in Active \/ Active = {}))
    PROVE  ExclusionInv'
  <1>1. Shaped' /\ LoadedWhenFree'
    BY DEF ExclusionInv, Shaped, LoadedWhenFree
  <1>2. Active' \subseteq Active \ {c}
    BY DEF Active
  <1> source'.status # "ABSENT"
    OBVIOUS
  <1>3. ASSUME Disrupted' PROVE Guarded'
    BY <1>3 DEF Guarded
  <1>4. ASSUME ~Disrupted, c \in Active \/ Active = {} PROVE Guarded'
    <2>1. \A b, d \in Active : b = d
      BY <1>4 DEF ExclusionInv, Guarded
    <2>2. Active' = {}
      BY <1>2, <1>4, <2>1
    <2> QED BY <2>2 DEF Guarded
  <1> QED BY <1>1, <1>3, <1>4 DEF ExclusionInv

LEMMA SaveSourceStep ==
    ASSUME ExclusionInv, NEW c \in Calls, SaveSource(c) \/ RetrySaveSource(c)
    PROVE  ExclusionInv'
  <1>1. DOMAIN call = Calls /\ DOMAIN call[c] = CallShape /\ DOMAIN call[c].source = SourceShape
    BY DEF ExclusionInv, Shaped
  <1>2. PICK s : /\ DOMAIN s = SourceShape /\ s.status = "IDLE" /\ source' = s
                 /\ call' = [call EXCEPT ![c].at = "run", ![c].source = s]
                 /\ call[c].at \in {"source", "retry"}
                 /\ UNCHANGED <<raced, abandoned, removed>>
    <2>1. CASE SaveSource(c)
      <3> DEFINE t == WithCursor(call[c].source, call[c].copy, call[c].next)
      <3>1. DOMAIN t = SourceShape
        BY <1>1 DEF WithCursor
      <3> HIDE DEF t
      <3>2. /\ DOMAIN [t EXCEPT !.status = "IDLE"] = SourceShape
            /\ [t EXCEPT !.status = "IDLE"].status = "IDLE"
        BY <3>1 DEF SourceShape
      <3> QED BY <2>1, <3>2 DEF SaveSource, At, t
    <2>2. CASE RetrySaveSource(c)
      <3> DEFINE t == Promoted(call[c].source, call[c].copy)
      <3>1. DOMAIN t = SourceShape
        BY <1>1 DEF Promoted
      <3> HIDE DEF t
      <3>2. /\ DOMAIN [t EXCEPT !.status = "IDLE"] = SourceShape
            /\ [t EXCEPT !.status = "IDLE"].status = "IDLE"
        BY <3>1 DEF SourceShape
      <3> QED BY <2>2, <3>2 DEF RetrySaveSource, At, t, history
    <2> QED BY <2>1, <2>2
  <1>3. /\ DOMAIN call' = Calls /\ \A d \in Calls \ {c} : call'[d] = call[d]
        /\ DOMAIN call'[c] = CallShape /\ call'[c].at = "run" /\ call'[c].source = s
    BY <1>1, <1>2 DEF CallShape
  <1>4. c \in Active
    BY <1>2 DEF Active
  <1>5. Disrupted' <=> Disrupted
    BY <1>2 DEF Disrupted
  <1> QED BY <1>2, <1>3, <1>4, <1>5, LeaveStep

LEMMA CallRaisesStep ==
    ASSUME ExclusionInv, NEW c \in Calls, CallRaises(c)
    PROVE  ExclusionInv'
  <1>1. /\ InTry(c) /\ source' = FailedSource(c) /\ End(c)
        /\ raced' = (raced \/ (call[c].at = "run" /\ source.status = "SYNCING"))
        /\ UNCHANGED <<abandoned, removed>>
    BY DEF CallRaises, At
  <1>2. DOMAIN source' = SourceShape /\ source'.status = "FAILED"
    BY <1>1 DEF FailedSource, ExclusionInv, Shaped, SourceShape
  <1>3. /\ DOMAIN call' = Calls /\ \A d \in Calls \ {c} : call'[d] = call[d]
        /\ DOMAIN call'[c] = CallShape /\ DOMAIN call'[c].source = SourceShape
        /\ call'[c].at = "done"
    BY <1>1, CallEnds DEF ExclusionInv
  <1>4. Disrupted' \/ (~Disrupted /\ (c \in Active \/ Active = {}))
    <2>1. CASE call[c].at # "run"
      <3>1. c \in Active
        BY <1>1, <2>1 DEF Active, InTry
      <3> QED BY <1>1, <3>1 DEF Disrupted
    <2>2. CASE call[c].at = "run" /\ ~Disrupted /\ ~Disrupted'
      <3>1. source.status # "SYNCING"
        BY <1>1, <2>2 DEF Disrupted
      <3> QED BY <2>2, <3>1 DEF ExclusionInv, Guarded
    <2>3. Disrupted => Disrupted'
      BY <1>1 DEF Disrupted
    <2> QED BY <2>1, <2>2, <2>3
  <1> QED BY <1>2, <1>3, <1>4, LeaveStep

\* A call that was abandoned, or refused because the data source is gone.
LEMMA DisruptedStep ==
    ASSUME ExclusionInv, NEW c \in Calls, CallAbandoned(c) \/ RunRefused(c)
    PROVE  ExclusionInv'
  <1>1. End(c) /\ removed' = removed /\ (source' = source \/ source' = FailedSource(c))
    BY DEF CallAbandoned, RunRefused
  <1>2. Disrupted'
    <2>1. CASE CallAbandoned(c)
      BY <2>1 DEF CallAbandoned, Disrupted
    <2>2. CASE RunRefused(c)
      BY <2>2 DEF RunRefused, ExclusionInv, Guarded, Disrupted
    <2> QED BY <2>1, <2>2
  <1>3. /\ DOMAIN call' = Calls /\ \A d \in Calls \ {c} : call'[d] = call[d]
        /\ DOMAIN call'[c] = CallShape /\ DOMAIN call'[c].source = SourceShape
        /\ call'[c].at = "done"
    BY <1>1, CallEnds DEF ExclusionInv
  <1>4. /\ DOMAIN FailedSource(c) = SourceShape /\ FailedSource(c).status = "FAILED"
        /\ DOMAIN source = SourceShape
    BY DEF FailedSource, ExclusionInv, Shaped, SourceShape
  <1>5. Shaped' /\ LoadedWhenFree'
    BY <1>1, <1>3, <1>4 DEF ExclusionInv, Shaped, LoadedWhenFree
  <1>6. source'.status = "ABSENT" => removed'
    BY <1>1, <1>4 DEF ExclusionInv, Guarded
  <1>7. Guarded'
    BY <1>2, <1>6 DEF Guarded
  <1> QED BY <1>5, <1>7 DEF ExclusionInv

LEMMA SaveRunWholeStep ==
    ASSUME ExclusionInv, NEW c \in Calls, SaveRunWhole(c)
    PROVE  ExclusionInv'
  <1>1. End(c) /\ UNCHANGED <<source, raced, abandoned, removed>>
    BY DEF SaveRunWhole
  <1>2. /\ DOMAIN call' = Calls /\ \A d \in Calls \ {c} : call'[d] = call[d]
        /\ DOMAIN call'[c] = CallShape /\ DOMAIN call'[c].source = SourceShape
        /\ call'[c].at = "done"
    BY <1>1, CallEnds DEF ExclusionInv
  <1>3. c \notin Active'
    BY <1>2 DEF Active
  <1> QED BY <1>1, <1>2, <1>3, StillGuarded DEF Disrupted

LEMMA DeleteSourceStep ==
    ASSUME ExclusionInv, DeleteSource
    PROVE  ExclusionInv'
  <1>1. removed' = TRUE /\ source' = NoSource /\ call' = call
    BY DEF DeleteSource
  <1>2. DOMAIN source' = SourceShape
    BY <1>1 DEF NoSource, SourceShape
  <1> QED BY <1>1, <1>2 DEF ExclusionInv, Shaped, LoadedWhenFree, Guarded, Disrupted

LEMMA QuietStep ==
    ASSUME ExclusionInv, UNCHANGED <<source, call, raced, abandoned, removed>>
    PROVE  ExclusionInv'
  <1>1. Active' = Active
    BY DEF Active
  <1>2. Disrupted' <=> Disrupted
    BY DEF Disrupted
  <1> QED BY <1>1, <1>2 DEF ExclusionInv, Shaped, LoadedWhenFree, Guarded

-----------------------------------------------------------------------------
(* The specification excludes a second call. *)

LEMMA InitExclusion == Init => ExclusionInv
  <1> SUFFICES ASSUME Init PROVE ExclusionInv
    OBVIOUS
  <1>1. /\ DOMAIN Idle = CallShape /\ DOMAIN Idle.source = SourceShape /\ Idle.at = "idle"
        /\ DOMAIN NoSource = SourceShape
    BY DEF Idle, NoSource, CallShape, SourceShape
  <1>2. DOMAIN call = Calls /\ \A c \in Calls : call[c] = Idle
    BY DEF Init
  <1>3. DOMAIN source = SourceShape /\ source.status = "IDLE"
    BY <1>1 DEF Init, SourceShape
  <1>4. Active = {}
    BY <1>1, <1>2 DEF Active
  <1> QED BY <1>1, <1>2, <1>3, <1>4 DEF ExclusionInv, Shaped, LoadedWhenFree, Guarded

LEMMA StepExclusion ==
    ASSUME ExclusionInv, [Next]_vars
    PROVE  ExclusionInv'
  <1>1. CASE UNCHANGED vars
    BY <1>1, QuietStep DEF vars, history
  <1>2. CASE \E c \in Calls : SyncRoute(c) \/ RetryRoute(c)
    BY <1>2, SyncLoadStep, RetryLoadStep DEF SyncRoute, RetryRoute
  <1>3. CASE \E c \in Calls : Proceed(c)
    <2> SUFFICES ASSUME NEW c \in Calls, Proceed(c) PROVE ExclusionInv'
      BY <1>3
    <2>1. CASE \/ CreateRun(c) \/ FetchDelta(c) \/ ListFolder(c) \/ GetStartPageToken(c)
               \/ MarkIngesting(c) \/ MergeRun(c) \/ MarkRetrying(c)
      BY <2>1, PlaceStep
    <2>2. CASE RetryLoadRun(c)
      BY <2>2, RetryLoadRunStep
    <2>3. CASE Start(c)
      BY <2>3, StartStep
    <2>4. CASE SaveSource(c) \/ RetrySaveSource(c)
      BY <2>4, SaveSourceStep
    <2>5. CASE SaveRunWhole(c)
      BY <2>5, SaveRunWholeStep
    <2>6. CASE RunRefused(c)
      BY <2>6, DisruptedStep
    <2>7. CASE \E p \in DOMAIN feed : ItemAttached(c, p)
      BY <2>7, ItemStep
    <2>8. CASE \E f \in call[c].todo : At(c, "retry") /\ (RetryReprocessed(c, f) \/ RetryAttached(c, f))
      BY <2>8, RetryItemStep
    <2> QED BY <2>1, <2>2, <2>3, <2>4, <2>5, <2>6, <2>7, <2>8 DEF Proceed
  <1>4. CASE \E c \in Calls : Break(c)
    <2> SUFFICES ASSUME NEW c \in Calls, Break(c) PROVE ExclusionInv'
      BY <1>4
    <2>1. CASE CallRaises(c)
      BY <2>1, CallRaisesStep
    <2>2. CASE CallAbandoned(c)
      BY <2>2, DisruptedStep
    <2>3. CASE \E p \in DOMAIN feed : ItemFails(c, p) \/ ItemFailsAttached(c, p)
      BY <2>3, ItemStep
    <2>4. CASE \E f \in call[c].todo : RetryItemFails(c, f)
      BY <2>4, RetryItemStep
    <2> QED BY <2>1, <2>2, <2>3, <2>4 DEF Break
  <1>5. CASE (\E d \in open : DocIndexed(d) \/ DocFails(d)) \/ (\E d \in docs \ open : DocIndexedAgain(d))
    <2>1. UNCHANGED <<source, call, raced, abandoned, removed>>
      BY <1>5 DEF DocIndexed, DocFails, DocIndexedAgain, history
    <2> QED BY <2>1, QuietStep
  <1>6. CASE DeleteRoute
    BY <1>6, DeleteSourceStep DEF DeleteRoute
  <1>7. CASE \E f \in Files : ChangeFile(f)
    <2>1. UNCHANGED <<source, call, raced, abandoned, removed>>
      BY <1>7 DEF ChangeFile, history
    <2> QED BY <2>1, QuietStep
  <1> QED BY <1>1, <1>2, <1>3, <1>4, <1>5, <1>6, <1>7 DEF Next

\* Of all calls of sync and retry one is at work on the data source at most, except after
\* a call had saved it over another's SYNCING, or was killed, or the data source was deleted.
THEOREM CallsExclude == Spec => []ExclusiveUnlessRaced
  <1>1. ExclusionInv /\ [Next]_vars => ExclusionInv'
    BY StepExclusion
  <1>2. ExclusionInv => ExclusiveUnlessRaced
    <2> SUFFICES ASSUME ExclusionInv, ~Disrupted PROVE Cardinality(Active) <= 1
      BY DEF ExclusiveUnlessRaced, Disrupted
    <2>1. \A c, d \in Active : c = d
      BY DEF ExclusionInv, Guarded
    <2>2. CASE Active = {}
      BY <2>2, FS_EmptySet
    <2>3. CASE Active # {}
      <3>1. PICK c \in Active : TRUE
        BY <2>3
      <3>2. Active = {c}
        BY <2>1, <3>1
      <3> QED BY <3>2, FS_Singleton
    <2> QED BY <2>2, <2>3
  <1> QED BY InitExclusion, <1>1, <1>2, PTL DEF Spec

-----------------------------------------------------------------------------
(* Types. *)

Places == {"idle", "loadrun", "start", "create", "mark", "fetch", "token", "ingest", "items",
           "source", "run", "retry", "done"}
Statuses == Terminal \cup {"ABSENT", "EXTRACTING", "INGESTING"}
Items == 1..MaxChanges
FailureRows == [item : Items, doc : {NoDoc} \cup (Calls \X Items),
                name : ({"file"} \X {Base[f] : f \in Files}) \cup ({"doc"} \X (Calls \X Items))]
Rows == [status : Statuses, total : Nat, indexed : Nat, failed : Nat,
         summary : SUBSET FailureRows]
CallRows == [at : Places, kind : {"sync", "retry"}, run : Calls, source : SourceRows, copy : Rows,
             todo : SUBSET (Items \cup FailureRows),
             listed : 0..MaxChanges, next : 0..MaxChanges + 1]

\* A failure is of a change there is, and of its document if it has one.
FailureOK(f) ==
    /\ f \in FailureRows /\ f.item \in DOMAIN feed /\ f = Failure(f.item, f.doc)
    /\ f.doc = NoDoc \/ (f.doc \in docs /\ f.doc[2] = f.item)
RunOK(x) ==
    /\ x \in Rows /\ IsFiniteSet(x.summary) /\ \A f \in x.summary : FailureOK(f)
    /\ x.failed = 0 => x.summary = {}
SourceOK(s) == s \in SourceRows /\ s.cursor <= Len(feed) + 1 /\ s.pending <= Len(feed) + 1
CallOK(x) ==
    /\ x \in CallRows /\ IsFiniteSet(x.todo) /\ RunOK(x.copy) /\ SourceOK(x.source)
    /\ x.listed <= Len(feed) /\ x.next <= Len(feed) + 1
    /\ IF x.kind = "sync" THEN x.todo \subseteq DOMAIN feed ELSE \A f \in x.todo : FailureOK(f)
    /\ x.kind = "sync" => x.at \notin {"loadrun", "mark", "retry"}
    /\ x.kind = "retry" => x.at \in {"loadrun", "start", "mark", "retry", "run"}
TypesInv ==
    /\ feed \in Seq(Files) /\ Len(feed) <= MaxChanges
    /\ DOMAIN runs = Calls /\ DOMAIN call = Calls
    /\ \A r \in Calls : RunOK(runs[r])
    /\ \A c \in Calls : CallOK(call[c])
    /\ SourceOK(source)
    /\ docs \subseteq Calls \X Items /\ open \subseteq docs /\ IsFiniteSet(docs)
    /\ \A d \in docs : d[2] \in DOMAIN feed
    /\ \A c \in Calls : call[c].kind = "sync" /\ call[c].at \notin {"idle", "done"} => call[c].run = c
    /\ torn \subseteq Calls
HistoryInv ==
    /\ missed \subseteq Items /\ twice \subseteq Calls
    /\ raced \in BOOLEAN /\ abandoned \in BOOLEAN /\ removed \in BOOLEAN
    /\ early \in BOOLEAN /\ shadowed \in BOOLEAN /\ faults \in 0..MaxFaults
    /\ runs = [r \in Calls |-> runs[r]]
-----------------------------------------------------------------------------
(* Rows of runs and of data sources. *)

Grown ==
    /\ feed' \in Seq(Files) /\ Len(feed) <= Len(feed') /\ Len(feed') <= MaxChanges
    /\ \A p \in DOMAIN feed : p \in DOMAIN feed' /\ feed'[p] = feed[p]
    /\ docs \subseteq docs' /\ docs' \subseteq Calls \X Items /\ IsFiniteSet(docs')
    /\ \A d \in docs' : d[2] \in DOMAIN feed'

LEMMA Bounds == MaxCalls \in Nat /\ MaxChanges \in Nat /\ MaxFaults \in Nat
  BY BoundsAssumption

LEMMA FailureStays ==
    ASSUME TypesInv, Grown, NEW f, FailureOK(f)
    PROVE  FailureOK(f)'
  <1>1. f.item \in DOMAIN feed' /\ feed'[f.item] = feed[f.item]
    BY DEF FailureOK, Grown
  <1> QED BY <1>1 DEF FailureOK, Grown, Failure, Name

LEMMA RunStays ==
    ASSUME TypesInv, Grown, NEW x, RunOK(x)
    PROVE  RunOK(x)'
  BY FailureStays DEF RunOK

LEMMA SourceStays ==
    ASSUME TypesInv, Grown, NEW s, SourceOK(s)
    PROVE  SourceOK(s)'
  <1>1. s.cursor \in Nat /\ s.pending \in Nat
    BY Bounds DEF SourceOK, SourceRows
  <1>2. Len(feed) \in Nat /\ Len(feed') \in Nat
    BY DEF TypesInv, Grown
  <1> QED BY <1>1, <1>2 DEF SourceOK, Grown

LEMMA CallStays ==
    ASSUME TypesInv, Grown, NEW x, CallOK(x)
    PROVE  CallOK(x)'
  <1>1. RunOK(x.copy)' /\ SourceOK(x.source)'
    BY RunStays, SourceStays DEF CallOK
  <1>2. Len(feed) \in Nat /\ Len(feed') \in Nat /\ x.listed \in Nat /\ x.next \in Nat
    BY Bounds DEF TypesInv, Grown, CallOK, CallRows
  <1>3. x.listed <= Len(feed') /\ x.next <= Len(feed') + 1
    BY <1>2 DEF CallOK, Grown
  <1>4. (IF x.kind = "sync" THEN x.todo \subseteq DOMAIN feed ELSE \A f \in x.todo : FailureOK(f))'
    BY FailureStays DEF CallOK, Grown
  <1> QED BY <1>1, <1>3, <1>4 DEF CallOK

\* Rows of runs, and what each operation makes of one.
LEMMA RowFields ==
    ASSUME NEW x \in Rows
    PROVE  /\ x.status \in Statuses /\ x.total \in Nat /\ x.indexed \in Nat /\ x.failed \in Nat
           /\ x.summary \in SUBSET FailureRows
           /\ DOMAIN x = {"status", "total", "indexed", "failed", "summary"}
  BY DEF Rows

Made(y, s, t, i, n, m) ==
    /\ y \in Rows /\ y.status = s /\ y.total = t /\ y.indexed = i /\ y.failed = n
    /\ y.summary = m
LEMMA RowExcept ==
    ASSUME NEW x \in Rows, NEW s \in Statuses, NEW i \in Nat, NEW n \in Nat,
           NEW m \in SUBSET FailureRows
    PROVE  /\ Made([x EXCEPT !.failed = n, !.summary = m], x.status, x.total, x.indexed, n, m)
           /\ Made([x EXCEPT !.summary = m, !.failed = n, !.indexed = i], x.status, x.total, i, n, m)
           /\ Made([x EXCEPT !.indexed = i, !.status = s], s, x.total, i, x.failed, x.summary)
           /\ Made([x EXCEPT !.failed = n, !.summary = m, !.status = s], s, x.total, x.indexed, n, m)
           /\ Made([x EXCEPT !.total = n, !.status = s], s, n, x.indexed, x.failed, x.summary)
  <1>1. Made([x EXCEPT !.failed = n, !.summary = m], x.status, x.total, x.indexed, n, m)
    BY DEF Rows, Made
  <1>2. Made([x EXCEPT !.summary = m, !.failed = n, !.indexed = i], x.status, x.total, i, n, m)
    BY DEF Rows, Made
  <1>3. Made([x EXCEPT !.indexed = i, !.status = s], s, x.total, i, x.failed, x.summary)
    BY DEF Rows, Made
  <1>4. Made([x EXCEPT !.failed = n, !.summary = m, !.status = s], s, x.total, x.indexed, n, m)
    BY DEF Rows, Made
  <1>5. Made([x EXCEPT !.total = n, !.status = s], s, n, x.indexed, x.failed, x.summary)
    BY DEF Rows, Made
  <1> QED BY <1>1, <1>2, <1>3, <1>4, <1>5

LEMMA RowStatus ==
    ASSUME NEW x \in Rows, NEW s \in Statuses
    PROVE  LET y == [x EXCEPT !.status = s] IN
           /\ y \in Rows /\ y.status = s /\ y.total = x.total /\ y.indexed = x.indexed
           /\ y.failed = x.failed /\ y.summary = x.summary
  BY DEF Rows

LEMMA StatusKept ==
    ASSUME NEW x, RunOK(x), NEW s \in Statuses
    PROVE  RunOK([x EXCEPT !.status = s])
  <1> DEFINE y == [x EXCEPT !.status = s]
  <1>1. y \in Rows /\ y.summary = x.summary /\ y.failed = x.failed
    BY RowStatus DEF RunOK
  <1> HIDE DEF y
  <1>2. RunOK(y)
    BY <1>1 DEF RunOK
  <1> QED BY <1>2 DEF y

LEMMA CheckedRow ==
    ASSUME NEW x \in Rows
    PROVE  /\ \E s \in Statuses : Checked(x) = [x EXCEPT !.status = s]
           /\ Checked(x) \in Rows /\ Checked(x).total = x.total /\ Checked(x).indexed = x.indexed
           /\ Checked(x).failed = x.failed /\ Checked(x).summary = x.summary
  <1>1. \E s \in Statuses : Checked(x) = [x EXCEPT !.status = s]
    <2> DEFINE s == IF x.indexed + x.failed < x.total THEN x.status
                    ELSE IF x.failed = 0 THEN "COMPLETED"
                    ELSE IF x.indexed > 0 THEN "PARTIALLY_FAILED" ELSE "FAILED"
    <2>1. s \in Statuses
      BY RowFields DEF Statuses, Terminal
    <2>2. Checked(x) = [x EXCEPT !.status = s]
      BY DEF Checked
    <2> QED BY <2>1, <2>2
  <1> QED BY <1>1, RowStatus

LEMMA RunChecked ==
    ASSUME NEW x, RunOK(x)
    PROVE  RunOK(Checked(x))
  <1>1. \E s \in Statuses : Checked(x) = [x EXCEPT !.status = s]
    BY CheckedRow DEF RunOK
  <1> QED BY <1>1, StatusKept

LEMMA FailureAdded ==
    ASSUME NEW x, RunOK(x), NEW f, FailureOK(f)
    PROVE  LET y == [x EXCEPT !.failed = @ + 1, !.summary = @ \cup {f}] IN
           /\ RunOK(y) /\ y.summary = x.summary \cup {f} /\ y.failed = x.failed + 1
           /\ y.status = x.status /\ y.total = x.total /\ y.indexed = x.indexed
  <1> DEFINE y == [x EXCEPT !.failed = @ + 1, !.summary = @ \cup {f}]
  <1>1. x \in Rows /\ x.failed \in Nat /\ f \in FailureRows /\ IsFiniteSet(x.summary)
    BY RowFields DEF RunOK, FailureOK
  <1>2. /\ y \in Rows /\ y.summary = x.summary \cup {f} /\ y.failed = x.failed + 1
        /\ y.status = x.status /\ y.total = x.total /\ y.indexed = x.indexed
    <2>2. x.failed + 1 \in Nat /\ x.summary \cup {f} \in SUBSET FailureRows
      BY <1>1, RowFields
    <2>1. Made(y, x.status, x.total, x.indexed, x.failed + 1, x.summary \cup {f})
      BY <1>1, <2>2, RowExcept, RowFields
    <2> HIDE DEF y
    <2> QED BY <1>1, <2>1, <2>2, RowFields DEF Made
  <1>3. IsFiniteSet(x.summary \cup {f})
    BY <1>1, FS_AddElement
  <1> HIDE DEF y
  <1>4. RunOK(y)
    BY <1>1, <1>2, <1>3 DEF RunOK
  <1> QED BY <1>2, <1>4 DEF y

LEMMA RunRecordFailed ==
    ASSUME NEW x, RunOK(x), NEW f, FailureOK(f)
    PROVE  /\ RunOK(RecordFailed(x, f)) /\ RecordFailed(x, f).summary = x.summary \cup {f}
           /\ RecordFailed(x, f).failed = x.failed + 1
           /\ RecordFailed(x, f).total = x.total /\ RecordFailed(x, f).indexed = x.indexed
  <1> DEFINE y == [x EXCEPT !.failed = @ + 1, !.summary = @ \cup {f}]
  <1>1. /\ RunOK(y) /\ y.summary = x.summary \cup {f} /\ y.failed = x.failed + 1
        /\ y.total = x.total /\ y.indexed = x.indexed
    BY FailureAdded
  <1> HIDE DEF y
  <1>2. RecordFailed(x, f) = Checked(y)
    BY DEF RecordFailed, y
  <1>3. y \in Rows
    BY <1>1 DEF RunOK
  <1> QED BY <1>1, <1>2, <1>3, RunChecked, CheckedRow

Left(x, name) == {f \in x.summary : f.name # name}
LEMMA RunResolve ==
    ASSUME NEW x, RunOK(x), NEW name
    PROVE  /\ RunOK(ResolveSuccess(x, name))
           /\ ResolveSuccess(x, name).summary = Left(x, name)
           /\ ResolveSuccess(x, name).total = x.total
  <1> DEFINE left == Left(x, name)
             y == [x EXCEPT !.summary = left, !.failed = Cardinality(left), !.indexed = @ + 1]
  <1>1. IsFiniteSet(left) /\ left \subseteq x.summary
    BY FS_Subset DEF RunOK, Left
  <1>2. Cardinality(left) \in Nat /\ (Cardinality(left) = 0 => left = {})
    BY <1>1, FS_CardinalityType, FS_EmptySet
  <1>3. x \in Rows /\ x.indexed \in Nat /\ left \in SUBSET FailureRows
    BY <1>1, RowFields DEF RunOK
  <1>4. /\ y \in Rows /\ y.summary = left /\ y.failed = Cardinality(left) /\ y.total = x.total
    <2> HIDE DEF left
    <2>2. x.indexed + 1 \in Nat
      BY <1>3
    <2>1. Made(y, x.status, x.total, x.indexed + 1, Cardinality(left), left)
      BY <1>2, <1>3, <2>2, RowExcept, RowFields
    <2> HIDE DEF y
    <2> QED BY <1>2, <1>3, <2>1, <2>2, RowFields DEF Made
  <1>5. ResolveSuccess(x, name) = Checked(y)
    BY DEF ResolveSuccess, Left
  <1> HIDE DEF y, left
  <1>6. RunOK(y)
    BY <1>1, <1>2, <1>4 DEF RunOK
  <1> QED BY <1>4, <1>5, <1>6, RunChecked, CheckedRow DEF left

LEMMA RunCountIndexed ==
    ASSUME NEW x, RunOK(x)
    PROVE  RunOK(CountIndexed(x)) /\ CountIndexed(x).summary = x.summary
  <1>1. CASE x.status \in Terminal \cup {"ABSENT"}
    BY <1>1 DEF CountIndexed
  <1>2. CASE x.status \notin Terminal \cup {"ABSENT"}
    <2> DEFINE s == IF ~Completes(x) THEN x.status
                    ELSE IF x.failed > 0 THEN "PARTIALLY_FAILED" ELSE "COMPLETED"
               y == [x EXCEPT !.indexed = @ + 1, !.status = s]
    <2>1. CountIndexed(x) = y
      BY <1>2 DEF CountIndexed
    <2>2. x \in Rows /\ x.indexed \in Nat /\ s \in Statuses
      BY RowFields DEF RunOK, Statuses, Terminal
    <2> HIDE DEF s
    <2>3. y \in Rows /\ y.summary = x.summary /\ y.failed = x.failed
      <3>2. x.indexed + 1 \in Nat
        BY <2>2
      <3>1. Made(y, s, x.total, x.indexed + 1, x.failed, x.summary)
        BY <2>2, <3>2, RowExcept
      <3> HIDE DEF y
      <3> QED BY <2>2, <3>1, <3>2, RowFields DEF Made
    <2> HIDE DEF y
    <2>4. RunOK(y)
      BY <2>3 DEF RunOK
    <2> QED BY <2>1, <2>3, <2>4
  <1> QED BY <1>1, <1>2

\* A document that has failed.
LEMMA RunCountFailed ==
    ASSUME NEW x, RunOK(x), NEW f, FailureOK(f)
    PROVE  /\ RunOK(CountFailed(x, f))
           /\ CountFailed(x, f).summary \in {x.summary, x.summary \cup {f}}
  <1>1. CASE x.status \in Terminal \cup {"ABSENT"}
    BY <1>1 DEF CountFailed
  <1>2. CASE x.status \notin Terminal \cup {"ABSENT"}
    <2> DEFINE s == IF ~Completes(x) THEN x.status
                    ELSE IF x.indexed > 0 THEN "PARTIALLY_FAILED" ELSE "FAILED"
               z == [x EXCEPT !.failed = @ + 1, !.summary = @ \cup {f}, !.status = s]
    <2>1. CountFailed(x, f) = z
      BY <1>2 DEF CountFailed
    <2>2. x \in Rows /\ x.failed \in Nat /\ s \in Statuses /\ f \in FailureRows
      BY RowFields DEF RunOK, FailureOK, Statuses, Terminal
    <2>3. /\ x.failed + 1 \in Nat /\ x.failed + 1 # 0 /\ x.summary \cup {f} \in SUBSET FailureRows
          /\ IsFiniteSet(x.summary \cup {f})
      BY <2>2, RowFields, FS_AddElement DEF RunOK
    <2> HIDE DEF s
    <2>4. Made(z, s, x.total, x.indexed, x.failed + 1, x.summary \cup {f})
      BY <2>2, <2>3, RowExcept
    <2> HIDE DEF z
    <2>5. z \in Rows /\ z.summary = x.summary \cup {f} /\ z.failed = x.failed + 1
      BY <2>4 DEF Made
    <2>6. RunOK(z) /\ z.summary = x.summary \cup {f}
      BY <2>2, <2>3, <2>5 DEF RunOK
    <2> QED BY <2>1, <2>6
  <1> QED BY <1>1, <1>2

\* The failures that join the run are some of the local ones.
LEMMA JoiningOnes ==
    ASSUME NEW x, NEW local, IsFiniteSet(local), NEW new \in Joining(x, local)
    PROVE  /\ new \subseteq local /\ IsFiniteSet(new) /\ Cardinality(new) \in Nat
           /\ Cardinality(new) <= Cardinality(local)
           /\ Cardinality(new) = 0 => new = {}
  <1>1. new \subseteq local
    BY DEF Joining
  <1> QED BY <1>1, FS_Subset, FS_CardinalityType, FS_EmptySet

LEMMA RunMerged ==
    ASSUME NEW x, RunOK(x), NEW new, IsFiniteSet(new), \A f \in new : FailureOK(f)
    PROVE  /\ RunOK(Merged(x, new))
           /\ Merged(x, new).summary = x.summary \cup new
           /\ Merged(x, new).total = x.total /\ Merged(x, new).indexed = x.indexed
           /\ Merged(x, new).failed = x.failed + Cardinality(new)
  <1>1. Cardinality(new) \in Nat /\ (Cardinality(new) = 0 => new = {})
    BY FS_CardinalityType, FS_EmptySet
  <1>2. CASE new = {}
    <2>1. Merged(x, new) = x
      BY <1>2 DEF Merged
    <2>2. Cardinality(new) = 0 /\ x.failed \in Nat
      BY <1>2, FS_EmptySet, RowFields DEF RunOK
    <2> QED BY <1>2, <2>1, <2>2
  <1>3. CASE new # {}
    <2> DEFINE y == [x EXCEPT !.failed = @ + Cardinality(new), !.summary = @ \cup new]
    <2>1. Merged(x, new) = Checked(y)
      BY <1>3 DEF Merged
    <2>2. /\ x \in Rows /\ x.failed \in Nat /\ x.status \in Statuses /\ x.indexed \in Nat
          /\ x.summary \in SUBSET FailureRows /\ IsFiniteSet(x.summary)
      BY RowFields DEF RunOK
    <2>3. x.failed + Cardinality(new) \in Nat /\ x.failed + Cardinality(new) # 0
      BY <1>1, <1>3, <2>2
    <2>4. new \in SUBSET FailureRows /\ x.summary \cup new \in SUBSET FailureRows
      BY <2>2 DEF FailureOK
    <2>5. IsFiniteSet(x.summary \cup new)
      BY <2>2, FS_Union
    <2>6. Made(y, x.status, x.total, x.indexed, x.failed + Cardinality(new), x.summary \cup new)
      BY <2>2, <2>3, <2>4, RowExcept
    <2> HIDE DEF y
    <2>7. /\ y \in Rows /\ y.summary = x.summary \cup new /\ y.total = x.total
          /\ y.indexed = x.indexed /\ y.failed = x.failed + Cardinality(new)
      BY <2>6 DEF Made
    <2>8. RunOK(y)
      BY <2>3, <2>5, <2>7 DEF RunOK
    <2> QED BY <2>1, <2>7, <2>8, RunChecked, CheckedRow
  <1> QED BY <1>2, <1>3

\* The copy with which a sync leaves its items.
Merges(c, new) == IF runs[c] = NoRun THEN call[c].copy ELSE Merged(runs[c], new)

-----------------------------------------------------------------------------
(* Steps of a call. *)

Todos == SUBSET (Items \cup FailureRows)
Called(x, at, kind, run, s, copy, todo, listed, next) ==
    /\ x \in CallRows /\ x.at = at /\ x.kind = kind /\ x.run = run /\ x.source = s
    /\ x.copy = copy /\ x.todo = todo /\ x.listed = listed /\ x.next = next
Moved(c, at, kind, run, s, copy, todo, listed, next) ==
    /\ DOMAIN call' = Calls /\ \A d \in Calls \ {c} : call'[d] = call[d]
    /\ Called(call'[c], at, kind, run, s, copy, todo, listed, next)

LEMMA SetCall ==
    ASSUME TypesInv, NEW c \in Calls, NEW x, call' = [call EXCEPT ![c] = x]
    PROVE  DOMAIN call' = Calls /\ (\A d \in Calls \ {c} : call'[d] = call[d]) /\ call'[c] = x
  BY DEF TypesInv

LEMMA CallFields ==
    ASSUME NEW x \in CallRows
    PROVE  /\ x.at \in Places /\ x.kind \in {"sync", "retry"} /\ x.run \in Calls
           /\ x.source \in SourceRows /\ x.copy \in Rows /\ x.todo \in Todos
           /\ x.listed \in 0..MaxChanges /\ x.next \in 0..MaxChanges + 1
  BY DEF CallRows, Todos

\* What an assignment of some fields makes of a call.
LEMMA CallPlaceCopy ==
    ASSUME NEW x \in CallRows, NEW a \in Places, NEW y \in Rows
    PROVE  Called([x EXCEPT !.at = a, !.copy = y],
                  a, x.kind, x.run, x.source, y, x.todo, x.listed, x.next)
  BY DEF Called, CallRows, Todos

LEMMA CallPlaceSource ==
    ASSUME NEW x \in CallRows, NEW a \in Places, NEW s \in SourceRows
    PROVE  Called([x EXCEPT !.at = a, !.source = s],
                  a, x.kind, x.run, s, x.copy, x.todo, x.listed, x.next)
  BY DEF Called, CallRows, Todos

LEMMA CallPlaceTodoNext ==
    ASSUME NEW x \in CallRows, NEW a \in Places, NEW t \in Todos, NEW n \in 0..MaxChanges + 1
    PROVE  Called([x EXCEPT !.at = a, !.todo = t, !.next = n],
                  a, x.kind, x.run, x.source, x.copy, t, x.listed, n)
  BY DEF Called, CallRows, Todos

LEMMA CallPlaceTodoListed ==
    ASSUME NEW x \in CallRows, NEW a \in Places, NEW t \in Todos, NEW l \in 0..MaxChanges
    PROVE  Called([x EXCEPT !.at = a, !.todo = t, !.listed = l],
                  a, x.kind, x.run, x.source, x.copy, t, l, x.next)
  BY DEF Called, CallRows, Todos

LEMMA CallPlaceListedNext ==
    ASSUME NEW x \in CallRows, NEW a \in Places, NEW l \in 0..MaxChanges, NEW n \in 0..MaxChanges + 1
    PROVE  Called([x EXCEPT !.at = a, !.listed = l, !.next = n],
                  a, x.kind, x.run, x.source, x.copy, x.todo, l, n)
  BY DEF Called, CallRows, Todos

LEMMA CallTodoCopy ==
    ASSUME NEW x \in CallRows, NEW t \in Todos, NEW y \in Rows
    PROVE  Called([x EXCEPT !.todo = t, !.copy = y],
                  x.at, x.kind, x.run, x.source, y, t, x.listed, x.next)
  BY DEF Called, CallRows, Todos

LEMMA CallPlaceCopyTodo ==
    ASSUME NEW x \in CallRows, NEW a \in Places, NEW y \in Rows, NEW t \in Todos
    PROVE  Called([x EXCEPT !.at = a, !.copy = y, !.todo = t],
                  a, x.kind, x.run, x.source, y, t, x.listed, x.next)
  BY DEF Called, CallRows, Todos

LEMMA CallExceptTodo ==
    ASSUME NEW x \in CallRows, NEW t \in Todos
    PROVE  Called([x EXCEPT !.todo = t], x.at, x.kind, x.run, x.source, x.copy, t, x.listed, x.next)
  BY DEF Called, CallRows, Todos

LEMMA MoveTo ==
    ASSUME TypesInv, NEW c \in Calls, NEW x, call' = [call EXCEPT ![c] = x],
           NEW at, NEW kind, NEW run, NEW s, NEW copy, NEW todo, NEW listed, NEW next,
           Called(x, at, kind, run, s, copy, todo, listed, next)
    PROVE  Moved(c, at, kind, run, s, copy, todo, listed, next)
  BY SetCall DEF Moved

LEMMA AbsentRow == NoRun \in Rows /\ NoSource \in SourceRows
  <1>1. NoRun \in Rows
    BY DEF NoRun, Rows, Statuses, Terminal
  <1>2. NoSource \in SourceRows
    BY Bounds DEF NoSource, SourceRows
  <1> QED BY <1>1, <1>2

LEMMA IdleRow ==
    ASSUME NEW at \in Places, NEW kind \in {"sync", "retry"}, NEW run \in Calls,
           NEW s \in SourceRows
    PROVE  /\ Called([Idle EXCEPT !.at = at, !.run = run], at, "sync", run, NoSource, NoRun, {}, 0, 0)
           /\ Called([Idle EXCEPT !.at = at, !.run = run, !.source = s],
                     at, "sync", run, s, NoRun, {}, 0, 0)
           /\ Called([Idle EXCEPT !.at = at, !.kind = kind, !.run = run, !.source = s],
                     at, kind, run, s, NoRun, {}, 0, 0)
  <1>1. Called(Idle, "idle", "sync", 1, NoSource, NoRun, {}, 0, 0)
    BY AbsentRow, Bounds DEF Called, CallRows, Idle, Places, Calls
  <1>2. ASSUME NEW x \in CallRows
        PROVE  Called([x EXCEPT !.at = at, !.run = run],
                      at, x.kind, run, x.source, x.copy, x.todo, x.listed, x.next)
    BY DEF Called, CallRows
  <1>3. ASSUME NEW x \in CallRows
        PROVE  Called([x EXCEPT !.at = at, !.run = run, !.source = s],
                      at, x.kind, run, s, x.copy, x.todo, x.listed, x.next)
    BY DEF Called, CallRows
  <1>4. ASSUME NEW x \in CallRows
        PROVE  Called([x EXCEPT !.at = at, !.kind = kind, !.run = run, !.source = s],
                      at, kind, run, s, x.copy, x.todo, x.listed, x.next)
    BY DEF Called, CallRows
  <1>5. Idle \in CallRows /\ Idle.kind = "sync" /\ Idle.source = NoSource /\ Idle.copy = NoRun
        /\ Idle.todo = {} /\ Idle.listed = 0 /\ Idle.next = 0
    BY <1>1 DEF Called
  <1>6. Called([Idle EXCEPT !.at = at, !.run = run], at, "sync", run, NoSource, NoRun, {}, 0, 0)
    BY <1>2, <1>5
  <1>7. Called([Idle EXCEPT !.at = at, !.run = run, !.source = s],
               at, "sync", run, s, NoRun, {}, 0, 0)
    BY <1>3, <1>5
  <1>8. Called([Idle EXCEPT !.at = at, !.kind = kind, !.run = run, !.source = s],
               at, kind, run, s, NoRun, {}, 0, 0)
    BY <1>4, <1>5
  <1> QED BY <1>6, <1>7, <1>8

LEMMA EndMoves ==
    ASSUME TypesInv, NEW c \in Calls, End(c)
    PROVE  Moved(c, "done", "sync", call[c].run, NoSource, NoRun, {}, 0, 0)
  <1>1. call[c].run \in Calls /\ "done" \in Places
    BY CallFields DEF TypesInv, CallOK, Places
  <1>2. call' = [call EXCEPT ![c] = [Idle EXCEPT !.at = "done", !.run = call[c].run]]
    BY DEF End
  <1>3. Called([Idle EXCEPT !.at = "done", !.run = call[c].run],
               "done", "sync", call[c].run, NoSource, NoRun, {}, 0, 0)
    BY <1>1, IdleRow, AbsentRow
  <1> QED BY <1>2, <1>3, MoveTo

LEMMA SyncLoadMoves ==
    ASSUME TypesInv, NEW c \in Calls, SyncLoad(c)
    PROVE  Moved(c, "start", "sync", c, source, NoRun, {}, 0, 0)
  <1>1. source \in SourceRows /\ "start" \in Places
    BY DEF TypesInv, SourceOK, Places
  <1>2. call' = [call EXCEPT ![c] = [Idle EXCEPT !.at = "start", !.run = c, !.source = source]]
    BY DEF SyncLoad
  <1>3. Called([Idle EXCEPT !.at = "start", !.run = c, !.source = source],
               "start", "sync", c, source, NoRun, {}, 0, 0)
    BY <1>1, IdleRow
  <1> QED BY <1>2, <1>3, MoveTo

LEMMA RetryLoadMoves ==
    ASSUME TypesInv, NEW c \in Calls, NEW r \in Calls, RetryLoad(c, r)
    PROVE  Moved(c, "loadrun", "retry", r, source, NoRun, {}, 0, 0)
  <1>1. source \in SourceRows /\ "loadrun" \in Places
    BY DEF TypesInv, SourceOK, Places
  <1>2. call' = [call EXCEPT ![c] = [Idle EXCEPT !.at = "loadrun", !.kind = "retry", !.run = r,
                                                 !.source = source]]
    BY DEF RetryLoad
  <1>3. Called([Idle EXCEPT !.at = "loadrun", !.kind = "retry", !.run = r, !.source = source],
               "loadrun", "retry", r, source, NoRun, {}, 0, 0)
    BY <1>1, IdleRow
  <1> QED BY <1>2, <1>3, MoveTo

\* The rows a call saves.
Marked(run, n) == [run EXCEPT !.total = n, !.status = IF n = 0 THEN "COMPLETED" ELSE "INGESTING"]
SyncSaves(x) == [WithCursor(x.source, x.copy, x.next) EXCEPT !.status = "IDLE"]
RetrySaves(x) == [Promoted(x.source, x.copy) EXCEPT !.status = "IDLE"]

SourceMade(s, st, n, m) == s \in SourceRows /\ s.status = st /\ s.cursor = n /\ s.pending = m
LEMMA SourceExcept ==
    ASSUME NEW s \in SourceRows, NEW st \in {"ABSENT", "IDLE", "SYNCING", "FAILED"},
           NEW n \in 0..MaxChanges + 1, NEW m \in 0..MaxChanges + 1
    PROVE  /\ SourceMade([s EXCEPT !.status = st], st, s.cursor, s.pending)
           /\ SourceMade([s EXCEPT !.pending = m], s.status, s.cursor, m)
           /\ SourceMade([s EXCEPT !.cursor = n, !.pending = m], s.status, n, m)
  <1>1. SourceMade([s EXCEPT !.status = st], st, s.cursor, s.pending)
    BY DEF SourceMade, SourceRows
  <1>2. SourceMade([s EXCEPT !.pending = m], s.status, s.cursor, m)
    BY DEF SourceMade, SourceRows
  <1>3. SourceMade([s EXCEPT !.cursor = n, !.pending = m], s.status, n, m)
    BY DEF SourceMade, SourceRows
  <1> QED BY <1>1, <1>2, <1>3

LEMMA SourceFieldsOf ==
    ASSUME NEW s \in SourceRows
    PROVE  s.status \in {"ABSENT", "IDLE", "SYNCING", "FAILED"} /\ s.cursor \in 0..MaxChanges + 1
           /\ s.pending \in 0..MaxChanges + 1
  BY DEF SourceRows

LEMMA SourceStatus ==
    ASSUME NEW s \in SourceRows, NEW st \in {"ABSENT", "IDLE", "SYNCING", "FAILED"}
    PROVE  SourceMade([s EXCEPT !.status = st], st, s.cursor, s.pending)
           /\ [s EXCEPT !.status = st] \in SourceRows
  <1>1. SourceMade([s EXCEPT !.status = st], st, s.cursor, s.pending)
    BY DEF SourceMade, SourceRows
  <1>2. [s EXCEPT !.status = st] \in SourceRows
    BY DEF SourceRows
  <1> QED BY <1>1, <1>2

LEMMA SavedRow ==
    ASSUME NEW x \in CallRows
    PROVE  /\ SourceMade(SyncSaves(x), "IDLE",
                         IF x.copy.failed > 0 THEN x.source.cursor ELSE x.next,
                         IF x.copy.failed > 0 THEN x.next ELSE 0)
           /\ SourceMade(RetrySaves(x), "IDLE",
                         IF x.copy.failed = 0 /\ x.source.pending # 0 THEN x.source.pending
                         ELSE x.source.cursor,
                         IF x.copy.failed = 0 THEN 0 ELSE x.source.pending)
           /\ SyncSaves(x) \in SourceRows /\ RetrySaves(x) \in SourceRows
  <1>1. /\ x.source \in SourceRows /\ x.next \in 0..MaxChanges + 1 /\ 0 \in 0..MaxChanges + 1
        /\ x.source.cursor \in 0..MaxChanges + 1 /\ x.source.pending \in 0..MaxChanges + 1
        /\ x.copy.failed \in Nat
    BY CallFields, SourceFieldsOf, RowFields, Bounds
  <1>2. SourceMade(SyncSaves(x), "IDLE", IF x.copy.failed > 0 THEN x.source.cursor ELSE x.next,
                   IF x.copy.failed > 0 THEN x.next ELSE 0)
    <2> DEFINE s == WithCursor(x.source, x.copy, x.next)
    <2>1. SourceMade(s, x.source.status, IF x.copy.failed > 0 THEN x.source.cursor ELSE x.next,
                     IF x.copy.failed > 0 THEN x.next ELSE 0)
      BY <1>1, SourceExcept, SourceFieldsOf DEF WithCursor
    <2>2. SyncSaves(x) = [s EXCEPT !.status = "IDLE"]
      BY DEF SyncSaves
    <2> HIDE DEF s
    <2>3. s \in SourceRows
      BY <2>1 DEF SourceMade
    <2>4. SourceMade([s EXCEPT !.status = "IDLE"], "IDLE", s.cursor, s.pending)
      BY <2>3, SourceStatus
    <2> QED BY <2>1, <2>2, <2>4 DEF SourceMade
  <1>3. SourceMade(RetrySaves(x), "IDLE",
                   IF x.copy.failed = 0 /\ x.source.pending # 0 THEN x.source.pending
                   ELSE x.source.cursor,
                   IF x.copy.failed = 0 THEN 0 ELSE x.source.pending)
    <2> DEFINE s == Promoted(x.source, x.copy)
    <2>1. SourceMade(s, x.source.status,
                     IF x.copy.failed = 0 /\ x.source.pending # 0 THEN x.source.pending
                     ELSE x.source.cursor,
                     IF x.copy.failed = 0 THEN 0 ELSE x.source.pending)
      <3>1. CASE x.copy.failed = 0 /\ x.source.pending # 0
        <4>1. s = [x.source EXCEPT !.cursor = x.source.pending, !.pending = 0]
          BY <3>1 DEF Promoted
        <4>2. SourceMade([x.source EXCEPT !.cursor = x.source.pending, !.pending = 0],
                         x.source.status, x.source.pending, 0)
          BY <1>1, SourceExcept, SourceFieldsOf
        <4> QED BY <3>1, <4>1, <4>2
      <3>2. CASE ~(x.copy.failed = 0 /\ x.source.pending # 0)
        <4>1. s = x.source
          BY <3>2 DEF Promoted
        <4>2. SourceMade(x.source, x.source.status, x.source.cursor, x.source.pending)
          BY <1>1 DEF SourceMade
        <4> QED BY <3>2, <4>1, <4>2
      <3> QED BY <3>1, <3>2
    <2>2. RetrySaves(x) = [s EXCEPT !.status = "IDLE"]
      BY DEF RetrySaves
    <2> HIDE DEF s
    <2>3. s \in SourceRows
      BY <2>1 DEF SourceMade
    <2>4. SourceMade([s EXCEPT !.status = "IDLE"], "IDLE", s.cursor, s.pending)
      BY <2>3, SourceStatus
    <2> QED BY <2>1, <2>2, <2>4 DEF SourceMade
  <1> QED BY <1>2, <1>3 DEF SourceMade

LEMMA MarkedRow ==
    ASSUME NEW x \in Rows, NEW n \in Nat
    PROVE  \E st \in Statuses : Made(Marked(x, n), st, n, x.indexed, x.failed, x.summary)
           /\ Marked(x, n) \in Rows
  <1> DEFINE st == IF n = 0 THEN "COMPLETED" ELSE "INGESTING"
  <1>1. st \in Statuses
    BY DEF Statuses, Terminal
  <1>2. Marked(x, n) = [x EXCEPT !.total = n, !.status = st]
    BY DEF Marked
  <1> HIDE DEF st
  <1>3. Made([x EXCEPT !.total = n, !.status = st], st, n, x.indexed, x.failed, x.summary)
    BY <1>1, RowExcept, RowFields
  <1> QED BY <1>1, <1>2, <1>3 DEF Made

LEMMA FeedItems ==
    ASSUME TypesInv
    PROVE  /\ DOMAIN feed \subseteq Items /\ Len(feed) \in 0..MaxChanges
           /\ Len(feed) + 1 \in 0..MaxChanges + 1 /\ DOMAIN feed = 1..Len(feed)
           /\ \A p \in DOMAIN feed : feed[p] \in Files
  BY Bounds DEF TypesInv, Items

\* A failure without a document, and one of a document.
LEMMA FileFailure ==
    ASSUME TypesInv, NEW p \in DOMAIN feed
    PROVE  /\ FailureOK(Failure(p, NoDoc))
           /\ Failure(p, NoDoc).item = p /\ Failure(p, NoDoc).doc = NoDoc
  BY FeedItems DEF FailureOK, Failure, Name, FailureRows

LEMMA DocFailure ==
    ASSUME TypesInv, NEW d \in docs
    PROVE  FailureOK(Failure(d[2], d)) /\ Failure(d[2], d).doc # NoDoc
  <1>1. d \in Calls \X Items /\ d[1] \in Calls /\ d[2] \in DOMAIN feed /\ d[2] \in Items
    BY FeedItems DEF TypesInv
  <1>2. d # NoDoc
    BY <1>1 DEF NoDoc, Calls
  <1> QED BY <1>1, <1>2 DEF FailureOK, Failure, Name, FailureRows

LEMMA RetryLoadRunMoves ==
    ASSUME TypesInv, NEW c \in Calls, RetryLoadRun(c)
    PROVE  \/ End(c)
           \/ Moved(c, "start", call[c].kind, call[c].run, call[c].source, runs[call[c].run],
                    runs[call[c].run].summary, call[c].listed, call[c].next)
  <1> SUFFICES ASSUME ~End(c) PROVE Moved(c, "start", call[c].kind, call[c].run, call[c].source,
        runs[call[c].run], runs[call[c].run].summary, call[c].listed, call[c].next)
    OBVIOUS
  <1> DEFINE run == runs[call[c].run]
  <1>1. call[c] \in CallRows /\ run \in Rows /\ "start" \in Places /\ run.summary \in Todos
    BY CallFields, RowFields DEF TypesInv, CallOK, RunOK, Places, Todos
  <1>2. call' = [call EXCEPT ![c] = [call[c] EXCEPT !.at = "start", !.copy = run, !.todo = run.summary]]
    BY DEF RetryLoadRun
  <1> HIDE DEF run
  <1>3. Called([call[c] EXCEPT !.at = "start", !.copy = run, !.todo = run.summary],
               "start", call[c].kind, call[c].run, call[c].source, run, run.summary,
               call[c].listed, call[c].next)
    BY <1>1, CallPlaceCopyTodo
  <1>4. Moved(c, "start", call[c].kind, call[c].run, call[c].source, run, run.summary,
              call[c].listed, call[c].next)
    BY <1>2, <1>3, MoveTo
  <1> QED BY <1>4 DEF run

LEMMA StartMoves ==
    ASSUME TypesInv, NEW c \in Calls, Start(c)
    PROVE  Moved(c, IF call[c].kind = "sync" THEN "create" ELSE "mark", call[c].kind, call[c].run,
                 [call[c].source EXCEPT !.status = "SYNCING"], call[c].copy, call[c].todo,
                 call[c].listed, call[c].next)
  <1> DEFINE at == IF call[c].kind = "sync" THEN "create" ELSE "mark"
             started == [call[c].source EXCEPT !.status = "SYNCING"]
  <1>1. call[c] \in CallRows /\ started \in SourceRows /\ at \in Places
    BY SourceStatus, CallFields DEF TypesInv, CallOK, Places
  <1>2. call' = [call EXCEPT ![c] = [call[c] EXCEPT !.at = at, !.source = started]]
    BY DEF Start
  <1> HIDE DEF at, started
  <1>3. Called([call[c] EXCEPT !.at = at, !.source = started], at, call[c].kind, call[c].run, started,
               call[c].copy, call[c].todo, call[c].listed, call[c].next)
    BY <1>1, CallPlaceSource
  <1>4. Moved(c, at, call[c].kind, call[c].run, started, call[c].copy, call[c].todo, call[c].listed,
              call[c].next)
    BY <1>2, <1>3, MoveTo
  <1> QED BY <1>4 DEF at, started

LEMMA CreateRunMoves ==
    ASSUME TypesInv, NEW c \in Calls, CreateRun(c)
    PROVE  Moved(c, "fetch", call[c].kind, call[c].run, call[c].source,
                 [NoRun EXCEPT !.status = "EXTRACTING"], call[c].todo, call[c].listed, call[c].next)
  <1>1. call[c] \in CallRows /\ [NoRun EXCEPT !.status = "EXTRACTING"] \in Rows /\ "fetch" \in Places
    BY RowStatus, AbsentRow DEF TypesInv, CallOK, Places, Statuses
  <1>2. call' = [call EXCEPT ![c] = [call[c] EXCEPT !.at = "fetch",
                                                    !.copy = [NoRun EXCEPT !.status = "EXTRACTING"]]]
    BY DEF CreateRun, SaveRun, TypesInv
  <1>3. Called([call[c] EXCEPT !.at = "fetch", !.copy = [NoRun EXCEPT !.status = "EXTRACTING"]],
               "fetch", call[c].kind, call[c].run, call[c].source,
               [NoRun EXCEPT !.status = "EXTRACTING"], call[c].todo, call[c].listed, call[c].next)
    BY <1>1, CallPlaceCopy
  <1> QED BY <1>2, <1>3, MoveTo

LEMMA FetchDeltaMoves ==
    ASSUME TypesInv, NEW c \in Calls, FetchDelta(c)
    PROVE  Moved(c, "ingest", call[c].kind, call[c].run, call[c].source, call[c].copy,
                 Delta(call[c].source.cursor), call[c].listed, Len(feed) + 1)
  <1>1. call[c] \in CallRows /\ "ingest" \in Places /\ Delta(call[c].source.cursor) \in Todos
        /\ Len(feed) + 1 \in 0..MaxChanges + 1
    BY Bounds, FeedItems DEF TypesInv, CallOK, Places, Todos, Delta, LatestChanges
  <1>2. call' = [call EXCEPT ![c] = [call[c] EXCEPT !.at = "ingest",
                                                    !.todo = Delta(call[c].source.cursor),
                                                    !.next = Len(feed) + 1]]
    BY DEF FetchDelta
  <1>3. Called([call[c] EXCEPT !.at = "ingest",
                               !.todo = Delta(call[c].source.cursor), !.next = Len(feed) + 1],
               "ingest", call[c].kind, call[c].run, call[c].source, call[c].copy,
               Delta(call[c].source.cursor), call[c].listed, Len(feed) + 1)
    BY <1>1, CallPlaceTodoNext
  <1> QED BY <1>2, <1>3, MoveTo

LEMMA ListFolderMoves ==
    ASSUME TypesInv, NEW c \in Calls, ListFolder(c)
    PROVE  Moved(c, "token", call[c].kind, call[c].run, call[c].source, call[c].copy, LatestChanges,
                 Len(feed), call[c].next)
  <1>1. call[c] \in CallRows /\ "token" \in Places /\ LatestChanges \in Todos /\ Len(feed) \in 0..MaxChanges
    BY Bounds, FeedItems DEF TypesInv, CallOK, Places, Todos, LatestChanges
  <1>2. call' = [call EXCEPT ![c] = [call[c] EXCEPT !.at = "token",
                                                    !.todo = LatestChanges, !.listed = Len(feed)]]
    BY DEF ListFolder
  <1>3. Called([call[c] EXCEPT !.at = "token", !.todo = LatestChanges, !.listed = Len(feed)],
               "token", call[c].kind, call[c].run, call[c].source, call[c].copy, LatestChanges,
               Len(feed), call[c].next)
    BY <1>1, CallPlaceTodoListed
  <1> QED BY <1>2, <1>3, MoveTo

LEMMA GetStartPageTokenMoves ==
    ASSUME TypesInv, NEW c \in Calls, GetStartPageToken(c)
    PROVE  Moved(c, "ingest", call[c].kind, call[c].run, call[c].source, call[c].copy, call[c].todo,
                 0, Len(feed) + 1)
  <1>1. call[c] \in CallRows /\ "ingest" \in Places /\ 0 \in 0..MaxChanges
        /\ Len(feed) + 1 \in 0..MaxChanges + 1
    BY Bounds, FeedItems DEF TypesInv, CallOK, Places
  <1>2. call' = [call EXCEPT ![c] = [call[c] EXCEPT !.at = "ingest", !.listed = 0, !.next = Len(feed) + 1]]
    BY DEF GetStartPageToken
  <1>3. Called([call[c] EXCEPT !.at = "ingest", !.listed = 0, !.next = Len(feed) + 1],
               "ingest", call[c].kind, call[c].run, call[c].source, call[c].copy, call[c].todo, 0,
               Len(feed) + 1)
    BY <1>1, CallPlaceListedNext
  <1> QED BY <1>2, <1>3, MoveTo

LEMMA MarkIngestingMoves ==
    ASSUME TypesInv, NEW c \in Calls, MarkIngesting(c)
    PROVE  Moved(c, "items", call[c].kind, call[c].run, call[c].source,
                 Marked(call[c].copy, Cardinality(call[c].todo)), call[c].todo, call[c].listed,
                 call[c].next)
  <1>1. call[c] \in CallRows /\ "items" \in Places
        /\ Marked(call[c].copy, Cardinality(call[c].todo)) \in Rows
    BY MarkedRow, FS_CardinalityType DEF TypesInv, CallOK, Places, RunOK
  <1>2. call' = [call EXCEPT ![c] = [call[c] EXCEPT !.at = "items",
                                                    !.copy = Marked(call[c].copy, Cardinality(call[c].todo))]]
    BY DEF MarkIngesting, Marked
  <1>3. Called([call[c] EXCEPT !.at = "items", !.copy = Marked(call[c].copy, Cardinality(call[c].todo))],
               "items", call[c].kind, call[c].run, call[c].source,
               Marked(call[c].copy, Cardinality(call[c].todo)), call[c].todo, call[c].listed, call[c].next)
    BY <1>1, CallPlaceCopy
  <1> QED BY <1>2, <1>3, MoveTo

LEMMA ItemAttachedMoves ==
    ASSUME TypesInv, NEW c \in Calls, NEW p, ItemAttached(c, p)
    PROVE  Moved(c, call[c].at, call[c].kind, call[c].run, call[c].source, call[c].copy,
                 call[c].todo \ {p}, call[c].listed, call[c].next)
  <1>1. call[c] \in CallRows /\ call[c].todo \ {p} \in Todos
    BY CallFields DEF TypesInv, CallOK, Todos
  <1>2. call' = [call EXCEPT ![c] = [call[c] EXCEPT !.todo = call[c].todo \ {p}]]
    BY DEF ItemAttached
  <1>3. Called([call[c] EXCEPT !.todo = call[c].todo \ {p}],
               call[c].at, call[c].kind, call[c].run, call[c].source, call[c].copy,
               call[c].todo \ {p}, call[c].listed, call[c].next)
    BY <1>1, CallExceptTodo
  <1> QED BY <1>2, <1>3, MoveTo

LEMMA ItemFailsMoves ==
    ASSUME TypesInv, NEW c \in Calls, NEW p \in DOMAIN feed, ItemFails(c, p)
    PROVE  Moved(c, call[c].at, call[c].kind, call[c].run, call[c].source,
                 RecordFailed(call[c].copy, Failure(p, NoDoc)), call[c].todo \ {p}, call[c].listed,
                 call[c].next)
  <1>1. call[c] \in CallRows /\ call[c].todo \ {p} \in Todos
        /\ RecordFailed(call[c].copy, Failure(p, NoDoc)) \in Rows
    BY CallFields, FileFailure, RunRecordFailed DEF TypesInv, CallOK, Todos, RunOK
  <1>2. call' = [call EXCEPT ![c] = [call[c] EXCEPT !.todo = call[c].todo \ {p},
                                                    !.copy = RecordFailed(call[c].copy, Failure(p, NoDoc))]]
    BY DEF ItemFails, LocalFailure
  <1>3. Called([call[c] EXCEPT !.todo = call[c].todo \ {p},
                               !.copy = RecordFailed(call[c].copy, Failure(p, NoDoc))],
               call[c].at, call[c].kind, call[c].run, call[c].source,
               RecordFailed(call[c].copy, Failure(p, NoDoc)), call[c].todo \ {p}, call[c].listed,
               call[c].next)
    BY <1>1, CallTodoCopy
  <1> QED BY <1>2, <1>3, MoveTo

LEMMA ItemFailsAttachedMoves ==
    ASSUME TypesInv, NEW c \in Calls, NEW p \in DOMAIN feed, ItemFailsAttached(c, p)
    PROVE  Moved(c, call[c].at, call[c].kind, call[c].run, call[c].source,
                 RecordFailed(call[c].copy, Failure(p, NoDoc)), call[c].todo \ {p}, call[c].listed,
                 call[c].next)
  <1>1. call[c] \in CallRows /\ call[c].todo \ {p} \in Todos
        /\ RecordFailed(call[c].copy, Failure(p, NoDoc)) \in Rows
    BY CallFields, FileFailure, RunRecordFailed DEF TypesInv, CallOK, Todos, RunOK
  <1>2. call' = [call EXCEPT ![c] = [call[c] EXCEPT !.todo = call[c].todo \ {p},
                                                    !.copy = RecordFailed(call[c].copy, Failure(p, NoDoc))]]
    BY DEF ItemFailsAttached, LocalFailure
  <1>3. Called([call[c] EXCEPT !.todo = call[c].todo \ {p},
                               !.copy = RecordFailed(call[c].copy, Failure(p, NoDoc))],
               call[c].at, call[c].kind, call[c].run, call[c].source,
               RecordFailed(call[c].copy, Failure(p, NoDoc)), call[c].todo \ {p}, call[c].listed,
               call[c].next)
    BY <1>1, CallTodoCopy
  <1> QED BY <1>2, <1>3, MoveTo

LEMMA MergeRunMoves ==
    ASSUME TypesInv, NEW c \in Calls, MergeRun(c)
    PROVE  \E new \in Joining(runs[c], call[c].copy.summary) :
              /\ IsFiniteSet(new) /\ new \subseteq call[c].copy.summary
              /\ Cardinality(new) <= Cardinality(call[c].copy.summary)
              /\ RunOK(Merges(c, new))
              /\ Moved(c, "source", call[c].kind, call[c].run, call[c].source, Merges(c, new),
                       call[c].todo, call[c].listed, call[c].next)
              /\ shadowed' = (shadowed \/ Unlisted(call[c].copy.summary, Merges(c, new).summary))
  <1>1. PICK new \in Joining(runs[c], call[c].copy.summary) :
            /\ call' = [call EXCEPT ![c] = [call[c] EXCEPT !.at = "source", !.copy = Merges(c, new)]]
            /\ shadowed' = (shadowed \/ Unlisted(call[c].copy.summary, Merges(c, new).summary))
    BY DEF MergeRun, Merges
  <1> DEFINE run == Merges(c, new)
  <1>2. /\ RunOK(call[c].copy) /\ RunOK(runs[c]) /\ IsFiniteSet(call[c].copy.summary)
        /\ \A f \in call[c].copy.summary : FailureOK(f)
    BY DEF TypesInv, CallOK, RunOK
  <1>3. /\ IsFiniteSet(new) /\ new \subseteq call[c].copy.summary
        /\ Cardinality(new) <= Cardinality(call[c].copy.summary)
    BY <1>2, JoiningOnes
  <1>4. RunOK(run)
    BY <1>2, <1>3, RunMerged DEF Merges
  <1>5. call[c] \in CallRows /\ "source" \in Places /\ run \in Rows
    BY <1>4, CallFields DEF TypesInv, CallOK, Places, RunOK
  <1> HIDE DEF run
  <1>6. Called([call[c] EXCEPT !.at = "source", !.copy = run],
               "source", call[c].kind, call[c].run, call[c].source, run,
               call[c].todo, call[c].listed, call[c].next)
    BY <1>5, CallPlaceCopy
  <1>7. Moved(c, "source", call[c].kind, call[c].run, call[c].source, run,
              call[c].todo, call[c].listed, call[c].next)
    BY <1>1, <1>6, MoveTo DEF run
  <1> QED BY <1>1, <1>3, <1>4, <1>7 DEF run

LEMMA SaveSourceMoves ==
    ASSUME TypesInv, NEW c \in Calls, SaveSource(c)
    PROVE  Moved(c, "run", call[c].kind, call[c].run, SyncSaves(call[c]), call[c].copy,
                 call[c].todo, call[c].listed, call[c].next)
  <1>1. call[c] \in CallRows /\ "run" \in Places /\ SyncSaves(call[c]) \in SourceRows
    BY SavedRow DEF TypesInv, CallOK, Places
  <1>2. call' = [call EXCEPT ![c] = [call[c] EXCEPT !.at = "run", !.source = SyncSaves(call[c])]]
    BY DEF SaveSource, SyncSaves
  <1>3. Called([call[c] EXCEPT !.at = "run", !.source = SyncSaves(call[c])],
               "run", call[c].kind, call[c].run, SyncSaves(call[c]), call[c].copy, call[c].todo,
               call[c].listed, call[c].next)
    BY <1>1, CallPlaceSource
  <1> QED BY <1>2, <1>3, MoveTo

LEMMA MarkRetryingMoves ==
    ASSUME TypesInv, NEW c \in Calls, MarkRetrying(c)
    PROVE  Moved(c, "retry", call[c].kind, call[c].run, call[c].source,
                 [call[c].copy EXCEPT !.status = "INGESTING"], call[c].todo, call[c].listed, call[c].next)
  <1>1. call[c] \in CallRows /\ "retry" \in Places /\ [call[c].copy EXCEPT !.status = "INGESTING"] \in Rows
    BY CallFields, RowStatus DEF TypesInv, CallOK, Places, Statuses
  <1>2. call' = [call EXCEPT ![c] = [call[c] EXCEPT !.at = "retry",
                                                    !.copy = [call[c].copy EXCEPT !.status = "INGESTING"]]]
    BY DEF MarkRetrying
  <1>3. Called([call[c] EXCEPT !.at = "retry", !.copy = [call[c].copy EXCEPT !.status = "INGESTING"]],
               "retry", call[c].kind, call[c].run, call[c].source,
               [call[c].copy EXCEPT !.status = "INGESTING"], call[c].todo, call[c].listed, call[c].next)
    BY <1>1, CallPlaceCopy
  <1> QED BY <1>2, <1>3, MoveTo

LEMMA RetryReprocessedMoves ==
    ASSUME TypesInv, NEW c \in Calls, NEW f, RetryReprocessed(c, f)
    PROVE  Moved(c, call[c].at, call[c].kind, call[c].run, call[c].source,
                 ResolveSuccess(call[c].copy, f.name), call[c].todo \ {f}, call[c].listed, call[c].next)
  <1>1. call[c] \in CallRows /\ call[c].todo \ {f} \in Todos
        /\ ResolveSuccess(call[c].copy, f.name) \in Rows
    BY CallFields, RunResolve DEF TypesInv, CallOK, Todos, RunOK
  <1>2. call' = [call EXCEPT ![c] = [call[c] EXCEPT !.todo = call[c].todo \ {f},
                                                    !.copy = ResolveSuccess(call[c].copy, f.name)]]
    BY DEF RetryReprocessed, Resolve
  <1>3. Called([call[c] EXCEPT !.todo = call[c].todo \ {f}, !.copy = ResolveSuccess(call[c].copy, f.name)],
               call[c].at, call[c].kind, call[c].run, call[c].source,
               ResolveSuccess(call[c].copy, f.name), call[c].todo \ {f}, call[c].listed, call[c].next)
    BY <1>1, CallTodoCopy
  <1> QED BY <1>2, <1>3, MoveTo

LEMMA RetryAttachedMoves ==
    ASSUME TypesInv, NEW c \in Calls, NEW f, RetryAttached(c, f)
    PROVE  Moved(c, call[c].at, call[c].kind, call[c].run, call[c].source,
                 ResolveSuccess(call[c].copy, f.name), call[c].todo \ {f}, call[c].listed, call[c].next)
  <1>1. call[c] \in CallRows /\ call[c].todo \ {f} \in Todos
        /\ ResolveSuccess(call[c].copy, f.name) \in Rows
    BY CallFields, RunResolve DEF TypesInv, CallOK, Todos, RunOK
  <1>2. call' = [call EXCEPT ![c] = [call[c] EXCEPT !.todo = call[c].todo \ {f},
                                                    !.copy = ResolveSuccess(call[c].copy, f.name)]]
    BY DEF RetryAttached, Resolve
  <1>3. Called([call[c] EXCEPT !.todo = call[c].todo \ {f}, !.copy = ResolveSuccess(call[c].copy, f.name)],
               call[c].at, call[c].kind, call[c].run, call[c].source,
               ResolveSuccess(call[c].copy, f.name), call[c].todo \ {f}, call[c].listed, call[c].next)
    BY <1>1, CallTodoCopy
  <1> QED BY <1>2, <1>3, MoveTo

LEMMA RetryItemFailsMoves ==
    ASSUME TypesInv, NEW c \in Calls, NEW f, RetryItemFails(c, f)
    PROVE  Moved(c, call[c].at, call[c].kind, call[c].run, call[c].source, call[c].copy,
                 call[c].todo \ {f}, call[c].listed, call[c].next)
  <1>1. call[c] \in CallRows /\ call[c].todo \ {f} \in Todos
    BY CallFields DEF TypesInv, CallOK, Todos
  <1>2. call' = [call EXCEPT ![c] = [call[c] EXCEPT !.todo = call[c].todo \ {f}]]
    BY DEF RetryItemFails
  <1>3. Called([call[c] EXCEPT !.todo = call[c].todo \ {f}],
               call[c].at, call[c].kind, call[c].run, call[c].source, call[c].copy,
               call[c].todo \ {f}, call[c].listed, call[c].next)
    BY <1>1, CallExceptTodo
  <1> QED BY <1>2, <1>3, MoveTo

LEMMA RetrySaveSourceMoves ==
    ASSUME TypesInv, NEW c \in Calls, RetrySaveSource(c)
    PROVE  Moved(c, "run", call[c].kind, call[c].run, RetrySaves(call[c]), call[c].copy,
                 call[c].todo, call[c].listed, call[c].next)
  <1>1. call[c] \in CallRows /\ "run" \in Places /\ RetrySaves(call[c]) \in SourceRows
    BY SavedRow DEF TypesInv, CallOK, Places
  <1>2. call' = [call EXCEPT ![c] = [call[c] EXCEPT !.at = "run", !.source = RetrySaves(call[c])]]
    BY DEF RetrySaveSource, RetrySaves
  <1>3. Called([call[c] EXCEPT !.at = "run", !.source = RetrySaves(call[c])],
               "run", call[c].kind, call[c].run, RetrySaves(call[c]), call[c].copy, call[c].todo,
               call[c].listed, call[c].next)
    BY <1>1, CallPlaceSource
  <1> QED BY <1>2, <1>3, MoveTo
-----------------------------------------------------------------------------
(* Every step keeps the types. *)

LEMMA SameGrown ==
    ASSUME TypesInv, UNCHANGED <<feed, docs>>
    PROVE  Grown
  BY FeedItems DEF TypesInv, Grown

LEMMA AttachGrows ==
    ASSUME TypesInv, NEW c \in Calls, NEW p \in DOMAIN feed, feed' = feed, AttachDoc(c, p)
    PROVE  Grown /\ open' \subseteq docs'
  <1>1. <<c, p>> \in Calls \X Items /\ <<c, p>>[2] \in DOMAIN feed
    BY FeedItems
  <1>2. IsFiniteSet(docs \cup {<<c, p>>})
    BY FS_AddElement DEF TypesInv
  <1> QED BY <1>1, <1>2, FeedItems DEF TypesInv, Grown, AttachDoc

LEMMA NoRowOK == RunOK(NoRun) /\ (TypesInv => SourceOK(NoSource))
  <1>1. RunOK(NoRun)
    BY AbsentRow, FS_EmptySet DEF RunOK, NoRun
  <1>2. TypesInv => SourceOK(NoSource)
    BY AbsentRow, FeedItems DEF SourceOK, NoSource
  <1> QED BY <1>1, <1>2

RowsKept == DOMAIN runs' = Calls /\ \A r \in Calls : RunOK(runs'[r])
LEMMA RowKept ==
    ASSUME TypesInv, NEW r \in Calls, NEW y, RunOK(y), runs' = [runs EXCEPT ![r] = y]
    PROVE  RowsKept
  BY DEF TypesInv, RowsKept
LEMMA RowsSame ==
    ASSUME TypesInv, runs' = runs
    PROVE  RowsKept
  BY DEF TypesInv, RowsKept

Legal(at, kind, todo) ==
    /\ IsFiniteSet(todo)
    /\ IF kind = "sync" THEN todo \subseteq DOMAIN feed ELSE \A f \in todo : FailureOK(f)
    /\ kind = "sync" => at \notin {"loadrun", "mark", "retry"}
    /\ kind = "retry" => at \in {"loadrun", "start", "mark", "retry", "run"}
LEMMA CallMade ==
    ASSUME TypesInv, Grown, NEW x,
           NEW at, NEW kind, NEW run, NEW s, NEW copy, NEW todo, NEW listed, NEW next,
           Called(x, at, kind, run, s, copy, todo, listed, next),
           RunOK(copy), SourceOK(s), listed <= Len(feed), next <= Len(feed) + 1,
           Legal(at, kind, todo)
    PROVE  CallOK(x)
  BY DEF Called, Legal, CallOK

LEMMA CallStep ==
    ASSUME TypesInv, Grown, NEW c \in Calls,
           NEW at, NEW kind, NEW run, NEW s, NEW copy, NEW todo, NEW listed, NEW next,
           Moved(c, at, kind, run, s, copy, todo, listed, next),
           RunOK(copy), SourceOK(s), listed <= Len(feed), next <= Len(feed) + 1,
           Legal(at, kind, todo), kind = "sync" /\ at \notin {"idle", "done"} => run = c,
           SourceOK(source'), RowsKept, open' \subseteq docs', torn' \subseteq Calls
    PROVE  TypesInv'
  <1>1. PICK cs : cs = call'
    OBVIOUS
  <1>2. PICK rs : rs = runs'
    OBVIOUS
  <1>3. PICK z : z = source'
    OBVIOUS
  <1>4. \A d \in Calls : CallOK(cs[d])
    <2>1. CallOK(cs[c])
      BY <1>1, CallMade DEF Moved
    <2>2. ASSUME NEW d \in Calls \ {c} PROVE CallOK(cs[d])
      BY <1>1 DEF Moved, TypesInv
    <2> QED BY <2>1, <2>2
  <1>5. \A d \in Calls : CallOK(cs[d])'
    BY <1>4, CallStays
  <1>6. \A r \in Calls : RunOK(rs[r])'
    BY <1>2, RunStays DEF RowsKept
  <1>7. SourceOK(z)'
    BY <1>3, SourceStays
  <1>8. \A d \in Calls : cs[d].kind = "sync" /\ cs[d].at \notin {"idle", "done"} => cs[d].run = d
    BY <1>1 DEF Moved, Called, TypesInv
  <1>9. DOMAIN cs = Calls /\ DOMAIN rs = Calls
    BY <1>1, <1>2 DEF Moved, RowsKept
  <1>10. (\A r \in Calls : RunOK(runs[r]))'
    BY <1>2, <1>6 DEF RunOK
  <1>11. (\A d \in Calls : CallOK(call[d]))'
    BY <1>1, <1>5 DEF CallOK, RunOK, SourceOK
  <1>12. SourceOK(source)'
    BY <1>3, <1>7 DEF SourceOK
  <1> QED BY <1>1, <1>2, <1>8, <1>9, <1>10, <1>11, <1>12 DEF TypesInv, Grown

LEMMA RestStep ==
    ASSUME TypesInv, Grown, call' = call, SourceOK(source'), RowsKept, open' \subseteq docs',
           torn' \subseteq Calls
    PROVE  TypesInv'
  <1>2. PICK rs : rs = runs'
    OBVIOUS
  <1>1. PICK cs : cs = call
    OBVIOUS
  <1>3. PICK z : z = source'
    OBVIOUS
  <1>5. \A d \in Calls : CallOK(cs[d])'
    BY <1>1, CallStays DEF TypesInv
  <1>6. \A r \in Calls : RunOK(rs[r])'
    BY <1>2, RunStays DEF RowsKept
  <1>7. SourceOK(z)'
    BY <1>3, SourceStays
  <1>9. DOMAIN rs = Calls
    BY <1>2 DEF RowsKept
  <1>10. (\A r \in Calls : RunOK(runs[r]))'
    BY <1>2, <1>6 DEF RunOK
  <1>11. (\A d \in Calls : CallOK(call[d]))'
    BY <1>1, <1>5 DEF CallOK, RunOK, SourceOK
  <1>12. SourceOK(source)'
    BY <1>3, <1>7 DEF SourceOK
  <1> QED BY <1>1, <1>2, <1>9, <1>10, <1>11, <1>12 DEF TypesInv, Grown

LEMMA CallFacts ==
    ASSUME TypesInv, NEW c \in Calls
    PROVE  /\ call[c] \in CallRows /\ RunOK(call[c].copy) /\ SourceOK(call[c].source)
           /\ call[c].listed <= Len(feed) /\ call[c].next <= Len(feed) + 1
           /\ Legal(call[c].at, call[c].kind, call[c].todo)
           /\ call[c].kind = "sync" /\ call[c].at \notin {"idle", "done"} => call[c].run = c
           /\ call[c].run \in Calls /\ RunOK(runs[call[c].run]) /\ SourceOK(source)
           /\ Len(feed) \in Nat /\ 0 <= Len(feed) /\ 0 <= Len(feed) + 1
           /\ call[c].kind \in {"sync", "retry"}
  BY CallFields, FeedItems DEF TypesInv, CallOK, Legal

LEMMA NothingToDo == Legal("start", "sync", {}) /\ Legal("done", "sync", {})
                     /\ Legal("loadrun", "retry", {})
  BY FS_EmptySet DEF Legal

LEMMA EndTypes ==
    ASSUME TypesInv, NEW c \in Calls, End(c), UNCHANGED <<feed, docs, open>>, RowsKept,
           SourceOK(source'), torn' \subseteq Calls
    PROVE  TypesInv'
  <1>1. Moved(c, "done", "sync", call[c].run, NoSource, NoRun, {}, 0, 0)
    BY EndMoves
  <1>2. open' \subseteq docs' /\ Grown
    BY SameGrown DEF TypesInv
  <1> QED BY <1>1, <1>2, CallStep, CallFacts, NoRowOK, NothingToDo

\* The status of a data source, and nothing else, is replaced.
LEMMA SourceMarked ==
    ASSUME NEW s, SourceOK(s), NEW st \in {"ABSENT", "IDLE", "SYNCING", "FAILED"}
    PROVE  SourceOK([s EXCEPT !.status = st])
  <1> DEFINE z == [s EXCEPT !.status = st]
  <1>1. SourceMade(z, st, s.cursor, s.pending)
    BY SourceStatus DEF SourceOK
  <1> HIDE DEF z
  <1>2. SourceOK(z)
    BY <1>1 DEF SourceMade, SourceOK
  <1> QED BY <1>2 DEF z

LEMMA LoadTypes ==
    ASSUME TypesInv, NEW c \in Calls, SyncLoad(c) \/ \E r \in Calls : RetryLoad(c, r)
    PROVE  TypesInv'
  <1>1. Grown /\ RowsKept /\ open' \subseteq docs' /\ torn' \subseteq Calls /\ SourceOK(source')
    BY SameGrown, RowsSame, CallFacts DEF SyncLoad, RetryLoad, history, lasting, TypesInv
  <1>2. CASE SyncLoad(c)
    <2>1. Moved(c, "start", "sync", c, source, NoRun, {}, 0, 0)
      BY <1>2, SyncLoadMoves
    <2> QED BY <1>1, <2>1, CallStep, CallFacts, NoRowOK, NothingToDo
  <1>3. CASE \E r \in Calls : RetryLoad(c, r)
    <2>1. PICK r \in Calls : Moved(c, "loadrun", "retry", r, source, NoRun, {}, 0, 0)
      BY <1>3, RetryLoadMoves
    <2> QED BY <1>1, <2>1, CallStep, CallFacts, NoRowOK, NothingToDo
  <1> QED BY <1>2, <1>3

LEMMA RetryLoadRunTypes ==
    ASSUME TypesInv, NEW c \in Calls, RetryLoadRun(c)
    PROVE  TypesInv'
  <1>1. Grown /\ RowsKept /\ open' \subseteq docs' /\ torn' \subseteq Calls /\ SourceOK(source')
        /\ UNCHANGED <<feed, docs, open>>
    BY SameGrown, RowsSame, CallFacts DEF RetryLoadRun, TypesInv
  <1>2. CASE End(c)
    BY <1>1, <1>2, EndTypes
  <1>3. CASE ~End(c)
    <2> DEFINE run == runs[call[c].run]
    <2>1. Moved(c, "start", call[c].kind, call[c].run, call[c].source, run, run.summary,
                call[c].listed, call[c].next)
      BY <1>3, RetryLoadRunMoves
    <2>2. call[c].kind = "retry" /\ RunOK(run)
      BY CallFacts DEF RetryLoadRun, At, Legal
    <2>3. Legal("start", call[c].kind, run.summary)
      BY <2>2 DEF Legal, RunOK
    <2> HIDE DEF run
    <2> QED BY <1>1, <2>1, <2>2, <2>3, CallStep, CallFacts
  <1> QED BY <1>2, <1>3

LEMMA StartTypes ==
    ASSUME TypesInv, NEW c \in Calls, Start(c)
    PROVE  TypesInv'
  <1> DEFINE s == [call[c].source EXCEPT !.status = "SYNCING"]
             at == IF call[c].kind = "sync" THEN "create" ELSE "mark"
  <1>1. Grown /\ RowsKept /\ open' \subseteq docs' /\ torn' \subseteq Calls /\ source' = s
    BY SameGrown, RowsSame, CallFacts DEF Start, TypesInv, lasting
  <1>2. SourceOK(s)
    BY CallFacts, SourceMarked
  <1>3. Moved(c, at, call[c].kind, call[c].run, s, call[c].copy, call[c].todo,
              call[c].listed, call[c].next)
    BY StartMoves
  <1>4. Legal(at, call[c].kind, call[c].todo)
    BY CallFacts DEF Start, At, Legal
  <1>5. call[c].kind = "sync" => call[c].run = c
    BY CallFacts DEF Start, At
  <1> HIDE DEF s, at
  <1> QED BY <1>1, <1>2, <1>3, <1>4, <1>5, CallStep, CallFacts

LEMMA CreateRunTypes ==
    ASSUME TypesInv, NEW c \in Calls, CreateRun(c)
    PROVE  TypesInv'
  <1> DEFINE run == [NoRun EXCEPT !.status = "EXTRACTING"]
  <1>1. RunOK(run)
    BY NoRowOK, StatusKept DEF Statuses
  <1>2. Grown /\ open' \subseteq docs' /\ torn' \subseteq Calls /\ SourceOK(source')
    BY SameGrown, CallFacts DEF CreateRun, TypesInv, history, lasting
  <1>3. RowsKept
    BY <1>1, RowKept DEF CreateRun, SaveRun
  <1>4. Moved(c, "fetch", call[c].kind, call[c].run, call[c].source, run, call[c].todo,
              call[c].listed, call[c].next)
    BY CreateRunMoves
  <1>5. Legal("fetch", call[c].kind, call[c].todo) /\ (call[c].kind = "sync" => call[c].run = c)
    BY CallFacts DEF CreateRun, At, Legal
  <1> HIDE DEF run
  <1> QED BY <1>1, <1>2, <1>3, <1>4, <1>5, CallStep, CallFacts

LEMMA DeltaTypes ==
    ASSUME TypesInv
    PROVE  IsFiniteSet(LatestChanges) /\ LatestChanges \subseteq DOMAIN feed
           /\ \A n : IsFiniteSet(Delta(n)) /\ Delta(n) \subseteq DOMAIN feed
  <1>1. IsFiniteSet(DOMAIN feed)
    BY FeedItems, FS_Interval
  <1>2. LatestChanges \subseteq DOMAIN feed /\ \A n : Delta(n) \subseteq DOMAIN feed
    BY DEF LatestChanges, Delta
  <1> QED BY <1>1, <1>2, FS_Subset

LEMMA FetchTypes ==
    ASSUME TypesInv, NEW c \in Calls, FetchDelta(c) \/ ListFolder(c)
    PROVE  TypesInv'
  <1>1. Grown /\ RowsKept /\ open' \subseteq docs' /\ torn' \subseteq Calls /\ SourceOK(source')
    BY SameGrown, RowsSame, CallFacts DEF FetchDelta, ListFolder, TypesInv, history, lasting
  <1>2. call[c].kind = "sync" /\ call[c].run = c
    BY CallFacts DEF FetchDelta, ListFolder, At, Legal
  <1>3. CASE FetchDelta(c)
    <2>1. Moved(c, "ingest", call[c].kind, call[c].run, call[c].source, call[c].copy,
                Delta(call[c].source.cursor), call[c].listed, Len(feed) + 1)
      BY <1>3, FetchDeltaMoves
    <2>2. Legal("ingest", call[c].kind, Delta(call[c].source.cursor))
      BY <1>2, DeltaTypes DEF Legal
    <2> QED BY <1>1, <1>2, <2>1, <2>2, CallStep, CallFacts
  <1>4. CASE ListFolder(c)
    <2>1. Moved(c, "token", call[c].kind, call[c].run, call[c].source, call[c].copy,
                LatestChanges, Len(feed), call[c].next)
      BY <1>4, ListFolderMoves
    <2>2. Legal("token", call[c].kind, LatestChanges)
      BY <1>2, DeltaTypes DEF Legal
    <2> QED BY <1>1, <1>2, <2>1, <2>2, CallStep, CallFacts
  <1> QED BY <1>3, <1>4

LEMMA TokenTypes ==
    ASSUME TypesInv, NEW c \in Calls, GetStartPageToken(c)
    PROVE  TypesInv'
  <1>1. Grown /\ RowsKept /\ open' \subseteq docs' /\ torn' \subseteq Calls /\ SourceOK(source')
    BY SameGrown, RowsSame, CallFacts DEF GetStartPageToken, TypesInv, lasting
  <1>2. Moved(c, "ingest", call[c].kind, call[c].run, call[c].source, call[c].copy,
              call[c].todo, 0, Len(feed) + 1)
    BY GetStartPageTokenMoves
  <1>3. Legal("ingest", call[c].kind, call[c].todo) /\ call[c].run = c
    BY CallFacts DEF GetStartPageToken, At, Legal
  <1> QED BY <1>1, <1>2, <1>3, CallStep, CallFacts

LEMMA MarkIngestingTypes ==
    ASSUME TypesInv, NEW c \in Calls, MarkIngesting(c)
    PROVE  TypesInv'
  <1> DEFINE run == Marked(call[c].copy, Cardinality(call[c].todo))
  <1>1. RunOK(run)
    <2>1. Cardinality(call[c].todo) \in Nat /\ call[c].copy \in Rows
      BY CallFacts, FS_CardinalityType, CallFields DEF Legal
    <2>2. run \in Rows /\ run.failed = call[c].copy.failed /\ run.summary = call[c].copy.summary
      BY <2>1, MarkedRow DEF Made
    <2> HIDE DEF run
    <2> QED BY <2>2, CallFacts DEF RunOK
  <1>2. Grown /\ open' \subseteq docs' /\ torn' \subseteq Calls /\ SourceOK(source')
    BY SameGrown, CallFacts DEF MarkIngesting, TypesInv, history, lasting
  <1>3. RowsKept
    <2>1. runs' = [runs EXCEPT ![c] = run]
      BY DEF MarkIngesting, SaveRun, Marked
    <2> HIDE DEF run
    <2> QED BY <1>1, <2>1, RowKept
  <1>4. Moved(c, "items", call[c].kind, call[c].run, call[c].source, run,
              call[c].todo, call[c].listed, call[c].next)
    BY MarkIngestingMoves
  <1>5. Legal("items", call[c].kind, call[c].todo) /\ call[c].run = c
    BY CallFacts DEF MarkIngesting, At, Legal
  <1> HIDE DEF run
  <1> QED BY <1>1, <1>2, <1>3, <1>4, <1>5, CallStep, CallFacts

LEMMA FewerTodos ==
    ASSUME TypesInv, NEW c \in Calls, NEW f
    PROVE  Legal(call[c].at, call[c].kind, call[c].todo \ {f})
  <1>1. IsFiniteSet(call[c].todo \ {f})
    BY CallFacts, FS_RemoveElement DEF Legal
  <1> QED BY <1>1, CallFacts DEF Legal

LEMMA ItemTypes ==
    ASSUME TypesInv, NEW c \in Calls, NEW p \in DOMAIN feed,
           ItemAttached(c, p) \/ ItemFails(c, p) \/ ItemFailsAttached(c, p)
    PROVE  TypesInv'
  <1> DEFINE run == RecordFailed(call[c].copy, Failure(p, NoDoc))
  <1>1. RowsKept /\ torn' \subseteq Calls /\ SourceOK(source')
    BY RowsSame, CallFacts
    DEF ItemAttached, ItemFails, ItemFailsAttached, TypesInv, history, lasting
  <1>2. Grown /\ open' \subseteq docs'
    BY SameGrown, AttachGrows DEF ItemAttached, ItemFails, ItemFailsAttached, TypesInv
  <1>3. RunOK(run)
    BY CallFacts, FileFailure, RunRecordFailed
  <1>4. Legal(call[c].at, call[c].kind, call[c].todo \ {p})
    BY FewerTodos
  <1>5. CASE ItemAttached(c, p)
    <2>1. Moved(c, call[c].at, call[c].kind, call[c].run, call[c].source, call[c].copy,
                call[c].todo \ {p}, call[c].listed, call[c].next)
      BY <1>5, ItemAttachedMoves
    <2> QED BY <1>1, <1>2, <1>4, <2>1, CallStep, CallFacts
  <1>6. CASE ItemFails(c, p) \/ ItemFailsAttached(c, p)
    <2>1. Moved(c, call[c].at, call[c].kind, call[c].run, call[c].source, run,
                call[c].todo \ {p}, call[c].listed, call[c].next)
      BY <1>6, ItemFailsMoves, ItemFailsAttachedMoves
    <2> HIDE DEF run
    <2> QED BY <1>1, <1>2, <1>3, <1>4, <2>1, CallStep, CallFacts
  <1> QED BY <1>5, <1>6

LEMMA MergeTypes ==
    ASSUME TypesInv, NEW c \in Calls, MergeRun(c)
    PROVE  TypesInv'
  <1>1. PICK run : /\ RunOK(run)
                   /\ Moved(c, "source", call[c].kind, call[c].run, call[c].source, run,
                            call[c].todo, call[c].listed, call[c].next)
    BY MergeRunMoves
  <1>2. Grown /\ RowsKept /\ open' \subseteq docs' /\ torn' \subseteq Calls /\ SourceOK(source')
    BY SameGrown, RowsSame, CallFacts DEF MergeRun, TypesInv
  <1>4. Legal("source", call[c].kind, call[c].todo) /\ call[c].run = c
    BY CallFacts DEF MergeRun, At, Legal
  <1> QED BY <1>1, <1>2, <1>4, CallStep, CallFacts

LEMMA SavedOK ==
    ASSUME TypesInv, NEW c \in Calls
    PROVE  SourceOK(SyncSaves(call[c])) /\ SourceOK(RetrySaves(call[c]))
  <1> DEFINE x == call[c]
  <1>1. /\ x \in CallRows /\ SourceOK(x.source) /\ x.next <= Len(feed) + 1 /\ 0 <= Len(feed) + 1
    BY CallFacts
  <1> HIDE DEF x
  <1>2. SourceOK(SyncSaves(x))
    BY <1>1, SavedRow DEF SourceMade, SourceOK
  <1>3. SourceOK(RetrySaves(x))
    BY <1>1, SavedRow DEF SourceMade, SourceOK
  <1> QED BY <1>2, <1>3 DEF x

LEMMA SaveSourceTypes ==
    ASSUME TypesInv, NEW c \in Calls, SaveSource(c)
    PROVE  TypesInv'
  <1> DEFINE s == SyncSaves(call[c])
  <1>1. SourceOK(s)
    BY SavedOK
  <1>2. Grown /\ RowsKept /\ open' \subseteq docs' /\ torn' \subseteq Calls /\ source' = s
    BY SameGrown, RowsSame DEF SaveSource, SyncSaves, TypesInv
  <1>3. Moved(c, "run", call[c].kind, call[c].run, s, call[c].copy,
              call[c].todo, call[c].listed, call[c].next)
    BY SaveSourceMoves
  <1>4. Legal("run", call[c].kind, call[c].todo) /\ call[c].run = c
    BY CallFacts DEF SaveSource, At, Legal
  <1> HIDE DEF s
  <1> QED BY <1>1, <1>2, <1>3, <1>4, CallStep, CallFacts

LEMMA SaveRunWholeTypes ==
    ASSUME TypesInv, NEW c \in Calls, SaveRunWhole(c)
    PROVE  TypesInv'
  <1>1. UNCHANGED <<feed, docs, open>> /\ SourceOK(source') /\ torn' \subseteq Calls /\ End(c)
    BY CallFacts DEF SaveRunWhole, TypesInv
  <1>2. RowsKept
    BY CallFacts, RowKept DEF SaveRunWhole, SaveRun
  <1> QED BY <1>1, <1>2, EndTypes

LEMMA MarkRetryingTypes ==
    ASSUME TypesInv, NEW c \in Calls, MarkRetrying(c)
    PROVE  TypesInv'
  <1> DEFINE run == [call[c].copy EXCEPT !.status = "INGESTING"]
  <1>1. RunOK(run)
    BY CallFacts, StatusKept DEF Statuses
  <1>2. Grown /\ open' \subseteq docs' /\ torn' \subseteq Calls /\ SourceOK(source')
    BY SameGrown, CallFacts DEF MarkRetrying, TypesInv, history, lasting
  <1>3. RowsKept
    BY <1>1, RowKept, CallFacts DEF MarkRetrying, SaveRun
  <1>4. Moved(c, "retry", call[c].kind, call[c].run, call[c].source, run, call[c].todo,
              call[c].listed, call[c].next)
    BY MarkRetryingMoves
  <1>5. Legal("retry", call[c].kind, call[c].todo) /\ call[c].kind = "retry"
    BY CallFacts DEF MarkRetrying, At, Legal
  <1> HIDE DEF run
  <1> QED BY <1>1, <1>2, <1>3, <1>4, <1>5, CallStep, CallFacts

LEMMA RetryItemTypes ==
    ASSUME TypesInv, NEW c \in Calls, NEW f \in call[c].todo,
           RetryReprocessed(c, f) \/ RetryAttached(c, f) \/ RetryItemFails(c, f)
    PROVE  TypesInv'
  <1> DEFINE run == ResolveSuccess(call[c].copy, f.name)
  <1>0. call[c].at = "retry" /\ call[c].kind = "retry" /\ FailureOK(f)
    BY CallFacts DEF RetryReprocessed, RetryAttached, RetryItemFails, At, Legal
  <1>1. RowsKept /\ torn' \subseteq Calls /\ SourceOK(source')
    BY RowsSame, CallFacts
    DEF RetryReprocessed, RetryAttached, RetryItemFails, TypesInv, history, lasting
  <1>2. Grown /\ open' \subseteq docs'
    <2>1. CASE RetryReprocessed(c, f)
      BY <1>0, <2>1, SameGrown DEF RetryReprocessed, TypesInv, FailureOK
    <2>2. CASE RetryAttached(c, f)
      BY <1>0, <2>2, AttachGrows DEF RetryAttached, FailureOK
    <2>3. CASE RetryItemFails(c, f)
      BY <2>3, SameGrown DEF RetryItemFails, TypesInv
    <2> QED BY <2>1, <2>2, <2>3
  <1>3. RunOK(run)
    BY CallFacts, RunResolve
  <1>4. Legal(call[c].at, call[c].kind, call[c].todo \ {f})
    BY FewerTodos
  <1>5. CASE RetryItemFails(c, f)
    <2>1. Moved(c, call[c].at, call[c].kind, call[c].run, call[c].source, call[c].copy,
                call[c].todo \ {f}, call[c].listed, call[c].next)
      BY <1>5, RetryItemFailsMoves
    <2> QED BY <1>0, <1>1, <1>2, <1>4, <2>1, CallStep, CallFacts
  <1>6. CASE RetryReprocessed(c, f) \/ RetryAttached(c, f)
    <2>1. Moved(c, call[c].at, call[c].kind, call[c].run, call[c].source, run,
                call[c].todo \ {f}, call[c].listed, call[c].next)
      BY <1>6, RetryReprocessedMoves, RetryAttachedMoves
    <2> HIDE DEF run
    <2> QED BY <1>0, <1>1, <1>2, <1>3, <1>4, <2>1, CallStep, CallFacts
  <1> QED BY <1>5, <1>6

LEMMA RetrySaveSourceTypes ==
    ASSUME TypesInv, NEW c \in Calls, RetrySaveSource(c)
    PROVE  TypesInv'
  <1> DEFINE s == RetrySaves(call[c])
  <1>1. SourceOK(s)
    BY SavedOK
  <1>2. Grown /\ RowsKept /\ open' \subseteq docs' /\ torn' \subseteq Calls /\ source' = s
    BY SameGrown, RowsSame DEF RetrySaveSource, RetrySaves, TypesInv
  <1>3. Moved(c, "run", call[c].kind, call[c].run, s, call[c].copy,
              call[c].todo, call[c].listed, call[c].next)
    BY RetrySaveSourceMoves
  <1>4. Legal("run", call[c].kind, call[c].todo) /\ call[c].kind = "retry"
    BY CallFacts DEF RetrySaveSource, At, Legal
  <1> HIDE DEF s
  <1> QED BY <1>1, <1>2, <1>3, <1>4, CallStep, CallFacts

LEMMA DeathTypes ==
    ASSUME TypesInv, NEW c \in Calls, CallRaises(c) \/ CallAbandoned(c) \/ RunRefused(c)
    PROVE  TypesInv'
  <1>1. RowsKept /\ torn' \subseteq Calls /\ UNCHANGED <<feed, docs, open>> /\ End(c)
    BY RowsSame DEF CallRaises, CallAbandoned, RunRefused, TypesInv, lasting
  <1>2. SourceOK(FailedSource(c))
    BY CallFacts, SourceMarked DEF FailedSource
  <1>3. source' = source \/ source' = FailedSource(c)
    BY DEF CallRaises, CallAbandoned, RunRefused
  <1>4. SourceOK(source')
    BY <1>2, <1>3, CallFacts
  <1> QED BY <1>1, <1>4, EndTypes

LEMMA ElseTypes ==
    ASSUME TypesInv,
           \/ \E d \in open : DocIndexed(d) \/ DocFails(d)
           \/ \E d \in docs \ open : DocIndexedAgain(d)
           \/ DeleteSource \/ (\E f \in Files : ChangeFile(f)) \/ UNCHANGED vars
    PROVE  TypesInv'
  <1>1. CASE \E d \in docs : DocIndexed(d) \/ DocFails(d) \/ DocIndexedAgain(d)
    <2>1. PICK d \in docs : DocIndexed(d) \/ DocFails(d) \/ DocIndexedAgain(d)
      BY <1>1
    <2>2. DocRun(d) \in Calls
      <3>1. d[1] \in Calls
        BY DEF TypesInv
      <3> QED BY <3>1, CallFacts DEF DocRun
    <2>3. Grown /\ open' \subseteq docs' /\ torn' \subseteq Calls /\ source' = source /\ call' = call
      BY <2>1, SameGrown DEF DocIndexed, DocFails, DocIndexedAgain, TypesInv, history, lasting
    <2>4. RowsKept
      <3>1. RunOK(runs[DocRun(d)]) /\ FailureOK(Failure(d[2], d))
        BY <2>2, DocFailure DEF TypesInv
      <3>2. RunOK(CountIndexed(runs[DocRun(d)])) /\ RunOK(CountFailed(runs[DocRun(d)], Failure(d[2], d)))
        BY <3>1, RunCountIndexed, RunCountFailed
      <3>3. \/ runs' = [runs EXCEPT ![DocRun(d)] = CountIndexed(runs[DocRun(d)])]
            \/ runs' = [runs EXCEPT ![DocRun(d)] = CountFailed(runs[DocRun(d)], Failure(d[2], d))]
        BY <2>1 DEF DocIndexed, DocFails, DocIndexedAgain
      <3> QED BY <2>2, <3>2, <3>3, RowKept
    <2> QED BY <2>3, <2>4, RestStep DEF TypesInv
  <1>2. CASE DeleteSource
    <2>1. RowsKept /\ SourceOK(source')
      BY <1>2, NoRowOK DEF DeleteSource, RowsKept
    <2>2. Grown /\ open' \subseteq docs' /\ torn' \subseteq Calls /\ call' = call
      BY <1>2, SameGrown DEF DeleteSource, TypesInv, lasting
    <2> QED BY <2>1, <2>2, RestStep
  <1>3. CASE \E f \in Files : ChangeFile(f)
    <2>1. PICK f \in Files : ChangeFile(f)
      BY <1>3
    <2>2. /\ feed' \in Seq(Files) /\ Len(feed') = Len(feed) + 1
          /\ \A p \in DOMAIN feed : p \in DOMAIN feed' /\ feed'[p] = feed[p]
      BY <2>1 DEF ChangeFile, TypesInv
    <2>3. Len(feed) + 1 <= MaxChanges
      BY <2>1, FeedItems, Bounds DEF ChangeFile
    <2>4. Grown
      BY <2>1, <2>2, <2>3, FeedItems DEF Grown, TypesInv, ChangeFile
    <2> QED BY <2>1, <2>4, RowsSame, RestStep DEF ChangeFile, TypesInv, history, lasting
  <1>4. CASE UNCHANGED vars
    BY <1>4, SameGrown, RowsSame, RestStep DEF vars, TypesInv, history, lasting
  <1> QED BY <1>1, <1>2, <1>3, <1>4 DEF TypesInv

LEMMA TypesStep == TypesInv /\ [Next]_vars => TypesInv'
  <1> SUFFICES ASSUME TypesInv, [Next]_vars PROVE TypesInv'
    OBVIOUS
  <1>1. ASSUME NEW c \in Calls, SyncRoute(c) \/ RetryRoute(c) PROVE TypesInv'
    BY <1>1, LoadTypes DEF SyncRoute, RetryRoute
  <1>2. ASSUME NEW c \in Calls, Proceed(c) PROVE TypesInv'
    BY <1>2, RetryLoadRunTypes, StartTypes, CreateRunTypes, FetchTypes, TokenTypes,
       MarkIngestingTypes, MergeTypes, SaveSourceTypes, SaveRunWholeTypes, MarkRetryingTypes,
       RetrySaveSourceTypes, DeathTypes, ItemTypes, RetryItemTypes
    DEF Proceed
  <1>3. ASSUME NEW c \in Calls, Break(c) PROVE TypesInv'
    BY <1>3, DeathTypes, ItemTypes, RetryItemTypes DEF Break
  <1> QED BY <1>1, <1>2, <1>3, ElseTypes DEF Next, DeleteRoute

LEMMA TypesInit == Init => TypesInv
  <1> SUFFICES ASSUME Init PROVE TypesInv
    OBVIOUS
  <1>1. SourceOK(source) /\ SourceOK(NoSource)
    <2>1. Len(feed) + 1 = 1 /\ feed \in Seq(Files) /\ Len(feed) <= MaxChanges
      BY Bounds DEF Init
    <2>2. NoSource \in SourceRows /\ NoSource.cursor = 0 /\ NoSource.pending = 0
      BY AbsentRow DEF NoSource
    <2>3. SourceMade([NoSource EXCEPT !.status = "IDLE"], "IDLE", 0, 0)
      BY <2>2, SourceStatus
    <2> QED BY <2>1, <2>2, <2>3 DEF SourceMade, SourceOK, Init
  <1>2. \A c \in Calls : CallOK(call[c]) /\ call[c].at = "idle"
    <2> SUFFICES ASSUME NEW c \in Calls PROVE CallOK(call[c]) /\ call[c].at = "idle"
      OBVIOUS
    <2>1. 1 \in Calls
      BY Bounds DEF Calls
    <2>2. call[c] = Idle
      BY DEF Init
    <2>3. Idle \in CallRows
      BY <2>1, AbsentRow, Bounds DEF Idle, CallRows, Places
    <2>4. /\ Idle.at = "idle" /\ Idle.kind = "sync" /\ Idle.source = NoSource /\ Idle.copy = NoRun
          /\ Idle.todo = {} /\ Idle.listed = 0 /\ Idle.next = 0
      BY DEF Idle
    <2>5. 0 <= Len(feed) /\ 0 <= Len(feed) + 1
      BY DEF Init
    <2> QED BY <1>1, <2>2, <2>3, <2>4, <2>5, NoRowOK, FS_EmptySet DEF CallOK
  <1>3. \A r \in Calls : RunOK(runs[r])
    BY NoRowOK DEF Init
  <1>4. feed \in Seq(Files) /\ Len(feed) <= MaxChanges
    BY Bounds DEF Init
  <1> QED BY <1>1, <1>2, <1>3, <1>4, FS_EmptySet DEF Init, TypesInv
-----------------------------------------------------------------------------
(* The cursor waits for failures. *)

\* The changes whose failures are listed, and those that became documents.
Missing(S) == {f.item : f \in {g \in S : g.doc = NoDoc}}
Gaps(r) == Missing(runs[r].summary)
Sown == {d[2] : d \in docs}
Firm == Sown \cup UNION {Gaps(r) : r \in Calls}
Saving == {c \in Calls : call[c].kind = "sync" /\ At(c, "run")}
Safe == Firm \cup UNION {Missing(call[c].copy.summary) : c \in Saving}
Lost == \E r \in torn : At(r, "done")
\* A set of changes has, for each change before a cursor, that one or a later one of its file.
Covered(fd, ms, n, S) ==
    \A p \in DOMAIN fd : p < n /\ fd[p] \notin Nested /\ p \notin ms =>
        \E q \in S : q >= p /\ fd[q] = fd[p]
OnePerFile(fd, S) == \A a, b \in S : fd[a] = fd[b] => a = b

SyncRow(fd, ms, firm, x, gaps, saved) ==
    x.kind = "sync" =>
       /\ x.at # "done" => gaps = {}
       /\ x.at \in {"fetch", "token", "ingest"} => x.copy.summary = {}
       /\ x.at \in {"token", "ingest", "items", "source", "run"} =>
             OnePerFile(fd, x.todo \cup Missing(x.copy.summary))
       /\ x.at = "token" => Covered(fd, ms, x.listed + 1, x.todo)
       /\ x.at \in {"ingest", "items", "source"} =>
             Covered(fd, ms, x.next, firm \cup x.todo \cup Missing(x.copy.summary))
       /\ x.at \in {"source", "run"} => x.todo = {}
       /\ x.at = "run" => saved
RetryRow(fd, sown, x, gaps, ended) ==
    x.kind = "retry" /\ x.at # "loadrun" =>
       /\ ended
       /\ Missing(x.copy.summary) \subseteq gaps \cup sown
       /\ gaps \subseteq Missing(x.copy.summary) \cup sown
       /\ OnePerFile(fd, Missing(x.copy.summary) \cup Missing(x.todo))
SyncOK(c) == SyncRow(feed, missed, Firm, call[c], Gaps(c), c \in torn)
RetryOK(c) ==
    RetryRow(feed, Sown, call[c], Gaps(call[c].run),
             At(call[c].run, "done") /\ call[c].run \notin torn)
CoverInv ==
    /\ \A c \in Calls : SyncOK(c) /\ RetryOK(c)
    /\ \A r \in Calls : OnePerFile(feed, Gaps(r))
    /\ Covered(feed, missed, source.cursor, Firm)
    /\ \A c \in Calls : Covered(feed, missed, call[c].source.cursor, Firm)
    /\ \/ Lost
       \/ /\ Covered(feed, missed, source.pending, Safe)
          /\ \A c \in Calls : Covered(feed, missed, call[c].source.pending, Safe)
CalmInv == early \/ shadowed \/ removed \/ CoverInv

Grows(fd, fe) == \A p \in DOMAIN fd : p \in DOMAIN fe /\ fe[p] = fd[p]

\* More changes hold no earlier one, and what has been seen stays.
LEMMA CoveredStays ==
    ASSUME TypesInv, TypesInv', Grown, missed \subseteq missed', NEW n, n \in Nat,
           n <= Len(feed) + 1, NEW S, S \subseteq DOMAIN feed, NEW T, S \subseteq T,
           Covered(feed, missed, n, S)
    PROVE  Covered(feed', missed', n, T)
  <1> SUFFICES ASSUME NEW p \in DOMAIN feed', p < n, feed'[p] \notin Nested, p \notin missed'
               PROVE  \E q \in T : q >= p /\ feed'[q] = feed'[p]
    BY DEF Covered
  <1>1. p \in DOMAIN feed
    <2>1. DOMAIN feed' = 1..Len(feed') /\ DOMAIN feed = 1..Len(feed) /\ Len(feed) \in Nat
      BY DEF TypesInv
    <2> QED BY <2>1
  <1>2. feed'[p] = feed[p]
    BY <1>1 DEF Grown
  <1>3. PICK q \in S : q >= p /\ feed[q] = feed[p]
    BY <1>1, <1>2 DEF Covered
  <1> QED BY <1>2, <1>3 DEF Grown

LEMMA OneStays ==
    ASSUME Grown, NEW S, S \subseteq DOMAIN feed, NEW T, T \subseteq S, OnePerFile(feed, S)
    PROVE  OnePerFile(feed', T)
  BY DEF OnePerFile, Grown

LEMMA MissingIn ==
    ASSUME NEW x, RunOK(x)
    PROVE  Missing(x.summary) \subseteq DOMAIN feed
  BY DEF RunOK, Missing, FailureOK

LEMMA FirmIn ==
    ASSUME TypesInv
    PROVE  /\ Sown \subseteq DOMAIN feed /\ Firm \subseteq DOMAIN feed /\ Safe \subseteq DOMAIN feed
           /\ \A r \in Calls : Gaps(r) \subseteq DOMAIN feed /\ Gaps(r) \subseteq Firm
           /\ \A c \in Calls : Missing(call[c].copy.summary) \subseteq DOMAIN feed
           /\ Sown \subseteq Firm /\ Firm \subseteq Safe
  <1>1. Sown \subseteq DOMAIN feed
    BY DEF TypesInv, Sown
  <1>2. \A r \in Calls : Gaps(r) \subseteq DOMAIN feed
    BY MissingIn DEF TypesInv, Gaps
  <1>3. \A c \in Calls : Missing(call[c].copy.summary) \subseteq DOMAIN feed
    BY MissingIn, CallFacts
  <1>4. Firm \subseteq DOMAIN feed /\ Sown \subseteq Firm /\ \A r \in Calls : Gaps(r) \subseteq Firm
    BY <1>1, <1>2 DEF Firm
  <1>5. Safe \subseteq DOMAIN feed /\ Firm \subseteq Safe
    BY <1>3, <1>4 DEF Safe, Saving
  <1> QED BY <1>1, <1>2, <1>3, <1>4, <1>5

\* What a step of call c (of nobody, with a c that is no call) leaves to the others.
GapsKept(r) ==
    \/ Gaps(r)' = Gaps(r)
    \/ /\ At(r, "done") /\ r \notin torn
       /\ Gaps(r) \subseteq Gaps(r)' \cup Sown'
       /\ Gaps(r)' \subseteq Gaps(r) \cup Sown'
Frame(c) ==
    /\ Grown /\ missed \subseteq missed'
    /\ \A r \in Calls : At(r, "done") => r # c
    /\ \A r \in Calls \ {c} : call'[r] = call[r] /\ (r \in torn' <=> r \in torn)
    /\ \A r \in Calls \ {c} : GapsKept(r)
    /\ c \in Calls => Gaps(c) \subseteq Gaps(c)' \cup Sown'

LEMMA SownGrows ==
    ASSUME Grown
    PROVE  Sown \subseteq Sown'
  BY DEF Sown, Grown

LEMMA FirmGrows ==
    ASSUME NEW c, Frame(c)
    PROVE  Firm \subseteq Firm'
  <1>1. Sown \subseteq Sown' /\ Sown' \subseteq Firm'
    BY SownGrows DEF Frame, Firm
  <1>2. \A r \in Calls : Gaps(r)' \subseteq Firm'
    BY DEF Firm
  <1>3. \A r \in Calls : Gaps(r) \subseteq Gaps(r)' \cup Sown'
    BY DEF Frame, GapsKept
  <1> QED BY <1>1, <1>2, <1>3 DEF Firm

LEMMA OthersCovered ==
    ASSUME TypesInv, TypesInv', NEW c, Frame(c), NEW d \in Calls \ {c}, SyncOK(d), RetryOK(d)
    PROVE  SyncOK(d)' /\ RetryOK(d)'
  <1>1. call'[d] = call[d] /\ (d \in torn' <=> d \in torn) /\ Grown /\ missed \subseteq missed'
        /\ Sown \subseteq Sown' /\ Firm \subseteq Firm'
    BY SownGrows, FirmGrows DEF Frame
  <1>2. SyncOK(d)'
    <2> DEFINE x == call[d]
               m == Missing(x.copy.summary)
    <2> SUFFICES ASSUME x.kind = "sync" PROVE SyncRow(feed', missed', Firm', x, Gaps(d)', d \in torn')
      BY <1>1 DEF SyncOK, SyncRow
    <2>1. SyncRow(feed, missed, Firm, x, Gaps(d), d \in torn)
      BY DEF SyncOK
    <2>2. /\ x.next \in Nat /\ x.next <= Len(feed) + 1 /\ x.listed + 1 \in Nat
          /\ x.listed + 1 <= Len(feed) + 1 /\ x.todo \subseteq DOMAIN feed /\ m \subseteq DOMAIN feed
          /\ Firm \subseteq DOMAIN feed
      BY CallFacts, CallFields, FirmIn, Bounds DEF Legal
    <2>3. x.at # "done" => Gaps(d)' = {}
      BY <2>1 DEF SyncRow, Frame, GapsKept, At
    <2> HIDE DEF x, m
    <2>4. OnePerFile(feed, x.todo \cup m) => OnePerFile(feed', x.todo \cup m)
      BY <1>1, <2>2, OneStays
    <2>5. Covered(feed, missed, x.listed + 1, x.todo) => Covered(feed', missed', x.listed + 1, x.todo)
      BY <1>1, <2>2, CoveredStays
    <2>6. Covered(feed, missed, x.next, Firm \cup x.todo \cup m)
            => Covered(feed', missed', x.next, Firm' \cup x.todo \cup m)
      <3>1. Firm \cup x.todo \cup m \subseteq Firm' \cup x.todo \cup m
            /\ Firm \cup x.todo \cup m \subseteq DOMAIN feed
        BY <1>1, <2>2
      <3> QED BY <1>1, <2>2, <3>1, CoveredStays
    <2> QED BY <1>1, <2>1, <2>3, <2>4, <2>5, <2>6 DEF SyncRow, m
  <1>3. RetryOK(d)'
    <2> DEFINE x == call[d]
               r == x.run
    <2> SUFFICES ASSUME x.kind = "retry", x.at # "loadrun"
                 PROVE  RetryRow(feed', Sown', x, Gaps(r)', call'[r].at = "done" /\ r \notin torn')
      BY <1>1 DEF RetryOK, RetryRow, At, Gaps
    <2>1. /\ r \in Calls /\ call[r].at = "done" /\ r \notin torn
          /\ Missing(x.copy.summary) \subseteq Gaps(r) \cup Sown
          /\ Gaps(r) \subseteq Missing(x.copy.summary) \cup Sown
          /\ OnePerFile(feed, Missing(x.copy.summary) \cup Missing(x.todo))
      BY CallFacts DEF RetryOK, RetryRow, At
    <2>2. r # c /\ call'[r] = call[r] /\ r \notin torn' /\ GapsKept(r)
      BY <2>1 DEF Frame, At
    <2>3. Gaps(r) \subseteq Gaps(r)' \cup Sown' /\ Gaps(r)' \subseteq Gaps(r) \cup Sown'
      BY <2>2 DEF GapsKept
    <2>4. Missing(x.copy.summary) \subseteq DOMAIN feed /\ Missing(x.todo) \subseteq DOMAIN feed
      BY CallFacts, FirmIn DEF Legal, Missing, FailureOK
    <2> HIDE DEF x, r
    <2>5. OnePerFile(feed', Missing(x.copy.summary) \cup Missing(x.todo))
      BY <1>1, <2>1, <2>4, OneStays
    <2> QED BY <1>1, <2>1, <2>2, <2>3, <2>5 DEF RetryRow
  <1> QED BY <1>2, <1>3

\* Failures that a sync has yet to save are safe while no sync has died with its own.
SavingKept(c) ==
    c \in Saving => \/ Missing(call[c].copy.summary) \subseteq Firm'
                    \/ c \in torn' /\ call'[c].at = "done"

LEMMA LostStays ==
    ASSUME TypesInv, NEW c, Frame(c), Lost
    PROVE  Lost'
  <1>1. PICK r \in torn : At(r, "done") /\ r \in Calls
    BY DEF Lost, TypesInv
  <1>2. r \in torn' /\ call'[r].at = "done"
    BY <1>1 DEF Frame, At
  <1> QED BY <1>2 DEF Lost, At

LEMMA SafeGrows ==
    ASSUME TypesInv, NEW c, Frame(c), SavingKept(c), ~Lost'
    PROVE  ~Lost /\ Safe \subseteq Safe'
  <1>1. ~Lost
    BY LostStays
  <1>2. Firm \subseteq Safe'
    BY FirmGrows DEF Safe
  <1>3. ASSUME NEW d \in Saving PROVE Missing(call[d].copy.summary) \subseteq Safe'
    <2>1. CASE d = c
      <3>1. ~(c \in torn' /\ call'[c].at = "done")
        BY DEF Lost, At
      <3>2. Missing(call[c].copy.summary) \subseteq Firm'
        BY <2>1, <3>1 DEF SavingKept
      <3> QED BY <2>1, <3>2 DEF Safe
    <2>2. CASE d # c
      <3>1. d \in Calls /\ call'[d] = call[d]
        BY <2>2 DEF Frame, Saving
      <3>2. d \in Saving'
        BY <3>1 DEF Saving, At
      <3> QED BY <3>1, <3>2 DEF Safe
    <2> QED BY <2>1, <2>2
  <1> QED BY <1>1, <1>2, <1>3 DEF Safe

\* The cursors of a row that was read or kept.
Known(s) ==
    \/ s.cursor = 0 /\ s.pending = 0
    \/ s.cursor = source.cursor /\ s.pending = source.pending
    \/ \E d \in Calls : s.cursor = call[d].source.cursor /\ s.pending = call[d].source.pending
Passes(n, m) ==
    /\ Covered(feed', missed', n, Firm')
    /\ Lost' \/ Covered(feed', missed', m, Safe')

LEMMA NothingCovered ==
    ASSUME TypesInv, NEW ms, NEW S
    PROVE  Covered(feed, ms, 0, S)
  BY FeedItems DEF Covered

LEMMA KnownPasses ==
    ASSUME TypesInv, TypesInv', CoverInv, NEW c, Frame(c), SavingKept(c), NEW s, Known(s)
    PROVE  Passes(s.cursor, s.pending)
  <1>1. \A n, S : Covered(feed', n, 0, S)
    BY FeedItems, Bounds DEF Covered, TypesInv
  <1>2. ASSUME NEW z, SourceOK(z), Covered(feed, missed, z.cursor, Firm),
               Lost \/ Covered(feed, missed, z.pending, Safe)
        PROVE  Passes(z.cursor, z.pending)
    <2>1. /\ z.cursor \in Nat /\ z.pending \in Nat /\ z.cursor <= Len(feed) + 1
          /\ z.pending <= Len(feed) + 1
      BY <1>2, SourceFieldsOf, Bounds DEF SourceOK
    <2>2. Covered(feed', missed', z.cursor, Firm')
      BY <1>2, <2>1, CoveredStays, FirmIn, FirmGrows DEF Frame
    <2>3. ~Lost' => Covered(feed', missed', z.pending, Safe')
      BY <1>2, <2>1, CoveredStays, FirmIn, SafeGrows DEF Frame
    <2> QED BY <2>2, <2>3 DEF Passes
  <1>3. CASE s.cursor = 0 /\ s.pending = 0
    BY <1>1, <1>3 DEF Passes
  <1>4. CASE s.cursor = source.cursor /\ s.pending = source.pending
    BY <1>2, <1>4 DEF CoverInv, TypesInv
  <1>5. CASE \E d \in Calls : s.cursor = call[d].source.cursor /\ s.pending = call[d].source.pending
    <2>1. PICK d \in Calls : s.cursor = call[d].source.cursor /\ s.pending = call[d].source.pending
      BY <1>5
    <2> QED BY <1>2, <2>1, CallFacts DEF CoverInv
  <1> QED BY <1>3, <1>4, <1>5 DEF Known

\* The step of a call: what remains to be shown is about the call itself.
LEMMA CallCovered ==
    ASSUME TypesInv, TypesInv', CoverInv, NEW c \in Calls, Frame(c), SavingKept(c),
           SyncOK(c)', RetryOK(c)', OnePerFile(feed', Gaps(c)'),
           \A r \in Calls : OnePerFile(feed', Gaps(r)'),
           Passes(source'.cursor, source'.pending),
           Passes(call'[c].source.cursor, call'[c].source.pending)
    PROVE  CoverInv'
  <1>1. \A d \in Calls \ {c} : SyncOK(d)' /\ RetryOK(d)'
    BY OthersCovered DEF CoverInv
  <1>2. \A d \in Calls \ {c} : Passes(call'[d].source.cursor, call'[d].source.pending)
    <2> SUFFICES ASSUME NEW d \in Calls \ {c}
                 PROVE  Passes(call'[d].source.cursor, call'[d].source.pending)
      OBVIOUS
    <2>1. Known(call[d].source) /\ call'[d] = call[d]
      BY DEF Known, Frame
    <2> QED BY <2>1, KnownPasses
  <1> QED BY <1>1, <1>2 DEF CoverInv, Passes

\* A step that changes no gaps.
LEMMA GapsFrame ==
    ASSUME TypesInv, CoverInv, NEW c \in Calls, Grown, missed \subseteq missed', ~At(c, "done"),
           \A d \in Calls \ {c} : call'[d] = call[d], \A r \in Calls : Gaps(r)' = Gaps(r),
           \A d \in Calls \ {c} : d \in torn' <=> d \in torn
    PROVE  /\ Frame(c) /\ \A r \in Calls : OnePerFile(feed', Gaps(r)')
  <1>1. \A r \in Calls : OnePerFile(feed', Gaps(r))
    BY OneStays, FirmIn DEF CoverInv
  <1> QED BY <1>1 DEF Frame, GapsKept

LEMMA QuietFrame ==
    ASSUME TypesInv, CoverInv, NEW c \in Calls, Grown, missed \subseteq missed', ~At(c, "done"),
           \A d \in Calls \ {c} : call'[d] = call[d], runs' = runs,
           \A d \in Calls \ {c} : d \in torn' <=> d \in torn
    PROVE  /\ Frame(c) /\ \A r \in Calls : Gaps(r)' = Gaps(r) /\ OnePerFile(feed', Gaps(r)')
  <1>1. \A r \in Calls : Gaps(r)' = Gaps(r)
    BY DEF Gaps
  <1> QED BY <1>1, GapsFrame

LEMMA EndCovered ==
    ASSUME TypesInv, TypesInv', CoverInv, NEW c \in Calls, End(c), Frame(c), SavingKept(c),
           \A r \in Calls : OnePerFile(feed', Gaps(r)'), Known(source')
    PROVE  CoverInv'
  <1> DEFINE x == call'[c]
  <1>1. /\ x.at = "done" /\ x.kind = "sync" /\ x.source = NoSource
    BY EndMoves DEF Moved, Called
  <1>2. SyncOK(c)' /\ RetryOK(c)'
    BY <1>1 DEF SyncOK, RetryOK, SyncRow, RetryRow
  <1>3. Known(x.source)
    BY <1>1 DEF Known, NoSource
  <1>4. Passes(x.source.cursor, x.source.pending) /\ Passes(source'.cursor, source'.pending)
    BY <1>3, KnownPasses
  <1> QED BY <1>2, <1>4, CallCovered

\* A row of the data source with another status.
LEMMA MarkedKnown ==
    ASSUME TypesInv, NEW s, SourceOK(s), Known(s), NEW st \in {"ABSENT", "IDLE", "SYNCING", "FAILED"}
    PROVE  Known([s EXCEPT !.status = st])
  <1> DEFINE z == [s EXCEPT !.status = st]
  <1>1. SourceMade(z, st, s.cursor, s.pending)
    BY SourceStatus DEF SourceOK
  <1> HIDE DEF z
  <1>2. Known(z)
    BY <1>1 DEF SourceMade, Known
  <1> QED BY <1>2 DEF z

LEMMA DeathCovered ==
    ASSUME TypesInv, TypesInv', CoverInv, NEW c \in Calls,
           CallRaises(c) \/ CallAbandoned(c) \/ RunRefused(c)
    PROVE  CoverInv'
  <1>1. /\ UNCHANGED <<feed, docs, runs, missed, torn>> /\ End(c) /\ ~At(c, "done")
    BY DEF CallRaises, CallAbandoned, RunRefused, lasting, InTry, At
  <1>2. call'[c].at = "done" /\ \A d \in Calls \ {c} : call'[d] = call[d]
    BY <1>1, EndMoves DEF Moved, Called
  <1>3. Frame(c) /\ \A r \in Calls : OnePerFile(feed', Gaps(r)')
    BY <1>1, <1>2, QuietFrame, SameGrown
  <1>4. SavingKept(c)
    BY <1>1, <1>2 DEF SavingKept, Saving, CoverInv, SyncOK, SyncRow, At
  <1>5. Known(source')
    <2>1. Known(FailedSource(c))
      BY CallFacts, MarkedKnown DEF FailedSource, Known
    <2>2. source' = source \/ source' = FailedSource(c)
      BY DEF CallRaises, CallAbandoned, RunRefused
    <2> QED BY <2>1, <2>2 DEF Known
  <1> QED BY <1>1, <1>3, <1>4, <1>5, EndCovered

LEMMA LoadCovered ==
    ASSUME TypesInv, TypesInv', CoverInv, NEW c \in Calls,
           SyncLoad(c) \/ \E r \in Calls : RetryLoad(c, r)
    PROVE  CoverInv'
  <1> DEFINE x == call'[c]
  <1>1. /\ UNCHANGED <<feed, docs, runs, missed, torn, source>> /\ At(c, "idle")
    BY DEF SyncLoad, RetryLoad, history, lasting
  <1>2. /\ \A d \in Calls \ {c} : call'[d] = call[d]
        /\ x.source = source /\ \/ x.kind = "sync" /\ x.at = "start"
                                \/ x.kind = "retry" /\ x.at = "loadrun"
    BY SyncLoadMoves, RetryLoadMoves DEF Moved, Called
  <1>3. Frame(c) /\ \A r \in Calls : Gaps(r)' = Gaps(r) /\ OnePerFile(feed', Gaps(r)')
    BY <1>1, <1>2, QuietFrame, SameGrown DEF At
  <1>4. SavingKept(c)
    BY <1>1 DEF SavingKept, Saving, At
  <1>5. Gaps(c) = {}
    <2>1. call[c].kind = "sync"
      BY <1>1, CallFacts DEF At, Legal
    <2> QED BY <1>1, <2>1 DEF CoverInv, SyncOK, SyncRow, At
  <1>6. SyncOK(c)' /\ RetryOK(c)'
    <2>1. Gaps(c)' = {}
      BY <1>3, <1>5
    <2> QED BY <1>2, <2>1 DEF SyncOK, RetryOK, SyncRow, RetryRow
  <1>7. Known(x.source) /\ Known(source')
    BY <1>1, <1>2 DEF Known
  <1>8. Passes(x.source.cursor, x.source.pending) /\ Passes(source'.cursor, source'.pending)
    BY <1>3, <1>4, <1>7, KnownPasses
  <1> QED BY <1>3, <1>4, <1>6, <1>8, CallCovered

\* A retry holds, but for what was sown meanwhile, the failures of a sync that is over.
LEMMA RetryFacts ==
    ASSUME TypesInv, CoverInv, NEW c \in Calls, call[c].kind = "retry", ~At(c, "loadrun")
    PROVE  \E r \in Calls :
              /\ call[c].run = r /\ r # c /\ call[r].at = "done" /\ r \notin torn
              /\ Missing(call[c].copy.summary) \subseteq Gaps(r) \cup Sown
              /\ Gaps(r) \subseteq Missing(call[c].copy.summary) \cup Sown
              /\ OnePerFile(feed, Missing(call[c].copy.summary) \cup Missing(call[c].todo))
              /\ Missing(call[c].copy.summary) \subseteq DOMAIN feed
              /\ Missing(call[c].todo) \subseteq DOMAIN feed
  <1>1. call[c].at # "done" /\ call[c].run \in Calls
    BY CallFacts DEF Legal
  <1>2. Missing(call[c].copy.summary) \subseteq DOMAIN feed /\ Missing(call[c].todo) \subseteq DOMAIN feed
    BY CallFacts, FirmIn DEF Legal, Missing, FailureOK
  <1> QED BY <1>1, <1>2 DEF CoverInv, RetryOK, RetryRow, At

LEMMA RetryHolds ==
    ASSUME NEW c \in Calls, NEW r \in Calls, call'[c].run = r, call'[r].at = "done", r \notin torn',
           RetryRow(feed', Sown', call'[c], Gaps(r)', TRUE)
    PROVE  RetryOK(c)'
  <1>1. RetryRow(feed', Sown', call'[c], Missing(runs'[call'[c].run].summary), TRUE)
    BY DEF Gaps
  <1> QED BY <1>1 DEF RetryOK, RetryRow, At, Gaps

LEMMA RetryLoadRunCovered ==
    ASSUME TypesInv, TypesInv', CoverInv, NEW c \in Calls, RetryLoadRun(c), ~early'
    PROVE  CoverInv'
  <1> DEFINE x == call'[c]
             r == call[c].run
  <1>1. /\ UNCHANGED <<feed, docs, runs, missed, torn, source>> /\ At(c, "loadrun") /\ ~Unsaved(r)
    BY DEF RetryLoadRun
  <1>2. \A d \in Calls \ {c} : call'[d] = call[d]
    BY RetryLoadRunMoves, EndMoves DEF Moved
  <1>3. Frame(c) /\ \A n \in Calls : Gaps(n)' = Gaps(n) /\ OnePerFile(feed', Gaps(n)')
    BY <1>1, <1>2, QuietFrame, SameGrown DEF At
  <1>4. SavingKept(c)
    BY <1>1 DEF SavingKept, Saving, At
  <1>5. Known(source')
    BY <1>1 DEF Known
  <1>6. CASE End(c)
    BY <1>3, <1>4, <1>5, <1>6, EndCovered
  <1>7. CASE ~End(c)
    <2>1. /\ x.kind = "retry" /\ x.at = "start" /\ x.run = r /\ x.source = call[c].source
          /\ x.copy = runs[r] /\ x.todo = runs[r].summary
      BY <1>1, <1>7, RetryLoadRunMoves, CallFacts DEF Moved, Called, Legal, At
    <2>2. r \in Calls /\ r # c /\ call[r].at = "done" /\ r \notin torn
      BY <1>1, CallFacts DEF Unsaved, At
    <2>3. SyncOK(c)'
      BY <2>1 DEF SyncOK, SyncRow
    <2>4. RetryOK(c)'
      <3>1. PICK n \in Calls : n = r
        BY <2>2
      <3>2. call'[n].at = "done" /\ n \notin torn' /\ Gaps(n)' = Gaps(n)
            /\ OnePerFile(feed', Gaps(n)')
        BY <1>1, <1>2, <1>3, <2>2, <3>1
      <3>3. Missing(x.copy.summary) = Gaps(n) /\ Missing(x.todo) = Gaps(n)
        BY <2>1, <3>1 DEF Gaps
      <3> HIDE DEF r
      <3>4. RetryRow(feed', Sown', x, Gaps(n)', TRUE)
        BY <2>1, <3>2, <3>3 DEF RetryRow
      <3> QED BY <2>1, <3>1, <3>2, <3>4, RetryHolds
    <2>5. Known(x.source)
      BY <2>1 DEF Known
    <2>6. Passes(x.source.cursor, x.source.pending) /\ Passes(source'.cursor, source'.pending)
      BY <1>3, <1>4, <1>5, <2>5, KnownPasses
    <2> QED BY <1>3, <1>4, <2>3, <2>4, <2>6, CallCovered
  <1> QED BY <1>6, <1>7

LEMMA StartCovered ==
    ASSUME TypesInv, TypesInv', CoverInv, NEW c \in Calls, Start(c)
    PROVE  CoverInv'
  <1> DEFINE x == call'[c]
             s == [call[c].source EXCEPT !.status = "SYNCING"]
             r == call[c].run
  <1>1. /\ UNCHANGED <<feed, docs, runs, missed, torn>> /\ At(c, "start") /\ source' = s
    BY DEF Start, lasting
  <1>2. /\ \A d \in Calls \ {c} : call'[d] = call[d]
        /\ x.kind = call[c].kind /\ x.run = r /\ x.copy = call[c].copy /\ x.todo = call[c].todo
        /\ x.at = (IF call[c].kind = "sync" THEN "create" ELSE "mark") /\ x.source = s
    BY StartMoves DEF Moved, Called
  <1>3. Frame(c) /\ \A n \in Calls : Gaps(n)' = Gaps(n) /\ OnePerFile(feed', Gaps(n)')
    BY <1>1, <1>2, QuietFrame, SameGrown DEF At
  <1>4. SavingKept(c)
    BY <1>1 DEF SavingKept, Saving, At
  <1>5. Known(s)
    BY CallFacts, MarkedKnown DEF Known
  <1>6. SyncOK(c)'
    BY <1>1, <1>2, <1>3 DEF SyncOK, SyncRow, CoverInv, At
  <1>7. RetryOK(c)'
    <2> SUFFICES ASSUME x.kind = "retry" PROVE RetryOK(c)'
      BY DEF RetryOK, RetryRow
    <2>1. PICK n \in Calls :
            /\ call[c].run = n /\ n # c /\ call[n].at = "done" /\ n \notin torn
            /\ Missing(call[c].copy.summary) \subseteq Gaps(n) \cup Sown
            /\ Gaps(n) \subseteq Missing(call[c].copy.summary) \cup Sown
            /\ OnePerFile(feed, Missing(call[c].copy.summary) \cup Missing(call[c].todo))
      BY <1>1, <1>2, RetryFacts DEF At
    <2>2. call'[n] = call[n] /\ Sown' = Sown /\ Gaps(n)' = Gaps(n)
      BY <1>1, <1>2, <1>3, <2>1 DEF Sown
    <2> HIDE DEF s
    <2>3. RetryRow(feed', Sown', x, Gaps(n)', TRUE)
      BY <1>1, <1>2, <2>1, <2>2 DEF RetryRow
    <2> QED BY <1>1, <1>2, <2>1, <2>2, <2>3, RetryHolds
  <1>8. Passes(x.source.cursor, x.source.pending) /\ Passes(source'.cursor, source'.pending)
    BY <1>1, <1>2, <1>3, <1>4, <1>5, KnownPasses
  <1> QED BY <1>3, <1>4, <1>6, <1>7, <1>8, CallCovered

\* The latest change of a file.
LEMMA LatestChange ==
    ASSUME TypesInv, NEW p \in DOMAIN feed
    PROVE  \E q \in LatestChanges : q >= p /\ feed[q] = feed[p]
  <1> DEFINE S == {n \in Nat : \E q \in DOMAIN feed : feed[q] = feed[p] /\ n = Len(feed) - q}
  <1>1. DOMAIN feed = 1..Len(feed) /\ Len(feed) \in Nat
    BY DEF TypesInv
  <1>2. Len(feed) - p \in S
    BY <1>1
  <1>3. PICK n \in S : \A m \in S : n <= m
    <2> DEFINE R == OpToRel(<, Nat)
    <2>1. IsWellFoundedOn(R, Nat)
      BY NatLessThanWellFounded
    <2>2. S \subseteq Nat /\ S # {}
      BY <1>2
    <2>3. \A x, y \in Nat : y < x => <<y, x>> \in R
      BY DEF OpToRel
    <2> HIDE DEF R, S
    <2>4. PICK n \in S : \A m \in S : ~ (<<m, n>> \in R)
      BY <2>1, <2>2, WFMin
    <2>5. \A m \in S : m \in Nat /\ n \in Nat /\ ~ (m < n)
      BY <2>2, <2>3, <2>4
    <2> QED BY <2>4, <2>5
  <1>4. PICK q \in DOMAIN feed : feed[q] = feed[p] /\ n = Len(feed) - q
    BY <1>3
  <1>5. ASSUME NEW z \in DOMAIN feed, feed[z] = feed[p] PROVE z <= q
    <2>1. Len(feed) - z \in S
      BY <1>1, <1>5
    <2>2. n <= Len(feed) - z
      BY <1>3, <2>1
    <2> HIDE DEF S
    <2> QED BY <1>1, <1>4, <2>2
  <1> HIDE DEF S
  <1>6. \A z \in DOMAIN feed : z > q => feed[z] # feed[q]
    BY <1>1, <1>4, <1>5
  <1> QED BY <1>1, <1>4, <1>5, <1>6 DEF LatestChanges

LEMMA LatestOnce == TypesInv => OnePerFile(feed, LatestChanges)
  <1> SUFFICES ASSUME TypesInv, NEW a \in LatestChanges, NEW b \in LatestChanges, feed[a] = feed[b]
               PROVE  a = b
    BY DEF OnePerFile
  <1>1. a \in Nat /\ b \in Nat /\ ~(a > b) /\ ~(b > a)
    BY FeedItems DEF LatestChanges
  <1> QED BY <1>1

\* A sync at work, and a step of it that changes no gaps.
LEMMA SyncFacts ==
    ASSUME TypesInv, CoverInv, NEW c \in Calls,
           call[c].at \in {"create", "fetch", "token", "ingest", "items", "source"} \/ c \in Saving
    PROVE  /\ call[c].kind = "sync"
           /\ call[c].run = c /\ Gaps(c) = {} /\ ~At(c, "done") /\ call[c].todo \subseteq DOMAIN feed
           /\ call[c].at \in {"fetch", "token", "ingest"} => call[c].copy.summary = {}
           /\ Missing(call[c].copy.summary) \subseteq DOMAIN feed
  <1>1. call[c].kind = "sync" /\ ~At(c, "done") /\ call[c].todo \subseteq DOMAIN feed
    BY CallFacts DEF Legal, Saving, At
  <1> QED BY <1>1, CallFacts, FirmIn DEF CoverInv, SyncOK, SyncRow, At, Saving

LEMMA SyncMoves ==
    ASSUME TypesInv, TypesInv', CoverInv, NEW c \in Calls, call'[c].kind = "sync", Grown,
           missed \subseteq missed', ~At(c, "done"), ~At(c, "run"), source' = source,
           \A d \in Calls \ {c} : call'[d] = call[d], call'[c].source = call[c].source,
           \A r \in Calls : Gaps(r)' = Gaps(r), torn' = torn,
           SyncRow(feed', missed', Firm', call'[c], Gaps(c), c \in torn)
    PROVE  CoverInv'
  <1>1. Frame(c) /\ \A r \in Calls : OnePerFile(feed', Gaps(r)')
    BY GapsFrame
  <1>2. SavingKept(c)
    BY DEF SavingKept, Saving
  <1>3. SyncOK(c)' /\ RetryOK(c)'
    BY DEF SyncOK, RetryOK, RetryRow
  <1>4. Known(source') /\ Known(call'[c].source)
    BY DEF Known
  <1>5. Passes(call'[c].source.cursor, call'[c].source.pending)
        /\ Passes(source'.cursor, source'.pending)
    BY <1>1, <1>2, <1>4, KnownPasses
  <1> QED BY <1>1, <1>2, <1>3, <1>5, CallCovered

LEMMA CreateRunCovered ==
    ASSUME TypesInv, TypesInv', CoverInv, NEW c \in Calls, CreateRun(c)
    PROVE  CoverInv'
  <1> DEFINE run == [NoRun EXCEPT !.status = "EXTRACTING"]
             x == call'[c]
  <1>1. UNCHANGED <<feed, docs, missed, torn, source>> /\ At(c, "create")
        /\ runs' = [runs EXCEPT ![c] = run]
    BY DEF CreateRun, SaveRun, history, lasting
  <1>2. /\ \A d \in Calls \ {c} : call'[d] = call[d]
        /\ x.kind = call[c].kind /\ x.copy = run /\ x.at = "fetch" /\ x.source = call[c].source
    BY CreateRunMoves DEF Moved, Called
  <1>3. call[c].kind = "sync" /\ Gaps(c) = {} /\ ~At(c, "done")
    BY <1>1, SyncFacts DEF At
  <1>4. run.summary = {}
    BY RowStatus, AbsentRow DEF Statuses, NoRun
  <1> HIDE DEF run
  <1>5. \A r \in Calls : Gaps(r)' = Gaps(r)
    BY <1>1, <1>3, <1>4 DEF Gaps, Missing, TypesInv
  <1>6. SyncRow(feed', missed', Firm', x, Gaps(c), c \in torn)
    BY <1>2, <1>3, <1>4 DEF SyncRow
  <1> QED BY <1>1, <1>2, <1>3, <1>5, <1>6, SyncMoves, SameGrown DEF At

LEMMA FetchDeltaCovered ==
    ASSUME TypesInv, TypesInv', CoverInv, NEW c \in Calls, FetchDelta(c)
    PROVE  CoverInv'
  <1> DEFINE x == call'[c]
             n == call[c].source.cursor
  <1>1. UNCHANGED <<feed, docs, missed, torn, source, runs>> /\ At(c, "fetch")
    BY DEF FetchDelta, history, lasting
  <1>2. /\ \A d \in Calls \ {c} : call'[d] = call[d]
        /\ x.kind = call[c].kind /\ x.copy = call[c].copy /\ x.at = "ingest"
        /\ x.source = call[c].source /\ x.todo = Delta(n) /\ x.next = Len(feed) + 1
    BY FetchDeltaMoves DEF Moved, Called
  <1>3. call[c].kind = "sync" /\ Gaps(c) = {} /\ ~At(c, "done") /\ call[c].copy.summary = {}
    BY <1>1, SyncFacts DEF At
  <1>4. \A r \in Calls : Gaps(r)' = Gaps(r)
    BY <1>1 DEF Gaps
  <1>5. Missing({}) = {}
    BY DEF Missing
  <1>6. OnePerFile(feed, Delta(n))
    BY LatestOnce DEF OnePerFile, Delta
  <1>7. Covered(feed, missed, Len(feed) + 1, Firm \cup Delta(n))
    <2> SUFFICES ASSUME NEW p \in DOMAIN feed, feed[p] \notin Nested, p \notin missed
                 PROVE  \E q \in Firm \cup Delta(n) : q >= p /\ feed[q] = feed[p]
      BY DEF Covered
    <2>1. CASE p < n
      BY <2>1 DEF CoverInv, Covered
    <2>2. CASE ~(p < n)
      <3>1. PICK q \in LatestChanges : q >= p /\ feed[q] = feed[p]
        BY LatestChange
      <3>2. q >= n
        <4>1. n \in Nat /\ p \in Nat /\ q \in Nat
          BY CallFacts, FeedItems, SourceFieldsOf, Bounds DEF SourceOK, LatestChanges
        <4> HIDE DEF n
        <4> QED BY <2>2, <3>1, <4>1
      <3> QED BY <3>1, <3>2 DEF Delta
    <2> QED BY <2>1, <2>2
  <1>8. Firm' = Firm
    BY <1>1 DEF Firm, Gaps, Sown
  <1> HIDE DEF n
  <1>9. SyncRow(feed', missed', Firm', x, Gaps(c), c \in torn)
    BY <1>1, <1>2, <1>3, <1>5, <1>6, <1>7, <1>8 DEF SyncRow
  <1> QED BY <1>1, <1>2, <1>3, <1>4, <1>9, SyncMoves, SameGrown DEF At

LEMMA ListFolderCovered ==
    ASSUME TypesInv, TypesInv', CoverInv, NEW c \in Calls, ListFolder(c)
    PROVE  CoverInv'
  <1> DEFINE x == call'[c]
  <1>1. UNCHANGED <<feed, docs, missed, torn, source, runs>> /\ At(c, "fetch")
    BY DEF ListFolder, history, lasting
  <1>2. /\ \A d \in Calls \ {c} : call'[d] = call[d]
        /\ x.kind = call[c].kind /\ x.copy = call[c].copy /\ x.at = "token"
        /\ x.source = call[c].source /\ x.todo = LatestChanges /\ x.listed = Len(feed)
    BY ListFolderMoves DEF Moved, Called
  <1>3. call[c].kind = "sync" /\ Gaps(c) = {} /\ ~At(c, "done") /\ call[c].copy.summary = {}
    BY <1>1, SyncFacts DEF At
  <1>4. \A r \in Calls : Gaps(r)' = Gaps(r)
    BY <1>1 DEF Gaps
  <1>5. Missing({}) = {}
    BY DEF Missing
  <1>6. OnePerFile(feed, LatestChanges)
    BY LatestOnce
  <1>7. Covered(feed, missed, Len(feed) + 1, LatestChanges)
    BY LatestChange DEF Covered
  <1>9. SyncRow(feed', missed', Firm', x, Gaps(c), c \in torn)
    BY <1>1, <1>2, <1>3, <1>5, <1>6, <1>7 DEF SyncRow
  <1> QED BY <1>1, <1>2, <1>3, <1>4, <1>9, SyncMoves, SameGrown DEF At

LEMMA TokenCovered ==
    ASSUME TypesInv, TypesInv', CoverInv, NEW c \in Calls, GetStartPageToken(c)
    PROVE  CoverInv'
  <1> DEFINE x == call'[c]
             n == call[c].listed
             T == call[c].todo
  <1>1. UNCHANGED <<feed, docs, torn, source, runs>> /\ At(c, "token")
        /\ missed' = missed \cup (n + 1 .. Len(feed))
    BY DEF GetStartPageToken, lasting
  <1>2. /\ \A d \in Calls \ {c} : call'[d] = call[d]
        /\ x.kind = call[c].kind /\ x.copy = call[c].copy /\ x.at = "ingest"
        /\ x.source = call[c].source /\ x.todo = T /\ x.next = Len(feed) + 1
    BY GetStartPageTokenMoves DEF Moved, Called
  <1>3. call[c].kind = "sync" /\ Gaps(c) = {} /\ ~At(c, "done") /\ call[c].copy.summary = {}
    BY <1>1, SyncFacts DEF At
  <1>4. \A r \in Calls : Gaps(r)' = Gaps(r)
    BY <1>1 DEF Gaps
  <1>5. OnePerFile(feed, T \cup Missing(call[c].copy.summary)) /\ Covered(feed, missed, n + 1, T)
    BY <1>1, <1>3 DEF CoverInv, SyncOK, SyncRow, At
  <1>7. Covered(feed, missed', Len(feed) + 1, Firm \cup T \cup Missing(call[c].copy.summary))
    <2> SUFFICES ASSUME NEW p \in DOMAIN feed, feed[p] \notin Nested, p \notin missed'
                 PROVE  \E q \in T : q >= p /\ feed[q] = feed[p]
      BY DEF Covered
    <2>1. p < n + 1 /\ p \notin missed
      <3>1. n \in Nat /\ p \in 1..Len(feed) /\ Len(feed) \in Nat
        BY CallFacts, CallFields, FeedItems, Bounds
      <3> HIDE DEF n
      <3> QED BY <1>1, <3>1
    <2> QED BY <1>5, <2>1 DEF Covered
  <1>8. Firm' = Firm
    BY <1>1 DEF Firm, Gaps, Sown
  <1> HIDE DEF n, T
  <1>9. SyncRow(feed', missed', Firm', x, Gaps(c), c \in torn)
    BY <1>1, <1>2, <1>3, <1>5, <1>7, <1>8 DEF SyncRow
  <1> QED BY <1>1, <1>2, <1>3, <1>4, <1>9, SyncMoves, SameGrown DEF At

LEMMA MarkIngestingCovered ==
    ASSUME TypesInv, TypesInv', CoverInv, NEW c \in Calls, MarkIngesting(c)
    PROVE  CoverInv'
  <1> DEFINE run == Marked(call[c].copy, Cardinality(call[c].todo))
             x == call'[c]
  <1>1. UNCHANGED <<feed, docs, missed, torn, source>> /\ At(c, "ingest")
        /\ runs' = [runs EXCEPT ![c] = run]
    BY DEF MarkIngesting, SaveRun, Marked, history, lasting
  <1>2. /\ \A d \in Calls \ {c} : call'[d] = call[d]
        /\ x.kind = call[c].kind /\ x.copy = run /\ x.at = "items" /\ x.source = call[c].source
        /\ x.todo = call[c].todo /\ x.next = call[c].next
    BY MarkIngestingMoves DEF Moved, Called
  <1>3. call[c].kind = "sync" /\ Gaps(c) = {} /\ ~At(c, "done") /\ call[c].copy.summary = {}
    BY <1>1, SyncFacts DEF At
  <1>4. run.summary = {}
    <2>1. Cardinality(call[c].todo) \in Nat /\ call[c].copy \in Rows
      BY CallFacts, FS_CardinalityType, CallFields DEF Legal
    <2> QED BY <1>3, <2>1, MarkedRow DEF Made
  <1> HIDE DEF run
  <1>5. \A r \in Calls : Gaps(r)' = Gaps(r)
    BY <1>1, <1>3, <1>4 DEF Gaps, Missing, TypesInv
  <1>6. Firm' = Firm
    BY <1>1, <1>5 DEF Firm, Sown
  <1>7. SyncRow(feed, missed, Firm, call[c], Gaps(c), c \in torn)
    BY DEF CoverInv, SyncOK
  <1>8. SyncRow(feed', missed', Firm', x, Gaps(c), c \in torn)
    BY <1>1, <1>2, <1>3, <1>4, <1>6, <1>7 DEF SyncRow, At
  <1> QED BY <1>1, <1>2, <1>3, <1>5, <1>8, SyncMoves, SameGrown DEF At

LEMMA MissingOne ==
    ASSUME NEW S, NEW f
    PROVE  Missing(S \cup {f}) = IF f.doc = NoDoc THEN Missing(S) \cup {f.item} ELSE Missing(S)
  BY DEF Missing

\* An item is attached, or its failure listed: what is left of the set is as good.
LEMMA ItemCovered ==
    ASSUME TypesInv, TypesInv', CoverInv, NEW c \in Calls, NEW p \in DOMAIN feed,
           ItemAttached(c, p) \/ ItemFails(c, p) \/ ItemFailsAttached(c, p)
    PROVE  CoverInv'
  <1> DEFINE x == call'[c]
             m == Missing(call[c].copy.summary)
             n == Missing(x.copy.summary)
  <1>1. UNCHANGED <<feed, missed, torn, source, runs>> /\ At(c, "items") /\ p \in call[c].todo
    BY DEF ItemAttached, ItemFails, ItemFailsAttached, history, lasting
  <1>2. /\ \A d \in Calls \ {c} : call'[d] = call[d]
        /\ x.kind = call[c].kind /\ x.at = "items"
        /\ x.source = call[c].source /\ x.todo = call[c].todo \ {p} /\ x.next = call[c].next
        /\ \/ x.copy = call[c].copy
           \/ x.copy = RecordFailed(call[c].copy, Failure(p, NoDoc))
    BY <1>1, ItemAttachedMoves, ItemFailsMoves, ItemFailsAttachedMoves DEF Moved, Called, At
  <1>3. call[c].kind = "sync" /\ Gaps(c) = {} /\ ~At(c, "done")
    BY <1>1, SyncFacts DEF At
  <1>4. Grown
    BY SameGrown, AttachGrows DEF ItemAttached, ItemFails, ItemFailsAttached
  <1>5. m \subseteq n /\ n \subseteq m \cup {p} /\ (p \in Firm' \/ p \in n) /\ Firm \subseteq Firm'
    <2>1. Firm \subseteq Firm'
      BY <1>1, <1>4, SownGrows DEF Firm, Gaps
    <2>2. CASE ItemAttached(c, p)
      <3>1. <<c, p>> \in docs' /\ <<c, p>>[2] = p
        BY <2>2 DEF ItemAttached, AttachDoc
      <3>2. p \in Firm'
        BY <3>1 DEF Firm, Sown
      <3>3. x.copy = call[c].copy
        BY <2>2, ItemAttachedMoves DEF Moved, Called
      <3> QED BY <2>1, <3>2, <3>3
    <2>3. CASE ItemFails(c, p) \/ ItemFailsAttached(c, p)
      <3>1. x.copy = RecordFailed(call[c].copy, Failure(p, NoDoc))
        BY <2>3, ItemFailsMoves, ItemFailsAttachedMoves DEF Moved, Called
      <3>2. x.copy.summary = call[c].copy.summary \cup {Failure(p, NoDoc)}
        BY <3>1, RunRecordFailed, FileFailure, CallFacts
      <3>3. PICK f : f = Failure(p, NoDoc)
        OBVIOUS
      <3>4. f.item = p /\ f.doc = NoDoc
        BY <3>3, FileFailure
      <3>5. Missing(call[c].copy.summary \cup {f}) = m \cup {p}
        BY <3>4, MissingOne
      <3>6. n = m \cup {p}
        BY <3>2, <3>3, <3>5
      <3> QED BY <2>1, <3>6
    <2> QED BY <2>2, <2>3
  <1>6. SyncRow(feed, missed, Firm, call[c], Gaps(c), c \in torn)
    BY DEF CoverInv, SyncOK
  <1>7. OnePerFile(feed, call[c].todo \cup m)
        /\ Covered(feed, missed, call[c].next, Firm \cup call[c].todo \cup m)
    BY <1>1, <1>3, <1>6 DEF SyncRow, At
  <1>8. OnePerFile(feed, x.todo \cup n)
    BY <1>1, <1>2, <1>5, <1>7 DEF OnePerFile
  <1>9. Covered(feed, missed, x.next, Firm' \cup x.todo \cup n)
    <2>1. Firm \cup call[c].todo \cup m \subseteq Firm' \cup x.todo \cup n
      BY <1>2, <1>5
    <2> HIDE DEF x, n, m
    <2> QED BY <1>2, <1>7, <2>1 DEF Covered
  <1>10. SyncRow(feed', missed', Firm', x, Gaps(c), c \in torn)
    BY <1>1, <1>2, <1>3, <1>8, <1>9 DEF SyncRow
  <1>11. \A r \in Calls : Gaps(r)' = Gaps(r)
    BY <1>1 DEF Gaps
  <1> QED BY <1>1, <1>2, <1>3, <1>4, <1>10, <1>11, SyncMoves DEF At

\* The local failures all join the run, or others of their files do.
LEMMA MergeCovered ==
    ASSUME TypesInv, TypesInv', CoverInv, NEW c \in Calls, MergeRun(c), ~shadowed'
    PROVE  CoverInv'
  <1> DEFINE x == call'[c]
             run == runs[c]
             local == call[c].copy.summary
  <1>1. UNCHANGED <<feed, docs, missed, torn, source, runs>> /\ At(c, "items") /\ call[c].todo = {}
    BY DEF MergeRun
  <1>2. PICK new : /\ new \subseteq local /\ IsFiniteSet(new) /\ ~Unlisted(local, x.copy.summary)
                   /\ \A d \in Calls \ {c} : call'[d] = call[d]
                   /\ x.kind = call[c].kind /\ x.at = "source" /\ x.source = call[c].source
                   /\ x.todo = {} /\ x.next = call[c].next /\ x.copy = Merges(c, new)
    BY <1>1, MergeRunMoves DEF Moved, Called
  <1>3. call[c].kind = "sync" /\ Gaps(c) = {} /\ ~At(c, "done")
    BY <1>1, SyncFacts DEF At
  <1>4. OnePerFile(feed, Missing(local))
        /\ Covered(feed, missed, call[c].next, Firm \cup {} \cup Missing(local))
    BY <1>1, <1>3 DEF CoverInv, SyncOK, SyncRow, At
  <1>5. Missing(x.copy.summary) = Missing(local)
    <2>1. CASE run = NoRun
      BY <1>2, <2>1 DEF Merges
    <2>2. CASE run # NoRun
      <3>1. (\A f \in new : FailureOK(f)) /\ RunOK(run)
        BY <1>2, CallFacts DEF RunOK, TypesInv
      <3>2. x.copy.summary = run.summary \cup new
        BY <1>2, <2>2, <3>1, RunMerged DEF Merges
      <3>3. \A f \in run.summary : f.doc # NoDoc
        BY <1>3 DEF Gaps, Missing
      <3>4. ASSUME NEW f \in local, f.doc = NoDoc PROVE f.item \in Missing(new)
        <4>1. PICK g \in x.copy.summary : feed[g.item] = feed[f.item] /\ g.doc = NoDoc
          BY <1>2 DEF Unlisted
        <4>2. g \in new /\ g \in local
          BY <1>2, <3>2, <3>3, <4>1
        <4>3. g.item \in Missing(local) /\ f.item \in Missing(local)
          BY <3>4, <4>1, <4>2 DEF Missing
        <4>4. g.item = f.item
          BY <1>4, <4>1, <4>3 DEF OnePerFile
        <4> HIDE DEF run, local
        <4> QED BY <4>1, <4>2, <4>4 DEF Missing
      <3> HIDE DEF run, local
      <3>5. Missing(run.summary \cup new) = Missing(local)
        BY <1>2, <3>3, <3>4 DEF Missing
      <3> QED BY <3>2, <3>5
    <2> QED BY <2>1, <2>2
  <1>6. Firm' = Firm /\ \A r \in Calls : Gaps(r)' = Gaps(r)
    BY <1>1 DEF Firm, Gaps, Sown
  <1>7. OnePerFile(feed, x.todo \cup Missing(x.copy.summary))
        /\ Covered(feed, missed, x.next, Firm \cup x.todo \cup Missing(x.copy.summary))
    <2> HIDE DEF x, local
    <2>1. x.todo \cup Missing(x.copy.summary) = Missing(local)
      BY <1>2, <1>5
    <2>2. Firm \cup x.todo \cup Missing(x.copy.summary) = Firm \cup {} \cup Missing(local)
      BY <1>2, <1>5
    <2> QED BY <1>2, <1>4, <2>1, <2>2
  <1>8. SyncRow(feed', missed', Firm', x, Gaps(c), c \in torn)
    BY <1>1, <1>2, <1>3, <1>6, <1>7 DEF SyncRow
  <1> QED BY <1>1, <1>2, <1>3, <1>6, <1>8, SyncMoves, SameGrown DEF At

LEMMA SaveSourceCovered ==
    ASSUME TypesInv, TypesInv', CoverInv, NEW c \in Calls, SaveSource(c)
    PROVE  CoverInv'
  <1> DEFINE x == call'[c]
             s == SyncSaves(call[c])
             m == Missing(call[c].copy.summary)
             n == call[c].next
  <1>1. UNCHANGED <<feed, docs, missed, runs>> /\ At(c, "source") /\ torn' = torn \cup {c} /\ source' = s
    BY DEF SaveSource, SyncSaves
  <1>2. /\ \A d \in Calls \ {c} : call'[d] = call[d]
        /\ x.kind = call[c].kind /\ x.at = "run" /\ x.source = s /\ x.todo = call[c].todo
        /\ x.copy = call[c].copy
    BY SaveSourceMoves DEF Moved, Called
  <1>3. call[c].kind = "sync" /\ Gaps(c) = {} /\ ~At(c, "done")
    BY <1>1, SyncFacts DEF At
  <1>4. Frame(c) /\ \A r \in Calls : Gaps(r)' = Gaps(r) /\ OnePerFile(feed', Gaps(r)')
    BY <1>1, <1>2, <1>3, QuietFrame, SameGrown
  <1>5. SavingKept(c)
    BY <1>1 DEF SavingKept, Saving, At
  <1>6. OnePerFile(feed, call[c].todo \cup m) /\ Covered(feed, missed, n, Firm \cup call[c].todo \cup m)
        /\ call[c].todo = {}
    BY <1>1, <1>3 DEF CoverInv, SyncOK, SyncRow, At
  <1>7. SyncOK(c)' /\ RetryOK(c)'
    <2>1. Gaps(c)' = {} /\ c \in torn'
      BY <1>1, <1>3, <1>4
    <2>2. SyncRow(feed', missed', Firm', x, {}, TRUE)
      BY <1>1, <1>2, <1>6 DEF SyncRow
    <2> QED BY <1>2, <1>3, <2>1, <2>2 DEF SyncOK, SyncRow, RetryOK, RetryRow
  <1>8. m \subseteq Safe' /\ Firm \subseteq Firm' /\ Firm' \subseteq Safe'
    <2>1. c \in Saving'
      BY <1>2, <1>3 DEF Saving, At
    <2> QED BY <1>2, <1>4, <2>1, FirmGrows DEF Safe
  <1>9. n \in Nat /\ n <= Len(feed) + 1 /\ m \subseteq DOMAIN feed /\ Firm \subseteq DOMAIN feed
    BY CallFacts, CallFields, FirmIn, Bounds
  <1>10. Passes(call[c].source.cursor, call[c].source.pending)
    BY <1>4, <1>5, KnownPasses DEF Known
  <1>11. SourceMade(s, "IDLE", IF call[c].copy.failed > 0 THEN call[c].source.cursor ELSE n,
                    IF call[c].copy.failed > 0 THEN n ELSE 0)
    BY SavedRow, CallFacts
  <1> HIDE DEF s, n
  <1>12. CASE call[c].copy.failed > 0
    <2>1. Firm \cup call[c].todo \cup m \subseteq Safe'
          /\ Firm \cup call[c].todo \cup m \subseteq DOMAIN feed
      BY <1>6, <1>8, <1>9
    <2>2. Covered(feed', missed', n, Safe')
      BY <1>4, <1>6, <1>9, <2>1, CoveredStays DEF Frame
    <2>3. Passes(s.cursor, s.pending)
      BY <1>10, <1>11, <1>12, <2>2 DEF Passes, SourceMade
    <2> QED BY <1>1, <1>2, <1>4, <1>5, <1>7, <2>3, CallCovered
  <1>13. CASE ~(call[c].copy.failed > 0)
    <2>1. call[c].copy.summary = {}
      <3>1. call[c].copy.failed \in Nat /\ RunOK(call[c].copy)
        BY CallFacts, RowFields DEF RunOK
      <3> QED BY <1>13, <3>1 DEF RunOK
    <2>2. Firm \cup call[c].todo \cup m = Firm
      BY <1>6, <2>1 DEF Missing
    <2>3. Covered(feed', missed', n, Firm')
      BY <1>4, <1>6, <1>8, <1>9, <2>2, CoveredStays DEF Frame
    <2>4. Covered(feed', missed', 0, Safe')
      BY <1>1, NothingCovered
    <2>5. Passes(s.cursor, s.pending)
      BY <1>11, <1>13, <2>3, <2>4 DEF Passes, SourceMade
    <2> QED BY <1>1, <1>2, <1>4, <1>5, <1>7, <2>5, CallCovered
  <1> QED BY <1>12, <1>13

LEMMA RowWritten ==
    ASSUME TypesInv, NEW r \in Calls, NEW y, runs' = [runs EXCEPT ![r] = y]
    PROVE  Gaps(r)' = Missing(y.summary) /\ \A n \in Calls \ {r} : Gaps(n)' = Gaps(n)
  BY DEF Gaps, TypesInv

\* The row of a run is replaced by what a retry made of it.
LEMMA RetryWrites ==
    ASSUME TypesInv, CoverInv, NEW c \in Calls, call[c].kind = "retry", ~At(c, "loadrun"),
           UNCHANGED <<feed, docs, missed>>,
           \A d \in Calls \ {c} : call'[d] = call[d] /\ (d \in torn' <=> d \in torn),
           NEW y, Missing(y.summary) = Missing(call[c].copy.summary),
           runs' = [runs EXCEPT ![call[c].run] = y]
    PROVE  Frame(c) /\ \A r \in Calls : OnePerFile(feed', Gaps(r)')
  <1> DEFINE m == Missing(call[c].copy.summary)
  <1>1. PICK r \in Calls :
            /\ call[c].run = r /\ r # c /\ call[r].at = "done" /\ r \notin torn
            /\ m \subseteq Gaps(r) \cup Sown /\ Gaps(r) \subseteq m \cup Sown
            /\ OnePerFile(feed, m \cup Missing(call[c].todo)) /\ m \subseteq DOMAIN feed
    BY RetryFacts
  <1>2. Gaps(r)' = m /\ \A n \in Calls \ {r} : Gaps(n)' = Gaps(n)
    BY <1>1, RowWritten
  <1> HIDE DEF m
  <1>3. Grown /\ Sown' = Sown /\ ~At(c, "done")
    BY SameGrown, CallFacts DEF Sown, Legal, At
  <1>4. Frame(c)
    BY <1>1, <1>2, <1>3 DEF Frame, GapsKept, At
  <1>5. \A n \in Calls : OnePerFile(feed', Gaps(n)')
    BY <1>1, <1>2 DEF OnePerFile, CoverInv
  <1> QED BY <1>4, <1>5

LEMMA SaveRunWholeCovered ==
    ASSUME TypesInv, TypesInv', CoverInv, NEW c \in Calls, SaveRunWhole(c)
    PROVE  CoverInv'
  <1> DEFINE y == call[c].copy
  <1>1. /\ UNCHANGED <<feed, docs, missed, source>> /\ At(c, "run") /\ torn' = torn \ {c} /\ End(c)
        /\ runs' = [runs EXCEPT ![call[c].run] = y]
    BY DEF SaveRunWhole, SaveRun
  <1>2. \A d \in Calls \ {c} : call'[d] = call[d]
    BY <1>1, EndMoves DEF Moved
  <1>3. Known(source')
    BY <1>1 DEF Known
  <1>4. CASE call[c].kind = "sync"
    <2>1. call[c].run = c /\ Gaps(c) = {} /\ ~At(c, "done")
      BY <1>1, <1>4, SyncFacts DEF Saving
    <2>2. Gaps(c)' = Missing(y.summary) /\ \A n \in Calls \ {c} : Gaps(n)' = Gaps(n)
      BY <1>1, <2>1, RowWritten
    <2>3. Frame(c)
      BY <1>1, <1>2, <2>1, <2>2, SameGrown DEF Frame, GapsKept, At
    <2>4. SavingKept(c)
      BY <2>2 DEF SavingKept, Firm
    <2>5. OnePerFile(feed, call[c].todo \cup Missing(y.summary))
      BY <1>1, <1>4 DEF CoverInv, SyncOK, SyncRow, At
    <2>6. \A n \in Calls : OnePerFile(feed', Gaps(n)')
      BY <1>1, <2>2, <2>5 DEF OnePerFile, CoverInv
    <2> QED BY <1>1, <1>3, <2>3, <2>4, <2>6, EndCovered
  <1>5. CASE call[c].kind = "retry"
    <2>1. SavingKept(c)
      BY <1>5 DEF SavingKept, Saving
    <2>2. Frame(c) /\ \A r \in Calls : OnePerFile(feed', Gaps(r)')
      BY <1>1, <1>2, <1>5, RetryWrites DEF At
    <2> QED BY <1>1, <1>3, <2>1, <2>2, EndCovered
  <1> QED BY <1>4, <1>5, CallFacts

LEMMA RetryGoesOn ==
    ASSUME TypesInv, TypesInv', CoverInv, NEW c \in Calls, call[c].kind = "retry",
           Frame(c), \A n \in Calls : OnePerFile(feed', Gaps(n)'),
           call'[c].kind = "retry", Passes(source'.cursor, source'.pending),
           Passes(call'[c].source.cursor, call'[c].source.pending),
           NEW r \in Calls, call'[c].run = r, r # c, call[r].at = "done", r \notin torn,
           Missing(call'[c].copy.summary) \subseteq Gaps(r)' \cup Sown',
           Gaps(r)' \subseteq Missing(call'[c].copy.summary) \cup Sown',
           OnePerFile(feed', Missing(call'[c].copy.summary) \cup Missing(call'[c].todo))
    PROVE  CoverInv'
  <1>1. SavingKept(c)
    BY DEF SavingKept, Saving
  <1>2. call'[r].at = "done" /\ r \notin torn'
    BY DEF Frame
  <1>3. RetryRow(feed', Sown', call'[c], Gaps(r)', TRUE)
    BY DEF RetryRow
  <1>4. RetryOK(c)'
    BY <1>2, <1>3, RetryHolds
  <1>5. SyncOK(c)'
    BY DEF SyncOK, SyncRow
  <1> QED BY <1>1, <1>4, <1>5, CallCovered

LEMMA MarkRetryingCovered ==
    ASSUME TypesInv, TypesInv', CoverInv, NEW c \in Calls, MarkRetrying(c)
    PROVE  CoverInv'
  <1> DEFINE x == call'[c]
             y == [call[c].copy EXCEPT !.status = "INGESTING"]
             m == Missing(call[c].copy.summary)
  <1>1. /\ UNCHANGED <<feed, docs, missed, source, torn>> /\ At(c, "mark")
        /\ runs' = [runs EXCEPT ![call[c].run] = y]
    BY DEF MarkRetrying, SaveRun, history, lasting
  <1>2. /\ \A d \in Calls \ {c} : call'[d] = call[d]
        /\ x.kind = call[c].kind /\ x.run = call[c].run /\ x.source = call[c].source
        /\ x.copy = y /\ x.todo = call[c].todo
    BY MarkRetryingMoves DEF Moved, Called
  <1>3. call[c].kind = "retry" /\ ~At(c, "loadrun")
    BY <1>1, CallFacts DEF At, Legal
  <1>4. y.summary = call[c].copy.summary
    BY CallFacts, CallFields, RowStatus DEF Statuses
  <1> HIDE DEF y
  <1>5. Frame(c) /\ \A r \in Calls : OnePerFile(feed', Gaps(r)')
    BY <1>1, <1>2, <1>3, <1>4, RetryWrites
  <1>6. PICK r \in Calls :
            /\ call[c].run = r /\ r # c /\ call[r].at = "done" /\ r \notin torn
            /\ m \subseteq Gaps(r) \cup Sown /\ Gaps(r) \subseteq m \cup Sown
            /\ OnePerFile(feed, m \cup Missing(call[c].todo))
    BY <1>3, RetryFacts
  <1>7. Gaps(r)' = m /\ Sown' = Sown /\ Missing(x.copy.summary) = m
    <2>1. runs' = [runs EXCEPT ![r] = y]
      BY <1>1, <1>6
    <2>2. Gaps(r)' = Missing(y.summary)
      BY <2>1, RowWritten
    <2> QED BY <1>1, <1>2, <1>4, <2>2 DEF Sown
  <1>8. SavingKept(c)
    BY <1>3 DEF SavingKept, Saving
  <1>9. Known(source') /\ Known(x.source)
    BY <1>1, <1>2 DEF Known
  <1>10. Passes(source'.cursor, source'.pending) /\ Passes(x.source.cursor, x.source.pending)
    BY <1>5, <1>8, <1>9, KnownPasses
  <1> QED BY <1>1, <1>2, <1>3, <1>5, <1>6, <1>7, <1>10, RetryGoesOn

LEMMA Names ==
    ASSUME NEW a, NEW b
    PROVE  <<"file", a>> # <<"doc", b>>
  OBVIOUS

\* An item of a retry: what is resolved has a document, old or new, unless another
\* file of its name is dropped with it.
LEMMA ResolvedGaps ==
    ASSUME TypesInv, NEW y, RunOK(y), NEW f, FailureOK(f),
           \A g \in y.summary \ Left(y, f.name) : g.doc = NoDoc => feed[g.item] = feed[f.item]
    PROVE  /\ f.doc # NoDoc => Missing(Left(y, f.name)) = Missing(y.summary)
           /\ f.doc = NoDoc /\ OnePerFile(feed, Missing(y.summary) \cup {f.item})
                => Missing(y.summary) \subseteq Missing(Left(y, f.name)) \cup {f.item}
           /\ Missing(Left(y, f.name)) \subseteq Missing(y.summary)
  <1>1. Left(y, f.name) \subseteq y.summary
    BY DEF Left
  <1>2. ASSUME NEW g \in y.summary, g.doc = NoDoc, g \notin Left(y, f.name)
        PROVE  f.doc = NoDoc /\ feed[g.item] = feed[f.item]
    <2>1. g.name = f.name /\ FailureOK(g)
      BY <1>2 DEF Left, RunOK
    <2>2. g.name = <<"file", Base[feed[g.item]]>> /\ f.name = Name(f.item, f.doc)
      BY <1>2, <2>1 DEF FailureOK, Failure, Name
    <2>3. f.doc = NoDoc
      <3> SUFFICES ASSUME f.doc # NoDoc PROVE FALSE
        OBVIOUS
      <3>1. f.name = <<"doc", f.doc>>
        BY <2>2 DEF Name
      <3> QED BY <2>1, <2>2, <3>1, Names
    <2> QED BY <1>2, <2>3
  <1>3. f.doc # NoDoc => Missing(Left(y, f.name)) = Missing(y.summary)
    BY <1>1, <1>2 DEF Missing
  <1>4. ASSUME f.doc = NoDoc, OnePerFile(feed, Missing(y.summary) \cup {f.item}),
               NEW g \in y.summary, g.doc = NoDoc
        PROVE  g.item \in Missing(Left(y, f.name)) \cup {f.item}
    <2>1. CASE g \in Left(y, f.name)
      BY <1>4, <2>1 DEF Missing
    <2>2. CASE g \notin Left(y, f.name)
      <3>1. feed[g.item] = feed[f.item] /\ g.item \in Missing(y.summary)
        BY <1>2, <1>4, <2>2 DEF Missing
      <3>2. g.item = f.item
        BY <1>4, <3>1 DEF OnePerFile
      <3> QED BY <3>2
    <2> QED BY <2>1, <2>2
  <1>5. Missing(Left(y, f.name)) \subseteq Missing(y.summary)
    BY <1>1 DEF Missing
  <1> QED BY <1>3, <1>4, <1>5 DEF Missing

LEMMA RetryItemCovered ==
    ASSUME TypesInv, TypesInv', CoverInv, NEW c \in Calls, NEW f \in call[c].todo,
           RetryReprocessed(c, f) \/ RetryAttached(c, f) \/ RetryItemFails(c, f),
           ~shadowed'
    PROVE  CoverInv'
  <1> DEFINE x == call'[c]
             y == call[c].copy
             m == Missing(y.summary)
             n == Missing(x.copy.summary)
  <1>1. UNCHANGED <<feed, missed, torn, source, runs>> /\ At(c, "retry")
    BY DEF RetryReprocessed, RetryAttached, RetryItemFails, history, lasting
  <1>2. /\ \A d \in Calls \ {c} : call'[d] = call[d]
        /\ x.kind = call[c].kind /\ x.run = call[c].run /\ x.source = call[c].source
        /\ x.todo = call[c].todo \ {f}
    BY RetryReprocessedMoves, RetryAttachedMoves, RetryItemFailsMoves DEF Moved, Called
  <1>3. call[c].kind = "retry" /\ ~At(c, "loadrun") /\ ~At(c, "done") /\ FailureOK(f) /\ RunOK(y)
    BY <1>1, CallFacts DEF At, Legal
  <1>4. PICK r \in Calls :
            /\ call[c].run = r /\ r # c /\ call[r].at = "done" /\ r \notin torn
            /\ m \subseteq Gaps(r) \cup Sown /\ Gaps(r) \subseteq m \cup Sown
            /\ OnePerFile(feed, m \cup Missing(call[c].todo))
    BY <1>3, RetryFacts
  <1>5. Grown
    BY <1>3, SameGrown, AttachGrows DEF RetryReprocessed, RetryAttached, RetryItemFails, FailureOK
  <1>6. Frame(c) /\ \A k \in Calls : Gaps(k)' = Gaps(k) /\ OnePerFile(feed', Gaps(k)')
    BY <1>1, <1>2, <1>3, <1>5, QuietFrame
  <1>0. ASSUME Resolve(c, f)
        PROVE  \A g \in y.summary \ Left(y, f.name) : g.doc = NoDoc => feed[g.item] = feed[f.item]
    <2>1. ResolveSuccess(y, f.name).summary = Left(y, f.name)
      BY <1>3, RunResolve
    <2> QED BY <1>0, <2>1 DEF Resolve
  <1>7. n \subseteq m /\ m \subseteq n \cup Sown' /\ Sown \subseteq Sown'
    <2>1. Sown \subseteq Sown'
      BY <1>5, SownGrows
    <2>2. CASE RetryItemFails(c, f)
      <3>1. x.copy = y
        BY <2>2, RetryItemFailsMoves DEF Moved, Called
      <3> QED BY <2>1, <3>1
    <2>3. CASE RetryReprocessed(c, f)
      <3>1. x.copy = ResolveSuccess(y, f.name) /\ f.doc # NoDoc
        BY <2>3, RetryReprocessedMoves DEF Moved, Called, RetryReprocessed
      <3>2. x.copy.summary = Left(y, f.name)
        BY <1>3, <3>1, RunResolve
      <3>3. Missing(Left(y, f.name)) = m
        BY <1>0, <1>3, <2>3, <3>1, ResolvedGaps DEF RetryReprocessed
      <3> QED BY <2>1, <3>2, <3>3
    <2>4. CASE RetryAttached(c, f)
      <3>1. x.copy = ResolveSuccess(y, f.name) /\ f.doc = NoDoc
        BY <2>4, RetryAttachedMoves DEF Moved, Called, RetryAttached
      <3>2. x.copy.summary = Left(y, f.name)
        BY <1>3, <3>1, RunResolve
      <3>3. f.item \in Missing(call[c].todo)
        BY <3>1 DEF Missing
      <3>4. OnePerFile(feed, m \cup {f.item})
        BY <1>4, <3>3 DEF OnePerFile
      <3>5. m \subseteq n \cup {f.item} /\ n \subseteq m
        BY <1>0, <1>3, <2>4, <3>1, <3>2, <3>4, ResolvedGaps DEF RetryAttached
      <3>6. f.item \in Sown'
        <4>1. <<c, f.item>> \in docs' /\ <<c, f.item>>[2] = f.item
          BY <2>4 DEF RetryAttached, AttachDoc
        <4> QED BY <4>1 DEF Sown
      <3> QED BY <2>1, <3>5, <3>6
    <2> QED BY <2>2, <2>3, <2>4
  <1>8. Missing(x.todo) \subseteq Missing(call[c].todo)
    BY <1>2 DEF Missing
  <1> HIDE DEF x, y, m, n
  <1>9. OnePerFile(feed', n \cup Missing(x.todo))
    BY <1>1, <1>4, <1>7, <1>8 DEF OnePerFile
  <1>10. n \subseteq Gaps(r)' \cup Sown' /\ Gaps(r)' \subseteq n \cup Sown'
    BY <1>4, <1>6, <1>7
  <1>11. SavingKept(c) /\ Known(source') /\ Known(x.source)
    BY <1>1, <1>2, <1>3 DEF SavingKept, Saving, Known
  <1>12. Passes(source'.cursor, source'.pending) /\ Passes(x.source.cursor, x.source.pending)
    BY <1>6, <1>11, KnownPasses
  <1> QED BY <1>2, <1>3, <1>4, <1>6, <1>9, <1>10, <1>12, RetryGoesOn DEF x, n

\* A pending cursor is promoted only while no sync has failures to save.
LEMMA RetrySaveSourceCovered ==
    ASSUME TypesInv, TypesInv', CoverInv, NEW c \in Calls, RetrySaveSource(c), ~early'
    PROVE  CoverInv'
  <1> DEFINE x == call'[c]
             s == RetrySaves(call[c])
             z == call[c].source
             m == Missing(call[c].copy.summary)
  <1>1. /\ UNCHANGED <<feed, docs, missed, runs, torn>> /\ At(c, "retry") /\ source' = s
        /\ ~ (call[c].copy.failed = 0 /\ z.pending # 0 /\ torn # {})
    BY DEF RetrySaveSource, RetrySaves
  <1>2. /\ \A d \in Calls \ {c} : call'[d] = call[d]
        /\ x.kind = call[c].kind /\ x.run = call[c].run /\ x.at = "run" /\ x.source = s
        /\ x.todo = call[c].todo /\ x.copy = call[c].copy
    BY RetrySaveSourceMoves DEF Moved, Called
  <1>3. call[c].kind = "retry" /\ ~At(c, "loadrun") /\ ~At(c, "done")
    BY <1>1, CallFacts DEF At, Legal
  <1>4. PICK r \in Calls :
            /\ call[c].run = r /\ r # c /\ call[r].at = "done" /\ r \notin torn
            /\ m \subseteq Gaps(r) \cup Sown /\ Gaps(r) \subseteq m \cup Sown
            /\ OnePerFile(feed, m \cup Missing(call[c].todo))
    BY <1>3, RetryFacts
  <1>5. Frame(c) /\ \A n \in Calls : Gaps(n)' = Gaps(n) /\ OnePerFile(feed', Gaps(n)')
    BY <1>1, <1>2, <1>3, QuietFrame, SameGrown
  <1>6. SavingKept(c) /\ Known(z)
    BY <1>3 DEF SavingKept, Saving, Known
  <1>7. Passes(z.cursor, z.pending)
    BY <1>5, <1>6, KnownPasses
  <1>8. SourceMade(s, "IDLE",
          IF call[c].copy.failed = 0 /\ z.pending # 0 THEN z.pending ELSE z.cursor,
          IF call[c].copy.failed = 0 THEN 0 ELSE z.pending)
    BY SavedRow, CallFacts
  <1>9. Covered(feed', missed', 0, Safe')
    BY <1>1, NothingCovered
  <1> HIDE DEF s
  <1>10. Passes(s.cursor, s.pending)
    <2>1. CASE call[c].copy.failed = 0 /\ z.pending # 0
      <3>1. torn = {}
        BY <1>1, <2>1
      <3>2. ~Lost /\ Saving = {}
        BY <3>1 DEF Lost, Saving, CoverInv, SyncOK, SyncRow, At
      <3>3. Safe = Firm
        BY <3>2 DEF Safe
      <3>4. Covered(feed, missed, z.pending, Firm)
        BY <3>2, <3>3 DEF CoverInv
      <3>5. z.pending \in Nat /\ z.pending <= Len(feed) + 1
        BY CallFacts, SourceFieldsOf, Bounds DEF SourceOK
      <3> HIDE DEF z
      <3>6. Covered(feed', missed', z.pending, Firm')
        BY <1>5, <3>4, <3>5, FirmIn, FirmGrows, CoveredStays DEF Frame
      <3> QED BY <1>8, <1>9, <2>1, <3>6 DEF Passes, SourceMade
    <2>2. CASE ~(call[c].copy.failed = 0 /\ z.pending # 0)
      <3>1. s.cursor = z.cursor /\ (s.pending = 0 \/ s.pending = z.pending)
        BY <1>8, <2>2 DEF SourceMade
      <3> QED BY <1>7, <1>9, <3>1 DEF Passes
    <2> QED BY <2>1, <2>2
  <1>11. /\ m \subseteq Gaps(r)' \cup Sown' /\ Gaps(r)' \subseteq m \cup Sown'
         /\ OnePerFile(feed', m \cup Missing(x.todo))
    <2>1. Sown' = Sown /\ Gaps(r)' = Gaps(r)
      BY <1>1, <1>5 DEF Sown
    <2> HIDE DEF m, x
    <2> QED BY <1>1, <1>2, <1>4, <2>1
  <1> QED BY <1>1, <1>2, <1>3, <1>4, <1>5, <1>10, <1>11, RetryGoesOn

LEMMA ElseCovered ==
    ASSUME TypesInv, TypesInv', CoverInv, ~removed',
           \/ \E d \in open : DocIndexed(d) \/ DocFails(d)
           \/ \E d \in docs \ open : DocIndexedAgain(d)
           \/ DeleteSource \/ (\E f \in Files : ChangeFile(f)) \/ UNCHANGED vars
    PROVE  CoverInv'
  <1>1. UNCHANGED <<source, call, docs, missed, torn>> /\ Grown
    <2>1. CASE \E f \in Files : ChangeFile(f)
      BY <2>1, FeedItems DEF ChangeFile, TypesInv, Grown, history, lasting
    <2>2. CASE ~ \E f \in Files : ChangeFile(f)
      BY <2>2, SameGrown DEF DocIndexed, DocFails, DocIndexedAgain, DeleteSource, vars, history, lasting
    <2> QED BY <2>1, <2>2
  <1>2. \A r \in Calls : Gaps(r)' = Gaps(r)
    <2>1. CASE \E d \in docs : DocIndexed(d) \/ DocFails(d) \/ DocIndexedAgain(d)
      <3>1. PICK d \in docs : DocIndexed(d) \/ DocFails(d) \/ DocIndexedAgain(d)
        BY <2>1
      <3>2. PICK r \in Calls : r = DocRun(d)
        <4>1. d[1] \in Calls
          BY DEF TypesInv
        <4> QED BY <4>1, CallFacts DEF DocRun
      <3>3. PICK f : f = Failure(d[2], d)
        OBVIOUS
      <3>4. RunOK(runs[r]) /\ FailureOK(f) /\ f.doc # NoDoc
        BY <3>3, DocFailure DEF TypesInv
      <3>5. PICK y : y.summary \in {runs[r].summary, runs[r].summary \cup {f}}
                     /\ runs' = [runs EXCEPT ![r] = y]
        <4>1. runs' = [runs EXCEPT ![r] = CountIndexed(runs[r])]
              \/ runs' = [runs EXCEPT ![r] = CountFailed(runs[r], f)]
          BY <3>1, <3>2, <3>3 DEF DocIndexed, DocFails, DocIndexedAgain
        <4>2. CountIndexed(runs[r]).summary = runs[r].summary
              /\ CountFailed(runs[r], f).summary \in {runs[r].summary, runs[r].summary \cup {f}}
          BY <3>4, RunCountIndexed, RunCountFailed
        <4> QED BY <4>1, <4>2
      <3>6. Missing(runs[r].summary \cup {f}) = Missing(runs[r].summary)
        BY <3>4, MissingOne
      <3>7. Missing(y.summary) = Gaps(r)
        BY <3>5, <3>6 DEF Gaps
      <3> QED BY <3>5, <3>7, RowWritten
    <2>2. CASE ~ \E d \in docs : DocIndexed(d) \/ DocFails(d) \/ DocIndexedAgain(d)
      <3>1. ~DeleteSource
        BY DEF DeleteSource
      <3>2. runs' = runs
        BY <2>2, <3>1 DEF ChangeFile, vars, TypesInv
      <3> QED BY <3>2 DEF Gaps
    <2> QED BY <2>1, <2>2
  <1>3. 0 \notin Calls
    BY DEF Calls
  <1>4. Frame(0) /\ SavingKept(0)
    BY <1>1, <1>2, <1>3 DEF Frame, GapsKept, SavingKept, Saving
  <1>5. \A d \in Calls : SyncOK(d)' /\ RetryOK(d)'
    BY <1>3, <1>4, OthersCovered DEF CoverInv
  <1>6. \A r \in Calls : OnePerFile(feed', Gaps(r)')
    <2>1. \A r \in Calls : OnePerFile(feed', Gaps(r))
      BY <1>1, OneStays, FirmIn DEF CoverInv
    <2> QED BY <1>2, <2>1
  <1>7. \A d \in Calls : Known(call'[d].source)
    BY <1>1 DEF Known
  <1>8. \A d \in Calls : Passes(call'[d].source.cursor, call'[d].source.pending)
    BY <1>4, <1>7, KnownPasses
  <1>9. Known(source')
    BY <1>1 DEF Known
  <1>10. Passes(source'.cursor, source'.pending)
    BY <1>4, <1>9, KnownPasses
  <1> QED BY <1>5, <1>6, <1>8, <1>10 DEF CoverInv, Passes

LEMMA CalmInit == Init => CalmInv
  <1> SUFFICES ASSUME Init PROVE CoverInv
    BY DEF CalmInv
  <1>1. TypesInv
    BY TypesInit
  <1>2. /\ source.cursor = 0 /\ source.pending = 0
        /\ \A c \in Calls : call[c] = Idle /\ runs[c] = NoRun
    <2>1. NoSource \in SourceRows /\ NoSource.cursor = 0 /\ NoSource.pending = 0
      BY AbsentRow DEF NoSource
    <2>2. SourceMade([NoSource EXCEPT !.status = "IDLE"], "IDLE", 0, 0)
      BY <2>1, SourceStatus
    <2> QED BY <2>2 DEF SourceMade, Init
  <1>3. /\ Idle.at = "idle" /\ Idle.kind = "sync" /\ Idle.source.cursor = 0 /\ Idle.source.pending = 0
        /\ NoRun.summary = {} /\ Missing({}) = {}
    BY DEF Idle, NoSource, NoRun, Missing
  <1>4. \A n : Covered(feed, missed, 0, n)
    BY <1>1, NothingCovered
  <1>5. \A r \in Calls : Gaps(r) = {}
    BY <1>2, <1>3 DEF Gaps
  <1>6. \A c \in Calls : SyncOK(c) /\ RetryOK(c)
    BY <1>2, <1>3, <1>5 DEF SyncOK, SyncRow, RetryOK, RetryRow
  <1> QED BY <1>2, <1>3, <1>4, <1>5, <1>6 DEF CoverInv, OnePerFile

LEMMA CalmStep == TypesInv /\ TypesInv' /\ CalmInv /\ [Next]_vars => CalmInv'
  <1> SUFFICES ASSUME TypesInv, TypesInv', CalmInv, [Next]_vars PROVE CalmInv'
    OBVIOUS
  <1> USE DEF history, lasting
  <1>1. (early => early') /\ (shadowed => shadowed') /\ (removed => removed')
    <2>1. ASSUME NEW c \in Calls, RetryLoadRun(c) \/ RetrySaveSource(c) PROVE early => early'
      <3>1. CASE RetryLoadRun(c)
        BY <3>1, Zenon DEF RetryLoadRun
      <3>2. CASE RetrySaveSource(c)
        BY <3>2, Zenon DEF RetrySaveSource
      <3> QED BY <2>1, <3>1, <3>2
    <2>2. ASSUME NEW c \in Calls, Proceed(c), ~(RetryLoadRun(c) \/ RetrySaveSource(c))
          PROVE  early' = early
      BY <2>2 DEF Proceed, Start, CreateRun, FetchDelta, ListFolder,
         GetStartPageToken, MarkIngesting, MergeRun, SaveSource, SaveRunWhole, MarkRetrying,
         RunRefused, ItemAttached, RetryReprocessed, RetryAttached
    <2>3. ASSUME NEW c \in Calls, Proceed(c) PROVE removed' = removed
      BY <2>3 DEF Proceed, RetryLoadRun, Start, CreateRun, FetchDelta, ListFolder,
         GetStartPageToken, MarkIngesting, MergeRun, SaveSource, SaveRunWhole, MarkRetrying,
         RetrySaveSource, RunRefused, ItemAttached, RetryReprocessed, RetryAttached
    <2>4. ASSUME NEW c \in Calls, SyncRoute(c) \/ RetryRoute(c) \/ Break(c)
          PROVE  early' = early /\ shadowed' = shadowed /\ removed' = removed
      BY <2>4 DEF SyncRoute, RetryRoute, SyncLoad, RetryLoad, Break, CallRaises, CallAbandoned,
         ItemFails, ItemFailsAttached, RetryItemFails
    <2>5. ASSUME NEW d, DocIndexed(d) \/ DocFails(d) \/ DocIndexedAgain(d)
          PROVE  early' = early /\ shadowed' = shadowed /\ removed' = removed
      BY <2>5 DEF DocIndexed, DocFails, DocIndexedAgain
    <2>6. DeleteSource => early' = early /\ shadowed' = shadowed /\ removed'
      BY DEF DeleteSource
    <2>7. (\E f \in Files : ChangeFile(f)) \/ UNCHANGED vars
            => early' = early /\ shadowed' = shadowed /\ removed' = removed
      BY DEF ChangeFile, vars
    <2>8. early => early'
      BY <2>1, <2>2, <2>4, <2>5, <2>6, <2>7 DEF Next, DeleteRoute
    <2>9. removed => removed'
      BY <2>3, <2>4, <2>5, <2>6, <2>7 DEF Next, DeleteRoute
    <2>10. ASSUME NEW c \in Calls, Proceed(c) PROVE shadowed => shadowed'
      <3>1. ASSUME MergeRun(c) PROVE shadowed => shadowed'
        BY <3>1, Zenon DEF MergeRun
      <3>2. ASSUME NEW f, RetryReprocessed(c, f) \/ RetryAttached(c, f) PROVE shadowed => shadowed'
        BY <3>2, Zenon DEF RetryReprocessed, RetryAttached, Resolve
      <3>3. \/ MergeRun(c) \/ (\E f : RetryReprocessed(c, f) \/ RetryAttached(c, f))
            \/ shadowed' = shadowed
        BY <2>10 DEF Proceed, RetryLoadRun, Start, CreateRun, FetchDelta, ListFolder,
           GetStartPageToken, MarkIngesting, SaveSource, SaveRunWhole, MarkRetrying,
           RetrySaveSource, RunRefused, ItemAttached
      <3> QED BY <3>1, <3>2, <3>3
    <2>11. shadowed => shadowed'
      BY <2>4, <2>5, <2>6, <2>7, <2>10 DEF Next, DeleteRoute
    <2> QED BY <2>8, <2>9, <2>11
  <1> SUFFICES ASSUME ~early', ~shadowed', ~removed' PROVE CoverInv'
    BY DEF CalmInv
  <1>2. CoverInv
    BY <1>1 DEF CalmInv
  <1>3. ASSUME NEW c \in Calls, SyncRoute(c) \/ RetryRoute(c) PROVE CoverInv'
    BY <1>2, <1>3, LoadCovered DEF SyncRoute, RetryRoute
  <1>4. ASSUME NEW c \in Calls, Proceed(c) PROVE CoverInv'
    BY <1>2, <1>4, RetryLoadRunCovered, StartCovered, CreateRunCovered, FetchDeltaCovered,
       ListFolderCovered, TokenCovered, MarkIngestingCovered, MergeCovered, SaveSourceCovered,
       SaveRunWholeCovered, MarkRetryingCovered, RetrySaveSourceCovered, DeathCovered,
       ItemCovered, RetryItemCovered
    DEF Proceed
  <1>5. ASSUME NEW c \in Calls, Break(c) PROVE CoverInv'
    BY <1>2, <1>5, DeathCovered, ItemCovered, RetryItemCovered DEF Break
  <1> QED BY <1>2, <1>3, <1>4, <1>5, ElseCovered DEF Next, DeleteRoute

LEMMA HistoryStep == TypesInv /\ HistoryInv /\ [Next]_vars => HistoryInv'
  <1> SUFFICES ASSUME TypesInv, HistoryInv, [Next]_vars PROVE HistoryInv'
    OBVIOUS
  <1> USE DEF history, lasting
  <1>1. faults' \in 0..MaxFaults
    <2>1. faults' = faults \/ Fault
      <3>1. ASSUME NEW c \in Calls, Proceed(c) PROVE faults' = faults
        BY <3>1 DEF Proceed, RetryLoadRun, Start, CreateRun, FetchDelta, ListFolder,
           GetStartPageToken, MarkIngesting, MergeRun, SaveSource, SaveRunWhole, MarkRetrying,
           RetrySaveSource, RunRefused, ItemAttached, RetryReprocessed, RetryAttached
      <3>2. ASSUME NEW c \in Calls, SyncRoute(c) \/ RetryRoute(c) \/ Break(c)
            PROVE  faults' = faults \/ Fault
        BY <3>2 DEF SyncRoute, RetryRoute, SyncLoad, RetryLoad, Break, CallRaises, CallAbandoned,
           ItemFails, ItemFailsAttached, RetryItemFails
      <3>3. ASSUME NEW d, DocIndexed(d) \/ DocFails(d) \/ DocIndexedAgain(d)
            PROVE  faults' = faults \/ Fault
        BY <3>3 DEF DocIndexed, DocFails, DocIndexedAgain
      <3> QED BY <3>1, <3>2, <3>3 DEF Next, DeleteRoute, DeleteSource, ChangeFile, vars
    <2> QED BY <2>1, Bounds DEF Fault, HistoryInv
  <1>2. missed' \subseteq Items
    <2>1. ASSUME NEW c \in Calls, GetStartPageToken(c) PROVE missed' \subseteq Items
      <3>1. call[c].listed + 1 .. Len(feed) \subseteq Items
        BY CallFacts, CallFields, FeedItems, Bounds DEF Items
      <3> QED BY <2>1, <3>1 DEF GetStartPageToken, HistoryInv
    <2>2. ASSUME NEW c \in Calls, Proceed(c), ~GetStartPageToken(c) PROVE missed' = missed
      BY <2>2 DEF Proceed, RetryLoadRun, Start, CreateRun, FetchDelta, ListFolder,
         MarkIngesting, MergeRun, SaveSource, SaveRunWhole, MarkRetrying,
         RetrySaveSource, RunRefused, ItemAttached, RetryReprocessed, RetryAttached
    <2>3. ASSUME NEW c \in Calls, SyncRoute(c) \/ RetryRoute(c) \/ Break(c) PROVE missed' = missed
      BY <2>3 DEF SyncRoute, RetryRoute, SyncLoad, RetryLoad, Break, CallRaises, CallAbandoned,
         ItemFails, ItemFailsAttached, RetryItemFails
    <2>4. ASSUME NEW d, DocIndexed(d) \/ DocFails(d) \/ DocIndexedAgain(d) PROVE missed' = missed
      BY <2>4 DEF DocIndexed, DocFails, DocIndexedAgain
    <2> QED BY <2>1, <2>2, <2>3, <2>4 DEF Next, DeleteRoute, DeleteSource, ChangeFile, vars, HistoryInv
  <1>3. twice' \subseteq Calls
    <2>1. ASSUME NEW c \in Calls, Proceed(c) PROVE twice' \in {twice, twice \cup {call[c].run}}
      BY <2>1 DEF Proceed, RetryLoadRun, Start, CreateRun, FetchDelta, ListFolder,
         GetStartPageToken, MarkIngesting, MergeRun, SaveSource, SaveRunWhole, MarkRetrying,
         RetrySaveSource, RunRefused, ItemAttached, RetryReprocessed, RetryAttached
    <2>2. ASSUME NEW c \in Calls, SyncRoute(c) \/ RetryRoute(c) \/ Break(c)
          PROVE  twice' \in {twice, twice \cup {c}}
      BY <2>2 DEF SyncRoute, RetryRoute, SyncLoad, RetryLoad, Break, CallRaises, CallAbandoned,
         ItemFails, ItemFailsAttached, RetryItemFails
    <2>3. ASSUME NEW d \in docs, DocIndexed(d) \/ DocFails(d) \/ DocIndexedAgain(d)
          PROVE  twice' \subseteq Calls
      <3>1. DocRun(d) \in Calls
        <4>1. d[1] \in Calls
          BY DEF TypesInv
        <4> QED BY <4>1, CallFacts DEF DocRun
      <3> QED BY <2>3, <3>1 DEF DocIndexed, DocFails, DocIndexedAgain, HistoryInv
    <2> QED BY <2>1, <2>2, <2>3, CallFacts
        DEF Next, DeleteRoute, DeleteSource, ChangeFile, vars, HistoryInv, TypesInv
  <1>4. /\ raced' \in BOOLEAN /\ abandoned' \in BOOLEAN /\ removed' \in BOOLEAN
        /\ early' \in BOOLEAN /\ shadowed' \in BOOLEAN
    <2>1. ASSUME NEW c \in Calls, Proceed(c)
          PROVE  /\ raced' \in BOOLEAN /\ abandoned' \in BOOLEAN /\ removed' \in BOOLEAN
                 /\ early' \in BOOLEAN /\ shadowed' \in BOOLEAN
      BY <2>1 DEF Proceed, RetryLoadRun, Start, CreateRun, FetchDelta, ListFolder,
         GetStartPageToken, MarkIngesting, MergeRun, SaveSource, SaveRunWhole, MarkRetrying,
         RetrySaveSource, RunRefused, ItemAttached, RetryReprocessed, RetryAttached, Resolve,
         HistoryInv
    <2>2. ASSUME NEW c \in Calls, SyncRoute(c) \/ RetryRoute(c) \/ Break(c)
          PROVE  /\ raced' \in BOOLEAN /\ abandoned' \in BOOLEAN /\ removed' \in BOOLEAN
                 /\ early' \in BOOLEAN /\ shadowed' \in BOOLEAN
      BY <2>2 DEF SyncRoute, RetryRoute, SyncLoad, RetryLoad, Break, CallRaises, CallAbandoned,
         ItemFails, ItemFailsAttached, RetryItemFails, HistoryInv
    <2>3. ASSUME NEW d, DocIndexed(d) \/ DocFails(d) \/ DocIndexedAgain(d)
          PROVE  /\ raced' \in BOOLEAN /\ abandoned' \in BOOLEAN /\ removed' \in BOOLEAN
                 /\ early' \in BOOLEAN /\ shadowed' \in BOOLEAN
      BY <2>3 DEF DocIndexed, DocFails, DocIndexedAgain, HistoryInv
    <2> QED BY <2>1, <2>2, <2>3 DEF Next, DeleteRoute, DeleteSource, ChangeFile, vars, HistoryInv
  <1>5. runs' = [r \in Calls |-> runs'[r]]
    <2>1. ASSUME NEW c \in Calls, Proceed(c)
          PROVE  runs' = runs \/ \E r, y : runs' = [runs EXCEPT ![r] = y]
      BY <2>1 DEF Proceed, RetryLoadRun, Start, CreateRun, FetchDelta, ListFolder,
         GetStartPageToken, MarkIngesting, MergeRun, SaveSource, SaveRunWhole, MarkRetrying,
         RetrySaveSource, RunRefused, ItemAttached, RetryReprocessed, RetryAttached, SaveRun
    <2>2. ASSUME NEW c \in Calls, SyncRoute(c) \/ RetryRoute(c) \/ Break(c) PROVE runs' = runs
      BY <2>2 DEF SyncRoute, RetryRoute, SyncLoad, RetryLoad, Break, CallRaises, CallAbandoned,
         ItemFails, ItemFailsAttached, RetryItemFails
    <2>3. ASSUME NEW d, DocIndexed(d) \/ DocFails(d) \/ DocIndexedAgain(d)
          PROVE  \E r, y : runs' = [runs EXCEPT ![r] = y]
      <3>1. \E y : runs' = [runs EXCEPT ![DocRun(d)] = y]
        BY <2>3 DEF DocIndexed, DocFails, DocIndexedAgain
      <3> QED BY <3>1
    <2>4. DeleteSource => runs' = [r \in Calls |-> NoRun]
      BY DEF DeleteSource
    <2>5. (\E f \in Files : ChangeFile(f)) \/ UNCHANGED vars => runs' = runs
      BY DEF ChangeFile, vars
    <2>6. \/ runs' = runs \/ (\E r, y : runs' = [runs EXCEPT ![r] = y])
          \/ runs' = [r \in Calls |-> NoRun]
      BY <2>1, <2>2, <2>3, <2>4, <2>5 DEF Next, DeleteRoute
    <2>7. ASSUME NEW r, NEW y, runs' = [runs EXCEPT ![r] = y]
          PROVE  runs' = [n \in Calls |-> runs'[n]]
      BY <2>7 DEF TypesInv
    <2> QED BY <2>6, <2>7 DEF HistoryInv
  <1> QED BY <1>1, <1>2, <1>3, <1>4, <1>5 DEF HistoryInv

\* The types and the calm of every reachable state.
THEOREM Invariant == Spec => [](TypesInv /\ HistoryInv /\ CalmInv)
  <1>1. Init => TypesInv /\ HistoryInv /\ CalmInv
    <2>1. Init => HistoryInv
      <3>1. Init => runs = [r \in Calls |-> runs[r]] /\ faults \in 0..MaxFaults
        BY Bounds DEF Init
      <3>2. Init => missed \subseteq Items /\ twice \subseteq Calls
        BY DEF Init
      <3>3. Init => raced \in BOOLEAN /\ abandoned \in BOOLEAN /\ removed \in BOOLEAN
                    /\ early \in BOOLEAN /\ shadowed \in BOOLEAN
        BY DEF Init
      <3> QED BY <3>1, <3>2, <3>3 DEF HistoryInv
    <2> QED BY <2>1, TypesInit, CalmInit
  <1>2. TypesInv /\ HistoryInv /\ CalmInv /\ [Next]_vars => (TypesInv /\ HistoryInv /\ CalmInv)'
    BY TypesStep, HistoryStep, CalmStep
  <1> QED BY <1>1, <1>2, PTL DEF Spec

\* Every variable keeps its type: a listed failure and a promoted cursor are of changes
\* there were.
THEOREM TypeCorrect == Spec => []TypeOK
  <1>1. TypesInv /\ HistoryInv => TypeOK
    <2> SUFFICES ASSUME TypesInv, HistoryInv PROVE TypeOK
      OBVIOUS
    <2>1. runs \in [Calls -> RunRows]
      <3>1. ASSUME NEW r \in Calls PROVE runs[r] \in RunRows
        <4>1. runs[r] \in Rows
          BY DEF TypesInv, RunOK
        <4>2. runs[r].summary \in SUBSET UNION {runs[n].summary : n \in Calls}
          OBVIOUS
        <4> QED BY <4>1, <4>2 DEF Rows, RunRows, Statuses
      <3>2. runs = [r \in Calls |-> runs[r]]
        BY DEF HistoryInv
      <3> QED BY <3>1, <3>2
    <2>2. \A c \in Calls : call[c].kind \in {"sync", "retry"} /\ call[c].run \in Calls
      BY CallFacts
    <2>3. source \in SourceRows
      BY DEF TypesInv, SourceOK
    <2> QED BY <2>1, <2>2, <2>3 DEF TypeOK, TypesInv, HistoryInv, Items
  <1> QED BY <1>1, Invariant, PTL

\* The cursor of the data source passes no file that was neither attached nor left on a
\* list of failures, however many syncs and retries overlap, fail or are killed, as long
\* as no retry comes too early and no failure is dropped for another file's of its name.
THEOREM CursorWaits == Spec => []CursorCoversFailures
  <1>1. TypesInv /\ CalmInv => CursorCoversFailures
    <2> SUFFICES ASSUME TypesInv, CoverInv, NEW p \in DOMAIN feed, p < source.cursor,
                        feed[p] \notin Nested, p \notin missed
                 PROVE  \E q \in DOMAIN feed : q >= p /\ feed[q] = feed[p] /\ (Attached(q) \/ Retriable(q))
      BY DEF CursorCoversFailures, CursorWaitsForFailures, CalmInv
    <2>1. PICK q \in Firm : q >= p /\ feed[q] = feed[p]
      BY DEF CoverInv, Covered
    <2>2. q \in DOMAIN feed
      BY FirmIn
    <2>3. q \in Sown => Attached(q)
      BY DEF Sown, Attached
    <2>4. q \notin Sown => Retriable(q)
      BY DEF Firm, Gaps, Missing, Retriable
    <2> QED BY <2>1, <2>2, <2>3, <2>4
  <1> QED BY <1>1, Invariant, PTL
-----------------------------------------------------------------------------
(* A run ends with all its files. *)

OpenIn(calls, docsOpen, r) == {d \in docsOpen : calls[d[1]].run = r}
\* The files of a run that have not ended, as far as its row knows.
RestIn(calls, docsOpen, r) ==
    Cardinality(OpenIn(calls, docsOpen, r)) +
        (IF calls[r].at = "items" THEN Cardinality(calls[r].todo) + calls[r].copy.failed ELSE 0)
OpenOf(r) == OpenIn(call, open, r)
Rest(r) == RestIn(call, open, r)
Fits(y, k) == y.indexed + y.failed + k <= y.total /\ (y.status \in Terminal => k = 0)
Early(r) ==
    call[r].kind = "sync" /\ call[r].at \in {"idle", "start", "create", "fetch", "token", "ingest"}
Working(c) == call[c].kind = "retry" /\ ~At(c, "loadrun")
Own(calls, S, r) == \A f \in S : f.doc = NoDoc \/ calls[f.doc[1]].run = r

RowCounts(r) == r \in twice \/ runs[r] = NoRun \/ Fits(runs[r], Rest(r))
SyncCounts(c) ==
    call[c].kind = "sync" /\ c \notin twice =>
       /\ At(c, "items") =>
             /\ Fits(call[c].copy, Cardinality(OpenOf(c)) + Cardinality(call[c].todo))
             /\ Cardinality(call[c].copy.summary) <= call[c].copy.failed
       /\ call[c].at \in {"source", "run"} => Fits(call[c].copy, Cardinality(OpenOf(c)))
RetryCounts(c) ==
    Working(c) /\ call[c].run \notin twice => Fits(call[c].copy, RestIn(call, open, call[c].run))
EarlyInv(r) ==
    Early(r) =>
       /\ r \notin twice /\ runs[r].summary = {}
       /\ runs[r].indexed + runs[r].failed = 0
       /\ call[r].copy.indexed + call[r].copy.failed = 0
       /\ \A d \in docs : DocRun(d) # r /\ d[1] # r
       /\ \A c \in Calls : Working(c) => call[c].run # r
CopyOwn(c) ==
    /\ Working(c) => Own(call, call[c].copy.summary, call[c].run) /\ Own(call, call[c].todo, call[c].run)
    /\ call[c].kind = "sync" /\ call[c].at \notin {"idle", "done"} => Own(call, call[c].copy.summary, c)
RowOwn(r) == Own(call, runs[r].summary, r)
CountInv ==
    \A c \in Calls : /\ RowCounts(c) /\ SyncCounts(c) /\ RetryCounts(c) /\ EarlyInv(c)
                     /\ RowOwn(c) /\ CopyOwn(c)

LEMMA Counted ==
    ASSUME NEW S, IsFiniteSet(S)
    PROVE  /\ Cardinality(S) \in Nat /\ (Cardinality(S) = 0 <=> S = {})
           /\ \A T : T \subseteq S => IsFiniteSet(T) /\ Cardinality(T) \in Nat
                                      /\ Cardinality(T) <= Cardinality(S)
           /\ \A x : x \in S => IsFiniteSet(S \ {x}) /\ Cardinality(S \ {x}) = Cardinality(S) - 1
                                /\ Cardinality(S) >= 1
           /\ \A x : IsFiniteSet(S \cup {x}) /\ Cardinality(S \cup {x}) <= Cardinality(S) + 1
                     /\ Cardinality(S \cup {x}) \in Nat
  <1>1. Cardinality(S) \in Nat /\ (Cardinality(S) = 0 <=> S = {})
    BY FS_CardinalityType, FS_EmptySet
  <1>2. ASSUME NEW T, T \subseteq S
        PROVE  IsFiniteSet(T) /\ Cardinality(T) \in Nat /\ Cardinality(T) <= Cardinality(S)
    BY <1>2, FS_Subset, FS_CardinalityType
  <1>3. ASSUME NEW x \in S
        PROVE  IsFiniteSet(S \ {x}) /\ Cardinality(S \ {x}) = Cardinality(S) - 1 /\ Cardinality(S) >= 1
    <2>1. Cardinality(S) # 0
      BY <1>1
    <2>2. IsFiniteSet(S \ {x}) /\ Cardinality(S \ {x}) = Cardinality(S) - 1
      BY <1>3, FS_RemoveElement
    <2> QED BY <1>1, <2>1, <2>2
  <1>4. ASSUME NEW x
        PROVE  IsFiniteSet(S \cup {x}) /\ Cardinality(S \cup {x}) <= Cardinality(S) + 1
               /\ Cardinality(S \cup {x}) \in Nat
    <2>1. IsFiniteSet(S \cup {x})
          /\ Cardinality(S \cup {x}) = (IF x \in S THEN Cardinality(S) ELSE Cardinality(S) + 1)
      BY FS_AddElement
    <2> QED BY <1>1, <2>1
  <1> QED BY <1>1, <1>2, <1>3, <1>4

LEMMA OpenCounted ==
    ASSUME TypesInv, NEW r \in Calls
    PROVE  /\ IsFiniteSet(OpenOf(r)) /\ Cardinality(OpenOf(r)) \in Nat
           /\ IsFiniteSet(call[r].todo) /\ Cardinality(call[r].todo) \in Nat
           /\ call[r].copy.failed \in Nat /\ Rest(r) \in Nat
           /\ Rest(r) = Cardinality(OpenOf(r)) + (IF At(r, "items") THEN
                           Cardinality(call[r].todo) + call[r].copy.failed ELSE 0)
           /\ Rest(r) = 0 => OpenOf(r) = {} /\ (At(r, "items") => call[r].todo = {})
  <1>1. IsFiniteSet(open)
    BY FS_Subset DEF TypesInv
  <1>2. IsFiniteSet(OpenOf(r)) /\ Cardinality(OpenOf(r)) \in Nat
        /\ (Cardinality(OpenOf(r)) = 0 => OpenOf(r) = {})
    <2>1. OpenOf(r) \subseteq open
      BY DEF OpenOf, OpenIn
    <2> QED BY <1>1, <2>1, FS_Subset, FS_CardinalityType, FS_EmptySet
  <1>3. /\ IsFiniteSet(call[r].todo) /\ Cardinality(call[r].todo) \in Nat
        /\ Cardinality(call[r].todo) = 0 => call[r].todo = {}
    BY CallFacts, FS_CardinalityType, FS_EmptySet DEF Legal
  <1>4. call[r].copy.failed \in Nat
    BY CallFacts, CallFields, RowFields
  <1>5. Rest(r) = Cardinality(OpenOf(r)) + (IF At(r, "items") THEN
                           Cardinality(call[r].todo) + call[r].copy.failed ELSE 0)
    BY DEF Rest, RestIn, OpenOf, At
  <1>6. Rest(r) \in Nat
    BY <1>2, <1>3, <1>4, <1>5
  <1>7. Rest(r) = 0 => Cardinality(OpenOf(r)) = 0 /\ (At(r, "items") => Cardinality(call[r].todo) = 0)
    BY <1>2, <1>3, <1>4, <1>5
  <1> QED BY <1>2, <1>3, <1>4, <1>5, <1>6, <1>7

Counts ==
    \A r \in Calls :
        /\ IsFiniteSet(OpenOf(r)) /\ Cardinality(OpenOf(r)) \in Nat
        /\ IsFiniteSet(call[r].todo) /\ Cardinality(call[r].todo) \in Nat
        /\ call[r].copy \in Rows /\ call[r].copy.failed \in Nat /\ Rest(r) \in Nat
LEMMA CountsHold == TypesInv => Counts
  <1> SUFFICES ASSUME TypesInv, NEW r \in Calls
               PROVE  /\ IsFiniteSet(OpenOf(r)) /\ Cardinality(OpenOf(r)) \in Nat
                      /\ IsFiniteSet(call[r].todo) /\ Cardinality(call[r].todo) \in Nat
                      /\ call[r].copy \in Rows /\ call[r].copy.failed \in Nat /\ Rest(r) \in Nat
    BY DEF Counts
  <1>1. call[r].copy \in Rows
    BY CallFacts, CallFields
  <1> QED BY <1>1, OpenCounted
LEMMA CountsHoldNext == TypesInv' => Counts'
  BY CountsHold, PTL

LEMMA FitsLess ==
    ASSUME NEW y \in Rows, NEW k \in Nat, NEW n \in Nat, n <= k, Fits(y, k)
    PROVE  Fits(y, n)
  <1>1. y.indexed \in Nat /\ y.failed \in Nat /\ y.total \in Nat
    BY RowFields
  <1> QED BY <1>1 DEF Fits

\* What a step of call c (or of nobody) leaves to the others.
Steady(c) ==
    /\ \A d \in Calls \ {c} : call'[d] = call[d]
    /\ twice \subseteq twice' /\ \A r \in twice' \ twice : r \in Calls => ~Early(r)
    /\ docs \subseteq docs' /\ \A d \in docs : call'[d[1]].run = call[d[1]].run
    /\ \A d \in docs' \ docs : d[1] = c /\ ~Early(call'[c].run)
    /\ \A r \in Calls \ twice' : (r = c /\ At(c, "ingest")) \/ Rest(r)' <= Rest(r)
    /\ \A r \in Calls \ twice' : r # c => OpenOf(r)' \subseteq OpenOf(r)
    /\ \A r \in Calls \ {c} : Early(r) => runs'[r] \in {runs[r], NoRun}
    /\ c \in Calls /\ call'[c].kind = "retry" /\ call'[c].at # "loadrun" => ~Early(call'[c].run)

LEMMA OwnStays ==
    ASSUME TypesInv, NEW c, Steady(c), NEW S, \A f \in S : FailureOK(f), NEW r, Own(call, S, r)
    PROVE  Own(call', S, r)
  BY DEF Own, Steady, FailureOK

LEMMA OthersCount ==
    ASSUME TypesInv, TypesInv', CountInv, NEW c, Steady(c), NEW d \in Calls \ {c}
    PROVE  SyncCounts(d)' /\ RetryCounts(d)' /\ EarlyInv(d)' /\ CopyOwn(d)'
  <1> DEFINE x == call[d]
  <1>1. call'[d] = x /\ x \in CallRows /\ x.copy \in Rows /\ x.run \in Calls /\ IsFiniteSet(x.todo)
    BY CallFacts, CallFields DEF Steady, Legal
  <1>2. SyncCounts(d)'
    <2> SUFFICES ASSUME x.kind = "sync", d \notin twice'
                 PROVE  /\ x.at = "items" =>
                              /\ Fits(x.copy, Cardinality(OpenOf(d)') + Cardinality(x.todo))
                              /\ Cardinality(x.copy.summary) <= x.copy.failed
                        /\ x.at \in {"source", "run"} => Fits(x.copy, Cardinality(OpenOf(d)'))
      BY <1>1 DEF SyncCounts, At
    <2>1. /\ Cardinality(OpenOf(d)) \in Nat /\ Cardinality(OpenOf(d)') \in Nat
          /\ Cardinality(OpenOf(d)') <= Cardinality(OpenOf(d)) /\ Cardinality(x.todo) \in Nat
      <3>1. OpenOf(d)' \subseteq OpenOf(d)
        BY DEF Steady
      <3> QED BY <3>1, OpenCounted, Counted
    <2>2. /\ x.at = "items" =>
                /\ Fits(x.copy, Cardinality(OpenOf(d)) + Cardinality(x.todo))
                /\ Cardinality(x.copy.summary) <= x.copy.failed
          /\ x.at \in {"source", "run"} => Fits(x.copy, Cardinality(OpenOf(d)))
      BY DEF CountInv, SyncCounts, Steady, At
    <2> HIDE DEF x
    <2> QED BY <1>1, <2>1, <2>2, FitsLess
  <1>3. RetryCounts(d)'
    <2> SUFFICES ASSUME x.kind = "retry", x.at # "loadrun", x.run \notin twice'
                 PROVE  Fits(x.copy, RestIn(call', open', x.run))
      BY <1>1 DEF RetryCounts, Working, At
    <2>1. PICK r \in Calls : r = x.run
      BY <1>1
    <2>2. Fits(x.copy, Rest(r)) /\ ~Early(r)
      BY <2>1 DEF CountInv, RetryCounts, EarlyInv, Working, At, Steady, Rest
    <2>3. ~(r = c /\ At(c, "ingest"))
      BY <2>2, CallFacts DEF Early, At, Legal
    <2>4. Rest(r)' <= Rest(r)
      BY <2>1, <2>3 DEF Steady
    <2>5. Rest(r) \in Nat /\ Rest(r)' \in Nat
      BY CountsHold, CountsHoldNext DEF Counts
    <2>6. Fits(x.copy, Rest(r)')
      BY <1>1, <2>2, <2>4, <2>5, FitsLess
    <2> QED BY <2>1, <2>6 DEF Rest
  <1>4. EarlyInv(d)'
    <2> SUFFICES ASSUME Early(d) PROVE EarlyInv(d)'
      BY <1>1 DEF EarlyInv, Early
    <2>1. EarlyInv(d)
      BY DEF CountInv
    <2>2. d \notin twice' /\ runs'[d].summary = {} /\ runs'[d].indexed + runs'[d].failed = 0
      BY <2>1 DEF EarlyInv, Steady, NoRun
    <2>3. ASSUME NEW z \in docs' PROVE call'[z[1]].run # d /\ z[1] # d
      BY <2>1 DEF EarlyInv, Steady, DocRun
    <2>4. ASSUME NEW e \in Calls, call'[e].kind = "retry", call'[e].at # "loadrun" PROVE call'[e].run # d
      BY <2>1, <2>4 DEF EarlyInv, Steady, Working, At
    <2> QED BY <1>1, <2>1, <2>2, <2>3, <2>4 DEF EarlyInv, DocRun, Working, At
  <1>5. CopyOwn(d)'
    <2>1. (\A f \in x.copy.summary : FailureOK(f)) /\ (x.kind = "retry" => \A f \in x.todo : FailureOK(f))
      BY CallFacts DEF RunOK, Legal
    <2>2. CopyOwn(d)
      BY DEF CountInv
    <2> HIDE DEF x
    <2>3. \A r : Own(call, x.copy.summary, r) => Own(call', x.copy.summary, r)
      BY <2>1, OwnStays
    <2>4. x.kind = "retry" => \A r : Own(call, x.todo, r) => Own(call', x.todo, r)
      BY <2>1, OwnStays
    <2> QED BY <1>1, <2>2, <2>3, <2>4 DEF CopyOwn, Working, At, x
  <1> QED BY <1>2, <1>3, <1>4, <1>5

LEMMA RowCountStays ==
    ASSUME TypesInv, TypesInv', CountInv, NEW c, Steady(c), NEW r \in Calls, runs'[r] = runs[r],
           r # c \/ ~At(c, "ingest") \/ Rest(r)' <= Rest(r)
    PROVE  RowCounts(r)' /\ RowOwn(r)'
  <1>1. runs[r] \in Rows /\ \A f \in runs[r].summary : FailureOK(f)
    BY DEF TypesInv, RunOK
  <1>2. RowOwn(r)'
    BY <1>1, OwnStays DEF CountInv, RowOwn
  <1>3. Rest(r) \in Nat /\ Rest(r)' \in Nat
    BY CountsHold, CountsHoldNext DEF Counts
  <1>4. r \notin twice' => Rest(r)' <= Rest(r)
    BY DEF Steady
  <1>5. RowCounts(r)
    BY DEF CountInv
  <1>6. r \notin twice' /\ Fits(runs[r], Rest(r)) => Fits(runs[r], Rest(r)')
    BY <1>1, <1>3, <1>4, FitsLess
  <1> QED BY <1>2, <1>5, <1>6 DEF RowCounts, Steady

LEMMA CallCounted ==
    ASSUME TypesInv, TypesInv', CountInv, NEW c \in Calls, Steady(c),
           SyncCounts(c)', RetryCounts(c)', EarlyInv(c)', CopyOwn(c)',
           \A r \in Calls : RowCounts(r)' /\ RowOwn(r)'
    PROVE  CountInv'
  BY OthersCount DEF CountInv

Alone(c) == \A d \in Calls \ {c} : call'[d] = call[d]
\* A run that neither gets a document nor starts to go through its files has no more to do.
LEMMA RestOthers ==
    ASSUME TypesInv, TypesInv', NEW c, Alone(c), \A d \in docs : call'[d[1]].run = call[d[1]].run,
           NEW r \in Calls, \A d \in open' : d \in open \/ call'[d[1]].run # r,
           r # c \/ call'[c].at # "items"
    PROVE  OpenOf(r)' \subseteq OpenOf(r) /\ Rest(r)' <= Rest(r)
  <1>1. OpenOf(r)' \subseteq OpenOf(r)
    BY DEF OpenOf, OpenIn, TypesInv
  <1>2. /\ Cardinality(OpenOf(r)) \in Nat /\ Cardinality(OpenOf(r)') \in Nat
        /\ Cardinality(OpenOf(r)') <= Cardinality(OpenOf(r))
    BY <1>1, OpenCounted, Counted
  <1>3. /\ Rest(r) \in Nat /\ Cardinality(call[r].todo) \in Nat /\ call[r].copy.failed \in Nat
        /\ Rest(r) = Cardinality(OpenOf(r)) + (IF call[r].at = "items" THEN
                           Cardinality(call[r].todo) + call[r].copy.failed ELSE 0)
    BY OpenCounted DEF At
  <1>4. Rest(r)' = Cardinality(OpenOf(r)') + (IF call'[r].at = "items" THEN
                           Cardinality(call'[r].todo) + call'[r].copy.failed ELSE 0)
    BY DEF Rest, RestIn, OpenOf
  <1>5. CASE r # c
    <2>1. call'[r] = call[r]
      BY <1>5 DEF Alone
    <2>2. PICK k : k = IF call[r].at = "items" THEN Cardinality(call[r].todo) + call[r].copy.failed
                       ELSE 0
      OBVIOUS
    <2>3. k \in Nat
      BY <1>3, <2>2
    <2>4. Rest(r)' = Cardinality(OpenOf(r)') + k
      BY <1>4, <2>1, <2>2
    <2>5. Rest(r) = Cardinality(OpenOf(r)) + k
      BY <1>3, <2>2
    <2> QED BY <1>1, <1>2, <2>3, <2>4, <2>5
  <1>6. CASE r = c
    <2>1. Rest(r)' = Cardinality(OpenOf(r)')
      BY <1>2, <1>4, <1>6
    <2> QED BY <1>1, <1>2, <1>3, <2>1
  <1> QED BY <1>1, <1>5, <1>6

LEMMA EarlyRest ==
    ASSUME TypesInv, CountInv, NEW r \in Calls, Early(r)
    PROVE  Rest(r) = 0 /\ OpenOf(r) = {}
  <1>1. OpenOf(r) = {}
    BY DEF CountInv, EarlyInv, OpenOf, OpenIn, TypesInv, DocRun
  <1>2. call[r].at # "items"
    BY DEF Early
  <1>3. Rest(r) = Cardinality(OpenOf(r)) + 0
    BY <1>2 DEF Rest, RestIn, OpenOf
  <1>4. Cardinality(OpenOf(r)) = 0
    BY <1>1, FS_EmptySet
  <1> QED BY <1>1, <1>3, <1>4

\* No document is of a call that has not loaded.
LEMMA DocsKeepRun ==
    ASSUME TypesInv, CountInv, NEW c \in Calls, Alone(c),
           call'[c].run = call[c].run \/ (At(c, "idle") /\ call[c].kind = "sync")
    PROVE  \A d \in docs : call'[d[1]].run = call[d[1]].run
  <1> SUFFICES ASSUME NEW d \in docs PROVE call'[d[1]].run = call[d[1]].run
    OBVIOUS
  <1>1. d[1] \in Calls
    BY DEF TypesInv
  <1>2. CASE d[1] # c
    BY <1>1, <1>2 DEF Alone
  <1>3. CASE d[1] = c
    <2>1. ~Early(c)
      BY <1>3 DEF CountInv, EarlyInv
    <2> QED BY <1>3, <2>1 DEF Early, At
  <1> QED BY <1>2, <1>3

LEMMA IdleIsSync ==
    ASSUME TypesInv, NEW c \in Calls, At(c, "idle")
    PROVE  call[c].kind = "sync"
  BY CallFacts DEF At, Legal

\* A step of a call that leaves documents alone.
LEMMA SteadyStep ==
    ASSUME TypesInv, TypesInv', CountInv, NEW c \in Calls, Alone(c), UNCHANGED <<docs, open, twice>>,
           call'[c].run = call[c].run \/ At(c, "idle"),
           call'[c].at # "items" \/ At(c, "ingest") \/ (At(c, "items") /\ Rest(c)' <= Rest(c)),
           \A r \in Calls \ {c} : Early(r) => runs'[r] \in {runs[r], NoRun},
           call'[c].kind = "retry" /\ call'[c].at # "loadrun" => ~Early(call'[c].run)
    PROVE  Steady(c)
  <1>1. \A d \in docs : call'[d[1]].run = call[d[1]].run
    BY DocsKeepRun, IdleIsSync
  <1>2. \A d \in Calls \ {c} : call'[d] = call[d]
    BY DEF Alone
  <1>3. ASSUME NEW r \in Calls, r # c PROVE OpenOf(r)' \subseteq OpenOf(r) /\ Rest(r)' <= Rest(r)
    BY <1>1, <1>3, RestOthers
  <1>4. call'[c].at # "items" => Rest(c)' <= Rest(c)
    BY <1>1, RestOthers
  <1>5. \A r \in Calls \ twice' : (r = c /\ At(c, "ingest")) \/ Rest(r)' <= Rest(r)
    BY <1>3, <1>4
  <1> QED BY <1>1, <1>2, <1>3, <1>5 DEF Steady

\* A step that no call takes.
LEMMA SteadyElse ==
    ASSUME TypesInv, TypesInv', CountInv, call' = call, docs' = docs, open' \subseteq open,
           twice \subseteq twice', \A r \in twice' \ twice : r \in Calls => ~Early(r),
           \A r \in Calls : Early(r) => runs'[r] \in {runs[r], NoRun}
    PROVE  Steady(0)
  <1>1. 0 \notin Calls
    BY DEF Calls
  <1>2. \A d \in Calls \ {0} : call'[d] = call[d]
    OBVIOUS
  <1>3. ASSUME NEW r \in Calls PROVE OpenOf(r)' \subseteq OpenOf(r) /\ Rest(r)' <= Rest(r)
    <2>1. r # 0
      BY <1>1
    <2> QED BY <2>1, RestOthers DEF Alone
  <1> QED BY <1>1, <1>2, <1>3 DEF Steady

\* A sync stays early as long as nothing is counted in its run.
LEMMA EarlyStays ==
    ASSUME TypesInv, CountInv, NEW c \in Calls, Alone(c), UNCHANGED <<docs, twice>>, Early(c),
           call'[c].run = call[c].run \/ At(c, "idle"), call'[c].kind = "sync",
           runs'[c].summary = {}, runs'[c].indexed + runs'[c].failed = 0,
           call'[c].copy.indexed + call'[c].copy.failed = 0
    PROVE  EarlyInv(c)'
  <1>1. EarlyInv(c)
    BY DEF CountInv
  <1>2. \A d \in docs : call'[d[1]].run = call[d[1]].run
    BY DocsKeepRun, IdleIsSync
  <1>3. ASSUME NEW d \in docs PROVE call'[d[1]].run # c /\ d[1] # c
    BY <1>1, <1>2 DEF EarlyInv, DocRun
  <1>4. ASSUME NEW e \in Calls, call'[e].kind = "retry", call'[e].at # "loadrun" PROVE call'[e].run # c
    BY <1>1, <1>4 DEF EarlyInv, Working, At, Alone
  <1> QED BY <1>1, <1>3, <1>4 DEF EarlyInv, DocRun, Working, At

\* A row that a call writes, of its own run.
LEMMA RowSaved ==
    ASSUME TypesInv, TypesInv', CountInv, NEW c, Steady(c), NEW r \in Calls, NEW y \in Rows,
           runs'[r] = y, \A f \in y.summary : FailureOK(f), Own(call, y.summary, r),
           r \notin twice' => Fits(y, Rest(r)')
    PROVE  RowCounts(r)' /\ RowOwn(r)'
  BY OwnStays DEF RowCounts, RowOwn

\* A call that has ended counts nothing any more.
LEMMA EndCounted ==
    ASSUME TypesInv, TypesInv', CountInv, NEW c \in Calls, End(c), UNCHANGED <<docs, open, twice>>,
           ~At(c, "done"),
           \A r \in Calls : runs'[r] = runs[r]
                            \/ (r = call[c].run /\ runs'[r] = call[c].copy /\ At(c, "run"))
    PROVE  CountInv'
  <1> DEFINE x == call[c]
  <1>1. Moved(c, "done", "sync", x.run, NoSource, NoRun, {}, 0, 0)
    BY EndMoves
  <1>2. Alone(c) /\ call'[c].at = "done" /\ call'[c].kind = "sync" /\ call'[c].run = x.run
    BY <1>1 DEF Moved, Called, Alone
  <1>3. At(c, "run") => ~Early(x.run)
    <2>1. CASE x.kind = "sync"
      BY <2>1, CallFacts DEF At, Early
    <2>2. CASE x.kind = "retry"
      BY <2>2, CallFacts DEF CountInv, EarlyInv, Working, At
    <2> QED BY <2>1, <2>2, CallFacts
  <1>4. Steady(c)
    BY <1>2, <1>3, SteadyStep
  <1>5. Rest(c)' <= Rest(c)
    <2>1. \A d \in docs : call'[d[1]].run = call[d[1]].run
      BY <1>2, DocsKeepRun
    <2> QED BY <1>2, <2>1, RestOthers
  <1>6. ASSUME NEW r \in Calls PROVE RowCounts(r)' /\ RowOwn(r)'
    <2>1. CASE runs'[r] = runs[r]
      BY <1>4, <1>5, <2>1, RowCountStays
    <2>2. CASE r = x.run /\ runs'[r] = x.copy /\ At(c, "run")
      <3>1. x.copy \in Rows /\ \A f \in x.copy.summary : FailureOK(f)
        BY CallFacts, CallFields DEF RunOK
      <3>2. SyncCounts(c) /\ RetryCounts(c) /\ CopyOwn(c)
        BY DEF CountInv
      <3>3. Own(call, x.copy.summary, r)
        BY <2>2, <3>2, CallFacts DEF CopyOwn, Working, At
      <3>4. Rest(r) \in Nat /\ Rest(r)' \in Nat
        BY CountsHold, CountsHoldNext DEF Counts
      <3>5. r \notin twice' => Rest(r)' <= Rest(r)
        BY <1>4, <2>2 DEF Steady, At
      <3>6. r \notin twice' => Fits(x.copy, Rest(r))
        <4>1. CASE x.kind = "sync"
          <5>1. x.run = c /\ ~At(c, "items")
            BY <2>2, <4>1, CallFacts DEF At
          <5>2. Rest(r) = Cardinality(OpenOf(r))
            BY <2>2, <5>1, OpenCounted
          <5> QED BY <2>2, <3>2, <4>1, <5>1, <5>2 DEF SyncCounts, At
        <4>2. CASE x.kind = "retry"
          BY <2>2, <3>2, <4>2 DEF RetryCounts, Working, At, Rest
        <4> QED BY <4>1, <4>2, CallFacts
      <3>7. r \notin twice' => Fits(x.copy, Rest(r)')
        BY <3>1, <3>4, <3>5, <3>6, FitsLess
      <3> QED BY <1>4, <2>2, <3>1, <3>3, <3>7, RowSaved
    <2> QED BY <2>1, <2>2
  <1>7. SyncCounts(c)' /\ RetryCounts(c)' /\ EarlyInv(c)' /\ CopyOwn(c)'
    BY <1>2 DEF SyncCounts, RetryCounts, EarlyInv, Early, CopyOwn, Working, At
  <1> QED BY <1>4, <1>6, <1>7, CallCounted

LEMMA DeathCounted ==
    ASSUME TypesInv, TypesInv', CountInv, NEW c \in Calls,
           CallRaises(c) \/ CallAbandoned(c) \/ RunRefused(c)
    PROVE  CountInv'
  <1>1. End(c) /\ UNCHANGED <<docs, open, twice, runs>> /\ ~At(c, "done")
    BY DEF CallRaises, CallAbandoned, RunRefused, InTry, At
  <1> QED BY <1>1, EndCounted

LEMMA SaveRunWholeCounted ==
    ASSUME TypesInv, TypesInv', CountInv, NEW c \in Calls, SaveRunWhole(c)
    PROVE  CountInv'
  <1>1. End(c) /\ UNCHANGED <<docs, open, twice>> /\ At(c, "run") /\ ~At(c, "done")
    BY DEF SaveRunWhole, At
  <1>2. \A r \in Calls : runs'[r] = runs[r]
                         \/ (r = call[c].run /\ runs'[r] = call[c].copy /\ At(c, "run"))
    BY <1>1 DEF SaveRunWhole, SaveRun, TypesInv
  <1> QED BY <1>1, <1>2, EndCounted

LEMMA LoadCounted ==
    ASSUME TypesInv, TypesInv', CountInv, NEW c \in Calls, SyncLoad(c) \/ \E r \in Calls : RetryLoad(c, r)
    PROVE  CountInv'
  <1>1. UNCHANGED <<docs, open, twice, runs>> /\ At(c, "idle")
    BY DEF SyncLoad, RetryLoad, history
  <1>2. \E r \in Calls : \/ Moved(c, "start", "sync", r, source, NoRun, {}, 0, 0)
                         \/ Moved(c, "loadrun", "retry", r, source, NoRun, {}, 0, 0)
    BY SyncLoadMoves, RetryLoadMoves
  <1>3. /\ Alone(c) /\ call'[c].copy = NoRun /\ call'[c].todo = {}
        /\ <<call'[c].at, call'[c].kind>> \in {<<"start", "sync">>, <<"loadrun", "retry">>}
    BY <1>2 DEF Moved, Called, Alone
  <1>4. NoRun.summary = {} /\ NoRun.indexed + NoRun.failed = 0
    BY DEF NoRun
  <1>5. Steady(c)
    BY <1>1, <1>3, SteadyStep
  <1>6. \A r \in Calls : RowCounts(r)' /\ RowOwn(r)'
    BY <1>1, <1>5, RowCountStays DEF At
  <1>7. EarlyInv(c)'
    <2>1. CASE call'[c].kind = "sync"
      <3>1. Early(c)
        BY <1>1, IdleIsSync DEF Early, At
      <3>2. runs[c].summary = {} /\ runs[c].indexed + runs[c].failed = 0
        BY <3>1 DEF CountInv, EarlyInv
      <3> QED BY <1>1, <1>3, <1>4, <2>1, <3>1, <3>2, EarlyStays
    <2>2. CASE call'[c].kind # "sync"
      BY <2>2 DEF EarlyInv, Early
    <2> QED BY <2>1, <2>2
  <1>8. SyncCounts(c)' /\ RetryCounts(c)'
    BY <1>3 DEF SyncCounts, RetryCounts, Working, At
  <1>9. CopyOwn(c)'
    BY <1>3, <1>4 DEF CopyOwn, Own, Working, At
  <1> QED BY <1>5, <1>6, <1>7, <1>8, <1>9, CallCounted

Fresh == [NoRun EXCEPT !.status = "EXTRACTING"]
LEMMA FreshRow ==
    /\ Fresh \in Rows /\ Fresh.summary = {} /\ Fresh.indexed = 0 /\ Fresh.failed = 0
    /\ Fresh.total = 0 /\ Fresh.status = "EXTRACTING"
  <1>1. NoRun \in Rows /\ "EXTRACTING" \in Statuses
    BY AbsentRow DEF Statuses
  <1>2. /\ Fresh \in Rows /\ Fresh.status = "EXTRACTING" /\ Fresh.total = NoRun.total
        /\ Fresh.indexed = NoRun.indexed /\ Fresh.failed = NoRun.failed /\ Fresh.summary = NoRun.summary
    BY <1>1, RowStatus DEF Fresh
  <1> QED BY <1>2 DEF NoRun

\* A sync prepares: nothing is counted, in its copy or in its row.
LEMMA EarlyCounted ==
    ASSUME TypesInv, TypesInv', CountInv, NEW c \in Calls, Early(c), ~At(c, "ingest"), Alone(c),
           UNCHANGED <<docs, open, twice>>, call'[c].kind = "sync", call'[c].run = call[c].run,
           call'[c].at \in {"start", "create", "fetch", "token", "ingest"},
           call'[c].copy \in {call[c].copy, Fresh},
           \A r \in Calls : runs'[r] = runs[r] \/ (r = c /\ runs'[r] = Fresh)
    PROVE  CountInv'
  <1>1. Steady(c)
    BY SteadyStep
  <1>2. EarlyInv(c) /\ Fresh.summary = {} /\ Fresh.indexed + Fresh.failed = 0
    BY FreshRow DEF CountInv
  <1>3. EarlyInv(c)'
    <2>1. runs'[c].summary = {} /\ runs'[c].indexed + runs'[c].failed = 0
      BY <1>2 DEF EarlyInv
    <2>2. call'[c].copy.indexed + call'[c].copy.failed = 0
      BY <1>2 DEF EarlyInv
    <2> QED BY <2>1, <2>2, EarlyStays
  <1>4. ASSUME NEW r \in Calls PROVE RowCounts(r)' /\ RowOwn(r)'
    <2>1. CASE runs'[r] = runs[r]
      BY <1>1, <2>1, RowCountStays
    <2>2. CASE r = c /\ runs'[r] = Fresh
      <3>1. Rest(c) = 0 /\ Rest(c)' \in Nat
        BY EarlyRest, CountsHoldNext DEF Counts
      <3>2. c \notin twice' => Rest(c)' <= Rest(c)
        BY <1>1 DEF Steady
      <3>3. c \notin twice' => Rest(c)' = 0
        BY <3>1, <3>2
      <3>4. Fits(Fresh, 0)
        BY FreshRow DEF Fits, Terminal
      <3>5. Own(call, Fresh.summary, c)
        BY <1>2 DEF Own
      <3> QED BY <1>1, <1>2, <2>2, <3>3, <3>4, <3>5, FreshRow, RowSaved
    <2> QED BY <2>1, <2>2
  <1>5. call'[c].copy.summary = {}
    <2>1. call[c].copy.indexed \in Nat /\ call[c].copy.failed \in Nat
      BY CallFacts, CallFields, RowFields
    <2>2. call[c].copy.failed = 0
      BY <1>2, <2>1 DEF EarlyInv
    <2>3. call[c].copy.summary = {}
      BY <2>2, CallFacts DEF RunOK
    <2> QED BY <1>2, <2>3
  <1>6. CopyOwn(c)'
    BY <1>5 DEF CopyOwn, Own, Working
  <1>7. SyncCounts(c)' /\ RetryCounts(c)'
    BY DEF SyncCounts, RetryCounts, Working, At
  <1> QED BY <1>1, <1>3, <1>4, <1>6, <1>7, CallCounted

LEMMA PrepareCounted ==
    ASSUME TypesInv, TypesInv', CountInv, NEW c \in Calls,
           (Start(c) /\ call[c].kind = "sync") \/ CreateRun(c) \/ FetchDelta(c) \/ ListFolder(c)
           \/ GetStartPageToken(c)
    PROVE  CountInv'
  <1>1. /\ UNCHANGED <<docs, open, twice>> /\ call[c].at \in {"start", "create", "fetch", "token"}
        /\ ~At(c, "ingest")
    BY DEF Start, CreateRun, FetchDelta, ListFolder, GetStartPageToken, history, At
  <1>2. call[c].kind = "sync" /\ Early(c)
    <2>1. call[c].kind = "sync"
      BY CallFacts DEF Start, CreateRun, FetchDelta, ListFolder, GetStartPageToken, At, Legal
    <2> QED BY <1>1, <2>1 DEF Early
  <1>3. /\ Alone(c) /\ call'[c].kind = "sync" /\ call'[c].run = call[c].run
        /\ call'[c].at \in {"create", "fetch", "token", "ingest"}
        /\ call'[c].copy \in {call[c].copy, Fresh}
    <2>1. CASE Start(c)
      BY <1>2, <2>1, StartMoves DEF Moved, Called, Alone
    <2>2. CASE CreateRun(c)
      BY <1>2, <2>2, CreateRunMoves DEF Moved, Called, Alone, Fresh
    <2>3. CASE FetchDelta(c)
      BY <1>2, <2>3, FetchDeltaMoves DEF Moved, Called, Alone
    <2>4. CASE ListFolder(c)
      BY <1>2, <2>4, ListFolderMoves DEF Moved, Called, Alone
    <2>5. CASE GetStartPageToken(c)
      BY <1>2, <2>5, GetStartPageTokenMoves DEF Moved, Called, Alone
    <2> QED BY <2>1, <2>2, <2>3, <2>4, <2>5
  <1>4. \A r \in Calls : runs'[r] = runs[r] \/ (r = c /\ runs'[r] = Fresh)
    BY DEF Start, CreateRun, FetchDelta, ListFolder, GetStartPageToken, SaveRun, Fresh, TypesInv
  <1> QED BY <1>1, <1>2, <1>3, <1>4, EarlyCounted

\* A retry goes on, with a copy of its run that counts as the run does.
LEMMA RetryCounted ==
    ASSUME TypesInv, TypesInv', CountInv, NEW c \in Calls, NEW r \in Calls, NEW y \in Rows, NEW S,
           Alone(c), UNCHANGED <<docs, open, twice>>, call[c].kind = "retry", call[c].run = r,
           ~Early(r), call'[c].kind = "retry", call'[c].at \notin {"idle", "loadrun", "items", "source"},
           call'[c].run = r, call'[c].copy = y, call'[c].todo = S,
           \A f \in y.summary \cup S : FailureOK(f), Own(call, y.summary, r), Own(call, S, r),
           r \notin twice => Fits(y, Rest(r)),
           \A q \in Calls : runs'[q] = runs[q] \/ (q = r /\ runs'[q] = y)
    PROVE  CountInv'
  <1>1. Steady(c)
    BY SteadyStep
  <1>2. ~At(c, "ingest")
    BY CallFacts DEF At, Legal
  <1>3. r \notin twice' => Fits(y, Rest(r)')
    <2>1. Rest(r) \in Nat /\ Rest(r)' \in Nat
      BY CountsHold, CountsHoldNext DEF Counts
    <2>2. r \notin twice' => Rest(r)' <= Rest(r)
      BY <1>1, <1>2 DEF Steady
    <2> QED BY <2>1, <2>2, FitsLess
  <1>4. ASSUME NEW q \in Calls PROVE RowCounts(q)' /\ RowOwn(q)'
    <2>1. CASE runs'[q] = runs[q]
      BY <1>1, <1>2, <2>1, RowCountStays
    <2>2. CASE q = r /\ runs'[q] = y
      BY <1>1, <1>3, <2>2, RowSaved
    <2> QED BY <2>1, <2>2
  <1>5. RetryCounts(c)'
    BY <1>3 DEF RetryCounts, Rest
  <1>6. CopyOwn(c)'
    BY <1>1, OwnStays DEF CopyOwn
  <1>7. SyncCounts(c)' /\ EarlyInv(c)'
    BY DEF SyncCounts, EarlyInv, Early
  <1> QED BY <1>1, <1>4, <1>5, <1>6, <1>7, CallCounted

LEMMA RetryLoadRunCounted ==
    ASSUME TypesInv, TypesInv', CountInv, NEW c \in Calls, RetryLoadRun(c)
    PROVE  CountInv'
  <1>1. UNCHANGED <<docs, open, twice, runs>> /\ ~At(c, "done") /\ call[c].kind = "retry"
    BY CallFacts DEF RetryLoadRun, At, Legal
  <1>2. CASE End(c)
    BY <1>1, <1>2, EndCounted
  <1>3. CASE ~End(c)
    <2>1. PICK r \in Calls : r = call[c].run
      BY CallFacts
    <2>2. Moved(c, "start", "retry", r, call[c].source, runs[r], runs[r].summary,
                call[c].listed, call[c].next)
      BY <1>1, <1>3, <2>1, RetryLoadRunMoves
    <2>3. /\ Alone(c) /\ call'[c].kind = "retry" /\ call'[c].at = "start" /\ call'[c].run = r
          /\ call'[c].copy = runs[r] /\ call'[c].todo = runs[r].summary
      BY <2>2 DEF Moved, Called, Alone
    <2>4. runs[r].summary # {}
      BY <1>3, <2>1 DEF RetryLoadRun
    <2>5. ~Early(r) /\ runs[r] # NoRun
      BY <2>4 DEF CountInv, EarlyInv, NoRun
    <2>6. r \notin twice => Fits(runs[r], Rest(r))
      BY <2>5 DEF CountInv, RowCounts
    <2>7. Own(call, runs[r].summary, r) /\ runs[r] \in Rows /\ \A f \in runs[r].summary : FailureOK(f)
      BY DEF CountInv, RowOwn, TypesInv, RunOK
    <2>8. call'[c].at \notin {"idle", "loadrun", "items", "source"}
      BY <2>3
    <2>9. \A q \in Calls : runs'[q] = runs[q]
      BY <1>1
    <2> QED BY <1>1, <2>1, <2>3, <2>5, <2>6, <2>7, <2>8, <2>9, RetryCounted
  <1> QED BY <1>2, <1>3

LEMMA RetryProceedCounted ==
    ASSUME TypesInv, TypesInv', CountInv, NEW c \in Calls,
           (Start(c) /\ call[c].kind = "retry") \/ MarkRetrying(c) \/ RetrySaveSource(c)
           \/ \E f : RetryItemFails(c, f)
    PROVE  CountInv'
  <1>1. PICK r \in Calls : r = call[c].run
    BY CallFacts
  <1>2. PICK z \in Rows : z = call[c].copy
    BY CallFacts, CallFields
  <1>3. UNCHANGED <<docs, open, twice>> /\ call[c].at \in {"start", "mark", "retry"}
    BY DEF Start, MarkRetrying, RetrySaveSource, RetryItemFails, history, At
  <1>4. call[c].kind = "retry" /\ Working(c)
    <2>1. call[c].kind = "retry"
      BY CallFacts DEF Start, MarkRetrying, RetrySaveSource, RetryItemFails, At, Legal
    <2> QED BY <1>3, <2>1 DEF Working, At
  <1>5. ~Early(r)
    BY <1>1, <1>4 DEF CountInv, EarlyInv
  <1>6. /\ \A f \in z.summary : FailureOK(f)
        /\ \A f \in call[c].todo : FailureOK(f)
    BY <1>2, <1>4, CallFacts DEF RunOK, Legal
  <1>7. Own(call, z.summary, r) /\ Own(call, call[c].todo, r)
    BY <1>1, <1>2, <1>4 DEF CountInv, CopyOwn
  <1>8. r \notin twice => Fits(z, Rest(r))
    BY <1>1, <1>2, <1>4 DEF CountInv, RetryCounts, Rest
  <1>9. PICK y \in Rows : y = [z EXCEPT !.status = "INGESTING"]
    BY RowStatus DEF Statuses
  <1>10. y.summary = z.summary /\ (r \notin twice => Fits(y, Rest(r)))
    <2>1. "INGESTING" \in Statuses /\ "INGESTING" \notin Terminal
      BY DEF Statuses, Terminal
    <2>2. /\ y.status = "INGESTING" /\ y.total = z.total /\ y.indexed = z.indexed
          /\ y.failed = z.failed /\ y.summary = z.summary
      BY <1>9, <2>1, RowStatus
    <2> QED BY <1>8, <2>1, <2>2 DEF Fits
  <1>11. \E S : /\ S \subseteq call[c].todo /\ call'[c].todo = S
                /\ Alone(c) /\ call'[c].kind = "retry" /\ call'[c].run = r
                /\ call'[c].at \in {"mark", "retry", "run"}
                /\ (call'[c].copy = z /\ runs' = runs) \/ (call'[c].copy = y /\ MarkRetrying(c))
    <2>1. CASE Start(c)
      <3>1. runs' = runs /\ call[c].copy = z
        BY <1>2, <2>1 DEF Start
      <3> QED BY <1>1, <1>4, <2>1, <3>1, StartMoves DEF Moved, Called, Alone
    <2>2. CASE MarkRetrying(c)
      BY <1>1, <1>2, <1>4, <1>9, <2>2, MarkRetryingMoves DEF Moved, Called, Alone
    <2>3. CASE RetrySaveSource(c)
      <3>1. runs' = runs /\ call[c].copy = z
        BY <1>2, <2>3 DEF RetrySaveSource
      <3> QED BY <1>1, <1>4, <2>3, <3>1, RetrySaveSourceMoves DEF Moved, Called, Alone
    <2>4. ASSUME NEW f, RetryItemFails(c, f)
          PROVE  /\ call'[c].todo = call[c].todo \ {f}
                 /\ Alone(c) /\ call'[c].kind = "retry" /\ call'[c].run = r
                 /\ call'[c].at \in {"mark", "retry", "run"} /\ call'[c].copy = z /\ runs' = runs
      <3>1. runs' = runs /\ call[c].copy = z /\ call[c].at = "retry"
        BY <1>2, <2>4 DEF RetryItemFails, At
      <3> QED BY <1>1, <1>4, <2>4, <3>1, RetryItemFailsMoves DEF Moved, Called, Alone
    <2> QED BY <2>1, <2>2, <2>3, <2>4
  <1>12. PICK S : /\ S \subseteq call[c].todo /\ call'[c].todo = S
                  /\ Alone(c) /\ call'[c].kind = "retry" /\ call'[c].run = r
                  /\ call'[c].at \in {"mark", "retry", "run"}
                  /\ (call'[c].copy = z /\ runs' = runs) \/ (call'[c].copy = y /\ MarkRetrying(c))
    BY <1>11
  <1>13. call'[c].at \notin {"idle", "loadrun", "items", "source"}
    BY <1>12
  <1>14. Own(call, S, r) /\ \A f \in S : FailureOK(f)
    BY <1>6, <1>7, <1>12 DEF Own
  <1>15. CASE call'[c].copy = z /\ runs' = runs
    <2>1. \A q \in Calls : runs'[q] = runs[q]
      BY <1>15
    <2> QED BY <1>1, <1>3, <1>4, <1>5, <1>6, <1>7, <1>8, <1>12, <1>13, <1>14, <1>15, <2>1, RetryCounted
  <1>16. CASE call'[c].copy = y /\ MarkRetrying(c)
    <2>1. \A q \in Calls : runs'[q] = runs[q] \/ (q = r /\ runs'[q] = y)
      BY <1>1, <1>2, <1>9, <1>16 DEF MarkRetrying, SaveRun, TypesInv
    <2> QED BY <1>1, <1>3, <1>4, <1>5, <1>6, <1>7, <1>10, <1>12, <1>13, <1>14, <1>16, <2>1, RetryCounted
  <1> QED BY <1>12, <1>15, <1>16

\* A run ends only when everything is counted.
LEMMA CheckedStatus ==
    ASSUME NEW x \in Rows, Checked(x).status \in Terminal
    PROVE  x.status \in Terminal \/ x.indexed + x.failed >= x.total
  <1> SUFFICES ASSUME ~(x.indexed + x.failed >= x.total) PROVE x.status \in Terminal
    OBVIOUS
  <1>1. x.indexed + x.failed < x.total
    BY RowFields
  <1>2. Checked(x) = [x EXCEPT !.status = x.status]
    BY <1>1 DEF Checked
  <1>3. [x EXCEPT !.status = x.status].status = x.status
    BY RowStatus, RowFields
  <1> QED BY <1>2, <1>3

LEMMA MergedStatus ==
    ASSUME NEW x, RunOK(x), NEW new, IsFiniteSet(new), \A f \in new : FailureOK(f),
           Merged(x, new).status \in Terminal
    PROVE  x.status \in Terminal \/ x.indexed + x.failed + Cardinality(new) >= x.total
  <1> DEFINE y == [x EXCEPT !.failed = @ + Cardinality(new), !.summary = @ \cup new]
  <1>1. Cardinality(new) \in Nat
    BY FS_CardinalityType
  <1>2. CASE new = {}
    BY <1>2 DEF Merged
  <1>3. CASE new # {}
    <2>1. Merged(x, new) = Checked(y)
      BY <1>3 DEF Merged
    <2>2. /\ x \in Rows /\ x.failed \in Nat /\ x.indexed \in Nat /\ x.total \in Nat
          /\ x.status \in Statuses /\ x.summary \in SUBSET FailureRows
      BY RowFields DEF RunOK
    <2>3. x.failed + Cardinality(new) \in Nat /\ x.summary \cup new \in SUBSET FailureRows
      BY <1>1, <2>2 DEF FailureOK
    <2>4. Made(y, x.status, x.total, x.indexed, x.failed + Cardinality(new), x.summary \cup new)
      BY <2>2, <2>3, RowExcept
    <2> HIDE DEF y
    <2>5. y.status \in Terminal \/ y.indexed + y.failed >= y.total
      BY <2>1, <2>4, CheckedStatus DEF Made
    <2>6. x.status \in Terminal \/ x.indexed + (x.failed + Cardinality(new)) >= x.total
      BY <2>4, <2>5 DEF Made
    <2>7. x.indexed + (x.failed + Cardinality(new)) = x.indexed + x.failed + Cardinality(new)
      BY <1>1, <2>2
    <2> QED BY <2>6, <2>7
  <1> QED BY <1>2, <1>3

LEMMA RecordedStatus ==
    ASSUME NEW x, RunOK(x), NEW f, FailureOK(f), RecordFailed(x, f).status \in Terminal
    PROVE  x.status \in Terminal \/ x.indexed + x.failed + 1 >= x.total
  <1> DEFINE y == [x EXCEPT !.failed = @ + 1, !.summary = @ \cup {f}]
  <1>1. /\ RunOK(y) /\ y.failed = x.failed + 1
        /\ y.total = x.total /\ y.indexed = x.indexed /\ y.status = x.status
    BY FailureAdded
  <1>2. x.failed \in Nat /\ x.indexed \in Nat /\ x.total \in Nat
    BY RowFields DEF RunOK
  <1>3. RecordFailed(x, f) = Checked(y)
    BY DEF RecordFailed
  <1> HIDE DEF y
  <1>4. y.status \in Terminal \/ y.indexed + y.failed >= y.total
    BY <1>1, <1>3, CheckedStatus DEF RunOK
  <1> QED BY <1>1, <1>2, <1>4

LEMMA MarkIngestingCounted ==
    ASSUME TypesInv, TypesInv', CountInv, NEW c \in Calls, MarkIngesting(c)
    PROVE  CountInv'
  <1> DEFINE n == Cardinality(call[c].todo)
             y == Marked(call[c].copy, n)
  <1>1. /\ UNCHANGED <<docs, open, twice>> /\ call[c].at = "ingest" /\ At(c, "ingest")
        /\ runs' = [runs EXCEPT ![c] = y]
    BY DEF MarkIngesting, SaveRun, Marked, history, At
  <1>2. call[c].kind = "sync" /\ Early(c) /\ call[c].run = c
    BY <1>1, CallFacts DEF Legal, Early
  <1>3. n \in Nat /\ call[c].copy \in Rows /\ IsFiniteSet(call[c].todo)
    BY CountsHold DEF Counts
  <1>4. /\ call[c].copy.indexed = 0 /\ call[c].copy.failed = 0 /\ call[c].copy.summary = {}
    <2>1. call[c].copy.indexed + call[c].copy.failed = 0
      BY <1>2 DEF CountInv, EarlyInv
    <2>2. call[c].copy.indexed \in Nat /\ call[c].copy.failed \in Nat
      BY <1>3, RowFields
    <2>3. call[c].copy.indexed = 0 /\ call[c].copy.failed = 0
      BY <2>1, <2>2
    <2> QED BY <2>3, CallFacts DEF RunOK
  <1>5. /\ y \in Rows /\ y.total = n /\ y.indexed = 0 /\ y.failed = 0 /\ y.summary = {}
        /\ y.status = (IF n = 0 THEN "COMPLETED" ELSE "INGESTING")
    <2> DEFINE st == IF n = 0 THEN "COMPLETED" ELSE "INGESTING"
    <2>1. st \in Statuses
      BY DEF Statuses, Terminal
    <2>2. y = [call[c].copy EXCEPT !.total = n, !.status = st]
      BY DEF Marked
    <2> HIDE DEF n, y, st
    <2>3. Made([call[c].copy EXCEPT !.total = n, !.status = st], st, n, call[c].copy.indexed,
               call[c].copy.failed, call[c].copy.summary)
      BY <1>3, <2>1, RowExcept, RowFields
    <2>4. y.status = st
      BY <2>2, <2>3 DEF Made
    <2> QED BY <1>4, <2>2, <2>3, <2>4 DEF Made, st
  <1>6. /\ Alone(c) /\ call'[c].at = "items" /\ call'[c].kind = "sync" /\ call'[c].run = c
        /\ call'[c].copy = y /\ call'[c].todo = call[c].todo
    BY <1>2, MarkIngestingMoves DEF Moved, Called, Alone
  <1> HIDE DEF y
  <1>7. Steady(c)
    <2>1. \A r \in Calls \ {c} : Early(r) => runs'[r] \in {runs[r], NoRun}
      BY <1>1 DEF TypesInv
    <2> QED BY <1>1, <1>2, <1>6, <2>1, SteadyStep
  <1>8. OpenOf(c)' = {}
    <2>1. OpenOf(c) = {}
      BY <1>2, EarlyRest
    <2>2. \A d \in docs : call'[d[1]].run = call[d[1]].run
      BY <1>2, <1>6, DocsKeepRun
    <2> QED BY <1>1, <2>1, <2>2 DEF OpenOf, OpenIn, TypesInv
  <1>9. Cardinality(OpenOf(c)') = 0
    BY <1>8, FS_EmptySet
  <1>10. Fits(y, n)
    BY <1>3, <1>5 DEF Fits, Terminal
  <1>11. Rest(c)' = n
    <2>1. Rest(c)' = Cardinality(OpenOf(c)') + (n + y.failed)
      BY <1>6 DEF Rest, RestIn, OpenOf
    <2> HIDE DEF n
    <2> QED BY <1>3, <1>5, <1>9, <2>1
  <1>12. SyncCounts(c)'
    <2>1. Cardinality(OpenOf(c)') + n = n
      BY <1>3, <1>9
    <2>2. Cardinality(y.summary) = 0
      BY <1>5, FS_EmptySet
    <2> QED BY <1>5, <1>6, <1>10, <2>1, <2>2 DEF SyncCounts, At
  <1>13. RetryCounts(c)' /\ EarlyInv(c)' /\ CopyOwn(c)'
    BY <1>5, <1>6 DEF RetryCounts, EarlyInv, CopyOwn, Own, Working, Early
  <1>14. ASSUME NEW r \in Calls PROVE RowCounts(r)' /\ RowOwn(r)'
    <2>1. CASE r # c
      <3>1. runs'[r] = runs[r]
        BY <1>1, <2>1 DEF TypesInv
      <3> QED BY <1>7, <2>1, <3>1, RowCountStays
    <2>2. CASE r = c
      <3>1. runs'[r] = y
        BY <1>1, <2>2 DEF TypesInv
      <3>2. Own(call, y.summary, r) /\ \A f \in y.summary : FailureOK(f)
        BY <1>5 DEF Own
      <3> QED BY <1>5, <1>7, <1>10, <1>11, <2>2, <3>1, <3>2, RowSaved
    <2> QED BY <2>1, <2>2
  <1> QED BY <1>7, <1>12, <1>13, <1>14, CallCounted

LEMMA MergeCounted ==
    ASSUME TypesInv, TypesInv', CountInv, NEW c \in Calls, MergeRun(c)
    PROVE  CountInv'
  <1> DEFINE x == call[c]
  <1>1. UNCHANGED <<docs, open, twice, runs>> /\ x.at = "items" /\ x.todo = {}
    BY DEF MergeRun, At
  <1>2. x.kind = "sync" /\ x.run = c
    BY <1>1, CallFacts DEF Legal
  <1>0. PICK joins : /\ IsFiniteSet(joins) /\ joins \subseteq x.copy.summary
                     /\ Cardinality(joins) <= Cardinality(x.copy.summary)
                     /\ Moved(c, "source", x.kind, x.run, x.source, Merges(c, joins),
                              x.todo, x.listed, x.next)
    BY MergeRunMoves
  <1> DEFINE y == Merges(c, joins)
  <1>3. /\ Alone(c) /\ call'[c].at = "source" /\ call'[c].kind = "sync" /\ call'[c].run = c
        /\ call'[c].copy = y
    BY <1>0, <1>2 DEF Moved, Called, Alone
  <1>4. Steady(c)
    BY <1>1, <1>2, <1>3, SteadyStep
  <1>5. ~At(c, "ingest")
    BY <1>1 DEF At
  <1>6. \A r \in Calls : RowCounts(r)' /\ RowOwn(r)'
    BY <1>1, <1>4, <1>5, RowCountStays
  <1>7. Own(call, y.summary, c) /\ \A f \in y.summary : FailureOK(f)
    <2>1. Own(call, x.copy.summary, c) /\ Own(call, runs[c].summary, c)
      BY <1>1, <1>2 DEF CountInv, CopyOwn, RowOwn
    <2>2. RunOK(x.copy) /\ RunOK(runs[c])
      BY CallFacts DEF TypesInv
    <2>3. CASE runs[c] = NoRun
      BY <2>1, <2>2, <2>3 DEF RunOK, Merges
    <2>4. CASE runs[c] # NoRun
      <3>1. y.summary \subseteq runs[c].summary \cup x.copy.summary
        <4>1. IsFiniteSet(x.copy.summary) /\ \A f \in x.copy.summary : FailureOK(f)
          BY <2>2 DEF RunOK
        <4>2. Merged(runs[c], joins).summary = runs[c].summary \cup joins
          BY <1>0, <2>2, <4>1, RunMerged
        <4> QED BY <1>0, <2>4, <4>2 DEF Merges
      <3> HIDE DEF y
      <3> QED BY <2>1, <2>2, <3>1 DEF Own, RunOK
    <2> QED BY <2>3, <2>4
  <1>8. CopyOwn(c)'
    <2> HIDE DEF y
    <2>1. Own(call', y.summary, c)
      BY <1>4, <1>7, OwnStays
    <2> QED BY <1>3, <2>1 DEF CopyOwn, Working
  <1>9. c \notin twice => Fits(y, Cardinality(OpenOf(c)))
    <2> SUFFICES ASSUME c \notin twice PROVE Fits(y, Cardinality(OpenOf(c)))
      OBVIOUS
    <2> DEFINE k == Cardinality(OpenOf(c))
    <2>1. Fits(x.copy, k + Cardinality(x.todo)) /\ Cardinality(x.copy.summary) <= x.copy.failed
      BY <1>1, <1>2 DEF CountInv, SyncCounts, At
    <2>2. k \in Nat /\ Cardinality(x.todo) = 0 /\ x.copy.failed \in Nat
      BY <1>1, CountsHold, FS_EmptySet DEF Counts
    <2>3. CASE runs[c] = NoRun
      <3>1. k + Cardinality(x.todo) = k /\ y = x.copy
        BY <2>2, <2>3 DEF Merges
      <3> QED BY <2>1, <3>1
    <2>4. CASE runs[c] # NoRun
      <3> DEFINE row == runs[c]
                 new == joins
      <3>1. Fits(row, Rest(c))
        BY <2>4 DEF CountInv, RowCounts
      <3>2. Rest(c) = k + x.copy.failed
        <4>1. Rest(c) = k + (Cardinality(x.todo) + x.copy.failed)
          BY <1>1 DEF Rest, RestIn, OpenOf
        <4> HIDE DEF k
        <4> QED BY <2>2, <4>1
      <3>3. IsFiniteSet(x.copy.summary) /\ (\A f \in new : FailureOK(f)) /\ RunOK(row)
        BY <1>0, CallFacts DEF RunOK, TypesInv
      <3>4. Cardinality(new) \in Nat /\ Cardinality(new) <= x.copy.failed
        <4>1. Cardinality(new) \in Nat /\ Cardinality(new) <= Cardinality(x.copy.summary)
          BY <1>0, FS_CardinalityType
        <4>2. Cardinality(x.copy.summary) \in Nat
          BY <3>3, FS_CardinalityType
        <4> HIDE DEF new
        <4> QED BY <2>1, <2>2, <4>1, <4>2
      <3>5. /\ Merged(row, new).total = row.total
            /\ Merged(row, new).indexed = row.indexed
            /\ Merged(row, new).failed = row.failed + Cardinality(new)
        BY <1>0, <3>3, RunMerged
      <3>6. y = Merged(row, new)
        BY <2>4 DEF Merges
      <3>7. row.total \in Nat /\ row.indexed \in Nat /\ row.failed \in Nat /\ row \in Rows
        BY <3>3, RowFields DEF RunOK
      <3>8. y.status \in Terminal => row.status \in Terminal
                                     \/ row.indexed + row.failed + Cardinality(new) >= row.total
        BY <1>0, <3>3, <3>6, MergedStatus
      <3> HIDE DEF row, new, y, k
      <3>9. y.indexed + y.failed + k <= y.total
        BY <2>2, <3>1, <3>2, <3>4, <3>5, <3>6, <3>7 DEF Fits
      <3>10. y.status \in Terminal => k = 0
        BY <2>2, <3>1, <3>2, <3>4, <3>7, <3>8 DEF Fits
      <3> QED BY <3>9, <3>10 DEF Fits, k
    <2> QED BY <2>3, <2>4
  <1>10. SyncCounts(c)'
    <2>1. c \notin twice' => OpenOf(c)' \subseteq OpenOf(c)
      <3>1. \A d \in docs : call'[d[1]].run = call[d[1]].run
        BY <1>2, <1>3, DocsKeepRun
      <3> QED BY <1>1, <3>1 DEF OpenOf, OpenIn, TypesInv
    <2>2. y \in Rows
      <3>1. TypesInv' => call'[c].copy \in Rows
        BY CountsHoldNext DEF Counts
      <3> QED BY <1>3, <3>1
    <2>3. c \notin twice' => Cardinality(OpenOf(c)') <= Cardinality(OpenOf(c))
      BY <2>1, OpenCounted, Counted
    <2>4. Cardinality(OpenOf(c)') \in Nat /\ Cardinality(OpenOf(c)) \in Nat
      BY CountsHold, CountsHoldNext DEF Counts
    <2> HIDE DEF y
    <2>5. c \notin twice' => Fits(y, Cardinality(OpenOf(c)'))
      BY <1>1, <1>9, <2>2, <2>3, <2>4, FitsLess
    <2> QED BY <1>3, <2>5 DEF SyncCounts, At
  <1>11. RetryCounts(c)' /\ EarlyInv(c)'
    BY <1>3 DEF RetryCounts, EarlyInv, Working, Early
  <1> QED BY <1>4, <1>6, <1>8, <1>10, <1>11, CallCounted

LEMMA SaveSourceCounted ==
    ASSUME TypesInv, TypesInv', CountInv, NEW c \in Calls, SaveSource(c)
    PROVE  CountInv'
  <1> DEFINE y == call[c].copy
  <1>1. UNCHANGED <<docs, open, twice, runs>> /\ call[c].at = "source" /\ call[c].kind = "sync"
    BY DEF SaveSource, At
  <1>2. call[c].run = c /\ ~At(c, "ingest") /\ y \in Rows
    BY <1>1, CallFacts, CallFields DEF At
  <1>3. /\ Alone(c) /\ call'[c].at = "run" /\ call'[c].kind = "sync" /\ call'[c].run = c
        /\ call'[c].copy = y
    BY <1>1, <1>2, SaveSourceMoves DEF Moved, Called, Alone
  <1>4. Steady(c)
    BY <1>1, <1>2, <1>3, SteadyStep
  <1>5. \A r \in Calls : RowCounts(r)' /\ RowOwn(r)'
    BY <1>1, <1>2, <1>4, RowCountStays
  <1>6. Own(call, y.summary, c) /\ \A f \in y.summary : FailureOK(f)
    BY <1>1, CallFacts DEF CountInv, CopyOwn, RunOK
  <1>7. OpenOf(c)' \subseteq OpenOf(c)
    <2>1. \A d \in docs : call'[d[1]].run = call[d[1]].run
      BY <1>2, <1>3, DocsKeepRun
    <2> QED BY <1>1, <2>1 DEF OpenOf, OpenIn, TypesInv
  <1>8. /\ Cardinality(OpenOf(c)) \in Nat /\ Cardinality(OpenOf(c)') \in Nat
        /\ Cardinality(OpenOf(c)') <= Cardinality(OpenOf(c))
    BY <1>7, OpenCounted, Counted
  <1>9. c \notin twice => Fits(y, Cardinality(OpenOf(c)))
    BY <1>1 DEF CountInv, SyncCounts
  <1> HIDE DEF y
  <1>10. c \notin twice => Fits(y, Cardinality(OpenOf(c)'))
    BY <1>2, <1>8, <1>9, FitsLess
  <1>11. SyncCounts(c)'
    BY <1>1, <1>3, <1>10 DEF SyncCounts, At
  <1>12. CopyOwn(c)'
    <2>1. Own(call', y.summary, c)
      BY <1>4, <1>6, OwnStays
    <2> QED BY <1>3, <2>1 DEF CopyOwn, Working
  <1>13. RetryCounts(c)' /\ EarlyInv(c)'
    BY <1>3 DEF RetryCounts, EarlyInv, Working, Early
  <1> QED BY <1>4, <1>5, <1>11, <1>12, <1>13, CallCounted

\* A call takes one file, or one failure, off its list; a document may come of it.
LEMMA SteadyAttach ==
    ASSUME TypesInv, TypesInv', CountInv, NEW c \in Calls, Alone(c), NEW r \in Calls, call[c].run = r,
           call'[c].run = r, ~At(c, "idle"), call'[c].at = call[c].at, ~Early(r), ~At(c, "ingest"),
           docs \subseteq docs', \A d \in docs' \ docs : d[1] = c,
           \A d \in open' : d \in open \/ call'[d[1]].run = r,
           twice \subseteq twice', twice' \subseteq twice \cup {r},
           r \in twice' \/ (r = c /\ Rest(c)' <= Rest(c)), At(c, "items") => r = c,
           runs' = runs
    PROVE  Steady(c)
  <1>1. \A d \in docs : call'[d[1]].run = call[d[1]].run
    BY DocsKeepRun
  <1>2. \A d \in Calls \ {c} : call'[d] = call[d]
    BY DEF Alone
  <1>3. ASSUME NEW q \in Calls, q # r PROVE OpenOf(q)' \subseteq OpenOf(q)
    BY <1>1, <1>3 DEF OpenOf, OpenIn, TypesInv
  <1>4. ASSUME NEW q \in Calls, q # r PROVE Rest(q)' <= Rest(q)
    <2>1. q # c \/ call'[c].at # "items"
      BY <1>4 DEF At
    <2>2. \A d \in open' : d \in open \/ call'[d[1]].run # q
      BY <1>4
    <2> QED BY <1>1, <2>1, <2>2, RestOthers
  <1>5. \A q \in Calls \ twice' : q # c => OpenOf(q)' \subseteq OpenOf(q)
    BY <1>3
  <1>6. \A q \in Calls \ twice' : Rest(q)' <= Rest(q)
    BY <1>4
  <1>7. \A d \in docs' \ docs : d[1] = c /\ ~Early(call'[c].run)
    OBVIOUS
  <1> QED BY <1>1, <1>2, <1>5, <1>6, <1>7 DEF Steady

LEMMA ItemCounted ==
    ASSUME TypesInv, TypesInv', CountInv, NEW c \in Calls, NEW p \in DOMAIN feed,
           ItemAttached(c, p) \/ ItemFails(c, p) \/ ItemFailsAttached(c, p)
    PROVE  CountInv'
  <1> DEFINE x == call[c]
             f == Failure(p, NoDoc)
             failed == RecordFailed(x.copy, f)
             k == Cardinality(OpenOf(c)) + Cardinality(x.todo)
  <1>1. /\ x.at = "items" /\ p \in x.todo /\ runs' = runs
        /\ At(c, "items") /\ ~At(c, "idle") /\ ~At(c, "ingest")
    BY DEF ItemAttached, ItemFails, ItemFailsAttached, history, At
  <1>2. x.kind = "sync" /\ x.run = c /\ ~Early(c)
    BY <1>1, CallFacts DEF Legal, Early
  <1>3. /\ Alone(c) /\ call'[c].at = "items" /\ call'[c].kind = "sync" /\ call'[c].run = c
        /\ call'[c].todo = x.todo \ {p}
        /\ call'[c].copy = (IF ItemAttached(c, p) THEN x.copy ELSE failed)
    <2>1. CASE ItemAttached(c, p)
      BY <1>1, <1>2, <2>1, ItemAttachedMoves DEF Moved, Called, Alone
    <2>2. CASE ~ItemAttached(c, p) /\ ItemFails(c, p)
      BY <1>1, <1>2, <2>2, ItemFailsMoves DEF Moved, Called, Alone
    <2>3. CASE ~ItemAttached(c, p) /\ ItemFailsAttached(c, p)
      BY <1>1, <1>2, <2>3, ItemFailsAttachedMoves DEF Moved, Called, Alone
    <2> QED BY <2>1, <2>2, <2>3
  <1>4. FailureOK(f) /\ f.doc = NoDoc
    BY FileFailure
  <1>5. x.copy \in Rows /\ IsFiniteSet(x.copy.summary) /\ (\A g \in x.copy.summary : FailureOK(g))
        /\ x.copy.failed \in Nat /\ x.copy.indexed \in Nat /\ x.copy.total \in Nat
    BY CallFacts, RowFields DEF RunOK
  <1>6. /\ failed.summary = x.copy.summary \cup {f} /\ failed.failed = x.copy.failed + 1
        /\ failed.total = x.copy.total /\ failed.indexed = x.copy.indexed
        /\ failed.status \in Terminal => x.copy.status \in Terminal
                                         \/ x.copy.indexed + x.copy.failed + 1 >= x.copy.total
    BY <1>4, CallFacts, RunRecordFailed, RecordedStatus
  <1> HIDE DEF failed, f
  <1>7. \A d \in docs : call'[d[1]].run = call[d[1]].run
    BY <1>2, <1>3, DocsKeepRun
  <1>8. /\ docs \subseteq docs' /\ docs' \subseteq docs \cup {<<c, p>>}
        /\ open' \subseteq open \cup {<<c, p>>}
        /\ ItemFails(c, p) => open' = open
    BY DEF ItemAttached, ItemFails, ItemFailsAttached, AttachDoc
  <1>9. OpenOf(c)' \subseteq OpenOf(c) \cup {<<c, p>>}
        /\ (ItemFails(c, p) => OpenOf(c)' \subseteq OpenOf(c))
    BY <1>7, <1>8 DEF OpenOf, OpenIn, TypesInv
  <1>10. /\ Cardinality(OpenOf(c)) \in Nat /\ Cardinality(OpenOf(c)') \in Nat
         /\ Cardinality(x.todo) \in Nat /\ Cardinality(x.todo) >= 1
         /\ Cardinality(x.todo \ {p}) = Cardinality(x.todo) - 1
         /\ Cardinality(OpenOf(c)') <= Cardinality(OpenOf(c)) + 1
         /\ ItemFails(c, p) => Cardinality(OpenOf(c)') <= Cardinality(OpenOf(c))
    <2>1. IsFiniteSet(OpenOf(c)) /\ IsFiniteSet(x.todo) /\ Cardinality(OpenOf(c)') \in Nat
      BY CountsHold, CountsHoldNext DEF Counts
    <2>2. IsFiniteSet(OpenOf(c) \cup {<<c, p>>})
          /\ Cardinality(OpenOf(c) \cup {<<c, p>>}) <= Cardinality(OpenOf(c)) + 1
          /\ Cardinality(OpenOf(c) \cup {<<c, p>>}) \in Nat
      BY <2>1, Counted
    <2>3. Cardinality(OpenOf(c)') <= Cardinality(OpenOf(c) \cup {<<c, p>>})
      BY <1>9, <2>2, Counted
    <2>4. ItemFails(c, p) => Cardinality(OpenOf(c)') <= Cardinality(OpenOf(c))
      BY <1>9, <2>1, Counted
    <2>5. Cardinality(OpenOf(c)) \in Nat /\ Cardinality(x.todo) \in Nat /\ Cardinality(x.todo) >= 1
          /\ Cardinality(x.todo \ {p}) = Cardinality(x.todo) - 1
      BY <1>1, <2>1, Counted
    <2>6. Cardinality(OpenOf(c)') <= Cardinality(OpenOf(c)) + 1
      BY <2>1, <2>2, <2>3, <2>5
    <2> QED BY <2>1, <2>4, <2>5, <2>6
  <1>11. /\ Rest(c) = Cardinality(OpenOf(c)) + (Cardinality(x.todo) + x.copy.failed)
         /\ Rest(c)' = Cardinality(OpenOf(c)') + (Cardinality(x.todo \ {p}) + call'[c].copy.failed)
    BY <1>1, <1>3 DEF Rest, RestIn, OpenOf
  <1>12. ItemAttached(c, p) \/ ItemFails(c, p) => Rest(c)' <= Rest(c)
    <2>1. CASE ItemAttached(c, p)
      <3>1. call'[c].copy.failed = x.copy.failed
        BY <1>3, <2>1
      <3> HIDE DEF x
      <3> QED BY <1>5, <1>10, <1>11, <3>1
    <2>2. CASE ItemFails(c, p) /\ ~ItemAttached(c, p)
      <3>1. call'[c].copy.failed = x.copy.failed + 1
        BY <1>3, <1>6, <2>2
      <3> HIDE DEF x
      <3> QED BY <1>5, <1>10, <1>11, <2>2, <3>1
    <2> QED BY <2>1, <2>2
  <1>13. /\ twice \subseteq twice' /\ twice' \subseteq twice \cup {c}
         /\ c \in twice' \/ ItemAttached(c, p) \/ ItemFails(c, p)
    BY DEF ItemAttached, ItemFails, ItemFailsAttached, history
  <1>14. Steady(c)
    <2>1. \A d \in docs' \ docs : d[1] = c
      BY <1>8
    <2>2. \A d \in open' : d \in open \/ call'[d[1]].run = c
      BY <1>3, <1>8
    <2>3. c \in twice' \/ (c = c /\ Rest(c)' <= Rest(c))
      BY <1>12, <1>13
    <2> QED BY <1>1, <1>2, <1>3, <1>8, <1>13, <2>1, <2>2, <2>3, SteadyAttach
  <1>15. \A r \in Calls : RowCounts(r)' /\ RowOwn(r)'
    BY <1>1, <1>14, RowCountStays
  <1>16. CopyOwn(c)'
    <2>1. PICK y : y = call'[c].copy
      OBVIOUS
    <2>2. y.summary \subseteq x.copy.summary \cup {f}
      BY <1>3, <1>6, <2>1
    <2>3. Own(call, x.copy.summary, c)
      BY <1>1, <1>2 DEF CountInv, CopyOwn
    <2>4. Own(call, y.summary, c) /\ \A g \in y.summary : FailureOK(g)
      BY <1>4, <1>5, <2>2, <2>3 DEF Own
    <2>5. Own(call', y.summary, c)
      BY <1>14, <2>4, OwnStays
    <2> QED BY <1>3, <2>1, <2>5 DEF CopyOwn, Working
  <1>17. SyncCounts(c)'
    <2> SUFFICES ASSUME c \notin twice'
                 PROVE  /\ Fits(call'[c].copy, Cardinality(OpenOf(c)') + Cardinality(x.todo \ {p}))
                        /\ Cardinality(call'[c].copy.summary) <= call'[c].copy.failed
      BY <1>3 DEF SyncCounts, At
    <2>1. Fits(x.copy, k) /\ Cardinality(x.copy.summary) <= x.copy.failed
      BY <1>1, <1>2, <1>13 DEF CountInv, SyncCounts
    <2> HIDE DEF x
    <2>2. CASE ItemAttached(c, p)
      <3>1. Cardinality(OpenOf(c)') + Cardinality(x.todo \ {p}) <= k
        BY <1>10
      <3>2. k \in Nat /\ Cardinality(OpenOf(c)') + Cardinality(x.todo \ {p}) \in Nat
        BY <1>10
      <3>3. call'[c].copy = x.copy
        BY <1>3, <2>2
      <3> HIDE DEF k
      <3> QED BY <1>5, <2>1, <3>1, <3>2, <3>3, FitsLess
    <2>3. CASE ItemFails(c, p) /\ ~ItemAttached(c, p)
      <3>1. call'[c].copy = failed
        BY <1>3, <2>3
      <3>2. PICK n : n = Cardinality(OpenOf(c)') + Cardinality(x.todo \ {p})
        OBVIOUS
      <3>3. n \in Nat /\ k \in Nat /\ n + 1 <= k
        BY <1>10, <2>3, <3>2
      <3> HIDE DEF k
      <3>4. failed.indexed + failed.failed + n <= failed.total
        BY <1>5, <1>6, <2>1, <3>3 DEF Fits
      <3>5. failed.status \in Terminal => n = 0
        BY <1>5, <1>6, <2>1, <3>3 DEF Fits
      <3>6. Cardinality(failed.summary) <= failed.failed
        <4>1. Cardinality(x.copy.summary \cup {f}) <= Cardinality(x.copy.summary) + 1
              /\ Cardinality(x.copy.summary \cup {f}) \in Nat /\ Cardinality(x.copy.summary) \in Nat
          BY <1>5, Counted
        <4> QED BY <1>5, <1>6, <2>1, <4>1
      <3> QED BY <3>1, <3>2, <3>4, <3>5, <3>6 DEF Fits
    <2> QED BY <1>13, <2>2, <2>3
  <1>18. RetryCounts(c)' /\ EarlyInv(c)'
    BY <1>3 DEF RetryCounts, EarlyInv, Working, Early
  <1> QED BY <1>14, <1>15, <1>16, <1>17, <1>18, CallCounted

LEMMA RetryItemCounted ==
    ASSUME TypesInv, TypesInv', CountInv, NEW c \in Calls, NEW f \in call[c].todo,
           RetryReprocessed(c, f) \/ RetryAttached(c, f)
    PROVE  CountInv'
  <1>1. PICK r \in Calls : r = call[c].run
    BY CallFacts
  <1>2. /\ call[c].at = "retry" /\ runs' = runs /\ twice' = twice \cup {r}
        /\ ~At(c, "idle") /\ ~At(c, "ingest") /\ ~At(c, "items")
    BY <1>1 DEF RetryReprocessed, RetryAttached, At
  <1>3. call[c].kind = "retry" /\ Working(c) /\ FailureOK(f)
    BY <1>2, CallFacts DEF Legal, Working, At
  <1>4. ~Early(r)
    BY <1>1, <1>3 DEF CountInv, EarlyInv
  <1>5. PICK y : y = ResolveSuccess(call[c].copy, f.name)
    OBVIOUS
  <1>6. /\ Alone(c) /\ call'[c].at = "retry" /\ call'[c].kind = "retry" /\ call'[c].run = r
        /\ call'[c].copy = y /\ call'[c].todo = call[c].todo \ {f}
    <2>1. CASE RetryReprocessed(c, f)
      BY <1>1, <1>2, <1>3, <1>5, <2>1, RetryReprocessedMoves DEF Moved, Called, Alone
    <2>2. CASE RetryAttached(c, f)
      BY <1>1, <1>2, <1>3, <1>5, <2>2, RetryAttachedMoves DEF Moved, Called, Alone
    <2> QED BY <2>1, <2>2
  <1>7. \A d \in docs : call'[d[1]].run = call[d[1]].run
    BY <1>1, <1>6, DocsKeepRun
  <1>8. Own(call, call[c].copy.summary, r) /\ Own(call, call[c].todo, r)
    BY <1>1, <1>3 DEF CountInv, CopyOwn
  <1>9. /\ docs \subseteq docs' /\ \A d \in docs' \ docs : d[1] = c
        /\ \A d \in open' : d \in open \/ call'[d[1]].run = r
    <2>1. CASE RetryReprocessed(c, f)
      <3>1. docs' = docs /\ open' = open \cup {f.doc} /\ f.doc # NoDoc
        BY <2>1 DEF RetryReprocessed
      <3>2. f.doc \in docs /\ call[f.doc[1]].run = r
        BY <1>3, <1>8, <3>1 DEF Own, FailureOK
      <3> QED BY <1>7, <3>1, <3>2
    <2>2. CASE RetryAttached(c, f)
      <3>1. docs' = docs \cup {<<c, f.item>>} /\ open' = open \cup {<<c, f.item>>}
        BY <2>2 DEF RetryAttached, AttachDoc
      <3> QED BY <1>6, <3>1
    <2> QED BY <2>1, <2>2
  <1>10. Steady(c)
    BY <1>1, <1>2, <1>4, <1>6, <1>9, SteadyAttach
  <1>11. \A q \in Calls : RowCounts(q)' /\ RowOwn(q)'
    BY <1>2, <1>10, RowCountStays
  <1>12. CopyOwn(c)'
    <2>1. \A g \in call[c].copy.summary : FailureOK(g)
      BY CallFacts DEF RunOK
    <2>2. y.summary \subseteq call[c].copy.summary
      BY <1>5, CallFacts, RunResolve DEF Left
    <2>3. \A g \in call[c].todo : FailureOK(g)
      BY <1>3, CallFacts DEF Legal
    <2>4. /\ Own(call, y.summary, r) /\ \A g \in y.summary : FailureOK(g)
          /\ Own(call, call[c].todo \ {f}, r) /\ \A g \in call[c].todo \ {f} : FailureOK(g)
      BY <1>8, <2>1, <2>2, <2>3 DEF Own
    <2>5. Own(call', y.summary, r) /\ Own(call', call[c].todo \ {f}, r)
      BY <1>10, <2>4, OwnStays
    <2> QED BY <1>6, <2>5 DEF CopyOwn, Working
  <1>13. SyncCounts(c)' /\ RetryCounts(c)' /\ EarlyInv(c)'
    BY <1>2, <1>6 DEF SyncCounts, RetryCounts, EarlyInv, Working, Early, At
  <1> QED BY <1>10, <1>11, <1>12, <1>13, CallCounted

\* One file of a run ends, and the row counts it.
LEMMA FitsIndexed ==
    ASSUME NEW x \in Rows, NEW k \in Nat, NEW n \in Nat, n + 1 <= k, Fits(x, k)
    PROVE  Fits(CountIndexed(x), n)
  <1>1. CASE x.status \in Terminal \cup {"ABSENT"}
    <2>1. CountIndexed(x) = x /\ n <= k
      BY <1>1 DEF CountIndexed
    <2> QED BY <2>1, FitsLess
  <1>2. CASE x.status \notin Terminal \cup {"ABSENT"}
    <2> DEFINE s == IF ~Completes(x) THEN x.status
                    ELSE IF x.failed > 0 THEN "PARTIALLY_FAILED" ELSE "COMPLETED"
               y == [x EXCEPT !.indexed = @ + 1, !.status = s]
    <2>1. CountIndexed(x) = y
      BY <1>2 DEF CountIndexed
    <2>2. /\ x.indexed \in Nat /\ x.failed \in Nat /\ x.total \in Nat /\ s \in Statuses
          /\ x.indexed + 1 \in Nat
      BY RowFields DEF Statuses, Terminal
    <2>3. s \in Terminal => Completes(x)
      BY <1>2
    <2> HIDE DEF s
    <2>4. Made(y, s, x.total, x.indexed + 1, x.failed, x.summary)
      BY <2>2, RowExcept
    <2> HIDE DEF y
    <2>5. y.indexed + y.failed + n <= y.total
      BY <2>2, <2>4 DEF Made, Fits
    <2>6. y.status \in Terminal => n = 0
      BY <2>2, <2>3, <2>4 DEF Made, Fits, Completes
    <2> QED BY <2>1, <2>5, <2>6 DEF Fits
  <1> QED BY <1>1, <1>2

LEMMA FitsFailed ==
    ASSUME NEW x \in Rows, NEW k \in Nat, NEW n \in Nat, n + 1 <= k, Fits(x, k), NEW f \in FailureRows
    PROVE  Fits(CountFailed(x, f), n)
  <1>1. CASE x.status \in Terminal \cup {"ABSENT"}
    <2>1. CountFailed(x, f) = x /\ n <= k
      BY <1>1 DEF CountFailed
    <2> QED BY <2>1, FitsLess
  <1>2. CASE x.status \notin Terminal \cup {"ABSENT"}
    <2> DEFINE s == IF ~Completes(x) THEN x.status
                    ELSE IF x.indexed > 0 THEN "PARTIALLY_FAILED" ELSE "FAILED"
               y == [x EXCEPT !.failed = @ + 1, !.summary = @ \cup {f}, !.status = s]
    <2>1. CountFailed(x, f) = y
      BY <1>2 DEF CountFailed
    <2>2. /\ x.indexed \in Nat /\ x.failed \in Nat /\ x.total \in Nat /\ s \in Statuses
          /\ x.failed + 1 \in Nat /\ x.summary \cup {f} \in SUBSET FailureRows
      BY RowFields DEF Statuses, Terminal
    <2>3. s \in Terminal => Completes(x)
      BY <1>2
    <2> HIDE DEF s
    <2>4. Made(y, s, x.total, x.indexed, x.failed + 1, x.summary \cup {f})
      BY <2>2, RowExcept
    <2> HIDE DEF y
    <2>5. y.indexed + y.failed + n <= y.total
      BY <2>2, <2>4 DEF Made, Fits
    <2>6. y.status \in Terminal => n = 0
      BY <2>2, <2>3, <2>4 DEF Made, Fits, Completes
    <2> QED BY <2>1, <2>5, <2>6 DEF Fits
  <1> QED BY <1>1, <1>2

LEMMA DocEndCounted ==
    ASSUME TypesInv, TypesInv', CountInv,
           (\E d \in open : DocIndexed(d) \/ DocFails(d)) \/ (\E d \in docs \ open : DocIndexedAgain(d))
    PROVE  CountInv'
  <1>1. PICK d \in docs : \/ d \in open /\ (DocIndexed(d) \/ DocFails(d))
                          \/ DocIndexedAgain(d)
    BY DEF TypesInv
  <1>2. PICK q \in Calls : q = DocRun(d)
    <2>1. d[1] \in Calls
      BY DEF TypesInv
    <2> QED BY <2>1, CallFacts DEF DocRun
  <1>3. PICK g : g = Failure(d[2], d)
    OBVIOUS
  <1>4. FailureOK(g) /\ g.doc = d /\ g \in FailureRows
    BY <1>3, DocFailure DEF Failure, FailureOK
  <1>5. /\ call' = call /\ docs' = docs /\ open' \subseteq open
        /\ twice \subseteq twice' /\ twice' \subseteq twice \cup {q}
    BY <1>1, <1>2 DEF DocIndexed, DocFails, DocIndexedAgain, history
  <1>6. PICK y : /\ runs' = [runs EXCEPT ![q] = y]
                 /\ y \in {CountIndexed(runs[q]), CountFailed(runs[q], g)}
    BY <1>1, <1>2, <1>3 DEF DocIndexed, DocFails, DocIndexedAgain
  <1>7. ~Early(q)
    BY <1>2 DEF CountInv, EarlyInv
  <1>8. Steady(0)
    <2>1. \A r \in Calls : Early(r) => runs'[r] \in {runs[r], NoRun}
      BY <1>6, <1>7 DEF TypesInv
    <2> QED BY <1>5, <1>7, <2>1, SteadyElse
  <1>9. 0 \notin Calls
    BY DEF Calls
  <1>10. RunOK(runs[q]) /\ runs[q] \in Rows
    BY DEF TypesInv, RunOK
  <1>11. RunOK(y) /\ y.summary \subseteq runs[q].summary \cup {g}
    BY <1>4, <1>6, <1>10, RunCountIndexed, RunCountFailed
  <1>12. Own(call, y.summary, q)
    BY <1>2, <1>4, <1>11 DEF CountInv, RowOwn, Own, DocRun
  <1>13. runs[q] = NoRun => y = NoRun
    BY <1>6 DEF NoRun, CountIndexed, CountFailed
  <1>14. q \notin twice' /\ runs[q] # NoRun => Fits(y, Rest(q)')
    <2> SUFFICES ASSUME q \notin twice', runs[q] # NoRun PROVE Fits(y, Rest(q)')
      OBVIOUS
    <2>1. open' = open \ {d} /\ d \in OpenOf(q)
      BY <1>1, <1>2 DEF DocIndexed, DocFails, DocIndexedAgain, OpenOf, OpenIn, DocRun
    <2>2. OpenOf(q)' = OpenOf(q) \ {d}
      BY <1>5, <2>1 DEF OpenOf, OpenIn
    <2>3. Cardinality(OpenOf(q)') = Cardinality(OpenOf(q)) - 1
      BY <2>1, <2>2, OpenCounted, Counted
    <2>4. PICK k :
          /\ k = IF call[q].at = "items" THEN Cardinality(call[q].todo) + call[q].copy.failed ELSE 0
      OBVIOUS
    <2>5. k \in Nat /\ Cardinality(OpenOf(q)) \in Nat /\ Cardinality(OpenOf(q)') \in Nat
      BY <2>4, CountsHold, CountsHoldNext DEF Counts
    <2>6. Rest(q) = Cardinality(OpenOf(q)) + k /\ Rest(q)' = Cardinality(OpenOf(q)') + k
      BY <1>5, <2>4 DEF Rest, RestIn, OpenOf
    <2>7. Rest(q)' + 1 <= Rest(q) /\ Rest(q) \in Nat /\ Rest(q)' \in Nat
      BY <2>3, <2>5, <2>6
    <2>8. Fits(runs[q], Rest(q))
      BY <1>5 DEF CountInv, RowCounts
    <2> QED BY <1>4, <1>6, <1>10, <2>7, <2>8, FitsIndexed, FitsFailed
  <1>15. ASSUME NEW r \in Calls PROVE RowCounts(r)' /\ RowOwn(r)'
    <2>1. CASE r # q
      <3>1. runs'[r] = runs[r] /\ r # 0
        BY <1>6, <1>9, <2>1 DEF TypesInv
      <3> QED BY <1>8, <3>1, RowCountStays
    <2>2. CASE r = q
      <3>1. runs'[r] = y
        BY <1>6, <2>2 DEF TypesInv
      <3>2. CASE runs[q] = NoRun
        <4>1. runs'[r] = runs[r] /\ r # 0
          BY <1>9, <1>13, <2>2, <3>1, <3>2
        <4> QED BY <1>8, <4>1, RowCountStays
      <3>3. CASE runs[q] # NoRun
        <4>1. y \in Rows /\ \A f \in y.summary : FailureOK(f)
          BY <1>11 DEF RunOK
        <4> QED BY <1>8, <1>12, <1>14, <2>2, <3>1, <3>3, <4>1, RowSaved
      <3> QED BY <3>2, <3>3
    <2> QED BY <2>1, <2>2
  <1>16. \A c \in Calls : SyncCounts(c)' /\ RetryCounts(c)' /\ EarlyInv(c)' /\ CopyOwn(c)'
    <2>1. \A c \in Calls : c \in Calls \ {0}
      BY <1>9
    <2> QED BY <1>8, <2>1, OthersCount
  <1> QED BY <1>15, <1>16 DEF CountInv

LEMMA ElseCounted ==
    ASSUME TypesInv, TypesInv', CountInv,
           DeleteSource \/ (\E f \in Files : ChangeFile(f)) \/ UNCHANGED vars
    PROVE  CountInv'
  <1>1. UNCHANGED <<call, docs, open, twice>> /\ \A r \in Calls : runs'[r] \in {runs[r], NoRun}
    BY DEF DeleteSource, ChangeFile, vars, history, lasting
  <1>2. Steady(0)
    BY <1>1, SteadyElse
  <1>3. 0 \notin Calls
    BY DEF Calls
  <1>4. ASSUME NEW r \in Calls PROVE RowCounts(r)' /\ RowOwn(r)'
    <2>1. CASE runs'[r] = runs[r]
      BY <1>2, <1>3, <2>1, RowCountStays
    <2>2. CASE runs'[r] = NoRun
      BY <2>2 DEF RowCounts, RowOwn, Own, NoRun
    <2> QED BY <1>1, <2>1, <2>2
  <1>5. \A c \in Calls : SyncCounts(c)' /\ RetryCounts(c)' /\ EarlyInv(c)' /\ CopyOwn(c)'
    <2>1. \A c \in Calls : c \in Calls \ {0}
      BY <1>3
    <2> QED BY <1>2, <2>1, OthersCount
  <1> QED BY <1>4, <1>5 DEF CountInv

LEMMA CountInit == Init => CountInv
  <1> SUFFICES ASSUME Init, NEW c \in Calls
               PROVE  /\ RowCounts(c) /\ SyncCounts(c) /\ RetryCounts(c) /\ EarlyInv(c)
                      /\ RowOwn(c) /\ CopyOwn(c)
    BY DEF CountInv
  <1>1. runs[c] = NoRun /\ call[c] = Idle /\ docs = {} /\ twice = {} /\ \A d \in Calls : call[d] = Idle
    BY DEF Init
  <1>2. Idle.at = "idle" /\ Idle.kind = "sync" /\ Idle.copy = NoRun
    BY DEF Idle
  <1>3. NoRun.summary = {} /\ NoRun.indexed + NoRun.failed = 0
    BY DEF NoRun
  <1>4. RowCounts(c) /\ SyncCounts(c) /\ RetryCounts(c)
    BY <1>1, <1>2 DEF RowCounts, SyncCounts, RetryCounts, Working, At
  <1>5. EarlyInv(c)
    BY <1>1, <1>2, <1>3 DEF EarlyInv, Working
  <1>6. RowOwn(c) /\ CopyOwn(c)
    BY <1>1, <1>2, <1>3 DEF RowOwn, CopyOwn, Own, Working
  <1> QED BY <1>4, <1>5, <1>6

LEMMA CountStep == TypesInv /\ TypesInv' /\ CountInv /\ [Next]_vars => CountInv'
  <1> SUFFICES ASSUME TypesInv, TypesInv', CountInv, [Next]_vars PROVE CountInv'
    OBVIOUS
  <1>1. ASSUME NEW c \in Calls, SyncRoute(c) \/ RetryRoute(c) PROVE CountInv'
    BY <1>1, LoadCounted DEF SyncRoute, RetryRoute
  <1>2. ASSUME NEW c \in Calls, Proceed(c) PROVE CountInv'
    <2>1. CASE Start(c)
      BY <2>1, CallFacts, PrepareCounted, RetryProceedCounted
    <2>2. CASE RetryLoadRun(c) \/ CreateRun(c) \/ FetchDelta(c) \/ ListFolder(c) \/ GetStartPageToken(c)
      BY <2>2, RetryLoadRunCounted, PrepareCounted
    <2>3. CASE MarkIngesting(c) \/ MergeRun(c) \/ SaveSource(c) \/ SaveRunWhole(c) \/ RunRefused(c)
      BY <2>3, MarkIngestingCounted, MergeCounted, SaveSourceCounted, SaveRunWholeCounted, DeathCounted
    <2>4. CASE MarkRetrying(c) \/ RetrySaveSource(c)
      BY <2>4, RetryProceedCounted
    <2>5. CASE \E p \in DOMAIN feed : ItemAttached(c, p)
      BY <2>5, ItemCounted
    <2>6. CASE \E f \in call[c].todo : RetryReprocessed(c, f) \/ RetryAttached(c, f)
      BY <2>6, RetryItemCounted
    <2> QED BY <1>2, <2>1, <2>2, <2>3, <2>4, <2>5, <2>6 DEF Proceed
  <1>3. ASSUME NEW c \in Calls, Break(c) PROVE CountInv'
    BY <1>3, DeathCounted, ItemCounted, RetryProceedCounted DEF Break
  <1> QED BY <1>1, <1>2, <1>3, DocEndCounted, ElseCounted DEF Next, DeleteRoute

\* A run that has ended has no file in flight and none to go, unless one was counted twice,
\* although the projector counts in the row while the call saves its own copy whole.
THEOREM RunsEndWhole == Spec => []CompletesWithAllFiles
  <1>1. TypesInv /\ CountInv => CompletesWithAllFiles
    <2> SUFFICES ASSUME TypesInv, CountInv, NEW r \in Calls, runs[r].status \in Terminal, r \notin twice
                 PROVE  /\ \A d \in open : DocRun(d) # r
                        /\ At(r, "items") => call[r].todo = {}
      BY DEF CompletesWithAllFiles
    <2>1. runs[r] # NoRun
      BY DEF NoRun, Terminal
    <2>2. Rest(r) = 0
      BY <2>1 DEF CountInv, RowCounts, Fits
    <2> QED BY <2>2, OpenCounted DEF OpenOf, OpenIn, DocRun
  <1>2. Init => TypesInv /\ CountInv
    BY TypesInit, CountInit
  <1>3. TypesInv /\ CountInv /\ [Next]_vars => TypesInv' /\ CountInv'
    BY TypesStep, CountStep
  <1> QED BY <1>1, <1>2, <1>3, PTL DEF Spec
=============================================================================
