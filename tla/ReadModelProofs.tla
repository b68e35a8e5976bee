-------------------------- MODULE ReadModelProofs --------------------------
(***************************************************************************)
(* What TLAPS proves about ReadModel, for any number of watchdogs, users,  *)
(* passes and incidents and any thresholds: the types, the lease properties   *)
(* of the watchdogs, and which deleted rows stay away.                     *)
(***************************************************************************)
EXTENDS ReadModel, TLAPS

\* What a watchdog selected was stale then, and whatever has touched the row since has
\* given it a later time.
SelectedWasStale ==
    \A w \in Callers : caller[w].at = "lease" =>
        LET seen == caller[w].seen IN
        /\ seen.status \in Recoverable /\ seen.attempts < MaxAttempts
        /\ seen.at \in Nat /\ seen.at + Threshold <= clock
        /\ row = NoRow \/ row = seen \/ seen.at < row.at

\* Leases were taken in the order of the times they compared, all of them earlier than
\* now and than the row as it is.
LeasesAreOld ==
    \A i \in DOMAIN leases :
        /\ leases[i] < clock
        /\ row # NoRow => leases[i] < row.at
        /\ \A j \in DOMAIN leases : i < j => leases[i] < leases[j]

\* A document that had a stream from the start publishes Attached once, and it is
\* projected before anybody can ask for the deletion.
AttachedComesFirst ==
    /\ stream = "none" => legacy
    /\ ~legacy => \A r \in 0..MaxRuns : <<r, "Attached">> \in flight =>
                     r = 1 /\ run[1] = "Attached" /\ row = NoRow /\ stream = "live"

LeaseInv == SelectedWasStale /\ LeasesAreOld /\ AttemptsBounded
IInv == TypeOK /\ LeaseInv /\ AttachedComesFirst

-----------------------------------------------------------------------------
(* Every step, as far as the row and the leases are concerned. *)

\* A write of the projector, of the foreign key's cascade or of the caller's last resort:
\* the row is left alone, goes, or takes the time of now with its attempts.
Touched ==
    \/ row' = row
    \/ row' = NoRow
    \/ /\ row'.at = clock /\ row'.attempts \in {0, row.attempts}
       /\ row' \in Rows \ {NoRow}

Views == [at : {"idle", "lease", "reprocess", "create", "mark"}, seen : Rows]
RunStates == Stages \cup {"Attached", "idle", "failed", "over"}

LEMMA NoRowHasNoStatus == NoRow.status = "none" /\ NoRow.at = 0 /\ NoRow.attempts = 0
  BY DEF NoRow

LEMMA WriteTouches ==
    ASSUME TypeOK, row # NoRow, NEW s \in Statuses, Write(s)
    PROVE  Touched /\ row' \in Rows /\ row' # NoRow
  <1>1. row \in [status : Statuses, at : 0..MaxClock, attempts : Nat]
    BY DEF TypeOK, Rows
  <1>2. row' \in [status : Statuses, at : 0..MaxClock, attempts : Nat]
    BY <1>1 DEF Write, TypeOK
  <1>3. row'.status = s /\ row'.at = clock /\ row'.attempts = row.attempts
    BY <1>1 DEF Write
  <1>4. row' # NoRow
    BY <1>3, NoRowHasNoStatus DEF Statuses
  <1> QED BY <1>2, <1>3, <1>4 DEF Touched, Rows

LEMMA ProjectedTyped ==
    ASSUME NEW e \in Events, NEW s \in Statuses
    PROVE  Projected(e, s) \in Statuses
  BY DEF Projected, Statuses, Events, Stages

LEMMA ProjectTouches ==
    ASSUME TypeOK, NEW f \in flight, Project(f[1], f[2])
    PROVE  /\ Touched /\ row' \in Rows
           /\ row = NoRow /\ row' # NoRow => kb /\ f[2] = "Attached"
           /\ flight' = flight \ {f}
           /\ run' \in [Runs -> RunStates]
           /\ f[2] # "Attached" => run' = run
  <1>1. f[1] \in 0..MaxRuns /\ f[2] \in Events /\ f = <<f[1], f[2]>>
    BY DEF TypeOK
  <1>2. row \in Rows /\ clock \in 0..MaxClock /\ run \in [Runs -> RunStates]
    BY DEF TypeOK, RunStates
  <1>3. /\ flight' = flight \ {f} /\ run' \in [Runs -> RunStates]
        /\ f[2] # "Attached" => run' = run
    <2>1. run' = run \/ run' = [run EXCEPT ![f[1]] = "over"]
      BY DEF Project, ProjectAttached, Goto
    <2>2. f[2] # "Attached" => run' = run
      BY DEF Project
    <2>3. "over" \in RunStates
      BY DEF RunStates
    <2> QED BY <2>1, <2>2, <2>3, <1>1, <1>2 DEF Project
  <1>4. CASE f[2] = "Attached"
    <2>1. ProjectAttached(f[1])
      BY <1>4 DEF Project
    <2>2. CASE ~kb
      BY <2>1, <2>2, <1>2, <1>3 DEF ProjectAttached, Touched
    <2>3. CASE kb /\ row = NoRow
      <3>1. row' = [status |-> "PENDING_UPLOAD", at |-> clock, attempts |-> 0]
        BY <2>1, <2>3 DEF ProjectAttached
      <3>2. row' \in Rows /\ row' # NoRow /\ row'.at = clock /\ row'.attempts = 0
        BY <3>1, <1>2 DEF Rows, NoRow, Statuses
      <3> QED BY <3>2, <2>3, <1>3, <1>4 DEF Touched
    <2>4. CASE kb /\ row # NoRow
      <3>1. Write(row.status) /\ row.status \in Statuses
        BY <2>1, <2>4, <1>2 DEF ProjectAttached, Rows
      <3> QED BY <3>1, <2>4, <1>3, WriteTouches
    <2> QED BY <2>2, <2>3, <2>4 DEF TypeOK
  <1>5. CASE f[2] = "Deleted"
    BY <1>2, <1>3, <1>5 DEF Project, Touched, Rows
  <1>6. CASE f[2] \notin {"Attached", "Deleted"}
    <2>1. ProjectUpdate(f[2])
      BY <1>6 DEF Project
    <2>2. CASE row = NoRow
      BY <2>1, <2>2, <1>2, <1>3 DEF ProjectUpdate, Touched
    <2>3. CASE row # NoRow
      <3>1. row.status \in Statuses
        BY <2>3, <1>2 DEF Rows
      <3>2. Write(Projected(f[2], row.status)) /\ Projected(f[2], row.status) \in Statuses
        BY <2>1, <2>3, <3>1, <1>1, ProjectedTyped DEF ProjectUpdate
      <3> QED BY <3>2, <2>3, <1>3, WriteTouches
    <2> QED BY <2>2, <2>3
  <1> QED BY <1>4, <1>5, <1>6

\* Such a write keeps what the leases rely on.
LEMMA TouchedKeeps ==
    ASSUME TypeOK, LeaseInv, Touched, clock' = clock, leases' = leases,
           \A w \in Callers : caller'[w].at = "lease" => caller'[w] = caller[w]
    PROVE  LeaseInv'
  <1>1. clock \in Nat /\ Threshold \in Nat /\ Threshold > 0 /\ MaxAttempts \in Nat
    BY ThresholdAssumption, AttemptsAssumption, BoundsAssumption DEF TypeOK
  <1>2. SelectedWasStale'
    <2> SUFFICES ASSUME NEW w \in Callers, caller'[w].at = "lease"
                 PROVE  LET seen == caller'[w].seen IN
                        /\ seen.status \in Recoverable /\ seen.attempts < MaxAttempts
                        /\ seen.at \in Nat /\ seen.at + Threshold <= clock'
                        /\ row' = NoRow \/ row' = seen \/ seen.at < row'.at
      BY DEF SelectedWasStale, Recoverable
    <2>1. caller'[w] = caller[w] /\ caller[w].at = "lease"
      OBVIOUS
    <2> DEFINE seen == caller[w].seen
    <2>2. /\ seen.status \in Recoverable /\ seen.attempts < MaxAttempts
          /\ seen.at \in Nat /\ seen.at + Threshold <= clock
          /\ row = NoRow \/ row = seen \/ seen.at < row.at
      BY <2>1 DEF LeaseInv, SelectedWasStale
    <2>3. seen.at < clock
      BY <2>2, <1>1
    <2>4. row' = NoRow \/ row' = seen \/ seen.at < row'.at
      BY <2>2, <2>3 DEF Touched
    <2> QED BY <2>1, <2>2, <2>4
  <1>3. LeasesAreOld'
    BY DEF LeaseInv, LeasesAreOld, Touched
  <1>4. AttemptsBounded'
    BY <1>1, NoRowHasNoStatus DEF LeaseInv, AttemptsBounded, Touched
  <1> QED BY <1>2, <1>3, <1>4 DEF LeaseInv

-----------------------------------------------------------------------------
(* The steps that do not write the row: types first. *)

LEMMA StandTyped ==
    ASSUME TypeOK, NEW w \in Callers, NEW place \in {"idle", "reprocess", "create", "mark"},
           Stand(w, place)
    PROVE  /\ caller' \in [Callers -> Views]
           /\ \A v \in Callers : caller'[v].at = "lease" => caller'[v] = caller[v]
  <1>1. caller \in [Callers -> Views]
    BY DEF TypeOK, Views
  <1>2. Idle \in Views /\ Idle.at = "idle"
    BY DEF Idle, Views, Rows
  <1>3. CASE place = "idle"
    <2>1. caller' = [caller EXCEPT ![w] = Idle]
      BY <1>3 DEF Stand
    <2> QED BY <2>1, <1>1, <1>2
  <1>4. CASE place # "idle"
    <2> DEFINE view == [caller[w] EXCEPT !.at = place]
    <2>1. caller' = [caller EXCEPT ![w] = view]
      BY <1>4 DEF Stand
    <2>2. caller[w] \in Views
      BY <1>1
    <2>3. view \in Views /\ view.at = place
      BY <2>2 DEF Views
    <2> HIDE DEF view
    <2>4. place # "lease"
      OBVIOUS
    <2> QED BY <2>1, <2>3, <2>4, <1>1
  <1> QED BY <1>3, <1>4

LEMMA PublishTyped ==
    ASSUME TypeOK, NEW r \in 0..MaxRuns, NEW e \in Events \ {"Attached"}, Publish(r, e)
    PROVE  /\ flight' \subseteq (0..MaxRuns) \X Events
           /\ \A q \in 0..MaxRuns : <<q, "Attached">> \in flight' => <<q, "Attached">> \in flight
  BY DEF TypeOK, Publish, Events

LEMMA GotoTyped ==
    ASSUME TypeOK, NEW r \in Runs, NEW place \in RunStates, Goto(r, place)
    PROVE  run' \in [Runs -> RunStates]
  BY DEF TypeOK, Goto, RunStates

LEMMA IncidentTyped ==
    ASSUME TypeOK, Incident
    PROVE  incidents' \in 0..MaxIncidents
  BY BoundsAssumption DEF TypeOK, Incident

\* The steps of the passes, and those of a deletion that leave the row alone.
PassStep ==
    \/ \E r \in Runs : \/ StoreAttached(r) \/ Advance(r) \/ MeetsDeletion(r)
                       \/ IndexedAgain(r) \/ ReportProgress(r) \/ Fails(r)
    \/ DeleteDocument \/ DeleteLegacy \/ PublishDeleted

LEMMA PassesTyped ==
    ASSUME TypeOK, PassStep
    PROVE  /\ TypeOK'
           /\ UNCHANGED <<row, clock, caller, leases, kb>>
           /\ \A q \in 0..MaxRuns : <<q, "Attached">> \in flight' => <<q, "Attached">> \in flight
           /\ <<1, "Attached">> \in flight /\ run[1] = "Attached" => run'[1] = "Attached"
           /\ stream' = stream \/ (stream # "none" /\ stream' = "deleted" /\ Known)
           /\ legacy' = legacy
  <1>0. /\ MaxRuns \in Nat /\ Runs \subseteq 0..MaxRuns /\ 0 \in 0..MaxRuns /\ 1 \in Runs
        /\ run \in [Runs -> RunStates]
    BY BoundsAssumption, RunsAssumption DEF Runs, TypeOK, RunStates
  <1> DEFINE Kept(f) == \A q \in 0..MaxRuns : <<q, "Attached">> \in f => <<q, "Attached">> \in flight
             First == <<1, "Attached">> \in flight /\ run[1] = "Attached" => run'[1] = "Attached"
  <1>a. ASSUME NEW r \in Runs, StoreAttached(r)
        PROVE  TypeOK' /\ UNCHANGED <<row, clock, caller, leases, world>> /\ Kept(flight') /\ First
    <2>1. flight' \subseteq (0..MaxRuns) \X Events /\ Kept(flight')
      BY <1>0, <1>a, PublishTyped DEF StoreAttached, Events, Stages
    <2>2. run' \in [Runs -> RunStates]
      BY <1>a, GotoTyped DEF StoreAttached, RunStates, Stages
    <2>3. First
      BY <1>0, <1>a DEF StoreAttached, Goto
    <2> QED BY <1>a, <2>1, <2>2, <2>3 DEF StoreAttached, TypeOK, RunStates, world
  <1>1. ASSUME NEW r \in Runs, Advance(r)
        PROVE  TypeOK' /\ UNCHANGED <<row, clock, caller, leases, world>> /\ Kept(flight') /\ First
    <2>1. NextStage(run[r]) \in Stages
      BY <1>1 DEF Advance, Working, Stages, NextStage
    <2>2. NextStage(run[r]) \in Events \ {"Attached"} /\ NextStage(run[r]) \in RunStates
      BY <2>1 DEF Events, Stages, RunStates
    <2>3. flight' \subseteq (0..MaxRuns) \X Events /\ Kept(flight')
      BY <1>0, <1>1, <2>2, PublishTyped DEF Advance
    <2>4. run' \in [Runs -> RunStates]
      BY <1>1, <2>2, GotoTyped DEF Advance
    <2>9. First
      BY <1>0, <1>1 DEF Advance, Working, Goto, Stages
    <2> QED BY <1>1, <2>9, <2>3, <2>4 DEF Advance, TypeOK, RunStates, world
  <1>2. ASSUME NEW r \in Runs, MeetsDeletion(r)
        PROVE  TypeOK' /\ UNCHANGED <<row, clock, caller, leases, world>> /\ Kept(flight') /\ First
    <2>1. run' \in [Runs -> RunStates]
      BY <1>2, GotoTyped DEF MeetsDeletion, RunStates
    <2>9. First
      BY <1>0, <1>2 DEF MeetsDeletion, Working, Goto, Stages
    <2> QED BY <1>2, <2>9, <2>1 DEF MeetsDeletion, TypeOK, RunStates, world
  <1>3. ASSUME NEW r \in Runs, IndexedAgain(r)
        PROVE  TypeOK' /\ UNCHANGED <<row, clock, caller, leases, world>> /\ Kept(flight') /\ First
    <2>1. flight' \subseteq (0..MaxRuns) \X Events /\ Kept(flight')
      BY <1>0, <1>3, PublishTyped DEF IndexedAgain, Events, Stages
    <2>2. run' \in [Runs -> RunStates]
      BY <1>3, GotoTyped DEF IndexedAgain, RunStates
    <2>9. First
      BY <1>0, <1>3 DEF IndexedAgain, Goto
    <2> QED BY <1>3, <2>9, <2>1, <2>2 DEF IndexedAgain, TypeOK, RunStates, world
  <1>4. ASSUME NEW r \in Runs, ReportProgress(r)
        PROVE  TypeOK' /\ UNCHANGED <<row, clock, caller, leases, world>> /\ Kept(flight') /\ First
    <2>1. flight' \subseteq (0..MaxRuns) \X Events /\ Kept(flight')
      BY <1>0, <1>4, PublishTyped DEF ReportProgress, Events
    <2>2. run' \in [Runs -> RunStates]
      <3>1. CASE run[r] = "failed"
        BY <1>4, <3>1, GotoTyped DEF ReportProgress, RunStates
      <3>2. CASE run[r] # "failed"
        BY <1>4, <3>2 DEF ReportProgress, TypeOK, RunStates
      <3> QED BY <3>1, <3>2
    <2>9. First
      BY <1>0, <1>4 DEF ReportProgress, Working, Goto, Stages
    <2> QED BY <1>4, <2>9, <2>1, <2>2 DEF ReportProgress, TypeOK, RunStates, world
  <1>5. ASSUME NEW r \in Runs, Fails(r)
        PROVE  TypeOK' /\ UNCHANGED <<row, clock, caller, leases, world>> /\ Kept(flight') /\ First
    <2>1. flight' \subseteq (0..MaxRuns) \X Events /\ Kept(flight')
      BY <1>0, <1>5, PublishTyped DEF Fails, Events
    <2>2. run' \in [Runs -> RunStates]
      BY <1>5, GotoTyped DEF Fails, RunStates
    <2>3. incidents' \in 0..MaxIncidents
      BY <1>5, IncidentTyped DEF Fails
    <2>9. First
      BY <1>0, <1>5 DEF Fails, Working, Goto, Stages
    <2> QED BY <1>5, <2>9, <2>1, <2>2, <2>3 DEF Fails, TypeOK, RunStates, world
  <1>6. ASSUME DeleteDocument
        PROVE  /\ TypeOK' /\ UNCHANGED <<row, clock, caller, leases, kb, legacy, run>>
               /\ Kept(flight') /\ stream # "none" /\ stream' = "deleted" /\ Known
    <2>1. flight' \subseteq (0..MaxRuns) \X Events /\ Kept(flight')
      <3>1. CASE stream = "live"
        BY <1>0, <1>6, <3>1, PublishTyped DEF DeleteDocument, Events
      <3>2. CASE stream # "live"
        BY <1>6, <3>2 DEF DeleteDocument, TypeOK
      <3> QED BY <3>1, <3>2
    <2> QED BY <1>6, <2>1 DEF DeleteDocument, TypeOK
  <1>7. ASSUME DeleteLegacy
        PROVE  TypeOK' /\ UNCHANGED <<row, clock, caller, leases, kb, legacy, stream, run, flight>>
    BY <1>7 DEF DeleteLegacy, TypeOK
  <1>8. ASSUME PublishDeleted
        PROVE  /\ TypeOK' /\ UNCHANGED <<row, clock, caller, leases, kb, legacy, stream, run>>
               /\ Kept(flight')
    <2>1. flight' \subseteq (0..MaxRuns) \X Events /\ Kept(flight')
      BY <1>0, <1>8, PublishTyped DEF PublishDeleted, Events
    <2> QED BY <1>8, <2>1 DEF PublishDeleted, TypeOK
  <1> QED BY <1>a, <1>1, <1>2, <1>3, <1>4, <1>5, <1>6, <1>7, <1>8 DEF PassStep, world

LEMMA PassesKeepInv ==
    ASSUME IInv, PassStep
    PROVE  IInv'
  <1>1. /\ TypeOK'
        /\ UNCHANGED <<row, clock, caller, leases, kb>>
        /\ \A q \in 0..MaxRuns : <<q, "Attached">> \in flight' => <<q, "Attached">> \in flight
        /\ <<1, "Attached">> \in flight /\ run[1] = "Attached" => run'[1] = "Attached"
        /\ stream' = stream \/ (stream # "none" /\ stream' = "deleted" /\ Known)
        /\ legacy' = legacy
    BY PassesTyped DEF IInv
  <1>2. LeaseInv'
    BY <1>1, TouchedKeeps DEF IInv, Touched
  <1>3. AttachedComesFirst'
    <2>1. stream' = "none" => legacy'
      BY <1>1 DEF IInv, AttachedComesFirst
    <2>2. ASSUME ~legacy', NEW r \in 0..MaxRuns, <<r, "Attached">> \in flight'
          PROVE  r = 1 /\ run'[1] = "Attached" /\ row' = NoRow /\ stream' = "live"
      <3>1. <<r, "Attached">> \in flight /\ ~legacy
        BY <1>1, <2>2
      <3>2. r = 1 /\ run[1] = "Attached" /\ row = NoRow /\ stream = "live"
        BY <3>1 DEF IInv, AttachedComesFirst
      <3>3. ~Known
        BY <3>1, <3>2 DEF Known
      <3> QED BY <1>1, <3>1, <3>2, <3>3
    <2> QED BY <2>1, <2>2 DEF AttachedComesFirst
  <1> QED BY <1>1, <1>2, <1>3 DEF IInv

-----------------------------------------------------------------------------
(* The watchdogs. *)

LEMMA SelectKeepsInv ==
    ASSUME IInv, NEW w \in Callers, Select(w)
    PROVE  IInv'
  <1> DEFINE view == [at |-> "lease", seen |-> row]
  <1>1. /\ caller' = [caller EXCEPT ![w] = view]
        /\ UNCHANGED <<world, row, clock, run, flight, leases, incidents>>
        /\ Selected
    BY DEF Select
  <1>2. TypeOK /\ row \in Rows /\ caller \in [Callers -> Views]
    BY DEF IInv, TypeOK, Views
  <1>3. view \in Views /\ view.at = "lease" /\ view.seen = row
    BY <1>2 DEF Views
  <1> HIDE DEF view
  <1>4. TypeOK'
    BY <1>1, <1>2, <1>3 DEF TypeOK, Views, world
  <1>5. SelectedWasStale'
    <2> SUFFICES ASSUME NEW v \in Callers, caller'[v].at = "lease"
                 PROVE  LET seen == caller'[v].seen IN
                        /\ seen.status \in Recoverable /\ seen.attempts < MaxAttempts
                        /\ seen.at \in Nat /\ seen.at + Threshold <= clock'
                        /\ row' = NoRow \/ row' = seen \/ seen.at < row'.at
      BY DEF SelectedWasStale, Recoverable
    <2>1. CASE v = w
      <3>1. row.status # "none"
        BY <1>1 DEF Selected, Recoverable
      <3>2. row \in [status : Statuses, at : 0..MaxClock, attempts : Nat]
        BY <1>2, <3>1, NoRowHasNoStatus DEF Rows
      <3>3. caller'[v].seen = row
        BY <1>1, <1>2, <1>3, <2>1
      <3>4. row.at \in Nat
        BY <3>2
      <3> QED BY <1>1, <3>3, <3>4 DEF Selected
    <2>2. CASE v # w
      <3>1. caller'[v] = caller[v]
        BY <1>1, <1>2, <2>2
      <3> QED BY <1>1, <3>1 DEF IInv, LeaseInv, SelectedWasStale
    <2> QED BY <2>1, <2>2
  <1> QED BY <1>1, <1>4, <1>5
          DEF IInv, LeaseInv, LeasesAreOld, AttemptsBounded, AttachedComesFirst, world

\* What a lease finds unchanged is the row that was selected, attempts included.
LEMMA LeaseFindsSelected ==
    ASSUME IInv, NEW w \in Callers, caller[w].at = "lease", Unchanged(w)
    PROVE  /\ row = caller[w].seen /\ row # NoRow
           /\ row.at \in Nat /\ row.at + Threshold <= clock /\ row.attempts < MaxAttempts
  <1>1. LET seen == caller[w].seen IN
        /\ seen.status \in Recoverable /\ seen.attempts < MaxAttempts
        /\ seen.at \in Nat /\ seen.at + Threshold <= clock
        /\ row = NoRow \/ row = seen \/ seen.at < row.at
    BY DEF IInv, LeaseInv, SelectedWasStale
  <1>2. row.status = caller[w].seen.status /\ row.at = caller[w].seen.at
    BY DEF Unchanged
  <1>3. row # NoRow
    BY <1>1, <1>2, NoRowHasNoStatus DEF Recoverable
  <1>4. row = caller[w].seen
    BY <1>1, <1>2, <1>3
  <1> QED BY <1>1, <1>3, <1>4

LEMMA LeaseKeepsInv ==
    ASSUME IInv, NEW w \in Callers, Lease(w)
    PROVE  IInv'
  <1>1. TypeOK /\ UNCHANGED <<world, clock, run, flight, incidents>>
    BY DEF Lease, IInv
  <1>2. CASE ~Unchanged(w)
    <2>1. Stand(w, "idle") /\ UNCHANGED <<row, leases>>
      BY <1>2 DEF Lease
    <2>2. /\ caller' \in [Callers -> Views]
          /\ \A v \in Callers : caller'[v].at = "lease" => caller'[v] = caller[v]
      BY <1>1, <2>1, StandTyped
    <2>3. LeaseInv'
      BY <1>1, <2>1, <2>2, TouchedKeeps DEF IInv, Touched
    <2>4. TypeOK'
      BY <1>1, <2>1, <2>2 DEF TypeOK, Views, world
    <2> QED BY <1>1, <2>1, <2>3, <2>4 DEF IInv, AttachedComesFirst, world
  <1>3. CASE Unchanged(w)
    <2>1. /\ row' = [status |-> "RECOVERING", at |-> clock, attempts |-> row.attempts + 1]
          /\ leases' = Append(leases, row.at)
          /\ Stand(w, "reprocess") /\ caller[w].at = "lease"
      BY <1>3 DEF Lease
    <2>2. /\ row # NoRow /\ row.at \in Nat /\ row.at + Threshold <= clock
          /\ row.attempts < MaxAttempts
      BY <1>3, <2>1, LeaseFindsSelected
    <2>3. /\ clock \in Nat /\ clock \in 0..MaxClock /\ MaxClock \in Nat
          /\ Threshold \in Nat /\ Threshold > 0 /\ MaxAttempts \in Nat
      BY <1>1, ThresholdAssumption, AttemptsAssumption, BoundsAssumption DEF TypeOK
    <2>4. row.at < clock /\ row.at \in 0..MaxClock
      BY <2>2, <2>3
    <2>5. row \in [status : Statuses, at : 0..MaxClock, attempts : Nat]
      BY <1>1, <2>2 DEF TypeOK, Rows
    <2>6. row' \in Rows /\ row'.at = clock /\ row'.attempts = row.attempts + 1
      BY <2>1, <2>3, <2>5 DEF Rows, Statuses
    <2>7. /\ caller' \in [Callers -> Views]
          /\ \A v \in Callers : caller'[v].at = "lease" => caller'[v] = caller[v]
      BY <1>1, <2>1, StandTyped
    <2>8. TypeOK'
      BY <1>1, <2>1, <2>4, <2>6, <2>7 DEF TypeOK, Views, world
    <2>9. SelectedWasStale'
      <3> SUFFICES ASSUME NEW v \in Callers, caller'[v].at = "lease"
                   PROVE  LET seen == caller'[v].seen IN
                          /\ seen.status \in Recoverable /\ seen.attempts < MaxAttempts
                          /\ seen.at \in Nat /\ seen.at + Threshold <= clock'
                          /\ row' = NoRow \/ row' = seen \/ seen.at < row'.at
        BY DEF SelectedWasStale, Recoverable
      <3> DEFINE seen == caller[v].seen
      <3>1. caller'[v] = caller[v]
        BY <2>7
      <3>2. /\ seen.status \in Recoverable /\ seen.attempts < MaxAttempts
            /\ seen.at \in Nat /\ seen.at + Threshold <= clock
        BY <3>1 DEF IInv, LeaseInv, SelectedWasStale
      <3>3. seen.at < row'.at
        BY <3>2, <2>3, <2>6
      <3> QED BY <1>1, <3>1, <3>2, <3>3
    <2>10. LeasesAreOld'
      <3>1. leases \in Seq(0..MaxClock)
        BY <1>1 DEF TypeOK
      <3>2. /\ DOMAIN leases' = 1..Len(leases) + 1 /\ DOMAIN leases = 1..Len(leases)
            /\ Len(leases) \in Nat
            /\ leases'[Len(leases) + 1] = row.at
            /\ \A i \in DOMAIN leases : leases'[i] = leases[i]
        BY <2>1, <2>4, <3>1
      <3>3. \A i \in DOMAIN leases :
               /\ leases[i] < clock /\ leases[i] < row.at
               /\ \A j \in DOMAIN leases : i < j => leases[i] < leases[j]
        BY <2>2 DEF IInv, LeaseInv, LeasesAreOld
      <3>4. \A i \in DOMAIN leases' : leases'[i] < clock
        BY <3>2, <3>3, <2>4
      <3>5. \A i, j \in DOMAIN leases' : i < j => leases'[i] < leases'[j]
        BY <3>2, <3>3
      <3> QED BY <1>1, <2>6, <3>4, <3>5 DEF LeasesAreOld
    <2>11. AttemptsBounded'
      <3>1. row.attempts \in Nat
        BY <2>5
      <3> QED BY <2>2, <2>3, <2>6, <3>1 DEF AttemptsBounded
    <2>12. AttachedComesFirst'
      BY <1>1, <2>2 DEF IInv, AttachedComesFirst, world
    <2> QED BY <2>8, <2>9, <2>10, <2>11, <2>12 DEF IInv, LeaseInv
  <1> QED BY <1>2, <1>3

\* The other steps of a watchdog: it stands elsewhere, having published or written at most.
LEMMA StandKeepsInv ==
    ASSUME IInv, NEW w \in Callers,
           Reprocess(w) \/ ReadLegacyRow(w) \/ Recreate(w) \/ ReprocessRefused(w)
              \/ Request(w) \/ MarkFailed(w) \/ CallRaises(w)
    PROVE  IInv'
  <1>0. TypeOK /\ MaxRuns \in Nat /\ Runs \subseteq 0..MaxRuns
    BY BoundsAssumption DEF IInv, Runs
  <1>1. \E place \in {"idle", "reprocess", "create", "mark"} : Stand(w, place)
    BY DEF Reprocess, ReadLegacyRow, Recreate, ReprocessRefused, Request, MarkFailed, CallRaises
  <1>2. /\ caller' \in [Callers -> Views]
        /\ \A v \in Callers : caller'[v].at = "lease" => caller'[v] = caller[v]
    BY <1>0, <1>1, StandTyped
  <1>3. CASE Reprocess(w)
    <2>1. PICK r \in Runs : run[r] = "idle" /\ Publish(r, "Stored") /\ Goto(r, "Stored")
      BY <1>3 DEF Reprocess, Begin
    <2>2. /\ flight' \subseteq (0..MaxRuns) \X Events
          /\ \A q \in 0..MaxRuns : <<q, "Attached">> \in flight' => <<q, "Attached">> \in flight
      BY <1>0, <2>1, PublishTyped DEF Events, Stages
    <2>3. run' \in [Runs -> RunStates]
      BY <1>0, <2>1, GotoTyped DEF RunStates, Stages
    <2>4. UNCHANGED <<world, row, clock, leases, incidents>>
      BY <1>3 DEF Reprocess
    <2>5. TypeOK'
      BY <1>0, <1>2, <2>2, <2>3, <2>4 DEF TypeOK, Views, RunStates, world
    <2>6. LeaseInv'
      BY <1>0, <1>2, <2>4, TouchedKeeps DEF IInv, Touched
    <2>7. run[1] = "Attached" => run'[1] = "Attached"
      BY <1>0, <2>1 DEF Goto, TypeOK
    <2>8. AttachedComesFirst'
      BY <2>2, <2>4, <2>7 DEF IInv, AttachedComesFirst, world
    <2> QED BY <2>5, <2>6, <2>8 DEF IInv
  <1>6. CASE Recreate(w)
    <2>1. UNCHANGED <<kb, legacy, deletion, row, clock, leases, incidents>>
      BY <1>6 DEF Recreate
    <2>2. LeaseInv'
      BY <1>0, <1>2, <2>1, TouchedKeeps DEF IInv, Touched
    <2>3. CASE stream = "none"
      <3>1. stream' = "live" /\ Begin("Attached") /\ legacy
        BY <1>6, <2>3 DEF Recreate, IInv, AttachedComesFirst
      <3>2. PICK r \in Runs : Publish(r, "Attached") /\ Goto(r, "Attached")
        BY <3>1 DEF Begin
      <3>3. flight' \subseteq (0..MaxRuns) \X Events
        BY <1>0, <3>2 DEF TypeOK, Publish, Events
      <3>4. run' \in [Runs -> RunStates]
        BY <1>0, <3>2, GotoTyped DEF RunStates
      <3>5. TypeOK'
        BY <1>0, <1>2, <2>1, <3>1, <3>3, <3>4 DEF TypeOK, Views, RunStates
      <3>6. AttachedComesFirst'
        BY <2>1, <3>1 DEF AttachedComesFirst
      <3> QED BY <2>2, <3>5, <3>6 DEF IInv
    <2>4. CASE stream # "none"
      <3>1. UNCHANGED <<stream, run, flight>>
        BY <1>6, <2>4 DEF Recreate
      <3>2. TypeOK'
        BY <1>0, <1>2, <2>1, <3>1 DEF TypeOK, Views
      <3> QED BY <2>1, <2>2, <3>1, <3>2 DEF IInv, AttachedComesFirst
    <2> QED BY <2>3, <2>4
  <1>4. CASE ReadLegacyRow(w) \/ Request(w) \/ ReprocessRefused(w) \/ CallRaises(w)
    <2>1. /\ UNCHANGED <<world, row, clock, run, flight, leases>> /\ incidents' \in 0..MaxIncidents
      BY <1>0, <1>4, IncidentTyped DEF ReadLegacyRow, Request, ReprocessRefused, CallRaises, TypeOK
    <2>2. TypeOK'
      BY <1>0, <1>2, <2>1 DEF TypeOK, Views, world
    <2>3. LeaseInv'
      BY <1>0, <1>2, <2>1, TouchedKeeps DEF IInv, Touched
    <2> QED BY <2>1, <2>2, <2>3 DEF IInv, AttachedComesFirst, world
  <1>5. CASE MarkFailed(w)
    <2>1. UNCHANGED <<world, clock, run, flight, leases, incidents>>
      BY <1>5 DEF MarkFailed
    <2>2. /\ Touched /\ row' \in Rows
          /\ row = NoRow => row' = NoRow
      <3>1. CASE row = NoRow
        BY <1>0, <1>5, <3>1 DEF MarkFailed, Touched, TypeOK
      <3>2. CASE row # NoRow
        <4>1. Write("FAILED")
          BY <1>5, <3>2 DEF MarkFailed
        <4> QED BY <1>0, <3>2, <4>1, WriteTouches DEF Statuses
      <3> QED BY <3>1, <3>2
    <2>3. TypeOK'
      BY <1>0, <1>2, <2>1, <2>2 DEF TypeOK, Views, world
    <2>4. LeaseInv'
      BY <1>0, <1>2, <2>1, <2>2, TouchedKeeps DEF IInv
    <2> QED BY <2>1, <2>2, <2>3, <2>4 DEF IInv, AttachedComesFirst, world
  <1> QED BY <1>3, <1>4, <1>5, <1>6

LEMMA CrashKeepsInv ==
    ASSUME IInv, NEW w \in Callers, Crash(w)
    PROVE  IInv'
  <1>1. TypeOK /\ UNCHANGED <<kb, legacy, stream, row, clock, leases>> /\ Stand(w, "idle")
    BY DEF IInv, Crash
  <1>2. /\ caller' \in [Callers -> Views]
        /\ \A v \in Callers : caller'[v].at = "lease" => caller'[v] = caller[v]
    BY <1>1, StandTyped
  <1>3. PICK lost \in SUBSET (Runs \cup {0}) :
           /\ run' = [r \in Runs |-> IF r \in lost /\ run[r] # "idle" THEN "over" ELSE run[r]]
           /\ flight' = {f \in flight : f[1] \notin lost}
           /\ deletion' = IF 0 \in lost THEN "idle" ELSE deletion
    BY DEF Crash
  <1>4. run' \in [Runs -> RunStates]
    BY <1>1, <1>3 DEF TypeOK, RunStates
  <1>5. flight' \subseteq flight
    BY <1>3
  <1>6. incidents' \in 0..MaxIncidents
    BY <1>1, IncidentTyped DEF Crash
  <1>7. TypeOK'
    BY <1>1, <1>3, <1>2, <1>4, <1>5, <1>6 DEF TypeOK, Views, RunStates, world
  <1>8. LeaseInv'
    BY <1>1, <1>2, TouchedKeeps DEF IInv, Touched
  <1>9. <<1, "Attached">> \in flight' => run'[1] = run[1]
    BY <1>3, RunsAssumption, BoundsAssumption DEF Runs
  <1>10. AttachedComesFirst'
    BY <1>1, <1>5, <1>9 DEF IInv, AttachedComesFirst
  <1> QED BY <1>7, <1>8, <1>10 DEF IInv

LEMMA TickKeepsInv == IInv /\ Tick => IInv'
  <1> SUFFICES ASSUME IInv, Tick PROVE IInv'
    OBVIOUS
  <1>1. /\ TypeOK /\ clock' = clock + 1 /\ clock' \in 0..MaxClock
        /\ UNCHANGED <<world, row, run, flight, caller, leases, incidents>>
    BY BoundsAssumption DEF IInv, Tick, TypeOK
  <1>2. TypeOK'
    BY <1>1 DEF TypeOK, world
  <1>3. clock \in Nat /\ Threshold \in Nat /\ leases \in Seq(0..MaxClock)
    BY <1>1, ThresholdAssumption DEF TypeOK
  <1>4. \A w \in Callers : caller[w].at = "lease" =>
           caller[w].seen.at \in Nat /\ caller[w].seen.at + Threshold <= clock'
    BY <1>1, <1>3 DEF IInv, LeaseInv, SelectedWasStale
  <1>5. SelectedWasStale'
    BY <1>1, <1>4 DEF IInv, LeaseInv, SelectedWasStale, Recoverable
  <1>6. \A i \in DOMAIN leases : leases[i] < clock'
    <2> SUFFICES ASSUME NEW i \in DOMAIN leases PROVE leases[i] < clock'
      OBVIOUS
    <2>1. leases[i] < clock
      BY DEF IInv, LeaseInv, LeasesAreOld
    <2>2. leases[i] \in 0..MaxClock /\ MaxClock \in Nat
      BY <1>3, BoundsAssumption
    <2> QED BY <2>1, <2>2, <1>1, <1>3
  <1>7. LeasesAreOld'
    BY <1>1, <1>6 DEF IInv, LeaseInv, LeasesAreOld
  <1>8. AttemptsBounded' /\ AttachedComesFirst'
    BY <1>1 DEF IInv, LeaseInv, AttemptsBounded, AttachedComesFirst, world
  <1> QED BY <1>2, <1>5, <1>7, <1>8 DEF IInv, LeaseInv

LEMMA ProjectKeepsInv ==
    ASSUME IInv, NEW f \in flight, Project(f[1], f[2])
    PROVE  IInv'
  <1>1. TypeOK /\ UNCHANGED <<world, clock, caller, leases, incidents>>
    BY DEF IInv, Project
  <1>2. /\ Touched /\ row' \in Rows
        /\ row = NoRow /\ row' # NoRow => kb /\ f[2] = "Attached"
        /\ flight' = flight \ {f}
        /\ run' \in [Runs -> RunStates]
        /\ f[2] # "Attached" => run' = run
    BY <1>1, ProjectTouches
  <1>3. TypeOK'
    BY <1>1, <1>2 DEF TypeOK, RunStates, world
  <1>4. LeaseInv'
    BY <1>1, <1>2, TouchedKeeps DEF IInv
  <1>5. f \in (0..MaxRuns) \X Events
    BY <1>1 DEF TypeOK
  <1>6. AttachedComesFirst'
    <2> SUFFICES ASSUME ~legacy, NEW r \in 0..MaxRuns, <<r, "Attached">> \in flight'
                 PROVE  r = 1 /\ run'[1] = "Attached" /\ row' = NoRow /\ stream' = "live"
      BY <1>1 DEF AttachedComesFirst, IInv, world
    <2>1. <<r, "Attached">> \in flight /\ <<r, "Attached">> # f
      BY <1>2
    <2>2. r = 1 /\ run[1] = "Attached" /\ row = NoRow /\ stream = "live"
      BY <2>1 DEF IInv, AttachedComesFirst
    <2>3. f[2] # "Attached"
      <3> SUFFICES ASSUME f[2] = "Attached" PROVE FALSE
        OBVIOUS
      <3>1. f = <<f[1], "Attached">> /\ f[1] \in 0..MaxRuns
        BY <1>5
      <3>2. f[1] = 1
        BY <3>1 DEF IInv, AttachedComesFirst
      <3> QED BY <2>1, <2>2, <3>1, <3>2
    <2> QED BY <1>1, <1>2, <2>2, <2>3 DEF world
  <1> QED BY <1>3, <1>4, <1>6 DEF IInv

\* The knowledge base goes with its rows, or DeleteDocument removes its row.
LEMMA RemovalKeepsInv == IInv /\ (DeleteKnowledgeBase \/ RemoveRow) => IInv'
  <1> SUFFICES ASSUME IInv, DeleteKnowledgeBase \/ RemoveRow PROVE IInv'
    OBVIOUS
  <1>1. /\ TypeOK /\ kb' \in BOOLEAN /\ deletion' \in {"idle", "bus", "row"} /\ row' = NoRow
        /\ UNCHANGED <<legacy, stream, clock, run, flight, caller, leases, incidents>>
    BY DEF IInv, DeleteKnowledgeBase, RemoveRow, TypeOK
  <1>2. TypeOK'
    BY <1>1 DEF TypeOK, Rows
  <1>3. LeaseInv'
    BY <1>1, TouchedKeeps DEF IInv, Touched
  <1> QED BY <1>1, <1>2, <1>3 DEF IInv, AttachedComesFirst

-----------------------------------------------------------------------------
(* The invariant. *)

LEMMA InitInv == Init => IInv
  <1> SUFFICES ASSUME Init PROVE IInv
    OBVIOUS
  <1>1. MaxRuns \in Nat /\ MaxClock \in Nat /\ MaxIncidents \in Nat /\ MaxAttempts \in Nat
    BY BoundsAssumption, AttemptsAssumption
  <1>2. Idle \in Views /\ Idle.at = "idle" /\ NoRow \in Rows
    BY DEF Idle, Views, Rows
  <1>3. caller \in [Callers -> Views] /\ \A w \in Callers : caller[w].at = "idle"
    BY <1>2 DEF Init
  <1>4. TypeOK
    <2>1. run \in [Runs -> Stages \cup {"Attached", "idle", "failed", "over"}]
      BY DEF Init
    <2>0. row \in Rows /\ legacy \in BOOLEAN /\ stream \in {"none", "live", "deleted"}
      BY <1>1, <1>2 DEF Init, Rows, Statuses
    <2>2. flight \subseteq (0..MaxRuns) \X Events
      BY <1>1, RunsAssumption DEF Init, Events
    <2>3. leases \in Seq(0..MaxClock) /\ clock \in 0..MaxClock /\ incidents \in 0..MaxIncidents
      BY <1>1 DEF Init
    <2> QED BY <1>2, <1>3, <2>0, <2>1, <2>2, <2>3 DEF Init, TypeOK, Views
  <1>5. LeaseInv
    BY <1>1, <1>3, NoRowHasNoStatus
       DEF Init, LeaseInv, SelectedWasStale, LeasesAreOld, AttemptsBounded
  <1>6. AttachedComesFirst
    BY RunsAssumption, BoundsAssumption DEF Init, AttachedComesFirst, Runs
  <1> QED BY <1>4, <1>5, <1>6 DEF IInv

LEMMA StepKeepsInv == IInv /\ [Next]_vars => IInv'
  <1> SUFFICES ASSUME IInv, [Next]_vars PROVE IInv'
    OBVIOUS
  <1>1. CASE \E f \in flight : Project(f[1], f[2])
    BY <1>1, ProjectKeepsInv
  <1>2. CASE PassStep
    BY <1>2, PassesKeepInv
  <1>3. CASE DeleteKnowledgeBase \/ RemoveRow
    BY <1>3, RemovalKeepsInv
  <1>4. ASSUME NEW w \in Callers, Recover(w) \/ Request(w) \/ CallRaises(w) \/ Crash(w)
        PROVE  IInv'
    BY <1>4, SelectKeepsInv, LeaseKeepsInv, StandKeepsInv, CrashKeepsInv DEF Recover, Answer
  <1>5. CASE Tick
    BY <1>5, TickKeepsInv
  <1>6. CASE UNCHANGED vars
    <2>1. TypeOK'
      BY <1>6 DEF IInv, vars, world, TypeOK
    <2>2. LeaseInv'
      BY <1>6, TouchedKeeps DEF IInv, vars, Touched
    <2> QED BY <1>6, <2>1, <2>2 DEF IInv, AttachedComesFirst, vars, world
  <1> QED BY <1>1, <1>2, <1>3, <1>4, <1>5, <1>6 DEF Next, PassStep, Work, Recover, Callers

\* Whatever watchdogs, passes, projections and crashes do, the strengthened invariant
\* holds.
THEOREM Invariance == Spec => []IInv
  <1>1. Init => IInv
    BY InitInv
  <1>2. IInv /\ [Next]_vars => IInv'
    BY StepKeepsInv
  <1> QED BY <1>1, <1>2, PTL DEF Spec

-----------------------------------------------------------------------------
(* The properties. *)

\* The row, the watchdogs' copies of it and the lease history have their types.
THEOREM TypeCorrect == Spec => []TypeOK
  <1>1. IInv => TypeOK
    BY DEF IInv
  <1> QED BY <1>1, Invariance, PTL

\* A stale row is leased to one caller, whatever the number of watchdogs and passes:
\* the lease compares updated_at, which every write moves forward.
THEOREM OneLease == Spec => []OneLeasePerStaleRow
  <1>1. IInv => OneLeasePerStaleRow
    <2> SUFFICES ASSUME IInv, NEW i \in DOMAIN leases, NEW j \in DOMAIN leases,
                        leases[i] = leases[j]
                 PROVE  i = j
      BY DEF OneLeasePerStaleRow
    <2>1. leases \in Seq(0..MaxClock) /\ i \in Nat /\ j \in Nat
      BY DEF IInv, TypeOK
    <2>2. leases[i] \in 0..MaxClock /\ MaxClock \in Nat
      BY <2>1, BoundsAssumption
    <2>3. ~(leases[i] < leases[j]) /\ ~(leases[j] < leases[i])
      BY <2>2
    <2>4. ~(i < j) /\ ~(j < i)
      BY <2>3 DEF IInv, LeaseInv, LeasesAreOld
    <2> QED BY <2>1, <2>4
  <1> QED BY <1>1, Invariance, PTL

\* A document is recovered at most max_attempts times.
THEOREM AttemptsAreBounded == Spec => []AttemptsBounded
  <1>1. IInv => AttemptsBounded
    BY DEF IInv, LeaseInv
  <1> QED BY <1>1, Invariance, PTL

\* What is leased is stale at the moment of the lease, not only at the selection.
THEOREM StaleWhenLeased == Spec => LeasesOnlyStale
  <1>1. IInv /\ [Next]_vars =>
           [\A w \in Watchdogs : Lease(w) /\ leases' # leases => row.at + Threshold <= clock]_vars
    <2> SUFFICES ASSUME IInv, NEW w \in Watchdogs, Lease(w), leases' # leases
                 PROVE  row.at + Threshold <= clock
      OBVIOUS
    <2>1. caller[w].at = "lease" /\ Unchanged(w)
      BY DEF Lease
    <2>2. w \in Callers
      BY DEF Callers
    <2> QED BY <2>1, <2>2, LeaseFindsSelected
  <1> QED BY <1>1, Invariance, PTL DEF Spec, LeasesOnlyStale

\* No late projection, lease, recreation or failure mark brings back a row of a deleted
\* knowledge base, nor that of a deleted document, unless it is a legacy document whose
\* Attached event is still on its way.
THEOREM DeletedStaysAway == Spec => DeletedRowStaysAway
  <1>1. IInv /\ [Next]_vars =>
           [(~kb \/ (stream = "deleted" /\ ~Recreating)) /\ row = NoRow => row' = NoRow]_vars
    <2> SUFFICES ASSUME IInv, Next, ~kb \/ (stream = "deleted" /\ ~Recreating), row = NoRow
                 PROVE  row' = NoRow
      OBVIOUS
    <2>1. ASSUME NEW f \in flight, Project(f[1], f[2])
          PROVE  row' = NoRow
      <3> SUFFICES ASSUME row' # NoRow PROVE FALSE
        OBVIOUS
      <3>1. kb /\ f[2] = "Attached"
        BY <2>1, ProjectTouches DEF IInv
      <3>2. f \in (0..MaxRuns) \X Events
        BY DEF IInv, TypeOK
      <3>3. f = <<f[1], "Attached">> /\ f[1] \in 0..MaxRuns
        BY <3>1, <3>2
      <3>4. stream = "live" \/ legacy
        BY <3>3 DEF IInv, AttachedComesFirst
      <3>5. legacy => Recreating
        BY <3>1 DEF Recreating
      <3> QED BY <3>1, <3>4, <3>5
    <2>2. CASE PassStep
      BY <2>2, PassesTyped DEF IInv
    <2>3. CASE DeleteKnowledgeBase \/ RemoveRow
      BY <2>3 DEF DeleteKnowledgeBase, RemoveRow
    <2>4. ASSUME NEW w \in Callers, Lease(w)
          PROVE  row' = NoRow
      <3>1. ~Unchanged(w)
        BY <2>4, LeaseFindsSelected DEF Lease
      <3> QED BY <2>4, <3>1 DEF Lease
    <2>5. ASSUME NEW w \in Callers,
                 \/ Select(w) \/ Answer(w) \/ Request(w) \/ CallRaises(w) \/ Crash(w)
          PROVE  row' = NoRow
      BY <2>5 DEF Select, Answer, Reprocess, ReadLegacyRow, Recreate, ReprocessRefused,
                  Request, CallRaises, Crash
    <2>6. ASSUME NEW w \in Callers, MarkFailed(w)
          PROVE  row' = NoRow
      BY <2>6 DEF MarkFailed
    <2>7. CASE Tick
      BY <2>7 DEF Tick
    <2> QED BY <2>1, <2>2, <2>3, <2>4, <2>5, <2>6, <2>7
            DEF Next, PassStep, Work, Recover, Callers
  <1> QED BY <1>1, Invariance, PTL DEF Spec, DeletedRowStaysAway
=============================================================================
